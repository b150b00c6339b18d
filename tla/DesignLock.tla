------------------------------- MODULE DesignLock -------------------------------
(***************************************************************************)
(* The write lock of a design (apps/cli/src/design/lock.ts) around the     *)
(* compare-and-swap of a save (designOperation, store.ts).  The daemon and *)
(* the desktop's worker save the same design.json; the lock is a file that *)
(* is created exclusively, stolen by renaming it aside when it looks too   *)
(* old, and unlinked on release.  Each action is one file-system call with *)
(* the code up to the next await.                                          *)
(*                                                                         *)
(* A call of withDesignLock creates at most one lock file and draws its    *)
(* token once, so a lock file is identified with the call that created it. *)
(***************************************************************************)
EXTENDS Integers

CONSTANTS
  Calls,       \* calls of designOperation that save one design
  NoCall,      \* there is no lock file
  Revisions,   \* revision ids: the digest of design.json
  Initial,     \* the revision the design starts with
  Content,     \* the revision each call saves
  Stale,       \* DESIGN_LOCK_STALE_MS, in ticks
  Timeout,     \* DESIGN_LOCK_TIMEOUT_MS, in ticks
  MaxTime,     \* bound on the clock
  MaxCrashes   \* bound: calls whose process dies

ASSUME LockAssumption ==
  /\ NoCall \notin Calls
  /\ Initial \in Revisions
  /\ Content \in [Calls -> Revisions]
  /\ Stale \in Nat \ {0} /\ Timeout \in Nat
  /\ MaxTime \in Nat /\ MaxCrashes \in Nat

VARIABLES
  lock,      \* the call whose file is at .design.lock
  mtime,     \* the file's modification time
  design,    \* the revision of design.json
  pc,        \* where a call stands
  base,      \* baseRevisionId
  started,   \* when the call was made; its deadline is Timeout later
  seen,      \* what lstat found: the file and its mtime
  now,       \* the wall clock
  crashes,
  robbed,    \* history: calls whose lock file another call removed
  exposed,   \* history: ... between their assertHeld and their publication
  lost       \* history: revisions overwritten by a save not based on them

vars == <<lock, mtime, design, pc, base, started, seen, now, crashes, robbed, exposed, lost>>
history == <<robbed, exposed, lost>>
clock == <<now, crashes>>

Critical == {"token", "compare", "assert", "publish", "release", "unlink"}
Waiting == {"create", "stat", "rename", "deadline"}
Ended == {"done", "busy", "dead"}
Stages == {"idle", "arrive"} \cup Waiting \cup Critical \cup Ended
Times == 0..MaxTime

At(c, stage) == pc[c] = stage
Goto(c, stage) == pc' = [pc EXCEPT ![c] = stage]

\* readLockToken(file) === token
HoldsToken(c) == lock = c

\* The file at the path is removed by call c, whoever created it.
Remove(c) ==
  /\ lock' = NoCall
  /\ robbed' = robbed \cup ({lock} \ {c, NoCall})
  /\ exposed' = exposed \cup {d \in {lock} \ {c, NoCall} : pc[d] = "publish"}
  /\ UNCHANGED lost

-----------------------------------------------------------------------------
(* Acquisition                                                             *)

\* The caller reads the design, without the lock, ...
ReadBase(c) ==
  /\ At(c, "idle") /\ Goto(c, "arrive")
  /\ base' = [base EXCEPT ![c] = design]
  /\ UNCHANGED <<lock, mtime, design, started, seen, clock, history>>

\* ... and asks for a save some time later (its deadline is on the clock).
Arrive(c) ==
  /\ now + Timeout <= MaxTime
  /\ At(c, "arrive") /\ Goto(c, "create")
  /\ started' = [started EXCEPT ![c] = now]
  /\ UNCHANGED <<lock, mtime, design, base, seen, clock, history>>

\* (mutant) open(file, 'w') instead of 'wx'
CreateAnyway(c) ==
  /\ At(c, "create") /\ Goto(c, "token")
  /\ lock' = c
  /\ mtime' = [mtime EXCEPT ![c] = now]
  /\ UNCHANGED <<design, base, started, seen, clock, history>>

\* tryCreateLock: open(file, 'wx').
Create(c) ==
  /\ At(c, "create")
  /\ \/ /\ lock = NoCall /\ Goto(c, "token")
        /\ lock' = c
        /\ mtime' = [mtime EXCEPT ![c] = now]
     \/ /\ lock # NoCall /\ Goto(c, "stat")
        /\ UNCHANGED <<lock, mtime>>
  /\ UNCHANGED <<design, base, started, seen, clock, history>>

\* The token is written into the file, wherever that file is by now.
WriteToken(c) ==
  /\ At(c, "token") /\ Goto(c, "compare")
  /\ mtime' = [mtime EXCEPT ![c] = now]
  /\ UNCHANGED <<lock, design, base, started, seen, clock, history>>

\* stealStaleLock: the lstat, ...
Stat(c) ==
  /\ At(c, "stat")
  /\ \/ /\ lock = NoCall /\ Goto(c, "deadline")
        /\ UNCHANGED seen
     \/ /\ lock # NoCall /\ Goto(c, "rename")
        /\ seen' = [seen EXCEPT ![c] = [file |-> lock, at |-> mtime[lock]]]
  /\ UNCHANGED <<lock, mtime, design, base, started, clock, history>>

\* (mutant) the age of the file is not looked at
StealAnyAge(c) ==
  /\ At(c, "rename") /\ Goto(c, "deadline")
  /\ Remove(c)
  /\ UNCHANGED <<mtime, design, base, started, seen, clock>>

\* ... and the rename of whatever file is there by then.
Steal(c) ==
  /\ At(c, "rename") /\ Goto(c, "deadline")
  /\ IF now - seen[c].at >= Stale THEN Remove(c) ELSE UNCHANGED <<lock, history>>
  /\ UNCHANGED <<mtime, design, base, started, seen, clock>>

\* (mutant) the deadline is not looked at
WaitForever(c) ==
  /\ At(c, "deadline") /\ Goto(c, "create")
  /\ UNCHANGED <<lock, mtime, design, base, started, seen, clock, history>>

\* Give up with DESIGN_BUSY, or sleep for at least DESIGN_LOCK_RETRY_MS (less
\* than a tick) and try again.
CheckDeadline(c) ==
  /\ At(c, "deadline")
  /\ Goto(c, IF now >= started[c] + Timeout THEN "busy" ELSE "create")
  /\ UNCHANGED <<lock, mtime, design, base, started, seen, clock, history>>

-----------------------------------------------------------------------------
(* The critical section                                                    *)

\* designOperation reads the current revision under the lock and compares it
\* with the baseline; bytes that already landed need no second write.
Compare(c) ==
  /\ At(c, "compare")
  /\ Goto(c, IF design = base[c] THEN "assert" ELSE "release")
  /\ UNCHANGED <<lock, mtime, design, base, started, seen, clock, history>>

\* (mutant) the effect is not fenced
PublishUnchecked(c) ==
  /\ At(c, "assert") /\ Goto(c, "publish")
  /\ UNCHANGED <<lock, mtime, design, base, started, seen, clock, history>>

\* assertHeld
AssertHeld(c) ==
  /\ At(c, "assert")
  /\ Goto(c, IF HoldsToken(c) THEN "publish" ELSE "release")
  /\ UNCHANGED <<lock, mtime, design, base, started, seen, clock, history>>

\* publishBytesAtomic, which may fail before its rename.
Publish(c) ==
  /\ At(c, "publish") /\ Goto(c, "release")
  /\ \/ /\ design' = Content[c]
        /\ lost' = IF design = base[c] THEN lost ELSE lost \cup {design}
     \/ UNCHANGED <<design, lost>>
  /\ UNCHANGED <<lock, mtime, base, started, seen, clock, robbed, exposed>>

\* releaseLock: the token is read, ...
ReadToken(c) ==
  /\ At(c, "release")
  /\ Goto(c, IF HoldsToken(c) THEN "unlink" ELSE "done")
  /\ UNCHANGED <<lock, mtime, design, base, started, seen, clock, history>>

\* ... then the path is unlinked.
Unlink(c) ==
  /\ At(c, "unlink") /\ Goto(c, "done")
  /\ Remove(c)
  /\ UNCHANGED <<mtime, design, base, started, seen, clock>>

-----------------------------------------------------------------------------
(* The environment                                                         *)

\* The process of a call dies; its lock file stays.
Crash(c) ==
  /\ crashes < MaxCrashes /\ crashes' = crashes + 1
  /\ ~At(c, "idle") /\ pc[c] \notin Ended /\ Goto(c, "dead")
  /\ UNCHANGED <<lock, mtime, design, base, started, seen, now, history>>

\* Time passes at any point: a timer is late when the machine was suspended.
Tick ==
  /\ now < MaxTime /\ now' = now + 1
  /\ UNCHANGED <<lock, mtime, design, pc, base, started, seen, crashes, history>>

-----------------------------------------------------------------------------
Init ==
  /\ lock = NoCall
  /\ mtime = [c \in Calls |-> 0]
  /\ design = Initial
  /\ pc = [c \in Calls |-> "idle"]
  /\ base = [c \in Calls |-> Initial]
  /\ started = [c \in Calls |-> 0]
  /\ seen = [c \in Calls |-> [file |-> NoCall, at |-> 0]]
  /\ now = 0 /\ crashes = 0
  /\ robbed = {} /\ exposed = {} /\ lost = {}

Acquire(c) ==
  Create(c) \/ WriteToken(c) \/ Stat(c) \/ Steal(c) \/ CheckDeadline(c)

Work(c) ==
  Compare(c) \/ AssertHeld(c) \/ Publish(c) \/ ReadToken(c) \/ Unlink(c)

Next ==
  \/ \E c \in Calls : ReadBase(c) \/ Arrive(c) \/ Acquire(c) \/ Work(c) \/ Crash(c)
  \/ Tick

Spec == Init /\ [][Next]_vars

\* A call that can take a step takes one, and the clock goes on.
FairSpec == Spec /\ WF_vars(Tick) /\ \A c \in Calls : WF_vars(Acquire(c) \/ Work(c))

-----------------------------------------------------------------------------
(* Properties                                                              *)

\* The variables have their types: the path holds nothing or the file of a
\* call, and all times are on the clock.
TypeOK ==
  /\ lock \in Calls \cup {NoCall}
  /\ mtime \in [Calls -> Times]
  /\ design \in Revisions
  /\ pc \in [Calls -> Stages]
  /\ base \in [Calls -> Revisions]
  /\ started \in [Calls -> Times]
  /\ seen \in [Calls -> [file: Calls \cup {NoCall}, at: Times]]
  /\ now \in Times /\ crashes \in 0..MaxCrashes
  /\ robbed \in SUBSET Calls /\ exposed \in SUBSET robbed
  /\ lost \in SUBSET Revisions

\* Two calls are past the creation of their lock file at once only if another
\* call took the file of one of them.
Exclusion ==
  \A c, d \in Calls \ robbed :
    pc[c] \in Critical /\ pc[d] \in Critical => c = d

\* Each revision is saved on top of the one its caller knew, as long as no lock
\* was taken in the one window lock.ts leaves open: between assertHeld and the
\* rename that publishes.  A lock taken earlier costs the holder its save only.
LossNeedsOpenWindow == lost # {} => exposed # {}

\* Before any lock could be Stale old, none is taken and no save is lost.
SafeWhileYoung == now < Stale => robbed = {} /\ lost = {}

\* Acquisition is bounded, also when the holder died: every call ends.
EveryCallEnds == \A c \in Calls : At(c, "create") ~> pc[c] \in Ended
=============================================================================
