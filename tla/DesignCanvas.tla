------------------------------ MODULE DesignCanvas ------------------------------
(***************************************************************************)
(* One artwork on disk and everyone who writes it                          *)
(* (apps/cli/src/design): the canonical file with its revision check       *)
(* (store.ts), the projection directory agents read                        *)
(* (current-projection.ts), the Git history (history.ts) and the verdict   *)
(* of one agent turn (turn-input.ts, turn-outcome.ts).                     *)
(*                                                                         *)
(* A process is a record with a program counter; an action is the code     *)
(* between two awaits that matter to another process.  Users' requests run *)
(* in worker processes, the turn's in the daemon.  The two locks are held  *)
(* or lost as a whole: how they are taken is the module DesignLock.        *)
(* A revision is what its digest covers: the content and the editing       *)
(* context.                                                                *)
(***************************************************************************)
EXTENDS Integers, Sequences

CONSTANTS
  Workers,      \* worker processes that serve the users' requests
  Contents,     \* documents the store accepts
  Blank,        \* the canvas a new design starts with
  Drafts,       \* other states an agent leaves its draft in
  Absent, Broken,   \* no design.yaml; one that collection or intake refuses
  None,
  MaxRequests,  \* bound: requests of the users (stops included) and of the agent
  MaxFaults     \* bound: crashes, lost locks, failed writes

ASSUME CanvasAssumption ==
  /\ Blank \in Contents /\ Drafts \subseteq Contents \cup {Absent, Broken}
  /\ {Absent, Broken, None} \cap Contents = {} /\ None \notin {Absent, Broken}
  /\ Workers \cap {"collect", "cancel", "before", "dispatch"} = {}
  /\ None \notin Workers \cup {"collect", "cancel", "before", "dispatch"}
  /\ MaxRequests \in Nat /\ MaxFaults \in Nat

VARIABLES
  canvas,      \* design.json
  projection,  \* the revision design-current holds, None while it is being replaced
  versions,    \* the managed Git branch
  manifest,    \* the turn's frozen input: revision and draft when it was sent
  receipt,     \* receipt.json of the turn
  stamp,       \* the outcome on the turn's history entry
  lock, hlock, \* who has the artwork's lock and the repository's
  proc,
  phase,       \* of the turn in the daemon: none, running, ended
  draft,       \* the agent's draft directory
  submission,  \* of the turn's DesignSyncService
  requests, faults,
  landed,      \* history: the writes of design.json
  raced,       \* history: the turn was stopped while its collection ran
  forgotten,   \* history: the daemon died between the turn's commit and its receipt
  exposed,     \* history: a lock was lost between the last check and the rename
  unguarded    \* history: revisions whose new version lost its lock in the same way

disk == <<canvas, projection, versions, manifest, receipt, stamp>>
turn == <<phase, draft, submission>>
ghosts == <<landed, raced, forgotten, exposed, unguarded>>
vars == <<disk, lock, hlock, proc, turn, requests, faults, ghosts>>

Daemon == {"collect", "cancel", "before", "dispatch"}
Procs == Workers \cup Daemon

NoEditing == [base |-> 0, action |-> <<>>]
Revision(content, editing) == [content |-> content, editing |-> editing]
Outcome(status, revision) == [status |-> status, revision |-> revision]

\* Nothing was stamped, or no receipt written, yet.
NoOutcome == Outcome("none", None)

\* What the turn is sent with: the revision and the draft at that moment.
Input(base, atSend) == [base |-> base, atSend |-> atSend]
NoInput == Input(None, None)

\* actionIdentity
Action(operation, revision, target) == <<operation, revision, target>>

Idle == [at |-> "idle", op |-> "none", base |-> None, content |-> Blank, editing |-> NoEditing,
         target |-> 0, parent |-> 0, seen |-> None, next |-> "idle", verdict |-> None]

Put(p, r) == proc' = [proc EXCEPT ![p] = r]
At(p, at) == proc[p].at = at
Go(p, at) == Put(p, [proc[p] EXCEPT !.at = at])
Fault == faults < MaxFaults /\ faults' = faults + 1
NoFault == UNCHANGED faults

\* holds: the content is reachable in the history.
Holds(content) == \E i \in DOMAIN versions : versions[i].content = content

-----------------------------------------------------------------------------
(* designOperation: the section under the artwork's lock                   *)

\* A failed request is remembered: it may be made again as it was.
Failed(r) == [Idle EXCEPT !.op = r.op, !.base = r.base, !.target = r.target,
                          !.content = IF r.op = "save" THEN r.content ELSE Blank]

\* How an operation goes on after the section, by what it replied.
After(p, r, reply) ==
  IF r.op = "collect"
  THEN [r EXCEPT !.at = "receipt",
                 !.verdict = CASE reply = "ok" -> Outcome("committed", r.seen)
                               [] reply = "conflict" -> Outcome("conflict", None)
                               [] reply = "failed" -> Outcome("invalid", None)]
  ELSE IF reply = "ok" THEN [r EXCEPT !.at = r.next, !.verdict = Outcome("ok", None)]
  ELSE IF hlock = p THEN [r EXCEPT !.at = "hleave", !.verdict = None]
  ELSE Failed(r)

Leave(p, r, reply) ==
  /\ Put(p, After(p, r, reply))
  /\ lock' = IF lock = p THEN None ELSE lock

\* What a save writes: an ordinary one keeps the editing context.
Written(r) ==
  Revision(r.content, IF r.editing = NoEditing THEN canvas.editing ELSE r.editing)

\* The operation is a read that repairs the projection.
Reads(r) == r.op = "reopen" \/ r.next \in {"hlock", "hdecide"}

\* (mutant) a retry whose bytes already landed is acknowledged as it is
LockAcknowledges(p) ==
  /\ At(p, "lock")
  /\ \/ /\ lock \notin {None, p}
        /\ Put(p, After(p, proc[p], "conflict")) /\ UNCHANGED lock
     \/ /\ lock = None
        /\ LET r == [proc[p] EXCEPT !.verdict = None]
           IN IF Reads(r)
              THEN Put(p, [r EXCEPT !.seen = canvas, !.at = "project"]) /\ lock' = p
              ELSE IF canvas = r.base
              THEN Put(p, [r EXCEPT !.seen = Written(r), !.at = "publish"]) /\ lock' = p
              ELSE IF canvas = Written(r)
              THEN Put(p, After(p, [r EXCEPT !.seen = canvas], "ok")) /\ UNCHANGED lock
              ELSE Put(p, After(p, r, "conflict")) /\ UNCHANGED lock
  /\ UNCHANGED <<disk, hlock, turn, requests, faults, ghosts>>

\* withDesignLock and what it decides from the canvas it reads inside: a read
\* repairs the projection; a write whose baseline moved is refused unless its
\* bytes have landed already.  DESIGN_BUSY is told like a conflict.
Lock(p) ==
  /\ At(p, "lock")
  /\ \/ /\ lock \notin {None, p}
        /\ Put(p, After(p, proc[p], "conflict")) /\ UNCHANGED lock
     \/ /\ lock = None
        /\ LET r == [proc[p] EXCEPT !.verdict = None]
           IN IF Reads(r)
              THEN Put(p, [r EXCEPT !.seen = canvas, !.at = "project"]) /\ lock' = p
              ELSE IF canvas = r.base
              THEN Put(p, [r EXCEPT !.seen = Written(r), !.at = "publish"]) /\ lock' = p
              ELSE IF canvas = Written(r)
              THEN Put(p, [r EXCEPT !.seen = canvas, !.at = "project"]) /\ lock' = p
              ELSE Put(p, After(p, r, "conflict")) /\ UNCHANGED lock
  /\ UNCHANGED <<disk, hlock, turn, requests, faults, ghosts>>

\* (mutant) the write does not ask whether the lock is still held
PublishUnheld(p) ==
  /\ At(p, "publish")
  /\ Go(p, "rename")
  /\ UNCHANGED <<disk, lock, hlock, turn, requests, faults, ghosts>>

\* assertHeld, "the last thing before bytes become visible"
Publish(p) ==
  /\ At(p, "publish")
  /\ IF lock = p THEN Go(p, "rename") /\ UNCHANGED lock ELSE Leave(p, proc[p], "failed")
  /\ UNCHANGED <<disk, hlock, turn, requests, faults, ghosts>>

\* publishBytesAtomic: the temporary file, then the rename that shows the bytes.
Rename(p) ==
  /\ At(p, "rename")
  /\ LET r == proc[p]
     IN \/ /\ canvas' = r.seen /\ Go(p, "project") /\ UNCHANGED lock /\ NoFault
           /\ landed' = landed \cup {[rev |-> r.seen, op |-> r.op, base |-> r.base, onto |-> canvas]}
        \/ /\ Fault /\ Leave(p, r, "failed") /\ UNCHANGED <<canvas, landed>>
  /\ UNCHANGED <<projection, versions, manifest, receipt, stamp, hlock, turn, requests, raced,
                 forgotten, exposed, unguarded>>

\* ensureCurrentProjection: nothing to do, or the old directory goes first.
Project(p) ==
  /\ At(p, "project")
  /\ \/ /\ projection = proc[p].seen
        /\ Leave(p, proc[p], "ok") /\ UNCHANGED projection /\ NoFault
     \/ /\ projection # proc[p].seen /\ lock = p
        /\ projection' = None /\ Go(p, "swap") /\ UNCHANGED lock /\ NoFault
     \/ /\ projection # proc[p].seen
        /\ IF lock = p THEN Fault ELSE NoFault
        /\ Leave(p, proc[p], "failed") /\ UNCHANGED projection
  /\ UNCHANGED <<canvas, versions, manifest, receipt, stamp, hlock, turn, requests, ghosts>>

\* The staged directory takes its place.
Swap(p) ==
  /\ At(p, "swap")
  /\ \/ /\ lock = p /\ NoFault
        /\ projection' = proc[p].seen /\ Leave(p, proc[p], "ok")
     \/ /\ IF lock = p THEN Fault ELSE NoFault
        /\ Leave(p, proc[p], "failed") /\ UNCHANGED projection
  /\ UNCHANGED <<canvas, versions, manifest, receipt, stamp, hlock, turn, requests, ghosts>>

\* A read takes no lock when the projection is healthy.
Read(p) ==
  /\ At(p, "read")
  /\ LET r == proc[p]
     IN Put(p, IF projection = canvas THEN [r EXCEPT !.seen = canvas, !.at = r.next]
               ELSE [r EXCEPT !.at = "lock"])
  /\ UNCHANGED <<disk, lock, hlock, turn, requests, faults, ghosts>>

-----------------------------------------------------------------------------
(* designHistoryOperation and recordBeforeAgentVersion                     *)

\* The repository's lock; inside it the current canvas is read again.
HistoryLock(p) ==
  /\ At(p, "hlock")
  /\ \/ /\ hlock = None /\ hlock' = p
        /\ Put(p, IF proc[p].op = "before" THEN [proc[p] EXCEPT !.at = "hdecide"]
                  ELSE [proc[p] EXCEPT !.at = "read", !.next = "hdecide"])
     \/ /\ hlock \notin {None, p} /\ UNCHANGED hlock
        /\ Put(p, IF p = "before" THEN Idle ELSE Failed(proc[p]))
  /\ UNCHANGED <<disk, lock, turn, requests, faults, ghosts>>

\* (mutant) the repository's lock outlives its operation
HistoryLeaves(p) ==
  /\ At(p, "hleave")
  /\ Put(p, IF p = "before" THEN Idle ELSE Failed(proc[p]))
  /\ UNCHANGED <<disk, lock, hlock, turn, requests, faults, ghosts>>

HistoryLeave(p) ==
  /\ At(p, "hleave")
  /\ hlock' = IF hlock = p THEN None ELSE hlock
  /\ Put(p, IF p = "before" THEN Idle ELSE Failed(proc[p]))
  /\ UNCHANGED <<disk, lock, turn, requests, faults, ghosts>>

\* A saved version of the request's baseline, if a former attempt published one.
Priors(r) == {i \in DOMAIN versions : versions[i].kind = "saved" /\ versions[i].source = r.base}

\* The save that follows binds the canvas to version i.
Bind(r, i, content, action) ==
  [r EXCEPT !.at = "bind", !.content = content,
            !.editing = [base |-> i, action |-> action], !.next = "hleave"]

\* (mutant) a retry does not look for the version a former attempt published
CreateAgain(r) ==
  LET cur == r.seen
  IN IF cur # r.base THEN [r EXCEPT !.at = "hleave"]
     ELSE IF cur.editing # NoEditing /\ versions[cur.editing.base].content = cur.content
     THEN [r EXCEPT !.at = "hleave"]
     ELSE [r EXCEPT !.at = "append"]

\* history-create
Create(r) ==
  LET cur == r.seen
      bound(i) == /\ cur.editing = [base |-> i, action |-> Action("saved", r.base, 0)]
                  /\ versions[i].content = cur.content
  IN IF \E i \in Priors(r) : bound(i) THEN [r EXCEPT !.at = "hleave"]
     ELSE IF cur # r.base THEN [r EXCEPT !.at = "hleave"]
     ELSE IF cur.editing # NoEditing /\ versions[cur.editing.base].content = cur.content
     THEN [r EXCEPT !.at = "hleave"]
     ELSE IF Priors(r) = {} THEN [r EXCEPT !.at = "append"]
     ELSE Bind(r, CHOOSE i \in Priors(r) : \A j \in Priors(r) : i <= j,
               cur.content, Action("saved", cur, 0))

\* (mutant) restore trusts that the current content was versioned
RestoreAtOnce(r) ==
  LET cur == r.seen
      historic == versions[r.target].content
      action == Action("restore", r.base, r.target)
  IN IF cur # r.base THEN [r EXCEPT !.at = "hleave"]
     ELSE Bind(r, r.target, historic, action)

\* history-restore: the current content becomes a version before it is replaced.
Restore(r) ==
  LET cur == r.seen
      historic == versions[r.target].content
      action == Action("restore", r.base, r.target)
  IN IF /\ cur.editing.base = r.target /\ cur.content = historic
        /\ cur = r.base \/ cur.editing.action = action
     THEN [r EXCEPT !.at = "hleave"]
     ELSE IF cur # r.base THEN [r EXCEPT !.at = "hleave"]
     ELSE IF Holds(cur.content) THEN Bind(r, r.target, historic, action)
     ELSE [r EXCEPT !.at = "append"]

HistoryDecide(p) ==
  /\ At(p, "hdecide")
  /\ LET r == proc[p]
     IN Put(p, CASE r.op = "version" -> Create(r)
                 [] r.op = "restore" -> Restore(r)
                 [] r.op = "before" ->
                      [r EXCEPT !.at = IF Holds(r.seen.content) THEN "hleave" ELSE "append"])
  /\ UNCHANGED <<disk, lock, hlock, turn, requests, faults, ghosts>>

Kind(op) == CASE op = "version" -> "saved"
              [] op = "restore" -> "before-restore"
              [] op = "before" -> "before-agent"

\* append up to assertHeld: the commit has the branch's head for its parent.  (A head
\* that moves before the check fails the comparison below like one that moves after it.)
AppendVersion(p) ==
  /\ At(p, "append")
  /\ Put(p, IF hlock = p THEN [proc[p] EXCEPT !.at = "update", !.parent = Len(versions)]
            ELSE [proc[p] EXCEPT !.at = "hleave"])
  /\ UNCHANGED <<disk, lock, hlock, turn, requests, faults, ghosts>>

\* git update-ref: the branch moves if its head is still the parent.
UpdateRef(p) ==
  /\ At(p, "update")
  /\ LET r == proc[p]
         i == Len(versions) + 1
     IN IF r.parent = Len(versions)
        THEN /\ versions' = Append(versions, [content |-> r.seen.content, kind |-> Kind(r.op),
                                               source |-> r.seen])
             /\ Put(p, CASE r.op = "version" ->
                              Bind(r, i, r.seen.content, Action("saved", r.seen, 0))
                         [] r.op = "restore" ->
                              Bind(r, r.target, versions[r.target].content,
                                   Action("restore", r.base, r.target))
                         [] r.op = "before" -> [r EXCEPT !.at = "hleave"])
        ELSE Go(p, "hleave") /\ UNCHANGED versions
  /\ UNCHANGED <<canvas, projection, manifest, receipt, stamp, lock, hlock, turn, requests, faults,
                 ghosts>>

\* assertHeld before the save
BindVersion(p) ==
  /\ At(p, "bind")
  /\ Go(p, IF hlock = p THEN "lock" ELSE "hleave")
  /\ UNCHANGED <<disk, lock, hlock, turn, requests, faults, ghosts>>

-----------------------------------------------------------------------------
(* The users' requests                                                     *)

\* A first attempt, from the revision the user looks at.
Request(p) ==
  /\ At(p, "idle") /\ requests < MaxRequests /\ requests' = requests + 1
  /\ \E r \in {[Idle EXCEPT !.at = "lock", !.op = "save", !.base = canvas, !.content = c] :
               c \in Contents}
            \cup {[Idle EXCEPT !.at = "read", !.op = "reopen"]}
            \cup {[Idle EXCEPT !.at = "read", !.op = "version", !.base = canvas, !.next = "hlock"]}
            \cup {[Idle EXCEPT !.at = "read", !.op = "restore", !.base = canvas, !.next = "hlock",
                              !.target = i] : i \in DOMAIN versions} :
       Put(p, r)
  /\ UNCHANGED <<disk, lock, hlock, turn, faults, ghosts>>

\* The same request once more: it failed, its process died, or its answer was lost.
Retry(p) ==
  /\ At(p, "idle") /\ proc[p].op \in {"save", "version", "restore"}
  /\ requests < MaxRequests /\ requests' = requests + 1
  /\ LET r == proc[p]
     IN Put(p, IF r.op = "save" THEN [r EXCEPT !.at = "lock"]
               ELSE [Idle EXCEPT !.at = "read", !.op = r.op, !.base = r.base, !.next = "hlock",
                                 !.target = r.target])
  /\ UNCHANGED <<disk, lock, hlock, turn, faults, ghosts>>

-----------------------------------------------------------------------------
(* The turn in the daemon                                                  *)

\* materializeDesignTurnInput: a frozen input is used again; otherwise the
\* canonical file is read.
Dispatch ==
  /\ phase = "none" /\ At("dispatch", "idle")
  /\ IF manifest # NoInput THEN phase' = "running" /\ UNCHANGED proc
     ELSE /\ Put("dispatch", [Idle EXCEPT !.at = "verify", !.op = "dispatch", !.seen = canvas])
          /\ UNCHANGED phase
  /\ UNCHANGED <<disk, lock, hlock, draft, submission, requests, faults, ghosts>>

\* Its projection is verified, the manifest written, onFrozen called.
Freeze ==
  /\ At("dispatch", "verify")
  /\ LET base == proc["dispatch"].seen
     IN IF projection = base
        THEN /\ manifest' = Input(base, draft)
             /\ phase' = "running"
             /\ proc' = [proc EXCEPT
                  !["dispatch"] = Idle,
                  !["before"] = IF base.content = Blank THEN Idle
                                ELSE [Idle EXCEPT !.at = "hlock", !.op = "before", !.seen = base]]
        ELSE Put("dispatch", Idle) /\ UNCHANGED <<manifest, phase>>
  /\ UNCHANGED <<canvas, projection, versions, receipt, stamp, lock, hlock, draft, submission,
                 requests, faults, ghosts>>

\* The agent's edits show when somebody looks at the draft.
Edited == Drafts \cup {draft}

\* DesignSyncService.handle: the agent has compared its draft with the current canvas.
Resubmit ==
  /\ phase = "running" /\ projection = canvas
  /\ requests < MaxRequests /\ requests' = requests + 1
  /\ \E d \in Edited \ {Absent} :
       draft' = d /\ submission' = [rev |-> canvas, draft |-> d]
  /\ UNCHANGED <<disk, lock, hlock, proc, phase, faults, ghosts>>

\* finalizeTurn, of a turn with output or without
EndTurn ==
  /\ phase = "running" /\ phase' = "ended"
  /\ draft' \in Edited
  /\ \E op \in {"collect", "failed"} :
       Put("collect", [Idle EXCEPT !.at = "outcome", !.op = op])
  /\ UNCHANGED <<disk, lock, hlock, submission, requests, faults, ghosts>>

\* A stop ends the turn; one that comes during the finalization interrupts its
\* owner and leaves the collection running.
Stop ==
  /\ phase \in {"running", "ended"} /\ phase' = "ended"
  /\ proc["cancel"] = Idle /\ stamp = NoOutcome
  /\ requests < MaxRequests /\ requests' = requests + 1
  /\ Put("cancel", [Idle EXCEPT !.at = "outcome", !.op = "cancel"])
  /\ raced' = (raced \/ ~At("collect", "idle"))
  /\ UNCHANGED <<disk, lock, hlock, draft, submission, faults, landed, forgotten, exposed,
                 unguarded>>

-----------------------------------------------------------------------------
(* recordTurnOutcome                                                       *)

Reporters == {"collect", "cancel"}

\* (mutant) a receipt is not looked for
ConsultNothing(p) ==
  /\ At(p, "outcome")
  /\ Put(p, IF stamp # NoOutcome THEN Idle ELSE [proc[p] EXCEPT !.at = "classify"])
  /\ UNCHANGED <<disk, lock, hlock, turn, requests, faults, ghosts>>

\* The first verdict on the entry is kept; a receipt is stamped as it stands.
Consult(p) ==
  /\ At(p, "outcome")
  /\ Put(p, IF stamp # NoOutcome THEN Idle
            ELSE IF receipt # NoOutcome THEN [proc[p] EXCEPT !.verdict = receipt, !.at = "stamp"]
            ELSE [proc[p] EXCEPT !.at = "classify"])
  /\ UNCHANGED <<disk, lock, hlock, turn, requests, faults, ghosts>>

Verdict(r, status) == [r EXCEPT !.verdict = Outcome(status, None), !.at = "receipt"]

\* The draft is the one the turn was sent with and nobody submitted it.
Unchanged ==
  /\ draft = manifest.atSend
  /\ submission = None \/ submission.draft # draft

Baseline ==
  IF submission # None /\ submission.draft = draft THEN submission.rev ELSE manifest.base

\* collectDesignTurnOutcome, or the verdict a stopped or failed turn brings along
Classify(p) ==
  /\ At(p, "classify")
  /\ LET r == proc[p]
     IN Put(p, IF r.op = "cancel" THEN Verdict(r, "cancelled")
               ELSE IF r.op = "failed" THEN Verdict(r, "failed")
               ELSE IF draft = Absent \/ Unchanged THEN Verdict(r, "no_artifact")
               ELSE IF draft = Broken THEN Verdict(r, "invalid")
               ELSE [r EXCEPT !.base = Baseline, !.content = draft, !.at = "lock"])
  /\ UNCHANGED <<disk, lock, hlock, turn, requests, faults, ghosts>>

\* writeDesignTurnReceipt; one that cannot be written is only a lost recovery aid.
WriteReceipt(p) ==
  /\ At(p, "receipt") /\ Go(p, "stamp")
  /\ \/ receipt' = proc[p].verdict /\ NoFault
     \/ Fault /\ UNCHANGED receipt
  /\ UNCHANGED <<canvas, projection, versions, manifest, stamp, lock, hlock, turn, requests,
                 ghosts>>

\* stampOutcome: the first one wins; a stamp that fails is logged.
Stamp(p) ==
  /\ At(p, "stamp")
  /\ \/ /\ stamp' = IF stamp = NoOutcome THEN proc[p].verdict ELSE stamp
        /\ Put(p, Idle) /\ NoFault
     \/ Fault /\ Go(p, "idle") /\ UNCHANGED stamp
  /\ UNCHANGED <<canvas, projection, versions, manifest, receipt, lock, hlock, turn, requests,
                 ghosts>>

-----------------------------------------------------------------------------
(* Faults                                                                  *)

\* A holder that did not beat for too long is robbed and goes on.
LoseLock ==
  /\ Fault
  /\ \/ /\ lock # None /\ lock' = None /\ UNCHANGED hlock
        /\ exposed' = (exposed \/ At(lock, "rename")) /\ UNCHANGED unguarded
     \/ /\ hlock # None /\ hlock' = None /\ UNCHANGED <<lock, exposed>>
        /\ unguarded' = IF At(hlock, "update") /\ proc[hlock].op = "version"
                        THEN unguarded \cup {proc[hlock].seen} ELSE unguarded
  /\ UNCHANGED <<disk, proc, turn, requests, landed, raced, forgotten>>

Released(l, ps) == IF l \in ps THEN None ELSE l

\* A dead holder's locks are taken over (DesignLock).
Crash(p) ==
  /\ Fault /\ ~At(p, "idle") /\ Put(p, Failed(proc[p]))
  /\ lock' = Released(lock, {p}) /\ hlock' = Released(hlock, {p})
  /\ UNCHANGED <<disk, turn, requests, ghosts>>

\* The daemon: an unfinished turn is dispatched again, with its frozen input.
CrashDaemon ==
  /\ Fault
  /\ proc' = [p \in Procs |-> IF p \in Daemon THEN Idle ELSE proc[p]]
  /\ lock' = Released(lock, Daemon) /\ hlock' = Released(hlock, Daemon)
  /\ submission' = None
  /\ phase' = IF stamp = NoOutcome THEN "none" ELSE phase
  /\ forgotten' = (forgotten \/ (receipt = NoOutcome /\ \E l \in landed : l.op = "collect"))
  /\ UNCHANGED <<disk, draft, requests, landed, raced, exposed, unguarded>>

-----------------------------------------------------------------------------
\* A new design, or a drawing with its saved version.
Init ==
  /\ \/ canvas = Revision(Blank, NoEditing) /\ versions = <<>>
     \/ \E c \in Contents \ {Blank} :
          /\ canvas = Revision(c, [base |-> 1, action |-> Action("saved", None, 0)])
          /\ versions = <<[content |-> c, kind |-> "saved", source |-> None]>>
  /\ projection = canvas
  /\ manifest = NoInput /\ receipt = NoOutcome /\ stamp = NoOutcome
  /\ lock = None /\ hlock = None
  /\ proc = [p \in Procs |-> Idle]
  /\ phase = "none" /\ draft \in {Absent} \cup (Drafts \ {Broken}) /\ submission = None
  /\ requests = 0 /\ faults = 0
  /\ landed = {} /\ raced = FALSE /\ forgotten = FALSE /\ exposed = FALSE
  /\ unguarded = {}

Section(p) == Lock(p) \/ Publish(p) \/ Rename(p) \/ Project(p) \/ Swap(p)

History(p) ==
  \/ Read(p) \/ HistoryLock(p) \/ HistoryLeave(p)
  \/ HistoryDecide(p) \/ AppendVersion(p) \/ UpdateRef(p) \/ BindVersion(p)

Report(p) == Consult(p) \/ Classify(p) \/ WriteReceipt(p) \/ Stamp(p)

Next ==
  \/ \E p \in Workers : Request(p) \/ Retry(p) \/ Crash(p)
  \/ \E p \in Workers \cup {"collect"} : Section(p)
  \/ \E p \in Workers \cup {"before"} : History(p)
  \/ \E p \in Reporters : Report(p)
  \/ Dispatch \/ Freeze \/ Resubmit \/ EndTurn \/ Stop
  \/ LoseLock \/ CrashDaemon

Spec == Init /\ [][Next]_vars

-----------------------------------------------------------------------------
(* Properties                                                              *)

Locked == {"publish", "rename", "project", "swap"}

Where ==
  Locked \cup {"idle", "lock", "read", "hlock", "hleave", "hdecide", "append", "update", "bind",
               "verify", "outcome", "classify", "receipt", "stamp"}

\* Every variable has its type, the canvas never names a version of its history
\* that does not exist, and who holds a lock is inside the section it guards
\* (store.ts, history.ts).
TypeOK ==
  /\ canvas.content \in Contents
  /\ canvas.editing = NoEditing \/ canvas.editing.base \in DOMAIN versions
  /\ \A i \in DOMAIN versions :
       versions[i].content \in Contents /\ versions[i].kind \in {"saved", "before-restore", "before-agent"}
  /\ \A p \in Procs : proc[p].at \in Where
  /\ lock # None => proc[lock].at \in Locked
  /\ hlock # None => proc[hlock].at \in Where \ {"idle", "hlock"}
  /\ phase \in {"none", "running", "ended"}
  /\ phase # "none" => manifest # NoInput
  /\ requests \in 0..MaxRequests /\ faults \in 0..MaxFaults

\* A write replaces only the revision it was checked against: a save, a restore
\* or a collection that decided against another canvas never lands, whatever
\* locks are lost, unless the loss falls between assertHeld and the rename.
NoLostUpdate == exposed \/ \A l \in landed : l.base = l.onto

\* Content a restore replaces is in the history before it is replaced.
RestoreKeepsReplaced ==
  \A l \in landed : l.op = "restore" /\ l.base = l.onto => Holds(l.onto.content)

\* However often a version of a revision is asked for, by however many
\* processes, the history holds one saved version of it, unless the process that
\* saved it lost the lock between assertHeld and update-ref: git compares the
\* branch's head, which another process may have read after it moved.
OneSavedPerRevision ==
  \A i, j \in DOMAIN versions :
     versions[i].kind = "saved" /\ versions[j].kind = "saved"
       /\ versions[i].source = versions[j].source
       => i = j \/ versions[i].source \in unguarded

Collected == \E l \in landed : l.op = "collect"

\* The verdict on a turn's entry is what happened: a committed one names a
\* revision the turn's collection found or made canonical, and a turn told
\* otherwise did not touch the canvas; the receipt says the same.  Two limits
\* turn-outcome.ts states or has: a crash between the commit and the receipt,
\* and a stop during the collection.
VerdictIsTrue ==
  stamp # NoOutcome /\ ~raced /\ ~forgotten =>
    /\ stamp.status = "committed" =>
         stamp.revision \in {canvas} \cup {l.rev : l \in landed} \cup {l.onto : l \in landed}
    /\ stamp.status \in {"conflict", "no_artifact", "cancelled", "failed"} => ~Collected
    /\ receipt # NoOutcome => receipt = stamp

\* "a cancelled turn must not change the canvas" (turn-outcome.ts,
\* recordDesignTurnTerminalOutcome; finalizeCancelledTurnEffect).
CancelledTurnLeavesCanvas == stamp # NoOutcome /\ stamp.status = "cancelled" => ~Collected

\* Who is told that its operation succeeded leaves the canvas' current files
\* ready: the projection is the revision it is told, and if it still has the
\* lock that is the canvas.
AckShown ==
  \A p \in Workers \cup {"collect"} :
    LET r == proc[p]'
        acked == /\ proc[p].at \in Locked \cup {"lock"} /\ r.at \notin Locked \cup {"lock"}
                 /\ r.verdict # None /\ r.verdict.status \in {"ok", "committed"}
    IN acked /\ ~exposed => projection' = r.seen /\ (lock = p => canvas' = r.seen)

AckedIsProjected == [][AckShown]_vars
=============================================================================
