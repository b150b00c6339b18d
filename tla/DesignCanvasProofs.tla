--------------------------- MODULE DesignCanvasProofs ---------------------------
(***************************************************************************)
(* What DesignCanvas promises for any number of worker processes, any      *)
(* documents and any number of requests and faults.                        *)
(*                                                                         *)
(* That no write lands on a revision it was not checked against needs to   *)
(* know that whoever has the artwork's lock and is about to write still    *)
(* sees the revision it compared (WritersMatch).  The two promises of the  *)
(* history need to know what was found out before a version is appended    *)
(* or a restore is bound (Deliberate).                                     *)
(*                                                                         *)
(* That the verdict of a turn is what happened needs to know of whoever    *)
(* reports how far it is and what is on record by then (Trusted).          *)
(*                                                                         *)
(* The types are last (TInv): that the canvas never names a version the    *)
(* history does not hold needs the same of every revision a process has    *)
(* read and may write, and that a lock is held only inside its section.    *)
(***************************************************************************)
EXTENDS DesignCanvas, SequenceTheorems, WellFoundedInduction, TLAPS

Nexts == {"idle", "hlock", "hdecide", "hleave"}
HistoryOps == {"version", "restore", "before"}

\* A process is a record with the fields of Idle.
Formed(r) ==
  r = [at |-> r.at, op |-> r.op, base |-> r.base, content |-> r.content, editing |-> r.editing,
       target |-> r.target, parent |-> r.parent, seen |-> r.seen, next |-> r.next,
       verdict |-> r.verdict]

\* Only the operations of the history get to the history's sections, and a restore
\* reads on its way there; it has no part in the report of a turn.
Sorted(r) ==
  /\ r.next \in Nexts
  /\ r.at \in {"hlock", "hdecide", "append", "update"} => r.op \in HistoryOps
  /\ r.next \in {"hlock", "hdecide"} => r.op \in HistoryOps
  /\ r.at = "read" /\ r.op = "restore" => r.next \in {"hlock", "hdecide"}
  /\ r.at \in {"outcome", "classify"} => r.op # "restore"

\* What is appended for a request is the revision the request started from.
AppendsBase(r) ==
  r.at \in {"append", "update"} /\ r.op \in {"version", "restore"} => r.seen = r.base

\* A restore that is on its way to write has what it replaces in the history.
Kept(r) ==
  /\ r.op = "restore"
  /\ \/ r.at \in {"bind", "publish", "rename"}
     \/ r.at = "lock" /\ r.next \notin {"hlock", "hdecide"}
  => Holds(r.base.content)

Sound(r) == Formed(r) /\ Sorted(r) /\ AppendsBase(r)

Processes == /\ proc = [p \in Procs |-> proc[p]]
             /\ \A p \in Procs : Sound(proc[p])

\* As long as no rename was exposed: who is about to rename has the lock, who is
\* about to write and has the lock still sees the revision it compared, and who is
\* about to project and has it the revision it projects.
WritersMatch ==
  ~exposed =>
    \A p \in Procs :
      /\ At(p, "rename") => lock = p
      /\ proc[p].at \in {"publish", "rename"} /\ lock = p => canvas = proc[p].base
      /\ proc[p].at \in {"project", "swap"} /\ lock = p => canvas = proc[p].seen

\* Whoever appends a saved version under the repository's lock knows there is none, and
\* who has checked the lock has it still, but for a revision that lost it right there.
FoundNone(p, r) ==
  r.op = "version" /\ (r.at = "update" \/ (r.at = "append" /\ hlock = p)) =>
    r.seen \in unguarded \/ (hlock = p /\ Priors(r) = {})

SaversFoundNone == \A p \in Procs : FoundNone(p, proc[p])

Records == \E S : versions \in Seq(S)

Deliberate == \A p \in Procs : Kept(proc[p])

IInv == /\ Processes /\ Records /\ exposed \in BOOLEAN
        /\ WritersMatch /\ NoLostUpdate
        /\ Deliberate /\ RestoreKeepsReplaced
        /\ SaversFoundNone /\ OneSavedPerRevision

-----------------------------------------------------------------------------
(* Records                                                                 *)

\* A process moves on and stays what it is.
LEMMA Moved ==
  ASSUME NEW r, Formed(r), NEW x, NEW s, s = [r EXCEPT !.at = x]
  PROVE  /\ Formed(s)
         /\ s.at = x /\ s.op = r.op /\ s.base = r.base /\ s.content = r.content
         /\ s.seen = r.seen /\ s.next = r.next
  BY DEF Formed

\* A process is told something and stays what it is.
LEMMA Told ==
  ASSUME NEW r, Formed(r), NEW v, NEW s, s = [r EXCEPT !.verdict = v]
  PROVE  /\ Formed(s)
         /\ s.at = r.at /\ s.op = r.op /\ s.base = r.base /\ s.content = r.content
         /\ s.seen = r.seen /\ s.next = r.next
  BY DEF Formed

\* A process that is nowhere near a write or a version.
LEMMA Apart ==
  ASSUME NEW r, Formed(r), r.next \in Nexts,
         r.at \notin {"hlock", "hdecide", "append", "update", "bind", "publish", "rename", "lock", "read"},
         r.next \in {"hlock", "hdecide"} => r.op \in HistoryOps,
         r.at \in {"outcome", "classify"} => r.op # "restore"
  PROVE  Sound(r) /\ Kept(r)
  BY DEF Sound, Sorted, AppendsBase, Kept

\* A process at rest is as the invariant wants it.
LEMMA IdleSound == Sound(Idle) /\ Kept(Idle) /\ Idle.at = "idle"
<1>1. Idle.at = "idle" /\ Idle.next = "idle" /\ Idle.op = "none"
  BY DEF Idle
<1>2. Formed(Idle)
  BY DEF Formed, Idle
<1> QED
  BY <1>1, <1>2, Apart DEF Nexts

\* So is one whose request failed.
LEMMA FailedSound ==
  ASSUME NEW r, NEW s, s = Failed(r)
  PROVE  Sound(s) /\ Kept(s) /\ s.at = "idle"
<1> DEFINE c == IF r.op = "save" THEN r.content ELSE Blank
<1>1. Formed(Idle) /\ Idle.at = "idle" /\ Idle.next = "idle"
  BY IdleSound DEF Idle, Sound
<1>2. s = [Idle EXCEPT !.op = r.op, !.base = r.base, !.target = r.target, !.content = c]
  BY DEF Failed
<1> HIDE DEF c
<1>3. s.at = "idle" /\ s.next = "idle"
  BY <1>1, <1>2 DEF Formed
<1>4. Formed(s)
  BY <1>1, <1>2 DEF Formed
<1> QED
  BY <1>3, <1>4, Apart DEF Nexts

\* A process that goes to bind the canvas keeps its request.
LEMMA BindSound ==
  ASSUME NEW r, Sound(r), NEW i, NEW content, NEW action, NEW s, s = Bind(r, i, content, action)
  PROVE  Sound(s) /\ s.at = "bind" /\ s.op = r.op /\ s.base = r.base
<1>1. Formed(r)
  BY DEF Sound
<1> DEFINE e == [base |-> i, action |-> action]
<1>2. s = [r EXCEPT !.at = "bind", !.content = content, !.editing = e, !.next = "hleave"]
  BY DEF Bind
<1> HIDE DEF e
<1>3. s.at = "bind" /\ s.op = r.op /\ s.base = r.base /\ s.next = "hleave"
  BY <1>1, <1>2 DEF Formed
<1>4. Formed(s)
  BY <1>1, <1>2 DEF Formed
<1> QED
  BY <1>3, <1>4 DEF Sound, Sorted, AppendsBase, Nexts

\* An operation that leaves the section under the artwork's lock.
LEMMA AfterSound ==
  ASSUME NEW r, Sound(r), NEW p, NEW reply \in {"ok", "conflict", "failed"},
         NEW s, s = After(p, r, reply)
  PROVE  Sound(s) /\ Kept(s) /\ s.at \in {"idle", "receipt", "hlock", "hdecide", "hleave"}
<1>1. Formed(r) /\ Sorted(r)
  BY DEF Sound
<1>2. ASSUME NEW at \in Nexts \cup {"receipt"}, NEW v, s = [r EXCEPT !.at = at, !.verdict = v],
             at \in {"hlock", "hdecide"} => r.op \in HistoryOps
      PROVE  Sound(s) /\ Kept(s) /\ s.at = at
  <2>1. Formed(s)
    BY <1>1, <1>2 DEF Formed
  <2>2. s.at = at /\ s.op = r.op /\ s.next = r.next
    BY <1>1, <1>2 DEF Formed
  <2> QED
    BY <1>1, <1>2, <2>1, <2>2 DEF Sound, Sorted, AppendsBase, Kept, Nexts
<1>3. CASE r.op = "collect"
  <2>1. PICK v : s = [r EXCEPT !.at = "receipt", !.verdict = v]
    BY <1>3 DEF After
  <2> QED
    BY <1>2, <2>1
<1>4. CASE r.op # "collect" /\ reply = "ok"
  <2>1. s = [r EXCEPT !.at = r.next, !.verdict = Outcome("ok", None)]
    BY <1>4 DEF After
  <2>2. r.next \in Nexts /\ (r.next \in {"hlock", "hdecide"} => r.op \in HistoryOps)
    BY <1>1 DEF Sorted
  <2> QED
    BY <1>2, <2>1, <2>2 DEF Nexts
<1>5. CASE r.op # "collect" /\ reply # "ok" /\ hlock = p
  <2>1. s = [r EXCEPT !.at = "hleave", !.verdict = None]
    BY <1>5 DEF After
  <2> QED
    BY <1>2, <2>1 DEF Nexts
<1>6. CASE r.op # "collect" /\ reply # "ok" /\ hlock # p
  BY <1>6, FailedSound DEF After
<1> QED
  BY <1>3, <1>4, <1>5, <1>6

-----------------------------------------------------------------------------
(* One process moves                                                       *)

\* Put changes one process.
LEMMA PutMoves ==
  ASSUME Processes, NEW p \in Procs, NEW r, Put(p, r), Sound(r)
  PROVE  /\ Processes'
         /\ proc'[p] = r
         /\ \A q \in Procs \ {p} : proc'[q] = proc[q]
<1>1. proc'[p] = r /\ \A q \in Procs \ {p} : proc'[q] = proc[q]
  BY DEF Processes, Put
<1>2. proc' = [q \in Procs |-> proc'[q]]
  BY DEF Processes, Put
<1>3. \A q \in Procs : Sound(proc'[q])
  BY <1>1 DEF Processes
<1> QED
  BY <1>1, <1>2, <1>3 DEF Processes

\* A step of one process that neither writes the canvas nor appends a version,
\* takes a lock only when it is free and leaves only its own.
LEMMA CalmStep ==
  ASSUME IInv, NEW p \in Procs, NEW r, Put(p, r), Sound(r), Kept(r),
         UNCHANGED <<canvas, versions, landed, exposed, unguarded>>,
         lock' = lock \/ lock = p \/ (lock = None /\ lock' = p),
         hlock' = hlock \/ hlock = p \/ (hlock = None /\ hlock' = p),
         lock' \in {lock, p, None}, hlock' \in {hlock, p, None},
         r.at = "rename" /\ ~exposed => lock' = p,
         r.at \in {"publish", "rename"} /\ lock' = p /\ ~exposed => canvas = r.base,
         r.at \in {"project", "swap"} /\ lock' = p /\ ~exposed => canvas = r.seen,
         r.op = "version" /\ (r.at = "update" \/ (r.at = "append" /\ hlock' = p)) =>
           r.seen \in unguarded \/ (hlock' = p /\ Priors(r) = {})
  PROVE  IInv'
<1> USE CanvasAssumption
<1>1. None \notin Procs
  BY DEF Procs, Daemon
<1>2. Processes' /\ proc'[p] = r /\ \A q \in Procs \ {p} : proc'[q] = proc[q]
  BY PutMoves DEF IInv
<1>3. Records' /\ (exposed \in BOOLEAN)'
  BY DEF IInv, Records
<1>4. WritersMatch'
  <2> SUFFICES ASSUME ~exposed, NEW q \in Procs
               PROVE  /\ At(q, "rename")' => lock' = q
                      /\ proc'[q].at \in {"publish", "rename"} /\ lock' = q
                           => canvas' = proc'[q].base
                      /\ proc'[q].at \in {"project", "swap"} /\ lock' = q
                           => canvas' = proc'[q].seen
    BY DEF WritersMatch
  <2>1. CASE q = p
    BY <1>2, <2>1 DEF At
  <2>2. CASE q # p
    <3>1. proc'[q] = proc[q] /\ (lock' = q <=> lock = q)
      BY <1>1, <1>2, <2>2
    <3> QED
      BY <3>1 DEF IInv, WritersMatch, At
  <2> QED
    BY <2>1, <2>2
<1>5. NoLostUpdate' /\ RestoreKeepsReplaced'
  BY DEF IInv, NoLostUpdate, RestoreKeepsReplaced, Holds
<1>6. Deliberate'
  BY <1>2 DEF IInv, Deliberate, Kept, Holds
<1>7. SaversFoundNone'
  <2> SUFFICES ASSUME NEW q \in Procs
               PROVE  FoundNone(q, proc[q])'
    BY DEF SaversFoundNone
  <2>1. CASE q = p
    BY <1>2, <2>1 DEF FoundNone, Priors
  <2>2. CASE q # p
    <3>1. proc'[q] = proc[q] /\ (hlock' = q <=> hlock = q)
      BY <1>1, <1>2, <2>2
    <3> QED
      BY <3>1 DEF IInv, SaversFoundNone, FoundNone, Priors
  <2> QED
    BY <2>1, <2>2
<1>8. OneSavedPerRevision'
  BY DEF IInv, OneSavedPerRevision
<1> QED
  BY <1>2, <1>3, <1>4, <1>5, <1>6, <1>7, <1>8 DEF IInv

\* A process that goes nowhere near a write or a version.
LEMMA Harmless ==
  ASSUME IInv, NEW p \in Procs, NEW r, Put(p, r), Sound(r), Kept(r),
         UNCHANGED <<canvas, versions, landed, exposed, unguarded>>,
         r.at \notin {"publish", "rename", "append", "update"},
         r.at \in {"project", "swap"} /\ lock' = p /\ ~exposed => canvas = r.seen,
         lock' = lock \/ (lock = p /\ lock' = None) \/ (lock = None /\ lock' = p),
         hlock' = hlock \/ (hlock = p /\ hlock' = None) \/ (hlock = None /\ hlock' = p)
  PROVE  IInv'
  BY CalmStep

\* Several processes go nowhere near a write or a version.
LEMMA HarmlessMany ==
  ASSUME IInv, NEW P \in SUBSET Procs, Processes',
         \A p \in P : proc'[p].at \notin Locked \cup {"append", "update"} /\ Kept(proc'[p]),
         \A q \in Procs \ P : proc'[q] = proc[q],
         UNCHANGED <<canvas, versions, landed, exposed, unguarded>>,
         lock' = lock \/ (lock \in P /\ lock' = None),
         hlock' = hlock \/ (hlock \in P /\ hlock' = None)
  PROVE  IInv'
<1>1. None \notin Procs
  BY CanvasAssumption DEF Procs, Daemon
<1>2. Records' /\ (exposed \in BOOLEAN)'
  BY DEF IInv, Records
<1>3. WritersMatch'
  <2> SUFFICES ASSUME ~exposed, NEW q \in Procs, proc'[q].at \in Locked
               PROVE  /\ proc'[q].at = "rename" => lock' = q
                      /\ proc'[q].at \in {"publish", "rename"} /\ lock' = q
                           => canvas' = proc'[q].base
                      /\ proc'[q].at \in {"project", "swap"} /\ lock' = q
                           => canvas' = proc'[q].seen
    BY DEF WritersMatch, At, Locked
  <2>1. q \notin P /\ proc'[q] = proc[q] /\ (lock' = q <=> lock = q)
    BY <1>1
  <2> QED
    BY <2>1 DEF IInv, WritersMatch, At
<1>4. NoLostUpdate' /\ RestoreKeepsReplaced'
  BY DEF IInv, NoLostUpdate, RestoreKeepsReplaced, Holds
<1>5. Deliberate'
  BY DEF IInv, Deliberate, Kept, Holds
<1>6. SaversFoundNone'
  <2> SUFFICES ASSUME NEW q \in Procs, proc'[q].at \in {"append", "update"}
               PROVE  FoundNone(q, proc[q])'
    BY DEF SaversFoundNone, FoundNone
  <2>1. q \notin P /\ proc'[q] = proc[q] /\ (hlock' = q <=> hlock = q)
    BY <1>1
  <2> QED
    BY <2>1 DEF IInv, SaversFoundNone, FoundNone, Priors
<1>7. OneSavedPerRevision'
  BY DEF IInv, OneSavedPerRevision
<1> QED
  BY <1>2, <1>3, <1>4, <1>5, <1>6, <1>7 DEF IInv

\* A process that only moves on, away from writes and versions.
LEMMA GoApart ==
  ASSUME Processes, NEW p \in Procs, NEW x, NEW r, r = [proc[p] EXCEPT !.at = x],
         x \notin {"hlock", "hdecide", "append", "update", "bind", "publish", "rename", "lock", "read"},
         x \in {"outcome", "classify"} => proc[p].op # "restore"
  PROVE  Sound(r) /\ Kept(r) /\ r.at = x
<1>1. Formed(proc[p]) /\ Sorted(proc[p])
  BY DEF Processes, Sound
<1>2. Formed(r) /\ r.at = x /\ r.op = proc[p].op /\ r.next = proc[p].next
  BY <1>1, Moved
<1> QED
  BY <1>1, <1>2, Apart DEF Sorted

-----------------------------------------------------------------------------
(* The section under the artwork's lock                                    *)

\* withDesignLock: a write that goes on has just compared the canvas.
LEMMA LockKeeps ==
  ASSUME IInv, NEW p \in Procs, Lock(p)
  PROVE  IInv'
<1>1. Sound(proc[p]) /\ Kept(proc[p]) /\ proc[p].at = "lock"
  BY DEF IInv, Processes, Deliberate, Lock, At
<1>2. UNCHANGED <<canvas, versions, landed, exposed, unguarded, hlock>>
  BY DEF Lock, disk, ghosts
<1>3. CASE lock \notin {None, p} /\ Put(p, After(p, proc[p], "conflict")) /\ UNCHANGED lock
  <2>1. PICK s : s = After(p, proc[p], "conflict")
    OBVIOUS
  <2>2. Sound(s) /\ Kept(s) /\ s.at \notin Locked \cup {"append", "update"}
    BY <1>1, <2>1, AfterSound DEF Locked
  <2> QED
    BY <1>2, <1>3, <2>1, <2>2, Harmless DEF Locked
<1>4. ASSUME lock = None, NEW r, r = [proc[p] EXCEPT !.verdict = None]
      PROVE  /\ Formed(r) /\ Sound(r) /\ Kept(r)
             /\ r.at = "lock" /\ r.op = proc[p].op /\ r.base = proc[p].base
             /\ r.next = proc[p].next
  <2>1. Formed(proc[p])
    BY <1>1 DEF Sound
  <2>2. Formed(r) /\ r.at = "lock" /\ r.op = proc[p].op /\ r.base = proc[p].base
        /\ r.seen = proc[p].seen /\ r.next = proc[p].next
    BY <1>1, <1>4, <2>1, Told
  <2> QED
    BY <1>1, <2>2 DEF Sound, Sorted, AppendsBase, Kept
<1>5. ASSUME lock = None, NEW r, r = [proc[p] EXCEPT !.verdict = None],
             NEW c, c = canvas,
             Put(p, [r EXCEPT !.seen = c, !.at = "project"]), lock' = p
      PROVE  IInv'
  <2>1. PICK s : s = [r EXCEPT !.seen = c, !.at = "project"]
    OBVIOUS
  <2>2. Formed(s) /\ s.at = "project" /\ s.op = r.op /\ s.next = r.next /\ s.seen = c
    <3>1. Formed(r)
      BY <1>4, <1>5
    <3> QED
      BY <2>1, <3>1 DEF Formed
  <2>3. Sound(s) /\ Kept(s)
    BY <1>4, <1>5, <2>2, Apart DEF Sound, Sorted
  <2> QED
    BY <1>2, <1>5, <2>1, <2>2, <2>3, Harmless
<1>6. ASSUME lock = None, NEW r, r = [proc[p] EXCEPT !.verdict = None], ~Reads(r),
             canvas = r.base, Put(p, [r EXCEPT !.seen = Written(r), !.at = "publish"]), lock' = p
      PROVE  IInv'
  <2>1. PICK s : s = [r EXCEPT !.seen = Written(r), !.at = "publish"]
    OBVIOUS
  <2>2. Formed(s) /\ s.at = "publish" /\ s.op = r.op /\ s.next = r.next /\ s.base = r.base
    <3>1. Formed(r)
      BY <1>4, <1>6
    <3> QED
      BY <2>1, <3>1 DEF Formed
  <2>3. Sound(s)
    BY <1>4, <1>6, <2>2 DEF Sound, Sorted, AppendsBase
  <2>4. Kept(s)
    BY <1>4, <1>6, <2>2 DEF Kept, Reads
  <2> QED
    BY <1>2, <1>6, <2>1, <2>2, <2>3, <2>4, CalmStep
<1>7. ASSUME lock = None, NEW r, r = [proc[p] EXCEPT !.verdict = None],
             Put(p, After(p, r, "conflict")), UNCHANGED lock
      PROVE  IInv'
  <2>1. PICK s : s = After(p, r, "conflict")
    OBVIOUS
  <2>2. Sound(s) /\ Kept(s) /\ s.at \notin Locked \cup {"append", "update"}
    BY <1>4, <1>7, <2>1, AfterSound DEF Locked
  <2> QED
    BY <1>2, <1>7, <2>1, <2>2, Harmless DEF Locked
<1> QED
  BY <1>3, <1>5, <1>6, <1>7 DEF Lock

\* A section that ends: a reply is told and the lock is given back.
LEMMA LeaveKeeps ==
  ASSUME IInv, NEW p \in Procs, NEW reply \in {"ok", "conflict", "failed"},
         Leave(p, proc[p], reply), UNCHANGED <<canvas, versions, landed, exposed, unguarded, hlock>>
  PROVE  IInv'
<1>1. PICK s : s = After(p, proc[p], reply)
  OBVIOUS
<1>2. Sound(s) /\ Kept(s) /\ s.at \notin Locked \cup {"append", "update"}
  BY <1>1, AfterSound DEF IInv, Processes, Locked
<1>3. Put(p, s) /\ (lock' = lock \/ (lock = p /\ lock' = None))
  BY <1>1 DEF Leave
<1> QED
  BY <1>2, <1>3, Harmless DEF Locked

\* assertHeld: who goes on to rename still has the lock.
LEMMA PublishKeeps ==
  ASSUME IInv, NEW p \in Procs, Publish(p)
  PROVE  IInv'
<1>1. UNCHANGED <<canvas, versions, landed, exposed, unguarded, hlock>>
  BY DEF Publish, disk, ghosts
<1>2. CASE lock # p
  BY <1>1, <1>2, LeaveKeeps DEF Publish
<1>3. CASE lock = p
  <2>1. PICK s : s = [proc[p] EXCEPT !.at = "rename"]
    OBVIOUS
  <2>2. Put(p, s) /\ UNCHANGED lock /\ proc[p].at = "publish"
    BY <1>3, <2>1 DEF Publish, Go, At
  <2>3. Formed(proc[p]) /\ Sorted(proc[p]) /\ Kept(proc[p])
    BY DEF IInv, Processes, Deliberate, Sound
  <2>4. /\ Formed(s) /\ s.at = "rename" /\ s.op = proc[p].op /\ s.next = proc[p].next
        /\ s.base = proc[p].base
    BY <2>1, <2>3, Moved
  <2>5. Sound(s) /\ Kept(s)
    BY <2>2, <2>3, <2>4 DEF Sound, Sorted, AppendsBase, Kept
  <2>6. ~exposed => canvas = s.base
    BY <1>3, <2>2, <2>4 DEF IInv, WritersMatch
  <2> QED
    BY <1>1, <1>3, <2>2, <2>4, <2>5, <2>6, CalmStep
<1> QED
  BY <1>2, <1>3

\* The rename is the step that changes the canvas.
LEMMA RenameKeeps ==
  ASSUME IInv, NEW p \in Procs, Rename(p)
  PROVE  IInv'
<1>1. UNCHANGED <<versions, exposed, unguarded, hlock>> /\ proc[p].at = "rename"
  BY DEF Rename, At
<1>2. CASE Leave(p, proc[p], "failed") /\ UNCHANGED <<canvas, landed>>
  BY <1>1, <1>2, LeaveKeeps
<1>3. ASSUME canvas' = proc[p].seen, Go(p, "project"), UNCHANGED lock,
             landed' = landed \cup {[rev |-> proc[p].seen, op |-> proc[p].op,
                                     base |-> proc[p].base, onto |-> canvas]}
      PROVE  IInv'
  <2>1. PICK s : s = [proc[p] EXCEPT !.at = "project"]
    OBVIOUS
  <2>2. Sound(s) /\ Kept(s) /\ s.at = "project" /\ s.seen = proc[p].seen
    BY <2>1, GoApart, Moved DEF IInv, Processes, Sound
  <2>3. Processes' /\ proc'[p] = s /\ \A q \in Procs \ {p} : proc'[q] = proc[q]
    BY <1>3, <2>1, <2>2, PutMoves DEF IInv, Go
  <2>4. ~exposed => lock = p /\ canvas = proc[p].base
    BY <1>1 DEF IInv, WritersMatch, At
  <2>5. WritersMatch'
    <3> SUFFICES ASSUME ~exposed, NEW q \in Procs
                 PROVE  /\ proc'[q].at = "rename" => lock' = q
                        /\ proc'[q].at \in {"publish", "rename"} /\ lock' = q
                             => canvas' = proc'[q].base
                        /\ proc'[q].at \in {"project", "swap"} /\ lock' = q
                             => canvas' = proc'[q].seen
      BY <1>1 DEF WritersMatch, At
    <3>1. CASE q = p
      BY <1>3, <2>2, <2>3, <3>1
    <3>2. CASE q # p
      <4>1. proc'[q] = proc[q] /\ lock # q /\ lock' # q
        BY <1>3, <2>3, <2>4, <3>2
      <4> QED
        BY <4>1 DEF IInv, WritersMatch, At
    <3> QED
      BY <3>1, <3>2
  <2>6. NoLostUpdate'
    BY <1>1, <1>3, <2>4 DEF IInv, NoLostUpdate
  <2>7. Deliberate'
    BY <1>1, <2>2, <2>3 DEF IInv, Deliberate, Kept, Holds
  <2>8. RestoreKeepsReplaced'
    <3>1. proc[p].op = "restore" => Holds(proc[p].base.content)
      BY <1>1 DEF IInv, Deliberate, Kept
    <3> QED
      BY <1>1, <1>3, <3>1 DEF IInv, RestoreKeepsReplaced, Holds
  <2>9. SaversFoundNone'
    <3> SUFFICES ASSUME NEW q \in Procs, proc'[q].at \in {"append", "update"}
                 PROVE  FoundNone(q, proc[q])'
      BY DEF SaversFoundNone, FoundNone
    <3>1. q # p /\ proc'[q] = proc[q]
      BY <2>2, <2>3
    <3> QED
      BY <1>1, <3>1 DEF IInv, SaversFoundNone, FoundNone, Priors
  <2>10. Records' /\ OneSavedPerRevision' /\ (exposed \in BOOLEAN)'
    BY <1>1 DEF IInv, Records, OneSavedPerRevision
  <2> QED
    BY <2>3, <2>5, <2>6, <2>7, <2>8, <2>9, <2>10 DEF IInv
<1> QED
  BY <1>2, <1>3 DEF Rename

\* The projection changes neither the canvas nor the history.
LEMMA ProjectKeeps ==
  ASSUME IInv, NEW p \in Procs, Project(p) \/ Swap(p)
  PROVE  IInv'
<1>1. UNCHANGED <<canvas, versions, landed, exposed, unguarded, hlock>>
  BY DEF Project, Swap, ghosts
<1>2. CASE Leave(p, proc[p], "ok") \/ Leave(p, proc[p], "failed")
  BY <1>1, <1>2, LeaveKeeps
<1>3. CASE Go(p, "swap") /\ UNCHANGED lock /\ proc[p].at = "project"
  <2>1. PICK s : s = [proc[p] EXCEPT !.at = "swap"]
    OBVIOUS
  <2>2. Sound(s) /\ Kept(s) /\ s.at = "swap" /\ s.seen = proc[p].seen
    BY <2>1, GoApart, Moved DEF IInv, Processes, Sound
  <2>3. lock = p /\ ~exposed => canvas = s.seen
    BY <1>3, <2>2 DEF IInv, WritersMatch
  <2> QED
    BY <1>1, <1>3, <2>1, <2>2, <2>3, Harmless DEF Go
<1> QED
  BY <1>2, <1>3 DEF Project, Swap, At

-----------------------------------------------------------------------------
(* The history                                                             *)

\* readDesign outside the lock, and what comes after it.
LEMMA ReadKeeps ==
  ASSUME IInv, NEW p \in Procs, Read(p)
  PROVE  IInv'
<1> DEFINE r == proc[p]
<1>1. UNCHANGED <<canvas, versions, landed, exposed, unguarded, lock, hlock>>
  BY DEF Read, disk, ghosts
<1>2. Formed(r) /\ Sorted(r) /\ r.at = "read"
  BY DEF IInv, Processes, Sound, Read, At
<1>3. ASSUME projection = canvas, NEW s, s = [r EXCEPT !.seen = canvas, !.at = r.next], Put(p, s)
      PROVE  IInv'
  <2>1. Formed(s) /\ s.at = r.next /\ s.op = r.op /\ s.next = r.next
    BY <1>2, <1>3 DEF Formed
  <2>2. Sound(s) /\ Kept(s) /\ s.at \in Nexts
    BY <1>2, <2>1 DEF Sound, Sorted, AppendsBase, Kept, Nexts
  <2> QED
    BY <1>1, <1>3, <2>2, Harmless DEF Nexts
<1>4. ASSUME NEW s, s = [r EXCEPT !.at = "lock"], Put(p, s),
             r.op = "restore" => r.next \in {"hlock", "hdecide"}
      PROVE  IInv'
  <2>1. Formed(s) /\ s.at = "lock" /\ s.op = r.op /\ s.next = r.next
    BY <1>2, <1>4, Moved
  <2>2. Sound(s) /\ Kept(s)
    BY <1>2, <1>4, <2>1 DEF Sound, Sorted, AppendsBase, Kept
  <2> QED
    BY <1>1, <1>4, <2>1, <2>2, Harmless
<1>5. \/ Put(p, [r EXCEPT !.seen = canvas, !.at = r.next]) /\ projection = canvas
      \/ Put(p, [r EXCEPT !.at = "lock"])
  BY DEF Read
<1> QED
  BY <1>2, <1>3, <1>4, <1>5 DEF Sorted

\* The repository is locked only when it is free.
LEMMA HistoryLockKeeps ==
  ASSUME IInv, NEW p \in Procs, HistoryLock(p)
  PROVE  IInv'
<1> DEFINE r == proc[p]
<1>1. UNCHANGED <<canvas, versions, landed, exposed, unguarded, lock>>
  BY DEF HistoryLock, disk, ghosts
<1>2. Formed(r) /\ Sorted(r) /\ r.at = "hlock" /\ r.op \in HistoryOps
  BY DEF IInv, Processes, Sound, Sorted, HistoryLock, At
<1>3. ASSUME hlock = None, hlock' = p, r.op = "before", NEW s, s = [r EXCEPT !.at = "hdecide"],
             Put(p, s)
      PROVE  IInv'
  <2>1. Formed(s) /\ s.at = "hdecide" /\ s.op = r.op /\ s.next = r.next
    BY <1>2, <1>3, Moved
  <2>2. Sound(s) /\ Kept(s)
    BY <1>2, <1>3, <2>1 DEF Sound, Sorted, AppendsBase, Kept
  <2> QED
    BY <1>1, <1>3, <2>1, <2>2, Harmless
<1>4. ASSUME hlock = None, hlock' = p, r.op # "before",
             Put(p, [r EXCEPT !.at = "read", !.next = "hdecide"])
      PROVE  IInv'
  <2>1. PICK s : s = [r EXCEPT !.at = "read", !.next = "hdecide"]
    OBVIOUS
  <2>2. Formed(s) /\ s.at = "read" /\ s.op = r.op /\ s.next = "hdecide"
    BY <1>2, <2>1 DEF Formed
  <2>3. Sound(s) /\ Kept(s)
    BY <1>2, <1>4, <2>2 DEF Sound, Sorted, AppendsBase, Kept, Nexts
  <2> QED
    BY <1>1, <1>4, <2>1, <2>2, <2>3, Harmless
<1>5. ASSUME UNCHANGED hlock, NEW s, s \in {Idle, Failed(r)}, Put(p, s)
      PROVE  IInv'
  <2>1. Sound(s) /\ Kept(s) /\ s.at = "idle"
    BY <1>5, IdleSound, FailedSound
  <2> QED
    BY <1>1, <1>5, <2>1, Harmless
<1> QED
  BY <1>3, <1>4, <1>5 DEF HistoryLock

\* A process gives back the lock it has and rests.
LEMMA HistoryLeaveKeeps ==
  ASSUME IInv, NEW p \in Procs, HistoryLeave(p)
  PROVE  IInv'
<1>1. UNCHANGED <<canvas, versions, landed, exposed, unguarded, lock>>
  BY DEF HistoryLeave, disk, ghosts
<1>2. PICK s \in {Idle, Failed(proc[p])} : Put(p, s)
  BY DEF HistoryLeave
<1>3. Sound(s) /\ Kept(s) /\ s.at = "idle"
  BY IdleSound, FailedSound
<1> QED
  BY <1>1, <1>2, <1>3, Harmless DEF HistoryLeave

\* What HistoryDecide makes of a request.
Decided(r) ==
  CASE r.op = "version" -> Create(r)
    [] r.op = "restore" -> Restore(r)
    [] r.op = "before" ->
         [r EXCEPT !.at = IF Holds(r.seen.content) THEN "hleave" ELSE "append"]

\* What is decided under the repository's lock: nothing is left to do, a version
\* is appended, or the canvas is bound to one.
LEMMA Decisions ==
  ASSUME NEW r, r.op \in HistoryOps, NEW s, s = Decided(r)
  PROVE  \/ s = [r EXCEPT !.at = "hleave"]
         \/ /\ s = [r EXCEPT !.at = "append"]
            /\ r.op \in {"version", "restore"} => r.seen = r.base
            /\ r.op = "version" => Priors(r) = {}
         \/ \E i, content, action :
              /\ s = Bind(r, i, content, action)
              /\ r.op = "restore" => r.seen = r.base /\ Holds(r.seen.content)
<1>1. CASE r.op = "version"
  <2>1. s = Create(r)
    BY <1>1 DEF Decided
  <2> QED
    BY <1>1, <2>1 DEF Create
<1>2. CASE r.op = "restore"
  <2>1. s = Restore(r)
    BY <1>2 DEF Decided
  <2> QED
    BY <1>2, <2>1 DEF Restore
<1>3. CASE r.op = "before"
  BY <1>3 DEF Decided
<1> QED
  BY <1>1, <1>2, <1>3 DEF HistoryOps

\* What was decided holds while the process goes on under its lock.
LEMMA HistoryDecideKeeps ==
  ASSUME IInv, NEW p \in Procs, HistoryDecide(p)
  PROVE  IInv'
<1> DEFINE r == proc[p]
<1>1. UNCHANGED <<canvas, versions, landed, exposed, unguarded, lock, hlock>>
  BY DEF HistoryDecide, disk, ghosts
<1>2. Sound(r) /\ Formed(r) /\ Sorted(r) /\ r.op \in HistoryOps
  BY DEF IInv, Processes, Sound, Sorted, HistoryDecide, At
<1>3. PICK s : Put(p, s) /\ s = Decided(r)
  BY DEF HistoryDecide, Decided
<1>4. CASE s = [r EXCEPT !.at = "hleave"]
  <2>1. Sound(s) /\ Kept(s) /\ s.at = "hleave"
    BY <1>4, GoApart DEF IInv
  <2> QED
    BY <1>1, <1>3, <2>1, Harmless
<1>5. CASE /\ s = [r EXCEPT !.at = "append"]
           /\ r.op \in {"version", "restore"} => r.seen = r.base
           /\ r.op = "version" => Priors(r) = {}
  <2>1. /\ Formed(s) /\ s.at = "append" /\ s.op = r.op /\ s.next = r.next
        /\ s.seen = r.seen /\ s.base = r.base
    BY <1>2, <1>5, Moved
  <2>2. Sound(s) /\ Kept(s)
    BY <1>2, <1>5, <2>1 DEF Sound, Sorted, AppendsBase, Kept
  <2>3. s.op = "version" => Priors(s) = {}
    BY <1>5, <2>1 DEF Priors
  <2> QED
    BY <1>1, <1>3, <2>1, <2>2, <2>3, CalmStep
<1>6. ASSUME \E i, content, action :
               /\ s = Bind(r, i, content, action)
               /\ r.op = "restore" => r.seen = r.base /\ Holds(r.seen.content)
      PROVE  IInv'
  <2>1. PICK i, content, action :
          /\ s = Bind(r, i, content, action)
          /\ r.op = "restore" => r.seen = r.base /\ Holds(r.seen.content)
    BY <1>6
  <2>2. Sound(s) /\ s.at = "bind" /\ s.op = r.op /\ s.base = r.base
    BY <1>2, <2>1, BindSound
  <2>3. Kept(s)
    BY <2>1, <2>2 DEF Kept
  <2> QED
    BY <1>1, <1>3, <2>2, <2>3, Harmless
<1>7. \/ s = [r EXCEPT !.at = "hleave"]
      \/ /\ s = [r EXCEPT !.at = "append"]
         /\ r.op \in {"version", "restore"} => r.seen = r.base
         /\ r.op = "version" => Priors(r) = {}
      \/ \E i, content, action :
           /\ s = Bind(r, i, content, action)
           /\ r.op = "restore" => r.seen = r.base /\ Holds(r.seen.content)
  BY <1>2, <1>3, Decisions
<1> QED
  BY <1>4, <1>5, <1>6, <1>7

\* The save that follows keeps what was found out.
LEMMA BindVersionKeeps ==
  ASSUME IInv, NEW p \in Procs, BindVersion(p)
  PROVE  IInv'
<1> DEFINE r == proc[p]
<1>1. UNCHANGED <<canvas, versions, landed, exposed, unguarded, lock, hlock>>
  BY DEF BindVersion, disk, ghosts
<1>2. Formed(r) /\ Sorted(r) /\ Kept(r) /\ r.at = "bind"
  BY DEF IInv, Processes, Deliberate, Sound, BindVersion, At
<1>3. PICK x \in {"lock", "hleave"} : Go(p, x)
  BY DEF BindVersion
<1>4. PICK s : s = [r EXCEPT !.at = x]
  OBVIOUS
<1>5. Formed(s) /\ s.at = x /\ s.op = r.op /\ s.base = r.base /\ s.next = r.next
  BY <1>2, <1>4, Moved
<1>6. Sound(s) /\ Kept(s)
  BY <1>2, <1>5 DEF Sound, Sorted, AppendsBase, Kept
<1> QED
  BY <1>1, <1>3, <1>4, <1>5, <1>6, Harmless DEF Go

\* What Append does to the versions.
LEMMA VersionAppended ==
  ASSUME Records, NEW x, versions' = Append(versions, x)
  PROVE  /\ Records'
         /\ \A i \in DOMAIN versions : i \in DOMAIN versions' /\ versions'[i] = versions[i]
         /\ \E n \in DOMAIN versions' :
              /\ versions'[n] = x
              /\ \A i \in DOMAIN versions' : i = n \/ i \in DOMAIN versions
<1>1. PICK S : versions \in Seq(S)
  BY DEF Records
<1> DEFINE T == S \cup {x}
<1>2. versions \in Seq(T) /\ x \in T
  BY <1>1, SeqDef
<1> HIDE DEF T
<1>3. /\ versions' \in Seq(T) /\ Len(versions) \in Nat
      /\ DOMAIN versions = 1..Len(versions) /\ DOMAIN versions' = 1..(Len(versions) + 1)
      /\ versions'[Len(versions) + 1] = x
      /\ \A i \in 1..Len(versions) : versions'[i] = versions[i]
  BY <1>2
<1> QED
  BY <1>3 DEF Records

\* assertHeld: who goes on to move the branch still has the lock.
LEMMA AppendKeeps ==
  ASSUME IInv, NEW p \in Procs, AppendVersion(p)
  PROVE  IInv'
<1> DEFINE r == proc[p]
<1>1. UNCHANGED <<canvas, versions, landed, exposed, unguarded, lock, hlock>> /\ r.at = "append"
  BY DEF AppendVersion, disk, ghosts, At
<1>2. /\ Sound(r) /\ Formed(r) /\ Sorted(r) /\ r.op \in HistoryOps
      /\ r.op \in {"version", "restore"} => r.seen = r.base
  BY <1>1 DEF IInv, Processes, Sound, Sorted, AppendsBase
<1>3. CASE hlock # p
  <2>1. PICK s : s = [r EXCEPT !.at = "hleave"]
    OBVIOUS
  <2>2. Sound(s) /\ Kept(s) /\ s.at = "hleave"
    BY <2>1, GoApart DEF IInv
  <2> QED
    BY <1>1, <1>3, <2>1, <2>2, Harmless DEF AppendVersion
<1>4. CASE hlock = p
  <2>1. PICK s, n : Put(p, s) /\ s = [r EXCEPT !.at = "update", !.parent = n]
    BY <1>4 DEF AppendVersion
  <2>2. /\ Formed(s) /\ s.at = "update" /\ s.op = r.op /\ s.next = r.next
        /\ s.seen = r.seen /\ s.base = r.base
    BY <1>2, <2>1 DEF Formed
  <2>3. Sound(s) /\ Kept(s)
    BY <1>2, <2>2 DEF Sound, Sorted, AppendsBase, Kept
  <2>4. s.op = "version" => s.seen \in unguarded \/ (hlock' = p /\ Priors(s) = {})
    <3>1. FoundNone(p, r)
      BY DEF IInv, SaversFoundNone
    <3> QED
      BY <1>1, <1>4, <2>2, <3>1 DEF FoundNone, Priors
  <2> QED
    BY <1>1, <2>1, <2>2, <2>3, <2>4, CalmStep
<1> QED
  BY <1>3, <1>4

\* The one step that adds a version.
LEMMA UpdateKeeps ==
  ASSUME IInv, NEW p \in Procs, UpdateRef(p)
  PROVE  IInv'
<1> DEFINE r == proc[p]
           x == [content |-> r.seen.content, kind |-> Kind(r.op), source |-> r.seen]
<1>1. UNCHANGED <<canvas, landed, exposed, unguarded, lock, hlock>> /\ r.at = "update"
  BY DEF UpdateRef, ghosts, At
<1>2. /\ Sound(r) /\ r.op \in HistoryOps
      /\ r.op \in {"version", "restore"} => r.seen = r.base
  BY <1>1 DEF IInv, Processes, Sound, Sorted, AppendsBase
<1>3. CASE r.parent # Len(versions)
  <2>1. PICK s : s = [r EXCEPT !.at = "hleave"]
    OBVIOUS
  <2>2. Sound(s) /\ Kept(s) /\ s.at = "hleave"
    BY <2>1, GoApart DEF IInv
  <2> QED
    BY <1>1, <1>3, <2>1, <2>2, Harmless DEF UpdateRef, Go
<1>4. CASE r.parent = Len(versions)
  <2>1. versions' = Append(versions, x)
    BY <1>4 DEF UpdateRef
  <2> HIDE DEF x
  <2>2. /\ Records'
        /\ \A i \in DOMAIN versions : i \in DOMAIN versions' /\ versions'[i] = versions[i]
    BY <2>1, VersionAppended DEF IInv
  <2>3. PICK n \in DOMAIN versions' :
          /\ versions'[n] = x
          /\ \A i \in DOMAIN versions' : i = n \/ i \in DOMAIN versions
    BY <2>1, VersionAppended DEF IInv
  <2>4. x.content = r.seen.content /\ x.source = r.seen /\ x.kind = Kind(r.op)
    BY DEF x
  <2>5. x.kind = "saved" => r.op = "version"
    BY <1>2, <2>4 DEF Kind, HistoryOps
  <2>6. \A c : Holds(c) => Holds(c)'
    BY <2>2 DEF Holds
  <2>7. \E i \in DOMAIN versions' : versions'[i].content = r.seen.content
    BY <2>3, <2>4
  <2>8. PICK s : /\ Put(p, s)
                 /\ \/ s = [r EXCEPT !.at = "hleave"]
                    \/ \E i, content, action : s = Bind(r, i, content, action)
    BY <1>2, <1>4 DEF UpdateRef, HistoryOps
  <2>9. Sound(s) /\ s.at \in {"hleave", "bind"} /\ s.op = r.op /\ s.base = r.base
    <3>1. CASE s = [r EXCEPT !.at = "hleave"]
      BY <1>2, <3>1, GoApart, Moved DEF IInv, Sound
    <3>2. CASE \E i, content, action : s = Bind(r, i, content, action)
      BY <1>2, <3>2, BindSound
    <3> QED
      BY <2>8, <3>1, <3>2
  <2>10. Processes' /\ proc'[p] = s /\ \A q \in Procs \ {p} : proc'[q] = proc[q]
    BY <2>8, <2>9, PutMoves DEF IInv
  <2>11. WritersMatch'
    BY <1>1, <2>9, <2>10 DEF IInv, WritersMatch, At
  <2>12. NoLostUpdate' /\ RestoreKeepsReplaced' /\ (exposed \in BOOLEAN)'
    BY <1>1, <2>6 DEF IInv, NoLostUpdate, RestoreKeepsReplaced
  <2>13. Deliberate'
    <3> SUFFICES ASSUME NEW q \in Procs
                 PROVE  Kept(proc[q])'
      BY DEF Deliberate
    <3>1. CASE q # p
      BY <2>6, <2>10, <3>1 DEF IInv, Deliberate, Kept
    <3>2. CASE q = p
      <4>1. r.op = "restore" =>
              \E i \in DOMAIN versions' : versions'[i].content = r.base.content
        BY <1>2, <2>7
      <4> HIDE DEF r
      <4> QED
        BY <2>9, <2>10, <3>2, <4>1 DEF Kept, Holds
    <3> QED
      BY <3>1, <3>2
  <2>14. SaversFoundNone'
    <3> SUFFICES ASSUME NEW q \in Procs, proc'[q].at \in {"append", "update"},
                        proc'[q].op = "version", ~(proc'[q].seen \in unguarded),
                        proc'[q].at = "update" \/ hlock = q
                 PROVE  hlock = q /\ Priors(proc[q])' = {}
      BY <1>1 DEF SaversFoundNone, FoundNone
    <3>1. q # p /\ proc'[q] = proc[q]
      BY <2>9, <2>10
    <3>2. hlock = q /\ Priors(proc[q]) = {} /\ proc[q].seen = proc[q].base
      <4>1. FoundNone(q, proc[q]) /\ AppendsBase(proc[q])
        BY DEF IInv, SaversFoundNone, Processes, Sound
      <4> QED
        BY <3>1, <4>1 DEF FoundNone, AppendsBase
    <3>3. r.op = "version" => r.seen \in unguarded
      <4>1. FoundNone(p, r)
        BY DEF IInv, SaversFoundNone
      <4> QED
        BY <1>1, <3>1, <3>2, <4>1 DEF FoundNone
    <3>4. x.kind = "saved" => x.source # proc[q].base
      BY <2>4, <2>5, <3>1, <3>2, <3>3
    <3>5. \A i \in DOMAIN versions' :
            ~(versions'[i].kind = "saved" /\ versions'[i].source = proc[q].base)
      BY <2>2, <2>3, <3>2, <3>4 DEF Priors
    <3> QED
      BY <3>1, <3>2, <3>5 DEF Priors
  <2>15. OneSavedPerRevision'
    <3>1. r.op = "version" =>
            \/ r.seen \in unguarded
            \/ \A i \in DOMAIN versions : versions[i].kind = "saved" => versions[i].source # r.base
      <4>1. FoundNone(p, r)
        BY DEF IInv, SaversFoundNone
      <4> QED
        BY <1>1, <4>1 DEF FoundNone, Priors
    <3> SUFFICES ASSUME NEW i \in DOMAIN versions', NEW j \in DOMAIN versions',
                        versions'[i].kind = "saved", versions'[j].kind = "saved",
                        versions'[i].source = versions'[j].source, i # j,
                        ~(versions'[i].source \in unguarded)
                 PROVE  FALSE
      BY <1>1 DEF OneSavedPerRevision
    <3>2. CASE i = n \/ j = n
      BY <1>2, <2>2, <2>3, <2>4, <2>5, <3>1, <3>2
    <3>3. CASE i # n /\ j # n
      BY <2>2, <2>3, <3>3 DEF IInv, OneSavedPerRevision
    <3> QED
      BY <3>2, <3>3
  <2> QED
    BY <2>2, <2>10, <2>11, <2>12, <2>13, <2>14, <2>15 DEF IInv
<1> QED
  BY <1>3, <1>4

-----------------------------------------------------------------------------
(* Requests and the turn                                                   *)

\* A new request starts before every section.
LEMMA RequestKeeps ==
  ASSUME IInv, NEW p \in Procs, Request(p)
  PROVE  IInv'
<1>1. UNCHANGED <<canvas, versions, landed, exposed, unguarded, lock, hlock>>
  BY DEF Request, disk, ghosts
<1>2. Formed(Idle) /\ Idle.next = "idle"
  BY IdleSound DEF Sound, Idle
<1>3. ASSUME NEW s, Put(p, s), NEW b, NEW c,
             s = [Idle EXCEPT !.at = "lock", !.op = "save", !.base = b, !.content = c]
      PROVE  IInv'
  <2>1. Formed(s) /\ s.at = "lock" /\ s.op = "save" /\ s.next = "idle"
    BY <1>2, <1>3 DEF Formed
  <2>2. Sound(s) /\ Kept(s)
    BY <2>1 DEF Sound, Sorted, AppendsBase, Kept, Nexts
  <2> QED
    BY <1>1, <1>3, <2>1, <2>2, Harmless
<1>4. ASSUME NEW s, Put(p, s), s = [Idle EXCEPT !.at = "read", !.op = "reopen"]
      PROVE  IInv'
  <2>1. Formed(s) /\ s.at = "read" /\ s.op = "reopen" /\ s.next = "idle"
    BY <1>2, <1>4 DEF Formed
  <2>2. Sound(s) /\ Kept(s)
    BY <2>1 DEF Sound, Sorted, AppendsBase, Kept, Nexts
  <2> QED
    BY <1>1, <1>4, <2>1, <2>2, Harmless
<1>5. ASSUME NEW s, Put(p, s), NEW b,
             s = [Idle EXCEPT !.at = "read", !.op = "version", !.base = b, !.next = "hlock"]
      PROVE  IInv'
  <2>1. Formed(s) /\ s.at = "read" /\ s.op = "version" /\ s.next = "hlock"
    BY <1>2, <1>5 DEF Formed
  <2>2. Sound(s) /\ Kept(s)
    BY <2>1 DEF Sound, Sorted, AppendsBase, Kept, Nexts, HistoryOps
  <2> QED
    BY <1>1, <1>5, <2>1, <2>2, Harmless
<1>6. ASSUME NEW s, Put(p, s), NEW b, NEW i,
             s = [Idle EXCEPT !.at = "read", !.op = "restore", !.base = b, !.next = "hlock",
                              !.target = i]
      PROVE  IInv'
  <2>1. Formed(s) /\ s.at = "read" /\ s.op = "restore" /\ s.next = "hlock"
    BY <1>2, <1>6 DEF Formed
  <2>2. Sound(s) /\ Kept(s)
    BY <2>1 DEF Sound, Sorted, AppendsBase, Kept, Nexts, HistoryOps
  <2> QED
    BY <1>1, <1>6, <2>1, <2>2, Harmless
<1> QED
  BY <1>3, <1>4, <1>5, <1>6 DEF Request

\* A request that is made again starts over.
LEMMA RetryKeeps ==
  ASSUME IInv, NEW p \in Procs, Retry(p)
  PROVE  IInv'
<1> DEFINE r == proc[p]
<1>1. UNCHANGED <<canvas, versions, landed, exposed, unguarded, lock, hlock>>
  BY DEF Retry, disk, ghosts
<1>2. Formed(r) /\ Sorted(r) /\ r.op \in {"save", "version", "restore"}
  BY DEF IInv, Processes, Sound, Retry
<1>3. CASE r.op = "save"
  <2>1. PICK s : s = [r EXCEPT !.at = "lock"]
    OBVIOUS
  <2>2. Put(p, s)
    BY <1>3, <2>1 DEF Retry
  <2>3. Formed(s) /\ s.at = "lock" /\ s.op = "save" /\ s.next = r.next
    BY <1>2, <1>3, <2>1, Moved
  <2>4. Sound(s) /\ Kept(s)
    BY <1>2, <1>3, <2>3 DEF Sound, Sorted, AppendsBase, Kept
  <2> QED
    BY <1>1, <2>2, <2>3, <2>4, Harmless
<1>4. CASE r.op # "save"
  <2>1. PICK s : s = [Idle EXCEPT !.at = "read", !.op = r.op, !.base = r.base, !.next = "hlock",
                                  !.target = r.target]
    OBVIOUS
  <2>2. Put(p, s)
    BY <1>4, <2>1 DEF Retry
  <2>3. Formed(Idle)
    BY IdleSound DEF Sound
  <2>4. Formed(s) /\ s.at = "read" /\ s.op = r.op /\ s.next = "hlock"
    BY <2>1, <2>3 DEF Formed
  <2>5. Sound(s) /\ Kept(s)
    BY <1>2, <1>4, <2>4 DEF Sound, Sorted, AppendsBase, Kept, Nexts, HistoryOps
  <2> QED
    BY <1>1, <2>2, <2>4, <2>5, Harmless
<1> QED
  BY <1>3, <1>4

\* A process that starts over, in a section of its own.
LEMMA BeginsApart ==
  ASSUME NEW s, NEW x \in {"verify", "outcome"}, NEW op, NEW c, op # "restore",
         \/ s = [Idle EXCEPT !.at = x, !.op = op, !.seen = c]
         \/ s = [Idle EXCEPT !.at = x, !.op = op]
  PROVE  Sound(s) /\ Kept(s) /\ s.at = x
<1>1. Formed(Idle) /\ Idle.next = "idle"
  BY IdleSound DEF Sound, Idle
<1>2. Formed(s) /\ s.at = x /\ s.next = "idle" /\ s.op = op
  BY <1>1 DEF Formed
<1> QED
  BY <1>2, Apart DEF Nexts

\* The four processes of the daemon.
LEMMA DaemonProcs == Daemon \subseteq Procs /\ {"collect", "cancel", "before", "dispatch"} = Daemon
  BY DEF Procs, Daemon

\* onFrozen starts the background version.
LEMMA FreezeKeeps ==
  ASSUME IInv, Freeze
  PROVE  IInv'
<1> DEFINE base == proc["dispatch"].seen
           b == IF base.content = Blank THEN Idle
                ELSE [Idle EXCEPT !.at = "hlock", !.op = "before", !.seen = base]
<1>1. "dispatch" \in Procs /\ "before" \in Procs
  BY DaemonProcs DEF Daemon
<1>2. UNCHANGED <<canvas, versions, landed, exposed, unguarded, lock, hlock>>
  BY DEF Freeze, ghosts
<1>3. CASE projection # base
  <2>1. Put("dispatch", Idle)
    BY <1>3 DEF Freeze
  <2> QED
    BY <1>1, <1>2, <2>1, IdleSound, Harmless
<1>4. CASE projection = base
  <2>1. proc' = [proc EXCEPT !["dispatch"] = Idle, !["before"] = b]
    BY <1>4 DEF Freeze
  <2>2. Sound(b) /\ Kept(b) /\ b.at \in {"idle", "hlock"}
    <3>1. CASE base.content = Blank
      BY <3>1, IdleSound
    <3>2. CASE base.content # Blank
      <4>1. Formed(Idle) /\ Idle.next = "idle"
        BY IdleSound DEF Sound, Idle
      <4>2. PICK s : s = [Idle EXCEPT !.at = "hlock", !.op = "before", !.seen = base]
        OBVIOUS
      <4>3. Formed(s) /\ s.at = "hlock" /\ s.op = "before" /\ s.next = "idle"
        BY <4>1, <4>2 DEF Formed
      <4>4. Sound(s) /\ Kept(s)
        BY <4>3 DEF Sound, Sorted, AppendsBase, Kept, Nexts, HistoryOps
      <4> QED
        BY <3>2, <4>2, <4>3, <4>4
    <3> QED
      BY <3>1, <3>2
  <2> HIDE DEF b
  <2>3. /\ proc'["dispatch"] = Idle /\ proc'["before"] = b
        /\ \A q \in Procs \ {"dispatch", "before"} : proc'[q] = proc[q]
        /\ proc' = [q \in Procs |-> proc'[q]]
    BY <1>1, <2>1 DEF IInv, Processes
  <2>4. Processes'
    BY <2>2, <2>3, IdleSound DEF IInv, Processes
  <2> DEFINE P == {"dispatch", "before"}
  <2>5. P \in SUBSET Procs
    BY <1>1
  <2>6. \A p \in P : proc'[p].at \notin Locked \cup {"append", "update"} /\ Kept(proc'[p])
    BY <2>2, <2>3, IdleSound DEF Locked
  <2>7. \A q \in Procs \ P : proc'[q] = proc[q]
    BY <2>3
  <2> HIDE DEF P
  <2> QED
    BY <1>2, <2>4, <2>5, <2>6, <2>7, HarmlessMany
<1> QED
  BY <1>3, <1>4

\* Dispatch, EndTurn and Stop begin a section of the daemon.
LEMMA TurnKeeps ==
  ASSUME IInv, Dispatch \/ Resubmit \/ EndTurn \/ Stop
  PROVE  IInv'
<1>1. UNCHANGED <<canvas, versions, landed, exposed, unguarded, lock, hlock>>
  BY DEF Dispatch, Resubmit, EndTurn, Stop, disk, ghosts
<1>2. CASE UNCHANGED proc
  BY <1>1, <1>2 DEF IInv, Processes, Records, WritersMatch, NoLostUpdate, Deliberate, Kept, Holds,
                    RestoreKeepsReplaced, SaversFoundNone, FoundNone, Priors, OneSavedPerRevision, At
<1>3. ASSUME NEW p \in Procs, NEW x \in {"verify", "outcome"}, NEW op, NEW c, NEW s, Put(p, s),
             op # "restore",
             \/ s = [Idle EXCEPT !.at = x, !.op = op, !.seen = c]
             \/ s = [Idle EXCEPT !.at = x, !.op = op]
      PROVE  IInv'
  <2>1. Sound(s) /\ Kept(s) /\ s.at = x
    BY <1>3, BeginsApart
  <2> QED
    BY <1>1, <1>3, <2>1, Harmless
<1>4. "dispatch" \in Procs /\ "collect" \in Procs /\ "cancel" \in Procs
  BY DaemonProcs DEF Daemon
<1>5. CASE Dispatch
  BY <1>2, <1>3, <1>4, <1>5 DEF Dispatch
<1>6. CASE Resubmit
  BY <1>2, <1>6 DEF Resubmit
<1>7. CASE EndTurn
  BY <1>3, <1>4, <1>7 DEF EndTurn
<1>8. CASE Stop
  BY <1>3, <1>4, <1>8 DEF Stop
<1> QED
  BY <1>5, <1>6, <1>7, <1>8

-----------------------------------------------------------------------------
(* The outcome of the turn                                                 *)

\* recordTurnOutcome leaves canvas and history to the sections.
LEMMA ReportKeeps ==
  ASSUME IInv, NEW p \in Procs, Report(p)
  PROVE  IInv'
<1> DEFINE r == proc[p]
<1>1. UNCHANGED <<canvas, versions, landed, exposed, unguarded, lock, hlock>>
  BY DEF Report, Consult, Classify, WriteReceipt, Stamp, disk, ghosts
<1>2. Formed(r) /\ Sorted(r)
  BY DEF IInv, Processes, Sound
<1>3. ASSUME NEW s, Put(p, s), s = Idle
      PROVE  IInv'
  BY <1>1, <1>3, IdleSound, Harmless
<1>4. ASSUME NEW s, NEW x \in {"classify", "stamp", "idle"}, Put(p, s), s = [r EXCEPT !.at = x],
             x = "classify" => r.at = "outcome"
      PROVE  IInv'
  <2>1. Sound(s) /\ Kept(s) /\ s.at = x
    BY <1>2, <1>4, GoApart DEF IInv, Sorted
  <2> QED
    BY <1>1, <1>4, <2>1, Harmless
<1>5. ASSUME NEW s, NEW x \in {"stamp", "receipt"}, NEW v, Put(p, s),
             s = [r EXCEPT !.verdict = v, !.at = x]
      PROVE  IInv'
  <2>1. Formed(s) /\ s.at = x /\ s.op = r.op /\ s.next = r.next
    BY <1>2, <1>5 DEF Formed
  <2>2. Sound(s) /\ Kept(s)
    BY <1>2, <2>1, Apart DEF Sorted
  <2> QED
    BY <1>1, <1>5, <2>1, <2>2, Harmless
<1>6. ASSUME NEW s, NEW b, NEW c, Put(p, s), r.at = "classify",
             s = [r EXCEPT !.base = b, !.content = c, !.at = "lock"]
      PROVE  IInv'
  <2>1. Formed(s) /\ s.at = "lock" /\ s.op = r.op /\ s.next = r.next
    BY <1>2, <1>6 DEF Formed
  <2>2. Sound(s) /\ Kept(s)
    BY <1>2, <1>6, <2>1 DEF Sound, Sorted, AppendsBase, Kept
  <2> QED
    BY <1>1, <1>6, <2>1, <2>2, Harmless
<1>7. CASE Consult(p)
  BY <1>3, <1>4, <1>5, <1>7 DEF Consult, At
<1>8. CASE Classify(p)
  <2>1. \/ \E v : Put(p, [r EXCEPT !.verdict = v, !.at = "receipt"])
        \/ Put(p, [r EXCEPT !.base = Baseline, !.content = draft, !.at = "lock"])
    BY <1>8 DEF Classify, Verdict
  <2>2. CASE \E v : Put(p, [r EXCEPT !.verdict = v, !.at = "receipt"])
    BY <1>5, <2>2
  <2>3. CASE Put(p, [r EXCEPT !.base = Baseline, !.content = draft, !.at = "lock"])
    BY <1>6, <1>8, <2>3 DEF Classify, At
  <2> QED
    BY <2>1, <2>2, <2>3
<1>9. CASE WriteReceipt(p)
  BY <1>4, <1>9 DEF WriteReceipt, Go
<1>10. CASE Stamp(p)
  BY <1>3, <1>4, <1>10 DEF Stamp, Go
<1> QED
  BY <1>7, <1>8, <1>9, <1>10 DEF Report

-----------------------------------------------------------------------------
(* Faults                                                                  *)

\* A lost lock is None or was at a rename, which is then exposed.
LEMMA LoseLockKeeps ==
  ASSUME IInv, LoseLock
  PROVE  IInv'
<1>1. None \notin Procs
  BY CanvasAssumption DEF Procs, Daemon
<1>2. UNCHANGED <<canvas, versions, landed, proc>>
  BY DEF LoseLock, disk
<1>3. WritersMatch'
  <2> SUFFICES ASSUME ~exposed', NEW q \in Procs
               PROVE  /\ At(q, "rename") => lock' = q
                      /\ proc[q].at \in {"publish", "rename"} /\ lock' = q => canvas = proc[q].base
                      /\ proc[q].at \in {"project", "swap"} /\ lock' = q => canvas = proc[q].seen
    BY <1>2 DEF WritersMatch, At
  <2>1. ~exposed
    BY DEF LoseLock, IInv
  <2>2. lock' = lock \/ (lock' = None /\ ~At(lock, "rename"))
    BY DEF LoseLock, IInv
  <2> QED
    BY <1>1, <2>1, <2>2 DEF IInv, WritersMatch
<1>4. NoLostUpdate' /\ (exposed \in BOOLEAN)'
  <2>1. exposed' = exposed \/ exposed' = (exposed \/ At(lock, "rename"))
    BY DEF LoseLock
  <2>2. exposed' \in BOOLEAN /\ (exposed => exposed')
    BY <2>1 DEF IInv
  <2> QED
    BY <1>2, <2>2 DEF IInv, NoLostUpdate
<1>5. /\ unguarded \subseteq unguarded'
      /\ \/ hlock' = hlock
         \/ /\ hlock # None /\ hlock' = None
            /\ At(hlock, "update") /\ proc[hlock].op = "version" => proc[hlock].seen \in unguarded'
  BY DEF LoseLock
<1>6. SaversFoundNone'
  <2> SUFFICES ASSUME NEW q \in Procs
               PROVE  FoundNone(q, proc[q])'
    BY DEF SaversFoundNone
  <2>1. FoundNone(q, proc[q])
    BY DEF IInv, SaversFoundNone
  <2> QED
    BY <1>1, <1>2, <1>5, <2>1 DEF FoundNone, Priors, At
<1>7. OneSavedPerRevision'
  BY <1>2, <1>5 DEF IInv, OneSavedPerRevision
<1>8. Processes' /\ Records' /\ Deliberate' /\ RestoreKeepsReplaced'
  BY <1>2 DEF IInv, Processes, Records, Deliberate, Kept, Holds, RestoreKeepsReplaced
<1> QED
  BY <1>3, <1>4, <1>6, <1>7, <1>8 DEF IInv

\* A worker that dies gives back its locks.
LEMMA CrashKeeps ==
  ASSUME IInv, NEW p \in Procs, Crash(p)
  PROVE  IInv'
<1>1. UNCHANGED <<canvas, versions, landed, exposed, unguarded>>
  BY DEF Crash, disk, ghosts
<1>2. PICK s : s = Failed(proc[p])
  OBVIOUS
<1>3. Sound(s) /\ Kept(s) /\ s.at = "idle"
  BY <1>2, FailedSound
<1>4. /\ lock' = lock \/ (lock = p /\ lock' = None)
      /\ hlock' = hlock \/ (hlock = p /\ hlock' = None)
  BY DEF Crash, Released
<1> QED
  BY <1>1, <1>2, <1>3, <1>4, Harmless DEF Crash

\* So does the daemon.
LEMMA CrashDaemonKeeps ==
  ASSUME IInv, CrashDaemon
  PROVE  IInv'
<1>1. UNCHANGED <<canvas, versions, landed, exposed, unguarded>>
  BY DEF CrashDaemon, disk
<1>2. /\ \A p \in Daemon : proc'[p] = Idle
      /\ \A q \in Procs \ Daemon : proc'[q] = proc[q]
      /\ proc' = [q \in Procs |-> proc'[q]]
  BY DaemonProcs DEF CrashDaemon
<1>3. Processes'
  BY <1>2, IdleSound DEF IInv, Processes
<1>4. /\ lock' = lock \/ (lock \in Daemon /\ lock' = None)
      /\ hlock' = hlock \/ (hlock \in Daemon /\ hlock' = None)
  BY DEF CrashDaemon, Released
<1> QED
  BY <1>1, <1>2, <1>3, <1>4, IdleSound, DaemonProcs, HarmlessMany DEF Locked

-----------------------------------------------------------------------------
\* A design starts with the invariant.
LEMMA InitKeeps == Init => IInv
<1> SUFFICES ASSUME Init PROVE IInv
  OBVIOUS
<1>1. Processes
  BY IdleSound DEF Init, Processes
<1>2. \A p \in Procs : proc[p].at = "idle" /\ proc[p].op = "none"
  BY DEF Init, Idle
<1>3. WritersMatch /\ Deliberate /\ SaversFoundNone
  BY <1>2 DEF WritersMatch, Deliberate, Kept, SaversFoundNone, FoundNone, At
<1>4. NoLostUpdate /\ RestoreKeepsReplaced /\ exposed \in BOOLEAN
  BY DEF Init, NoLostUpdate, RestoreKeepsReplaced
<1>5. Records
  <2>1. versions = <<>> \/ \E v : versions = <<v>>
    BY DEF Init
  <2>2. \E S : versions \in Seq(S)
    <3>1. CASE versions = <<>>
      BY <3>1
    <3>2. ASSUME NEW v, versions = <<v>>
          PROVE  versions \in Seq({v})
      BY <3>2
    <3> QED
      BY <2>1, <3>1, <3>2
  <2> QED
    BY <2>2 DEF Records
<1>6. OneSavedPerRevision
  BY DEF Init, OneSavedPerRevision
<1> QED
  BY <1>1, <1>3, <1>4, <1>5, <1>6 DEF IInv

\* Every step keeps it.
LEMMA NextKeeps == IInv /\ [Next]_vars => IInv'
<1> SUFFICES ASSUME IInv, [Next]_vars PROVE IInv'
  OBVIOUS
<1>1. /\ Workers \subseteq Procs /\ Reporters \subseteq Procs
      /\ "collect" \in Procs /\ "before" \in Procs
  BY DEF Procs, Daemon, Reporters
<1>2. CASE \E p \in Workers : Request(p) \/ Retry(p) \/ Crash(p)
  BY <1>1, <1>2, RequestKeeps, RetryKeeps, CrashKeeps
<1>3. CASE \E p \in Workers \cup {"collect"} : Section(p)
  BY <1>1, <1>3, LockKeeps, PublishKeeps, RenameKeeps, ProjectKeeps DEF Section
<1>4. CASE \E p \in Workers \cup {"before"} : History(p)
  BY <1>1, <1>4, ReadKeeps, HistoryLockKeeps, HistoryLeaveKeeps, HistoryDecideKeeps, AppendKeeps,
     UpdateKeeps, BindVersionKeeps DEF History
<1>5. CASE \E p \in Reporters : Report(p)
  BY <1>1, <1>5, ReportKeeps
<1>6. CASE Dispatch \/ Freeze \/ Resubmit \/ EndTurn \/ Stop
  BY <1>6, TurnKeeps, FreezeKeeps
<1>7. CASE LoseLock \/ CrashDaemon
  BY <1>7, LoseLockKeeps, CrashDaemonKeeps
<1>8. CASE UNCHANGED vars
  BY <1>8 DEF vars, disk, ghosts, IInv, Processes, Records, WritersMatch, NoLostUpdate, Deliberate,
              Kept, Holds, RestoreKeepsReplaced, SaversFoundNone, FoundNone, Priors, OneSavedPerRevision, At
<1> QED
  BY <1>2, <1>3, <1>4, <1>5, <1>6, <1>7, <1>8 DEF Next

\* The whole argument, kept by every step (store.ts, history.ts).
THEOREM CanvasInvariant == Spec => []IInv
  BY InitKeeps, NextKeeps, PTL DEF Spec

\* store.ts: a save, a restore or a collection lands only on the revision it was
\* checked against, whatever locks are lost and processes die, unless a lock is
\* lost between the last assertHeld and the rename.
THEOREM WritesMatch == Spec => []NoLostUpdate
<1>1. IInv => NoLostUpdate
  BY DEF IInv
<1> QED
  BY <1>1, CanvasInvariant, PTL

\* history.ts, history-restore: what a restore replaces is in the history before.
THEOREM RestoreSafe == Spec => []RestoreKeepsReplaced
<1>1. IInv => RestoreKeepsReplaced
  BY DEF IInv
<1> QED
  BY <1>1, CanvasInvariant, PTL

\* history.ts, history-create: however often and by however many processes a
\* version of a revision is asked for, one is saved, unless a process that saved it
\* lost the lock between assertHeld and update-ref.
THEOREM SavedOnce == Spec => []OneSavedPerRevision
<1>1. IInv => OneSavedPerRevision
  BY DEF IInv
<1> QED
  BY <1>1, CanvasInvariant, PTL

-----------------------------------------------------------------------------
(* Acknowledgements                                                        *)

InSection(r) == r.at \in Locked \cup {"lock"}
Successful(r) == r.verdict # None /\ r.verdict.status \in {"ok", "committed"}

\* What an operation tells when it leaves its section.
LEMMA AfterTells ==
  ASSUME NEW r, Sound(r), NEW p, NEW reply \in {"ok", "conflict", "failed"},
         NEW s, s = After(p, r, reply)
  PROVE  /\ reply # "ok" => ~Successful(s)
         /\ reply = "ok" => s.seen = r.seen
<1>1. Formed(r)
  BY DEF Sound
<1>2. CASE reply = "ok"
  <2>1. \E at, v : s = [r EXCEPT !.at = at, !.verdict = v]
    BY <1>2 DEF After
  <2> QED
    BY <1>1, <1>2, <2>1 DEF Formed
<1>3. CASE reply # "ok" /\ r.op = "collect"
  <2>1. \E c \in {"conflict", "invalid"} :
          s = [r EXCEPT !.at = "receipt", !.verdict = Outcome(c, None)]
    BY <1>3 DEF After
  <2>2. \E c \in {"conflict", "invalid"} : s.verdict = Outcome(c, None)
    BY <1>1, <2>1 DEF Formed
  <2>3. \A c : Outcome(c, None).status = c
    BY DEF Outcome
  <2> QED
    BY <1>3, <2>2, <2>3 DEF Successful
<1>4. CASE reply # "ok" /\ r.op # "collect" /\ hlock = p
  <2>1. s = [r EXCEPT !.at = "hleave", !.verdict = None]
    BY <1>4 DEF After
  <2>2. s.verdict = None
    BY <1>1, <2>1 DEF Formed
  <2> QED
    BY <1>4, <2>2 DEF Successful
<1>5. CASE reply # "ok" /\ r.op # "collect" /\ hlock # p
  <2>1. s = Failed(r)
    BY <1>5 DEF After
  <2>2. s.verdict = None
    BY <2>1 DEF Failed, Idle
  <2> QED
    BY <1>5, <2>2 DEF Successful
<1> QED
  BY <1>2, <1>3, <1>4, <1>5

\* Nobody leaves a section but by its own steps.
LEMMA OthersStay ==
  ASSUME NEW q \in Procs, Request(q) \/ Retry(q) \/ History(q) \/ Report(q)
  PROVE  ~InSection(proc[q]) /\ \E r : Put(q, r)
<1>1. CASE Request(q) \/ Retry(q)
  BY <1>1 DEF Request, Retry, At, InSection, Locked
<1>2. CASE History(q)
  BY <1>2 DEF History, Read, HistoryLock, HistoryLeave, HistoryDecide, AppendVersion, UpdateRef, BindVersion,
              Go, At, InSection, Locked
<1>3. CASE Report(q)
  BY <1>3 DEF Report, Consult, Classify, WriteReceipt, Stamp, Go, At, InSection, Locked
<1> QED
  BY <1>1, <1>2, <1>3

\* A section that ends well has the projection it tells.
LEMMA SectionTells ==
  ASSUME IInv, NEW p \in Procs, Section(p)
  PROVE  /\ \E r : Put(p, r)
         /\ InSection(proc[p])
         /\ ~InSection(proc'[p]) /\ Successful(proc'[p]) /\ ~exposed =>
              projection' = proc'[p].seen /\ (lock = p => canvas' = proc'[p].seen)
<1> DEFINE r == proc[p]
           Shown == projection' = proc'[p].seen /\ (lock = p => canvas' = proc'[p].seen)
<1>1. Sound(r) /\ Formed(r)
  BY DEF IInv, Processes, Sound
<1>2. InSection(r)
  BY DEF Section, Lock, Publish, Rename, Project, Swap, At, InSection, Locked
<1>3. ASSUME NEW s, Put(p, s) PROVE proc'[p] = s
  BY <1>3 DEF IInv, Processes, Put
<1>4. ASSUME NEW x \in Locked, Go(p, x)
      PROVE  (\E s : Put(p, s)) /\ InSection(proc'[p])
  <2>1. PICK s : Put(p, s) /\ s = [r EXCEPT !.at = x]
    BY <1>4 DEF Go
  <2>2. s.at = x /\ proc'[p] = s
    BY <1>1, <1>3, <2>1, Moved
  <2> QED
    BY <2>1, <2>2 DEF InSection
<1>5. ASSUME NEW u, Sound(u), NEW reply \in {"conflict", "failed"}, Put(p, After(p, u, reply))
      PROVE  (\E s : Put(p, s)) /\ ~Successful(proc'[p])
  <2>1. PICK s : Put(p, s) /\ s = After(p, u, reply)
    BY <1>5
  <2> QED
    BY <1>3, <1>5, <2>1, AfterTells
<1>6. ASSUME Put(p, After(p, r, "ok")), projection' = r.seen, canvas' = canvas,
             r.at \in {"project", "swap"}
      PROVE  (\E s : Put(p, s)) /\ (~exposed => Shown)
  <2>1. PICK s : Put(p, s) /\ s = After(p, r, "ok")
    BY <1>6
  <2>2. proc'[p] = s /\ s.seen = r.seen
    BY <1>1, <1>3, <2>1, AfterTells
  <2>3. ~exposed /\ lock = p => canvas = r.seen
    BY <1>6 DEF IInv, WritersMatch
  <2> QED
    BY <1>6, <2>1, <2>2, <2>3
<1>7. CASE Lock(p)
  <2>1. CASE Put(p, After(p, r, "conflict"))
    BY <1>1, <1>2, <1>5, <2>1
  <2>2. CASE lock = None
    <3>1. PICK u : u = [r EXCEPT !.verdict = None]
      OBVIOUS
    <3>2. /\ Formed(u) /\ u.at = r.at /\ u.op = r.op /\ u.next = r.next
          /\ u.seen = r.seen /\ u.base = r.base
      BY <1>1, <3>1, Told
    <3>3. Sound(u)
      BY <1>1, <3>2 DEF Sound, Sorted, AppendsBase
    <3>4. \/ Put(p, After(p, u, "conflict"))
          \/ \E c : \E x \in {"project", "publish"} : Put(p, [u EXCEPT !.seen = c, !.at = x])
      BY <1>7, <2>2, <3>1 DEF Lock
    <3>5. ASSUME NEW c, NEW x \in {"project", "publish"}, Put(p, [u EXCEPT !.seen = c, !.at = x])
          PROVE  InSection(proc'[p])
      <4>1. PICK s : Put(p, s) /\ s = [u EXCEPT !.seen = c, !.at = x]
        BY <3>5
      <4>2. s.at = x /\ proc'[p] = s
        BY <1>3, <3>2, <4>1 DEF Formed
      <4> QED
        BY <4>2 DEF InSection, Locked
    <3>6. CASE Put(p, After(p, u, "conflict"))
      BY <1>2, <1>5, <3>3, <3>6
    <3>7. CASE \E c : \E x \in {"project", "publish"} : Put(p, [u EXCEPT !.seen = c, !.at = x])
      BY <1>2, <3>5, <3>7
    <3> QED
      BY <3>4, <3>6, <3>7
  <2> QED
    BY <1>7, <2>1, <2>2 DEF Lock
<1>8. CASE Publish(p)
  BY <1>1, <1>2, <1>4, <1>5, <1>8 DEF Publish, Leave, Locked
<1>9. CASE Rename(p)
  BY <1>1, <1>2, <1>4, <1>5, <1>9 DEF Rename, Leave, Locked
<1>10. CASE Project(p)
  BY <1>1, <1>2, <1>4, <1>5, <1>6, <1>10 DEF Project, Leave, Locked, At
<1>11. CASE Swap(p)
  BY <1>1, <1>2, <1>5, <1>6, <1>11 DEF Swap, Leave, At
<1> QED
  BY <1>7, <1>8, <1>9, <1>10, <1>11 DEF Section

\* No step tells a success that does not show.
LEMMA StepShows == IInv /\ [Next]_vars => [AckShown]_vars
<1> SUFFICES ASSUME IInv, Next, NEW p \in Workers \cup {"collect"},
                    InSection(proc[p]), ~InSection(proc'[p]), Successful(proc'[p]), ~exposed
             PROVE  projection' = proc'[p].seen /\ (lock = p => canvas' = proc'[p].seen)
  BY DEF AckShown, InSection, Successful
<1>1. /\ p \in Procs /\ Workers \subseteq Procs /\ Reporters \subseteq Procs
      /\ "collect" \in Procs /\ "before" \in Procs
      /\ p \notin {"before", "dispatch", "cancel"}
  BY CanvasAssumption DEF Procs, Daemon, Reporters
<1>2. ASSUME NEW q \in Procs, NEW r, Put(q, r)
      PROVE  q = p /\ proc'[p] = r
  BY <1>1, <1>2 DEF IInv, Processes, Put
<1>3. proc' # proc
  BY DEF InSection
<1>4. Idle.verdict = None /\ \A u : Failed(u).verdict = None
  BY DEF Failed, Idle
<1>5. ASSUME NEW q \in Procs, Request(q) \/ Retry(q) \/ History(q) \/ Report(q)
      PROVE  FALSE
  BY <1>2, <1>5, OthersStay
<1>6. CASE \E q \in Workers : Request(q) \/ Retry(q) \/ Crash(q)
  <2>1. ASSUME NEW q \in Workers, Crash(q) PROVE FALSE
    BY <1>1, <1>2, <1>4, <2>1 DEF Crash, Successful
  <2> QED
    BY <1>1, <1>5, <1>6, <2>1
<1>7. CASE \E q \in Workers \cup {"collect"} : Section(q)
  <2>1. PICK q \in Workers \cup {"collect"} : Section(q)
    BY <1>7
  <2>2. q = p
    BY <1>1, <1>2, <2>1, SectionTells
  <2> QED
    BY <1>1, <2>1, <2>2, SectionTells
<1>8. CASE \E q \in Workers \cup {"before"} : History(q)
  BY <1>1, <1>5, <1>8
<1>9. CASE \E q \in Reporters : Report(q)
  BY <1>1, <1>5, <1>9
<1>10. CASE Dispatch \/ Resubmit \/ Stop
  BY <1>1, <1>2, <1>3, <1>10, DaemonProcs DEF Dispatch, Resubmit, Stop, Daemon
<1>11. CASE Freeze
  BY <1>1, <1>2, <1>11, DaemonProcs DEF Freeze, Daemon, InSection, IInv, Processes
<1>12. CASE EndTurn
  <2>1. PICK op : Put("collect", [Idle EXCEPT !.at = "outcome", !.op = op])
    BY <1>12 DEF EndTurn
  <2>2. [Idle EXCEPT !.at = "outcome", !.op = op].verdict = None
    BY DEF Idle
  <2> QED
    BY <1>1, <1>2, <2>1, <2>2 DEF Successful
<1>13. CASE LoseLock
  BY <1>3, <1>13 DEF LoseLock
<1>14. CASE CrashDaemon
  <2>1. proc'[p] \in {Idle, proc[p]}
    BY <1>1, <1>14 DEF CrashDaemon
  <2> QED
    BY <1>4, <2>1 DEF Successful
<1> QED
  BY <1>6, <1>7, <1>8, <1>9, <1>10, <1>11, <1>12, <1>13, <1>14 DEF Next

\* store.ts, current-projection.ts: who is told that its operation succeeded finds
\* the projection of what it is told, which is the canvas if it has the lock.
THEOREM AcksShow == Spec => AckedIsProjected
  BY CanvasInvariant, StepShows, PTL DEF Spec, AckedIsProjected
-----------------------------------------------------------------------------
(* The verdict of the turn                                                 *)

\* What the promise is good for: no stop came during a collection, the daemon did not
\* die between a commit and its receipt, and there was at most one fault, so that
\* not both the receipt and the stamp of a verdict are missing.
Accountable == ~raced /\ ~forgotten /\ faults <= 1

\* The revisions the canvas has been at since the first write.
Known == {canvas} \cup {l.rev : l \in landed} \cup {l.onto : l \in landed}

TrueVerdict(v) ==
  /\ v.status # "none"
  /\ v.status = "committed" => v.revision \in Known
  /\ v.status \in {"conflict", "no_artifact", "cancelled", "failed"} => ~Collected

Counters == raced \in BOOLEAN /\ forgotten \in BOOLEAN /\ faults \in Nat

Away == Locked \cup {"lock"}

\* Only the collection writes as one, a cancellation never writes, and only a turn
\* that waits is dispatched.
Part(p, r) ==
  /\ r.op = "collect" => p = "collect"
  /\ p = "collect" => /\ r.at \in Away => r.op = "collect"
                      /\ r.at \in {"outcome", "classify"} => r.op \in {"collect", "failed"}
  /\ p = "cancel" => /\ r.at \notin Away
                     /\ r.at \in {"outcome", "classify"} => r.op = "cancel"
  /\ r.at = "verify" => p = "dispatch" /\ phase = "none"

Parts == \A p \in Procs : Part(p, proc[p])

\* One reporter at a time, of a turn that has ended and has no verdict yet.
OneReports ==
  /\ \A p \in Reporters : ~At(p, "idle") => phase = "ended" /\ stamp = NoOutcome
  /\ At("cancel", "idle") \/ At("collect", "idle")
  /\ phase # "ended" => stamp = NoOutcome

\* How far a reporter is: one that found no receipt is on its way to write one, and
\* what it writes then is what happened.
Stage(r) ==
  /\ r.at \in Away \cup {"classify", "receipt"} => receipt = NoOutcome
  /\ r.at \in {"receipt", "stamp"} => TrueVerdict(r.verdict)
  /\ r.at = "stamp" => receipt \in {NoOutcome, r.verdict} /\ (receipt = NoOutcome => faults >= 1)
  /\ r.at \in {"project", "swap"} => r.seen \in Known

Reporting == \A p \in Reporters : Stage(proc[p])

\* What the collection wrote is on record, or the collection still is about it.
Accounted ==
  Collected /\ receipt = NoOutcome /\ stamp = NoOutcome =>
    proc["collect"].at \in {"project", "swap", "receipt", "stamp"}

Recorded ==
  /\ receipt # NoOutcome => TrueVerdict(receipt) /\ stamp \in {NoOutcome, receipt}
  /\ stamp # NoOutcome => TrueVerdict(stamp)

\* What the verdict rests on.
Trusted == OneReports /\ Reporting /\ Accounted /\ Recorded

VInv == Counters /\ Parts /\ (Accountable => Trusted)

\* Put changes one process, whatever it becomes.
LEMMA PutOne ==
  ASSUME Processes, NEW p \in Procs, NEW r, Put(p, r)
  PROVE  proc'[p] = r /\ \A q \in Procs \ {p} : proc'[q] = proc[q]
  BY DEF Processes, Put

LEMMA ReporterProcs ==
  /\ Reporters \subseteq Procs /\ Reporters = {"collect", "cancel"}
  /\ "collect" \in Procs /\ "cancel" \in Procs
  BY DEF Procs, Daemon, Reporters

\* A true verdict stays true as long as no collection writes.
LEMMA StaysTrue ==
  ASSUME NEW v, TrueVerdict(v), Known \subseteq Known', Collected' => Collected
  PROVE  TrueVerdict(v)'
  BY DEF TrueVerdict

\* A step beside the report changes nothing of what the verdict rests on.
LEMMA TrustBeside ==
  ASSUME Counters, Trusted, \A q \in Reporters : proc'[q] = proc[q],
         UNCHANGED <<receipt, stamp>>, faults' \in {faults, faults + 1},
         Known \subseteq Known', Collected' = Collected,
         phase' = phase \/ (phase # "ended" /\ phase' # "ended")
  PROVE  Trusted'
<1>1. "collect" \in Reporters /\ "cancel" \in Reporters
  BY ReporterProcs
<1>2. OneReports'
  BY <1>1 DEF Trusted, OneReports, At
<1>3. \A v : TrueVerdict(v) => TrueVerdict(v)'
  BY StaysTrue
<1>4. faults >= 1 => faults' >= 1
  BY DEF Counters
<1>5. Reporting'
  <2> SUFFICES ASSUME NEW p \in Reporters PROVE Stage(proc[p])'
    BY DEF Reporting
  <2>1. Stage(proc[p]) /\ proc'[p] = proc[p]
    BY DEF Trusted, Reporting
  <2> QED
    BY <1>3, <1>4, <2>1 DEF Stage
<1>6. Accounted'
  BY <1>1 DEF Trusted, Accounted
<1>7. Recorded'
  BY <1>3 DEF Trusted, Recorded
<1> QED
  BY <1>2, <1>5, <1>6, <1>7 DEF Trusted

\* Beside the report a process may do what it likes, as long as it does not pass
\* for the collection.
LEMMA OtherMoves ==
  ASSUME IInv, VInv, NEW p \in Procs \ Reporters, NEW r, Put(p, r),
         r.op # "collect", r.at # "verify",
         UNCHANGED <<receipt, stamp, phase, raced, forgotten>>,
         faults' \in {faults, faults + 1}, Known \subseteq Known', Collected' = Collected
  PROVE  VInv'
<1>1. proc'[p] = r /\ \A q \in Procs \ {p} : proc'[q] = proc[q]
  BY PutOne DEF IInv
<1>2. Counters' /\ (Accountable' => Accountable)
  BY DEF VInv, Counters, Accountable
<1>3. Parts'
  BY <1>1, ReporterProcs DEF VInv, Parts, Part
<1>4. Accountable' => Trusted'
  BY <1>1, <1>2, ReporterProcs, TrustBeside DEF VInv
<1> QED
  BY <1>2, <1>3, <1>4 DEF VInv

\* A reporter goes on; the other one rests.
LEMMA ReporterMoves ==
  ASSUME Processes, NEW p \in Reporters, NEW r, Put(p, r),
         \A q \in Reporters \ {p} : At(q, "idle"),
         phase' = "ended", r.at # "idle" => stamp' = NoOutcome,
         Stage(r)', Accounted', Recorded'
  PROVE  Trusted'
<1>1. proc'[p] = r /\ \A q \in Reporters \ {p} : proc'[q] = proc[q]
  BY PutOne, ReporterProcs
<1>2. OneReports'
  BY <1>1, ReporterProcs DEF OneReports, At
<1>3. Reporting'
  BY <1>1 DEF Reporting, Stage, At, Away, Locked
<1> QED
  BY <1>2, <1>3 DEF Trusted

\* Before it has written, the collection has written nothing.
LEMMA NotYet ==
  ASSUME Trusted, NEW p \in Reporters, proc[p].at \in {"classify", "lock", "publish", "rename"}
  PROVE  receipt = NoOutcome /\ stamp = NoOutcome /\ ~Collected
<1>1. receipt = NoOutcome /\ stamp = NoOutcome
  BY DEF Trusted, Reporting, Stage, OneReports, At, Away, Locked
<1>2. proc["collect"].at \notin {"project", "swap", "receipt", "stamp"}
  BY ReporterProcs DEF Trusted, OneReports, At
<1> QED
  BY <1>1, <1>2 DEF Trusted, Accounted

\* While one reports, the other rests.
LEMMA OtherRests ==
  ASSUME Trusted, NEW p \in Reporters, ~At(p, "idle")
  PROVE  /\ \A q \in Reporters \ {p} : At(q, "idle")
         /\ phase = "ended" /\ stamp = NoOutcome
  BY ReporterProcs DEF Trusted, OneReports

\* Verdicts differ by their status.
LEMMA Statuses ==
  ASSUME NEW s, NEW v
  PROVE  Outcome(s, v).status = s /\ Outcome(s, v).revision = v
  BY DEF Outcome

-----------------------------------------------------------------------------
(* Beside the report                                                       *)

\* Whatever is told, it is told to the same operation.
LEMMA SameOperation ==
  ASSUME NEW r, Sound(r), NEW p, NEW reply \in {"ok", "conflict", "failed"},
         NEW s, s = After(p, r, reply)
  PROVE  s.op = r.op
<1>1. Formed(r)
  BY DEF Sound
<1>2. CASE r.op = "collect" \/ reply = "ok" \/ hlock = p
  <2>1. \E at, v : s = [r EXCEPT !.at = at, !.verdict = v]
    BY <1>2 DEF After
  <2> QED
    BY <1>1, <2>1 DEF Formed
<1>3. CASE r.op # "collect" /\ reply # "ok" /\ hlock # p
  BY <1>3 DEF After, Failed, Idle
<1> QED
  BY <1>2, <1>3

\* A section goes from stage to stage, and what it becomes keeps its operation.
LEMMA SectionGoes ==
  ASSUME IInv, NEW p \in Procs, Section(p)
  PROVE  \E s : /\ Put(p, s) /\ s.op = proc[p].op
                /\ s.at \in Locked \cup {"idle", "receipt", "hlock", "hdecide", "hleave"}
<1> DEFINE r == proc[p]
           Goes == \E s : /\ Put(p, s) /\ s.op = r.op
                          /\ s.at \in Locked \cup {"idle", "receipt", "hlock", "hdecide", "hleave"}
<1>1. Sound(r) /\ Formed(r)
  BY DEF IInv, Processes, Sound
<1>2. ASSUME NEW x \in Locked, Go(p, x) PROVE Goes
  <2>1. PICK s : Put(p, s) /\ s = [r EXCEPT !.at = x]
    BY <1>2 DEF Go
  <2> QED
    BY <1>1, <2>1, Moved
<1>3. ASSUME NEW u, Sound(u), u.op = r.op, NEW reply \in {"ok", "conflict", "failed"},
             Put(p, After(p, u, reply))
      PROVE  Goes
  <2>1. PICK s : Put(p, s) /\ s = After(p, u, reply)
    BY <1>3
  <2>2. s.op = r.op /\ s.at \in {"idle", "receipt", "hlock", "hdecide", "hleave"}
    BY <1>3, <2>1, SameOperation, AfterSound
  <2> QED
    BY <2>1, <2>2
<1>4. CASE Lock(p)
  <2>1. CASE Put(p, After(p, r, "conflict"))
    BY <1>1, <1>3, <2>1
  <2>2. CASE lock = None
    <3>1. PICK u : u = [r EXCEPT !.verdict = None]
      OBVIOUS
    <3>2. /\ Formed(u) /\ u.at = r.at /\ u.op = r.op /\ u.next = r.next
          /\ u.seen = r.seen /\ u.base = r.base
      BY <1>1, <3>1, Told
    <3>3. Sound(u)
      BY <1>1, <3>2 DEF Sound, Sorted, AppendsBase
    <3>4. \/ Put(p, After(p, u, "conflict"))
          \/ \E c : \E x \in {"project", "publish"} : Put(p, [u EXCEPT !.seen = c, !.at = x])
      BY <1>4, <2>2, <3>1 DEF Lock
    <3>5. ASSUME NEW c, NEW x \in {"project", "publish"}, Put(p, [u EXCEPT !.seen = c, !.at = x])
          PROVE  Goes
      <4>1. PICK s : Put(p, s) /\ s = [u EXCEPT !.seen = c, !.at = x]
        BY <3>5
      <4>2. s.at = x /\ s.op = r.op
        BY <3>2, <4>1 DEF Formed
      <4> QED
        BY <4>1, <4>2 DEF Locked
    <3>6. CASE Put(p, After(p, u, "conflict"))
      BY <1>3, <3>2, <3>3, <3>6
    <3>7. CASE \E c : \E x \in {"project", "publish"} : Put(p, [u EXCEPT !.seen = c, !.at = x])
      BY <3>5, <3>7
    <3> QED
      BY <3>4, <3>6, <3>7
  <2> QED
    BY <1>4, <2>1, <2>2 DEF Lock
<1>5. CASE Publish(p) \/ Rename(p) \/ Project(p) \/ Swap(p)
  <2>1. \/ \E x \in Locked : Go(p, x)
        \/ \E reply \in {"ok", "conflict", "failed"} : Put(p, After(p, r, reply))
    BY <1>5 DEF Publish, Rename, Project, Swap, Leave, Locked
  <2> QED
    BY <1>1, <1>2, <1>3, <2>1
<1> QED
  BY <1>4, <1>5 DEF Section

\* What a section leaves alone, and that the canvas has been where it was.
LEMMA SectionKeepsReport ==
  ASSUME NEW p, Section(p)
  PROVE  /\ UNCHANGED <<receipt, stamp, phase, raced, forgotten>>
         /\ faults' \in {faults, faults + 1} /\ Known \subseteq Known'
         /\ \/ UNCHANGED <<canvas, landed>>
            \/ /\ proc[p].at = "rename" /\ canvas' = proc[p].seen
               /\ landed' = landed \cup {[rev |-> proc[p].seen, op |-> proc[p].op,
                                          base |-> proc[p].base, onto |-> canvas]}
<1>1. UNCHANGED <<receipt, stamp, phase, raced, forgotten>> /\ faults' \in {faults, faults + 1}
  BY DEF Section, Lock, Publish, Rename, Project, Swap, Fault, NoFault, disk, turn, ghosts
<1>2. CASE UNCHANGED <<canvas, landed>>
  BY <1>1, <1>2 DEF Known
<1>3. CASE /\ proc[p].at = "rename" /\ canvas' = proc[p].seen
           /\ landed' = landed \cup {[rev |-> proc[p].seen, op |-> proc[p].op,
                                      base |-> proc[p].base, onto |-> canvas]}
  <2>1. Known \subseteq Known'
    <3>1. canvas \in {l.onto : l \in landed'}
      <4>1. PICK n : n = [rev |-> proc[p].seen, op |-> proc[p].op, base |-> proc[p].base,
                          onto |-> canvas]
        OBVIOUS
      <4>2. n \in landed' /\ n.onto = canvas
        BY <1>3, <4>1
      <4> QED
        BY <4>2
    <3>2. landed \subseteq landed'
      BY <1>3
    <3> QED
      BY <3>1, <3>2 DEF Known
  <2> QED
    BY <1>1, <1>3, <2>1
<1>4. \/ UNCHANGED <<canvas, landed>>
      \/ /\ proc[p].at = "rename" /\ canvas' = proc[p].seen
         /\ landed' = landed \cup {[rev |-> proc[p].seen, op |-> proc[p].op,
                                    base |-> proc[p].base, onto |-> canvas]}
  BY DEF Section, Lock, Publish, Rename, Project, Swap, At, disk, turn, ghosts
<1> QED
  BY <1>2, <1>3, <1>4

\* A user's section.
LEMMA SectionBeside ==
  ASSUME IInv, VInv, NEW p \in Procs \ Reporters, Section(p)
  PROVE  VInv'
<1>1. PICK s : /\ Put(p, s) /\ s.op = proc[p].op
               /\ s.at \in Locked \cup {"idle", "receipt", "hlock", "hdecide", "hleave"}
  BY SectionGoes
<1>2. s.op # "collect" /\ proc[p].op # "collect" /\ s.at # "verify"
  BY <1>1, ReporterProcs DEF VInv, Parts, Part, Locked
<1>3. Collected' = Collected
  BY <1>2, SectionKeepsReport DEF Collected
<1> QED
  BY <1>1, <1>2, <1>3, SectionKeepsReport, OtherMoves

\* Who rests has no operation, or the one that failed.
LEMMA RestOperation ==
  ASSUME NEW r, NEW s, s = Idle \/ s = Failed(r)
  PROVE  (s.op = "none" \/ s.op = r.op) /\ s.at # "verify"
<1>1. CASE s = Idle
  BY <1>1 DEF Idle
<1>2. CASE s = Failed(r)
  <2>1. s.at = "idle"
    BY <1>2, FailedSound
  <2>2. s.op = r.op
    BY <1>2 DEF Failed, Idle
  <2> QED
    BY <2>1, <2>2
<1> QED
  BY <1>1, <1>2

\* The history's section.
LEMMA HistoryGoes ==
  ASSUME IInv, NEW p \in Procs, History(p)
  PROVE  /\ \E s : Put(p, s) /\ (s.op = "none" \/ s.op = proc[p].op) /\ s.at # "verify"
         /\ UNCHANGED <<receipt, stamp, phase, raced, forgotten, faults, canvas, landed>>
<1> DEFINE r == proc[p]
           Goes == \E s : Put(p, s) /\ (s.op = "none" \/ s.op = r.op) /\ s.at # "verify"
<1>1. Sound(r) /\ Formed(r) /\ Sorted(r)
  BY DEF IInv, Processes, Sound
<1>2. UNCHANGED <<receipt, stamp, phase, raced, forgotten, faults, canvas, landed>>
  BY DEF History, Read, HistoryLock, HistoryLeave, HistoryDecide, AppendVersion, UpdateRef, BindVersion, disk,
         turn, ghosts
<1> SUFFICES Goes
  BY <1>2
<1>3. ASSUME NEW x, x # "verify", Put(p, [r EXCEPT !.at = x]) PROVE Goes
  <2>1. PICK s : Put(p, s) /\ s = [r EXCEPT !.at = x]
    BY <1>3
  <2> QED
    BY <1>1, <1>3, <2>1, Moved
<1>4. ASSUME NEW s, Put(p, s), s = Idle \/ s = Failed(r) PROVE Goes
  BY <1>4, RestOperation
<1>5. ASSUME NEW i, NEW content, NEW action, Put(p, Bind(r, i, content, action)) PROVE Goes
  <2>1. PICK s : Put(p, s) /\ s = Bind(r, i, content, action)
    BY <1>5
  <2> QED
    BY <1>1, <2>1, BindSound
<1>6. CASE Read(p)
  <2>1. CASE Put(p, [r EXCEPT !.seen = canvas, !.at = r.next])
    <3>1. PICK s, c : Put(p, s) /\ s = [r EXCEPT !.seen = c, !.at = r.next]
      BY <2>1
    <3>2. s.op = r.op /\ s.at = r.next
      BY <1>1, <3>1 DEF Formed
    <3>3. s.at # "verify"
      BY <1>1, <3>2 DEF Sorted, Nexts
    <3> QED
      BY <3>1, <3>2, <3>3
  <2> HIDE DEF Goes
  <2> QED
    BY <1>3, <1>6, <2>1 DEF Read
<1>7. CASE HistoryLock(p)
  <2>1. CASE Put(p, [r EXCEPT !.at = "read", !.next = "hdecide"])
    <3>1. PICK s : Put(p, s) /\ s = [r EXCEPT !.at = "read", !.next = "hdecide"]
      BY <2>1
    <3>2. s.op = r.op /\ s.at = "read"
      BY <1>1, <3>1 DEF Formed
    <3> QED
      BY <3>1, <3>2
  <2> HIDE DEF Goes
  <2> QED
    BY <1>3, <1>4, <1>7, <2>1 DEF HistoryLock
<1>8. CASE HistoryLeave(p)
  <2> HIDE DEF Goes
  <2> QED
    BY <1>4, <1>8 DEF HistoryLeave
<1>9. CASE HistoryDecide(p)
  <2>1. r.op \in HistoryOps
    BY <1>1, <1>9 DEF HistoryDecide, At, Sorted
  <2>2. PICK s : Put(p, s) /\ s = Decided(r)
    BY <1>9 DEF HistoryDecide, Decided
  <2>3. \/ s = [r EXCEPT !.at = "hleave"] \/ s = [r EXCEPT !.at = "append"]
        \/ \E i, content, action : s = Bind(r, i, content, action)
    BY <2>1, <2>2, Decisions
  <2> HIDE DEF Goes
  <2> QED
    BY <1>3, <1>5, <2>2, <2>3
<1>10. CASE AppendVersion(p)
  <2>1. CASE \E n : Put(p, [r EXCEPT !.at = "update", !.parent = n])
    <3>1. PICK s, n : Put(p, s) /\ s = [r EXCEPT !.at = "update", !.parent = n]
      BY <2>1
    <3>2. s.op = r.op /\ s.at = "update"
      BY <1>1, <3>1 DEF Formed
    <3> QED
      BY <3>1, <3>2
  <2> HIDE DEF Goes
  <2> QED
    BY <1>3, <1>10, <2>1 DEF AppendVersion
<1>12. CASE UpdateRef(p)
  <2>1. r.op \in HistoryOps
    BY <1>1, <1>12 DEF UpdateRef, At, Sorted
  <2>2. \/ \E i, content, action : Put(p, Bind(r, i, content, action))
        \/ Put(p, [r EXCEPT !.at = "hleave"])
    BY <1>12, <2>1 DEF UpdateRef, HistoryOps, Go
  <2> HIDE DEF Goes
  <2> QED
    BY <1>3, <1>5, <2>2
<1>11. CASE BindVersion(p)
  <2> HIDE DEF Goes
  <2> QED
    BY <1>3, <1>11 DEF BindVersion, Go
<1> QED
  BY <1>2, <1>6, <1>7, <1>8, <1>9, <1>10, <1>11, <1>12 DEF History

LEMMA HistoryBeside ==
  ASSUME IInv, VInv, NEW p \in Procs \ Reporters, History(p)
  PROVE  VInv'
<1>1. PICK s : Put(p, s) /\ (s.op = "none" \/ s.op = proc[p].op) /\ s.at # "verify"
  BY HistoryGoes
<1>2. s.op # "collect"
  BY <1>1, ReporterProcs DEF VInv, Parts, Part
<1>3. UNCHANGED <<receipt, stamp, phase, raced, forgotten, faults, canvas, landed>>
  BY HistoryGoes
<1>4. Known \subseteq Known' /\ Collected' = Collected /\ faults' \in {faults, faults + 1}
  BY <1>3 DEF Known, Collected
<1> QED
  BY <1>1, <1>2, <1>3, <1>4, OtherMoves

\* A request that is made, made again, or dies.
LEMMA RequestBeside ==
  ASSUME IInv, VInv, NEW p \in Procs \ Reporters, Request(p) \/ Retry(p) \/ Crash(p)
  PROVE  VInv'
<1>1. /\ UNCHANGED <<receipt, stamp, phase, raced, forgotten, canvas, landed>>
      /\ faults' \in {faults, faults + 1}
  BY DEF Request, Retry, Crash, Fault, disk, turn, ghosts
<1>2. Known \subseteq Known' /\ Collected' = Collected
  BY <1>1 DEF Known, Collected
<1>3. Formed(proc[p]) /\ proc[p].op # "collect"
  BY ReporterProcs DEF IInv, Processes, Sound, VInv, Parts, Part
<1>4. \E s : Put(p, s) /\ s.op # "collect" /\ s.at # "verify"
  <2>1. CASE Request(p)
    BY <2>1 DEF Request, Idle
  <2>2. CASE Retry(p)
    <3>1. CASE Put(p, [proc[p] EXCEPT !.at = "lock"])
      <4>1. PICK s : Put(p, s) /\ s = [proc[p] EXCEPT !.at = "lock"]
        BY <3>1
      <4> QED
        BY <1>3, <4>1, Moved
    <3>2. CASE Put(p, [Idle EXCEPT !.at = "read", !.op = proc[p].op, !.base = proc[p].base,
                                   !.next = "hlock", !.target = proc[p].target])
      <4>1. PICK s : /\ Put(p, s)
                     /\ s = [Idle EXCEPT !.at = "read", !.op = proc[p].op, !.base = proc[p].base,
                                         !.next = "hlock", !.target = proc[p].target]
        BY <3>2
      <4>2. s.op = proc[p].op /\ s.at = "read"
        BY <4>1, IdleSound DEF Sound, Formed
      <4> QED
        BY <1>3, <4>1, <4>2
    <3> QED
      BY <2>2, <3>1, <3>2 DEF Retry
  <2>3. CASE Crash(p)
    <3>1. PICK s : Put(p, s) /\ s = Failed(proc[p])
      BY <2>3 DEF Crash
    <3>2. (s.op = "none" \/ s.op = proc[p].op) /\ s.at # "verify"
      BY <3>1, RestOperation
    <3> QED
      BY <1>3, <3>1, <3>2
  <2> QED
    BY <2>1, <2>2, <2>3
<1> QED
  BY <1>1, <1>2, <1>4, OtherMoves

-----------------------------------------------------------------------------
(* The collection                                                          *)

Answered(s) ==
  /\ s.at = "receipt"
  /\ \/ s.verdict = Outcome("conflict", None) /\ At("collect", "lock")
     \/ s.verdict = Outcome("invalid", None)
     \/ \E v \in Known' : s.verdict = Outcome("committed", v)

\* What a section tells the collection.
LEMMA CollectionTold ==
  ASSUME NEW r, Sound(r), r.op = "collect", NEW reply \in {"ok", "conflict", "failed"},
         NEW s, s = After("collect", r, reply)
  PROVE  /\ s.at = "receipt" /\ s.op = "collect"
         /\ \/ reply = "ok" /\ s.verdict = Outcome("committed", r.seen)
            \/ reply = "conflict" /\ s.verdict = Outcome("conflict", None)
            \/ reply = "failed" /\ s.verdict = Outcome("invalid", None)
<1>1. Formed(r)
  BY DEF Sound
<1>2. PICK v : /\ s = [r EXCEPT !.at = "receipt", !.verdict = v]
               /\ \/ reply = "ok" /\ v = Outcome("committed", r.seen)
                  \/ reply = "conflict" /\ v = Outcome("conflict", None)
                  \/ reply = "failed" /\ v = Outcome("invalid", None)
  BY DEF After
<1>3. s.at = "receipt" /\ s.op = r.op /\ s.verdict = v
  BY <1>1, <1>2 DEF Formed
<1> QED
  BY <1>2, <1>3

\* The stages of the collection's section: it writes, shows what the canvas is or
\* was made, or has its verdict.
LEMMA CollectionGoes ==
  ASSUME IInv, Section("collect"), proc["collect"].op = "collect",
         proc["collect"].at \in {"project", "swap"} => proc["collect"].seen \in Known
  PROVE  \E s : /\ Put("collect", s) /\ s.op = "collect"
                /\ \/ s.at \in {"publish", "rename"} /\ proc["collect"].at \in {"lock", "publish"}
                   \/ s.at \in {"project", "swap"} /\ s.seen \in Known'
                   \/ Answered(s)
<1> DEFINE p == "collect"
           r == proc[p]
           Goes == \E s : /\ Put(p, s) /\ s.op = "collect"
                          /\ \/ s.at \in {"publish", "rename"} /\ r.at \in {"lock", "publish"}
                             \/ s.at \in {"project", "swap"} /\ s.seen \in Known'
                             \/ Answered(s)
<1> SUFFICES Goes
  OBVIOUS
<1>1. p \in Procs /\ Sound(r) /\ Formed(r)
  BY ReporterProcs DEF IInv, Processes, Sound
<1>2. r.at \in {"project", "swap"} => r.seen \in Known'
  BY SectionKeepsReport
<1>3. ASSUME NEW u, Sound(u), u.op = "collect", NEW reply \in {"ok", "conflict", "failed"},
             reply = "conflict" => r.at = "lock", reply = "ok" => u.seen \in Known',
             Put(p, After(p, u, reply))
      PROVE  Goes
  <2>1. PICK s : Put(p, s) /\ s = After(p, u, reply)
    BY <1>3
  <2>2. /\ s.at = "receipt" /\ s.op = "collect"
        /\ \/ reply = "ok" /\ s.verdict = Outcome("committed", u.seen)
           \/ reply = "conflict" /\ s.verdict = Outcome("conflict", None)
           \/ reply = "failed" /\ s.verdict = Outcome("invalid", None)
    BY <1>3, <2>1, CollectionTold
  <2>3. Answered(s)
    BY <1>3, <2>2 DEF Answered, At
  <2> QED
    BY <2>1, <2>2, <2>3
<1>4. ASSUME NEW x, Go(p, x),
             \/ x = "rename" /\ r.at = "publish"
             \/ x \in {"project", "swap"} /\ r.seen \in Known'
      PROVE  Goes
  <2>1. PICK s : Put(p, s) /\ s = [r EXCEPT !.at = x]
    BY <1>4 DEF Go
  <2>2. s.at = x /\ s.op = r.op /\ s.seen = r.seen
    BY <1>1, <2>1, Moved
  <2> QED
    BY <1>4, <2>1, <2>2 DEF At
<1>5. CASE Lock(p)
  <2>1. r.at = "lock" /\ UNCHANGED <<canvas, landed>>
    BY <1>5 DEF Lock, At, disk, ghosts
  <2>2. CASE Put(p, After(p, r, "conflict"))
    BY <1>1, <1>3, <2>1, <2>2
  <2>3. CASE lock = None
    <3>1. PICK u : u = [r EXCEPT !.verdict = None]
      OBVIOUS
    <3>2. /\ Formed(u) /\ u.at = r.at /\ u.op = r.op /\ u.next = r.next
          /\ u.seen = r.seen /\ u.base = r.base
      BY <1>1, <3>1, Told
    <3>3. Sound(u)
      BY <1>1, <3>2 DEF Sound, Sorted, AppendsBase
    <3>4. \/ Put(p, After(p, u, "conflict"))
          \/ Put(p, [u EXCEPT !.seen = canvas, !.at = "project"])
          \/ Put(p, [u EXCEPT !.seen = Written(u), !.at = "publish"])
      BY <1>5, <2>3, <3>1 DEF Lock
    <3>5. ASSUME NEW c, NEW x \in {"project", "publish"}, Put(p, [u EXCEPT !.seen = c, !.at = x]),
                 x = "project" => c = canvas
          PROVE  Goes
      <4>1. PICK s : Put(p, s) /\ s = [u EXCEPT !.seen = c, !.at = x]
        BY <3>5
      <4>2. s.at = x /\ s.op = r.op /\ s.seen = c
        BY <3>2, <4>1 DEF Formed
      <4>3. canvas \in Known'
        BY <2>1 DEF Known
      <4> QED
        BY <2>1, <3>5, <4>1, <4>2, <4>3 DEF At
    <3>6. CASE Put(p, After(p, u, "conflict"))
      BY <1>3, <2>1, <3>2, <3>3, <3>6
    <3> HIDE DEF Goes
    <3> QED
      BY <3>4, <3>5, <3>6
  <2> QED
    BY <1>5, <2>2, <2>3 DEF Lock
<1>6. CASE Publish(p)
  <2>1. r.at = "publish" /\ (Go(p, "rename") \/ Put(p, After(p, r, "failed")))
    BY <1>6 DEF Publish, Leave, At
  <2> HIDE DEF Goes
  <2> QED
    BY <1>1, <1>3, <1>4, <2>1
<1>7. CASE Rename(p)
  <2>1. \/ Go(p, "project") /\ canvas' = r.seen
        \/ Put(p, After(p, r, "failed"))
    BY <1>7 DEF Rename, Leave
  <2>2. canvas' \in Known'
    BY DEF Known
  <2> HIDE DEF Goes
  <2> QED
    BY <1>1, <1>3, <1>4, <2>1, <2>2
<1>8. CASE Project(p) \/ Swap(p)
  <2>1. r.at \in {"project", "swap"}
    BY <1>8 DEF Project, Swap, At
  <2>2. \/ Go(p, "swap") \/ Put(p, After(p, r, "failed")) \/ Put(p, After(p, r, "ok"))
    BY <1>8 DEF Project, Swap, Leave
  <2> HIDE DEF Goes
  <2> QED
    BY <1>1, <1>2, <1>3, <1>4, <2>1, <2>2
<1> QED
  BY <1>5, <1>6, <1>7, <1>8 DEF Section

\* The collection's section keeps what the verdict rests on.
LEMMA CollectionKeeps ==
  ASSUME IInv, VInv, Section("collect")
  PROVE  VInv'
<1> DEFINE p == "collect"
           r == proc[p]
<1>1. p \in Procs /\ p \in Reporters
  BY ReporterProcs
<1>2. r.at \in Away /\ r.op = "collect"
  <2>1. r.at \in Away
    BY DEF Section, Lock, Publish, Rename, Project, Swap, At, Away, Locked
  <2> QED
    BY <1>1, <2>1 DEF VInv, Parts, Part
<1>3. /\ UNCHANGED <<receipt, stamp, phase, raced, forgotten>>
      /\ faults' \in {faults, faults + 1} /\ Known \subseteq Known'
      /\ At(p, "rename") \/ UNCHANGED <<canvas, landed>>
  BY SectionKeepsReport DEF At
<1>4. Counters' /\ (Accountable' => Accountable)
  BY <1>3 DEF VInv, Counters, Accountable
<1>5. Parts'
  <2>1. PICK s : /\ Put(p, s) /\ s.op = r.op
                 /\ s.at \in Locked \cup {"idle", "receipt", "hlock", "hdecide", "hleave"}
    BY <1>1, SectionGoes
  <2>2. proc'[p] = s /\ \A q \in Procs \ {p} : proc'[q] = proc[q]
    BY <1>1, <2>1, PutOne DEF IInv
  <2>3. Part(p, s)'
    BY <1>2, <2>1 DEF Part, Locked
  <2>4. \A q \in Procs \ {p} : Part(q, proc[q])'
    BY <1>3, <2>2 DEF VInv, Parts, Part
  <2> QED
    BY <1>1, <2>2, <2>3, <2>4 DEF Parts
<1>6. ASSUME Accountable' PROVE Trusted'
  <2>1. Trusted /\ Stage(r)
    BY <1>1, <1>4, <1>6 DEF VInv, Trusted, Reporting
  <2>2. receipt = NoOutcome /\ (r.at \in {"project", "swap"} => r.seen \in Known)
    BY <1>2, <2>1 DEF Stage
  <2>3. /\ \A q \in Reporters \ {p} : At(q, "idle")
        /\ phase = "ended" /\ stamp = NoOutcome
    <3>1. ~At(p, "idle")
      BY <1>2 DEF At, Away, Locked
    <3> QED
      BY <1>1, <2>1, <3>1, OtherRests
  <2>4. PICK s : /\ Put(p, s) /\ s.op = "collect"
                 /\ \/ s.at \in {"publish", "rename"} /\ r.at \in {"lock", "publish"}
                    \/ s.at \in {"project", "swap"} /\ s.seen \in Known'
                    \/ Answered(s)
    BY <1>2, <2>2, CollectionGoes
  <2>5. proc'[p] = s
    BY <1>1, <2>4, PutOne DEF IInv
  <2>6. At(p, "lock") => ~Collected'
    <3>1. ASSUME At(p, "lock") PROVE ~Collected /\ UNCHANGED landed
      BY <1>1, <1>3, <2>1, <3>1, NotYet DEF At
    <3> QED
      BY <3>1 DEF Collected
  <2>7. Stage(s)'
    <3>1. CASE s.at \in {"publish", "rename", "project", "swap"}
      BY <1>3, <2>2, <2>4, <3>1 DEF Stage, Answered
    <3>2. CASE Answered(s)
      <4>1. s.at = "receipt"
        BY <3>2 DEF Answered
      <4>2. TrueVerdict(s.verdict)'
        BY <2>6, <3>2, Statuses DEF Answered, TrueVerdict
      <4> QED
        BY <1>3, <2>2, <4>1, <4>2 DEF Stage
    <3> QED
      BY <2>4, <3>1, <3>2
  <2>8. Accounted'
    <3>1. CASE s.at \in {"publish", "rename"} /\ r.at \in {"lock", "publish"}
      <4>1. ~Collected /\ UNCHANGED landed
        BY <1>1, <1>3, <2>1, <3>1, NotYet DEF At
      <4> QED
        BY <4>1 DEF Accounted, Collected
    <3>2. CASE s.at \in {"project", "swap", "receipt"}
      BY <2>5, <3>2 DEF Accounted
    <3> QED
      BY <2>4, <3>1, <3>2 DEF Answered
  <2>9. Recorded'
    BY <1>3, <2>2, <2>3 DEF Recorded
  <2> QED
    BY <1>1, <1>3, <2>2, <2>3, <2>4, <2>7, <2>8, <2>9, ReporterMoves DEF IInv
<1> QED
  BY <1>4, <1>5, <1>6 DEF VInv

-----------------------------------------------------------------------------
(* The report                                                              *)

\* A reporter goes on with its report.
LEMMA ReportMoves ==
  ASSUME IInv, VInv, NEW p \in Reporters, NEW s, Put(p, s), ~At(p, "idle"), Part(p, s),
         UNCHANGED <<canvas, landed, phase, raced, forgotten>>, faults' \in {faults, faults + 1},
         Accountable /\ Accountable' /\ Trusted =>
           (s.at # "idle" => stamp' = NoOutcome) /\ Stage(s)' /\ Accounted' /\ Recorded'
  PROVE  VInv'
<1>1. p \in Procs
  BY ReporterProcs
<1>2. proc'[p] = s /\ \A q \in Procs \ {p} : proc'[q] = proc[q]
  BY <1>1, PutOne DEF IInv
<1>3. Counters' /\ (Accountable' => Accountable)
  BY DEF VInv, Counters, Accountable
<1>4. Parts'
  BY <1>2 DEF VInv, Parts, Part
<1>5. ASSUME Accountable' PROVE Trusted'
  <2>1. Accountable /\ Trusted
    BY <1>3, <1>5 DEF VInv
  <2>2. (\A q \in Reporters \ {p} : At(q, "idle")) /\ phase = "ended"
    BY <2>1, OtherRests
  <2>3. (s.at # "idle" => stamp' = NoOutcome) /\ Stage(s)' /\ Accounted' /\ Recorded'
    BY <1>5, <2>1
  <2> QED
    BY <2>2, <2>3, ReporterMoves DEF IInv
<1> QED
  BY <1>3, <1>4, <1>5 DEF VInv

\* What was accounted for stays so if the collection has not written or is not the
\* one that moves on.
LEMMA StaysAccounted ==
  ASSUME Processes, Trusted, NEW p \in Reporters, NEW s, Put(p, s),
         UNCHANGED <<landed, receipt, stamp>>,
         \/ proc[p].at \in {"outcome", "classify"} \/ p # "collect"
         \/ s.at \in {"project", "swap", "receipt", "stamp"}
  PROVE  Accounted'
<1>1. proc'[p] = s /\ \A q \in Procs \ {p} : proc'[q] = proc[q]
  BY ReporterProcs, PutOne
<1>2. Collected' = Collected
  BY DEF Collected
<1> QED
  BY <1>1, <1>2, ReporterProcs DEF Trusted, Accounted

\* A receipt that is there is stamped as it stands.
LEMMA ConsultKeeps ==
  ASSUME IInv, VInv, NEW p \in Reporters, Consult(p)
  PROVE  VInv'
<1> DEFINE r == proc[p]
<1>1. /\ UNCHANGED <<canvas, landed, phase, raced, forgotten, receipt, stamp, faults>>
      /\ r.at = "outcome" /\ ~At(p, "idle")
  BY DEF Consult, At, disk, turn, ghosts
<1>2. Formed(r) /\ Part(p, r) /\ p \in Procs
  BY ReporterProcs DEF IInv, Processes, Sound, VInv, Parts
<1>3. \A v : TrueVerdict(v) => TrueVerdict(v)'
  BY <1>1 DEF TrueVerdict, Known, Collected
<1>4. Trusted => Recorded' /\ stamp = NoOutcome
  BY <1>1, <1>3, OtherRests DEF Trusted, Recorded
<1>5. CASE stamp # NoOutcome
  <2>1. Put(p, Idle)
    BY <1>5 DEF Consult
  <2>2. Part(p, Idle)
    BY IdleSound DEF Part, Idle, Away, Locked
  <2> QED
    BY <1>1, <1>4, <1>5, <2>1, <2>2, ReportMoves
<1>6. CASE stamp = NoOutcome /\ receipt # NoOutcome
  <2>1. PICK s : Put(p, s) /\ s = [r EXCEPT !.verdict = receipt, !.at = "stamp"]
    BY <1>6 DEF Consult
  <2>2. s.at = "stamp" /\ s.op = r.op /\ s.verdict = receipt
    BY <1>2, <2>1 DEF Formed
  <2>3. Part(p, s)
    BY <1>2, <2>2 DEF Part, Away, Locked
  <2>4. Trusted => Stage(s)' /\ Accounted'
    BY <1>1, <1>3, <1>6, <2>2 DEF Trusted, Recorded, Stage, Accounted, Away, Locked
  <2> QED
    BY <1>1, <1>4, <1>6, <2>1, <2>3, <2>4, ReportMoves
<1>7. CASE stamp = NoOutcome /\ receipt = NoOutcome
  <2>1. PICK s : Put(p, s) /\ s = [r EXCEPT !.at = "classify"]
    BY <1>7 DEF Consult
  <2>2. s.at = "classify" /\ s.op = r.op
    BY <1>2, <2>1, Moved
  <2>3. Part(p, s)
    BY <1>1, <1>2, <2>2 DEF Part, Away, Locked
  <2>4. Trusted => Stage(s)' /\ Accounted'
    BY <1>1, <1>7, <2>1, <2>2, StaysAccounted DEF Stage, IInv
  <2> QED
    BY <1>1, <1>4, <1>7, <2>1, <2>3, <2>4, ReportMoves
<1> QED
  BY <1>5, <1>6, <1>7

\* Without a receipt nothing was written, so that any verdict but a committed one
\* is true; a collection goes on to write.
LEMMA ClassifyKeeps ==
  ASSUME IInv, VInv, NEW p \in Reporters, Classify(p)
  PROVE  VInv'
<1> DEFINE r == proc[p]
<1>1. /\ UNCHANGED <<canvas, landed, phase, raced, forgotten, receipt, stamp, faults>>
      /\ r.at = "classify" /\ ~At(p, "idle")
  BY DEF Classify, At, disk, turn, ghosts
<1>2. Formed(r) /\ Part(p, r) /\ p \in Procs
  BY ReporterProcs DEF IInv, Processes, Sound, VInv, Parts
<1>3. Trusted => receipt = NoOutcome /\ stamp = NoOutcome /\ ~Collected'
  BY <1>1, NotYet DEF Collected
<1>4. Trusted => Recorded'
  BY <1>1, <1>3 DEF Recorded
<1>5. ASSUME NEW status \in {"cancelled", "failed", "no_artifact", "invalid"},
             Put(p, [r EXCEPT !.verdict = Outcome(status, None), !.at = "receipt"])
      PROVE  VInv'
  <2>1. PICK s, v : /\ Put(p, s) /\ v = Outcome(status, None)
                    /\ s = [r EXCEPT !.verdict = v, !.at = "receipt"]
    BY <1>5
  <2>2. s.at = "receipt" /\ s.op = r.op /\ s.verdict = v
    BY <1>2, <2>1 DEF Formed
  <2>3. Part(p, s)
    BY <1>2, <2>2 DEF Part, Away, Locked
  <2>4. ~Collected' => TrueVerdict(v)'
    BY <2>1, Statuses DEF TrueVerdict
  <2>5. Trusted => Stage(s)' /\ Accounted'
    BY <1>1, <1>3, <2>1, <2>2, <2>4, StaysAccounted DEF Stage, IInv
  <2> QED
    BY <1>1, <1>3, <1>4, <2>1, <2>3, <2>5, ReportMoves
<1>6. ASSUME NEW b, NEW c, r.op \notin {"cancel", "failed"},
             Put(p, [r EXCEPT !.base = b, !.content = c, !.at = "lock"])
      PROVE  VInv'
  <2>1. PICK s : Put(p, s) /\ s = [r EXCEPT !.base = b, !.content = c, !.at = "lock"]
    BY <1>6
  <2>2. s.at = "lock" /\ s.op = r.op
    BY <1>2, <2>1 DEF Formed
  <2>3. Part(p, s)
    BY <1>1, <1>2, <1>6, <2>2, ReporterProcs DEF Part
  <2>4. Trusted => Stage(s)' /\ Accounted'
    BY <1>1, <1>3, <2>1, <2>2, StaysAccounted DEF Stage, IInv
  <2> QED
    BY <1>1, <1>3, <1>4, <2>1, <2>3, <2>4, ReportMoves
<1>7. \/ \E status \in {"cancelled", "failed", "no_artifact", "invalid"} :
           Put(p, [r EXCEPT !.verdict = Outcome(status, None), !.at = "receipt"])
      \/ /\ r.op \notin {"cancel", "failed"}
         /\ Put(p, [r EXCEPT !.base = Baseline, !.content = draft, !.at = "lock"])
  BY DEF Classify, Verdict
<1> QED
  BY <1>5, <1>6, <1>7

\* A receipt that cannot be written is the one fault.
LEMMA WriteReceiptKeeps ==
  ASSUME IInv, VInv, NEW p \in Reporters, WriteReceipt(p)
  PROVE  VInv'
<1> DEFINE r == proc[p]
<1>1. /\ UNCHANGED <<canvas, landed, phase, raced, forgotten, stamp>>
      /\ r.at = "receipt" /\ ~At(p, "idle")
      /\ \/ receipt' = r.verdict /\ faults' = faults
         \/ faults' = faults + 1 /\ receipt' = receipt
  BY DEF WriteReceipt, At, Fault, NoFault, turn, ghosts
<1>2. Formed(r) /\ Part(p, r) /\ p \in Procs
  BY ReporterProcs DEF IInv, Processes, Sound, VInv, Parts
<1>3. PICK s : Put(p, s) /\ s = [r EXCEPT !.at = "stamp"]
  BY DEF WriteReceipt, Go
<1>4. s.at = "stamp" /\ s.op = r.op /\ s.verdict = r.verdict
  <2>1. s.at = "stamp" /\ s.op = r.op
    BY <1>2, <1>3, Moved
  <2>2. s.verdict = r.verdict
    BY <1>2, <1>3 DEF Formed
  <2> QED
    BY <2>1, <2>2
<1>5. Part(p, s)
  BY <1>2, <1>4 DEF Part, Away, Locked
<1>6. ASSUME Trusted
      PROVE  (s.at # "idle" => stamp' = NoOutcome) /\ Stage(s)' /\ Accounted' /\ Recorded'
  <2>1. PICK v : v = r.verdict
    OBVIOUS
  <2>2. receipt = NoOutcome /\ TrueVerdict(v) /\ stamp = NoOutcome
    BY <1>1, <1>6, <2>1, OtherRests DEF Trusted, Reporting, Stage
  <2>3. TrueVerdict(v)'
    BY <1>1, <2>2 DEF TrueVerdict, Known, Collected
  <2>4. v # NoOutcome
    BY <2>2, Statuses DEF TrueVerdict, NoOutcome
  <2>5. stamp' = NoOutcome /\ s.verdict = v
    BY <1>1, <1>4, <2>1, <2>2
  <2>6. CASE receipt' = v
    BY <1>4, <2>3, <2>4, <2>5, <2>6 DEF Stage, Accounted, Recorded, Away, Locked
  <2>7. CASE faults' = faults + 1 /\ receipt' = receipt
    <3>1. faults' >= 1
      BY <2>7 DEF VInv, Counters
    <3>2. Accounted'
      BY <1>1, <1>3, <1>4, <1>6, <2>7, StaysAccounted DEF IInv
    <3> QED
      BY <1>4, <2>2, <2>3, <2>5, <2>7, <3>1, <3>2 DEF Stage, Recorded, Away, Locked
  <2> QED
    BY <1>1, <2>1, <2>6, <2>7
<1> QED
  BY <1>1, <1>3, <1>5, <1>6, ReportMoves

\* The stamp that fails is a fault: the receipt is there.
LEMMA StampKeeps ==
  ASSUME IInv, VInv, NEW p \in Reporters, Stamp(p)
  PROVE  VInv'
<1> DEFINE r == proc[p]
<1>1. /\ UNCHANGED <<canvas, landed, phase, raced, forgotten, receipt>>
      /\ r.at = "stamp" /\ ~At(p, "idle")
  BY DEF Stamp, At, turn, ghosts
<1>2. Formed(r) /\ Part(p, r) /\ p \in Procs
  BY ReporterProcs DEF IInv, Processes, Sound, VInv, Parts
<1>3. PICK v : v = r.verdict
  OBVIOUS
<1>4. Trusted => /\ stamp = NoOutcome /\ TrueVerdict(v)' /\ v # NoOutcome
                 /\ receipt \in {NoOutcome, v} /\ (receipt = NoOutcome => faults >= 1)
  <2> SUFFICES ASSUME Trusted
               PROVE  /\ stamp = NoOutcome /\ TrueVerdict(v)' /\ v # NoOutcome
                      /\ receipt \in {NoOutcome, v} /\ (receipt = NoOutcome => faults >= 1)
    OBVIOUS
  <2>1. TrueVerdict(v) /\ receipt \in {NoOutcome, v} /\ (receipt = NoOutcome => faults >= 1)
    BY <1>1, <1>3 DEF Trusted, Reporting, Stage
  <2>2. stamp = NoOutcome
    BY <1>1, OtherRests
  <2>3. TrueVerdict(v)'
    BY <1>1, <2>1 DEF TrueVerdict, Known, Collected
  <2>4. v # NoOutcome
    BY <2>1, Statuses DEF TrueVerdict, NoOutcome
  <2> QED
    BY <2>1, <2>2, <2>3, <2>4
<1>5. CASE Put(p, Idle) /\ NoFault /\ stamp' = IF stamp = NoOutcome THEN proc[p].verdict ELSE stamp
  <2>1. Part(p, Idle)
    BY IdleSound DEF Part, Idle, Away, Locked
  <2>2. Idle.at = "idle" /\ faults' = faults
    BY <1>5, IdleSound DEF NoFault
  <2>3. ASSUME Trusted
        PROVE  Stage(Idle)' /\ Accounted' /\ Recorded'
    <3>1. stamp' = v
      BY <1>3, <1>4, <1>5, <2>3
    <3>2. Stage(Idle)'
      BY <2>2 DEF Stage, Away, Locked
    <3>3. Recorded'
      BY <1>1, <1>4, <2>3, <3>1 DEF Recorded
    <3> QED
      BY <1>4, <2>3, <3>1, <3>2, <3>3 DEF Accounted
  <2> QED
    BY <1>1, <1>5, <2>1, <2>2, <2>3, ReportMoves
<1>6. CASE Fault /\ Go(p, "idle") /\ UNCHANGED stamp
  <2>1. PICK s : Put(p, s) /\ s = [r EXCEPT !.at = "idle"]
    BY <1>6 DEF Go
  <2>2. s.at = "idle" /\ s.op = r.op /\ faults' = faults + 1
    BY <1>2, <1>6, <2>1, Moved DEF Fault
  <2>3. Part(p, s)
    BY <1>2, <2>2 DEF Part, Away, Locked
  <2>4. ASSUME Trusted, Accountable'
        PROVE  Stage(s)' /\ Accounted' /\ Recorded'
    <3>1. receipt = v /\ receipt' = v /\ stamp' = NoOutcome
      <4>1. faults \in Nat /\ faults + 1 <= 1
        BY <2>2, <2>4 DEF VInv, Counters, Accountable
      <4> QED
        BY <1>1, <1>4, <1>6, <2>4, <4>1
    <3> QED
      BY <1>4, <2>2, <2>4, <3>1 DEF Stage, Accounted, Recorded, Away, Locked
  <2> QED
    BY <1>1, <2>1, <2>2, <2>3, <2>4, ReportMoves
<1> QED
  BY <1>5, <1>6 DEF Stamp

-----------------------------------------------------------------------------
(* The turn and the faults                                                 *)

\* A process of the daemon begins, while the turn's verdict is not at stake.
LEMMA FreezeBeside ==
  ASSUME IInv, VInv, Freeze
  PROVE  VInv'
<1>1. {"dispatch", "before"} \subseteq Procs
  BY DaemonProcs, ReporterProcs DEF Daemon
<1>2. /\ UNCHANGED <<canvas, landed, receipt, stamp, raced, forgotten, faults>>
      /\ phase = "none" /\ phase' \in {"none", "running"}
  <2>1. At("dispatch", "verify")
    BY DEF Freeze
  <2>2. phase = "none"
    BY <1>1, <2>1 DEF VInv, Parts, Part, At
  <2> QED
    BY <2>2 DEF Freeze, ghosts
<1>3. /\ proc'["dispatch"].at = "idle" /\ proc'["dispatch"].op = "none"
      /\ \/ proc'["before"] = proc["before"]
         \/ proc'["before"].at # "verify" /\ proc'["before"].op # "collect"
      /\ \A q \in Procs \ {"dispatch", "before"} : proc'[q] = proc[q]
  <2> DEFINE base == proc["dispatch"].seen
             b == IF base.content = Blank THEN Idle
                  ELSE [Idle EXCEPT !.at = "hlock", !.op = "before", !.seen = base]
  <2>1. Idle.at = "idle" /\ Idle.op = "none"
    BY DEF Idle
  <2>2. b.at # "verify" /\ b.op # "collect"
    BY DEF Idle
  <2> HIDE DEF b
  <2>3. CASE projection # base
    <3>1. Put("dispatch", Idle)
      BY <2>3 DEF Freeze
    <3> QED
      BY <1>1, <2>1, <3>1, PutOne DEF IInv
  <2>4. CASE projection = base
    <3>1. proc' = [proc EXCEPT !["dispatch"] = Idle, !["before"] = b]
      BY <2>4 DEF Freeze, b
    <3>2. /\ proc'["dispatch"] = Idle /\ proc'["before"] = b
          /\ \A q \in Procs \ {"dispatch", "before"} : proc'[q] = proc[q]
      BY <1>1, <3>1 DEF IInv, Processes
    <3> QED
      BY <2>1, <2>2, <3>2
  <2> QED
    BY <2>3, <2>4
<1>4. Known' = Known /\ Collected' = Collected
  BY <1>2 DEF Known, Collected
<1>5. Counters' /\ (Accountable' => Accountable)
  BY <1>2 DEF VInv, Counters, Accountable
<1>6. Parts'
  <2> SUFFICES ASSUME NEW q \in Procs PROVE Part(q, proc[q])'
    BY DEF Parts
  <2>1. CASE q = "dispatch"
    BY <1>3, <2>1 DEF Part, Away, Locked
  <2>2. CASE q # "dispatch"
    BY <1>2, <1>3, <2>2 DEF VInv, Parts, Part
  <2> QED
    BY <2>1, <2>2
<1>7. Accountable' => Trusted'
  <2>1. \A q \in Reporters : proc'[q] = proc[q]
    BY <1>3, ReporterProcs
  <2>2. faults' \in {faults, faults + 1}
    BY <1>2
  <2> QED
    BY <1>2, <1>4, <1>5, <2>1, <2>2, TrustBeside DEF VInv
<1> QED
  BY <1>5, <1>6, <1>7 DEF VInv

\* Nothing happens to the turn but that it waits, runs on or loses a lock.
LEMMA WaitBeside ==
  ASSUME IInv, VInv, Dispatch \/ Resubmit \/ LoseLock
  PROVE  VInv'
<1>1. /\ UNCHANGED <<canvas, landed, receipt, stamp, raced, forgotten>>
      /\ faults' \in {faults, faults + 1}
      /\ phase' = phase \/ (phase = "none" /\ phase' = "running")
  BY DEF Dispatch, Resubmit, LoseLock, Fault, disk, turn, ghosts
<1>2. Known' = Known /\ Collected' = Collected
  BY <1>1 DEF Known, Collected
<1>3. Counters' /\ (Accountable' => Accountable)
  BY <1>1 DEF VInv, Counters, Accountable
<1>4. \/ proc' = proc /\ phase' = phase
      \/ proc' = proc /\ At("dispatch", "idle")
      \/ /\ phase = "none" /\ phase' = phase
         /\ proc'["dispatch"].op = "dispatch"
         /\ proc'["dispatch"].at = "verify"
         /\ \A q \in Procs \ {"dispatch"} : proc'[q] = proc[q]
  <2>1. CASE UNCHANGED proc
    BY <1>1, <2>1 DEF Dispatch, Resubmit, LoseLock, turn
  <2>2. ASSUME NEW c, Put("dispatch", [Idle EXCEPT !.at = "verify", !.op = "dispatch", !.seen = c]),
               phase = "none", phase' = phase
        PROVE  /\ phase = "none" /\ phase' = phase
               /\ proc'["dispatch"].op = "dispatch"
               /\ proc'["dispatch"].at = "verify"
               /\ \A q \in Procs \ {"dispatch"} : proc'[q] = proc[q]
    <3>1. PICK s : /\ Put("dispatch", s)
                   /\ s = [Idle EXCEPT !.at = "verify", !.op = "dispatch", !.seen = c]
      BY <2>2
    <3>2. s.at = "verify" /\ s.op = "dispatch"
      BY <3>1 DEF Idle
    <3>3. "dispatch" \in Procs
      BY DaemonProcs DEF Daemon
    <3> QED
      BY <2>2, <3>1, <3>2, <3>3, PutOne DEF IInv
  <2> QED
    BY <2>1, <2>2 DEF Dispatch, Resubmit, LoseLock
<1>5. Parts'
  BY <1>1, <1>4 DEF VInv, Parts, Part, At, Away, Locked
<1>6. Accountable' => Trusted'
  <2>1. \A q \in Reporters : proc'[q] = proc[q]
    BY <1>4, ReporterProcs
  <2> QED
    BY <1>1, <1>2, <1>3, <2>1, TrustBeside DEF VInv
<1> QED
  BY <1>3, <1>5, <1>6 DEF VInv

\* A report begins: of a turn that ends by itself, or of one that is stopped.
LEMMA ReportBegins ==
  ASSUME IInv, VInv, EndTurn \/ Stop
  PROVE  VInv'
<1>1. /\ UNCHANGED <<canvas, landed, receipt, stamp, forgotten, faults>>
      /\ phase # "none" /\ phase' = "ended"
  BY DEF EndTurn, Stop, disk, ghosts
<1>2. /\ raced' \in BOOLEAN /\ (raced => raced')
      /\ Stop => raced' \/ At("collect", "idle")
  BY DEF EndTurn, Stop, VInv, Counters, ghosts
<1>3. Counters' /\ (Accountable' => Accountable)
  BY <1>1, <1>2 DEF VInv, Counters, Accountable
<1>4. \E p \in Reporters, op \in {"collect", "failed", "cancel"} :
        /\ Put(p, [Idle EXCEPT !.at = "outcome", !.op = op])
        /\ IF p = "cancel" THEN Stop /\ op = "cancel" ELSE EndTurn /\ op # "cancel"
  BY ReporterProcs DEF EndTurn, Stop
<1>5. PICK p \in Reporters, op \in {"collect", "failed", "cancel"} :
        \E s : /\ Put(p, s) /\ s = [Idle EXCEPT !.at = "outcome", !.op = op]
              /\ IF p = "cancel" THEN Stop /\ op = "cancel" ELSE EndTurn /\ op # "cancel"
  BY <1>4
<1>6. PICK s : /\ Put(p, s) /\ s = [Idle EXCEPT !.at = "outcome", !.op = op]
               /\ IF p = "cancel" THEN Stop /\ op = "cancel" ELSE EndTurn /\ op # "cancel"
  BY <1>5
<1>7. s.at = "outcome" /\ s.op = op
  BY <1>6 DEF Idle
<1>8. proc'[p] = s /\ \A q \in Procs \ {p} : proc'[q] = proc[q]
  BY <1>6, ReporterProcs, PutOne DEF IInv
<1>9. Parts'
  <2>1. Part(p, s)'
    BY <1>6, <1>7, ReporterProcs DEF Part, Away, Locked
  <2>2. \A q \in Procs \ {p} : Part(q, proc[q])'
    BY <1>1, <1>8 DEF VInv, Parts, Part
  <2> QED
    BY <1>8, <2>1, <2>2 DEF Parts
<1>10. ASSUME Accountable' PROVE Trusted'
  <2>1. Trusted
    BY <1>3, <1>10 DEF VInv
  <2>2. stamp = NoOutcome /\ At("collect", "idle") /\ \A q \in Reporters \ {p} : At(q, "idle")
    <3>1. CASE p = "cancel"
      BY <1>2, <1>6, <1>10, <3>1, ReporterProcs DEF Stop, Accountable
    <3>2. CASE p # "cancel"
      <4>1. phase # "ended"
        BY <1>6, <3>2 DEF EndTurn
      <4> QED
        BY <2>1, <4>1, ReporterProcs DEF Trusted, OneReports
    <3> QED
      BY <3>1, <3>2
  <2>3. Collected => receipt # NoOutcome
    BY <2>1, <2>2 DEF Trusted, Accounted, At
  <2>4. Stage(s)' /\ Accounted'
    BY <1>1, <1>7, <2>3 DEF Stage, Accounted, Collected, Away, Locked
  <2>5. Recorded'
    BY <1>1, <2>1 DEF Trusted, Recorded, TrueVerdict, Known, Collected
  <2> QED
    BY <1>1, <1>6, <2>2, <2>4, <2>5, ReporterMoves DEF IInv
<1> QED
  BY <1>3, <1>9, <1>10 DEF VInv

\* The daemon dies: a commit without a receipt is forgotten.
LEMMA DaemonDies ==
  ASSUME IInv, VInv, CrashDaemon
  PROVE  VInv'
<1>1. /\ UNCHANGED <<canvas, landed, receipt, stamp, raced>> /\ faults' = faults + 1
      /\ phase' = IF stamp = NoOutcome THEN "none" ELSE phase
      /\ forgotten' = (forgotten \/ (receipt = NoOutcome /\ Collected))
  BY DEF CrashDaemon, Fault, Collected, disk
<1>2. \A q \in Procs : proc'[q] = IF q \in Daemon THEN Idle ELSE proc[q]
  BY DEF CrashDaemon
<1>3. Counters' /\ (Accountable' => Accountable)
  BY <1>1 DEF VInv, Counters, Accountable
<1>4. Idle.at = "idle" /\ Idle.op = "none"
  BY DEF Idle
<1>5. Parts'
  <2> SUFFICES ASSUME NEW q \in Procs PROVE Part(q, proc[q])'
    BY DEF Parts
  <2>1. CASE q \in Daemon
    BY <1>2, <1>4, <2>1 DEF Part, Away, Locked
  <2>2. CASE q \notin Daemon
    BY <1>2, <2>2, DaemonProcs DEF VInv, Parts, Part
  <2> QED
    BY <2>1, <2>2
<1>6. ASSUME Accountable' PROVE Trusted'
  <2>1. Trusted
    BY <1>3, <1>6 DEF VInv
  <2>2. \A q \in Reporters : proc'[q] = Idle
    BY <1>2, ReporterProcs, DaemonProcs
  <2>3. OneReports'
    BY <1>1, <1>4, <2>1, <2>2, ReporterProcs DEF Trusted, OneReports, At
  <2>4. Reporting'
    BY <1>4, <2>2 DEF Reporting, Stage, Away, Locked
  <2>5. Accounted'
    BY <1>1, <1>6 DEF Accountable, Accounted, Collected
  <2>6. Recorded'
    BY <1>1, <2>1 DEF Trusted, Recorded, TrueVerdict, Known, Collected
  <2> QED
    BY <2>3, <2>4, <2>5, <2>6 DEF Trusted
<1> QED
  BY <1>3, <1>5, <1>6 DEF VInv

-----------------------------------------------------------------------------
\* A new design has no verdict.
LEMMA InitTrusts == Init => VInv
<1> SUFFICES ASSUME Init PROVE VInv
  OBVIOUS
<1>1. \A p \in Procs : proc[p].at = "idle" /\ proc[p].op = "none"
  BY DEF Init, Idle
<1>2. Counters /\ Parts
  BY <1>1 DEF Init, Counters, Parts, Part, Away, Locked
<1>3. receipt = NoOutcome /\ stamp = NoOutcome /\ ~Collected
  BY DEF Init, Collected
<1>4. OneReports /\ Reporting /\ Accounted /\ Recorded
  BY <1>1, <1>3, ReporterProcs DEF OneReports, Reporting, Stage, Accounted, Recorded, At, Away,
                                    Locked
<1> QED
  BY <1>2, <1>4 DEF VInv, Trusted

\* Every step keeps what the verdict rests on.
LEMMA NextTrusts == IInv /\ VInv /\ [Next]_vars => VInv'
<1> SUFFICES ASSUME IInv, VInv, [Next]_vars PROVE VInv'
  OBVIOUS
<1>1. /\ Workers \subseteq Procs \ Reporters /\ "before" \in Procs \ Reporters
  BY CanvasAssumption DEF Procs, Daemon, Reporters
<1>2. CASE \E p \in Workers : Request(p) \/ Retry(p) \/ Crash(p)
  BY <1>1, <1>2, RequestBeside
<1>3. CASE \E p \in Workers \cup {"collect"} : Section(p)
  BY <1>1, <1>3, SectionBeside, CollectionKeeps
<1>4. CASE \E p \in Workers \cup {"before"} : History(p)
  BY <1>1, <1>4, HistoryBeside
<1>5. CASE \E p \in Reporters : Report(p)
  BY <1>5, ConsultKeeps, ClassifyKeeps, WriteReceiptKeeps, StampKeeps DEF Report
<1>6. CASE Dispatch \/ Freeze \/ Resubmit \/ EndTurn \/ Stop
  BY <1>6, WaitBeside, FreezeBeside, ReportBegins
<1>7. CASE LoseLock \/ CrashDaemon
  BY <1>7, WaitBeside, DaemonDies
<1>8. CASE UNCHANGED vars
  <2>1. /\ UNCHANGED <<proc, receipt, stamp, phase, raced, forgotten, faults, canvas, landed>>
    BY <1>8 DEF vars, disk, turn, ghosts
  <2>2. Known' = Known /\ Collected' = Collected
    BY <2>1 DEF Known, Collected
  <2>3. Counters' /\ Parts' /\ (Accountable' => Accountable)
    BY <2>1 DEF VInv, Counters, Accountable, Parts, Part
  <2>4. Accountable' => Trusted'
    BY <2>1, <2>2, <2>3, TrustBeside DEF VInv
  <2> QED
    BY <2>3, <2>4 DEF VInv
<1> QED
  BY <1>2, <1>3, <1>4, <1>5, <1>6, <1>7, <1>8 DEF Next

\* turn-outcome.ts: with at most one fault, the verdict on a turn's entry and in its
\* receipt is what happened, whoever crashed, whatever lock was lost and however
\* stops, collections and requests interleave.  With two, the receipt and the stamp
\* of a commit can both fail, and a later stop then says cancelled.
THEOREM VerdictTrue == Spec => [](faults <= 1 => VerdictIsTrue)
<1>1. VInv => (faults <= 1 => VerdictIsTrue)
  BY DEF VInv, Accountable, Trusted, Recorded, TrueVerdict, Known, VerdictIsTrue
<1>2. IInv /\ VInv /\ [Next]_vars => IInv' /\ VInv'
  BY NextKeeps, NextTrusts
<1> QED
  BY <1>1, <1>2, InitKeeps, InitTrusts, PTL DEF Spec

-----------------------------------------------------------------------------
(* Types                                                                   *)

\* A revision the canvas may be at.
Good(v) ==
  /\ v.content \in Contents
  /\ v.editing = NoEditing \/ v.editing.base \in DOMAIN versions

VersionsGood ==
  \A i \in DOMAIN versions :
    versions[i].content \in Contents /\ versions[i].kind \in {"saved", "before-restore", "before-agent"}

\* What a process is about to write, or has read to decide on, is a revision.
Typed(r) ==
  /\ r.at \in Where /\ r.content \in Contents
  /\ r.op = "restore" => r.target \in DOMAIN versions
  /\ r.editing = NoEditing \/ r.editing.base \in DOMAIN versions
  /\ r.at \in Locked \cup {"hdecide", "append", "update", "verify"} => Good(r.seen)
  /\ r.at = "hlock" /\ r.op = "before" => Good(r.seen)

\* Who has the repository's lock goes on under it until it leaves.
Under(r) ==
  /\ r.at \in Away \cup {"read", "hdecide", "append", "update", "bind", "hleave"}
  /\ r.at \in Away \cup {"read", "bind"} => r.next \in {"hdecide", "hleave"}

Holders ==
  /\ lock \in Workers \cup {"collect", None} /\ hlock \in Workers \cup {"before", None}
  /\ lock # None => proc[lock].at \in Locked
  /\ hlock # None => Under(proc[hlock])

Bounds == requests \in 0..MaxRequests /\ faults \in 0..MaxFaults

\* The collection is about an ended turn; the background version about one that
\* has its input, the dispatch about one that has none yet.
Turns ==
  /\ phase \in {"none", "running", "ended"} /\ draft \in Drafts \cup {Absent}
  /\ phase # "none" => manifest # NoInput
  /\ ~At("collect", "idle") => phase = "ended"
  /\ ~At("before", "idle") => manifest # NoInput
  /\ At("dispatch", "verify") => manifest = NoInput

TInv == /\ Good(canvas) /\ VersionsGood /\ \A p \in Procs : Typed(proc[p])
        /\ Holders /\ Bounds /\ Turns

\* The history only grows.
Grows == DOMAIN versions \subseteq DOMAIN versions'

\* What was typed stays so.
LEMMA StaysTyped ==
  ASSUME Grows
  PROVE  /\ \A v : Good(v) => Good(v)'
         /\ \A r : Typed(r) => Typed(r)'
<1>1. \A v : Good(v) => Good(v)'
  BY DEF Grows, Good
<1> QED
  BY <1>1 DEF Grows, Typed

\* The process that moves keeps its types and its locks.
LEMMA TypesMove ==
  ASSUME Processes, TInv, NEW p \in Procs, NEW r, Put(p, r), Grows,
         Good(canvas)', VersionsGood', Typed(r)',
         lock' \in {lock, None} \/ (lock' = p /\ p \in Workers \cup {"collect"}),
         lock' = p => r.at \in Locked,
         hlock' \in {hlock, None} \/ (hlock' = p /\ p \in Workers \cup {"before"}),
         hlock' = p => Under(r),
         Bounds', Turns'
  PROVE  TInv'
<1>1. proc'[p] = r /\ \A q \in Procs \ {p} : proc'[q] = proc[q]
  BY PutOne
<1>2. \A q \in Procs : Typed(proc[q])'
  <2> SUFFICES ASSUME NEW q \in Procs PROVE Typed(proc[q])'
    OBVIOUS
  <2>1. CASE q = p
    BY <1>1, <2>1 DEF Typed
  <2>2. CASE q # p
    <3>1. PICK u : u = proc[q]
      OBVIOUS
    <3>2. Typed(u) /\ proc'[q] = u
      BY <1>1, <2>2, <3>1 DEF TInv
    <3>3. Typed(u)'
      BY <3>2, StaysTyped
    <3> QED
      BY <3>2, <3>3 DEF Typed
  <2> QED
    BY <2>1, <2>2
<1>3. Holders'
  <2>1. Workers \cup {"collect", "before"} \subseteq Procs
    BY DaemonProcs DEF Procs, Daemon
  <2>2. lock' \in Workers \cup {"collect", None} /\ hlock' \in Workers \cup {"before", None}
    BY DEF TInv, Holders
  <2>3. lock' # None => proc'[lock'].at \in Locked
    BY <1>1, <2>1, <2>2 DEF TInv, Holders
  <2>4. hlock' # None => Under(proc'[hlock'])
    BY <1>1, <2>1, <2>2 DEF TInv, Holders
  <2> QED
    BY <2>2, <2>3, <2>4 DEF Holders, Under
<1> QED
  BY <1>2, <1>3 DEF TInv

\* A process beside the turn changes nothing of it.
LEMMA TurnsStay ==
  ASSUME Processes, Turns, NEW p \in Procs, NEW r, Put(p, r), UNCHANGED <<phase, draft, manifest>>,
         p \in {"collect", "before"} /\ At(p, "idle") => r.at = "idle",
         r.at # "verify"
  PROVE  Turns'
<1>1. proc'[p] = r /\ \A q \in Procs \ {p} : proc'[q] = proc[q]
  BY PutOne
<1>2. {"collect", "before", "dispatch"} \subseteq Procs
  BY DaemonProcs DEF Daemon
<1> QED
  BY <1>1, <1>2 DEF Turns, At

\* Wherever an operation goes after its section, it is still the same request.
LEMMA AfterFields ==
  ASSUME NEW r, Sound(r), NEW p, NEW reply \in {"ok", "conflict", "failed"},
         NEW s, s = After(p, r, reply)
  PROVE  \/ /\ s.op = r.op /\ s.content = r.content /\ s.editing = r.editing
            /\ s.target = r.target /\ s.seen = r.seen /\ s.next = r.next
            /\ \/ r.op = "collect" /\ s.at = "receipt"
               \/ r.op # "collect" /\ reply = "ok" /\ s.at = r.next
               \/ r.op # "collect" /\ reply # "ok" /\ hlock = p /\ s.at = "hleave"
         \/ r.op # "collect" /\ reply # "ok" /\ hlock # p /\ s = Failed(r)
<1>1. Formed(r)
  BY DEF Sound
<1>2. ASSUME NEW at, NEW v, s = [r EXCEPT !.at = at, !.verdict = v]
      PROVE  /\ s.op = r.op /\ s.content = r.content /\ s.editing = r.editing
             /\ s.target = r.target /\ s.seen = r.seen /\ s.next = r.next /\ s.at = at
  BY <1>1, <1>2 DEF Formed
<1>3. CASE r.op = "collect"
  <2>1. PICK v : s = [r EXCEPT !.at = "receipt", !.verdict = v]
    BY <1>3 DEF After
  <2> QED
    BY <1>2, <1>3, <2>1
<1>4. CASE r.op # "collect" /\ reply = "ok"
  <2>1. s = [r EXCEPT !.at = r.next, !.verdict = Outcome("ok", None)]
    BY <1>4 DEF After
  <2> QED
    BY <1>2, <1>4, <2>1
<1>5. CASE r.op # "collect" /\ reply # "ok" /\ hlock = p
  <2>1. s = [r EXCEPT !.at = "hleave", !.verdict = None]
    BY <1>5 DEF After
  <2> QED
    BY <1>2, <1>5, <2>1
<1>6. CASE r.op # "collect" /\ reply # "ok" /\ hlock # p
  BY <1>6 DEF After
<1> QED
  BY <1>3, <1>4, <1>5, <1>6

\* Who rests is typed.
LEMMA RestTyped ==
  ASSUME NEW r, Typed(r), NEW s, s \in {Idle, Failed(r)}
  PROVE  Typed(s) /\ s.at = "idle"
<1>1. Blank \in Contents
  BY CanvasAssumption
<1>2. CASE s = Idle
  BY <1>1, <1>2 DEF Idle, Typed, Where, Locked
<1>3. CASE s = Failed(r)
  <2>1. /\ s.at = "idle" /\ s.op = r.op /\ s.target = r.target /\ s.editing = NoEditing
        /\ s.content = IF r.op = "save" THEN r.content ELSE Blank
    BY <1>3 DEF Failed, Idle
  <2>2. s.content \in Contents /\ (s.op = "restore" => s.target \in DOMAIN versions)
    BY <1>1, <2>1 DEF Typed
  <2> QED
    BY <2>1, <2>2 DEF Typed, Where, Locked
<1> QED
  BY <1>2, <1>3

\* A section that ends: the process is typed and, if it has the repository's lock,
\* goes on under it.
LEMMA SectionEnds ==
  ASSUME NEW r, Sound(r), Typed(r), NEW p, NEW reply \in {"ok", "conflict", "failed"},
         reply = "ok" => Good(r.seen),
         hlock = p => r.op # "collect" /\ r.next \in {"hdecide", "hleave"},
         NEW s, s = After(p, r, reply)
  PROVE  Typed(s) /\ s.at # "verify" /\ (hlock = p => Under(s))
<1>1. CASE /\ s.op = r.op /\ s.content = r.content /\ s.editing = r.editing
           /\ s.target = r.target /\ s.seen = r.seen /\ s.next = r.next
           /\ \/ r.op = "collect" /\ s.at = "receipt"
              \/ r.op # "collect" /\ reply = "ok" /\ s.at = r.next
              \/ r.op # "collect" /\ reply # "ok" /\ hlock = p /\ s.at = "hleave"
  <2>1. CASE s.at \in {"receipt", "hleave"}
    BY <1>1, <2>1 DEF Typed, Where, Locked, Under, Away
  <2>2. CASE reply = "ok" /\ s.at = r.next
    <3>1. r.next \in Nexts
      BY DEF Sound, Sorted
    <3> QED
      BY <1>1, <2>2, <3>1 DEF Nexts, Typed, Where, Locked, Under, Away
  <2> QED
    BY <1>1, <2>1, <2>2
<1>2. CASE hlock # p /\ s = Failed(r)
  BY <1>2, RestTyped
<1> QED
  BY <1>1, <1>2, AfterFields

\* What Section leaves alone of the types.
LEMMA SectionFrame ==
  ASSUME TInv, NEW p, Section(p)
  PROVE  /\ UNCHANGED <<versions, manifest, phase, draft, hlock>> /\ Grows /\ Bounds'
         /\ canvas' = canvas \/ (proc[p].at = "rename" /\ canvas' = proc[p].seen)
<1>1. /\ UNCHANGED <<versions, manifest, phase, draft, hlock, requests>>
      /\ faults' = faults \/ Fault
      /\ canvas' = canvas \/ (proc[p].at = "rename" /\ canvas' = proc[p].seen)
  BY DEF Section, Lock, Publish, Rename, Project, Swap, NoFault, At, disk, turn
<1>2. Bounds'
  BY <1>1, CanvasAssumption DEF TInv, Bounds, Fault
<1> QED
  BY <1>1, <1>2 DEF Grows

\* A section of a worker or of the collection keeps the types.
LEMMA SectionTyped ==
  ASSUME IInv, Parts, TInv, NEW p \in Workers \cup {"collect"}, Section(p)
  PROVE  TInv'
<1> DEFINE r == proc[p]
<1>1. p \in Procs /\ None # p /\ p # "before" /\ p # "cancel" /\ p # "dispatch"
  BY CanvasAssumption DEF Procs, Daemon
<1>2. Sound(r) /\ Formed(r) /\ Typed(r) /\ r.at \in Away
  BY <1>1 DEF IInv, Processes, Sound, TInv, Section, Lock, Publish, Rename, Project, Swap, At, Away,
              Locked
<1>3. /\ UNCHANGED <<versions, manifest, phase, draft, hlock>> /\ Grows /\ Bounds'
      /\ canvas' = canvas \/ (proc[p].at = "rename" /\ canvas' = proc[p].seen)
  BY SectionFrame
<1>4. r.at \in Locked => Good(r.seen)
  BY <1>2 DEF Typed
<1>5. Good(canvas)' /\ VersionsGood'
  <2>1. \A v : Good(v) => Good(v)'
    BY <1>3, StaysTyped
  <2>2. Good(canvas) /\ (r.at = "rename" => Good(r.seen))
    BY <1>4 DEF TInv, Locked
  <2>3. PICK c : c = canvas'
    OBVIOUS
  <2>4. Good(c)'
    BY <1>3, <2>1, <2>2, <2>3
  <2> QED
    BY <1>3, <2>3, <2>4 DEF TInv, VersionsGood, Good
<1>6. hlock = p => r.op # "collect" /\ r.next \in {"hdecide", "hleave"}
  <2>1. hlock = p => p \in Workers /\ Under(r)
    BY <1>1 DEF TInv, Holders
  <2>2. p \in Workers => p # "collect"
    BY CanvasAssumption
  <2> QED
    BY <1>1, <1>2, <2>1, <2>2 DEF Under, Parts, Part
<1>7. ASSUME NEW s, Put(p, s), Typed(s), s.at # "verify", hlock = p => Under(s),
             lock' \in {lock, None} \/ lock' = p, lock' = p => s.at \in Locked
      PROVE  TInv'
  <2>1. Typed(s)'
    BY <1>3, <1>7, StaysTyped
  <2>2. Turns'
    <3>1. ~At(p, "idle")
      BY <1>2 DEF At, Away, Locked
    <3> QED
      BY <1>1, <1>3, <1>7, <3>1, TurnsStay DEF IInv, TInv
  <2>3. hlock' = p => Under(s)'
    BY <1>3, <1>7 DEF Under
  <2> QED
    BY <1>1, <1>3, <1>5, <1>7, <2>1, <2>2, <2>3, TypesMove DEF IInv
<1>8. ASSUME NEW u, Sound(u), Typed(u), u.op = r.op, u.next = r.next,
             NEW reply \in {"ok", "conflict", "failed"}, reply = "ok" => Good(u.seen),
             Put(p, After(p, u, reply)), lock' \in {lock, None}, lock' # p
      PROVE  TInv'
  <2>1. PICK s : Put(p, s) /\ s = After(p, u, reply)
    BY <1>8
  <2>2. Typed(s) /\ s.at # "verify" /\ (hlock = p => Under(s))
    BY <1>6, <1>8, <2>1, SectionEnds
  <2> QED
    BY <1>7, <1>8, <2>1, <2>2
<1>9. ASSUME NEW x \in Locked, Go(p, x), UNCHANGED lock, r.at \in Locked
      PROVE  TInv'
  <2>1. PICK s : Put(p, s) /\ s = [r EXCEPT !.at = x]
    BY <1>9 DEF Go
  <2>2. /\ s.at = x /\ s.op = r.op /\ s.content = r.content /\ s.editing = r.editing
        /\ s.target = r.target /\ s.seen = r.seen /\ s.next = r.next
    BY <1>2, <2>1 DEF Formed
  <2>3. Typed(s)
    BY <1>2, <1>4, <1>9, <2>2 DEF Typed, Where, Locked
  <2>4. hlock = p => Under(s)
    BY <1>6, <1>9, <2>2 DEF Under, Away
  <2> QED
    BY <1>7, <1>9, <2>1, <2>2, <2>3, <2>4 DEF Locked
<1>10. CASE Lock(p)
  <2>1. r.at = "lock"
    BY <1>10 DEF Lock, At
  <2>2. CASE lock \notin {None, p} /\ Put(p, After(p, r, "conflict")) /\ UNCHANGED lock
    BY <1>2, <1>8, <2>2
  <2>3. CASE lock = None
    <3>1. PICK u : u = [r EXCEPT !.verdict = None]
      OBVIOUS
    <3>2. /\ Formed(u) /\ u.at = r.at /\ u.op = r.op /\ u.next = r.next /\ u.base = r.base
          /\ u.content = r.content /\ u.editing = r.editing /\ u.target = r.target
          /\ u.seen = r.seen
      BY <1>2, <3>1 DEF Formed
    <3>3. Sound(u) /\ Typed(u)
      BY <1>2, <2>1, <3>2 DEF Sound, Sorted, AppendsBase, Typed, Locked
    <3>4. \/ Put(p, After(p, u, "conflict")) /\ UNCHANGED lock
          \/ Put(p, [u EXCEPT !.seen = canvas, !.at = "project"]) /\ lock' = p
          \/ Put(p, [u EXCEPT !.seen = Written(u), !.at = "publish"]) /\ lock' = p
      BY <1>10, <2>3, <3>1 DEF Lock
    <3>5. ASSUME NEW c, Good(c), NEW x \in {"project", "publish"},
                 Put(p, [u EXCEPT !.seen = c, !.at = x]), lock' = p
          PROVE  TInv'
      <4>1. PICK s : Put(p, s) /\ s = [u EXCEPT !.seen = c, !.at = x]
        BY <3>5
      <4>2. /\ s.at = x /\ s.op = r.op /\ s.content = r.content /\ s.editing = r.editing
            /\ s.target = r.target /\ s.seen = c /\ s.next = r.next
        BY <3>2, <4>1 DEF Formed
      <4>3. Typed(s)
        BY <1>2, <3>5, <4>2 DEF Typed, Where, Locked
      <4>4. hlock = p => Under(s)
        BY <1>6, <3>5, <4>2 DEF Under, Away, Locked
      <4> QED
        BY <1>7, <3>5, <4>1, <4>2, <4>3, <4>4 DEF Locked
    <3>6. CASE Put(p, After(p, u, "conflict")) /\ UNCHANGED lock
      BY <1>1, <1>8, <2>3, <3>2, <3>3, <3>6
    <3>7. Good(canvas) /\ Good(Written(u))
      <4>1. Good(canvas)
        BY DEF TInv
      <4> QED
        BY <3>3, <4>1 DEF Good, Written, Revision, Typed
    <3> QED
      BY <3>4, <3>5, <3>6, <3>7
  <2> QED
    BY <1>10, <2>2, <2>3 DEF Lock
<1>11. CASE Publish(p) \/ Rename(p) \/ Project(p) \/ Swap(p)
  <2>1. /\ r.at \in Locked
        /\ \/ \E x \in Locked : Go(p, x) /\ UNCHANGED lock
           \/ \E reply \in {"ok", "failed"} : Leave(p, r, reply)
    BY <1>11 DEF Publish, Rename, Project, Swap, Locked, At
  <2>2. ASSUME NEW reply \in {"ok", "failed"}, Leave(p, r, reply) PROVE TInv'
    <3>1. Put(p, After(p, r, reply)) /\ lock' \in {lock, None} /\ lock' # p
      BY <1>1, <2>2 DEF Leave
    <3> QED
      BY <1>2, <1>4, <1>8, <2>1, <3>1
  <2> QED
    BY <1>9, <2>1, <2>2
<1> QED
  BY <1>10, <1>11 DEF Section

\* A process moves on under the repository's lock, or beside it.
LEMMA HistoryMoves ==
  ASSUME IInv, TInv, NEW p \in Workers \cup {"before"}, NEW s, Put(p, s),
         ~At(p, "idle"), proc[p].at \notin Locked,
         UNCHANGED <<canvas, versions, lock, manifest, phase, draft, requests, faults>>,
         Typed(s), s.at # "verify",
         hlock' \in {hlock, None, p}, hlock' = p => Under(s)
  PROVE  TInv'
<1>1. p \in Procs /\ None # p /\ p # "collect"
  BY CanvasAssumption DEF Procs, Daemon
<1>2. Grows /\ Bounds' /\ VersionsGood' /\ Good(canvas)'
  BY DEF Grows, TInv, Bounds, VersionsGood, Good
<1>3. Turns'
  BY <1>1, TurnsStay DEF IInv, TInv
<1>4. Typed(s)'
  BY <1>2, StaysTyped
<1>5. lock' # p
  BY <1>1 DEF TInv, Holders
<1>6. hlock' = p => Under(s)'
  BY DEF Under
<1> QED
  BY <1>1, <1>2, <1>3, <1>4, <1>5, <1>6, TypesMove DEF IInv

\* Of a set of numbers there is a least one.
LEMMA Least ==
  ASSUME NEW S \in SUBSET Nat, S # {}
  PROVE  \E i \in S : \A j \in S : i <= j
<1> DEFINE R == {pair \in Nat \X Nat : pair[1] < pair[2]}
<1>1. IsWellFoundedOn(R, Nat)
  BY NatLessThanWellFounded, Zenon DEF OpToRel
<1>2. \A i, j \in S : j < i => <<j, i>> \in R
  OBVIOUS
<1> HIDE DEF R
<1>3. PICK i \in S : \A j \in S : ~(<<j, i>> \in R)
  BY <1>1, WFMin
<1>4. \A j \in S : ~(j < i)
  BY <1>2, <1>3
<1> QED
  BY <1>4

\* The versions an operation finds are the history's.
LEMMA CreateTyped ==
  ASSUME IInv, TInv, NEW r, Typed(r), r.at \in {"hdecide", "append"}, NEW s,
         \/ r.op = "version" /\ s = Create(r)
         \/ r.op = "restore" /\ s = Restore(r)
  PROVE  \/ s = [r EXCEPT !.at = "hleave"] \/ s = [r EXCEPT !.at = "append"]
         \/ \E i \in DOMAIN versions, content \in Contents :
              \E action : s = Bind(r, i, content, action)
<1>1. Good(r.seen)
  BY DEF Typed
<1>2. CASE r.op = "restore" /\ s = Restore(r)
  <2>1. r.target \in DOMAIN versions /\ versions[r.target].content \in Contents
    BY <1>2 DEF Typed, TInv, VersionsGood
  <2> QED
    BY <1>2, <2>1 DEF Restore
<1>3. CASE r.op = "version" /\ s = Create(r)
  <2>1. ASSUME Priors(r) # {}
        PROVE  (CHOOSE i \in Priors(r) : \A j \in Priors(r) : i <= j) \in DOMAIN versions
    <3>1. Priors(r) \in SUBSET Nat
      <4>1. PICK S : versions \in Seq(S)
        BY DEF IInv, Records
      <4> QED
        BY <4>1 DEF Priors
    <3>2. PICK k \in Priors(r) : \A j \in Priors(r) : k <= j
      BY <2>1, <3>1, Least
    <3>3. (CHOOSE i \in Priors(r) : \A j \in Priors(r) : i <= j) \in Priors(r)
      BY <3>2
    <3> QED
      BY <3>3 DEF Priors
  <2>2. PICK m : m = CHOOSE i \in Priors(r) : \A j \in Priors(r) : i <= j
    OBVIOUS
  <2>3. \/ s = [r EXCEPT !.at = "hleave"] \/ s = [r EXCEPT !.at = "append"]
        \/ Priors(r) # {} /\ s = Bind(r, m, r.seen.content, Action("saved", r.seen, 0))
    BY <1>3, <2>2 DEF Create
  <2>4. r.seen.content \in Contents
    BY <1>1 DEF Good
  <2> QED
    BY <2>1, <2>2, <2>3, <2>4
<1> QED
  BY <1>2, <1>3

\* A process that is about to bind the canvas to a version that exists.
LEMMA BindTyped ==
  ASSUME NEW r, Sound(r), Typed(r), NEW i, NEW content \in Contents, NEW action,
         NEW s, s = Bind(r, i, content, action)
  PROVE  /\ s.at = "bind" /\ s.next = "hleave" /\ Under(s)
         /\ i \in DOMAIN versions => Typed(s)
         /\ s.op = r.op /\ s.target = r.target /\ s.content = content /\ s.editing.base = i
<1>1. Formed(r)
  BY DEF Sound
<1>2. PICK e : e = [base |-> i, action |-> action]
  OBVIOUS
<1>3. s = [r EXCEPT !.at = "bind", !.content = content, !.editing = e, !.next = "hleave"]
  BY <1>2 DEF Bind
<1>4. /\ s.at = "bind" /\ s.op = r.op /\ s.next = "hleave" /\ s.content = content
      /\ s.target = r.target /\ s.editing = e
  BY <1>1, <1>3 DEF Formed
<1>5. e.base = i
  BY <1>2
<1> QED
  BY <1>4, <1>5 DEF Typed, Where, Locked, Under, Away

\* A process that goes on to move the branch is under the repository's lock.
LEMMA AppendTyped ==
  ASSUME IInv, TInv, NEW p \in Workers \cup {"before"}, AppendVersion(p)
  PROVE  TInv'
<1> DEFINE r == proc[p]
<1>1. p \in Procs /\ ~At(p, "idle") /\ r.at \notin Locked /\ r.at = "append"
  BY CanvasAssumption DEF Procs, Daemon, AppendVersion, At, Locked
<1>2. UNCHANGED <<canvas, versions, lock, hlock, manifest, phase, draft, requests, faults>>
  BY DEF AppendVersion, disk, turn
<1>3. Formed(r) /\ Typed(r)
  BY <1>1 DEF IInv, Processes, Sound, TInv
<1>4. PICK s, n : /\ Put(p, s)
                  /\ s \in {[r EXCEPT !.at = "hleave"], [r EXCEPT !.at = "update", !.parent = n]}
  BY DEF AppendVersion
<1>5. /\ s.at \in {"hleave", "update"} /\ s.op = r.op /\ s.content = r.content
      /\ s.editing = r.editing /\ s.target = r.target /\ s.seen = r.seen /\ s.next = r.next
  BY <1>3, <1>4 DEF Formed
<1>6. Typed(s) /\ Under(s) /\ s.at # "verify"
  BY <1>1, <1>3, <1>5 DEF Typed, Where, Locked, Under, Away
<1> QED
  BY <1>1, <1>2, <1>4, <1>6, HistoryMoves

\* A version is one of the kinds the history knows.
LEMMA UpdateTyped ==
  ASSUME IInv, Parts, TInv, NEW p \in Workers \cup {"before"}, UpdateRef(p)
  PROVE  TInv'
<1> DEFINE r == proc[p]
           x == [content |-> r.seen.content, kind |-> Kind(r.op), source |-> r.seen]
<1>1. p \in Procs /\ None # p /\ p # "collect" /\ ~At(p, "idle") /\ r.at \notin Locked
  BY CanvasAssumption DEF Procs, Daemon, UpdateRef, At, Locked
<1>2. /\ UNCHANGED <<canvas, lock, hlock, manifest, phase, draft, requests, faults>>
      /\ r.at = "update"
  BY DEF UpdateRef, turn, At
<1>3. /\ Sound(r) /\ Formed(r) /\ r.op \in HistoryOps /\ Typed(r) /\ Good(r.seen)
  BY <1>1, <1>2 DEF IInv, Processes, Sound, Sorted, TInv, Typed
<1>4. ASSUME NEW s, s = [r EXCEPT !.at = "hleave"]
      PROVE  Typed(s) /\ Under(s) /\ s.at # "verify"
  <2>1. /\ s.at = "hleave" /\ s.op = r.op /\ s.content = r.content /\ s.editing = r.editing
        /\ s.target = r.target /\ s.seen = r.seen /\ s.next = r.next
    BY <1>3, <1>4 DEF Formed
  <2> QED
    BY <1>3, <2>1 DEF Typed, Where, Locked, Under, Away
<1>5. CASE r.parent # Len(versions)
  <2>1. PICK s : Put(p, s) /\ s = [r EXCEPT !.at = "hleave"]
    BY <1>5 DEF UpdateRef, Go
  <2>2. UNCHANGED versions
    BY <1>5 DEF UpdateRef
  <2> QED
    BY <1>1, <1>2, <1>4, <2>1, <2>2, HistoryMoves
<1>6. CASE r.parent = Len(versions)
  <2>1. versions' = Append(versions, x)
    BY <1>6 DEF UpdateRef
  <2>2. x.content = r.seen.content /\ x.kind \in {"saved", "before-restore", "before-agent"}
    BY <1>3 DEF Kind, HistoryOps
  <2> HIDE DEF x
  <2>3. /\ \A i \in DOMAIN versions : i \in DOMAIN versions' /\ versions'[i] = versions[i]
        /\ \E n \in DOMAIN versions' :
             /\ versions'[n] = x
             /\ \A i \in DOMAIN versions' : i = n \/ i \in DOMAIN versions
    BY <2>1, VersionAppended DEF IInv
  <2>4. Grows /\ VersionsGood' /\ Len(versions) + 1 \in DOMAIN versions'
    <3>1. Grows
      BY <2>3 DEF Grows
    <3>2. x.content \in Contents
      BY <1>3, <2>2 DEF Good
    <3>3. VersionsGood'
      BY <2>2, <2>3, <3>2 DEF VersionsGood, TInv
    <3>4. PICK S : versions \in Seq(S)
      BY DEF IInv, Records
    <3>5. DOMAIN versions' = 1..(Len(versions) + 1) /\ Len(versions) \in Nat
      <4> DEFINE T == S \cup {x}
      <4>1. versions \in Seq(T) /\ x \in T
        BY <3>4, SeqDef
      <4> HIDE DEF T
      <4> QED
        BY <2>1, <4>1
    <3> QED
      BY <3>1, <3>3, <3>5
  <2>5. PICK s : /\ Put(p, s)
                 /\ \/ s = [r EXCEPT !.at = "hleave"]
                    \/ \E i \in DOMAIN versions', content \in Contents :
                         \E action : s = Bind(r, i, content, action)
    <3>1. r.seen.content \in Contents
      BY <1>3 DEF Good
    <3>2. CASE r.op = "version"
      <4>1. Put(p, Bind(r, Len(versions) + 1, r.seen.content, Action("saved", r.seen, 0)))
        BY <1>6, <3>2 DEF UpdateRef
      <4> QED
        BY <2>4, <3>1, <4>1
    <3>3. CASE r.op = "restore"
      <4>1. Put(p, Bind(r, r.target, versions[r.target].content,
                        Action("restore", r.base, r.target)))
        BY <1>6, <3>3 DEF UpdateRef
      <4>2. r.target \in DOMAIN versions' /\ versions[r.target].content \in Contents
        BY <1>3, <2>3, <3>3 DEF Typed, TInv, VersionsGood
      <4> QED
        BY <4>1, <4>2
    <3>4. CASE r.op = "before"
      BY <1>6, <3>4 DEF UpdateRef
    <3> QED
      BY <1>3, <3>2, <3>3, <3>4 DEF HistoryOps
  <2>6. Typed(s)' /\ Under(s) /\ s.at # "verify"
    <3>1. CASE s = [r EXCEPT !.at = "hleave"]
      BY <1>4, <2>4, <3>1, StaysTyped
    <3>2. CASE \E i \in DOMAIN versions', content \in Contents :
                  \E action : s = Bind(r, i, content, action)
      <4>1. PICK i \in DOMAIN versions', content \in Contents :
               \E action : s = Bind(r, i, content, action)
        BY <3>2
      <4>2. PICK action : s = Bind(r, i, content, action)
        BY <4>1
      <4>3. /\ s.at = "bind" /\ Under(s) /\ s.op = r.op /\ s.target = r.target
            /\ s.content = content /\ s.editing.base = i
        <5>1. Sound(r) /\ Typed(r) /\ content \in Contents /\ s = Bind(r, i, content, action)
          BY <1>3, <4>1, <4>2
        <5> HIDE DEF r
        <5> QED
          BY <5>1, BindTyped
      <4>4. r.op = "restore" => r.target \in DOMAIN versions'
        BY <1>3, <2>3 DEF Typed
      <4> QED
        BY <4>2, <4>3, <4>4 DEF Typed, Where, Locked
    <3> QED
      BY <2>5, <3>1, <3>2
  <2>7. Good(canvas)' /\ Bounds'
    <3>1. PICK c : c = canvas
      OBVIOUS
    <3>2. Good(c)'
      BY <2>4, <3>1, StaysTyped DEF TInv
    <3> QED
      BY <1>2, <3>1, <3>2 DEF Good, TInv, Bounds
  <2>8. Turns'
    BY <1>1, <1>2, <2>5, <2>6, TurnsStay DEF IInv, TInv
  <2>9. lock' # p
    BY <1>1, <1>2 DEF TInv, Holders
  <2>10. Under(s)'
    BY <2>6 DEF Under
  <2> QED
    BY <1>1, <1>2, <2>4, <2>5, <2>6, <2>7, <2>8, <2>9, <2>10, TypesMove DEF IInv
<1> QED
  BY <1>5, <1>6

\* The history's section keeps the types.
LEMMA HistoryTyped ==
  ASSUME IInv, Parts, TInv, NEW p \in Workers \cup {"before"}, History(p)
  PROVE  TInv'
<1> DEFINE r == proc[p]
<1>1. p \in Procs /\ None # p
  BY CanvasAssumption DEF Procs, Daemon
<1>2. Sound(r) /\ Formed(r) /\ Sorted(r) /\ Typed(r)
  BY <1>1 DEF IInv, Processes, Sound, TInv
<1>3. hlock = p => Under(r)
  BY <1>1 DEF TInv, Holders
<1>4. r.at \in {"read", "hlock", "hleave", "hdecide", "append", "update", "bind"} /\ ~At(p, "idle") /\ r.at \notin Locked
  BY DEF History, Read, HistoryLock, HistoryLeave, HistoryDecide, AppendVersion, UpdateRef, BindVersion, At,
         Locked
<1>5. ~UpdateRef(p) =>
        UNCHANGED <<canvas, versions, lock, manifest, phase, draft, requests, faults>>
  BY DEF History, Read, HistoryLock, HistoryLeave, HistoryDecide, AppendVersion, BindVersion, disk,
         turn
<1>6. ASSUME ~UpdateRef(p), NEW s, s \in {Idle, Failed(r)}, Put(p, s),
             hlock' \in {hlock, None}, hlock' # p
      PROVE  TInv'
  <2>1. Typed(s) /\ s.at = "idle"
    BY <1>2, <1>6, RestTyped
  <2> QED
    BY <1>4, <1>5, <1>6, <2>1, HistoryMoves
<1>7. ASSUME ~UpdateRef(p), NEW x, Put(p, [r EXCEPT !.at = x]), hlock' \in {hlock, None, p},
             \/ x \in {"hleave", "lock"}
             \/ x \in {"hdecide", "append"} /\ Good(r.seen),
             hlock' = p /\ x = "lock" => r.next \in {"hdecide", "hleave"}
      PROVE  TInv'
  <2>1. PICK s : Put(p, s) /\ s = [r EXCEPT !.at = x]
    BY <1>7
  <2>2. /\ s.at = x /\ s.op = r.op /\ s.content = r.content /\ s.editing = r.editing
        /\ s.target = r.target /\ s.seen = r.seen /\ s.next = r.next
    BY <1>2, <2>1 DEF Formed
  <2>3. Typed(s)
    BY <1>2, <1>7, <2>2 DEF Typed, Where, Locked
  <2>4. hlock' = p => Under(s)
    BY <1>7, <2>2 DEF Under, Away, Locked
  <2> QED
    BY <1>4, <1>5, <1>7, <2>1, <2>2, <2>3, <2>4, HistoryMoves
<1>8. CASE Read(p)
  <2>1. UNCHANGED hlock /\ r.at = "read" /\ ~UpdateRef(p)
    BY <1>8 DEF Read, UpdateRef, At
  <2>2. CASE Put(p, [r EXCEPT !.seen = canvas, !.at = r.next])
    <3>1. PICK s, c : Put(p, s) /\ s = [r EXCEPT !.seen = c, !.at = r.next] /\ c = canvas
      BY <2>2
    <3>2. /\ s.at = r.next /\ s.op = r.op /\ s.content = r.content /\ s.editing = r.editing
          /\ s.target = r.target /\ s.seen = c /\ s.next = r.next
      BY <1>2, <3>1 DEF Formed
    <3>3. r.next \in Nexts /\ Good(c)
      BY <1>2, <3>1 DEF Sorted, TInv
    <3>4. Typed(s) /\ s.at # "verify"
      BY <1>2, <3>2, <3>3 DEF Typed, Where, Locked, Nexts
    <3>5. hlock' = p => Under(s)
      BY <1>3, <2>1, <3>2 DEF Under, Away, Locked
    <3> QED
      BY <1>4, <1>5, <2>1, <3>1, <3>4, <3>5, HistoryMoves
  <2>3. CASE Put(p, [r EXCEPT !.at = "lock"])
    BY <1>3, <1>7, <2>1, <2>3 DEF Under
  <2> QED
    BY <1>8, <2>2, <2>3 DEF Read
<1>9. CASE HistoryLock(p)
  <2>1. r.at = "hlock" /\ ~UpdateRef(p)
    BY <1>9 DEF HistoryLock, UpdateRef, At
  <2>2. CASE hlock' = p /\ r.op = "before" /\ Put(p, [r EXCEPT !.at = "hdecide"])
    <3>1. Good(r.seen)
      BY <1>2, <2>1, <2>2 DEF Typed
    <3> QED
      BY <1>7, <2>1, <2>2, <3>1
  <2>3. CASE hlock' = p /\ Put(p, [r EXCEPT !.at = "read", !.next = "hdecide"])
    <3>1. PICK s : Put(p, s) /\ s = [r EXCEPT !.at = "read", !.next = "hdecide"]
      BY <2>3
    <3>2. /\ s.at = "read" /\ s.op = r.op /\ s.content = r.content /\ s.editing = r.editing
          /\ s.target = r.target /\ s.next = "hdecide"
      BY <1>2, <3>1 DEF Formed
    <3>3. Typed(s) /\ Under(s)
      BY <1>2, <3>2 DEF Typed, Where, Locked, Under
    <3> QED
      BY <1>4, <1>5, <2>1, <2>3, <3>1, <3>2, <3>3, HistoryMoves
  <2>4. CASE hlock \notin {None, p} /\ UNCHANGED hlock
    BY <1>6, <1>9, <2>1, <2>4 DEF HistoryLock
  <2> QED
    BY <1>9, <2>2, <2>3, <2>4 DEF HistoryLock
<1>10. CASE HistoryLeave(p)
  <2>1. hlock' \in {hlock, None} /\ hlock' # p
    BY <1>1, <1>10 DEF HistoryLeave
  <2>2. ~UpdateRef(p)
    BY <1>10 DEF HistoryLeave, UpdateRef, At
  <2> QED
    BY <1>6, <1>10, <2>1, <2>2 DEF HistoryLeave
<1>11. CASE HistoryDecide(p)
  <2>1. r.at = "hdecide" /\ UNCHANGED hlock /\ ~UpdateRef(p)
    BY <1>11 DEF HistoryDecide, UpdateRef, At
  <2>2. r.op \in HistoryOps /\ Good(r.seen)
    BY <1>2, <2>1 DEF Sorted, Typed
  <2>3. PICK s : Put(p, s) /\ s = Decided(r)
    BY <1>11 DEF HistoryDecide, Decided
  <2>4. \/ s = [r EXCEPT !.at = "hleave"] \/ s = [r EXCEPT !.at = "append"]
        \/ \E i \in DOMAIN versions, content \in Contents :
              \E action : s = Bind(r, i, content, action)
    <3>1. CASE r.op = "before"
      BY <2>3, <3>1 DEF Decided
    <3>2. CASE r.op = "version"
      <4>1. s = Create(r)
        BY <2>3, <3>2 DEF Decided
      <4> QED
        BY <1>2, <2>1, <3>2, <4>1, CreateTyped
    <3>3. CASE r.op = "restore"
      <4>1. s = Restore(r)
        BY <2>3, <3>3 DEF Decided
      <4> QED
        BY <1>2, <2>1, <3>3, <4>1, CreateTyped
    <3> QED
      BY <2>2, <3>1, <3>2, <3>3 DEF HistoryOps
  <2>5. CASE s = [r EXCEPT !.at = "hleave"] \/ s = [r EXCEPT !.at = "append"]
    BY <1>7, <2>1, <2>2, <2>3, <2>5
  <2>6. CASE \E i \in DOMAIN versions, content \in Contents :
                \E action : s = Bind(r, i, content, action)
    <3>1. PICK i \in DOMAIN versions, content \in Contents :
            \E action : s = Bind(r, i, content, action)
      BY <2>6
    <3>2. PICK action : s = Bind(r, i, content, action)
      BY <3>1
    <3>3. Typed(s) /\ s.at = "bind" /\ Under(s)
      BY <1>2, <3>2, BindTyped
    <3> QED
      BY <1>4, <1>5, <2>1, <2>3, <3>3, HistoryMoves
  <2> QED
    BY <2>4, <2>5, <2>6
<1>12. CASE AppendVersion(p)
  BY <1>12, AppendTyped
<1>14. CASE UpdateRef(p)
  BY <1>14, UpdateTyped
<1>13. CASE BindVersion(p)
  <2>1. r.at = "bind" /\ UNCHANGED hlock /\ ~UpdateRef(p)
    BY <1>13 DEF BindVersion, UpdateRef, At
  <2>2. \E x \in {"lock", "hleave"} : Put(p, [r EXCEPT !.at = x])
    BY <1>13 DEF BindVersion, Go
  <2>3. hlock' = p => r.next \in {"hdecide", "hleave"}
    BY <1>3, <2>1 DEF Under
  <2> QED
    BY <1>7, <2>1, <2>2, <2>3
<1> QED
  BY <1>8, <1>9, <1>10, <1>11, <1>12, <1>13, <1>14 DEF History

\* Who has no lock begins or rests, and the rest stays as it is.
LEMMA BesideTyped ==
  ASSUME IInv, TInv, NEW p \in Procs, NEW s, Put(p, s), Typed(s),
         proc[p].at \in {"idle", "outcome", "classify", "receipt", "stamp", "verify"},
         UNCHANGED <<canvas, versions, lock, hlock>>, Bounds', Turns'
  PROVE  TInv'
<1>1. Grows /\ VersionsGood' /\ Good(canvas)'
  BY DEF Grows, TInv, VersionsGood, Good
<1>2. Typed(s)'
  BY <1>1, StaysTyped
<1>3. p # None
  BY CanvasAssumption DEF Procs, Daemon
<1>4. lock' # p /\ hlock' # p /\ lock' \in {lock, None} /\ hlock' \in {hlock, None}
  BY <1>3 DEF TInv, Holders, Locked, Under, Away
<1> QED
  BY <1>1, <1>2, <1>4, TypesMove DEF IInv

\* A request begins with what the user looks at, or with what it was.
LEMMA RequestTyped ==
  ASSUME IInv, TInv, NEW p \in Workers, Request(p) \/ Retry(p)
  PROVE  TInv'
<1> DEFINE r == proc[p]
<1>1. p \in Procs /\ p \notin {"collect", "before"}
  BY CanvasAssumption DEF Procs, Daemon
<1>2. /\ UNCHANGED <<canvas, versions, lock, hlock, manifest, phase, draft, faults>>
      /\ requests < MaxRequests /\ requests' = requests + 1 /\ r.at = "idle"
  BY DEF Request, Retry, At, disk, turn
<1>3. Bounds'
  BY <1>2, CanvasAssumption DEF TInv, Bounds
<1>4. Sound(Idle) /\ Formed(Idle) /\ Sound(r) /\ Formed(r) /\ Typed(r) /\ Blank \in Contents
  BY <1>1, IdleSound, CanvasAssumption DEF IInv, Processes, TInv, Sound
<1>5. Idle.content = Blank /\ Idle.editing = NoEditing /\ Idle.op = "none"
  BY DEF Idle
<1>6. ASSUME NEW s, Put(p, s), s.at \in {"lock", "read"}, s.content \in Contents,
             s.op = "restore" => s.target \in DOMAIN versions,
             s.editing = NoEditing \/ s.editing.base \in DOMAIN versions
      PROVE  TInv'
  <2>1. Typed(s) /\ s.at # "verify"
    BY <1>6 DEF Typed, Where, Locked
  <2>2. Turns'
    BY <1>1, <1>2, <1>6, <2>1, TurnsStay DEF IInv, TInv
  <2> QED
    BY <1>1, <1>2, <1>3, <1>6, <2>1, <2>2, BesideTyped
<1>7. CASE Request(p)
  <2>1. PICK s : /\ Put(p, s)
                 /\ \/ \E c \in Contents :
                         s = [Idle EXCEPT !.at = "lock", !.op = "save", !.base = canvas, !.content = c]
                    \/ s = [Idle EXCEPT !.at = "read", !.op = "reopen"]
                    \/ s = [Idle EXCEPT !.at = "read", !.op = "version", !.base = canvas,
                                        !.next = "hlock"]
                    \/ \E i \in DOMAIN versions :
                         s = [Idle EXCEPT !.at = "read", !.op = "restore", !.base = canvas,
                                          !.next = "hlock", !.target = i]
    BY <1>7 DEF Request
  <2>2. PICK b : b = canvas
    OBVIOUS
  <2>3. /\ s.at \in {"lock", "read"} /\ s.content \in Contents /\ s.editing = NoEditing
        /\ s.op = "restore" => s.target \in DOMAIN versions
    <3>1. CASE \E c \in Contents :
                 s = [Idle EXCEPT !.at = "lock", !.op = "save", !.base = b, !.content = c]
      BY <1>4, <1>5, <3>1 DEF Formed
    <3>2. CASE s = [Idle EXCEPT !.at = "read", !.op = "reopen"]
      BY <1>4, <1>5, <3>2 DEF Formed
    <3>3. CASE s = [Idle EXCEPT !.at = "read", !.op = "version", !.base = b, !.next = "hlock"]
      BY <1>4, <1>5, <3>3 DEF Formed
    <3>4. CASE \E i \in DOMAIN versions :
                 s = [Idle EXCEPT !.at = "read", !.op = "restore", !.base = b, !.next = "hlock",
                                  !.target = i]
      BY <1>4, <1>5, <3>4 DEF Formed
    <3> QED
      BY <2>1, <2>2, <3>1, <3>2, <3>3, <3>4
  <2> QED
    BY <1>6, <2>1, <2>3
<1>8. CASE Retry(p)
  <2>1. PICK s : /\ Put(p, s)
                 /\ \/ s = [r EXCEPT !.at = "lock"]
                    \/ s = [Idle EXCEPT !.at = "read", !.op = r.op, !.base = r.base,
                                        !.next = "hlock", !.target = r.target]
    BY <1>8 DEF Retry
  <2>2. CASE s = [r EXCEPT !.at = "lock"]
    <3>1. /\ s.at = "lock" /\ s.op = r.op /\ s.content = r.content /\ s.editing = r.editing
          /\ s.target = r.target
      BY <1>4, <2>2 DEF Formed
    <3> QED
      BY <1>4, <1>6, <2>1, <3>1 DEF Typed
  <2>3. CASE s = [Idle EXCEPT !.at = "read", !.op = r.op, !.base = r.base, !.next = "hlock",
                              !.target = r.target]
    <3>1. /\ s.at = "read" /\ s.op = r.op /\ s.content = Blank /\ s.editing = NoEditing
          /\ s.target = r.target
      BY <1>4, <1>5, <2>3 DEF Formed
    <3> QED
      BY <1>4, <1>6, <2>1, <3>1 DEF Typed
  <2> QED
    BY <2>1, <2>2, <2>3
<1> QED
  BY <1>7, <1>8

\* The report moves on beside the locks; what is collected is a document.
LEMMA ReportTyped ==
  ASSUME IInv, TInv, NEW p \in Reporters, Report(p)
  PROVE  TInv'
<1> DEFINE r == proc[p]
<1>1. p \in Procs /\ p # "before"
  BY ReporterProcs
<1>2. /\ UNCHANGED <<canvas, versions, lock, hlock, manifest, phase, draft, requests>>
      /\ faults' = faults \/ Fault
      /\ r.at \in {"outcome", "classify", "receipt", "stamp"} /\ ~At(p, "idle")
  BY DEF Report, Consult, Classify, WriteReceipt, Stamp, NoFault, At, disk, turn
<1>3. Bounds'
  BY <1>2, CanvasAssumption DEF TInv, Bounds, Fault
<1>4. Formed(r) /\ Typed(r)
  BY <1>1 DEF IInv, Processes, Sound, TInv
<1>5. ASSUME NEW s, Put(p, s), Typed(s), s.at # "verify" PROVE TInv'
  <2>1. Turns'
    BY <1>1, <1>2, <1>5, TurnsStay DEF IInv, TInv
  <2> QED
    BY <1>1, <1>2, <1>3, <1>5, <2>1, BesideTyped
<1>6. CASE Put(p, Idle)
  BY <1>4, <1>5, <1>6, RestTyped
<1>7. ASSUME NEW x \in {"stamp", "classify", "receipt", "idle"}, NEW v, NEW s, Put(p, s),
             s = [r EXCEPT !.at = x] \/ s = [r EXCEPT !.verdict = v, !.at = x]
      PROVE  TInv'
  <2>1. /\ s.at = x /\ s.op = r.op /\ s.content = r.content /\ s.editing = r.editing
        /\ s.target = r.target
    BY <1>4, <1>7 DEF Formed
  <2>2. Typed(s)
    BY <1>4, <2>1 DEF Typed, Where, Locked
  <2> QED
    BY <1>5, <1>7, <2>1, <2>2
<1>8. ASSUME NEW b, NEW c \in Contents, Put(p, [r EXCEPT !.base = b, !.content = c, !.at = "lock"])
      PROVE  TInv'
  <2>1. PICK s : Put(p, s) /\ s = [r EXCEPT !.base = b, !.content = c, !.at = "lock"]
    BY <1>8
  <2>2. /\ s.at = "lock" /\ s.op = r.op /\ s.content = c /\ s.editing = r.editing
        /\ s.target = r.target
    BY <1>4, <2>1 DEF Formed
  <2>3. Typed(s)
    BY <1>4, <2>2 DEF Typed, Where, Locked
  <2> QED
    BY <1>5, <2>1, <2>2, <2>3
<1>9. CASE Classify(p)
  <2>1. \/ \E v : Put(p, [r EXCEPT !.verdict = v, !.at = "receipt"])
        \/ /\ draft \notin {Absent, Broken}
           /\ Put(p, [r EXCEPT !.base = Baseline, !.content = draft, !.at = "lock"])
    BY <1>9 DEF Classify, Verdict
  <2>2. draft \notin {Absent, Broken} => draft \in Contents
    BY CanvasAssumption DEF TInv, Turns
  <2> QED
    BY <1>7, <1>8, <2>1, <2>2
<1>10. CASE Consult(p)
  BY <1>6, <1>7, <1>10 DEF Consult
<1>11. CASE WriteReceipt(p) \/ Stamp(p)
  BY <1>6, <1>7, <1>11 DEF WriteReceipt, Stamp, Go
<1> QED
  BY <1>9, <1>10, <1>11 DEF Report

\* The turn waits, runs, ends.
LEMMA TurnTyped ==
  ASSUME IInv, TInv, Dispatch \/ Resubmit \/ EndTurn \/ Stop
  PROVE  TInv'
<1>1. UNCHANGED <<canvas, versions, lock, hlock, manifest, faults>>
  BY DEF Dispatch, Resubmit, EndTurn, Stop, disk
<1>2. Bounds'
  BY <1>1, CanvasAssumption DEF TInv, Bounds, Dispatch, Resubmit, EndTurn, Stop
<1>3. {"dispatch", "collect", "cancel", "before"} \subseteq Procs
  BY DaemonProcs DEF Daemon
<1>4. Idle.content = Blank /\ Idle.editing = NoEditing /\ Idle.op = "none" /\ Idle.at = "idle"
      /\ Formed(Idle) /\ Blank \in Contents
  BY IdleSound, CanvasAssumption DEF Idle, Sound
<1>5. ASSUME NEW p \in Procs, NEW s, Put(p, s), s.at \in {"verify", "outcome"}, s.op # "restore",
             s.content \in Contents, s.editing = NoEditing, s.at = "verify" => Good(s.seen),
             proc[p].at = "idle", Turns'
      PROVE  TInv'
  <2>1. Typed(s)
    BY <1>5 DEF Typed, Where, Locked
  <2> QED
    BY <1>1, <1>2, <1>5, <2>1, BesideTyped
<1>6. ASSUME UNCHANGED proc, Turns' PROVE TInv'
  BY <1>1, <1>2, <1>6 DEF TInv, VersionsGood, Good, Typed, Holders, Under
<1>7. CASE Dispatch
  <2>1. phase = "none" /\ At("dispatch", "idle") /\ UNCHANGED draft
    BY <1>7 DEF Dispatch
  <2>2. CASE manifest # NoInput
    <3>1. UNCHANGED proc /\ phase' = "running"
      BY <1>7, <2>2 DEF Dispatch
    <3>2. Turns'
      BY <1>1, <2>1, <2>2, <3>1 DEF TInv, Turns, At
    <3> QED
      BY <1>6, <3>1, <3>2
  <2>3. CASE manifest = NoInput
    <3>1. PICK s, c : /\ Put("dispatch", s) /\ c = canvas
                      /\ s = [Idle EXCEPT !.at = "verify", !.op = "dispatch", !.seen = c]
      BY <1>7, <2>3 DEF Dispatch
    <3>2. /\ s.at = "verify" /\ s.op = "dispatch" /\ s.content = Blank /\ s.editing = NoEditing
          /\ s.seen = c
      BY <1>4, <3>1 DEF Formed
    <3>3. UNCHANGED phase
      BY <1>7, <2>3 DEF Dispatch
    <3>4. \A q \in Procs \ {"dispatch"} : proc'[q] = proc[q]
      BY <1>3, <3>1, PutOne DEF IInv
    <3>5. Turns'
      BY <1>1, <1>3, <2>1, <2>3, <3>3, <3>4 DEF TInv, Turns, At
    <3> QED
      BY <1>3, <1>4, <1>5, <2>1, <3>1, <3>2, <3>5 DEF At, TInv
  <2> QED
    BY <2>2, <2>3
<1>8. CASE Resubmit
  <2>1. UNCHANGED <<proc, phase>> /\ draft' \in Drafts \cup {Absent}
    BY <1>8 DEF Resubmit, Edited, TInv, Turns
  <2>2. Turns'
    BY <1>1, <2>1 DEF TInv, Turns, At
  <2> QED
    BY <1>6, <2>1, <2>2
<1>9. ASSUME NEW p \in {"collect", "cancel"}, NEW op \in {"collect", "failed", "cancel"},
             Put(p, [Idle EXCEPT !.at = "outcome", !.op = op]), proc[p].at = "idle",
             phase # "none", phase' = "ended", draft' \in Drafts \cup {Absent}
      PROVE  TInv'
  <2>1. PICK s : Put(p, s) /\ s = [Idle EXCEPT !.at = "outcome", !.op = op]
    BY <1>9
  <2>2. s.at = "outcome" /\ s.op = op /\ s.content = Blank /\ s.editing = NoEditing
    BY <1>4, <2>1 DEF Formed
  <2>3. \A q \in Procs \ {p} : proc'[q] = proc[q]
    BY <1>3, <2>1, PutOne DEF IInv
  <2>4. Turns'
    BY <1>1, <1>3, <1>9, <2>3 DEF TInv, Turns, At
  <2> QED
    BY <1>3, <1>4, <1>5, <1>9, <2>1, <2>2, <2>4
<1>10. CASE EndTurn
  <2>1. PICK op \in {"collect", "failed"} :
          Put("collect", [Idle EXCEPT !.at = "outcome", !.op = op])
    BY <1>10 DEF EndTurn
  <2>2. phase = "running" /\ phase' = "ended" /\ draft' \in Drafts \cup {Absent}
    BY <1>10 DEF EndTurn, Edited, TInv, Turns
  <2>3. proc["collect"].at = "idle"
    BY <2>2 DEF TInv, Turns, At
  <2> QED
    BY <1>9, <2>1, <2>2, <2>3
<1>11. CASE Stop
  <2>1. /\ Put("cancel", [Idle EXCEPT !.at = "outcome", !.op = "cancel"])
        /\ phase # "none" /\ phase' = "ended" /\ draft' = draft /\ proc["cancel"] = Idle
    BY <1>11 DEF Stop
  <2>2. draft \in Drafts \cup {Absent}
    BY DEF TInv, Turns
  <2> QED
    BY <1>4, <1>9, <2>1, <2>2
<1> QED
  BY <1>7, <1>8, <1>10, <1>11

\* The input is written, and the background version begins.
LEMMA FreezeTyped ==
  ASSUME IInv, TInv, Freeze
  PROVE  TInv'
<1> DEFINE base == proc["dispatch"].seen
<1>1. {"dispatch", "collect", "cancel", "before"} \subseteq Procs
  BY DaemonProcs DEF Daemon
<1>2. UNCHANGED <<canvas, versions, lock, hlock, draft, requests, faults>>
  BY DEF Freeze
<1>3. At("dispatch", "verify") /\ manifest = NoInput /\ Good(base) /\ At("before", "idle")
  BY <1>1 DEF Freeze, TInv, Turns, Typed, At
<1>4. Idle.content = Blank /\ Idle.editing = NoEditing /\ Idle.op = "none" /\ Idle.at = "idle"
      /\ Formed(Idle) /\ Blank \in Contents /\ Typed(Idle)
  BY IdleSound, RestTyped, CanvasAssumption DEF Idle, Sound, Typed, Where, Locked
<1>5. Bounds'
  BY <1>2 DEF TInv, Bounds
<1>6. CASE projection # base
  <2>1. Put("dispatch", Idle) /\ UNCHANGED <<manifest, phase>>
    BY <1>6 DEF Freeze
  <2>2. Turns'
    BY <1>1, <1>2, <1>4, <2>1, TurnsStay DEF IInv, TInv
  <2> QED
    BY <1>1, <1>2, <1>3, <1>4, <1>5, <2>1, <2>2, BesideTyped DEF At
<1>7. CASE projection = base
  <2>1. PICK b : b = IF base.content = Blank THEN Idle
                     ELSE [Idle EXCEPT !.at = "hlock", !.op = "before", !.seen = base]
    OBVIOUS
  <2>2. Typed(b)
    <3>1. CASE base.content = Blank
      BY <1>4, <2>1, <3>1
    <3>2. CASE base.content # Blank
      <4>1. PICK c : c = base
        OBVIOUS
      <4>2. b = [Idle EXCEPT !.at = "hlock", !.op = "before", !.seen = c]
        BY <2>1, <3>2, <4>1
      <4>3. b.at = "hlock" /\ b.op = "before" /\ b.content = Blank /\ b.editing = NoEditing
            /\ b.seen = c
        BY <1>4, <4>2 DEF Formed
      <4> QED
        BY <1>3, <1>4, <4>1, <4>3 DEF Typed, Where, Locked
    <3> QED
      BY <3>1, <3>2
  <2>3. proc' = [proc EXCEPT !["dispatch"] = Idle, !["before"] = b]
    BY <1>7, <2>1 DEF Freeze
  <2>4. /\ proc'["dispatch"] = Idle /\ proc'["before"] = b
        /\ \A q \in Procs \ {"dispatch", "before"} : proc'[q] = proc[q]
    BY <1>1, <2>3 DEF IInv, Processes
  <2>5. manifest' = Input(base, draft) /\ phase' = "running"
    BY <1>7 DEF Freeze
  <2>6. manifest' # NoInput
    <3>1. manifest'.atSend = draft /\ NoInput.atSend = None
      BY <2>5 DEF Input, NoInput
    <3>2. draft # None
      BY CanvasAssumption DEF TInv, Turns
    <3> QED
      BY <3>1, <3>2
  <2>7. Turns'
    <3>1. At("collect", "idle")
      <4>1. phase # "ended"
        BY <1>3 DEF TInv, Turns
      <4> QED
        BY <4>1 DEF TInv, Turns
    <3> QED
      BY <1>1, <1>2, <1>4, <2>4, <2>5, <2>6, <3>1 DEF TInv, Turns, At
  <2>8. \A q \in Procs : Typed(proc[q])'
    BY <1>2, <1>4, <2>2, <2>4 DEF TInv, Typed, Good
  <2>9. Holders'
    <3>1. lock \notin {"dispatch", "before"} /\ hlock \notin {"dispatch", "before"}
      BY <1>3, CanvasAssumption DEF TInv, Holders, Under, At, Away, Locked
    <3>2. Workers \cup {"collect"} \subseteq Procs
      BY <1>1 DEF Procs
    <3> QED
      BY <1>2, <2>4, <3>1, <3>2 DEF TInv, Holders, Under
  <2> QED
    BY <1>2, <1>5, <2>7, <2>8, <2>9 DEF TInv, VersionsGood, Good
<1> QED
  BY <1>6, <1>7

\* Locks are lost and processes die.
LEMMA FaultTyped ==
  ASSUME IInv, TInv, LoseLock \/ CrashDaemon \/ \E p \in Workers : Crash(p)
  PROVE  TInv'
<1>1. {"dispatch", "collect", "cancel", "before"} = Daemon /\ Daemon \subseteq Procs
  BY DaemonProcs
<1>2. UNCHANGED <<canvas, versions, draft, manifest, requests>> /\ Bounds'
  <2>1. ASSUME LoseLock
        PROVE  UNCHANGED <<canvas, versions, draft, manifest, requests>>
    <3>1. UNCHANGED disk /\ UNCHANGED turn /\ UNCHANGED requests
      BY <2>1 DEF LoseLock
    <3> QED
      BY <3>1 DEF disk, turn
  <2>2. ASSUME CrashDaemon
        PROVE  UNCHANGED <<canvas, versions, draft, manifest, requests>>
    <3>1. UNCHANGED disk /\ UNCHANGED draft /\ UNCHANGED requests
      BY <2>2 DEF CrashDaemon
    <3> QED
      BY <3>1 DEF disk
  <2>3. ASSUME NEW p \in Workers, Crash(p)
        PROVE  UNCHANGED <<canvas, versions, draft, manifest, requests>>
    BY <2>3 DEF Crash, disk, turn
  <2>4. UNCHANGED <<canvas, versions, draft, manifest, requests>>
    BY <2>1, <2>2, <2>3
  <2>5. Fault
    BY DEF LoseLock, CrashDaemon, Crash
  <2> QED
    BY <2>4, <2>5, CanvasAssumption DEF Fault, TInv, Bounds
<1>3. Grows /\ VersionsGood' /\ Good(canvas)'
  BY <1>2 DEF Grows, TInv, VersionsGood, Good
<1>4. None \notin Procs
  BY CanvasAssumption DEF Procs, Daemon
<1>5. CASE LoseLock
  <2>1. UNCHANGED <<proc, phase>> /\ lock' \in {lock, None} /\ hlock' \in {hlock, None}
    BY <1>5 DEF LoseLock, turn
  <2>2. Turns' /\ Holders'
    BY <1>2, <2>1 DEF TInv, Turns, Holders, Under, At
  <2>3. \A q \in Procs : Typed(proc[q])'
    BY <1>2, <2>1 DEF TInv, Typed, Good
  <2> QED
    BY <1>2, <1>3, <2>2, <2>3 DEF TInv
<1>6. ASSUME NEW p \in Workers, Crash(p) PROVE TInv'
  <2>1. p \in Procs /\ p \notin {"collect", "before"}
    BY CanvasAssumption DEF Procs
  <2>2. PICK s : Put(p, s) /\ s = Failed(proc[p])
    BY <1>6 DEF Crash
  <2>3. Typed(s) /\ s.at = "idle"
    BY <2>1, <2>2, RestTyped DEF TInv
  <2>4. UNCHANGED phase /\ lock' = Released(lock, {p}) /\ hlock' = Released(hlock, {p})
    BY <1>6 DEF Crash, turn
  <2>5. Turns'
    BY <1>2, <2>1, <2>2, <2>3, <2>4, TurnsStay DEF IInv, TInv
  <2>6. lock' \in {lock, None} /\ hlock' \in {hlock, None} /\ lock' # p /\ hlock' # p
    BY <1>4, <2>1, <2>4 DEF Released
  <2>7. Typed(s)'
    BY <1>3, <2>3, StaysTyped
  <2> QED
    BY <1>2, <1>3, <2>1, <2>2, <2>5, <2>6, <2>7, TypesMove DEF IInv
<1>7. CASE CrashDaemon
  <2>1. \A q \in Procs : proc'[q] = IF q \in Daemon THEN Idle ELSE proc[q]
    BY <1>7 DEF CrashDaemon
  <2>2. phase' \in {"none", phase} /\ lock' = Released(lock, Daemon) /\ hlock' = Released(hlock, Daemon)
    BY <1>7 DEF CrashDaemon
  <2>3. Idle.at = "idle"
    BY DEF Idle
  <2>4. Turns'
    BY <1>1, <1>2, <2>1, <2>2, <2>3 DEF TInv, Turns, At
  <2>5. \A q \in Procs : Typed(proc[q])'
    <3> SUFFICES ASSUME NEW q \in Procs PROVE Typed(proc[q])'
      OBVIOUS
    <3>1. Typed(proc[q]) /\ Typed(Idle)
      BY RestTyped DEF TInv
    <3> QED
      BY <1>2, <2>1, <3>1 DEF Typed, Good
  <2>6. Holders'
    <3>1. Workers \subseteq Procs \ Daemon
      BY <1>1, CanvasAssumption DEF Procs
    <3> QED
      BY <1>1, <2>1, <2>2, <3>1 DEF TInv, Holders, Under, Released
  <2> QED
    BY <1>2, <1>3, <2>4, <2>5, <2>6 DEF TInv
<1> QED
  BY <1>5, <1>6, <1>7

\* A new design is well typed.
LEMMA InitTyped == Init => TInv
<1> SUFFICES ASSUME Init PROVE TInv
  OBVIOUS
<1>1. VersionsGood /\ Good(canvas)
  <2>1. CASE canvas = Revision(Blank, NoEditing) /\ versions = <<>>
    BY <2>1, CanvasAssumption DEF Good, VersionsGood, Revision
  <2>2. ASSUME NEW c \in Contents \ {Blank},
               canvas = Revision(c, [base |-> 1, action |-> Action("saved", None, 0)]),
               versions = <<[content |-> c, kind |-> "saved", source |-> None]>>
        PROVE  VersionsGood /\ Good(canvas)
    <3>1. PICK a : a = Action("saved", None, 0)
      OBVIOUS
    <3>2. canvas.content = c /\ canvas.editing.base = 1
      BY <2>2, <3>1 DEF Revision
    <3>3. PICK v : v = [content |-> c, kind |-> "saved", source |-> None]
      OBVIOUS
    <3>4. v.content = c /\ v.kind = "saved" /\ versions = <<v>>
      BY <2>2, <3>3
    <3>5. DOMAIN versions = {1} /\ versions[1] = v
      BY <3>4
    <3> QED
      BY <3>2, <3>4, <3>5 DEF Good, VersionsGood
  <2> QED
    BY <2>1, <2>2 DEF Init
<1>2. \A p \in Procs : proc[p] = Idle
  BY DEF Init
<1>3. \A p \in Procs : Typed(proc[p])
  <2>1. Typed(Idle)
    BY CanvasAssumption DEF Idle, Typed, Where, Locked
  <2> QED
    BY <1>2, <2>1
<1>4. Holders /\ Bounds
  BY CanvasAssumption DEF Init, Holders, Bounds
<1>5. Turns
  <2>1. draft \in Drafts \cup {Absent} /\ phase = "none" /\ manifest = NoInput
    BY DEF Init
  <2>2. \A p \in Procs : At(p, "idle")
    BY <1>2, IdleSound DEF At
  <2> QED
    BY <2>1, <2>2, DaemonProcs DEF Turns, Daemon, At
<1> QED
  BY <1>1, <1>3, <1>4, <1>5 DEF TInv

\* Every step keeps the types.
LEMMA NextTyped == IInv /\ VInv /\ TInv /\ [Next]_vars => TInv'
<1> SUFFICES ASSUME IInv, VInv, TInv, [Next]_vars PROVE TInv'
  OBVIOUS
<1>1. Parts
  BY DEF VInv
<1>2. CASE \E p \in Workers : Request(p) \/ Retry(p) \/ Crash(p)
  BY <1>2, RequestTyped, FaultTyped
<1>3. CASE \E p \in Workers \cup {"collect"} : Section(p)
  BY <1>1, <1>3, SectionTyped
<1>4. CASE \E p \in Workers \cup {"before"} : History(p)
  BY <1>1, <1>4, HistoryTyped
<1>5. CASE \E p \in Reporters : Report(p)
  BY <1>5, ReportTyped
<1>6. CASE Dispatch \/ Freeze \/ Resubmit \/ EndTurn \/ Stop
  BY <1>6, TurnTyped, FreezeTyped
<1>7. CASE LoseLock \/ CrashDaemon
  BY <1>7, FaultTyped
<1>8. CASE UNCHANGED vars
  BY <1>8 DEF vars, disk, turn, TInv, VersionsGood, Good, Typed, Holders, Under, Bounds, Turns, At
<1> QED
  BY <1>2, <1>3, <1>4, <1>5, <1>6, <1>7, <1>8 DEF Next

\* store.ts, history.ts: the canvas never names a version its history does not hold,
\* and who holds a lock is inside the section it guards.
THEOREM CanvasTypes == Spec => []TypeOK
<1>1. TInv => TypeOK
  <2> SUFFICES ASSUME TInv PROVE TypeOK
    OBVIOUS
  <2>1. hlock # None => proc[hlock].at \in Where \ {"idle", "hlock"}
    BY DEF TInv, Holders, Under, Where, Away, Locked
  <2> QED
    BY <2>1 DEF TInv, Good, VersionsGood, Typed, Holders, Bounds, Turns, TypeOK
<1>2. IInv /\ VInv /\ TInv /\ [Next]_vars => IInv' /\ VInv' /\ TInv'
  BY NextKeeps, NextTrusts, NextTyped
<1> QED
  BY <1>1, <1>2, InitKeeps, InitTrusts, InitTyped, PTL DEF Spec

=============================================================================
