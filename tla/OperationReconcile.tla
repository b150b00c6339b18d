--------------------------- MODULE OperationReconcile ---------------------------
(***************************************************************************)
(* How the items of accepted Operations reach their targets and how the    *)
(* Operations finish (operation-coordinator.ts, wake to reconcileItem).    *)
(* Four parties share the Operation store: the MCP process that accepted   *)
(* the Operation and writes its inputs, the worker's coordinator, a client *)
(* that cancels, and the target sessions that run.                         *)
(*                                                                         *)
(* An input is a user turn in the target session's replicated document and *)
(* a dispatch pointer in the replicated metadata.  Each process writes a   *)
(* replica of its own, in memory, which is saved and pushed to Streams     *)
(* some time after the write, or never if the process ends first.  A       *)
(* coordinator action is the code between two awaits; the items of an      *)
(* Operation are reconciled concurrently, each with the list that was read *)
(* when the reconciliation began.                                          *)
(***************************************************************************)
EXTENDS Integers

CONSTANTS
  Operations, NoOperation,
  Items,
  Ends,       \* how target turns end, among "succeeded", "failed", "cancelled"
  Remote,     \* remoteStreamsAttached: whether a document can be caught up
  MaxMishaps, \* bound: failed reads, writes and syncs, ended acceptors and workers
  MaxCancels  \* bound: calls of operation_cancel

ASSUME ReconcileAssumption ==
  /\ NoOperation \notin Operations /\ Operations # {} /\ Items # {}
  /\ Ends \subseteq {"succeeded", "failed", "cancelled"}
  /\ Remote \in BOOLEAN /\ MaxMishaps \in Nat /\ MaxCancels \in Nat

VARIABLES
  db,        \* the Operations' rows in the store
  late,      \* Operations whose deadline has passed
  acceptor,  \* the MCP process of an Operation, item by item
  here,      \* the inputs in the worker's replica
  there,     \* the inputs in the acceptor's replica, or what was saved of it
  sent,      \* what a catch-up has found in Loro Streams
  token,     \* materializationClaimToken of the coordinator
  wakes,     \* reconciliations queued on the chain
  todo,      \* Operations this reconciliation has still to look at
  read,      \* the items it read of them
  task,      \* the Operation at work, and what a failed one left running
  deadlineTimer, retryTimer,
  notified,  \* the store's directory watcher has something to report
  mishaps, cancels,
  trouble,   \* history: what made a reconciliation or a mark fail
  missed,    \* history: items the worker took over from an acceptor that was still to
             \* write, or caught up before the acceptor's turn had been pushed
  lost       \* history: items of which an ended process had the only copy of a part

docs == <<here, there, sent>>
timers == <<deadlineTimer, retryTimer>>
chain == <<todo, read, task>>
bounds == <<late, mishaps, cancels, trouble, missed, lost>>
past == <<missed, lost>>
vars == <<db, acceptor, docs, token, wakes, chain, timers, notified, bounds>>

Acceptor == 1
Tokens == 0..(2 + MaxMishaps)   \* 0: no claim; 2, 3, ...: the worker's coordinators

OpenItem == {"open", "durable"}
ItemStates == OpenItem \cup {"succeeded", "failed", "cancelled", "timeout"}
Lists == [Items -> ItemStates]

\* What an input consists of: the turn, by who appended it, its end, the pointer.
Authors == {"acceptor", "worker"}
Inputs == SUBSET (Authors \cup Ends \cup {"pointer"})

Idle == [op |-> NoOperation, at |-> [i \in Items |-> "done"],
         out |-> [i \in Items |-> "open"], aborted |-> FALSE]

Stages == {"check", "sync", "write", "pointer", "mark", "markClaimed", "history",
           "done", "fold", "finish"}

Active(o) == db[o].state = "active"
Mishap == mishaps < MaxMishaps /\ mishaps' = mishaps + 1
Wake == 1

-----------------------------------------------------------------------------
(* The store: see OperationStore for the methods.                          *)

Finished(o, kind, items) ==
  IF Active(o) THEN [db[o] EXCEPT !.state = "finished", !.kind = kind, !.told = items]
  ELSE db[o]

Claimable(o, i) ==
  /\ db[o].items[i] = "open"
  /\ db[o].claim[i] \in {0, token} \/ db[o].lapsed[i]

\* by = 0: the level check found the input
Durable(o, i, by) ==
  IF db[o].items[i] = "open" /\ (by # 0 => db[o].claim[i] = by)
  THEN [db[o] EXCEPT !.items[i] = IF Active(o) THEN "durable" ELSE @,
                     !.claim[i] = 0, !.lapsed[i] = FALSE]
  ELSE db[o]

\* Any write makes the directory watcher report.
Write(o, row) ==
  /\ db' = [db EXCEPT ![o] = row]
  /\ notified' = (notified \/ row # db[o])
NoWrite == UNCHANGED <<db, notified>>

-----------------------------------------------------------------------------
(* The replicas                                                            *)

\* The session's document and the metadata are sent one by one.
Document(input) == input \ {"pointer"}
Metadata(input) == input \cap {"pointer"}
Parts(input) == {Document(input), Metadata(input)}

Everywhere(o, i) == here[o][i] \cup there[o][i] \cup sent[o][i]

\* A turn with the fixed id is not appended again.
HasTurn(input) == input \cap Authors # {}

\* isTargetInputDurable
InputDurable(input) == HasTurn(input) /\ input \cap (Ends \cup {"pointer"}) # {}

\* What is in no replica and not in Streams any more.
Loses ==
  lost' = lost \cup {p \in Operations \X Items : Everywhere(p[1], p[2])' # Everywhere(p[1], p[2])}

\* What may have been saved of an input: its end is a part of its turn.
Savable(input) == {kept \in SUBSET input : kept \cap Ends # {} => HasTurn(kept)}

\* What the acceptor wrote, or Streams has, reaches the worker, whose watches report it.
Arrive(o, i) ==
  /\ \E part \in Parts(there[o][i]) \cup Parts(sent[o][i]) :
       /\ ~(part \subseteq here[o][i])
       /\ here' = [here EXCEPT ![o][i] = @ \cup part]
  /\ wakes' = Wake
  /\ UNCHANGED <<db, acceptor, there, sent, token, chain, timers, notified, bounds>>

\* The target turn ends on the worker's machine.
RunEnds(o, i) ==
  /\ InputDurable(here[o][i]) /\ here[o][i] \cap Ends = {}
  /\ \E end \in Ends : here' = [here EXCEPT ![o][i] = @ \cup {end}]
  /\ wakes' = Wake
  /\ UNCHANGED <<db, acceptor, there, sent, token, chain, timers, notified, bounds>>

-----------------------------------------------------------------------------
(* The acceptor: session_create_many and session_chat_many after accept()  *)

AcceptorGoes(o, i, stage) == acceptor' = [acceptor EXCEPT ![o][i] = stage]

\* A failure before the pointer is written takes the turn back.
AcceptorWrites(o, i) ==
  /\ acceptor[o][i] = "write"
  /\ \/ /\ there' = [there EXCEPT ![o][i] = @ \cup {"acceptor"}]
        /\ AcceptorGoes(o, i, "pointer") /\ UNCHANGED mishaps
     \/ AcceptorGoes(o, i, "done") /\ Mishap /\ UNCHANGED there
  /\ UNCHANGED <<db, here, sent, token, wakes, chain, timers, notified, late, cancels,
                 trouble, past>>

AcceptorPoints(o, i) ==
  /\ acceptor[o][i] = "pointer"
  /\ there' = [there EXCEPT ![o][i] = @ \cup {"pointer"}]
  /\ AcceptorGoes(o, i, "mark")
  /\ UNCHANGED <<db, here, sent, token, wakes, chain, timers, notified, bounds>>

\* Whether the write has reached the worker is not waited for.
AcceptorMarks(o, i) ==
  /\ acceptor[o][i] = "mark"
  /\ \/ Write(o, Durable(o, i, Acceptor)) /\ UNCHANGED <<mishaps, trouble>>
     \/ NoWrite /\ Mishap /\ trouble' = trouble \cup {"store"}
  /\ AcceptorGoes(o, i, "done")
  /\ UNCHANGED <<docs, token, wakes, chain, timers, late, cancels, past>>

\* finishOperationWhenEveryItemIsTerminal: every item was rejected
AcceptorFinishes(o) ==
  /\ \A i \in Items : acceptor[o][i] = "rejected"
  /\ Write(o, Finished(o, "result", [i \in Items |-> "failed"]))
  /\ acceptor' = [acceptor EXCEPT ![o] = [i \in Items |-> "done"]]
  /\ UNCHANGED <<docs, token, wakes, chain, timers, bounds>>

\* The acceptor's process ends, and takes with it what it has neither saved nor sent.
AcceptorEnds(o) ==
  /\ Mishap
  /\ \E i \in Items : acceptor[o][i] # "done" \/ there[o][i] # {}
  /\ acceptor' = [acceptor EXCEPT ![o] = [i \in Items |-> "done"]]
  /\ \E kept \in [Items -> Inputs] :
       /\ \A i \in Items : kept[i] \subseteq there[o][i]
       /\ there' = [there EXCEPT ![o] = kept]
  /\ UNCHANGED <<db, here, sent, token, wakes, chain, timers, notified, late, cancels,
                 trouble, missed>>
  /\ Loses

\* operation_cancel
Cancel(o) ==
  /\ Active(o) /\ cancels < MaxCancels /\ cancels' = cancels + 1
  /\ Write(o, Finished(o, "cancelled", db[o].items))
  /\ UNCHANGED <<acceptor, docs, token, wakes, chain, timers, late, mishaps, trouble, past>>

-----------------------------------------------------------------------------
(* Wakes                                                                   *)

\* dropInactiveResources, when rows is what listActive returns
DropInactive(active, t) ==
  /\ deadlineTimer' = deadlineTimer \cap active
  /\ retryTimer' = retryTimer \cap (active \X Items)
  /\ task' = [r \in DOMAIN t |->
       [t[r] EXCEPT !.aborted = @ \/ (t[r].op # NoOperation /\ t[r].op \notin active)]]

ActiveOperations == {o \in Operations : Active(o)}

StoreWatch ==
  /\ notified /\ notified' = FALSE
  /\ DropInactive(ActiveOperations, task)
  /\ wakes' = Wake
  /\ UNCHANGED <<db, acceptor, docs, token, todo, read, bounds>>

DeadlinePasses(o) ==
  /\ o \notin late /\ late' = late \cup {o}
  /\ UNCHANGED <<db, acceptor, docs, token, wakes, chain, timers, notified, mishaps, cancels,
                 trouble, past>>

DeadlineTimer(o) ==
  /\ o \in deadlineTimer /\ o \in late
  /\ deadlineTimer' = deadlineTimer \ {o}
  /\ wakes' = Wake
  /\ UNCHANGED <<db, acceptor, docs, token, chain, retryTimer, notified, bounds>>

RetryTimer(o, i) ==
  /\ <<o, i>> \in retryTimer
  /\ retryTimer' = retryTimer \ {<<o, i>>}
  /\ wakes' = Wake
  /\ UNCHANGED <<db, acceptor, docs, token, chain, deadlineTimer, notified, bounds>>

\* MATERIALIZATION_CLAIM_MS is over.  Nothing renews a claim and nothing stops
\* a writer that has outlived its own.
Lapse(o, i) ==
  /\ db[o].claim[i] # 0 /\ ~db[o].lapsed[i]
  /\ db' = [db EXCEPT ![o].lapsed[i] = TRUE]
  /\ UNCHANGED <<acceptor, docs, token, wakes, chain, timers, notified, bounds>>

-----------------------------------------------------------------------------
(* reconcile                                                               *)

StartReconcile ==
  /\ wakes > 0 /\ todo = {} /\ task["main"] = Idle
  /\ wakes' = wakes - 1
  /\ todo' = ActiveOperations
  /\ read' = [o \in Operations |-> db[o].items]
  /\ DropInactive(ActiveOperations, task)
  /\ UNCHANGED <<db, acceptor, docs, token, notified, bounds>>

\* (mutant) no deadline is armed once all inputs are written
StartOperationUnarmed(o) ==
  /\ o \in todo /\ task["main"] = Idle
  /\ todo' = todo \ {o}
  /\ deadlineTimer' = deadlineTimer \cup {p \in {o} : \E i \in Items : read[o][i] = "open"}
  /\ task' = [task EXCEPT !["main"] =
       [op |-> o, at |-> [i \in Items |-> "check"], out |-> read[o], aborted |-> FALSE]]
  /\ UNCHANGED <<db, acceptor, docs, token, wakes, read, retryTimer, notified, bounds>>

\* armDeadline, and a controller for the Operation; all items start.
StartOperation(o) ==
  /\ o \in todo /\ task["main"] = Idle
  /\ todo' = todo \ {o}
  /\ deadlineTimer' = deadlineTimer \cup {o}
  /\ task' = [task EXCEPT !["main"] =
       [op |-> o, at |-> [i \in Items |-> "check"], out |-> read[o], aborted |-> FALSE]]
  /\ UNCHANGED <<db, acceptor, docs, token, wakes, read, retryTimer, notified, bounds>>

Op(r) == task[r].op
At(r, i, stage) == Op(r) # NoOperation /\ task[r].at[i] = stage
Late(r) == Op(r) \in late
Aborted(r) == task[r].aborted
Goes(r, i, stage) == task' = [task EXCEPT ![r].at[i] = stage]
Returns(r, i, item) == task' = [task EXCEPT ![r].at[i] = "done", ![r].out[i] = item]
ReturnsAsRead(r, i) == Goes(r, i, "done")

\* (mutant) a refused claim is not tried again
ArmOwn(r, i) ==
  retryTimer' = IF db[Op(r)].claim[i] = token THEN retryTimer \cup {<<Op(r), i>>} ELSE retryTimer

\* armMaterializationRetry and armMaterializationFailureRetry
Arm(r, i) == retryTimer' = retryTimer \cup {<<Op(r), i>>}
Disarm(r, i) == retryTimer' = retryTimer \ {<<Op(r), i>>}

\* No input, and it is too late to write it: TARGET_TIMEOUT
TooLate(r, i) == Returns(r, i, "timeout") /\ Disarm(r, i)

\* The item up to its first await, the level check, and the claim.
Check(r, i) ==
  LET o == Op(r)
      item == task[r].out[i]
  IN
  /\ At(r, i, "check")
  /\ \/ /\ item \notin OpenItem \/ Aborted(r)
        /\ ReturnsAsRead(r, i) /\ NoWrite /\ UNCHANGED retryTimer
     \/ /\ item = "durable" /\ ~Aborted(r)
        /\ Goes(r, i, "history") /\ NoWrite /\ UNCHANGED retryTimer
     \/ /\ item = "open" /\ ~Aborted(r)
        /\ \/ /\ InputDurable(here[o][i])
              /\ Goes(r, i, "mark") /\ NoWrite /\ UNCHANGED retryTimer
           \/ /\ ~InputDurable(here[o][i]) /\ Late(r)
              /\ TooLate(r, i) /\ NoWrite
           \/ /\ ~InputDurable(here[o][i]) /\ ~Late(r) /\ <<o, i>> \in retryTimer
              /\ ReturnsAsRead(r, i) /\ NoWrite /\ UNCHANGED retryTimer
           \/ /\ ~InputDurable(here[o][i]) /\ ~Late(r) /\ <<o, i>> \notin retryTimer
              /\ IF Claimable(o, i)
                 THEN /\ Write(o, [db[o] EXCEPT !.claim[i] = token, !.lapsed[i] = FALSE])
                      /\ Goes(r, i, "sync") /\ UNCHANGED retryTimer
                 ELSE /\ IF db[o].items[i] = "open" THEN Arm(r, i) ELSE UNCHANGED retryTimer
                      /\ ReturnsAsRead(r, i) /\ NoWrite
  /\ missed' = missed \cup {p \in {<<o, i>>} :
                  task'[r].at[i] = "sync" /\ db[o].lapsed[i] /\ acceptor[o][i] = "write"}
  /\ UNCHANGED <<acceptor, docs, token, wakes, todo, read, deadlineTimer, late, mishaps, cancels,
                 trouble, lost>>

\* (mutant) the worker writes without having caught up
SyncIgnored(r, i) ==
  /\ At(r, i, "sync")
  /\ IF Aborted(r) THEN ReturnsAsRead(r, i) ELSE Goes(r, i, "write")
  /\ UNCHANGED <<db, acceptor, docs, token, wakes, todo, read, timers, notified, bounds>>

\* (mutant) a document that was caught up is taken to have the input
SyncSuffices(r, i) ==
  /\ At(r, i, "sync") /\ Remote
  /\ here' = [here EXCEPT ![Op(r)][i] = @ \cup Document(sent[Op(r)][i])]
  /\ Goes(r, i, "markClaimed")
  /\ UNCHANGED <<db, acceptor, there, sent, token, wakes, todo, read, timers, notified, bounds>>

\* syncRemoteDocOrThrow and the second level check.  Pushing is best effort
\* (confirmDispatchSyncedBestEffort): the acceptor's turn may be in Streams or not.
Sync(r, i) ==
  LET o == Op(r)
      seen == here'[o][i]
  IN
  /\ At(r, i, "sync")
  /\ \/ /\ Remote
        /\ \E pushed \in {{}, Document(there[o][i])} :
             sent' = [sent EXCEPT ![o][i] = @ \cup pushed]
        /\ here' = [here EXCEPT ![o][i] = @ \cup Document(sent'[o][i])]
        /\ \/ Aborted(r) /\ ReturnsAsRead(r, i) /\ UNCHANGED retryTimer
           \/ /\ ~Aborted(r) /\ InputDurable(seen)
              /\ Goes(r, i, "markClaimed") /\ UNCHANGED retryTimer
           \/ /\ ~Aborted(r) /\ ~InputDurable(seen) /\ ~Late(r)
              /\ Goes(r, i, "write") /\ UNCHANGED retryTimer
           \/ ~Aborted(r) /\ ~InputDurable(seen) /\ Late(r) /\ TooLate(r, i)
        /\ missed' = missed \cup {p \in {<<o, i>>} :
                        task'[r].at[i] = "write" /\ "acceptor" \in Everywhere(o, i) \ seen}
        /\ UNCHANGED mishaps
     \/ /\ UNCHANGED <<here, sent, missed>>
        /\ IF Remote THEN Mishap ELSE UNCHANGED mishaps
        /\ \/ Aborted(r) /\ ReturnsAsRead(r, i) /\ UNCHANGED retryTimer
           \/ ~Aborted(r) /\ ~Late(r) /\ Arm(r, i) /\ ReturnsAsRead(r, i)
           \/ /\ ~Aborted(r) /\ Late(r)
              /\ IF InputDurable(here[o][i])
                 THEN Goes(r, i, "markClaimed") /\ UNCHANGED retryTimer
                 ELSE TooLate(r, i)
  /\ UNCHANGED <<db, acceptor, there, token, wakes, todo, read, deadlineTimer,
                 notified, late, cancels, trouble, lost>>

\* materializeTarget: a failure before the pointer is written takes the turn back.
Materialize(r, i) ==
  /\ At(r, i, "write")
  /\ \/ /\ here' = [here EXCEPT ![Op(r)][i] = IF HasTurn(@) THEN @ ELSE @ \cup {"worker"}]
        /\ Goes(r, i, "pointer") /\ UNCHANGED <<retryTimer, mishaps>>
     \/ /\ Mishap /\ UNCHANGED here
        /\ IF Aborted(r) THEN UNCHANGED retryTimer ELSE Arm(r, i)
        /\ ReturnsAsRead(r, i)
  /\ UNCHANGED <<db, acceptor, there, sent, token, wakes, todo, read, deadlineTimer,
                 notified, late, cancels, trouble, past>>

\* writeDispatchPointer, a change of metadata
Point(r, i) ==
  /\ At(r, i, "pointer")
  /\ here' = [here EXCEPT ![Op(r)][i] = @ \cup {"pointer"}]
  /\ wakes' = Wake
  /\ IF Aborted(r) THEN ReturnsAsRead(r, i) ELSE Goes(r, i, "markClaimed")
  /\ UNCHANGED <<db, acceptor, there, sent, token, todo, read, timers, notified, bounds>>

Mark(r, i) ==
  /\ At(r, i, "mark") \/ At(r, i, "markClaimed")
  /\ Write(Op(r), Durable(Op(r), i, IF At(r, i, "markClaimed") THEN token ELSE 0))
  /\ Disarm(r, i)
  /\ task' = [task EXCEPT ![r].at[i] = "history", ![r].out[i] = "durable"]
  /\ UNCHANGED <<acceptor, docs, token, wakes, todo, read, deadlineTimer, bounds>>

\* What the target's history says of the turn.
History(r, i) ==
  LET ends == here[Op(r)][i] \cap Ends IN
  /\ At(r, i, "history")
  /\ \/ \E end \in ends : Returns(r, i, end)
     \/ ends = {} /\ Returns(r, i, IF Late(r) THEN "timeout" ELSE "durable")
  /\ UNCHANGED <<db, acceptor, docs, token, wakes, todo, read, timers, notified, bounds>>

Forget(o) ==
  /\ deadlineTimer' = deadlineTimer \ {o}
  /\ retryTimer' = retryTimer \ ({o} \X Items)

\* The reconciliation throws: the rest of the Operations is left to a later wake.
GiveUp(t) == todo' = {} /\ task' = t

\* A document cannot be read, or the store refuses an item's write.  The other
\* items run on; an Operation at its deadline finishes as COORDINATOR_FAILED.
ItemFails(r, i) ==
  LET o == Op(r)
      left == [task[r] EXCEPT !.at[i] = "done"]
  IN
  /\ At(r, i, "check") \/ At(r, i, "history") \/ At(r, i, "mark") \/ At(r, i, "markClaimed")
  /\ Mishap
  /\ \E what \in {"read", "store"} :
       /\ what = "read" => ~At(r, i, "mark") /\ ~At(r, i, "markClaimed")
       /\ what = "store" => ~At(r, i, "history")
       /\ trouble' = trouble \cup {what}
  /\ \/ /\ r = "stray"
        /\ task' = [task EXCEPT !["stray"] = left]
        /\ UNCHANGED <<db, notified, todo, timers>>
     \/ /\ r = "main" /\ Op("stray") = NoOperation /\ ~Late(r)
        /\ GiveUp([task EXCEPT !["main"] = Idle, !["stray"] = left])
        /\ UNCHANGED <<db, notified, timers>>
     \/ /\ r = "main" /\ Op("stray") = NoOperation /\ Late(r)
        /\ task' = [task EXCEPT !["main"] = Idle, !["stray"] = left]
        /\ Write(o, Finished(o, "error", [j \in Items |-> "failed"]))
        /\ Forget(o) /\ UNCHANGED todo
  /\ UNCHANGED <<acceptor, docs, token, wakes, read, late, cancels, past>>

AllDone(r) == Op(r) # NoOperation /\ \A i \in Items : task[r].at[i] = "done"

StrayEnds ==
  /\ AllDone("stray")
  /\ task' = [task EXCEPT !["stray"] = Idle]
  /\ UNCHANGED <<db, acceptor, docs, token, wakes, todo, read, timers, notified, bounds>>

\* (mutant) updateItems without the test of the state
FoldAnyway ==
  LET o == Op("main")
      out == task["main"].out
      next == IF \A i \in Items : out[i] \notin OpenItem
              THEN [task["main"] EXCEPT !.at = [i \in Items |-> "finish"]]
              ELSE Idle
  IN
  /\ AllDone("main")
  /\ IF out # read[o] THEN Write(o, [db[o] EXCEPT !.items = out]) ELSE NoWrite
  /\ task' = [task EXCEPT !["main"] = next]
  /\ UNCHANGED <<acceptor, docs, token, wakes, todo, read, timers, bounds>>

\* The list is stored when an item changed; when all are terminal, the
\* Operation finishes next.
Fold ==
  LET o == Op("main")
      out == task["main"].out
      next == IF \A i \in Items : out[i] \notin OpenItem
              THEN [task["main"] EXCEPT !.at = [i \in Items |-> "finish"]]
              ELSE Idle
  IN
  /\ AllDone("main")
  /\ \/ /\ IF out # read[o] /\ Active(o)
           THEN Write(o, [db[o] EXCEPT !.items = out])
           ELSE NoWrite
        /\ task' = [task EXCEPT !["main"] = next]
        /\ UNCHANGED <<todo, mishaps, trouble>>
     \/ /\ out # read[o] /\ Mishap /\ trouble' = trouble \cup {"store"}
        /\ GiveUp([task EXCEPT !["main"] = Idle]) /\ NoWrite
  /\ UNCHANGED <<acceptor, docs, token, wakes, read, timers, late, cancels, past>>

FinishOperation ==
  LET o == Op("main") IN
  /\ \A i \in Items : At("main", i, "finish")
  /\ \/ /\ Write(o, Finished(o, "result", task["main"].out))
        /\ Forget(o)
        /\ task' = [task EXCEPT !["main"] = Idle]
        /\ UNCHANGED <<todo, mishaps, trouble>>
     \/ /\ Mishap /\ trouble' = trouble \cup {"store"}
        /\ GiveUp([task EXCEPT !["main"] = Idle]) /\ NoWrite /\ UNCHANGED timers
  /\ UNCHANGED <<acceptor, docs, token, wakes, read, late, cancels, past>>

\* The worker process ends and another one starts: a new coordinator with a
\* token of its own, whose first wake is 'startup', and the documents as saved.
\* Nobody waited for that before the store was told that an input is durable.
Restart ==
  /\ Mishap
  /\ token' = token + 1 /\ wakes' = 1 /\ notified' = FALSE
  /\ todo' = {} /\ task' = [r \in DOMAIN task |-> Idle]
  /\ deadlineTimer' = {} /\ retryTimer' = {}
  /\ here' \in [Operations -> [Items -> Inputs]]
  /\ \A o \in Operations, i \in Items : here'[o][i] \in Savable(here[o][i])
  /\ UNCHANGED <<db, acceptor, there, sent, read, late, cancels, trouble, missed>>
  /\ Loses

-----------------------------------------------------------------------------
\* After accept(): some items were rejected, the others are the acceptor's.
Accepted(items) ==
  [state |-> "active", kind |-> "none", items |-> items, told |-> items,
   claim |-> [i \in Items |-> IF items[i] = "open" THEN Acceptor ELSE 0],
   lapsed |-> [i \in Items |-> FALSE]]

Init ==
  /\ \E items \in [Operations -> [Items -> {"open", "failed"}]] :
       /\ db = [o \in Operations |-> Accepted(items[o])]
       /\ acceptor = [o \in Operations |-> [i \in Items |->
            IF items[o][i] = "open" THEN "write"
            ELSE IF \A j \in Items : items[o][j] = "failed" THEN "rejected" ELSE "done"]]
       /\ read = items
  /\ here = [o \in Operations |-> [i \in Items |-> {}]]
  /\ there = here /\ sent = here
  /\ token = 2 /\ wakes = 1 /\ todo = {} /\ task = [r \in {"main", "stray"} |-> Idle]
  /\ deadlineTimer = {} /\ retryTimer = {} /\ notified = FALSE
  /\ late = {} /\ mishaps = 0 /\ cancels = 0 /\ trouble = {}
  /\ missed = {} /\ lost = {}

ItemStep(r, i) ==
  Check(r, i) \/ Sync(r, i) \/ Materialize(r, i) \/ Point(r, i) \/ Mark(r, i) \/ History(r, i)

MainStep ==
  \/ StartReconcile \/ (\E o \in Operations : StartOperation(o))
  \/ (\E i \in Items : ItemStep("main", i)) \/ Fold \/ FinishOperation
StrayStep == (\E i \in Items : ItemStep("stray", i)) \/ StrayEnds

AcceptorStep(o) ==
  \/ \E i \in Items : AcceptorWrites(o, i) \/ AcceptorPoints(o, i) \/ AcceptorMarks(o, i)
  \/ AcceptorFinishes(o)

Next ==
  \/ MainStep \/ StrayStep \/ StoreWatch \/ Restart
  \/ \E r \in DOMAIN task, i \in Items : ItemFails(r, i)
  \/ \E o \in Operations :
       \/ AcceptorStep(o) \/ AcceptorEnds(o) \/ Cancel(o) \/ DeadlinePasses(o) \/ DeadlineTimer(o)
       \/ \E i \in Items : Arrive(o, i) \/ RunEnds(o, i)
                         \/ RetryTimer(o, i) \/ Lapse(o, i)

Spec == Init /\ [][Next]_vars

\* Promises settle, timers fire, the watcher reports, claims lapse and the
\* acceptor makes progress.  Nothing is said of deadlines, targets, saves, replication.
FairSpec ==
  /\ Spec
  /\ WF_vars(MainStep) /\ WF_vars(StrayStep) /\ WF_vars(StoreWatch)
  /\ \A o \in Operations :
       /\ WF_vars(AcceptorStep(o)) /\ WF_vars(DeadlineTimer(o))
       /\ \A i \in Items : WF_vars(RetryTimer(o, i)) /\ WF_vars(Lapse(o, i))

-----------------------------------------------------------------------------
(* Properties                                                              *)

Rows ==
  [state: {"active", "finished"}, kind: {"none", "result", "error", "cancelled"},
   items: Lists, told: Lists, claim: [Items -> Tokens], lapsed: [Items -> BOOLEAN]]
TaskRecords ==
  [op: Operations \cup {NoOperation}, at: [Items -> Stages], out: Lists, aborted: BOOLEAN]

\* Every variable has its type.
TypeOK ==
  /\ db \in [Operations -> Rows]
  /\ late \subseteq Operations /\ todo \subseteq Operations /\ deadlineTimer \subseteq Operations
  /\ acceptor \in [Operations -> [Items -> {"write", "pointer", "mark", "rejected", "done"}]]
  /\ here \in [Operations -> [Items -> Inputs]] /\ there \in [Operations -> [Items -> Inputs]]
  /\ sent \in [Operations -> [Items -> Inputs]]
  /\ missed \subseteq Operations \X Items /\ lost \subseteq Operations \X Items
  /\ token \in Tokens /\ wakes \in 0..1
  /\ read \in [Operations -> Lists]
  /\ task \in [{"main", "stray"} -> TaskRecords]
  /\ retryTimer \subseteq Operations \X Items
  /\ notified \in BOOLEAN /\ mishaps \in 0..MaxMishaps
  /\ cancels \in 0..MaxCancels /\ trouble \subseteq {"read", "store"}

\* The acceptor and the worker append the user turn of an item both only when the
\* worker took the claim over from an acceptor that had outlived it and was still to
\* write, or caught up before the acceptor's turn had been pushed: over every order
\* of their writes, of lapsed claims, restarts and of item lists that are stored
\* although an item was marked durable meanwhile.
InputWrittenOnce ==
  \A o \in Operations, i \in Items :
    Authors \subseteq Everywhere(o, i) => <<o, i>> \in missed

\* The store says that an input is durable, or how its turn ended, only after the
\* turn and its pointer are written; they go only with a process that ends before
\* it has saved or sent them.
DurableIsWritten ==
  \A o \in Operations, i \in Items :
    db[o].items[i] \in {"durable", "succeeded", "cancelled"} =>
      InputDurable(Everywhere(o, i)) \/ <<o, i>> \in lost

\* A result tells the items as they are stored, and a timeout only after the
\* deadline, whoever finished the Operation and whatever list was stored last; an
\* end it tells of is in a replica, unless a process ended before it had saved that.
ResultIsTrue ==
  \A o \in Operations :
    /\ db[o].kind \in {"result", "cancelled"} => db[o].told = db[o].items
    /\ db[o].kind = "result" => \A i \in Items :
         /\ db[o].told[i] \notin OpenItem
         /\ db[o].told[i] \in {"succeeded", "cancelled"} =>
              db[o].told[i] \in Everywhere(o, i) \/ <<o, i>> \in lost
         /\ db[o].told[i] = "timeout" => o \in late

\* An Operation whose deadline has passed finishes, by its timer alone, unless
\* the store refused a write of its reconciliation.
EventuallyFinished ==
  \A o \in Operations : o \in late /\ Active(o) ~> ~Active(o) \/ "store" \in trouble

\* An input that the acceptor failed to write is written by the worker, unless
\* the deadline comes first or a reconciliation fails.
EventuallyMaterialized ==
  \A o \in Operations, i \in Items :
    db[o].items[i] = "open" ~>
      db[o].items[i] # "open" \/ ~Active(o) \/ o \in late \/ trouble # {}
=============================================================================
