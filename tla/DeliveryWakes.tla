------------------------------ MODULE DeliveryWakes ------------------------------
(***************************************************************************)
(* What wakes the delivery half of the Operation coordinator               *)
(* (operation-coordinator.ts).  A wake is no poll: the coordinator wakes   *)
(* when it starts, when the operation store's files change, and when       *)
(* something it waits for changes (the session's metadata or history, a    *)
(* retry timer).  A change during a look at a delivery is one wake, which  *)
(* only the dirty mark remembers; when nothing changes any more, nothing   *)
(* wakes the coordinator.                                                  *)
(*                                                                         *)
(* `due` is a wake that is scheduled: the reconcile chained by wake(), or  *)
(* the store watcher's timer, which batches what comes until it fires.     *)
(* Other wakes may come (Wake of OperationDelivery); none is counted on.   *)
(*                                                                         *)
(* Two looks are left out here, those that find the session's turn taken   *)
(* by the user or its history being rewritten: that the turn or the        *)
(* rewrite's barrier is released is no event, and the code counts on       *)
(* another one to come after it.                                           *)
(***************************************************************************)
EXTENDS OperationDelivery

CONSTANT
  MaxMishaps  \* bound: failing writes and blocked looks together

ASSUME WakesAssumption == MaxMishaps \in Nat

VARIABLE
  due        \* the coordinators a wake is scheduled for

allVars == <<row, shown, saved, expired, worker, boot, queue, dirty, observed,
             chain, turn, waiting, prompts, faults, blocks, userTurns, due>>

-----------------------------------------------------------------------------
\* What failed was no store write: a turn whose failure could not be recorded in
\* the session document, or the continuation note of an observed settlement.
HistoryFailed(g) ==
  /\ chain'[g] # chain[g]
  /\ \/ At(g, "idle") /\ observed[g][Head(queue[g])].note # "absent"
     \/ chain'[g].at = "release" /\ chain'[g].outcome = "none"

\* The step changes the store's files (if only by a claim that is given back at
\* once), or the change of another process does that made a store write fail
\* (SQLITE_BUSY), or what the delivery was blocked by ends after this look: the
\* session's metadata change (archived, paused), the turn that failed is recorded,
\* the configuration's retry timer fires.
Stirs ==
  \/ row' # row
  \/ faults' # faults /\ \A g \in Coordinators : ~HistoryFailed(g)
  \/ blocks' # blocks

Running == {g \in Coordinators : worker[g].state = "running"}

\* start() ends with wake('startup'); stop() and the end of the process clear what
\* was scheduled.
Scheduled ==
  due' = (IF Stirs THEN Running' ELSE (due \cap Running') \cup (Running' \ Running))

\* The two looks that are left out.
NoneInTheWay ==
  /\ ~waiting'
  /\ \A g \in Coordinators : At(g, "turn") => blocks' = blocks

\* The scheduled wake is made; it looks for pending deliveries, if there are any.
WakeScheduled(g) ==
  /\ g \in due /\ due' = due \ {g}
  /\ Wake(g) \/ (Pending = {} /\ UNCHANGED vars)

Woken == Scheduled /\ NoneInTheWay /\ faults' + blocks' <= MaxMishaps
SteadyWoken == Steady /\ Woken
StopWoken(g) == Stop(g) /\ Woken
CrashWoken == Crash /\ Woken

InitWoken == Init /\ due = {}

NextWoken ==
  \/ \E g \in Coordinators : WakeScheduled(g)
  \/ SteadyWoken \/ CrashWoken \/ \E g \in Coordinators : StopWoken(g)

-----------------------------------------------------------------------------
\* A chain that can take a step takes one (an answer of the provider included), a
\* wake that is scheduled is made, and a coordinator that is stopped or dies is
\* replaced.
FairSpec ==
  /\ InitWoken /\ [][NextWoken]_allVars
  /\ \A g \in Coordinators : WF_vars(ChainStep(g))
  /\ WF_allVars(\E g \in Coordinators : WakeScheduled(g))
  /\ WF_vars(\E g \in Coordinators : Start(g))

\* Every delivery is settled, though a wake comes only with an event: no event is
\* lost that comes while the delivery is being looked at, or its settlement fails,
\* or the coordinator is being replaced.
EventuallyConsumed ==
  \A d \in Deliveries : row[d].state = "pending" ~> row[d].state = "consumed"
=============================================================================
