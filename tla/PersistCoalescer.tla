---------------------------- MODULE PersistCoalescer ----------------------------
(***************************************************************************)
(* The coalescer of the workspace's remote-sync persists                   *)
(* (apps/cli/src/lib/loro/persist-coalescer.ts) as doc.ts uses it: every   *)
(* remote sync event asks for a flush of the repository, and a burst gets  *)
(* one flush per debounce window.                                          *)
(*                                                                         *)
(* The changes of the in-memory documents are counted: a flush makes those *)
(* durable that were in memory when it began.  An action is the code       *)
(* between two awaits.                                                     *)
(***************************************************************************)
EXTENDS Integers, Sequences

CONSTANTS
  Reasons,     \* remote-doc-sync, remote-meta-sync, remote-flock-sync
  MaxChanges   \* bound: remote sync events

ASSUME CoalescerAssumption == MaxChanges \in Nat /\ Reasons # {}

VARIABLES
  memory,    \* changes received from the remote so far
  durable,   \* of these, the ones the local store has
  pending,   \* reasons since the last flush began
  timer,     \* a debounce window is open
  running,
  flights,   \* flushes under way: the changes each one persists
  lost,      \* history: changes covered by a flush that failed
  phase      \* of the workspace document: cleanUp waits for flushNow, then destroys

vars == <<memory, durable, pending, timer, running, flights, lost, phase>>
window == <<pending, timer, running, flights>>

Larger(m, n) == IF m < n THEN n ELSE m

-----------------------------------------------------------------------------
(* The class                                                               *)

\* (mutant) a request that finds a flush running waits for the next one
PumpLate(asked, run) ==
  /\ pending' = asked
  /\ timer' = (timer \/ (~running /\ asked # {}))
  /\ running' = run

\* pump, with the reasons and the flag of the moment: opens a window unless there
\* is one, or a flush whose end will open it.
Pump(asked, run) ==
  /\ pending' = asked
  /\ timer' = (timer \/ (~run /\ asked # {}))
  /\ running' = run

\* (mutant) flushNow does not look whether a flush is running
DrainAgain ==
  IF pending = {}
  THEN UNCHANGED <<pending, running, flights>>
  ELSE /\ pending' = {}
       /\ running' = TRUE
       /\ flights' = Append(flights, memory)

\* drain, up to its await: nothing while a flush is running.
Drain ==
  IF running \/ pending = {}
  THEN UNCHANGED <<pending, running, flights>>
  ELSE /\ pending' = {}
       /\ running' = TRUE
       /\ flights' = Append(flights, memory)

\* scheduleRemoteSyncPersist: the transport's callback after it changed a document.
Sync(r) ==
  /\ phase # "gone" /\ memory < MaxChanges
  /\ memory' = memory + 1
  /\ Pump(pending \cup {r}, running)
  /\ UNCHANGED <<durable, flights, lost, phase>>

\* The debounce window is over.
Fire ==
  /\ phase # "gone" /\ timer
  /\ timer' = FALSE
  /\ Drain
  /\ UNCHANGED <<memory, durable, lost, phase>>

\* (mutant) the requests that came during the flush count as flushed
FlushedAll(i, ok) ==
  /\ durable' = IF ok THEN Larger(durable, flights[i]) ELSE durable
  /\ lost' = IF ok THEN lost ELSE Larger(lost, flights[i])
  /\ flights' = SubSeq(flights, 1, i - 1) \o SubSeq(flights, i + 1, Len(flights))
  /\ Pump({}, FALSE)

\* The end of a flush; onError only logs.
Settle(i, ok) ==
  /\ durable' = IF ok THEN Larger(durable, flights[i]) ELSE durable
  /\ lost' = IF ok THEN lost ELSE Larger(lost, flights[i])
  /\ flights' = SubSeq(flights, 1, i - 1) \o SubSeq(flights, i + 1, Len(flights))
  /\ Pump(pending, FALSE)

Flushed ==
  /\ phase # "gone"
  /\ \E i \in DOMAIN flights, ok \in BOOLEAN : Settle(i, ok)
  /\ phase' = IF phase = "flushing" THEN "destroying" ELSE phase
  /\ UNCHANGED memory

-----------------------------------------------------------------------------
(* The workspace document                                                  *)

\* persistPendingChanges of a caller that needs a barrier of its own (session fork)
PersistPendingChanges ==
  /\ phase = "open" /\ durable < memory
  /\ durable' = memory
  /\ UNCHANGED <<memory, window, lost, phase>>

\* cleanUp calls flushNow, which returns at once when there is nothing to flush
\* and when a flush is running.
CleanUp ==
  /\ phase = "open"
  /\ timer' = FALSE
  /\ Drain
  /\ phase' = IF running \/ pending = {} THEN "destroying" ELSE "flushing"
  /\ UNCHANGED <<memory, durable, lost>>

\* destroyRepo; the process and its timers may go.
Destroy ==
  /\ phase = "destroying"
  /\ phase' = "gone"
  /\ UNCHANGED <<memory, durable, window, lost>>

-----------------------------------------------------------------------------
Init ==
  /\ memory = 0 /\ durable = 0 /\ lost = 0
  /\ pending = {} /\ timer = FALSE /\ running = FALSE /\ flights = <<>>
  /\ phase = "open"

Next ==
  \/ \E r \in Reasons : Sync(r)
  \/ Fire \/ Flushed
  \/ PersistPendingChanges \/ CleanUp \/ Destroy

Spec == Init /\ [][Next]_vars

\* Timers fire and flushes settle.
FairSpec == Spec /\ WF_vars(Fire) /\ WF_vars(Flushed)

-----------------------------------------------------------------------------
(* Properties                                                              *)

\* The variables have their types.
TypeOK ==
  /\ memory \in 0..MaxChanges /\ durable \in 0..memory /\ lost \in 0..memory
  /\ pending \subseteq Reasons /\ timer \in BOOLEAN /\ running \in BOOLEAN
  /\ flights \in Seq(0..memory)
  /\ phase \in {"open", "flushing", "destroying", "gone"}

\* At most one coalesced flush runs at a time, and the flag tells: the cost of a
\* busy workspace is bounded, on teardown too.
OneFlush == Len(flights) = IF running THEN 1 ELSE 0

\* A request has a window of its own or a flush whose end opens one.
Scheduled == pending # {} => timer \/ running

\* "any request that arrives while a flush is in flight is covered by the NEXT
\* flush [...] Nothing is dropped": a change that is not durable is asked for, is
\* in the running flush, or was in one that failed.
NothingDropped ==
  \/ memory <= durable
  \/ pending # {}
  \/ memory <= lost
  \/ \E i \in DOMAIN flights : flights[i] = memory

\* A change becomes durable, unless its flush fails or the workspace is torn down.
EventuallyDurable ==
  \A n \in 1..MaxChanges :
    memory >= n ~> durable >= n \/ lost >= n \/ phase # "open"
=============================================================================
