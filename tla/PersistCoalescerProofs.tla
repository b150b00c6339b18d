------------------------- MODULE PersistCoalescerProofs -------------------------
(***************************************************************************)
(* What PersistCoalescer promises for any number of changes and any set of *)
(* reasons.  The three invariants are one argument: OneFlush says that the *)
(* flag `running' stands for exactly one flush, so that Scheduled may read *)
(* the flag and NothingDropped the flush.                                  *)
(***************************************************************************)
EXTENDS PersistCoalescer, TLAPS

\* At most one flush: the sequence of flushes is empty or has one element.
Flights == flights \in {<<>>} \cup {<<n>> : n \in 0..memory}

IInv == /\ memory \in Nat /\ memory <= MaxChanges /\ durable \in 0..memory /\ lost \in 0..memory
        /\ pending \subseteq Reasons /\ timer \in BOOLEAN /\ running \in BOOLEAN
        /\ phase \in {"open", "flushing", "destroying", "gone"}
        /\ running = (flights # <<>>)
        /\ Flights
        /\ Scheduled
        /\ NothingDropped

\* The end of the one flush there can be leaves none.
LEMMA SettleOne ==
  ASSUME NEW n, flights = <<n>>, NEW i \in DOMAIN flights
  PROVE  /\ i = 1 /\ flights[i] = n
         /\ SubSeq(flights, 1, i - 1) \o SubSeq(flights, i + 1, Len(flights)) = <<>>
  BY SMT

\* Opening a window keeps Scheduled, whatever the reasons and the flag are.
LEMMA PumpSchedules ==
  ASSUME NEW asked \in SUBSET Reasons, NEW run \in BOOLEAN, timer \in BOOLEAN,
         Pump(asked, run)
  PROVE  /\ pending' = asked /\ running' = run /\ timer' \in BOOLEAN
         /\ Scheduled'
         /\ timer => timer'
  BY DEF Pump, Scheduled

\* drain takes every reason or leaves all of them to the flush that is running.
LEMMA DrainTakes ==
  ASSUME IInv, Drain
  PROVE  /\ pending' \subseteq Reasons /\ running' \in BOOLEAN
         /\ running' = (flights' # <<>>)
         /\ flights' \in {<<>>} \cup {<<n>> : n \in 0..memory}
         /\ pending' # {} => running'
         /\ \/ UNCHANGED <<pending, flights>>
            \/ flights' = <<memory>>
<1>1. CASE running \/ pending = {}
  BY <1>1 DEF IInv, Flights, Drain
<1>2. CASE ~(running \/ pending = {})
  <2>1. flights = <<>>
    BY <1>2 DEF IInv
  <2>2. flights' = Append(flights, memory) /\ pending' = {} /\ running' = TRUE
    BY <1>2 DEF Drain
  <2>3. flights' = <<memory>>
    BY <2>1, <2>2
  <2>4. flights' # <<>> /\ flights' \in {<<n>> : n \in 0..memory}
    BY <2>3 DEF IInv
  <2> QED
    BY <2>2, <2>3, <2>4
<1> QED
  BY <1>1, <1>2

\* A drain that leaves memory, durable and lost alone keeps NothingDropped.
LEMMA DrainDropsNothing ==
  ASSUME IInv, Drain, UNCHANGED <<memory, durable, lost>>
  PROVE  NothingDropped'
<1>1. CASE flights' = <<memory>>
  <2>1. 1 \in DOMAIN flights' /\ flights'[1] = memory'
    BY <1>1
  <2> QED
    BY <2>1 DEF NothingDropped
<1>2. CASE UNCHANGED <<pending, flights>>
  BY <1>2 DEF IInv, NothingDropped
<1> QED
  BY <1>1, <1>2, DrainTakes

LEMMA Initially == Init => IInv
<1> SUFFICES ASSUME Init PROVE IInv
  OBVIOUS
<1>1. Flights /\ flights = <<>> /\ running = FALSE
  BY DEF Init, Flights
<1>2. Scheduled /\ NothingDropped
  BY DEF Init, Scheduled, NothingDropped
<1>3. running = (flights # <<>>)
  BY <1>1
<1>4. memory \in Nat /\ memory <= MaxChanges /\ durable \in 0..memory /\ lost \in 0..memory
  <2>1. memory = 0 /\ durable = 0 /\ lost = 0
    BY DEF Init
  <2> QED
    BY <2>1, CoalescerAssumption
<1>5. pending \subseteq Reasons /\ timer \in BOOLEAN /\ running \in BOOLEAN
  BY DEF Init
<1>6. phase \in {"open", "flushing", "destroying", "gone"}
  BY DEF Init
<1> QED
  BY <1>1, <1>2, <1>3, <1>4, <1>5, <1>6 DEF IInv

\* A flush that ends was the one under way; what came meanwhile gets a window.
LEMMA SettleKeeps ==
  ASSUME IInv, UNCHANGED memory, phase' \in {"open", "flushing", "destroying", "gone"},
         NEW i \in DOMAIN flights, NEW ok \in BOOLEAN, Settle(i, ok)
  PROVE  IInv'
<1>1. PICK n \in 0..memory : flights = <<n>>
  BY DEF IInv, Flights
<1>2. flights[i] = n
  BY <1>1, SettleOne
<1>3. flights' = <<>>
  <2>1. flights' = SubSeq(flights, 1, i - 1) \o SubSeq(flights, i + 1, Len(flights))
    BY DEF Settle
  <2> QED
    BY <1>1, <2>1, SettleOne
<1>4. /\ durable' \in 0..memory /\ lost' \in 0..memory
      /\ durable <= durable' /\ lost <= lost'
      /\ n <= durable' \/ n <= lost'
  BY <1>2 DEF IInv, Settle, Larger
<1>5. pending' = pending /\ running' = FALSE /\ timer' \in BOOLEAN /\ Scheduled'
  BY PumpSchedules DEF IInv, Settle
<1>6. NothingDropped'
  <2>1. memory <= durable \/ pending # {} \/ memory <= lost \/ n = memory
    BY <1>1, <1>2 DEF IInv, NothingDropped
  <2>2. memory <= durable' \/ pending # {} \/ memory <= lost'
    BY <1>4, <2>1 DEF IInv
  <2> QED
    BY <1>5, <2>2 DEF NothingDropped
<1> QED
  BY <1>3, <1>4, <1>5, <1>6 DEF IInv, Flights

\* IInv is preserved by every step.
LEMMA Inductive == IInv /\ [Next]_vars => IInv'
<1> SUFFICES ASSUME IInv, [Next]_vars PROVE IInv'
  OBVIOUS
<1>1. ASSUME NEW r \in Reasons, Sync(r) PROVE IInv'
  <2>1. memory' = memory + 1 /\ memory < MaxChanges /\ UNCHANGED <<durable, flights, lost, phase>>
    BY <1>1 DEF Sync
  <2>2. pending' = pending \cup {r} /\ running' = running /\ timer' \in BOOLEAN /\ Scheduled'
    BY <1>1, PumpSchedules DEF Sync, IInv
  <2>3. NothingDropped'
    BY <2>2 DEF NothingDropped
  <2>4. Flights'
    <3>1. 0..memory \subseteq 0..memory'
      BY <2>1 DEF IInv
    <3> QED
      BY <2>1, <3>1 DEF IInv, Flights
  <2>5. memory' \in Nat /\ memory' <= MaxChanges /\ durable' \in 0..memory' /\ lost' \in 0..memory'
    BY <2>1, CoalescerAssumption DEF IInv
  <2> QED
    BY <2>1, <2>2, <2>3, <2>4, <2>5 DEF IInv
<1>2. CASE Fire
  <2>1. Drain /\ timer' = FALSE /\ UNCHANGED <<memory, durable, lost, phase>>
    BY <1>2 DEF Fire
  <2>2. NothingDropped'
    BY <2>1, DrainDropsNothing
  <2>3. Scheduled'
    BY <2>1, DrainTakes DEF Scheduled
  <2> QED
    BY <2>1, <2>2, <2>3, DrainTakes DEF IInv, Flights
<1>3. CASE Flushed
  <2>1. PICK i \in DOMAIN flights, ok \in BOOLEAN : Settle(i, ok)
    BY <1>3 DEF Flushed
  <2>2. UNCHANGED memory /\ phase' \in {"open", "flushing", "destroying", "gone"}
    BY <1>3 DEF Flushed, IInv
  <2> QED
    BY <2>1, <2>2, SettleKeeps
<1>4. CASE PersistPendingChanges
  BY <1>4 DEF PersistPendingChanges, window, IInv, Flights, Scheduled, NothingDropped
<1>5. CASE CleanUp
  <2>1. /\ Drain /\ timer' = FALSE /\ UNCHANGED <<memory, durable, lost>>
        /\ phase' \in {"open", "flushing", "destroying", "gone"}
    BY <1>5 DEF CleanUp
  <2>2. NothingDropped'
    BY <2>1, DrainDropsNothing
  <2>3. Scheduled'
    BY <2>1, DrainTakes DEF Scheduled
  <2> QED
    BY <2>1, <2>2, <2>3, DrainTakes DEF IInv, Flights
<1>6. CASE Destroy
  BY <1>6 DEF Destroy, window, IInv, Flights, Scheduled, NothingDropped
<1>7. CASE UNCHANGED vars
  BY <1>7 DEF vars, IInv, Flights, Scheduled, NothingDropped
<1> QED
  BY <1>1, <1>2, <1>3, <1>4, <1>5, <1>6, <1>7 DEF Next

THEOREM Invariance == Spec => []IInv
  BY Initially, Inductive, PTL DEF Spec

\* The variables have their types, whatever the number of changes is bounded by.
THEOREM CoalescerTypes == Spec => []TypeOK
<1>1. IInv => TypeOK
  <2> SUFFICES ASSUME IInv PROVE TypeOK
    OBVIOUS
  <2>1. flights \in Seq(0..memory)
    <3>1. CASE flights = <<>>
      BY <3>1
    <3>2. ASSUME NEW n \in 0..memory, flights = <<n>> PROVE flights \in Seq(0..memory)
      BY <3>2
    <3> QED
      BY <3>1, <3>2 DEF IInv, Flights
  <2>2. memory \in 0..MaxChanges
    BY CoalescerAssumption DEF IInv
  <2> QED
    BY <2>1, <2>2 DEF IInv, TypeOK
<1> QED
  BY <1>1, Invariance, PTL

\* At every moment the flag `running' stands for exactly one coalesced flush.
THEOREM OneFlushAtATime == Spec => []OneFlush
<1>1. IInv => OneFlush
  <2> SUFFICES ASSUME IInv PROVE OneFlush
    OBVIOUS
  <2>1. CASE flights = <<>>
    BY <2>1 DEF IInv, OneFlush
  <2>2. ASSUME NEW n \in 0..memory, flights = <<n>> PROVE OneFlush
    BY <2>2 DEF IInv, OneFlush
  <2> QED
    BY <2>1, <2>2 DEF IInv, Flights
<1> QED
  BY <1>1, Invariance, PTL

\* A request always has a window of its own or a running flush that will open one.
THEOREM AlwaysScheduled == Spec => []Scheduled
<1>1. IInv => Scheduled
  BY DEF IInv
<1> QED
  BY <1>1, Invariance, PTL

\* No order of requests, windows, flushes, failures and teardown drops a change:
\* the newest one is durable, asked for, being flushed, or its flush failed.
THEOREM NothingIsDropped == Spec => []NothingDropped
<1>1. IInv => NothingDropped
  BY DEF IInv
<1> QED
  BY <1>1, Invariance, PTL
=============================================================================
