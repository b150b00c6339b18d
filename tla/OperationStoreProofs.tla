-------------------------- MODULE OperationStoreProofs --------------------------
(***************************************************************************)
(* Proofs about OperationStore for every set of sessions, keys, items,     *)
(* commands, boots, claim ids and tokens, every attempt limit and every    *)
(* clock bound.                                                            *)
(*                                                                         *)
(* The properties speak about one key at a time, so the inductive          *)
(* invariant is KeyInv of every key: the types, what a delivery row may    *)
(* look like (RowInv), that the delivery tells the completion, and that    *)
(* the history variable counts exactly whether the start fence was passed. *)
(***************************************************************************)
EXTENDS OperationStore, TLAPS

\* The delivery passed the start fence.
Passed(r) == r.phase \in {"started", "uncertain"}

RowInv(r) ==
  /\ r \in Rows
  /\ r.state = "none" => r = NoDelivery
  /\ r.state = "pending" /\ r.phase \in {"claimed", "prepared", "started"} => r.claim # NoClaim
  /\ r.state # "pending" => r.claim = NoClaim
  /\ r.phase \in {"prepared", "started", "uncertain"} => r.attempts > 0

Tells(row) ==
  /\ row.state = "finished" <=> row.delivery.state # "none"
  /\ row.told = row.completion
  /\ row.state = "finished" <=> row.completion # NoCompletion

KeyInv(row, n) ==
  /\ row \in OperationRows
  /\ RowInv(row.delivery)
  /\ Tells(row)
  /\ n = IF Passed(row.delivery) THEN 1 ELSE 0

IInv ==
  /\ db \in [Operations -> OperationRows]
  /\ now \in Times
  /\ lastCleanup \in Times
  /\ starts \in [Operations -> Nat]
  /\ \A o \in Operations : KeyInv(db[o], starts[o])

\* What a store method other than the start fence may do to a delivery row.
RowStep(r, q) ==
  /\ RowInv(q)
  /\ Passed(q) <=> Passed(r)
  /\ q.state = "none" <=> r.state = "none"
  /\ r.state = "consumed" => q = r

-----------------------------------------------------------------------------
(* The row operators                                                       *)

\* Claiming, preparing, releasing, finalizing and consuming keep the shape of
\* a row and never move it across the start fence.
LEMMA RowOperators ==
  ASSUME NEW r, RowInv(r), NEW c \in Claims
  PROVE  /\ RowStep(r, ClaimExecution(r, c))
         /\ RowStep(r, Prepare(r, c))
         /\ RowStep(r, MarkUncertain(r, c))
         /\ \A phase \in {"ready", "uncertain"}, exhausted \in BOOLEAN :
              RowStep(r, ClaimFinalization(r, c, phase, exhausted))
         /\ RowStep(r, Release(r, c))
         /\ RowStep(r, Consume(r, c))
<1> USE RowAssumption DEF RowInv, RowStep, Passed, Rows, Phases, HeldBy, NoDelivery
<1>1. RowStep(r, ClaimExecution(r, c))
  BY DEF ClaimExecution, ClaimGranted
<1>2. RowStep(r, Prepare(r, c))
  <2>1. CASE HeldBy(r, c) /\ r.phase = "claimed" /\ r.attempts < MaxAttempts
    <3>1. PICK n \in 0..MaxAttempts : n = r.attempts + 1 /\ n > 0
      BY <2>1
    <3>2. Prepare(r, c) = [r EXCEPT !.phase = "prepared", !.attempts = n]
      BY <2>1, <3>1 DEF Prepare
    <3>3. n > 0
      BY <3>1
    <3>4. RowStep(r, [r EXCEPT !.phase = "prepared", !.attempts = n])
      BY <2>1, <3>3
    <3> QED
      BY <3>2, <3>4
  <2>2. CASE ~(HeldBy(r, c) /\ r.phase = "claimed" /\ r.attempts < MaxAttempts)
    BY <2>2 DEF Prepare
  <2> QED
    BY <2>1, <2>2
<1>3. RowStep(r, MarkUncertain(r, c))
  BY DEF MarkUncertain
<1>4. ASSUME NEW phase \in {"ready", "uncertain"}, NEW exhausted \in BOOLEAN
      PROVE  RowStep(r, ClaimFinalization(r, c, phase, exhausted))
  BY DEF ClaimFinalization, FinalizationGranted
<1>5. RowStep(r, Release(r, c))
  BY DEF Release, Reopened
<1>6. RowStep(r, Consume(r, c))
  BY DEF Consume
<1> QED
  BY <1>1, <1>2, <1>3, <1>4, <1>5, <1>6

\* Recovery at start and abandonment at stop do the same.
LEMMA BootOperators ==
  ASSUME NEW r, RowInv(r), NEW boot
  PROVE  RowStep(r, RecoverForeign(r, boot)) /\ RowStep(r, AbandonOwned(r, boot))
BY RowAssumption
   DEF RecoverForeign, AbandonOwned, Orphan, Reopened, RowInv, RowStep, Passed, Rows,
       Phases, NoDelivery

\* The start fence: it changes a row only by taking it across.
LEMMA FenceOperator ==
  ASSUME NEW r, RowInv(r), NEW c \in Claims
  PROVE  /\ RowInv(MarkStarted(r, c))
         /\ MarkStarted(r, c).state = r.state
         /\ MarkStarted(r, c) # r => ~Passed(r) /\ Passed(MarkStarted(r, c)) /\ r.state = "pending"
BY RowAssumption
   DEF MarkStarted, RowInv, Passed, Rows, Phases, HeldBy, NoDelivery
-----------------------------------------------------------------------------
(* The rows of one key                                                     *)

LEMMA AbsentKey == KeyInv(Absent, 0)
<1>1. 0 \in Times
  BY StoreAssumption DEF Times
<1>2. NoDelivery \in Rows /\ RowInv(NoDelivery) /\ ~Passed(NoDelivery)
  BY RowAssumption DEF NoDelivery, RowInv, Rows, Phases, Passed
<1>3. NoCompletion \in Completions
  BY DEF NoCompletion, Completions
<1>4. NoMaterialization \in MaterializationClaims
  BY <1>1 DEF NoMaterialization, MaterializationClaims
<1>5. [i \in Items |-> "active"] \in ItemLists
  BY DEF ItemLists, ItemStates, OpenItem
<1>6. Absent \in OperationRows
  BY <1>1, <1>2, <1>3, <1>4, <1>5 DEF Absent, OperationRows
<1>7. Tells(Absent)
  BY DEF Tells, Absent, NoDelivery
<1> QED
  BY <1>2, <1>6, <1>7 DEF KeyInv, Absent

\* A method that leaves the delivery row and the completion alone.
LEMMA SameDelivery ==
  ASSUME NEW row, NEW n, KeyInv(row, n), NEW new \in OperationRows,
         new.state = row.state, new.delivery = row.delivery,
         new.told = row.told, new.completion = row.completion
  PROVE  KeyInv(new, n)
BY DEF KeyInv, Tells

\* A method that changes the delivery row only by a RowStep.
LEMMA DeliveryKey ==
  ASSUME NEW row, NEW n, KeyInv(row, n), NEW q, RowStep(row.delivery, q), q \in Rows
  PROVE  KeyInv([row EXCEPT !.delivery = q], n)
<1> DEFINE new == [row EXCEPT !.delivery = q]
<1>1. new \in OperationRows /\ new.delivery = q /\ new.state = row.state
      /\ new.told = row.told /\ new.completion = row.completion
  BY DEF KeyInv, OperationRows
<1> QED
  BY <1>1 DEF KeyInv, Tells, RowStep

-----------------------------------------------------------------------------
(* Writing one key, with and without the cleanup                           *)

LEMMA SetKey ==
  ASSUME IInv, NEW o \in Operations, NEW row, KeyInv(row, starts[o]), Set(o, row)
  PROVE  IInv'
BY DEF IInv, Set, KeyInv

LEMMA CleanKey ==
  ASSUME IInv, NEW o \in Operations, NEW row, KeyInv(row, starts[o]), CleanThenSet(o, row)
  PROVE  IInv'
<1>1. ASSUME NEW p \in Operations
      PROVE  KeyInv(db'[p], starts'[p]) /\ db'[p] \in OperationRows /\ starts'[p] \in Nat
  <2>1. CASE Removed(p)
    BY <2>1, AbsentKey DEF CleanThenSet, KeyInv
  <2>2. CASE ~Removed(p)
    BY <2>2 DEF CleanThenSet, IInv, KeyInv
  <2> QED
    BY <2>1, <2>2
<1>2. db' \in [Operations -> OperationRows] /\ starts' \in [Operations -> Nat]
  BY <1>1 DEF CleanThenSet
<1>3. now' \in Times /\ lastCleanup' \in Times
  BY DEF CleanThenSet, IInv
<1> QED
  BY <1>1, <1>2, <1>3 DEF IInv

\* finish() and cancel() on a stored Operation.
LEMMA FinishedKey ==
  ASSUME NEW o, NEW n, KeyInv(db[o], n), NEW completion \in Completions,
         completion # NoCompletion
  PROVE  KeyInv(Finished(o, completion), n)
<1> DEFINE durable == IF db[o].state = "finished" THEN db[o].completion ELSE completion
           new == db[o].delivery.state = "none"
           q == IF new THEN NewDelivery ELSE db[o].delivery
           told == IF new THEN durable ELSE db[o].told
           row == Finished(o, completion)
<1>1. row = [db[o] EXCEPT !.state = "finished", !.completion = durable,
                          !.delivery = q, !.told = told]
  BY DEF Finished
<1>2. RowInv(q) /\ q.state # "none" /\ (Passed(q) <=> Passed(db[o].delivery))
  BY RowAssumption DEF KeyInv, RowInv, NewDelivery, NoDelivery, Rows, Phases, Passed
<1>3. durable \in Completions /\ durable # NoCompletion
  BY DEF KeyInv, OperationRows, Tells
<1>4. told = durable
  BY DEF KeyInv, Tells
<1>5. q \in Rows
  BY <1>2 DEF RowInv
<1> HIDE DEF durable, q, told
<1>6. row \in OperationRows /\ row.state = "finished" /\ row.completion = durable
      /\ row.delivery = q /\ row.told = told
  BY <1>1, <1>3, <1>4, <1>5 DEF KeyInv, OperationRows
<1>7. n = IF Passed(q) THEN 1 ELSE 0
  BY <1>2 DEF KeyInv
<1> QED
  BY <1>2, <1>3, <1>4, <1>6, <1>7 DEF KeyInv, Tells
-----------------------------------------------------------------------------
(* Every action preserves the invariant                                    *)

LEMMA InitInv == Init => IInv
<1> SUFFICES ASSUME Init PROVE IInv
  OBVIOUS
<1>1. Absent \in OperationRows
  BY AbsentKey DEF KeyInv
<1>2. 0 \in Times
  BY StoreAssumption DEF Times
<1> QED
  BY <1>1, <1>2, AbsentKey DEF Init, IInv

LEMMA OperationStepInv ==
  ASSUME IInv, NEW o \in Operations, OperationStep(o)
  PROVE  IInv'
<1>0. KeyInv(db[o], starts[o]) /\ db[o] \in OperationRows
  BY DEF IInv
<1>1. ASSUME NEW command \in Commands, NEW items \in InitialItems,
             NEW token \in Tokens \cup {NoToken}, Accept(o, command, items, token)
      PROVE  IInv'
  <2> DEFINE claims == [i \in Items |-> IF token # NoToken /\ items[i] = "active"
                                        THEN [token |-> token, at |-> now]
                                        ELSE NoMaterialization]
             row == [Absent EXCEPT !.state = "active", !.command = command,
                                   !.items = items, !.claims = claims]
  <2>1. items \in ItemLists
    BY DEF InitialItems, ItemLists, ItemStates, OpenItem
  <2>2. claims \in [Items -> MaterializationClaims]
    BY StoreAssumption DEF MaterializationClaims, NoMaterialization, IInv, Times
  <2>3. CleanThenSet(o, row) /\ db[o].state = "absent"
    BY <1>1 DEF Accept, Exists
  <2> HIDE DEF claims
  <2>4. row \in OperationRows /\ row.state = "active" /\ row.delivery = NoDelivery
        /\ row.told = NoCompletion /\ row.completion = NoCompletion
    BY <2>1, <2>2, AbsentKey DEF KeyInv, OperationRows, Absent
  <2>5. Tells(row) /\ RowInv(row.delivery) /\ ~Passed(row.delivery)
    BY <2>4, AbsentKey DEF Tells, KeyInv, Absent, NoDelivery, Passed
  <2>6. starts[o] = 0
    BY <1>0, <2>3 DEF KeyInv, Tells, RowInv, Passed, NoDelivery
  <2>7. KeyInv(row, starts[o])
    BY <2>4, <2>5, <2>6 DEF KeyInv
  <2> QED
    BY <2>3, <2>7, CleanKey
<1>2. CASE Get(o)
  BY <1>0, <1>2, CleanKey DEF Get
<1>3. ASSUME NEW completion \in ClientCompletions, Finish(o, completion)
      PROVE  IInv'
  <2>1. completion \in Completions /\ completion # NoCompletion
    BY DEF ClientCompletions, NoCompletion
  <2> QED
    BY <1>0, <1>3, <2>1, FinishedKey, SetKey DEF Finish
<1>4. CASE Cancel(o)
  <2> DEFINE completion == [type |-> "cancelled", items |-> db[o].items]
             row == IF db[o].state = "finished" THEN db[o] ELSE Finished(o, completion)
  <2>1. completion \in Completions /\ completion # NoCompletion
    BY <1>0 DEF Completions, OperationRows, NoCompletion
  <2>2. KeyInv(row, starts[o])
    BY <1>0, <2>1, FinishedKey
  <2>3. CleanThenSet(o, row)
    BY <1>4 DEF Cancel
  <2> QED
    BY <2>2, <2>3, CleanKey
<1>5. CASE SettleProgress(o)
  <2> DEFINE row == [db[o] EXCEPT !.settled = TRUE]
  <2>1. row \in OperationRows /\ row.state = db[o].state /\ row.delivery = db[o].delivery
        /\ row.told = db[o].told /\ row.completion = db[o].completion
    BY <1>0 DEF OperationRows
  <2>2. KeyInv(row, starts[o])
    BY <1>0, <2>1, SameDelivery
  <2> QED
    BY <1>5, <2>2, SetKey DEF SettleProgress
<1> QED
  BY <1>1, <1>2, <1>3, <1>4, <1>5 DEF OperationStep

LEMMA ItemStepInv ==
  ASSUME IInv, NEW o \in Operations, ItemStep(o)
  PROVE  IInv'
<1>0. KeyInv(db[o], starts[o]) /\ db[o] \in OperationRows
  BY DEF IInv
<1>1. ASSUME NEW items \in ItemLists, UpdateItems(o, items)
      PROVE  IInv'
  <2> DEFINE row == IF db[o].state = "active" THEN [db[o] EXCEPT !.items = items] ELSE db[o]
  <2>1. row \in OperationRows /\ row.state = db[o].state /\ row.delivery = db[o].delivery
        /\ row.told = db[o].told /\ row.completion = db[o].completion
    BY <1>0 DEF OperationRows
  <2>2. KeyInv(row, starts[o])
    BY <1>0, <2>1, SameDelivery
  <2> QED
    BY <1>1, <2>2, CleanKey DEF UpdateItems
<1>2. ASSUME NEW i \in Items, NEW token \in Tokens, ClaimItemMaterialization(o, i, token)
      PROVE  IInv'
  <2> DEFINE row == IF Claimable(o, i, token)
                    THEN [db[o] EXCEPT !.claims[i] = [token |-> token, at |-> now]]
                    ELSE db[o]
  <2>1. [token |-> token, at |-> now] \in MaterializationClaims
    BY DEF MaterializationClaims, IInv
  <2>2. row \in OperationRows /\ row.state = db[o].state /\ row.delivery = db[o].delivery
        /\ row.told = db[o].told /\ row.completion = db[o].completion
    BY <1>0, <2>1 DEF OperationRows
  <2>3. KeyInv(row, starts[o])
    BY <1>0, <2>2, SameDelivery
  <2> QED
    BY <1>2, <2>3, CleanKey DEF ClaimItemMaterialization
<1>3. ASSUME NEW i \in Items, NEW token \in Tokens \cup {NoToken},
             MarkItemInputDurable(o, i, token)
      PROVE  IInv'
  <2> DEFINE fits == /\ db[o].items[i] = "active"
                     /\ token # NoToken => db[o].claims[i].token = token
             item == IF db[o].state = "active" THEN "durable" ELSE db[o].items[i]
             row == IF fits THEN [db[o] EXCEPT !.items[i] = item, !.claims[i] = NoMaterialization]
                    ELSE db[o]
  <2>1. NoMaterialization \in MaterializationClaims
    BY StoreAssumption DEF MaterializationClaims, NoMaterialization, Times
  <2>2. item \in ItemStates
    BY <1>0 DEF ItemStates, OpenItem, OperationRows, ItemLists
  <2>3. CleanThenSet(o, row)
    BY <1>3 DEF MarkItemInputDurable
  <2> HIDE DEF item, fits
  <2>4. row \in OperationRows /\ row.state = db[o].state /\ row.delivery = db[o].delivery
        /\ row.told = db[o].told /\ row.completion = db[o].completion
    BY <1>0, <2>1, <2>2 DEF OperationRows, ItemLists
  <2>5. KeyInv(row, starts[o])
    BY <1>0, <2>4, SameDelivery
  <2> QED
    BY <2>3, <2>5, CleanKey
<1> QED
  BY <1>1, <1>2, <1>3 DEF ItemStep

\* A delivery method other than the fence and the consumption.
LEMMA SetDeliveryInv ==
  ASSUME IInv, NEW o \in Operations, NEW q, RowStep(db[o].delivery, q), SetDelivery(o, q)
  PROVE  IInv'
<1>1. KeyInv(db[o], starts[o])
  BY DEF IInv
<1>2. q \in Rows
  BY DEF RowStep, RowInv
<1>3. KeyInv([db[o] EXCEPT !.delivery = q], starts[o])
  BY <1>1, <1>2, DeliveryKey
<1> QED
  BY <1>3, SetKey DEF SetDelivery

LEMMA DeliveryStepInv ==
  ASSUME IInv, NEW o \in Operations, NEW c \in Claims, DeliveryStep(o, c)
  PROVE  IInv'
<1> DEFINE r == db[o].delivery
<1>0. KeyInv(db[o], starts[o]) /\ db[o] \in OperationRows /\ RowInv(r)
  BY DEF IInv, KeyInv
<1>1. CASE ClaimDeliveryExecution(o, c)
  BY <1>0, <1>1, RowOperators, SetDeliveryInv DEF ClaimDeliveryExecution
<1>2. CASE PrepareClaimedDeliveryExecution(o, c)
  BY <1>0, <1>2, RowOperators, SetDeliveryInv DEF PrepareClaimedDeliveryExecution
<1>3. CASE MarkClaimedDeliveryExecutionStarted(o, c)
  <2> DEFINE q == MarkStarted(r, c)
  <2>1. RowInv(q) /\ q.state = r.state
        /\ (q # r => ~Passed(r) /\ Passed(q) /\ r.state = "pending")
    BY <1>0, FenceOperator
  <2>2. db' = [db EXCEPT ![o].delivery = q]
        /\ starts' = (IF q # r THEN [starts EXCEPT ![o] = @ + 1] ELSE starts)
        /\ now' = now /\ lastCleanup' = lastCleanup
    BY <1>3 DEF MarkClaimedDeliveryExecutionStarted
  <2> HIDE DEF q
  <2>3. q \in Rows
    BY <2>1 DEF RowInv
  <2>4. db'[o] = [db[o] EXCEPT !.delivery = q] /\ \A p \in Operations \ {o} : db'[p] = db[p]
    BY <2>2 DEF IInv
  <2>5. db'[o] \in OperationRows /\ db'[o].delivery = q /\ db'[o].state = db[o].state
        /\ db'[o].told = db[o].told /\ db'[o].completion = db[o].completion
    BY <1>0, <2>3, <2>4 DEF OperationRows
  <2>6. starts' \in [Operations -> Nat] /\ (\A p \in Operations \ {o} : starts'[p] = starts[p])
        /\ starts'[o] = (IF Passed(q) THEN 1 ELSE 0)
    BY <1>0, <2>1, <2>2 DEF IInv, KeyInv
  <2>7. KeyInv(db'[o], starts'[o])
    BY <1>0, <2>1, <2>5, <2>6 DEF KeyInv, Tells
  <2> QED
    BY <2>2, <2>4, <2>5, <2>6, <2>7 DEF IInv
<1>4. CASE MarkClaimedDeliveryExecutionUncertain(o, c)
  BY <1>0, <1>4, RowOperators, SetDeliveryInv DEF MarkClaimedDeliveryExecutionUncertain
<1>5. ASSUME NEW phase \in {"ready", "uncertain"}, NEW exhausted \in BOOLEAN,
             ClaimDeliveryFinalization(o, c, phase, exhausted)
      PROVE  IInv'
  <2>1. RowStep(r, ClaimFinalization(r, c, phase, exhausted))
    BY <1>0, RowOperators
  <2> QED
    BY <1>5, <2>1, SetDeliveryInv DEF ClaimDeliveryFinalization
<1>6. CASE ReleaseDeliveryClaim(o, c)
  BY <1>0, <1>6, RowOperators, SetDeliveryInv DEF ReleaseDeliveryClaim
<1>7. CASE ConsumeClaimedDelivery(o, c)
  <2> DEFINE q == Consume(r, c)
             row == [db[o] EXCEPT !.delivery = q, !.consumedAt = now]
  <2>1. RowStep(r, q) /\ q \in Rows
    BY <1>0, RowOperators DEF RowStep, RowInv
  <2>2. Set(o, row)
    BY <1>7 DEF ConsumeClaimedDelivery
  <2> HIDE DEF q
  <2>3. now \in Times
    BY DEF IInv
  <2>4. row \in OperationRows /\ row.delivery = q /\ row.state = db[o].state
        /\ row.told = db[o].told /\ row.completion = db[o].completion
    BY <1>0, <2>1, <2>3 DEF OperationRows
  <2>5. KeyInv(row, starts[o])
    BY <1>0, <2>1, <2>4 DEF KeyInv, Tells, RowStep
  <2> QED
    BY <2>2, <2>5, SetKey
<1> QED
  BY <1>1, <1>2, <1>3, <1>4, <1>5, <1>6, <1>7 DEF DeliveryStep

\* Recovery, abandonment, deletion, maintenance: all rows at once.
LEMMA AllRows ==
  ASSUME IInv, NEW f, db' = [o \in Operations |-> f[o]],
         \A o \in Operations : KeyInv(f[o], starts'[o]),
         starts' \in [Operations -> Nat], now' \in Times, lastCleanup' \in Times
  PROVE  IInv'
<1>1. \A o \in Operations : KeyInv(db'[o], starts'[o]) /\ db'[o] \in OperationRows
  BY DEF KeyInv
<1>2. db' \in [Operations -> OperationRows]
  BY <1>1
<1> QED
  BY <1>1, <1>2 DEF IInv

LEMMA BootInv ==
  ASSUME IInv, NEW boot \in Boots,
         RecoverOrphanedDeliveryClaims(boot) \/ AbandonDeliveryClaimsOwnedBy(boot)
  PROVE  IInv'
<1> DEFINE q(o) == IF RecoverOrphanedDeliveryClaims(boot)
                   THEN RecoverForeign(db[o].delivery, boot)
                   ELSE AbandonOwned(db[o].delivery, boot)
           f == [o \in Operations |-> [db[o] EXCEPT !.delivery = q(o)]]
<1>1. ASSUME NEW o \in Operations
      PROVE  KeyInv(f[o], starts[o])
  <2>1. KeyInv(db[o], starts[o]) /\ RowInv(db[o].delivery)
    BY DEF IInv, KeyInv
  <2>2. RowStep(db[o].delivery, q(o)) /\ q(o) \in Rows
    BY <2>1, BootOperators DEF RowStep, RowInv
  <2> HIDE DEF q
  <2> QED
    BY <2>1, <2>2, DeliveryKey
<1>2. db' = f /\ starts' = starts /\ now' = now /\ lastCleanup' = lastCleanup
  BY DEF RecoverOrphanedDeliveryClaims, AbandonDeliveryClaimsOwnedBy
<1> HIDE DEF f
<1>3. db' = [o \in Operations |-> f[o]]
  BY <1>2 DEF f
<1> QED
  BY <1>1, <1>2, <1>3, AllRows DEF IInv

LEMMA DeleteInv ==
  ASSUME IInv, NEW s \in Sessions, DeleteRequesterSession(s)
  PROVE  IInv'
<1> DEFINE f == [o \in Operations |-> IF o[1] = s THEN Absent ELSE db[o]]
<1>1. \A o \in Operations : KeyInv(f[o], starts'[o]) /\ starts'[o] \in Nat
  BY AbsentKey DEF IInv, DeleteRequesterSession
<1>2. db' = [o \in Operations |-> f[o]]
  BY DEF DeleteRequesterSession
<1>3. starts' \in [Operations -> Nat] /\ now' \in Times /\ lastCleanup' \in Times
  BY DEF IInv, DeleteRequesterSession
<1> HIDE DEF f
<1> QED
  BY <1>1, <1>2, <1>3, AllRows

LEMMA OpenInv == IInv /\ Open => IInv'
<1> SUFFICES ASSUME IInv, Open PROVE IInv'
  OBVIOUS
<1>1. ASSUME NEW o \in Operations
      PROVE  db[o].state = "finished" => db[o].delivery.state # "none"
  BY DEF IInv, KeyInv, Tells
<1> DEFINE f == [o \in Operations |-> IF Removed(o) THEN Absent ELSE db[o]]
<1>2. db' = [o \in Operations |-> f[o]]
  BY <1>1 DEF Open
<1>3. \A o \in Operations : KeyInv(f[o], starts'[o]) /\ starts'[o] \in Nat
  BY AbsentKey DEF IInv, Open
<1>4. starts' \in [Operations -> Nat] /\ now' \in Times /\ lastCleanup' \in Times
  BY <1>3 DEF IInv, Open
<1> HIDE DEF f
<1> QED
  BY <1>2, <1>3, <1>4, AllRows

LEMMA NextInv == IInv /\ [Next]_vars => IInv'
<1> SUFFICES ASSUME IInv, [Next]_vars PROVE IInv'
  OBVIOUS
<1>1. ASSUME NEW o \in Operations, OperationStep(o) PROVE IInv'
  BY <1>1, OperationStepInv
<1>2. ASSUME NEW o \in Operations, ItemStep(o) PROVE IInv'
  BY <1>2, ItemStepInv
<1>3. ASSUME NEW o \in Operations, NEW c \in Claims, DeliveryStep(o, c) PROVE IInv'
  BY <1>3, DeliveryStepInv
<1>4. ASSUME NEW boot \in Boots, RecoverOrphanedDeliveryClaims(boot) PROVE IInv'
  BY <1>4, BootInv
<1>5. ASSUME NEW boot \in Boots, AbandonDeliveryClaimsOwnedBy(boot) PROVE IInv'
  BY <1>5, BootInv
<1>6. ASSUME NEW s \in Sessions, DeleteRequesterSession(s) PROVE IInv'
  BY <1>6, DeleteInv
<1>7. CASE Open
  BY <1>7, OpenInv
<1>8. CASE Tick
  BY <1>8, StoreAssumption DEF Tick, IInv, Times
<1>9. CASE UNCHANGED vars
  BY <1>9 DEF vars, IInv
<1> QED
  BY <1>1, <1>2, <1>3, <1>4, <1>5, <1>6, <1>7, <1>8, <1>9 DEF Next

-----------------------------------------------------------------------------
(* Theorems                                                                *)

\* The inductive invariant holds: the store keeps every key well formed for
\* any number of clients calling any method in any order.
THEOREM Invariant == Spec => []IInv
<1> QED
  BY InitInv, NextInv, PTL DEF Spec

\* The columns of the store keep their types (OperationRowSchema and the
\* CHECK constraints of the schema).
THEOREM TypeCorrect == Spec => []TypeOK
<1>1. IInv => TypeOK
  BY DEF IInv, TypeOK
<1> QED
  BY <1>1, Invariant, PTL

\* finish() and cancel() never separate the completion from its delivery.
THEOREM CompletionDelivered == Spec => []DeliveryTellsCompletion
<1>1. IInv => DeliveryTellsCompletion
  BY DEF IInv, KeyInv, Tells, DeliveryTellsCompletion
<1> QED
  BY <1>1, Invariant, PTL

\* The claim columns and the phase always agree.
THEOREM ClaimsDisciplined == Spec => []ClaimDiscipline
<1>1. IInv => ClaimDiscipline
  BY DEF IInv, KeyInv, RowInv, ClaimDiscipline
<1> QED
  BY <1>1, Invariant, PTL

\* The start fence is passed at most once for each delivery.
THEOREM AtMostOneStart == Spec => []StartedAtMostOnce
<1>1. IInv => StartedAtMostOnce
  BY DEF IInv, KeyInv, Passed, StartedAtMostOnce
<1> QED
  BY <1>1, Invariant, PTL

-----------------------------------------------------------------------------
(* What one call may do to the row of a key, by itself or through the      *)
(* cleanup it runs: every step either keeps a row (RowKeeps) or removes it *)
(* for one of the two reasons the code knows (Gone).                       *)


\* A stored Operation stays stored, and the outcome of a finished one stays.
RowKeeps(old, new) ==
  /\ old.state # "absent" => new.state # "absent"
  /\ old.state = "finished" =>
       /\ new.state = "finished"
       /\ new.completion = old.completion
       /\ new.told = old.told
       /\ old.delivery.state = "consumed" => new.delivery = old.delivery

Gone(o) ==
  /\ db'[o] = Absent
  /\ Expired(o) \/ DeleteRequesterSession(o[1])

Kept == \A p \in Operations : RowKeeps(db[p], db'[p]) \/ Gone(p)

-----------------------------------------------------------------------------
(* Writing one key, with and without the cleanup                           *)

LEMMA SetKeeps ==
  ASSUME IInv, NEW o \in Operations, NEW row, RowKeeps(db[o], row), Set(o, row)
  PROVE  Kept
BY DEF IInv, Set, Kept, RowKeeps

LEMMA CleanKeeps ==
  ASSUME IInv, NEW o \in Operations, NEW row, RowKeeps(db[o], row), CleanThenSet(o, row)
  PROVE  Kept
<1> SUFFICES ASSUME NEW p \in Operations
             PROVE  RowKeeps(db[p], db'[p]) \/ Gone(p)
  BY DEF Kept
<1>1. CASE Removed(p)
  BY <1>1 DEF CleanThenSet, Removed, Gone
<1>2. CASE ~Removed(p) /\ p = o
  BY <1>2 DEF CleanThenSet
<1>3. CASE ~Removed(p) /\ p # o
  BY <1>3 DEF CleanThenSet, RowKeeps
<1> QED
  BY <1>1, <1>2, <1>3

\* A method that leaves the state, the delivery and the completion alone.
LEMMA SameKeeps ==
  ASSUME NEW row, NEW new, new.state = row.state, new.delivery = row.delivery,
         new.told = row.told, new.completion = row.completion
  PROVE  RowKeeps(row, new)
BY DEF RowKeeps

\* finish() and cancel(): a finished Operation has its delivery, so that
\* neither the completion nor the delivery is written again.
LEMMA FinishedKeeps ==
  ASSUME NEW o, NEW n, KeyInv(db[o], n), NEW completion
  PROVE  RowKeeps(db[o], Finished(o, completion))
BY DEF KeyInv, Tells, OperationRows, Finished, RowKeeps

\* A method that changes only the delivery row, and no consumed one.
LEMMA DeliveryKeeps ==
  ASSUME NEW row, row \in OperationRows, NEW q,
         row.delivery.state = "consumed" => q = row.delivery
  PROVE  RowKeeps(row, [row EXCEPT !.delivery = q])
BY DEF OperationRows, RowKeeps

-----------------------------------------------------------------------------
(* Every action keeps the rows                                             *)

LEMMA OperationStepKeeps ==
  ASSUME IInv, NEW o \in Operations, OperationStep(o)
  PROVE  Kept
<1>0. KeyInv(db[o], starts[o]) /\ db[o] \in OperationRows
  BY DEF IInv
<1>1. ASSUME NEW command \in Commands, NEW items \in InitialItems,
             NEW token \in Tokens \cup {NoToken}, Accept(o, command, items, token)
      PROVE  Kept
  <2>1. \A row : RowKeeps(db[o], row)
    BY <1>1 DEF Accept, Exists, RowKeeps
  <2> QED
    BY <1>1, <2>1, CleanKeeps DEF Accept
<1>2. CASE Get(o)
  BY <1>2, CleanKeeps DEF Get, RowKeeps
<1>3. ASSUME NEW completion \in ClientCompletions, Finish(o, completion)
      PROVE  Kept
  BY <1>0, <1>3, FinishedKeeps, SetKeeps DEF Finish
<1>4. CASE Cancel(o)
  <2> DEFINE completion == [type |-> "cancelled", items |-> db[o].items]
             row == IF db[o].state = "finished" THEN db[o] ELSE Finished(o, completion)
  <2>1. RowKeeps(db[o], row)
    BY <1>0, FinishedKeeps DEF RowKeeps
  <2>2. CleanThenSet(o, row)
    BY <1>4 DEF Cancel
  <2> QED
    BY <2>1, <2>2, CleanKeeps
<1>5. CASE SettleProgress(o)
  <2> DEFINE row == [db[o] EXCEPT !.settled = TRUE]
  <2>1. RowKeeps(db[o], row)
    BY <1>0, SameKeeps DEF OperationRows
  <2> QED
    BY <1>5, <2>1, SetKeeps DEF SettleProgress
<1> QED
  BY <1>1, <1>2, <1>3, <1>4, <1>5 DEF OperationStep

LEMMA ItemStepKeeps ==
  ASSUME IInv, NEW o \in Operations, ItemStep(o)
  PROVE  Kept
<1>0. db[o] \in OperationRows
  BY DEF IInv
<1>1. ASSUME NEW items \in ItemLists, UpdateItems(o, items)
      PROVE  Kept
  <2> DEFINE row == IF db[o].state = "active" THEN [db[o] EXCEPT !.items = items] ELSE db[o]
  <2>1. RowKeeps(db[o], row)
    BY <1>0, SameKeeps DEF OperationRows
  <2> QED
    BY <1>1, <2>1, CleanKeeps DEF UpdateItems
<1>2. ASSUME NEW i \in Items, NEW token \in Tokens, ClaimItemMaterialization(o, i, token)
      PROVE  Kept
  <2> DEFINE row == IF Claimable(o, i, token)
                    THEN [db[o] EXCEPT !.claims[i] = [token |-> token, at |-> now]]
                    ELSE db[o]
  <2>1. RowKeeps(db[o], row)
    BY <1>0, SameKeeps DEF OperationRows
  <2> QED
    BY <1>2, <2>1, CleanKeeps DEF ClaimItemMaterialization
<1>3. ASSUME NEW i \in Items, NEW token \in Tokens \cup {NoToken},
             MarkItemInputDurable(o, i, token)
      PROVE  Kept
  <2> DEFINE fits == /\ db[o].items[i] = "active"
                     /\ token # NoToken => db[o].claims[i].token = token
             item == IF db[o].state = "active" THEN "durable" ELSE db[o].items[i]
             row == IF fits THEN [db[o] EXCEPT !.items[i] = item, !.claims[i] = NoMaterialization]
                    ELSE db[o]
  <2>1. CleanThenSet(o, row)
    BY <1>3 DEF MarkItemInputDurable
  <2> HIDE DEF item, fits
  <2>2. row.state = db[o].state /\ row.delivery = db[o].delivery
        /\ row.told = db[o].told /\ row.completion = db[o].completion
    BY <1>0 DEF OperationRows, ItemLists
  <2>3. RowKeeps(db[o], row)
    BY <2>2, SameKeeps
  <2> QED
    BY <2>1, <2>3, CleanKeeps
<1> QED
  BY <1>1, <1>2, <1>3 DEF ItemStep

\* A delivery method other than the fence and the consumption.
LEMMA SetDeliveryKeeps ==
  ASSUME IInv, NEW o \in Operations, NEW q, RowStep(db[o].delivery, q), SetDelivery(o, q)
  PROVE  Kept
<1>1. RowKeeps(db[o], [db[o] EXCEPT !.delivery = q])
  BY DeliveryKeeps DEF IInv, RowStep
<1> QED
  BY <1>1, SetKeeps DEF SetDelivery

LEMMA DeliveryStepKeeps ==
  ASSUME IInv, NEW o \in Operations, NEW c \in Claims, DeliveryStep(o, c)
  PROVE  Kept
<1> DEFINE r == db[o].delivery
<1>0. db[o] \in OperationRows /\ RowInv(r)
  BY DEF IInv, KeyInv
<1>1. CASE ClaimDeliveryExecution(o, c)
  BY <1>0, <1>1, RowOperators, SetDeliveryKeeps DEF ClaimDeliveryExecution
<1>2. CASE PrepareClaimedDeliveryExecution(o, c)
  BY <1>0, <1>2, RowOperators, SetDeliveryKeeps DEF PrepareClaimedDeliveryExecution
<1>3. CASE MarkClaimedDeliveryExecutionStarted(o, c)
  <2> DEFINE q == MarkStarted(r, c)
  <2>1. r.state = "consumed" => q = r
    BY <1>0, FenceOperator
  <2>2. db' = [db EXCEPT ![o].delivery = q]
    BY <1>3 DEF MarkClaimedDeliveryExecutionStarted
  <2> HIDE DEF q
  <2>3. db'[o] = [db[o] EXCEPT !.delivery = q] /\ \A p \in Operations \ {o} : db'[p] = db[p]
    BY <2>2 DEF IInv
  <2>4. RowKeeps(db[o], db'[o])
    BY <1>0, <2>1, <2>3, DeliveryKeeps
  <2> QED
    BY <2>3, <2>4 DEF Kept, RowKeeps
<1>4. CASE MarkClaimedDeliveryExecutionUncertain(o, c)
  BY <1>0, <1>4, RowOperators, SetDeliveryKeeps DEF MarkClaimedDeliveryExecutionUncertain
<1>5. ASSUME NEW phase \in {"ready", "uncertain"}, NEW exhausted \in BOOLEAN,
             ClaimDeliveryFinalization(o, c, phase, exhausted)
      PROVE  Kept
  <2>1. RowStep(r, ClaimFinalization(r, c, phase, exhausted))
    BY <1>0, RowOperators
  <2> QED
    BY <1>5, <2>1, SetDeliveryKeeps DEF ClaimDeliveryFinalization
<1>6. CASE ReleaseDeliveryClaim(o, c)
  BY <1>0, <1>6, RowOperators, SetDeliveryKeeps DEF ReleaseDeliveryClaim
<1>7. CASE ConsumeClaimedDelivery(o, c)
  <2> DEFINE row == [db[o] EXCEPT !.delivery = Consume(r, c), !.consumedAt = now]
  <2>1. r.state = "pending" /\ Set(o, row)
    BY <1>7 DEF ConsumeClaimedDelivery, HeldBy
  <2>2. RowKeeps(db[o], row)
    BY <1>0, <2>1 DEF OperationRows, RowKeeps
  <2> QED
    BY <2>1, <2>2, SetKeeps
<1> QED
  BY <1>1, <1>2, <1>3, <1>4, <1>5, <1>6, <1>7 DEF DeliveryStep

LEMMA BootKeeps ==
  ASSUME IInv, NEW boot \in Boots,
         RecoverOrphanedDeliveryClaims(boot) \/ AbandonDeliveryClaimsOwnedBy(boot)
  PROVE  Kept
<1> SUFFICES ASSUME NEW o \in Operations
             PROVE  RowKeeps(db[o], db'[o])
  BY DEF Kept
<1> DEFINE q == IF RecoverOrphanedDeliveryClaims(boot)
                THEN RecoverForeign(db[o].delivery, boot)
                ELSE AbandonOwned(db[o].delivery, boot)
<1>1. db[o] \in OperationRows /\ RowInv(db[o].delivery)
  BY DEF IInv, KeyInv
<1>2. RowStep(db[o].delivery, q)
  BY <1>1, BootOperators
<1>3. db'[o] = [db[o] EXCEPT !.delivery = q]
  BY DEF RecoverOrphanedDeliveryClaims, AbandonDeliveryClaimsOwnedBy
<1> HIDE DEF q
<1> QED
  BY <1>1, <1>2, <1>3, DeliveryKeeps DEF RowStep

LEMMA DeleteKeeps ==
  ASSUME NEW s \in Sessions, DeleteRequesterSession(s)
  PROVE  Kept
<1> SUFFICES ASSUME NEW o \in Operations
             PROVE  RowKeeps(db[o], db'[o]) \/ Gone(o)
  BY DEF Kept
<1>1. CASE o[1] = s
  BY <1>1 DEF DeleteRequesterSession, Gone
<1>2. CASE o[1] # s
  BY <1>2 DEF DeleteRequesterSession, RowKeeps
<1> QED
  BY <1>1, <1>2

\* The repair of terminal deliveries finds nothing to repair.
LEMMA OpenKeeps == IInv /\ Open => Kept
<1> SUFFICES ASSUME IInv, Open, NEW o \in Operations
             PROVE  RowKeeps(db[o], db'[o]) \/ Gone(o)
  BY DEF Kept
<1>1. db[o].state = "finished" => db[o].delivery.state # "none"
  BY DEF IInv, KeyInv, Tells
<1>2. CASE Removed(o)
  BY <1>1, <1>2 DEF Open, Removed, Gone
<1>3. CASE ~Removed(o)
  <2>1. db'[o] = db[o]
    BY <1>1, <1>3 DEF Open
  <2> QED
    BY <2>1 DEF RowKeeps
<1> QED
  BY <1>2, <1>3

LEMMA NextKeeps == IInv /\ [Next]_vars => Kept
<1> SUFFICES ASSUME IInv, [Next]_vars PROVE Kept
  OBVIOUS
<1>1. ASSUME NEW o \in Operations, OperationStep(o) PROVE Kept
  BY <1>1, OperationStepKeeps
<1>2. ASSUME NEW o \in Operations, ItemStep(o) PROVE Kept
  BY <1>2, ItemStepKeeps
<1>3. ASSUME NEW o \in Operations, NEW c \in Claims, DeliveryStep(o, c) PROVE Kept
  BY <1>3, DeliveryStepKeeps
<1>4. ASSUME NEW boot \in Boots, RecoverOrphanedDeliveryClaims(boot) PROVE Kept
  BY <1>4, BootKeeps
<1>5. ASSUME NEW boot \in Boots, AbandonDeliveryClaimsOwnedBy(boot) PROVE Kept
  BY <1>5, BootKeeps
<1>6. ASSUME NEW s \in Sessions, DeleteRequesterSession(s) PROVE Kept
  BY <1>6, DeleteKeeps
<1>7. CASE Open
  BY <1>7, OpenKeeps
<1>8. CASE Tick
  BY <1>8 DEF Tick, Kept, RowKeeps
<1>9. CASE UNCHANGED vars
  BY <1>9 DEF vars, Kept, RowKeeps
<1> QED
  BY <1>1, <1>2, <1>3, <1>4, <1>5, <1>6, <1>7, <1>8, <1>9 DEF Next

-----------------------------------------------------------------------------
(* Theorems                                                                *)

\* finish() and cancel() of any number of clients leave the first completion,
\* and nothing reopens a consumed delivery.
THEOREM OutcomesFinal == Spec => OutcomeIsFinal
<1>1. ASSUME Kept, NEW o \in Operations,
             db[o].state = "finished", db'[o].state # "absent"
      PROVE  /\ db'[o].state = "finished"
             /\ db'[o].completion = db[o].completion
             /\ db'[o].told = db[o].told
             /\ db[o].delivery.state = "consumed" => db'[o].delivery = db[o].delivery
  BY <1>1 DEF Kept, RowKeeps, Gone, Absent
<1>2. IInv /\ [Next]_vars =>
        [\A o \in Operations :
           db[o].state = "finished" /\ db'[o].state # "absent" =>
             /\ db'[o].state = "finished"
             /\ db'[o].completion = db[o].completion
             /\ db'[o].told = db[o].told
             /\ db[o].delivery.state = "consumed" => db'[o].delivery = db[o].delivery]_vars
  BY <1>1, NextKeeps
<1> QED
  BY <1>2, Invariant, PTL DEF Spec, OutcomeIsFinal

\* cleanupExpired(), in whichever call it runs and for whichever keys, removes
\* no delivery that is still to be consumed and no progress still to be told.
THEOREM RetentionSafe == Spec => RetentionKeepsObligations
<1>1. ASSUME Kept, NEW o \in Operations,
             db[o].state # "absent", db'[o].state = "absent"
      PROVE  \/ /\ db[o].delivery.state = "consumed"
                /\ db[o].command \in CreateCommands => db[o].settled
             \/ DeleteRequesterSession(o[1])
  BY <1>1 DEF Kept, RowKeeps, Gone, Expired
<1>2. IInv /\ [Next]_vars =>
        [\A o \in Operations :
           db[o].state # "absent" /\ db'[o].state = "absent" =>
             \/ /\ db[o].delivery.state = "consumed"
                /\ db[o].command \in CreateCommands => db[o].settled
             \/ DeleteRequesterSession(o[1])]_vars
  BY <1>1, NextKeeps
<1> QED
  BY <1>2, Invariant, PTL DEF Spec, RetentionKeepsObligations
=============================================================================
