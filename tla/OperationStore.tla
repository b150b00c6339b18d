----------------------------- MODULE OperationStore -----------------------------
(***************************************************************************)
(* The durable Operation store (operation-store.ts): a SQLite file shared  *)
(* by the worker's coordinators and by every MCP process of the machine.   *)
(* Each method is one BEGIN IMMEDIATE transaction, so it is one action.    *)
(* The clients are unconstrained here: any process may call any method     *)
(* with any arguments at any time, and a call that throws (a busy          *)
(* database, an unknown key) leaves the store as it was.                   *)
(*                                                                         *)
(* Foreign keys cascade, so all tables of one Operation appear and vanish  *)
(* together: db[o] is its row of every table.                              *)
(***************************************************************************)
EXTENDS DeliveryRow

CONSTANTS
  Sessions,         \* requester sessions
  OperationIds,     \* ids chosen by the callers
  Items,            \* indexes of an Operation's items
  Commands,         \* kind + fingerprint + requester + source turn
  CreateCommands,   \* those of kind session_create or session_create_many
  Tokens,           \* materialization claim tokens
  NoToken, NoCommand,
  ClaimDuration,    \* MATERIALIZATION_CLAIM_MS, in ticks
  Retention,        \* TERMINAL_RETENTION_MS, in ticks
  CleanupInterval,  \* DAY_MS, in ticks
  MaxTime           \* bound on the clock

ASSUME StoreAssumption ==
  /\ CreateCommands \subseteq Commands
  /\ NoCommand \notin Commands
  /\ NoToken \notin Tokens
  /\ ClaimDuration \in Nat /\ Retention \in Nat
  /\ CleanupInterval \in Nat /\ MaxTime \in Nat

VARIABLES
  db,            \* one row per key
  now,           \* the clock the store reads
  lastCleanup,   \* orchestration_meta.last_cleanup_at_ms
  starts         \* history: how often a key's current delivery was started

vars == <<db, now, lastCleanup, starts>>

-----------------------------------------------------------------------------
(* Rows                                                                    *)

Operations == Sessions \X OperationIds

\* 'active' with inputDurable = false, and with inputDurable = true
OpenItem == {"active", "durable"}
ItemStates == OpenItem \cup {"succeeded", "failed", "cancelled"}

ItemLists == [Items -> ItemStates]
NoItems == [i \in Items |-> "none"]
Completions ==
  [type: {"result", "cancelled"}, items: ItemLists]
    \cup [type: {"error", "none"}, items: {NoItems}]
NoCompletion == [type |-> "none", items |-> NoItems]

Times == 0..MaxTime
MaterializationClaims == [token: Tokens \cup {NoToken}, at: Times]
NoMaterialization == [token |-> NoToken, at |-> 0]

OperationRows ==
  [state:      {"absent", "active", "finished"},
   command:    Commands \cup {NoCommand},
   items:      ItemLists,
   completion: Completions,
   delivery:   Rows,
   told:       Completions,                         \* deliveries.completion_json
   consumedAt: Times,
   claims:     [Items -> MaterializationClaims],    \* operation_item_materializations
   settled:    BOOLEAN]                             \* operation_progress_settlements

Absent ==
  [state |-> "absent", command |-> NoCommand,
   items |-> [i \in Items |-> "active"],
   completion |-> NoCompletion, delivery |-> NoDelivery,
   told |-> NoCompletion, consumedAt |-> 0,
   claims |-> [i \in Items |-> NoMaterialization], settled |-> FALSE]

Exists(o) == db[o].state # "absent"

-----------------------------------------------------------------------------
(* cleanupExpired(false): get() runs it first, accept() runs it last, the  *)
(* owner's open runs it too.                                               *)

CleanupDue == now - lastCleanup >= CleanupInterval

\* (mutant) the retention query forgets operation_progress_settlements
ExpiredUnsettled(o) ==
  /\ db[o].state = "finished"
  /\ db[o].delivery.state = "consumed"
  /\ db[o].consumedAt < now - Retention

Expired(o) ==
  /\ db[o].state = "finished"
  /\ db[o].command \in CreateCommands => db[o].settled
  /\ db[o].delivery.state = "consumed"
  /\ db[o].consumedAt < now - Retention

Removed(o) == CleanupDue /\ Expired(o)

\* The cleanup removes what it removes; row o becomes row if it is left.
CleanThenSet(o, row) ==
  /\ db' = [p \in Operations |->
              IF Removed(p) THEN Absent ELSE IF p = o THEN row ELSE db[p]]
  /\ starts' = [p \in Operations |-> IF Removed(p) THEN 0 ELSE starts[p]]
  /\ lastCleanup' = IF CleanupDue THEN now ELSE lastCleanup
  /\ now' = now

\* Row o becomes row; the method does not run the cleanup.
Set(o, row) ==
  /\ db' = [db EXCEPT ![o] = row]
  /\ UNCHANGED <<now, lastCleanup, starts>>

-----------------------------------------------------------------------------
(* Accepting, listing, opening                                             *)

\* accept(): a new key is inserted active, with a materialization claim on
\* each item whose input is still to be written when the caller asks for it.
Accept(o, command, items, token) ==
  /\ ~Exists(o)
  /\ CleanThenSet(o,
       [Absent EXCEPT
          !.state = "active", !.command = command, !.items = items,
          !.claims = [i \in Items |->
             IF token # NoToken /\ items[i] = "active"
             THEN [token |-> token, at |-> now] ELSE NoMaterialization]])

\* get(), and accept() of a known key with the same command: the cleanup is
\* all they write, and it may remove the very row asked for.  accept() with a
\* different command throws OPERATION_ID_REUSED before anything is written.
Get(o) == CleanThenSet(o, db[o])

\* The constructor with maintenance: repairTerminalDeliveries, then the
\* cleanup.  Neither touches the other's rows.
Open ==
  /\ db' = [o \in Operations |->
              CASE Removed(o) -> Absent
                [] db[o].state = "finished" /\ db[o].delivery.state = "none" ->
                     [db[o] EXCEPT !.delivery = NewDelivery, !.told = db[o].completion]
                [] OTHER -> db[o]]
  /\ starts' = [o \in Operations |-> IF Removed(o) THEN 0 ELSE starts[o]]
  /\ lastCleanup' = IF CleanupDue THEN now ELSE lastCleanup
  /\ now' = now

\* deleteRequesterSession(): the rows of one requester, whatever their state.
DeleteRequesterSession(s) ==
  /\ db' = [o \in Operations |-> IF o[1] = s THEN Absent ELSE db[o]]
  /\ starts' = [o \in Operations |-> IF o[1] = s THEN 0 ELSE starts[o]]
  /\ UNCHANGED <<now, lastCleanup>>

-----------------------------------------------------------------------------
(* Items and their materialization                                         *)

\* updateItems(): overwrites the whole list, only while the Operation is
\* active; the trailing get() cleans up.
UpdateItems(o, items) ==
  /\ Exists(o)
  /\ CleanThenSet(o, IF db[o].state = "active" THEN [db[o] EXCEPT !.items = items] ELSE db[o])

\* claimItemMaterialization(): grants the item to token unless another
\* token's claim is younger than ClaimDuration.
Claimable(o, i, token) ==
  /\ db[o].items[i] = "active"
  /\ \/ db[o].claims[i].token \in {NoToken, token}
     \/ db[o].claims[i].at + ClaimDuration <= now

\* get() runs inside the transaction: when it does not find the row any more
\* it throws, and the cleanup is rolled back with everything else.
ClaimItemMaterialization(o, i, token) ==
  /\ Exists(o) /\ ~Removed(o)
  /\ CleanThenSet(o, IF Claimable(o, i, token)
                     THEN [db[o] EXCEPT !.claims[i] = [token |-> token, at |-> now]]
                     ELSE db[o])

\* markItemInputDurable(): token = NoToken is the level check that found the
\* input written; otherwise the claim must still be the caller's.
MarkItemInputDurable(o, i, token) ==
  /\ Exists(o) /\ ~Removed(o)
  /\ CleanThenSet(o,
       IF /\ db[o].items[i] = "active"
          /\ token # NoToken => db[o].claims[i].token = token
       THEN [db[o] EXCEPT
               !.items[i] = IF db[o].state = "active" THEN "durable" ELSE @,
               !.claims[i] = NoMaterialization]
       ELSE db[o])

\* settleProgress()
SettleProgress(o) ==
  /\ db[o].state = "finished"
  /\ db[o].command \in CreateCommands
  /\ Set(o, [db[o] EXCEPT !.settled = TRUE])

-----------------------------------------------------------------------------
(* Finishing                                                               *)

\* (mutant) a second finish() overwrites the stored completion
FinishedLastWins(o, completion) ==
  LET new == db[o].delivery.state = "none"
  IN [db[o] EXCEPT
        !.state = "finished", !.completion = completion,
        !.delivery = IF new THEN NewDelivery ELSE @,
        !.told = IF new THEN completion ELSE @]

\* (mutant) INSERT OR REPLACE instead of INSERT OR IGNORE
FinishedReplaces(o, completion) ==
  LET durable == IF db[o].state = "finished" THEN db[o].completion ELSE completion
  IN [db[o] EXCEPT
        !.state = "finished", !.completion = durable,
        !.delivery = NewDelivery, !.told = durable]

\* The transaction of finish(): the first completion wins, and the delivery
\* exists as soon as the Operation is finished.
Finished(o, completion) ==
  LET durable == IF db[o].state = "finished" THEN db[o].completion ELSE completion
      new     == db[o].delivery.state = "none"
  IN [db[o] EXCEPT
        !.state = "finished",
        !.completion = durable,
        !.delivery = IF new THEN NewDelivery ELSE @,
        !.told = IF new THEN durable ELSE @]

\* finish()
Finish(o, completion) ==
  /\ Exists(o)
  /\ Set(o, Finished(o, completion))

\* cancel(): its get() cleans up; the completion carries the stored items.
Cancel(o) ==
  /\ Exists(o) /\ ~Removed(o)
  /\ CleanThenSet(o,
       IF db[o].state = "finished" THEN db[o]
       ELSE Finished(o, [type |-> "cancelled", items |-> db[o].items]))

-----------------------------------------------------------------------------
(* The delivery of a finished Operation: DeliveryRow has the transitions.  *)

SetDelivery(o, r) == Exists(o) /\ Set(o, [db[o] EXCEPT !.delivery = r])

ClaimDeliveryExecution(o, c) == SetDelivery(o, ClaimExecution(db[o].delivery, c))

PrepareClaimedDeliveryExecution(o, c) == SetDelivery(o, Prepare(db[o].delivery, c))

MarkClaimedDeliveryExecutionStarted(o, c) ==
  LET r == MarkStarted(db[o].delivery, c) IN
  /\ Exists(o)
  /\ db' = [db EXCEPT ![o].delivery = r]
  /\ starts' = IF r # db[o].delivery THEN [starts EXCEPT ![o] = @ + 1] ELSE starts
  /\ UNCHANGED <<now, lastCleanup>>

MarkClaimedDeliveryExecutionUncertain(o, c) == SetDelivery(o, MarkUncertain(db[o].delivery, c))

ClaimDeliveryFinalization(o, c, phase, exhausted) ==
  SetDelivery(o, ClaimFinalization(db[o].delivery, c, phase, exhausted))

ReleaseDeliveryClaim(o, c) == SetDelivery(o, Release(db[o].delivery, c))

ConsumeClaimedDelivery(o, c) ==
  /\ HeldBy(db[o].delivery, c)
  /\ Set(o, [db[o] EXCEPT !.delivery = Consume(@, c), !.consumedAt = now])

\* Both run over every pending delivery of the workspace.
RecoverOrphanedDeliveryClaims(boot) ==
  /\ db' = [o \in Operations |->
              [db[o] EXCEPT !.delivery = RecoverForeign(@, boot)]]
  /\ UNCHANGED <<now, lastCleanup, starts>>

AbandonDeliveryClaimsOwnedBy(boot) ==
  /\ db' = [o \in Operations |->
              [db[o] EXCEPT !.delivery = AbandonOwned(@, boot)]]
  /\ UNCHANGED <<now, lastCleanup, starts>>

Tick == now < MaxTime /\ now' = now + 1 /\ UNCHANGED <<db, lastCleanup, starts>>

-----------------------------------------------------------------------------
Init ==
  /\ db = [o \in Operations |-> Absent]
  /\ now = 0
  /\ lastCleanup = 0
  /\ starts = [o \in Operations |-> 0]

\* Batch items rejected before acceptance are stored failed.
InitialItems == [Items -> {"active", "failed"}]

ClientCompletions == {c \in Completions : c.type \in {"result", "error"}}

ItemStep(o) ==
  \/ \E items \in ItemLists : UpdateItems(o, items)
  \/ \E i \in Items, token \in Tokens : ClaimItemMaterialization(o, i, token)
  \/ \E i \in Items, token \in Tokens \cup {NoToken} : MarkItemInputDurable(o, i, token)

OperationStep(o) ==
  \/ \E command \in Commands, items \in InitialItems, token \in Tokens \cup {NoToken} :
       Accept(o, command, items, token)
  \/ Get(o)
  \/ \E completion \in ClientCompletions : Finish(o, completion)
  \/ Cancel(o)
  \/ SettleProgress(o)

DeliveryStep(o, c) ==
  \/ ClaimDeliveryExecution(o, c)
  \/ PrepareClaimedDeliveryExecution(o, c)
  \/ MarkClaimedDeliveryExecutionStarted(o, c)
  \/ MarkClaimedDeliveryExecutionUncertain(o, c)
  \/ \E phase \in {"ready", "uncertain"}, exhausted \in BOOLEAN :
       ClaimDeliveryFinalization(o, c, phase, exhausted)
  \/ ReleaseDeliveryClaim(o, c)
  \/ ConsumeClaimedDelivery(o, c)

Next ==
  \/ \E o \in Operations : OperationStep(o)
  \/ \E o \in Operations : ItemStep(o)
  \/ \E o \in Operations, c \in Claims : DeliveryStep(o, c)
  \/ \E boot \in Boots : RecoverOrphanedDeliveryClaims(boot)
  \/ \E boot \in Boots : AbandonDeliveryClaimsOwnedBy(boot)
  \/ \E s \in Sessions : DeleteRequesterSession(s)
  \/ Open
  \/ Tick

Spec == Init /\ [][Next]_vars

-----------------------------------------------------------------------------
(* Properties: they hold for arbitrary clients                             *)

\* Every row has the columns' types, and the clocks stay within the bound.
TypeOK ==
  /\ db \in [Operations -> OperationRows]
  /\ now \in Times
  /\ lastCleanup \in Times
  /\ starts \in [Operations -> Nat]

\* finish() and cancel() commit the completion and its delivery together: an
\* Operation is finished exactly when its delivery exists, and the delivery
\* tells the completion the Operation kept, however many clients raced to
\* finish it.
DeliveryTellsCompletion ==
  \A o \in Operations :
    /\ db[o].state = "finished" <=> db[o].delivery.state # "none"
    /\ db[o].told = db[o].completion
    /\ db[o].state = "finished" <=> db[o].completion # NoCompletion

\* A pending delivery on its way to the provider always has an owner that can
\* be fenced or recovered, a free or consumed one has none, and an attempt is
\* counted before its execution starts and never beyond the limit.
ClaimDiscipline ==
  \A o \in Operations :
    LET r == db[o].delivery IN
    /\ r.state = "pending" /\ r.phase \in {"claimed", "prepared", "started"}
         => r.claim # NoClaim
    /\ r.state # "pending" => r.claim = NoClaim
    /\ r.phase \in {"prepared", "started", "uncertain"} => r.attempts > 0

\* Whatever claims, releases, recoveries and shutdowns do, a delivery passes
\* the start fence in front of the provider at most once, and a delivery that
\* passed it is never offered for execution again.
StartedAtMostOnce ==
  \A o \in Operations :
    /\ starts[o] <= 1
    /\ starts[o] = 1 => db[o].delivery.phase \in {"started", "uncertain"}

\* The first completion is final: finish() and cancel() by any number of
\* clients never change the outcome of a finished Operation, and a consumed
\* delivery is not reopened as long as the Operation is stored.
OutcomeIsFinal ==
  [][\A o \in Operations :
       db[o].state = "finished" /\ db'[o].state # "absent" =>
         /\ db'[o].state = "finished"
         /\ db'[o].completion = db[o].completion
         /\ db'[o].told = db[o].told
         /\ db[o].delivery.state = "consumed" => db'[o].delivery = db[o].delivery]_vars

\* An Operation disappears only with its whole requester session, or by the
\* cleanup: then its delivery was consumed and, for a create, its progress
\* was acknowledged.  The cleanup runs inside reads and writes of other keys.
RetentionKeepsObligations ==
  [][\A o \in Operations :
       db[o].state # "absent" /\ db'[o].state = "absent" =>
         \/ /\ db[o].delivery.state = "consumed"
            /\ db[o].command \in CreateCommands => db[o].settled
         \/ DeleteRequesterSession(o[1])]_vars
=============================================================================
