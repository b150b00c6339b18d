------------------------------ MODULE DeliveryRow ------------------------------
(***************************************************************************)
(* One row of the tables `deliveries` and `delivery_execution_state` of    *)
(* the Operation store (apps/cli/src/orchestration/operation-store.ts),    *)
(* and what each store method that touches it does to it.  Every method    *)
(* is one SQLite transaction (BEGIN IMMEDIATE), so it is a function from   *)
(* the row before to the row after; the caller learns the outcome by a     *)
(* predicate on the row before.                                            *)
(*                                                                         *)
(* `active_claim_id` and `active_claim_worker_boot_id` are always written  *)
(* together: a claim is one record of both, NoClaim when they are NULL.    *)
(***************************************************************************)
EXTENDS Integers

CONSTANTS
  Boots,        \* worker boot ids
  ClaimIds,     \* attempt ids (randomUUID)
  NoClaim,      \* both claim columns are NULL
  MaxAttempts   \* DELIVERY_MAX_ATTEMPTS

Claims == [boot: Boots, id: ClaimIds]

ASSUME RowAssumption ==
  /\ MaxAttempts \in Nat \ {0}
  /\ NoClaim \notin Claims

Phases == {"ready", "claimed", "prepared", "started", "uncertain"}

Rows == [state:    {"none", "pending", "consumed"},
         phase:    Phases,
         attempts: 0..MaxAttempts,
         claim:    Claims \cup {NoClaim}]

\* No delivery exists before the Operation finishes.
NoDelivery ==
  [state |-> "none", phase |-> "ready", attempts |-> 0, claim |-> NoClaim]

\* finish() inserts the delivery; the trigger adds its execution state.
NewDelivery ==
  [state |-> "pending", phase |-> "ready", attempts |-> 0, claim |-> NoClaim]

-----------------------------------------------------------------------------
\* The claim is held: every compare-and-set below requires this.
HeldBy(r, c) == r.state = "pending" /\ r.claim = c

\* claimDeliveryExecution answers 'claimed': a repeat by the holder, or a
\* free ready row with attempts left.
ClaimGranted(r, c) ==
  \/ HeldBy(r, c)
  \/ /\ r.state = "pending"
     /\ r.claim = NoClaim
     /\ r.phase = "ready"
     /\ r.attempts < MaxAttempts

ClaimExecution(r, c) ==
  IF ClaimGranted(r, c) /\ ~HeldBy(r, c)
  THEN [r EXCEPT !.phase = "claimed", !.claim = c]
  ELSE r

\* prepareClaimedDeliveryExecution: the attempt is counted here, once.
PrepareGranted(r, c) ==
  \/ r.claim = c /\ r.phase \in {"prepared", "started"}
  \/ HeldBy(r, c) /\ r.phase = "claimed" /\ r.attempts < MaxAttempts

Prepare(r, c) ==
  IF HeldBy(r, c) /\ r.phase = "claimed" /\ r.attempts < MaxAttempts
  THEN [r EXCEPT !.phase = "prepared", !.attempts = @ + 1]
  ELSE r

\* markClaimedDeliveryExecutionStarted: the fence in front of the provider.
StartGranted(r, c) ==
  \/ HeldBy(r, c) /\ r.phase = "prepared"
  \/ r.claim = c /\ r.phase = "started"

MarkStarted(r, c) ==
  IF HeldBy(r, c) /\ r.phase = "prepared"
  THEN [r EXCEPT !.phase = "started"]
  ELSE r

MarkUncertain(r, c) ==
  IF HeldBy(r, c) /\ r.phase = "started"
  THEN [r EXCEPT !.phase = "uncertain", !.claim = NoClaim]
  ELSE r

\* claimDeliveryFinalization: owns the row without executing it; the phase
\* is left as it is.
FinalizationGranted(r, c, phase, exhausted) ==
  \/ HeldBy(r, c)
  \/ /\ r.state = "pending"
     /\ r.claim = NoClaim
     /\ exhausted => r.attempts >= MaxAttempts
     /\ r.phase = phase

ClaimFinalization(r, c, phase, exhausted) ==
  IF FinalizationGranted(r, c, phase, exhausted) THEN [r EXCEPT !.claim = c] ELSE r

\* What a claim that is given up leaves behind.
Reopened(phase) == IF phase \in {"claimed", "prepared"} THEN "ready" ELSE phase

\* (mutant) the claim columns are cleared, the phase is not
ReleaseKeepsPhase(r, c) ==
  IF HeldBy(r, c) /\ r.phase # "started" THEN [r EXCEPT !.claim = NoClaim] ELSE r

\* releaseDeliveryClaim refuses a started row.
Release(r, c) ==
  IF HeldBy(r, c) /\ r.phase # "started"
  THEN [r EXCEPT !.phase = Reopened(@), !.claim = NoClaim]
  ELSE r

\* (mutant) the UPDATE does not compare the claim
ConsumeAnyClaim(r, c) ==
  IF r.state = "pending"
  THEN [r EXCEPT !.state = "consumed", !.claim = NoClaim]
  ELSE r

\* consumeClaimedDelivery
Consume(r, c) ==
  IF HeldBy(r, c)
  THEN [r EXCEPT !.state = "consumed", !.claim = NoClaim]
  ELSE r

\* (mutant) an interrupted execution is simply offered again
OrphanReplays(r) == [r EXCEPT !.phase = "ready", !.claim = NoClaim]

\* The common effect of recoverOrphanedDeliveryClaims and
\* abandonDeliveryClaimsOwnedBy on a row they select.
Orphan(r) ==
  [r EXCEPT !.phase = IF @ = "started" THEN "uncertain" ELSE Reopened(@),
            !.claim = NoClaim]

\* recoverOrphanedDeliveryClaims(workerBootId): claims of any other boot.
RecoverForeign(r, boot) ==
  IF r.state = "pending" /\ r.claim # NoClaim /\ r.claim.boot # boot
  THEN Orphan(r) ELSE r

\* abandonDeliveryClaimsOwnedBy(workerBootId): claims of this boot.
AbandonOwned(r, boot) ==
  IF r.state = "pending" /\ r.claim # NoClaim /\ r.claim.boot = boot
  THEN Orphan(r) ELSE r
=============================================================================
