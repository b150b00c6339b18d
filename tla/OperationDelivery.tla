---------------------------- MODULE OperationDelivery ----------------------------
(***************************************************************************)
(* The delivery half of the Operation coordinator                          *)
(* (operation-coordinator.ts) together with the part of the session        *)
(* execution service it drives (runVisibleSessionTurn), for the deliveries *)
(* of one requester session.                                               *)
(*                                                                         *)
(* A coordinator is an instance of a workspace message handler: stop() is  *)
(* final for it, but its delivery chain may go on for a while, beside the  *)
(* coordinator that replaces it in the same worker process.  A crash ends  *)
(* the process with all its instances; the next process has a new boot id. *)
(* The SQLite store survives both.  A session history write is a commit to *)
(* the in-memory Loro document, which the repository saves later.          *)
(*                                                                         *)
(* One chain per instance runs its deliveries one at a time; a step of the *)
(* chain is the code between two awaits.  A store write may fail           *)
(* (SQLITE_BUSY after the busy timeout), a history write may throw: both   *)
(* are counted by `faults`.                                                *)
(***************************************************************************)
EXTENDS DeliveryRow, Sequences, SequencesExt

CONSTANTS
  Deliveries,    \* 1..n, in the order of their sequence numbers
  Coordinators,  \* 1..n, in the order they are created
  MaxFaults,     \* bound: failing store and history writes
  MaxCrashes,    \* bound: process crashes
  MaxBlocks,     \* bound: looks at a session that cannot run the delivery
  MaxUserTurns,  \* bound: turns of the user in the same session
  NoId           \* no attempt id

ASSUME DeliveryAssumption ==
  /\ Deliveries \subseteq Nat \ {0} /\ IsFiniteSet(Deliveries)
  /\ Coordinators \subseteq Nat \ {0}
  /\ MaxFaults \in Nat /\ MaxCrashes \in Nat
  /\ MaxBlocks \in Nat /\ MaxUserTurns \in Nat
  /\ Boots = 0..MaxCrashes
  /\ NoId \notin ClaimIds
  /\ NoClaim \notin [boot: Boots, id: {NoId}]

VARIABLES
  row,       \* the delivery's row in the store
  shown,     \* its completion turn in the session document of the process
  saved,     \* ... and in the document's local storage
  expired,   \* the delivery was found past deadlineAt + DELIVERY_EXPIRY_GRACE_MS
  worker,    \* each coordinator's life
  boot,      \* WORKER_BOOT_ID of the current process
  queue,     \* queuedDeliveryIds, in the order of the session's chain
  dirty,     \* dirtyDeliveryIds
  observed,  \* observedDeliverySettlements
  chain,     \* where the running deliverIfRunnable stands
  turn,      \* turnRuntimeBySession
  waiting,   \* hasPendingDispatch: a user turn waits to be dispatched
  prompts,   \* history: provider prompts begun for the delivery
  faults, blocks, userTurns

store == <<row, expired>>
history == <<shown, saved>>
process == <<worker, boot>>
scheduling == <<queue, dirty>>
session == <<turn, waiting>>
budget == <<faults, blocks, userTurns>>
vars == <<row, shown, saved, expired, worker, boot, queue, dirty, observed,
          chain, turn, waiting, prompts, faults, blocks, userTurns>>

-----------------------------------------------------------------------------
Turns == {"absent", "plain", "failed", "uncertain"}   \* continuation note
Outcomes == {"handled", "cancelled", "not_started", "uncertain", "finalize"}
Settlements == [id: ClaimIds, outcome: Outcomes, note: Turns \ {"plain"}]
NoSettlement == [id |-> NoId, outcome |-> "none", note |-> "absent"]

Stages == {"idle", "lookup", "config", "turn", "claim", "prepare", "body",
           "prompt", "release", "settle", "residual", "after", "consume", "done"}
Chains == [at: Stages, d: Deliveries \cup {0}, snapshot: Rows,
           id: ClaimIds \cup {NoId}, outcome: Outcomes \cup {"none"}]
IdleChain == [at |-> "idle", d |-> 0, snapshot |-> NoDelivery,
              id |-> NoId, outcome |-> "none"]

Started(g) == worker[g].state = "running"      \* this.started
ClaimBy(g, id) == [boot |-> worker[g].boot, id |-> id]
D(g) == chain[g].d
MyClaim(g) == ClaimBy(g, chain[g].id)

\* randomUUID(): an id nothing refers to; a step that needs one is bounded by the
\* ids there are.
UsedIds ==
  {row[d].claim.id : d \in {e \in Deliveries : row[e].claim # NoClaim}}
    \cup {chain[g].id : g \in Coordinators}
    \cup {observed[g][d].id : g \in Coordinators, d \in Deliveries}
IdLeft == ClaimIds \ UsedIds # {}
FreshId == CHOOSE id \in ClaimIds : id \notin UsedIds

At(g, stage) == chain[g].at = stage
Goto(g, stage) == chain' = [chain EXCEPT ![g].at = stage]
Enter(g, stage, d, id) ==
  chain' = [chain EXCEPT ![g] = [IdleChain EXCEPT !.at = stage, !.d = d, !.id = id]]
Return(g) == Enter(g, "done", D(g), NoId)      \* deliverIfRunnable returns
GotoWith(g, stage, outcome) ==
  chain' = [chain EXCEPT ![g].at = stage, ![g].outcome = outcome]
Observe(g, d, s) == observed' = [observed EXCEPT ![g][d] = s]

Fail == faults < MaxFaults /\ faults' = faults + 1 /\ UNCHANGED <<blocks, userTurns>>
Block == blocks < MaxBlocks /\ blocks' = blocks + 1 /\ UNCHANGED <<faults, userTurns>>

\* writeCompletionTurn: planOperationCompletion adds the turn, or sets or
\* deletes the continuation note of the one that is there.
WriteTurn(d, note) ==
  /\ shown' = [shown EXCEPT ![d] = IF note = "absent" THEN "plain" ELSE note]
  /\ UNCHANGED saved

-----------------------------------------------------------------------------
(* Waking and the session's chain                                          *)

Pending == {d \in Deliveries : row[d].state = "pending"}

\* A set of deliveries by sequence number.
InOrder(S) ==
  {s \in [1..Cardinality(S) -> S] : \A i, j \in DOMAIN s : i < j => s[i] < s[j]}

\* (mutant) a wake for a delivery that is being processed is dropped
DropsMark(g) == {}

\* enqueueDelivery of one that is queued: it gets another look afterwards.
Coalesced(g) == Pending \cap ToSet(queue[g])

\* wake -> reconcile -> enqueueDelivery for each pending delivery: a queued
\* one is marked dirty instead.  Some event may wake the coordinator at any
\* time; the events it can count on are those of DeliveryWakes.
Wake(g) ==
  LET queued == ToSet(queue[g]) IN
  /\ Started(g)
  /\ Pending # {}
  /\ \E new \in InOrder(Pending \ queued) : queue' = [queue EXCEPT ![g] = @ \o new]
  /\ dirty' = [dirty EXCEPT ![g] = @ \cup Coalesced(g)]
  /\ UNCHANGED <<store, history, process, observed, chain, session, prompts, budget>>

\* What a settlement does to the row it claims (settleObservedDeliveryClaim).
Settled(r, c, outcome) ==
  CASE outcome \in {"handled", "cancelled", "finalize"} -> Consume(r, c)
    [] outcome = "uncertain" -> MarkUncertain(r, c)
    [] OTHER -> Release(r, c)

\* It stays observed as long as its claim is held.
Settle(g, d, s) ==
  LET c == ClaimBy(g, s.id)
      r == Settled(row[d], c, s.outcome)
  IN /\ row' = [row EXCEPT ![d] = r]
     /\ Observe(g, d, IF r.claim = c THEN s ELSE NoSettlement)

\* (mutant) every claim found is taken for a running one
ForgetsUnsettled(g, d) == FALSE

\* The claim is one whose end this coordinator saw and could not settle.
Unsettled(g, d) == row[d].claim = ClaimBy(g, observed[g][d].id)

\* deliverIfRunnable up to its first await: a delivery that is claimed is left
\* alone, unless the claim is one this coordinator has yet to settle.  Then the
\* row is settled, after the continuation note if that is still due; either
\* write may fail, and what is left to do stays observed.
Begin(g) ==
  /\ At(g, "idle") /\ Started(g) /\ queue[g] # <<>>
  /\ LET d == Head(queue[g])
         s == observed[g][d]
     IN
     /\ dirty' = [dirty EXCEPT ![g] = @ \ {d}]
     /\ \/ /\ ~Unsettled(g, d)
           /\ IF row[d].state = "pending" /\ row[d].claim = NoClaim
              THEN chain' = [chain EXCEPT ![g].at = "lookup", ![g].d = d, ![g].snapshot = row[d]]
              ELSE Enter(g, "done", d, NoId)
           /\ Observe(g, d, NoSettlement)
           /\ UNCHANGED <<row, history, budget>>
        \/ /\ Unsettled(g, d) /\ s.note = "absent"
           /\ Enter(g, "done", d, NoId)
           /\ \/ Settle(g, d, s) /\ UNCHANGED budget
              \/ UNCHANGED <<row, observed>> /\ Fail
           /\ UNCHANGED history
        \/ /\ Unsettled(g, d) /\ s.note # "absent"
           /\ \/ /\ Enter(g, "consume", d, s.id)
                 /\ WriteTurn(d, s.note)
                 /\ Observe(g, d, [s EXCEPT !.note = "absent"])
                 /\ UNCHANGED budget
              \/ Enter(g, "done", d, NoId) /\ UNCHANGED <<history, observed>> /\ Fail
           /\ UNCHANGED row
  /\ UNCHANGED <<expired, process, queue, session, prompts>>

\* The end of one pass of the chain's loop: once more if a wake came meanwhile.
Done(g) ==
  /\ At(g, "done")
  /\ chain' = [chain EXCEPT ![g] = IdleChain]
  /\ IF ~Started(g) THEN UNCHANGED scheduling
     ELSE /\ queue' = [queue EXCEPT ![g] =
               IF D(g) \in dirty[g] /\ row[D(g)].state = "pending" THEN @ ELSE Tail(@)]
          /\ dirty' = [dirty EXCEPT ![g] = @ \ {D(g)}]
  /\ UNCHANGED <<store, history, process, observed, session, prompts, budget>>

-----------------------------------------------------------------------------
(* deliverIfRunnable between its awaits                                    *)

\* finalizeDeliveryWithoutExecution as far as its history write: take the row
\* without executing it, then write the note ("absent": there is none).  A
\* coordinator that was stopped, or finds the row claimed or in another phase,
\* does nothing; a failing claim ends the chain, a failing history write leaves
\* the claim observed for a later wake.
Finalize(g, note, phase, exhausted) ==
  LET d == D(g)
      c == ClaimBy(g, FreshId)
      s == [id |-> FreshId, outcome |-> "finalize", note |-> note]
      granted == Started(g) /\ FinalizationGranted(row[d], c, phase, exhausted)
  IN
  /\ IdLeft
  /\ \/ /\ granted
        /\ row' = [row EXCEPT ![d] = ClaimFinalization(@, c, phase, exhausted)]
        /\ IF note = "absent" THEN UNCHANGED history ELSE WriteTurn(d, note)
        /\ Observe(g, d, [s EXCEPT !.note = "absent"])
        /\ Enter(g, "consume", d, FreshId)
        /\ UNCHANGED budget
     \/ /\ granted /\ note # "absent"
        /\ row' = [row EXCEPT ![d] = ClaimFinalization(@, c, phase, exhausted)]
        /\ Observe(g, d, s)
        /\ Return(g)
        /\ UNCHANGED history /\ Fail
     \/ /\ ~granted
        /\ Return(g)
        /\ UNCHANGED <<row, history, observed, budget>>
     \/ /\ granted
        /\ Return(g)
        /\ UNCHANGED <<row, history, observed>> /\ Fail

\* (mutant) an interrupted execution is finalized without saying so
FailUncertainSilently(g) == Finalize(g, "absent", "uncertain", FALSE)

FailUncertain(g) == Finalize(g, "uncertain", "uncertain", FALSE)
FailExhausted(g) == Finalize(g, "failed", "ready", TRUE)

\* The session is missing, archived, deleted or of another machine.
Blocked(g) ==
  /\ At(g, "lookup")
  /\ Return(g)
  /\ Block
  /\ UNCHANGED <<store, history, process, scheduling, observed, session, prompts>>

\* The decision after the session was looked up, from the row as it was
\* before that: only the clock and the session's turns are read afresh.
Decide(g) ==
  LET r == chain[g].snapshot
      late == expired'[D(g)]
      busy == turn[g] # "none" \/ waiting
  IN
  /\ At(g, "lookup")
  /\ expired' \in {expired, [expired EXCEPT ![D(g)] = TRUE]}
  /\ \/ /\ late
        /\ Finalize(g, "absent", IF r.phase = "uncertain" THEN "uncertain" ELSE "ready", FALSE)
     \/ ~late /\ r.phase = "uncertain" /\ FailUncertain(g)
     \/ /\ ~late /\ r.phase # "uncertain" /\ busy
        /\ Return(g)
        /\ UNCHANGED <<row, history, observed, budget>>
     \/ /\ ~late /\ r.phase # "uncertain" /\ ~busy /\ r.attempts >= MaxAttempts
        /\ FailExhausted(g)
     \/ /\ ~late /\ r.phase # "uncertain" /\ ~busy /\ r.attempts < MaxAttempts
        /\ Enter(g, "config", D(g), NoId)
        /\ UNCHANGED <<row, history, observed, budget>>
  /\ UNCHANGED <<process, scheduling, session, prompts>>

\* resolveFrozenConfiguration: available, gone, or not yet known.
Configure(g) ==
  /\ At(g, "config")
  /\ \/ Goto(g, "turn") /\ UNCHANGED <<row, history, observed, budget>>
     \/ Return(g) /\ UNCHANGED <<row, history, observed>> /\ Block
     \/ Finalize(g, "failed", "ready", FALSE)
  /\ UNCHANGED <<expired, process, scheduling, session, prompts>>

\* continueSession -> runVisibleSessionTurn: owns the session's turn, unless
\* another turn does or its history is being rewritten.
BeginTurn(g) ==
  /\ At(g, "turn")
  /\ \/ /\ turn[g] = "none"
        /\ turn' = [turn EXCEPT ![g] = "delivery"]
        /\ IdLeft
        /\ chain' = [chain EXCEPT ![g].at = "claim", ![g].id = FreshId]
        /\ UNCHANGED budget
     \/ turn[g] # "none" /\ Goto(g, "residual") /\ UNCHANGED <<turn, budget>>
     \/ Goto(g, "residual") /\ UNCHANGED turn /\ Block
  /\ UNCHANGED <<store, history, process, scheduling, observed, waiting, prompts>>

\* Before the claim the turn may be refused (dispatch paused), fail or be
\* stopped by the user.
FailBeforeClaim(g) ==
  /\ At(g, "claim")
  /\ \E outcome \in {"none", "handled", "cancelled"} : GotoWith(g, "release", outcome)
  /\ Block
  /\ UNCHANGED <<store, history, process, scheduling, observed, session, prompts>>

\* (mutant) the catch block forgets the claim
FailedAndKept(g, r) ==
  /\ row' = [row EXCEPT ![D(g)] = r]
  /\ GotoWith(g, "release", "handled")
  /\ UNCHANGED <<history, blocks, userTurns>>
  /\ faults < MaxFaults /\ faults' = faults + 1

\* The catch block of onTurnClaimed, r being the row so far: one write failed,
\* the claim is released, and that may fail as well.
Failed(g, r) ==
  /\ \/ /\ row' = [row EXCEPT ![D(g)] = Release(r, MyClaim(g))]
        /\ faults + 1 <= MaxFaults /\ faults' = faults + 1
     \/ /\ row' = [row EXCEPT ![D(g)] = r]
        /\ faults + 2 <= MaxFaults /\ faults' = faults + 2
  /\ GotoWith(g, "release", "handled")
  /\ UNCHANGED <<history, blocks, userTurns>>

\* onTurnClaimed as far as its history write: claim the row, write the turn;
\* a failing write gives the claim back, and every exception there ends the
\* turn as an error that was recorded: 'handled'.
Claim(g) ==
  LET d == D(g)
      c == MyClaim(g)
      claimed == ClaimExecution(row[d], c)
  IN
  /\ At(g, "claim")
  /\ \/ /\ ~Started(g) \/ ~ClaimGranted(row[d], c)
        /\ GotoWith(g, "release", "none")
        /\ UNCHANGED <<row, history, budget>>
     \/ /\ Started(g)
        /\ GotoWith(g, "release", "handled")
        /\ UNCHANGED <<row, history>> /\ Fail
     \/ /\ Started(g) /\ ClaimGranted(row[d], c)
        /\ row' = [row EXCEPT ![d] = claimed]
        /\ WriteTurn(d, "absent")
        /\ Goto(g, "prepare")
        /\ UNCHANGED budget
     \/ /\ Started(g) /\ ClaimGranted(row[d], c)
        /\ Failed(g, claimed)
  /\ UNCHANGED <<expired, process, scheduling, observed, session, prompts>>

\* onTurnClaimed after its history write.
PrepareTurn(g) ==
  LET r == row[D(g)] IN
  /\ At(g, "prepare")
  /\ \/ /\ PrepareGranted(r, MyClaim(g))
        /\ row' = [row EXCEPT ![D(g)] = Prepare(@, MyClaim(g))]
        /\ Goto(g, "body")
        /\ UNCHANGED <<history, budget>>
     \/ /\ ~PrepareGranted(r, MyClaim(g))
        /\ row' = [row EXCEPT ![D(g)] = Release(@, MyClaim(g))]
        /\ GotoWith(g, "release", "none")
        /\ UNCHANGED <<history, budget>>
     \/ Failed(g, r)
  /\ UNCHANGED <<expired, process, scheduling, observed, session, prompts>>

\* The turn ends at once, with one of these outcomes, or its failure cannot be
\* recorded in the session document, and there is no outcome.
EndTurn(g, outcomes) ==
  \/ \E outcome \in outcomes : GotoWith(g, "release", outcome) /\ UNCHANGED budget
  \/ GotoWith(g, "release", "none") /\ Fail

\* The turn ends before the provider is called: no agent or an error that is
\* recorded ("handled"), a stop by the user, an interruption.
EndBeforePrompt(g) ==
  /\ At(g, "body")
  /\ EndTurn(g, {"handled", "cancelled", "not_started"})
  /\ UNCHANGED <<store, history, process, scheduling, observed, session, prompts>>

\* (mutant) the answer of the start fence is not looked at
StartAnyway(g) == TRUE
MayStart(g) == StartGranted(row[D(g)], MyClaim(g))

\* onTurnStarted, then the provider prompt, unless the turn was stopped
\* meanwhile; a fence that fails is 'not_started', one that is lost settles
\* nothing.
StartPrompt(g) ==
  LET d == D(g) IN
  /\ At(g, "body")
  /\ \/ /\ MayStart(g)
        /\ row' = [row EXCEPT ![d] = MarkStarted(@, MyClaim(g))]
        /\ \/ Goto(g, "prompt") /\ prompts' = [prompts EXCEPT ![d] = @ + 1]
           \/ GotoWith(g, "release", "cancelled") /\ UNCHANGED prompts
        /\ UNCHANGED budget
     \/ /\ ~MayStart(g)
        /\ GotoWith(g, "release", "none")
        /\ UNCHANGED <<row, prompts, budget>>
     \/ /\ GotoWith(g, "release", "not_started")
        /\ UNCHANGED <<row, prompts>> /\ Fail
  /\ UNCHANGED <<expired, history, process, scheduling, observed, session>>

\* The provider applied a steering message of the user: the delivery is settled
\* as handled while its turn goes on.
Steer(g) ==
  /\ At(g, "prompt") /\ chain[g].outcome = "none"
  /\ LET s == [id |-> chain[g].id, outcome |-> "handled", note |-> "absent"] IN
     /\ chain' = [chain EXCEPT ![g].outcome = "handled"]
     /\ \/ Settle(g, D(g), s) /\ UNCHANGED budget
        \/ Observe(g, D(g), s) /\ UNCHANGED row /\ Fail
  /\ UNCHANGED <<expired, history, process, scheduling, session, prompts>>

\* The prompt returns, fails, is stopped or is interrupted; an applied steer
\* decided already.
EndPrompt(g) ==
  /\ At(g, "prompt")
  /\ \/ chain[g].outcome # "none" /\ Goto(g, "release") /\ UNCHANGED budget
     \/ chain[g].outcome = "none" /\ EndTurn(g, {"handled", "cancelled", "uncertain"})
  /\ UNCHANGED <<store, history, process, scheduling, observed, session, prompts>>

\* The runtime lets go of the session before the outcome is settled.
ReleaseTurn(g) ==
  /\ At(g, "release")
  /\ turn' = [turn EXCEPT ![g] = "none"]
  /\ Goto(g, IF chain[g].outcome = "none" THEN "residual" ELSE "settle")
  /\ UNCHANGED <<store, history, process, scheduling, observed, waiting, prompts, budget>>

MySettlement(g) ==
  [id |-> chain[g].id, outcome |-> chain[g].outcome, note |-> "absent"]

\* settleVisibleTurn: an exception is logged, the settlement stays observed.
SettleTurn(g) ==
  /\ At(g, "settle")
  /\ \/ Settle(g, D(g), MySettlement(g)) /\ UNCHANGED budget
     \/ Observe(g, D(g), MySettlement(g)) /\ UNCHANGED row /\ Fail
  /\ Goto(g, "residual")
  /\ UNCHANGED <<expired, history, process, scheduling, session, prompts>>

\* settleResidualClaim: settle once more, or give up a claim left without an
\* outcome.  A row found uncertain or exhausted afterwards is finalized.
Residual(g) ==
  LET d == D(g)
      c == MyClaim(g)
      r == row[d]
  IN
  /\ At(g, "residual")
  /\ \/ /\ chain[g].outcome # "none"
        /\ Settle(g, d, MySettlement(g))
        /\ Goto(g, "after")
        /\ UNCHANGED budget
     \/ /\ chain[g].outcome = "none"
        /\ row' = [row EXCEPT ![d] =
             IF HeldBy(r, c) /\ r.phase = "started" THEN MarkUncertain(r, c) ELSE Release(r, c)]
        /\ Goto(g, "after")
        /\ UNCHANGED <<observed, budget>>
     \/ /\ Return(g)
        /\ IF chain[g].outcome = "none" THEN UNCHANGED observed
           ELSE Observe(g, d, MySettlement(g))
        /\ UNCHANGED row /\ Fail
  /\ UNCHANGED <<expired, history, process, scheduling, session, prompts>>

AfterResidual(g) ==
  LET r == row[D(g)] IN
  /\ At(g, "after")
  /\ \/ r.phase = "uncertain" /\ FailUncertain(g)
     \/ /\ r.phase # "uncertain" /\ r.state = "pending" /\ r.claim = NoClaim
        /\ r.attempts >= MaxAttempts
        /\ FailExhausted(g)
     \/ /\ r.phase # "uncertain"
        /\ r.state # "pending" \/ r.claim # NoClaim \/ r.attempts < MaxAttempts
        /\ Return(g)
        /\ UNCHANGED <<row, history, observed, budget>>
  /\ UNCHANGED <<expired, process, scheduling, session, prompts>>

\* finalizeDeliveryWithoutExecution after its history write.
ConsumeFinal(g) ==
  LET d == D(g)
      s == [id |-> chain[g].id, outcome |-> "finalize", note |-> "absent"]
  IN
  /\ At(g, "consume")
  /\ \/ Settle(g, d, s) /\ UNCHANGED budget
     \/ UNCHANGED <<row, observed>> /\ Fail
  /\ Return(g)
  /\ UNCHANGED <<expired, history, process, scheduling, session, prompts>>

ChainStep(g) ==
  \/ Begin(g) \/ Done(g) \/ Decide(g) \/ Configure(g)
  \/ BeginTurn(g) \/ Claim(g) \/ PrepareTurn(g) \/ StartPrompt(g) \/ EndPrompt(g)
  \/ ReleaseTurn(g) \/ SettleTurn(g) \/ Residual(g) \/ AfterResidual(g)
  \/ ConsumeFinal(g)

-----------------------------------------------------------------------------
(* The environment                                                         *)

\* finish() of the delivery's Operation; sequence numbers follow the commits.
FinishOperation(d) ==
  /\ row[d].state = "none"
  /\ \A e \in Deliveries : e < d => row[e].state # "none"
  /\ row' = [row EXCEPT ![d] = NewDelivery]
  /\ UNCHANGED <<expired, history, process, scheduling, observed, chain, session, prompts, budget>>

\* The document repository saves the session document.
Save ==
  /\ saved # shown /\ saved' = shown
  /\ UNCHANGED <<store, shown, process, scheduling, observed, chain, session, prompts, budget>>

OfferUserTurn ==
  /\ ~waiting /\ userTurns < MaxUserTurns
  /\ waiting' = TRUE /\ userTurns' = userTurns + 1
  /\ UNCHANGED <<store, history, process, scheduling, observed, chain, turn, prompts, faults, blocks>>

BeginUserTurn(g) ==
  /\ Started(g) /\ waiting /\ turn[g] = "none"
  /\ waiting' = FALSE /\ turn' = [turn EXCEPT ![g] = "user"]
  /\ UNCHANGED <<store, history, process, scheduling, observed, chain, prompts, budget>>

EndUserTurn(g) ==
  /\ turn[g] = "user"
  /\ turn' = [turn EXCEPT ![g] = "none"]
  /\ UNCHANGED <<store, history, process, scheduling, observed, chain, waiting, prompts, budget>>

\* start() of a new coordinator: claims of other boots are recovered.
Start(g) ==
  /\ worker[g].state = "new"
  /\ \A h \in Coordinators :
       /\ worker[h].state # "running"
       /\ h < g => worker[h].state # "new"
  /\ worker' = [worker EXCEPT ![g] = [state |-> "running", boot |-> boot]]
  /\ row' = [d \in Deliveries |-> RecoverForeign(row[d], boot)]
  /\ UNCHANGED <<expired, history, boot, scheduling, observed, chain, session, prompts, budget>>

Successor == \E h \in Coordinators : worker[h].state = "new"

\* stop(): gives up the claims of this boot, which may fail, and forgets what
\* was queued and observed.  The chain that runs is not waited for.
Stop(g) ==
  /\ Started(g) /\ Successor
  /\ worker' = [worker EXCEPT ![g].state = "stopped"]
  /\ queue' = [queue EXCEPT ![g] = <<>>]
  /\ dirty' = [dirty EXCEPT ![g] = {}]
  /\ observed' = [observed EXCEPT ![g] = [d \in Deliveries |-> NoSettlement]]
  /\ \/ /\ row' = [d \in Deliveries |-> AbandonOwned(row[d], boot)]
        /\ UNCHANGED budget
     \/ UNCHANGED row /\ Fail
  /\ UNCHANGED <<expired, history, boot, chain, session, prompts>>

\* The worker process dies; what the document repository had not saved is lost.
Crash ==
  /\ boot < MaxCrashes /\ Successor
  /\ boot' = boot + 1
  /\ worker' = [g \in Coordinators |->
       IF worker[g].state = "new" THEN worker[g] ELSE [worker[g] EXCEPT !.state = "dead"]]
  /\ shown' = saved
  /\ queue' = [g \in Coordinators |-> <<>>]
  /\ dirty' = [g \in Coordinators |-> {}]
  /\ observed' = [g \in Coordinators |-> [d \in Deliveries |-> NoSettlement]]
  /\ chain' = [g \in Coordinators |-> IdleChain]
  /\ turn' = [g \in Coordinators |-> "none"]
  /\ UNCHANGED <<store, saved, waiting, prompts, budget>>

-----------------------------------------------------------------------------
Init ==
  /\ row = [d \in Deliveries |-> NoDelivery]
  /\ shown = [d \in Deliveries |-> "absent"]
  /\ saved = shown
  /\ expired = [d \in Deliveries |-> FALSE]
  /\ worker = [g \in Coordinators |-> [state |-> "new", boot |-> 0]]
  /\ boot = 0
  /\ queue = [g \in Coordinators |-> <<>>]
  /\ dirty = [g \in Coordinators |-> {}]
  /\ observed = [g \in Coordinators |-> [d \in Deliveries |-> NoSettlement]]
  /\ chain = [g \in Coordinators |-> IdleChain]
  /\ turn = [g \in Coordinators |-> "none"]
  /\ waiting = FALSE
  /\ prompts = [d \in Deliveries |-> 0]
  /\ faults = 0 /\ blocks = 0 /\ userTurns = 0

\* While no coordinator is stopped and no process dies.
Steady ==
  \/ \E g \in Coordinators :
       \/ ChainStep(g)
       \/ Blocked(g) \/ FailBeforeClaim(g) \/ EndBeforePrompt(g) \/ Steer(g)
       \/ Wake(g) \/ Start(g) \/ BeginUserTurn(g) \/ EndUserTurn(g)
  \/ \E d \in Deliveries : FinishOperation(d)
  \/ Save \/ OfferUserTurn

Next == Steady \/ (\E g \in Coordinators : Stop(g)) \/ Crash

Spec == Init /\ [][Next]_vars
SteadySpec == Init /\ [][Steady]_vars

-----------------------------------------------------------------------------
(* Properties                                                              *)

\* Every variable has its type: among others, only the settlements the
\* coordinator knows are ever observed, and a queue holds known deliveries.
TypeOK ==
  /\ row \in [Deliveries -> Rows]
  /\ shown \in [Deliveries -> Turns]
  /\ saved \in [Deliveries -> Turns]
  /\ expired \in [Deliveries -> BOOLEAN]
  /\ worker \in [Coordinators ->
       [state: {"new", "running", "stopped", "dead"}, boot: Boots]]
  /\ boot \in Boots
  /\ \A g \in Coordinators : queue[g] \in Seq(Deliveries)
  /\ dirty \in [Coordinators -> SUBSET Deliveries]
  /\ observed \in [Coordinators -> [Deliveries -> Settlements \cup {NoSettlement}]]
  /\ chain \in [Coordinators -> Chains]
  /\ turn \in [Coordinators -> {"none", "user", "delivery"}]
  /\ waiting \in BOOLEAN
  /\ prompts \in [Deliveries -> Nat]
  /\ faults \in 0..MaxFaults /\ blocks \in 0..MaxBlocks /\ userTurns \in 0..MaxUserTurns

\* The agent is prompted with a completion at most once, whatever coordinators
\* are stopped, replaced or killed between the claim and the settlement, and
\* whichever store and history writes fail.
PromptedAtMostOnce == \A d \in Deliveries : prompts[d] <= 1

\* While a running coordinator's delivery prompt is out, the store says so: the
\* row is pending, started and claimed by that attempt, until the user's
\* steering takes the turn over.
PromptHoldsClaim ==
  \A g \in Coordinators :
    Started(g) /\ At(g, "prompt") /\ chain[g].outcome = "none" =>
      HeldBy(row[D(g)], MyClaim(g)) /\ row[D(g)].phase = "started"

\* A consumed delivery that did not expire has its completion in the session
\* history.
ResultPreserved ==
  \A d \in Deliveries :
    row[d].state = "consumed" /\ ~expired[d] => shown[d] # "absent"

\* A delivery whose execution was interrupted is consumed only with a note
\* that says so, so the user knows it was not replayed.
UncertainIsTold ==
  \A d \in Deliveries :
    row[d].state = "consumed" /\ row[d].phase = "uncertain" /\ ~expired[d] =>
      shown[d] = "uncertain"

\* A claim is never stranded: it belongs to a chain that is still running or
\* to a settlement a running coordinator will retry, or the process that made
\* it is gone, or it awaits the start of a coordinator.
NoStrandedClaim ==
  \A d \in Deliveries :
    row[d].claim # NoClaim =>
      \/ \E g \in Coordinators :
           \/ ~At(g, "idle") /\ D(g) = d /\ row[d].claim = MyClaim(g)
           \/ Started(g) /\ row[d].claim = ClaimBy(g, observed[g][d].id)
      \/ row[d].claim.boot # boot /\ ~\E g \in Coordinators : Started(g)

\* The deliveries keep the promise of DeliveryContract.
Contract == INSTANCE DeliveryContract WITH
  delivery <- [d \in Deliveries |-> row[d].state],
  prompted <- [d \in Deliveries |-> prompts[d] > 0],
  told <- [d \in Deliveries |-> shown[d] # "absent" \/ expired[d]]
ImplementsContract == Contract!Spec

\* They keep it whatever is competed for, stopped and replaced, as long as no
\* crash takes back a turn that was shown and not yet saved, and no second write
\* fails (two may hide a completion, see Failed).
ContractUntilCrash ==
  Contract!Init /\ [][boot' = 0 /\ faults' <= 1 => Contract!Next]_(Contract!vars)
=============================================================================
