------------------------ MODULE OperationDeliveryProofs ------------------------
(***************************************************************************)
(* What OperationDelivery promises for any number of deliveries,           *)
(* coordinators, crashes, failing writes and user turns.                   *)
(*                                                                         *)
(* A delivery is prompted at most once because a prompt passes the start   *)
(* fence of the row, and what has passed it stays spent (Spent).  The      *)
(* fence lets a repeat of the same claim pass, so it matters that nobody   *)
(* else has the claim's id (Unique) and that a chain that has not prompted *)
(* finds its own claim not started (Unstarted).  A chain outlives the stop *)
(* of its coordinator, so all of this holds of chains nobody runs any      *)
(* more; that a prompt holds its claim (PromptHoldsClaim) only holds of    *)
(* the one coordinator that runs.                                          *)
(*                                                                         *)
(* A delivery is told before it is consumed because whoever holds a claim  *)
(* has written the completion or knows the note that is due (TellInv).     *)
(* Every step of a chain is then one of DeliveryContract, or a stutter.    *)
(*                                                                         *)
(* As long as at most one write has failed no claim is stranded: a chain   *)
(* that has one is where it can give it up (Standing), and an observed     *)
(* settlement is what the one failure left (HoldInv).                      *)
(***************************************************************************)
EXTENDS OperationDelivery, FiniteSetTheorems, TLAPS

\* What the stage of a chain says about it.
Staged(k) ==
  /\ k.at = "idle" => k = IdleChain
  /\ k.at # "idle" => k.d \in Deliveries
  /\ k.at \in {"lookup", "config", "turn"} => k.id = NoId
  /\ k.at \in {"claim", "prepare", "body", "prompt", "release", "settle", "consume"} => k.id # NoId
  /\ k.at \in {"lookup", "config", "turn", "claim", "prepare", "body"} => k.outcome = "none"
  /\ k.at = "settle" => k.outcome # "none"
  /\ k.outcome # "none" => k.id # NoId

\* The attempt ids a coordinator refers to, and the ones nobody else does.
OwnIds(g) == {chain[g].id} \cup {observed[g][d].id : d \in Deliveries}
Mine(g) == OwnIds(g) \cup (ClaimIds \ UsedIds)

Unique == \A g, h \in Coordinators : g # h => OwnIds(g) \cap OwnIds(h) \subseteq {NoId}

\* The row has passed the start fence, or is past it.
Spent(r) == r.state = "consumed" \/ (r.state = "pending" /\ r.phase \in {"started", "uncertain"})

\* A chain that is on its way to its prompt does not find its claim started.
Ahead(k, r) ==
  k.at \in {"claim", "prepare", "body"} /\ r.claim # NoClaim /\ r.claim.id = k.id
    => r.phase # "started"
Unstarted == \A g \in Coordinators : Ahead(chain[g], row[D(g)])

\* What has prompted is spent.
PromptsTyped == prompts \in [Deliveries -> Nat]
PromptsSpent == \A d \in Deliveries : prompts[d] > 0 => Spent(row[d])

Workers == [state: {"new", "running", "stopped", "dead"}, boot: Boots]

\* The types of the variables Core is about.
Parts == /\ row \in [Deliveries -> Rows]
         /\ chain \in [Coordinators -> Chains]
         /\ observed \in [Coordinators -> [Deliveries -> Settlements \cup {NoSettlement}]]
         /\ worker \in [Coordinators -> Workers]

\* The chains and the rows.
Core == /\ Parts
        /\ \A g \in Coordinators : Staged(chain[g])
        /\ Unique
        /\ \A g \in Coordinators : worker[g].state = "new" => At(g, "idle")
        /\ \A g, h \in Coordinators : Started(g) /\ Started(h) => g = h
        /\ PromptsTyped /\ PromptsSpent /\ PromptedAtMostOnce
        /\ Unstarted
        /\ PromptHoldsClaim

\* The other variables.
HistoryTyped == shown \in [Deliveries -> Turns] /\ saved \in [Deliveries -> Turns]
ExpiryTyped == expired \in [Deliveries -> BOOLEAN]
SchedulingTyped == /\ queue \in [Coordinators -> Seq(Deliveries)]
                   /\ dirty \in [Coordinators -> SUBSET Deliveries]
SessionTyped == /\ turn \in [Coordinators -> {"none", "user", "delivery"}]
                /\ waiting \in BOOLEAN
BudgetTyped == faults \in 0..MaxFaults /\ blocks \in 0..MaxBlocks /\ userTurns \in 0..MaxUserTurns

\* What a running coordinator's chain is busy with is still queued.
Queued == \A g \in Coordinators : Started(g) /\ ~At(g, "idle") => queue[g] # <<>>

Rest == /\ HistoryTyped /\ ExpiryTyped /\ SchedulingTyped /\ SessionTyped /\ BudgetTyped
        /\ boot \in Boots
        /\ Queued

\* The inductive invariant.
IInv == Core /\ Rest

-----------------------------------------------------------------------------
(* Rows                                                                    *)

\* What a store call with claim c may do to a row, marking it started apart.
Touch(r, s, c) ==
  \/ s = r
  \/ c \in Claims /\ s \in {ClaimExecution(r, c), Release(ClaimExecution(r, c), c)}
  \/ \E phase \in Phases, exhausted \in BOOLEAN :
       c \in Claims /\ s = ClaimFinalization(r, c, phase, exhausted)
  \/ s \in {Prepare(r, c), Release(r, c), MarkUncertain(r, c), Consume(r, c)}

\* It respects the claim of another, starts nothing and unspends nothing.
LEMMA TouchFacts ==
  ASSUME NEW r \in Rows, NEW s, NEW c, Touch(r, s, c)
  PROVE  /\ s \in Rows
         /\ r.claim \notin {NoClaim, c} => s = r
         /\ s.claim \in {r.claim, NoClaim, c}
         /\ s.phase = "started" => r.phase = "started"
         /\ Spent(r) => Spent(s)
<1>1. CASE s = r
  BY <1>1
<1>2. ASSUME c \in Claims, s = ClaimExecution(r, c) \/ s = Release(ClaimExecution(r, c), c)
      PROVE  /\ s \in Rows
             /\ r.claim \notin {NoClaim, c} => s = r
             /\ s.claim \in {r.claim, NoClaim, c}
             /\ s.phase = "started" => r.phase = "started"
             /\ Spent(r) => Spent(s)
  BY <1>2 DEF ClaimExecution, ClaimGranted, Release, Reopened, HeldBy, Rows, Phases, Claims, Spent
<1>3. ASSUME NEW phase \in Phases, NEW exhausted \in BOOLEAN, c \in Claims,
             s = ClaimFinalization(r, c, phase, exhausted)
      PROVE  /\ s \in Rows
             /\ r.claim \notin {NoClaim, c} => s = r
             /\ s.claim \in {r.claim, NoClaim, c}
             /\ s.phase = "started" => r.phase = "started"
             /\ Spent(r) => Spent(s)
  <2>1. CASE FinalizationGranted(r, c, phase, exhausted)
    <3>1. s = [r EXCEPT !.claim = c]
      BY <1>3, <2>1 DEF ClaimFinalization
    <3>2. r.claim \in {NoClaim, c}
      BY <2>1 DEF FinalizationGranted, HeldBy
    <3> QED
      BY <1>3, <3>1, <3>2 DEF Rows, Spent
  <2>2. CASE ~FinalizationGranted(r, c, phase, exhausted)
    BY <1>3, <2>2 DEF ClaimFinalization
  <2> QED
    BY <2>1, <2>2
<1>4. CASE s = Prepare(r, c)
  <2>1. CASE HeldBy(r, c) /\ r.phase = "claimed" /\ r.attempts < MaxAttempts
    <3>1. r.attempts + 1 \in 0..MaxAttempts
      BY <2>1, RowAssumption DEF Rows
    <3>2. s = [r EXCEPT !.phase = "prepared", !.attempts = r.attempts + 1]
      BY <1>4, <2>1 DEF Prepare
    <3> QED
      BY <2>1, <3>1, <3>2 DEF Rows, Phases, HeldBy, Spent
  <2>2. CASE ~(HeldBy(r, c) /\ r.phase = "claimed" /\ r.attempts < MaxAttempts)
    BY <1>4, <2>2 DEF Prepare
  <2> QED
    BY <2>1, <2>2
<1>5. CASE s = Release(r, c)
  BY <1>5, RowAssumption DEF Release, Reopened, HeldBy, Rows, Phases, Spent
<1>6. CASE s = MarkUncertain(r, c)
  BY <1>6 DEF MarkUncertain, HeldBy, Rows, Phases, Spent
<1>7. CASE s = Consume(r, c)
  BY <1>7 DEF Consume, HeldBy, Rows, Spent
<1> QED
  BY <1>1, <1>2, <1>3, <1>4, <1>5, <1>6, <1>7 DEF Touch

\* A settlement is such a call.
LEMMA SettledTouches ==
  ASSUME NEW r, NEW c, NEW outcome
  PROVE  Touch(r, Settled(r, c, outcome), c)
  BY DEF Settled, Touch

\* An id that is drawn is nobody's.
LEMMA FreshIsMine ==
  ASSUME IdLeft, NEW g
  PROVE  FreshId \in ClaimIds /\ FreshId \notin UsedIds /\ FreshId \in Mine(g)
<1>1. \E id \in ClaimIds : id \notin UsedIds
  BY DEF IdLeft
<1> QED
  BY <1>1 DEF FreshId, Mine

-----------------------------------------------------------------------------
(* A step of one chain                                                     *)

\* The chain of g goes on as k, its store call with claim c leaves r of one row, and
\* what it refers to afterwards was its own or nobody's.
LEMMA StepKeeps ==
  ASSUME Core, NEW g \in Coordinators, worker[g].state # "new",
         NEW k \in Chains, Staged(k), chain' = [chain EXCEPT ![g] = k],
         k.id \in Mine(g) \cup {NoId},
         NEW d \in Deliveries, NEW r \in Rows, row' = [row EXCEPT ![d] = r],
         NEW c, c \in Claims => c.id \in Mine(g),
         row[d].claim \notin {NoClaim, c} => r = row[d],
         r.claim \in {row[d].claim, NoClaim, c},
         r.phase = "started" => r.claim = c \/ row[d].phase = "started",
         NEW os \in [Deliveries -> Settlements \cup {NoSettlement}],
         observed' = [observed EXCEPT ![g] = os],
         \A e \in Deliveries : os[e].id \in Mine(g) \cup {NoId},
         UNCHANGED worker, PromptsTyped', PromptsSpent', PromptedAtMostOnce',
         Ahead(k, row[k.d])',
         Started(g) /\ k.at = "prompt" /\ k.outcome = "none"
           => HeldBy(row'[k.d], ClaimBy(g, k.id)) /\ row'[k.d].phase = "started"
  PROVE  Core'
<1>1. row[d] \in Rows
  BY DEF Core, Parts
<1>2. /\ r \in Rows
      /\ row[d].claim \notin {NoClaim, c} => r = row[d]
      /\ r.claim \in {row[d].claim, NoClaim, c}
      /\ r.phase = "started" => r.claim = c \/ row[d].phase = "started"
  OBVIOUS
<1>3. Parts'
  BY <1>2 DEF Core, Parts
<1>4. /\ row'[d] = r /\ \A e \in Deliveries : e # d => row'[e] = row[e]
      /\ chain'[g] = k /\ \A h \in Coordinators : h # g => chain'[h] = chain[h]
      /\ observed'[g] = os /\ \A h \in Coordinators : h # g => observed'[h] = observed[h]
  BY DEF Core, Parts
<1>5. \A h \in Coordinators : Staged(chain'[h])
  BY <1>4 DEF Core
<1>6. \A h \in Coordinators : h # g => OwnIds(h)' = OwnIds(h)
  BY <1>4 DEF OwnIds
<1>7. OwnIds(g)' \subseteq Mine(g) \cup {NoId}
  BY <1>4 DEF OwnIds
<1>8. \A h \in Coordinators : h # g => Mine(g) \cap OwnIds(h) \subseteq {NoId}
  <2> SUFFICES ASSUME NEW h \in Coordinators, h # g
               PROVE  Mine(g) \cap OwnIds(h) \subseteq {NoId}
    OBVIOUS
  <2>1. OwnIds(h) \subseteq UsedIds
    BY DEF OwnIds, UsedIds
  <2>2. OwnIds(g) \cap OwnIds(h) \subseteq {NoId}
    BY DEF Core, Unique
  <2> QED
    BY <2>1, <2>2 DEF Mine
<1>9. Unique'
  BY <1>6, <1>7, <1>8 DEF Core, Unique
<1>10. \A h \in Coordinators : worker'[h].state = "new" => At(h, "idle")'
  BY <1>4 DEF Core, At
<1>11. \A h, i \in Coordinators : Started(h)' /\ Started(i)' => h = i
  BY DEF Core, Started
\* The claim of another coordinator is not c.
<1>14. ASSUME NEW h \in Coordinators, h # g, chain[h].id \in ClaimIds,
              row[d].claim # NoClaim, row[d].claim.id = chain[h].id
       PROVE  r = row[d]
  <2>1. row[d].claim \in Claims
    BY <1>1, <1>14 DEF Rows
  <2>2. chain[h].id \in OwnIds(h) /\ chain[h].id # NoId
    BY <1>14, DeliveryAssumption DEF OwnIds
  <2>3. row[d].claim # c
    BY <1>8, <1>14, <2>1, <2>2
  <2> QED
    BY <1>2, <1>14, <2>3
<1>15. \A h \in Coordinators : h # g => chain[h].id \in ClaimIds \cup {NoId} /\ Staged(chain[h])
  BY DEF Core, Parts, Chains
<1>16. Unstarted'
  <2> SUFFICES ASSUME NEW h \in Coordinators PROVE Ahead(chain[h], row[D(h)])'
    BY DEF Unstarted
  <2>1. Ahead(chain[h], row[D(h)])
    BY DEF Core, Unstarted
  <2>2. CASE h = g
    BY <1>4, <2>2 DEF D
  <2>3. CASE h # g
    <3> SUFFICES ASSUME chain[h].at \in {"claim", "prepare", "body"},
                        row'[D(h)].claim # NoClaim, row'[D(h)].claim.id = chain[h].id
                 PROVE  row'[D(h)].phase # "started"
      BY <1>4, <2>3 DEF Ahead, D
    <3>1. D(h) \in Deliveries /\ chain[h].id \in ClaimIds
      BY <1>15, <2>3 DEF Staged, D
    <3>2. CASE row'[D(h)] = row[D(h)]
      BY <2>1, <3>2 DEF Ahead
    <3>3. CASE row'[D(h)] # row[D(h)]
      <4>1. D(h) = d /\ row'[D(h)] = r
        BY <1>4, <3>1, <3>3
      <4>2. CASE r.claim = row[d].claim /\ r.claim # c
        BY <1>2, <2>1, <4>1, <4>2 DEF Ahead
      <4>3. CASE r.claim = c
        <5>1. c \in Claims
          BY <1>2, <4>1, <4>3 DEF Rows
        <5>2. chain[h].id \in Mine(g)
          BY <4>1, <4>3, <5>1
        <5> QED
          BY <1>8, <2>3, <3>1, <5>2, DeliveryAssumption DEF OwnIds
      <4> QED
        BY <1>2, <4>1, <4>2, <4>3
    <3> QED
      BY <3>2, <3>3
  <2> QED
    BY <2>2, <2>3
<1>17. PromptHoldsClaim'
  <2> SUFFICES ASSUME NEW h \in Coordinators, Started(h), At(h, "prompt")',
                      chain'[h].outcome = "none"
               PROVE  /\ HeldBy(row'[chain'[h].d], ClaimBy(h, chain'[h].id))
                      /\ row'[chain'[h].d].phase = "started"
    BY DEF PromptHoldsClaim, Started, D, MyClaim, ClaimBy
  <2>1. CASE h = g
    BY <1>4, <2>1 DEF At
  <2>2. CASE h # g
    <3>1. /\ HeldBy(row[D(h)], MyClaim(h)) /\ row[D(h)].phase = "started"
          /\ chain'[h] = chain[h] /\ chain[h].id \in ClaimIds /\ D(h) \in Deliveries
      BY <1>4, <1>15, <2>2 DEF Core, PromptHoldsClaim, At, Staged, D
    <3>2. MyClaim(h) \in Claims /\ MyClaim(h).id = chain[h].id
      BY <3>1 DEF Core, Parts, Workers, Claims, MyClaim, ClaimBy
    <3>3. row[D(h)].claim # NoClaim /\ row[D(h)].claim.id = chain[h].id
      BY <3>1, <3>2, RowAssumption DEF HeldBy
    <3>4. row'[D(h)] = row[D(h)]
      BY <1>4, <1>14, <2>2, <3>1, <3>3
    <3> QED
      BY <3>1, <3>4 DEF D, MyClaim, ClaimBy, HeldBy
  <2> QED
    BY <2>1, <2>2
<1> QED
  BY <1>3, <1>5, <1>9, <1>10, <1>11, <1>16, <1>17 DEF Core

\* ... the same, for a call that prompts nobody.
LEMMA Calls ==
  ASSUME Core, NEW g \in Coordinators, worker[g].state # "new",
         NEW d \in Deliveries, NEW id \in Mine(g) \cup {NoId},
         NEW k \in Chains, Staged(k), chain' = [chain EXCEPT ![g] = k], k.id \in {id, NoId},
         NEW r, row' = [row EXCEPT ![d] = r], Touch(row[d], r, ClaimBy(g, id)),
         NEW s \in Settlements \cup {NoSettlement}, s.id \in {id, NoId},
         observed' \in {observed, [observed EXCEPT ![g][d] = s]},
         UNCHANGED <<worker, prompts>>,
         Ahead(k, row[k.d])', k.at = "prompt" => k.outcome # "none"
  PROVE  Core'
<1> DEFINE c == ClaimBy(g, id)
<1>1. row[d] \in Rows
  BY DEF Core, Parts
<1>2. /\ r \in Rows
      /\ row[d].claim \notin {NoClaim, c} => r = row[d]
      /\ r.claim \in {row[d].claim, NoClaim, c}
      /\ r.phase = "started" => row[d].phase = "started"
      /\ Spent(row[d]) => Spent(r)
  BY <1>1, TouchFacts
<1>3. c \in Claims => c.id \in Mine(g)
  BY DeliveryAssumption DEF Claims, ClaimBy
<1>4. \A e \in Deliveries : e # d => row'[e] = row[e]
  BY DEF Core, Parts
<1>5. row'[d] = r
  BY DEF Core, Parts
<1>6. PromptsTyped' /\ PromptedAtMostOnce'
  BY DEF Core, PromptsTyped, PromptedAtMostOnce
<1>7. PromptsSpent'
  BY <1>2, <1>4, <1>5 DEF Core, PromptsSpent
<1>8. observed[g] \in [Deliveries -> Settlements \cup {NoSettlement}]
  BY DEF Core, Parts
<1>9. \A e \in Deliveries : observed[g][e].id \in Mine(g)
  BY DEF Mine, OwnIds
<1>10. PICK os \in {observed[g], [observed[g] EXCEPT ![d] = s]} :
         observed' = [observed EXCEPT ![g] = os]
  BY DEF Core, Parts
<1>11. os \in [Deliveries -> Settlements \cup {NoSettlement}]
  BY <1>8, <1>10
<1>12. \A e \in Deliveries : os[e].id \in Mine(g) \cup {NoId}
  BY <1>8, <1>9, <1>10
<1>13. k.id \in Mine(g) \cup {NoId}
  OBVIOUS
<1>14. Started(g) /\ k.at = "prompt" /\ k.outcome = "none"
           => HeldBy(row'[k.d], ClaimBy(g, k.id)) /\ row'[k.d].phase = "started"
  OBVIOUS
<1> QED
  BY <1>2, <1>3, <1>6, <1>7, <1>10, <1>11, <1>12, <1>13, <1>14, StepKeeps

\* What is known of a coordinator whose chain is under way.
LEMMA Underway ==
  ASSUME Core, NEW g \in Coordinators, ~At(g, "idle")
  PROVE  /\ worker[g].state # "new" /\ worker[g].boot \in Boots
         /\ chain[g] \in Chains /\ Staged(chain[g])
         /\ D(g) \in Deliveries /\ row[D(g)] \in Rows
         /\ chain[g].id \in Mine(g)
         /\ Ahead(chain[g], row[D(g)])
  BY DEF Core, Parts, Workers, Staged, At, D, Mine, OwnIds, Unstarted

\* The chain goes on without a call.
LEMMA Moves ==
  ASSUME Core, NEW g \in Coordinators, ~At(g, "idle"),
         NEW k \in Chains, Staged(k), chain' = [chain EXCEPT ![g] = k],
         k.id \in {chain[g].id, NoId},
         UNCHANGED <<row, observed, worker, prompts>>,
         k.at \notin {"claim", "prepare", "body", "prompt"}
  PROVE  Core'
<1>1. /\ worker[g].state # "new" /\ D(g) \in Deliveries /\ chain[g].id \in Mine(g)
  BY Underway
<1>2. row' = [row EXCEPT ![D(g)] = row[D(g)]]
  BY <1>1 DEF Core, Parts
<1>3. Touch(row[D(g)], row[D(g)], ClaimBy(g, chain[g].id))
  BY DEF Touch
<1>4. NoSettlement.id = NoId
  BY DEF NoSettlement
<1>5. Ahead(k, row[k.d])'
  BY DEF Ahead
<1>6. observed' \in {observed, [observed EXCEPT ![g][D(g)] = NoSettlement]}
  OBVIOUS
<1> QED
  BY <1>1, <1>2, <1>3, <1>4, <1>5, <1>6, Calls

-----------------------------------------------------------------------------
(* The steps of the chain                                                  *)

\* A failing write or a look at a blocked session is counted within its bound.
LEMMA BudgetKept ==
  ASSUME BudgetTyped, Fail \/ Block \/ UNCHANGED budget
  PROVE  BudgetTyped'
<1>1. CASE Fail
  BY <1>1, DeliveryAssumption DEF BudgetTyped, Fail
<1>2. CASE Block
  BY <1>2, DeliveryAssumption DEF BudgetTyped, Block
<1>3. CASE UNCHANGED budget
  BY <1>3 DEF BudgetTyped, budget
<1> QED
  BY <1>1, <1>2, <1>3

\* Writing a completion turn keeps the session history's type.
LEMMA HistoryKept ==
  ASSUME HistoryTyped, NEW d \in Deliveries, NEW note \in Turns,
         WriteTurn(d, note) \/ UNCHANGED history
  PROVE  HistoryTyped'
  BY DEF HistoryTyped, WriteTurn, history, Turns

\* What finalizeDeliveryWithoutExecution keeps, whoever calls it.
LEMMA FinalizeKeeps ==
  ASSUME Core, HistoryTyped, BudgetTyped, NEW g \in Coordinators, ~At(g, "idle"),
         NEW note \in {"absent", "failed", "uncertain"},
         NEW phase \in Phases, NEW exhausted \in BOOLEAN,
         Finalize(g, note, phase, exhausted), UNCHANGED <<worker, prompts>>
  PROVE  Core' /\ HistoryTyped' /\ BudgetTyped'
<1>1. PICK d, id, r : /\ d = D(g) /\ id = FreshId
                      /\ r = ClaimFinalization(row[d], ClaimBy(g, id), phase, exhausted)
  OBVIOUS
<1> DEFINE c == ClaimBy(g, id)
           s == [id |-> id, outcome |-> "finalize", note |-> note]
           t == [id |-> id, outcome |-> "finalize", note |-> "absent"]
           k == [IdleChain EXCEPT !.at = "consume", !.d = d, !.id = id]
           l == [IdleChain EXCEPT !.at = "done", !.d = d, !.id = NoId]
           granted == Started(g) /\ FinalizationGranted(row[d], c, phase, exhausted)
<1>2. /\ worker[g].state # "new" /\ worker[g].boot \in Boots
      /\ d \in Deliveries /\ row[d] \in Rows
  BY <1>1, Underway
<1>3. id \in ClaimIds /\ id \in Mine(g) /\ id # NoId
  BY <1>1, FreshIsMine, DeliveryAssumption DEF Finalize
<1>4. Touch(row[d], r, c)
  <2>1. c \in Claims
    BY <1>2, <1>3 DEF ClaimBy, Claims
  <2> QED
    BY <1>1, <2>1 DEF Touch
<1>5. s \in Settlements /\ t \in Settlements /\ s.id = id /\ t.id = id
  BY <1>3 DEF Settlements, Turns, Outcomes
<1>6. NoDelivery \in Rows
  BY RowAssumption DEF NoDelivery, Rows, Phases
<1>7. k \in Chains /\ Staged(k) /\ k.id = id /\ k.at = "consume"
  BY <1>2, <1>3, <1>6 DEF Chains, IdleChain, Staged, Stages, Outcomes
<1>8. l \in Chains /\ Staged(l) /\ l.id = NoId /\ l.at = "done"
  BY <1>2, <1>6 DEF Chains, IdleChain, Staged, Stages, Outcomes
<1>9. Ahead(k, row[k.d])' /\ Ahead(l, row[l.d])'
  BY <1>7, <1>8 DEF Ahead
<1>10. /\ Enter(g, "consume", D(g), FreshId) => chain' = [chain EXCEPT ![g] = k]
       /\ Return(g) => chain' = [chain EXCEPT ![g] = l]
  BY <1>1 DEF Enter, Return
<1> HIDE DEF k, l, s, t
<1>11. CASE /\ granted
            /\ row' = [row EXCEPT ![d] = r]
            /\ IF note = "absent" THEN UNCHANGED history ELSE WriteTurn(d, note)
            /\ observed' = [observed EXCEPT ![g][d] = t]
            /\ chain' = [chain EXCEPT ![g] = k]
            /\ UNCHANGED budget
  <2>1. Core'
    BY <1>2, <1>3, <1>4, <1>5, <1>7, <1>9, <1>11, Calls
  <2>2. HistoryTyped'
    BY <1>2, <1>11, HistoryKept DEF Turns
  <2> QED
    BY <1>11, <2>1, <2>2, BudgetKept
<1>12. CASE /\ granted /\ note # "absent"
            /\ row' = [row EXCEPT ![d] = r]
            /\ observed' = [observed EXCEPT ![g][d] = s]
            /\ chain' = [chain EXCEPT ![g] = l]
            /\ UNCHANGED history /\ Fail
  <2>1. Core'
    BY <1>2, <1>3, <1>4, <1>5, <1>8, <1>9, <1>12, Calls
  <2>2. HistoryTyped'
    BY <1>12 DEF HistoryTyped, history
  <2> QED
    BY <1>12, <2>1, <2>2, BudgetKept
<1>13. CASE /\ chain' = [chain EXCEPT ![g] = l]
            /\ UNCHANGED <<row, history, observed>>
            /\ Fail \/ UNCHANGED budget
  <2>1. Core'
    BY <1>8, <1>13, Moves
  <2>2. HistoryTyped'
    BY <1>13 DEF HistoryTyped, history
  <2> QED
    BY <1>13, <2>1, <2>2, BudgetKept
<1> QED
  <2>1. [s EXCEPT !.note = "absent"] = t
    BY DEF s, t
  <2> QED
    BY <1>1, <1>10, <1>11, <1>12, <1>13, <2>1 DEF Finalize, Observe, s

\* Where a chain gets by one of its jumps.
LEMMA Going ==
  ASSUME Core, NEW g \in Coordinators, ~At(g, "idle"),
         NEW stage \in Stages, NEW outcome \in Outcomes \cup {"none"},
         GotoWith(g, stage, outcome) \/ (Goto(g, stage) /\ outcome = chain[g].outcome)
  PROVE  \E k \in Chains : /\ chain' = [chain EXCEPT ![g] = k]
                           /\ k.at = stage /\ k.outcome = outcome
                           /\ k.id = chain[g].id /\ k.d = D(g)
<1>1. chain[g] \in Chains /\ chain \in [Coordinators -> Chains]
  BY DEF Core, Parts
<1>2. PICK k : k = [chain[g] EXCEPT !.at = stage, !.outcome = outcome]
  OBVIOUS
<1>3. k \in Chains /\ k.at = stage /\ k.outcome = outcome /\ k.id = chain[g].id /\ k.d = D(g)
  BY <1>1, <1>2 DEF Chains, D
<1>4. CASE GotoWith(g, stage, outcome)
  BY <1>1, <1>2, <1>3, <1>4 DEF GotoWith
<1>5. CASE Goto(g, stage) /\ outcome = chain[g].outcome
  <2>1. k = [chain[g] EXCEPT !.at = stage]
    BY <1>1, <1>2, <1>5 DEF Chains
  <2>2. chain' = [chain EXCEPT ![g] = k]
    BY <1>1, <1>5, <2>1 DEF Goto
  <2> QED
    BY <1>3, <2>2
<1> QED
  BY <1>4, <1>5

\* ... and by starting afresh.
LEMMA Entering ==
  ASSUME Core, NEW g \in Coordinators, NEW stage \in Stages, NEW d \in Deliveries,
         NEW id \in ClaimIds \cup {NoId}, Enter(g, stage, d, id)
  PROVE  \E k \in Chains : /\ chain' = [chain EXCEPT ![g] = k]
                           /\ k.at = stage /\ k.outcome = "none" /\ k.id = id /\ k.d = d
<1>1. NoDelivery \in Rows
  BY RowAssumption DEF NoDelivery, Rows, Phases
<1>2. PICK k : k = [IdleChain EXCEPT !.at = stage, !.d = d, !.id = id]
  OBVIOUS
<1>3. k \in Chains /\ k.at = stage /\ k.outcome = "none" /\ k.id = id /\ k.d = d
  BY <1>1, <1>2 DEF Chains, IdleChain
<1> QED
  BY <1>2, <1>3 DEF Enter

\* deliverIfRunnable returns.
LEMMA ReturnKeeps ==
  ASSUME Core, NEW g \in Coordinators, ~At(g, "idle"), Return(g),
         UNCHANGED <<row, observed, worker, prompts>>
  PROVE  Core'
<1>1. PICK d : d = D(g)
  OBVIOUS
<1>2. d \in Deliveries
  BY <1>1, Underway
<1>3. Enter(g, "done", d, NoId)
  BY <1>1 DEF Return
<1>4. "done" \in Stages
  BY DEF Stages
<1>5. PICK k \in Chains : /\ chain' = [chain EXCEPT ![g] = k]
                          /\ k.at = "done" /\ k.outcome = "none" /\ k.id = NoId /\ k.d = d
  BY <1>2, <1>3, <1>4, Entering
<1>6. Staged(k)
  BY <1>2, <1>5 DEF Staged
<1> QED
  BY <1>5, <1>6, Moves

\* It goes on to a later part of the turn, with or without an outcome.
LEMMA GoingKeeps ==
  ASSUME Core, NEW g \in Coordinators, ~At(g, "idle"),
         NEW stage \in {"release", "settle", "residual", "after"},
         NEW outcome \in Outcomes \cup {"none"},
         GotoWith(g, stage, outcome) \/ (Goto(g, stage) /\ outcome = chain[g].outcome),
         stage = "release" => chain[g].id # NoId,
         stage = "settle" => outcome # "none" /\ chain[g].id # NoId,
         outcome # "none" => chain[g].id # NoId,
         UNCHANGED <<row, observed, worker, prompts>>
  PROVE  Core'
<1>1. stage \in Stages
  BY DEF Stages
<1>2. PICK k \in Chains : /\ chain' = [chain EXCEPT ![g] = k]
                          /\ k.at = stage /\ k.outcome = outcome
                          /\ k.id = chain[g].id /\ k.d = D(g)
  BY <1>1, Going
<1>3. Staged(k)
  BY <1>2, Underway DEF Staged
<1> QED
  BY <1>2, <1>3, Moves

\* It goes on with a call of its claim.
LEMMA CallingKeeps ==
  ASSUME Core, NEW g \in Coordinators, ~At(g, "idle"),
         NEW stage \in {"prompt", "release", "residual", "after"},
         NEW outcome \in Outcomes \cup {"none"},
         GotoWith(g, stage, outcome) \/ (Goto(g, stage) /\ outcome = chain[g].outcome),
         stage \in {"prompt", "release"} => chain[g].id # NoId,
         stage = "prompt" => outcome # "none",
         outcome # "none" => chain[g].id # NoId,
         NEW r, row' = [row EXCEPT ![D(g)] = r], Touch(row[D(g)], r, MyClaim(g)),
         NEW s \in Settlements \cup {NoSettlement}, s.id \in {chain[g].id, NoId},
         observed' \in {observed, [observed EXCEPT ![g][D(g)] = s]},
         UNCHANGED <<worker, prompts>>
  PROVE  Core'
<1>1. stage \in Stages
  BY DEF Stages
<1>2. PICK k \in Chains : /\ chain' = [chain EXCEPT ![g] = k]
                          /\ k.at = stage /\ k.outcome = outcome
                          /\ k.id = chain[g].id /\ k.d = D(g)
  BY <1>1, Going
<1>3. PICK d, id : d = D(g) /\ id = chain[g].id
  OBVIOUS
<1>4. /\ d \in Deliveries /\ id \in Mine(g) /\ worker[g].state # "new"
  BY <1>3, Underway
<1>5. Staged(k)
  BY <1>2, <1>3, <1>4 DEF Staged
<1>6. Ahead(k, row[k.d])'
  BY <1>2 DEF Ahead
<1>7. Touch(row[d], r, ClaimBy(g, id))
  BY <1>3 DEF MyClaim
<1>8. k.at = "prompt" => k.outcome # "none"
  BY <1>2
<1> QED
  BY <1>2, <1>3, <1>4, <1>5, <1>6, <1>7, <1>8, Calls

\* A settlement is a call with the claim it settles, and is observed or not.
LEMMA Settling ==
  ASSUME NEW g, NEW d, NEW s \in Settlements, Settle(g, d, s)
  PROVE  \E r, t : /\ row' = [row EXCEPT ![d] = r] /\ Touch(row[d], r, ClaimBy(g, s.id))
                   /\ t \in Settlements \cup {NoSettlement} /\ t.id \in {s.id, NoId}
                   /\ observed' = [observed EXCEPT ![g][d] = t]
<1>1. PICK r : r = Settled(row[d], ClaimBy(g, s.id), s.outcome)
  OBVIOUS
<1>2. PICK t : t = IF r.claim = ClaimBy(g, s.id) THEN s ELSE NoSettlement
  OBVIOUS
<1>3. Touch(row[d], r, ClaimBy(g, s.id))
  BY <1>1, SettledTouches
<1>4. t \in Settlements \cup {NoSettlement} /\ t.id \in {s.id, NoId}
  BY <1>2 DEF NoSettlement
<1>5. row' = [row EXCEPT ![d] = r] /\ observed' = [observed EXCEPT ![g][d] = t]
  BY <1>1, <1>2 DEF Settle, Observe
<1> QED
  BY <1>3, <1>4, <1>5

\* What a chain step may change of the rest, the scheduling apart.
Typed == HistoryTyped /\ BudgetTyped

\* A step that leaves the history alone keeps the type of the rest.
LEMMA TypedKept ==
  ASSUME Typed, UNCHANGED history, Fail \/ Block \/ UNCHANGED budget
  PROVE  Typed'
<1>1. HistoryTyped'
  BY DEF Typed, HistoryTyped, history
<1> QED
  BY <1>1, BudgetKept DEF Typed

\* A look at a session that cannot run the delivery keeps the invariant.
LEMMA BlockedKeeps ==
  ASSUME Core, Typed, NEW g \in Coordinators, Blocked(g)
  PROVE  Core' /\ Typed'
<1>1. ~At(g, "idle")
  BY DEF Blocked, At
<1>2. /\ Return(g) /\ UNCHANGED <<row, observed, worker, prompts>>
      /\ UNCHANGED history /\ Block
  BY DEF Blocked, store, process
<1> QED
  BY <1>1, <1>2, ReturnKeeps, TypedKept

\* So does the decision after the lookup, whichever it is.
LEMMA DecideKeeps ==
  ASSUME Core, Typed, NEW g \in Coordinators, Decide(g)
  PROVE  Core' /\ Typed'
<1>1. At(g, "lookup") /\ ~At(g, "idle")
  BY DEF Decide, At
<1>2. UNCHANGED <<worker, prompts>>
  BY DEF Decide, process
<1>3. ASSUME NEW note \in {"absent", "failed", "uncertain"}, NEW phase \in Phases,
             NEW exhausted \in BOOLEAN, Finalize(g, note, phase, exhausted)
      PROVE  Core' /\ Typed'
  BY <1>1, <1>2, <1>3, FinalizeKeeps DEF Typed
<1>4. ASSUME Return(g), UNCHANGED <<row, history, observed, budget>>
      PROVE  Core' /\ Typed'
  BY <1>1, <1>2, <1>4, ReturnKeeps, TypedKept
<1>5. ASSUME Enter(g, "config", D(g), NoId), UNCHANGED <<row, history, observed, budget>>
      PROVE  Core' /\ Typed'
  <2>1. PICK d : d = D(g)
    OBVIOUS
  <2>2. d \in Deliveries
    BY <1>1, <2>1, Underway
  <2>3. "config" \in Stages
    BY DEF Stages
  <2>4. PICK k \in Chains : /\ chain' = [chain EXCEPT ![g] = k]
                            /\ k.at = "config" /\ k.outcome = "none" /\ k.id = NoId /\ k.d = d
    BY <1>5, <2>1, <2>2, <2>3, Entering
  <2>5. Staged(k)
    BY <2>2, <2>4 DEF Staged
  <2>6. Core'
    BY <1>1, <1>2, <1>5, <2>4, <2>5, Moves
  <2> QED
    BY <1>5, <2>6, TypedKept
<1>6. {"ready", "uncertain"} \subseteq Phases
  BY DEF Phases
<1>7. PICK phase \in Phases :
        phase = IF chain[g].snapshot.phase = "uncertain" THEN "uncertain" ELSE "ready"
  BY <1>6
<1>8. \/ Finalize(g, "absent", phase, FALSE)
      \/ Finalize(g, "uncertain", "uncertain", FALSE)
      \/ Finalize(g, "failed", "ready", TRUE)
      \/ Return(g) /\ UNCHANGED <<row, history, observed, budget>>
      \/ Enter(g, "config", D(g), NoId) /\ UNCHANGED <<row, history, observed, budget>>
  BY <1>7 DEF Decide, FailUncertain, FailExhausted
<1> QED
  BY <1>3, <1>4, <1>5, <1>6, <1>8

\* So does resolving the frozen configuration.
LEMMA ConfigureKeeps ==
  ASSUME Core, Typed, NEW g \in Coordinators, Configure(g)
  PROVE  Core' /\ Typed'
<1>1. At(g, "config") /\ ~At(g, "idle")
  BY DEF Configure, At
<1>2. UNCHANGED <<worker, prompts>>
  BY DEF Configure, process
<1>3. CASE Goto(g, "turn") /\ UNCHANGED <<row, history, observed, budget>>
  <2>1. "turn" \in Stages /\ "none" \in Outcomes \cup {"none"}
    BY DEF Stages
  <2>2. chain[g].outcome = "none" /\ chain[g].id = NoId /\ D(g) \in Deliveries
    BY <1>1, Underway DEF At, Staged
  <2>3. PICK k \in Chains : /\ chain' = [chain EXCEPT ![g] = k]
                            /\ k.at = "turn" /\ k.outcome = "none"
                            /\ k.id = chain[g].id /\ k.d = D(g)
    BY <1>1, <1>3, <2>1, <2>2, Going
  <2>4. Staged(k)
    BY <2>2, <2>3 DEF Staged
  <2>5. Core'
    BY <1>1, <1>2, <1>3, <2>3, <2>4, Moves
  <2> QED
    BY <1>3, <2>5, TypedKept
<1>4. CASE Return(g) /\ UNCHANGED <<row, history, observed>> /\ Block
  BY <1>1, <1>2, <1>4, ReturnKeeps, TypedKept
<1>5. CASE Finalize(g, "failed", "ready", FALSE)
  <2>1. "ready" \in Phases
    BY DEF Phases
  <2> QED
    BY <1>1, <1>2, <1>5, <2>1, FinalizeKeeps DEF Typed
<1> QED
  BY <1>3, <1>4, <1>5 DEF Configure

\* So does taking the session's turn: the attempt id it draws is nobody's.
LEMMA BeginTurnKeeps ==
  ASSUME Core, Typed, NEW g \in Coordinators, BeginTurn(g)
  PROVE  Core' /\ Typed'
<1>1. At(g, "turn") /\ ~At(g, "idle")
  BY DEF BeginTurn, At
<1>2. UNCHANGED <<row, observed, worker, prompts, history>>
  BY DEF BeginTurn, process, store
<1>3. chain[g].outcome = "none" /\ D(g) \in Deliveries /\ chain[g] \in Chains
  BY <1>1, Underway DEF At, Staged
<1>4. CASE /\ IdLeft
           /\ chain' = [chain EXCEPT ![g].at = "claim", ![g].id = FreshId]
           /\ UNCHANGED budget
  <2>1. PICK d, id, k, r : /\ d = D(g) /\ id = FreshId /\ r = row[d]
                           /\ k = [chain[g] EXCEPT !.at = "claim", !.id = id]
    OBVIOUS
  <2>2. id \in ClaimIds /\ id \in Mine(g) /\ id # NoId /\ id \notin UsedIds
    BY <1>4, <2>1, FreshIsMine, DeliveryAssumption
  <2>3. /\ k \in Chains /\ k.at = "claim" /\ k.id = id /\ k.d = d /\ k.outcome = "none"
    BY <1>3, <2>1, <2>2 DEF Chains, Stages, D
  <2>4. chain' = [chain EXCEPT ![g] = k]
    BY <1>4, <2>1 DEF Core, Parts
  <2>5. Staged(k)
    BY <1>3, <2>1, <2>2, <2>3 DEF Staged
  <2>6. d \in Deliveries /\ row' = [row EXCEPT ![d] = r]
    BY <1>2, <1>3, <2>1 DEF Core, Parts
  <2>7. Ahead(k, row[k.d])'
    <3>1. row[d].claim # NoClaim => row[d].claim.id # id
      BY <2>2, <2>6 DEF UsedIds
    <3> QED
      BY <1>2, <2>3, <3>1 DEF Ahead
  <2>8. Touch(row[d], r, ClaimBy(g, id))
    BY <2>1 DEF Touch
  <2>9. NoSettlement \in Settlements \cup {NoSettlement} /\ NoSettlement.id = NoId
    BY DEF NoSettlement
  <2>10. worker[g].state # "new"
    BY <1>1, Underway
  <2>11. Core'
    BY <1>2, <2>2, <2>3, <2>4, <2>5, <2>6, <2>7, <2>8, <2>9, <2>10, Calls
  <2> QED
    BY <1>2, <1>4, <2>11, TypedKept
<1>5. CASE Goto(g, "residual") /\ (UNCHANGED budget \/ Block)
  <2>1. Core'
    BY <1>1, <1>2, <1>3, <1>5, GoingKeeps
  <2> QED
    BY <1>2, <1>5, <2>1, TypedKept
<1> QED
  BY <1>4, <1>5 DEF BeginTurn

\* So does a turn that is refused or fails before the claim.
LEMMA FailBeforeClaimKeeps ==
  ASSUME Core, Typed, NEW g \in Coordinators, FailBeforeClaim(g)
  PROVE  Core' /\ Typed'
<1>1. At(g, "claim") /\ ~At(g, "idle")
  BY DEF FailBeforeClaim, At
<1>2. UNCHANGED <<row, observed, worker, prompts, history>> /\ Block
  BY DEF FailBeforeClaim, process, store
<1>3. chain[g].id # NoId
  BY <1>1, Underway DEF At, Staged
<1>4. PICK outcome \in {"none", "handled", "cancelled"} : GotoWith(g, "release", outcome)
  BY DEF FailBeforeClaim
<1>5. outcome \in Outcomes \cup {"none"}
  BY DEF Outcomes
<1>6. Core'
  BY <1>1, <1>2, <1>3, <1>4, <1>5, GoingKeeps
<1> QED
  BY <1>2, <1>6, TypedKept

\* One or two writes of onTurnClaimed fail.
LEMMA FailedKeeps ==
  ASSUME Core, Typed, NEW g \in Coordinators, ~At(g, "idle"), chain[g].id # NoId,
         NEW r, Failed(g, r), UNCHANGED <<observed, worker, prompts>>,
         Touch(row[D(g)], r, MyClaim(g)), Touch(row[D(g)], Release(r, MyClaim(g)), MyClaim(g))
  PROVE  Core' /\ Typed'
<1>1. NoSettlement \in Settlements \cup {NoSettlement} /\ NoSettlement.id = NoId
  BY DEF NoSettlement
<1>2. PICK q : /\ row' = [row EXCEPT ![D(g)] = q]
               /\ Touch(row[D(g)], q, MyClaim(g))
  BY DEF Failed
<1>3. GotoWith(g, "release", "handled") /\ "handled" \in Outcomes \cup {"none"}
  BY DEF Failed, Outcomes
<1>4. Core'
  BY <1>1, <1>2, <1>3, CallingKeeps
<1>5. HistoryTyped'
  BY DEF Failed, Typed, HistoryTyped, history
<1>6. BudgetTyped'
  BY DeliveryAssumption DEF Failed, Typed, BudgetTyped
<1> QED
  BY <1>4, <1>5, <1>6 DEF Typed

\* So does onTurnClaimed as far as its history write: the row it claims is not started.
LEMMA ClaimKeeps ==
  ASSUME Core, Typed, NEW g \in Coordinators, Claim(g)
  PROVE  Core' /\ Typed'
<1>1. At(g, "claim") /\ ~At(g, "idle")
  BY DEF Claim, At
<1>2. UNCHANGED <<observed, worker, prompts>>
  BY DEF Claim, process
<1>3. /\ chain[g].id # NoId /\ chain[g].outcome = "none" /\ chain[g] \in Chains
      /\ D(g) \in Deliveries /\ row[D(g)] \in Rows /\ Ahead(chain[g], row[D(g)])
      /\ worker[g].state # "new" /\ worker[g].boot \in Boots /\ chain[g].id \in Mine(g)
  BY <1>1, Underway DEF At, Staged
<1>4. PICK d, id, c, r : /\ d = D(g) /\ id = chain[g].id /\ c = MyClaim(g)
                         /\ r = ClaimExecution(row[d], c)
  OBVIOUS
<1>5. c \in Claims /\ c = ClaimBy(g, id) /\ c.id = id
  <2>1. chain[g].id \in ClaimIds
    BY <1>3 DEF Chains
  <2> QED
    BY <1>3, <1>4, <2>1 DEF MyClaim, ClaimBy, Claims
<1>6. Touch(row[d], r, c) /\ Touch(row[d], Release(r, c), c)
  BY <1>4, <1>5 DEF Touch
<1>7. CASE GotoWith(g, "release", "none") /\ UNCHANGED <<row, history, budget>>
  <2>1. Core'
    BY <1>1, <1>2, <1>3, <1>7, GoingKeeps
  <2> QED
    BY <1>7, <2>1, TypedKept
<1>8. CASE GotoWith(g, "release", "handled") /\ UNCHANGED <<row, history>> /\ Fail
  <2>1. "handled" \in Outcomes \cup {"none"}
    BY DEF Outcomes
  <2>2. Core'
    BY <1>1, <1>2, <1>3, <1>8, <2>1, GoingKeeps
  <2> QED
    BY <1>8, <2>2, TypedKept
<1>9. CASE /\ ClaimGranted(row[d], c) /\ row' = [row EXCEPT ![d] = r]
           /\ WriteTurn(d, "absent") /\ Goto(g, "prepare") /\ UNCHANGED budget
  <2>1. "prepare" \in Stages /\ "none" \in Outcomes \cup {"none"}
    BY DEF Stages
  <2>2. PICK k \in Chains : /\ chain' = [chain EXCEPT ![g] = k]
                            /\ k.at = "prepare" /\ k.outcome = "none"
                            /\ k.id = id /\ k.d = d
    BY <1>1, <1>3, <1>4, <1>9, <2>1, Going
  <2>3. Staged(k)
    BY <1>3, <1>4, <2>2 DEF Staged
  <2>4. row'[d] = r
    BY <1>3, <1>4, <1>9 DEF Core, Parts
  <2>5. Ahead(k, r)
    BY <1>1, <1>3, <1>4, <1>5, <2>2 DEF Ahead, At, ClaimExecution, Rows
  <2>6. Ahead(k, row[k.d])'
    BY <2>2, <2>4, <2>5 DEF Ahead
  <2>7. NoSettlement \in Settlements \cup {NoSettlement} /\ NoSettlement.id = NoId
    BY DEF NoSettlement
  <2>8. Core'
    BY <1>2, <1>3, <1>4, <1>5, <1>6, <1>9, <2>2, <2>3, <2>6, <2>7, Calls
  <2>9. "absent" \in Turns
    BY DEF Turns
  <2>10. HistoryTyped'
    BY <1>3, <1>4, <1>9, <2>9, HistoryKept DEF Typed
  <2> QED
    BY <1>9, <2>8, <2>10, BudgetKept DEF Typed
<1>10. CASE Failed(g, r)
  BY <1>1, <1>2, <1>3, <1>4, <1>6, <1>10, FailedKeeps
<1> QED
  BY <1>4, <1>7, <1>8, <1>9, <1>10 DEF Claim

\* So does counting the attempt after that write.
LEMMA PrepareTurnKeeps ==
  ASSUME Core, Typed, NEW g \in Coordinators, PrepareTurn(g)
  PROVE  Core' /\ Typed'
<1>1. At(g, "prepare") /\ ~At(g, "idle")
  BY DEF PrepareTurn, At
<1>2. UNCHANGED <<observed, worker, prompts>>
  BY DEF PrepareTurn, process
<1>3. /\ chain[g].id # NoId /\ chain[g].outcome = "none" /\ chain[g] \in Chains
      /\ D(g) \in Deliveries /\ row[D(g)] \in Rows /\ Ahead(chain[g], row[D(g)])
      /\ worker[g].state # "new" /\ chain[g].id \in Mine(g)
  BY <1>1, Underway DEF At, Staged
<1>4. PICK d, id, c : /\ d = D(g) /\ id = chain[g].id /\ c = MyClaim(g)
  OBVIOUS
<1>5. c = ClaimBy(g, id) /\ c.id = id
  BY <1>4 DEF MyClaim, ClaimBy
<1>6. NoSettlement \in Settlements \cup {NoSettlement} /\ NoSettlement.id = NoId
  BY DEF NoSettlement
<1>7. CASE /\ row' = [row EXCEPT ![d] = Prepare(@, c)]
           /\ Goto(g, "body") /\ UNCHANGED <<history, budget>>
  <2>1. "body" \in Stages /\ "none" \in Outcomes \cup {"none"}
    BY DEF Stages
  <2>2. PICK k \in Chains : /\ chain' = [chain EXCEPT ![g] = k]
                            /\ k.at = "body" /\ k.outcome = "none"
                            /\ k.id = id /\ k.d = d
    BY <1>1, <1>3, <1>4, <1>7, <2>1, Going
  <2>3. Staged(k)
    BY <1>3, <1>4, <2>2 DEF Staged
  <2>4. PICK r : r = Prepare(row[d], c)
    OBVIOUS
  <2>5. row' = [row EXCEPT ![d] = r] /\ row'[d] = r
    BY <1>3, <1>4, <1>7, <2>4 DEF Core, Parts
  <2>6. Ahead(k, r)
    BY <1>1, <1>3, <1>4, <1>5, <2>2, <2>4 DEF Ahead, At, Prepare, Rows
  <2>7. Ahead(k, row[k.d])'
    BY <2>2, <2>5, <2>6 DEF Ahead
  <2>8. Touch(row[d], r, ClaimBy(g, id))
    BY <1>5, <2>4 DEF Touch
  <2>9. Core'
    BY <1>2, <1>3, <1>4, <1>6, <2>2, <2>3, <2>5, <2>7, <2>8, Calls
  <2> QED
    BY <1>7, <2>9, TypedKept
<1>8. CASE /\ row' = [row EXCEPT ![d] = Release(@, c)]
           /\ GotoWith(g, "release", "none") /\ UNCHANGED <<history, budget>>
  <2>1. PICK r : r = Release(row[d], c)
    OBVIOUS
  <2>2. row' = [row EXCEPT ![d] = r] /\ Touch(row[d], r, c)
    BY <1>8, <2>1 DEF Core, Parts, Touch
  <2>3. Core'
    BY <1>1, <1>2, <1>3, <1>4, <1>6, <1>8, <2>2, CallingKeeps
  <2> QED
    BY <1>8, <2>3, TypedKept
<1>9. CASE Failed(g, row[d])
  <2>1. PICK r : r = row[d]
    OBVIOUS
  <2>2. Touch(row[d], r, c) /\ Touch(row[d], Release(r, c), c)
    BY <2>1 DEF Touch
  <2> QED
    BY <1>1, <1>2, <1>3, <1>4, <1>9, <2>1, <2>2, FailedKeeps
<1> QED
  BY <1>4, <1>7, <1>8, <1>9 DEF PrepareTurn

\* The turn ends at once.
LEMMA EndTurnKeeps ==
  ASSUME Core, Typed, NEW g \in Coordinators, ~At(g, "idle"), chain[g].id # NoId,
         NEW outcomes \in SUBSET Outcomes, EndTurn(g, outcomes),
         UNCHANGED <<row, observed, worker, prompts, history>>
  PROVE  Core' /\ Typed'
<1>1. PICK outcome \in Outcomes \cup {"none"} :
        GotoWith(g, "release", outcome) /\ (UNCHANGED budget \/ Fail)
  BY DEF EndTurn
<1>2. Core'
  BY <1>1, GoingKeeps
<1> QED
  BY <1>1, <1>2, TypedKept

\* A turn that ends before the provider is called keeps the invariant.
LEMMA EndBeforePromptKeeps ==
  ASSUME Core, Typed, NEW g \in Coordinators, EndBeforePrompt(g)
  PROVE  Core' /\ Typed'
<1>1. At(g, "body") /\ ~At(g, "idle")
  BY DEF EndBeforePrompt, At
<1>2. UNCHANGED <<row, observed, worker, prompts, history>>
  BY DEF EndBeforePrompt, process, store
<1>3. chain[g].id # NoId
  BY <1>1, Underway DEF At, Staged
<1>4. {"handled", "cancelled", "not_started"} \in SUBSET Outcomes
  BY DEF Outcomes
<1> QED
  BY <1>1, <1>2, <1>3, <1>4, EndTurnKeeps DEF EndBeforePrompt

\* So does the end of a prompt.
LEMMA EndPromptKeeps ==
  ASSUME Core, Typed, NEW g \in Coordinators, EndPrompt(g)
  PROVE  Core' /\ Typed'
<1>1. At(g, "prompt") /\ ~At(g, "idle")
  BY DEF EndPrompt, At
<1>2. UNCHANGED <<row, observed, worker, prompts, history>>
  BY DEF EndPrompt, process, store
<1>3. chain[g].id # NoId /\ chain[g] \in Chains
  BY <1>1, Underway DEF At, Staged
<1>4. CASE Goto(g, "release") /\ UNCHANGED budget
  <2>1. PICK outcome \in Outcomes \cup {"none"} : outcome = chain[g].outcome
    BY <1>3 DEF Chains
  <2>2. Core'
    BY <1>1, <1>2, <1>3, <1>4, <2>1, GoingKeeps
  <2> QED
    BY <1>2, <1>4, <2>2, TypedKept
<1>5. CASE EndTurn(g, {"handled", "cancelled", "uncertain"})
  <2>1. {"handled", "cancelled", "uncertain"} \in SUBSET Outcomes
    BY DEF Outcomes
  <2> QED
    BY <1>1, <1>2, <1>3, <1>5, <2>1, EndTurnKeeps
<1> QED
  BY <1>4, <1>5 DEF EndPrompt

\* So does letting go of the session.
LEMMA ReleaseTurnKeeps ==
  ASSUME Core, Typed, NEW g \in Coordinators, ReleaseTurn(g)
  PROVE  Core' /\ Typed'
<1>1. At(g, "release") /\ ~At(g, "idle")
  BY DEF ReleaseTurn, At
<1>2. UNCHANGED <<row, observed, worker, prompts, history, budget>>
  BY DEF ReleaseTurn, process, store
<1>3. chain[g].id # NoId /\ chain[g] \in Chains
  BY <1>1, Underway DEF At, Staged
<1>4. PICK outcome \in Outcomes \cup {"none"} : outcome = chain[g].outcome
  BY <1>3 DEF Chains
<1>5. \/ outcome = "none" /\ Goto(g, "residual")
      \/ outcome # "none" /\ Goto(g, "settle")
  BY <1>4 DEF ReleaseTurn
<1>6. Core'
  BY <1>1, <1>2, <1>3, <1>4, <1>5, GoingKeeps
<1> QED
  BY <1>2, <1>6, TypedKept

\* The fence in front of the provider: the one step that prompts.
LEMMA StartPromptKeeps ==
  ASSUME Core, Typed, NEW g \in Coordinators, StartPrompt(g)
  PROVE  Core' /\ Typed'
<1>1. At(g, "body") /\ ~At(g, "idle")
  BY DEF StartPrompt, At
<1>2. UNCHANGED <<observed, worker, history>>
  BY DEF StartPrompt, process
<1>3. /\ chain[g].id # NoId /\ chain[g].outcome = "none" /\ chain[g] \in Chains
      /\ D(g) \in Deliveries /\ row[D(g)] \in Rows /\ Ahead(chain[g], row[D(g)])
      /\ worker[g].state # "new" /\ worker[g].boot \in Boots /\ chain[g].id \in Mine(g)
  BY <1>1, Underway DEF At, Staged
<1>4. PICK d, id, c, r, os : /\ d = D(g) /\ id = chain[g].id /\ c = MyClaim(g)
                             /\ r = MarkStarted(row[d], c) /\ os = observed[g]
  OBVIOUS
<1>5. c = ClaimBy(g, id) /\ c.id = id /\ c \in Claims
  <2>1. chain[g].id \in ClaimIds
    BY <1>3 DEF Chains
  <2> QED
    BY <1>3, <1>4, <2>1 DEF MyClaim, ClaimBy, Claims
<1>6. /\ os \in [Deliveries -> Settlements \cup {NoSettlement}]
      /\ observed' = [observed EXCEPT ![g] = os]
      /\ \A e \in Deliveries : os[e].id \in Mine(g) \cup {NoId}
  BY <1>2, <1>4 DEF Core, Parts, Mine, OwnIds
<1>7. CASE /\ MayStart(g)
           /\ row' = [row EXCEPT ![d] = r]
           /\ \/ Goto(g, "prompt") /\ prompts' = [prompts EXCEPT ![d] = @ + 1]
              \/ GotoWith(g, "release", "cancelled") /\ UNCHANGED prompts
           /\ UNCHANGED budget
  <2>1. StartGranted(row[d], c)
    BY <1>4, <1>7 DEF MayStart
  <2>2. row[d].phase # "started" \/ row[d].claim # c
    BY <1>1, <1>3, <1>4, <1>5, RowAssumption DEF Ahead, At
  <2>3. HeldBy(row[d], c) /\ row[d].phase = "prepared"
    BY <2>1, <2>2 DEF StartGranted
  <2>4. r = [row[d] EXCEPT !.phase = "started"]
    BY <1>4, <2>3 DEF MarkStarted
  <2>5. r \in Rows /\ r.claim = c /\ r.phase = "started" /\ r.state = "pending"
    BY <1>3, <1>4, <2>3, <2>4 DEF Rows, Phases, HeldBy
  <2>6. row[d].claim = c
    BY <2>3 DEF HeldBy
  <2>7. row'[d] = r /\ \A e \in Deliveries : e # d => row'[e] = row[e]
    BY <1>3, <1>4, <1>7 DEF Core, Parts
  <2>8. prompts[d] = 0
    <3>1. ~Spent(row[d])
      BY <2>3 DEF Spent, HeldBy
    <3>2. prompts[d] \in Nat /\ ~(prompts[d] > 0)
      BY <1>3, <1>4, <3>1 DEF Core, PromptsSpent, PromptsTyped
    <3> QED
      BY <3>2
  <2>9. Spent(r)
    BY <2>5 DEF Spent
  <2>10. PromptsTyped' /\ PromptsSpent' /\ PromptedAtMostOnce'
    BY <1>3, <1>4, <1>7, <2>7, <2>8, <2>9
       DEF Core, PromptsTyped, PromptsSpent, PromptedAtMostOnce
  <2>11. /\ {"prompt", "release"} \subseteq Stages
         /\ {"none", "cancelled"} \subseteq Outcomes \cup {"none"}
    BY DEF Stages, Outcomes
  <2>12. PICK stage \in {"prompt", "release"}, outcome \in {"none", "cancelled"} :
           GotoWith(g, stage, outcome) \/ (Goto(g, stage) /\ outcome = chain[g].outcome)
    BY <1>3, <1>7
  <2>13. PICK k \in Chains : /\ chain' = [chain EXCEPT ![g] = k]
                             /\ k.at = stage /\ k.outcome = outcome
                             /\ k.id = chain[g].id /\ k.d = D(g)
    BY <1>1, <2>11, <2>12, Going
  <2>14. Staged(k) /\ k.id = id /\ k.d = d
    BY <1>3, <1>4, <2>12, <2>13 DEF Staged
  <2>15. Ahead(k, row[k.d])'
    BY <2>12, <2>13 DEF Ahead
  <2>16. HeldBy(row'[k.d], ClaimBy(g, k.id)) /\ row'[k.d].phase = "started"
    BY <1>5, <2>5, <2>7, <2>14 DEF HeldBy
  <2>17. k.id \in Mine(g) \cup {NoId} /\ (c \in Claims => c.id \in Mine(g))
    BY <1>3, <1>4, <1>5, <2>14
  <2>18. r.claim \in {row[d].claim, NoClaim, c} /\ (row[d].claim \notin {NoClaim, c} => r = row[d])
    BY <2>5, <2>6
  <2>19. r.phase = "started" => r.claim = c \/ row[d].phase = "started"
    BY <2>5
  <2>20. Core'
    BY <1>2, <1>3, <1>4, <1>6, <1>7, <2>5, <2>10, <2>13, <2>14, <2>15, <2>16, <2>17, <2>18,
       <2>19, StepKeeps
  <2> QED
    BY <1>2, <1>7, <2>20, TypedKept
<1>8. CASE /\ GotoWith(g, "release", "none") \/ GotoWith(g, "release", "not_started")
           /\ UNCHANGED <<row, prompts>> /\ (UNCHANGED budget \/ Fail)
  <2>1. {"none", "not_started"} \subseteq Outcomes \cup {"none"}
    BY DEF Outcomes
  <2>2. Core'
    BY <1>1, <1>2, <1>3, <1>8, <2>1, GoingKeeps
  <2> QED
    BY <1>2, <1>8, <2>2, TypedKept
<1>9. row' = [row EXCEPT ![D(g)] = MarkStarted(@, MyClaim(g))] => row' = [row EXCEPT ![d] = r]
  BY <1>4
<1> QED
  BY <1>4, <1>7, <1>8, <1>9 DEF StartPrompt

\* A settlement of the chain's claim.
LEMMA SettleKeeps ==
  ASSUME Core, NEW g \in Coordinators, ~At(g, "idle"), chain[g].id # NoId,
         NEW stage \in {"prompt", "release", "residual", "after"}, NEW outcome \in Outcomes,
         GotoWith(g, stage, outcome) \/ (Goto(g, stage) /\ outcome = chain[g].outcome),
         NEW s \in Settlements, s.id = chain[g].id,
         Settle(g, D(g), s) \/ (Observe(g, D(g), s) /\ UNCHANGED row),
         UNCHANGED <<worker, prompts>>
  PROVE  Core'
<1>1. PICK d : d = D(g)
  OBVIOUS
<1>2. outcome # "none"
  BY DEF Outcomes
<1>3. CASE Settle(g, D(g), s)
  <2>1. PICK r, t : /\ row' = [row EXCEPT ![d] = r] /\ Touch(row[d], r, ClaimBy(g, s.id))
                    /\ t \in Settlements \cup {NoSettlement} /\ t.id \in {s.id, NoId}
                    /\ observed' = [observed EXCEPT ![g][d] = t]
    BY <1>1, <1>3, Settling
  <2>2. ClaimBy(g, s.id) = MyClaim(g)
    BY DEF MyClaim
  <2> QED
    BY <1>1, <1>2, <2>1, <2>2, CallingKeeps
<1>4. CASE Observe(g, D(g), s) /\ UNCHANGED row
  <2>1. PICK r : r = row[d]
    OBVIOUS
  <2>2. row' = [row EXCEPT ![d] = r] /\ Touch(row[d], r, MyClaim(g))
    BY <1>4, <2>1 DEF Core, Parts, Touch
  <2>3. observed' \in {observed, [observed EXCEPT ![g][d] = s]}
    BY <1>1, <1>4 DEF Observe
  <2> QED
    BY <1>1, <1>2, <2>2, <2>3, CallingKeeps
<1> QED
  BY <1>3, <1>4

\* A steering message that takes the turn over keeps the invariant.
LEMMA SteerKeeps ==
  ASSUME Core, Typed, NEW g \in Coordinators, Steer(g)
  PROVE  Core' /\ Typed'
<1>1. At(g, "prompt") /\ ~At(g, "idle")
  BY DEF Steer, At
<1>2. UNCHANGED <<worker, prompts, history>> /\ (UNCHANGED budget \/ Fail)
  BY DEF Steer, process
<1>3. chain[g].id # NoId /\ chain[g].outcome = "none" /\ chain[g] \in Chains
  BY <1>1, Underway DEF At, Staged, Steer
<1>4. PICK s : s = [id |-> chain[g].id, outcome |-> "handled", note |-> "absent"]
  OBVIOUS
<1>5. s \in Settlements /\ s.id = chain[g].id
  BY <1>3, <1>4 DEF Settlements, Chains, Turns, Outcomes
<1>6. GotoWith(g, "prompt", "handled") /\ "handled" \in Outcomes
  <2>1. chain' = [chain EXCEPT ![g].outcome = "handled"]
    BY DEF Steer
  <2>2. [chain[g] EXCEPT !.at = "prompt", !.outcome = "handled"]
          = [chain[g] EXCEPT !.outcome = "handled"]
    BY <1>1, <1>3 DEF At, Chains
  <2> QED
    BY <2>1, <2>2 DEF GotoWith, Core, Parts, Outcomes
<1>7. Settle(g, D(g), s) \/ (Observe(g, D(g), s) /\ UNCHANGED row)
  BY <1>4 DEF Steer
<1>8. Core'
  BY <1>1, <1>2, <1>3, <1>5, <1>6, <1>7, SettleKeeps
<1> QED
  BY <1>2, <1>8, TypedKept

\* So does settleVisibleTurn.
LEMMA SettleTurnKeeps ==
  ASSUME Core, Typed, NEW g \in Coordinators, SettleTurn(g)
  PROVE  Core' /\ Typed'
<1>1. At(g, "settle") /\ ~At(g, "idle")
  BY DEF SettleTurn, At
<1>2. UNCHANGED <<worker, prompts, history>> /\ (UNCHANGED budget \/ Fail)
  BY DEF SettleTurn, process
<1>3. chain[g].id # NoId /\ chain[g].outcome # "none" /\ chain[g] \in Chains
  BY <1>1, Underway DEF At, Staged
<1>4. PICK s, outcome : s = MySettlement(g) /\ outcome = chain[g].outcome
  OBVIOUS
<1>5. s \in Settlements /\ s.id = chain[g].id /\ outcome \in Outcomes
  BY <1>3, <1>4 DEF MySettlement, Settlements, Chains, Turns
<1>6. Settle(g, D(g), s) \/ (Observe(g, D(g), s) /\ UNCHANGED row)
  BY <1>4 DEF SettleTurn
<1>7. Goto(g, "residual")
  BY DEF SettleTurn
<1>8. Core'
  BY <1>1, <1>2, <1>3, <1>4, <1>5, <1>6, <1>7, SettleKeeps
<1> QED
  BY <1>2, <1>8, TypedKept

\* deliverIfRunnable returns after a call, or a call that failed.
LEMMA ReturnCalls ==
  ASSUME Core, NEW g \in Coordinators, ~At(g, "idle"), Return(g),
         NEW r, row' = [row EXCEPT ![D(g)] = r], Touch(row[D(g)], r, MyClaim(g)),
         NEW s \in Settlements \cup {NoSettlement}, s.id \in {chain[g].id, NoId},
         observed' \in {observed, [observed EXCEPT ![g][D(g)] = s]},
         UNCHANGED <<worker, prompts>>
  PROVE  Core'
<1>1. PICK d, id : d = D(g) /\ id = chain[g].id
  OBVIOUS
<1>2. d \in Deliveries /\ id \in Mine(g) /\ worker[g].state # "new"
  BY <1>1, Underway
<1>3. Enter(g, "done", d, NoId) /\ "done" \in Stages
  BY <1>1 DEF Return, Stages
<1>4. PICK k \in Chains : /\ chain' = [chain EXCEPT ![g] = k]
                          /\ k.at = "done" /\ k.outcome = "none" /\ k.id = NoId /\ k.d = d
  BY <1>2, <1>3, Entering
<1>5. Staged(k)
  BY <1>2, <1>4 DEF Staged
<1>6. Ahead(k, row[k.d])'
  BY <1>4 DEF Ahead
<1>7. Touch(row[d], r, ClaimBy(g, id))
  BY <1>1 DEF MyClaim
<1>8. k.at = "prompt" => k.outcome # "none"
  BY <1>4
<1> QED
  BY <1>1, <1>2, <1>4, <1>5, <1>6, <1>7, <1>8, Calls

\* So does settling, or giving up, a claim that is left.
LEMMA ResidualKeeps ==
  ASSUME Core, Typed, NEW g \in Coordinators, Residual(g)
  PROVE  Core' /\ Typed'
<1>1. At(g, "residual") /\ ~At(g, "idle")
  BY DEF Residual, At
<1>2. UNCHANGED <<worker, prompts, history>> /\ (UNCHANGED budget \/ Fail)
  BY DEF Residual, process
<1>3. /\ chain[g] \in Chains /\ (chain[g].outcome # "none" => chain[g].id # NoId)
  BY <1>1, Underway DEF At, Staged
<1>4. PICK s, outcome : s = MySettlement(g) /\ outcome = chain[g].outcome
  OBVIOUS
<1>5. outcome # "none" => s \in Settlements /\ s.id = chain[g].id /\ outcome \in Outcomes
  BY <1>3, <1>4 DEF MySettlement, Settlements, Chains, Turns
<1>6. NoSettlement \in Settlements \cup {NoSettlement} /\ NoSettlement.id = NoId
  BY DEF NoSettlement
<1>7. CASE outcome # "none" /\ Settle(g, D(g), s) /\ Goto(g, "after")
  BY <1>1, <1>2, <1>3, <1>4, <1>5, <1>7, SettleKeeps, TypedKept
<1>8. CASE /\ outcome = "none" /\ Goto(g, "after") /\ UNCHANGED observed
           /\ \E r \in {MarkUncertain(row[D(g)], MyClaim(g)), Release(row[D(g)], MyClaim(g))} :
                row' = [row EXCEPT ![D(g)] = r]
  <2>1. PICK r : row' = [row EXCEPT ![D(g)] = r] /\ Touch(row[D(g)], r, MyClaim(g))
    BY <1>8 DEF Touch
  <2>2. Core'
    BY <1>1, <1>2, <1>3, <1>4, <1>6, <1>8, <2>1, CallingKeeps
  <2> QED
    BY <1>2, <2>2, TypedKept
<1>9. CASE /\ Return(g) /\ UNCHANGED row
           /\ UNCHANGED observed \/ (outcome # "none" /\ Observe(g, D(g), s))
  <2>1. PICK r : r = row[D(g)]
    OBVIOUS
  <2>2. row' = [row EXCEPT ![D(g)] = r] /\ Touch(row[D(g)], r, MyClaim(g))
    BY <1>9, <2>1 DEF Core, Parts, Touch
  <2>3. PICK t \in Settlements \cup {NoSettlement} :
          /\ t.id \in {chain[g].id, NoId}
          /\ observed' \in {observed, [observed EXCEPT ![g][D(g)] = t]}
    BY <1>5, <1>6, <1>9 DEF Observe
  <2>4. Core'
    BY <1>1, <1>2, <1>9, <2>2, <2>3, ReturnCalls
  <2> QED
    BY <1>2, <2>4, TypedKept
<1> QED
  BY <1>4, <1>7, <1>8, <1>9 DEF Residual

\* So does what becomes of the row afterwards.
LEMMA AfterResidualKeeps ==
  ASSUME Core, Typed, NEW g \in Coordinators, AfterResidual(g)
  PROVE  Core' /\ Typed'
<1>1. At(g, "after") /\ ~At(g, "idle")
  BY DEF AfterResidual, At
<1>2. UNCHANGED <<worker, prompts>>
  BY DEF AfterResidual, process
<1>3. {"uncertain", "ready"} \subseteq Phases
  BY DEF Phases
<1>4. CASE Finalize(g, "uncertain", "uncertain", FALSE)
  BY <1>1, <1>2, <1>3, <1>4, FinalizeKeeps DEF Typed
<1>5. CASE Finalize(g, "failed", "ready", TRUE)
  BY <1>1, <1>2, <1>3, <1>5, FinalizeKeeps DEF Typed
<1>6. CASE Return(g) /\ UNCHANGED <<row, history, observed, budget>>
  BY <1>1, <1>2, <1>6, ReturnKeeps, TypedKept
<1> QED
  BY <1>4, <1>5, <1>6 DEF AfterResidual, FailUncertain, FailExhausted

\* So does consuming a row that was taken without executing it.
LEMMA ConsumeFinalKeeps ==
  ASSUME Core, Typed, NEW g \in Coordinators, ConsumeFinal(g)
  PROVE  Core' /\ Typed'
<1>1. At(g, "consume") /\ ~At(g, "idle")
  BY DEF ConsumeFinal, At
<1>2. UNCHANGED <<worker, prompts, history>> /\ (UNCHANGED budget \/ Fail) /\ Return(g)
  BY DEF ConsumeFinal, process
<1>3. chain[g].id # NoId /\ chain[g] \in Chains
  BY <1>1, Underway DEF At, Staged
<1>4. PICK d, s : /\ d = D(g)
                  /\ s = [id |-> chain[g].id, outcome |-> "finalize", note |-> "absent"]
  OBVIOUS
<1>5. s \in Settlements /\ s.id = chain[g].id
  BY <1>3, <1>4 DEF Settlements, Chains, Turns, Outcomes
<1>6. CASE Settle(g, D(g), s)
  <2>1. PICK r, t : /\ row' = [row EXCEPT ![d] = r] /\ Touch(row[d], r, ClaimBy(g, s.id))
                    /\ t \in Settlements \cup {NoSettlement} /\ t.id \in {s.id, NoId}
                    /\ observed' = [observed EXCEPT ![g][d] = t]
    BY <1>4, <1>5, <1>6, Settling
  <2>2. ClaimBy(g, s.id) = MyClaim(g)
    BY <1>5 DEF MyClaim
  <2>3. Core'
    BY <1>1, <1>2, <1>4, <1>5, <2>1, <2>2, ReturnCalls
  <2> QED
    BY <1>2, <2>3, TypedKept
<1>7. CASE UNCHANGED <<row, observed>>
  BY <1>1, <1>2, <1>7, ReturnKeeps, TypedKept
<1> QED
  BY <1>4, <1>6, <1>7 DEF ConsumeFinal

\* So does the end of a pass.
LEMMA DoneKeeps ==
  ASSUME Core, Typed, NEW g \in Coordinators, Done(g)
  PROVE  Core' /\ Typed'
<1>1. ~At(g, "idle")
  BY DEF Done, At
<1>2. UNCHANGED <<row, observed, worker, prompts, history, budget>>
  BY DEF Done, process, store
<1>3. PICK k : k = IdleChain
  OBVIOUS
<1>4. k \in Chains /\ Staged(k) /\ k.id = NoId /\ k.at = "idle"
  <2>1. NoDelivery \in Rows
    BY RowAssumption DEF NoDelivery, Rows, Phases
  <2> QED
    BY <1>3, <2>1 DEF IdleChain, Chains, Staged, Stages
<1>5. chain' = [chain EXCEPT ![g] = k]
  BY <1>3 DEF Done
<1>6. Core'
  BY <1>1, <1>2, <1>4, <1>5, Moves
<1> QED
  BY <1>2, <1>6, TypedKept

\* So does its beginning, which may settle what a pass before it left observed.
LEMMA BeginKeeps ==
  ASSUME Core, Typed, SchedulingTyped, NEW g \in Coordinators, Begin(g)
  PROVE  Core' /\ Typed'
<1>1. At(g, "idle") /\ worker[g].state # "new" /\ UNCHANGED <<worker, prompts>>
  BY DEF Begin, Started, process
<1>2. chain[g] = IdleChain
  BY <1>1 DEF Core, Staged, At
<1>3. queue[g] \in Seq(Deliveries) /\ queue[g] # <<>>
  BY DEF SchedulingTyped, Begin
<1>4. PICK d, s, c, u : /\ d = Head(queue[g]) /\ s = observed[g][d] /\ c = ClaimBy(g, s.id)
                        /\ u = row[d]
  OBVIOUS
<1>5. d \in Deliveries
  BY <1>3, <1>4
<1>6. s \in Settlements \cup {NoSettlement} /\ s.id \in Mine(g) /\ u \in Rows
  BY <1>4, <1>5 DEF Core, Parts, Mine, OwnIds
<1>7. NoSettlement \in Settlements \cup {NoSettlement} /\ NoSettlement.id = NoId
  BY DEF NoSettlement
<1>8. row' = row => row' = [row EXCEPT ![d] = u]
  BY <1>4 DEF Core, Parts
<1>9. Touch(u, u, c)
  BY DEF Touch
<1>10. "done" \in Stages /\ "consume" \in Stages
  BY DEF Stages
<1>11. ASSUME NEW k \in Chains, chain' = [chain EXCEPT ![g] = k],
              k.at \in {"lookup", "done", "consume"}, k.d = d, k.outcome = "none",
              k.id \in {s.id, NoId},
              k.at = "lookup" => k.id = NoId, k.at = "consume" => k.id # NoId,
              NEW r, row' = [row EXCEPT ![d] = r], Touch(u, r, c),
              NEW t \in Settlements \cup {NoSettlement}, t.id \in {s.id, NoId},
              observed' \in {observed, [observed EXCEPT ![g][d] = t]}
       PROVE  Core'
  <2>1. Staged(k)
    BY <1>5, <1>11 DEF Staged
  <2>2. Ahead(k, row[k.d])'
    BY <1>11 DEF Ahead
  <2>3. PICK id : id = s.id
    OBVIOUS
  <2>4. Touch(row[d], r, ClaimBy(g, id))
    BY <1>4, <1>11, <2>3
  <2>5. k.at = "prompt" => k.outcome # "none"
    BY <1>11
  <2>6. id \in Mine(g) \cup {NoId}
    BY <1>6, <2>3
  <2> QED
    BY <1>1, <1>5, <1>11, <2>1, <2>2, <2>3, <2>4, <2>5, <2>6, Calls
<1>12. CASE /\ \/ chain' = [chain EXCEPT ![g].at = "lookup", ![g].d = d, ![g].snapshot = u]
               \/ Enter(g, "done", d, NoId)
            /\ Observe(g, d, NoSettlement)
            /\ UNCHANGED <<row, history, budget>>
  <2>1. PICK k \in Chains : /\ chain' = [chain EXCEPT ![g] = k]
                            /\ k.at \in {"lookup", "done"} /\ k.outcome = "none"
                            /\ k.id = NoId /\ k.d = d
    <3>1. CASE Enter(g, "done", d, NoId)
      BY <1>5, <1>10, <3>1, Entering
    <3>2. CASE chain' = [chain EXCEPT ![g].at = "lookup", ![g].d = d, ![g].snapshot = u]
      <4>1. PICK k : k = [IdleChain EXCEPT !.at = "lookup", !.d = d, !.snapshot = u]
        OBVIOUS
      <4>2. chain' = [chain EXCEPT ![g] = k]
        BY <1>2, <3>2, <4>1 DEF Core, Parts
      <4>3. k \in Chains /\ k.at = "lookup" /\ k.outcome = "none" /\ k.id = NoId /\ k.d = d
        BY <1>5, <1>6, <4>1 DEF IdleChain, Chains, Stages
      <4> QED
        BY <4>2, <4>3
    <3> QED
      BY <1>12, <3>1, <3>2
  <2>2. observed' \in {observed, [observed EXCEPT ![g][d] = NoSettlement]}
    BY <1>12 DEF Observe
  <2>3. Core'
    BY <1>7, <1>8, <1>9, <1>11, <1>12, <2>1, <2>2
  <2> QED
    BY <1>12, <2>3, TypedKept
<1>13. CASE /\ Enter(g, "done", d, NoId)
            /\ \/ s # NoSettlement /\ Settle(g, d, s) /\ UNCHANGED budget
               \/ UNCHANGED <<row, observed>> /\ Fail
            /\ UNCHANGED history
  <2>1. PICK k \in Chains : /\ chain' = [chain EXCEPT ![g] = k]
                            /\ k.at = "done" /\ k.outcome = "none" /\ k.id = NoId /\ k.d = d
    BY <1>5, <1>10, <1>13, Entering
  <2>2. \E r, t : /\ row' = [row EXCEPT ![d] = r] /\ Touch(u, r, c)
                  /\ t \in Settlements \cup {NoSettlement} /\ t.id \in {s.id, NoId}
                  /\ observed' \in {observed, [observed EXCEPT ![g][d] = t]}
    <3>1. CASE s # NoSettlement /\ Settle(g, d, s)
      BY <1>4, <1>6, <3>1, Settling
    <3>2. CASE UNCHANGED <<row, observed>>
      BY <1>7, <1>8, <1>9, <3>2
    <3> QED
      BY <1>13, <3>1, <3>2
  <2>3. Core'
    BY <1>11, <2>1, <2>2
  <2> QED
    BY <1>13, <2>3, TypedKept
<1>14. CASE /\ s.note # "absent"
            /\ \/ /\ Enter(g, "consume", d, s.id)
                  /\ WriteTurn(d, s.note)
                  /\ Observe(g, d, [s EXCEPT !.note = "absent"])
                  /\ UNCHANGED budget
               \/ Enter(g, "done", d, NoId) /\ UNCHANGED <<history, observed>> /\ Fail
            /\ UNCHANGED row
  <2>1. s \in Settlements /\ s.id \in ClaimIds /\ s.note \in Turns
    BY <1>6, <1>14 DEF Settlements, NoSettlement
  <2>2. CASE Enter(g, "done", d, NoId) /\ UNCHANGED <<history, observed>> /\ Fail
    <3>1. PICK k \in Chains : /\ chain' = [chain EXCEPT ![g] = k]
                              /\ k.at = "done" /\ k.outcome = "none" /\ k.id = NoId /\ k.d = d
      BY <1>5, <1>10, <2>2, Entering
    <3>2. Core'
      BY <1>7, <1>8, <1>9, <1>11, <1>14, <2>2, <3>1
    <3> QED
      BY <2>2, <3>2, TypedKept
  <2>3. CASE /\ Enter(g, "consume", d, s.id)
             /\ WriteTurn(d, s.note)
             /\ Observe(g, d, [s EXCEPT !.note = "absent"])
             /\ UNCHANGED budget
    <3>1. PICK k \in Chains : /\ chain' = [chain EXCEPT ![g] = k]
                              /\ k.at = "consume" /\ k.outcome = "none" /\ k.id = s.id /\ k.d = d
      BY <1>5, <1>10, <2>1, <2>3, Entering
    <3>2. PICK t : t = [s EXCEPT !.note = "absent"]
      OBVIOUS
    <3>3. t \in Settlements /\ t.id = s.id
      BY <2>1, <3>2 DEF Settlements, Turns
    <3>4. observed' \in {observed, [observed EXCEPT ![g][d] = t]}
      BY <2>3, <3>2 DEF Observe
    <3>5. k.id # NoId
      BY <2>1, <3>1, DeliveryAssumption
    <3>6. Core'
      BY <1>8, <1>9, <1>11, <1>14, <3>1, <3>3, <3>4, <3>5
    <3>7. HistoryTyped'
      BY <1>5, <2>1, <2>3, HistoryKept DEF Typed
    <3> QED
      BY <2>3, <3>6, <3>7, BudgetKept DEF Typed
  <2> QED
    BY <1>14, <2>2, <2>3
<1>15. Unsettled(g, d) => s # NoSettlement
  <2>1. ASSUME Unsettled(g, d), s = NoSettlement PROVE FALSE
    <3>1. u.claim = c /\ c.id = NoId /\ c = [boot |-> worker[g].boot, id |-> NoId]
      BY <1>4, <1>7, <2>1 DEF Unsettled, ClaimBy
    <3>2. worker[g].boot \in Boots /\ u.claim \in Claims \cup {NoClaim}
      BY <1>6 DEF Rows, Core, Parts, Workers
    <3>3. u.claim \notin Claims
      BY <3>1, DeliveryAssumption DEF Claims
    <3>4. u.claim # NoClaim
      BY <3>1, <3>2, DeliveryAssumption
    <3> QED
      BY <3>2, <3>3, <3>4
  <2> QED
    BY <2>1
<1> QED
  BY <1>4, <1>12, <1>13, <1>14, <1>15 DEF Begin

-----------------------------------------------------------------------------
(* The environment                                                         *)

\* Nothing of Core changes.
LEMMA CoreUnchanged ==
  ASSUME Core, UNCHANGED <<row, chain, observed, worker, prompts>>
  PROVE  Core'
<1>1. Parts' /\ PromptsTyped' /\ PromptsSpent' /\ PromptedAtMostOnce'
  BY DEF Core, Parts, PromptsTyped, PromptsSpent, PromptedAtMostOnce
<1>2. Unstarted' /\ PromptHoldsClaim'
  BY DEF Core, Unstarted, PromptHoldsClaim, Started, At, D, MyClaim, ClaimBy, Ahead, HeldBy
<1>3. Unique'
  BY DEF Core, Unique, OwnIds
<1> QED
  BY <1>1, <1>2, <1>3 DEF Core, At, Started

\* Claims are given up, and rows that no prompt was counted for appear: what a chain
\* of a coordinator that does not run may find.
LEMMA RowsKeep ==
  ASSUME Core, UNCHANGED <<chain, prompts>>, row' \in [Deliveries -> Rows],
         \A d \in Deliveries : Spent(row[d]) => Spent(row'[d]),
         \A d \in Deliveries : row'[d].claim # NoClaim => row'[d] = row[d]
  PROVE  PromptsTyped' /\ PromptsSpent' /\ PromptedAtMostOnce' /\ Unstarted'
<1>1. PromptsTyped' /\ PromptsSpent' /\ PromptedAtMostOnce'
  BY DEF Core, PromptsTyped, PromptsSpent, PromptedAtMostOnce
<1>2. Unstarted'
  <2> SUFFICES ASSUME NEW h \in Coordinators, chain[h].at \in {"claim", "prepare", "body"},
                      row'[D(h)].claim # NoClaim, row'[D(h)].claim.id = chain[h].id
               PROVE  row'[D(h)].phase # "started"
    BY DEF Unstarted, Ahead, D
  <2>1. D(h) \in Deliveries /\ Ahead(chain[h], row[D(h)])
    BY Underway DEF At
  <2>2. row'[D(h)] = row[D(h)]
    BY <2>1
  <2> QED
    BY <2>1, <2>2 DEF Ahead
<1> QED
  BY <1>1, <1>2

\* What is left of a claim that is recovered or abandoned.
LEMMA OrphanFacts ==
  ASSUME NEW r \in Rows, NEW s \in {r, Orphan(r)}
  PROVE  s \in Rows /\ (Spent(r) => Spent(s)) /\ (s.claim # NoClaim => s = r)
<1>1. CASE s = r
  BY <1>1
<1>2. CASE s = Orphan(r)
  <2>1. PICK p : p = IF r.phase = "started" THEN "uncertain" ELSE Reopened(r.phase)
    OBVIOUS
  <2>2. p \in Phases /\ (r.phase \in {"started", "uncertain"} => p = "uncertain")
    BY <2>1 DEF Reopened, Phases, Rows
  <2>3. s = [r EXCEPT !.phase = p, !.claim = NoClaim]
    BY <1>2, <2>1 DEF Orphan
  <2> QED
    BY <2>2, <2>3 DEF Rows, Spent
<1> QED
  BY <1>1, <1>2

\* A new delivery keeps the invariant: its row counts no prompt and is held by none.
LEMMA FinishOperationKeeps ==
  ASSUME Core, NEW d \in Deliveries, FinishOperation(d)
  PROVE  Core'
<1>1. row' = [row EXCEPT ![d] = NewDelivery] /\ row[d].state = "none"
  BY DEF FinishOperation
<1>2. UNCHANGED <<chain, observed, worker, prompts>>
  BY DEF FinishOperation, process
<1>3. NewDelivery \in Rows /\ NewDelivery.claim = NoClaim
  BY RowAssumption DEF NewDelivery, Rows, Phases
<1>4. row' \in [Deliveries -> Rows]
  BY <1>1, <1>3 DEF Core, Parts
<1>5. row'[d] = NewDelivery /\ \A e \in Deliveries : e # d => row'[e] = row[e]
  BY <1>1 DEF Core, Parts
<1>6. ~Spent(row[d])
  BY <1>1 DEF Spent
<1>7. PromptsTyped' /\ PromptsSpent' /\ PromptedAtMostOnce' /\ Unstarted'
  BY <1>2, <1>3, <1>4, <1>5, <1>6, RowsKeep
<1>8. Parts'
  BY <1>2, <1>4 DEF Core, Parts
<1>9. Unique'
  BY <1>2 DEF Core, Unique, OwnIds
<1>10. PromptHoldsClaim'
  <2> SUFFICES ASSUME NEW g \in Coordinators, Started(g), At(g, "prompt"), chain[g].outcome = "none"
               PROVE  HeldBy(row'[D(g)], MyClaim(g)) /\ row'[D(g)].phase = "started"
    BY <1>2 DEF PromptHoldsClaim, Started, At, D, MyClaim, ClaimBy, HeldBy
  <2>1. HeldBy(row[D(g)], MyClaim(g)) /\ row[D(g)].phase = "started" /\ D(g) \in Deliveries
    BY Underway DEF Core, PromptHoldsClaim, At
  <2>2. D(g) # d
    BY <1>1, <2>1 DEF HeldBy
  <2> QED
    BY <1>5, <2>1, <2>2
<1> QED
  BY <1>2, <1>7, <1>8, <1>9, <1>10 DEF Core, At, Started

\* So does the start of a coordinator, which recovers the claims of other boots: nobody runs.
LEMMA StartKeeps ==
  ASSUME Core, boot \in Boots, NEW g \in Coordinators, Start(g)
  PROVE  Core'
<1>1. /\ worker' = [worker EXCEPT ![g] = [state |-> "running", boot |-> boot]]
      /\ row' = [d \in Deliveries |-> RecoverForeign(row[d], boot)]
      /\ \A h \in Coordinators : worker[h].state # "running"
      /\ At(g, "idle")
  BY DEF Start, Core
<1>2. UNCHANGED <<chain, observed, prompts>>
  BY DEF Start
<1>3. \A d \in Deliveries : row'[d] \in {row[d], Orphan(row[d])}
  BY <1>1 DEF RecoverForeign
<1>4. \A d \in Deliveries : /\ row'[d] \in Rows /\ (Spent(row[d]) => Spent(row'[d]))
                            /\ (row'[d].claim # NoClaim => row'[d] = row[d])
  BY <1>3, OrphanFacts DEF Core, Parts
<1>5. row' \in [Deliveries -> Rows]
  BY <1>1, <1>4
<1>6. PromptsTyped' /\ PromptsSpent' /\ PromptedAtMostOnce' /\ Unstarted'
  BY <1>2, <1>4, <1>5, RowsKeep
<1>7. /\ worker' \in [Coordinators -> Workers]
      /\ \A h \in Coordinators : h # g => worker'[h] = worker[h]
  BY <1>1 DEF Core, Parts, Workers
<1>8. Parts'
  BY <1>2, <1>5, <1>7 DEF Core, Parts
<1>9. Unique'
  BY <1>2 DEF Core, Unique, OwnIds
<1>10. \A h \in Coordinators : Started(h)' => h = g
  BY <1>1, <1>7 DEF Started
<1>11. PromptHoldsClaim'
  BY <1>1, <1>2, <1>10 DEF PromptHoldsClaim, At
<1>12. \A h \in Coordinators : worker'[h].state = "new" => At(h, "idle")'
  BY <1>1, <1>2, <1>7 DEF Core, At
<1>13. \A h \in Coordinators : Staged(chain'[h])
  BY <1>2 DEF Core
<1>14. \A h, i \in Coordinators : Started(h)' /\ Started(i)' => h = i
  BY <1>10
<1> QED
  BY <1>6, <1>8, <1>9, <1>11, <1>12, <1>13, <1>14 DEF Core

\* So does a stop, whether or not the claims of the boot can be abandoned.
LEMMA StopKeeps ==
  ASSUME Core, NEW g \in Coordinators, Stop(g)
  PROVE  Core'
<1>1. /\ worker' = [worker EXCEPT ![g].state = "stopped"]
      /\ row' = row \/ row' = [d \in Deliveries |-> AbandonOwned(row[d], boot)]
      /\ observed' = [observed EXCEPT ![g] = [d \in Deliveries |-> NoSettlement]]
      /\ Started(g)
  BY DEF Stop
<1>2. UNCHANGED <<chain, prompts>>
  BY DEF Stop
<1>3. \A d \in Deliveries : row'[d] \in {row[d], Orphan(row[d])}
  BY <1>1 DEF AbandonOwned
<1>4. \A d \in Deliveries : /\ row'[d] \in Rows /\ (Spent(row[d]) => Spent(row'[d]))
                            /\ (row'[d].claim # NoClaim => row'[d] = row[d])
  BY <1>3, OrphanFacts DEF Core, Parts
<1>5. row' \in [Deliveries -> Rows]
  BY <1>1, <1>4 DEF Core, Parts
<1>6. PromptsTyped' /\ PromptsSpent' /\ PromptedAtMostOnce' /\ Unstarted'
  BY <1>2, <1>4, <1>5, RowsKeep
<1>7. /\ worker' \in [Coordinators -> Workers]
      /\ worker'[g].state = "stopped" /\ \A h \in Coordinators : h # g => worker'[h] = worker[h]
  BY <1>1 DEF Core, Parts, Workers
<1>8. Parts'
  BY <1>1, <1>2, <1>5, <1>7 DEF Core, Parts
<1>9. \A h \in Coordinators : OwnIds(h)' \subseteq OwnIds(h) \cup {NoId}
  <2> TAKE h \in Coordinators
  <2>1. CASE h = g
    <3>1. \A d \in Deliveries : observed'[g][d].id = NoId
      BY <1>1 DEF Core, Parts, NoSettlement
    <3> QED
      BY <1>2, <2>1, <3>1 DEF OwnIds
  <2>2. CASE h # g
    BY <1>1, <1>2, <2>2 DEF OwnIds, Core, Parts
  <2> QED
    BY <2>1, <2>2
<1>10. Unique'
  BY <1>9 DEF Core, Unique
<1>11. \A h \in Coordinators : ~Started(h)'
  BY <1>1, <1>7 DEF Started, Core
<1>12. PromptHoldsClaim'
  BY <1>11 DEF PromptHoldsClaim
<1>13. \A h \in Coordinators : worker'[h].state = "new" => At(h, "idle")'
  BY <1>1, <1>2, <1>7 DEF Core, At
<1>14. \A h \in Coordinators : Staged(chain'[h])
  BY <1>2 DEF Core
<1> QED
  BY <1>6, <1>8, <1>10, <1>11, <1>12, <1>13, <1>14 DEF Core

\* So does a crash: no chain survives it.
LEMMA CrashKeeps ==
  ASSUME Core, Crash
  PROVE  Core'
<1>1. /\ worker' = [g \in Coordinators |->
           IF worker[g].state = "new" THEN worker[g] ELSE [worker[g] EXCEPT !.state = "dead"]]
      /\ observed' = [g \in Coordinators |-> [d \in Deliveries |-> NoSettlement]]
      /\ chain' = [g \in Coordinators |-> IdleChain]
      /\ UNCHANGED <<row, prompts>>
  BY DEF Crash, store
<1>2. IdleChain \in Chains /\ IdleChain.at = "idle" /\ IdleChain.id = NoId /\ Staged(IdleChain)
  <2>1. NoDelivery \in Rows
    BY RowAssumption DEF NoDelivery, Rows, Phases
  <2> QED
    BY <2>1 DEF IdleChain, Chains, Stages, Staged
<1>3. /\ worker' \in [Coordinators -> Workers]
      /\ \A g \in Coordinators : worker'[g].state \in {"new", "dead"}
  <2>1. \A g \in Coordinators : worker'[g] \in Workers /\ worker'[g].state \in {"new", "dead"}
    BY <1>1 DEF Core, Parts, Workers
  <2> QED
    BY <1>1, <2>1
<1>4. Parts'
  BY <1>1, <1>2, <1>3 DEF Core, Parts
<1>5. \A g \in Coordinators : OwnIds(g)' \subseteq {NoId}
  BY <1>1, <1>2 DEF OwnIds, NoSettlement
<1>6. Unique'
  BY <1>5 DEF Unique
<1>7. \A g \in Coordinators : chain'[g] = IdleChain /\ ~Started(g)'
  BY <1>1, <1>3 DEF Started
<1>8. Unstarted' /\ PromptHoldsClaim'
  BY <1>2, <1>7 DEF Unstarted, Ahead, PromptHoldsClaim
<1>9. PromptsTyped' /\ PromptsSpent' /\ PromptedAtMostOnce'
  BY <1>1 DEF Core, PromptsTyped, PromptsSpent, PromptedAtMostOnce
<1> QED
  BY <1>2, <1>4, <1>6, <1>7, <1>8, <1>9 DEF Core, At

-----------------------------------------------------------------------------
(* The other variables                                                     *)

\* A wake appends deliveries, in the order of their numbers.
LEMMA WakeQueues ==
  ASSUME NEW g \in Coordinators, Wake(g)
  PROVE  \E new \in Seq(Deliveries) : queue' = [queue EXCEPT ![g] = @ \o new]
<1>1. PICK missing : missing = Pending \ ToSet(queue[g])
  OBVIOUS
<1>2. PICK new \in InOrder(missing) : queue' = [queue EXCEPT ![g] = @ \o new]
  BY <1>1 DEF Wake, Coalesced
<1>3. missing \subseteq Deliveries /\ IsFiniteSet(Deliveries)
  BY <1>1, DeliveryAssumption DEF Pending
<1>4. Cardinality(missing) \in Nat
  BY <1>3, FS_Subset, FS_CardinalityType
<1>5. new \in Seq(Deliveries)
  BY <1>2, <1>3, <1>4 DEF InOrder
<1> QED
  BY <1>2, <1>5

\* ... and keeps the queue well typed.
LEMMA WakeKeeps ==
  ASSUME SchedulingTyped, NEW g \in Coordinators, Wake(g)
  PROVE  SchedulingTyped'
<1>1. PICK new \in Seq(Deliveries) : queue' = [queue EXCEPT ![g] = @ \o new]
  BY WakeQueues
<1>2. queue' \in [Coordinators -> Seq(Deliveries)]
  BY <1>1 DEF SchedulingTyped
<1>3. dirty' \in [Coordinators -> SUBSET Deliveries]
  BY DEF SchedulingTyped, Wake, Coalesced, Pending
<1> QED
  BY <1>2, <1>3 DEF SchedulingTyped

\* A chain pass ends: its delivery leaves the queue, or stays for one more.
LEMMA DequeueKeeps ==
  ASSUME SchedulingTyped, Queued, NEW g \in Coordinators, Begin(g) \/ Done(g)
  PROVE  SchedulingTyped'
<1>1. CASE Begin(g)
  BY <1>1 DEF Begin, SchedulingTyped
<1>2. CASE Done(g) /\ UNCHANGED scheduling
  BY <1>2 DEF SchedulingTyped, scheduling
<1>3. CASE Done(g) /\ ~UNCHANGED scheduling
  <2>1. PICK q \in {queue[g], Tail(queue[g])} : queue' = [queue EXCEPT ![g] = q]
    BY <1>3 DEF Done
  <2>2. dirty' = [dirty EXCEPT ![g] = @ \ {D(g)}]
    BY <1>3 DEF Done
  <2>3. queue[g] # <<>>
    BY <1>3 DEF Done, Queued, At
  <2>4. Tail(queue[g]) \in Seq(Deliveries)
    BY <2>3 DEF SchedulingTyped
  <2> QED
    BY <2>1, <2>2, <2>4 DEF SchedulingTyped
<1> QED
  BY <1>1, <1>2, <1>3

\* The steps of g's chain, the ones nothing obliges it to take included.
Steps(g) == \/ ChainStep(g)
            \/ Blocked(g) \/ FailBeforeClaim(g) \/ EndBeforePrompt(g) \/ Steer(g)

\* A chain step leaves the scheduling, the session and the clock well typed.
LEMMA StepsRest ==
  ASSUME Core, Rest, NEW g \in Coordinators, Steps(g)
  PROVE  SchedulingTyped' /\ SessionTyped' /\ ExpiryTyped' /\ boot' = boot
<1> USE DEF Rest
<1>1. CASE Begin(g) \/ Done(g)
  <2>1. UNCHANGED <<turn, waiting, expired, boot>>
    BY <1>1 DEF Begin, Done, session, store, process
  <2> QED
    BY <1>1, <2>1, DequeueKeeps DEF SessionTyped, ExpiryTyped
<1>2. CASE Decide(g)
  <2>1. UNCHANGED <<turn, waiting, boot, queue, dirty>>
    BY <1>2 DEF Decide, session, scheduling, process
  <2>2. ExpiryTyped'
    BY <1>2 DEF Decide, ExpiryTyped
  <2> QED
    BY <2>1, <2>2 DEF SessionTyped, SchedulingTyped
<1>3. CASE BeginTurn(g) \/ ReleaseTurn(g)
  <2>1. UNCHANGED <<expired, waiting, boot, queue, dirty>>
    BY <1>3 DEF BeginTurn, ReleaseTurn, store, scheduling, process
  <2>2. turn' \in {turn, [turn EXCEPT ![g] = "delivery"], [turn EXCEPT ![g] = "none"]}
    BY <1>3 DEF BeginTurn, ReleaseTurn
  <2> QED
    BY <2>1, <2>2 DEF SessionTyped, SchedulingTyped, ExpiryTyped
<1>4. CASE \/ Configure(g) \/ Claim(g) \/ PrepareTurn(g) \/ StartPrompt(g) \/ EndPrompt(g)
           \/ SettleTurn(g) \/ Residual(g) \/ AfterResidual(g) \/ ConsumeFinal(g)
           \/ Blocked(g) \/ FailBeforeClaim(g) \/ EndBeforePrompt(g) \/ Steer(g)
  <2>1. UNCHANGED <<expired, turn, waiting, boot, queue, dirty>>
    BY <1>4 DEF Configure, Claim, PrepareTurn, StartPrompt, EndPrompt, SettleTurn, Residual,
       AfterResidual, ConsumeFinal, Blocked, FailBeforeClaim, EndBeforePrompt, Steer,
       store, scheduling, process, session
  <2> QED
    BY <2>1 DEF SessionTyped, SchedulingTyped, ExpiryTyped
<1> QED
  BY <1>1, <1>2, <1>3, <1>4 DEF Steps, ChainStep

\* It leaves the other chains alone.
LEMMA StepsAlone ==
  ASSUME Core, NEW g \in Coordinators, Steps(g)
  PROVE  worker' = worker /\ \A h \in Coordinators : h # g => chain'[h] = chain[h]
<1>1. worker' = worker
  BY DEF Steps, ChainStep, Begin, Done, Decide, BeginTurn, ReleaseTurn, Configure, Claim,
     PrepareTurn, StartPrompt, EndPrompt, SettleTurn, Residual, AfterResidual, ConsumeFinal,
     Blocked, FailBeforeClaim, EndBeforePrompt, Steer, process
<1>2. \E k : chain' = [chain EXCEPT ![g] = k]
  <2>1. /\ \A stage : Goto(g, stage) => \E k : chain' = [chain EXCEPT ![g] = k]
        /\ \A stage, outcome :
             GotoWith(g, stage, outcome) => \E k : chain' = [chain EXCEPT ![g] = k]
        /\ \A stage, d, id : Enter(g, stage, d, id) => \E k : chain' = [chain EXCEPT ![g] = k]
        /\ Return(g) => \E k : chain' = [chain EXCEPT ![g] = k]
    BY DEF Goto, GotoWith, Enter, Return, Core, Parts
  <2>2. \A note, phase, exhausted :
          Finalize(g, note, phase, exhausted) => \E k : chain' = [chain EXCEPT ![g] = k]
    BY <2>1 DEF Finalize
  <2>3. CASE Begin(g)
    BY <2>1, <2>3 DEF Begin, Core, Parts
  <2>4. CASE Done(g)
    BY <2>4 DEF Done
  <2>5. CASE BeginTurn(g)
    BY <2>1, <2>5 DEF BeginTurn, Core, Parts
  <2>6. CASE Decide(g) \/ Configure(g) \/ AfterResidual(g)
    BY <2>1, <2>2, <2>6 DEF Decide, Configure, AfterResidual, FailUncertain, FailExhausted
  <2>7. CASE Claim(g) \/ PrepareTurn(g) \/ StartPrompt(g)
    BY <2>1, <2>7 DEF Claim, PrepareTurn, StartPrompt, Failed
  <2>8. CASE EndPrompt(g) \/ EndBeforePrompt(g) \/ FailBeforeClaim(g) \/ ReleaseTurn(g)
    BY <2>1, <2>8 DEF EndPrompt, EndBeforePrompt, FailBeforeClaim, ReleaseTurn, EndTurn
  <2>9. CASE SettleTurn(g) \/ Residual(g) \/ ConsumeFinal(g) \/ Blocked(g)
    BY <2>1, <2>9 DEF SettleTurn, Residual, ConsumeFinal, Blocked
  <2>10. CASE Steer(g)
    BY <2>10 DEF Steer, Core, Parts
  <2> QED
    BY <2>3, <2>4, <2>5, <2>6, <2>7, <2>8, <2>9, <2>10 DEF Steps, ChainStep
<1> QED
  BY <1>1, <1>2 DEF Core, Parts

\* ... and keeps its delivery queued.
LEMMA StepsQueued ==
  ASSUME Core, SchedulingTyped, Queued, NEW g \in Coordinators, Steps(g)
  PROVE  Queued'
<1>1. worker' = worker /\ \A h \in Coordinators : h # g => chain'[h] = chain[h]
  BY StepsAlone
<1>2. CASE Done(g)
  <2>1. chain'[g] = IdleChain /\ IdleChain.at = "idle"
    BY <1>2 DEF Done, Core, Parts, IdleChain
  <2>2. \A h \in Coordinators : h # g => queue'[h] = queue[h]
    BY <1>2 DEF Done, SchedulingTyped, scheduling
  <2> QED
    BY <1>1, <2>1, <2>2 DEF Queued, Started, At
<1>3. CASE ~Done(g)
  <2>1. queue' = queue /\ (Begin(g) \/ ~At(g, "idle"))
    BY <1>3 DEF Steps, ChainStep, Begin, Decide, BeginTurn, ReleaseTurn, Configure, Claim,
       PrepareTurn, StartPrompt, EndPrompt, SettleTurn, Residual, AfterResidual, ConsumeFinal,
       Blocked, FailBeforeClaim, EndBeforePrompt, Steer, scheduling, At
  <2>2. Begin(g) => queue[g] # <<>>
    BY DEF Begin
  <2> QED
    BY <1>1, <2>1, <2>2 DEF Queued, Started, At
<1> QED
  BY <1>2, <1>3

\* Every step of a chain keeps the invariant.
LEMMA StepsKeep ==
  ASSUME IInv, NEW g \in Coordinators, Steps(g)
  PROVE  IInv'
<1>1. Core /\ Typed /\ SchedulingTyped
  BY DEF IInv, Rest, Typed
<1>2. Core' /\ Typed'
  BY <1>1, BeginKeeps, DoneKeeps, DecideKeeps, ConfigureKeeps, BeginTurnKeeps, ClaimKeeps,
     PrepareTurnKeeps, StartPromptKeeps, EndPromptKeeps, ReleaseTurnKeeps, SettleTurnKeeps,
     ResidualKeeps, AfterResidualKeeps, ConsumeFinalKeeps, BlockedKeeps, FailBeforeClaimKeeps,
     EndBeforePromptKeeps, SteerKeeps
     DEF Steps, ChainStep
<1>3. SchedulingTyped' /\ SessionTyped' /\ ExpiryTyped' /\ boot' = boot
  BY StepsRest DEF IInv
<1>4. Queued'
  BY <1>1, StepsQueued DEF IInv, Rest
<1> QED
  BY <1>2, <1>3, <1>4 DEF IInv, Rest, Typed

\* ... and so does every step around the chains.
LEMMA EnvironmentKeeps ==
  ASSUME IInv,
         \/ \E g \in Coordinators :
              Wake(g) \/ Start(g) \/ Stop(g) \/ BeginUserTurn(g) \/ EndUserTurn(g)
         \/ \E d \in Deliveries : FinishOperation(d)
         \/ Save \/ OfferUserTurn \/ Crash
  PROVE  IInv'
<1> DEFINE parts == HistoryTyped /\ ExpiryTyped /\ SchedulingTyped /\ SessionTyped
                    /\ BudgetTyped /\ boot \in Boots /\ Queued
<1>1. Core /\ parts
  BY DEF IInv, Rest
<1>2. ASSUME NEW g \in Coordinators, Wake(g) PROVE IInv'
  <2>1. UNCHANGED <<row, chain, observed, worker, prompts>>
    BY <1>2 DEF Wake, store, process
  <2>2. UNCHANGED <<shown, saved, expired, turn, waiting, boot, faults, blocks, userTurns>>
    BY <1>2 DEF Wake, store, process, history, session, budget
  <2>3. Core' /\ SchedulingTyped'
    BY <1>1, <1>2, <2>1, CoreUnchanged, WakeKeeps
  <2>9. Queued'
    <3>1. PICK q : queue' = [queue EXCEPT ![g] = @ \o q] /\ q \in Seq(Deliveries)
      BY <1>1, <1>2, WakeQueues
    <3>2. queue[g] # <<>> => queue[g] \o q # <<>>
      BY <1>1, <3>1 DEF SchedulingTyped
    <3> QED
      BY <1>1, <2>1, <3>1, <3>2 DEF Queued, Started, At, SchedulingTyped
  <2> QED
    BY <2>9, <1>1, <2>2, <2>3
       DEF IInv, Rest, HistoryTyped, ExpiryTyped, SessionTyped, BudgetTyped
<1>3. ASSUME NEW g \in Coordinators, Start(g) PROVE IInv'
  <2>1. UNCHANGED <<shown, saved, expired, turn, waiting, boot, queue, dirty,
                    faults, blocks, userTurns>>
    BY <1>3 DEF Start, history, scheduling, session, budget
  <2>2. Core'
    BY <1>1, <1>3, StartKeeps
  <2>9. Queued'
    <3>1. At(g, "idle") /\ chain' = chain
      BY <1>1, <1>3 DEF Start, Core
    <3>2. \A h \in Coordinators : h # g => worker'[h] = worker[h]
      BY <1>1, <1>3 DEF Start, Core, Parts
    <3> QED
      BY <1>1, <2>1, <3>1, <3>2 DEF Queued, Started, At
  <2> QED
    BY <2>9, <1>1, <2>1, <2>2
       DEF IInv, Rest, HistoryTyped, ExpiryTyped, SchedulingTyped, SessionTyped, BudgetTyped
<1>4. ASSUME NEW g \in Coordinators, Stop(g) PROVE IInv'
  <2>1. UNCHANGED <<shown, saved, expired, turn, waiting, boot>> /\ (UNCHANGED budget \/ Fail)
    BY <1>4 DEF Stop, history, session
  <2>2. Core' /\ BudgetTyped'
    BY <1>1, <1>4, <2>1, StopKeeps, BudgetKept
  <2>3. SchedulingTyped'
    <3>1. <<>> \in Seq(Deliveries)
      OBVIOUS
    <3> QED
      BY <1>1, <1>4, <3>1 DEF Stop, SchedulingTyped
  <2>9. Queued'
    <3>1. /\ chain' = chain /\ worker'[g].state = "stopped"
          /\ \A h \in Coordinators : h # g => worker'[h] = worker[h] /\ queue'[h] = queue[h]
      BY <1>1, <1>4 DEF Stop, Core, Parts, Workers, SchedulingTyped
    <3> QED
      BY <1>1, <3>1 DEF Queued, Started, At
  <2> QED
    BY <2>9, <1>1, <2>1, <2>2, <2>3
       DEF IInv, Rest, HistoryTyped, ExpiryTyped, SessionTyped
<1>5. ASSUME NEW g \in Coordinators, BeginUserTurn(g) \/ EndUserTurn(g) PROVE IInv'
  <2>1. UNCHANGED <<row, chain, observed, worker, prompts>>
    BY <1>5 DEF BeginUserTurn, EndUserTurn, store, process
  <2>2. UNCHANGED <<shown, saved, expired, boot, queue, dirty, faults, blocks, userTurns>>
    BY <1>5 DEF BeginUserTurn, EndUserTurn, store, process, history, scheduling, budget
  <2>3. SessionTyped'
    BY <1>1, <1>5 DEF BeginUserTurn, EndUserTurn, SessionTyped
  <2>4. Core'
    BY <1>1, <2>1, CoreUnchanged
  <2>9. Queued'
    BY <1>1, <2>1, <2>2 DEF Queued, Started, At
  <2> QED
    BY <2>9, <1>1, <2>2, <2>3, <2>4
       DEF IInv, Rest, HistoryTyped, ExpiryTyped, SchedulingTyped, BudgetTyped
<1>6. ASSUME NEW d \in Deliveries, FinishOperation(d) PROVE IInv'
  <2>1. UNCHANGED <<shown, saved, expired, turn, waiting, boot, queue, dirty,
                    faults, blocks, userTurns>>
    BY <1>6 DEF FinishOperation, history, scheduling, session, budget, process
  <2>2. Core'
    BY <1>1, <1>6, FinishOperationKeeps
  <2>9. Queued'
    <3>1. UNCHANGED <<chain, worker>>
      BY <1>6 DEF FinishOperation, process
    <3> QED
      BY <1>1, <2>1, <3>1 DEF Queued, Started, At
  <2> QED
    BY <2>9, <1>1, <2>1, <2>2
       DEF IInv, Rest, HistoryTyped, ExpiryTyped, SchedulingTyped, SessionTyped, BudgetTyped
<1>7. CASE Save \/ OfferUserTurn
  <2>1. UNCHANGED <<row, chain, observed, worker, prompts>>
    BY <1>7 DEF Save, OfferUserTurn, store, process
  <2>2. UNCHANGED <<expired, turn, boot, queue, dirty>>
    BY <1>7 DEF Save, OfferUserTurn, store, process, session, scheduling
  <2>3. HistoryTyped' /\ waiting' \in BOOLEAN
    BY <1>1, <1>7 DEF Save, OfferUserTurn, HistoryTyped, SessionTyped, history, session
  <2>4. BudgetTyped'
    BY <1>1, <1>7, DeliveryAssumption DEF Save, OfferUserTurn, BudgetTyped, budget
  <2>5. Core'
    BY <1>1, <2>1, CoreUnchanged
  <2>9. Queued'
    BY <1>1, <2>1, <2>2 DEF Queued, Started, At
  <2> QED
    BY <2>9, <1>1, <2>2, <2>3, <2>4, <2>5
       DEF IInv, Rest, ExpiryTyped, SchedulingTyped, SessionTyped
<1>8. CASE Crash
  <2>1. UNCHANGED <<saved, expired, waiting, faults, blocks, userTurns>>
    BY <1>8 DEF Crash, store, budget
  <2>2. Core'
    BY <1>1, <1>8, CrashKeeps
  <2>3. boot' \in Boots
    BY <1>1, <1>8, DeliveryAssumption DEF Crash
  <2>4. SchedulingTyped'
    <3>1. <<>> \in Seq(Deliveries)
      OBVIOUS
    <3> QED
      BY <1>8, <3>1 DEF Crash, SchedulingTyped
  <2>5. HistoryTyped' /\ SessionTyped'
    BY <1>1, <1>8, <2>1 DEF Crash, HistoryTyped, SessionTyped
  <2>9. Queued'
    BY <1>8 DEF Crash, Queued, At, IdleChain
  <2> QED
    BY <2>9, <1>1, <2>1, <2>2, <2>3, <2>4, <2>5 DEF IInv, Rest, ExpiryTyped, BudgetTyped
<1> QED
  BY <1>2, <1>3, <1>4, <1>5, <1>6, <1>7, <1>8

-----------------------------------------------------------------------------
(* The invariant and what follows from it                                  *)

\* The invariant holds at first.
LEMMA InitInvariant == Init => IInv
<1> SUFFICES ASSUME Init PROVE IInv
  OBVIOUS
<1>1. NoDelivery \in Rows
  BY RowAssumption DEF NoDelivery, Rows, Phases
<1>2. IdleChain \in Chains /\ Staged(IdleChain) /\ IdleChain.at = "idle" /\ IdleChain.id = NoId
  BY <1>1 DEF IdleChain, Chains, Stages, Staged
<1>3. 0 \in Boots
  BY DeliveryAssumption
<1>4. Parts
  BY <1>1, <1>2, <1>3 DEF Init, Parts, Workers
<1>5. \A g \in Coordinators : /\ chain[g] = IdleChain /\ worker[g].state = "new"
                              /\ OwnIds(g) \subseteq {NoId}
  BY <1>2 DEF Init, OwnIds, NoSettlement
<1>6. Unique
  BY <1>5 DEF Unique
<1>7. PromptsTyped /\ PromptsSpent /\ PromptedAtMostOnce
  BY DEF Init, PromptsTyped, PromptsSpent, PromptedAtMostOnce
<1>8. Unstarted /\ PromptHoldsClaim
  BY <1>2, <1>5 DEF Unstarted, Ahead, PromptHoldsClaim, At
<1>9. Core
  BY <1>2, <1>4, <1>5, <1>6, <1>7, <1>8 DEF Core, At, Started
<1>10. SchedulingTyped
  <2>1. <<>> \in Seq(Deliveries)
    OBVIOUS
  <2> QED
    BY <2>1 DEF Init, SchedulingTyped
<1>11. HistoryTyped /\ ExpiryTyped /\ SessionTyped
  BY DEF Init, HistoryTyped, ExpiryTyped, SessionTyped, Turns
<1>12. BudgetTyped /\ boot \in Boots
  BY <1>3, DeliveryAssumption DEF Init, BudgetTyped
<1>13. Queued
  BY <1>2, <1>5 DEF Queued, At
<1> QED
  BY <1>9, <1>10, <1>11, <1>12, <1>13 DEF IInv, Rest

\* Every step keeps it.
LEMMA NextInvariant == IInv /\ [Next]_vars => IInv'
<1> SUFFICES ASSUME IInv, [Next]_vars PROVE IInv'
  OBVIOUS
<1>1. CASE UNCHANGED vars
  <2>1. Core /\ Rest
    BY DEF IInv
  <2>2. Core'
    BY <1>1, <2>1, CoreUnchanged DEF vars
  <2>3. Rest'
    BY <1>1, <2>1
       DEF vars, Rest, HistoryTyped, ExpiryTyped, SchedulingTyped, SessionTyped, BudgetTyped,
         Queued, Started, At
  <2> QED
    BY <2>2, <2>3 DEF IInv
<1>2. CASE \E g \in Coordinators : Steps(g)
  BY <1>2, StepsKeep
<1>3. CASE \/ \E g \in Coordinators :
                Wake(g) \/ Start(g) \/ Stop(g) \/ BeginUserTurn(g) \/ EndUserTurn(g)
           \/ \E d \in Deliveries : FinishOperation(d)
           \/ Save \/ OfferUserTurn \/ Crash
  BY <1>3, EnvironmentKeeps
<1> QED
  BY <1>1, <1>2, <1>3 DEF Next, Steady, Steps

\* The invariant holds for any number of deliveries, coordinators, crashes, faults
\* and user turns.
THEOREM DeliveryInvariant == Spec => []IInv
<1> QED
  BY InitInvariant, NextInvariant, PTL DEF Spec

\* Every variable of the delivery half keeps its type.
THEOREM DeliveryTypes == Spec => []TypeOK
<1>1. IInv => TypeOK
  BY DEF IInv, Core, Parts, Workers, PromptsTyped, Rest, HistoryTyped, ExpiryTyped,
         SchedulingTyped, SessionTyped, BudgetTyped, TypeOK
<1> QED
  BY <1>1, DeliveryInvariant, PTL

\* The agent is prompted with a completion at most once, whatever is stopped, killed,
\* retried or fails to be written.
THEOREM PromptsAtMostOnce == Spec => []PromptedAtMostOnce
<1>1. IInv => PromptedAtMostOnce
  BY DEF IInv, Core
<1> QED
  BY <1>1, DeliveryInvariant, PTL

\* While a running coordinator's delivery prompt is out, the store shows the row
\* started and claimed by that attempt.
THEOREM PromptsHoldTheirClaim == Spec => []PromptHoldsClaim
<1>1. IInv => PromptHoldsClaim
  BY DEF IInv, Core
<1> QED
  BY <1>1, DeliveryInvariant, PTL

-----------------------------------------------------------------------------
(* What was told                                                           *)

\* Faults are only counted up.
LEMMA FaultsGrow ==
  ASSUME BudgetTyped, Fail \/ Block \/ UNCHANGED budget
  PROVE  /\ faults \in Nat /\ faults' \in Nat /\ faults' >= faults
         /\ Fail => faults' = faults + 1
  BY DeliveryAssumption DEF BudgetTyped, Fail, Block, budget

\* No step takes a failing write back.
LEMMA FaultsStay ==
  ASSUME BudgetTyped, [Next]_vars
  PROVE  faults' \in Nat /\ faults' >= faults
<1>1. faults \in Nat
  BY DEF BudgetTyped
<1> DEFINE Grows == faults' \in Nat /\ faults' >= faults
<1>2. (Fail \/ Block \/ UNCHANGED budget \/ UNCHANGED faults) => Grows
  BY <1>1, FaultsGrow
<1>3. \A g \in Coordinators : \A r : Failed(g, r) => Grows
  BY <1>1 DEF Failed
<1>4. \A g \in Coordinators : \A note, phase, exhausted :
        Finalize(g, note, phase, exhausted) => Grows
  BY <1>2 DEF Finalize
<1>5. ASSUME NEW g \in Coordinators, Steps(g) PROVE Grows
  <2>1. CASE Begin(g) \/ Done(g) \/ BeginTurn(g) \/ ReleaseTurn(g)
    BY <1>2, <2>1 DEF Begin, Done, BeginTurn, ReleaseTurn
  <2>2. CASE Decide(g) \/ Configure(g) \/ AfterResidual(g)
    BY <1>2, <1>4, <2>2 DEF Decide, Configure, AfterResidual, FailUncertain, FailExhausted
  <2>3. CASE Claim(g) \/ PrepareTurn(g) \/ StartPrompt(g)
    BY <1>2, <1>3, <2>3 DEF Claim, PrepareTurn, StartPrompt
  <2>4. CASE EndPrompt(g) \/ EndBeforePrompt(g) \/ FailBeforeClaim(g) \/ Blocked(g)
    BY <1>2, <2>4 DEF EndPrompt, EndBeforePrompt, FailBeforeClaim, Blocked, EndTurn
  <2>5. CASE SettleTurn(g) \/ Residual(g) \/ ConsumeFinal(g) \/ Steer(g)
    BY <1>2, <2>5 DEF SettleTurn, Residual, ConsumeFinal, Steer
  <2> QED
    BY <1>5, <2>1, <2>2, <2>3, <2>4, <2>5 DEF Steps, ChainStep
<1>6. ASSUME NEW g \in Coordinators,
             Wake(g) \/ Start(g) \/ Stop(g) \/ BeginUserTurn(g) \/ EndUserTurn(g)
      PROVE  Grows
  BY <1>2, <1>6 DEF Wake, Start, Stop, BeginUserTurn, EndUserTurn
<1>7. CASE (\E d \in Deliveries : FinishOperation(d)) \/ Save \/ OfferUserTurn \/ Crash
  BY <1>2, <1>7 DEF FinishOperation, Save, OfferUserTurn, Crash
<1>8. CASE UNCHANGED vars
  BY <1>2, <1>8 DEF vars
<1> QED
  BY <1>5, <1>6, <1>7, <1>8 DEF Next, Steady, Steps

\* A claim is held on a pending row.
ClaimsPend == \A d \in Deliveries : row[d].claim # NoClaim => row[d].state = "pending"

\* The completion is in the history, an interrupted execution with its note, or it
\* is expired.  Two failing writes may hide a completion, see Failed.
Fit(d) ==
  /\ faults <= 1 => shown[d] # "absent" \/ expired[d]
  /\ row[d].phase = "uncertain" => shown[d] = "uncertain" \/ expired[d]

\* What is to be settled is told, or has the note due that its phase calls for.
Due(d, note) ==
  IF note = "absent" THEN Fit(d) ELSE note = "failed" => row[d].phase # "uncertain"

ConsumedFit == \A d \in Deliveries : row[d].state = "consumed" => Fit(d)

\* A chain is yet to claim, or what it has claimed it has told.
ChainFit(g) ==
  ~At(g, "idle") /\ row[D(g)].claim = MyClaim(g) => ~At(g, "claim") /\ Fit(D(g))
ObservedFit(g) ==
  \A d \in Deliveries :
    row[d].claim = ClaimBy(g, observed[g][d].id) => Due(d, observed[g][d].note)

Fits == ConsumedFit /\ \A g \in Coordinators : ChainFit(g) /\ ObservedFit(g)

\* As long as no crash has taken back what was not saved.
TellInv == boot = 0 => ClaimsPend /\ Fits /\ \A g \in Coordinators : worker[g].boot = 0

\* The completion of d is in the history, or is expired.
Seen(d) == shown[d] # "absent" \/ expired[d]

\* No failing write is taken back.
Rising == faults' <= 1 => faults <= 1

ContractStep == faults' <= 1 => [Contract!Next]_(Contract!vars)

Others(d) ==
  \A e \in Deliveries \ {d} : row'[e].state = row[e].state /\ prompts'[e] = prompts[e]
                              /\ shown'[e] = shown[e] /\ expired'[e] = expired[e]

\* What a step about d may do for the contract.
LEMMA ContractOwes ==
  ASSUME NEW d \in Deliveries, Others(d), row[d].state = "none", row'[d].state = "pending",
         prompts'[d] = prompts[d], shown'[d] = shown[d], expired'[d] = expired[d]
  PROVE  [Contract!Next]_(Contract!vars)
<1>1. Contract!Owe(d)
  BY DEF Contract!Owe, Others
<1> QED
  BY <1>1 DEF Contract!Next

LEMMA ContractStays ==
  ASSUME \A d \in Deliveries : row'[d].state = row[d].state /\ prompts'[d] = prompts[d]
                               /\ (shown'[d] # "absent" <=> shown[d] # "absent")
                               /\ expired'[d] = expired[d]
  PROVE  [Contract!Next]_(Contract!vars)
  BY DEF Contract!vars

LEMMA ContractTells ==
  ASSUME NEW d \in Deliveries, Others(d), row'[d].state = row[d].state, prompts'[d] = prompts[d],
         Seen(d) => Seen(d)'
  PROVE  [Contract!Next]_(Contract!vars)
<1>1. CASE Seen(d)'
  <2>1. Contract!Tell(d)
    BY <1>1 DEF Contract!Tell, Others, Seen
  <2> QED
    BY <2>1 DEF Contract!Next
<1>2. CASE ~Seen(d)'
  BY <1>2 DEF Contract!vars, Others, Seen
<1> QED
  BY <1>1, <1>2

LEMMA ContractConsumes ==
  ASSUME NEW d \in Deliveries, Others(d), row[d].state = "pending", row'[d].state = "consumed",
         Seen(d), prompts'[d] = prompts[d], shown'[d] = shown[d], expired'[d] = expired[d]
  PROVE  [Contract!Next]_(Contract!vars)
<1>1. Contract!Consume(d)
  BY DEF Contract!Consume, Others, Seen
<1> QED
  BY <1>1 DEF Contract!Next

LEMMA ContractPrompts ==
  ASSUME NEW d \in Deliveries, Others(d), row[d].state = "pending", row'[d].state = "pending",
         Seen(d), prompts[d] = 0, prompts'[d] = 1, shown'[d] = shown[d], expired'[d] = expired[d]
  PROVE  [Contract!Next]_(Contract!vars)
<1>1. ~(prompts[d] > 0) /\ prompts'[d] > 0
  OBVIOUS
<1>2. [e \in Deliveries |-> prompts'[e] > 0]
        = [[e \in Deliveries |-> prompts[e] > 0] EXCEPT ![d] = TRUE]
  BY <1>1 DEF Others
<1>3. UNCHANGED <<[e \in Deliveries |-> row[e].state],
                  [e \in Deliveries |-> shown[e] # "absent" \/ expired[e]]>>
  BY DEF Others
<1>4. Contract!Prompt(d)
  BY <1>1, <1>2, <1>3 DEF Contract!Prompt, Seen
<1> QED
  BY <1>4 DEF Contract!Next

\* A claim of one coordinator's ids is no other's.
LEMMA ClaimsApart ==
  ASSUME Core, NEW g \in Coordinators, NEW h \in Coordinators, h # g,
         NEW c, c \in Claims => c.id \in Mine(g),
         NEW id \in OwnIds(h), ClaimBy(h, id) \in Claims
  PROVE  ClaimBy(h, id) \notin {NoClaim, c}
<1>1. id \in ClaimIds /\ ClaimBy(h, id).id = id
  BY DEF ClaimBy, Claims
<1>2. id \in UsedIds
  <2>1. CASE id = chain[h].id
    BY <2>1 DEF UsedIds
  <2>2. CASE \E d \in Deliveries : id = observed[h][d].id
    BY <2>2 DEF UsedIds
  <2> QED
    BY <2>1, <2>2 DEF OwnIds
<1>3. id \notin Mine(g)
  BY <1>1, <1>2, DeliveryAssumption DEF Core, Unique, Mine
<1> QED
  BY <1>1, <1>3, RowAssumption

\* What is told stays told, and no chain takes back what it found.
LEMMA FitStays ==
  ASSUME Rising, NEW d \in Deliveries, Fit(d),
         row'[d].phase = "uncertain" => row[d].phase = "uncertain",
         shown'[d] = shown[d], expired[d] => expired'[d]
  PROVE  Fit(d)'
  BY DEF Fit, Rising

\* The chain of g goes on as k after a call about d with claim c that leaves r of
\* the row and observes o: only what has claim c is written to, and what is consumed
\* or still claimed is told.
TellingStep(g, d, k, r, c, o) ==
  /\ k \in Chains /\ chain' = [chain EXCEPT ![g] = k] /\ (k.at = "idle" \/ k.d = d)
  /\ r \in Rows /\ row' = [row EXCEPT ![d] = r]
  /\ o \in Settlements \cup {NoSettlement} /\ observed' = [observed EXCEPT ![g][d] = o]
  /\ UNCHANGED worker
  /\ c \in Claims => c.id \in Mine(g)
  /\ row[d].claim \notin {NoClaim, c} => r = row[d]
  /\ r.claim \in {row[d].claim, NoClaim, c}
  /\ r.claim # NoClaim => r.state = "pending"
  /\ \A e \in Deliveries \ {d} : shown'[e] = shown[e]
  /\ \A e \in Deliveries : expired[e] => expired'[e]
  /\ shown'[d] # shown[d] => r.claim = c /\ r.claim # NoClaim
  /\ r.state = "consumed" => r = row[d] \/ Fit(d)'
  /\ k.at # "idle" /\ r.claim = ClaimBy(g, k.id) => k.at # "claim" /\ Fit(d)'

\* What such a step leaves to be told.
LEMMA StepTells ==
  ASSUME Core, Rising, ClaimsPend, Fits,
         NEW g \in Coordinators, NEW d \in Deliveries, NEW k, NEW r, NEW c, NEW o,
         TellingStep(g, d, k, r, c, o),
         r.claim # NoClaim /\ r.claim = ClaimBy(g, o.id) => Due(d, o.note)'
  PROVE  ClaimsPend' /\ Fits'
<1> USE DEF TellingStep
<1>1. /\ row'[d] = r /\ \A e \in Deliveries : e # d => row'[e] = row[e]
      /\ chain'[g] = k /\ \A h \in Coordinators : h # g => chain'[h] = chain[h]
  BY DEF Core, Parts
<1>2. /\ observed'[g][d] = o /\ \A h \in Coordinators : h # g => observed'[h] = observed[h]
      /\ \A e \in Deliveries : e # d => observed'[g][e] = observed[g][e]
      /\ \A h \in Coordinators, e \in Deliveries :
           observed'[h][e] \in Settlements \cup {NoSettlement}
  BY DEF Core, Parts
<1>3. ClaimsPend'
  BY <1>1 DEF ClaimsPend
<1>4. \A e \in Deliveries : row[e] \in Rows /\ row'[e] \in Rows
  BY <1>1 DEF Core, Parts
<1>5. ASSUME NEW h \in Coordinators \ {g}, NEW id \in OwnIds(h),
             r.claim = ClaimBy(h, id), r.claim # NoClaim
      PROVE  r = row[d] /\ shown'[d] = shown[d]
  <2>1. ClaimBy(h, id) \in Claims
    BY <1>5 DEF Rows
  <2>2. ClaimBy(h, id) \notin {NoClaim, c}
    BY <1>5, <2>1, ClaimsApart
  <2> QED
    BY <1>5, <2>2
<1>6. ASSUME NEW e \in Deliveries, row'[e] = row[e], shown'[e] = shown[e], NEW note, Due(e, note)
      PROVE  Due(e, note)'
  BY <1>6, FitStays DEF Due
<1>7. \A h \in Coordinators, id \in ClaimIds \cup {NoId} :
        id = NoId => ClaimBy(h, id) \notin Claims \cup {NoClaim}
  BY DeliveryAssumption DEF Core, Parts, Workers, ClaimBy, Claims
<1>8. ConsumedFit'
  <2> SUFFICES ASSUME NEW e \in Deliveries, row'[e].state = "consumed" PROVE Fit(e)'
    BY DEF ConsumedFit
  <2>1. CASE e = d
    <3>1. CASE r = row[d]
      <4>1. r.claim = NoClaim
        BY <1>1, <2>1
      <4> QED
        BY <1>1, <2>1, <3>1, <4>1, FitStays DEF Fits, ConsumedFit
    <3> QED
      BY <1>1, <2>1, <3>1
  <2>2. CASE e # d
    BY <1>1, <2>2, FitStays DEF Fits, ConsumedFit
  <2> QED
    BY <2>1, <2>2
<1>9. ASSUME NEW h \in Coordinators PROVE ChainFit(h)'
  <2> SUFFICES ASSUME chain'[h].at # "idle", NEW e, e = chain'[h].d,
                      row'[e].claim = ClaimBy(h, chain'[h].id)
               PROVE  chain'[h].at # "claim" /\ Fit(e)'
    BY DEF ChainFit, At, D, MyClaim, ClaimBy
  <2>1. CASE h = g
    BY <1>1, <2>1
  <2>2. CASE h # g
    <3>1. ~At(h, "idle") /\ e = D(h) /\ e \in Deliveries /\ ClaimBy(h, chain'[h].id) = MyClaim(h)
      BY <1>1, <2>2 DEF Core, Staged, At, D, MyClaim
    <3>2. row'[e] = row[e] /\ shown'[e] = shown[e]
      <4>1. CASE e = d
        <5>1. chain[h].id \in OwnIds(h) /\ MyClaim(h) = ClaimBy(h, chain[h].id)
          BY DEF OwnIds, MyClaim
        <5>2. MyClaim(h) # NoClaim
          <6>1. chain[h].id \in ClaimIds \cup {NoId}
            BY DEF Core, Parts, Chains
          <6> QED
            BY <6>1, RowAssumption, DeliveryAssumption
               DEF MyClaim, ClaimBy, Core, Parts, Workers, Claims
        <5> QED
          BY <1>1, <1>5, <2>2, <3>1, <4>1, <5>1, <5>2
      <4>2. CASE e # d
        BY <1>1, <3>1, <4>2
      <4> QED
        BY <4>1, <4>2
    <3>3. row[e].claim = MyClaim(h)
      BY <3>1, <3>2
    <3>4. ~At(h, "claim") /\ Fit(e)
      BY <3>1, <3>3 DEF Fits, ChainFit
    <3> QED
      BY <1>1, <2>2, <3>1, <3>2, <3>4, FitStays DEF At
  <2> QED
    BY <2>1, <2>2
<1>10. ASSUME NEW h \in Coordinators PROVE ObservedFit(h)'
  <2> SUFFICES ASSUME NEW e \in Deliveries, NEW p, p = observed'[h][e],
                      row'[e].claim = ClaimBy(h, p.id)
               PROVE  Due(e, p.note)'
    BY DEF ObservedFit, ClaimBy
  <2>1. row'[e].claim # NoClaim
    <3>1. p.id \in ClaimIds \cup {NoId}
      BY <1>2 DEF Settlements, NoSettlement
    <3>2. worker[h].boot \in Boots
      BY DEF Core, Parts, Workers
    <3> QED
      BY <3>1, <3>2, RowAssumption, DeliveryAssumption DEF ClaimBy, Claims
  <2>2. CASE h = g /\ e = d
    BY <1>1, <1>2, <2>1, <2>2
  <2>3. CASE ~(h = g /\ e = d)
    <3>1. p = observed[h][e]
      BY <1>2, <2>3
    <3>2. row'[e] = row[e] /\ shown'[e] = shown[e]
      <4>1. CASE e = d
        <5>1. p.id \in OwnIds(h) /\ h # g
          BY <2>3, <3>1, <4>1 DEF OwnIds
        <5> QED
          BY <1>1, <1>5, <2>1, <4>1, <5>1
      <4>2. CASE e # d
        BY <1>1, <4>2
      <4> QED
        BY <4>1, <4>2
    <3>3. Due(e, p.note)
      BY <3>1, <3>2 DEF Fits, ObservedFit
    <3> QED
      BY <1>6, <3>2, <3>3
  <2> QED
    BY <2>2, <2>3
<1> QED
  BY <1>3, <1>8, <1>9, <1>10 DEF Fits

\* What a call with the claim c of a chain may do to a row it does not claim.
Gives(r, s, c) ==
  s \in {r, Prepare(r, c), MarkStarted(r, c), Release(r, c), MarkUncertain(r, c), Consume(r, c)}

LEMMA GivesFacts ==
  ASSUME NEW r \in Rows, r.claim # NoClaim => r.state = "pending", NEW c, NEW s, Gives(r, s, c)
  PROVE  /\ s \in Rows
         /\ r.claim # c => s = r
         /\ s.claim \in {r.claim, NoClaim}
         /\ s.claim # NoClaim => s.state = "pending"
         /\ s.claim # NoClaim /\ s.phase = "uncertain" => r.phase = "uncertain"
         /\ s.state = r.state \/ (s.state = "consumed" /\ r.state = "pending" /\ s.phase = r.phase)
<1>1. CASE s = r
  BY <1>1
<1>2. CASE s = Prepare(r, c) \/ s = MarkStarted(r, c)
  <2>1. r.attempts < MaxAttempts => r.attempts + 1 \in 0..MaxAttempts
    BY RowAssumption DEF Rows
  <2>2. s = r \/ (r.claim = c /\ r.state = "pending")
    BY <1>2 DEF Prepare, MarkStarted, HeldBy
  <2>3. /\ s \in Rows /\ s.claim = r.claim /\ s.state = r.state
        /\ s.phase = "uncertain" => r.phase = "uncertain"
    BY <1>2, <2>1 DEF Prepare, MarkStarted, HeldBy, Rows, Phases
  <2> QED
    BY <2>2, <2>3
<1>3. CASE s = Release(r, c) \/ s = MarkUncertain(r, c)
  BY <1>3, RowAssumption DEF Release, MarkUncertain, Reopened, HeldBy, Rows, Phases
<1>4. CASE s = Consume(r, c)
  BY <1>4, RowAssumption DEF Consume, HeldBy, Rows
<1> QED
  BY <1>1, <1>2, <1>3, <1>4 DEF Gives

\* A chain goes on after a call with its claim.
LEMMA CallFits ==
  ASSUME Core, Rising, ClaimsPend, Fits, ExpiryTyped, NEW g \in Coordinators, ~At(g, "idle"),
         NEW k \in Chains, chain' = [chain EXCEPT ![g] = k], k.at = "idle" \/ k.d = D(g),
         k.at # "claim", k.id \in {chain[g].id, NoId},
         NEW r, row' = [row EXCEPT ![D(g)] = r], Gives(row[D(g)], r, MyClaim(g)),
         NEW o \in Settlements \cup {NoSettlement}, observed' = [observed EXCEPT ![g][D(g)] = o],
         o \in {observed[g][D(g)], NoSettlement} \/ (o.id = chain[g].id /\ o.note = "absent"),
         UNCHANGED <<worker, shown>>, expired' \in {expired, [expired EXCEPT ![D(g)] = TRUE]}
  PROVE  /\ ClaimsPend' /\ Fits'
         /\ \/ r.state = row[D(g)].state
            \/ r.state = "consumed" /\ row[D(g)].state = "pending" /\ Fit(D(g))
<1>1. PICK d, c : d = D(g) /\ c = MyClaim(g)
  OBVIOUS
<1>2. /\ d \in Deliveries /\ row[d] \in Rows /\ worker[g].boot \in Boots
      /\ chain[g].id \in Mine(g) /\ chain[g].id \in ClaimIds \cup {NoId}
  BY <1>1, Underway DEF Chains
<1>3. /\ r \in Rows
      /\ row[d].claim # c => r = row[d]
      /\ r.claim \in {row[d].claim, NoClaim}
      /\ r.claim # NoClaim => r.state = "pending"
      /\ r.claim # NoClaim /\ r.phase = "uncertain" => row[d].phase = "uncertain"
      /\ \/ r.state = row[d].state
         \/ r.state = "consumed" /\ row[d].state = "pending" /\ r.phase = row[d].phase
  BY <1>1, <1>2, GivesFacts DEF ClaimsPend
<1>4. c \in Claims => c.id \in Mine(g)
  BY <1>1, <1>2 DEF MyClaim, ClaimBy, Claims
<1>5. row'[d] = r
  BY <1>1, <1>2 DEF Core, Parts
<1>6. row[d].claim = c => Fit(d)
  BY <1>1 DEF Fits, ChainFit
<1>7. \A e \in Deliveries : expired[e] => expired'[e]
  BY <1>1, <1>2 DEF ExpiryTyped
<1>8. Fit(d) /\ (r.claim # NoClaim \/ r.state # row[d].state \/ r = row[d]) => Fit(d)'
  BY <1>2, <1>3, <1>5, <1>7, FitStays
<1>9. r.state = "consumed" => r = row[d] \/ Fit(d)'
  <2>1. c # NoClaim
    BY <1>1, <1>2, RowAssumption, DeliveryAssumption DEF MyClaim, ClaimBy, Claims
  <2>2. CASE row[d].claim = c
    BY <1>2, <1>3, <1>6, <1>8, <2>1, <2>2 DEF ClaimsPend
  <2>3. CASE row[d].claim # c
    BY <1>3, <2>3
  <2> QED
    BY <2>2, <2>3
<1>10. ~(ClaimBy(g, NoId) \in Claims)
  BY <1>2, DeliveryAssumption DEF ClaimBy, Claims
<1>11. ASSUME r.claim # NoClaim, NEW id, r.claim = ClaimBy(g, id), id \in {chain[g].id, NoId}
       PROVE  id = chain[g].id /\ row[d].claim = c /\ Fit(d)'
  <2>1. r.claim \in Claims /\ id # NoId
    BY <1>3, <1>10, <1>11 DEF Rows
  <2>2. r.claim = c /\ row[d].claim = c
    BY <1>1, <1>3, <1>11, <2>1 DEF MyClaim
  <2> QED
    BY <1>6, <1>8, <1>11, <2>1, <2>2
<1>12. k.at # "idle" /\ r.claim = ClaimBy(g, k.id) => k.at # "claim" /\ Fit(d)'
  <2>1. NoClaim # ClaimBy(g, k.id)
    BY <1>2, RowAssumption, DeliveryAssumption DEF ClaimBy, Claims
  <2> QED
    BY <1>11, <2>1
<1>13. r.claim # NoClaim /\ r.claim = ClaimBy(g, o.id) => Due(d, o.note)'
  <2> SUFFICES ASSUME r.claim # NoClaim, r.claim = ClaimBy(g, o.id) PROVE Due(d, o.note)'
    OBVIOUS
  <2>1. CASE o.id = chain[g].id /\ o.note = "absent"
    BY <1>11, <2>1 DEF Due
  <2>2. CASE o = NoSettlement
    BY <1>3, <1>10, <2>2 DEF NoSettlement, Rows
  <2>3. CASE o = observed[g][d]
    <3>1. Due(d, o.note)
      BY <1>2, <1>3, <2>3 DEF Fits, ObservedFit
    <3>2. r.phase = "uncertain" => row[d].phase = "uncertain"
      BY <1>3
    <3> QED
      BY <1>5, <1>8, <3>1, <3>2 DEF Due
  <2> QED
    BY <1>1, <2>1, <2>2, <2>3
<1>14. /\ shown'[d] = shown[d] /\ \A e \in Deliveries \ {d} : shown'[e] = shown[e]
       /\ row' = [row EXCEPT ![d] = r] /\ observed' = [observed EXCEPT ![g][d] = o]
       /\ k.at = "idle" \/ k.d = d
       /\ row[d].claim \notin {NoClaim, c} => r = row[d]
       /\ r.claim \in {row[d].claim, NoClaim, c}
  BY <1>1, <1>3
<1>15. ClaimsPend' /\ Fits'
  <2>1. TellingStep(g, d, k, r, c, o)
    BY <1>3, <1>4, <1>7, <1>9, <1>12, <1>14 DEF TellingStep
  <2> QED
    BY <1>2, <1>13, <2>1, StepTells
<1> QED
  BY <1>1, <1>3, <1>6, <1>15

\* The guarantees a step leaves: what is consumed is told, and the contract.
Tells == ClaimsPend' /\ Fits' /\ ContractStep

Told == ClaimsPend /\ Fits /\ HistoryTyped /\ ExpiryTyped /\ BudgetTyped /\ Rising

\* ... for the contract: a pending row is consumed, if at all, after it was told.
LEMMA CallTells ==
  ASSUME Core, Told, NEW g \in Coordinators, ~At(g, "idle"),
         NEW k \in Chains, chain' = [chain EXCEPT ![g] = k], k.at = "idle" \/ k.d = D(g),
         k.at # "claim", k.id \in {chain[g].id, NoId},
         NEW r, row' = [row EXCEPT ![D(g)] = r], Gives(row[D(g)], r, MyClaim(g)),
         NEW o \in Settlements \cup {NoSettlement}, observed' = [observed EXCEPT ![g][D(g)] = o],
         o \in {observed[g][D(g)], NoSettlement} \/ (o.id = chain[g].id /\ o.note = "absent"),
         UNCHANGED <<worker, prompts, shown>>,
         expired' \in {expired, [expired EXCEPT ![D(g)] = TRUE]},
         r = row[D(g)] \/ UNCHANGED expired
  PROVE  Tells
<1>1. PICK d : d = D(g) /\ d \in Deliveries
  BY Underway
<1>2. /\ ClaimsPend' /\ Fits'
      /\ \/ r.state = row[d].state
         \/ r.state = "consumed" /\ row[d].state = "pending" /\ Fit(d)
  BY <1>1, CallFits DEF Told
<1>3. row'[d] = r /\ \A e \in Deliveries : e # d => row'[e] = row[e]
  BY <1>1 DEF Core, Parts
<1>4. (expired[d] => expired'[d]) /\ \A e \in Deliveries \ {d} : expired'[e] = expired[e]
  BY <1>1 DEF Told, ExpiryTyped
<1>5. Others(d) /\ prompts'[d] = prompts[d] /\ (Seen(d) => Seen(d)')
  BY <1>3, <1>4 DEF Others, Seen
<1>6. ASSUME faults' <= 1 PROVE [Contract!Next]_(Contract!vars)
  <2>1. CASE r.state = row[d].state
    BY <1>1, <1>3, <1>5, <2>1, ContractTells
  <2>2. CASE r.state # row[d].state
    <3>1. Seen(d) /\ row[d].state = "pending" /\ row'[d].state = "consumed"
      BY <1>2, <1>3, <1>6, <2>2 DEF Fit, Seen, Told, Rising
    <3>2. UNCHANGED expired
      BY <1>1, <2>2
    <3> QED
      BY <1>1, <1>5, <3>1, <3>2, ContractConsumes
  <2> QED
    BY <2>1, <2>2
<1> QED
  BY <1>2, <1>6 DEF Tells, ContractStep

\* The chain goes on without a call.
LEMMA QuietTells ==
  ASSUME Core, Told, NEW g \in Coordinators, ~At(g, "idle"),
         NEW k \in Chains, chain' = [chain EXCEPT ![g] = k], k.at = "idle" \/ k.d = D(g),
         k.at # "claim", k.id \in {chain[g].id, NoId},
         UNCHANGED <<row, observed, worker, prompts, shown>>,
         expired' \in {expired, [expired EXCEPT ![D(g)] = TRUE]}
  PROVE  Tells
<1>1. PICK r, o : r = row[D(g)] /\ o = observed[g][D(g)]
  OBVIOUS
<1>2. /\ row' = [row EXCEPT ![D(g)] = r] /\ observed' = [observed EXCEPT ![g][D(g)] = o]
      /\ o \in Settlements \cup {NoSettlement} /\ Gives(row[D(g)], r, MyClaim(g))
  BY <1>1, Underway DEF Core, Parts, Gives
<1> QED
  BY <1>1, <1>2, CallTells

\* It jumps to another part of the turn ...
LEMMA GoingTells ==
  ASSUME Core, Told, NEW g \in Coordinators, ~At(g, "idle"),
         NEW stage \in Stages \ {"claim"}, NEW outcome \in Outcomes \cup {"none"},
         GotoWith(g, stage, outcome) \/ (Goto(g, stage) /\ outcome = chain[g].outcome),
         UNCHANGED <<row, observed, worker, prompts, shown, expired>>
  PROVE  Tells
<1>1. PICK k \in Chains : /\ chain' = [chain EXCEPT ![g] = k]
                          /\ k.at = stage /\ k.outcome = outcome
                          /\ k.id = chain[g].id /\ k.d = D(g)
  BY Going
<1> QED
  BY <1>1, QuietTells

\* ... or returns.
LEMMA ReturnTells ==
  ASSUME Core, Told, NEW g \in Coordinators, ~At(g, "idle"),
         NEW stage \in {"done", "config"}, Enter(g, stage, D(g), NoId),
         UNCHANGED <<row, observed, worker, prompts, shown>>,
         expired' \in {expired, [expired EXCEPT ![D(g)] = TRUE]}
  PROVE  Tells
<1>1. PICK d : d = D(g) /\ d \in Deliveries
  BY Underway
<1>2. Enter(g, stage, d, NoId) /\ stage \in Stages
  BY <1>1 DEF Stages
<1>3. PICK k \in Chains : /\ chain' = [chain EXCEPT ![g] = k]
                          /\ k.at = stage /\ k.outcome = "none" /\ k.id = NoId /\ k.d = d
  BY <1>1, <1>2, Entering
<1> QED
  BY <1>1, <1>3, QuietTells

\* A settlement observes itself, or nothing.
LEMMA SettlementGives ==
  ASSUME Core, NEW g \in Coordinators, ~At(g, "idle"),
         NEW s \in Settlements, s.id = chain[g].id, s.note = "absent",
         \/ Settle(g, D(g), s)
         \/ UNCHANGED row /\ (Observe(g, D(g), s) \/ UNCHANGED observed)
  PROVE  \E r, o : /\ row' = [row EXCEPT ![D(g)] = r] /\ Gives(row[D(g)], r, MyClaim(g))
                   /\ o \in Settlements \cup {NoSettlement}
                   /\ observed' = [observed EXCEPT ![g][D(g)] = o]
                   /\ \/ o \in {observed[g][D(g)], NoSettlement}
                      \/ o.id = chain[g].id /\ o.note = "absent"
<1>1. PICK d : d = D(g) /\ d \in Deliveries
  BY Underway
<1>2. CASE Settle(g, D(g), s)
  <2>1. PICK r : r = Settled(row[d], MyClaim(g), s.outcome)
    OBVIOUS
  <2>2. PICK o : o = IF r.claim = MyClaim(g) THEN s ELSE NoSettlement
    OBVIOUS
  <2>3. row' = [row EXCEPT ![d] = r] /\ observed' = [observed EXCEPT ![g][d] = o]
    BY <1>1, <1>2, <2>1, <2>2 DEF Settle, Observe, MyClaim
  <2>4. Gives(row[d], r, MyClaim(g))
    BY <2>1 DEF Gives, Settled
  <2> QED
    BY <1>1, <2>2, <2>3, <2>4
<1>3. CASE UNCHANGED row /\ (Observe(g, D(g), s) \/ UNCHANGED observed)
  <2>1. PICK r : r = row[d]
    OBVIOUS
  <2>2. PICK o \in {s, observed[g][d]} : observed' = [observed EXCEPT ![g][d] = o]
    BY <1>1, <1>3 DEF Observe, Core, Parts
  <2>3. row' = [row EXCEPT ![d] = r] /\ Gives(row[d], r, MyClaim(g))
    BY <1>1, <1>3, <2>1 DEF Core, Parts, Gives
  <2>4. o \in Settlements \cup {NoSettlement}
    BY <1>1, <2>2 DEF Core, Parts
  <2> QED
    BY <1>1, <2>2, <2>3, <2>4
<1> QED
  BY <1>2, <1>3

\* The steps that make no call.
LEMMA WalksTell ==
  ASSUME Core, Told, NEW g \in Coordinators,
         \/ Blocked(g) \/ FailBeforeClaim(g) \/ EndBeforePrompt(g) \/ EndPrompt(g)
         \/ ReleaseTurn(g) \/ Done(g)
  PROVE  Tells
<1>1. /\ UNCHANGED <<row, observed, worker, prompts, shown, expired>> /\ ~At(g, "idle")
      /\ chain[g] \in Chains
  BY DEF Blocked, FailBeforeClaim, EndBeforePrompt, EndPrompt, ReleaseTurn, Done, At,
         store, history, process, Core, Parts
<1>2. {"release", "residual", "settle"} \subseteq Stages \ {"claim"}
  BY DEF Stages
<1>3. ASSUME NEW outcomes \in SUBSET Outcomes, EndTurn(g, outcomes) PROVE Tells
  <2>1. PICK outcome \in Outcomes \cup {"none"} : GotoWith(g, "release", outcome)
    BY <1>3 DEF EndTurn
  <2> QED
    BY <1>1, <1>2, <2>1, GoingTells
<1>4. chain[g].outcome \in Outcomes \cup {"none"}
  BY <1>1 DEF Chains
<1>5. CASE Blocked(g)
  BY <1>1, <1>5, ReturnTells DEF Blocked, Return
<1>6. CASE FailBeforeClaim(g)
  <2>1. PICK outcome \in {"none", "handled", "cancelled"} : GotoWith(g, "release", outcome)
    BY <1>6 DEF FailBeforeClaim
  <2>2. outcome \in Outcomes \cup {"none"}
    BY DEF Outcomes
  <2> QED
    BY <1>1, <1>2, <2>1, <2>2, GoingTells
<1>7. CASE EndBeforePrompt(g)
  BY <1>3, <1>7 DEF EndBeforePrompt, Outcomes
<1>8. CASE EndPrompt(g)
  <2>1. CASE Goto(g, "release")
    BY <1>1, <1>2, <1>4, <2>1, GoingTells
  <2>2. CASE EndTurn(g, {"handled", "cancelled", "uncertain"})
    BY <1>3, <2>2 DEF Outcomes
  <2> QED
    BY <1>8, <2>1, <2>2 DEF EndPrompt
<1>9. CASE ReleaseTurn(g)
  <2>1. PICK stage \in {"residual", "settle"} : Goto(g, stage)
    BY <1>9 DEF ReleaseTurn
  <2> QED
    BY <1>1, <1>2, <1>4, <2>1, GoingTells
<1>10. CASE Done(g)
  <2>1. PICK k : k = IdleChain
    OBVIOUS
  <2>2. k \in Chains /\ k.id = NoId /\ k.at = "idle"
    <3>1. NoDelivery \in Rows
      BY RowAssumption DEF NoDelivery, Rows, Phases
    <3> QED
      BY <2>1, <3>1 DEF IdleChain, Chains, Stages
  <2>3. chain' = [chain EXCEPT ![g] = k]
    BY <1>10, <2>1 DEF Done
  <2> QED
    BY <1>1, <2>2, <2>3, QuietTells
<1> QED
  BY <1>5, <1>6, <1>7, <1>8, <1>9, <1>10

\* The steps with a settlement of the chain's claim.
LEMMA SettlingTells ==
  ASSUME Core, Told, NEW g \in Coordinators,
         Steer(g) \/ SettleTurn(g) \/ Residual(g) \/ ConsumeFinal(g)
  PROVE  Tells
<1>1. /\ UNCHANGED <<worker, prompts, shown, expired>> /\ ~At(g, "idle")
      /\ chain[g] \in Chains /\ D(g) \in Deliveries /\ chain \in [Coordinators -> Chains]
  BY Underway DEF Steer, SettleTurn, Residual, ConsumeFinal, At, history, process, Core, Parts
<1>2. {"prompt", "residual", "after", "done"} \subseteq Stages \ {"claim"}
  BY DEF Stages
<1>3. /\ At(g, "prompt") \/ At(g, "settle") \/ At(g, "consume") => chain[g].id # NoId
      /\ At(g, "settle") => chain[g].outcome # "none"
      /\ chain[g].outcome # "none" => chain[g].id # NoId
  BY DEF Core, Staged, At
<1>4. ASSUME NEW k \in Chains, chain' = [chain EXCEPT ![g] = k], k.at # "claim", k.d = D(g),
             k.id \in {chain[g].id, NoId},
             NEW s \in Settlements, s.id = chain[g].id, s.note = "absent",
             \/ Settle(g, D(g), s)
             \/ UNCHANGED row /\ (Observe(g, D(g), s) \/ UNCHANGED observed)
      PROVE  Tells
  <2>1. PICK r, o : /\ row' = [row EXCEPT ![D(g)] = r] /\ Gives(row[D(g)], r, MyClaim(g))
                    /\ o \in Settlements \cup {NoSettlement}
                    /\ observed' = [observed EXCEPT ![g][D(g)] = o]
                    /\ \/ o \in {observed[g][D(g)], NoSettlement}
                       \/ o.id = chain[g].id /\ o.note = "absent"
    BY <1>1, <1>4, SettlementGives
  <2> QED
    BY <1>1, <1>4, <2>1, CallTells
<1>5. ASSUME chain[g].id # NoId, NEW outcome \in Outcomes, NEW note, note = "absent"
      PROVE  /\ [id |-> chain[g].id, outcome |-> outcome, note |-> note] \in Settlements
             /\ [id |-> chain[g].id, outcome |-> outcome, note |-> note].id = chain[g].id
  BY <1>1, <1>5 DEF Settlements, Chains, Turns
<1>6. ASSUME Return(g)
      PROVE  \E k \in Chains : /\ chain' = [chain EXCEPT ![g] = k] /\ k.at # "claim"
                               /\ k.d = D(g) /\ k.id \in {chain[g].id, NoId}
  <2>1. PICK d : d = D(g) /\ d \in Deliveries
    BY <1>1
  <2>2. Enter(g, "done", d, NoId) /\ "done" \in Stages
    BY <1>2, <1>6, <2>1 DEF Return
  <2>3. PICK k \in Chains : /\ chain' = [chain EXCEPT ![g] = k]
                            /\ k.at = "done" /\ k.outcome = "none" /\ k.id = NoId /\ k.d = d
    BY <2>1, <2>2, Entering
  <2> QED
    BY <2>1, <2>3
<1>7. ASSUME NEW stage \in {"residual", "after"}, Goto(g, stage)
      PROVE  \E k \in Chains : /\ chain' = [chain EXCEPT ![g] = k] /\ k.at # "claim"
                               /\ k.d = D(g) /\ k.id \in {chain[g].id, NoId}
  <2>1. PICK outcome \in Outcomes \cup {"none"} : outcome = chain[g].outcome
    BY <1>1 DEF Chains
  <2>2. stage \in Stages
    BY <1>2
  <2>3. PICK k \in Chains : /\ chain' = [chain EXCEPT ![g] = k]
                            /\ k.at = stage /\ k.outcome = outcome
                            /\ k.id = chain[g].id /\ k.d = D(g)
    BY <1>1, <1>7, <2>1, <2>2, Going
  <2> QED
    BY <2>3
<1>8. CASE Steer(g)
  <2>1. PICK s : s = [id |-> chain[g].id, outcome |-> "handled", note |-> "absent"]
    OBVIOUS
  <2>2. s \in Settlements /\ s.id = chain[g].id /\ s.note = "absent"
    BY <1>3, <1>5, <1>8, <2>1 DEF Steer, Outcomes
  <2>3. PICK k : k = [chain[g] EXCEPT !.outcome = "handled"]
    OBVIOUS
  <2>4. k \in Chains /\ k.at = chain[g].at /\ k.d = D(g) /\ k.id = chain[g].id
    BY <1>1, <2>3 DEF Chains, Outcomes, D
  <2>5. chain' = [chain EXCEPT ![g] = k] /\ k.at # "claim"
    BY <1>1, <1>8, <2>3, <2>4 DEF Steer, At
  <2>6. Settle(g, D(g), s) \/ (Observe(g, D(g), s) /\ UNCHANGED row)
    BY <1>8, <2>1 DEF Steer
  <2> QED
    BY <1>4, <2>2, <2>4, <2>5, <2>6
<1>9. CASE SettleTurn(g)
  <2>1. PICK s : s = MySettlement(g)
    OBVIOUS
  <2>2. s \in Settlements /\ s.id = chain[g].id /\ s.note = "absent"
    BY <1>1, <1>3, <1>5, <1>9, <2>1 DEF SettleTurn, MySettlement, Chains
  <2>3. PICK k \in Chains : /\ chain' = [chain EXCEPT ![g] = k] /\ k.at # "claim"
                            /\ k.d = D(g) /\ k.id \in {chain[g].id, NoId}
    BY <1>7, <1>9 DEF SettleTurn
  <2>4. Settle(g, D(g), s) \/ (Observe(g, D(g), s) /\ UNCHANGED row)
    BY <1>9, <2>1 DEF SettleTurn
  <2> QED
    BY <1>4, <2>2, <2>3, <2>4
<1>10. CASE ConsumeFinal(g)
  <2>1. PICK s : s = [id |-> chain[g].id, outcome |-> "finalize", note |-> "absent"]
    OBVIOUS
  <2>2. s \in Settlements /\ s.id = chain[g].id /\ s.note = "absent"
    BY <1>3, <1>5, <1>10, <2>1 DEF ConsumeFinal, Outcomes
  <2>3. PICK k \in Chains : /\ chain' = [chain EXCEPT ![g] = k] /\ k.at # "claim"
                            /\ k.d = D(g) /\ k.id \in {chain[g].id, NoId}
    BY <1>6, <1>10 DEF ConsumeFinal
  <2>4. Settle(g, D(g), s) \/ (UNCHANGED row /\ UNCHANGED observed)
    BY <1>10, <2>1 DEF ConsumeFinal
  <2> QED
    BY <1>4, <2>2, <2>3, <2>4
<1>11. CASE Residual(g)
  <2>1. PICK k \in Chains : /\ chain' = [chain EXCEPT ![g] = k] /\ k.at # "claim"
                            /\ k.d = D(g) /\ k.id \in {chain[g].id, NoId}
    BY <1>6, <1>7, <1>11 DEF Residual
  <2>2. CASE chain[g].outcome # "none"
    <3>1. PICK s : s = MySettlement(g)
      OBVIOUS
    <3>2. s \in Settlements /\ s.id = chain[g].id /\ s.note = "absent"
      BY <1>1, <1>3, <1>5, <2>2, <3>1 DEF MySettlement, Chains
    <3>3. Settle(g, D(g), s) \/ (UNCHANGED row /\ Observe(g, D(g), s))
      BY <1>11, <2>2, <3>1 DEF Residual
    <3> QED
      BY <1>4, <2>1, <3>2, <3>3
  <2>3. CASE chain[g].outcome = "none"
    <3>1. PICK r, o : /\ row' = [row EXCEPT ![D(g)] = r] /\ Gives(row[D(g)], r, MyClaim(g))
                      /\ o = observed[g][D(g)] /\ UNCHANGED observed
      <4>1. CASE UNCHANGED row
        BY <1>1, <1>11, <2>3, <4>1 DEF Residual, Gives, Core, Parts
      <4>2. CASE ~UNCHANGED row
        BY <1>11, <2>3, <4>2 DEF Residual, Gives
      <4> QED
        BY <4>1, <4>2
    <3>2. o \in Settlements \cup {NoSettlement} /\ observed' = [observed EXCEPT ![g][D(g)] = o]
      BY <1>1, <3>1 DEF Core, Parts
    <3> QED
      BY <1>1, <2>1, <3>1, <3>2, CallTells
  <2> QED
    BY <2>2, <2>3
<1> QED
  BY <1>8, <1>9, <1>10, <1>11

\* The chain jumps after a call with its claim.
LEMMA GoingCallsTell ==
  ASSUME Core, Told, NEW g \in Coordinators, ~At(g, "idle"),
         NEW stage \in Stages \ {"claim"}, NEW outcome \in Outcomes \cup {"none"},
         GotoWith(g, stage, outcome) \/ (Goto(g, stage) /\ outcome = chain[g].outcome),
         NEW r, row' = [row EXCEPT ![D(g)] = r], Gives(row[D(g)], r, MyClaim(g)),
         UNCHANGED <<observed, worker, prompts, shown, expired>>
  PROVE  Tells
<1>1. PICK k \in Chains : /\ chain' = [chain EXCEPT ![g] = k]
                          /\ k.at = stage /\ k.outcome = outcome
                          /\ k.id = chain[g].id /\ k.d = D(g)
  BY Going
<1>2. PICK o : o = observed[g][D(g)]
  OBVIOUS
<1>3. o \in Settlements \cup {NoSettlement} /\ observed' = [observed EXCEPT ![g][D(g)] = o]
  BY <1>2, Underway DEF Core, Parts
<1> QED
  BY <1>1, <1>2, <1>3, CallTells

\* The attempt is counted, or the claim given up.
LEMMA PrepareTells ==
  ASSUME Core, Told, NEW g \in Coordinators, PrepareTurn(g)
  PROVE  Tells
<1>1. /\ UNCHANGED <<observed, worker, prompts, shown, expired>> /\ ~At(g, "idle")
      /\ chain[g] \in Chains /\ D(g) \in Deliveries /\ chain[g].outcome = "none"
  BY Underway DEF PrepareTurn, Failed, At, history, process, Staged
<1>2. /\ {"body", "release"} \subseteq Stages \ {"claim"}
      /\ {"none", "handled"} \subseteq Outcomes \cup {"none"}
  BY DEF Stages, Outcomes
<1>3. PICK r \in {row[D(g)], Prepare(row[D(g)], MyClaim(g)), Release(row[D(g)], MyClaim(g))} :
        row' = [row EXCEPT ![D(g)] = r]
  BY DEF PrepareTurn, Failed
<1>4. Gives(row[D(g)], r, MyClaim(g))
  BY <1>3 DEF Gives
<1>5. PICK stage \in {"body", "release"}, outcome \in {"none", "handled"} :
        GotoWith(g, stage, outcome) \/ (Goto(g, stage) /\ outcome = chain[g].outcome)
  BY <1>1 DEF PrepareTurn, Failed
<1>6. stage \in Stages \ {"claim"} /\ outcome \in Outcomes \cup {"none"}
  BY <1>2, <1>5
<1> QED
  BY <1>1, <1>3, <1>4, <1>5, <1>6, GoingCallsTell

\* The provider is prompted with what the history holds.
LEMMA StartPromptTells ==
  ASSUME Core, Told, NEW g \in Coordinators, StartPrompt(g)
  PROVE  Tells
<1>1. /\ UNCHANGED <<observed, worker, shown, expired>> /\ At(g, "body") /\ ~At(g, "idle")
      /\ chain[g] \in Chains /\ D(g) \in Deliveries /\ chain[g].outcome = "none"
      /\ row[D(g)] \in Rows /\ Ahead(chain[g], row[D(g)]) /\ worker[g].boot \in Boots
      /\ chain[g].id # NoId
  BY Underway DEF StartPrompt, At, history, process, Staged
<1>2. PICK d, c, r : d = D(g) /\ c = MyClaim(g) /\ r = MarkStarted(row[d], c)
  OBVIOUS
<1>3. {"prompt", "release"} \subseteq Stages \ {"claim"}
      /\ {"none", "cancelled", "not_started"} \subseteq Outcomes \cup {"none"}
  BY DEF Stages, Outcomes
<1>4. Gives(row[d], r, c)
  BY <1>2 DEF Gives
<1>5. CASE UNCHANGED <<row, prompts>>
  <2>1. PICK outcome \in {"none", "not_started", "cancelled"} : GotoWith(g, "release", outcome)
    <3>1. ~(Goto(g, "prompt") /\ prompts' = [prompts EXCEPT ![d] = @ + 1])
      BY <1>1, <1>2, <1>5 DEF Core, PromptsTyped
    <3> QED
      BY <1>2, <3>1 DEF StartPrompt
  <2> QED
    BY <1>1, <1>3, <1>5, <2>1, GoingTells
<1>6. CASE /\ GotoWith(g, "release", "cancelled") /\ UNCHANGED prompts
           /\ row' = [row EXCEPT ![d] = r]
  BY <1>1, <1>2, <1>3, <1>4, <1>6, GoingCallsTell
<1>7. CASE /\ Goto(g, "prompt") /\ prompts' = [prompts EXCEPT ![d] = @ + 1]
           /\ row' = [row EXCEPT ![d] = r] /\ StartGranted(row[d], c)
  <2>1. c.id = chain[g].id /\ c \in Claims
    BY <1>1, <1>2 DEF MyClaim, ClaimBy, Chains, Claims
  <2>2. HeldBy(row[d], c) /\ row[d].phase = "prepared"
    BY <1>1, <1>2, <1>7, <2>1, RowAssumption DEF Ahead, At, StartGranted
  <2>3. row[d].state = "pending" /\ r.state = "pending" /\ row[d].claim = c
    BY <1>1, <1>2, <2>2 DEF HeldBy, MarkStarted, Rows
  <2>4. Fit(d)
    BY <1>1, <1>2, <2>3 DEF Told, Fits, ChainFit
  <2>5. prompts[d] = 0
    <3>1. ~Spent(row[d])
      BY <2>2 DEF Spent, HeldBy
    <3>2. prompts[d] \in Nat /\ ~(prompts[d] > 0)
      BY <1>1, <1>2, <3>1 DEF Core, PromptsSpent, PromptsTyped
    <3> QED
      BY <3>2
  <2>6. PICK k \in Chains : /\ chain' = [chain EXCEPT ![g] = k]
                            /\ k.at = "prompt" /\ k.outcome = "none"
                            /\ k.id = chain[g].id /\ k.d = D(g)
    BY <1>1, <1>3, <1>7, Going
  <2>7. PICK o : o = observed[g][D(g)]
    OBVIOUS
  <2>8. o \in Settlements \cup {NoSettlement} /\ observed' = [observed EXCEPT ![g][D(g)] = o]
    BY <1>1, <2>7 DEF Core, Parts
  <2>9. expired' \in {expired, [expired EXCEPT ![D(g)] = TRUE]}
    BY <1>1
  <2>10. ClaimsPend' /\ Fits'
    BY <1>1, <1>2, <1>4, <1>7, <2>6, <2>7, <2>8, <2>9, CallFits DEF Told
  <2>11. row'[d] = r /\ \A e \in Deliveries : e # d => row'[e] = row[e]
    BY <1>1, <1>2, <1>7 DEF Core, Parts
  <2>12. prompts'[d] = 1 /\ \A e \in Deliveries : e # d => prompts'[e] = prompts[e]
    BY <1>1, <1>2, <1>7, <2>5 DEF Core, PromptsTyped
  <2>13. Others(d)
    BY <1>1, <2>11, <2>12 DEF Others
  <2>14. faults' <= 1 => Seen(d)
    BY <2>4 DEF Fit, Seen, Told, Rising
  <2>15. ContractStep
    BY <1>1, <1>2, <2>3, <2>5, <2>11, <2>12, <2>13, <2>14, ContractPrompts DEF ContractStep
  <2> QED
    BY <2>10, <2>15 DEF Tells
<1> QED
  BY <1>2, <1>5, <1>6, <1>7 DEF StartPrompt, MayStart

\* The turn begins with an id no claim has.
LEMMA BeginTurnTells ==
  ASSUME Core, Told, NEW g \in Coordinators, BeginTurn(g)
  PROVE  Tells
<1>1. /\ UNCHANGED <<row, observed, worker, prompts, shown, expired>> /\ ~At(g, "idle")
      /\ chain[g] \in Chains /\ D(g) \in Deliveries /\ chain[g].outcome = "none"
      /\ worker[g].boot \in Boots
  BY Underway DEF BeginTurn, At, history, store, process, Staged
<1>2. CASE Goto(g, "residual")
  BY <1>1, <1>2, GoingTells DEF Stages
<1>3. CASE /\ IdLeft
           /\ chain' = [chain EXCEPT ![g].at = "claim", ![g].id = FreshId]
  <2>1. chain'[g].id = FreshId /\ \A h \in Coordinators : h # g => chain'[h] = chain[h]
    BY <1>1, <1>3 DEF Core, Parts, Chains
  <2>2. ClaimBy(g, FreshId) # NoClaim /\ ClaimBy(g, FreshId).id = FreshId /\ FreshId \notin UsedIds
    BY <1>1, <1>3, FreshIsMine, RowAssumption DEF ClaimBy, Claims
  <2>3. \A d \in Deliveries : row[d].claim # ClaimBy(g, FreshId)
    <3> SUFFICES ASSUME NEW d \in Deliveries, row[d].claim = ClaimBy(g, FreshId) PROVE FALSE
      OBVIOUS
    <3>1. d \in {e \in Deliveries : row[e].claim # NoClaim} /\ row[d].claim.id = FreshId
      BY <2>2
    <3>2. FreshId \in {row[e].claim.id : e \in {e \in Deliveries : row[e].claim # NoClaim}}
      BY <3>1
    <3> QED
      BY <2>2, <3>2 DEF UsedIds
  <2>4. chain'[g].d = D(g)
    BY <1>1, <1>3 DEF Core, Parts, Chains, D
  <2>5. ClaimsPend' /\ ConsumedFit'
    BY <1>1 DEF Told, ClaimsPend, Fits, ConsumedFit, Fit, Rising
  <2>6. \A h \in Coordinators : ObservedFit(h)'
    BY <1>1 DEF Told, Fits, ObservedFit, Due, Fit, ClaimBy, Rising
  <2>7. \A h \in Coordinators : ChainFit(h)'
    <3> SUFFICES ASSUME NEW h \in Coordinators PROVE ChainFit(h)'
      OBVIOUS
    <3>1. CASE h = g
      BY <1>1, <2>1, <2>3, <2>4, <3>1 DEF ChainFit, MyClaim, ClaimBy, D, At
    <3>2. CASE h # g
      BY <1>1, <2>1, <3>2 DEF Told, Fits, ChainFit, MyClaim, ClaimBy, D, At, Fit, Rising
    <3> QED
      BY <3>1, <3>2
  <2>8. ContractStep
    BY <1>1, ContractStays DEF ContractStep
  <2> QED
    BY <2>5, <2>6, <2>7, <2>8 DEF Tells, Fits
<1> QED
  BY <1>2, <1>3 DEF BeginTurn

\* The row is claimed and the completion is written.  Only if that write fails and
\* the release after it as well, the row stays claimed untold.
LEMMA ClaimTells ==
  ASSUME Core, Told, NEW g \in Coordinators, Claim(g)
  PROVE  Tells
<1>1. /\ UNCHANGED <<observed, worker, prompts, expired>> /\ At(g, "claim") /\ ~At(g, "idle")
      /\ chain[g] \in Chains /\ D(g) \in Deliveries /\ chain[g].outcome = "none"
      /\ row[D(g)] \in Rows /\ worker[g].boot \in Boots
      /\ chain[g].id # NoId /\ chain[g].id \in Mine(g)
  BY Underway DEF Claim, At, history, process, Staged
<1>2. PICK d, c, r, o : /\ d = D(g) /\ c = MyClaim(g) /\ r = ClaimExecution(row[d], c)
                        /\ o = observed[g][d]
  OBVIOUS
<1>3. {"prepare", "release"} \subseteq Stages \ {"claim"}
      /\ {"none", "handled"} \subseteq Outcomes \cup {"none"}
  BY DEF Stages, Outcomes
<1>4. CASE /\ UNCHANGED <<row, history>>
           /\ GotoWith(g, "release", "none") \/ GotoWith(g, "release", "handled")
  BY <1>1, <1>3, <1>4, GoingTells DEF history
<1>5. c \in Claims /\ c.id = chain[g].id
  BY <1>1, <1>2 DEF MyClaim, ClaimBy, Chains, Claims
<1>6. row[d].claim # c
  BY <1>1, <1>2 DEF Told, Fits, ChainFit
<1>7. ASSUME ClaimGranted(row[d], c)
      PROVE  /\ row[d].claim = NoClaim /\ row[d].phase = "ready" /\ row[d].state = "pending"
             /\ r = [row[d] EXCEPT !.phase = "claimed", !.claim = c]
             /\ r \in Rows /\ r.claim = c /\ r.phase = "claimed" /\ r.state = "pending"
             /\ Release(r, c) = row[d]
  <2>1. row[d].claim = NoClaim /\ row[d].phase = "ready" /\ row[d].state = "pending"
    BY <1>6, <1>7 DEF ClaimGranted, HeldBy
  <2>2. r = [row[d] EXCEPT !.phase = "claimed", !.claim = c]
    BY <1>2, <1>6, <1>7 DEF ClaimExecution, HeldBy
  <2>3. r \in Rows /\ r.claim = c /\ r.phase = "claimed" /\ r.state = "pending"
    BY <1>1, <1>2, <1>5, <2>1, <2>2 DEF Rows, Phases
  <2>4. Release(r, c) = [r EXCEPT !.phase = "ready", !.claim = NoClaim]
    BY <2>3 DEF Release, HeldBy, Reopened, Rows
  <2>5. Release(r, c) = row[d]
    <3>1. PICK q \in Rows : q = row[d]
      BY <1>1, <1>2
    <3>2. Release(r, c) = [q EXCEPT !.phase = "ready", !.claim = NoClaim]
      BY <2>2, <2>4, <3>1 DEF Rows
    <3>3. q.phase = "ready" /\ q.claim = NoClaim
      BY <2>1, <3>1
    <3>4. [q EXCEPT !.phase = "ready", !.claim = NoClaim] = q
      BY <3>3 DEF Rows
    <3> QED
      BY <3>1, <3>2, <3>4
  <2> QED
    BY <2>1, <2>2, <2>3, <2>5
<1>8. ASSUME ClaimGranted(row[d], c), row' = [row EXCEPT ![d] = r],
             NEW stage \in {"prepare", "release"}, NEW outcome \in {"none", "handled"},
             GotoWith(g, stage, outcome) \/ (Goto(g, stage) /\ outcome = chain[g].outcome),
             WriteTurn(d, "absent") \/ (UNCHANGED history /\ ~(faults' <= 1))
      PROVE  Tells
  <2>1. PICK k \in Chains : /\ chain' = [chain EXCEPT ![g] = k]
                            /\ k.at = stage /\ k.outcome = outcome
                            /\ k.id = chain[g].id /\ k.d = D(g)
    BY <1>1, <1>3, <1>8, Going
  <2>2. row'[d] = r /\ \A e \in Deliveries : e # d => row'[e] = row[e]
    BY <1>1, <1>2, <1>8 DEF Core, Parts
  <2>3. /\ \A e \in Deliveries \ {d} : shown'[e] = shown[e]
        /\ faults' <= 1 => shown'[d] # "absent"
    BY <1>1, <1>2, <1>8 DEF WriteTurn, history, Told, HistoryTyped
  <2>4. Fit(d)'
    BY <1>7, <1>8, <2>2, <2>3 DEF Fit
  <2>5. Due(d, o.note)'
    BY <1>7, <1>8, <2>2, <2>4 DEF Due
  <2>6. o \in Settlements \cup {NoSettlement} /\ observed' = [observed EXCEPT ![g][d] = o]
    BY <1>1, <1>2 DEF Core, Parts
  <2>7. TellingStep(g, d, k, r, c, o)
    <3>1. r \in Rows /\ r.claim = c /\ r.state = "pending" /\ r.claim # NoClaim
          /\ row[d].claim = NoClaim
      BY <1>5, <1>7, <1>8, RowAssumption
    <3>2. k.at # "claim" /\ k.d = d
      BY <1>2, <1>8, <2>1
    <3>3. c.id \in Mine(g) /\ \A e \in Deliveries : expired[e] => expired'[e]
      BY <1>1, <1>5
    <3> QED
      BY <1>1, <1>8, <2>1, <2>3, <2>4, <2>6, <3>1, <3>2, <3>3 DEF TellingStep
  <2>8. ClaimsPend' /\ Fits'
    BY <1>1, <1>2, <2>5, <2>7, StepTells DEF Told
  <2>9. ContractStep
    <3>1. Others(d) /\ row'[d].state = row[d].state
      BY <1>1, <1>7, <1>8, <2>2, <2>3 DEF Others
    <3>2. faults' <= 1 => Seen(d)'
      BY <2>3 DEF Seen
    <3> QED
      BY <1>1, <1>2, <3>1, <3>2, ContractTells DEF ContractStep
  <2> QED
    BY <2>8, <2>9 DEF Tells
<1>9. CASE /\ ClaimGranted(row[d], c) /\ row' = [row EXCEPT ![d] = r]
           /\ WriteTurn(d, "absent") /\ Goto(g, "prepare")
  BY <1>1, <1>8, <1>9
<1>10. CASE ClaimGranted(row[d], c) /\ Failed(g, r)
  <2>1. GotoWith(g, "release", "handled") /\ UNCHANGED history
    BY <1>10 DEF Failed
  <2>2. CASE row' = [row EXCEPT ![d] = Release(r, c)]
    <3>1. UNCHANGED row
      BY <1>1, <1>2, <1>7, <1>10, <2>2 DEF Core, Parts
    <3> QED
      BY <1>4, <2>1, <3>1
  <2>3. CASE row' = [row EXCEPT ![d] = r] /\ faults' = faults + 2
    <3>1. faults \in Nat
      BY DEF Told, BudgetTyped
    <3>2. ~(faults' <= 1)
      BY <2>3, <3>1
    <3> QED
      BY <1>1, <1>8, <1>10, <2>1, <2>3, <3>2
  <2> QED
    BY <1>2, <1>10, <2>2, <2>3 DEF Failed
<1> QED
  BY <1>2, <1>4, <1>9, <1>10 DEF Claim

\* A row taken without executing it is told before its claim is known to be settled.
LEMMA FinalizeTells ==
  ASSUME Core, Told, NEW g \in Coordinators, ~At(g, "idle"),
         NEW note \in {"absent", "failed", "uncertain"},
         NEW phase \in Phases, NEW exhausted \in BOOLEAN, Finalize(g, note, phase, exhausted),
         UNCHANGED <<worker, prompts>>, expired' \in {expired, [expired EXCEPT ![D(g)] = TRUE]},
         note = "absent" => expired'[D(g)], note = "failed" => phase # "uncertain"
  PROVE  Tells
<1>1. /\ worker[g].boot \in Boots /\ D(g) \in Deliveries /\ row[D(g)] \in Rows
  BY Underway
<1>2. PICK d, id, c, r, s, t :
        /\ d = D(g) /\ id = FreshId /\ c = ClaimBy(g, id)
        /\ r = ClaimFinalization(row[d], c, phase, exhausted)
        /\ s = [id |-> id, outcome |-> "finalize", note |-> note]
        /\ t = [id |-> id, outcome |-> "finalize", note |-> "absent"]
  OBVIOUS
<1>3. id \in ClaimIds /\ id \in Mine(g) /\ id # NoId /\ id \notin UsedIds
  BY <1>2, FreshIsMine, DeliveryAssumption DEF Finalize
<1>4. c \in Claims /\ c.id = id /\ c # NoClaim
  BY <1>1, <1>2, <1>3, RowAssumption DEF ClaimBy, Claims
<1>5. row[d].claim # c
  <2> SUFFICES ASSUME row[d].claim = c PROVE FALSE
    OBVIOUS
  <2>1. d \in {e \in Deliveries : row[e].claim # NoClaim} /\ row[d].claim.id = id
    BY <1>1, <1>2, <1>4
  <2>2. id \in {row[e].claim.id : e \in {e \in Deliveries : row[e].claim # NoClaim}}
    BY <2>1
  <2> QED
    BY <1>3, <2>2 DEF UsedIds
<1>6. s \in Settlements /\ t \in Settlements /\ s.id = id /\ t.id = id /\ s.note = note
      /\ t.note = "absent" /\ t = [s EXCEPT !.note = "absent"]
  BY <1>2, <1>3 DEF Settlements, Turns, Outcomes
<1>7. /\ expired'[d] \in BOOLEAN /\ (\A e \in Deliveries : expired[e] => expired'[e])
      /\ \A e \in Deliveries \ {d} : expired'[e] = expired[e]
  BY <1>1, <1>2 DEF Told, ExpiryTyped
<1>8. ASSUME FinalizationGranted(row[d], c, phase, exhausted), row' = [row EXCEPT ![d] = r],
             NEW o \in Settlements, o.id = id, observed' = [observed EXCEPT ![g][d] = o],
             NEW k \in Chains, chain' = [chain EXCEPT ![g] = k], k.at # "claim", k.d = d,
             \/ /\ o.note = "absent"
                /\ IF note = "absent" THEN UNCHANGED history ELSE WriteTurn(d, note)
             \/ k.id = NoId /\ o.note = note /\ note # "absent" /\ UNCHANGED history
      PROVE  Tells
  <2>1. row[d].claim = NoClaim /\ row[d].state = "pending" /\ row[d].phase = phase
    BY <1>5, <1>8 DEF FinalizationGranted, HeldBy
  <2>2. r = [row[d] EXCEPT !.claim = c]
    BY <1>2, <1>8 DEF ClaimFinalization
  <2>3. r \in Rows /\ r.claim = c /\ r.phase = phase /\ r.state = "pending"
    BY <1>1, <1>2, <1>4, <2>1, <2>2 DEF Rows
  <2>4. row'[d] = r /\ \A e \in Deliveries : e # d => row'[e] = row[e]
    BY <1>1, <1>2, <1>8 DEF Core, Parts
  <2>5. /\ \A e \in Deliveries \ {d} : shown'[e] = shown[e]
        /\ shown'[d] = IF o.note = "absent" /\ note # "absent" THEN note ELSE shown[d]
    BY <1>1, <1>2, <1>8 DEF WriteTurn, history, Told, HistoryTyped
  <2>6. o.note = "absent" => Fit(d)'
    BY <1>2, <1>8, <2>3, <2>4, <2>5 DEF Fit
  <2>7. Due(d, o.note)'
    BY <1>8, <2>3, <2>4, <2>6 DEF Due
  <2>8. k.id = NoId => r.claim # ClaimBy(g, k.id)
    BY <1>3, <1>4, <2>3 DEF ClaimBy
  <2>9. TellingStep(g, d, k, r, c, o)
    BY <1>3, <1>4, <1>7, <1>8, <2>1, <2>3, <2>5, <2>6, <2>8 DEF TellingStep
  <2>10. ClaimsPend' /\ Fits'
    BY <1>1, <1>2, <2>7, <2>9, StepTells DEF Told
  <2>11. ContractStep
    <3>1. Others(d) /\ row'[d].state = row[d].state /\ prompts'[d] = prompts[d]
      BY <1>7, <2>1, <2>3, <2>4, <2>5 DEF Others
    <3>2. Seen(d) => Seen(d)'
      BY <1>1, <1>2, <1>7, <2>5 DEF Seen
    <3> QED
      BY <1>1, <1>2, <3>1, <3>2, ContractTells DEF ContractStep
  <2> QED
    BY <2>10, <2>11 DEF Tells
<1>9. \A stage \in {"consume", "done"} : stage \in Stages
  BY DEF Stages
<1>10. CASE /\ FinalizationGranted(row[d], c, phase, exhausted) /\ row' = [row EXCEPT ![d] = r]
            /\ IF note = "absent" THEN UNCHANGED history ELSE WriteTurn(d, note)
            /\ Observe(g, d, t) /\ Enter(g, "consume", d, id)
  <2>1. PICK k \in Chains : /\ chain' = [chain EXCEPT ![g] = k]
                            /\ k.at = "consume" /\ k.outcome = "none" /\ k.id = id /\ k.d = d
    BY <1>1, <1>2, <1>3, <1>9, <1>10, Entering
  <2> QED
    BY <1>6, <1>8, <1>10, <2>1 DEF Observe
<1>11. CASE /\ FinalizationGranted(row[d], c, phase, exhausted) /\ row' = [row EXCEPT ![d] = r]
            /\ note # "absent" /\ UNCHANGED history /\ Observe(g, d, s) /\ Return(g)
  <2>1. PICK k \in Chains : /\ chain' = [chain EXCEPT ![g] = k]
                            /\ k.at = "done" /\ k.outcome = "none" /\ k.id = NoId /\ k.d = d
    BY <1>1, <1>2, <1>9, <1>11, Entering DEF Return
  <2> QED
    BY <1>6, <1>8, <1>11, <2>1 DEF Observe
<1>12. CASE Return(g) /\ UNCHANGED <<row, history, observed>>
  BY <1>12, ReturnTells DEF Return, history
<1>13. /\ row' = [row EXCEPT ![D(g)] = ClaimFinalization(@, ClaimBy(g, FreshId), phase, exhausted)]
          => row' = [row EXCEPT ![d] = r]
       /\ [[id |-> FreshId, outcome |-> "finalize", note |-> note] EXCEPT !.note = "absent"] = t
  BY <1>2, <1>6
<1> QED
  <2>1. \/ /\ FinalizationGranted(row[d], c, phase, exhausted) /\ row' = [row EXCEPT ![d] = r]
           /\ IF note = "absent" THEN UNCHANGED history ELSE WriteTurn(d, note)
           /\ Observe(g, d, t) /\ Enter(g, "consume", d, id)
        \/ /\ FinalizationGranted(row[d], c, phase, exhausted) /\ row' = [row EXCEPT ![d] = r]
           /\ note # "absent" /\ UNCHANGED history /\ Observe(g, d, s) /\ Return(g)
        \/ Return(g) /\ UNCHANGED <<row, history, observed>>
    BY <1>2, <1>13 DEF Finalize
  <2> QED
    BY <1>10, <1>11, <1>12, <2>1

\* The three places that finalize.
LEMMA DecisionsTell ==
  ASSUME Core, Told, NEW g \in Coordinators, Decide(g) \/ Configure(g) \/ AfterResidual(g)
  PROVE  Tells
<1>1. /\ UNCHANGED <<worker, prompts>> /\ ~At(g, "idle") /\ chain[g] \in Chains
      /\ expired' \in {expired, [expired EXCEPT ![D(g)] = TRUE]}
  BY DEF Decide, Configure, AfterResidual, At, history, process, Core, Parts
<1>2. {"uncertain", "ready"} \subseteq Phases /\ {TRUE, FALSE} \subseteq BOOLEAN
  BY DEF Phases
<1>3. ASSUME NEW phase \in {"uncertain", "ready"}, Finalize(g, "absent", phase, FALSE),
             expired'[D(g)]
      PROVE  Tells
  BY <1>1, <1>2, <1>3, FinalizeTells
<1>4. CASE FailUncertain(g)
  BY <1>1, <1>2, <1>4, FinalizeTells DEF FailUncertain
<1>5. ASSUME NEW exhausted \in BOOLEAN, Finalize(g, "failed", "ready", exhausted)
      PROVE  Tells
  BY <1>1, <1>2, <1>5, FinalizeTells
<1>6. CASE UNCHANGED <<row, history, observed>> /\ Return(g)
  BY <1>1, <1>6, ReturnTells DEF Return, history
<1>7. CASE UNCHANGED <<row, history, observed>> /\ Enter(g, "config", D(g), NoId)
  BY <1>1, <1>7, ReturnTells DEF history
<1>8. CASE Goto(g, "turn") /\ UNCHANGED <<row, history, observed, expired>>
  <2>1. PICK outcome \in Outcomes \cup {"none"} : outcome = chain[g].outcome
    BY <1>1 DEF Chains
  <2>2. "turn" \in Stages \ {"claim"}
    BY DEF Stages
  <2> QED
    BY <1>1, <1>8, <2>1, <2>2, GoingTells DEF history
<1>9. CASE Decide(g)
  BY <1>3, <1>4, <1>5, <1>6, <1>7, <1>9 DEF Decide, FailExhausted
<1>10. CASE Configure(g)
  BY <1>5, <1>6, <1>8, <1>10 DEF Configure
<1>11. CASE AfterResidual(g)
  BY <1>4, <1>5, <1>6, <1>11 DEF AfterResidual, FailExhausted
<1> QED
  BY <1>9, <1>10, <1>11

\* A pass begins, or settles what a pass before it left observed.
LEMMA BeginTells ==
  ASSUME Core, Told, SchedulingTyped, NEW g \in Coordinators, Begin(g)
  PROVE  Tells
<1>1. At(g, "idle") /\ UNCHANGED <<worker, prompts, expired>>
  BY DEF Begin, process
<1>2. chain[g] = IdleChain /\ worker[g].boot \in Boots
  BY <1>1 DEF Core, Staged, At, Parts, Workers
<1>3. queue[g] \in Seq(Deliveries) /\ queue[g] # <<>>
  BY DEF SchedulingTyped, Begin
<1>4. PICK d, s, c, u : /\ d = Head(queue[g]) /\ s = observed[g][d] /\ c = ClaimBy(g, s.id)
                        /\ u = row[d]
  OBVIOUS
<1>5. d \in Deliveries
  BY <1>3, <1>4
<1>6. s \in Settlements \cup {NoSettlement} /\ s.id \in Mine(g) /\ u \in Rows
  BY <1>4, <1>5 DEF Core, Parts, Mine, OwnIds
<1>7. \A e \in Deliveries : expired[e] => expired'[e]
  BY <1>1
<1>8. c \in Claims => c.id \in Mine(g)
  BY <1>4, <1>6 DEF ClaimBy, Claims
<1>9. u.claim # ClaimBy(g, NoId)
  BY <1>2, <1>6, DeliveryAssumption DEF ClaimBy, Claims, Rows
<1>10. \A stage \in {"consume", "done", "lookup"} : stage \in Stages
  BY DEF Stages
<1>11. u.claim = c => Due(d, s.note)
  BY <1>4, <1>5 DEF Told, Fits, ObservedFit
<1>12. ASSUME UNCHANGED <<row, shown>>, NEW k \in Chains, chain' = [chain EXCEPT ![g] = k],
              k.at # "claim", k.d = d, k.id = NoId,
              NEW o \in {s, NoSettlement}, observed' = [observed EXCEPT ![g][d] = o]
       PROVE  Tells
  <2>1. row' = [row EXCEPT ![d] = u] /\ row'[d] = u
    BY <1>4, <1>5, <1>12 DEF Core, Parts
  <2>2. u.claim # NoClaim => u.state = "pending"
    BY <1>4, <1>5 DEF Told, ClaimsPend
  <2>3. TellingStep(g, d, k, u, NoClaim, o)
    <3>1. NoClaim \notin Claims /\ k.at # "idle" => u.claim # ClaimBy(g, k.id)
      BY <1>9, <1>12, RowAssumption
    <3>2. /\ row[d].claim = u.claim /\ (u.state = "consumed" => u = row[d])
          /\ UNCHANGED <<worker, shown>>
      BY <1>1, <1>4, <1>12
    <3>3. NoClaim \in Claims => NoClaim.id \in Mine(g)
      BY RowAssumption
    <3>4. u.claim # ClaimBy(g, k.id)
      BY <1>9, <1>12
    <3>5. /\ u \in Rows /\ o \in Settlements \cup {NoSettlement}
          /\ row[d].claim \notin {NoClaim, NoClaim} => u = row[d]
          /\ shown'[d] = shown[d]
          /\ \A e \in Deliveries \ {d} : shown'[e] = shown[e]
      BY <1>4, <1>6, <1>12
    <3> QED
      BY <1>7, <1>12, <2>1, <2>2, <3>2, <3>3, <3>4, <3>5 DEF TellingStep
  <2>4. u.claim # NoClaim /\ u.claim = ClaimBy(g, o.id) => Due(d, o.note)'
    <3> SUFFICES ASSUME u.claim = ClaimBy(g, o.id) PROVE Due(d, o.note)'
      OBVIOUS
    <3>1. o = s
      BY <1>9, <1>12 DEF NoSettlement
    <3>2. Due(d, o.note)
      BY <1>4, <1>11, <3>1
    <3> QED
      BY <1>1, <1>12, <3>2 DEF Due, Fit, Told, Rising
  <2>5. ClaimsPend' /\ Fits'
    BY <1>5, <2>3, <2>4, StepTells DEF Told
  <2>6. ContractStep
    BY <1>1, <1>12, ContractStays DEF ContractStep
  <2> QED
    BY <2>5, <2>6 DEF Tells
<1>13. ASSUME Enter(g, "done", d, NoId)
       PROVE  \E k \in Chains : /\ chain' = [chain EXCEPT ![g] = k]
                                /\ k.at # "claim" /\ k.id = NoId /\ k.d = d
  <2>1. PICK k \in Chains : /\ chain' = [chain EXCEPT ![g] = k]
                            /\ k.at = "done" /\ k.outcome = "none" /\ k.id = NoId /\ k.d = d
    BY <1>5, <1>10, <1>13, Entering
  <2> QED
    BY <2>1
<1>14. CASE /\ \/ chain' = [chain EXCEPT ![g].at = "lookup", ![g].d = d, ![g].snapshot = u]
               \/ Enter(g, "done", d, NoId)
            /\ Observe(g, d, NoSettlement)
            /\ UNCHANGED <<row, history>>
  <2>1. PICK k \in Chains : /\ chain' = [chain EXCEPT ![g] = k]
                            /\ k.at # "claim" /\ k.id = NoId /\ k.d = d
    <3>1. CASE chain' = [chain EXCEPT ![g].at = "lookup", ![g].d = d, ![g].snapshot = u]
      <4>1. PICK k : k = [IdleChain EXCEPT !.at = "lookup", !.d = d, !.snapshot = u]
        OBVIOUS
      <4>2. chain' = [chain EXCEPT ![g] = k]
        BY <1>2, <3>1, <4>1 DEF Core, Parts
      <4>3. k \in Chains /\ k.at = "lookup" /\ k.id = NoId /\ k.d = d
        BY <1>5, <1>6, <4>1 DEF IdleChain, Chains, Stages
      <4> QED
        BY <4>2, <4>3
    <3> QED
      BY <1>13, <1>14, <3>1
  <2> QED
    BY <1>12, <1>14, <2>1 DEF Observe, history
<1>15. CASE Enter(g, "done", d, NoId) /\ UNCHANGED <<row, history, observed>>
  <2>1. observed' = [observed EXCEPT ![g][d] = s]
    BY <1>4, <1>15 DEF Core, Parts
  <2> QED
    BY <1>12, <1>13, <1>15, <2>1 DEF history
<1>16. CASE /\ u.claim = c /\ s.note = "absent" /\ Enter(g, "done", d, NoId) /\ Settle(g, d, s)
            /\ UNCHANGED history
  <2>1. PICK r : r = Settled(u, c, s.outcome)
    OBVIOUS
  <2>2. PICK o : o = IF r.claim = c THEN s ELSE NoSettlement
    OBVIOUS
  <2>3. row' = [row EXCEPT ![d] = r] /\ observed' = [observed EXCEPT ![g][d] = o]
    BY <1>4, <1>16, <2>1, <2>2 DEF Settle, Observe
  <2>4. Gives(u, r, c) /\ (u.claim # NoClaim => u.state = "pending")
    BY <1>4, <1>5, <2>1 DEF Gives, Settled, Told, ClaimsPend
  <2>5. /\ r \in Rows
        /\ r.claim \in {c, NoClaim}
        /\ r.claim # NoClaim => r.state = "pending"
        /\ r.claim # NoClaim /\ r.phase = "uncertain" => u.phase = "uncertain"
        /\ \/ r.state = u.state
           \/ r.state = "consumed" /\ u.state = "pending" /\ r.phase = u.phase
    BY <1>6, <1>16, <2>4, GivesFacts
  <2>6. Fit(d) /\ c # NoClaim
    <3>1. s.id \in ClaimIds \cup {NoId}
      BY <1>6 DEF Settlements, NoSettlement
    <3>2. c # NoClaim
      BY <1>2, <1>4, <3>1, RowAssumption, DeliveryAssumption DEF ClaimBy, Claims
    <3> QED
      BY <1>11, <1>16, <3>2 DEF Due
  <2>7. row'[d] = r /\ \A e \in Deliveries : e # d => row'[e] = row[e]
    BY <1>5, <2>3 DEF Core, Parts
  <2>8. u.state = "pending"
    BY <1>16, <2>4, <2>6
  <2>9. r.claim # NoClaim \/ r.state = "consumed" => Fit(d)'
    BY <1>1, <1>4, <1>5, <1>16, <2>5, <2>6, <2>7, <2>8, FitStays DEF history, Told
  <2>10. PICK k \in Chains : /\ chain' = [chain EXCEPT ![g] = k]
                             /\ k.at # "claim" /\ k.id = NoId /\ k.d = d
    BY <1>13, <1>16
  <2>11. o \in Settlements \cup {NoSettlement}
    BY <1>6, <2>2
  <2>12. r.claim # ClaimBy(g, NoId)
    BY <1>2, <2>5, DeliveryAssumption DEF ClaimBy, Claims, Rows
  <2>13. TellingStep(g, d, k, r, c, o)
    BY <1>4, <1>7, <1>8, <1>16, <2>3, <2>5, <2>9, <2>10, <2>11, <2>12, <1>1
       DEF TellingStep, history
  <2>14. r.claim # NoClaim /\ r.claim = ClaimBy(g, o.id) => Due(d, o.note)'
    BY <1>16, <2>2, <2>9, <2>12 DEF Due, NoSettlement
  <2>15. ClaimsPend' /\ Fits'
    BY <1>5, <2>13, <2>14, StepTells DEF Told
  <2>16. ContractStep
    <3>1. Others(d) /\ shown'[d] = shown[d] /\ expired'[d] = expired[d] /\ prompts'[d] = prompts[d]
      BY <1>1, <1>16, <2>7 DEF Others, history
    <3>2. faults' <= 1 => Seen(d)
      BY <2>6 DEF Fit, Seen, Told, Rising
    <3>3. CASE r.state = u.state
      <4>1. Seen(d) => Seen(d)'
        BY <3>1 DEF Seen
      <4> QED
        BY <1>4, <1>5, <2>7, <3>1, <3>3, <4>1, ContractTells DEF ContractStep
    <3>4. CASE r.state = "consumed"
      BY <1>4, <1>5, <2>7, <2>8, <3>1, <3>2, <3>4, ContractConsumes DEF ContractStep
    <3> QED
      BY <2>5, <3>3, <3>4
  <2> QED
    BY <2>15, <2>16 DEF Tells
<1>17. CASE /\ u.claim = c /\ s.note # "absent" /\ Enter(g, "consume", d, s.id)
            /\ WriteTurn(d, s.note) /\ Observe(g, d, [s EXCEPT !.note = "absent"])
            /\ UNCHANGED row
  <2>1. s \in Settlements /\ s.id \in ClaimIds /\ s.note \in {"failed", "uncertain"}
    BY <1>6, <1>17 DEF Settlements, NoSettlement, Turns
  <2>2. PICK o : o = [s EXCEPT !.note = "absent"]
    OBVIOUS
  <2>3. o \in Settlements /\ o.note = "absent" /\ o.id = s.id
    BY <2>1, <2>2 DEF Settlements, Turns
  <2>4. PICK k \in Chains : /\ chain' = [chain EXCEPT ![g] = k]
                            /\ k.at = "consume" /\ k.outcome = "none" /\ k.id = s.id /\ k.d = d
    BY <1>5, <1>10, <1>17, <2>1, Entering
  <2>5. shown'[d] = s.note /\ \A e \in Deliveries \ {d} : shown'[e] = shown[e]
    BY <1>5, <1>17, <2>1 DEF WriteTurn, Told, HistoryTyped
  <2>6. row' = [row EXCEPT ![d] = u] /\ row'[d] = u
    BY <1>4, <1>5, <1>17 DEF Core, Parts
  <2>7. Fit(d)'
    BY <1>4, <1>11, <1>17, <2>1, <2>5, <2>6 DEF Fit, Due
  <2>8. c \in Claims /\ c # NoClaim
    BY <1>2, <1>4, <2>1, RowAssumption DEF ClaimBy, Claims
  <2>9. u.claim # NoClaim => u.state = "pending"
    BY <1>4, <1>5 DEF Told, ClaimsPend
  <2>10. observed' = [observed EXCEPT ![g][d] = o] /\ o \in Settlements \cup {NoSettlement}
    BY <1>17, <2>2, <2>3 DEF Observe
  <2>11. TellingStep(g, d, k, u, c, o)
    BY <1>1, <1>6, <1>7, <1>8, <1>17, <2>4, <2>5, <2>6, <2>7, <2>8, <2>9, <2>10 DEF TellingStep
  <2>12. ClaimsPend' /\ Fits'
    BY <1>5, <2>3, <2>7, <2>11, StepTells DEF Told, Due
  <2>13. ContractStep
    <3>1. Others(d) /\ row'[d].state = row[d].state /\ prompts'[d] = prompts[d]
      BY <1>1, <1>17, <2>5 DEF Others
    <3>2. Seen(d)'
      BY <2>1, <2>5 DEF Seen
    <3> QED
      BY <1>5, <3>1, <3>2, ContractTells DEF ContractStep
  <2> QED
    BY <2>12, <2>13 DEF Tells
<1> QED
  BY <1>4, <1>14, <1>15, <1>16, <1>17 DEF Begin, Unsettled

\* What is done around the chains gives claims up and forgets observations.
LEMMA AroundTells ==
  ASSUME Core, Rising, ClaimsPend, Fits, UNCHANGED <<chain, shown, expired>>,
         \A g \in Coordinators : worker'[g].boot = worker[g].boot,
         \A d \in Deliveries : \/ row'[d] = row[d]
                               \/ row'[d].claim = NoClaim /\ row'[d].state = "pending",
         \A g \in Coordinators, d \in Deliveries :
           observed'[g][d] \in {observed[g][d], NoSettlement}
  PROVE  ClaimsPend' /\ Fits'
<1>1. \A d \in Deliveries : Fit(d) /\ row'[d] = row[d] => Fit(d)'
  BY FitStays
<1>2. \A g \in Coordinators, id \in ClaimIds \cup {NoId} : ClaimBy(g, id) # NoClaim
  BY RowAssumption, DeliveryAssumption DEF ClaimBy, Core, Parts, Workers, Claims
<1>3. \A g \in Coordinators : ClaimBy(g, NoId) \notin Claims
  BY DeliveryAssumption DEF ClaimBy, Claims
<1>4. ClaimsPend'
  BY DEF ClaimsPend
<1>5. ConsumedFit'
  BY FitStays DEF Fits, ConsumedFit, Fit
<1>6. ASSUME NEW g \in Coordinators PROVE ChainFit(g)'
  <2> SUFFICES ASSUME ~At(g, "idle"), NEW d, d = D(g), row'[d].claim = MyClaim(g)
               PROVE  ~At(g, "claim") /\ Fit(d)'
    BY DEF ChainFit, At, D, MyClaim, ClaimBy
  <2>1. d \in Deliveries /\ chain[g].id \in ClaimIds \cup {NoId}
    BY Underway DEF Chains
  <2>2. row'[d] = row[d]
    BY <1>2, <2>1 DEF MyClaim
  <2>3. ~At(g, "claim") /\ Fit(d)
    BY <2>2 DEF Fits, ChainFit
  <2> QED
    BY <1>1, <2>1, <2>2, <2>3
<1>7. ASSUME NEW g \in Coordinators PROVE ObservedFit(g)'
  <2> SUFFICES ASSUME NEW d \in Deliveries, NEW o, o = observed'[g][d],
                      row'[d].claim = ClaimBy(g, o.id)
               PROVE  Due(d, o.note)'
    BY DEF ObservedFit, ClaimBy
  <2>1. o \in Settlements \cup {NoSettlement}
    BY DEF Core, Parts
  <2>2. o.id \in ClaimIds \cup {NoId}
    BY <2>1 DEF Settlements, NoSettlement
  <2>3. row'[d] = row[d] /\ row[d].claim \in Claims
    BY <1>2, <2>2 DEF Core, Parts, Rows
  <2>4. o = observed[g][d]
    BY <1>3, <2>3 DEF NoSettlement
  <2>5. Due(d, o.note)
    BY <2>3, <2>4 DEF Fits, ObservedFit
  <2> QED
    BY <1>1, <2>3, <2>5 DEF Due
<1> QED
  BY <1>4, <1>5, <1>6, <1>7 DEF Fits

\* The steps around the chains, but for a crash.
LEMMA EnvironmentTells ==
  ASSUME IInv, Told, boot = 0, \A g \in Coordinators : worker[g].boot = 0,
         \/ \E g \in Coordinators :
              Wake(g) \/ Start(g) \/ Stop(g) \/ BeginUserTurn(g) \/ EndUserTurn(g)
         \/ \E d \in Deliveries : FinishOperation(d)
         \/ Save \/ OfferUserTurn
  PROVE  Tells /\ \A g \in Coordinators : worker'[g].boot = 0
<1>1. Core /\ Rising /\ ClaimsPend /\ Fits
  BY DEF IInv, Told
<1>2. CASE UNCHANGED <<row, chain, shown, expired, worker, observed, prompts>>
  <2>1. ClaimsPend' /\ Fits'
    BY <1>1, <1>2, AroundTells
  <2>2. ContractStep
    BY <1>2, ContractStays DEF ContractStep
  <2> QED
    BY <1>2, <2>1, <2>2 DEF Tells
<1>3. CASE \/ \E g \in Coordinators : Wake(g) \/ BeginUserTurn(g) \/ EndUserTurn(g)
           \/ Save \/ OfferUserTurn
  BY <1>2, <1>3 DEF Wake, BeginUserTurn, EndUserTurn, Save, OfferUserTurn, store, history, process
<1>4. ASSUME NEW g \in Coordinators, Start(g)
      PROVE  Tells /\ \A h \in Coordinators : worker'[h].boot = 0
  <2>1. /\ UNCHANGED <<chain, shown, expired, observed, prompts>>
        /\ worker' = [worker EXCEPT ![g] = [state |-> "running", boot |-> 0]]
        /\ \A d \in Deliveries : row'[d] = RecoverForeign(row[d], 0)
    BY <1>4 DEF Start, history
  <2>2. \A h \in Coordinators : worker'[h].boot = 0
    BY <1>1, <2>1 DEF Core, Parts, Workers
  <2>3. \A d \in Deliveries : \/ row'[d] = row[d]
                              \/ /\ row[d].state = "pending"
                                 /\ row'[d].claim = NoClaim /\ row'[d].state = "pending"
    BY <1>1, <2>1 DEF RecoverForeign, Orphan, Core, Parts, Rows
  <2>4. ClaimsPend' /\ Fits'
    BY <1>1, <2>1, <2>2, <2>3, AroundTells
  <2>5. ContractStep
    BY <2>1, <2>3, ContractStays DEF ContractStep
  <2> QED
    BY <2>2, <2>4, <2>5 DEF Tells
<1>5. ASSUME NEW g \in Coordinators, Stop(g)
      PROVE  Tells /\ \A h \in Coordinators : worker'[h].boot = 0
  <2>1. /\ UNCHANGED <<chain, shown, expired, prompts>>
        /\ worker' = [worker EXCEPT ![g].state = "stopped"]
        /\ observed' = [observed EXCEPT ![g] = [d \in Deliveries |-> NoSettlement]]
        /\ row' = row \/ row' = [d \in Deliveries |-> AbandonOwned(row[d], 0)]
    BY <1>5 DEF Stop, history
  <2>2. \A h \in Coordinators : worker'[h].boot = 0
    BY <1>1, <2>1 DEF Core, Parts, Workers
  <2>3. \A d \in Deliveries : \/ row'[d] = row[d]
                              \/ /\ row[d].state = "pending"
                                 /\ row'[d].claim = NoClaim /\ row'[d].state = "pending"
    BY <1>1, <2>1 DEF AbandonOwned, Orphan, Core, Parts, Rows
  <2>4. \A h \in Coordinators, d \in Deliveries :
          observed'[h][d] \in {observed[h][d], NoSettlement}
    BY <1>1, <2>1 DEF Core, Parts
  <2>5. ClaimsPend' /\ Fits'
    BY <1>1, <2>1, <2>2, <2>3, <2>4, AroundTells
  <2>6. ContractStep
    BY <2>1, <2>3, ContractStays DEF ContractStep
  <2> QED
    BY <2>2, <2>5, <2>6 DEF Tells
<1>6. ASSUME NEW d \in Deliveries, FinishOperation(d)
      PROVE  Tells /\ \A h \in Coordinators : worker'[h].boot = 0
  <2>1. /\ UNCHANGED <<chain, shown, expired, worker, observed, prompts>>
        /\ row[d].state = "none" /\ row' = [row EXCEPT ![d] = NewDelivery]
    BY <1>6 DEF FinishOperation, history, process
  <2>2. /\ row'[d].claim = NoClaim /\ row'[d].state = "pending"
        /\ \A e \in Deliveries \ {d} : row'[e] = row[e]
    BY <1>1, <2>1 DEF NewDelivery, Core, Parts
  <2>3. ClaimsPend' /\ Fits'
    BY <1>1, <2>1, <2>2, AroundTells
  <2>4. Others(d)
    BY <2>1, <2>2 DEF Others
  <2>5. ContractStep
    BY <2>1, <2>2, <2>4, ContractOwes DEF ContractStep
  <2> QED
    BY <2>1, <2>3, <2>5 DEF Tells
<1> QED
  BY <1>3, <1>4, <1>5, <1>6

LEMMA InitTells == Init => TellInv /\ Contract!Init
<1> SUFFICES ASSUME Init PROVE TellInv /\ Contract!Init
  OBVIOUS
<1>1. /\ \A d \in Deliveries : row[d] = NoDelivery /\ shown[d] = "absent" /\ ~expired[d]
                               /\ prompts[d] = 0
      /\ \A g \in Coordinators : chain[g] = IdleChain /\ worker[g].boot = 0
      /\ \A g \in Coordinators, d \in Deliveries : observed[g][d] = NoSettlement
  BY DEF Init
<1>2. ClaimsPend /\ ConsumedFit
  BY <1>1 DEF ClaimsPend, ConsumedFit, NoDelivery
<1>3. \A g \in Coordinators : ChainFit(g)
  BY <1>1 DEF ChainFit, At, IdleChain
<1>4. \A g \in Coordinators : ObservedFit(g)
  <2> SUFFICES ASSUME NEW g \in Coordinators PROVE 0 \in Boots /\ ClaimBy(g, NoId) # NoClaim
    BY <1>1 DEF ObservedFit, NoDelivery, NoSettlement
  <2> QED
    BY <1>1, DeliveryAssumption DEF ClaimBy
<1>5. Contract!Init
  <2>1. /\ \A d \in Deliveries : /\ row[d].state = "none" /\ (prompts[d] > 0) = FALSE
                                  /\ (shown[d] # "absent" \/ expired[d]) = FALSE
    BY <1>1 DEF NoDelivery
  <2> QED
    BY <2>1 DEF Contract!Init
<1> QED
  BY <1>1, <1>2, <1>3, <1>4, <1>5 DEF TellInv, Fits

\* Until a crash, every step leaves what it must tell told, and keeps the contract.
LEMMA NextTells ==
  ASSUME IInv, TellInv, [Next]_vars
  PROVE  TellInv' /\ (boot' = 0 => ContractStep)
<1> SUFFICES ASSUME boot' = 0
             PROVE  Tells /\ \A g \in Coordinators : worker'[g].boot = 0
  BY DEF TellInv, Tells
<1>1. boot = 0 /\ ~Crash
  <2>1. boot \in Nat
    BY DeliveryAssumption DEF IInv, Rest
  <2>2. ~Crash
    BY <2>1 DEF Crash
  <2>3. UNCHANGED vars => boot' = boot
    BY DEF vars
  <2>4. \A g \in Coordinators : Steps(g) => boot' = boot
    BY StepsRest DEF IInv
  <2>5. \A g \in Coordinators :
          Wake(g) \/ Start(g) \/ Stop(g) \/ BeginUserTurn(g) \/ EndUserTurn(g) => boot' = boot
    BY DEF Wake, Start, Stop, BeginUserTurn, EndUserTurn, process
  <2>6. \A d \in Deliveries : FinishOperation(d) => boot' = boot
    BY DEF FinishOperation, process
  <2>7. Save \/ OfferUserTurn => boot' = boot
    BY DEF Save, OfferUserTurn, process
  <2> QED
    BY <2>2, <2>3, <2>4, <2>5, <2>6, <2>7 DEF Next, Steady, Steps
<1>2. Core /\ Told /\ SchedulingTyped /\ \A g \in Coordinators : worker[g].boot = 0
  <2>1. BudgetTyped /\ faults \in Nat
    BY DEF IInv, Rest, BudgetTyped
  <2>2. Rising
    BY <2>1, FaultsStay DEF Rising
  <2> QED
    BY <1>1, <2>2 DEF IInv, Rest, TellInv, Told
<1>3. CASE UNCHANGED vars
  <2>1. ClaimsPend' /\ Fits'
    BY <1>2, <1>3, AroundTells DEF vars, Told
  <2>2. ContractStep
    BY <1>3, ContractStays DEF vars, ContractStep
  <2> QED
    BY <1>2, <1>3, <2>1, <2>2 DEF vars, Tells
<1>4. ASSUME NEW g \in Coordinators, Steps(g)
      PROVE  Tells /\ \A h \in Coordinators : worker'[h].boot = 0
  <2>1. worker' = worker
    BY <1>2, <1>4, StepsAlone
  <2>2. Tells
    BY <1>2, <1>4, BeginTells, WalksTell, SettlingTells, DecisionsTell, BeginTurnTells,
       ClaimTells, PrepareTells, StartPromptTells DEF Steps, ChainStep
  <2> QED
    BY <1>2, <2>1, <2>2
<1>5. CASE \/ \E g \in Coordinators :
                Wake(g) \/ Start(g) \/ Stop(g) \/ BeginUserTurn(g) \/ EndUserTurn(g)
           \/ \E d \in Deliveries : FinishOperation(d)
           \/ Save \/ OfferUserTurn
  BY <1>1, <1>2, <1>5, EnvironmentTells
<1> QED
  BY <1>1, <1>3, <1>4, <1>5 DEF Next, Steady, Steps

LEMMA TellInvariant == Spec => []TellInv
<1>1. Init => TellInv
  BY InitTells
<1>2. IInv /\ TellInv /\ [Next]_vars => TellInv'
  BY NextTells
<1> QED
  BY <1>1, <1>2, DeliveryInvariant, PTL DEF Spec

\* Until a crash, an interrupted execution is consumed only with a note that says so,
\* whichever writes fail.
THEOREM UncertainAreTold == Spec => [](boot = 0 => UncertainIsTold)
<1>1. TellInv => (boot = 0 => UncertainIsTold)
  BY DEF TellInv, Fits, ConsumedFit, Fit, UncertainIsTold
<1> QED
  BY <1>1, TellInvariant, PTL

\* Until a crash, and as long as at most one write has failed (two may hide it, see
\* Failed), a delivery is consumed only once its completion is in the history or it is
\* expired.
THEOREM ResultsAreTold == Spec => [](boot = 0 /\ faults <= 1 => ResultPreserved)
<1>1. TellInv => (boot = 0 /\ faults <= 1 => ResultPreserved)
  BY DEF TellInv, Fits, ConsumedFit, Fit, ResultPreserved
<1> QED
  BY <1>1, TellInvariant, PTL

\* Until a crash, and as long as at most one write has failed, every step keeps the
\* contract.
THEOREM KeepsContract == Spec => ContractUntilCrash
<1>1. Init => Contract!Init
  BY InitTells
<1>2. IInv /\ TellInv /\ [Next]_vars
        => [boot' = 0 /\ faults' <= 1 => Contract!Next]_(Contract!vars)
  BY NextTells DEF ContractStep
<1>3. Spec => [][boot' = 0 /\ faults' <= 1 => Contract!Next]_(Contract!vars)
  BY <1>2, DeliveryInvariant, TellInvariant, PTL DEF Spec
<1> QED
  BY <1>1, <1>3, PTL DEF Spec, ContractUntilCrash

\* Where no process dies, the deliveries implement the contract, if at most one write
\* fails.
THEOREM Implements ==
  ASSUME MaxFaults <= 1, MaxCrashes = 0
  PROVE  Spec => ImplementsContract
<1>1. Init => Contract!Init
  BY InitTells
<1>2. IInv => boot = 0
  BY DeliveryAssumption DEF IInv, Rest
<1>3. IInv /\ IInv' /\ TellInv /\ [Next]_vars => [Contract!Next]_(Contract!vars)
  <2>1. IInv' => boot' = 0 /\ faults' <= 1
    BY DeliveryAssumption DEF IInv, Rest, BudgetTyped
  <2> QED
    BY <2>1, NextTells DEF ContractStep
<1> QED
  BY <1>1, <1>3, DeliveryInvariant, TellInvariant, PTL DEF Spec, ImplementsContract, Contract!Spec

-----------------------------------------------------------------------------
(* Who has the claims                                                      *)

\* A chain that is at k and finds the claim of r its own is where it can give it up:
\* the row is in the phase that this takes, or a write has failed.
Standing(g, k, r, o, f) ==
  k.at # "idle" /\ r.claim = ClaimBy(g, k.id) =>
    /\ k.at \notin {"claim", "after", "done"}
    /\ k.at = "prepare" => r.phase = "claimed" /\ r.attempts < MaxAttempts
    /\ k.at = "body" => r.phase = "prepared"
    /\ (k.at = "prompt" /\ k.outcome = "none") \/ k.outcome = "uncertain" => r.phase = "started"
    /\ k.outcome = "not_started" => r.phase # "started"
    /\ k.at \in {"release", "residual"} /\ k.outcome = "none" => f >= 1
    /\ Started(g) => (k.at = "consume" => o.id = k.id)
    /\ ~Started(g) => f >= 1

\* The claim of r is that of g's chain, or of a settlement it observed after a failure.
Keeping(g, d, k, r, o, f) ==
  \/ k.at # "idle" /\ k.d = d /\ r.claim = ClaimBy(g, k.id)
  \/ Started(g) /\ r.claim = ClaimBy(g, o.id) /\ f >= 1

ClaimsKept ==
  \A d \in Deliveries : row[d].claim # NoClaim =>
    /\ row[d].state = "pending" /\ row[d].claim.boot <= boot
    /\ \/ \E g \in Coordinators : Keeping(g, d, chain[g], row[d], observed[g][d], faults)
       \/ row[d].claim.boot # boot /\ ~\E g \in Coordinators : Started(g)

\* A coordinator of this process; what it observes of the delivery its chain is
\* busy with is of that chain.
Alive(g) ==
  /\ Started(g) \/ ~At(g, "idle") => worker[g].boot = boot
  /\ ~At(g, "idle") /\ ~At(g, "done") => observed[g][D(g)].id \in {NoId, chain[g].id}

Holds == /\ ClaimsKept
         /\ \A g \in Coordinators :
              Standing(g, chain[g], row[D(g)], observed[g][D(g)], faults) /\ Alive(g)

HoldInv == faults <= 1 => Holds

\* The chain of g goes on as k after a call about d with claim c that leaves r of the
\* row and observes o: a claim that is left is kept, or was another's before.
HoldingStep(g, d, k, r, c, o) ==
  /\ k \in Chains /\ chain' = [chain EXCEPT ![g] = k] /\ (k.at = "idle" \/ k.d = d)
  /\ At(g, "idle") \/ D(g) = d
  /\ r \in Rows /\ row' = [row EXCEPT ![d] = r]
  /\ o \in Settlements \cup {NoSettlement} /\ observed' = [observed EXCEPT ![g][d] = o]
  /\ UNCHANGED process /\ faults' \in Nat /\ faults' >= faults
  /\ Started(g) \/ ~At(g, "idle")
  /\ c \in Claims => c.id \in Mine(g)
  /\ row[d].claim \notin {NoClaim, c} => r = row[d]
  /\ r.claim \in {row[d].claim, NoClaim, c}
  /\ r.claim # NoClaim => r.state = "pending"
  /\ Standing(g, k, r, o, faults')
  /\ r.claim # NoClaim =>
       \/ Keeping(g, d, k, r, o, faults')
       \/ r = row[d] /\ ~Keeping(g, d, chain[g], row[d], observed[g][d], faults)
  /\ k.at \notin {"idle", "done"} => o.id \in {NoId, k.id}

\* Such a step strands no claim.
LEMMA StepHolds ==
  ASSUME Core, Holds, BudgetTyped, boot \in Boots,
         NEW g \in Coordinators, NEW d \in Deliveries, NEW k, NEW r, NEW c, NEW o,
         HoldingStep(g, d, k, r, c, o)
  PROVE  Holds'
<1> USE DEF HoldingStep
<1>1. /\ row'[d] = r /\ \A e \in Deliveries : e # d => row'[e] = row[e]
      /\ chain'[g] = k /\ \A h \in Coordinators : h # g => chain'[h] = chain[h]
      /\ UNCHANGED <<worker, boot>>
  BY DEF Core, Parts, process
<1>2. /\ observed'[g][d] = o /\ \A h \in Coordinators : h # g => observed'[h] = observed[h]
      /\ \A e \in Deliveries : e # d => observed'[g][e] = observed[g][e]
  BY DEF Core, Parts
<1>3. faults \in Nat /\ faults' \in Nat /\ faults' >= faults /\ boot \in Nat
  BY DeliveryAssumption DEF BudgetTyped
<1>4. \A h \in Coordinators : Started(h)' = Started(h)
  BY <1>1 DEF Started
<1>5. \A h, e, q, s : Keeping(h, e, q, s, observed[h][e], faults) =>
                       Keeping(h, e, q, s, observed[h][e], faults')
  BY <1>3 DEF Keeping
<1>6. \A h \in Coordinators, e \in Deliveries :
        h # g /\ Keeping(h, e, chain[h], row'[e], observed[h][e], faults')
          => Keeping(h, e, chain[h], row[e], observed[h][e], faults)'
  BY <1>1, <1>2, <1>4 DEF Keeping, ClaimBy
<1>7. ASSUME NEW e \in Deliveries, row'[e].claim # NoClaim
      PROVE  /\ row'[e].state = "pending" /\ row'[e].claim.boot <= boot
             /\ \/ \E h \in Coordinators :
                     Keeping(h, e, chain[h], row[e], observed[h][e], faults)'
                \/ row'[e].claim.boot # boot /\ ~\E h \in Coordinators : Started(h)
  <2>1. ASSUME row'[e] = row[e],
               ~Keeping(g, e, chain[g], row[e], observed[g][e], faults)
        PROVE  /\ row'[e].state = "pending" /\ row'[e].claim.boot <= boot
               /\ \/ \E h \in Coordinators :
                       Keeping(h, e, chain[h], row[e], observed[h][e], faults)'
                  \/ row'[e].claim.boot # boot /\ ~\E h \in Coordinators : Started(h)
    <3>1. /\ row[e].state = "pending" /\ row[e].claim.boot <= boot
          /\ \/ \E h \in Coordinators : Keeping(h, e, chain[h], row[e], observed[h][e], faults)
             \/ row[e].claim.boot # boot /\ ~\E h \in Coordinators : Started(h)
      BY <1>7, <2>1 DEF Holds, ClaimsKept
    <3>2. ASSUME NEW h \in Coordinators, Keeping(h, e, chain[h], row[e], observed[h][e], faults)
          PROVE  Keeping(h, e, chain[h], row[e], observed[h][e], faults)'
      <4>1. h # g
        BY <2>1, <3>2
      <4> QED
        BY <1>5, <1>6, <2>1, <3>2, <4>1
    <3> QED
      BY <2>1, <3>1, <3>2
  <2>2. CASE e = d /\ Keeping(g, d, k, r, o, faults')
    <3>1. Keeping(g, d, chain[g], row[d], observed[g][d], faults)'
      BY <1>1, <1>2, <1>4, <2>2 DEF Keeping, ClaimBy
    <3>2. r.claim.boot = worker[g].boot
      BY <2>2 DEF Keeping, ClaimBy
    <3>3. worker[g].boot = boot
      BY DEF Holds, Alive
    <3> QED
      BY <1>1, <1>3, <1>7, <2>2, <3>1, <3>2, <3>3
  <2>3. CASE e = d /\ ~Keeping(g, d, k, r, o, faults')
    BY <1>1, <1>7, <2>1, <2>3
  <2>4. CASE e # d /\ Keeping(g, e, chain[g], row[e], observed[g][e], faults)
    <3>1. Started(g) /\ row[e].claim = ClaimBy(g, observed[g][e].id) /\ faults >= 1
      BY <2>4 DEF Keeping, At, D
    <3>2. Keeping(g, e, chain[g], row[e], observed[g][e], faults)'
      BY <1>1, <1>2, <1>3, <1>4, <2>4, <3>1 DEF Keeping, ClaimBy
    <3> QED
      BY <1>1, <1>7, <2>4, <3>2 DEF Holds, ClaimsKept
  <2>5. CASE e # d /\ ~Keeping(g, e, chain[g], row[e], observed[g][e], faults)
    BY <1>1, <2>1, <2>5
  <2> QED
    BY <2>2, <2>3, <2>4, <2>5
<1>8. ClaimsKept'
  BY <1>1, <1>4, <1>7 DEF ClaimsKept
<1>9. ASSUME NEW h \in Coordinators
      PROVE  Standing(h, chain[h], row[D(h)], observed[h][D(h)], faults)'
  <2>1. CASE h = g
    <3>1. CASE k.at = "idle"
      BY <1>1, <2>1, <3>1 DEF Standing
    <3>2. CASE k.at # "idle"
      <4>1. D(g)' = d
        BY <1>1, <3>2 DEF D
      <4> QED
        BY <1>1, <1>2, <1>4, <2>1, <4>1 DEF Standing, ClaimBy
    <3> QED
      BY <3>1, <3>2
  <2>2. CASE h # g /\ chain[h].at = "idle"
    BY <1>1, <2>2 DEF Standing
  <2>3. CASE h # g /\ chain[h].at # "idle" /\ D(h) # d
    <3>1. D(h)' = D(h) /\ D(h) \in Deliveries
      BY <1>1, <2>3, Underway DEF D, At
    <3>2. Standing(h, chain[h], row[D(h)], observed[h][D(h)], faults)
      BY DEF Holds
    <3> QED
      BY <1>1, <1>2, <1>3, <1>4, <2>3, <3>1, <3>2 DEF Standing, ClaimBy
  <2>4. CASE h # g /\ chain[h].at # "idle" /\ D(h) = d
    <3>1. D(h)' = d
      BY <1>1, <2>4 DEF D
    <3>2. Standing(h, chain[h], row[d], observed[h][d], faults)
      BY <2>4 DEF Holds
    <3>3. r.claim = ClaimBy(h, chain[h].id) => r = row[d]
      <4> SUFFICES ASSUME r.claim = ClaimBy(h, chain[h].id) PROVE r = row[d]
        OBVIOUS
      <4>1. chain[h].id \in OwnIds(h) /\ chain[h].id \in ClaimIds \cup {NoId}
        BY DEF OwnIds, Core, Parts, Chains
      <4>2. r.claim # NoClaim
        BY <4>1, RowAssumption, DeliveryAssumption DEF ClaimBy, Core, Parts, Workers, Claims
      <4>3. r.claim \in Claims
        BY <4>2 DEF Rows
      <4>4. r.claim \notin {NoClaim, c}
        BY <2>4, <4>1, <4>3, ClaimsApart
      <4> QED
        BY <4>4
    <3> QED
      BY <1>1, <1>2, <1>3, <1>4, <2>4, <3>1, <3>2, <3>3 DEF Standing, ClaimBy
  <2> QED
    BY <2>1, <2>2, <2>3, <2>4
<1>10. ASSUME NEW h \in Coordinators PROVE Alive(h)'
  <2>1. CASE h = g
    <3>1. worker[g].boot = boot
      BY DEF Holds, Alive
    <3> QED
      BY <1>1, <1>2, <2>1, <3>1 DEF Alive, At, D
  <2>2. CASE h # g
    <3>1. Alive(h)
      BY DEF Holds
    <3> QED
      BY <1>1, <1>2, <1>4, <2>2, <3>1 DEF Alive, At, D
  <2> QED
    BY <2>1, <2>2
<1> QED
  BY <1>8, <1>9, <1>10 DEF Holds

Holding == Holds /\ BudgetTyped /\ boot \in Boots

\* A chain goes on after a call with its claim: what it still has it can give up where
\* it goes, or has observed.
LEMMA CallHolds ==
  ASSUME Core, Holding, NEW g \in Coordinators, ~At(g, "idle"),
         NEW k \in Chains, chain' = [chain EXCEPT ![g] = k], k.at = "idle" \/ k.d = D(g),
         k.id \in {chain[g].id, NoId}, k.at \in {"idle", "done"} \/ k.id = chain[g].id,
         NEW r, row' = [row EXCEPT ![D(g)] = r], Gives(row[D(g)], r, MyClaim(g)),
         NEW o \in Settlements \cup {NoSettlement}, observed' = [observed EXCEPT ![g][D(g)] = o],
         o \in {observed[g][D(g)], NoSettlement} \/ o.id = chain[g].id,
         At(g, "done") => k.at = "idle" /\ o = observed[g][D(g)],
         UNCHANGED process, faults' \in Nat, faults' >= faults,
         row[D(g)].claim = MyClaim(g) /\ r.claim = MyClaim(g) =>
           \/ k.id = chain[g].id /\ k.at # "idle" /\ Standing(g, k, r, o, faults')
           \/ k.id = NoId /\ Started(g) /\ o.id = chain[g].id /\ faults' >= 1
  PROVE  Holds'
<1>1. PICK d, c : d = D(g) /\ c = MyClaim(g)
  OBVIOUS
<1>2. /\ d \in Deliveries /\ row[d] \in Rows /\ worker[g].boot \in Boots
      /\ chain[g].id \in Mine(g) /\ chain[g].id \in ClaimIds \cup {NoId}
  BY <1>1, Underway DEF Chains
<1>3. row[d].claim # NoClaim => row[d].state = "pending"
  BY <1>2 DEF Holding, Holds, ClaimsKept
<1>4. /\ r \in Rows
      /\ row[d].claim # c => r = row[d]
      /\ r.claim \in {row[d].claim, NoClaim}
      /\ r.claim # NoClaim => r.state = "pending"
  BY <1>1, <1>2, <1>3, GivesFacts
<1>5. c \in Claims => c.id \in Mine(g)
  BY <1>1, <1>2 DEF MyClaim, ClaimBy, Claims
<1>6. ClaimBy(g, NoId) \notin Claims \cup {NoClaim}
  BY <1>2, DeliveryAssumption DEF ClaimBy, Claims
<1>7. c # NoClaim
  BY <1>1, <1>2, RowAssumption, DeliveryAssumption DEF MyClaim, ClaimBy, Claims
<1>8. r.claim # ClaimBy(g, NoId)
  BY <1>4, <1>6 DEF Rows
<1>9. k.id = chain[g].id => ClaimBy(g, k.id) = c
  BY <1>1 DEF MyClaim
<1>10. observed[g][d].id \in {NoId, chain[g].id} \/ At(g, "done")
  BY <1>1 DEF Holding, Holds, Alive
<1>11. Standing(g, k, r, o, faults')
  <2>1. CASE r.claim = c
    <3>1. CASE k.id = NoId
      BY <1>8, <3>1 DEF Standing
    <3>2. CASE k.id # NoId
      BY <1>1, <1>4, <1>7, <2>1, <3>2
    <3> QED
      BY <3>1, <3>2
  <2>2. CASE r.claim # c
    BY <1>8, <1>9, <2>2 DEF Standing
  <2> QED
    BY <2>1, <2>2
<1>12. r.claim # NoClaim =>
         \/ Keeping(g, d, k, r, o, faults')
         \/ r = row[d] /\ ~Keeping(g, d, chain[g], row[d], observed[g][d], faults)
  <2> SUFFICES ASSUME r.claim # NoClaim, Keeping(g, d, chain[g], row[d], observed[g][d], faults)
                      \/ r # row[d]
               PROVE  Keeping(g, d, k, r, o, faults')
    OBVIOUS
  <2>1. CASE r.claim = c
    <3>1. CASE k.id = chain[g].id /\ k.at # "idle"
      BY <1>1, <1>9, <2>1, <3>1 DEF Keeping
    <3>2. CASE Started(g) /\ o.id = chain[g].id /\ faults' >= 1
      BY <1>1, <2>1, <3>2 DEF Keeping, MyClaim
    <3> QED
      BY <1>1, <1>4, <2>1, <3>1, <3>2
  <2>2. CASE r.claim # c
    <3>1. r = row[d]
      BY <1>4, <2>2
    <3>2. Started(g) /\ row[d].claim = ClaimBy(g, observed[g][d].id) /\ faults >= 1
      BY <1>1, <2>2, <3>1 DEF Keeping, MyClaim
    <3>3. observed[g][d].id \notin {NoId, chain[g].id}
      BY <1>1, <1>8, <2>2, <3>1, <3>2 DEF MyClaim
    <3>4. o = observed[g][d]
      BY <1>1, <1>10, <3>3
    <3>5. faults' >= 1
      BY <3>2 DEF Holding, BudgetTyped
    <3> QED
      BY <3>1, <3>2, <3>4, <3>5 DEF Keeping
  <2> QED
    BY <2>1, <2>2
<1>13. k.at \notin {"idle", "done"} => o.id \in {NoId, k.id}
  BY <1>1, <1>10 DEF NoSettlement
<1>14. HoldingStep(g, d, k, r, c, o)
  BY <1>1, <1>4, <1>5, <1>11, <1>12, <1>13 DEF HoldingStep
<1> QED
  BY <1>2, <1>14, StepHolds DEF Holding

\* At these places a chain has no claim.
LEMMA NothingHeld ==
  ASSUME Core, Holding, NEW g \in Coordinators,
         chain[g].at \in {"lookup", "config", "turn", "claim", "after", "done"}
  PROVE  row[D(g)].claim # MyClaim(g)
<1>1. /\ D(g) \in Deliveries /\ row[D(g)] \in Rows /\ worker[g].boot \in Boots
      /\ Staged(chain[g])
  BY Underway DEF At
<1>2. ClaimBy(g, NoId) \notin Claims \cup {NoClaim}
  BY <1>1, DeliveryAssumption DEF ClaimBy, Claims
<1>3. Standing(g, chain[g], row[D(g)], observed[g][D(g)], faults)
  BY DEF Holding, Holds
<1>4. CASE chain[g].id = NoId
  BY <1>1, <1>2, <1>4 DEF MyClaim, Rows
<1>5. CASE chain[g].at \in {"claim", "after", "done"}
  BY <1>3, <1>5 DEF Standing, MyClaim
<1> QED
  BY <1>1, <1>4, <1>5 DEF Staged

\* The chain goes on without a call.
LEMMA QuietHolds ==
  ASSUME Core, Holding, NEW g \in Coordinators, ~At(g, "idle"),
         NEW k \in Chains, chain' = [chain EXCEPT ![g] = k], k.at = "idle" \/ k.d = D(g),
         k.id \in {chain[g].id, NoId}, k.at \in {"idle", "done"} \/ k.id = chain[g].id,
         At(g, "done") => k.at = "idle",
         UNCHANGED <<row, observed>>, UNCHANGED process, Fail \/ Block \/ UNCHANGED budget,
         row[D(g)].claim = MyClaim(g) =>
           /\ k.id = chain[g].id /\ k.at # "idle"
           /\ Standing(g, k, row[D(g)], observed[g][D(g)], faults')
  PROVE  Holds'
<1>1. PICK r, o : r = row[D(g)] /\ o = observed[g][D(g)]
  OBVIOUS
<1>2. /\ row' = [row EXCEPT ![D(g)] = r] /\ observed' = [observed EXCEPT ![g][D(g)] = o]
      /\ o \in Settlements \cup {NoSettlement} /\ Gives(row[D(g)], r, MyClaim(g))
  BY <1>1, Underway DEF Core, Parts, Gives
<1>3. faults' \in Nat /\ faults' >= faults
  BY FaultsGrow DEF Holding
<1> QED
  BY <1>1, <1>2, <1>3, CallHolds

\* It returns where it has no claim, ...
LEMMA ReturnHolds ==
  ASSUME Core, Holding, NEW g \in Coordinators,
         chain[g].at \in {"lookup", "config", "after"},
         Return(g) \/ (Enter(g, "config", D(g), NoId) /\ At(g, "lookup")),
         UNCHANGED <<row, observed>>, UNCHANGED process, Fail \/ Block \/ UNCHANGED budget
  PROVE  Holds'
<1>1. ~At(g, "idle") /\ ~At(g, "done") /\ D(g) \in Deliveries /\ Staged(chain[g])
  BY Underway DEF At
<1>2. row[D(g)].claim # MyClaim(g)
  BY NothingHeld
<1>3. PICK stage \in {"done", "config"} :
        Enter(g, stage, D(g), NoId) /\ (stage = "config" => At(g, "lookup"))
  BY DEF Return
<1>4. PICK d \in Deliveries : d = D(g)
  BY <1>1
<1>5. stage \in Stages
  BY DEF Stages
<1>6. PICK k \in Chains : /\ chain' = [chain EXCEPT ![g] = k]
                          /\ k.at = stage /\ k.outcome = "none" /\ k.id = NoId /\ k.d = d
  BY <1>3, <1>4, <1>5, Entering
<1>7. stage = "config" => chain[g].id = NoId
  BY <1>1, <1>3 DEF At, Staged
<1> QED
  BY <1>1, <1>2, <1>3, <1>4, <1>6, <1>7, QuietHolds

\* ... or jumps, to one of these.
Onward == {"lookup", "config", "turn", "release", "settle", "residual"}

LEMMA GoingHolds ==
  ASSUME Core, Holding, NEW g \in Coordinators, ~At(g, "idle"), ~At(g, "done"),
         NEW stage \in Onward,
         NEW outcome \in Outcomes \cup {"none"},
         GotoWith(g, stage, outcome) \/ (Goto(g, stage) /\ outcome = chain[g].outcome),
         UNCHANGED <<row, observed>>, UNCHANGED process, Fail \/ Block \/ UNCHANGED budget,
         row[D(g)].claim = MyClaim(g) =>
           /\ outcome = "uncertain" => row[D(g)].phase = "started"
           /\ outcome = "not_started" => row[D(g)].phase # "started"
           /\ stage \in {"release", "residual"} /\ outcome = "none" => faults' >= 1
  PROVE  Holds'
<1>1. PICK k \in Chains : /\ chain' = [chain EXCEPT ![g] = k]
                          /\ k.at = stage /\ k.outcome = outcome
                          /\ k.id = chain[g].id /\ k.d = D(g)
  BY Going DEF Onward, Stages
<1>2. Standing(g, chain[g], row[D(g)], observed[g][D(g)], faults)
  BY DEF Holding, Holds
<1>3. faults \in Nat /\ faults' \in Nat /\ faults' >= faults
  BY FaultsGrow DEF Holding
<1>4. row[D(g)].claim = MyClaim(g) /\ ~Started(g) => faults' >= 1
  BY <1>2, <1>3 DEF Standing, MyClaim, At
<1>5. row[D(g)].claim = MyClaim(g) => Standing(g, k, row[D(g)], observed[g][D(g)], faults')
  BY <1>1, <1>4 DEF Standing, Onward
<1> QED
  BY <1>1, <1>5, QuietHolds DEF Onward

\* The steps that make no call.
LEMMA WalksHold ==
  ASSUME Core, Holding, NEW g \in Coordinators,
         \/ Blocked(g) \/ FailBeforeClaim(g) \/ EndBeforePrompt(g) \/ EndPrompt(g)
         \/ ReleaseTurn(g) \/ Done(g)
  PROVE  Holds'
<1>1. /\ UNCHANGED <<row, observed>> /\ UNCHANGED process /\ ~At(g, "idle")
      /\ chain[g] \in Chains /\ Staged(chain[g])
  BY DEF Blocked, FailBeforeClaim, EndBeforePrompt, EndPrompt, ReleaseTurn, Done, At,
         store, Core, Parts
<1>2. chain[g].outcome \in Outcomes \cup {"none"}
  BY <1>1 DEF Chains
<1>3. {"release", "residual", "settle"} \subseteq Onward
  BY DEF Onward
<1>4. row[D(g)].claim = MyClaim(g) =>
        Standing(g, chain[g], row[D(g)], observed[g][D(g)], faults) /\ chain[g].at # "claim"
  BY DEF Holding, Holds, Standing, MyClaim
<1>5. CASE Blocked(g)
  BY <1>1, <1>5, ReturnHolds DEF Blocked, At
<1>6. CASE FailBeforeClaim(g)
  <2>1. PICK outcome \in {"none", "handled", "cancelled"} : GotoWith(g, "release", outcome)
    BY <1>6 DEF FailBeforeClaim
  <2>2. outcome \in Outcomes \cup {"none"} /\ At(g, "claim") /\ ~At(g, "done") /\ Block
    BY <1>6 DEF Outcomes, FailBeforeClaim, At
  <2>3. row[D(g)].claim # MyClaim(g)
    BY <2>2, NothingHeld DEF At
  <2> QED
    BY <1>1, <1>3, <2>1, <2>2, <2>3, GoingHolds
<1>7. ASSUME NEW outcomes \in SUBSET Outcomes, EndTurn(g, outcomes), ~At(g, "done"),
             \A outcome \in outcomes : row[D(g)].claim = MyClaim(g) =>
               /\ outcome = "uncertain" => row[D(g)].phase = "started"
               /\ outcome = "not_started" => row[D(g)].phase # "started"
      PROVE  Holds'
  <2>1. Fail => faults' >= 1
    BY FaultsGrow DEF Holding
  <2>2. ASSUME GotoWith(g, "release", "none"), Fail PROVE Holds'
    BY <1>1, <1>3, <1>7, <2>1, <2>2, GoingHolds
  <2>3. ASSUME NEW outcome \in outcomes, GotoWith(g, "release", outcome), UNCHANGED budget
        PROVE  Holds'
    <3>1. outcome # "none"
      BY DEF Outcomes
    <3> QED
      BY <1>1, <1>3, <1>7, <2>3, <3>1, GoingHolds
  <2> QED
    BY <1>7, <2>2, <2>3 DEF EndTurn
<1>8. CASE EndBeforePrompt(g)
  <2>1. At(g, "body") /\ ~At(g, "done") /\ EndTurn(g, {"handled", "cancelled", "not_started"})
    BY <1>8 DEF EndBeforePrompt, At
  <2>2. row[D(g)].claim = MyClaim(g) => row[D(g)].phase = "prepared"
    BY <2>1 DEF Holding, Holds, Standing, At, MyClaim
  <2>3. {"handled", "cancelled", "not_started"} \in SUBSET Outcomes
    BY DEF Outcomes
  <2> QED
    BY <1>7, <2>1, <2>2, <2>3
<1>9. CASE EndPrompt(g)
  <2>1. At(g, "prompt") /\ ~At(g, "done")
    BY <1>9 DEF EndPrompt, At
  <2>2. CASE chain[g].outcome = "none" /\ EndTurn(g, {"handled", "cancelled", "uncertain"})
    <3>1. row[D(g)].claim = MyClaim(g) => row[D(g)].phase = "started"
      BY <1>4, <2>1, <2>2 DEF Standing, At, MyClaim
    <3>2. {"handled", "cancelled", "uncertain"} \in SUBSET Outcomes
      BY DEF Outcomes
    <3> QED
      BY <1>7, <2>1, <2>2, <3>1, <3>2
  <2>3. CASE chain[g].outcome # "none" /\ Goto(g, "release") /\ UNCHANGED budget
    <3>1. row[D(g)].claim = MyClaim(g) =>
            /\ chain[g].outcome = "uncertain" => row[D(g)].phase = "started"
            /\ chain[g].outcome = "not_started" => row[D(g)].phase # "started"
      BY <1>1, <1>4 DEF Standing, At, MyClaim
    <3> QED
      BY <1>1, <1>2, <1>3, <2>1, <2>3, <3>1, GoingHolds
  <2> QED
    BY <1>9, <2>2, <2>3 DEF EndPrompt
<1>10. CASE ReleaseTurn(g)
  <2>1. PICK stage \in {"residual", "settle"} :
          /\ stage = IF chain[g].outcome = "none" THEN "residual" ELSE "settle"
          /\ Goto(g, stage) /\ UNCHANGED budget
    BY <1>10 DEF ReleaseTurn
  <2>2. At(g, "release") /\ ~At(g, "done")
    BY <1>10 DEF ReleaseTurn, At
  <2>3. UNCHANGED budget => faults' = faults
    BY DEF budget
  <2>4. row[D(g)].claim = MyClaim(g) =>
          /\ chain[g].outcome = "uncertain" => row[D(g)].phase = "started"
          /\ chain[g].outcome = "not_started" => row[D(g)].phase # "started"
          /\ chain[g].outcome = "none" => faults' >= 1
    BY <1>1, <1>4, <2>1, <2>2, <2>3 DEF Standing, At, MyClaim
  <2> QED
    BY <1>1, <1>2, <1>3, <2>1, <2>2, <2>4, GoingHolds
<1>11. CASE Done(g)
  <2>1. IdleChain \in Chains /\ IdleChain.at = "idle" /\ IdleChain.id = NoId
    <3>1. NoDelivery \in Rows
      BY RowAssumption DEF NoDelivery, Rows, Phases
    <3> QED
      BY <3>1 DEF IdleChain, Chains, Stages
  <2>2. PICK k : k = IdleChain
    OBVIOUS
  <2>3. chain' = [chain EXCEPT ![g] = k] /\ chain[g].at = "done" /\ UNCHANGED budget
    BY <1>11, <2>2 DEF Done, At
  <2>4. row[D(g)].claim # MyClaim(g)
    BY <2>3, NothingHeld
  <2> QED
    BY <1>1, <2>1, <2>2, <2>3, <2>4, QuietHolds
<1> QED
  BY <1>5, <1>6, <1>8, <1>9, <1>10, <1>11

\* An outcome that fits the phase of the row.
Settles(r, outcome) ==
  /\ outcome = "uncertain" => r.phase = "started"
  /\ outcome = "not_started" => r.phase # "started"

\* A settlement with such an outcome gives the claim up.
LEMMA SettledGivesUp ==
  ASSUME NEW r \in Rows, NEW c, c # NoClaim, r.claim = c, r.state = "pending",
         NEW outcome \in Outcomes, Settles(r, outcome)
  PROVE  Settled(r, c, outcome).claim # c
<1>1. Consume(r, c).claim = NoClaim
  BY DEF Consume, HeldBy, Rows
<1>2. r.phase = "started" => MarkUncertain(r, c).claim = NoClaim
  BY DEF MarkUncertain, HeldBy, Rows
<1>3. r.phase # "started" => Release(r, c).claim = NoClaim
  BY DEF Release, HeldBy, Rows
<1>4. CASE outcome \in {"handled", "cancelled", "finalize"}
  BY <1>1, <1>4 DEF Settled
<1>5. CASE outcome = "uncertain"
  BY <1>2, <1>5 DEF Settled, Settles
<1>6. CASE outcome = "not_started"
  BY <1>3, <1>6 DEF Settled, Settles
<1> QED
  BY <1>4, <1>5, <1>6 DEF Outcomes

\* A chain settles its claim, or the settlement fails, once.
LEMMA SettlementHolds ==
  ASSUME Core, Holding, NEW g \in Coordinators, ~At(g, "idle"), ~At(g, "done"),
         UNCHANGED process,
         NEW k \in Chains, chain' = [chain EXCEPT ![g] = k], k.d = D(g),
         k.id \in {chain[g].id, NoId}, k.at = "done" \/ k.id = chain[g].id,
         NEW s \in Settlements, s.id = chain[g].id, s.note = "absent",
         \/ /\ Settle(g, D(g), s) /\ UNCHANGED budget
            /\ row[D(g)].claim = MyClaim(g) => Settles(row[D(g)], s.outcome)
         \/ /\ UNCHANGED row /\ Fail
            /\ Observe(g, D(g), s) \/ UNCHANGED observed
            /\ row[D(g)].claim = MyClaim(g) =>
                 \/ /\ k.id = chain[g].id /\ k.at # "idle"
                    /\ \A o : Standing(g, k, row[D(g)], o, faults')
                 \/ k.id = NoId /\ Started(g) /\ observed'[g][D(g)].id = chain[g].id
  PROVE  Holds'
<1>1. /\ D(g) \in Deliveries /\ row[D(g)] \in Rows /\ worker[g].boot \in Boots
      /\ chain[g].id \in ClaimIds \cup {NoId}
  BY Underway DEF Chains
<1>2. Settle(g, D(g), s) \/ (UNCHANGED row /\ (Observe(g, D(g), s) \/ UNCHANGED observed))
  OBVIOUS
<1>3. PICK r, o : /\ row' = [row EXCEPT ![D(g)] = r] /\ Gives(row[D(g)], r, MyClaim(g))
                  /\ o \in Settlements \cup {NoSettlement}
                  /\ observed' = [observed EXCEPT ![g][D(g)] = o]
                  /\ \/ o \in {observed[g][D(g)], NoSettlement}
                     \/ o.id = chain[g].id /\ o.note = "absent"
  BY <1>2, SettlementGives
<1>4. row'[D(g)] = r /\ observed'[g][D(g)] = o
  BY <1>1, <1>3 DEF Core, Parts
<1>5. Fail \/ Block \/ UNCHANGED budget
  OBVIOUS
<1>6. /\ faults \in Nat /\ faults' \in Nat /\ faults' >= faults
      /\ Fail => faults' >= 1
  BY <1>5, FaultsGrow DEF Holding
<1>7. ASSUME row[D(g)].claim = MyClaim(g), r.claim = MyClaim(g)
      PROVE  \/ k.id = chain[g].id /\ k.at # "idle" /\ Standing(g, k, r, o, faults')
             \/ k.id = NoId /\ Started(g) /\ o.id = chain[g].id /\ faults' >= 1
  <2>1. CASE UNCHANGED row /\ Fail
    <3>1. r = row[D(g)]
      BY <1>4, <2>1
    <3>2. ~(Fail /\ UNCHANGED budget)
      BY FaultsGrow DEF Holding, budget
    <3> QED
      BY <1>4, <1>6, <1>7, <2>1, <3>1, <3>2
  <2>2. CASE /\ Settle(g, D(g), s) /\ UNCHANGED budget
             /\ row[D(g)].claim = MyClaim(g) => Settles(row[D(g)], s.outcome)
    <3>1. r = Settled(row[D(g)], MyClaim(g), s.outcome)
      BY <1>1, <1>4, <2>2 DEF Settle, MyClaim, Core, Parts
    <3>2. MyClaim(g) # NoClaim
      BY <1>1, RowAssumption, DeliveryAssumption DEF MyClaim, ClaimBy, Claims
    <3>3. row[D(g)].state = "pending" /\ s.outcome \in Outcomes
      BY <1>1, <1>7, <3>2 DEF Holding, Holds, ClaimsKept, Settlements
    <3> QED
      BY <1>1, <1>7, <2>2, <3>1, <3>2, <3>3, SettledGivesUp
  <2> QED
    BY <2>1, <2>2
<1> QED
  BY <1>3, <1>6, <1>7, CallHolds

\* The steps with a settlement of the chain's claim.
LEMMA SettlingHolds ==
  ASSUME Core, Holding, faults' <= 1, NEW g \in Coordinators,
         Steer(g) \/ SettleTurn(g) \/ Residual(g) \/ ConsumeFinal(g)
  PROVE  Holds'
<1>1. /\ UNCHANGED process /\ ~At(g, "idle") /\ ~At(g, "done")
      /\ chain[g] \in Chains /\ D(g) \in Deliveries /\ chain \in [Coordinators -> Chains]
      /\ observed[g] \in [Deliveries -> Settlements \cup {NoSettlement}]
      /\ observed \in [Coordinators -> [Deliveries -> Settlements \cup {NoSettlement}]]
      /\ row[D(g)] \in Rows /\ worker[g].boot \in Boots
  BY Underway DEF Steer, SettleTurn, Residual, ConsumeFinal, At, Core, Parts
<1>2. {"prompt", "residual", "after", "done"} \subseteq Stages
  BY DEF Stages
<1>3. /\ At(g, "prompt") \/ At(g, "settle") \/ At(g, "consume") => chain[g].id # NoId
      /\ At(g, "settle") => chain[g].outcome # "none"
      /\ chain[g].outcome # "none" => chain[g].id # NoId
  BY DEF Core, Staged, At
<1>4. ASSUME row[D(g)].claim = MyClaim(g)
      PROVE  /\ Settles(row[D(g)], chain[g].outcome)
             /\ At(g, "residual") /\ chain[g].outcome = "none" => faults >= 1
             /\ At(g, "consume") /\ Started(g) => observed[g][D(g)].id = chain[g].id
             /\ ~Started(g) => faults >= 1
             /\ row[D(g)].state = "pending"
  <2>1. Standing(g, chain[g], row[D(g)], observed[g][D(g)], faults)
    BY DEF Holding, Holds
  <2>2. MyClaim(g) # NoClaim
    BY <1>1, RowAssumption, DeliveryAssumption DEF MyClaim, ClaimBy, Claims, Chains
  <2> QED
    BY <1>1, <1>4, <2>1, <2>2 DEF Standing, MyClaim, At, Settles, Holding, Holds, ClaimsKept
<1>5. ASSUME chain[g].id # NoId, NEW outcome \in Outcomes, NEW note, note = "absent"
      PROVE  /\ [id |-> chain[g].id, outcome |-> outcome, note |-> note] \in Settlements
             /\ [id |-> chain[g].id, outcome |-> outcome, note |-> note].id = chain[g].id
  BY <1>1, <1>5 DEF Settlements, Chains, Turns
<1>6. ASSUME Return(g)
      PROVE  \E k \in Chains : /\ chain' = [chain EXCEPT ![g] = k] /\ k.at = "done"
                               /\ k.d = D(g) /\ k.id = NoId
  <2>1. PICK d : d = D(g) /\ d \in Deliveries
    BY <1>1
  <2>2. Enter(g, "done", d, NoId) /\ "done" \in Stages
    BY <1>2, <1>6, <2>1 DEF Return
  <2>3. PICK k \in Chains : /\ chain' = [chain EXCEPT ![g] = k]
                            /\ k.at = "done" /\ k.outcome = "none" /\ k.id = NoId /\ k.d = d
    BY <2>1, <2>2, Entering
  <2> QED
    BY <2>1, <2>3
<1>7. ASSUME NEW stage \in {"residual", "after"}, Goto(g, stage)
      PROVE  \E k \in Chains : /\ chain' = [chain EXCEPT ![g] = k] /\ k.at = stage
                               /\ k.outcome = chain[g].outcome
                               /\ k.d = D(g) /\ k.id = chain[g].id
  <2>1. PICK outcome \in Outcomes \cup {"none"} : outcome = chain[g].outcome
    BY <1>1 DEF Chains
  <2>2. stage \in Stages
    BY <1>2
  <2>3. ~At(g, "idle") /\ Goto(g, stage)
    BY <1>1, <1>7
  <2>4. PICK k \in Chains : /\ chain' = [chain EXCEPT ![g] = k]
                            /\ k.at = stage /\ k.outcome = outcome
                            /\ k.id = chain[g].id /\ k.d = D(g)
    BY <2>1, <2>2, <2>3, Going
  <2> QED
    BY <2>1, <2>4
<1>8. Fail => faults' = faults + 1 /\ faults = 0
  BY FaultsGrow DEF Holding
<1>9. CASE Steer(g)
  <2>1. PICK s : s = [id |-> chain[g].id, outcome |-> "handled", note |-> "absent"]
    OBVIOUS
  <2>2. s \in Settlements /\ s.id = chain[g].id /\ s.note = "absent" /\ s.outcome = "handled"
    BY <1>3, <1>5, <1>9, <2>1 DEF Steer, Outcomes
  <2>3. PICK k : k = [chain[g] EXCEPT !.outcome = "handled"]
    OBVIOUS
  <2>4. /\ k \in Chains /\ k.at = "prompt" /\ k.d = D(g) /\ k.id = chain[g].id
        /\ k.outcome = "handled"
    BY <1>1, <1>9, <2>3 DEF Chains, Outcomes, D, Steer, At
  <2>5. chain' = [chain EXCEPT ![g] = k]
    BY <1>1, <1>9, <2>3, <2>4 DEF Steer, At
  <2>6. \/ Settle(g, D(g), s) /\ UNCHANGED budget
        \/ Observe(g, D(g), s) /\ UNCHANGED row /\ Fail
    BY <1>9, <2>1 DEF Steer
  <2>7. Settles(row[D(g)], s.outcome)
    BY <2>2 DEF Settles
  <2>8. row[D(g)].claim = MyClaim(g) /\ Fail =>
          \A o : Standing(g, k, row[D(g)], o, faults')
    BY <1>4, <1>8, <2>4 DEF Standing
  <2> QED
    BY <1>1, <2>2, <2>4, <2>5, <2>6, <2>7, <2>8, SettlementHolds
<1>10. CASE SettleTurn(g)
  <2>1. PICK s : s = MySettlement(g)
    OBVIOUS
  <2>2. s \in Settlements /\ s.id = chain[g].id /\ s.note = "absent" /\ s.outcome = chain[g].outcome
    BY <1>1, <1>3, <1>5, <1>10, <2>1 DEF SettleTurn, MySettlement, Chains
  <2>3. PICK k \in Chains : /\ chain' = [chain EXCEPT ![g] = k] /\ k.at = "residual"
                            /\ k.outcome = chain[g].outcome
                            /\ k.d = D(g) /\ k.id = chain[g].id
    BY <1>7, <1>10 DEF SettleTurn
  <2>4. \/ Settle(g, D(g), s) /\ UNCHANGED budget
        \/ Observe(g, D(g), s) /\ UNCHANGED row /\ Fail
    BY <1>10, <2>1 DEF SettleTurn
  <2>5. row[D(g)].claim = MyClaim(g) /\ Fail =>
          \A o : Standing(g, k, row[D(g)], o, faults')
    BY <1>3, <1>4, <1>8, <1>10, <2>3 DEF Standing, SettleTurn, Settles
  <2> QED
    BY <1>1, <1>4, <2>2, <2>3, <2>4, <2>5, SettlementHolds
<1>11. CASE ConsumeFinal(g)
  <2>1. PICK s : s = [id |-> chain[g].id, outcome |-> "finalize", note |-> "absent"]
    OBVIOUS
  <2>2. s \in Settlements /\ s.id = chain[g].id /\ s.note = "absent" /\ s.outcome = "finalize"
    BY <1>3, <1>5, <1>11, <2>1 DEF ConsumeFinal, Outcomes
  <2>3. PICK k \in Chains : /\ chain' = [chain EXCEPT ![g] = k] /\ k.at = "done"
                            /\ k.d = D(g) /\ k.id = NoId
    BY <1>6, <1>11 DEF ConsumeFinal
  <2>4. \/ Settle(g, D(g), s) /\ UNCHANGED budget
        \/ UNCHANGED row /\ UNCHANGED observed /\ Fail
    BY <1>11, <2>1 DEF ConsumeFinal
  <2>5. Settles(row[D(g)], s.outcome)
    BY <2>2 DEF Settles
  <2>6. row[D(g)].claim = MyClaim(g) /\ Fail => Started(g) /\ observed[g][D(g)].id = chain[g].id
    BY <1>4, <1>8, <1>11 DEF ConsumeFinal
  <2> QED
    BY <1>1, <2>2, <2>3, <2>4, <2>5, <2>6, SettlementHolds
<1>12. CASE Residual(g) /\ chain[g].outcome # "none"
  <2>1. PICK s : s = MySettlement(g)
    OBVIOUS
  <2>2. s \in Settlements /\ s.id = chain[g].id /\ s.note = "absent" /\ s.outcome = chain[g].outcome
    BY <1>1, <1>3, <1>5, <1>12, <2>1 DEF MySettlement, Chains
  <2>3. CASE Settle(g, D(g), s) /\ Goto(g, "after") /\ UNCHANGED budget
    <3>1. PICK k \in Chains : /\ chain' = [chain EXCEPT ![g] = k] /\ k.at = "after"
                              /\ k.d = D(g) /\ k.id = chain[g].id
      BY <1>7, <2>3
    <3> QED
      BY <1>1, <1>4, <2>2, <2>3, <3>1, SettlementHolds
  <2>4. CASE Return(g) /\ Observe(g, D(g), s) /\ UNCHANGED row /\ Fail
    <3>1. PICK k \in Chains : /\ chain' = [chain EXCEPT ![g] = k] /\ k.at = "done"
                              /\ k.d = D(g) /\ k.id = NoId
      BY <1>6, <2>4
    <3>2. observed'[g][D(g)] = s
      BY <1>1, <2>4 DEF Observe
    <3>3. row[D(g)].claim = MyClaim(g) => Started(g)
      BY <1>4, <1>8, <2>4
    <3> QED
      BY <1>1, <2>2, <2>4, <3>1, <3>2, <3>3, SettlementHolds
  <2> QED
    BY <1>12, <2>1, <2>3, <2>4 DEF Residual
<1>13. CASE Residual(g) /\ chain[g].outcome = "none"
  <2>1. PICK o : o = observed[g][D(g)]
    OBVIOUS
  <2>2. UNCHANGED observed =>
          o \in Settlements \cup {NoSettlement} /\ observed' = [observed EXCEPT ![g][D(g)] = o]
    BY <1>1, <2>1
  <2>3. CASE /\ row' = [row EXCEPT ![D(g)] =
                  IF HeldBy(row[D(g)], MyClaim(g)) /\ row[D(g)].phase = "started"
                  THEN MarkUncertain(row[D(g)], MyClaim(g))
                  ELSE Release(row[D(g)], MyClaim(g))]
             /\ Goto(g, "after") /\ UNCHANGED <<observed, budget>>
    <3>1. PICK k \in Chains : /\ chain' = [chain EXCEPT ![g] = k] /\ k.at = "after"
                              /\ k.d = D(g) /\ k.id = chain[g].id
      BY <1>7, <2>3
    <3>2. PICK r : r = IF HeldBy(row[D(g)], MyClaim(g)) /\ row[D(g)].phase = "started"
                       THEN MarkUncertain(row[D(g)], MyClaim(g))
                       ELSE Release(row[D(g)], MyClaim(g))
      OBVIOUS
    <3>3. row' = [row EXCEPT ![D(g)] = r] /\ Gives(row[D(g)], r, MyClaim(g))
      BY <2>3, <3>2 DEF Gives
    <3>4. row[D(g)].claim = MyClaim(g) => r.claim # MyClaim(g)
      <4>1. MyClaim(g) # NoClaim
        BY <1>1, RowAssumption, DeliveryAssumption DEF MyClaim, ClaimBy, Claims, Chains
      <4> QED
        BY <1>1, <1>4, <3>2, <4>1 DEF MarkUncertain, Release, HeldBy, Rows
    <3>5. faults' \in Nat /\ faults' >= faults
      BY <2>3, FaultsGrow DEF Holding
    <3> QED
      BY <1>1, <2>1, <2>2, <2>3, <3>1, <3>3, <3>4, <3>5, CallHolds
  <2>4. CASE Return(g) /\ UNCHANGED <<row, observed>> /\ Fail
    <3>1. PICK k \in Chains : /\ chain' = [chain EXCEPT ![g] = k] /\ k.at = "done"
                              /\ k.d = D(g) /\ k.id = NoId
      BY <1>6, <2>4
    <3>2. row[D(g)].claim # MyClaim(g)
      BY <1>4, <1>8, <1>13, <2>4 DEF Residual
    <3> QED
      BY <1>1, <2>4, <3>1, <3>2, QuietHolds
  <2> QED
    BY <1>13, <2>3, <2>4 DEF Residual
<1> QED
  BY <1>9, <1>10, <1>11, <1>12, <1>13

\* The chain jumps after a call with its claim.
LEMMA GoingCallsHold ==
  ASSUME Core, Holding, NEW g \in Coordinators, ~At(g, "idle"), ~At(g, "done"),
         NEW stage \in {"body", "prompt", "release"},
         NEW outcome \in Outcomes \cup {"none"},
         GotoWith(g, stage, outcome) \/ (Goto(g, stage) /\ outcome = chain[g].outcome),
         NEW r, row' = [row EXCEPT ![D(g)] = r], Gives(row[D(g)], r, MyClaim(g)),
         UNCHANGED observed, UNCHANGED process, faults' \in Nat, faults' >= faults,
         row[D(g)].claim = MyClaim(g) /\ r.claim = MyClaim(g) =>
           /\ stage = "body" => r.phase = "prepared" /\ outcome = "none"
           /\ stage = "prompt" => r.phase = "started" /\ outcome = "none"
           /\ stage = "release" => outcome # "none" /\ Settles(r, outcome)
  PROVE  Holds'
<1>1. stage \in Stages
  BY DEF Stages
<1>2. PICK k \in Chains : /\ chain' = [chain EXCEPT ![g] = k]
                          /\ k.at = stage /\ k.outcome = outcome
                          /\ k.id = chain[g].id /\ k.d = D(g)
  BY <1>1, Going
<1>3. PICK o : o = observed[g][D(g)]
  OBVIOUS
<1>4. o \in Settlements \cup {NoSettlement} /\ observed' = [observed EXCEPT ![g][D(g)] = o]
  BY <1>3, Underway DEF Core, Parts
<1>5. Standing(g, chain[g], row[D(g)], observed[g][D(g)], faults) /\ faults \in Nat
  BY DEF Holding, Holds, BudgetTyped
<1>6. row[D(g)].claim = MyClaim(g) /\ ~Started(g) => faults' >= 1
  BY <1>5 DEF Standing, MyClaim, At
<1>7. row[D(g)].claim = MyClaim(g) /\ r.claim = MyClaim(g) => Standing(g, k, r, o, faults')
  BY <1>2, <1>6 DEF Standing, Settles
<1> QED
  BY <1>2, <1>3, <1>4, <1>7, CallHolds

\* What a chain that holds its claim finds on its way to the prompt.
LEMMA OnTheWay ==
  ASSUME Core, Holding, NEW g \in Coordinators, chain[g].at \in {"prepare", "body"}
  PROVE  /\ ~At(g, "idle") /\ ~At(g, "done") /\ D(g) \in Deliveries /\ row[D(g)] \in Rows
         /\ chain[g].outcome = "none" /\ MyClaim(g) # NoClaim
         /\ row[D(g)].claim = MyClaim(g) =>
              /\ HeldBy(row[D(g)], MyClaim(g))
              /\ At(g, "prepare") => row[D(g)].phase = "claimed" /\ row[D(g)].attempts < MaxAttempts
              /\ At(g, "body") => row[D(g)].phase = "prepared"
<1>1. /\ ~At(g, "idle") /\ ~At(g, "done") /\ D(g) \in Deliveries /\ row[D(g)] \in Rows
      /\ chain[g].outcome = "none" /\ worker[g].boot \in Boots
      /\ chain[g].id \in ClaimIds \cup {NoId}
  BY Underway DEF At, Staged, Chains
<1>2. MyClaim(g) # NoClaim
  BY <1>1, RowAssumption, DeliveryAssumption DEF MyClaim, ClaimBy, Claims
<1>3. Standing(g, chain[g], row[D(g)], observed[g][D(g)], faults)
  BY DEF Holding, Holds
<1>4. row[D(g)].claim # NoClaim => row[D(g)].state = "pending"
  BY <1>1 DEF Holding, Holds, ClaimsKept
<1> QED
  BY <1>1, <1>2, <1>3, <1>4 DEF Standing, At, MyClaim, HeldBy

\* The attempt is counted, or the claim given up.
LEMMA PrepareHolds ==
  ASSUME Core, Holding, faults' <= 1, NEW g \in Coordinators, PrepareTurn(g)
  PROVE  Holds'
<1>1. PICK u, c : u = row[D(g)] /\ c = MyClaim(g)
  OBVIOUS
<1>2. UNCHANGED observed /\ UNCHANGED process /\ At(g, "prepare")
  BY DEF PrepareTurn
<1>3. /\ ~At(g, "idle") /\ ~At(g, "done") /\ D(g) \in Deliveries /\ u \in Rows
      /\ chain[g].outcome = "none" /\ c # NoClaim
      /\ u.claim = c => HeldBy(u, c) /\ u.phase = "claimed" /\ u.attempts < MaxAttempts
  BY <1>1, <1>2, OnTheWay DEF At
<1>4. u.claim = c => Release(u, c).claim = NoClaim /\ Prepare(u, c).phase = "prepared"
  BY <1>3 DEF Release, Prepare, Rows
<1>5. u.claim = c => PrepareGranted(u, c)
  BY <1>3 DEF PrepareGranted
<1>6. faults \in Nat /\ {"none", "handled"} \subseteq Outcomes \cup {"none"}
  BY DEF Holding, BudgetTyped, Outcomes
<1>7. CASE /\ row' = [row EXCEPT ![D(g)] = Prepare(u, c)]
           /\ Goto(g, "body") /\ UNCHANGED budget
  <2>1. PICK r : r = Prepare(u, c)
    OBVIOUS
  <2>2. Gives(u, r, c) /\ row' = [row EXCEPT ![D(g)] = r]
    BY <1>7, <2>1 DEF Gives
  <2>3. faults' \in Nat /\ faults' >= faults
    BY <1>6, <1>7 DEF budget
  <2> QED
    BY <1>1, <1>2, <1>3, <1>4, <1>6, <1>7, <2>1, <2>2, <2>3, GoingCallsHold
<1>8. ASSUME row' = [row EXCEPT ![D(g)] = Release(u, c)], faults' \in Nat, faults' >= faults,
             NEW outcome \in {"none", "handled"}, GotoWith(g, "release", outcome)
      PROVE  Holds'
  <2>1. PICK r : r = Release(u, c)
    OBVIOUS
  <2>2. Gives(u, r, c) /\ row' = [row EXCEPT ![D(g)] = r]
    BY <1>8, <2>1 DEF Gives
  <2> QED
    BY <1>1, <1>2, <1>3, <1>4, <1>6, <1>8, <2>1, <2>2, GoingCallsHold
<1>9. CASE Failed(g, u)
  <2>1. row' = [row EXCEPT ![D(g)] = Release(u, c)] /\ faults' = faults + 1
    BY <1>1, <1>6, <1>9 DEF Failed
  <2> QED
    BY <1>6, <1>8, <1>9, <2>1 DEF Failed
<1>10. CASE /\ row' = [row EXCEPT ![D(g)] = Release(u, c)]
            /\ GotoWith(g, "release", "none") /\ UNCHANGED budget
  BY <1>6, <1>8, <1>10 DEF budget
<1> QED
  BY <1>1, <1>7, <1>9, <1>10 DEF PrepareTurn

\* The prompt starts under the claim, or does not start.
LEMMA StartPromptHolds ==
  ASSUME Core, Holding, NEW g \in Coordinators, StartPrompt(g)
  PROVE  Holds'
<1>1. PICK u, c : u = row[D(g)] /\ c = MyClaim(g)
  OBVIOUS
<1>2. UNCHANGED observed /\ UNCHANGED process /\ At(g, "body")
  BY DEF StartPrompt
<1>3. /\ ~At(g, "idle") /\ ~At(g, "done") /\ D(g) \in Deliveries /\ u \in Rows
      /\ chain[g].outcome = "none" /\ c # NoClaim
      /\ u.claim = c => HeldBy(u, c) /\ u.phase = "prepared"
  BY <1>1, <1>2, OnTheWay DEF At
<1>4. u.claim = c => StartGranted(u, c) /\ MarkStarted(u, c).phase = "started"
  BY <1>3 DEF StartGranted, MarkStarted, Rows
<1>5. faults \in Nat /\ {"none", "cancelled", "not_started"} \subseteq Outcomes \cup {"none"}
  BY DEF Holding, BudgetTyped, Outcomes
<1>6. ASSUME row' = [row EXCEPT ![D(g)] = MarkStarted(u, c)], UNCHANGED budget,
             Goto(g, "prompt") \/ GotoWith(g, "release", "cancelled")
      PROVE  Holds'
  <2>1. PICK r : r = MarkStarted(u, c)
    OBVIOUS
  <2>2. Gives(u, r, c) /\ row' = [row EXCEPT ![D(g)] = r]
    BY <1>6, <2>1 DEF Gives
  <2>3. faults' \in Nat /\ faults' >= faults
    BY <1>5, <1>6 DEF budget
  <2>4. CASE Goto(g, "prompt")
    BY <1>1, <1>2, <1>3, <1>4, <1>5, <2>1, <2>2, <2>3, <2>4, GoingCallsHold
  <2>5. CASE GotoWith(g, "release", "cancelled")
    <3>1. Settles(r, "cancelled")
      BY DEF Settles
    <3> QED
      BY <1>1, <1>2, <1>3, <1>5, <2>2, <2>3, <2>5, <3>1, GoingCallsHold
  <2> QED
    BY <1>6, <2>4, <2>5
<1>7. "release" \in Onward
  BY DEF Onward
<1>8. CASE ~MayStart(g) /\ GotoWith(g, "release", "none") /\ UNCHANGED <<row, budget>>
  <2>1. u.claim # c
    BY <1>1, <1>4, <1>8 DEF MayStart
  <2> QED
    BY <1>1, <1>2, <1>3, <1>5, <1>7, <1>8, <2>1, GoingHolds
<1>9. CASE GotoWith(g, "release", "not_started") /\ UNCHANGED row /\ Fail
  BY <1>1, <1>2, <1>3, <1>5, <1>7, <1>9, GoingHolds
<1> QED
  BY <1>1, <1>6, <1>8, <1>9 DEF StartPrompt

\* An id that is drawn is in no claim.
LEMMA FreshClaim ==
  ASSUME Core, NEW g \in Coordinators, ~At(g, "idle"), IdLeft
  PROVE  /\ ClaimBy(g, FreshId) \in Claims /\ ClaimBy(g, FreshId).id = FreshId
         /\ FreshId \in ClaimIds /\ FreshId # NoId /\ FreshId \in Mine(g)
         /\ \A d \in Deliveries : row[d].claim # ClaimBy(g, FreshId)
<1>1. FreshId \in ClaimIds /\ FreshId \in Mine(g) /\ FreshId \notin UsedIds /\ FreshId # NoId
  BY FreshIsMine, DeliveryAssumption
<1>2. ClaimBy(g, FreshId) \in Claims /\ ClaimBy(g, FreshId).id = FreshId
  BY <1>1, Underway DEF ClaimBy, Claims
<1>3. ASSUME NEW d \in Deliveries, row[d].claim = ClaimBy(g, FreshId) PROVE FALSE
  <2>1. d \in {e \in Deliveries : row[e].claim # NoClaim} /\ row[d].claim.id = FreshId
    BY <1>2, <1>3, RowAssumption
  <2>2. FreshId \in {row[e].claim.id : e \in {e \in Deliveries : row[e].claim # NoClaim}}
    BY <2>1
  <2> QED
    BY <1>1, <2>2 DEF UsedIds
<1> QED
  BY <1>1, <1>2, <1>3

\* The turn begins with an id no claim has.
LEMMA BeginTurnHolds ==
  ASSUME Core, Holding, NEW g \in Coordinators, BeginTurn(g)
  PROVE  Holds'
<1>1. /\ UNCHANGED <<row, observed>> /\ UNCHANGED process /\ At(g, "turn")
      /\ ~At(g, "idle") /\ ~At(g, "done")
      /\ chain[g] \in Chains /\ D(g) \in Deliveries /\ row[D(g)] \in Rows
      /\ chain[g].outcome = "none" /\ chain[g].id = NoId /\ worker[g].boot \in Boots
  BY Underway DEF BeginTurn, At, store, Staged
<1>2. row[D(g)].claim # MyClaim(g)
  BY <1>1, NothingHeld DEF At
<1>3. Fail \/ Block \/ UNCHANGED budget
  BY DEF BeginTurn
<1>4. CASE Goto(g, "residual")
  <2>1. "residual" \in Onward
    BY DEF Onward
  <2> QED
    BY <1>1, <1>2, <1>3, <1>4, <2>1, GoingHolds
<1>5. CASE IdLeft /\ chain' = [chain EXCEPT ![g].at = "claim", ![g].id = FreshId]
  <2>1. PICK d, r, o, k : /\ d = D(g) /\ r = row[d] /\ o = observed[g][d]
                          /\ k = [chain[g] EXCEPT !.at = "claim", !.id = FreshId]
    OBVIOUS
  <2>2. FreshId \in ClaimIds /\ row[d].claim # ClaimBy(g, FreshId)
    BY <1>1, <1>5, <2>1, FreshClaim
  <2>3. /\ k \in Chains /\ chain' = [chain EXCEPT ![g] = k]
        /\ k.at = "claim" /\ k.id = FreshId /\ k.d = d
    BY <1>1, <1>5, <2>1, <2>2 DEF Chains, Stages, Core, Parts, D
  <2>4. /\ row' = [row EXCEPT ![d] = r] /\ observed' = [observed EXCEPT ![g][d] = o]
        /\ o \in Settlements \cup {NoSettlement}
    BY <1>1, <2>1 DEF Core, Parts
  <2>5. o.id = NoId
    BY <1>1, <2>1 DEF Holding, Holds, Alive
  <2>6. ClaimBy(g, NoId) \notin Claims \cup {NoClaim}
    BY <1>1, DeliveryAssumption DEF ClaimBy, Claims
  <2>7. ~Keeping(g, d, chain[g], row[d], observed[g][d], faults)
    BY <1>1, <1>2, <2>1, <2>5, <2>6 DEF Keeping, MyClaim, Rows
  <2>8. Standing(g, k, r, o, faults')
    BY <2>1, <2>2, <2>3 DEF Standing
  <2>9. r.claim # NoClaim => r.state = "pending"
    BY <1>1, <2>1 DEF Holding, Holds, ClaimsKept
  <2>10. faults' \in Nat /\ faults' >= faults
    BY <1>3, FaultsGrow DEF Holding
  <2>11. HoldingStep(g, d, k, r, NoClaim, o)
    BY <1>1, <2>1, <2>3, <2>4, <2>5, <2>7, <2>8, <2>9, <2>10, RowAssumption DEF HoldingStep
  <2> QED
    BY <1>1, <2>1, <2>11, StepHolds DEF Holding
<1> QED
  BY <1>4, <1>5 DEF BeginTurn

\* The row is claimed, unless a write fails; then the claim is given back.
LEMMA ClaimHolds ==
  ASSUME Core, Holding, faults' <= 1, NEW g \in Coordinators, Claim(g)
  PROVE  Holds'
<1>1. /\ UNCHANGED observed /\ UNCHANGED process /\ At(g, "claim")
      /\ ~At(g, "idle") /\ ~At(g, "done")
      /\ chain[g] \in Chains /\ D(g) \in Deliveries /\ row[D(g)] \in Rows
      /\ chain[g].outcome = "none" /\ chain[g].id # NoId /\ worker[g].boot \in Boots
      /\ chain[g].id \in Mine(g)
  BY Underway DEF Claim, At, Staged
<1>2. PICK d, u, c, o : d = D(g) /\ u = row[d] /\ c = MyClaim(g) /\ o = observed[g][d]
  OBVIOUS
<1>3. u.claim # c
  BY <1>1, <1>2, NothingHeld DEF At
<1>4. c \in Claims /\ c.id = chain[g].id /\ c # NoClaim /\ c = ClaimBy(g, chain[g].id)
  BY <1>1, <1>2, RowAssumption DEF MyClaim, ClaimBy, Chains, Claims
<1>5. faults \in Nat /\ {"none", "handled"} \subseteq Outcomes \cup {"none"}
  BY DEF Holding, BudgetTyped, Outcomes
<1>6. "release" \in Onward /\ {"prepare", "release"} \subseteq Stages
  BY DEF Onward, Stages
<1>7. CASE GotoWith(g, "release", "none") /\ UNCHANGED <<row, budget>>
  BY <1>1, <1>2, <1>3, <1>5, <1>6, <1>7, GoingHolds
<1>8. CASE GotoWith(g, "release", "handled") /\ UNCHANGED row /\ Fail
  BY <1>1, <1>2, <1>3, <1>5, <1>6, <1>8, GoingHolds
<1>9. ASSUME ClaimGranted(u, c)
      PROVE  /\ u.claim = NoClaim /\ u.state = "pending" /\ u.attempts < MaxAttempts
             /\ ClaimExecution(u, c) = [u EXCEPT !.phase = "claimed", !.claim = c]
  BY <1>3, <1>9 DEF ClaimGranted, ClaimExecution, HeldBy
<1>10. ASSUME ClaimGranted(u, c), NEW r \in Rows, row' = [row EXCEPT ![d] = r],
              NEW stage \in {"prepare", "release"}, NEW outcome \in {"none", "handled"},
              GotoWith(g, stage, outcome) \/ (Goto(g, stage) /\ outcome = chain[g].outcome),
              faults' \in Nat, faults' >= faults,
              \/ r.claim = NoClaim
              \/ /\ r.claim = c /\ r.state = "pending" /\ stage = "prepare" /\ outcome = "none"
                 /\ r.phase = "claimed" /\ r.attempts < MaxAttempts /\ Started(g)
       PROVE  Holds'
  <2>1. PICK k \in Chains : /\ chain' = [chain EXCEPT ![g] = k]
                            /\ k.at = stage /\ k.outcome = outcome
                            /\ k.id = chain[g].id /\ k.d = D(g)
    BY <1>1, <1>5, <1>6, <1>10, Going
  <2>2. o \in Settlements \cup {NoSettlement} /\ observed' = [observed EXCEPT ![g][d] = o]
    BY <1>1, <1>2 DEF Core, Parts
  <2>3. o.id \in {NoId, k.id}
    BY <1>1, <1>2, <2>1 DEF Holding, Holds, Alive
  <2>4. NoClaim # ClaimBy(g, k.id)
    BY <1>4, <2>1
  <2>5. Standing(g, k, r, o, faults')
    BY <1>10, <2>1, <2>4 DEF Standing
  <2>6. r.claim # NoClaim => Keeping(g, d, k, r, o, faults')
    BY <1>2, <1>4, <1>10, <2>1 DEF Keeping
  <2>7. HoldingStep(g, d, k, r, c, o)
    BY <1>1, <1>2, <1>4, <1>9, <1>10, <2>1, <2>2, <2>3, <2>5, <2>6 DEF HoldingStep
  <2> QED
    BY <1>1, <1>2, <2>7, StepHolds DEF Holding
<1>11. CASE /\ ClaimGranted(u, c) /\ Started(g) /\ row' = [row EXCEPT ![d] = ClaimExecution(u, c)]
            /\ Goto(g, "prepare") /\ UNCHANGED budget
  <2>1. PICK r : r = ClaimExecution(u, c)
    OBVIOUS
  <2>2. /\ r \in Rows /\ r.claim = c /\ r.state = "pending" /\ r.phase = "claimed"
        /\ r.attempts < MaxAttempts
    BY <1>1, <1>2, <1>4, <1>9, <1>11, <2>1 DEF Rows, Phases
  <2>3. faults' \in Nat /\ faults' >= faults
    BY <1>5, <1>11 DEF budget
  <2> QED
    BY <1>1, <1>10, <1>11, <2>1, <2>2, <2>3
<1>12. CASE ClaimGranted(u, c) /\ Failed(g, ClaimExecution(u, c))
  <2>1. PICK r : r = Release(ClaimExecution(u, c), c)
    OBVIOUS
  <2>2. /\ row' = [row EXCEPT ![d] = r] /\ GotoWith(g, "release", "handled")
        /\ faults' = faults + 1
    BY <1>2, <1>5, <1>12, <2>1 DEF Failed
  <2>3. r \in Rows /\ r.claim = NoClaim
    <3>1. PICK v : v = [u EXCEPT !.phase = "claimed", !.claim = c]
      OBVIOUS
    <3>2. v \in Rows /\ HeldBy(v, c) /\ v.phase = "claimed" /\ r = Release(v, c)
      BY <1>1, <1>2, <1>4, <1>9, <1>12, <2>1, <3>1 DEF Rows, Phases, HeldBy
    <3> QED
      BY <3>2 DEF Release, Reopened, Rows, Phases
  <2>4. faults' \in Nat /\ faults' >= faults /\ ClaimGranted(u, c) /\ r.claim = NoClaim
    BY <1>5, <1>12, <2>2, <2>3
  <2>5. PICK stage \in {"prepare", "release"}, outcome \in {"none", "handled"} :
          stage = "release" /\ outcome = "handled"
    OBVIOUS
  <2>6. GotoWith(g, stage, outcome)
    BY <2>2, <2>5
  <2> QED
    BY <1>10, <2>2, <2>3, <2>4, <2>6
<1> QED
  BY <1>2, <1>7, <1>8, <1>11, <1>12 DEF Claim

\* A finalization claims the row and is on its way to consume it, or has observed it.
LEMMA FinalizeHolds ==
  ASSUME Core, Holding, NEW g \in Coordinators, chain[g].at \in {"lookup", "config", "after"},
         NEW note \in {"absent", "failed", "uncertain"},
         NEW phase \in Phases, NEW exhausted \in BOOLEAN, Finalize(g, note, phase, exhausted),
         UNCHANGED process
  PROVE  Holds'
<1>1. /\ worker[g].boot \in Boots /\ D(g) \in Deliveries /\ row[D(g)] \in Rows
      /\ ~At(g, "idle")
  BY Underway DEF At
<1>2. PICK d, id, c, r, s, t :
        /\ d = D(g) /\ id = FreshId /\ c = ClaimBy(g, id)
        /\ r = ClaimFinalization(row[d], c, phase, exhausted)
        /\ s = [id |-> id, outcome |-> "finalize", note |-> note]
        /\ t = [id |-> id, outcome |-> "finalize", note |-> "absent"]
  OBVIOUS
<1>3. /\ id \in ClaimIds /\ id \in Mine(g) /\ id # NoId
      /\ c \in Claims /\ c.id = id /\ c # NoClaim /\ row[d].claim # c
  BY <1>1, <1>2, FreshClaim, RowAssumption DEF Finalize
<1>4. s \in Settlements /\ t \in Settlements /\ s.id = id /\ t.id = id
  BY <1>2, <1>3 DEF Settlements, Turns, Outcomes
<1>5. ASSUME FinalizationGranted(row[d], c, phase, exhausted), Started(g),
             row' = [row EXCEPT ![d] = r],
             NEW o \in Settlements, o.id = id, observed' = [observed EXCEPT ![g][d] = o],
             NEW k \in Chains, chain' = [chain EXCEPT ![g] = k], k.outcome = "none", k.d = d,
             faults' \in Nat, faults' >= faults,
             \/ k.at = "consume" /\ k.id = id
             \/ k.at = "done" /\ k.id = NoId /\ faults' >= 1
      PROVE  Holds'
  <2>1. row[d].claim = NoClaim /\ row[d].state = "pending"
    BY <1>3, <1>5 DEF FinalizationGranted, HeldBy
  <2>2. r = [row[d] EXCEPT !.claim = c]
    BY <1>2, <1>5 DEF ClaimFinalization
  <2>3. r \in Rows /\ r.claim = c /\ r.state = "pending"
    BY <1>1, <1>2, <1>3, <2>1, <2>2 DEF Rows
  <2>4. k.id = NoId => r.claim # ClaimBy(g, k.id)
    BY <1>3, <2>3 DEF ClaimBy
  <2>5. Standing(g, k, r, o, faults')
    BY <1>5, <2>4 DEF Standing
  <2>6. Keeping(g, d, k, r, o, faults')
    BY <1>2, <1>5, <2>3 DEF Keeping
  <2>7. HoldingStep(g, d, k, r, c, o)
    BY <1>1, <1>2, <1>3, <1>5, <2>1, <2>3, <2>5, <2>6 DEF HoldingStep
  <2> QED
    BY <1>1, <1>2, <2>7, StepHolds DEF Holding
<1>6. \A stage \in {"consume", "done"} : stage \in Stages
  BY DEF Stages
<1>7. CASE /\ FinalizationGranted(row[d], c, phase, exhausted) /\ Started(g)
           /\ row' = [row EXCEPT ![d] = r]
           /\ Observe(g, d, t) /\ Enter(g, "consume", d, id) /\ UNCHANGED budget
  <2>1. PICK k \in Chains : /\ chain' = [chain EXCEPT ![g] = k]
                            /\ k.at = "consume" /\ k.outcome = "none" /\ k.id = id /\ k.d = d
    BY <1>1, <1>2, <1>3, <1>6, <1>7, Entering
  <2>2. faults' \in Nat /\ faults' >= faults
    BY <1>7, FaultsGrow DEF Holding
  <2> QED
    BY <1>4, <1>5, <1>7, <2>1, <2>2 DEF Observe
<1>8. CASE /\ FinalizationGranted(row[d], c, phase, exhausted) /\ Started(g)
           /\ row' = [row EXCEPT ![d] = r]
           /\ Observe(g, d, s) /\ Return(g) /\ Fail
  <2>1. PICK k \in Chains : /\ chain' = [chain EXCEPT ![g] = k]
                            /\ k.at = "done" /\ k.outcome = "none" /\ k.id = NoId /\ k.d = d
    BY <1>1, <1>2, <1>6, <1>8, Entering DEF Return
  <2>2. faults' \in Nat /\ faults' >= faults /\ faults' >= 1
    BY <1>8, FaultsGrow DEF Holding
  <2> QED
    BY <1>4, <1>5, <1>8, <2>1, <2>2 DEF Observe
<1>9. CASE Return(g) /\ UNCHANGED <<row, observed>> /\ (Fail \/ UNCHANGED budget)
  BY <1>9, ReturnHolds
<1>10. /\ row' = [row EXCEPT ![D(g)] = ClaimFinalization(@, ClaimBy(g, FreshId), phase, exhausted)]
          => row' = [row EXCEPT ![d] = r]
       /\ [[id |-> FreshId, outcome |-> "finalize", note |-> note] EXCEPT !.note = "absent"] = t
  BY <1>2
<1> QED
  <2>1. \/ /\ FinalizationGranted(row[d], c, phase, exhausted) /\ Started(g)
           /\ row' = [row EXCEPT ![d] = r]
           /\ Observe(g, d, t) /\ Enter(g, "consume", d, id) /\ UNCHANGED budget
        \/ /\ FinalizationGranted(row[d], c, phase, exhausted) /\ Started(g)
           /\ row' = [row EXCEPT ![d] = r]
           /\ Observe(g, d, s) /\ Return(g) /\ Fail
        \/ Return(g) /\ UNCHANGED <<row, observed>> /\ (Fail \/ UNCHANGED budget)
    BY <1>2, <1>10 DEF Finalize
  <2> QED
    BY <1>7, <1>8, <1>9, <2>1

\* The three places that finalize.
LEMMA DecisionsHold ==
  ASSUME Core, Holding, NEW g \in Coordinators, Decide(g) \/ Configure(g) \/ AfterResidual(g)
  PROVE  Holds'
<1>1. /\ UNCHANGED process /\ chain[g].at \in {"lookup", "config", "after"} /\ chain[g] \in Chains
      /\ ~At(g, "idle") /\ ~At(g, "done")
  BY DEF Decide, Configure, AfterResidual, At, Core, Parts
<1>2. {"uncertain", "ready"} \subseteq Phases /\ {TRUE, FALSE} \subseteq BOOLEAN
  BY DEF Phases
<1>3. ASSUME NEW note \in {"absent", "failed", "uncertain"}, NEW phase \in {"uncertain", "ready"},
             NEW exhausted \in BOOLEAN, Finalize(g, note, phase, exhausted)
      PROVE  Holds'
  BY <1>1, <1>2, <1>3, FinalizeHolds
<1>4. CASE FailUncertain(g)
  BY <1>3, <1>4 DEF FailUncertain
<1>5. CASE FailExhausted(g)
  BY <1>3, <1>5 DEF FailExhausted
<1>6. CASE UNCHANGED <<row, observed>> /\ Return(g) /\ (Block \/ UNCHANGED budget)
  BY <1>1, <1>6, ReturnHolds
<1>7. CASE /\ UNCHANGED <<row, observed, budget>> /\ Enter(g, "config", D(g), NoId)
           /\ At(g, "lookup")
  BY <1>1, <1>7, ReturnHolds
<1>8. CASE Goto(g, "turn") /\ UNCHANGED <<row, observed, budget>>
  <2>1. PICK outcome \in Outcomes \cup {"none"} : outcome = chain[g].outcome
    BY <1>1 DEF Chains
  <2>2. "turn" \in Onward
    BY DEF Onward
  <2>3. row[D(g)].claim # MyClaim(g)
    BY <1>1, NothingHeld
  <2> QED
    BY <1>1, <1>8, <2>1, <2>2, <2>3, GoingHolds
<1>9. CASE Decide(g)
  BY <1>3, <1>4, <1>5, <1>6, <1>7, <1>9 DEF Decide
<1>10. CASE Configure(g)
  BY <1>3, <1>6, <1>8, <1>10 DEF Configure
<1>11. CASE AfterResidual(g)
  BY <1>4, <1>5, <1>6, <1>11 DEF AfterResidual
<1> QED
  BY <1>9, <1>10, <1>11

\* A pass begins, or settles what a pass before it left observed: after a failure.
LEMMA BeginHolds ==
  ASSUME Core, Holding, SchedulingTyped, NEW g \in Coordinators, Begin(g)
  PROVE  Holds'
<1>1. At(g, "idle") /\ Started(g) /\ UNCHANGED process
  BY DEF Begin
<1>2. /\ chain[g] = IdleChain /\ worker[g].boot \in Boots /\ worker[g].boot = boot
  BY <1>1 DEF Core, Staged, At, Parts, Workers, Holding, Holds, Alive
<1>3. queue[g] \in Seq(Deliveries) /\ queue[g] # <<>>
  BY DEF SchedulingTyped, Begin
<1>4. PICK d, s, c, u : /\ d = Head(queue[g]) /\ s = observed[g][d] /\ c = ClaimBy(g, s.id)
                        /\ u = row[d]
  OBVIOUS
<1>5. d \in Deliveries
  BY <1>3, <1>4
<1>6. /\ s \in Settlements \cup {NoSettlement} /\ s.id \in Mine(g) /\ u \in Rows
      /\ s.id \in ClaimIds \cup {NoId}
  BY <1>4, <1>5 DEF Core, Parts, Mine, OwnIds, Settlements, NoSettlement
<1>7. /\ c \in Claims => c.id \in Mine(g)
      /\ c # NoClaim /\ c.boot = boot
  BY <1>2, <1>4, <1>6, RowAssumption, DeliveryAssumption DEF ClaimBy, Claims
<1>8. u.claim # ClaimBy(g, NoId)
  BY <1>2, <1>6, DeliveryAssumption DEF ClaimBy, Claims, Rows
<1>9. u.claim # NoClaim => u.state = "pending"
  BY <1>4, <1>5 DEF Holding, Holds, ClaimsKept
<1>10. faults \in Nat
  BY DEF Holding, BudgetTyped
<1>11. ASSUME u.claim = c PROVE faults >= 1 /\ c \in Claims
  <2>1. c \in Claims
    BY <1>6, <1>7, <1>11 DEF Rows
  <2>2. PICK h \in Coordinators : Keeping(h, d, chain[h], u, observed[h][d], faults)
    BY <1>1, <1>4, <1>5, <1>7, <1>11 DEF Holding, Holds, ClaimsKept
  <2>3. CASE chain[h].at # "idle" /\ u.claim = ClaimBy(h, chain[h].id)
    <3>1. h # g /\ chain[h].id \in OwnIds(h)
      BY <1>1, <2>3 DEF At, OwnIds
    <3> QED
      BY <1>7, <1>11, <2>1, <2>3, <3>1, ClaimsApart
  <2> QED
    BY <2>1, <2>2, <2>3 DEF Keeping
<1>12. ASSUME NEW k \in Chains, chain' = [chain EXCEPT ![g] = k], k.d = d,
              NEW r \in Rows, row' = [row EXCEPT ![d] = r],
              NEW o \in Settlements \cup {NoSettlement},
              observed' = [observed EXCEPT ![g][d] = o],
              faults' \in Nat, faults' >= faults,
              \/ k.id = NoId /\ r = u /\ u.claim # c /\ o = NoSettlement
              \/ /\ k.id = NoId /\ k.at = "done" /\ u.claim = c /\ r.claim \in {c, NoClaim}
                 /\ r.claim = c => r.state = "pending" /\ o = s
              \/ /\ k.id = s.id /\ k.at = "consume" /\ k.outcome = "none"
                 /\ r = u /\ u.claim = c /\ o.id = s.id
       PROVE  Holds'
  <2>1. r.claim # NoClaim => r.state = "pending"
    BY <1>9, <1>12
  <2>2. k.id = NoId => Standing(g, k, r, o, faults')
    <3>1. r.claim # ClaimBy(g, NoId)
      BY <1>2, <1>12, DeliveryAssumption DEF ClaimBy, Claims, Rows
    <3> QED
      BY <3>1 DEF Standing
  <2>3. k.at = "consume" /\ k.id = s.id /\ k.outcome = "none" /\ o.id = s.id
          => Standing(g, k, r, o, faults')
    BY <1>1 DEF Standing
  <2>4. r.claim # NoClaim =>
          \/ Keeping(g, d, k, r, o, faults')
          \/ r = row[d] /\ ~Keeping(g, d, chain[g], row[d], observed[g][d], faults)
    <3>1. CASE r = u /\ u.claim # c
      BY <1>1, <1>4, <3>1 DEF Keeping, At
    <3>2. CASE u.claim = c /\ r.claim = c /\ o = s
      <4>1. faults' >= 1
        BY <1>10, <1>11, <1>12, <3>2
      <4> QED
        BY <1>1, <1>4, <3>2, <4>1 DEF Keeping
    <3>3. CASE k.at = "consume" /\ k.id = s.id /\ r = u /\ u.claim = c
      BY <1>4, <1>12, <3>3 DEF Keeping
    <3> QED
      BY <1>12, <3>1, <3>2, <3>3
  <2>5. k.at \notin {"idle", "done"} => o.id \in {NoId, k.id}
    BY <1>12 DEF NoSettlement
  <2>6. PICK b : b = IF u.claim = c THEN c ELSE NoClaim
    OBVIOUS
  <2>7. /\ b \in Claims => b.id \in Mine(g)
        /\ row[d].claim \notin {NoClaim, b} => r = row[d]
        /\ r.claim \in {row[d].claim, NoClaim, b}
    BY <1>4, <1>7, <1>12, <2>6, RowAssumption
  <2>8. HoldingStep(g, d, k, r, b, o)
    BY <1>1, <1>12, <2>1, <2>2, <2>3, <2>4, <2>5, <2>7 DEF HoldingStep
  <2> QED
    BY <1>5, <2>8, StepHolds DEF Holding
<1>13. /\ row' = row => row' = [row EXCEPT ![d] = u]
       /\ observed' = observed => observed' = [observed EXCEPT ![g][d] = s]
  BY <1>4, <1>5 DEF Core, Parts
<1>14. Fail \/ UNCHANGED budget => faults' \in Nat /\ faults' >= faults
  BY FaultsGrow DEF Holding
<1>15. \A stage \in {"consume", "done", "lookup"} : stage \in Stages
  BY DEF Stages
<1>16. ASSUME Enter(g, "done", d, NoId)
       PROVE  \E k \in Chains : /\ chain' = [chain EXCEPT ![g] = k]
                                /\ k.at = "done" /\ k.id = NoId /\ k.d = d
  <2>1. PICK k \in Chains : /\ chain' = [chain EXCEPT ![g] = k]
                            /\ k.at = "done" /\ k.outcome = "none" /\ k.id = NoId /\ k.d = d
    BY <1>5, <1>15, <1>16, Entering
  <2> QED
    BY <2>1
<1>17. CASE /\ u.claim # c
            /\ \/ chain' = [chain EXCEPT ![g].at = "lookup", ![g].d = d, ![g].snapshot = u]
               \/ Enter(g, "done", d, NoId)
            /\ Observe(g, d, NoSettlement) /\ UNCHANGED <<row, budget>>
  <2>1. PICK k \in Chains : chain' = [chain EXCEPT ![g] = k] /\ k.id = NoId /\ k.d = d
    <3>1. CASE chain' = [chain EXCEPT ![g].at = "lookup", ![g].d = d, ![g].snapshot = u]
      <4>1. PICK k : k = [IdleChain EXCEPT !.at = "lookup", !.d = d, !.snapshot = u]
        OBVIOUS
      <4>2. chain' = [chain EXCEPT ![g] = k]
        BY <1>2, <3>1, <4>1 DEF Core, Parts
      <4>3. k \in Chains /\ k.id = NoId /\ k.d = d
        BY <1>5, <1>6, <4>1 DEF IdleChain, Chains, Stages
      <4> QED
        BY <4>2, <4>3
    <3> QED
      BY <1>16, <1>17, <3>1
  <2> QED
    BY <1>6, <1>12, <1>13, <1>14, <1>17, <2>1 DEF Observe
<1>18. CASE u.claim = c /\ Enter(g, "done", d, NoId) /\ UNCHANGED <<row, observed>> /\ Fail
  <2>1. PICK k \in Chains : /\ chain' = [chain EXCEPT ![g] = k]
                            /\ k.at = "done" /\ k.id = NoId /\ k.d = d
    BY <1>16, <1>18
  <2>2. PICK r, o : /\ r = u /\ o = s /\ r \in Rows /\ o \in Settlements \cup {NoSettlement}
                    /\ row' = [row EXCEPT ![d] = r]
                    /\ observed' = [observed EXCEPT ![g][d] = o]
    BY <1>6, <1>13, <1>18
  <2>3. r.claim \in {c, NoClaim} /\ (r.claim = c => r.state = "pending" /\ o = s)
    BY <1>7, <1>9, <1>18, <2>2
  <2> QED
    BY <1>12, <1>14, <1>18, <2>1, <2>2, <2>3
<1>19. CASE /\ u.claim = c /\ Enter(g, "done", d, NoId) /\ Settle(g, d, s)
            /\ UNCHANGED budget
  <2>1. PICK r, o : /\ r = Settled(u, c, s.outcome)
                    /\ o = IF r.claim = c THEN s ELSE NoSettlement
    OBVIOUS
  <2>2. row' = [row EXCEPT ![d] = r] /\ observed' = [observed EXCEPT ![g][d] = o]
    BY <1>4, <1>19, <2>1 DEF Settle, Observe
  <2>3. Gives(u, r, c)
    BY <2>1 DEF Gives, Settled
  <2>4. /\ r \in Rows /\ r.claim \in {c, NoClaim}
        /\ r.claim # NoClaim => r.state = "pending"
    BY <1>6, <1>9, <1>19, <2>3, GivesFacts
  <2>5. o \in Settlements \cup {NoSettlement} /\ (r.claim = c => o = s)
    BY <1>6, <2>1
  <2>6. r.claim = c => r.state = "pending" /\ o = s
    BY <1>7, <2>4, <2>5
  <2>7. PICK k \in Chains : /\ chain' = [chain EXCEPT ![g] = k]
                            /\ k.at = "done" /\ k.id = NoId /\ k.d = d
    BY <1>16, <1>19
  <2> QED
    BY <1>12, <1>14, <1>19, <2>2, <2>4, <2>5, <2>6, <2>7
<1>20. CASE /\ u.claim = c /\ s.note # "absent" /\ Enter(g, "consume", d, s.id)
            /\ Observe(g, d, [s EXCEPT !.note = "absent"])
            /\ UNCHANGED row /\ UNCHANGED budget
  <2>1. PICK o : o = [s EXCEPT !.note = "absent"]
    OBVIOUS
  <2>2. s \in Settlements
    BY <1>6, <1>20 DEF NoSettlement
  <2>3. o \in Settlements /\ o.id = s.id
    BY <2>1, <2>2 DEF Settlements, Turns
  <2>4. PICK k \in Chains : /\ chain' = [chain EXCEPT ![g] = k]
                            /\ k.at = "consume" /\ k.outcome = "none" /\ k.id = s.id /\ k.d = d
    BY <1>5, <1>6, <1>15, <1>20, Entering
  <2> QED
    BY <1>6, <1>12, <1>13, <1>14, <1>20, <2>1, <2>3, <2>4 DEF Observe
<1> QED
  BY <1>4, <1>17, <1>18, <1>19, <1>20 DEF Begin, Unsettled

\* What happens around a chain leaves it where it can give up what it still has.
LEMMA StandingStays ==
  ASSUME Core, Holding, UNCHANGED chain, faults' \in Nat, faults' >= faults,
         NEW g \in Coordinators, worker'[g] = worker[g], observed'[g] = observed[g],
         ~At(g, "idle") /\ row'[D(g)].claim # NoClaim => row'[D(g)] = row[D(g)]
  PROVE  Standing(g, chain[g], row[D(g)], observed[g][D(g)], faults)'
<1> SUFFICES ASSUME ~At(g, "idle"), row'[D(g)].claim = MyClaim(g)
             PROVE  Standing(g, chain[g], row[D(g)], observed[g][D(g)], faults)'
  BY DEF Standing, At, D, MyClaim, ClaimBy
<1>1. MyClaim(g) # NoClaim
  <2>1. worker[g].boot \in Boots /\ chain[g].id \in ClaimIds \cup {NoId}
    BY Underway DEF Chains
  <2> QED
    BY <2>1, RowAssumption, DeliveryAssumption DEF MyClaim, ClaimBy, Claims
<1>2. row'[D(g)] = row[D(g)]
  BY <1>1
<1>3. Standing(g, chain[g], row[D(g)], observed[g][D(g)], faults)
  BY DEF Holding, Holds
<1>4. faults \in Nat
  BY DEF Holding, BudgetTyped
<1> QED
  BY <1>2, <1>3, <1>4 DEF Standing, D, ClaimBy, Started

\* A step that touches no row, chain or coordinator strands no claim.
LEMMA IdleHolds ==
  ASSUME Holds, UNCHANGED <<row, chain, observed, worker, boot, faults>>
  PROVE  Holds'
<1>1. ClaimsKept'
  BY DEF Holds, ClaimsKept, Keeping, Started, ClaimBy
<1>2. ASSUME NEW g \in Coordinators
      PROVE  Standing(g, chain[g], row[D(g)], observed[g][D(g)], faults)' /\ Alive(g)'
  <2>1. Standing(g, chain[g], row[D(g)], observed[g][D(g)], faults) /\ Alive(g)
    BY DEF Holds
  <2> QED
    BY <2>1 DEF Standing, Alive, Started, ClaimBy, At, D
<1> QED
  BY <1>1, <1>2 DEF Holds

\* Nor does a new delivery.
LEMMA FinishOperationHolds ==
  ASSUME Core, Holding, NEW d \in Deliveries, FinishOperation(d)
  PROVE  Holds'
<1>1. /\ row' = [row EXCEPT ![d] = NewDelivery]
      /\ UNCHANGED <<chain, observed, worker, boot, faults>>
  BY DEF FinishOperation, process, budget
<1>2. row'[d].claim = NoClaim /\ \A e \in Deliveries : e # d => row'[e] = row[e]
  BY <1>1 DEF NewDelivery, Core, Parts
<1>3. faults' \in Nat /\ faults' >= faults
  BY <1>1 DEF Holding, BudgetTyped
<1>4. ClaimsKept'
  <2> SUFFICES ASSUME NEW e \in Deliveries, row'[e] = row[e], row[e].claim # NoClaim
               PROVE  /\ row[e].state = "pending" /\ row[e].claim.boot <= boot
                      /\ \/ \E g \in Coordinators :
                              Keeping(g, e, chain[g], row[e], observed[g][e], faults)'
                         \/ row[e].claim.boot # boot /\ ~\E g \in Coordinators : Started(g)
    BY <1>1, <1>2 DEF ClaimsKept, Started
  <2> QED
    BY <1>1 DEF Holding, Holds, ClaimsKept, Keeping, Started, ClaimBy
<1>5. ASSUME NEW g \in Coordinators
      PROVE  Standing(g, chain[g], row[D(g)], observed[g][D(g)], faults)' /\ Alive(g)'
  <2>1. ~At(g, "idle") /\ row'[D(g)].claim # NoClaim => row'[D(g)] = row[D(g)]
    BY <1>2, Underway
  <2>2. Alive(g)
    BY DEF Holding, Holds
  <2> QED
    BY <1>1, <1>3, <2>1, <2>2, StandingStays DEF Alive, Started, At, D
<1> QED
  BY <1>4, <1>5 DEF Holds

\* The start of a coordinator recovers the claims of dead processes; the others are kept
\* by chains of coordinators that were stopped.
LEMMA StartHolds ==
  ASSUME Core, Holding, NEW g \in Coordinators, Start(g)
  PROVE  Holds'
<1>1. /\ worker' = [worker EXCEPT ![g] = [state |-> "running", boot |-> boot]]
      /\ row' = [d \in Deliveries |-> RecoverForeign(row[d], boot)]
      /\ \A h \in Coordinators : ~Started(h)
      /\ At(g, "idle") /\ UNCHANGED <<chain, observed, boot, faults>>
  BY DEF Start, Core, budget, Started
<1>2. faults' \in Nat /\ faults' >= faults
  BY <1>1 DEF Holding, BudgetTyped
<1>3. \A d \in Deliveries : row'[d] = RecoverForeign(row[d], boot) /\ row[d] \in Rows
  BY <1>1 DEF Core, Parts
<1>4. \A d \in Deliveries : row'[d].claim # NoClaim => row'[d] = row[d]
  <2> TAKE d \in Deliveries
  <2>1. row'[d] \in {row[d], Orphan(row[d])} /\ row[d] \in Rows
    BY <1>3 DEF RecoverForeign
  <2> QED
    BY <2>1, OrphanFacts
<1>5. worker'[g].boot = boot /\ \A h \in Coordinators : h # g => worker'[h] = worker[h]
  BY <1>1 DEF Core, Parts
<1>6. ClaimsKept'
  <2> SUFFICES ASSUME NEW d \in Deliveries, row'[d].claim # NoClaim
               PROVE  /\ row'[d].state = "pending" /\ row'[d].claim.boot <= boot
                      /\ \E h \in Coordinators :
                           Keeping(h, d, chain[h], row[d], observed[h][d], faults)'
    BY <1>1 DEF ClaimsKept
  <2>1. row'[d] = row[d] /\ row[d].state = "pending" /\ row[d].claim.boot <= boot
    BY <1>4 DEF Holding, Holds, ClaimsKept
  <2>2. row[d].claim.boot = boot
    <3> SUFFICES ASSUME row[d].claim.boot # boot PROVE Orphan(row[d]).claim # NoClaim
      BY <1>3, <2>1 DEF RecoverForeign, Orphan, Rows
    <3> QED
      BY <1>3, <2>1 DEF RecoverForeign
  <2>3. PICK h \in Coordinators : Keeping(h, d, chain[h], row[d], observed[h][d], faults)
    BY <2>1, <2>2 DEF Holding, Holds, ClaimsKept
  <2>4. chain[h].at # "idle" /\ chain[h].d = d /\ row[d].claim = ClaimBy(h, chain[h].id)
    BY <1>1, <2>3 DEF Keeping
  <2>5. h # g
    BY <1>1, <2>4 DEF At
  <2> QED
    BY <1>1, <1>5, <2>1, <2>4, <2>5 DEF Keeping, ClaimBy
<1>7. ASSUME NEW h \in Coordinators
      PROVE  Standing(h, chain[h], row[D(h)], observed[h][D(h)], faults)' /\ Alive(h)'
  <2>1. CASE h = g
    BY <1>1, <1>5, <2>1 DEF Standing, Alive, At
  <2>2. CASE h # g
    <3>1. ~At(h, "idle") /\ row'[D(h)].claim # NoClaim => row'[D(h)] = row[D(h)]
      BY <1>4, Underway
    <3>2. Alive(h)
      BY DEF Holding, Holds
    <3> QED
      BY <1>1, <1>2, <1>5, <2>2, <3>1, <3>2, StandingStays DEF Alive, Started, At, D
  <2> QED
    BY <2>1, <2>2
<1> QED
  BY <1>6, <1>7 DEF Holds

\* A stop gives the claims of the boot up; if that fails no other write has, and each is
\* kept by a chain, which goes on.
LEMMA StopHolds ==
  ASSUME Core, Holding, faults' <= 1, NEW g \in Coordinators, Stop(g)
  PROVE  Holds'
<1>1. /\ Started(g) /\ worker' = [worker EXCEPT ![g].state = "stopped"]
      /\ observed' = [observed EXCEPT ![g] = [d \in Deliveries |-> NoSettlement]]
      /\ \/ row' = [d \in Deliveries |-> AbandonOwned(row[d], boot)] /\ UNCHANGED faults
         \/ UNCHANGED row /\ Fail
      /\ UNCHANGED <<chain, boot>>
  BY DEF Stop, budget
<1>2. /\ faults \in Nat /\ faults' \in Nat /\ faults' >= faults
      /\ Fail => faults = 0 /\ faults' = 1
  BY <1>1 DEF Fail, Holding, BudgetTyped
<1>3. /\ worker'[g].boot = worker[g].boot /\ ~Started(g)'
      /\ \A h \in Coordinators : h # g => worker'[h] = worker[h] /\ observed'[h] = observed[h]
      /\ \A d \in Deliveries : observed'[g][d] = NoSettlement
  BY <1>1 DEF Core, Parts, Started, Workers
<1>4. \A h \in Coordinators : worker'[h].boot = worker[h].boot /\ ~Started(h)'
  BY <1>1, <1>3 DEF Core, Started
<1>5. worker[g].boot = boot
  BY <1>1 DEF Holding, Holds, Alive
<1>6. ASSUME NEW d \in Deliveries, row[d].claim # NoClaim
      PROVE  /\ row[d].state = "pending" /\ row[d].claim.boot = boot
             /\ \E h \in Coordinators : Keeping(h, d, chain[h], row[d], observed[h][d], faults)
  <2>1. /\ row[d].state = "pending"
        /\ \E h \in Coordinators : Keeping(h, d, chain[h], row[d], observed[h][d], faults)
    BY <1>1, <1>6 DEF Holding, Holds, ClaimsKept
  <2>2. PICK h \in Coordinators : Keeping(h, d, chain[h], row[d], observed[h][d], faults)
    BY <2>1
  <2>3. row[d].claim.boot = worker[h].boot /\ (Started(h) \/ ~At(h, "idle"))
    BY <2>2 DEF Keeping, ClaimBy, At
  <2>4. worker[h].boot = boot
    BY <2>3 DEF Holding, Holds, Alive
  <2> QED
    BY <2>1, <2>3, <2>4
<1>7. ASSUME row' = [d \in Deliveries |-> AbandonOwned(row[d], boot)]
      PROVE  \A d \in Deliveries : row'[d].claim = NoClaim
  <2> TAKE d \in Deliveries
  <2>1. row'[d] = AbandonOwned(row[d], boot) /\ row[d] \in Rows
    BY <1>7 DEF Core, Parts
  <2> QED
    BY <1>6, <2>1 DEF AbandonOwned, Orphan, Rows
<1>8. ClaimsKept'
  <2>1. CASE row' = [d \in Deliveries |-> AbandonOwned(row[d], boot)]
    BY <1>7, <2>1 DEF ClaimsKept
  <2>2. CASE UNCHANGED row /\ Fail
    <3> SUFFICES ASSUME NEW d \in Deliveries, row[d].claim # NoClaim
                 PROVE  /\ row[d].state = "pending" /\ row[d].claim.boot <= boot
                        /\ \E h \in Coordinators :
                             Keeping(h, d, chain[h], row[d], observed[h][d], faults)'
      BY <1>1, <2>2 DEF ClaimsKept
    <3>1. PICK h \in Coordinators : Keeping(h, d, chain[h], row[d], observed[h][d], faults)
      BY <1>6
    <3>2. chain[h].at # "idle" /\ chain[h].d = d /\ row[d].claim = ClaimBy(h, chain[h].id)
      BY <1>2, <2>2, <3>1 DEF Keeping
    <3>3. Keeping(h, d, chain[h], row[d], observed[h][d], faults)'
      BY <1>1, <1>4, <2>2, <3>2 DEF Keeping, ClaimBy
    <3> QED
      BY <3>3 DEF Holding, Holds, ClaimsKept
  <2> QED
    BY <1>1, <2>1, <2>2
<1>9. ASSUME NEW h \in Coordinators
      PROVE  Standing(h, chain[h], row[D(h)], observed[h][D(h)], faults)'
  <2>1. CASE row' = [d \in Deliveries |-> AbandonOwned(row[d], boot)]
    <3> SUFFICES ASSUME ~At(h, "idle"), row'[D(h)].claim = MyClaim(h) PROVE FALSE
      BY <1>1, <1>4 DEF Standing, At, D, MyClaim, ClaimBy
    <3>1. D(h) \in Deliveries /\ worker[h].boot \in Boots /\ chain[h].id \in ClaimIds \cup {NoId}
      BY Underway DEF Chains
    <3>2. MyClaim(h) # NoClaim
      BY <3>1, RowAssumption, DeliveryAssumption DEF MyClaim, ClaimBy, Claims
    <3> QED
      BY <1>7, <2>1, <3>1, <3>2
  <2>2. CASE UNCHANGED row /\ Fail
    <3>1. Standing(h, chain[h], row[D(h)], observed[h][D(h)], faults)
      BY DEF Holding, Holds
    <3> QED
      BY <1>1, <1>2, <1>4, <2>2, <3>1 DEF Standing, ClaimBy, D
  <2> QED
    BY <1>1, <2>1, <2>2
<1>10. ASSUME NEW h \in Coordinators PROVE Alive(h)'
  <2>1. Alive(h)
    BY DEF Holding, Holds
  <2>2. ~At(h, "idle") => D(h) \in Deliveries
    BY Underway
  <2>3. ~At(h, "idle") => observed'[h][D(h)] \in {observed[h][D(h)], NoSettlement}
    BY <1>3, <2>2
  <2> QED
    BY <1>1, <1>4, <2>1, <2>3 DEF Alive, At, D, NoSettlement
<1> QED
  BY <1>8, <1>9, <1>10 DEF Holds

\* After a crash every claim is of a process that is gone.
LEMMA CrashHolds ==
  ASSUME Core, Holding, Crash
  PROVE  Holds'
<1>1. /\ boot' = boot + 1 /\ boot \in Nat
      /\ \A g \in Coordinators : chain'[g] = IdleChain /\ ~Started(g)'
      /\ UNCHANGED <<row, faults>>
  BY DeliveryAssumption DEF Crash, store, budget, Started, Core, Parts, Workers, Holding
<1>2. IdleChain.at = "idle"
  BY DEF IdleChain
<1>3. ASSUME NEW d \in Deliveries, row[d].claim # NoClaim
      PROVE  /\ row[d].state = "pending" /\ row[d].claim.boot <= boot
             /\ row[d].claim.boot \in Nat
  BY <1>3, DeliveryAssumption DEF Holding, Holds, ClaimsKept, Core, Parts, Rows, Claims
<1>4. ClaimsKept'
  BY <1>1, <1>3 DEF ClaimsKept
<1>5. \A g \in Coordinators :
        Standing(g, chain[g], row[D(g)], observed[g][D(g)], faults)' /\ Alive(g)'
  BY <1>1, <1>2 DEF Standing, Alive, At
<1> QED
  BY <1>4, <1>5 DEF Holds

LEMMA InitHolds == Init => HoldInv
<1> SUFFICES ASSUME Init PROVE Holds
  BY DEF HoldInv
<1>1. /\ \A d \in Deliveries : row[d].claim = NoClaim
      /\ \A g \in Coordinators : chain[g].at = "idle" /\ ~Started(g)
  BY DEF Init, NoDelivery, IdleChain, Started
<1> QED
  BY <1>1 DEF Holds, ClaimsKept, Standing, Alive, At

\* As long as at most one write has failed, every step strands no claim.
LEMMA NextHolds ==
  ASSUME IInv, HoldInv, [Next]_vars
  PROVE  HoldInv'
<1> SUFFICES ASSUME faults' <= 1 PROVE Holds'
  BY DEF HoldInv
<1>1. Core /\ Holding /\ SchedulingTyped
  <2>1. BudgetTyped /\ boot \in Boots /\ Core /\ SchedulingTyped
    BY DEF IInv, Rest
  <2>2. faults \in Nat /\ faults' \in Nat /\ faults' >= faults
    BY <2>1, FaultsStay DEF BudgetTyped
  <2> QED
    BY <2>1, <2>2 DEF HoldInv, Holding
<1>2. ASSUME NEW g \in Coordinators, Steps(g) PROVE Holds'
  BY <1>1, <1>2, BeginHolds, WalksHold, SettlingHolds, DecisionsHold, BeginTurnHolds,
     ClaimHolds, PrepareHolds, StartPromptHolds DEF Steps, ChainStep
<1>3. CASE UNCHANGED <<row, chain, observed, worker, boot, faults>>
  BY <1>1, <1>3, IdleHolds DEF Holding
<1>4. CASE \/ UNCHANGED vars \/ Save \/ OfferUserTurn
           \/ \E g \in Coordinators : Wake(g) \/ BeginUserTurn(g) \/ EndUserTurn(g)
  BY <1>3, <1>4 DEF vars, Save, OfferUserTurn, Wake, BeginUserTurn, EndUserTurn, store,
     history, process, budget
<1>5. ASSUME NEW g \in Coordinators, Start(g) \/ Stop(g) PROVE Holds'
  BY <1>1, <1>5, StartHolds, StopHolds
<1>6. ASSUME NEW d \in Deliveries, FinishOperation(d) PROVE Holds'
  BY <1>1, <1>6, FinishOperationHolds
<1>7. CASE Crash
  BY <1>1, <1>7, CrashHolds
<1> QED
  BY <1>2, <1>4, <1>5, <1>6, <1>7 DEF Next, Steady, Steps

\* As long as at most one write has failed, no claim is stranded, whatever coordinators
\* are stopped, replaced or killed.
THEOREM NoClaimStranded == Spec => [](faults <= 1 => NoStrandedClaim)
<1>1. Init => HoldInv
  BY InitHolds
<1>2. IInv /\ HoldInv /\ [Next]_vars => HoldInv'
  BY NextHolds
<1>3. HoldInv => (faults <= 1 => NoStrandedClaim)
  <2> SUFFICES ASSUME Holds PROVE NoStrandedClaim
    BY DEF HoldInv
  <2> SUFFICES ASSUME NEW d \in Deliveries, row[d].claim # NoClaim
               PROVE  \/ \E g \in Coordinators :
                           \/ ~At(g, "idle") /\ D(g) = d /\ row[d].claim = MyClaim(g)
                           \/ Started(g) /\ row[d].claim = ClaimBy(g, observed[g][d].id)
                      \/ row[d].claim.boot # boot /\ ~\E g \in Coordinators : Started(g)
    BY DEF NoStrandedClaim
  <2> QED
    BY DEF Holds, ClaimsKept, Keeping, At, D, MyClaim
<1> QED
  BY <1>1, <1>2, <1>3, DeliveryInvariant, PTL DEF Spec
=============================================================================
