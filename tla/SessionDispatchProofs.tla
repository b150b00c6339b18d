------------------------- MODULE SessionDispatchProofs -------------------------
(***************************************************************************)
(* Proofs about SessionDispatch: one life of the daemon prompts a turn at  *)
(* most once, an answer is final, and a turn that has run is not accused,  *)
(* for any number of turns, offers, faults and crashes.                    *)
(*                                                                         *)
(* A turn that was prompted has ended, or is the one that runs.  So the    *)
(* places where a check commits itself to a turn only have to show that it *)
(* has not ended; a claim that is left in the metadata, which overrides    *)
(* the other signs, is the claim of a turn this life has not prompted.     *)
(***************************************************************************)
EXTENDS SessionDispatch, TLAPS

\* The check has chosen its turn, and the agent has not been asked.
Committed == {"dispatch", "access", "open", "claim", "prompt"}
\* The agent may have been asked, and the turn's status is not written, or is to be
\* written again by a run that failed late.
Asked == {"agent", "finalize", "record"}

\* A check that has chosen a turn has one.
HasTurn == check.stage \in Running \cup {"dispatch"} => check.turn \in Turns

\* A turn that is chosen has not been prompted, and ...
Unprompted == check.stage \in Committed => prompted[check.turn] = 0
\* ... past the check of the marker it is not one that was reported missing.
NotMissing == check.stage \in Committed \ {"dispatch"} => check.turn # meta.missing

\* A run that is about to record its failure.
FailsToRecord == check.stage = "record" /\ check.outcome = "failed"

\* While a turn that is not refused runs and has not failed, nobody ends its entry.
Unanswered ==
  check.stage \in Committed \cup Asked /\ check.turn \notin refused /\ ~FailsToRecord =>
    entry[check.turn] \notin Terminal

\* A refused turn is never claimed or run, so that it can only fail.
RefusedOnlyFail ==
  /\ \A t \in refused :
       /\ entry[t] # "handled" /\ unwritten[t] # "handled" /\ t \notin ended
       /\ prompted[t] = 0 /\ meta.processing # t
  /\ check.stage \in {"open", "claim", "prompt", "agent", "finalize", "clean"} =>
       check.turn \notin refused
  /\ check.stage \in {"record", "publish"} =>
       (check.turn \in refused <=> check.outcome = "denied")
  /\ denying # 0 => denying \in refused /\ HasEnded(denying)

\* What was prompted has ended or still runs.
PromptedEnds ==
  \A t \in Turns :
    /\ prompted[t] <= 1
    /\ prompted[t] > 0 => HasEnded(t) \/ (check.turn = t /\ check.stage \in Asked)

\* The claim that is left in the metadata is that of the turn that runs, or of one
\* that this life has not prompted, ...
ClaimIsFresh ==
  \A t \in Turns :
    meta.processing = t /\ prompted[t] > 0 =>
      check.turn = t /\ check.stage \in Asked \cup {"publish"}
\* ... which the check that looks at it saw, too.
SeenIsFresh ==
  check.stage \in Probing => \A t \in Turns : check.seen.processing = t => prompted[t] = 0

\* A turn that ran is the one that was handled last, or another has ended.
HandledOrOther ==
  /\ \A t \in Turns :
       prompted[t] > 0 =>
         \/ check.turn = t /\ check.stage \in Asked \cup {"publish"}
         \/ meta.handled = t
         \/ \E u \in Turns \ {t} : HasEnded(u)
  /\ check.stage = "publish" => HasEnded(check.turn)

IInv ==
  /\ TypeOK
  /\ HasTurn
  /\ Unprompted
  /\ NotMissing
  /\ Unanswered
  /\ RefusedOnlyFail
  /\ PromptedEnds
  /\ ClaimIsFresh
  /\ SeenIsFresh
  /\ HandledOrOther
  /\ RunIsNotAccused

Same == UNCHANGED <<check.stage, check.turn, check.outcome, check.seen>>
Shown == UNCHANGED <<meta.processing, meta.handled, meta.missing>>
Stored == <<refused, entry, unwritten, ended, prompted, denying>>

\* The numbers of turns and the bounds.
LEMMA Numbers ==
  /\ LastTurn \in Nat /\ MaxOffers \in Nat /\ MaxFaults \in Nat /\ MaxCrashes \in Nat
  /\ Turns \subseteq 0..LastTurn /\ 0 \in 0..LastTurn /\ 0 \notin Turns
  /\ 0 \in 0..MaxOffers /\ 0..LastTurn = Turns \cup {0}
  /\ Refusable \subseteq Turns
BY BoundsAssumption DEF Turns

\* A check that goes on to another stage keeps its turn, outcome and what it saw.
LEMMA GoesTo ==
  ASSUME check \in Checks, NEW s \in Stages, Goes(s)
  PROVE  /\ check' \in Checks /\ check'.stage = s
         /\ UNCHANGED <<check.turn, check.outcome, check.seen>>
BY DEF Checks, Goes

\* A check that ends leaves the idle record.
LEMMA EndsIdle ==
  ASSUME CheckEnds
  PROVE  check' \in Checks /\ check'.stage = "idle"
BY Numbers DEF CheckEnds, Checks, Idle, NoMeta, Metas, Stages, Outcomes

\* A waiting check that is to look again is otherwise the same.
LEMMA LooksAgain ==
  ASSUME check \in Checks, LookAgain
  PROVE  check' \in Checks /\ Same
BY DEF Checks, LookAgain, Same

\* Overtaken turns are turns.
LEMMA OvertakenTurns ==
  ASSUME TypeOK, NEW t
  PROVE  Overtaken(t) \subseteq Turns
BY Numbers DEF TypeOK, Overtaken, Turns

\* What steps that end, start or only look for a turn leave alone.
LEMMA QuietKeeps ==
  ASSUME IInv, TypeOK',
         UNCHANGED <<refused, entry, unwritten, ended, prompted, denying, meta.handled>>,
         meta'.processing \in {0, meta.processing}, meta'.missing \in {0, meta.missing},
         \/ Same
         \/ check.stage \notin Asked \cup {"publish"} /\ check'.stage \in {"idle", "missing"}
         \/ /\ check.stage \in Probing \cup {"idle"} /\ check'.stage \in Probing
            /\ \/ check'.seen.processing = meta.processing
               \/ check.stage \in Probing /\ check'.seen = check.seen
  PROVE  IInv'
<1> USE Numbers DEF IInv
<1>1. HasTurn' /\ Unprompted' /\ NotMissing' /\ Unanswered'
  BY DEF HasTurn, Unprompted, NotMissing, Unanswered, FailsToRecord, Same, Committed, Asked,
     Running, Probing
<1>2. RefusedOnlyFail'
  BY DEF TypeOK, RefusedOnlyFail, Same, HasEnded, Probing
<1>3. PromptedEnds'
  BY DEF PromptedEnds, Same, HasEnded, Asked, Probing
<1>4. ClaimIsFresh'
  BY DEF ClaimIsFresh, Same, Asked, Probing
<1>5. SeenIsFresh'
  BY DEF TypeOK, SeenIsFresh, ClaimIsFresh, Same, Asked, Probing
<1>6. HandledOrOther'
  BY DEF HandledOrOther, Same, HasEnded, Asked, Probing
<1>7. RunIsNotAccused'
  BY DEF RunIsNotAccused, HasEnded
<1> QED BY <1>1, <1>2, <1>3, <1>4, <1>5, <1>6, <1>7

\* getPendingUserTurnActivationId gives the claim or the newest pointer, and the latter only
\* if it is not the turn handled last.
LEMMA PendingIs ==
  ASSUME NEW m \in Metas
  PROVE  /\ Pending(m) \in 0..LastTurn
         /\ Pending(m) # 0 => \/ Pending(m) = m.processing
                              \/ Pending(m) = m.latest /\ m.latest # m.handled
<1>1. CASE m.processing \notin {0, m.missing, m.settled}
  <2>1. Pending(m) = m.processing
    BY <1>1 DEF Pending
  <2>2. m.processing \in 0..LastTurn
    BY DEF Metas
  <2> QED
    BY <2>1, <2>2
<1>2. CASE /\ m.processing \in {0, m.missing, m.settled}
           /\ m.latest \notin {0, m.handled, m.missing, m.settled}
  BY <1>2 DEF Pending, Metas
<1>3. CASE /\ m.processing \in {0, m.missing, m.settled}
           /\ m.latest \in {0, m.handled, m.missing, m.settled}
  BY <1>3, Numbers DEF Pending
<1> QED
  BY <1>1, <1>2, <1>3

\* A peer's send changes nothing on the machine.
LEMMA SendKeeps ==
  ASSUME IInv, Send
  PROVE  IInv'
<1>1. /\ UNCHANGED <<check, meta, bounds>>
      /\ UNCHANGED Stored
  BY Numbers DEF IInv, TypeOK, Send, Stored, replica, memory, ghosts
<1>2. TypeOK'
  BY <1>1, Numbers DEF IInv, TypeOK, Terminal, Dispatchable, Send, replica, memory, triggers,
     ghosts, Stored
<1> QED
  BY <1>1, <1>2, QuietKeeps DEF Same, Probing, Asked, Stored

\* A late entry is pending: it has not ended, and nothing refers to it as ended.
LEMMA EntryArrivesKeeps ==
  ASSUME IInv, NEW t \in Turns, EntryArrives(t)
  PROVE  IInv'
<1>1. /\ check' \in Checks /\ Same /\ UNCHANGED <<meta, bounds>>
      /\ entry[t] = "absent" /\ entry' = [entry EXCEPT ![t] = "pending"]
      /\ UNCHANGED <<refused, unwritten, ended, prompted, denying>>
  BY Numbers, LooksAgain DEF IInv, TypeOK, EntryArrives, memory, ghosts
<1>2. TypeOK'
  BY <1>1, Numbers DEF IInv, TypeOK, Terminal, Dispatchable, EntryArrives, HistoryAsks, memory,
     ghosts
<1> USE <1>1, <1>2, Numbers
        DEF IInv, TypeOK, HasTurn, Running, Committed, Asked, Terminal, Dispatchable
<1>3. HasTurn' /\ Unprompted' /\ NotMissing' /\ Unanswered'
  BY DEF Same, Unprompted, NotMissing, Unanswered, FailsToRecord
<1>4. RefusedOnlyFail'
  BY DEF Same, HasEnded, RefusedOnlyFail
<1>5. PromptedEnds'
  BY DEF Same, HasEnded, Unprompted, PromptedEnds
<1>6. ClaimIsFresh' /\ SeenIsFresh'
  BY DEF Same, Probing, Unprompted, ClaimIsFresh, SeenIsFresh
<1>7. HandledOrOther'
  BY DEF Same, HasEnded, Unprompted, HandledOrOther
<1>8. RunIsNotAccused'
  BY DEF Same, HasEnded, NotMissing, RunIsNotAccused
<1> QED BY <1>2, <1>3, <1>4, <1>5, <1>6, <1>7, <1>8 DEF IInv

\* A pointer may clear the missing marker, and sets nothing else that is spoken of.
LEMMA PointerArrivesKeeps ==
  ASSUME IInv, NEW t \in Turns, PointerArrives(t)
  PROVE  IInv'
<1>1. /\ meta' \in Metas /\ UNCHANGED <<meta.processing, meta.handled>>
      /\ meta'.missing \in {0, meta.missing} /\ UNCHANGED <<check, bounds>>
      /\ UNCHANGED Stored
  BY Numbers DEF IInv, TypeOK, PointerArrives, SetMeta, Metas, Stored, memory, ghosts
<1>2. TypeOK'
  BY <1>1, Numbers DEF IInv, TypeOK, Terminal, Dispatchable, PointerArrives, SetMeta, Metas,
     memory, ghosts, Stored
<1> QED
  BY <1>1, <1>2, QuietKeeps DEF Same, Probing, Asked, Stored

\* An offer only enters the stash.
LEMMA OfferTurnKeeps ==
  ASSUME IInv, NEW t \in Turns, OfferTurn(t)
  PROVE  IInv'
<1>1. /\ check' \in Checks /\ Same /\ UNCHANGED meta
      /\ bounds' \in Bounds /\ bounds'.offers \in 0..MaxOffers
      /\ UNCHANGED Stored
  BY Numbers, LooksAgain DEF IInv, TypeOK, OfferTurn, Bounds, Stored, replica, ghosts
<1>2. TypeOK'
  BY <1>1, Numbers DEF IInv, TypeOK, Terminal, Dispatchable, OfferTurn, Bounds, replica, ghosts,
     Stored
<1> QED
  BY <1>1, <1>2, QuietKeeps DEF Same, Probing, Asked, Stored

\* An offer that expires only leaves the stash.
LEMMA OfferExpiresKeeps ==
  ASSUME IInv, NEW t \in Turns, OfferExpires(t)
  PROVE  IInv'
<1>1. /\ UNCHANGED <<check, meta>> /\ bounds' \in Bounds
      /\ UNCHANGED Stored
  BY Numbers DEF IInv, TypeOK, OfferExpires, Fault, Bounds, Stored, replica, ghosts
<1>2. TypeOK'
  BY <1>1, Numbers DEF IInv, TypeOK, Terminal, Dispatchable, OfferExpires, Without, replica,
     triggers, ghosts, Stored
<1> QED
  BY <1>1, <1>2, QuietKeeps DEF Same, Probing, Asked, Stored

\* reconcileSessionWatch changes triggers only.
LEMMA ReconcileKeeps ==
  ASSUME IInv, Reconcile
  PROVE  IInv'
<1>1. /\ UNCHANGED <<check, meta, bounds>>
      /\ UNCHANGED Stored
  BY Numbers DEF IInv, TypeOK, Reconcile, Stored, replica, ghosts
<1>2. TypeOK'
  <2>1. NeedsWatch \in BOOLEAN
    BY Zenon DEF NeedsWatch
  <2>2. CASE NeedsWatch
    <3>1. /\ queued' = (queued \/ check.stage = "idle")
          /\ draining' = (check.stage \in Probing \cup {"idle"})
          /\ UNCHANGED retry
      BY <2>2 DEF Reconcile
    <3>2. queued' \in BOOLEAN /\ draining' \in BOOLEAN
      BY <3>1
    <3> QED
      BY <1>1, <2>1, <3>1, <3>2 DEF IInv, replica, ghosts, TypeOK, Reconcile
  <2>3. CASE ~NeedsWatch
    BY <1>1, <2>1, <2>3, Numbers DEF IInv, replica, ghosts, TypeOK, Reconcile
  <2> QED
    BY <2>2, <2>3
<1> QED
  BY <1>1, <1>2, QuietKeeps DEF Same, Probing, Asked, Stored

\* A check starts from the metadata of this moment, whose claim is fresh.
LEMMA StartCheckKeeps ==
  ASSUME IInv, StartCheck
  PROVE  IInv'
<1>1. /\ check.stage = "idle" /\ check' \in Checks /\ check'.stage = "read"
      /\ check'.seen = meta' /\ meta' \in Metas /\ Shown /\ UNCHANGED bounds
      /\ UNCHANGED Stored
  BY Numbers DEF IInv, TypeOK, StartCheck, SetMeta, Metas, Checks, Idle, Stages, Probing,
     Outcomes, Shown, Stored, memory, ghosts
<1>2. TypeOK'
  BY <1>1, Numbers DEF IInv, TypeOK, Terminal, Dispatchable, StartCheck, SetMeta, memory, ghosts,
     Stored
<1> QED
  BY <1>1, <1>2, QuietKeeps DEF Same, Shown, Probing, Asked, Stored

\* A repaired entry has ended; what it ends with is in memory, or on the replica.
LEMMA RepairKeeps ==
  ASSUME IInv, NEW t \in Turns, Repair(t)
  PROVE  IInv'
<1>1. /\ UNCHANGED <<check, meta, bounds, refused, ended, prompted, denying>>
      /\ check.stage \in {"read", "wait"} /\ entry[t] \in Dispatchable
      /\ \E status \in Terminal :
           /\ t \in refused => status = "failed"
           /\ entry' = [entry EXCEPT ![t] = status]
      /\ unwritten' = [unwritten EXCEPT ![t] = "none"]
  BY Numbers DEF IInv, TypeOK, Repair, NextDispatchable, Candidates, Looking, RepairStatus,
     Terminal, RefusedOnlyFail, ghosts
<1>2. TypeOK'
  BY <1>1, Numbers DEF IInv, TypeOK, Terminal, Dispatchable, Repair, Without, HistoryAsks, ghosts
<1> USE <1>1, <1>2, Numbers
        DEF IInv, TypeOK, HasTurn, Running, Committed, Asked, Terminal, Dispatchable
<1>3. HasTurn' /\ Unprompted' /\ NotMissing' /\ Unanswered'
  BY DEF Unprompted, NotMissing, Unanswered, FailsToRecord
<1>4. RefusedOnlyFail'
  BY DEF HasEnded, RefusedOnlyFail
<1>5. PromptedEnds'
  BY DEF HasEnded, Unprompted, PromptedEnds
<1>6. ClaimIsFresh' /\ SeenIsFresh'
  BY DEF Probing, Unprompted, ClaimIsFresh, SeenIsFresh
<1>7. HandledOrOther'
  BY DEF HasEnded, Unprompted, HandledOrOther
<1>8. RunIsNotAccused'
  BY DEF HasEnded, NotMissing, RunIsNotAccused
<1> QED BY <1>2, <1>3, <1>4, <1>5, <1>6, <1>7, <1>8 DEF IInv

\* The entry that is found has not been prompted: it would have ended, and the claim the check
\* saw, which overrides the signs of that, is fresh.
LEMMA FindEntryKeeps ==
  ASSUME IInv, NEW t \in Turns, FindEntry(t)
  PROVE  IInv'
<1>1. /\ check.stage \in {"read", "wait"} /\ entry[t] \in Dispatchable
      /\ check.seen.processing # t => unwritten[t] = "none"
      /\ check' \in Checks /\ check'.stage = "dispatch" /\ check'.turn = t
      /\ UNCHANGED <<meta, bounds>>
      /\ UNCHANGED Stored
  BY Numbers DEF IInv, TypeOK, FindEntry, TurnFound, NextDispatchable, Candidates, Looking,
     RepairStatus, Terminal, Checks, Idle, NoMeta, Metas, Stages, Outcomes, Stored, replica
<1>2. TypeOK'
  <2>1. lost' \subseteq Turns
    BY OvertakenTurns DEF IInv, TypeOK, FindEntry, TurnFound
  <2> QED
    BY <1>1, <2>1, Numbers DEF IInv, replica, TypeOK, FindEntry, TurnFound, Without, ProbeEnds
<1> USE <1>1, <1>2, Numbers
        DEF IInv, TypeOK, HasTurn, Running, Committed, Asked, Terminal, Dispatchable
<1>3. HasTurn' /\ Unprompted' /\ NotMissing' /\ Unanswered'
  <2>1. prompted[t] = 0
    BY <1>1 DEF IInv, TypeOK, PromptedEnds, SeenIsFresh, HasEnded, Asked, Probing, Terminal,
       Dispatchable
  <2> QED
    BY <1>1, <2>1 DEF IInv, FindEntry, TurnFound, replica, HasTurn, Unprompted, NotMissing,
       Unanswered, FailsToRecord, Committed, Asked, Terminal, Dispatchable
<1>4. RefusedOnlyFail'
  BY DEF Stored, HasEnded, RefusedOnlyFail
<1>5. PromptedEnds'
  BY DEF Stored, HasEnded, Unprompted, PromptedEnds
<1>6. ClaimIsFresh' /\ SeenIsFresh'
  BY DEF Stored, Probing, Unprompted, ClaimIsFresh, SeenIsFresh
<1>7. HandledOrOther'
  BY DEF Stored, HasEnded, Unprompted, HandledOrOther
<1>8. RunIsNotAccused'
  BY DEF Stored, HasEnded, NotMissing, RunIsNotAccused
<1> QED BY <1>2, <1>3, <1>4, <1>5, <1>6, <1>7, <1>8 DEF IInv

\* The offer that is found has not been prompted: it would have ended.
LEMMA FindOfferKeeps ==
  ASSUME IInv, NEW t \in Turns, FindOffer(t)
  PROVE  IInv'
<1>1. /\ check.stage \in {"read", "wait"} /\ entry[t] \notin Terminal /\ unwritten[t] = "none"
      /\ check' \in Checks /\ check'.stage = "dispatch" /\ check'.turn = t
      /\ UNCHANGED <<meta, bounds>>
      /\ UNCHANGED Stored
  BY Numbers DEF IInv, TypeOK, FindOffer, TurnFound, Peeked, Peekable, OfferIsOver,
     AwaitsHistory, Looking, Terminal, Checks, Idle, NoMeta, Metas, Stages, Outcomes, Stored,
     replica
<1>2. TypeOK'
  <2>1. lost' \subseteq Turns
    BY OvertakenTurns DEF IInv, TypeOK, FindOffer, TurnFound
  <2> QED
    BY <1>1, <2>1, Numbers DEF IInv, replica, TypeOK, FindOffer, TurnFound, PeekedStash, ProbeEnds
<1> USE <1>1, <1>2, Numbers
        DEF IInv, TypeOK, HasTurn, Running, Committed, Asked, Terminal, Dispatchable
<1>3. HasTurn' /\ Unprompted' /\ NotMissing' /\ Unanswered'
  <2>1. prompted[t] = 0
    BY <1>1 DEF IInv, TypeOK, PromptedEnds, HasEnded, Asked
  <2> QED
    BY <1>1, <2>1 DEF IInv, FindOffer, TurnFound, replica, HasTurn, Unprompted, NotMissing,
       Unanswered, FailsToRecord, Committed, Asked
<1>4. RefusedOnlyFail'
  BY DEF Stored, HasEnded, RefusedOnlyFail
<1>5. PromptedEnds'
  BY DEF Stored, HasEnded, Unprompted, PromptedEnds
<1>6. ClaimIsFresh' /\ SeenIsFresh'
  BY DEF Stored, Probing, Unprompted, ClaimIsFresh, SeenIsFresh
<1>7. HandledOrOther'
  BY DEF Stored, HasEnded, Unprompted, HandledOrOther
<1>8. RunIsNotAccused'
  BY DEF Stored, HasEnded, NotMissing, RunIsNotAccused
<1> QED BY <1>2, <1>3, <1>4, <1>5, <1>6, <1>7, <1>8 DEF IInv

\* A look that finds nothing goes on waiting, or gives up.
LEMMA FindNothingKeeps ==
  ASSUME IInv, FindNothing
  PROVE  IInv'
<1>1. /\ check.stage \in {"read", "wait"} /\ check' \in Checks
      /\ check'.stage \in {"idle", "settle", "wait", "missing"}
      /\ check'.stage # "idle" => check'.seen = check.seen
      /\ UNCHANGED <<meta, bounds>>
      /\ UNCHANGED Stored
  <2>1. UNCHANGED <<meta, bounds>> /\ UNCHANGED Stored
    BY DEF FindNothing, Stored, replica, ghosts
  <2> QED
    BY <2>1, EndsIdle DEF IInv, TypeOK, FindNothing, Goes, Looking, Checks, Stages, Probing
<1>2. TypeOK'
  BY <1>1, Numbers DEF IInv, TypeOK, Terminal, Dispatchable, FindNothing, PeekedStash, ProbeEnds,
     replica, ghosts, Stored
<1> QED
  BY <1>1, <1>2, QuietKeeps DEF Same, Probing, Asked, Stored

\* settleTerminalActivation may drop the claim and keeps the other marks.
LEMMA SettleKeeps ==
  ASSUME IInv, Settle
  PROVE  IInv'
<1>1. /\ meta' \in Metas /\ meta'.processing \in {0, meta.processing}
      /\ UNCHANGED <<meta.handled, meta.missing>>
      /\ check.stage = "settle" /\ check' \in Checks
      /\ check'.stage \in {"wait", "missing"} /\ check'.seen = check.seen
      /\ UNCHANGED bounds
      /\ UNCHANGED Stored
  <2>1. PICK t : t = Pending(check.seen)
    OBVIOUS
  <2>2. PICK m : m = [meta EXCEPT !.processing = IF @ = t THEN 0 ELSE @,
                                  !.settled = IF meta.latest = t THEN t ELSE @]
    OBVIOUS
  <2>3. t \in 0..LastTurn
    BY <2>1, PendingIs DEF IInv, TypeOK, Checks
  <2>4. /\ m \in Metas /\ m.processing \in {0, meta.processing}
        /\ m.handled = meta.handled /\ m.missing = meta.missing
    BY <2>2, <2>3, Numbers DEF IInv, TypeOK, Metas
  <2>5. meta' = m /\ check.stage = "settle" /\ UNCHANGED bounds
    BY <2>1, <2>2 DEF Settle, SetMeta
  <2>6. \/ Goes("missing")
        \/ check' = [check EXCEPT !.stage = "wait", !.recheck = TRUE]
    BY DEF Settle
  <2>7. check' \in Checks /\ check'.stage \in {"wait", "missing"} /\ check'.seen = check.seen
    BY <2>6 DEF IInv, TypeOK, Goes, Checks, Stages, Probing
  <2> QED
    BY <2>4, <2>5, <2>7 DEF Settle, Stored, memory, ghosts
<1>2. TypeOK'
  BY <1>1, Numbers DEF IInv, TypeOK, Terminal, Dispatchable, Settle, ProbeEnds, SetMeta, memory,
     ghosts, Stored
<1> QED
  BY <1>1, <1>2, QuietKeeps DEF Same, Probing, Asked, Stored

\* A wait that reads the metadata again sees the claim of this moment.
LEMMA WaitSyncedKeeps ==
  ASSUME IInv, WaitSynced
  PROVE  IInv'
<1>1. /\ check.stage = "wait" /\ check' \in Checks /\ check'.stage = "wait"
      /\ check'.seen.processing = meta.processing
      /\ UNCHANGED <<meta, bounds>>
      /\ UNCHANGED Stored
  <2>1. PICK m : m = [meta EXCEPT !.active = FALSE]
    OBVIOUS
  <2>2. m \in Metas /\ m.processing = meta.processing
    BY <2>1 DEF IInv, TypeOK, Metas
  <2>3. check' = [check EXCEPT !.synced = TRUE, !.recheck = TRUE, !.seen = m,
                               !.leave = Pending(meta) = 0]
    BY <2>1 DEF WaitSynced
  <2>4. check' \in Checks /\ check'.stage = check.stage /\ check'.seen = m
    BY <2>2, <2>3 DEF IInv, TypeOK, Checks
  <2> QED
    BY <2>2, <2>4 DEF WaitSynced, replica, Stored, memory, ghosts
<1>2. TypeOK'
  BY <1>1, Numbers DEF IInv, TypeOK, Terminal, Dispatchable, WaitSynced, replica, memory,
     triggers, ghosts, Stored
<1> QED
  BY <1>1, <1>2, QuietKeeps DEF Same, Probing, Asked, Stored

\* The timer only moves the check on.
LEMMA WaitTimeoutKeeps ==
  ASSUME IInv, WaitTimeout
  PROVE  IInv'
<1>1. /\ check.stage = "wait" /\ check' \in Checks /\ check'.stage = "missing"
      /\ UNCHANGED <<meta, bounds>>
      /\ UNCHANGED Stored
  BY Numbers, GoesTo DEF IInv, TypeOK, WaitTimeout, Stages, Stored, replica, memory, ghosts
<1>2. TypeOK'
  BY <1>1, Numbers DEF IInv, TypeOK, Terminal, Dispatchable, WaitTimeout, ProbeEnds, replica,
     memory, ghosts, Stored
<1> QED
  BY <1>1, <1>2, QuietKeeps DEF Same, Probing, Asked, Stored

\* The recovery accuses the claim, which is fresh, or a pointer other than the turn handled last.
LEMMA MarkMissingKeeps ==
  ASSUME IInv, MarkMissing
  PROVE  IInv'
<1>1. /\ check.stage = "missing" /\ check' \in Checks /\ check'.stage = "idle"
      /\ meta' \in Metas /\ UNCHANGED <<meta.processing, meta.handled>>
      /\ \/ UNCHANGED meta.missing
         \/ meta'.missing = meta.processing
         \/ meta'.missing # meta.handled
      /\ UNCHANGED bounds
      /\ UNCHANGED Stored
  <2>1. PICK t : t = Pending(meta)
    OBVIOUS
  <2>2. /\ t \in 0..LastTurn
        /\ t # 0 => t = meta.processing \/ t # meta.handled
    BY <2>1, PendingIs DEF IInv, TypeOK
  <2>3. UNCHANGED meta \/ (t # 0 /\ meta' = [meta EXCEPT !.missing = t, !.active = FALSE])
    BY <2>1 DEF MarkMissing, SetMeta
  <2> QED
    BY <2>2, <2>3, EndsIdle DEF IInv, TypeOK, Metas, MarkMissing, Stored, memory
<1>2. TypeOK'
  <2>1. lost' \subseteq Turns
    <3>1. Pending(meta) \in 0..LastTurn
      BY PendingIs DEF IInv, TypeOK
    <3>2. Overtaken(Pending(meta)) \subseteq Turns
      BY OvertakenTurns DEF IInv
    <3> QED
      BY <3>1, <3>2, Numbers DEF IInv, TypeOK, MarkMissing
  <2> QED
    BY <1>1, <2>1 DEF IInv, TypeOK, MarkMissing, memory, SetMeta, HistoryAsks
<1> USE <1>1, <1>2, Numbers
        DEF IInv, TypeOK, HasTurn, Running, Committed, Asked, Terminal, Dispatchable
<1>3. HasTurn' /\ Unprompted' /\ NotMissing' /\ Unanswered'
  BY DEF Stored, Unprompted, NotMissing, Unanswered, FailsToRecord
<1>4. RefusedOnlyFail'
  BY DEF Stored, HasEnded, RefusedOnlyFail
<1>5. PromptedEnds'
  BY DEF Stored, HasEnded, Unprompted, PromptedEnds
<1>6. ClaimIsFresh' /\ SeenIsFresh'
  BY DEF Stored, Probing, Unprompted, ClaimIsFresh, SeenIsFresh
<1>7. HandledOrOther'
  BY DEF Stored, HasEnded, Unprompted, HandledOrOther
<1>8. RunIsNotAccused'
  BY <1>1, Numbers DEF IInv, TypeOK, MarkMissing, memory, RunIsNotAccused, ClaimIsFresh,
     HandledOrOther, HasEnded, Asked
<1> QED BY <1>2, <1>3, <1>4, <1>5, <1>6, <1>7, <1>8 DEF IInv

\* The marker is compared again before access is asked for.
LEMMA DispatchKeeps ==
  ASSUME IInv, Dispatch
  PROVE  IInv'
<1>1. /\ check.stage = "dispatch" /\ check' \in Checks
      /\ \/ check'.stage = "idle"
         \/ check'.stage = "access" /\ check'.turn = check.turn /\ check.turn # meta.missing
      /\ UNCHANGED <<meta, bounds>>
      /\ UNCHANGED Stored
  BY Numbers, EndsIdle, GoesTo DEF IInv, TypeOK, Dispatch, Stages, Running, Stays, Stored,
     replica, memory, ghosts
<1>2. TypeOK'
  BY <1>1, Numbers DEF IInv, TypeOK, Terminal, Dispatchable, Dispatch, Stays, replica, memory,
     triggers, ghosts, Stored
<1> USE <1>1, <1>2, Numbers
        DEF IInv, TypeOK, HasTurn, Running, Committed, Asked, Terminal, Dispatchable
<1>3. HasTurn' /\ Unprompted' /\ NotMissing' /\ Unanswered'
  BY DEF Stored, Unprompted, NotMissing, Unanswered, FailsToRecord
<1>4. RefusedOnlyFail'
  BY DEF Stored, HasEnded, RefusedOnlyFail
<1>5. PromptedEnds'
  BY DEF Stored, HasEnded, Unprompted, PromptedEnds
<1>6. ClaimIsFresh' /\ SeenIsFresh'
  BY DEF Stored, Probing, Unprompted, ClaimIsFresh, SeenIsFresh
<1>7. HandledOrOther'
  BY DEF Stored, HasEnded, Unprompted, HandledOrOther
<1>8. RunIsNotAccused'
  BY DEF Stored, HasEnded, NotMissing, RunIsNotAccused
<1> QED BY <1>2, <1>3, <1>4, <1>5, <1>6, <1>7, <1>8 DEF IInv

\* Past the access check the turn is not one that is refused.
LEMMA AccessAllowedKeeps ==
  ASSUME IInv, AccessAllowed
  PROVE  IInv'
<1>1. /\ check.stage = "access" /\ check' \in Checks
      /\ check'.stage = "open" /\ check'.turn = check.turn
      /\ check.turn \notin refused
      /\ UNCHANGED <<meta, bounds>>
      /\ UNCHANGED Stored
  BY Numbers, GoesTo DEF IInv, TypeOK, AccessAllowed, Stages, Running, Stays, Stored, replica,
     ghosts
<1>2. TypeOK'
  BY <1>1, Numbers DEF IInv, TypeOK, Terminal, Dispatchable, AccessAllowed, Stays, Without,
     replica, triggers, ghosts, Stored
<1> USE <1>1, <1>2, Numbers
        DEF IInv, TypeOK, HasTurn, Running, Committed, Asked, Terminal, Dispatchable
<1>3. HasTurn' /\ Unprompted' /\ NotMissing' /\ Unanswered'
  BY DEF Stored, Unprompted, NotMissing, Unanswered, FailsToRecord
<1>4. RefusedOnlyFail'
  BY DEF Stored, HasEnded, RefusedOnlyFail
<1>5. PromptedEnds'
  BY DEF Stored, HasEnded, Unprompted, PromptedEnds
<1>6. ClaimIsFresh' /\ SeenIsFresh'
  BY DEF Stored, Probing, Unprompted, ClaimIsFresh, SeenIsFresh
<1>7. HandledOrOther'
  BY DEF Stored, HasEnded, Unprompted, HandledOrOther
<1>8. RunIsNotAccused'
  BY DEF Stored, HasEnded, NotMissing, RunIsNotAccused
<1> QED BY <1>2, <1>3, <1>4, <1>5, <1>6, <1>7, <1>8 DEF IInv

\* A refused turn goes straight to its failure.
LEMMA AccessDeniedKeeps ==
  ASSUME IInv, AccessDenied
  PROVE  IInv'
<1>1. /\ check.stage = "access" /\ check' \in Checks
      /\ check'.stage = "record" /\ check'.turn = check.turn
      /\ check.turn \in refused /\ check'.outcome = "denied"
      /\ UNCHANGED <<meta, bounds>>
      /\ UNCHANGED Stored
  BY Numbers, GoesTo DEF IInv, TypeOK, AccessDenied, Stages, Running, Stays, Checks, Outcomes,
     Stored, replica, ghosts
<1>2. TypeOK'
  BY <1>1, Numbers DEF IInv, TypeOK, Terminal, Dispatchable, AccessDenied, Stays, replica,
     triggers, ghosts, Stored
<1> USE <1>1, <1>2, Numbers
        DEF IInv, TypeOK, HasTurn, Running, Committed, Asked, Terminal, Dispatchable
<1>3. HasTurn' /\ Unprompted' /\ NotMissing' /\ Unanswered'
  BY DEF Stored, Unprompted, NotMissing, Unanswered, FailsToRecord
<1>4. RefusedOnlyFail'
  BY DEF Stored, HasEnded, RefusedOnlyFail
<1>5. PromptedEnds'
  BY DEF Stored, HasEnded, Unprompted, PromptedEnds
<1>6. ClaimIsFresh' /\ SeenIsFresh'
  BY DEF Stored, Probing, Unprompted, ClaimIsFresh, SeenIsFresh
<1>7. HandledOrOther'
  BY DEF Stored, HasEnded, Unprompted, HandledOrOther
<1>8. RunIsNotAccused'
  BY DEF Stored, HasEnded, NotMissing, RunIsNotAccused
<1> QED BY <1>2, <1>3, <1>4, <1>5, <1>6, <1>7, <1>8 DEF IInv

\* An access that cannot be verified gives the turn back.
LEMMA AccessIndeterminateKeeps ==
  ASSUME IInv, AccessIndeterminate
  PROVE  IInv'
<1>1. /\ check.stage = "access" /\ check' \in Checks /\ check'.stage = "idle"
      /\ check.turn \in 0..LastTurn /\ bounds' \in Bounds /\ UNCHANGED meta
      /\ UNCHANGED Stored
  BY Numbers, EndsIdle DEF IInv, TypeOK, AccessIndeterminate, Stays, Fault, Bounds, Checks,
     Stored, replica, ghosts
<1>2. TypeOK'
  BY <1>1, Numbers DEF IInv, TypeOK, Terminal, Dispatchable, AccessIndeterminate, Stays, replica,
     triggers, ghosts, Stored
<1> QED
  BY <1>1, <1>2, QuietKeeps DEF Same, Probing, Asked, Stored

\* Reopening takes back endedAt; the turn's entry had not ended.
LEMMA OpenEntryKeeps ==
  ASSUME IInv, OpenEntry
  PROVE  IInv'
<1>1. /\ check.stage = "open" /\ check' \in Checks
      /\ check'.stage = "claim" /\ check'.turn = check.turn
      /\ entry' = [entry EXCEPT ![check.turn] = IF @ = "absent" THEN @ ELSE "processing"]
      /\ ended' = ended \ {check.turn}
      /\ UNCHANGED <<meta, bounds, refused, unwritten, prompted, denying>>
  BY Numbers, GoesTo DEF IInv, TypeOK, OpenEntry, Stages, Running, Stays, memory, ghosts
<1>2. TypeOK'
  <2>1. entry' \in [Turns -> {"absent"} \cup Dispatchable \cup Terminal]
    BY <1>1 DEF IInv, TypeOK, Dispatchable
  <2> QED
    BY <1>1, <2>1, Numbers DEF IInv, TypeOK, OpenEntry, HistoryAsks, memory, ghosts, Stays
<1> USE <1>1, <1>2, Numbers
        DEF IInv, TypeOK, HasTurn, Running, Committed, Asked, Terminal, Dispatchable
<1>3. HasTurn' /\ Unprompted' /\ NotMissing' /\ Unanswered'
  BY DEF Unprompted, NotMissing, Unanswered, FailsToRecord
<1>4. RefusedOnlyFail'
  BY DEF HasEnded, RefusedOnlyFail
<1>5. PromptedEnds'
  BY DEF HasEnded, Unprompted, PromptedEnds
<1>6. ClaimIsFresh' /\ SeenIsFresh'
  BY DEF Probing, Unprompted, ClaimIsFresh, SeenIsFresh
<1>7. HandledOrOther'
  <2>1. \A u \in Turns : HasEnded(u) => HasEnded(u)'
    BY <1>1 DEF IInv, TypeOK, OpenEntry, memory, HasEnded, Unanswered, FailsToRecord,
       RefusedOnlyFail, Committed
  <2> QED
    BY <1>1, <2>1 DEF IInv, OpenEntry, ghosts, HandledOrOther, Asked
<1>8. RunIsNotAccused'
  <2>1. \A u \in Turns : HasEnded(u) => HasEnded(u)'
    BY <1>1 DEF IInv, TypeOK, OpenEntry, memory, HasEnded, Unanswered, FailsToRecord,
       RefusedOnlyFail, Committed
  <2> QED
    BY <1>1, <2>1 DEF IInv, OpenEntry, ghosts, RunIsNotAccused
<1> QED BY <1>2, <1>3, <1>4, <1>5, <1>6, <1>7, <1>8 DEF IInv

\* The claim that is written is that of a turn not prompted.
LEMMA ClaimKeeps ==
  ASSUME IInv, Claim
  PROVE  IInv'
<1>1. /\ check.stage = "claim" /\ check' \in Checks
      /\ check'.stage = "prompt" /\ check'.turn = check.turn
      /\ meta' \in Metas /\ meta'.processing = check.turn
      /\ UNCHANGED <<meta.handled, meta.missing, bounds>>
      /\ UNCHANGED Stored
  BY Numbers, GoesTo DEF IInv, TypeOK, Claim, Stages, Running, Stays, SetMeta, Metas, Checks,
     Stored, memory, ghosts
<1>2. TypeOK'
  BY <1>1, Numbers DEF IInv, TypeOK, Terminal, Dispatchable, Claim, Stays, SetMeta, memory,
     ghosts, Stored
<1> USE <1>1, <1>2, Numbers
        DEF IInv, TypeOK, HasTurn, Running, Committed, Asked, Terminal, Dispatchable
<1>3. HasTurn' /\ Unprompted' /\ NotMissing' /\ Unanswered'
  BY DEF Stored, Unprompted, NotMissing, Unanswered, FailsToRecord
<1>4. RefusedOnlyFail'
  BY DEF Stored, HasEnded, RefusedOnlyFail
<1>5. PromptedEnds'
  BY DEF Stored, HasEnded, Unprompted, PromptedEnds
<1>6. ClaimIsFresh' /\ SeenIsFresh'
  BY DEF Stored, Probing, Unprompted, ClaimIsFresh, SeenIsFresh
<1>7. HandledOrOther'
  BY DEF Stored, HasEnded, Unprompted, HandledOrOther
<1>8. RunIsNotAccused'
  BY DEF Stored, HasEnded, NotMissing, RunIsNotAccused
<1> QED BY <1>2, <1>3, <1>4, <1>5, <1>6, <1>7, <1>8 DEF IInv

\* The prompt: the turn was at none, and goes to one.
LEMMA PromptKeeps ==
  ASSUME IInv, Prompt
  PROVE  IInv'
<1>1. /\ check.stage = "prompt" /\ check' \in Checks
      /\ check'.stage = "agent" /\ check'.turn = check.turn
      /\ check.turn \in Turns /\ prompted' = [prompted EXCEPT ![check.turn] = @ + 1]
      /\ meta' \in Metas /\ Shown
      /\ UNCHANGED <<bounds, refused, entry, unwritten, ended, denying>>
  BY Numbers, GoesTo DEF IInv, TypeOK, Prompt, Stages, Running, Stays, SetMeta, Metas, Shown,
     HasTurn, memory
<1>2. TypeOK'
  BY <1>1, Numbers DEF IInv, TypeOK, Terminal, Dispatchable, Prompt, Stays, SetMeta, memory
<1> USE <1>1, <1>2, Numbers
        DEF IInv, TypeOK, HasTurn, Running, Committed, Asked, Terminal, Dispatchable
<1>3. HasTurn' /\ Unprompted' /\ NotMissing' /\ Unanswered'
  BY DEF Shown, Unprompted, NotMissing, Unanswered, FailsToRecord
<1>4. RefusedOnlyFail'
  BY DEF Shown, HasEnded, RefusedOnlyFail
<1>5. PromptedEnds'
  BY DEF Shown, HasEnded, Unprompted, PromptedEnds
<1>6. ClaimIsFresh' /\ SeenIsFresh'
  BY DEF Shown, Probing, Unprompted, ClaimIsFresh, SeenIsFresh
<1>7. HandledOrOther'
  BY DEF Shown, HasEnded, Unprompted, HandledOrOther
<1>8. RunIsNotAccused'
  BY DEF Shown, HasEnded, NotMissing, RunIsNotAccused
<1> QED BY <1>2, <1>3, <1>4, <1>5, <1>6, <1>7, <1>8 DEF IInv

\* The prompt's end changes the shown activity only.
LEMMA PromptEndsKeeps ==
  ASSUME IInv, PromptEnds
  PROVE  IInv'
<1>1. /\ check.stage = "agent" /\ check' \in Checks
      /\ check'.stage = "finalize" /\ check'.turn = check.turn
      /\ meta' \in Metas /\ Shown /\ UNCHANGED bounds
      /\ UNCHANGED Stored
  BY Numbers, GoesTo DEF IInv, TypeOK, PromptEnds, Stages, Running, Stays, SetMeta, Metas, Shown,
     Stored, memory, ghosts
<1>2. TypeOK'
  BY <1>1, Numbers DEF IInv, TypeOK, Terminal, Dispatchable, PromptEnds, Stays, SetMeta, memory,
     ghosts, Stored
<1> USE <1>1, <1>2, Numbers
        DEF IInv, TypeOK, HasTurn, Running, Committed, Asked, Terminal, Dispatchable
<1>3. HasTurn' /\ Unprompted' /\ NotMissing' /\ Unanswered'
  BY DEF Shown, Stored, Unprompted, NotMissing, Unanswered, FailsToRecord
<1>4. RefusedOnlyFail'
  BY DEF Shown, Stored, HasEnded, RefusedOnlyFail
<1>5. PromptedEnds'
  BY DEF Shown, Stored, HasEnded, Unprompted, PromptedEnds
<1>6. ClaimIsFresh' /\ SeenIsFresh'
  BY DEF Shown, Stored, Probing, Unprompted, ClaimIsFresh, SeenIsFresh
<1>7. HandledOrOther'
  BY DEF Shown, Stored, HasEnded, Unprompted, HandledOrOther
<1>8. RunIsNotAccused'
  BY DEF Shown, Stored, HasEnded, NotMissing, RunIsNotAccused
<1> QED BY <1>2, <1>3, <1>4, <1>5, <1>6, <1>7, <1>8 DEF IInv

\* finalizeTurn ends the assistant entry.
LEMMA FinalizeKeeps ==
  ASSUME IInv, Finalize
  PROVE  IInv'
<1>1. /\ check.stage = "finalize" /\ check' \in Checks
      /\ check'.stage = "record" /\ check'.turn = check.turn
      /\ check.turn \in Turns /\ check'.outcome \in {"handled", "silent"}
      /\ ended' = ended \cup {check.turn} /\ bounds' \in Bounds
      /\ UNCHANGED <<meta, refused, entry, unwritten, prompted, denying>>
  <2>1. \E x \in {"handled", "silent"} :
          check' = [check EXCEPT !.stage = "record", !.outcome = x]
    BY DEF Finalize
  <2>2. bounds' \in Bounds
    BY Numbers DEF IInv, TypeOK, Finalize, Fault, Bounds
  <2>3. check.turn \in Turns /\ check.stage = "finalize" /\ UNCHANGED meta
    BY DEF IInv, HasTurn, Running, Finalize
  <2>4. /\ ended' = ended \cup {check.turn}
        /\ UNCHANGED <<refused, entry, unwritten, prompted, denying>>
    BY DEF Finalize, Stays, memory, ghosts
  <2> QED
    BY <2>1, <2>2, <2>3, <2>4 DEF IInv, TypeOK, Checks, Stages, Running, Outcomes
<1>2. TypeOK'
  BY <1>1, Numbers DEF IInv, TypeOK, Terminal, Dispatchable, Finalize, Stays, HistoryAsks,
     memory, ghosts
<1> USE <1>1, <1>2, Numbers
        DEF IInv, TypeOK, HasTurn, Running, Committed, Asked, Terminal, Dispatchable
<1>3. HasTurn' /\ Unprompted' /\ NotMissing' /\ Unanswered'
  BY DEF Unprompted, NotMissing, Unanswered, FailsToRecord
<1>4. RefusedOnlyFail'
  BY DEF HasEnded, RefusedOnlyFail
<1>5. PromptedEnds'
  BY DEF HasEnded, Unprompted, PromptedEnds
<1>6. ClaimIsFresh' /\ SeenIsFresh'
  BY DEF Probing, Unprompted, ClaimIsFresh, SeenIsFresh
<1>7. HandledOrOther'
  BY DEF HasEnded, Unprompted, HandledOrOther
<1>8. RunIsNotAccused'
  BY DEF HasEnded, NotMissing, RunIsNotAccused
<1> QED BY <1>2, <1>3, <1>4, <1>5, <1>6, <1>7, <1>8 DEF IInv

\* A run that fails goes on to record its failure.
LEMMA RunFailsKeeps ==
  ASSUME IInv, RunFails
  PROVE  IInv'
<1>1. /\ MayThrow /\ check' \in Checks
      /\ check'.stage = "record" /\ check'.turn = check.turn
      /\ check'.outcome = "failed" /\ bounds' \in Bounds /\ UNCHANGED meta
      /\ UNCHANGED Stored
  <2>1. check' = [check EXCEPT !.stage = "record", !.outcome = "failed"]
    BY DEF RunFails
  <2>2. bounds' \in Bounds
    BY Numbers DEF IInv, TypeOK, RunFails, Fault, Bounds
  <2>3. MayThrow /\ UNCHANGED meta
    BY DEF RunFails, replica
  <2>4. UNCHANGED Stored
    BY DEF RunFails, Stays, Stored, replica, memory, ghosts
  <2> QED
    BY <2>1, <2>2, <2>3, <2>4 DEF IInv, TypeOK, Checks, Stages, Running, Outcomes
<1>2. TypeOK'
  BY <1>1, Numbers DEF IInv, TypeOK, Terminal, Dispatchable, RunFails, Stays, replica, memory,
     triggers, ghosts, Stored
<1> USE <1>1, <1>2, Numbers
        DEF IInv, TypeOK, HasTurn, Running, Committed, Asked, Terminal, Dispatchable, MayThrow
<1>3. HasTurn' /\ Unprompted' /\ NotMissing' /\ Unanswered'
  BY DEF Stored, Unprompted, NotMissing, Unanswered, FailsToRecord
<1>4. RefusedOnlyFail'
  BY DEF Stored, HasEnded, RefusedOnlyFail
<1>5. PromptedEnds'
  BY DEF Stored, HasEnded, Unprompted, PromptedEnds
<1>6. ClaimIsFresh' /\ SeenIsFresh'
  BY DEF Stored, Probing, Unprompted, ClaimIsFresh, SeenIsFresh
<1>7. HandledOrOther'
  BY DEF Stored, HasEnded, Unprompted, HandledOrOther
<1>8. RunIsNotAccused'
  BY DEF Stored, HasEnded, NotMissing, RunIsNotAccused
<1> QED BY <1>2, <1>3, <1>4, <1>5, <1>6, <1>7, <1>8 DEF IInv

\* The status is written in the entry, or in memory while there is none: the turn has ended.
LEMMA RecordKeeps ==
  ASSUME IInv, Record
  PROVE  IInv'
<1>1. /\ check.stage = "record" /\ check' \in Checks
      /\ check'.stage = "publish" /\ check'.turn = check.turn
      /\ check.turn \in Turns /\ check'.outcome = check.outcome
      /\ \E status \in Terminal :
           /\ check.outcome = "denied" => status = "failed"
           /\ \/ /\ entry[check.turn] = "absent" /\ UNCHANGED entry
                 /\ unwritten' = [unwritten EXCEPT ![check.turn] = status]
              \/ /\ entry[check.turn] # "absent" /\ UNCHANGED unwritten
                 /\ entry' = [entry EXCEPT ![check.turn] = status]
      /\ UNCHANGED <<meta, bounds, refused, ended, prompted, denying>>
  BY Numbers, GoesTo DEF IInv, TypeOK, Record, Stages, Running, Stays, Status, Terminal, HasTurn,
     WriteStatus, ghosts
<1>2. TypeOK'
  BY <1>1, Numbers DEF IInv, TypeOK, Terminal, Dispatchable, Record, Stays, WriteStatus,
     HistoryAsks, Without, ghosts
<1> USE <1>1, <1>2, Numbers
        DEF IInv, TypeOK, HasTurn, Running, Committed, Asked, Terminal, Dispatchable
<1>3. HasTurn' /\ Unprompted' /\ NotMissing' /\ Unanswered'
  BY DEF Unprompted, NotMissing, Unanswered, FailsToRecord
<1>4. RefusedOnlyFail'
  BY DEF HasEnded, RefusedOnlyFail
<1>5. PromptedEnds'
  BY DEF HasEnded, Unprompted, PromptedEnds
<1>6. ClaimIsFresh' /\ SeenIsFresh'
  BY DEF Probing, Unprompted, ClaimIsFresh, SeenIsFresh
<1>7. HandledOrOther'
  BY DEF HasEnded, Unprompted, HandledOrOther
<1>8. RunIsNotAccused'
  BY DEF HasEnded, NotMissing, RunIsNotAccused
<1> QED BY <1>2, <1>3, <1>4, <1>5, <1>6, <1>7, <1>8 DEF IInv

\* The handled pointer is the turn's, and the claim is dropped.
LEMMA PublishKeeps ==
  ASSUME IInv, Publish
  PROVE  IInv'
<1>1. /\ check.stage = "publish" /\ check.turn \in Turns
      /\ meta' \in Metas /\ meta'.handled = check.turn /\ meta'.processing = 0
      /\ check' \in Checks /\ check'.stage \in {"idle", "clean"}
      /\ check'.stage = "clean" => check'.turn = check.turn /\ check.outcome = "failed"
      /\ UNCHANGED <<meta.missing, bounds>>
      /\ UNCHANGED Stored
  <2>1. check.turn \in Turns /\ check.stage = "publish" /\ UNCHANGED bounds
    BY DEF IInv, HasTurn, Running, Publish
  <2>2. PICK m : m = [meta EXCEPT !.handled = check.turn, !.processing = 0]
    OBVIOUS
  <2>3. m \in Metas /\ m.handled = check.turn /\ m.processing = 0 /\ m.missing = meta.missing
    BY <2>1, <2>2, Numbers DEF IInv, TypeOK, Metas
  <2>4. meta' = m \/ meta' = [m EXCEPT !.active = FALSE]
    BY <2>2 DEF Publish, SetMeta
  <2>5. CheckEnds \/ (Goes("clean") /\ check.outcome = "failed")
    BY DEF Publish
  <2>6. /\ check' \in Checks /\ check'.stage \in {"idle", "clean"}
        /\ check'.stage = "clean" => check'.turn = check.turn /\ check.outcome = "failed"
    BY <2>5, EndsIdle, GoesTo DEF IInv, TypeOK, Stages, Running
  <2>7. UNCHANGED Stored
    BY DEF Publish, Stays, Stored, memory, ghosts
  <2> QED
    BY <2>1, <2>3, <2>4, <2>6, <2>7 DEF Metas
<1>2. TypeOK'
  BY <1>1, Numbers DEF IInv, TypeOK, Terminal, Dispatchable, Publish, SetMeta, Stays,
     HistoryAsks, memory, ghosts, Stored
<1> USE <1>1, <1>2, Numbers
        DEF IInv, TypeOK, HasTurn, Running, Committed, Asked, Terminal, Dispatchable
<1>3. HasTurn' /\ Unprompted' /\ NotMissing' /\ Unanswered'
  BY DEF Stored, Unprompted, NotMissing, Unanswered, FailsToRecord
<1>4. RefusedOnlyFail'
  BY DEF Stored, HasEnded, RefusedOnlyFail
<1>5. PromptedEnds'
  BY DEF Stored, HasEnded, Unprompted, PromptedEnds
<1>6. ClaimIsFresh' /\ SeenIsFresh'
  BY DEF Stored, Probing, Unprompted, ClaimIsFresh, SeenIsFresh
<1>7. HandledOrOther'
  BY DEF Stored, HasEnded, Unprompted, HandledOrOther
<1>8. RunIsNotAccused'
  BY DEF Stored, HasEnded, NotMissing, RunIsNotAccused
<1> QED BY <1>2, <1>3, <1>4, <1>5, <1>6, <1>7, <1>8 DEF IInv

\* finalizeACPState ends the failed turn's assistant entry.
LEMMA CleanKeeps ==
  ASSUME IInv, Clean
  PROVE  IInv'
<1>1. /\ check.stage = "clean" /\ check.turn \in Turns /\ check' \in Checks /\ check'.stage = "idle"
      /\ meta' \in Metas /\ Shown /\ ended' = ended \cup {check.turn}
      /\ UNCHANGED <<bounds, refused, entry, unwritten, prompted, denying>>
  BY Numbers, EndsIdle DEF IInv, TypeOK, Clean, SetMeta, Stays, Metas, HasTurn, Running, Shown,
     memory, ghosts
<1>2. TypeOK'
  BY <1>1, Numbers DEF IInv, TypeOK, Terminal, Dispatchable, Clean, SetMeta, Stays, HistoryAsks,
     memory, ghosts
<1> USE <1>1, <1>2, Numbers
        DEF IInv, TypeOK, HasTurn, Running, Committed, Asked, Terminal, Dispatchable
<1>3. HasTurn' /\ Unprompted' /\ NotMissing' /\ Unanswered'
  BY DEF Shown, Unprompted, NotMissing, Unanswered, FailsToRecord
<1>4. RefusedOnlyFail'
  BY DEF Shown, HasEnded, RefusedOnlyFail
<1>5. PromptedEnds'
  BY DEF Shown, HasEnded, Unprompted, PromptedEnds
<1>6. ClaimIsFresh' /\ SeenIsFresh'
  BY DEF Shown, Probing, Unprompted, ClaimIsFresh, SeenIsFresh
<1>7. HandledOrOther'
  BY DEF Shown, HasEnded, Unprompted, HandledOrOther
<1>8. RunIsNotAccused'
  BY DEF Shown, HasEnded, NotMissing, RunIsNotAccused
<1> QED BY <1>2, <1>3, <1>4, <1>5, <1>6, <1>7, <1>8 DEF IInv

\* A verification that allows the turn asks for a check.
LEMMA RetryAllowedKeeps ==
  ASSUME IInv, RetryAllowed
  PROVE  IInv'
<1>1. /\ UNCHANGED <<check, meta, bounds>>
      /\ UNCHANGED Stored
  BY Numbers DEF IInv, TypeOK, RetryAllowed, Stays, Stored, replica, ghosts
<1>2. TypeOK'
  BY <1>1, Numbers DEF IInv, TypeOK, Terminal, Dispatchable, RetryAllowed, Stays, replica,
     ghosts, Stored
<1> QED
  BY <1>1, <1>2, QuietKeeps DEF Same, Probing, Asked, Stored

\* The background denial fails a refused turn, which never ran.
LEMMA RetryDeniedKeeps ==
  ASSUME IInv, RetryDenied
  PROVE  IInv'
<1>1. /\ retry \in Turns /\ retry \in refused /\ denying' = retry
      /\ \/ /\ entry[retry] = "absent" /\ UNCHANGED entry
            /\ unwritten' = [unwritten EXCEPT ![retry] = "failed"]
         \/ /\ entry[retry] # "absent" /\ UNCHANGED unwritten
            /\ entry' = [entry EXCEPT ![retry] = "failed"]
      /\ UNCHANGED <<check, meta, bounds, refused, ended, prompted>>
  BY Numbers DEF IInv, TypeOK, RetryDenied, Stays, WriteStatus, ghosts
<1>2. TypeOK'
  BY <1>1, Numbers DEF IInv, TypeOK, Terminal, Dispatchable, RetryDenied, Stays, WriteStatus,
     Without, HistoryAsks, ghosts
<1> USE <1>1, <1>2, Numbers
        DEF IInv, TypeOK, HasTurn, Running, Committed, Asked, Terminal, Dispatchable
<1>3. HasTurn' /\ Unprompted' /\ NotMissing' /\ Unanswered'
  BY DEF Unprompted, NotMissing, Unanswered, FailsToRecord
<1>4. RefusedOnlyFail'
  BY DEF HasEnded, RefusedOnlyFail
<1>5. PromptedEnds'
  BY DEF HasEnded, Unprompted, PromptedEnds
<1>6. ClaimIsFresh' /\ SeenIsFresh'
  BY DEF Probing, Unprompted, ClaimIsFresh, SeenIsFresh
<1>7. HandledOrOther'
  BY DEF HasEnded, Unprompted, HandledOrOther
<1>8. RunIsNotAccused'
  BY DEF HasEnded, NotMissing, RunIsNotAccused
<1> QED BY <1>2, <1>3, <1>4, <1>5, <1>6, <1>7, <1>8 DEF IInv

\* The second write of the denial takes the handled pointer, for a turn that has ended.
LEMMA RetryPublishesKeeps ==
  ASSUME IInv, RetryPublishes
  PROVE  IInv'
<1>1. /\ denying \in Turns /\ denying' = 0
      /\ meta' \in Metas /\ meta'.handled = denying /\ meta'.processing = 0
      /\ UNCHANGED <<meta.missing, check, bounds, refused, entry, unwritten, ended, prompted>>
  BY Numbers DEF IInv, TypeOK, RetryPublishes, Stays, SetMeta, Metas, ghosts
<1>2. TypeOK'
  BY <1>1, Numbers DEF IInv, TypeOK, Terminal, Dispatchable, RetryPublishes, Stays, SetMeta,
     HistoryAsks, ghosts
<1> USE <1>1, <1>2, Numbers
        DEF IInv, TypeOK, HasTurn, Running, Committed, Asked, Terminal, Dispatchable
<1>3. HasTurn' /\ Unprompted' /\ NotMissing' /\ Unanswered'
  BY DEF Unprompted, NotMissing, Unanswered, FailsToRecord
<1>4. RefusedOnlyFail'
  BY DEF HasEnded, RefusedOnlyFail
<1>5. PromptedEnds'
  BY DEF HasEnded, Unprompted, PromptedEnds
<1>6. ClaimIsFresh' /\ SeenIsFresh'
  BY DEF Probing, Unprompted, ClaimIsFresh, SeenIsFresh
<1>7. HandledOrOther'
  BY <1>1, <1>2, Numbers DEF IInv, TypeOK, HasEnded, RetryPublishes, Stays, ghosts,
     HandledOrOther, RefusedOnlyFail, Asked
<1>8. RunIsNotAccused'
  BY DEF HasEnded, NotMissing, RunIsNotAccused
<1> QED BY <1>2, <1>3, <1>4, <1>5, <1>6, <1>7, <1>8 DEF IInv

\* A crash loses the memory, and the count of prompts with it.
LEMMA CrashKeeps ==
  ASSUME IInv, Crash
  PROVE  IInv'
<1>1. /\ check' \in Checks /\ check'.stage = "idle" /\ bounds' \in Bounds
      /\ unwritten' = [t \in Turns |-> "none"] /\ prompted' = [t \in Turns |-> 0] /\ denying' = 0
      /\ UNCHANGED <<meta, refused, entry, ended>>
  BY Numbers, EndsIdle DEF IInv, TypeOK, Crash, Bounds, CheckEnds, replica
<1>2. TypeOK'
  <2>1. lost' \subseteq Turns
    <3>1. 1..meta.latest \subseteq Turns
      BY Numbers DEF IInv, TypeOK, Metas, Turns
    <3> QED
      BY <3>1 DEF IInv, TypeOK, Crash
  <2>2. stash' \in [Turns -> 0..MaxOffers] /\ unwritten' \in [Turns -> {"none"} \cup Terminal]
    BY Numbers DEF Crash
  <2>3. prompted' \in [Turns -> Nat] /\ retry' \in 0..LastTurn /\ denying' \in 0..LastTurn
    BY Numbers DEF Crash
  <2> QED
    BY <1>1, <2>1, <2>2, <2>3 DEF IInv, TypeOK, Crash, replica
<1> USE <1>1, <1>2, Numbers
        DEF IInv, TypeOK, HasTurn, Running, Committed, Asked, Terminal, Dispatchable
<1>3. HasTurn' /\ Unprompted' /\ NotMissing' /\ Unanswered'
  BY DEF Unprompted, NotMissing, Unanswered, FailsToRecord
<1>4. RefusedOnlyFail'
  BY DEF HasEnded, RefusedOnlyFail
<1>5. PromptedEnds'
  BY DEF HasEnded, Unprompted, PromptedEnds
<1>6. ClaimIsFresh' /\ SeenIsFresh'
  BY DEF Probing, Unprompted, ClaimIsFresh, SeenIsFresh
<1>7. HandledOrOther'
  BY DEF HasEnded, Unprompted, HandledOrOther
<1>8. RunIsNotAccused'
  BY DEF HasEnded, NotMissing, RunIsNotAccused
<1> QED BY <1>2, <1>3, <1>4, <1>5, <1>6, <1>7, <1>8 DEF IInv

\* Every step keeps the invariant.
LEMMA StepKeeps ==
  ASSUME IInv, [Next]_vars
  PROVE  IInv'
<1>1. CASE UNCHANGED vars
  <2>1. TypeOK'
    BY <1>1 DEF IInv, TypeOK, vars, replica, memory, triggers, ghosts
  <2> QED
    BY <1>1, <2>1, QuietKeeps DEF vars, replica, memory, ghosts, Same
<1>2. CASE Next
  BY <1>2, SendKeeps, EntryArrivesKeeps, PointerArrivesKeeps, OfferTurnKeeps, OfferExpiresKeeps,
     ReconcileKeeps, StartCheckKeeps, RepairKeeps, FindEntryKeeps, FindOfferKeeps,
     FindNothingKeeps, SettleKeeps, WaitSyncedKeeps, WaitTimeoutKeeps, MarkMissingKeeps,
     DispatchKeeps, AccessAllowedKeeps, AccessDeniedKeeps, AccessIndeterminateKeeps,
     OpenEntryKeeps, ClaimKeeps, PromptKeeps, PromptEndsKeeps, FinalizeKeeps, RunFailsKeeps,
     RecordKeeps, PublishKeeps, CleanKeeps, RetryAllowedKeeps, RetryDeniedKeeps,
     RetryPublishesKeeps, CrashKeeps DEF Next, Network, Check, Look, Run, Verification
<1> QED
  BY <1>1, <1>2

\* The invariant holds at the start.
LEMMA InitKeeps == Init => IInv
<1> SUFFICES ASSUME Init PROVE IInv
  OBVIOUS
<1>1. NoMeta \in Metas /\ Idle \in Checks /\ Idle.stage = "idle"
  BY Numbers DEF NoMeta, Metas, Idle, Checks, Stages, Outcomes
<1>2. bounds \in Bounds
  BY Numbers DEF Init, Bounds
<1>3. sent \in 0..LastTurn /\ refused \subseteq Refusable
  BY Numbers DEF Init
<1>4. /\ entry \in [Turns -> {"absent"} \cup Dispatchable \cup Terminal]
      /\ stash \in [Turns -> 0..MaxOffers]
      /\ unwritten \in [Turns -> {"none"} \cup Terminal]
      /\ prompted \in [Turns -> Nat]
  BY Numbers DEF Init
<1>5. TypeOK
  BY <1>1, <1>2, <1>3, <1>4, Numbers DEF Init, TypeOK
<1>6. HasTurn /\ Unprompted /\ NotMissing /\ Unanswered /\ SeenIsFresh
  BY <1>1 DEF Init, HasTurn, Unprompted, NotMissing, Unanswered, FailsToRecord, SeenIsFresh,
     Running, Probing,
     Committed, Asked
<1>7. RefusedOnlyFail
  BY <1>1, Numbers DEF Init, RefusedOnlyFail, NoMeta
<1>8. PromptedEnds /\ ClaimIsFresh /\ HandledOrOther /\ RunIsNotAccused
  BY <1>1, Numbers DEF Init, PromptedEnds, ClaimIsFresh, HandledOrOther, RunIsNotAccused, Idle,
     NoMeta
<1> QED
  BY <1>5, <1>6, <1>7, <1>8 DEF IInv

\* The inductive invariant holds in every reachable state.
THEOREM Invariant == Spec => []IInv
BY InitKeeps, StepKeeps, PTL DEF Spec

\* Every variable keeps its type, for any number of turns and any bounds.
THEOREM Types == Spec => []TypeOK
<1>1. IInv => TypeOK
  BY DEF IInv
<1> QED
  BY <1>1, Invariant, PTL

\* One life of the daemon prompts a turn at most once, however its entry, its pointer and its
\* offers interleave with the checks, the background denial and crashes.
THEOREM OncePrompted == Spec => []PromptedOnce
<1>1. IInv => PromptedOnce
  BY DEF IInv, PromptedEnds, PromptedOnce
<1> QED
  BY <1>1, Invariant, PTL


\* Answers stay when neither entries nor prompts change.
LEMMA SameAnswers ==
  ASSUME IInv, UNCHANGED <<entry, prompted>>, NEW t \in Turns
  PROVE  AnswerStays(t)
BY DEF IInv, TypeOK, AnswerStays

\* A repair writes an entry that had not ended.
LEMMA RepairAnswers ==
  ASSUME IInv, NEW u \in Turns, Repair(u), NEW t \in Turns
  PROVE  AnswerStays(t)
BY DEF IInv, TypeOK, Repair, NextDispatchable, Candidates, Dispatchable, Terminal, ghosts,
   AnswerStays

\* The entry openAssistantEntry writes has not ended, unless nobody may write it.
LEMMA OpenAnswers ==
  ASSUME IInv, OpenEntry, NEW t \in Turns
  PROVE  AnswerStays(t)
BY DEF IInv, TypeOK, OpenEntry, Unanswered, FailsToRecord, RefusedOnlyFail, Committed, ghosts,
   AnswerStays

\* The turn that is prompted has neither ended nor been reported missing.
LEMMA PromptAnswers ==
  ASSUME IInv, Prompt, NEW t \in Turns
  PROVE  AnswerStays(t)
<1>1. check.turn # meta.missing /\ entry[check.turn] \notin Terminal
  BY DEF IInv, Prompt, NotMissing, Unanswered, FailsToRecord, RefusedOnlyFail, Committed
<1>2. t # check.turn => prompted'[t] = prompted[t]
  BY DEF IInv, TypeOK, Prompt
<1> QED
  BY <1>1, <1>2 DEF IInv, TypeOK, Prompt, AnswerStays

\* The status is written over none or over the same one, or the run has failed.
LEMMA RecordAnswers ==
  ASSUME IInv, Record, NEW t \in Turns
  PROVE  AnswerStays(t)
<1>1. entry[check.turn] \in Terminal =>
        entry[check.turn] = Status(check.outcome) \/ check.outcome = "failed"
  BY DEF IInv, TypeOK, Record, HasTurn, Running, Unanswered, FailsToRecord, RefusedOnlyFail,
     Asked, Status, Terminal
<1>2. UNCHANGED prompted /\ (t # check.turn => entry'[t] = entry[t])
  BY DEF IInv, TypeOK, Record, WriteStatus, ghosts
<1>3. check.stage = "record"
      /\ \/ UNCHANGED entry
         \/ check.turn \in Turns /\ entry' = [entry EXCEPT ![check.turn] = Status(check.outcome)]
  BY DEF IInv, HasTurn, Running, Record, WriteStatus
<1> QED
  BY <1>1, <1>2, <1>3 DEF IInv, TypeOK, AnswerStays, Fails, Status

\* The denial fails an entry that can only have failed.
LEMMA DenialAnswers ==
  ASSUME IInv, RetryDenied, NEW t \in Turns
  PROVE  AnswerStays(t)
<1>1. entry[retry] \in Terminal => entry[retry] = "failed"
  BY DEF IInv, RetryDenied, RefusedOnlyFail, Terminal
<1> QED
  BY <1>1 DEF IInv, TypeOK, RetryDenied, WriteStatus, ghosts, AnswerStays

\* No step changes an answer.
LEMMA AnswersStay ==
  ASSUME IInv, [Next]_vars, NEW t \in Turns
  PROVE  AnswerStays(t)
<1>1. CASE \E u \in Turns : EntryArrives(u)
  BY <1>1 DEF IInv, TypeOK, EntryArrives, ghosts, Terminal, AnswerStays
<1>2. CASE Crash
  BY <1>2 DEF IInv, TypeOK, Crash, replica, AnswerStays
<1>3. CASE UNCHANGED <<entry, prompted>>
  BY <1>3, SameAnswers
<1>4. CASE Send \/ \E u \in Turns : PointerArrives(u) \/ OfferTurn(u) \/ OfferExpires(u)
  BY <1>3, <1>4 DEF Send, PointerArrives, OfferTurn, OfferExpires, replica, ghosts
<1>5. CASE Reconcile \/ StartCheck \/ FindNothing \/ \E u \in Turns : FindEntry(u) \/ FindOffer(u)
  BY <1>3, <1>5 DEF Reconcile, StartCheck, FindNothing, FindEntry, FindOffer, TurnFound, replica,
     ghosts
<1>6. CASE Settle \/ WaitSynced \/ WaitTimeout \/ MarkMissing
  BY <1>3, <1>6 DEF Settle, WaitSynced, WaitTimeout, MarkMissing, replica, ghosts
<1>7. CASE Dispatch \/ AccessAllowed \/ AccessDenied \/ AccessIndeterminate \/ Claim
  BY <1>3, <1>7 DEF Dispatch, AccessAllowed, AccessDenied, AccessIndeterminate, Claim, replica,
     ghosts
<1>8. CASE PromptEnds \/ Finalize \/ RunFails \/ Publish \/ Clean
  BY <1>3, <1>8 DEF PromptEnds, Finalize, RunFails, Publish, Clean, replica, ghosts
<1>9. CASE RetryAllowed \/ RetryPublishes \/ UNCHANGED vars
  BY <1>3, <1>9 DEF RetryAllowed, RetryPublishes, vars, replica, ghosts
<1> QED
  BY <1>1, <1>2, <1>4, <1>5, <1>6, <1>7, <1>8, <1>9, RepairAnswers, OpenAnswers, PromptAnswers,
     RecordAnswers, DenialAnswers DEF Next, Network, Check, Look, Run, Verification

\* How a turn's entry ended is final, and a turn that ended or was called missing is not
\* prompted: no repair, offer, denial or crash undoes it.
THEOREM FinalAnswers == Spec => AnswerIsFinal
<1>1. IInv /\ [Next]_vars => [\A t \in Turns : AnswerStays(t)]_vars
  BY AnswersStay
<1> QED
  BY <1>1, Invariant, PTL DEF Spec, AnswerIsFinal

\* A turn that this life has run is not reported missing unless another turn has ended, which
\* may have taken the handled pointer.
THEOREM NotAccused == Spec => []RunIsNotAccused
<1>1. IInv => RunIsNotAccused
  BY DEF IInv
<1> QED
  BY <1>1, Invariant, PTL
==============================================================================
