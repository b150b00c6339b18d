---------------------------- MODULE SessionDispatch ----------------------------
(***************************************************************************)
(* One session of the dispatch watcher: how a user turn that another peer  *)
(* sent gets to run on this machine exactly once (SessionDispatchWatcher   *)
(* and the turn of SessionExecutionService it awaits).                     *)
(*                                                                         *)
(* A send is two replicated writes, the turn's entry in the session's      *)
(* history and the pointer in its metadata; they arrive independently, and *)
(* a Machine RPC may carry the whole turn ahead of both.  Metadata events  *)
(* decide whether the session is watched; history changes of a watched     *)
(* session, offers and finished turns ask for a check; checks run one at a *)
(* time, with at most one more waiting, and a check that finds a turn      *)
(* awaits its whole run.  A check that finds a pointer without its turn    *)
(* waits for the history, at most five minutes, and then records in the    *)
(* metadata that the turn was not delivered.                               *)
(*                                                                         *)
(* Turns are numbered by the clock of their pointers (last writer wins);   *)
(* 0 is no turn.  Left out: the message queue, steering, cancellation and  *)
(* pauses, archiving and reassignment, and turns other services start.     *)
(***************************************************************************)
EXTENDS Integers

CONSTANTS
  LastTurn,          \* bound: turns 1..LastTurn are sent
  Refusable,         \* turns whose sender may lack access to this machine
  MaxOffers,         \* bound on the RPC offers that get through
  MaxFaults,         \* bound on failing runs, unverifiable accesses, lost offers
  MaxCrashes         \* bound on the daemon's crashes

ASSUME BoundsAssumption ==
  /\ {LastTurn, MaxOffers, MaxFaults, MaxCrashes} \subseteq Nat
  /\ Refusable \subseteq 1..LastTurn

Turns == 1..LastTurn

VARIABLES
  sent,       \* turns 1..sent are written on their peers
  refused,    \* the senders canUseMachine denies
  entry,      \* the machine's history: each turn's entry and its status
  ended,      \* turns whose assistant entry carries endedAt
  meta,       \* the machine's copy of the session's metadata
  stash,      \* rpcTurnStash: where a turn's offer came in order, or 0
  unwritten,  \* terminalTurnStatusWithoutEntry
  retry,      \* the turn whose access is verified in the background
  denying,    \* a denial of that verification that is half written
  watched,    \* watchedSessions: history changes ask for a check
  notified,   \* pendingMetadataSessionIds holds the session
  draining,   \* the metadata drain awaits a check's initial probe
  queued,     \* a check that has not started is in the chain
  check,      \* the check that runs
  prompted,   \* how often this life of the daemon prompted each turn
  lost,       \* turns reported missing, or absent when a later one used up the pointer
  bounds      \* offers, faults and crashes so far

replica == <<entry, ended, meta>>
memory == <<stash, unwritten, retry, denying>>
triggers == <<watched, notified, draining, queued>>
ghosts == <<prompted, lost>>
vars == <<sent, refused, replica, memory, triggers, check, ghosts, bounds>>

Terminal == {"handled", "failed"}
Dispatchable == {"pending", "processing"}
Outcomes == {"none", "handled", "silent", "failed", "denied"}

\* A check ends its initial probe when it has found a turn or has given up.
Probing == {"read", "wait", "settle"}
Running == {"access", "open", "claim", "prompt", "agent", "finalize", "record", "publish", "clean"}
Stages == {"idle", "missing", "dispatch"} \cup Probing \cup Running

NoMeta == [latest |-> 0, processing |-> 0, handled |-> 0, missing |-> 0, settled |-> 0,
           active |-> FALSE]
Metas == [latest: 0..LastTurn, processing: 0..LastTurn, handled: 0..LastTurn,
          missing: 0..LastTurn, settled: 0..LastTurn, active: BOOLEAN]
Idle == [stage |-> "idle", turn |-> 0, outcome |-> "none", seen |-> NoMeta,
         recheck |-> FALSE, synced |-> FALSE, leave |-> FALSE]

Init ==
  /\ sent = 0
  /\ refused \in SUBSET Refusable
  /\ entry = [t \in Turns |-> "absent"] /\ ended = {}
  /\ meta = NoMeta
  /\ stash = [t \in Turns |-> 0] /\ unwritten = [t \in Turns |-> "none"]
  /\ retry = 0 /\ denying = 0
  /\ watched = FALSE /\ notified = FALSE /\ draining = FALSE /\ queued = FALSE
  /\ check = Idle
  /\ prompted = [t \in Turns |-> 0] /\ lost = {}
  /\ bounds = [offers |-> 0, faults |-> 0, crashes |-> 0]

-----------------------------------------------------------------------------
(* What the metadata and the history say                                   *)

\* getPendingUserTurnActivationId; 0 is undefined
Pending(m) ==
  CASE m.processing \notin {0, m.missing, m.settled} -> m.processing
    [] m.processing \in {0, m.missing, m.settled}
       /\ m.latest \notin {0, m.handled, m.missing, m.settled} -> m.latest
    [] OTHER -> 0

\* isActivationAwaitingHistory
AwaitsHistory(t) == entry[t] \notin Terminal

\* findNextDispatchableUserTurn: the oldest entry
Candidates(m) == {t \in Turns : entry[t] \in Dispatchable /\ t # m.missing}
NextDispatchable(m, t) == t \in Candidates(m) /\ \A u \in Candidates(m) : t <= u

\* (mutant) only the handled pointer tells that a late entry's turn has run
RepairByPointer(m, t) == IF m.processing # t /\ m.handled = t THEN "failed" ELSE "none"

\* maybeRepairAlreadyHandledTurn: the status a late entry gets; "none" if it is to run
RepairStatus(m, t) ==
  CASE m.processing = t -> "none"
    [] m.processing # t /\ unwritten[t] # "none" -> unwritten[t]
    [] m.processing # t /\ unwritten[t] = "none" /\ t \in ended -> "handled"
    [] m.processing # t /\ unwritten[t] = "none" /\ t \notin ended /\ m.handled = t -> "failed"
    [] OTHER -> "none"

\* (mutant) an offer is not compared with the history's entry
OfferUnlessHandled(m, t) == m.handled = t \/ unwritten[t] # "none"

\* isStashedRpcTurnPermanentlySuppressed, but for the missing marker
OfferIsOver(m, t) == m.handled = t \/ unwritten[t] # "none" \/ ~AwaitsHistory(t)

\* peekStashedRpcTurn: the oldest offer that may run
Peekable(m) == {t \in Turns : stash[t] # 0 /\ t # m.missing /\ ~OfferIsOver(m, t)}
Peeked(m, t) == t \in Peekable(m) /\ \A u \in Peekable(m) : stash[t] <= stash[u]
\* ... and what it leaves behind: older offers that are over are dropped on the way.
PeekedStash(m) ==
  [t \in Turns |-> IF /\ t # m.missing /\ OfferIsOver(m, t)
                      /\ \A u \in Peekable(m) : stash[t] < stash[u]
                   THEN 0 ELSE stash[t]]

Without(t) == [stash EXCEPT ![t] = 0]

\* shouldWatchSession
NeedsWatch ==
  meta.active \/ Pending(meta) # 0 \/ retry # 0 \/ \E t \in Turns : stash[t] # 0

Fault == bounds.faults < MaxFaults /\ bounds' = [bounds EXCEPT !.faults = @ + 1]

-----------------------------------------------------------------------------
(* Triggers                                                                *)

\* subscribeSessionChanges: a watched session's history change asks for a check,
HistoryAsks == queued' = (queued \/ watched)
\* ... and a waiting check looks again.
LookAgain == check' = [check EXCEPT !.recheck = @ \/ check.stage = "wait"]

SetMeta(m) == meta' = m /\ notified' = (notified \/ m # meta)

\* probe.complete(): the drain that awaited it goes on.
ProbeEnds == draining' = FALSE

\* Older turns that are not in the history yet when turn t uses up the pointer.
Overtaken(t) == {u \in 1..sent : u < t /\ entry[u] = "absent"}

Goes(stage) == check' = [check EXCEPT !.stage = stage]
CheckEnds == check' = Idle

-----------------------------------------------------------------------------
(* The peers and the network                                               *)

Send ==
  /\ sent < LastTurn
  /\ sent' = sent + 1
  /\ UNCHANGED <<refused, replica, memory, triggers, check, ghosts, bounds>>

EntryArrives(t) ==
  /\ t <= sent /\ entry[t] = "absent"
  /\ entry' = [entry EXCEPT ![t] = "pending"]
  /\ HistoryAsks /\ LookAgain
  /\ UNCHANGED <<sent, refused, ended, meta, memory, watched, notified, draining, ghosts, bounds>>

\* The CLI's producer clears the missing marker, the browser's keeps it.
PointerArrives(t) ==
  /\ t <= sent /\ t > meta.latest
  /\ \E missing \in {meta.missing, 0} :
       SetMeta([meta EXCEPT !.latest = t, !.missing = missing])
  /\ UNCHANGED <<sent, refused, entry, ended, memory, watched, draining, queued, check,
                 ghosts, bounds>>

\* offerRpcTurn
OfferTurn(t) ==
  /\ t <= sent /\ bounds.offers < MaxOffers
  /\ bounds' = [bounds EXCEPT !.offers = @ + 1]
  /\ meta.handled # t /\ unwritten[t] = "none"
  /\ ~(check.stage \in Running /\ check.turn = t)
  /\ stash' = [stash EXCEPT ![t] = IF @ = 0 THEN bounds'.offers ELSE @]
  /\ queued' = TRUE /\ LookAgain
  /\ UNCHANGED <<sent, refused, replica, unwritten, retry, denying, watched, notified,
                 draining, ghosts>>

\* sweepExpiredRpcTurns: after RPC_TURN_STASH_TTL_MS
OfferExpires(t) ==
  /\ stash[t] # 0 /\ Fault
  /\ stash' = Without(t)
  /\ UNCHANGED <<sent, refused, replica, unwritten, retry, denying, triggers, check, ghosts>>

-----------------------------------------------------------------------------
(* The metadata watch and the chain of checks                              *)

\* reconcileSessionWatch, for a metadata event or at startup.  It never adds a
\* check to a chain, and it waits for the chain's next probe if one is to come.
Reconcile ==
  /\ notified /\ ~draining
  /\ notified' = FALSE
  /\ watched' = NeedsWatch
  /\ IF NeedsWatch
       THEN /\ queued' = (queued \/ check.stage = "idle")
            /\ draining' = (check.stage \in Probing \cup {"idle"})
            /\ UNCHANGED retry
       ELSE retry' = 0 /\ UNCHANGED <<queued, draining>>
  /\ UNCHANGED <<sent, refused, replica, stash, unwritten, denying, check, ghosts, bounds>>

\* maybeHandleSession up to the turn: a status no turn owns is reset.
StartCheck ==
  /\ queued /\ check.stage = "idle"
  /\ queued' = FALSE
  /\ check' = [Idle EXCEPT !.stage = "read", !.seen = [meta EXCEPT !.active = FALSE]]
  /\ SetMeta([meta EXCEPT !.active = FALSE])
  /\ UNCHANGED <<sent, refused, entry, ended, memory, watched, draining, ghosts, bounds>>

Looking == check.stage = "read" \/ (check.stage = "wait" /\ check.recheck)

\* checkHistoryAndQueue, when the oldest dispatchable entry has run already: it is
\* repaired and the scan starts over.
Repair(t) ==
  LET status == RepairStatus(check.seen, t) IN
  /\ Looking /\ NextDispatchable(check.seen, t) /\ status # "none"
  /\ entry' = [entry EXCEPT ![t] = status]
  /\ unwritten' = [unwritten EXCEPT ![t] = "none"]
  /\ stash' = Without(t)
  /\ HistoryAsks
  /\ UNCHANGED <<sent, refused, ended, meta, retry, denying, watched, notified, draining,
                 check, ghosts, bounds>>

TurnFound(t) ==
  /\ check' = [Idle EXCEPT !.stage = "dispatch", !.turn = t]
  /\ ProbeEnds /\ lost' = lost \cup Overtaken(t)
  /\ UNCHANGED <<sent, refused, replica, unwritten, retry, denying, watched, notified, queued,
                 prompted, bounds>>

FindEntry(t) ==
  /\ Looking /\ NextDispatchable(check.seen, t) /\ RepairStatus(check.seen, t) = "none"
  /\ stash' = Without(t)
  /\ TurnFound(t)

FindOffer(t) ==
  /\ Looking /\ Candidates(check.seen) = {} /\ Peeked(check.seen, t)
  /\ stash' = PeekedStash(check.seen)
  /\ TurnFound(t)

\* findOrAwaitDispatchableTurn and its wait, when there is nothing to run: without
\* a pending pointer the check is over, with one it waits for that turn's entry.
FindNothing ==
  LET pending == Pending(check.seen) IN
  /\ Looking /\ Candidates(check.seen) = {} /\ Peekable(check.seen) = {}
  /\ stash' = PeekedStash(check.seen)
  /\ \/ check.stage = "read" /\ pending = 0 /\ CheckEnds /\ ProbeEnds
     \/ /\ check.stage = "read" /\ pending # 0 /\ ~AwaitsHistory(pending)
        /\ Goes("settle") /\ UNCHANGED draining
     \/ /\ check.stage = "read" /\ pending # 0 /\ AwaitsHistory(pending)
        /\ check' = [check EXCEPT !.stage = "wait", !.recheck = TRUE] /\ UNCHANGED draining
     \/ /\ check.stage = "wait" /\ ~check.leave
        /\ check' = [check EXCEPT !.recheck = FALSE] /\ UNCHANGED draining
     \/ check.stage = "wait" /\ check.leave /\ Goes("missing") /\ ProbeEnds
  /\ UNCHANGED <<sent, refused, replica, unwritten, retry, denying, watched, notified, queued,
                 ghosts, bounds>>

\* settleTerminalActivation
Settle ==
  LET t == Pending(check.seen)
      settledMeta == [meta EXCEPT !.processing = IF @ = t THEN 0 ELSE @,
                                  !.settled = IF meta.latest = t THEN t ELSE @]
      retires == t \in {meta.processing, meta.latest} IN
  /\ check.stage = "settle"
  /\ SetMeta(settledMeta)
  /\ IF retires /\ Pending(settledMeta) = 0
       THEN Goes("missing") /\ ProbeEnds
       ELSE check' = [check EXCEPT !.stage = "wait", !.recheck = TRUE] /\ UNCHANGED draining
  /\ UNCHANGED <<sent, refused, entry, ended, memory, watched, queued, ghosts, bounds>>

\* waitForPendingUserTurnHistorySync: once the room has synced the metadata is read
\* again, and a pointer that is gone ends the wait after one more look.
WaitSynced ==
  /\ check.stage = "wait" /\ ~check.synced
  /\ check' = [check EXCEPT !.synced = TRUE, !.recheck = TRUE,
                            !.seen = [meta EXCEPT !.active = FALSE],
                            !.leave = Pending(meta) = 0]
  /\ UNCHANGED <<sent, refused, replica, memory, triggers, ghosts, bounds>>

\* HISTORY_SYNC_WAIT_TIMEOUT_MS: five minutes are enough for a metadata event to be
\* reconciled, but the timer may overtake a look.
WaitTimeout ==
  /\ check.stage = "wait" /\ (notified => draining)
  /\ Goes("missing") /\ ProbeEnds
  /\ UNCHANGED <<sent, refused, replica, memory, watched, notified, queued, ghosts, bounds>>

\* markMissingUserTurnRecovery: whatever is pending by now is accused.
MarkMissing ==
  LET t == Pending(meta) IN
  /\ check.stage = "missing"
  /\ IF t = 0
       THEN UNCHANGED <<meta, watched, notified, queued, lost>>
       ELSE /\ SetMeta([meta EXCEPT !.missing = t, !.active = FALSE])
            /\ HistoryAsks                     \* recordChatFailure
            /\ watched' = FALSE
            /\ lost' = lost \cup Overtaken(t) \cup {t}
  /\ CheckEnds
  /\ UNCHANGED <<sent, refused, entry, ended, memory, draining, prompted, bounds>>

-----------------------------------------------------------------------------
(* The dispatch of a turn and its run                                      *)

Stays == UNCHANGED <<sent, refused>>

\* The metadata is read again; access to the turn may be under verification.
Dispatch ==
  /\ check.stage = "dispatch"
  /\ IF check.turn \in {meta.missing, retry} THEN CheckEnds ELSE Goes("access")
  /\ Stays /\ UNCHANGED <<replica, memory, triggers, ghosts, bounds>>

AccessAllowed ==
  /\ check.stage = "access" /\ check.turn \notin refused
  /\ retry' = 0 /\ stash' = Without(check.turn)
  /\ Goes("open")
  /\ Stays /\ UNCHANGED <<replica, unwritten, denying, triggers, ghosts, bounds>>

\* markDispatchAccessDenied goes on as Record and Publish.
AccessDenied ==
  /\ check.stage = "access" /\ check.turn \in refused
  /\ retry' = 0
  /\ check' = [check EXCEPT !.stage = "record", !.outcome = "denied"]
  /\ Stays /\ UNCHANGED <<replica, stash, unwritten, denying, triggers, ghosts, bounds>>

\* forkAccessRetry
AccessIndeterminate ==
  /\ check.stage = "access" /\ Fault
  /\ retry' = check.turn
  /\ CheckEnds
  /\ Stays /\ UNCHANGED <<replica, stash, unwritten, denying, triggers, ghosts>>

\* openAssistantEntry reopens an entry that had ended; the turn's own entry, if it
\* is here, is processing.
OpenEntry ==
  /\ check.stage = "open"
  /\ ended' = ended \ {check.turn}
  /\ entry' = [entry EXCEPT ![check.turn] = IF @ = "absent" THEN @ ELSE "processing"]
  /\ HistoryAsks
  /\ Goes("claim")
  /\ Stays /\ UNCHANGED <<meta, memory, watched, notified, draining, ghosts, bounds>>

\* setDispatchProcessing
Claim ==
  /\ check.stage = "claim"
  /\ SetMeta([meta EXCEPT !.processing = check.turn])
  /\ Goes("prompt")
  /\ Stays /\ UNCHANGED <<entry, ended, memory, watched, draining, queued, ghosts, bounds>>

Prompt ==
  /\ check.stage = "prompt"
  /\ SetMeta([meta EXCEPT !.active = TRUE])
  /\ prompted' = [prompted EXCEPT ![check.turn] = @ + 1]
  /\ Goes("agent")
  /\ Stays /\ UNCHANGED <<entry, ended, memory, watched, draining, queued, lost, bounds>>

\* markPromptWorkingEnded
PromptEnds ==
  /\ check.stage = "agent"
  /\ SetMeta([meta EXCEPT !.active = FALSE])
  /\ Goes("finalize")
  /\ Stays /\ UNCHANGED <<entry, ended, memory, watched, draining, queued, ghosts, bounds>>

\* finalizeTurn; an agent that put nothing out has failed.
Finalize ==
  /\ check.stage = "finalize"
  /\ ended' = ended \cup {check.turn}
  /\ HistoryAsks
  /\ \/ check' = [check EXCEPT !.stage = "record", !.outcome = "handled"] /\ UNCHANGED bounds
     \/ check' = [check EXCEPT !.stage = "record", !.outcome = "silent"] /\ Fault
  /\ Stays /\ UNCHANGED <<entry, meta, memory, watched, notified, draining, ghosts>>

\* The run awaits something that may throw, up to the metadata write that completes
\* setDispatchHandled: then the entry says already how the turn ended.  What handles
\* a failure does not fail itself.
MayThrow ==
  \/ check.stage \in {"open", "claim", "prompt", "agent", "finalize"}
  \/ check.stage \in {"record", "publish"} /\ check.outcome \in {"handled", "silent"}

\* handleVisibleTurnUnhandledError: the turn is recorded, or recorded again, as failed.
RunFails ==
  /\ MayThrow /\ Fault
  /\ check' = [check EXCEPT !.stage = "record", !.outcome = "failed"]
  /\ Stays /\ UNCHANGED <<replica, memory, triggers, ghosts>>

\* (mutant) the outcome is written as it is
StatusRaw(outcome) == outcome

Status(outcome) == IF outcome = "handled" THEN "handled" ELSE "failed"

\* setTerminalUserTurnStatus: a turn without an entry is remembered in memory.
WriteStatus(t, status) ==
  /\ IF entry[t] = "absent"
       THEN unwritten' = [unwritten EXCEPT ![t] = status] /\ UNCHANGED <<entry, queued>>
       ELSE entry' = [entry EXCEPT ![t] = status] /\ HistoryAsks /\ UNCHANGED unwritten
  /\ stash' = Without(t)

Record ==
  /\ check.stage = "record"
  /\ WriteStatus(check.turn, Status(check.outcome))
  /\ Goes("publish")
  /\ Stays /\ UNCHANGED <<ended, meta, retry, denying, watched, notified, draining, ghosts, bounds>>

\* (mutant) the claim is dropped, and the turn is not recorded as handled
PublishClears ==
  /\ check.stage = "publish"
  /\ SetMeta([meta EXCEPT !.processing = 0, !.active = FALSE]) /\ queued' = TRUE /\ CheckEnds
  /\ Stays /\ UNCHANGED <<entry, ended, memory, watched, draining, ghosts, bounds>>

\* (mutant) a finished turn does not ask for the next
PublishAsksNothing ==
  /\ check.stage = "publish"
  /\ SetMeta([meta EXCEPT !.handled = check.turn, !.processing = 0, !.active = FALSE])
  /\ CheckEnds
  /\ Stays /\ UNCHANGED <<entry, ended, memory, watched, draining, queued, ghosts, bounds>>

\* setDispatchHandled, markTurnFailed; a turn that came to its end asks for the next
\* (processMessageQueue).
Publish ==
  LET handledMeta == [meta EXCEPT !.handled = check.turn, !.processing = 0] IN
  /\ check.stage = "publish"
  /\ \/ /\ check.outcome \in {"handled", "silent"}
        /\ SetMeta(handledMeta) /\ queued' = TRUE /\ CheckEnds
     \/ check.outcome = "failed" /\ SetMeta(handledMeta) /\ Goes("clean") /\ UNCHANGED queued
     \/ /\ check.outcome = "denied"
        /\ SetMeta([handledMeta EXCEPT !.active = FALSE]) /\ HistoryAsks /\ CheckEnds
  /\ Stays /\ UNCHANGED <<entry, ended, memory, watched, draining, ghosts, bounds>>

\* handleTurnError: finalizeACPState ends the assistant entry of a failed turn, too.
Clean ==
  /\ check.stage = "clean"
  /\ ended' = ended \cup {check.turn}
  /\ SetMeta([meta EXCEPT !.active = FALSE])
  /\ HistoryAsks
  /\ CheckEnds
  /\ Stays /\ UNCHANGED <<entry, memory, watched, draining, ghosts, bounds>>

-----------------------------------------------------------------------------
(* The background verification of forkAccessRetry                          *)

RetryAllowed ==
  /\ retry # 0 /\ retry \notin refused
  /\ retry' = 0 /\ queued' = TRUE
  /\ Stays /\ UNCHANGED <<replica, stash, unwritten, denying, watched, notified, draining,
                          check, ghosts, bounds>>

\* It is off the chain: between its two writes checks go on.
RetryDenied ==
  /\ retry \in refused /\ denying = 0
  /\ WriteStatus(retry, "failed")
  /\ denying' = retry /\ retry' = 0
  /\ Stays /\ UNCHANGED <<ended, meta, watched, notified, draining, check, ghosts, bounds>>

RetryPublishes ==
  /\ denying # 0
  /\ SetMeta([meta EXCEPT !.handled = denying, !.processing = 0, !.active = FALSE])
  /\ HistoryAsks
  /\ denying' = 0
  /\ Stays /\ UNCHANGED <<entry, ended, stash, unwritten, retry, watched, draining, check,
                          ghosts, bounds>>

-----------------------------------------------------------------------------
(* Crashes                                                                 *)

\* The replicas are on disk; start() scans the metadata of every session.
Crash ==
  /\ bounds.crashes < MaxCrashes /\ bounds' = [bounds EXCEPT !.crashes = @ + 1]
  /\ stash' = [t \in Turns |-> 0] /\ unwritten' = [t \in Turns |-> "none"]
  /\ retry' = 0 /\ denying' = 0
  /\ watched' = FALSE /\ notified' = TRUE /\ draining' = FALSE /\ queued' = FALSE
  /\ check' = Idle
  /\ prompted' = [t \in Turns |-> 0]
  /\ lost' = lost \cup {t \in Turns : unwritten[t] # "none"}
                  \cup (IF Pending(meta) = 0 THEN 1..meta.latest ELSE {})
  /\ UNCHANGED <<sent, refused, replica>>

-----------------------------------------------------------------------------

Network ==
  \/ Send
  \/ \E t \in Turns : EntryArrives(t) \/ PointerArrives(t) \/ OfferTurn(t) \/ OfferExpires(t)

Look == FindNothing \/ \E t \in Turns : Repair(t) \/ FindEntry(t) \/ FindOffer(t)

Run ==
  \/ AccessAllowed \/ AccessDenied \/ AccessIndeterminate
  \/ OpenEntry \/ Claim \/ Prompt \/ PromptEnds \/ Finalize \/ RunFails
  \/ Record \/ Publish \/ Clean

Check == StartCheck \/ Look \/ Settle \/ WaitSynced \/ WaitTimeout \/ MarkMissing \/ Dispatch \/ Run

Verification == RetryAllowed \/ RetryDenied \/ RetryPublishes

Next == Network \/ Reconcile \/ Check \/ Verification \/ Crash

Spec == Init /\ [][Next]_vars

\* Replication and the drain go on, an agent's prompt ends, the wait has its timer,
\* the verification gets its answer; an offer need not arrive.
FairSpec ==
  /\ Spec
  /\ \A t \in Turns : WF_vars(EntryArrives(t)) /\ WF_vars(PointerArrives(t))
  /\ WF_vars(Reconcile) /\ WF_vars(Check) /\ WF_vars(WaitTimeout)
  /\ WF_vars(RetryAllowed \/ RetryDenied) /\ WF_vars(RetryPublishes)

-----------------------------------------------------------------------------
(* Properties                                                              *)

Checks ==
  [stage: Stages, turn: 0..LastTurn, outcome: Outcomes, seen: Metas, recheck: BOOLEAN,
   synced: BOOLEAN, leave: BOOLEAN]
Bounds == [offers: 0..MaxOffers, faults: 0..MaxFaults, crashes: 0..MaxCrashes]

TypeOK ==
  /\ sent \in 0..LastTurn /\ refused \subseteq Refusable
  /\ entry \in [Turns -> {"absent"} \cup Dispatchable \cup Terminal]
  /\ ended \subseteq Turns /\ meta \in Metas
  /\ stash \in [Turns -> 0..MaxOffers] /\ unwritten \in [Turns -> {"none"} \cup Terminal]
  /\ retry \in 0..LastTurn /\ denying \in 0..LastTurn
  /\ watched \in BOOLEAN /\ notified \in BOOLEAN /\ draining \in BOOLEAN /\ queued \in BOOLEAN
  /\ check \in Checks
  /\ prompted \in [Turns -> Nat] /\ lost \subseteq Turns
  /\ bounds \in Bounds

\* One life of the daemon prompts a turn at most once, though its payload comes by
\* RPC and by history, in either order and repeatedly, and checks are asked for by
\* every history change.
PromptedOnce == \A t \in Turns : prompted[t] <= 1

\* The run of turn t has failed, and is about to record it.
Fails(t) == check.turn = t /\ check.stage = "record" /\ check.outcome = "failed"

\* Of one turn: an answered entry stays, but for a failure of the run that answered
\* it, and it is not prompted again.
AnswerStays(t) ==
  /\ entry[t] \in Terminal => entry'[t] = entry[t] \/ (Fails(t) /\ entry'[t] = "failed")
  /\ entry[t] \in Terminal \/ meta.missing = t => prompted'[t] <= prompted[t]

\* How a turn's entry says it ended is final: no later check, offer, repair or denial
\* rewrites the entry, in this life or the next.  The one exception is the turn's own
\* run, which calls it failed when it fails after it had called it handled; no failed
\* turn becomes a handled one.  And neither a turn that has ended nor one that the
\* metadata calls missing is prompted, from its late entry or from an offer.
AnswerIsFinal == [][\A t \in Turns : AnswerStays(t)]_vars

HasEnded(t) == entry[t] \in Terminal \/ unwritten[t] # "none"

\* The recovery reports a turn missing that this life of the daemon has run only if
\* another turn has ended, which may have taken the handled pointer from it.
RunIsNotAccused ==
  \A t \in Turns :
    meta.missing = t /\ prompted[t] > 0 => \E u \in Turns \ {t} : HasEnded(u)

AtRest ==
  /\ \A t \in 1..sent : HasEnded(t) \/ t \in lost
  /\ check.stage = "idle" /\ ~queued /\ ~notified /\ ~meta.active

\* In whatever order entries, pointers and offers arrive, and although the drain never
\* adds a check behind a running turn, the session comes to rest: every turn has ended
\* or is lost, no status is left that no turn owns, and checks do not wake each other
\* for ever.
EventuallyAtRest == <>[]AtRest
=============================================================================
