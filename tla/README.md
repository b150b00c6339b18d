# Verification of molly-design

TLA+ models of the parts of molly-design whose correctness depends on the order
in which processes, awaits, crashes and failing writes happen, model-checked
with TLC on small instances and proved with TLAPS, where that is within its
reach, for all values of the constants. Paths below are relative to the
repository; `Name.tla` is in this directory.

## The system

molly-design runs coding and design agents in *sessions*. A worker process (the
CLI daemon, `apps/cli`) executes the sessions of a machine, each session's
history is a Loro document, and a daemon runner or the desktop application
(`apps/electron`) supervises the worker. The parts that carry its own logic:

| Component | State | Operations | Hard because |
|---|---|---|---|
| Operation store `orchestration/operation-store.ts` | SQLite: operations, items, deliveries, execution state, claims, retention mark | accept, items, materialization claims, finish, cancel, delivery claims, recovery, cleanup | shared by the worker and every MCP process; retention runs inside reads |
| Operation coordinator `orchestration/operation-coordinator.ts` | per workspace: chains, queued and dirty ids, observed settlements, timers | wake, reconcile items, deliver completions, start, stop | many awaits, stop does not wait, crashes, failing writes, wakes that nothing repeats, lapsing claims |
| Session execution `session/session-execution-service.ts` | one runtime per session, steering, settlement | run a visible turn, claim, start fence, prompt, steer, cancel, settle, design outcome | callbacks into the coordinator; ownership released before settlement |
| Dispatch watcher `session/session-dispatch-watcher.ts` | per session: watch, check chain, RPC offers, access retry; pointers in the metadata | reconcile, check, wait, recover, repair, offer, dispatch | entry, pointer and offer of a turn arrive in any order; checks act on metadata they read before an await of minutes |
| MCP server `mcp/molly-mcp-server.ts` | none durable | create, chat, create_many, cancel | other process, retries on a busy store |
| Design lock and store `design/lock.ts`, `store.ts` | lock file, `design.json`, projection directory | save, create, read, repair | two processes, stale locks, CAS |
| Design history, turn outcome `design/history.ts`, `turn-outcome.ts` | git history, frozen input, receipt, stamp | append, restore, collect, cancel | several durable steps, crash windows |
| CLI supervisor `packages/cli-supervisor` | child, lease, retries, polls, lifecycle queue | start, stop, restart, probe, take over | exits racing stops, kill failures, two hosts |
| Documents and sync `lib/loro/*` | in-memory and saved documents, rooms | persist, recover, sync | coalesced saves, reconnects |
| Machine RPC `packages/loro-streams-rpc` | calls in a synced log | call, answer, expire | duplicates, timeouts |

How they interact: a tool call in an agent's session inserts an *Operation*
(accept); its items are materialized as turns of target sessions; when all end,
finish() stores the completion and a *delivery* in one transaction. The
coordinator wakes (file watcher, metadata, timers), and its per-session chain
claims the delivery, runs a continuation turn in the requester's session through
the execution service, which calls back `onTurnClaimed`, `onTurnStarted` and
`onTurnSettled`, and finally consumes it. If a turn cannot run, the delivery is
finalized: the result and a continuation note are written to the history
instead. A turn of a design session gets a frozen copy of the canvas; when it
ends, the daemon collects its draft, saves it under the artwork's lock, appends
a version and stamps the verdict on the turn's history entry.

What makes each correct: one outcome per Operation and one delivery that tells
it; at most one prompt per delivery over any crash; nothing consumed before it
is told; no claim nobody will settle; every delivery settled in the end; each
input written, once as far as the leases allow, and marked only when written; a
design revision never overwritten unseen, a verdict that says what happened to
the canvas; bounded waiting for the lock; one worker per machine, a stop that
leaves nothing behind; every remote change persisted. `PROJECT.json` lists every
component and hazard, those not modelled too.

## Modules

| Module | Models | Role |
|---|---|---|
| `DeliveryRow` | a row of `deliveries` + `delivery_execution_state` and each method's effect on it | pure operators shared by the next two |
| `OperationStore` (`MCOperationStore`) | every writing method of the store, arbitrary clients | component |
| `OperationDelivery` | delivery half of the coordinator + the turn it drives + stop/start/crash/save | composition, implements `DeliveryContract` |
| `DeliveryWakes` | what wakes the delivery half, and which wakes can be counted on | liveness of `OperationDelivery` |
| `DeliveryContract` | what a delivery promises | abstract specification |
| `OperationReconcile` (`MCOperationReconcile`) | item half of the coordinator, the accepting MCP process, cancel, deadlines | composition |
| `DesignLock` (`MCDesignLock`) | the lock file protocol around the save's compare-and-swap | component |
| `DesignCanvas` (`MCDesignCanvas`) | store, projection, history and turn outcome of one artwork | composition over the lock's promise |
| `SessionDispatch` | the dispatch watcher for one session and the turn it awaits | composition |
| `CliSupervisor` (`MCCliSupervisor`) | the supervisors of two hosts, their workers, the lease and the port | component and composition |
| `PersistCoalescer` | the coalescer of remote-sync persists and its teardown | component |
| `*Proofs` | the theorems about the module of that name | proofs |

**DeliveryRow / OperationStore.** A method is one `BEGIN IMMEDIATE` transaction,
so one action. `db[o]` is the row of key `o` in all tables (foreign keys
cascade). Every method that calls get() or accept() also runs the retention
cleanup, in the same action. Clients are unconstrained: any call, any
arguments, any time. A throwing call changes nothing. An item's input is
'active' or 'durable'; names, prompts and results are abstracted to the kind of
completion and the item states it carries. A claim is the pair of columns.
The key's ids are kept across deletion, `starts` restarts with a new row.

**OperationDelivery.** A coordinator `g` is one workspace handler instance: new,
running, stopped or dead. Its chain `chain[g].at` is the await it stands at, and
each action is the code between two awaits: `lookup` (deliverIfRunnable up to
the session metadata), `config`, `turn`, `claim`, `prepare`, `body`, `prompt`,
`release`, `settle`, `residual`, `after`, `consume`. `chain[g].snapshot` is the
row read before the lookup, which the later decision uses although the row may
have moved. `shown` is the turn in the in-memory document, `saved` the saved
one; Save is the repository's own, at any time. The history action is applied
synchronously, so claim and write are one step. `observed` is
observedDeliverySettlements; its `note` is pendingHistoryWrite. Random ids are
"an id nothing refers to"; the guard `IdLeft` ends the model where none is left,
which never happens in the runs. Environment: user turns, blocked sessions,
missing configuration, refused and interrupted turns, steering, failing store
and history writes, expiry, stop() with a failing abandon, crash. A wake may
come at any time; a wake for a delivery that is being looked at sets its dirty
mark and nothing else.

**DeliveryWakes.** The coordinator does not poll. `due` is a wake that has been
scheduled: by start(), by a change of the store's files (the directory watcher's
10 ms timer, which batches what comes until it fires), or by the end of what
blocked a look (a metadata change of the session, the configuration's retry
timer). A failing store write is SQLITE_BUSY, so another process is about to
commit and the watcher reports that. Wakes that nothing scheduled may come as
well, and are not counted on. The dirty mark is therefore the only memory of an
event that comes during a look, and EventuallyConsumed fails without it. Left
out are the two looks whose end is no event: while the session's turn is a
user's (`operation-coordinator.ts:1132`) and while its history is being
rewritten (`session-execution-service.ts:2861`). Neither the release of the turn
nor that of the rewrite's barrier wakes the coordinator; a delivery that was
looked at just before waits for the next event of the workspace. A reconciliation
that throws before it reaches the deliveries is left out too.

**OperationReconcile.** `db` is the store's row; `here`, `there` and `sent` are
what the worker's replica, the acceptor's replica and Loro Streams have of an
input: its turn (by who appended it), its end, its pointer. Turn and pointer
travel separately. The acceptor's push is a best effort that nobody waits for,
so a catch-up finds its turn or does not. The acceptor works item by item
(write, pointer, mark); the coordinator takes one queued reconciliation at a
time and reconciles the items of an Operation concurrently (`check`, `sync`,
`write`, `pointer`, `mark`, ...), each from the list read at its beginning;
`fold` joins them and overwrites the list, `finish` decides. `task["stray"]` is
what an aborted reconciliation left running. A claim is a lease of 60 s that
lapses at any time, whatever its holder does: nothing renews it and nothing
fences a holder that outlived it. Replicas are in memory: a worker that restarts,
or an acceptor that ends, keeps some of what it had written and loses the rest,
and `here` is not flushed before the store is told that an input is durable.
Timers are sets of armed Operations. Environment: how target turns end, a lost
acceptor, a restarted worker, failed reads, writes and syncs (these share the
bound MaxMishaps), operation_cancel, the deadline.

So the code can write an input twice, and can lose one it calls durable, and the
model does both. Three history variables say when, and the properties say that it
is only then: `missed` (the worker took the claim over from an acceptor that was
still to write, or caught up before the acceptor's turn had been pushed), `lost`
(a process ended that had the only copy) and `trouble` (what failed).

Abstracted: queued wakes collapse to one; a rejected write before the dispatch
pointer leaves no trace (the late rollback of `commands/session.ts:2591` is not
modelled); a worker that stops takes its tasks along; progress cards
(writeOperationProgress) are left out; what the worker wrote does not reach the
acceptor's replica; the ways from one
process to the other besides Streams (the shared SQLite store of the documents,
the local data plane of `lib/command-runtime.ts:220`) are the action Arrive, at
any time or never; a part that survived one restart may be
gone after the next, which the code cannot do.

**DesignLock.** One call of withDesignLock per save; each file-system call is an
action. A lock file is identified with the call that created it (one token and
at most one file per call). Time is an integer clock that may advance between
any two steps, as wall clock and timers do when a machine sleeps. Revisions are
content ids; `c3` repeats the bytes of `c1` to have equal revisions.

**DesignCanvas.** One artwork. A process is a record with a program counter:
users' requests (save, append, create-version, restore) in worker processes, and
in the daemon the freezing of a turn's input (`dispatch`), the before-agent
version (`before`), the collection and the cancel of the turn. The artwork's
lock and the repository's lock are held or lost as a whole: DesignLock shows
when that is so, and its open window is the variable `exposed` here (a lock lost
between assertHeld and the rename of design.json). A projection is replaced
between its assertHeld and the rename of its directory in one step. A version is
appended in two, assertHeld (`history.ts:220`) and `git update-ref` (:221), which
compares the branch's head. If the lock is lost between them, a second process
may find no version, wait, and append on the first one's head: then one revision
has two saved versions. `unguarded` holds the revisions for which the lock was
lost there, and OneSavedPerRevision excludes them. Versions are
a sequence of saved, before-agent, agent and restore entries, whose action
identity makes retries idempotent. History variables record the writes
(`landed`), a stop during collection (`raced`), and a daemon that died between
commit and receipt (`forgotten`). When the projection fails after the canonical
save, collection reports 'invalid' although the canvas holds the turn's commit;
that is in the model and VerdictIsTrue says so. The before-agent version is a
background best effort; a resubmission's base is not recorded as one. Left out:
the native terminal gate, missing history entries, candidates, creation markers,
validation of assets.

**SessionDispatch.** `meta` is the machine's replica of the session's pointers
(`latestUserMsgId`, `processingUserMsgId`, `lastHandledUserMsgId`,
`lastMissingHistoryUserMsgId`, `settledActivationUserMsgId`) and whether its
status is active, `entry` the replica of the history. A turn is its number in
the order of the pointers' clocks. `check` is the one running check: `read`
(first look), `settle`, `wait`, `missing` (recovery), then the stages of the
dispatched turn up to its record; `seen` is the metadata it read, which it goes
on using through the wait. `queued` is the check in the chain that has not
started, `notified` and `draining` are the metadata drain, which waits for a
check's initial probe and never adds a check to a chain that exists. A failing
run, an unverifiable access, an agent without output and an expired offer share
the bound MaxFaults. A run may fail at any await up to the metadata write that
completes setDispatchHandled, so also when its entry says 'handled' already
(`session-execution-service.ts:3251` and :2354 then record it as failed); what
handles a failure does not fail itself. The recovery's metadata and history
writes are one step, as are the status writes of one turn's end that no other
actor reads in between; the record of a turn's end and the move of the handled
pointer are two, off the chain too (`denying`). Only turns of an existing
session are modelled (the continue path). `prompted` counts one life of the
daemon; `lost` records turns reported missing, older turns that were absent when
a later one used up the pointer, and what a crash forgets.

**CliSupervisor.** `sup[h]` is one supervisor's fields; `queue` is its lifecycle
queue, `at` the await of the task at its head. The lease is a listening socket,
so a host's crash frees it while its worker may live on as an orphan that still
serves the data plane (`port`). Attached hosts (the desktop) observe another
host's runtime and poll it; others reject it. Delays, back-off, grace periods,
failure windows and the healthy-run timer are nondeterministic choices. A worker
of a `Stubborn` host may survive SIGKILL. Generations are counted, so a settled
run or a retry of an older generation is recognised as in the code.

**PersistCoalescer.** Changes are counted; a flush makes durable what was in
memory when it began. `flights` would hold more than one flush if the class let
two run. cleanUp's flushNow and destroy are `phase`.

## Runs

| Run | Bounds | Shows |
|---|---|---|
| operation_store | 1 key, 1 item, 2 boots, 1 claim id per boot, 2 tokens, 2 attempts, clock 0..2, symmetry over boots and tokens | the store's invariants, final outcomes, retention |
| delivery_refinement | 2 deliveries, 1 coordinator that is neither stopped nor dies (SteadySpec), 1 fault, 1 block, 1 user turn | DeliveryContract with a shared chain, queue and dirty marks; interrupted executions are told |
| delivery_liveness | 1 delivery, 2 coordinators, 1 crash, 1 fault or blocked look, fair, wakes by events | at most one prompt, with its claim; no stranded claim; every delivery is consumed; the contract until a crash |
| delivery_crash_loss | 1 delivery, 2 coordinators, 1 crash | violation, see below |
| reconcile | 1 Operation, 1 item, 1 mishap (failure, lost acceptor or restart), 1 cancel, claims lapse freely, fair | finishes by the deadline, with a true result; an input whose acceptor died is written; twice, or lost after its mark, only in the stated cases |
| reconcile_local | 1 Operation, 1 item, 1 mishap, no cancel, no Streams transport | violation, see below |
| design_lock | 2 saves, stale after 2 ticks, budget 1, clock 0..4, 1 crash, fair | exclusion, lost revisions only through the documented window, every call ends |
| design_canvas | 2 symmetric workers, 1 turn, 2 requests, 1 fault | nothing overwritten unseen, versions duplicated only in the window of update-ref, the verdict is true |
| design_cancel | 1 worker, 1 turn, 1 request | violation, see below |
| session_dispatch | 2 turns, 1 of them refusable, 1 offer, 1 fault, 1 crash, fair | no turn runs twice, none that ended is touched again but by its own late failure, none that ran is reported missing for its own pointer, the session comes to rest |
| cli_supervisor | 2 hosts, 2 worker slots, threshold 2, 3 commands, 1 fault, 2 queued tasks, fair | one covered worker, clean stops, pursued intent, eventual service |
| persist | 2 reasons, 5 changes, fair | one flush at a time, nothing dropped, everything durable in the end |

The bounds suffice because each hazard needs few actors: a claim is fought over
by at most an old and a new coordinator; the attempt limit is 2 in the code and
in the model, so exhaustion happens; 4 claim ids are more than the ids in use at
once; a steal race needs a holder and a stealer, and the proofs cover any number
of calls; the clock passes the stale age with room for the thief to create and
lose; a lost update needs two writers; a stale item list needs a mark between
read and write, which one item has; a pointer is taken over by one other turn; a
generation mix-up needs three commands (start, stop, start) and a takeover two
hosts. One fault reaches every catch block once, and where a property needs it
to be one (NoStrandedClaim, ImplementsContract), this README says so. In
reconcile one mishap is enough for each exception to occur: an outlived claim
and a late push need none, a lost input needs one. Crashes stop with the bound
because the last process must be given a chance to finish. CHECK_DEADLOCK is off
where the system may rest: all deliveries consumed, all calls ended, no request
left.

Four runs leave out the TypeOK that TLAPS proves (OperationStore,
OperationDelivery, DesignLock, OperationReconcile). The TypeOK of CliSupervisor
holds on the instance of its run and is not listed there either.

Runs that end in a violation, each a finding in `PROJECT.json`:

- **delivery_crash_loss**: consume, then crash before the document is saved: the
  completion is nowhere. The progress path flushes the repository before its
  SQLite acknowledgement and says it must; the completion path does not. The
  restart is otherwise sound: PromptedAtMostOnce and NoStrandedClaim hold.
- **reconcile_local**: the replay of an input whose acceptor died first catches
  its document up, and that throws when no Streams transport is attached, as on
  the local platform; the item ends as TARGET_TIMEOUT instead.
- **design_cancel**: a stop that arrives while the turn's collection runs stamps
  'cancelled' and the orphaned collection saves the draft all the same.

Statements of the code that the models contradict and no run is spent on:

- Two failing calls in a row, the history write of `onTurnClaimed` and the
  release in its catch block (`operation-coordinator.ts:1258`): the exception
  becomes a defect of the turn, which is settled 'handled', and the delivery is
  consumed untold. ImplementsContract therefore holds with one fault only.
  NoStrandedClaim as well: after two failed settlements the claim waits for the
  coordinator to stop or restart.
- The header of `design/lock.ts` on stealers (:28, code :127), on releases (:31,
  code :165) and on late waiters (:43, code :194) is true only if nothing
  happens between a check and the rename or unlink it is for. What follows is
  bounded by the proved LossNeedsOpenWindow.
- After a failed SIGKILL, `start()` clears the verdict but reconcile returns at
  once because the run is still active; when the old child exits, nothing
  launches again, although "Only a redundant start of an already-healthy
  supervisor is a no-op." WantedIsPursued and EventuallyServed exclude hosts in
  `outlived`. A poll during a retry delay observes an external runtime without
  an identity, which `supervisor.test.ts:671` excludes for the probe.
- `flushNow` returns at once while a flush runs, so at teardown the comment
  "a pending window cannot swallow the last persist" is not true of the changes
  that came during that flush (they are asked for, but no window opens; hence the
  phase in EventuallyDurable). `cancel()` has
  no caller. Only callbacks of a Streams transport request persists.
- `session-dispatch-watcher.ts:2328` says that the recovery does not accuse a
  turn that already ran, because its pointer is settled. A pointer is settled
  only when the turn's entry is there. A turn that ran from its offer, and whose
  handled pointer another turn's end took, is pending again; if its entry does
  not come within five minutes it is reported missing. RunIsNotAccused states
  what remains true: without another ended turn it does not happen.
- The missing-history exclusion is called permanent for its exact turn
  (`session-dispatch-logic.ts:313`), but `lastMissingHistoryUserMsgId` is one
  slot: the next report evicts it, and the CLI's own producer clears it
  (`commands/session.ts:1568`), after which the late entry may run.
  AnswerIsFinal speaks of the turn while the marker names it.
- The wait for one turn ends by accusing whatever is pending by then
  (`session-dispatch-watcher.ts:2719`), which may be a newer turn that was given
  less than its five minutes.
- A turn whose entry comes after a newer turn used up the pointer stays pending
  until something else watches the session (`lost`), and so does one whose
  pointer a crash finds used. A metadata event during a check reuses that check
  (`session-dispatch-watcher.ts:578`), so a pointer that is cleared of its marker
  then may not be looked at again.
- "Only this proves 'handled'" (`session-dispatch-watcher.ts:2837`): the
  assistant entry of a failed turn gets its end as well (handleTurnError,
  finalizeACPState), so after a restart a failed turn's late entry is repaired
  to 'handled'.
- An item is marked durable as soon as its input is written in memory
  (`operation-coordinator.ts:668`), and progress is acknowledged only after a
  flush because "The SQLite acknowledgement must never outrun local Loro
  durability." (:473). After a crash in between, the store has a durable item
  whose input is nowhere, which nobody writes again; the Operation waits for its
  deadline. The materialization claim is no mutual exclusion either: an acceptor
  that needs more than 60 s writes beside the worker that took its claim over.
  See DurableIsWritten and InputWrittenOnce.
- A turn that was recorded as handled is recorded again, as failed, when the
  metadata write after it throws. AnswerIsFinal allows it, and only it.
- A delivery that was refused because of a running user turn or a rewrite of the
  history is not looked at again when that ends, but with the next event (see
  DeliveryWakes), whereas enqueueDelivery counts on a wake that "can carry the
  state transition that makes an earlier transient return runnable" (:936).
- A target document that can never be read throws out of the reconcile loop and
  starves the Operations after it (`operation-coordinator.ts:366`); a finish the
  store refuses at the deadline's wake leaves the Operation active until another
  wake. EventuallyFinished supposes neither repeats for ever.

## Fairness

`DeliveryWakes!FairSpec`: weak fairness of the chain's steps (promises
settle; a provider's answer is awaited without limit in the code, so this
assumes it comes), of starting a replacement coordinator, and of a wake that is
scheduled. No other wake is assumed: one that comes for a delivery that is being
looked at is remembered by its dirty mark or not at all.
`OperationReconcile!FairSpec`: the coordinator's and the acceptor's steps, the
store's directory watcher, each timer that is armed, and the lapse of a claim; no
spontaneous wake, no push, save or replication.
`DesignLock!FairSpec`: each call's own steps and the clock.
`SessionDispatch!FairSpec`: replication of what was sent, the drain, the steps of
a check and its run (an agent's prompt is assumed to end), the wait's timer
after the metadata's events were reconciled, and an answer of the background
verification; offers need not arrive.
`CliSupervisor!FairSpec`: each host's queue, its retry and poll timers, a
launched worker that serves or is told to end. `PersistCoalescer!FairSpec`: the
window's timer and the end of a flush. Nothing makes faults, blocks, crashes,
stops, cancels, steers, requests or saves happen.

## Proofs

Each holds for all values of the constants under the named assumptions of its
module.

*Store* (`OperationStoreProofs`). The inductive invariant joins TypeOK,
DeliveryTellsCompletion, ClaimDiscipline and StartedAtMostOnce: the last is not
inductive alone, since a start must not be possible from a row that was started
and given back, which is what the phases and claims say. Each transition of
DeliveryRow is a lemma; each store action then preserves the row's part by lemma
and the rest directly. The two action properties follow from the same invariant:
each step keeps a key's row or removes it for a reason (Kept). That a second
finish() does not offer a consumed delivery again rests on the invariant's
agreement of state and delivery. The run has one key, the theorem any number:
the cleanup runs inside calls for other keys.

*Delivery* (`OperationDeliveryProofs`): any number of deliveries, coordinators,
boots, claim ids, faults and crashes. PromptedAtMostOnce needs that a row that
was started or given up stays spent (Spent), that no two parties hold the same
claim, which follows from fresh ids being nobody's (Unique), and that a chain on
its way to its prompt does not find its own claim started already (Unstarted).
PromptHoldsClaim is of the one running coordinator: what a stopped one had
claimed may be taken over while its prompt is still out. StepKeeps, Calls and
Moves treat all steps of a chain alike; one lemma per action applies them.
Queued says that the delivery a running chain is busy with is still in its
queue, which TypeOK of the queue needs.

What is told is a second invariant over the first (TellInv). A delivery is
consumed by the holder of its claim, so it is told when whatever a claim is
known to is: a chain that holds one has written the completion (ChainFit), an
observed settlement has, or carries the note that is still due (ObservedFit). A
step of a chain is reduced to what it leaves of one row, one chain and one
observation (TellingStep, StepTells); most are calls with the claim the chain
has (Gives, CallTells). Each action lemma concludes both that the invariant goes
on and that the step is one of DeliveryContract or a stutter, which gives the
refinement: KeepsContract until a crash, Implements where there are none. Their
two hypotheses are where the code stops keeping the contract: a crash takes back
a turn that was not saved (delivery_crash_loss), and a second failing write may
leave a claim whose completion was never written (Failed; see "Statements of the
code that the models contradict"). Both are stated of the behaviour (boot' = 0,
faults' <= 1), so KeepsContract and ResultsAreTold assume nothing of the
constants; Implements, a promise about whole behaviours, bounds them.
UncertainIsTold needs only the hypothesis about the crash.

NoStrandedClaim is a third (HoldInv), stated up to the first failing write, as
the code loses claims after a second one. The property alone is not inductive: a
chain that holds a claim must also be where it can give it up. Standing says
so: at each stage the row is in the phase that the call made there takes, or the
one write has already failed. A claim without a chain is one whose settlement
failed and stays observed (Keeping), so it uses up the failure and the retry
cannot fail again. stop() is where the two meet: if abandoning the claims fails,
nothing failed before, every claim is still a chain's, and that chain's own
settlement gives it up though its coordinator no longer runs. Alive ties chains
and observations to the boot of the process: after a crash every claim is of
another boot, and start() recovers it.

*Reconcile* (`OperationReconcileProofs`): any number of Operations, items,
mishaps and cancels, with claims that lapse at any time. Until the acceptor has
written, the claim is its own and no turn is anywhere, or the item is missed,
because the worker took over a lapsed claim (Accepting); the tasks that are past
their claim know the same (InTask). Later a coordinator appends only where its
own replica has no turn, and it has the acceptor's turn unless that was not
pushed when it caught up, which is missed again (OneWriter). These are why
InputWrittenOnce needs no exclusion between the two processes, which the code
does not have. DurableIsWritten and ResultIsTrue need in addition that what an
item is said to be is true of the replicas, or lost with an ended process, in all
three places that say it, the list that was read, the list an Operation's tasks
work on and the store, and that a list stored late keeps what had ended (Listed,
Told): a reconciliation overwrites the stored list with one it read many awaits
before. A restart keeps the invariant because what is nowhere any more enters
`lost` in the same step. Lemma Keeps reduces a step that writes neither store nor
replicas to its effect on the tasks; each action then has one lemma.

*Session dispatch* (`SessionDispatchProofs`): any number of turns, offers,
faults and crashes. PromptedOnce is inductive only with what connects the places
a turn can be chosen from: what was prompted has ended or is the turn that runs
(PromptedEnds), so choosing a turn must show that it has not ended; a claim left
in the metadata overrides the other signs of an end, so it must be the claim of
a turn this life has not prompted, in the metadata and in the copy the check
looks at (ClaimIsFresh, SeenIsFresh); and while a turn runs nobody else answers
it, but for a run that fails after it has recorded its own end (Unanswered,
FailsToRecord). RunIsNotAccused rests on what the handled pointer still says of
the last turn that ended. AnswerIsFinal is an action property: each step keeps
the answers, or is that late failure's own record (AnswersStay), by the
invariant's RefusedOnlyFail where the background verification of an access
writes beside the chain of checks. The offers are modelled as arrival numbers by
turn and not as a list: an offer that comes again keeps its place in the Map of
the code.

*Design lock* (`DesignLockProofs`): any number of calls, any stale age, budget
and clock bound. Exclusion needs that an unrobbed call in the critical section
has its file at the path. That no revision is lost without an exposed publisher
needs two more parts: a publisher that was not exposed still has the file, and
while the file is there nobody changed the design it compared. Steps that leave
the path and the design alone share the lemma QuietStep, the two removals share
RemoveStep. SafeWhileYoung follows from HolderHasFile and from the ages the
stealers saw.

*Design canvas* (`DesignCanvasProofs`): any number of workers, requests and
faults. WritersMatch: a process between its check and its rename, with the lock
and not exposed, still faces the revision it compared, whence NoLostUpdate. Kept
and SaversFoundNone carry what a process knows about the versions under the
repository's lock: a protective version stays once appended; a process between
its look and update-ref still has the lock and faces no earlier version of its
revision, or its revision is unguarded (FoundNone). The theorem AcksShow is an
action property: a step that reports success to its caller finds the projection
of what it reports, which rests on what the stages under the lock know.
VerdictIsTrue is proved for histories with at most one fault (VerdictTrue): with
two, the receipt and the stamp of a commit can both fail, the entry stays
without a verdict, and a stop that comes later says 'cancelled'. Its invariant
VInv says for each reporter how far it is, what is on record by then (Stage,
Recorded), that the reporters take turns (OneReports), and that a commit without
a record still has its collection at work (Accounted); a step of anybody else is
one lemma (OtherMoves). CanvasTypes proves the types: that the canvas never
names a version the history does not hold needs the same of every revision a
process has read and may still write (Typed), and that a lock's holder is inside
the section it guards needs that who has the repository's lock goes on under it
until it leaves (Under).

*Supervisor* (`CliSupervisorProofs`, which begins with the facts about sequences
it needs): any hosts, slots, commands and faults. Placed says what the stage of
the head task knows of the lease and the run (a launch happens only while the
lease is held and no run is active), Leaving that a stopped supervisor with
something left has its stop still queued. Most actions change one field of one
supervisor, so the lemmas FinishFacts, AlikeSane and SetKeeps are stated once
for all of them. WantedIsPursued rests on a second invariant over the first: a
stale settlement must be recognised as one and a fresh one not dropped, so the
generations of the queued tasks are ordered (Ordered), a worker's end is settled
once and one of this generation is the run's own (Settling), a run of an older
generation has the task that ends it queued (Runs), and a start that came before
a stop was over is queued behind it (Restarting). Each task then either goes on,
leaves a retry or an attached runtime, or was not what the intent rested on
(Follows).

*Coalescer* (`PersistCoalescerProofs`): any reasons and number of changes; the
four safety parts support each other and form one invariant.

Model-checked only: all liveness (see "Fairness").

## Not modelled

- Progress cards, the late acceptor's rollback, a session deleted while its
  delivery chain runs, a document write that fails while another error is being
  recorded before the claim, and a start() whose recovery throws.
- The tools of the MCP server beyond their store calls and the batch sequences.
- Agents, streaming, forks and rewrites of a turn; the turn diff store.
- Of session dispatch: the promotion of queued messages, pauses, steering,
  cancellation, archiving and reassignment, the create path of a new session, and
  the drain's bound over several sessions (its four slots, and the wait of one
  session it holds others up with). A delivery sees dispatch only as the user
  turns it competes with.
- Connection recovery, rooms and the machine RPC: they serve a Streams transport
  that nothing in this repository attaches. Read, but without a reachable
  behaviour to check: a failed wait for the metadata is not retried until the
  next health edge, a deferred meta-synced emit while the room is down clears
  its mark, and the reconnect attempts are uncapped.
- User interface, the vendored design kernel, the third-party agent harness,
  schemas: data and rendering without a protocol of their own.
