----------------------------- MODULE CliSupervisor -----------------------------
(***************************************************************************)
(* The supervisors of the local agent runtime                              *)
(* (packages/cli-supervisor/src/supervisor.ts) in the hosts that embed it: *)
(* the daemon runner and the desktop application.  They compete for one    *)
(* lease, a listening socket of the operating system                       *)
(* (packages/shared/src/node/local-cli-host-lease.ts), and their workers   *)
(* compete for one data-plane port.                                        *)
(*                                                                         *)
(* A supervisor is one record.  Its commands change it at any time; its    *)
(* tasks run one at a time from the lifecycle queue, each action being the *)
(* code between two awaits.  What a timer decides (grace periods, retry    *)
(* delays, failure windows) may happen at any moment.                      *)
(***************************************************************************)
EXTENDS Integers, Sequences

CONSTANTS
  Hosts,        \* host processes that embed a supervisor
  Attaching,    \* existingRuntimePolicy 'attach': the desktop; others 'reject'
  NoHost,
  Slots,        \* process ids a host's workers may get
  NoWorker,
  Threshold,    \* probeFailureThreshold
  MaxCommands,  \* bound: start, stop, restart and startProbing calls
  MaxFaults,    \* bound: exits, failed launches, lost probes, host crashes
  MaxQueue,     \* bound: queued tasks beyond which no timer adds another
  Stubborn      \* hosts whose workers may survive the wait after SIGKILL

ASSUME SupervisorAssumption ==
  /\ Attaching \subseteq Hosts /\ NoHost \notin Hosts
  /\ NoWorker \notin Hosts \X Slots
  /\ Threshold \in Nat \ {0}
  /\ MaxCommands \in Nat /\ MaxFaults \in Nat /\ MaxQueue \in Nat \ {0}
  /\ Stubborn \subseteq Hosts

VARIABLES
  sup,       \* the supervisor of each host
  lease,     \* the host that listens on the lease's endpoint
  alive,     \* worker processes
  port,      \* the worker that serves the data plane
  commands, faults,
  outlived   \* history: hosts whose worker survived SIGKILL

vars == <<sup, lease, alive, port, commands, faults, outlived>>
budget == <<commands, faults, outlived>>

Workers == Hosts \X Slots
Host(w) == w[1]

ReconcileStages == {"acquire", "acquired", "occupied", "probe", "prepare"}
Stages == {"entry", "decide", "grace", "forced", "inspect", "fetch", "fetchProbe"}
            \cup ReconcileStages

\* An entry of lifecycleQueue; a settled run carries its worker and how it ended.
Tasks == [kind: {"reconcile", "stop", "restart", "settled", "poll"}, gen: 0..MaxCommands * 2,
          worker: Workers \cup {NoWorker}, busy: BOOLEAN]

Fresh == [up |-> TRUE, desired |-> "stopped", probeOnly |-> FALSE, gen |-> 0,
          active |-> NoWorker, runGen |-> 0, held |-> FALSE,
          ext |-> NoWorker, extHost |-> NoHost, seen |-> NoHost,
          retry |-> 0, fatal |-> FALSE, polling |-> FALSE, polled |-> FALSE,
          misses |-> 0, queue |-> <<>>, at |-> "entry"]
Down == [Fresh EXCEPT !.up = FALSE]

Set(h, s) == sup' = [sup EXCEPT ![h] = s]
Attaches(h) == h \in Attaching
Task(h) == Head(sup[h].queue)
Busy(h) == sup[h].up /\ sup[h].queue # <<>>
AtStage(h, stage) == Busy(h) /\ sup[h].at = stage
Entry(h, kind) == AtStage(h, "entry") /\ Task(h).kind = kind
Fault == faults < MaxFaults /\ faults' = faults + 1

\* isCurrent
IsCurrent(s, g) == s.gen = g /\ s.desired = "running"
Current(h) == IsCurrent(sup[h], Task(h).gen)

-----------------------------------------------------------------------------
(* Helpers of the class, on the record of one supervisor                   *)

BeginGeneration(s) == [s EXCEPT !.gen = @ + 1]

ResetForExplicitStart(s) ==
  [s EXCEPT !.probeOnly = FALSE, !.fatal = FALSE, !.retry = 0, !.misses = 0,
            !.ext = NoWorker, !.extHost = NoHost]

Enqueue(s, kind) ==
  [s EXCEPT !.queue = Append(@, [kind |-> kind, gen |-> s.gen, worker |-> NoWorker, busy |-> FALSE])]

StopPolling(s) ==
  IF s.polling THEN [s EXCEPT !.polling = FALSE, !.polled = FALSE] ELSE s

MarkFatal(s) == StopPolling([s EXCEPT !.fatal = TRUE, !.retry = 0])

ScheduleRetry(s, g) ==
  IF IsCurrent(s, g) /\ ~s.fatal THEN [s EXCEPT !.retry = g] ELSE s

\* scheduleRetry with countFailure: the failure window may be full.
Failures(s, g) == {ScheduleRetry(s, g), MarkFatal(s)}

\* observeExternalRuntime
ObserveExternal(h, s, w, owner) ==
  IF Attaches(h)
  THEN [s EXCEPT !.ext = w, !.extHost = owner, !.misses = 0, !.retry = 0]
  ELSE MarkFatal([s EXCEPT !.ext = w])

Detach(s) == [s EXCEPT !.ext = NoWorker, !.extHost = NoHost]

Missed(s) == [s EXCEPT !.misses = IF @ < Threshold THEN @ + 1 ELSE @]

Go(s, stage) == [s EXCEPT !.at = stage]

\* The task ends; that of a poll resets pollQueued.
Finish(s) ==
  [s EXCEPT !.queue = Tail(@), !.at = "entry", !.seen = NoHost,
            !.polled = IF Head(s.queue).kind = "poll" THEN FALSE ELSE @]

\* reconcile, up to its first await
Reconcile(s, g) ==
  IF ~IsCurrent(s, g) \/ s.active # NoWorker \/ s.ext # NoWorker \/ s.fatal
  THEN Finish(s)
  ELSE Go(s, IF s.held THEN "probe" ELSE "acquire")

-----------------------------------------------------------------------------
(* Commands                                                                *)

Command == commands < MaxCommands /\ commands' = commands + 1

\* start; a redundant start of a healthy supervisor does nothing.  The daemon
\* starts once, after it took the lease itself.
Start(h) ==
  /\ Command
  /\ sup[h].up /\ ~(sup[h].desired = "running" /\ ~sup[h].fatal)
  /\ \/ Attaches(h) /\ UNCHANGED lease
     \/ ~Attaches(h) /\ sup[h].gen = 0 /\ lease = NoHost /\ lease' = h
  /\ Set(h, Enqueue([ResetForExplicitStart(BeginGeneration(sup[h]))
               EXCEPT !.desired = "running", !.polling = TRUE], "reconcile"))
  /\ UNCHANGED <<alive, port, faults, outlived>>

\* restart rejects when it only observes a runtime of another host.
Restart(h) ==
  /\ Command
  /\ sup[h].up /\ Attaches(h)
  /\ ~(sup[h].ext # NoWorker /\ sup[h].active = NoWorker)
  /\ Set(h, Enqueue([ResetForExplicitStart(BeginGeneration(sup[h]))
               EXCEPT !.desired = "running", !.polling = TRUE], "restart"))
  /\ UNCHANGED <<lease, alive, port, faults, outlived>>

Stop(h) ==
  /\ Command
  /\ sup[h].up /\ sup[h].gen > 0
  /\ Set(h, Enqueue([StopPolling(BeginGeneration(sup[h]))
               EXCEPT !.desired = "stopped", !.probeOnly = FALSE, !.fatal = FALSE,
                      !.retry = 0], "stop"))
  /\ UNCHANGED <<lease, alive, port, faults, outlived>>

QueuePoll(s) ==
  IF s.polled THEN s ELSE Enqueue([s EXCEPT !.polled = TRUE], "poll")

\* The desktop observes without starting (after its stop resolved).
StartProbing(h) ==
  /\ Command
  /\ sup[h].up /\ Attaches(h) /\ sup[h].desired = "stopped" /\ ~sup[h].probeOnly
  /\ Set(h, QueuePoll([sup[h] EXCEPT !.probeOnly = TRUE, !.polling = TRUE]))
  /\ UNCHANGED <<lease, alive, port, faults, outlived>>

-----------------------------------------------------------------------------
(* reconcile, await by await                                               *)

StartReconcile(h) ==
  /\ Entry(h, "reconcile")
  /\ Set(h, Reconcile(sup[h], Task(h).gen))
  /\ UNCHANGED <<lease, alive, port, budget>>

\* acquireLocalCliHostLease; an aborted one takes nothing.
Acquire(h) ==
  /\ AtStage(h, "acquire")
  /\ \/ /\ ~Current(h)
        /\ Set(h, Finish(sup[h])) /\ UNCHANGED <<lease, faults>>
     \/ /\ Current(h) /\ lease \in {NoHost, h}
        /\ lease' = h
        /\ Set(h, Go(sup[h], "acquired")) /\ UNCHANGED faults
     \/ /\ Current(h) /\ lease \notin {NoHost, h}
        /\ Set(h, Go([sup[h] EXCEPT !.seen = lease], "occupied"))
        /\ UNCHANGED <<lease, faults>>
     \/ /\ Current(h) /\ Fault /\ UNCHANGED lease
        /\ \E s \in Failures(sup[h], Task(h).gen) : Set(h, Finish(s))
  /\ UNCHANGED <<alive, port, commands, outlived>>

\* (mutant) the lease that comes too late is kept
AcquiredKept(h) ==
  /\ AtStage(h, "acquired")
  /\ IF Current(h)
     THEN Set(h, Go([sup[h] EXCEPT !.held = TRUE], "probe"))
     ELSE Set(h, Finish(sup[h]))
  /\ UNCHANGED <<lease, alive, port, budget>>

\* A lease acquired for a generation that is over is released.
Acquired(h) ==
  /\ AtStage(h, "acquired")
  /\ IF Current(h)
     THEN Set(h, Go([sup[h] EXCEPT !.held = TRUE], "probe")) /\ UNCHANGED lease
     ELSE Set(h, Finish(sup[h])) /\ lease' = NoHost
  /\ UNCHANGED <<alive, port, budget>>

\* Another host has the lease: attach to its runtime, wait, or give up.
Occupied(h) ==
  /\ AtStage(h, "occupied")
  /\ \E found \in {port, NoWorker} :
       /\ IF found = port THEN UNCHANGED faults ELSE Fault
       /\ Set(h, Finish(
            IF ~Current(h) THEN sup[h]
            ELSE IF ~Attaches(h) THEN MarkFatal(sup[h])
            ELSE IF found # NoWorker /\ Host(found) = sup[h].seen
                 THEN ObserveExternal(h, sup[h], found, sup[h].seen)
            ELSE ScheduleRetry(sup[h], Task(h).gen)))
  /\ UNCHANGED <<lease, alive, port, commands, outlived>>

\* An unowned runtime blocks the launch but is not fatal.
Probe(h) ==
  /\ AtStage(h, "probe")
  /\ \E found \in {port, NoWorker} :
       /\ IF found = port THEN UNCHANGED faults ELSE Fault
       /\ Set(h, IF ~Current(h) THEN Finish(sup[h])
                 ELSE IF found # NoWorker THEN Finish(ScheduleRetry(sup[h], Task(h).gen))
                 ELSE Go(sup[h], "prepare"))
  /\ UNCHANGED <<lease, alive, port, commands, outlived>>

\* Process ids that are free: no process, run or settlement has them.
FreeWorkers(h) ==
  {w \in {h} \X Slots : /\ w \notin alive \cup {sup[h].active}
                        /\ \A i \in DOMAIN sup[h].queue : sup[h].queue[i].worker # w}

\* prepareLaunch and the synchronous spawn
Prepare(h) ==
  /\ AtStage(h, "prepare")
  /\ \/ /\ ~Current(h)
        /\ Set(h, Finish(sup[h])) /\ UNCHANGED <<alive, faults>>
     \/ /\ Current(h) /\ UNCHANGED faults
        /\ \E w \in FreeWorkers(h) :
             /\ alive' = alive \cup {w}
             /\ Set(h, Finish([sup[h] EXCEPT !.active = w, !.runGen = Task(h).gen,
                                             !.ext = NoWorker, !.misses = 0]))
     \/ /\ Current(h) /\ Fault /\ UNCHANGED alive
        /\ \E s \in Failures(sup[h], Task(h).gen) : Set(h, Finish(s))
  /\ UNCHANGED <<lease, port, commands, outlived>>

-----------------------------------------------------------------------------
(* The end of a run                                                        *)

\* handleRunSettled: a run that was replaced or belongs to an older generation
\* is dropped; a port conflict waits for the other process to leave.
HandleRunSettled(h) ==
  /\ Entry(h, "settled")
  /\ LET t == Task(h)
         s == [sup[h] EXCEPT !.active = NoWorker]
     IN Set(h, IF sup[h].active # t.worker THEN Finish(sup[h])
               ELSE IF ~IsCurrent(s, t.gen) THEN Finish(s)
               ELSE IF t.busy THEN Finish(ScheduleRetry(s, t.gen))
               ELSE Go(s, "decide"))
  /\ UNCHANGED <<lease, alive, port, budget>>

\* decideExit said 'stop': the supervisor stops itself.
StopDecision(s) ==
  StopPolling([BeginGeneration(s) EXCEPT !.desired = "stopped", !.retry = 0, !.held = FALSE])

\* decideExit; only the daemon's ends or restarts at once.
Decide(h) ==
  /\ AtStage(h, "decide")
  /\ LET s == sup[h]
         g == Task(h).gen
     IN \/ /\ ~Current(h) /\ Set(h, Finish(s)) /\ UNCHANGED lease
        \/ /\ Current(h) /\ ~Attaches(h)
           /\ Set(h, Finish(StopDecision(s)))
           /\ lease' = IF s.held THEN NoHost ELSE lease
        \/ /\ Current(h) /\ ~Attaches(h)
           /\ Set(h, Reconcile([s EXCEPT !.retry = 0], g)) /\ UNCHANGED lease
        \/ /\ Current(h) /\ UNCHANGED lease
           /\ \E r \in Failures(s, g) : Set(h, Finish(r))
  /\ UNCHANGED <<alive, port, budget>>

\* The task of stop, after its worker has ended.
Stopped(s) == Finish([Detach(s) EXCEPT !.held = FALSE, !.misses = 0])

\* (mutant) stop releases the lease before its worker has ended
TerminateReleasing(h) ==
  /\ Entry(h, "stop") \/ Entry(h, "restart")
  /\ sup[h].active # NoWorker
  /\ LET early == Task(h).kind = "stop" /\ sup[h].held
     IN /\ Set(h, Go([sup[h] EXCEPT !.held = @ /\ ~early], "grace"))
        /\ lease' = IF early THEN NoHost ELSE lease
  /\ UNCHANGED <<alive, port, budget>>

\* terminateActiveRun has a worker to end: it is asked to shut down.
Terminate(h) ==
  /\ Entry(h, "stop") \/ Entry(h, "restart")
  /\ sup[h].active # NoWorker
  /\ Set(h, Go(sup[h], "grace"))
  /\ UNCHANGED <<lease, alive, port, budget>>

\* There is none, or it has exited: stop releases the lease, restart reconciles.
Terminated(h) ==
  /\ Busy(h) /\ Task(h).kind \in {"stop", "restart"}
  /\ \/ sup[h].at = "entry" /\ sup[h].active = NoWorker
     \/ sup[h].at \in {"grace", "forced"} /\ sup[h].active \notin alive
  /\ LET s == [sup[h] EXCEPT !.active = NoWorker]
     IN IF Task(h).kind = "stop"
        THEN Set(h, Stopped(s)) /\ lease' = IF s.held THEN NoHost ELSE lease
        ELSE Set(h, Reconcile(s, Task(h).gen)) /\ UNCHANGED lease
  /\ UNCHANGED <<alive, port, budget>>

\* The grace period is over: SIGKILL.
GraceTimeout(h) ==
  /\ AtStage(h, "grace") /\ sup[h].active \in alive
  /\ Set(h, Go(sup[h], "forced"))
  /\ UNCHANGED <<lease, alive, port, budget>>

\* The worker did not exit after SIGKILL: the task throws, nothing is released.
ForcedTimeout(h) ==
  /\ AtStage(h, "forced") /\ sup[h].active \in alive
  /\ h \in Stubborn
  /\ outlived' = outlived \cup {h}
  /\ Set(h, Finish([sup[h] EXCEPT !.fatal = TRUE]))
  /\ UNCHANGED <<lease, alive, port, commands, faults>>

-----------------------------------------------------------------------------
(* Polling                                                                 *)

PollTimer(h) ==
  /\ sup[h].up /\ sup[h].polling /\ ~sup[h].polled /\ Len(sup[h].queue) < MaxQueue
  /\ sup[h].desired = "running" \/ sup[h].probeOnly
  /\ Set(h, QueuePoll(sup[h]))
  /\ UNCHANGED <<lease, alive, port, budget>>

ProbesOnly(h) == sup[h].probeOnly /\ sup[h].desired = "stopped"

\* pollRuntimeState: without an attached host there is no lease to inspect.
Poll(h) ==
  /\ Entry(h, "poll")
  /\ Set(h, IF ProbesOnly(h) \/ (Current(h) /\ Attaches(h) /\ sup[h].extHost # NoHost)
            THEN Go(sup[h], "inspect")
            ELSE IF Current(h) THEN Go(sup[h], "fetch")
            ELSE Finish(sup[h]))
  /\ UNCHANGED <<lease, alive, port, budget>>

\* (mutant) a host that disappeared is detached from and that is all
InspectDetaches(h) ==
  /\ AtStage(h, "inspect")
  /\ Set(h, IF ProbesOnly(h) THEN Go([sup[h] EXCEPT !.seen = lease], "fetchProbe")
            ELSE IF Current(h) /\ lease = sup[h].extHost THEN Go(sup[h], "fetch")
            ELSE Finish(Detach(sup[h])))
  /\ UNCHANGED <<lease, alive, port, budget>>

\* ownership.inspect, whose answer a busy host may miss
Inspect(h) ==
  /\ AtStage(h, "inspect")
  /\ \E owner \in {lease, NoHost} :
       /\ IF owner = lease THEN UNCHANGED faults ELSE Fault
       /\ Set(h, IF ProbesOnly(h) THEN Go([sup[h] EXCEPT !.seen = owner], "fetchProbe")
                 ELSE IF ~Current(h) THEN Finish(sup[h])
                 ELSE IF owner # sup[h].extHost
                      THEN Reconcile(Detach(sup[h]), Task(h).gen)
                 ELSE Go(sup[h], "fetch"))
  /\ UNCHANGED <<lease, alive, port, commands, outlived>>

\* (mutant) an attached runtime that is gone is not given up
PolledKeeps(h, found) ==
  LET s == sup[h]
  IN Finish(IF found = NoWorker THEN Missed(s)
            ELSE IF s.active = NoWorker /\ ~s.held THEN ObserveExternal(h, s, found, NoHost)
            ELSE [s EXCEPT !.misses = 0])

\* What a poll makes of the runtime it fetched.
Polled(h, found) ==
  LET s == sup[h]
      g == Task(h).gen
      m == Missed(s)
      over == m.misses = Threshold
  IN IF found # NoWorker
     THEN IF s.ext # NoWorker /\ s.active = NoWorker
          THEN IF s.extHost # NoHost /\ Host(found) = s.extHost
               THEN Finish(ObserveExternal(h, s, found, s.extHost))
               ELSE IF over THEN Reconcile(Detach(m), g) ELSE Finish(m)
          ELSE IF found = s.active
               THEN Finish([s EXCEPT !.misses = 0, !.ext = NoWorker])
          ELSE IF s.active # NoWorker THEN Finish([s EXCEPT !.misses = 0])
          ELSE IF ~s.held THEN Finish(ObserveExternal(h, s, found, NoHost))
          ELSE IF s.retry = 0
               THEN Finish(ScheduleRetry([s EXCEPT !.misses = 0], g))
               ELSE Finish([s EXCEPT !.misses = 0])
     ELSE IF over /\ s.ext # NoWorker THEN Reconcile(Detach(m), g)
     ELSE Finish(m)

Fetch(h) ==
  /\ AtStage(h, "fetch")
  /\ \E found \in {port, NoWorker} :
       /\ IF found = port THEN UNCHANGED faults ELSE Fault
       /\ Set(h, IF Current(h) THEN Polled(h, found) ELSE Finish(sup[h]))
  /\ UNCHANGED <<lease, alive, port, commands, outlived>>

FetchProbe(h) ==
  /\ AtStage(h, "fetchProbe")
  /\ \E found \in {port, NoWorker} :
       /\ IF found = port THEN UNCHANGED faults ELSE Fault
       /\ LET m == Missed(sup[h])
          IN Set(h, Finish(
               IF ~ProbesOnly(h) THEN sup[h]
               ELSE IF found # NoWorker /\ sup[h].seen # NoHost /\ Host(found) = sup[h].seen
                    THEN [sup[h] EXCEPT !.ext = found, !.extHost = sup[h].seen, !.misses = 0]
               ELSE IF m.misses = Threshold THEN Detach(m)
               ELSE m))
  /\ UNCHANGED <<lease, alive, port, commands, outlived>>

RetryTimer(h) ==
  /\ sup[h].up /\ sup[h].retry # 0 /\ Len(sup[h].queue) < MaxQueue
  /\ LET s == [sup[h] EXCEPT !.retry = 0]
     IN Set(h, IF IsCurrent(sup[h], sup[h].retry) THEN Enqueue(s, "reconcile") ELSE s)
  /\ UNCHANGED <<lease, alive, port, budget>>

-----------------------------------------------------------------------------
(* Processes                                                               *)

Serve(w) ==
  /\ w \in alive /\ port = NoWorker
  /\ port' = w
  /\ UNCHANGED <<sup, lease, alive, budget>>

\* A worker ends when its port is taken, when it is asked to, when its host is
\* gone (the IPC channel disconnects), or for a reason of its own.
Told(w) ==
  LET s == sup[Host(w)] IN ~s.up \/ (s.at \in {"grace", "forced"} /\ s.active = w)
Blocked(w) == port \notin {w, NoWorker}

EndWorker(w, busy) ==
  LET h == Host(w) IN
  /\ alive' = alive \ {w}
  /\ port' = IF port = w THEN NoWorker ELSE port
  /\ IF sup[h].up
     THEN Set(h, [sup[h] EXCEPT !.queue = Append(@, [kind |-> "settled", gen |-> sup[h].runGen,
                                                      worker |-> w, busy |-> busy])])
     ELSE UNCHANGED sup
  /\ UNCHANGED <<lease, commands, outlived>>

Exit(w) ==
  /\ w \in alive
  /\ \/ Blocked(w) /\ EndWorker(w, TRUE) /\ UNCHANGED faults
     \/ Told(w) /\ EndWorker(w, FALSE) /\ UNCHANGED faults
     \/ EndWorker(w, FALSE) /\ Fault

\* The operating system closes the lease of a process that ends.
EndHost(h) ==
  /\ Set(h, Down)
  /\ lease' = IF lease = h THEN NoHost ELSE lease
  /\ UNCHANGED <<alive, port, commands, outlived>>

\* onTerminal and shutdown of the daemon: finish()
DaemonEnds(h) ==
  /\ sup[h].up /\ ~Attaches(h)
  /\ \/ sup[h].fatal
     \/ sup[h].gen > 0 /\ sup[h].desired = "stopped" /\ sup[h].queue = <<>>
  /\ EndHost(h) /\ UNCHANGED faults

Crash(h) == sup[h].up /\ EndHost(h) /\ Fault

-----------------------------------------------------------------------------
Init ==
  /\ sup = [h \in Hosts |-> Fresh]
  /\ lease = NoHost /\ alive = {} /\ port = NoWorker
  /\ commands = 0 /\ faults = 0 /\ outlived = {}

\* A step of the task at the head of the lifecycle queue.
Work(h) ==
  \/ StartReconcile(h) \/ Acquire(h) \/ Acquired(h) \/ Occupied(h) \/ Probe(h) \/ Prepare(h)
  \/ HandleRunSettled(h) \/ Decide(h) \/ Terminate(h) \/ Terminated(h)
  \/ Poll(h) \/ Inspect(h) \/ Fetch(h) \/ FetchProbe(h)

Timer(h) == RetryTimer(h) \/ PollTimer(h) \/ GraceTimeout(h) \/ ForcedTimeout(h)

Next ==
  \/ \E h \in Hosts : Start(h) \/ Restart(h) \/ Stop(h) \/ StartProbing(h)
  \/ \E h \in Hosts : Work(h) \/ Timer(h) \/ DaemonEnds(h) \/ Crash(h)
  \/ \E w \in Workers : Serve(w) \/ Exit(w)

Spec == Init /\ [][Next]_vars
\* Promises settle and timers fire; processes make progress.  Nothing is said of
\* commands, crashes, a worker's own exit and the wait after SIGKILL.
FairSpec ==
  /\ Spec
  /\ \A h \in Hosts :
       /\ WF_vars(Work(h) \/ GraceTimeout(h) \/ DaemonEnds(h))
       /\ WF_vars(RetryTimer(h)) /\ WF_vars(PollTimer(h))
       /\ WF_vars(\E w \in {h} \X Slots : Serve(w))
       /\ WF_vars(\E w \in {h} \X Slots : (Told(w) \/ Blocked(w)) /\ Exit(w))

-----------------------------------------------------------------------------
(* Properties                                                              *)

Supervisors ==
  [up: BOOLEAN, desired: {"running", "stopped"}, probeOnly: BOOLEAN, gen: 0..MaxCommands * 2,
   active: Workers \cup {NoWorker}, runGen: 0..MaxCommands * 2, held: BOOLEAN,
   ext: Workers \cup {NoWorker}, extHost: Hosts \cup {NoHost}, seen: Hosts \cup {NoHost},
   retry: 0..MaxCommands * 2, fatal: BOOLEAN, polling: BOOLEAN, polled: BOOLEAN,
   misses: 0..Threshold, queue: Seq(Tasks), at: Stages]

\* The variables have their types; a worker that serves is alive.
TypeOK ==
  /\ sup \in [Hosts -> Supervisors]
  /\ lease \in Hosts \cup {NoHost}
  /\ alive \subseteq Workers /\ port \in alive \cup {NoWorker}
  /\ commands \in 0..MaxCommands /\ faults \in 0..MaxFaults
  /\ outlived \subseteq Hosts

\* The lease covers the worker: as long as a host lives, its worker runs only
\* under its lease and as the run its supervisor accounts for.  So no two living
\* hosts run workers at once, and no host runs two.
LeaseCoversWorker ==
  \A w \in alive : sup[Host(w)].up => lease = Host(w) /\ sup[Host(w)].active = w

\* When a stop is over, the worker has exited and the desktop's lease is free for
\* others (the daemon closes its own when it ends), whatever was in flight when it
\* was asked for; except after a stop that failed.
StopLeavesNothing ==
  \A h \in Hosts \ outlived :
    /\ sup[h].up /\ sup[h].desired = "stopped"
    /\ \A i \in DOMAIN sup[h].queue : sup[h].queue[i].kind # "stop"
    => (Attaches(h) => lease # h) /\ \A w \in alive : Host(w) # h

\* The supervisor wants a runtime and start() would do nothing.
Wanted(h) == sup[h].up /\ sup[h].desired = "running" /\ ~sup[h].fatal

\* Something will lead to one: a run of this generation, an attached runtime that
\* is polled, a retry, or a task of this generation.
Pursued(h) ==
  LET s == sup[h] IN
  \/ s.active # NoWorker /\ s.runGen = s.gen
  \/ s.ext # NoWorker /\ s.polling
  \/ s.retry = s.gen
  \/ \E i \in DOMAIN s.queue :
       /\ s.queue[i].gen = s.gen
       /\ s.queue[i].kind # "poll" \/ (i = 1 /\ s.at \in ReconcileStages)

\* No order of commands, exits, retries and polls drops the intent to run; except
\* after a worker survived SIGKILL.
WantedIsPursued == \A h \in Hosts \ outlived : Wanted(h) => Pursued(h)

\* A supervisor that wants a runtime gets to see one that serves, its own or that
\* of another host, or gives up.
EventuallyServed ==
  \A h \in Hosts : Wanted(h) ~> port # NoWorker \/ ~Wanted(h) \/ h \in outlived
=============================================================================
