--------------------------- MODULE CliSupervisorProofs ---------------------------
(***************************************************************************)
(* What CliSupervisor promises for any number of hosts, process ids,       *)
(* commands and faults.                                                    *)
(*                                                                         *)
(* That a lease covers every worker rests on the stages of the task at     *)
(* the head of the queue: what a stage knows of the lease and of the       *)
(* active run stays true while commands, exits and other hosts interfere   *)
(* (Placed).  That a stop leaves nothing behind needs to know that the     *)
(* task of a stop is still queued as long as something is left (Leaving).  *)
(* That the intent to run is not dropped needs the order of the            *)
(* generations in the queue, what a settled run may still be about, and    *)
(* that a start which comes before a stop is over is queued behind it      *)
(* (Booked).                                                               *)
(***************************************************************************)
EXTENDS CliSupervisor, SequenceTheorems, TLAPS

-----------------------------------------------------------------------------
(* Sequences of whatever they hold: tasks have no set to be typed with.    *)

\* A sequence of its own elements.
IsSequence(s) == s \in Seq({s[i] : i \in DOMAIN s})

\* A sequence of anything is one.
LEMMA OwnElements ==
  ASSUME NEW S, NEW s \in Seq(S)
  PROVE  IsSequence(s)
<1> DEFINE T == {s[i] : i \in DOMAIN s}
<1>1. PICK m \in Nat : s \in [1..m -> S]
  BY SeqDef
<1>2. DOMAIN s = 1..m /\ s = [i \in 1..m |-> s[i]]
  BY <1>1
<1>3. \A i \in 1..m : s[i] \in T
  BY <1>2
<1>4. s \in [1..m -> T]
  BY <1>2, <1>3
<1> HIDE DEF T
<1>5. s \in Seq(T)
  BY <1>4, SeqDef
<1> QED
  BY <1>5 DEF T, IsSequence

\* What Append does to it.
LEMMA Appended ==
  ASSUME NEW s, IsSequence(s), NEW x, NEW t, t = Append(s, x)
  PROVE  /\ IsSequence(t)
         /\ t # <<>>
         /\ s # <<>> => Head(t) = Head(s)
         /\ \A i \in DOMAIN s : i \in DOMAIN t /\ t[i] = s[i]
         /\ \E n \in DOMAIN t :
              /\ t[n] = x
              /\ \A i \in DOMAIN t : i = n \/ i \in DOMAIN s
<1> DEFINE S == {s[i] : i \in DOMAIN s} \cup {x}
           n == Len(s) + 1
<1>1. s \in Seq(S) /\ x \in S
  <2>1. s \in Seq({s[i] : i \in DOMAIN s})
    BY DEF IsSequence
  <2> QED
    BY <2>1
<1> HIDE DEF S
<1>2. /\ t \in Seq(S) /\ Len(t) = n /\ Len(s) \in Nat
      /\ DOMAIN s = 1..Len(s) /\ DOMAIN t = 1..n
  BY <1>1
<1>3. t[n] = x /\ \A i \in 1..Len(s) : t[i] = s[i]
  BY <1>1
<1>4. IsSequence(t)
  BY <1>2, OwnElements
<1>5. t # <<>>
  BY <1>2
<1>6. s # <<>> => Head(t) = Head(s)
  <2>1. s # <<>> => Len(s) >= 1
    BY <1>1
  <2> QED
    BY <1>2, <1>3, <2>1
<1> QED
  BY <1>2, <1>3, <1>4, <1>5, <1>6

\* What Tail does to it.
LEMMA Removed ==
  ASSUME NEW s, IsSequence(s), s # <<>>, NEW t, t = Tail(s)
  PROVE  /\ IsSequence(t)
         /\ \A i \in DOMAIN t : \E j \in DOMAIN s : t[i] = s[j]
         /\ \A j \in DOMAIN s : s[j] = Head(s) \/ \E i \in DOMAIN t : t[i] = s[j]
<1> DEFINE S == {s[i] : i \in DOMAIN s}
<1>1. s \in Seq(S)
  BY DEF IsSequence
<1> HIDE DEF S
<1>2. /\ t \in Seq(S) /\ Len(s) \in Nat /\ Len(s) >= 1 /\ Len(t) = Len(s) - 1
      /\ DOMAIN s = 1..Len(s) /\ DOMAIN t = 1..Len(t)
  BY <1>1
<1>3. \A i \in 1..Len(t) : t[i] = s[i + 1]
  BY <1>1, <1>2
<1>4. IsSequence(t)
  BY <1>2, OwnElements
<1>5. \A i \in DOMAIN t : \E j \in DOMAIN s : t[i] = s[j]
  <2>1. \A i \in DOMAIN t : i + 1 \in DOMAIN s
    BY <1>2
  <2> QED
    BY <1>2, <1>3, <2>1
<1>6. \A j \in DOMAIN s : s[j] = Head(s) \/ \E i \in DOMAIN t : t[i] = s[j]
  <2> SUFFICES ASSUME NEW j \in DOMAIN s, j # 1
               PROVE  \E i \in DOMAIN t : t[i] = s[j]
    BY <1>1
  <2>1. j - 1 \in DOMAIN t /\ (j - 1) + 1 = j
    BY <1>2
  <2> QED
    BY <1>2, <1>3, <2>1
<1> QED
  BY <1>4, <1>5, <1>6

\* Tail, by positions.
LEMMA Shifted ==
  ASSUME NEW s, IsSequence(s), s # <<>>, NEW t, t = Tail(s)
  PROVE  /\ DOMAIN s \subseteq Nat \ {0} /\ DOMAIN t \subseteq Nat \ {0}
         /\ 1 \in DOMAIN s /\ s[1] = Head(s)
         /\ \A i \in DOMAIN t : i + 1 \in DOMAIN s /\ t[i] = s[i + 1]
         /\ \A j \in DOMAIN s : j # 1 => j - 1 \in DOMAIN t /\ t[j - 1] = s[j]
<1> DEFINE S == {s[i] : i \in DOMAIN s}
<1>1. s \in Seq(S)
  BY DEF IsSequence
<1> HIDE DEF S
<1>2. /\ t \in Seq(S) /\ Len(s) \in Nat /\ Len(s) >= 1 /\ Len(t) = Len(s) - 1
      /\ DOMAIN s = 1..Len(s) /\ DOMAIN t = 1..Len(t)
  BY <1>1
<1>3. \A i \in 1..Len(t) : t[i] = s[i + 1]
  BY <1>1, <1>2
<1>4. s[1] = Head(s)
  BY <1>1
<1>5. \A i \in DOMAIN t : i + 1 \in DOMAIN s /\ t[i] = s[i + 1]
  BY <1>2, <1>3
<1>6. ASSUME NEW j \in DOMAIN s, j # 1
      PROVE  j - 1 \in DOMAIN t /\ t[j - 1] = s[j]
  <2>1. j - 1 \in DOMAIN t /\ (j - 1) + 1 = j
    BY <1>2, <1>6
  <2> QED
    BY <1>5, <2>1
<1> QED
  BY <1>2, <1>4, <1>5, <1>6

\* Append, by positions.
LEMMA Extended ==
  ASSUME NEW s, IsSequence(s), NEW x, NEW t, t = Append(s, x)
  PROVE  \E n \in Nat \ {0} :
           /\ DOMAIN s = 1..(n - 1) /\ DOMAIN t = 1..n /\ t[n] = x
           /\ \A i \in 1..(n - 1) : t[i] = s[i]
           /\ n # 1 => Head(t) = Head(s)
<1> DEFINE S == {s[i] : i \in DOMAIN s} \cup {x}
           n == Len(s) + 1
<1>1. s \in Seq(S) /\ x \in S
  <2>1. s \in Seq({s[i] : i \in DOMAIN s})
    BY DEF IsSequence
  <2> QED
    BY <2>1
<1> HIDE DEF S
<1>2. /\ t \in Seq(S) /\ Len(t) = n /\ Len(s) \in Nat
      /\ DOMAIN s = 1..Len(s) /\ DOMAIN t = 1..n
  BY <1>1
<1>3. t[n] = x /\ \A i \in 1..Len(s) : t[i] = s[i]
  BY <1>1
<1>4. n # 1 => Head(t) = Head(s)
  BY <1>1, <1>2, <1>3
<1>5. n \in Nat \ {0} /\ n - 1 = Len(s)
  BY <1>2
<1> HIDE DEF n
<1> QED
  BY <1>2, <1>3, <1>4, <1>5

\* The head of a sequence is one of its elements.
LEMMA First ==
  ASSUME NEW s, IsSequence(s), s # <<>>
  PROVE  \E i \in DOMAIN s : s[i] = Head(s)
<1> DEFINE S == {s[i] : i \in DOMAIN s}
<1>1. s \in Seq(S)
  BY DEF IsSequence
<1> HIDE DEF S
<1>2. 1 \in DOMAIN s /\ s[1] = Head(s)
  BY <1>1
<1> QED
  BY <1>2

-----------------------------------------------------------------------------

\* A supervisor is a record with the fields of Fresh.
Formed(s) ==
  s = [up |-> s.up, desired |-> s.desired, probeOnly |-> s.probeOnly, gen |-> s.gen,
       active |-> s.active, runGen |-> s.runGen, held |-> s.held,
       ext |-> s.ext, extHost |-> s.extHost, seen |-> s.seen,
       retry |-> s.retry, fatal |-> s.fatal, polling |-> s.polling, polled |-> s.polled,
       misses |-> s.misses, queue |-> s.queue, at |-> s.at]

\* The lifecycle queue: its settled runs are of workers that have ended, and the
\* task of a stop gets to no other stage than its own.
Queued(h, s) ==
  /\ IsSequence(s.queue)
  /\ \A i \in DOMAIN s.queue :
       s.queue[i].kind = "settled" => s.queue[i].worker \in ({h} \X Slots) \ alive
  /\ s.at # "entry" => s.queue # <<>>
  /\ s.at \notin {"entry", "grace", "forced"} => Head(s.queue).kind # "stop"

\* What a stage knows of the lease and of the active run.
Placed(h, s) ==
  /\ s.held \in BOOLEAN
  /\ s.held => lease = h
  /\ s.active # NoWorker => s.held
  /\ s.at \in {"acquire", "acquired", "occupied"} => ~s.held /\ s.active = NoWorker
  /\ s.at = "acquired" => lease = h
  /\ s.at \in {"probe", "prepare", "decide"} => s.held /\ s.active = NoWorker
  /\ \A w \in alive : Host(w) = h => s.active = w

StopQueued(s) == \E i \in DOMAIN s.queue : s.queue[i].kind = "stop"

\* A supervisor that is stopped and has something left has the stop still to do.
Leaving(h, s) ==
  s.desired = "stopped" /\ h \notin outlived /\ ~StopQueued(s) => ~s.held /\ s.at # "acquired"

\* The desktop has no lease it does not know of.
LeaseKnown(h, s) == h \in Attaching /\ lease = h => s.held \/ s.at = "acquired"

Sane(h, s) ==
  Formed(s) /\ Queued(h, s) /\ Placed(h, s) /\ Leaving(h, s) /\ LeaseKnown(h, s)

IInv == /\ sup = [h \in Hosts |-> sup[h]]
        /\ alive \subseteq Workers
        /\ \A h \in Hosts : sup[h].up => Sane(h, sup[h])

-----------------------------------------------------------------------------
(* Helpers that leave the run, the lease and the queue alone               *)

Alike(s, t) ==
  /\ Formed(t)
  /\ t.up = s.up /\ t.desired = s.desired /\ t.active = s.active /\ t.held = s.held
  /\ t.queue = s.queue /\ t.at = s.at

\* Alike is transitive.
LEMMA AlikeTrans ==
  ASSUME NEW s, NEW t, NEW u, Alike(s, t), Alike(t, u)
  PROVE  Alike(s, u)
  BY DEF Alike

\* Every helper of the class but the two that touch the queue.
LEMMA HelpersAlike ==
  ASSUME NEW s, Formed(s)
  PROVE  /\ Alike(s, s)
         /\ Alike(s, BeginGeneration(s))
         /\ Alike(s, ResetForExplicitStart(s))
         /\ Alike(s, StopPolling(s))
         /\ Alike(s, MarkFatal(s))
         /\ Alike(s, Detach(s))
         /\ Alike(s, Missed(s))
         /\ \A g : Alike(s, ScheduleRetry(s, g))
         /\ \A g : \A t \in Failures(s, g) : Alike(s, t)
<1>1. Alike(s, s)
  BY DEF Alike
<1>2. Alike(s, BeginGeneration(s))
  BY DEF Alike, Formed, BeginGeneration
<1>3. Alike(s, ResetForExplicitStart(s))
  <2>1. PICK t : t = ResetForExplicitStart(s)
    OBVIOUS
  <2>2. Alike(s, t)
    BY <2>1 DEF Alike, Formed, ResetForExplicitStart
  <2> QED
    BY <2>1, <2>2
<1>4. \A r : Formed(r) => Alike(r, StopPolling(r))
  <2> SUFFICES ASSUME NEW r, Formed(r) PROVE Alike(r, StopPolling(r))
    OBVIOUS
  <2>1. CASE r.polling
    BY <2>1 DEF Alike, Formed, StopPolling
  <2>2. CASE ~r.polling
    BY <2>2 DEF Alike, StopPolling
  <2> QED
    BY <2>1, <2>2
<1>5. Alike(s, MarkFatal(s))
  <2>1. PICK r : r = [s EXCEPT !.fatal = TRUE, !.retry = 0]
    OBVIOUS
  <2>2. Alike(s, r)
    BY <2>1 DEF Alike, Formed
  <2>3. Alike(r, StopPolling(r))
    BY <1>4, <2>2 DEF Alike
  <2> QED
    BY <2>1, <2>2, <2>3, AlikeTrans DEF MarkFatal
<1>6. Alike(s, Detach(s))
  <2>1. PICK t : t = Detach(s)
    OBVIOUS
  <2>2. Alike(s, t)
    BY <2>1 DEF Alike, Formed, Detach
  <2> QED
    BY <2>1, <2>2
<1>7. Alike(s, Missed(s))
  <2>1. PICK m : m = IF s.misses < Threshold THEN s.misses + 1 ELSE s.misses
    OBVIOUS
  <2>2. Missed(s) = [s EXCEPT !.misses = m]
    BY <2>1 DEF Missed
  <2> QED
    BY <2>2 DEF Alike, Formed
<1>8. \A g : Alike(s, ScheduleRetry(s, g))
  <2> SUFFICES ASSUME NEW g PROVE Alike(s, ScheduleRetry(s, g))
    OBVIOUS
  <2>1. ScheduleRetry(s, g) = s \/ ScheduleRetry(s, g) = [s EXCEPT !.retry = g]
    BY DEF ScheduleRetry
  <2>2. Alike(s, [s EXCEPT !.retry = g])
    BY DEF Alike, Formed
  <2> QED
    BY <1>1, <2>1, <2>2
<1> QED
  BY <1>1, <1>2, <1>3, <1>4, <1>5, <1>6, <1>7, <1>8 DEF Failures

\* So is one that observes a runtime of another host.
LEMMA ObserveAlike ==
  ASSUME NEW h, NEW s, Formed(s), NEW w, NEW owner
  PROVE  Alike(s, ObserveExternal(h, s, w, owner))
<1>1. CASE Attaches(h)
  BY <1>1 DEF ObserveExternal, Alike, Formed
<1>2. CASE ~Attaches(h)
  <2>1. PICK r : r = [s EXCEPT !.ext = w]
    OBVIOUS
  <2>2. Alike(s, r)
    BY <2>1 DEF Alike, Formed
  <2>3. Alike(r, MarkFatal(r))
    BY <2>2, HelpersAlike DEF Alike
  <2> QED
    BY <1>2, <2>1, <2>2, <2>3, AlikeTrans DEF ObserveExternal
<1> QED
  BY <1>1, <1>2

-----------------------------------------------------------------------------
(* One supervisor keeps what it knows                                      *)

\* The same supervisor for the lease, the run and the queue is as sane.
LEMMA AlikeSane ==
  ASSUME NEW h, NEW s, NEW t, Sane(h, s), Alike(s, t)
  PROVE  Sane(h, t)
<1>1. Formed(t) /\ Queued(h, t) /\ Placed(h, t)
  BY DEF Sane, Alike, Queued, Placed
<1>2. Leaving(h, t) /\ LeaseKnown(h, t)
  BY DEF Sane, Alike, Leaving, StopQueued, LeaseKnown
<1> QED
  BY <1>1, <1>2 DEF Sane

\* What the end of a task leaves as it is.
LEMMA FinishFacts ==
  ASSUME NEW h, NEW s, Formed(s), Queued(h, s), s.queue # <<>>, NEW t, t = Finish(s)
  PROVE  /\ Formed(t)
         /\ t.up = s.up /\ t.desired = s.desired /\ t.active = s.active /\ t.held = s.held
         /\ t.at = "entry"
         /\ Queued(h, t)
         /\ \A i \in DOMAIN t.queue : \E j \in DOMAIN s.queue : t.queue[i] = s.queue[j]
         /\ StopQueued(s) /\ Head(s.queue).kind # "stop" => StopQueued(t)
<1>1. PICK p : p = IF Head(s.queue).kind = "poll" THEN FALSE ELSE s.polled
  OBVIOUS
<1>2. t = [s EXCEPT !.queue = Tail(s.queue), !.at = "entry", !.seen = NoHost, !.polled = p]
  BY <1>1 DEF Finish
<1>3. Formed(t)
  BY <1>2 DEF Formed
<1>4. /\ t.up = s.up /\ t.desired = s.desired /\ t.active = s.active /\ t.held = s.held
      /\ t.queue = Tail(s.queue) /\ t.at = "entry"
  BY <1>2 DEF Formed
<1>5. PICK q, r : q = s.queue /\ r = t.queue
  OBVIOUS
<1>6. IsSequence(q) /\ q # <<>> /\ r = Tail(q)
  BY <1>4, <1>5 DEF Queued
<1>7. IsSequence(r)
  BY <1>6, Removed
<1>8. \A i \in DOMAIN r : \E j \in DOMAIN q : r[i] = q[j]
  BY <1>6, Removed
<1>9. \A j \in DOMAIN q : q[j] = Head(q) \/ \E i \in DOMAIN r : r[i] = q[j]
  BY <1>6, Removed
<1>10. Queued(h, t)
  BY <1>4, <1>5, <1>7, <1>8 DEF Queued
<1>11. StopQueued(s) /\ Head(s.queue).kind # "stop" => StopQueued(t)
  BY <1>5, <1>9 DEF StopQueued
<1>12. \A i \in DOMAIN t.queue : \E j \in DOMAIN s.queue : t.queue[i] = s.queue[j]
  BY <1>5, <1>8
<1> QED
  BY <1>3, <1>4, <1>10, <1>11, <1>12

\* A task ends that is no stop and holds no lease nobody knows of.
LEMMA FinishSane ==
  ASSUME NEW h, NEW s, Sane(h, s), s.queue # <<>>, Head(s.queue).kind # "stop", s.at # "acquired"
  PROVE  Sane(h, Finish(s)) /\ Finish(s).up = s.up
<1>1. PICK t : t = Finish(s)
  OBVIOUS
<1>2. /\ Formed(t)
      /\ t.up = s.up /\ t.desired = s.desired /\ t.active = s.active /\ t.held = s.held
      /\ t.at = "entry"
      /\ Queued(h, t)
      /\ StopQueued(s) => StopQueued(t)
  <2>1. Formed(s) /\ Queued(h, s)
    BY DEF Sane
  <2> QED
    BY <1>1, <2>1, FinishFacts
<1>3. Placed(h, t)
  BY <1>2 DEF Sane, Placed
<1>4. Leaving(h, t) /\ LeaseKnown(h, t)
  BY <1>2 DEF Sane, Leaving, LeaseKnown
<1> QED
  BY <1>1, <1>2, <1>3, <1>4 DEF Sane

\* A task goes on to a stage that needs nothing to be known.
LEMMA GoSane ==
  ASSUME NEW h, NEW s, Sane(h, s), s.queue # <<>>, s.at # "acquired",
         NEW x, x \notin {"entry", "grace", "forced"} => Head(s.queue).kind # "stop",
         x \in {"acquire", "occupied"} => ~s.held /\ s.active = NoWorker,
         x \in {"probe", "prepare", "decide"} => s.held /\ s.active = NoWorker,
         x # "acquired"
  PROVE  Sane(h, Go(s, x)) /\ Go(s, x).up = s.up
<1>1. PICK t : t = Go(s, x)
  OBVIOUS
<1>2. /\ Formed(t) /\ t.up = s.up
      /\ t.desired = s.desired /\ t.active = s.active /\ t.held = s.held
      /\ t.queue = s.queue /\ t.at = x
  BY <1>1 DEF Sane, Formed, Go
<1>3. Queued(h, t)
  BY <1>2 DEF Sane, Queued
<1>4. Placed(h, t)
  BY <1>2 DEF Sane, Placed
<1>5. Leaving(h, t) /\ LeaseKnown(h, t)
  BY <1>2 DEF Sane, Leaving, StopQueued, LeaseKnown
<1> QED
  BY <1>1, <1>2, <1>3, <1>4, <1>5 DEF Sane

\* reconcile ends at once or goes to its first stage.
LEMMA ReconcileSane ==
  ASSUME NEW h, NEW s, Sane(h, s), s.queue # <<>>, Head(s.queue).kind # "stop", s.at # "acquired",
         NEW g
  PROVE  Sane(h, Reconcile(s, g)) /\ Reconcile(s, g).up = s.up
<1>1. CASE ~IsCurrent(s, g) \/ s.active # NoWorker \/ s.ext # NoWorker \/ s.fatal
  BY <1>1, FinishSane DEF Reconcile
<1>2. CASE ~(~IsCurrent(s, g) \/ s.active # NoWorker \/ s.ext # NoWorker \/ s.fatal) /\ s.held
  <2>1. Reconcile(s, g) = Go(s, "probe")
    BY <1>2 DEF Reconcile
  <2> QED
    BY <1>2, <2>1, GoSane
<1>3. CASE ~(~IsCurrent(s, g) \/ s.active # NoWorker \/ s.ext # NoWorker \/ s.fatal) /\ ~s.held
  <2>1. Reconcile(s, g) = Go(s, "acquire")
    BY <1>3 DEF Reconcile
  <2> QED
    BY <1>3, <2>1, GoSane
<1> QED
  BY <1>1, <1>2, <1>3

\* A task is queued; that of a stop is what a stopped supervisor has to do.
LEMMA EnqueueSane ==
  ASSUME NEW h, NEW s, Formed(s), Queued(h, s), Placed(h, s), LeaseKnown(h, s),
         NEW kind, kind # "settled", kind = "stop" \/ Leaving(h, s)
  PROVE  Sane(h, Enqueue(s, kind)) /\ Enqueue(s, kind).up = s.up
<1>1. PICK task : task = [kind |-> kind, gen |-> s.gen, worker |-> NoWorker, busy |-> FALSE]
  OBVIOUS
<1>2. PICK t : t = [s EXCEPT !.queue = Append(s.queue, task)]
  OBVIOUS
<1>3. Enqueue(s, kind) = t
  BY <1>1, <1>2 DEF Enqueue
<1>4. /\ Formed(t) /\ t.up = s.up
      /\ t.desired = s.desired /\ t.active = s.active /\ t.held = s.held
      /\ t.queue = Append(s.queue, task) /\ t.at = s.at
  BY <1>2 DEF Formed
<1>5. /\ IsSequence(t.queue) /\ t.queue # <<>>
      /\ s.queue # <<>> => Head(t.queue) = Head(s.queue)
      /\ \A i \in DOMAIN s.queue : i \in DOMAIN t.queue /\ t.queue[i] = s.queue[i]
      /\ \E n \in DOMAIN t.queue :
           /\ t.queue[n] = task
           /\ \A i \in DOMAIN t.queue : i = n \/ i \in DOMAIN s.queue
  <2>1. PICK q, r : q = s.queue /\ r = t.queue
    OBVIOUS
  <2>2. IsSequence(q) /\ r = Append(q, task)
    BY <1>4, <2>1 DEF Queued
  <2>3. IsSequence(r) /\ r # <<>>
    BY <2>2, Appended
  <2>4. q # <<>> => Head(r) = Head(q)
    BY <2>2, Appended
  <2>5. \A i \in DOMAIN q : i \in DOMAIN r /\ r[i] = q[i]
    BY <2>2, Appended
  <2>6. \E n \in DOMAIN r : r[n] = task /\ \A i \in DOMAIN r : i = n \/ i \in DOMAIN q
    BY <2>2, Appended
  <2> QED
    BY <2>1, <2>3, <2>4, <2>5, <2>6
<1>6. task.kind = kind
  BY <1>1
<1>7. Queued(h, t)
  BY <1>4, <1>5, <1>6 DEF Queued
<1>8. Placed(h, t)
  BY <1>4 DEF Placed
<1>9. StopQueued(s) \/ kind = "stop" => StopQueued(t)
  BY <1>5, <1>6 DEF StopQueued
<1>10. Leaving(h, t) /\ LeaseKnown(h, t)
  BY <1>4, <1>9 DEF Leaving, LeaseKnown
<1> QED
  BY <1>3, <1>4, <1>7, <1>8, <1>10 DEF Sane

-----------------------------------------------------------------------------
(* One supervisor moves                                                    *)

\* A step of host h that moves its own supervisor, takes the lease only when it is
\* free, leaves only its own and starts only its own workers.
LEMMA SetKeeps ==
  ASSUME IInv, NEW h \in Hosts, NEW t, Set(h, t), t.up => Sane(h, t)',
         alive' \subseteq alive \cup ({h} \X Slots), outlived \subseteq outlived',
         lease' = lease \/ (lease = h /\ lease' = NoHost) \/ (lease = NoHost /\ lease' = h)
  PROVE  IInv'
<1>1. /\ sup'[h] = t /\ \A g \in Hosts \ {h} : sup'[g] = sup[g]
      /\ sup' = [g \in Hosts |-> sup'[g]]
  BY DEF IInv, Set
<1>2. alive' \subseteq Workers
  BY DEF IInv, Workers
<1>3. ASSUME NEW g \in Hosts \ {h}, sup[g].up
      PROVE  Sane(g, sup[g])'
  <2>1. NoHost \notin Hosts
    BY SupervisorAssumption
  <2>2. Sane(g, sup[g]) /\ sup'[g] = sup[g] /\ (lease = g <=> lease' = g)
    BY <1>1, <1>3, <2>1 DEF IInv
  <2>3. \A w \in alive' : Host(w) = g => w \in alive
    BY DEF Host
  <2>4. \A w \in {g} \X Slots : w \notin alive => w \notin alive'
    BY DEF Host
  <2>5. Formed(sup[g])' /\ Queued(g, sup[g])'
    BY <2>2, <2>4 DEF Sane, Queued, Formed
  <2>6. Placed(g, sup[g])'
    BY <2>2, <2>3 DEF Sane, Placed
  <2>7. Leaving(g, sup[g])' /\ LeaseKnown(g, sup[g])'
    BY <2>2 DEF Sane, Leaving, StopQueued, LeaseKnown
  <2> QED
    BY <2>5, <2>6, <2>7 DEF Sane
<1> QED
  BY <1>1, <1>2, <1>3 DEF IInv

\* A step of host h that moves its own supervisor and nothing else.
LEMMA QuietSet ==
  ASSUME IInv, NEW h \in Hosts, NEW t, Set(h, t), t.up => Sane(h, t),
         UNCHANGED <<lease, alive, outlived>>
  PROVE  IInv'
<1>1. Sane(h, t) => Sane(h, t)'
  BY DEF Sane, Queued, Placed, Leaving, LeaseKnown
<1> QED
  BY <1>1, SetKeeps

-----------------------------------------------------------------------------
(* Commands                                                                *)

\* A supervisor that is told to run, and queues a task for it.
LEMMA WantSane ==
  ASSUME NEW h, NEW s, Sane(h, s), NEW kind \in {"reconcile", "restart"}, NEW u, NEW t,
         u = [ResetForExplicitStart(BeginGeneration(s))
                EXCEPT !.desired = "running", !.polling = TRUE],
         t = Enqueue(u, kind)
  PROVE  Sane(h, t) /\ t.up = s.up /\ t.held = s.held /\ t.at = s.at /\ t.desired = "running"
<1>1. PICK v, w : v = BeginGeneration(s) /\ w = ResetForExplicitStart(v)
  OBVIOUS
<1>2. Alike(s, v)
  BY <1>1, HelpersAlike DEF Sane
<1>3. Alike(v, w)
  BY <1>1, <1>2, HelpersAlike DEF Alike
<1>4. Alike(s, w)
  BY <1>2, <1>3, AlikeTrans
<1>5. Sane(h, w)
  BY <1>4, AlikeSane
<1>6. u = [w EXCEPT !.desired = "running", !.polling = TRUE]
  BY <1>1
<1>7. /\ Formed(u) /\ u.up = w.up /\ u.desired = "running" /\ u.active = w.active
      /\ u.held = w.held /\ u.queue = w.queue /\ u.at = w.at
  BY <1>5, <1>6 DEF Sane, Formed
<1>8. Queued(h, u) /\ Placed(h, u)
  BY <1>5, <1>7 DEF Sane, Queued, Placed
<1>9. Leaving(h, u) /\ LeaseKnown(h, u)
  BY <1>5, <1>7 DEF Sane, Leaving, LeaseKnown
<1>10. Sane(h, t) /\ t.up = u.up
  <2>1. kind # "settled"
    OBVIOUS
  <2>2. Sane(h, Enqueue(u, kind)) /\ Enqueue(u, kind).up = u.up
    <3>1. LeaseKnown(h, u) /\ Leaving(h, u) /\ Formed(u) /\ Queued(h, u) /\ Placed(h, u)
      BY <1>7, <1>8, <1>9
    <3> QED
      BY <2>1, <3>1, EnqueueSane
  <2> QED
    BY <2>2
<1>11. t.held = u.held /\ t.at = u.at /\ t.desired = u.desired
  <2>1. PICK q : q = Append(u.queue, [kind |-> kind, gen |-> u.gen, worker |-> NoWorker,
                                      busy |-> FALSE])
    OBVIOUS
  <2>2. t = [u EXCEPT !.queue = q]
    BY <2>1 DEF Enqueue
  <2> QED
    BY <1>7, <2>2 DEF Formed
<1> QED
  BY <1>4, <1>7, <1>10, <1>11 DEF Alike

\* start: the daemon has taken the free lease itself.
LEMMA StartKeeps ==
  ASSUME IInv, NEW h \in Hosts, Start(h)
  PROVE  IInv'
<1>1. PICK u, t :
        /\ u = [ResetForExplicitStart(BeginGeneration(sup[h]))
                  EXCEPT !.desired = "running", !.polling = TRUE]
        /\ t = Enqueue(u, "reconcile")
  OBVIOUS
<1>2. Set(h, t) /\ sup[h].up /\ UNCHANGED <<alive, outlived>>
  BY <1>1 DEF Start
<1>3. Sane(h, t)
  BY <1>1, <1>2, WantSane DEF IInv
<1>4. CASE UNCHANGED lease
  BY <1>2, <1>3, <1>4, QuietSet
<1>5. CASE ~Attaches(h) /\ lease = NoHost /\ lease' = h
  <2>1. Sane(h, t)'
    <3>1. Formed(t) /\ Queued(h, t)'
      BY <1>2, <1>3 DEF Sane, Queued
    <3>2. Placed(h, t)'
      BY <1>2, <1>3, <1>5, SupervisorAssumption DEF Sane, Placed
    <3>3. Leaving(h, t)' /\ LeaseKnown(h, t)'
      BY <1>2, <1>3, <1>5 DEF Sane, Leaving, LeaseKnown, Attaches
    <3> QED
      BY <3>1, <3>2, <3>3 DEF Sane, Formed
  <2> QED
    BY <1>2, <1>5, <2>1, SetKeeps
<1> QED
  BY <1>4, <1>5 DEF Start

\* restart: the intent changes, the lease and the run wait for the task.
LEMMA RestartKeeps ==
  ASSUME IInv, NEW h \in Hosts, Restart(h)
  PROVE  IInv'
<1>1. PICK u, t :
        /\ u = [ResetForExplicitStart(BeginGeneration(sup[h]))
                  EXCEPT !.desired = "running", !.polling = TRUE]
        /\ t = Enqueue(u, "restart")
  OBVIOUS
<1>2. Set(h, t) /\ sup[h].up /\ UNCHANGED <<lease, alive, outlived>>
  BY <1>1 DEF Restart
<1>3. Sane(h, t)
  BY <1>1, <1>2, WantSane DEF IInv
<1> QED
  BY <1>2, <1>3, QuietSet

\* stop: what is left is still to be left, by the task it queues.
LEMMA StopKeeps ==
  ASSUME IInv, NEW h \in Hosts, Stop(h)
  PROVE  IInv'
<1>1. PICK v, w, u :
        /\ v = BeginGeneration(sup[h]) /\ w = StopPolling(v)
        /\ u = [w EXCEPT !.desired = "stopped", !.probeOnly = FALSE, !.fatal = FALSE, !.retry = 0]
  OBVIOUS
<1>2. Set(h, Enqueue(u, "stop")) /\ sup[h].up /\ UNCHANGED <<lease, alive, outlived>>
  BY <1>1 DEF Stop
<1>3. Sane(h, sup[h]) /\ Alike(sup[h], v)
  BY <1>1, <1>2, HelpersAlike DEF IInv, Sane
<1>4. Alike(v, w)
  BY <1>1, <1>3, HelpersAlike DEF Alike
<1>5. Sane(h, w)
  BY <1>3, <1>4, AlikeTrans, AlikeSane
<1>6. /\ Formed(u) /\ u.up = w.up /\ u.active = w.active
      /\ u.held = w.held /\ u.queue = w.queue /\ u.at = w.at
  BY <1>1, <1>5 DEF Sane, Formed
<1>7. Queued(h, u) /\ Placed(h, u) /\ LeaseKnown(h, u)
  BY <1>5, <1>6 DEF Sane, Queued, Placed, LeaseKnown
<1>8. Sane(h, Enqueue(u, "stop"))
  BY <1>6, <1>7, EnqueueSane
<1> QED
  BY <1>2, <1>8, QuietSet

\* A poll is queued, or one is queued already.
LEMMA QueuePollSane ==
  ASSUME NEW h, NEW s, Sane(h, s)
  PROVE  Sane(h, QueuePoll(s))
<1>1. CASE s.polled
  BY <1>1 DEF QueuePoll
<1>2. CASE ~s.polled
  <2>1. PICK u : u = [s EXCEPT !.polled = TRUE]
    OBVIOUS
  <2>2. Alike(s, u)
    BY <2>1 DEF Sane, Alike, Formed
  <2>3. Sane(h, Enqueue(u, "poll"))
    BY <2>2, AlikeSane, EnqueueSane DEF Sane
  <2> QED
    BY <1>2, <2>1, <2>3 DEF QueuePoll
<1> QED
  BY <1>1, <1>2

\* startProbing queues a poll.
LEMMA StartProbingKeeps ==
  ASSUME IInv, NEW h \in Hosts, StartProbing(h)
  PROVE  IInv'
<1>1. PICK u : u = [sup[h] EXCEPT !.probeOnly = TRUE, !.polling = TRUE]
  OBVIOUS
<1>2. Set(h, QueuePoll(u)) /\ sup[h].up /\ UNCHANGED <<lease, alive, outlived>>
  BY <1>1 DEF StartProbing
<1>3. Sane(h, sup[h]) /\ Formed(sup[h])
  BY <1>2 DEF IInv, Sane
<1>4. Alike(sup[h], u)
  BY <1>1, <1>3 DEF Alike, Formed
<1>5. Sane(h, QueuePoll(u))
  BY <1>3, <1>4, AlikeSane, QueuePollSane
<1> QED
  BY <1>2, <1>5, QuietSet

\* A timer queues a task or does nothing.
LEMMA TimersKeep ==
  ASSUME IInv, NEW h \in Hosts, PollTimer(h) \/ RetryTimer(h)
  PROVE  IInv'
<1>1. UNCHANGED <<lease, alive, outlived>> /\ sup[h].up /\ Sane(h, sup[h]) /\ Formed(sup[h])
  BY DEF PollTimer, RetryTimer, budget, IInv, Sane
<1>2. CASE PollTimer(h)
  BY <1>1, <1>2, QueuePollSane, QuietSet DEF PollTimer
<1>3. CASE RetryTimer(h)
  <2>1. PICK u : u = [sup[h] EXCEPT !.retry = 0]
    OBVIOUS
  <2>2. Set(h, u) \/ Set(h, Enqueue(u, "reconcile"))
    BY <1>3, <2>1 DEF RetryTimer
  <2>3. Alike(sup[h], u)
    BY <1>1, <2>1 DEF Alike, Formed
  <2>4. Sane(h, u)
    BY <1>1, <2>3, AlikeSane
  <2>5. Sane(h, Enqueue(u, "reconcile"))
    BY <2>4, EnqueueSane DEF Sane
  <2> QED
    BY <1>1, <2>2, <2>4, <2>5, QuietSet
<1> QED
  BY <1>2, <1>3
-----------------------------------------------------------------------------
(* The task at the head of the queue                                       *)

\* A stage that is no stop's ends or goes on with a supervisor that is alike.
LEMMA AlikeFinish ==
  ASSUME NEW h, NEW s, Sane(h, s), s.queue # <<>>, Head(s.queue).kind # "stop", s.at # "acquired",
         NEW t, Alike(s, t)
  PROVE  /\ Sane(h, Finish(t))
         /\ \A g : Sane(h, Reconcile(t, g))
<1>1. Sane(h, t) /\ t.queue # <<>> /\ Head(t.queue).kind # "stop" /\ t.at # "acquired"
  BY AlikeSane DEF Alike
<1> QED
  BY <1>1, FinishSane, ReconcileSane

\* Stages that are no stop's.
LEMMA NoStop ==
  ASSUME IInv, NEW h \in Hosts, Busy(h), sup[h].at \notin {"entry", "grace", "forced"}
  PROVE  Head(sup[h].queue).kind # "stop"
  BY DEF IInv, Sane, Queued, Busy

\* reconcile begins.
LEMMA StartReconcileKeeps ==
  ASSUME IInv, NEW h \in Hosts, StartReconcile(h)
  PROVE  IInv'
<1>1. /\ Sane(h, sup[h]) /\ sup[h].queue # <<>> /\ Head(sup[h].queue).kind # "stop"
      /\ sup[h].at # "acquired"
      /\ UNCHANGED <<lease, alive, outlived>>
  BY DEF StartReconcile, Entry, AtStage, Busy, Task, IInv, budget
<1>2. Sane(h, Reconcile(sup[h], Task(h).gen))
  BY <1>1, ReconcileSane
<1> QED
  BY <1>1, <1>2, QuietSet DEF StartReconcile

\* The lease is taken, found with another host, or not to be had.
LEMMA AcquireKeeps ==
  ASSUME IInv, NEW h \in Hosts, Acquire(h)
  PROVE  IInv'
<1>1. PICK s : s = sup[h]
  OBVIOUS
<1>2. /\ Sane(h, s) /\ Formed(s) /\ s.up /\ s.queue # <<>> /\ Head(s.queue).kind # "stop"
      /\ s.at = "acquire" /\ UNCHANGED <<alive, outlived>>
  BY <1>1, NoStop DEF Acquire, AtStage, Busy, IInv, Sane
<1>3. ~s.held /\ s.active = NoWorker
  BY <1>2 DEF Sane, Placed
<1>4. Alike(s, s)
  BY <1>2, HelpersAlike
<1>5. CASE Set(h, Finish(s)) /\ UNCHANGED lease
  BY <1>2, <1>4, <1>5, AlikeFinish, QuietSet
<1>6. CASE Current(h) /\ lease \in {NoHost, h} /\ lease' = h /\ Set(h, Go(s, "acquired"))
  <2>1. PICK t : t = Go(s, "acquired")
    OBVIOUS
  <2>2. /\ Formed(t) /\ t.up = s.up /\ t.desired = "running"
        /\ t.active = s.active /\ t.held = s.held
        /\ t.queue = s.queue /\ t.at = "acquired"
    BY <1>1, <1>2, <1>6, <2>1 DEF Formed, Go, Current, IsCurrent
  <2>3. Formed(t)' /\ Queued(h, t)'
    BY <1>2, <2>2 DEF Sane, Queued, Formed
  <2>4. Placed(h, t)'
    BY <1>2, <1>3, <1>6, <2>2 DEF Sane, Placed
  <2>5. Leaving(h, t)' /\ LeaseKnown(h, t)'
    BY <2>2 DEF Leaving, LeaseKnown
  <2>6. Sane(h, t)'
    BY <2>3, <2>4, <2>5 DEF Sane
  <2> QED
    BY <1>2, <1>6, <2>1, <2>6, SetKeeps
<1>7. CASE Set(h, Go([s EXCEPT !.seen = lease], "occupied")) /\ UNCHANGED lease
  <2>1. PICK u : u = [s EXCEPT !.seen = lease]
    OBVIOUS
  <2>2. Alike(s, u)
    BY <1>2, <2>1 DEF Alike, Formed
  <2>3. /\ Sane(h, u) /\ u.queue # <<>> /\ Head(u.queue).kind # "stop" /\ u.at # "acquired"
        /\ ~u.held /\ u.active = NoWorker
    BY <1>2, <1>3, <2>2, AlikeSane DEF Alike
  <2>4. Sane(h, Go(u, "occupied"))
    BY <2>3, GoSane
  <2> QED
    BY <1>2, <1>7, <2>1, <2>4, QuietSet
<1>8. CASE UNCHANGED lease /\ \E r \in Failures(s, Task(h).gen) : Set(h, Finish(r))
  <2>1. PICK r \in Failures(s, Task(h).gen) : Set(h, Finish(r))
    BY <1>8
  <2>2. Alike(s, r)
    BY <1>2, <2>1, HelpersAlike
  <2>3. Sane(h, Finish(r))
    BY <1>2, <2>2, AlikeFinish
  <2> QED
    BY <1>2, <1>8, <2>1, <2>3, QuietSet
<1> QED
  BY <1>1, <1>5, <1>6, <1>7, <1>8 DEF Acquire

\* The lease becomes the supervisor's, or is given back.
LEMMA AcquiredKeeps ==
  ASSUME IInv, NEW h \in Hosts, Acquired(h)
  PROVE  IInv'
<1>1. PICK s : s = sup[h]
  OBVIOUS
<1>2. /\ Sane(h, s) /\ Formed(s) /\ s.up /\ s.queue # <<>> /\ Head(s.queue).kind # "stop"
      /\ s.at = "acquired" /\ UNCHANGED <<alive, outlived>>
  BY <1>1, NoStop DEF Acquired, AtStage, Busy, IInv, Sane, budget
<1>3. ~s.held /\ s.active = NoWorker /\ lease = h
  BY <1>2 DEF Sane, Placed
<1>4. CASE Current(h) /\ UNCHANGED lease /\ Set(h, Go([s EXCEPT !.held = TRUE], "probe"))
  <2>1. PICK t : t = Go([s EXCEPT !.held = TRUE], "probe")
    OBVIOUS
  <2>2. /\ Formed(t) /\ t.up = s.up /\ t.desired = "running"
        /\ t.active = s.active /\ t.held = TRUE
        /\ t.queue = s.queue /\ t.at = "probe"
    BY <1>1, <1>2, <1>4, <2>1 DEF Formed, Go, Current, IsCurrent
  <2>3. Queued(h, t) /\ Placed(h, t)
    BY <1>2, <1>3, <2>2 DEF Sane, Queued, Placed
  <2>4. Leaving(h, t) /\ LeaseKnown(h, t)
    BY <2>2 DEF Leaving, LeaseKnown
  <2>5. Sane(h, t)
    BY <2>2, <2>3, <2>4 DEF Sane
  <2> QED
    BY <1>2, <1>4, <2>1, <2>5, QuietSet
<1>5. CASE Set(h, Finish(s)) /\ lease' = NoHost
  <2>1. PICK t : t = Finish(s)
    OBVIOUS
  <2>2. /\ Formed(t) /\ t.active = s.active /\ t.held = s.held /\ t.at = "entry"
        /\ Queued(h, t)
    <3>1. Formed(s) /\ Queued(h, s)
      BY <1>2 DEF Sane
    <3> QED
      BY <1>2, <2>1, <3>1, FinishFacts
  <2>3. Formed(t)' /\ Queued(h, t)'
    BY <1>2, <2>2 DEF Queued, Formed
  <2>4. Placed(h, t)'
    BY <1>2, <1>3, <2>2 DEF Sane, Placed
  <2>5. Leaving(h, t)' /\ LeaseKnown(h, t)'
    BY <1>3, <1>5, <2>2, SupervisorAssumption DEF Leaving, LeaseKnown
  <2>6. Sane(h, t)'
    BY <2>3, <2>4, <2>5 DEF Sane
  <2> QED
    BY <1>2, <1>3, <1>5, <2>1, <2>6, SetKeeps
<1> QED
  BY <1>1, <1>4, <1>5 DEF Acquired

\* The lease of another host is observed, waited for or fatal.
LEMMA OccupiedKeeps ==
  ASSUME IInv, NEW h \in Hosts, Occupied(h)
  PROVE  IInv'
<1>1. PICK s : s = sup[h]
  OBVIOUS
<1>2. /\ Sane(h, s) /\ Formed(s) /\ s.up /\ s.queue # <<>> /\ Head(s.queue).kind # "stop"
      /\ s.at = "occupied" /\ UNCHANGED <<lease, alive, outlived>>
  BY <1>1, NoStop DEF Occupied, AtStage, Busy, IInv, Sane
<1>3. PICK t : /\ Set(h, Finish(t))
               /\ t \in {s, MarkFatal(s), ScheduleRetry(s, Task(h).gen),
                         ObserveExternal(h, s, port, s.seen)}
  BY <1>1 DEF Occupied
<1>4. Alike(s, t)
  BY <1>2, <1>3, HelpersAlike, ObserveAlike
<1>5. Sane(h, Finish(t))
  BY <1>2, <1>4, AlikeFinish
<1> QED
  BY <1>2, <1>3, <1>5, QuietSet

\* The port is free, or the launch is retried.
LEMMA ProbeKeeps ==
  ASSUME IInv, NEW h \in Hosts, Probe(h)
  PROVE  IInv'
<1>1. PICK s : s = sup[h]
  OBVIOUS
<1>2. /\ Sane(h, s) /\ Formed(s) /\ s.up /\ s.queue # <<>> /\ Head(s.queue).kind # "stop"
      /\ s.at = "probe" /\ UNCHANGED <<lease, alive, outlived>>
  BY <1>1, NoStop DEF Probe, AtStage, Busy, IInv, Sane
<1>3. s.held /\ s.active = NoWorker
  BY <1>2 DEF Sane, Placed
<1>4. Alike(s, s) /\ Alike(s, ScheduleRetry(s, Task(h).gen))
  BY <1>2, HelpersAlike
<1>5. Sane(h, Finish(s)) /\ Sane(h, Finish(ScheduleRetry(s, Task(h).gen)))
  BY <1>2, <1>4, AlikeFinish
<1>6. Sane(h, Go(s, "prepare"))
  BY <1>2, <1>3, GoSane
<1>7. PICK t : Set(h, t) /\ t \in {Finish(s), Finish(ScheduleRetry(s, Task(h).gen)),
                                    Go(s, "prepare")}
  BY <1>1 DEF Probe
<1> QED
  BY <1>2, <1>5, <1>6, <1>7, QuietSet

\* The worker that is launched is the supervisor's run under its lease.
LEMMA PrepareKeeps ==
  ASSUME IInv, NEW h \in Hosts, Prepare(h)
  PROVE  IInv'
<1>1. PICK s : s = sup[h]
  OBVIOUS
<1>2. /\ Sane(h, s) /\ Formed(s) /\ s.up /\ s.queue # <<>> /\ Head(s.queue).kind # "stop"
      /\ s.at = "prepare" /\ UNCHANGED <<lease, outlived>>
  BY <1>1, NoStop DEF Prepare, AtStage, Busy, IInv, Sane
<1>3. s.held /\ s.active = NoWorker /\ lease = h
  BY <1>2 DEF Sane, Placed
<1>4. Alike(s, s)
  BY <1>2, HelpersAlike
<1>5. CASE Set(h, Finish(s)) /\ UNCHANGED alive
  BY <1>2, <1>4, <1>5, AlikeFinish, QuietSet
<1>6. CASE UNCHANGED alive /\ \E r \in Failures(s, Task(h).gen) : Set(h, Finish(r))
  <2>1. PICK r \in Failures(s, Task(h).gen) : Set(h, Finish(r))
    BY <1>6
  <2>2. Alike(s, r)
    BY <1>2, <2>1, HelpersAlike
  <2>3. Sane(h, Finish(r))
    BY <1>2, <2>2, AlikeFinish
  <2> QED
    BY <1>2, <1>6, <2>1, <2>3, QuietSet
<1>7. CASE /\ Current(h)
           /\ \E w \in FreeWorkers(h) :
                /\ alive' = alive \cup {w}
                /\ Set(h, Finish([s EXCEPT !.active = w, !.runGen = Task(h).gen,
                                           !.ext = NoWorker, !.misses = 0]))
  <2>1. PICK w \in FreeWorkers(h) :
                /\ alive' = alive \cup {w}
                /\ Set(h, Finish([s EXCEPT !.active = w, !.runGen = Task(h).gen,
                                           !.ext = NoWorker, !.misses = 0]))
    BY <1>7
  <2>2. PICK u, t : /\ u = [s EXCEPT !.active = w, !.runGen = Task(h).gen,
                                     !.ext = NoWorker, !.misses = 0]
                    /\ t = Finish(u)
    OBVIOUS
  <2>3. /\ Formed(u) /\ u.up /\ u.desired = "running" /\ u.active = w /\ u.held
        /\ u.queue = s.queue /\ u.at = s.at
    BY <1>1, <1>2, <1>3, <1>7, <2>2 DEF Formed, Current, IsCurrent
  <2>4. Queued(h, u)
    BY <1>2, <2>3 DEF Sane, Queued
  <2>5. /\ Formed(t) /\ t.up /\ t.desired = "running" /\ t.active = w /\ t.held
        /\ t.at = "entry" /\ Queued(h, t)
        /\ \A i \in DOMAIN t.queue : \E j \in DOMAIN s.queue : t.queue[i] = s.queue[j]
    <3>1. u.queue # <<>> /\ Formed(u) /\ t = Finish(u)
      BY <1>2, <2>2, <2>3
    <3>2. /\ Formed(t) /\ t.up = u.up /\ t.desired = u.desired /\ t.active = u.active
          /\ t.held = u.held /\ t.at = "entry" /\ Queued(h, t)
          /\ \A i \in DOMAIN t.queue : \E j \in DOMAIN u.queue : t.queue[i] = u.queue[j]
      BY <2>4, <3>1, FinishFacts
    <3> QED
      BY <2>3, <3>2
  <2>6. /\ w \in {h} \X Slots
        /\ \A j \in DOMAIN s.queue : s.queue[j].worker # w
    BY <1>1 DEF FreeWorkers
  <2>7. Formed(t)' /\ Queued(h, t)'
    BY <2>1, <2>5, <2>6 DEF Queued, Formed
  <2>8. \A x \in alive : Host(x) = h => x = NoWorker
    BY <1>2, <1>3 DEF Sane, Placed
  <2>9. \A x \in alive : Host(x) # h
    BY <2>8, SupervisorAssumption DEF IInv, Workers
  <2>10. Placed(h, t)'
    BY <1>2, <1>3, <2>1, <2>5, <2>9 DEF Placed
  <2>11. Leaving(h, t)' /\ LeaseKnown(h, t)'
    BY <2>5 DEF Leaving, LeaseKnown
  <2>12. Sane(h, t)'
    BY <2>7, <2>10, <2>11 DEF Sane
  <2>13. alive' \subseteq alive \cup ({h} \X Slots)
    BY <2>1, <2>6
  <2> QED
    BY <1>2, <2>1, <2>2, <2>12, <2>13, SetKeeps
<1> QED
  BY <1>1, <1>5, <1>6, <1>7 DEF Prepare

\* The run that settles has ended, so none is left when the record is cleared.
LEMMA HandleRunSettledKeeps ==
  ASSUME IInv, NEW h \in Hosts, HandleRunSettled(h)
  PROVE  IInv'
<1>1. PICK s, k, r : s = sup[h] /\ k = Head(s.queue) /\ r = [s EXCEPT !.active = NoWorker]
  OBVIOUS
<1>2. /\ Sane(h, s) /\ Formed(s) /\ s.up /\ s.queue # <<>> /\ k.kind = "settled"
      /\ s.at = "entry" /\ UNCHANGED <<lease, alive, outlived>>
  BY <1>1 DEF HandleRunSettled, Entry, AtStage, Task, Busy, IInv, Sane, budget
<1>3. Set(h, IF s.active # k.worker THEN Finish(s)
             ELSE IF ~IsCurrent(r, k.gen) THEN Finish(r)
             ELSE IF k.busy THEN Finish(ScheduleRetry(r, k.gen))
             ELSE Go(r, "decide"))
  BY <1>1 DEF HandleRunSettled, Task
<1>4. CASE s.active # k.worker
  <2>1. Set(h, Finish(s))
    BY <1>3, <1>4
  <2>2. Sane(h, Finish(s))
    BY <1>1, <1>2, FinishSane
  <2> QED
    BY <1>2, <2>1, <2>2, QuietSet
<1>5. CASE s.active = k.worker
  <2>1. k.worker \in ({h} \X Slots) \ alive
    <3>1. PICK q : q = s.queue
      OBVIOUS
    <3>2. IsSequence(q) /\ q # <<>>
      BY <1>2, <3>1 DEF Sane, Queued
    <3>3. \E i \in DOMAIN q : q[i] = Head(q)
      BY <3>2, First
    <3> QED
      BY <1>1, <1>2, <3>1, <3>3 DEF Sane, Queued
  <2>2. s.held /\ \A w \in alive : Host(w) # h
    BY <1>2, <1>5, <2>1, SupervisorAssumption DEF Sane, Placed
  <2>3. /\ Formed(r) /\ r.up = s.up /\ r.desired = s.desired /\ r.active = NoWorker
        /\ r.held = s.held /\ r.queue = s.queue /\ r.at = s.at
    BY <1>1, <1>2 DEF Formed
  <2>4. Queued(h, r) /\ Placed(h, r)
    BY <1>2, <2>2, <2>3 DEF Sane, Queued, Placed
  <2>5. Leaving(h, r) /\ LeaseKnown(h, r)
    BY <1>2, <2>3 DEF Sane, Leaving, StopQueued, LeaseKnown
  <2>6. Sane(h, r)
    BY <2>3, <2>4, <2>5 DEF Sane
  <2>7. Alike(r, r) /\ Alike(r, ScheduleRetry(r, k.gen))
    BY <2>3, HelpersAlike
  <2>8. r.queue # <<>> /\ Head(r.queue).kind # "stop" /\ r.at # "acquired"
    BY <1>1, <1>2, <2>3
  <2>9. Sane(h, Finish(r)) /\ Sane(h, Finish(ScheduleRetry(r, k.gen)))
    BY <2>6, <2>7, <2>8, AlikeFinish
  <2>10. Sane(h, Go(r, "decide"))
    BY <2>2, <2>3, <2>6, <2>8, GoSane
  <2>11. PICK t : Set(h, t) /\ t \in {Finish(r), Finish(ScheduleRetry(r, k.gen)), Go(r, "decide")}
    BY <1>3, <1>5
  <2> QED
    BY <1>2, <2>9, <2>10, <2>11, QuietSet
<1> QED
  BY <1>4, <1>5

\* The daemon stops itself, restarts at once, or waits.
LEMMA DecideKeeps ==
  ASSUME IInv, NEW h \in Hosts, Decide(h)
  PROVE  IInv'
<1>1. PICK s, g : s = sup[h] /\ g = Task(h).gen
  OBVIOUS
<1>2. /\ Sane(h, s) /\ Formed(s) /\ s.up /\ s.queue # <<>> /\ Head(s.queue).kind # "stop"
      /\ s.at = "decide" /\ UNCHANGED <<alive, outlived>>
  BY <1>1, NoStop DEF Decide, AtStage, Busy, IInv, Sane, budget
<1>3. s.held /\ s.active = NoWorker /\ lease = h
  BY <1>2 DEF Sane, Placed
<1>4. CASE UNCHANGED lease /\ \/ Set(h, Finish(s))
                              \/ Set(h, Reconcile([s EXCEPT !.retry = 0], g))
                              \/ \E r \in Failures(s, g) : Set(h, Finish(r))
  <2>1. PICK u : u = [s EXCEPT !.retry = 0]
    OBVIOUS
  <2>2. Alike(s, u)
    BY <1>2, <2>1 DEF Alike, Formed
  <2>3. Alike(s, s) /\ \A r \in Failures(s, g) : Alike(s, r)
    BY <1>2, HelpersAlike
  <2>4. Sane(h, Finish(s)) /\ \A r \in Failures(s, g) : Sane(h, Finish(r))
    BY <1>2, <2>3, AlikeFinish
  <2>5. Sane(h, Reconcile(u, g))
    BY <1>2, <2>2, AlikeFinish
  <2> QED
    BY <1>2, <1>4, <2>1, <2>4, <2>5, QuietSet
<1>5. CASE lease' = NoHost /\ Set(h, Finish(StopDecision(s)))
  <2>1. PICK v, u, t :
          /\ v = [BeginGeneration(s) EXCEPT !.desired = "stopped", !.retry = 0, !.held = FALSE]
          /\ u = StopPolling(v)
          /\ t = Finish(u)
    OBVIOUS
  <2>2. /\ Formed(v) /\ v.active = s.active /\ v.held = FALSE
        /\ v.queue = s.queue /\ v.at = s.at
    BY <1>2, <2>1 DEF Formed, BeginGeneration
  <2>3. Alike(v, u)
    BY <2>1, <2>2, HelpersAlike
  <2>4. /\ Formed(u) /\ u.active = s.active /\ u.held = FALSE
        /\ u.queue = s.queue /\ u.at = s.at
    BY <2>2, <2>3 DEF Alike
  <2>5. Queued(h, u) /\ u.queue # <<>> /\ t = Finish(u)
    BY <1>2, <2>1, <2>4 DEF Sane, Queued
  <2>6. Formed(t) /\ t.active = u.active /\ t.held = u.held /\ t.at = "entry" /\ Queued(h, t)
    BY <2>4, <2>5, FinishFacts
  <2>7. Formed(t)' /\ Queued(h, t)'
    BY <1>2, <2>6 DEF Queued, Formed
  <2>8. Placed(h, t)'
    BY <1>2, <2>4, <2>6 DEF Sane, Placed
  <2>9. Leaving(h, t)' /\ LeaseKnown(h, t)'
    BY <1>5, <2>4, <2>6, SupervisorAssumption DEF Leaving, LeaseKnown
  <2>10. Sane(h, t)'
    BY <2>7, <2>8, <2>9 DEF Sane
  <2> QED
    BY <1>2, <1>3, <1>5, <2>1, <2>10, SetKeeps DEF StopDecision
<1> QED
  BY <1>1, <1>3, <1>4, <1>5 DEF Decide

-----------------------------------------------------------------------------
(* Stop and restart                                                        *)

\* The worker is asked to shut down, or killed.
LEMMA TerminateKeeps ==
  ASSUME IInv, NEW h \in Hosts, Terminate(h) \/ GraceTimeout(h)
  PROVE  IInv'
<1>1. PICK s : s = sup[h]
  OBVIOUS
<1>2. /\ Sane(h, s) /\ s.queue # <<>> /\ s.at # "acquired" /\ UNCHANGED <<lease, alive, outlived>>
      /\ Set(h, Go(s, "grace")) \/ Set(h, Go(s, "forced"))
  BY <1>1 DEF Terminate, GraceTimeout, Entry, AtStage, Busy, IInv, budget
<1>3. Sane(h, Go(s, "grace")) /\ Sane(h, Go(s, "forced"))
  BY <1>2, GoSane
<1> QED
  BY <1>2, <1>3, QuietSet

\* The worker has ended: stop leaves nothing, restart reconciles.
LEMMA TerminatedKeeps ==
  ASSUME IInv, NEW h \in Hosts, Terminated(h)
  PROVE  IInv'
<1>1. PICK s, r : s = sup[h] /\ r = [s EXCEPT !.active = NoWorker]
  OBVIOUS
<1>2. /\ Sane(h, s) /\ Formed(s) /\ s.up /\ s.queue # <<>>
      /\ s.at \in {"entry", "grace", "forced"}
      /\ UNCHANGED <<alive, outlived>>
  BY <1>1 DEF Terminated, Busy, IInv, Sane, budget
<1>3. \A w \in alive : Host(w) # h
  <2>1. \A w \in alive : Host(w) = h => s.active = w /\ w # NoWorker
    BY <1>2, SupervisorAssumption DEF Sane, Placed, IInv, Workers
  <2> QED
    BY <1>1, <2>1 DEF Terminated
<1>4. /\ Formed(r) /\ r.up = s.up /\ r.desired = s.desired /\ r.active = NoWorker
      /\ r.held = s.held /\ r.queue = s.queue /\ r.at = s.at
  BY <1>1, <1>2 DEF Formed
<1>5. Queued(h, r) /\ Placed(h, r)
  BY <1>2, <1>3, <1>4 DEF Sane, Queued, Placed
<1>6. Leaving(h, r) /\ LeaseKnown(h, r)
  BY <1>2, <1>4 DEF Sane, Leaving, StopQueued, LeaseKnown
<1>7. Sane(h, r)
  BY <1>4, <1>5, <1>6 DEF Sane
<1>8. CASE Task(h).kind = "restart" /\ Set(h, Reconcile(r, Task(h).gen)) /\ UNCHANGED lease
  <2>1. r.queue # <<>> /\ Head(r.queue).kind # "stop" /\ r.at # "acquired"
    BY <1>1, <1>2, <1>4, <1>8 DEF Task
  <2>2. Sane(h, Reconcile(r, Task(h).gen))
    BY <1>7, <2>1, ReconcileSane
  <2> QED
    BY <1>2, <1>8, <2>2, QuietSet
<1>9. CASE Set(h, Stopped(r)) /\ lease' = IF r.held THEN NoHost ELSE lease
  <2>1. PICK d, u, t : /\ d = Detach(r)
                       /\ u = [d EXCEPT !.held = FALSE, !.misses = 0]
                       /\ t = Finish(u)
    OBVIOUS
  <2>2. Alike(r, d)
    BY <1>4, <2>1, HelpersAlike
  <2>3. /\ Formed(u) /\ u.active = NoWorker /\ u.held = FALSE
        /\ u.queue = s.queue /\ u.at = s.at
    BY <1>4, <2>1, <2>2 DEF Formed, Alike
  <2>4. Queued(h, u) /\ u.queue # <<>> /\ t = Finish(u)
    BY <1>2, <2>1, <2>3 DEF Sane, Queued
  <2>5. Formed(t) /\ t.active = u.active /\ t.held = u.held /\ t.at = "entry" /\ Queued(h, t)
    BY <2>3, <2>4, FinishFacts
  <2>6. Formed(t)' /\ Queued(h, t)'
    BY <1>2, <2>5 DEF Queued, Formed
  <2>7. Placed(h, t)'
    BY <1>2, <1>3, <2>3, <2>5 DEF Placed
  <2>8. r.held => lease = h
    BY <1>5 DEF Placed
  <2>9. Leaving(h, t)' /\ LeaseKnown(h, t)'
    BY <1>2, <1>4, <1>6, <1>9, <2>3, <2>5, SupervisorAssumption DEF Leaving, LeaseKnown
  <2>10. Sane(h, t)'
    BY <2>6, <2>7, <2>9 DEF Sane
  <2>11. lease' = lease \/ (lease = h /\ lease' = NoHost)
    BY <1>9, <2>8
  <2> QED
    BY <1>2, <1>9, <2>1, <2>10, <2>11, SetKeeps DEF Stopped
<1>10. r = [sup[h] EXCEPT !.active = NoWorker] /\ Task(h).kind \in {"stop", "restart"}
  BY <1>1 DEF Terminated
<1>11. CASE Task(h).kind = "stop"
  BY <1>9, <1>10, <1>11 DEF Terminated
<1>12. CASE Task(h).kind = "restart"
  BY <1>8, <1>10, <1>12 DEF Terminated
<1> QED
  BY <1>10, <1>11, <1>12

\* The worker outlives SIGKILL: everything stays, and no stop promises anything.
LEMMA ForcedTimeoutKeeps ==
  ASSUME IInv, NEW h \in Hosts, ForcedTimeout(h)
  PROVE  IInv'
<1>1. PICK s, u, t : s = sup[h] /\ u = [s EXCEPT !.fatal = TRUE] /\ t = Finish(u)
  OBVIOUS
<1>2. /\ Sane(h, s) /\ Formed(s) /\ s.queue # <<>> /\ s.at = "forced"
      /\ UNCHANGED <<lease, alive>> /\ outlived' = outlived \cup {h} /\ Set(h, t)
  BY <1>1 DEF ForcedTimeout, AtStage, Busy, IInv, Sane
<1>3. Alike(s, u)
  BY <1>1, <1>2 DEF Alike, Formed
<1>4. Formed(u) /\ Queued(h, u) /\ u.queue # <<>> /\ t = Finish(u)
  BY <1>1, <1>2, <1>3 DEF Alike, Sane, Queued
<1>5. Formed(t) /\ t.active = u.active /\ t.held = u.held /\ t.at = "entry" /\ Queued(h, t)
  BY <1>4, FinishFacts
<1>6. Formed(t)' /\ Queued(h, t)'
  BY <1>2, <1>5 DEF Queued, Formed
<1>7. Placed(h, t)'
  BY <1>2, <1>3, <1>5 DEF Sane, Placed, Alike
<1>8. Leaving(h, t)' /\ LeaseKnown(h, t)'
  BY <1>2, <1>3, <1>5 DEF Sane, Leaving, LeaseKnown, Alike
<1>9. Sane(h, t)'
  BY <1>6, <1>7, <1>8 DEF Sane
<1> QED
  BY <1>2, <1>9, SetKeeps

-----------------------------------------------------------------------------
(* Polling                                                                 *)

\* The facts the stages of a poll start from.
LEMMA PollFacts ==
  ASSUME IInv, NEW h \in Hosts, Poll(h) \/ Inspect(h) \/ Fetch(h) \/ FetchProbe(h)
  PROVE  /\ Sane(h, sup[h]) /\ Formed(sup[h]) /\ sup[h].queue # <<>>
         /\ Head(sup[h].queue).kind # "stop" /\ sup[h].at # "acquired"
         /\ UNCHANGED <<lease, alive, outlived>>
<1>1. Busy(h) /\ IInv /\ UNCHANGED <<lease, alive, outlived>>
  BY DEF Poll, Inspect, Fetch, FetchProbe, Entry, AtStage, budget
<1>2. CASE Poll(h)
  BY <1>1, <1>2 DEF Poll, Entry, AtStage, Task, Busy, IInv, Sane
<1>3. CASE Inspect(h) \/ Fetch(h) \/ FetchProbe(h)
  BY <1>1, <1>3, NoStop DEF Inspect, Fetch, FetchProbe, AtStage, Busy, IInv, Sane
<1> QED
  BY <1>2, <1>3

\* A poll inspects the lease or fetches the runtime's state.
LEMMA PollKeeps ==
  ASSUME IInv, NEW h \in Hosts, Poll(h)
  PROVE  IInv'
<1>1. PICK s : s = sup[h]
  OBVIOUS
<1>2. /\ Sane(h, s) /\ Formed(s) /\ s.queue # <<>> /\ Head(s.queue).kind # "stop"
      /\ s.at # "acquired" /\ UNCHANGED <<lease, alive, outlived>>
  BY <1>1, PollFacts
<1>3. Sane(h, Go(s, "inspect")) /\ Sane(h, Go(s, "fetch")) /\ Sane(h, Finish(s))
  BY <1>2, GoSane, FinishSane
<1>4. PICK t : Set(h, t) /\ t \in {Go(s, "inspect"), Go(s, "fetch"), Finish(s)}
  BY <1>1 DEF Poll
<1> QED
  BY <1>2, <1>3, <1>4, QuietSet

\* An owner that changed is reconciled with.
LEMMA InspectKeeps ==
  ASSUME IInv, NEW h \in Hosts, Inspect(h)
  PROVE  IInv'
<1>1. PICK s : s = sup[h]
  OBVIOUS
<1>2. /\ Sane(h, s) /\ Formed(s) /\ s.queue # <<>> /\ Head(s.queue).kind # "stop"
      /\ s.at # "acquired" /\ UNCHANGED <<lease, alive, outlived>>
  BY <1>1, PollFacts
<1>3. PICK owner, g, u : g = Task(h).gen /\ u = [s EXCEPT !.seen = owner]
        /\ \E t \in {Go(u, "fetchProbe"), Finish(s), Reconcile(Detach(s), g), Go(s, "fetch")} :
             Set(h, t)
  BY <1>1 DEF Inspect
<1>4. Alike(s, u)
  BY <1>2, <1>3 DEF Alike, Formed
<1>5. Sane(h, u) /\ u.queue # <<>> /\ Head(u.queue).kind # "stop" /\ u.at # "acquired"
  BY <1>2, <1>4, AlikeSane DEF Alike
<1>6. Sane(h, Go(u, "fetchProbe"))
  BY <1>5, GoSane
<1>7. Sane(h, Go(s, "fetch")) /\ Sane(h, Finish(s))
  BY <1>2, GoSane, FinishSane
<1>8. Alike(s, Detach(s))
  BY <1>2, HelpersAlike
<1>9. Sane(h, Reconcile(Detach(s), g))
  BY <1>2, <1>8, AlikeFinish
<1> QED
  BY <1>2, <1>3, <1>6, <1>7, <1>9, QuietSet

\* Whatever it fetched, a poll ends with a supervisor that is alike, or reconciles it.
LEMMA FetchKeeps ==
  ASSUME IInv, NEW h \in Hosts, Fetch(h)
  PROVE  IInv'
<1>1. PICK s, g, m : s = sup[h] /\ g = Task(h).gen /\ m = Missed(s)
  OBVIOUS
<1>2. /\ Sane(h, s) /\ Formed(s) /\ s.queue # <<>> /\ Head(s.queue).kind # "stop"
      /\ s.at # "acquired" /\ UNCHANGED <<lease, alive, outlived>>
  BY <1>1, PollFacts
<1>3. PICK found, t : Set(h, t) /\ (t = Polled(h, found) \/ t = Finish(s))
  BY <1>1 DEF Fetch
<1>4. PICK z, y : z = [s EXCEPT !.misses = 0] /\ y = [s EXCEPT !.misses = 0, !.ext = NoWorker]
  OBVIOUS
<1>5. Alike(s, z) /\ Alike(s, y)
  BY <1>2, <1>4 DEF Alike, Formed
<1>6. Alike(s, s) /\ Alike(s, m)
  BY <1>1, <1>2, HelpersAlike
<1>7. Alike(m, Detach(m))
  BY <1>6, HelpersAlike DEF Alike
<1>8. Alike(s, Detach(m))
  BY <1>6, <1>7, AlikeTrans
<1>9. Alike(z, ScheduleRetry(z, g))
  BY <1>5, HelpersAlike DEF Alike
<1>10. Alike(s, ScheduleRetry(z, g))
  BY <1>5, <1>9, AlikeTrans
<1>11. Alike(s, ObserveExternal(h, s, found, s.extHost))
       /\ Alike(s, ObserveExternal(h, s, found, NoHost))
  BY <1>2, ObserveAlike
<1>12. PICK r : Alike(s, r) /\ (t = Finish(r) \/ t = Reconcile(r, g))
  <2>1. CASE t = Finish(s)
    BY <1>6, <2>1
  <2>2. CASE t = Polled(h, found)
    <3>1. \/ \E r \in {ObserveExternal(h, s, found, s.extHost), m, y, z,
                        ObserveExternal(h, s, found, NoHost), ScheduleRetry(z, g)} :
               Polled(h, found) = Finish(r)
          \/ Polled(h, found) = Reconcile(Detach(m), g)
      BY <1>1, <1>4 DEF Polled
    <3> QED
      BY <1>5, <1>6, <1>8, <1>10, <1>11, <2>2, <3>1
  <2> QED
    BY <1>3, <2>1, <2>2
<1>13. Sane(h, t)
  BY <1>2, <1>12, AlikeFinish
<1> QED
  BY <1>2, <1>3, <1>13, QuietSet

\* A supervisor that only probes records what it found.
LEMMA FetchProbeKeeps ==
  ASSUME IInv, NEW h \in Hosts, FetchProbe(h)
  PROVE  IInv'
<1>1. PICK s, m : s = sup[h] /\ m = Missed(s)
  OBVIOUS
<1>2. /\ Sane(h, s) /\ Formed(s) /\ s.queue # <<>> /\ Head(s.queue).kind # "stop"
      /\ s.at # "acquired" /\ UNCHANGED <<lease, alive, outlived>>
  BY <1>1, PollFacts
<1>3. PICK found, u :
        /\ u = [s EXCEPT !.ext = found, !.extHost = s.seen, !.misses = 0]
        /\ \E r \in {s, u, Detach(m), m} : Set(h, Finish(r))
  BY <1>1 DEF FetchProbe
<1>4. Alike(s, u)
  BY <1>2, <1>3 DEF Alike, Formed
<1>5. Alike(s, s) /\ Alike(s, m)
  BY <1>1, <1>2, HelpersAlike
<1>6. Alike(m, Detach(m))
  BY <1>5, HelpersAlike DEF Alike
<1>7. Alike(s, Detach(m))
  BY <1>5, <1>6, AlikeTrans
<1>8. PICK r : Alike(s, r) /\ Set(h, Finish(r))
  BY <1>3, <1>4, <1>5, <1>7
<1>9. Sane(h, Finish(r))
  BY <1>2, <1>8, AlikeFinish
<1> QED
  BY <1>2, <1>8, <1>9, QuietSet

-----------------------------------------------------------------------------
(* Processes                                                               *)

\* The run of a worker that ended is settled by the task its exit queues.
LEMMA ExitKeeps ==
  ASSUME IInv, NEW w \in Workers, Exit(w)
  PROVE  IInv'
<1>1. PICK h, s : h = Host(w) /\ s = sup[h]
  OBVIOUS
<1>2. h \in Hosts /\ w \in {h} \X Slots
  BY <1>1 DEF Workers, Host
<1>3. alive' = alive \ {w} /\ UNCHANGED <<lease, outlived>>
  BY DEF Exit, EndWorker
<1>4. CASE s.up
  <2>1. PICK task, t :
          /\ task.kind = "settled" /\ task.worker = w
          /\ t = [s EXCEPT !.queue = Append(s.queue, task)]
          /\ Set(h, t)
    BY <1>1, <1>4 DEF Exit, EndWorker
  <2>2. Sane(h, s) /\ Formed(s)
    BY <1>1, <1>2, <1>4 DEF IInv, Sane
  <2>3. /\ Formed(t) /\ t.up = s.up /\ t.desired = s.desired
        /\ t.active = s.active /\ t.held = s.held
        /\ t.queue = Append(s.queue, task) /\ t.at = s.at
    BY <2>1, <2>2 DEF Formed
  <2>4. PICK q, r : q = s.queue /\ r = t.queue
    OBVIOUS
  <2>5. IsSequence(q) /\ r = Append(q, task)
    BY <2>2, <2>3, <2>4 DEF Sane, Queued
  <2>6. IsSequence(r) /\ r # <<>>
    BY <2>5, Appended
  <2>7. q # <<>> => Head(r) = Head(q)
    BY <2>5, Appended
  <2>8. \A i \in DOMAIN q : i \in DOMAIN r /\ r[i] = q[i]
    BY <2>5, Appended
  <2>9. \E n \in DOMAIN r : r[n] = task /\ \A i \in DOMAIN r : i = n \/ i \in DOMAIN q
    BY <2>5, Appended
  <2>10. Formed(t)' /\ Queued(h, t)'
    <3>1. \A i \in DOMAIN r : r[i].kind = "settled" => r[i].worker \in ({h} \X Slots) \ alive'
      BY <1>2, <1>3, <2>1, <2>2, <2>4, <2>8, <2>9 DEF Sane, Queued
    <3>2. t.at \notin {"entry", "grace", "forced"} => Head(r).kind # "stop"
      BY <2>2, <2>3, <2>4, <2>7 DEF Sane, Queued
    <3> QED
      BY <2>3, <2>4, <2>6, <3>1, <3>2 DEF Queued, Formed
  <2>11. Placed(h, t)'
    BY <1>3, <2>2, <2>3 DEF Sane, Placed
  <2>12. StopQueued(s) => StopQueued(t)
    BY <2>4, <2>8 DEF StopQueued
  <2>13. Leaving(h, t)' /\ LeaseKnown(h, t)'
    BY <1>3, <2>2, <2>3, <2>12 DEF Sane, Leaving, LeaseKnown, StopQueued
  <2>14. Sane(h, t)'
    BY <2>10, <2>11, <2>13 DEF Sane
  <2> QED
    BY <1>2, <1>3, <2>1, <2>14, SetKeeps
<1>5. CASE ~s.up
  <2>1. UNCHANGED sup
    BY <1>1, <1>5 DEF Exit, EndWorker
  <2>2. sup' = [sup EXCEPT ![h] = s]
    BY <1>1, <1>2, <2>1 DEF IInv
  <2>3. Set(h, s)
    BY <2>2 DEF Set
  <2> QED
    BY <1>2, <1>3, <1>5, <2>3, SetKeeps
<1> QED
  BY <1>4, <1>5

\* A host that ends leaves its workers behind, not its lease.
LEMMA EndHostKeeps ==
  ASSUME IInv, NEW h \in Hosts, EndHost(h)
  PROVE  IInv'
<1>1. ~Down.up
  BY DEF Down, Fresh
<1> QED
  BY <1>1, SetKeeps DEF EndHost

-----------------------------------------------------------------------------
(* The invariant                                                           *)

\* No host has started, and none has the lease.
LEMMA InitIInv ==
  Init => IInv
<1> SUFFICES ASSUME Init PROVE IInv
  OBVIOUS
<1>1. Formed(Fresh) /\ Fresh.queue = <<>> /\ Fresh.at = "entry" /\ Fresh.held = FALSE
      /\ Fresh.active = NoWorker /\ Fresh.desired = "stopped"
  BY DEF Formed, Fresh
<1>2. IsSequence(<<>>)
  <2>1. PICK q : q = <<>>
    OBVIOUS
  <2>2. q \in Seq({})
    BY <2>1
  <2>3. IsSequence(q)
    BY <2>2, OwnElements
  <2> QED
    BY <2>1, <2>3
<1>3. ASSUME NEW h \in Hosts PROVE Sane(h, Fresh)
  <2>1. Queued(h, Fresh)
    BY <1>1, <1>2 DEF Queued
  <2>2. Placed(h, Fresh)
    BY <1>1 DEF Init, Placed
  <2>3. Leaving(h, Fresh) /\ LeaseKnown(h, Fresh)
    BY <1>1, SupervisorAssumption DEF Init, Leaving, LeaseKnown
  <2> QED
    BY <1>1, <2>1, <2>2, <2>3 DEF Sane
<1> QED
  BY <1>3 DEF Init, IInv

\* Every step keeps it.
LEMMA StepIInv ==
  IInv /\ [Next]_vars => IInv'
<1> SUFFICES ASSUME IInv, [Next]_vars PROVE IInv'
  OBVIOUS
<1>1. ASSUME NEW h \in Hosts, Start(h) \/ Restart(h) \/ Stop(h) \/ StartProbing(h)
      PROVE  IInv'
  BY <1>1, StartKeeps, RestartKeeps, StopKeeps, StartProbingKeeps
<1>2. ASSUME NEW h \in Hosts, Work(h)
      PROVE  IInv'
  BY <1>2, StartReconcileKeeps, AcquireKeeps, AcquiredKeeps, OccupiedKeeps, ProbeKeeps,
     PrepareKeeps, HandleRunSettledKeeps, DecideKeeps, TerminateKeeps, TerminatedKeeps,
     PollKeeps, InspectKeeps, FetchKeeps, FetchProbeKeeps DEF Work
<1>3. ASSUME NEW h \in Hosts, Timer(h)
      PROVE  IInv'
  BY <1>3, TimersKeep, TerminateKeeps, ForcedTimeoutKeeps DEF Timer
<1>4. ASSUME NEW h \in Hosts, DaemonEnds(h) \/ Crash(h)
      PROVE  IInv'
  BY <1>4, EndHostKeeps DEF DaemonEnds, Crash
<1>5. ASSUME NEW w \in Workers, Serve(w) \/ Exit(w)
      PROVE  IInv'
  <2>1. CASE Exit(w)
    BY <2>1, ExitKeeps
  <2>2. CASE Serve(w)
    <3>1. UNCHANGED <<sup, lease, alive, outlived>>
      BY <2>2 DEF Serve, budget
    <3> QED
      BY <3>1 DEF IInv, Sane, Formed, Queued, Placed, Leaving, LeaseKnown
  <2> QED
    BY <1>5, <2>1, <2>2
<1>6. CASE UNCHANGED vars
  BY <1>6 DEF vars, budget, IInv, Sane, Formed, Queued, Placed, Leaving, LeaseKnown
<1> QED
  BY <1>1, <1>2, <1>3, <1>4, <1>5, <1>6 DEF Next

\* What the stages know holds throughout.
THEOREM SupervisorInvariant == Spec => []IInv
  BY InitIInv, StepIInv, PTL DEF Spec

\* As long as a host lives, its worker runs under its lease and as the run of its
\* supervisor: no two living hosts run workers at once.
THEOREM WorkersAreCovered == Spec => []LeaseCoversWorker
<1>1. IInv => LeaseCoversWorker
  <2> SUFFICES ASSUME IInv, NEW w \in alive, sup[Host(w)].up
               PROVE  lease = Host(w) /\ sup[Host(w)].active = w
    BY DEF LeaseCoversWorker
  <2>1. Host(w) \in Hosts /\ w # NoWorker
    BY SupervisorAssumption DEF IInv, Workers, Host
  <2>2. Placed(Host(w), sup[Host(w)])
    BY <2>1 DEF IInv, Sane
  <2> QED
    BY <2>1, <2>2 DEF Placed
<1> QED
  BY <1>1, SupervisorInvariant, PTL

\* A stop that is over has left no worker and, at the desktop, no lease; except after
\* a worker outlived SIGKILL.
THEOREM StopsLeaveNothing == Spec => []StopLeavesNothing
<1>1. IInv => StopLeavesNothing
  <2> SUFFICES ASSUME IInv, NEW h \in Hosts \ outlived,
                      sup[h].up, sup[h].desired = "stopped",
                      \A i \in DOMAIN sup[h].queue : sup[h].queue[i].kind # "stop"
               PROVE  (Attaches(h) => lease # h) /\ \A w \in alive : Host(w) # h
    BY DEF StopLeavesNothing
  <2>1. Sane(h, sup[h])
    BY DEF IInv
  <2>2. ~sup[h].held /\ sup[h].at # "acquired"
    BY <2>1 DEF Sane, Leaving, StopQueued
  <2>3. Attaches(h) => lease # h
    BY <2>1, <2>2 DEF Sane, LeaseKnown, Attaches
  <2>4. ASSUME NEW w \in alive PROVE Host(w) # h
    <3>1. w # NoWorker
      BY SupervisorAssumption DEF IInv, Workers
    <3> QED
      BY <2>1, <2>2, <3>1 DEF Sane, Placed
  <2> QED
    BY <2>3, <2>4
<1> QED
  BY <1>1, SupervisorInvariant, PTL

-----------------------------------------------------------------------------
(* The intent to run                                                       *)

\* The tasks that end the run.
EndingTasks == {"stop", "restart"}

\* A task is of a generation that was; the task that ends a run is of a later one
\* than the run and than the tasks before it.
Ordered(s) ==
  /\ s.gen \in Nat
  /\ \A i \in DOMAIN s.queue : s.queue[i].gen \in Nat /\ s.queue[i].gen <= s.gen
  /\ \A i \in DOMAIN s.queue :
       s.queue[i].kind \in EndingTasks =>
         /\ s.active # NoWorker => s.runGen < s.queue[i].gen
         /\ \A j \in DOMAIN s.queue : j < i => s.queue[j].gen < s.queue[i].gen

\* A worker's end is settled once; one of this generation is that of the run, or
\* is being handled.
Settling(s) ==
  \A i \in DOMAIN s.queue :
    s.queue[i].kind = "settled" =>
      /\ s.queue[i].worker = s.active => s.queue[i].gen = s.runGen
      /\ s.queue[i].gen = s.gen => s.queue[i].worker = s.active \/ (i = 1 /\ s.at # "entry")
      /\ \A j \in DOMAIN s.queue :
           s.queue[j].kind = "settled" /\ s.queue[j].worker = s.queue[i].worker => i = j

\* A run is wanted, or a task that ends it is queued.
Runs(s) ==
  s.active # NoWorker =>
    /\ s.runGen \in Nat /\ s.runGen <= s.gen /\ ~s.fatal
    /\ s.runGen = s.gen => s.desired = "running"
    /\ s.runGen # s.gen => \E i \in DOMAIN s.queue : s.queue[i].kind \in EndingTasks

\* A start that comes before a stop is over has its task queued behind it.
Restarting(s) ==
  s.desired = "running" /\ (\E i \in DOMAIN s.queue : s.queue[i].kind = "stop") =>
    \E i \in DOMAIN s.queue : s.queue[i].gen = s.gen /\ s.queue[i].kind \in {"reconcile", "restart"}

Polls(s) ==
  /\ s.desired = "running" /\ ~s.fatal => s.polling
  /\ s.at \in {"inspect", "fetch", "fetchProbe"} => Head(s.queue).kind = "poll"

Booked(s) == Ordered(s) /\ Settling(s) /\ Runs(s) /\ Restarting(s) /\ Polls(s)

\* Wanted and Pursued, of a record.
Wants(s) == s.desired = "running" /\ ~s.fatal
Ready(s) ==
  \/ s.active # NoWorker /\ s.runGen = s.gen
  \/ s.ext # NoWorker /\ s.polling
  \/ s.retry = s.gen
Pursues(s) ==
  \/ Ready(s)
  \/ \E i \in DOMAIN s.queue :
       /\ s.queue[i].gen = s.gen
       /\ s.queue[i].kind # "poll" \/ (i = 1 /\ s.at \in ReconcileStages)

\* What is left of it when the task at the head is over.
Follows(s) ==
  Wants(s) => \/ Ready(s)
              \/ \E i \in DOMAIN s.queue : i # 1 /\ s.queue[i].gen = s.gen /\ s.queue[i].kind # "poll"

\* A launch that failed for good is over.
Healthy(s) == s.at \in ReconcileStages => ~s.fatal

Aims(s) == Booked(s) /\ Healthy(s) /\ (Wants(s) => Pursues(s))

AInv == \A h \in Hosts \ outlived : sup[h].up => Aims(sup[h])

-----------------------------------------------------------------------------
(* A supervisor whose books are alike                                      *)

Alikes(s, t) ==
  /\ t.gen = s.gen /\ t.desired = s.desired /\ t.active = s.active /\ t.runGen = s.runGen
  /\ t.queue = s.queue /\ t.at = s.at
  /\ \/ t.fatal = s.fatal /\ t.polling = s.polling
     \/ t.fatal /\ s.active = NoWorker

\* What the books do not read may change.
LEMMA AlikeBooked ==
  ASSUME NEW s, NEW t, Booked(s), Alikes(s, t)
  PROVE  Booked(t)
<1>1. Ordered(t) /\ Settling(t) /\ Restarting(t)
  BY DEF Booked, Alikes, Ordered, Settling, Restarting
<1>2. Runs(t) /\ Polls(t)
  BY DEF Booked, Alikes, Runs, Polls
<1> QED
  BY <1>1, <1>2 DEF Booked

\* What the end of a task changes.
LEMMA Finished ==
  ASSUME NEW s, Formed(s), NEW t, t = Finish(s)
  PROVE  /\ Formed(t) /\ t.up = s.up /\ t.desired = s.desired /\ t.gen = s.gen /\ t.active = s.active
         /\ t.runGen = s.runGen /\ t.held = s.held /\ t.ext = s.ext /\ t.retry = s.retry
         /\ t.fatal = s.fatal /\ t.polling = s.polling
         /\ t.queue = Tail(s.queue) /\ t.at = "entry"
<1>1. PICK p : p = IF Head(s.queue).kind = "poll" THEN FALSE ELSE s.polled
  OBVIOUS
<1>2. t = [s EXCEPT !.queue = Tail(s.queue), !.at = "entry", !.seen = NoHost, !.polled = p]
  BY <1>1 DEF Finish
<1> QED
  BY <1>2 DEF Formed

\* The books when a task is over, unless it was to end a run there still is.
LEMMA FinishBooked ==
  ASSUME NEW s, Formed(s), IsSequence(s.queue), s.queue # <<>>, Booked(s),
         Head(s.queue).kind \in EndingTasks => s.active = NoWorker,
         s.at # "entry" /\ Head(s.queue).kind = "settled" => s.active = NoWorker
  PROVE  Booked(Finish(s))
<1>1. PICK t, q, r : t = Finish(s) /\ q = s.queue /\ r = t.queue
  OBVIOUS
<1>2. /\ t.desired = s.desired /\ t.gen = s.gen /\ t.active = s.active
      /\ t.runGen = s.runGen /\ t.fatal = s.fatal /\ t.polling = s.polling
      /\ r = Tail(q) /\ t.at = "entry" /\ r = t.queue
  BY <1>1, Finished
<1>3. /\ DOMAIN q \subseteq Nat \ {0} /\ DOMAIN r \subseteq Nat \ {0}
      /\ 1 \in DOMAIN q /\ q[1] = Head(q)
      /\ \A i \in DOMAIN r : i + 1 \in DOMAIN q /\ r[i] = q[i + 1]
      /\ \A j \in DOMAIN q : j # 1 => j - 1 \in DOMAIN r /\ r[j - 1] = q[j]
  <2>1. IsSequence(q) /\ q # <<>>
    BY <1>1
  <2> QED
    BY <1>2, <2>1, Shifted
<1>4. Ordered(t)
  <2>1. \A i \in DOMAIN q : q[i].gen \in Nat /\ q[i].gen <= s.gen
    BY <1>1 DEF Booked, Ordered
  <2>2. \A i \in DOMAIN q : q[i].kind \in EndingTasks =>
          /\ s.active # NoWorker => s.runGen < q[i].gen
          /\ \A j \in DOMAIN q : j < i => q[j].gen < q[i].gen
    BY <1>1 DEF Booked, Ordered
  <2>3. \A i \in DOMAIN r : r[i].gen \in Nat /\ r[i].gen <= t.gen
    BY <1>2, <1>3, <2>1
  <2>4. ASSUME NEW i \in DOMAIN r, r[i].kind \in EndingTasks
        PROVE  /\ t.active # NoWorker => t.runGen < r[i].gen
               /\ \A j \in DOMAIN r : j < i => r[j].gen < r[i].gen
    <3>1. i + 1 \in DOMAIN q /\ r[i] = q[i + 1] /\ \A j \in DOMAIN r : j < i => j + 1 < i + 1
      BY <1>3
    <3> QED
      BY <1>2, <1>3, <2>2, <2>4, <3>1
  <2>5. t.gen \in Nat
    BY <1>2 DEF Booked, Ordered
  <2> QED
    BY <1>2, <2>3, <2>4, <2>5 DEF Ordered
<1>5. Settling(t)
  <2>1. \A i \in DOMAIN q : q[i].kind = "settled" =>
          /\ q[i].worker = s.active => q[i].gen = s.runGen
          /\ q[i].gen = s.gen => q[i].worker = s.active \/ (i = 1 /\ s.at # "entry")
          /\ \A j \in DOMAIN q : q[j].kind = "settled" /\ q[j].worker = q[i].worker => i = j
    BY <1>1 DEF Booked, Settling
  <2>2. ASSUME NEW i \in DOMAIN r, r[i].kind = "settled"
        PROVE  /\ r[i].worker = t.active => r[i].gen = t.runGen
               /\ r[i].gen = t.gen => r[i].worker = t.active
               /\ \A j \in DOMAIN r : r[j].kind = "settled" /\ r[j].worker = r[i].worker => i = j
    <3>1. i + 1 \in DOMAIN q /\ r[i] = q[i + 1] /\ i + 1 # 1
      BY <1>3
    <3>2. \A j \in DOMAIN r : j + 1 = i + 1 => j = i
      BY <1>3
    <3> QED
      BY <1>2, <1>3, <2>1, <2>2, <3>1, <3>2
  <2> QED
    BY <1>2, <2>2 DEF Settling
<1>6. Runs(t)
  <2>1. \A i \in DOMAIN q : s.active # NoWorker /\ q[i].kind \in EndingTasks => i # 1
    BY <1>1, <1>3
  <2>2. ASSUME NEW i \in DOMAIN q, i # 1, q[i].kind \in EndingTasks
        PROVE  \E j \in DOMAIN r : r[j].kind \in EndingTasks
    BY <1>3, <2>2
  <2> QED
    BY <1>1, <1>2, <2>1, <2>2 DEF Booked, Runs
<1>7. Restarting(t)
  <2> SUFFICES ASSUME t.desired = "running", NEW i \in DOMAIN r, r[i].kind = "stop"
               PROVE  \E j \in DOMAIN r : r[j].gen = t.gen /\ r[j].kind \in {"reconcile", "restart"}
    BY <1>2 DEF Restarting
  <2>1. i + 1 \in DOMAIN q /\ q[i + 1].kind = "stop" /\ 1 < i + 1
    BY <1>3
  <2>2. PICK j \in DOMAIN q : q[j].gen = s.gen /\ q[j].kind \in {"reconcile", "restart"}
    BY <1>1, <1>2, <2>1 DEF Booked, Restarting
  <2>3. q[1].gen < q[i + 1].gen /\ q[i + 1].gen <= s.gen /\ q[1].gen \in Nat /\ q[i + 1].gen \in Nat
        /\ s.gen \in Nat
    BY <1>1, <1>3, <2>1 DEF Booked, Ordered, EndingTasks
  <2>4. j # 1
    BY <2>2, <2>3
  <2> QED
    BY <1>2, <1>3, <2>2, <2>4
<1>8. Polls(t)
  BY <1>2 DEF Booked, Polls
<1> QED
  BY <1>1, <1>4, <1>5, <1>6, <1>7, <1>8 DEF Booked

\* What is left to pursue when a task of another generation, or a poll, is over.
LEMMA LeavesFollows ==
  ASSUME NEW s, IsSequence(s.queue), s.queue # <<>>, Aims(s),
         \/ Head(s.queue).gen # s.gen
         \/ Head(s.queue).kind = "poll" /\ s.at \notin ReconcileStages
  PROVE  Follows(s)
<1> SUFFICES ASSUME Wants(s), ~Ready(s)
             PROVE  \E i \in DOMAIN s.queue : i # 1 /\ s.queue[i].gen = s.gen /\ s.queue[i].kind # "poll"
  BY DEF Follows
<1>1. PICK q : q = s.queue
  OBVIOUS
<1>2. PICK i \in DOMAIN q : /\ q[i].gen = s.gen
                            /\ q[i].kind # "poll" \/ (i = 1 /\ s.at \in ReconcileStages)
  BY <1>1 DEF Aims, Pursues
<1>3. q[1] = Head(q)
  <2>1. IsSequence(q) /\ q # <<>>
    BY <1>1
  <2> QED
    BY <2>1, Shifted
<1> QED
  BY <1>1, <1>2, <1>3

\* The end of a task that leaves enough to pursue.
LEMMA FinishAims ==
  ASSUME NEW s, Formed(s), IsSequence(s.queue), s.queue # <<>>, Booked(s), Follows(s),
         Head(s.queue).kind \in EndingTasks => s.active = NoWorker,
         s.at # "entry" /\ Head(s.queue).kind = "settled" => s.active = NoWorker
  PROVE  Aims(Finish(s))
<1>1. PICK t, q, r : t = Finish(s) /\ q = s.queue /\ r = t.queue
  OBVIOUS
<1>2. /\ t.desired = s.desired /\ t.gen = s.gen /\ t.active = s.active /\ t.ext = s.ext
      /\ t.runGen = s.runGen /\ t.fatal = s.fatal /\ t.polling = s.polling /\ t.retry = s.retry
      /\ r = Tail(q)
  BY <1>1, Finished
<1>3. Booked(t)
  BY <1>1, FinishBooked
<1>4. \A j \in DOMAIN q : j # 1 => j - 1 \in DOMAIN r /\ r[j - 1] = q[j]
  <2>1. IsSequence(q) /\ q # <<>>
    BY <1>1
  <2> QED
    BY <1>2, <2>1, Shifted
<1>5. Wants(t) => Pursues(t)
  <2> SUFFICES ASSUME Wants(t) PROVE Pursues(t)
    OBVIOUS
  <2>1. Wants(s)
    BY <1>2 DEF Wants
  <2>2. CASE Ready(s)
    BY <1>2, <2>2 DEF Pursues, Ready
  <2>3. CASE \E i \in DOMAIN q : i # 1 /\ q[i].gen = s.gen /\ q[i].kind # "poll"
    <3>1. \E i \in DOMAIN r : r[i].gen = t.gen /\ r[i].kind # "poll"
      BY <1>2, <1>4, <2>3
    <3> QED
      BY <1>1, <3>1 DEF Pursues
  <2> QED
    BY <1>1, <2>1, <2>2, <2>3 DEF Follows
<1>6. Healthy(t)
  BY <1>1, Finished DEF Healthy, ReconcileStages
<1> QED
  BY <1>1, <1>3, <1>5, <1>6 DEF Aims

\* A run while a task of this generation that does not end it is at the head is of
\* this generation.
LEMMA RunIsCurrent ==
  ASSUME NEW s, IsSequence(s.queue), s.queue # <<>>, Booked(s), s.active # NoWorker,
         Head(s.queue).gen = s.gen, Head(s.queue).kind \notin EndingTasks
  PROVE  s.runGen = s.gen
<1>1. PICK q : q = s.queue
  OBVIOUS
<1>2. /\ DOMAIN q \subseteq Nat \ {0} /\ 1 \in DOMAIN q /\ q[1] = Head(q)
  <2>1. IsSequence(q) /\ q # <<>>
    BY <1>1
  <2> QED
    BY <2>1, Shifted
<1>3. ASSUME NEW i \in DOMAIN q, q[i].kind \in EndingTasks PROVE FALSE
  <2>1. 1 < i
    BY <1>1, <1>2, <1>3
  <2>2. q[1].gen < q[i].gen /\ q[i].gen <= s.gen /\ q[i].gen \in Nat /\ s.gen \in Nat
    BY <1>1, <1>2, <1>3, <2>1 DEF Booked, Ordered
  <2> QED
    BY <1>1, <1>2, <2>2
<1> QED
  BY <1>1, <1>3 DEF Booked, Runs

\* The books at another stage.
LEMMA GoBooked ==
  ASSUME NEW s, Formed(s), Booked(s), NEW x,
         x \in {"inspect", "fetch", "fetchProbe"} => Head(s.queue).kind = "poll",
         x # "entry"
  PROVE  /\ Booked(Go(s, x)) /\ Formed(Go(s, x))
         /\ Go(s, x).queue = s.queue /\ Go(s, x).gen = s.gen /\ Go(s, x).at = x
         /\ Go(s, x).fatal = s.fatal
         /\ Ready(s) => Ready(Go(s, x))
         /\ Wants(Go(s, x)) => Wants(s)
<1>1. PICK t : t = Go(s, x)
  OBVIOUS
<1>2. /\ Formed(t)
      /\ t.desired = s.desired /\ t.gen = s.gen /\ t.active = s.active /\ t.ext = s.ext
      /\ t.runGen = s.runGen /\ t.fatal = s.fatal /\ t.polling = s.polling /\ t.retry = s.retry
      /\ t.queue = s.queue /\ t.at = x
  BY <1>1 DEF Formed, Go
<1>3. Ordered(t) /\ Settling(t)
  BY <1>2 DEF Booked, Ordered, Settling
<1>4. Runs(t) /\ Restarting(t)
  BY <1>2 DEF Booked, Runs, Restarting
<1>5. Polls(t)
  BY <1>2 DEF Booked, Polls
<1>6. Ready(s) => Ready(t)
  BY <1>2 DEF Ready
<1>7. Wants(t) => Wants(s)
  BY <1>2 DEF Wants
<1> QED
  BY <1>1, <1>2, <1>3, <1>4, <1>5, <1>6, <1>7 DEF Booked

\* A task goes on: one that was pursued by it still is.
LEMMA GoAims ==
  ASSUME NEW s, Formed(s), Aims(s), NEW x,
         x \in {"inspect", "fetch", "fetchProbe"} => Head(s.queue).kind = "poll",
         x # "entry", s.at \in ReconcileStages <=> x \in ReconcileStages
  PROVE  Aims(Go(s, x))
<1>1. PICK t : t = Go(s, x)
  OBVIOUS
<1>2. /\ Booked(t) /\ t.queue = s.queue /\ t.gen = s.gen /\ t.at = x /\ t.fatal = s.fatal
      /\ Ready(s) => Ready(t)
      /\ Wants(t) => Wants(s)
  BY <1>1, GoBooked DEF Aims
<1>3. Wants(t) => Pursues(t)
  BY <1>2 DEF Aims, Pursues
<1>4. Healthy(t)
  BY <1>2 DEF Aims, Healthy
<1> QED
  BY <1>1, <1>2, <1>3, <1>4 DEF Aims

\* A task of this generation goes on to reconcile.
LEMMA GoOn ==
  ASSUME NEW s, Formed(s), IsSequence(s.queue), s.queue # <<>>, Booked(s), NEW x,
         Head(s.queue).gen = s.gen,
         \/ x \in ReconcileStages /\ ~s.fatal
         \/ x = "decide" /\ Head(s.queue).kind # "poll"
  PROVE  Aims(Go(s, x))
<1>1. PICK t, q : t = Go(s, x) /\ q = s.queue
  OBVIOUS
<1>2. Booked(t) /\ t.queue = q /\ t.gen = s.gen /\ t.at = x /\ t.fatal = s.fatal
  BY <1>1, GoBooked DEF ReconcileStages
<1>3. 1 \in DOMAIN q /\ q[1] = Head(q)
  <2>1. IsSequence(q) /\ q # <<>>
    BY <1>1
  <2> QED
    BY <2>1, Shifted
<1>4. Pursues(t)
  BY <1>1, <1>2, <1>3 DEF Pursues
<1>5. Healthy(t)
  BY <1>2 DEF Healthy, ReconcileStages
<1> QED
  BY <1>1, <1>2, <1>4, <1>5 DEF Aims

\* reconcile pursues the intent, or leaves what pursues it.
LEMMA ReconcileAims ==
  ASSUME NEW s, Formed(s), IsSequence(s.queue), s.queue # <<>>, Booked(s), NEW g,
         g = Head(s.queue).gen, IsCurrent(s, g) \/ Follows(s),
         Head(s.queue).kind \in EndingTasks => s.active = NoWorker,
         s.at # "entry" /\ Head(s.queue).kind = "settled" => s.active = NoWorker
  PROVE  Aims(Reconcile(s, g))
<1>1. CASE ~IsCurrent(s, g) \/ s.active # NoWorker \/ s.ext # NoWorker \/ s.fatal
  <2>1. Follows(s)
    <3> SUFFICES ASSUME IsCurrent(s, g), Wants(s) PROVE Ready(s)
      BY DEF Follows
    <3>1. CASE s.active # NoWorker
      BY <3>1, RunIsCurrent DEF IsCurrent, Ready
    <3>2. CASE s.ext # NoWorker
      BY <3>2 DEF Booked, Polls, Wants, Ready
    <3> QED
      BY <1>1, <3>1, <3>2 DEF Wants
  <2> QED
    BY <1>1, <2>1, FinishAims DEF Reconcile
<1>2. CASE ~(~IsCurrent(s, g) \/ s.active # NoWorker \/ s.ext # NoWorker \/ s.fatal)
  <2>1. Aims(Go(s, "probe")) /\ Aims(Go(s, "acquire"))
    BY <1>2, GoOn DEF IsCurrent, ReconcileStages
  <2> QED
    BY <1>2, <2>1 DEF Reconcile
<1> QED
  BY <1>1, <1>2

\* A task of another generation leaves what it did not pursue.
LEMMA StaleFollows ==
  ASSUME NEW s, IsSequence(s.queue), s.queue # <<>>, Aims(s), ~IsCurrent(s, Head(s.queue).gen)
  PROVE  Follows(s)
<1>1. CASE s.gen # Head(s.queue).gen
  BY <1>1, LeavesFollows
<1>2. CASE s.gen = Head(s.queue).gen
  BY <1>2 DEF IsCurrent, Follows, Wants
<1> QED
  BY <1>1, <1>2

\* The end of a task, by a supervisor whose books are alike.
LEMMA FinishAlike ==
  ASSUME NEW s, IsSequence(s.queue), s.queue # <<>>, Booked(s), s.active = NoWorker,
         NEW t, Formed(t), Alikes(s, t), Follows(t)
  PROVE  Aims(Finish(t))
<1>1. Booked(t)
  BY AlikeBooked
<1>2. t.queue = s.queue /\ t.active = NoWorker
  BY DEF Alikes
<1> QED
  BY <1>1, <1>2, FinishAims

\* What the helpers leave to pursue.
LEMMA HelpersFollow ==
  ASSUME NEW s, Formed(s), Booked(s), s.active = NoWorker
  PROVE  /\ Formed(MarkFatal(s)) /\ Alikes(s, MarkFatal(s)) /\ Follows(MarkFatal(s))
         /\ \A g : IsCurrent(s, g) =>
              LET r == ScheduleRetry(s, g) IN Formed(r) /\ Alikes(s, r) /\ Follows(r)
         /\ \A h, w, owner : w # NoWorker =>
              LET r == ObserveExternal(h, s, w, owner) IN Formed(r) /\ Alikes(s, r) /\ Follows(r)
<1>1. ASSUME NEW r, Formed(r), r.active = NoWorker
      PROVE  Formed(MarkFatal(r)) /\ Alikes(r, MarkFatal(r)) /\ Follows(MarkFatal(r))
  <2>1. PICK u, t : u = [r EXCEPT !.fatal = TRUE, !.retry = 0] /\ t = StopPolling(u)
    OBVIOUS
  <2>2. /\ Formed(u) /\ u.gen = r.gen /\ u.desired = r.desired /\ u.active = r.active
        /\ u.runGen = r.runGen /\ u.queue = r.queue /\ u.at = r.at /\ u.fatal
    BY <1>1, <2>1 DEF Formed
  <2>3. t = u \/ t = [u EXCEPT !.polling = FALSE, !.polled = FALSE]
    BY <2>1 DEF StopPolling
  <2>4. /\ Formed(t) /\ t.gen = u.gen /\ t.desired = u.desired /\ t.active = u.active
        /\ t.runGen = u.runGen /\ t.queue = u.queue /\ t.at = u.at /\ t.fatal
    BY <2>2, <2>3 DEF Formed
  <2>5. MarkFatal(r) = t
    BY <2>1 DEF MarkFatal
  <2> QED
    BY <1>1, <2>2, <2>4, <2>5 DEF Alikes, Follows, Wants
<1>2. ASSUME NEW g, IsCurrent(s, g), NEW r, r = ScheduleRetry(s, g)
      PROVE  Formed(r) /\ Alikes(s, r) /\ Follows(r)
  <2>1. CASE s.fatal
    BY <1>2, <2>1 DEF ScheduleRetry, Alikes, Follows, Wants
  <2>2. CASE ~s.fatal
    <3>1. r = [s EXCEPT !.retry = s.gen]
      BY <1>2, <2>2 DEF ScheduleRetry, IsCurrent
    <3> QED
      BY <3>1 DEF Alikes, Formed, Follows, Ready
  <2> QED
    BY <2>1, <2>2
<1>3. ASSUME NEW h, NEW w, NEW owner, w # NoWorker, NEW r, r = ObserveExternal(h, s, w, owner)
      PROVE  Formed(r) /\ Alikes(s, r) /\ Follows(r)
  <2>1. CASE Attaches(h)
    <3>1. r = [s EXCEPT !.ext = w, !.extHost = owner, !.misses = 0, !.retry = 0]
      BY <1>3, <2>1 DEF ObserveExternal
    <3>2. /\ Formed(r) /\ Alikes(s, r) /\ r.ext = w /\ r.polling = s.polling
          /\ r.desired = s.desired /\ r.fatal = s.fatal
      BY <3>1 DEF Alikes, Formed
    <3> QED
      BY <1>3, <3>2 DEF Booked, Polls, Follows, Wants, Ready
  <2>2. CASE ~Attaches(h)
    <3>1. PICK u : u = [s EXCEPT !.ext = w]
      OBVIOUS
    <3>2. Formed(u) /\ Alikes(s, u) /\ u.active = NoWorker
      BY <3>1 DEF Formed, Alikes
    <3>3. Formed(MarkFatal(u)) /\ Alikes(u, MarkFatal(u)) /\ Follows(MarkFatal(u))
      BY <1>1, <3>2
    <3>4. r = MarkFatal(u)
      BY <1>3, <2>2, <3>1 DEF ObserveExternal
    <3>5. Alikes(s, r)
      BY <3>2, <3>3, <3>4 DEF Alikes
    <3> QED
      BY <3>3, <3>4, <3>5
  <2> QED
    BY <2>1, <2>2
<1> QED
  BY <1>1, <1>2, <1>3

\* A launch that failed is retried, or fatal.
LEMMA FailureAims ==
  ASSUME NEW s, Formed(s), IsSequence(s.queue), s.queue # <<>>, Booked(s), s.active = NoWorker,
         NEW g, IsCurrent(s, g)
  PROVE  /\ \A r \in Failures(s, g) : Aims(Finish(r))
         /\ Aims(Finish(ScheduleRetry(s, g))) /\ Aims(Finish(MarkFatal(s)))
<1>1. Aims(Finish(MarkFatal(s)))
  BY HelpersFollow, FinishAlike
<1>2. Aims(Finish(ScheduleRetry(s, g)))
  BY HelpersFollow, FinishAlike
<1> QED
  BY <1>1, <1>2 DEF Failures

\* Changes that neither the books nor the intent depends on.
LEMMA AlikeAims ==
  ASSUME NEW s, NEW t, Aims(s), Alikes(s, t), t.fatal = s.fatal,
         Wants(t) => t.ext = s.ext /\ t.retry = s.retry
  PROVE  Aims(t)
<1>1. Booked(t)
  BY AlikeBooked DEF Aims
<1>2. Wants(t) => Pursues(t)
  <2> SUFFICES ASSUME Wants(t) PROVE Pursues(t)
    OBVIOUS
  <2>1. t.fatal = s.fatal /\ t.polling = s.polling /\ Wants(s)
    BY DEF Alikes, Wants
  <2> QED
    BY <2>1 DEF Alikes, Aims, Pursues, Ready
<1>3. Healthy(t)
  BY DEF Alikes, Aims, Healthy
<1> QED
  BY <1>1, <1>2, <1>3 DEF Aims

-----------------------------------------------------------------------------
(* Tasks are queued                                                        *)

\* A task that ends no run: a settled one is of the run whose worker has ended.
LEMMA AppendAims ==
  ASSUME NEW s, Formed(s), IsSequence(s.queue), s.at # "entry" => s.queue # <<>>, Booked(s),
         Healthy(s),
         NEW x, x.gen \in Nat, x.gen <= s.gen, x.kind \notin EndingTasks,
         x.kind = "settled" =>
           /\ x.worker = s.active /\ x.gen = s.runGen
           /\ \A i \in DOMAIN s.queue :
                s.queue[i].kind = "settled" => s.queue[i].worker # x.worker,
         Aims(s) \/ (x.gen = s.gen /\ x.kind # "poll"),
         NEW t, t = [s EXCEPT !.queue = Append(s.queue, x)]
  PROVE  Aims(t)
<1>1. PICK q, r : q = s.queue /\ r = t.queue
  OBVIOUS
<1>2. /\ t.desired = s.desired /\ t.gen = s.gen /\ t.active = s.active /\ t.ext = s.ext
      /\ t.runGen = s.runGen /\ t.fatal = s.fatal /\ t.polling = s.polling /\ t.retry = s.retry
      /\ r = Append(q, x) /\ t.at = s.at
  BY <1>1 DEF Formed
<1>3. PICK n \in Nat \ {0} :
        /\ DOMAIN q = 1..(n - 1) /\ DOMAIN r = 1..n /\ r[n] = x
        /\ \A i \in 1..(n - 1) : r[i] = q[i]
        /\ n # 1 => Head(r) = Head(q)
  <2>1. IsSequence(q)
    BY <1>1
  <2> QED
    BY <1>2, <2>1, Extended
<1>4. DOMAIN q \subseteq DOMAIN r /\ \A i \in DOMAIN r : i = n \/ i \in DOMAIN q
  BY <1>3
<1>5. Ordered(t)
  <2>1. \A i \in DOMAIN q : q[i].gen \in Nat /\ q[i].gen <= s.gen
    BY <1>1 DEF Booked, Ordered
  <2>2. \A i \in DOMAIN q : q[i].kind \in EndingTasks =>
          /\ s.active # NoWorker => s.runGen < q[i].gen
          /\ \A j \in DOMAIN q : j < i => q[j].gen < q[i].gen
    BY <1>1 DEF Booked, Ordered
  <2>3. \A i \in DOMAIN r : r[i].gen \in Nat /\ r[i].gen <= t.gen
    BY <1>2, <1>3, <1>4, <2>1
  <2>4. ASSUME NEW i \in DOMAIN r, r[i].kind \in EndingTasks
        PROVE  /\ t.active # NoWorker => t.runGen < r[i].gen
               /\ \A j \in DOMAIN r : j < i => r[j].gen < r[i].gen
    <3>1. i # n /\ i \in DOMAIN q /\ \A j \in DOMAIN r : j < i => j \in DOMAIN q
      BY <1>3, <1>4, <2>4
    <3> QED
      BY <1>2, <1>3, <2>2, <2>4, <3>1
  <2>5. t.gen \in Nat
    BY <1>2 DEF Booked, Ordered
  <2> QED
    BY <1>1, <2>3, <2>4, <2>5 DEF Ordered
<1>6. Settling(t)
  <2>1. \A i \in DOMAIN q : q[i].kind = "settled" =>
          /\ q[i].worker = s.active => q[i].gen = s.runGen
          /\ q[i].gen = s.gen => q[i].worker = s.active \/ (i = 1 /\ s.at # "entry")
          /\ \A j \in DOMAIN q : q[j].kind = "settled" /\ q[j].worker = q[i].worker => i = j
    BY <1>1 DEF Booked, Settling
  <2>2. x.kind = "settled" =>
          /\ x.worker = s.active /\ x.gen = s.runGen
          /\ \A i \in DOMAIN q : q[i].kind = "settled" => q[i].worker # x.worker
    BY <1>1
  <2>3. ASSUME NEW i \in DOMAIN r, r[i].kind = "settled"
        PROVE  /\ r[i].worker = t.active => r[i].gen = t.runGen
               /\ r[i].gen = t.gen => r[i].worker = t.active \/ (i = 1 /\ t.at # "entry")
               /\ \A j \in DOMAIN r : r[j].kind = "settled" /\ r[j].worker = r[i].worker => i = j
    <3>1. CASE i = n
      BY <1>2, <1>3, <1>4, <2>2, <2>3, <3>1
    <3>2. CASE i # n
      BY <1>2, <1>3, <1>4, <2>1, <2>2, <2>3, <3>2
    <3> QED
      BY <3>1, <3>2
  <2> QED
    BY <1>1, <2>3 DEF Settling
<1>7. Runs(t) /\ Restarting(t)
  <2>1. Runs(t)
    BY <1>1, <1>2, <1>3, <1>4 DEF Booked, Runs
  <2>2. Restarting(t)
    <3>1. \A i \in DOMAIN r : r[i].kind = "stop" => i \in DOMAIN q /\ q[i].kind = "stop"
      BY <1>3, <1>4 DEF EndingTasks
    <3> QED
      BY <1>1, <1>2, <1>3, <1>4, <3>1 DEF Booked, Restarting
  <2> QED
    BY <2>1, <2>2
<1>8. Polls(t)
  <2>1. s.at # "entry" => Head(r) = Head(q)
    <3>1. q # <<>> => n # 1
      <4>1. IsSequence(q)
        BY <1>1
      <4> QED
        BY <1>3, <4>1, Shifted
    <3> QED
      BY <1>1, <1>3, <3>1
  <2> QED
    BY <1>1, <1>2, <2>1 DEF Booked, Polls
<1>9. Wants(t) => Pursues(t)
  <2>1. CASE x.gen = s.gen /\ x.kind # "poll"
    BY <1>1, <1>2, <1>3, <2>1 DEF Pursues
  <2>2. CASE Aims(s)
    <3> SUFFICES ASSUME Wants(t) PROVE Pursues(t)
      OBVIOUS
    <3>1. Pursues(s)
      BY <1>2, <2>2 DEF Wants, Aims
    <3>2. CASE Ready(s)
      BY <1>2, <3>2 DEF Ready, Pursues
    <3>3. CASE \E i \in DOMAIN q : /\ q[i].gen = s.gen
                                   /\ q[i].kind # "poll" \/ (i = 1 /\ s.at \in ReconcileStages)
      BY <1>1, <1>2, <1>3, <1>4, <3>3 DEF Pursues
    <3> QED
      BY <1>1, <3>1, <3>2, <3>3 DEF Pursues
  <2> QED
    BY <2>1, <2>2
<1> QED
  BY <1>2, <1>5, <1>6, <1>7, <1>8, <1>9 DEF Booked, Healthy, Aims

\* A command begins a generation and queues its task.
LEMMA CommandAims ==
  ASSUME NEW s, IsSequence(s.queue), s.at # "entry" => s.queue # <<>>, Booked(s),
         NEW u, Formed(u), u.gen = s.gen + 1, ~u.fatal, u.active = s.active, u.runGen = s.runGen,
         u.queue = s.queue, u.at = s.at,
         NEW kind,
         \/ kind = "stop" /\ u.desired = "stopped"
         \/ kind \in {"reconcile", "restart"} /\ u.desired = "running" /\ u.polling,
         s.active # NoWorker =>
           \/ kind \in EndingTasks
           \/ \E i \in DOMAIN s.queue : s.queue[i].kind \in EndingTasks
  PROVE  Aims(Enqueue(u, kind))
<1>1. PICK x : x = [kind |-> kind, gen |-> u.gen, worker |-> NoWorker, busy |-> FALSE]
  OBVIOUS
<1>2. PICK t, q, r : t = [u EXCEPT !.queue = Append(u.queue, x)] /\ q = s.queue /\ r = t.queue
  OBVIOUS
<1>3. /\ t.desired = u.desired /\ t.gen = u.gen /\ t.active = u.active
      /\ t.runGen = u.runGen /\ t.fatal = u.fatal /\ t.polling = u.polling
      /\ r = Append(q, x) /\ t.at = u.at
  BY <1>2 DEF Formed
<1>4. PICK n \in Nat \ {0} :
        /\ DOMAIN q = 1..(n - 1) /\ DOMAIN r = 1..n /\ r[n] = x
        /\ \A i \in 1..(n - 1) : r[i] = q[i]
        /\ n # 1 => Head(r) = Head(q)
  <2>1. IsSequence(q)
    BY <1>2
  <2> QED
    BY <1>3, <2>1, Extended
<1>5. DOMAIN q \subseteq DOMAIN r /\ (\A i \in DOMAIN r : i = n \/ i \in DOMAIN q) /\ n \in DOMAIN r
  BY <1>4
<1>6. /\ x.kind = kind /\ x.gen = t.gen /\ s.gen \in Nat /\ t.gen \in Nat /\ s.gen < t.gen
      /\ t.active = s.active /\ t.runGen = s.runGen
      /\ \A i \in DOMAIN q : q[i].gen \in Nat /\ q[i].gen <= s.gen
      /\ s.active # NoWorker => s.runGen \in Nat /\ s.runGen <= s.gen
  <2>1. s.gen \in Nat
    BY DEF Booked, Ordered
  <2>2. t.gen = s.gen + 1 /\ x.kind = kind /\ x.gen = t.gen
    BY <1>1, <1>3
  <2>3. t.gen \in Nat /\ s.gen < t.gen
    BY <2>1, <2>2
  <2> QED
    BY <1>2, <1>3, <2>1, <2>2, <2>3 DEF Booked, Ordered, Runs
<1>7. Ordered(t)
  <2>1. \A i \in DOMAIN q : q[i].kind \in EndingTasks =>
          /\ s.active # NoWorker => s.runGen < q[i].gen
          /\ \A j \in DOMAIN q : j < i => q[j].gen < q[i].gen
    BY <1>2 DEF Booked, Ordered
  <2>2. \A i \in DOMAIN r : r[i].gen \in Nat /\ r[i].gen <= t.gen
    BY <1>3, <1>4, <1>5, <1>6
  <2>3. ASSUME NEW i \in DOMAIN r, r[i].kind \in EndingTasks
        PROVE  /\ t.active # NoWorker => t.runGen < r[i].gen
               /\ \A j \in DOMAIN r : j < i => r[j].gen < r[i].gen
    <3>1. \A j \in DOMAIN r : j < i => j \in DOMAIN q /\ r[j] = q[j]
      BY <1>4, <1>5
    <3>2. CASE i = n
      BY <1>3, <1>4, <1>6, <3>1, <3>2
    <3>3. CASE i # n
      BY <1>3, <1>4, <1>5, <2>1, <2>3, <3>1, <3>3
    <3> QED
      BY <3>2, <3>3
  <2> QED
    BY <1>2, <1>3, <1>6, <2>2, <2>3 DEF Ordered
<1>8. Settling(t)
  <2>1. \A i \in DOMAIN q : q[i].kind = "settled" =>
          /\ q[i].worker = s.active => q[i].gen = s.runGen
          /\ \A j \in DOMAIN q : q[j].kind = "settled" /\ q[j].worker = q[i].worker => i = j
    BY <1>2 DEF Booked, Settling
  <2>2. \A i \in DOMAIN r : r[i].kind = "settled" => i \in DOMAIN q /\ r[i] = q[i] /\ r[i].gen # t.gen
    BY <1>3, <1>4, <1>5, <1>6
  <2>3. ASSUME NEW i \in DOMAIN r, r[i].kind = "settled"
        PROVE  /\ r[i].worker = t.active => r[i].gen = t.runGen
               /\ r[i].gen # t.gen
               /\ \A j \in DOMAIN r : r[j].kind = "settled" /\ r[j].worker = r[i].worker => i = j
    BY <1>3, <2>1, <2>2, <2>3
  <2> QED
    BY <1>2, <2>3 DEF Settling
<1>9. Runs(t)
  <2>1. s.active # NoWorker => \E i \in DOMAIN r : r[i].kind \in EndingTasks
    BY <1>2, <1>4, <1>5, <1>6
  <2> QED
    BY <1>2, <1>3, <1>6, <2>1 DEF Runs
<1>10. Restarting(t)
  BY <1>2, <1>3, <1>4, <1>5, <1>6 DEF Restarting
<1>11. Polls(t)
  <2>1. s.at # "entry" => Head(r) = Head(q)
    <3>1. q # <<>> => n # 1
      <4>1. IsSequence(q)
        BY <1>2
      <4> QED
        BY <1>4, <4>1, Shifted
    <3> QED
      BY <1>2, <1>4, <3>1
  <2> QED
    BY <1>2, <1>3, <2>1 DEF Booked, Polls
<1>12. Wants(t) => Pursues(t)
  BY <1>2, <1>3, <1>4, <1>5, <1>6 DEF Wants, Pursues
<1>13. Enqueue(u, kind) = t
  BY <1>1, <1>2 DEF Enqueue
<1> QED
  BY <1>3, <1>7, <1>8, <1>9, <1>10, <1>11, <1>12, <1>13 DEF Booked, Healthy, Aims

-----------------------------------------------------------------------------
(* Every step keeps the intent pursued                                     *)

\* A step of a supervisor keeps the other hosts' intents; that of one whose worker
\* outlived SIGKILL need not be kept.
LEMMA SetAims ==
  ASSUME IInv, AInv, NEW h \in Hosts, NEW t, Set(h, t), outlived \subseteq outlived',
         t.up /\ h \notin outlived' => Aims(t)
  PROVE  AInv'
<1>1. sup'[h] = t /\ \A g \in Hosts \ {h} : sup'[g] = sup[g]
  BY DEF IInv, Set
<1>2. ASSUME NEW g \in Hosts \ outlived', sup'[g].up PROVE Aims(sup'[g])
  BY <1>1, <1>2 DEF AInv
<1> QED
  BY <1>2 DEF AInv

\* What a step starts from.
LEMMA Starting ==
  ASSUME IInv, AInv, NEW h \in Hosts, h \notin outlived, sup[h].up, NEW s, s = sup[h]
  PROVE  /\ Formed(s) /\ Queued(h, s) /\ Placed(h, s) /\ Leaving(h, s)
         /\ IsSequence(s.queue) /\ (s.at # "entry" => s.queue # <<>>)
         /\ Aims(s) /\ Booked(s) /\ Healthy(s)
         /\ s.at \in ReconcileStages \cup {"decide"} => s.active = NoWorker
<1>1. Formed(s) /\ Queued(h, s) /\ Placed(h, s) /\ Leaving(h, s)
  BY DEF IInv, Sane
<1>2. Aims(s)
  BY DEF AInv
<1> QED
  BY <1>1, <1>2 DEF Queued, Placed, Aims, ReconcileStages

\* reconcile begins.
LEMMA StartReconcileAims ==
  ASSUME IInv, AInv, NEW h \in Hosts, StartReconcile(h)
  PROVE  AInv'
<1>1. PICK s, t : s = sup[h] /\ t = Reconcile(s, Head(s.queue).gen)
  OBVIOUS
<1>2. /\ Set(h, t) /\ UNCHANGED outlived /\ s.up /\ s.queue # <<>>
      /\ s.at = "entry" /\ Head(s.queue).kind = "reconcile"
  BY <1>1 DEF StartReconcile, Entry, AtStage, Busy, Task, budget
<1> SUFFICES ASSUME h \notin outlived PROVE Aims(t)
  BY <1>2, SetAims
<1>3. Formed(s) /\ IsSequence(s.queue) /\ Aims(s) /\ Booked(s)
  BY <1>1, <1>2, Starting
<1>4. IsCurrent(s, Head(s.queue).gen) \/ Follows(s)
  BY <1>2, <1>3, StaleFollows
<1> QED
  BY <1>1, <1>2, <1>3, <1>4, ReconcileAims DEF EndingTasks

\* The stages of reconcile end their task, go on to the next, or fail.
LEMMA StageAims ==
  ASSUME IInv, AInv, NEW h \in Hosts, h \notin outlived, NEW s, s = sup[h],
         Busy(h), s.at \in ReconcileStages \cup {"decide"}, NEW g, g = Task(h).gen
  PROVE  /\ Formed(s) /\ IsSequence(s.queue) /\ s.queue # <<>> /\ Aims(s) /\ Booked(s)
         /\ s.active = NoWorker
         /\ ~Current(h) => Aims(Finish(s))
         /\ Current(h) => /\ \A r \in Failures(s, g) : Aims(Finish(r))
                          /\ Aims(Finish(ScheduleRetry(s, g))) /\ Aims(Finish(MarkFatal(s)))
<1>1. /\ Formed(s) /\ IsSequence(s.queue) /\ s.queue # <<>> /\ Aims(s) /\ Booked(s)
      /\ s.active = NoWorker
  BY Starting DEF Busy
<1>2. g = Head(s.queue).gen /\ (Current(h) <=> IsCurrent(s, g))
  BY DEF Task, Current
<1>3. ~Current(h) => Aims(Finish(s))
  BY <1>1, <1>2, StaleFollows, FinishAims
<1> QED
  BY <1>1, <1>2, <1>3, FailureAims

\* The lease is taken, found with another host, or not to be had.
LEMMA AcquireAims ==
  ASSUME IInv, AInv, NEW h \in Hosts, Acquire(h)
  PROVE  AInv'
<1>1. PICK s, u, g : s = sup[h] /\ u = [s EXCEPT !.seen = lease] /\ g = Task(h).gen
  OBVIOUS
<1>2. Busy(h) /\ s.at = "acquire" /\ UNCHANGED outlived
  BY <1>1 DEF Acquire, AtStage
<1>3. PICK t : /\ Set(h, t)
               /\ \/ ~Current(h) /\ t = Finish(s)
                  \/ t = Go(s, "acquired") \/ t = Go(u, "occupied")
                  \/ Current(h) /\ \E r \in Failures(s, g) : t = Finish(r)
  BY <1>1 DEF Acquire
<1> SUFFICES ASSUME h \notin outlived PROVE Aims(t)
  BY <1>2, <1>3, SetAims
<1>4. /\ Formed(s) /\ Aims(s)
      /\ ~Current(h) => Aims(Finish(s))
      /\ Current(h) => \A r \in Failures(s, g) : Aims(Finish(r))
  BY <1>1, <1>2, StageAims DEF ReconcileStages
<1>5. Aims(Go(s, "acquired"))
  BY <1>2, <1>4, GoAims DEF ReconcileStages
<1>6. Formed(u) /\ Alikes(s, u) /\ u.fatal = s.fatal /\ u.ext = s.ext /\ u.retry = s.retry
  BY <1>1, <1>4 DEF Formed, Alikes
<1>7. Aims(u)
  BY <1>4, <1>6, AlikeAims
<1>8. Aims(Go(u, "occupied"))
  BY <1>2, <1>6, <1>7, GoAims DEF Alikes, ReconcileStages
<1> QED
  BY <1>3, <1>4, <1>5, <1>8

\* The lease becomes the supervisor's, or is given back.
LEMMA AcquiredAims ==
  ASSUME IInv, AInv, NEW h \in Hosts, Acquired(h)
  PROVE  AInv'
<1>1. PICK s, u : s = sup[h] /\ u = [s EXCEPT !.held = TRUE]
  OBVIOUS
<1>2. Busy(h) /\ s.at = "acquired" /\ UNCHANGED outlived
  BY <1>1 DEF Acquired, AtStage, budget
<1>3. PICK t : Set(h, t) /\ (t = Go(u, "probe") \/ (~Current(h) /\ t = Finish(s)))
  BY <1>1 DEF Acquired
<1> SUFFICES ASSUME h \notin outlived PROVE Aims(t)
  BY <1>2, <1>3, SetAims
<1>4. Formed(s) /\ Aims(s) /\ (~Current(h) => Aims(Finish(s)))
  BY <1>1, <1>2, StageAims DEF ReconcileStages
<1>5. Formed(u) /\ Alikes(s, u) /\ u.fatal = s.fatal /\ u.ext = s.ext /\ u.retry = s.retry
  BY <1>1, <1>4 DEF Formed, Alikes
<1>6. Aims(u)
  BY <1>4, <1>5, AlikeAims
<1>7. Aims(Go(u, "probe"))
  BY <1>2, <1>5, <1>6, GoAims DEF Alikes, ReconcileStages
<1> QED
  BY <1>3, <1>4, <1>7

\* The lease of another host is observed, waited for or fatal.
LEMMA OccupiedAims ==
  ASSUME IInv, AInv, NEW h \in Hosts, Occupied(h)
  PROVE  AInv'
<1>1. PICK s, g : s = sup[h] /\ g = Task(h).gen
  OBVIOUS
<1>2. Busy(h) /\ s.at = "occupied" /\ UNCHANGED outlived
  BY <1>1 DEF Occupied, AtStage
<1>3. PICK t : /\ Set(h, t)
               /\ \/ ~Current(h) /\ t = Finish(s)
                  \/ Current(h) /\ t = Finish(MarkFatal(s))
                  \/ Current(h) /\ t = Finish(ScheduleRetry(s, g))
                  \/ \E w : w # NoWorker /\ t = Finish(ObserveExternal(h, s, w, s.seen))
  BY <1>1 DEF Occupied
<1> SUFFICES ASSUME h \notin outlived PROVE Aims(t)
  BY <1>2, <1>3, SetAims
<1>4. /\ Formed(s) /\ IsSequence(s.queue) /\ s.queue # <<>> /\ Booked(s) /\ s.active = NoWorker
      /\ ~Current(h) => Aims(Finish(s))
      /\ Current(h) => Aims(Finish(ScheduleRetry(s, g))) /\ Aims(Finish(MarkFatal(s)))
  BY <1>1, <1>2, StageAims DEF ReconcileStages
<1>5. ASSUME NEW w, w # NoWorker PROVE Aims(Finish(ObserveExternal(h, s, w, s.seen)))
  BY <1>4, <1>5, HelpersFollow, FinishAlike
<1> QED
  BY <1>3, <1>4, <1>5

\* The port is free, or the launch is retried.
LEMMA ProbeAims ==
  ASSUME IInv, AInv, NEW h \in Hosts, Probe(h)
  PROVE  AInv'
<1>1. PICK s, g : s = sup[h] /\ g = Task(h).gen
  OBVIOUS
<1>2. Busy(h) /\ s.at = "probe" /\ UNCHANGED outlived
  BY <1>1 DEF Probe, AtStage
<1>3. PICK t : /\ Set(h, t)
               /\ \/ ~Current(h) /\ t = Finish(s)
                  \/ Current(h) /\ t = Finish(ScheduleRetry(s, g))
                  \/ t = Go(s, "prepare")
  BY <1>1 DEF Probe
<1> SUFFICES ASSUME h \notin outlived PROVE Aims(t)
  BY <1>2, <1>3, SetAims
<1>4. /\ Formed(s) /\ Aims(s)
      /\ ~Current(h) => Aims(Finish(s))
      /\ Current(h) => Aims(Finish(ScheduleRetry(s, g)))
  BY <1>1, <1>2, StageAims DEF ReconcileStages
<1>5. Aims(Go(s, "prepare"))
  BY <1>2, <1>4, GoAims DEF ReconcileStages
<1> QED
  BY <1>3, <1>4, <1>5

\* The run that is launched is of the generation that wants it, and of a worker whose
\* settlement nobody waits for.
LEMMA LaunchBooked ==
  ASSUME NEW s, Formed(s), IsSequence(s.queue), s.queue # <<>>, Booked(s), s.active = NoWorker,
         IsCurrent(s, Head(s.queue).gen), ~s.fatal,
         NEW w, w # NoWorker, \A i \in DOMAIN s.queue : s.queue[i].worker # w,
         \A i \in DOMAIN s.queue : s.queue[i].kind = "settled" => s.queue[i].worker # NoWorker,
         NEW u, Formed(u), u.desired = s.desired, u.gen = s.gen, u.active = w, u.runGen = s.gen,
         u.fatal = s.fatal, u.polling = s.polling, u.queue = s.queue,
         NEW t, t = Finish(u)
  PROVE  Aims(t)
<1>1. PICK f, q, r : f = Finish(s) /\ q = s.queue /\ r = f.queue
  OBVIOUS
<1>2. Booked(f)
  BY <1>1, FinishBooked
<1>3. /\ f.desired = "running" /\ f.gen = s.gen /\ f.active = NoWorker
      /\ f.fatal = s.fatal /\ f.polling = s.polling /\ r = Tail(q) /\ f.at = "entry"
  BY <1>1, Finished DEF IsCurrent
<1>4. /\ t.desired = "running" /\ t.gen = s.gen /\ t.active = w /\ t.runGen = s.gen
      /\ t.fatal = s.fatal /\ t.polling = s.polling /\ t.queue = r /\ t.at = "entry"
  <2>1. /\ t.desired = u.desired /\ t.gen = u.gen /\ t.active = u.active
        /\ t.runGen = u.runGen /\ t.fatal = u.fatal /\ t.polling = u.polling
    BY Finished
  <2>2. t.queue = Tail(u.queue) /\ t.at = "entry"
    BY Finished
  <2>3. s.desired = "running"
    BY DEF IsCurrent
  <2>4. t.desired = "running" /\ t.gen = s.gen /\ t.active = w /\ t.runGen = s.gen
        /\ t.fatal = s.fatal /\ t.polling = s.polling
    BY <2>1, <2>3
  <2>5. t.queue = r
    BY <1>1, <1>3, <2>2
  <2> QED
    BY <2>2, <2>4, <2>5
<1>5. /\ DOMAIN q \subseteq Nat \ {0} /\ DOMAIN r \subseteq Nat \ {0}
      /\ 1 \in DOMAIN q /\ q[1] = Head(q)
      /\ \A i \in DOMAIN r : i + 1 \in DOMAIN q /\ r[i] = q[i + 1]
  <2>1. IsSequence(q) /\ q # <<>>
    BY <1>1
  <2> QED
    BY <1>3, <2>1, Shifted
<1>6. ASSUME NEW i \in DOMAIN r
      PROVE  /\ r[i].kind \notin EndingTasks /\ r[i].worker # w
             /\ r[i].kind = "settled" => r[i].worker # NoWorker
  <2>1. i + 1 \in DOMAIN q /\ r[i] = q[i + 1] /\ 1 < i + 1
    BY <1>5
  <2>2. q[i + 1].kind \in EndingTasks =>
          q[1].gen < q[i + 1].gen /\ q[i + 1].gen <= s.gen /\ q[1].gen \in Nat /\ s.gen \in Nat
          /\ q[i + 1].gen \in Nat
    BY <1>1, <1>5, <2>1 DEF Booked, Ordered
  <2>3. q[1].gen = s.gen
    BY <1>1, <1>5 DEF IsCurrent
  <2> QED
    BY <1>1, <2>1, <2>2, <2>3
<1>7. Ordered(t)
  BY <1>1, <1>2, <1>3, <1>4, <1>6 DEF Booked, Ordered
<1>8. Settling(t)
  <2>1. \A i \in DOMAIN r : r[i].kind = "settled" =>
          /\ r[i].gen = f.gen => r[i].worker = NoWorker
          /\ \A j \in DOMAIN r : r[j].kind = "settled" /\ r[j].worker = r[i].worker => i = j
    BY <1>1, <1>2, <1>3 DEF Booked, Settling
  <2>2. ASSUME NEW i \in DOMAIN r, r[i].kind = "settled"
        PROVE  /\ r[i].worker # t.active /\ r[i].gen # t.gen
               /\ \A j \in DOMAIN r : r[j].kind = "settled" /\ r[j].worker = r[i].worker => i = j
    BY <1>3, <1>4, <1>6, <2>1, <2>2
  <2> QED
    BY <1>4, <2>2 DEF Settling
<1>9. Runs(t)
  BY <1>3, <1>4 DEF Booked, Ordered, Runs
<1>10. Restarting(t) /\ Polls(t)
  <2>1. \A i \in DOMAIN r : r[i].kind # "stop"
    BY <1>6 DEF EndingTasks
  <2>2. Restarting(t)
    BY <1>4, <2>1 DEF Restarting
  <2>3. s.polling
    BY DEF Booked, Polls, IsCurrent
  <2> QED
    BY <1>4, <2>2, <2>3 DEF Polls
<1>11. Pursues(t)
  BY <1>4 DEF Pursues, Ready
<1> QED
  BY <1>4, <1>7, <1>8, <1>9, <1>10, <1>11 DEF Booked, Healthy, Aims, ReconcileStages

\* The worker that is launched is the run that was wanted.
LEMMA PrepareAims ==
  ASSUME IInv, AInv, NEW h \in Hosts, Prepare(h)
  PROVE  AInv'
<1>1. PICK s, g : s = sup[h] /\ g = Task(h).gen
  OBVIOUS
<1>2. Busy(h) /\ s.at = "prepare" /\ UNCHANGED outlived
  BY <1>1 DEF Prepare, AtStage
<1>3. PICK t : /\ Set(h, t)
               /\ \/ ~Current(h) /\ t = Finish(s)
                  \/ Current(h) /\ \E r \in Failures(s, g) : t = Finish(r)
                  \/ /\ Current(h)
                     /\ \E w \in FreeWorkers(h) :
                          t = Finish([s EXCEPT !.active = w, !.runGen = g,
                                               !.ext = NoWorker, !.misses = 0])
  BY <1>1 DEF Prepare
<1> SUFFICES ASSUME h \notin outlived PROVE Aims(t)
  BY <1>2, <1>3, SetAims
<1>4. /\ Formed(s) /\ IsSequence(s.queue) /\ s.queue # <<>> /\ Booked(s) /\ s.active = NoWorker
      /\ ~Current(h) => Aims(Finish(s))
      /\ Current(h) => \A r \in Failures(s, g) : Aims(Finish(r))
  BY <1>1, <1>2, StageAims DEF ReconcileStages
<1>5. CASE Current(h) /\ \E w \in FreeWorkers(h) :
                            t = Finish([s EXCEPT !.active = w, !.runGen = g,
                                                 !.ext = NoWorker, !.misses = 0])
  <2>1. PICK w \in FreeWorkers(h) : t = Finish([s EXCEPT !.active = w, !.runGen = g,
                                                         !.ext = NoWorker, !.misses = 0])
    BY <1>5
  <2>2. PICK u : u = [s EXCEPT !.active = w, !.runGen = g, !.ext = NoWorker, !.misses = 0]
    OBVIOUS
  <2>3. /\ w \in {h} \X Slots
        /\ \A i \in DOMAIN s.queue : s.queue[i].worker # w
    BY <1>1 DEF FreeWorkers
  <2>4. \A i \in DOMAIN s.queue : s.queue[i].kind = "settled" => s.queue[i].worker \in {h} \X Slots
    BY <1>1, <1>2, Starting DEF Queued, Busy
  <2>5. w # NoWorker /\ NoWorker \notin {h} \X Slots
    BY <2>3, SupervisorAssumption
  <2>6. g = Head(s.queue).gen /\ IsCurrent(s, g)
    BY <1>1, <1>5 DEF Task, Current
  <2>7. ~s.fatal
    BY <1>1, <1>2, Starting DEF Healthy, ReconcileStages, Busy
  <2>8. \A i \in DOMAIN s.queue : /\ s.queue[i].worker # w
                                  /\ s.queue[i].kind = "settled" => s.queue[i].worker # NoWorker
    BY <2>3, <2>4, <2>5
  <2>9. /\ Formed(u) /\ u.desired = s.desired /\ u.gen = s.gen /\ u.active = w /\ u.runGen = s.gen
        /\ u.fatal = s.fatal /\ u.polling = s.polling /\ u.queue = s.queue
    BY <1>4, <2>2, <2>6 DEF Formed, IsCurrent
  <2>10. IsCurrent(s, Head(s.queue).gen) /\ t = Finish(u)
    BY <2>1, <2>2, <2>6
  <2> QED
    BY <1>4, <2>5, <2>7, <2>8, <2>9, <2>10, LaunchBooked
<1> QED
  BY <1>3, <1>4, <1>5

-----------------------------------------------------------------------------
(* The end of a run                                                        *)

\* The end of a task forgets the stage it was at.
LEMMA FinishForgets ==
  ASSUME NEW s, Formed(s), NEW x
  PROVE  Finish(Go(s, x)) = Finish(s)
<1>1. PICK d, t, u : d = Go(s, x) /\ t = Finish(s) /\ u = Finish(d)
  OBVIOUS
<1>2. d = [s EXCEPT !.at = x]
  BY <1>1 DEF Go
<1>3. PICK p : p = IF Head(s.queue).kind = "poll" THEN FALSE ELSE s.polled
  OBVIOUS
<1>4. d.queue = s.queue /\ d.polled = s.polled
  BY <1>2 DEF Formed
<1>5. u = [d EXCEPT !.queue = Tail(s.queue), !.at = "entry", !.seen = NoHost, !.polled = p]
  BY <1>1, <1>3, <1>4 DEF Finish
<1>6. t = [s EXCEPT !.queue = Tail(s.queue), !.at = "entry", !.seen = NoHost, !.polled = p]
  BY <1>1, <1>3 DEF Finish
<1>7. u = t
  BY <1>2, <1>5, <1>6 DEF Formed
<1> QED
  BY <1>1, <1>7

\* The run whose worker's end is handled is over.
LEMMA SettledBooked ==
  ASSUME NEW s, IsSequence(s.queue), s.queue # <<>>, Aims(s), s.at = "entry",
         Head(s.queue).kind = "settled", s.active = Head(s.queue).worker,
         \A i \in DOMAIN s.queue : s.queue[i].kind = "settled" => s.queue[i].worker # NoWorker,
         NEW d, d.gen = s.gen, d.desired = s.desired, d.active = NoWorker, d.fatal = s.fatal,
         d.polling = s.polling, d.retry = s.retry, d.ext = s.ext, d.queue = s.queue, d.at = "decide"
  PROVE  Booked(d) /\ (~IsCurrent(d, Head(s.queue).gen) => Follows(d))
<1>1. PICK q : q = s.queue
  OBVIOUS
<1>2. 1 \in DOMAIN q /\ q[1] = Head(q)
  <2>1. IsSequence(q) /\ q # <<>>
    BY <1>1
  <2> QED
    BY <2>1, Shifted
<1>3. Booked(s)
  BY DEF Aims
<1>4. \A i \in DOMAIN q : q[i].kind = "settled" =>
        /\ q[i].worker = s.active => q[i].gen = s.runGen
        /\ q[i].gen = s.gen => q[i].worker = s.active
        /\ \A j \in DOMAIN q : q[j].kind = "settled" /\ q[j].worker = q[i].worker => i = j
  BY <1>1, <1>3 DEF Booked, Settling
<1>5. q[1].kind = "settled" /\ q[1].worker = s.active /\ s.active # NoWorker /\ q[1].gen = s.runGen
  BY <1>1, <1>2, <1>4
<1>6. Ordered(d)
  BY <1>3 DEF Booked, Ordered
<1>7. Settling(d)
  <2>1. ASSUME NEW i \in DOMAIN q, q[i].kind = "settled"
        PROVE  /\ q[i].worker # NoWorker
               /\ q[i].gen = s.gen => i = 1
               /\ \A j \in DOMAIN q : q[j].kind = "settled" /\ q[j].worker = q[i].worker => i = j
    BY <1>1, <1>2, <1>4, <1>5, <2>1
  <2> QED
    BY <1>1, <2>1 DEF Settling
<1>8. Runs(d) /\ Restarting(d) /\ Polls(d)
  <2>1. Runs(d)
    BY DEF Runs
  <2>2. Restarting(d)
    BY <1>3 DEF Booked, Restarting
  <2>3. Polls(d)
    BY <1>3 DEF Booked, Polls
  <2> QED
    BY <2>1, <2>2, <2>3
<1>9. ASSUME ~IsCurrent(d, Head(s.queue).gen), Wants(d), ~Ready(d)
      PROVE  \E i \in DOMAIN q : i # 1 /\ q[i].gen = s.gen /\ q[i].kind # "poll"
  <2>1. q[1].gen # s.gen
    BY <1>1, <1>2, <1>9 DEF IsCurrent, Wants
  <2>2. s.runGen # s.gen /\ Wants(s) /\ ~Ready(s)
    BY <1>5, <1>9, <2>1 DEF Wants, Ready
  <2>3. Pursues(s)
    BY <2>2 DEF Aims
  <2> QED
    BY <1>1, <2>1, <2>2, <2>3 DEF Pursues, ReconcileStages
<1>10. ~IsCurrent(d, Head(s.queue).gen) => Follows(d)
  BY <1>1, <1>9 DEF Follows
<1> QED
  BY <1>6, <1>7, <1>8, <1>10 DEF Booked

\* The end of a run is stale, is retried, or is decided about.
LEMMA HandleRunSettledAims ==
  ASSUME IInv, AInv, NEW h \in Hosts, HandleRunSettled(h)
  PROVE  AInv'
<1>1. PICK s, g, u, d : /\ s = sup[h] /\ g = Task(h).gen
                        /\ u = [s EXCEPT !.active = NoWorker] /\ d = Go(u, "decide")
  OBVIOUS
<1>2. /\ s.up /\ s.queue # <<>> /\ s.at = "entry" /\ Head(s.queue).kind = "settled"
      /\ UNCHANGED outlived /\ g = Head(s.queue).gen
  BY <1>1 DEF HandleRunSettled, Entry, AtStage, Busy, Task, budget
<1>3. PICK t : /\ Set(h, t)
               /\ \/ s.active # Head(s.queue).worker /\ t = Finish(s)
                  \/ /\ s.active = Head(s.queue).worker
                     /\ \/ ~IsCurrent(u, g) /\ t = Finish(u)
                        \/ IsCurrent(u, g) /\ t = Finish(ScheduleRetry(u, g))
                        \/ IsCurrent(u, g) /\ t = d
  BY <1>1 DEF HandleRunSettled, Task
<1> SUFFICES ASSUME h \notin outlived PROVE Aims(t)
  BY <1>2, <1>3, SetAims
<1>4. /\ Formed(s) /\ Queued(h, s) /\ IsSequence(s.queue) /\ Aims(s) /\ Booked(s)
  BY <1>1, <1>2, Starting
<1>5. /\ Formed(u) /\ Formed(d) /\ d.gen = s.gen /\ d.desired = s.desired /\ d.active = NoWorker
      /\ d.fatal = s.fatal /\ d.polling = s.polling /\ d.retry = s.retry /\ d.ext = s.ext
      /\ d.queue = s.queue /\ d.at = "decide" /\ u.gen = s.gen /\ u.desired = s.desired
      /\ u.fatal = s.fatal
  BY <1>1, <1>4 DEF Formed, Go
<1>6. CASE s.active # Head(s.queue).worker
  <2>1. Head(s.queue).gen # s.gen
    <3>1. PICK q : q = s.queue
      OBVIOUS
    <3>2. IsSequence(q) /\ q # <<>>
      BY <1>2, <1>4, <3>1
    <3>3. 1 \in DOMAIN q /\ q[1] = Head(q)
      BY <3>2, Shifted
    <3> QED
      BY <1>2, <1>4, <1>6, <3>1, <3>3 DEF Booked, Settling
  <2>2. Follows(s)
    BY <1>2, <1>4, <2>1, LeavesFollows
  <2> QED
    BY <1>2, <1>3, <1>4, <1>6, <2>2, FinishAims DEF EndingTasks
<1>7. CASE s.active = Head(s.queue).worker
  <2>1. \A i \in DOMAIN s.queue : s.queue[i].kind = "settled" => s.queue[i].worker # NoWorker
    <3>1. NoWorker \notin {h} \X Slots
      BY SupervisorAssumption
    <3> QED
      BY <1>4, <3>1 DEF Queued
  <2>2. Booked(d) /\ (~IsCurrent(d, g) => Follows(d))
    BY <1>2, <1>4, <1>5, <1>7, <2>1, SettledBooked
  <2>3. IsSequence(d.queue) /\ d.queue # <<>> /\ Head(d.queue).kind \notin EndingTasks
    BY <1>2, <1>4, <1>5 DEF EndingTasks
  <2>4. IsCurrent(d, g) <=> IsCurrent(u, g)
    BY <1>5 DEF IsCurrent
  <2>5. ASSUME ~IsCurrent(u, g) PROVE Aims(Finish(u))
    <3>1. Aims(Finish(d))
      BY <1>5, <2>2, <2>3, <2>4, <2>5, FinishAims
    <3> QED
      BY <1>1, <1>5, <3>1, FinishForgets
  <2>6. ASSUME IsCurrent(u, g) PROVE Aims(d)
    <3>1. 1 \in DOMAIN s.queue /\ s.queue[1] = Head(s.queue)
      <4>1. PICK q : q = s.queue
        OBVIOUS
      <4>2. IsSequence(q) /\ q # <<>>
        BY <1>2, <1>4, <4>1
      <4> QED
        BY <4>1, <4>2, Shifted
    <3>2. Pursues(d)
      BY <1>2, <1>5, <2>6, <3>1 DEF Pursues, IsCurrent
    <3> QED
      BY <1>5, <2>2, <3>2 DEF Aims, Healthy, ReconcileStages
  <2>7. ASSUME IsCurrent(u, g) PROVE Aims(Finish(ScheduleRetry(u, g)))
    <3>1. Aims(Finish(ScheduleRetry(d, g)))
      BY <1>5, <2>2, <2>3, <2>4, <2>7, FailureAims
    <3>2. Formed(ScheduleRetry(u, g))
      BY <1>5, HelpersAlike DEF Alike
    <3>3. ScheduleRetry(d, g) = Go(ScheduleRetry(u, g), "decide")
      <4>1. CASE u.fatal
        BY <1>1, <1>5, <4>1 DEF ScheduleRetry
      <4>2. CASE ~u.fatal
        <5>1. ScheduleRetry(d, g) = [d EXCEPT !.retry = g]
          BY <1>5, <2>4, <2>7, <4>2 DEF ScheduleRetry
        <5>2. ScheduleRetry(u, g) = [u EXCEPT !.retry = g]
          BY <2>7, <4>2 DEF ScheduleRetry
        <5>3. d = [u EXCEPT !.at = "decide"]
          BY <1>1 DEF Go
        <5>4. [d EXCEPT !.retry = g] = [[u EXCEPT !.retry = g] EXCEPT !.at = "decide"]
          BY <1>5, <5>3 DEF Formed
        <5> QED
          BY <5>1, <5>2, <5>4 DEF Go
      <4> QED
        BY <4>1, <4>2
    <3> QED
      BY <3>1, <3>2, <3>3, FinishForgets
  <2> QED
    BY <1>3, <1>7, <2>5, <2>6, <2>7
<1> QED
  BY <1>6, <1>7

\* A daemon that decides to end wants no run; one that restarts reconciles.
LEMMA DecideAims ==
  ASSUME IInv, AInv, NEW h \in Hosts, Decide(h)
  PROVE  AInv'
<1>1. PICK s, g, u, v : /\ s = sup[h] /\ g = Task(h).gen
                        /\ u = [s EXCEPT !.retry = 0] /\ v = StopDecision(s)
  OBVIOUS
<1>2. Busy(h) /\ s.at = "decide" /\ UNCHANGED outlived
  BY <1>1 DEF Decide, AtStage, budget
<1>3. PICK t : /\ Set(h, t)
               /\ \/ ~Current(h) /\ t = Finish(s)
                  \/ t = Finish(v)
                  \/ Current(h) /\ t = Reconcile(u, g)
                  \/ Current(h) /\ \E r \in Failures(s, g) : t = Finish(r)
  BY <1>1 DEF Decide
<1> SUFFICES ASSUME h \notin outlived PROVE Aims(t)
  BY <1>2, <1>3, SetAims
<1>4. /\ Formed(s) /\ IsSequence(s.queue) /\ s.queue # <<>> /\ Booked(s) /\ s.active = NoWorker
      /\ ~Current(h) => Aims(Finish(s))
      /\ Current(h) => \A r \in Failures(s, g) : Aims(Finish(r))
  BY <1>1, <1>2, StageAims
<1>5. ASSUME Current(h) PROVE Aims(Reconcile(u, g))
  <2>1. /\ Formed(u) /\ Alikes(s, u) /\ u.active = NoWorker /\ u.queue = s.queue
        /\ u.gen = s.gen /\ u.desired = s.desired
    BY <1>1, <1>4 DEF Formed, Alikes
  <2>2. Booked(u)
    BY <1>4, <2>1, AlikeBooked
  <2>3. g = Head(u.queue).gen /\ IsCurrent(u, g)
    BY <1>1, <1>5, <2>1 DEF Task, Current, IsCurrent
  <2> QED
    BY <1>4, <2>1, <2>2, <2>3, ReconcileAims
<1>6. Aims(Finish(v))
  <2>1. PICK x : x = [s EXCEPT !.gen = s.gen + 1, !.desired = "stopped", !.retry = 0, !.held = FALSE]
    OBVIOUS
  <2>2. x = [BeginGeneration(s) EXCEPT !.desired = "stopped", !.retry = 0, !.held = FALSE]
    BY <1>4, <2>1 DEF BeginGeneration, Formed
  <2>3. v = StopPolling(x)
    BY <1>1, <2>2 DEF StopDecision
  <2>4. /\ Formed(x) /\ x.gen = s.gen + 1 /\ x.desired = "stopped" /\ x.active = NoWorker
        /\ x.queue = s.queue /\ x.at = s.at
    BY <1>4, <2>1 DEF Formed
  <2>5. v = x \/ v = [x EXCEPT !.polling = FALSE, !.polled = FALSE]
    BY <2>3 DEF StopPolling
  <2>6. /\ Formed(v) /\ v.gen = s.gen + 1 /\ v.desired = "stopped" /\ v.active = NoWorker
        /\ v.queue = s.queue /\ v.at = s.at
    BY <2>4, <2>5 DEF Formed
  <2>7. s.gen \in Nat /\ v.gen \in Nat /\ s.gen < v.gen
    <3>1. s.gen \in Nat
      BY <1>4 DEF Booked, Ordered
    <3> QED
      BY <2>6, <3>1
  <2>8. Ordered(v)
    BY <1>4, <2>6, <2>7 DEF Booked, Ordered
  <2>9. Settling(v)
    <3>1. \A i \in DOMAIN s.queue : s.queue[i].gen # v.gen
      BY <1>4, <2>7 DEF Booked, Ordered
    <3>2. \A i \in DOMAIN s.queue : s.queue[i].kind = "settled" =>
            /\ s.queue[i].worker # NoWorker
            /\ \A j \in DOMAIN s.queue :
                 s.queue[j].kind = "settled" /\ s.queue[j].worker = s.queue[i].worker => i = j
      <4>1. NoWorker \notin {h} \X Slots
        BY SupervisorAssumption
      <4>2. Queued(h, s)
        BY <1>1, <1>2, Starting DEF Busy
      <4> QED
        BY <1>4, <4>1, <4>2 DEF Queued, Booked, Settling
    <3> QED
      BY <2>6, <3>1, <3>2 DEF Settling
  <2>10. Runs(v) /\ Restarting(v) /\ Polls(v)
    BY <1>2, <2>6 DEF Runs, Restarting, Polls
  <2>11. Booked(v) /\ Follows(v)
    BY <2>6, <2>8, <2>9, <2>10 DEF Booked, Follows, Wants
  <2> QED
    BY <1>4, <2>6, <2>11, FinishAims
<1> QED
  BY <1>3, <1>4, <1>5, <1>6

\* A worker is asked to end, then killed.
LEMMA TerminateAims ==
  ASSUME IInv, AInv, NEW h \in Hosts, Terminate(h) \/ GraceTimeout(h)
  PROVE  AInv'
<1>1. PICK s : s = sup[h]
  OBVIOUS
<1>2. /\ Busy(h) /\ s.at \in {"entry", "grace"} /\ UNCHANGED outlived
      /\ \E x \in {"grace", "forced"} : Set(h, Go(s, x))
  BY <1>1 DEF Terminate, GraceTimeout, Entry, AtStage, budget
<1>3. PICK x \in {"grace", "forced"} : Set(h, Go(s, x))
  BY <1>2
<1> SUFFICES ASSUME h \notin outlived PROVE Aims(Go(s, x))
  BY <1>2, <1>3, SetAims
<1>4. Formed(s) /\ Aims(s)
  BY <1>1, <1>2, Starting DEF Busy
<1> QED
  BY <1>2, <1>4, GoAims DEF ReconcileStages

\* The run that its task has ended is over; what was queued behind it is not.
LEMMA TerminatedBooked ==
  ASSUME NEW s, IsSequence(s.queue), s.queue # <<>>, Aims(s), s.at \in {"entry", "grace", "forced"},
         Head(s.queue).kind \in EndingTasks,
         \A i \in DOMAIN s.queue : s.queue[i].kind = "settled" => s.queue[i].worker # NoWorker,
         NEW d, d.gen = s.gen, d.desired = s.desired, d.active = NoWorker, d.fatal = s.fatal,
         d.polling = s.polling, d.queue = s.queue, d.at = s.at
  PROVE  /\ Booked(d)
         /\ ~IsCurrent(d, Head(s.queue).gen) /\ d.retry = s.retry /\ d.ext = s.ext => Follows(d)
         /\ Head(s.queue).kind = "stop" => Follows(d)
<1>1. PICK q : q = s.queue
  OBVIOUS
<1>2. 1 \in DOMAIN q /\ q[1] = Head(q)
  <2>1. IsSequence(q) /\ q # <<>>
    BY <1>1
  <2> QED
    BY <2>1, Shifted
<1>3. Booked(s)
  BY DEF Aims
<1>4. /\ s.active # NoWorker => s.runGen \in Nat /\ s.runGen < q[1].gen
      /\ q[1].gen \in Nat /\ s.gen \in Nat /\ q[1].gen <= s.gen
  BY <1>1, <1>2, <1>3 DEF Booked, Ordered, Runs
<1>5. s.active # NoWorker => s.runGen # s.gen
  BY <1>4
<1>6. Ordered(d)
  BY <1>3 DEF Booked, Ordered
<1>7. Settling(d)
  <2>1. \A i \in DOMAIN q : q[i].kind = "settled" =>
          /\ q[i].worker # NoWorker
          /\ q[i].worker = s.active => q[i].gen = s.runGen
          /\ q[i].gen = s.gen => q[i].worker = s.active \/ i = 1
          /\ \A j \in DOMAIN q : q[j].kind = "settled" /\ q[j].worker = q[i].worker => i = j
    BY <1>1, <1>3 DEF Booked, Settling
  <2>2. q[1].kind # "settled"
    BY <1>1, <1>2 DEF EndingTasks
  <2>3. ASSUME NEW i \in DOMAIN q, q[i].kind = "settled"
        PROVE  /\ q[i].worker # NoWorker /\ q[i].gen # s.gen
               /\ \A j \in DOMAIN q : q[j].kind = "settled" /\ q[j].worker = q[i].worker => i = j
    BY <1>5, <2>1, <2>2, <2>3
  <2> QED
    BY <1>1, <2>3 DEF Settling
<1>8. Runs(d) /\ Restarting(d) /\ Polls(d)
  <2>1. Runs(d)
    BY DEF Runs
  <2>2. Restarting(d)
    BY <1>3 DEF Booked, Restarting
  <2>3. Polls(d)
    BY <1>3 DEF Booked, Polls
  <2> QED
    BY <2>1, <2>2, <2>3
<1>9. ASSUME ~IsCurrent(d, Head(s.queue).gen), d.retry = s.retry, d.ext = s.ext
      PROVE  Follows(d)
  <2> SUFFICES ASSUME Wants(d), ~Ready(d)
               PROVE  \E i \in DOMAIN q : i # 1 /\ q[i].gen = s.gen /\ q[i].kind # "poll"
    BY <1>1 DEF Follows
  <2>1. q[1].gen # s.gen
    BY <1>1, <1>2, <1>9 DEF IsCurrent, Wants
  <2>2. Wants(s) /\ ~Ready(s)
    BY <1>5, <1>9 DEF Wants, Ready
  <2>3. Pursues(s)
    BY <2>2 DEF Aims
  <2> QED
    BY <1>1, <2>1, <2>2, <2>3 DEF Pursues
<1>10. ASSUME Head(s.queue).kind = "stop" PROVE Follows(d)
  <2> SUFFICES ASSUME Wants(d)
               PROVE  \E i \in DOMAIN q : i # 1 /\ q[i].gen = s.gen /\ q[i].kind # "poll"
    BY <1>1 DEF Follows
  <2>1. \E i \in DOMAIN q : q[i].gen = s.gen /\ q[i].kind \in {"reconcile", "restart"}
    BY <1>1, <1>2, <1>3, <1>10 DEF Wants, Booked, Restarting
  <2> QED
    BY <1>1, <1>2, <1>10, <2>1
<1> QED
  BY <1>6, <1>7, <1>8, <1>9, <1>10 DEF Booked

\* A stop that is over leaves the start that came behind it; a restart reconciles.
LEMMA TerminatedAims ==
  ASSUME IInv, AInv, NEW h \in Hosts, Terminated(h)
  PROVE  AInv'
<1>1. PICK s, g, u, v : /\ s = sup[h] /\ g = Task(h).gen /\ u = [s EXCEPT !.active = NoWorker]
                        /\ v = [Detach(u) EXCEPT !.held = FALSE, !.misses = 0]
  OBVIOUS
<1>2. /\ s.up /\ s.queue # <<>> /\ s.at \in {"entry", "grace", "forced"}
      /\ Head(s.queue).kind \in EndingTasks /\ UNCHANGED outlived /\ g = Head(s.queue).gen
  BY <1>1 DEF Terminated, Busy, Task, EndingTasks, budget
<1>3. PICK t : /\ Set(h, t)
               /\ \/ Head(s.queue).kind = "stop" /\ t = Finish(v)
                  \/ t = Reconcile(u, g)
  BY <1>1 DEF Terminated, Task, Stopped
<1> SUFFICES ASSUME h \notin outlived PROVE Aims(t)
  BY <1>2, <1>3, SetAims
<1>4. /\ Formed(s) /\ Queued(h, s) /\ IsSequence(s.queue) /\ Aims(s)
  BY <1>1, <1>2, Starting
<1>5. /\ Formed(u) /\ u.gen = s.gen /\ u.desired = s.desired /\ u.active = NoWorker
      /\ u.fatal = s.fatal /\ u.polling = s.polling /\ u.retry = s.retry /\ u.ext = s.ext
      /\ u.queue = s.queue /\ u.at = s.at
  BY <1>1, <1>4 DEF Formed
<1>6. /\ Formed(v) /\ v.gen = s.gen /\ v.desired = s.desired /\ v.active = NoWorker
      /\ v.fatal = s.fatal /\ v.polling = s.polling /\ v.queue = s.queue /\ v.at = s.at
  <2>1. PICK x : x = [u EXCEPT !.ext = NoWorker, !.extHost = NoHost]
    OBVIOUS
  <2>2. /\ Formed(x) /\ x.gen = s.gen /\ x.desired = s.desired /\ x.active = NoWorker
        /\ x.fatal = s.fatal /\ x.polling = s.polling /\ x.queue = s.queue /\ x.at = s.at
    BY <1>5, <2>1 DEF Formed
  <2>3. v = [x EXCEPT !.held = FALSE, !.misses = 0]
    BY <1>1, <2>1 DEF Detach
  <2> QED
    BY <2>2, <2>3 DEF Formed
<1>7. \A i \in DOMAIN s.queue : s.queue[i].kind = "settled" => s.queue[i].worker # NoWorker
  <2>1. NoWorker \notin {h} \X Slots
    BY SupervisorAssumption
  <2> QED
    BY <1>4, <2>1 DEF Queued
<1>8. s.at # "entry" /\ Head(s.queue).kind = "settled" => FALSE
  BY <1>2 DEF EndingTasks
<1>9. Aims(Reconcile(u, g))
  <2>1. Booked(u) /\ (IsCurrent(u, g) \/ Follows(u))
    BY <1>2, <1>4, <1>5, <1>7, TerminatedBooked
  <2>2. IsSequence(u.queue) /\ u.queue # <<>> /\ g = Head(u.queue).gen
    BY <1>2, <1>4, <1>5
  <2> QED
    BY <1>5, <2>1, <2>2, ReconcileAims
<1>10. ASSUME Head(s.queue).kind = "stop" PROVE Aims(Finish(v))
  <2>1. Booked(v) /\ Follows(v)
    BY <1>2, <1>4, <1>6, <1>7, <1>10, TerminatedBooked
  <2>2. IsSequence(v.queue) /\ v.queue # <<>>
    BY <1>2, <1>4, <1>6
  <2> QED
    BY <1>6, <2>1, <2>2, FinishAims
<1> QED
  BY <1>3, <1>9, <1>10

-----------------------------------------------------------------------------
(* Polls                                                                   *)

\* What a poll may leave: it is no task that pursues the intent.
LEMMA PollLeaves ==
  ASSUME NEW s, Formed(s), IsSequence(s.queue), s.queue # <<>>, Aims(s),
         Head(s.queue).kind = "poll", s.at \notin ReconcileStages
  PROVE  /\ \A u : Formed(u) /\ Alikes(s, u) /\ u.fatal = s.fatal
                   /\ (Wants(u) => u.ext = s.ext /\ u.retry = s.retry)
                   => Aims(u) /\ Follows(u) /\ Aims(Finish(u))
         /\ \A u : Formed(u) /\ Alikes(s, u) /\ IsCurrent(s, Head(s.queue).gen)
                   => Aims(Reconcile(u, Head(s.queue).gen))
<1>1. ASSUME NEW u, Formed(u), Alikes(s, u), u.fatal = s.fatal,
             Wants(u) => u.ext = s.ext /\ u.retry = s.retry
      PROVE  Aims(u) /\ Follows(u) /\ Aims(Finish(u))
  <2>1. Aims(u)
    BY <1>1, AlikeAims
  <2>2. IsSequence(u.queue) /\ u.queue # <<>> /\ Head(u.queue).kind = "poll" /\ u.at = s.at
    BY <1>1 DEF Alikes
  <2>3. Follows(u)
    BY <2>1, <2>2, LeavesFollows
  <2>4. Booked(u)
    BY <2>1 DEF Aims
  <2> QED
    BY <1>1, <2>1, <2>2, <2>3, <2>4, FinishAims DEF EndingTasks
<1>2. ASSUME NEW u, Formed(u), Alikes(s, u), IsCurrent(s, Head(s.queue).gen)
      PROVE  Aims(Reconcile(u, Head(s.queue).gen))
  <2>1. Booked(u)
    BY <1>2, AlikeBooked DEF Aims
  <2>2. /\ IsSequence(u.queue) /\ u.queue # <<>> /\ u.queue = s.queue
        /\ IsCurrent(u, Head(u.queue).gen) /\ Head(u.queue).kind = "poll"
    BY <1>2 DEF Alikes, IsCurrent
  <2>3. Aims(Reconcile(u, Head(u.queue).gen))
    BY <1>2, <2>1, <2>2, ReconcileAims DEF EndingTasks
  <2> QED
    BY <2>2, <2>3
<1> QED
  BY <1>1, <1>2

\* What a poll starts from.
LEMMA PollStarts ==
  ASSUME IInv, AInv, NEW h \in Hosts, h \notin outlived, NEW s, s = sup[h],
         Entry(h, "poll") \/ AtStage(h, "inspect") \/ AtStage(h, "fetch") \/ AtStage(h, "fetchProbe")
  PROVE  /\ Formed(s) /\ IsSequence(s.queue) /\ s.queue # <<>> /\ Aims(s) /\ Booked(s)
         /\ Head(s.queue).kind = "poll" /\ s.at \notin ReconcileStages
         /\ Aims(Finish(s)) /\ Task(h).gen = Head(s.queue).gen
         /\ Current(h) <=> IsCurrent(s, Head(s.queue).gen)
<1>1. s.up /\ s.queue # <<>> /\ s.at \in {"entry", "inspect", "fetch", "fetchProbe"}
      /\ (s.at = "entry" => Head(s.queue).kind = "poll")
  BY DEF Entry, AtStage, Busy, Task
<1>2. Formed(s) /\ IsSequence(s.queue) /\ Aims(s) /\ Booked(s)
  BY <1>1, Starting
<1>3. Head(s.queue).kind = "poll" /\ s.at \notin ReconcileStages
  BY <1>1, <1>2 DEF Booked, Polls, ReconcileStages
<1>4. Alikes(s, s)
  BY DEF Alikes
<1>5. Aims(Finish(s))
  BY <1>1, <1>2, <1>3, <1>4, PollLeaves
<1> QED
  BY <1>1, <1>2, <1>3, <1>5 DEF Task, Current

\* A poll inspects the lease, fetches the runtime's state or ends.
LEMMA PollAims ==
  ASSUME IInv, AInv, NEW h \in Hosts, Poll(h)
  PROVE  AInv'
<1>1. PICK s : s = sup[h]
  OBVIOUS
<1>2. PICK t : Set(h, t) /\ t \in {Go(s, "inspect"), Go(s, "fetch"), Finish(s)}
  BY <1>1 DEF Poll
<1>3. Entry(h, "poll") /\ UNCHANGED outlived
  BY DEF Poll, budget
<1> SUFFICES ASSUME h \notin outlived PROVE Aims(t)
  BY <1>2, <1>3, SetAims
<1>4. /\ Formed(s) /\ Aims(s) /\ Head(s.queue).kind = "poll" /\ s.at \notin ReconcileStages
      /\ Aims(Finish(s))
  BY <1>1, <1>3, PollStarts
<1>5. Aims(Go(s, "inspect")) /\ Aims(Go(s, "fetch"))
  BY <1>4, GoAims DEF ReconcileStages
<1> QED
  BY <1>2, <1>4, <1>5

\* An owner that changed is reconciled with by the poll of this generation.
LEMMA InspectAims ==
  ASSUME IInv, AInv, NEW h \in Hosts, Inspect(h)
  PROVE  AInv'
<1>1. PICK s, d, g : s = sup[h] /\ d = Detach(s) /\ g = Task(h).gen
  OBVIOUS
<1>2. PICK owner, u, t : /\ u = [s EXCEPT !.seen = owner] /\ Set(h, t)
                         /\ \/ t \in {Go(u, "fetchProbe"), Finish(s), Go(s, "fetch")}
                            \/ Current(h) /\ t = Reconcile(d, g)
  BY <1>1 DEF Inspect
<1>3. AtStage(h, "inspect") /\ UNCHANGED outlived
  BY DEF Inspect
<1> SUFFICES ASSUME h \notin outlived PROVE Aims(t)
  BY <1>2, <1>3, SetAims
<1>4. /\ Formed(s) /\ IsSequence(s.queue) /\ s.queue # <<>> /\ Aims(s)
      /\ Head(s.queue).kind = "poll" /\ s.at \notin ReconcileStages
      /\ Aims(Finish(s)) /\ g = Head(s.queue).gen
      /\ Current(h) <=> IsCurrent(s, Head(s.queue).gen)
  BY <1>1, <1>3, PollStarts
<1>5. Aims(Go(s, "fetch"))
  BY <1>4, GoAims DEF ReconcileStages
<1>6. Formed(u) /\ Alikes(s, u) /\ u.fatal = s.fatal /\ u.ext = s.ext /\ u.retry = s.retry
  BY <1>2, <1>4 DEF Formed, Alikes
<1>7. Aims(Go(u, "fetchProbe"))
  <2>1. Aims(u)
    BY <1>4, <1>6, PollLeaves
  <2>2. Head(u.queue).kind = "poll" /\ u.at \notin ReconcileStages
    BY <1>4, <1>6 DEF Alikes
  <2> QED
    BY <1>6, <2>1, <2>2, GoAims DEF ReconcileStages
<1>8. Formed(d) /\ Alikes(s, d)
  BY <1>1, <1>4 DEF Detach, Formed, Alikes
<1>9. Current(h) => Aims(Reconcile(d, g))
  BY <1>4, <1>8, PollLeaves
<1> QED
  BY <1>2, <1>4, <1>5, <1>7, <1>9

\* What a poll makes of a runtime keeps the intent: an attached one is observed or
\* given up for a reconcile, the supervisor's own is its run, and one nobody answers
\* for is retried.
LEMMA FetchAims ==
  ASSUME IInv, AInv, NEW h \in Hosts, Fetch(h)
  PROVE  AInv'
<1>1. PICK s, g, m : s = sup[h] /\ g = Task(h).gen /\ m = Missed(s)
  OBVIOUS
<1>2. PICK z, y, d : /\ z = [s EXCEPT !.misses = 0] /\ y = [s EXCEPT !.misses = 0, !.ext = NoWorker]
                     /\ d = Detach(m)
  OBVIOUS
<1>3. AtStage(h, "fetch") /\ UNCHANGED outlived
  BY DEF Fetch
<1>4. PICK found, t : Set(h, t) /\ (t = Finish(s) \/ (Current(h) /\ t = Polled(h, found)))
  BY <1>1 DEF Fetch
<1> SUFFICES ASSUME h \notin outlived PROVE Aims(t)
  BY <1>3, <1>4, SetAims
<1>5. /\ Formed(s) /\ IsSequence(s.queue) /\ s.queue # <<>> /\ Aims(s) /\ Booked(s)
      /\ Head(s.queue).kind = "poll" /\ s.at \notin ReconcileStages
      /\ Aims(Finish(s)) /\ g = Head(s.queue).gen
      /\ Current(h) <=> IsCurrent(s, Head(s.queue).gen)
  BY <1>1, <1>3, PollStarts
<1> SUFFICES ASSUME Current(h), t = Polled(h, found) PROVE Aims(t)
  BY <1>4, <1>5
<1>6. \/ t \in {Finish(m), Finish(z)}
      \/ t = Reconcile(d, g)
      \/ s.active # NoWorker /\ t = Finish(y)
      \/ /\ s.active = NoWorker
         /\ \/ t = Finish(ScheduleRetry(z, g))
            \/ /\ found # NoWorker
               /\ t \in {Finish(ObserveExternal(h, s, found, s.extHost)),
                         Finish(ObserveExternal(h, s, found, NoHost))}
  BY <1>1, <1>2 DEF Polled
<1>7. Formed(m) /\ Alikes(s, m) /\ m.fatal = s.fatal /\ m.ext = s.ext /\ m.retry = s.retry
  <2>1. PICK n : m = [s EXCEPT !.misses = n]
    BY <1>1 DEF Missed
  <2> QED
    BY <1>5, <2>1 DEF Formed, Alikes
<1>8. Formed(z) /\ Alikes(s, z) /\ z.fatal = s.fatal /\ z.ext = s.ext /\ z.retry = s.retry
  BY <1>2, <1>5 DEF Formed, Alikes
<1>9. Aims(Finish(m)) /\ Aims(Finish(z))
  BY <1>5, <1>7, <1>8, PollLeaves
<1>10. Aims(Reconcile(d, g))
  <2>1. Formed(d) /\ Alikes(m, d)
    BY <1>2, <1>7 DEF Detach, Formed, Alikes
  <2>2. Alikes(s, d)
    BY <1>2, <1>5, <1>7, <2>1 DEF Alikes
  <2> QED
    BY <1>5, <2>1, <2>2, PollLeaves
<1>11. ASSUME s.active # NoWorker PROVE Aims(Finish(y))
  <2>1. /\ Formed(y) /\ Alikes(s, y) /\ y.active # NoWorker
        /\ y.queue = s.queue /\ y.gen = s.gen /\ y.runGen = s.runGen
    BY <1>2, <1>5, <1>11 DEF Formed, Alikes
  <2>2. s.runGen = s.gen
    BY <1>5, <1>11, RunIsCurrent DEF IsCurrent, EndingTasks
  <2>3. Booked(y)
    BY <1>5, <2>1, AlikeBooked
  <2>4. Follows(y)
    BY <2>1, <2>2 DEF Follows, Ready
  <2> QED
    BY <1>5, <2>1, <2>3, <2>4, FinishAims DEF EndingTasks
<1>12. ASSUME s.active = NoWorker PROVE Aims(Finish(ScheduleRetry(z, g)))
  <2>1. /\ Booked(z) /\ z.active = NoWorker /\ IsCurrent(z, g)
        /\ IsSequence(z.queue) /\ z.queue # <<>>
    BY <1>5, <1>8, <1>12, AlikeBooked DEF Alikes, IsCurrent
  <2> QED
    BY <1>8, <2>1, FailureAims
<1>13. ASSUME s.active = NoWorker, found # NoWorker, NEW owner
       PROVE  Aims(Finish(ObserveExternal(h, s, found, owner)))
  BY <1>5, <1>13, HelpersFollow, FinishAlike
<1> QED
  BY <1>6, <1>9, <1>10, <1>11, <1>12, <1>13

\* A supervisor that only probes wants no run.
LEMMA FetchProbeAims ==
  ASSUME IInv, AInv, NEW h \in Hosts, FetchProbe(h)
  PROVE  AInv'
<1>1. PICK s, m : s = sup[h] /\ m = Missed(s)
  OBVIOUS
<1>2. PICK found, u, d, t :
        /\ u = [s EXCEPT !.ext = found, !.extHost = s.seen, !.misses = 0] /\ d = Detach(m)
        /\ Set(h, t)
        /\ t = Finish(s) \/ (s.desired = "stopped" /\ t \in {Finish(u), Finish(d), Finish(m)})
  BY <1>1 DEF FetchProbe, ProbesOnly
<1>3. AtStage(h, "fetchProbe") /\ UNCHANGED outlived
  BY DEF FetchProbe
<1> SUFFICES ASSUME h \notin outlived PROVE Aims(t)
  BY <1>2, <1>3, SetAims
<1>4. /\ Formed(s) /\ IsSequence(s.queue) /\ s.queue # <<>> /\ Aims(s)
      /\ Head(s.queue).kind = "poll" /\ s.at \notin ReconcileStages /\ Aims(Finish(s))
  BY <1>1, <1>3, PollStarts
<1>5. Formed(u) /\ Alikes(s, u) /\ u.fatal = s.fatal /\ u.desired = s.desired
  BY <1>2, <1>4 DEF Formed, Alikes
<1>6. Formed(m) /\ Alikes(s, m) /\ m.fatal = s.fatal /\ m.desired = s.desired /\ m.polling = s.polling
  <2>1. PICK n : m = [s EXCEPT !.misses = n]
    BY <1>1 DEF Missed
  <2> QED
    BY <1>4, <2>1 DEF Formed, Alikes
<1>7. Formed(d) /\ Alikes(s, d) /\ d.fatal = s.fatal /\ d.desired = s.desired
  <2>1. /\ Formed(d) /\ Alikes(m, d) /\ d.fatal = m.fatal /\ d.desired = m.desired
        /\ d.polling = m.polling
    BY <1>2, <1>6 DEF Detach, Formed, Alikes
  <2> QED
    BY <1>6, <2>1 DEF Alikes
<1>8. ASSUME NEW r \in {u, m, d}, s.desired = "stopped" PROVE Aims(Finish(r))
  <2>1. Formed(r) /\ Alikes(s, r) /\ r.fatal = s.fatal /\ ~Wants(r)
    BY <1>5, <1>6, <1>7, <1>8 DEF Wants
  <2> QED
    BY <1>4, <2>1, PollLeaves
<1> QED
  BY <1>2, <1>4, <1>8

-----------------------------------------------------------------------------
(* Tasks come in                                                           *)

\* Enqueue, of a task that ends no run.
LEMMA EnqueueAims ==
  ASSUME NEW u, Formed(u), IsSequence(u.queue), u.at # "entry" => u.queue # <<>>, Booked(u),
         Healthy(u), NEW kind, kind \in {"reconcile", "poll"}, kind = "reconcile" \/ Aims(u)
  PROVE  Aims(Enqueue(u, kind))
<1>1. PICK x : x = [kind |-> kind, gen |-> u.gen, worker |-> NoWorker, busy |-> FALSE]
  OBVIOUS
<1>2. PICK t : t = [u EXCEPT !.queue = Append(u.queue, x)]
  OBVIOUS
<1>3. x.kind = kind /\ x.gen = u.gen
  BY <1>1
<1>4. u.gen \in Nat
  BY DEF Booked, Ordered
<1>5. x.gen \in Nat /\ x.gen <= u.gen /\ x.kind \notin EndingTasks /\ x.kind # "settled"
      /\ (Aims(u) \/ (x.gen = u.gen /\ x.kind # "poll"))
  BY <1>3, <1>4 DEF EndingTasks
<1>6. Aims(t)
  BY <1>2, <1>5, AppendAims
<1>7. Enqueue(u, kind) = t
  BY <1>1, <1>2 DEF Enqueue
<1> QED
  BY <1>6, <1>7

\* The timers queue a poll, and the retry of the generation that asked for it.
LEMMA TimerAims ==
  ASSUME IInv, AInv, NEW h \in Hosts, RetryTimer(h) \/ PollTimer(h)
  PROVE  AInv'
<1>1. PICK s, u, v : s = sup[h] /\ u = [s EXCEPT !.retry = 0] /\ v = [s EXCEPT !.polled = TRUE]
  OBVIOUS
<1>2. s.up /\ UNCHANGED outlived
  BY <1>1 DEF RetryTimer, PollTimer, budget
<1>3. PICK t : /\ Set(h, t)
               /\ \/ t = Enqueue(u, "reconcile")
                  \/ ~IsCurrent(s, s.retry) /\ t = u
                  \/ t = Enqueue(v, "poll")
  BY <1>1 DEF RetryTimer, PollTimer, QueuePoll
<1> SUFFICES ASSUME h \notin outlived PROVE Aims(t)
  BY <1>2, <1>3, SetAims
<1>4. /\ Formed(s) /\ IsSequence(s.queue) /\ (s.at # "entry" => s.queue # <<>>)
      /\ Aims(s) /\ Booked(s) /\ Healthy(s)
  BY <1>1, <1>2, Starting
<1>5. /\ Formed(u) /\ Alikes(s, u) /\ u.fatal = s.fatal /\ u.ext = s.ext /\ u.polling = s.polling
      /\ u.retry = 0
  BY <1>1, <1>4 DEF Formed, Alikes
<1>6. Booked(u) /\ Healthy(u)
  BY <1>4, <1>5, AlikeBooked DEF Alikes, Healthy
<1>7. Aims(Enqueue(u, "reconcile"))
  BY <1>4, <1>5, <1>6, EnqueueAims DEF Alikes
<1>8. ASSUME ~IsCurrent(s, s.retry) PROVE Aims(u)
  <2>1. Wants(u) => Pursues(u)
    <3> SUFFICES ASSUME Wants(u) PROVE Pursues(u)
      OBVIOUS
    <3>1. Wants(s) /\ s.retry # s.gen
      BY <1>5, <1>8 DEF Wants, Alikes, IsCurrent
    <3> QED
      BY <1>4, <1>5, <3>1 DEF Aims, Pursues, Ready, Alikes
  <2> QED
    BY <1>6, <2>1 DEF Aims
<1>9. Formed(v) /\ Alikes(s, v) /\ v.fatal = s.fatal /\ v.ext = s.ext /\ v.retry = s.retry
  BY <1>1, <1>4 DEF Formed, Alikes
<1>10. Aims(v)
  BY <1>4, <1>9, AlikeAims
<1>11. Aims(Enqueue(v, "poll"))
  BY <1>4, <1>9, <1>10, EnqueueAims DEF Alikes, Aims
<1> QED
  BY <1>3, <1>7, <1>8, <1>11

\* start begins a generation; the run there still is has its end queued.
LEMMA StartAims ==
  ASSUME IInv, AInv, NEW h \in Hosts, Start(h) \/ Restart(h)
  PROVE  AInv'
<1>1. PICK s, u : /\ s = sup[h]
                  /\ u = [ResetForExplicitStart(BeginGeneration(s))
                            EXCEPT !.desired = "running", !.polling = TRUE]
  OBVIOUS
<1>2. s.up /\ UNCHANGED outlived
  BY <1>1 DEF Start, Restart
<1>3. PICK kind : /\ Set(h, Enqueue(u, kind))
                  /\ \/ kind = "reconcile" /\ ~(s.desired = "running" /\ ~s.fatal)
                     \/ kind = "restart"
  BY <1>1 DEF Start, Restart
<1> SUFFICES ASSUME h \notin outlived PROVE Aims(Enqueue(u, kind))
  BY <1>2, <1>3, SetAims
<1>4. /\ Formed(s) /\ IsSequence(s.queue) /\ (s.at # "entry" => s.queue # <<>>) /\ Booked(s)
  BY <1>1, <1>2, Starting
<1>5. /\ Formed(u) /\ u.gen = s.gen + 1 /\ ~u.fatal /\ u.active = s.active /\ u.runGen = s.runGen
      /\ u.queue = s.queue /\ u.at = s.at /\ u.desired = "running" /\ u.polling
  <2>1. PICK x : x = BeginGeneration(s)
    OBVIOUS
  <2>2. /\ Formed(x) /\ x.gen = s.gen + 1 /\ x.active = s.active /\ x.runGen = s.runGen
        /\ x.queue = s.queue /\ x.at = s.at
    BY <1>4, <2>1 DEF BeginGeneration, Formed
  <2>3. PICK y : y = ResetForExplicitStart(x)
    OBVIOUS
  <2>4. /\ Formed(y) /\ y.gen = s.gen + 1 /\ ~y.fatal /\ y.active = s.active /\ y.runGen = s.runGen
        /\ y.queue = s.queue /\ y.at = s.at
    BY <2>2, <2>3 DEF ResetForExplicitStart, Formed
  <2>5. u = [y EXCEPT !.desired = "running", !.polling = TRUE]
    BY <1>1, <2>1, <2>3
  <2> QED
    BY <2>4, <2>5 DEF Formed
<1>6. s.active # NoWorker /\ kind # "restart" => \E i \in DOMAIN s.queue : s.queue[i].kind \in EndingTasks
  <2> SUFFICES ASSUME s.active # NoWorker, kind # "restart"
               PROVE  s.runGen # s.gen
    BY <1>4 DEF Booked, Runs
  <2>1. ~s.fatal
    BY <1>4 DEF Booked, Runs
  <2> QED
    BY <1>3, <1>4, <2>1 DEF Booked, Runs
<1> QED
  BY <1>3, <1>4, <1>5, <1>6, CommandAims DEF EndingTasks

\* stop wants no run.
LEMMA StopAims ==
  ASSUME IInv, AInv, NEW h \in Hosts, Stop(h)
  PROVE  AInv'
<1>1. PICK s, x, u : /\ s = sup[h] /\ x = StopPolling(BeginGeneration(s))
                     /\ u = [x EXCEPT !.desired = "stopped", !.probeOnly = FALSE, !.fatal = FALSE,
                                      !.retry = 0]
  OBVIOUS
<1>2. s.up /\ UNCHANGED outlived /\ Set(h, Enqueue(u, "stop"))
  BY <1>1 DEF Stop
<1> SUFFICES ASSUME h \notin outlived PROVE Aims(Enqueue(u, "stop"))
  BY <1>2, SetAims
<1>3. Formed(s) /\ IsSequence(s.queue) /\ (s.at # "entry" => s.queue # <<>>) /\ Booked(s)
  BY <1>1, <1>2, Starting
<1>4. /\ Formed(u) /\ u.gen = s.gen + 1 /\ ~u.fatal /\ u.active = s.active /\ u.runGen = s.runGen
      /\ u.queue = s.queue /\ u.at = s.at /\ u.desired = "stopped"
  <2>1. PICK b : b = BeginGeneration(s)
    OBVIOUS
  <2>2. /\ Formed(b) /\ b.gen = s.gen + 1 /\ b.active = s.active /\ b.runGen = s.runGen
        /\ b.queue = s.queue /\ b.at = s.at
    BY <1>3, <2>1 DEF BeginGeneration, Formed
  <2>3. x = b \/ x = [b EXCEPT !.polling = FALSE, !.polled = FALSE]
    BY <1>1, <2>1 DEF StopPolling
  <2>4. /\ Formed(x) /\ x.gen = s.gen + 1 /\ x.active = s.active /\ x.runGen = s.runGen
        /\ x.queue = s.queue /\ x.at = s.at
    BY <2>2, <2>3 DEF Formed
  <2> QED
    BY <1>1, <2>4 DEF Formed
<1> QED
  BY <1>3, <1>4, CommandAims DEF EndingTasks

\* A supervisor that starts to probe wants no run.
LEMMA StartProbingAims ==
  ASSUME IInv, AInv, NEW h \in Hosts, StartProbing(h)
  PROVE  AInv'
<1>1. PICK s, u, v : /\ s = sup[h] /\ u = [s EXCEPT !.probeOnly = TRUE, !.polling = TRUE]
                     /\ v = [u EXCEPT !.polled = TRUE]
  OBVIOUS
<1>2. s.up /\ s.desired = "stopped" /\ UNCHANGED outlived
  BY <1>1 DEF StartProbing
<1>3. PICK t : Set(h, t) /\ (t = u \/ t = Enqueue(v, "poll"))
  BY <1>1 DEF StartProbing, QueuePoll
<1> SUFFICES ASSUME h \notin outlived PROVE Aims(t)
  BY <1>2, <1>3, SetAims
<1>4. /\ Formed(s) /\ IsSequence(s.queue) /\ (s.at # "entry" => s.queue # <<>>)
      /\ Aims(s) /\ Booked(s) /\ Healthy(s)
  BY <1>1, <1>2, Starting
<1>5. /\ Formed(u) /\ u.gen = s.gen /\ u.desired = s.desired /\ u.active = s.active
      /\ u.runGen = s.runGen /\ u.queue = s.queue /\ u.at = s.at /\ u.fatal = s.fatal
  BY <1>1, <1>4 DEF Formed
<1>6. /\ Formed(v) /\ v.gen = s.gen /\ v.desired = s.desired /\ v.active = s.active
      /\ v.runGen = s.runGen /\ v.queue = s.queue /\ v.at = s.at /\ v.fatal = s.fatal
  BY <1>1, <1>5 DEF Formed
<1>7. ASSUME NEW r \in {u, v} PROVE Aims(r) /\ r.queue = s.queue /\ r.at = s.at
  <2>1. /\ r.gen = s.gen /\ r.desired = s.desired /\ r.active = s.active /\ r.runGen = s.runGen
        /\ r.queue = s.queue /\ r.at = s.at /\ r.fatal = s.fatal
    BY <1>5, <1>6, <1>7
  <2>2. Ordered(r) /\ Settling(r)
    BY <1>4, <2>1 DEF Booked, Ordered, Settling
  <2>3. Runs(r) /\ Restarting(r)
    BY <1>4, <2>1 DEF Booked, Runs, Restarting
  <2>4. Polls(r) /\ Healthy(r) /\ ~Wants(r)
    BY <1>2, <1>4, <2>1 DEF Booked, Polls, Healthy, Wants
  <2> QED
    BY <2>1, <2>2, <2>3, <2>4 DEF Booked, Aims
<1>8. Aims(Enqueue(v, "poll"))
  <2>1. Aims(v) /\ v.queue = s.queue /\ v.at = s.at
    BY <1>7
  <2> QED
    BY <1>4, <1>6, <2>1, EnqueueAims DEF Aims
<1> QED
  BY <1>3, <1>7, <1>8

\* The end of a worker is settled once, as that of the run it was.
LEMMA ExitAims ==
  ASSUME IInv, AInv, NEW w \in Workers, Exit(w)
  PROVE  AInv'
<1>1. PICK h, s : h = Host(w) /\ s = sup[h]
  OBVIOUS
<1>2. h \in Hosts /\ w # NoWorker
  BY <1>1, SupervisorAssumption DEF Workers, Host
<1>3. w \in alive /\ UNCHANGED outlived
  BY DEF Exit, EndWorker
<1>4. CASE s.up
  <2>1. PICK x, t : /\ x.kind = "settled" /\ x.worker = w /\ x.gen = s.runGen
                    /\ t = [s EXCEPT !.queue = Append(s.queue, x)]
                    /\ Set(h, t)
    BY <1>1, <1>4 DEF Exit, EndWorker
  <2> SUFFICES ASSUME h \notin outlived PROVE Aims(t)
    BY <1>2, <1>3, <2>1, SetAims
  <2>2. /\ Formed(s) /\ Queued(h, s) /\ Placed(h, s) /\ IsSequence(s.queue)
        /\ (s.at # "entry" => s.queue # <<>>) /\ Aims(s) /\ Booked(s) /\ Healthy(s)
    BY <1>1, <1>2, <1>4, Starting
  <2>3. s.active = w
    BY <1>1, <1>3, <2>2 DEF Placed
  <2>4. s.runGen \in Nat /\ s.runGen <= s.gen
    BY <1>2, <2>2, <2>3 DEF Booked, Runs
  <2>5. \A i \in DOMAIN s.queue : s.queue[i].kind = "settled" => s.queue[i].worker # w
    BY <1>3, <2>2 DEF Queued
  <2>6. /\ x.gen \in Nat /\ x.gen <= s.gen /\ x.kind \notin EndingTasks
        /\ x.kind = "settled" =>
           /\ x.worker = s.active /\ x.gen = s.runGen
           /\ \A i \in DOMAIN s.queue :
                s.queue[i].kind = "settled" => s.queue[i].worker # x.worker
    BY <2>1, <2>3, <2>4, <2>5 DEF EndingTasks
  <2> QED
    BY <2>1, <2>2, <2>6, AppendAims
<1>5. CASE ~s.up
  <2>1. UNCHANGED sup
    BY <1>1, <1>5 DEF Exit, EndWorker
  <2> QED
    BY <1>3, <2>1 DEF AInv
<1> QED
  BY <1>4, <1>5

\* A worker that outlives SIGKILL ends the promise of its host, a host that ends its own.
LEMMA LostAims ==
  ASSUME IInv, AInv, NEW h \in Hosts, ForcedTimeout(h) \/ DaemonEnds(h) \/ Crash(h)
  PROVE  AInv'
<1>1. CASE ForcedTimeout(h)
  <2>1. PICK t : Set(h, t) /\ outlived' = outlived \cup {h}
    BY <1>1 DEF ForcedTimeout
  <2> QED
    BY <2>1, SetAims
<1>2. CASE DaemonEnds(h) \/ Crash(h)
  <2>1. Set(h, Down) /\ ~Down.up /\ UNCHANGED outlived
    BY <1>2 DEF DaemonEnds, Crash, EndHost, Down, Fresh
  <2> QED
    BY <2>1, SetAims
<1> QED
  BY <1>1, <1>2

\* Nothing is wanted at first.
LEMMA InitAInv ==
  Init => AInv
<1> SUFFICES ASSUME Init, NEW h \in Hosts PROVE Aims(Fresh)
  BY DEF Init, AInv
<1>1. PICK s, q : s = Fresh /\ q = s.queue
  OBVIOUS
<1>2. /\ s.gen = 0 /\ s.desired = "stopped" /\ s.active = NoWorker /\ s.at = "entry"
      /\ q = <<>>
  BY <1>1 DEF Fresh
<1>3. DOMAIN q = {}
  BY <1>2
<1>4. Ordered(s) /\ Settling(s) /\ Runs(s) /\ Restarting(s)
  BY <1>1, <1>2, <1>3 DEF Ordered, Settling, Runs, Restarting
<1>5. Polls(s) /\ Healthy(s) /\ ~Wants(s)
  BY <1>2 DEF Polls, Healthy, Wants, ReconcileStages
<1> QED
  BY <1>1, <1>4, <1>5 DEF Booked, Aims

\* Every step keeps what is wanted pursued.
LEMMA StepAInv ==
  IInv /\ AInv /\ [Next]_vars => AInv'
<1> SUFFICES ASSUME IInv, AInv, [Next]_vars PROVE AInv'
  OBVIOUS
<1>1. ASSUME NEW h \in Hosts, Start(h) \/ Restart(h) \/ Stop(h) \/ StartProbing(h)
      PROVE  AInv'
  BY <1>1, StartAims, StopAims, StartProbingAims
<1>2. ASSUME NEW h \in Hosts, Work(h)
      PROVE  AInv'
  BY <1>2, StartReconcileAims, AcquireAims, AcquiredAims, OccupiedAims, ProbeAims, PrepareAims,
     HandleRunSettledAims, DecideAims, TerminateAims, TerminatedAims, PollAims, InspectAims,
     FetchAims, FetchProbeAims DEF Work
<1>3. ASSUME NEW h \in Hosts, Timer(h) \/ DaemonEnds(h) \/ Crash(h)
      PROVE  AInv'
  BY <1>3, TimerAims, TerminateAims, LostAims DEF Timer
<1>4. ASSUME NEW w \in Workers, Serve(w) \/ Exit(w)
      PROVE  AInv'
  <2>1. CASE Serve(w)
    <3>1. UNCHANGED <<sup, outlived>>
      BY <2>1 DEF Serve, budget
    <3> QED
      BY <3>1 DEF AInv
  <2> QED
    BY <1>4, <2>1, ExitAims
<1>5. CASE UNCHANGED vars
  BY <1>5 DEF vars, budget, AInv
<1> QED
  BY <1>1, <1>2, <1>3, <1>4, <1>5 DEF Next

\* No order of commands, exits, retries and polls drops the intent to run; except
\* after a worker outlived SIGKILL.
THEOREM IntentIsPursued == Spec => []WantedIsPursued
<1>1. AInv => WantedIsPursued
  <2> SUFFICES ASSUME AInv, NEW h \in Hosts \ outlived, Wanted(h) PROVE Pursued(h)
    BY DEF WantedIsPursued
  <2>1. Aims(sup[h]) /\ Wants(sup[h])
    BY DEF AInv, Wanted, Wants
  <2>2. Pursues(sup[h])
    BY <2>1 DEF Aims
  <2> QED
    BY <2>2 DEF Pursues, Ready, Pursued
<1>2. Spec => []AInv
  BY InitAInv, StepAInv, SupervisorInvariant, PTL DEF Spec
<1> QED
  BY <1>1, <1>2, PTL
=============================================================================
