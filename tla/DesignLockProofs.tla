---------------------------- MODULE DesignLockProofs ----------------------------
(***************************************************************************)
(* Proofs about the design lock, for any number of calls and any bounds.   *)
(*                                                                         *)
(* Exclusion needs to know that a call in the critical section whose file  *)
(* nobody took still has it at the path (HolderHasFile).  That no revision *)
(* is lost needs more: a call about to publish still has its file unless   *)
(* it was exposed (PublisherHasFile), and while the file is there nobody   *)
(* moved the design since it was compared (ComparisonHolds).               *)
(***************************************************************************)
EXTENDS DesignLock, TLAPS

HolderHasFile == \A c \in Calls \ robbed : pc[c] \in Critical => lock = c

PublisherHasFile == \A c \in Calls \ exposed : pc[c] = "publish" => lock = c

ComparisonHolds ==
  exposed = {} =>
    \A c \in Calls : pc[c] \in {"assert", "publish"} /\ lock = c => design = base[c]

Protected ==
  HolderHasFile /\ PublisherHasFile /\ ComparisonHolds /\ LossNeedsOpenWindow

IInv == TypeOK /\ Protected

USE LockAssumption

\* Initially nobody has the lock and nothing is lost.
LEMMA InitInv == Init => IInv
  BY DEF Init, IInv, Protected, TypeOK, HolderHasFile, PublisherHasFile, ComparisonHolds,
         LossNeedsOpenWindow, Critical, Stages, Times

\* A step that neither touches the path, the design nor the history, and moves
\* one call to a stage that needs no file, or none it did not need before.
LEMMA QuietStep ==
  ASSUME IInv, NEW c \in Calls, NEW stage \in Stages,
         pc' = [pc EXCEPT ![c] = stage],
         UNCHANGED <<lock, design, history>>,
         stage \in Critical => pc[c] \in Critical,
         stage = "publish" => pc[c] = "assert" /\ lock = c,
         stage = "assert" => design = base'[c],
         \A d \in Calls \ {c} : base'[d] = base[d],
         stage = "publish" => base'[c] = base[c]
  PROVE  Protected'
  <1>. USE DEF IInv, Protected, TypeOK, history
  <1>1. HolderHasFile'
    BY DEF HolderHasFile
  <1>2. PublisherHasFile'
    BY DEF PublisherHasFile
  <1>3. ComparisonHolds'
    BY DEF ComparisonHolds
  <1>4. LossNeedsOpenWindow'
    BY DEF LossNeedsOpenWindow
  <1>. QED BY <1>1, <1>2, <1>3, <1>4

\* The file at the path is removed by a call that leaves the critical section,
\* or is not in it.
LEMMA RemoveStep ==
  ASSUME IInv, NEW c \in Calls, NEW stage \in Stages \ Critical,
         pc' = [pc EXCEPT ![c] = stage], pc[c] # "publish",
         Remove(c), UNCHANGED <<design, base>>
  PROVE  Protected'
  <1>. USE DEF IInv, Protected, TypeOK, Remove
  <1>1. HolderHasFile'
    BY DEF HolderHasFile, Critical
  <1>2. PublisherHasFile'
    BY DEF PublisherHasFile, Critical
  <1>3. ComparisonHolds'
    BY DEF ComparisonHolds
  <1>4. LossNeedsOpenWindow'
    BY DEF LossNeedsOpenWindow
  <1>. QED BY <1>1, <1>2, <1>3, <1>4

\* Every step preserves the types.
LEMMA TypeStep == TypeOK /\ [Next]_vars => TypeOK'
  <1>. SUFFICES ASSUME TypeOK, [Next]_vars PROVE TypeOK'
    OBVIOUS
  <1>. USE DEF TypeOK, Stages, Waiting, Critical, Ended, Times, At, Goto, history, clock
  <1>1. ASSUME NEW c \in Calls, ReadBase(c) PROVE TypeOK'
    BY <1>1 DEF ReadBase
  <1>2. ASSUME NEW c \in Calls, Arrive(c) PROVE TypeOK'
    BY <1>2 DEF Arrive
  <1>3. ASSUME NEW c \in Calls, Acquire(c) PROVE TypeOK'
    <2>1. CASE Create(c) BY <2>1 DEF Create
    <2>2. CASE WriteToken(c) BY <2>2 DEF WriteToken
    <2>3. CASE Stat(c)
      <3>1. CASE lock = NoCall BY <2>3, <3>1 DEF Stat
      <3>2. CASE lock # NoCall
        <4>1. [file |-> lock, at |-> mtime[lock]] \in [file: Calls \cup {NoCall}, at: Times]
          BY <3>2
        <4>2. seen' = [seen EXCEPT ![c] = [file |-> lock, at |-> mtime[lock]]]
          BY <2>3, <3>2 DEF Stat
        <4>3. seen' \in [Calls -> [file: Calls \cup {NoCall}, at: Times]]
          BY <4>1, <4>2
        <4>. QED BY <2>3, <3>2, <4>3 DEF Stat
      <3>. QED BY <3>1, <3>2
    <2>4. CASE Steal(c) BY <2>4 DEF Steal, Remove
    <2>5. CASE CheckDeadline(c) BY <2>5 DEF CheckDeadline
    <2>. QED BY <1>3, <2>1, <2>2, <2>3, <2>4, <2>5 DEF Acquire
  <1>4. ASSUME NEW c \in Calls, Work(c) PROVE TypeOK'
    <2>1. CASE Compare(c) BY <2>1 DEF Compare
    <2>2. CASE AssertHeld(c) BY <2>2 DEF AssertHeld
    <2>3. CASE Publish(c) BY <2>3 DEF Publish
    <2>4. CASE ReadToken(c) BY <2>4 DEF ReadToken
    <2>5. CASE Unlink(c) BY <2>5 DEF Unlink, Remove
    <2>. QED BY <1>4, <2>1, <2>2, <2>3, <2>4, <2>5 DEF Work
  <1>5. ASSUME NEW c \in Calls, Crash(c) PROVE TypeOK'
    BY <1>5 DEF Crash
  <1>6. CASE Tick BY <1>6 DEF Tick
  <1>7. CASE UNCHANGED vars BY <1>7 DEF vars
  <1>. QED BY <1>1, <1>2, <1>3, <1>4, <1>5, <1>6, <1>7 DEF Next

\* Every step preserves the invariant.
LEMMA StepInv == IInv /\ [Next]_vars => IInv'
  <1>. SUFFICES ASSUME IInv, [Next]_vars PROVE IInv'
    OBVIOUS
  <1>0. TypeOK /\ TypeOK'
    BY TypeStep DEF IInv
  <1>1. ASSUME NEW c \in Calls, ReadBase(c) PROVE Protected'
    BY <1>0, <1>1, QuietStep DEF ReadBase, At, Goto, TypeOK, Stages, Critical
  <1>2. ASSUME NEW c \in Calls, Arrive(c) PROVE Protected'
    BY <1>0, <1>2, QuietStep DEF Arrive, At, Goto, Stages, Waiting, Critical
  <1>3. ASSUME NEW c \in Calls, Create(c) PROVE Protected'
    <2>1. CASE lock = NoCall
      <3>. USE <1>0, <1>3, <2>1 DEF Create, IInv, Protected, TypeOK, At, Goto, history
      <3>1. pc' = [pc EXCEPT ![c] = "token"] /\ lock' = c
        OBVIOUS
      <3>2. HolderHasFile' BY <3>1 DEF HolderHasFile, Critical
      <3>3. PublisherHasFile' BY <3>1 DEF PublisherHasFile
      <3>4. ComparisonHolds' BY <3>1 DEF ComparisonHolds
      <3>5. LossNeedsOpenWindow' BY DEF LossNeedsOpenWindow
      <3>. QED BY <3>2, <3>3, <3>4, <3>5 DEF Protected
    <2>2. CASE lock # NoCall
      BY <1>0, <1>3, <2>2, QuietStep DEF Create, At, Goto, Stages, Waiting, Critical
    <2>. QED BY <2>1, <2>2
  <1>4. ASSUME NEW c \in Calls, WriteToken(c) PROVE Protected'
    BY <1>0, <1>4, QuietStep DEF WriteToken, At, Goto, Stages, Critical
  <1>5. ASSUME NEW c \in Calls, Stat(c) PROVE Protected'
    <2>1. PICK stage \in {"deadline", "rename"} : pc' = [pc EXCEPT ![c] = stage]
      BY <1>5 DEF Stat, Goto
    <2>. QED BY <1>0, <1>5, <2>1, QuietStep DEF Stat, Stages, Waiting, Critical
  <1>6. ASSUME NEW c \in Calls, Steal(c) PROVE Protected'
    <2>1. CASE now - seen[c].at >= Stale
      BY <1>0, <1>6, <2>1, RemoveStep DEF Steal, At, Goto, Stages, Waiting, Critical
    <2>2. CASE ~(now - seen[c].at >= Stale)
      BY <1>0, <1>6, <2>2, QuietStep DEF Steal, At, Goto, Stages, Waiting, Critical
    <2>. QED BY <2>1, <2>2
  <1>7. ASSUME NEW c \in Calls, CheckDeadline(c) PROVE Protected'
    <2>1. PICK stage \in {"busy", "create"} : pc' = [pc EXCEPT ![c] = stage]
      BY <1>7 DEF CheckDeadline, Goto
    <2>. QED BY <1>0, <1>7, <2>1, QuietStep DEF CheckDeadline, Stages, Waiting, Ended, Critical
  <1>8. ASSUME NEW c \in Calls, Compare(c) PROVE Protected'
    <2>1. CASE design = base[c]
      BY <1>0, <1>8, <2>1, QuietStep DEF Compare, At, Goto, Stages, Critical
    <2>2. CASE design # base[c]
      BY <1>0, <1>8, <2>2, QuietStep DEF Compare, At, Goto, Stages, Critical
    <2>. QED BY <2>1, <2>2
  <1>9. ASSUME NEW c \in Calls, AssertHeld(c) PROVE Protected'
    <2>1. CASE lock = c
      <3>1. pc' = [pc EXCEPT ![c] = "publish"] /\ pc[c] = "assert"
        BY <1>9, <2>1 DEF AssertHeld, HoldsToken, At, Goto
      <3>. QED BY <1>0, <1>9, <2>1, <3>1, QuietStep DEF AssertHeld, HoldsToken, At, Goto, Stages, Critical
    <2>2. CASE lock # c
      BY <1>0, <1>9, <2>2, QuietStep DEF AssertHeld, HoldsToken, At, Goto, Stages, Critical
    <2>. QED BY <2>1, <2>2
  <1>10. ASSUME NEW c \in Calls, Publish(c) PROVE Protected'
    <2>. USE <1>0, <1>10 DEF Publish, IInv, Protected, TypeOK, At, Goto
    <2>1. pc' = [pc EXCEPT ![c] = "release"] /\ UNCHANGED <<lock, base, robbed, exposed>>
      OBVIOUS
    <2>2. exposed = {} => lock = c /\ design = base[c]
      BY DEF PublisherHasFile, ComparisonHolds
    <2>3. HolderHasFile' BY <2>1 DEF HolderHasFile, Critical
    <2>4. PublisherHasFile' BY <2>1 DEF PublisherHasFile
    <2>5. ComparisonHolds' BY <2>1, <2>2 DEF ComparisonHolds
    <2>6. LossNeedsOpenWindow' BY <2>1, <2>2 DEF LossNeedsOpenWindow
    <2>. QED BY <2>3, <2>4, <2>5, <2>6 DEF Protected
  <1>11. ASSUME NEW c \in Calls, ReadToken(c) PROVE Protected'
    <2>1. PICK stage \in {"unlink", "done"} : pc' = [pc EXCEPT ![c] = stage]
      BY <1>11 DEF ReadToken, Goto
    <2>. QED BY <1>0, <1>11, <2>1, QuietStep DEF ReadToken, At, Stages, Ended, Critical
  <1>12. ASSUME NEW c \in Calls, Unlink(c) PROVE Protected'
    BY <1>0, <1>12, RemoveStep DEF Unlink, At, Goto, Stages, Ended, Critical
  <1>13. ASSUME NEW c \in Calls, Crash(c) PROVE Protected'
    BY <1>0, <1>13, QuietStep DEF Crash, At, Goto, Stages, Ended, Critical
  <1>14. ASSUME Tick \/ UNCHANGED vars PROVE Protected'
    <2>1. UNCHANGED <<lock, design, pc, base, robbed, exposed, lost>>
      BY <1>14 DEF Tick, vars, history
    <2>2. HolderHasFile' BY <2>1 DEF IInv, Protected, HolderHasFile
    <2>3. PublisherHasFile' BY <2>1 DEF IInv, Protected, PublisherHasFile
    <2>4. ComparisonHolds' BY <2>1 DEF IInv, Protected, ComparisonHolds
    <2>5. LossNeedsOpenWindow' BY <2>1 DEF IInv, Protected, LossNeedsOpenWindow
    <2>. QED BY <2>2, <2>3, <2>4, <2>5 DEF Protected
  <1>15. ASSUME NEW c \in Calls, Acquire(c) \/ Work(c) PROVE Protected'
    BY <1>3, <1>4, <1>5, <1>6, <1>7, <1>8, <1>9, <1>10, <1>11, <1>12, <1>15
       DEF Acquire, Work
  <1>16. Protected'
    BY <1>1, <1>2, <1>13, <1>14, <1>15 DEF Next
  <1>. QED BY <1>0, <1>16 DEF IInv

\* The inductive invariant holds in every reachable state.
THEOREM LockInvariant == Spec => []IInv
  BY InitInv, StepInv, PTL DEF Spec

\* The variables of the lock, the design and the calls keep their types.
THEOREM LockTypes == Spec => []TypeOK
  <1>1. IInv => TypeOK BY DEF IInv
  <1>. QED BY <1>1, LockInvariant, PTL

\* lock.ts serializes its holders: of two calls in the critical section, one had
\* its lock file taken away.
THEOREM LockExclusion == Spec => []Exclusion
  <1>1. IInv => Exclusion BY DEF IInv, Protected, HolderHasFile, Exclusion
  <1>. QED BY <1>1, LockInvariant, PTL

\* The compare-and-swap of designOperation: a revision is overwritten unseen
\* only after a lock was taken between assertHeld and the publishing rename.
THEOREM NoRevisionLost == Spec => []LossNeedsOpenWindow
  <1>1. IInv => LossNeedsOpenWindow BY DEF IInv, Protected
  <1>. QED BY <1>1, LockInvariant, PTL

\* While the clock is young no lock file is taken: lstat cannot have found an
\* old one, and a holder that releases still has its own at the path.
Young == now < Stale => robbed = {}

LEMMA YoungStep == IInv /\ Young /\ [Next]_vars => Young'
  <1>. SUFFICES ASSUME IInv, Young, [Next]_vars, now' < Stale PROVE robbed' = {}
    BY DEF Young
  <1>0. now \in Nat /\ now' \in Nat /\ now <= now'
    <2>1. now \in Times /\ now' \in Times
      BY TypeStep DEF IInv, TypeOK
    <2>2. now' = now \/ now' = now + 1
      BY DEF Next, ReadBase, Arrive, Acquire, Create, WriteToken, Stat, Steal, CheckDeadline,
             Work, Compare, AssertHeld, Publish, ReadToken, Unlink, Crash, Tick, vars, clock
    <2>. QED BY <2>1, <2>2 DEF Times
  <1>1. robbed = {} /\ now < Stale
    BY <1>0 DEF Young
  <1>2. ASSUME NEW c \in Calls, Steal(c) PROVE robbed' = {}
    <2>1. ~(now - seen[c].at >= Stale)
      BY <1>0, <1>1 DEF IInv, TypeOK, Times
    <2>. QED BY <1>1, <1>2, <2>1 DEF Steal, history
  <1>3. ASSUME NEW c \in Calls, Unlink(c) PROVE robbed' = {}
    <2>1. lock = c
      BY <1>1, <1>3 DEF IInv, Protected, HolderHasFile, Critical, Unlink, At
    <2>. QED BY <1>1, <1>3, <2>1 DEF Unlink, Remove
  <1>4. ASSUME NEW c \in Calls, ReadBase(c) \/ Arrive(c) \/ Crash(c) PROVE robbed' = {}
    BY <1>1, <1>4 DEF ReadBase, Arrive, Crash, history
  <1>5. ASSUME NEW c \in Calls, Acquire(c) PROVE robbed' = {}
    BY <1>1, <1>2, <1>5 DEF Acquire, Create, WriteToken, Stat, CheckDeadline, history
  <1>6. ASSUME NEW c \in Calls, Work(c) PROVE robbed' = {}
    BY <1>1, <1>3, <1>6 DEF Work, Compare, AssertHeld, Publish, ReadToken, history
  <1>7. ASSUME Tick \/ UNCHANGED vars PROVE robbed' = {}
    BY <1>1, <1>7 DEF Tick, vars, history
  <1>. QED BY <1>4, <1>5, <1>6, <1>7 DEF Next

\* DESIGN_LOCK_STALE_MS: before the clock reaches it no lock is taken and no
\* save is lost, however holders and waiters interleave, crash and release.
THEOREM YoungLocksSafe == Spec => []SafeWhileYoung
  <1>1. Init => Young
    BY DEF Init, Young
  <1>2. IInv /\ Young => SafeWhileYoung
    BY DEF IInv, TypeOK, Protected, LossNeedsOpenWindow, Young, SafeWhileYoung
  <1>. QED BY <1>1, <1>2, YoungStep, LockInvariant, PTL DEF Spec
=============================================================================
