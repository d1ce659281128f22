--------------------------- MODULE FtlLockProofs ---------------------------
(***************************************************************************)
(* The locking of ftl.c for any number of tasks.                           *)
(***************************************************************************)
EXTENDS FtlLock, TLAPS

\* A task stands only where its call goes.
JobOK ==
    \A t \in Task :
        /\ at[t] \in {"write", "writing"} => job[t] = "save"
        /\ at[t] \in {"collect", "collecting", "copying"} =>
               job[t] \in {"save", "collect"}

\* How much more than its calls give back a task may hold.
Slack == IF leaked THEN MaxLeaks ELSE 0

\* ftl_sem is held by the task whose calls have taken it, at least as often as
\* they give it back.
HoldOK ==
    /\ sem = NoTask => depth = 0
    /\ \A t \in Task :
          IF sem = t
          THEN depth >= 1 /\ Taken(t) <= depth /\ depth <= Taken(t) + Slack
          ELSE Taken(t) = 0

IInv == TypeOK /\ JobOK /\ HoldOK

LEMMA TakenType == \A t \in Task : Taken(t) \in 0 .. 3
  BY DEF Taken

LEMMA SlackType == Slack \in Nat /\ Slack <= MaxLeaks
  BY LockAssumption DEF Slack

LEMMA LockInit == Init => IInv
  <1> SUFFICES ASSUME Init PROVE IInv
    OBVIOUS
  <1>1. 0 \in 0 .. 3 + MaxLeaks
    BY LockAssumption
  <1>2. TypeOK
    BY <1>1 DEF Init, TypeOK
  <1>3. JobOK
    BY DEF Init, JobOK
  <1>4. \A t \in Task : Taken(t) = 0
    <2> SUFFICES ASSUME NEW t \in Task PROVE Taken(t) = 0
      OBVIOUS
    <2>1. at[t] = "out" /\ job[t] = "none"
      BY DEF Init
    <2> QED BY <2>1 DEF Taken, Inside
  <1>5. HoldOK
    BY <1>4, LockAssumption DEF Init, HoldOK
  <1> QED BY <1>2, <1>3, <1>5 DEF IInv

\* A step of task t changes only what task t has taken.
LEMMA Others ==
    ASSUME NEW t \in Task, NEW u \in Task, u # t, TypeOK, NEW l, NEW j,
           at' = [at EXCEPT ![t] = l], job' = [job EXCEPT ![t] = j]
    PROVE  Taken(u)' = Taken(u) /\ at'[u] = at[u] /\ job'[u] = job[u]
  BY DEF TypeOK, Taken

\* The steps that neither take nor give ftl_sem.
LEMMA KeepHold ==
    ASSUME IInv, NEW t \in Task, UNCHANGED <<sem, depth, leaked>>,
           \A u \in Task : Taken(u)' = Taken(u)
    PROVE  HoldOK'
  BY DEF IInv, HoldOK, Slack

\* The steps that take it, and are then inside one more call that gives it back.
LEMMA TakeHold ==
    ASSUME IInv, NEW t \in Task, TakeSem(t), leaked' = leaked,
           Taken(t)' = Taken(t) + 1,
           \A u \in Task : u # t => Taken(u)' = Taken(u)
    PROVE  HoldOK' /\ depth' \in 0 .. 3 + MaxLeaks /\ sem' = t
  <1>1. /\ Taken(t) \in 0 .. 3 /\ Taken(t)' \in 0 .. 3 /\ depth \in Nat
        /\ Slack \in Nat /\ Slack <= MaxLeaks /\ MaxLeaks \in Nat /\ t # NoTask
    BY TakenType, SlackType, LockAssumption DEF IInv, TypeOK, Taken
  <1>2. sem = t \/ (sem = NoTask /\ depth = 0 /\ Taken(t) = 0)
    BY <1>1 DEF TakeSem, SemFree, IInv, HoldOK
  <1>3. /\ sem' = t /\ depth' = depth + 1
        /\ depth' >= 1 /\ Taken(t)' <= depth' /\ depth' <= Taken(t)' + Slack
    BY <1>1, <1>2 DEF TakeSem, IInv, HoldOK
  <1>4. \A u \in Task : u # t => Taken(u)' = 0
    BY <1>2 DEF IInv, HoldOK
  <1>5. Slack' = Slack
    BY DEF Slack
  <1> QED BY <1>1, <1>3, <1>4, <1>5 DEF HoldOK

\* The steps that give it back, and are then inside one call less.
LEMMA GiveHold ==
    ASSUME IInv, NEW t \in Task, GiveSem(t), leaked' = leaked,
           Taken(t)' = Taken(t) - 1,
           \A u \in Task : u # t => Taken(u)' = Taken(u)
    PROVE  HoldOK' /\ depth' \in 0 .. 3 + MaxLeaks /\ sem' \in {t, NoTask}
  <1>1. /\ Taken(t) \in 0 .. 3 /\ Taken(t)' \in 0 .. 3 /\ depth \in Nat
        /\ Slack \in Nat /\ Slack <= MaxLeaks /\ MaxLeaks \in Nat /\ t # NoTask
    BY TakenType, SlackType, LockAssumption DEF IInv, TypeOK, Taken
  <1>2. sem = t /\ depth >= 1 /\ Taken(t) <= depth /\ depth <= Taken(t) + Slack
    BY DEF GiveSem, IInv, HoldOK
  <1>3. /\ depth' = depth - 1 /\ sem' = IF depth = 1 THEN NoTask ELSE t
        /\ Taken(t)' <= depth' /\ depth' <= Taken(t)' + Slack
    BY <1>1, <1>2 DEF GiveSem
  <1>4. \A u \in Task : u # t => Taken(u)' = 0
    BY <1>2 DEF IInv, HoldOK
  <1>5. Slack' = Slack
    BY DEF Slack
  <1>6. CASE depth = 1
    <2>1. Taken(t)' = 0
      BY <1>1, <1>3, <1>6
    <2>2. sem' = NoTask /\ depth' = 0 /\ NoTask \notin Task
      BY <1>3, <1>6, LockAssumption
    <2>3. \A u \in Task : Taken(u)' = 0
      <3> SUFFICES ASSUME NEW u \in Task PROVE Taken(u)' = 0
        OBVIOUS
      <3>1. CASE u = t
        BY <2>1, <3>1
      <3>2. CASE u # t
        BY <1>4, <3>2
      <3> QED BY <3>1, <3>2
    <2> QED BY <1>1, <2>2, <2>3 DEF HoldOK
  <1>7. CASE depth # 1
    BY <1>1, <1>2, <1>3, <1>4, <1>5, <1>7 DEF HoldOK
  <1> QED BY <1>6, <1>7

\* A failing write returns without giving it back.
LEMMA LeakHold ==
    ASSUME IInv, NEW t \in Task, Leak(t), UNCHANGED <<sem, depth>>,
           Taken(t) >= 1, Taken(t)' = Taken(t) - 1,
           \A u \in Task : u # t => Taken(u)' = Taken(u)
    PROVE  HoldOK'
  <1>1. /\ Taken(t) \in 0 .. 3 /\ Taken(t)' \in 0 .. 3 /\ depth \in Nat
        /\ Slack' = MaxLeaks /\ MaxLeaks \in Nat
    BY TakenType, LockAssumption DEF IInv, TypeOK, Taken, Slack, Leak
  <1>2. sem = t /\ depth >= 1 /\ Taken(t) <= depth
    BY <1>1 DEF IInv, HoldOK
  <1>3. Taken(t)' <= depth' /\ depth' <= Taken(t)' + Slack'
    BY <1>1, <1>2 DEF Leak
  <1>4. \A u \in Task : u # t => Taken(u)' = 0
    BY <1>2 DEF IInv, HoldOK
  <1> QED BY <1>1, <1>2, <1>3, <1>4, LockAssumption DEF HoldOK

LEMMA CallLock ==
    ASSUME IInv, NEW t \in Task, Call(t) PROVE IInv'
  <1> USE DEF Call, Goto, IInv
  <1>1. \A u \in Task : u # t => Taken(u)' = Taken(u)
    BY DEF TypeOK, Taken
  <1>2. Taken(t)' = Taken(t)
    BY DEF TypeOK, JobOK, Taken, Inside
  <1>3. JobOK'
    BY DEF TypeOK, JobOK
  <1>4. HoldOK'
    BY <1>1, <1>2, KeepHold
  <1>5. TypeOK'
    BY LockAssumption DEF TypeOK, Inside
  <1> QED BY <1>3, <1>4, <1>5

LEMMA LockLock ==
    ASSUME IInv, NEW t \in Task, Lock(t) PROVE IInv'
  <1> USE DEF Lock, Goto, IInv
  <1>1. \A u \in Task : u # t => Taken(u)' = Taken(u)
    BY DEF TypeOK, Taken
  <1>2. Taken(t)' = Taken(t)
    BY DEF TypeOK, JobOK, Taken, Inside
  <1>3. JobOK'
    BY DEF TypeOK, JobOK
  <1>4. HoldOK'
    BY <1>1, <1>2, KeepHold
  <1>5. TypeOK'
    BY LockAssumption DEF TypeOK, Inside
  <1> QED BY <1>3, <1>4, <1>5

LEMMA TimeoutLock ==
    ASSUME IInv, NEW t \in Task, Timeout(t) PROVE IInv'
  <1> USE DEF Timeout, Goto, IInv
  <1>1. \A u \in Task : u # t => Taken(u)' = Taken(u)
    BY DEF TypeOK, Taken
  <1>2. Taken(t)' = Taken(t)
    BY DEF TypeOK, JobOK, Taken, Inside
  <1>3. JobOK'
    BY DEF TypeOK, JobOK
  <1>4. HoldOK'
    BY <1>1, <1>2, KeepHold
  <1>5. TypeOK'
    BY LockAssumption DEF TypeOK, Inside
  <1> QED BY <1>3, <1>4, <1>5

LEMMA UnlockLock ==
    ASSUME IInv, NEW t \in Task, Unlock(t) PROVE IInv'
  <1> USE DEF Unlock, Goto, IInv
  <1>1. \A u \in Task : u # t => Taken(u)' = Taken(u)
    BY DEF TypeOK, Taken
  <1>2. Taken(t)' = Taken(t)
    BY DEF TypeOK, JobOK, Taken, Inside
  <1>3. JobOK'
    BY DEF TypeOK, JobOK
  <1>4. HoldOK'
    BY <1>1, <1>2, KeepHold
  <1>5. TypeOK'
    BY LockAssumption DEF TypeOK, Inside
  <1> QED BY <1>3, <1>4, <1>5

LEMMA WriteLock ==
    ASSUME IInv, NEW t \in Task, Write(t) PROVE IInv'
  <1> USE DEF Write, Goto, IInv
  <1>1. \A u \in Task : u # t => Taken(u)' = Taken(u)
    BY DEF TypeOK, Taken
  <1>2. Taken(t)' = Taken(t) + 1
    BY DEF TypeOK, JobOK, Taken, Inside
  <1>3. JobOK'
    BY DEF TypeOK, JobOK
  <1>4. TakeSem(t)
    OBVIOUS
  <1>5. HoldOK' /\ depth' \in 0 .. 3 + MaxLeaks /\ sem' \in {t, NoTask}
    BY <1>1, <1>2, <1>4, TakeHold
  <1>6. TypeOK'
    BY <1>5 DEF TypeOK, Inside
  <1> QED BY <1>3, <1>5, <1>6

LEMMA WrittenLock ==
    ASSUME IInv, NEW t \in Task, Written(t) PROVE IInv'
  <1> USE DEF Written, Goto, IInv
  <1>1. \A u \in Task : u # t => Taken(u)' = Taken(u)
    BY DEF TypeOK, Taken
  <1>2. Taken(t)' = Taken(t) - 1
    BY DEF TypeOK, JobOK, Taken, Inside
  <1>3. JobOK'
    BY DEF TypeOK, JobOK
  <1>4. GiveSem(t)
    OBVIOUS
  <1>5. HoldOK' /\ depth' \in 0 .. 3 + MaxLeaks /\ sem' \in {t, NoTask}
    BY <1>1, <1>2, <1>4, GiveHold
  <1>6. TypeOK'
    BY <1>5 DEF TypeOK, Inside
  <1> QED BY <1>3, <1>5, <1>6

LEMMA RolloverLock ==
    ASSUME IInv, NEW t \in Task, Rollover(t) PROVE IInv'
  <1> USE DEF Rollover, Goto, IInv
  <1>1. \A u \in Task : u # t => Taken(u)' = Taken(u)
    BY DEF TypeOK, Taken
  <1>2. Taken(t)' = Taken(t)
    BY DEF TypeOK, JobOK, Taken, Inside
  <1>3. JobOK'
    BY DEF TypeOK, JobOK
  <1>4. HoldOK'
    BY <1>1, <1>2, KeepHold
  <1>5. TypeOK'
    BY LockAssumption DEF TypeOK, Inside
  <1> QED BY <1>3, <1>4, <1>5

LEMMA WriteFailsLock ==
    ASSUME IInv, NEW t \in Task, WriteFails(t) PROVE IInv'
  <1> USE DEF WriteFails, Leak, Goto, IInv
  <1>1. \A u \in Task : u # t => Taken(u)' = Taken(u)
    BY DEF TypeOK, Taken
  <1>2. Taken(t) >= 1 /\ Taken(t)' = Taken(t) - 1
    BY DEF TypeOK, JobOK, Taken, Inside
  <1>3. JobOK'
    BY DEF TypeOK, JobOK
  <1>4. HoldOK'
    BY <1>1, <1>2, LeakHold
  <1>5. TypeOK'
    BY LockAssumption DEF TypeOK, Inside
  <1> QED BY <1>3, <1>4, <1>5

LEMMA CollectLock ==
    ASSUME IInv, NEW t \in Task, Collect(t) PROVE IInv'
  <1> USE DEF Collect, Goto, IInv
  <1>1. \A u \in Task : u # t => Taken(u)' = Taken(u)
    BY DEF TypeOK, Taken
  <1>2. Taken(t)' = Taken(t) + 1
    BY DEF TypeOK, JobOK, Taken, Inside
  <1>3. JobOK'
    BY DEF TypeOK, JobOK
  <1>4. TakeSem(t)
    OBVIOUS
  <1>5. HoldOK' /\ depth' \in 0 .. 3 + MaxLeaks /\ sem' \in {t, NoTask}
    BY <1>1, <1>2, <1>4, TakeHold
  <1>6. TypeOK'
    BY <1>5 DEF TypeOK, Inside
  <1> QED BY <1>3, <1>5, <1>6

LEMMA CopyLock ==
    ASSUME IInv, NEW t \in Task, Copy(t) PROVE IInv'
  <1> USE DEF Copy, Goto, IInv
  <1>1. \A u \in Task : u # t => Taken(u)' = Taken(u)
    BY DEF TypeOK, Taken
  <1>2. Taken(t)' = Taken(t) + 1
    BY DEF TypeOK, JobOK, Taken, Inside
  <1>3. JobOK'
    BY DEF TypeOK, JobOK
  <1>4. TakeSem(t)
    OBVIOUS
  <1>5. HoldOK' /\ depth' \in 0 .. 3 + MaxLeaks /\ sem' \in {t, NoTask}
    BY <1>1, <1>2, <1>4, TakeHold
  <1>6. TypeOK'
    BY <1>5 DEF TypeOK, Inside
  <1> QED BY <1>3, <1>5, <1>6

LEMMA CopiedLock ==
    ASSUME IInv, NEW t \in Task, Copied(t) PROVE IInv'
  <1> USE DEF Copied, Goto, IInv
  <1>1. \A u \in Task : u # t => Taken(u)' = Taken(u)
    BY DEF TypeOK, Taken
  <1>2. Taken(t)' = Taken(t) - 1
    BY DEF TypeOK, JobOK, Taken, Inside
  <1>3. JobOK'
    BY DEF TypeOK, JobOK
  <1>4. GiveSem(t)
    OBVIOUS
  <1>5. HoldOK' /\ depth' \in 0 .. 3 + MaxLeaks /\ sem' \in {t, NoTask}
    BY <1>1, <1>2, <1>4, GiveHold
  <1>6. TypeOK'
    BY <1>5 DEF TypeOK, Inside
  <1> QED BY <1>3, <1>5, <1>6

LEMMA CopyFailsLock ==
    ASSUME IInv, NEW t \in Task, CopyFails(t) PROVE IInv'
  <1> USE DEF CopyFails, Leak, Goto, IInv
  <1>1. \A u \in Task : u # t => Taken(u)' = Taken(u)
    BY DEF TypeOK, Taken
  <1>2. Taken(t) >= 1 /\ Taken(t)' = Taken(t) - 1
    BY DEF TypeOK, JobOK, Taken, Inside
  <1>3. JobOK'
    BY DEF TypeOK, JobOK
  <1>4. HoldOK'
    BY <1>1, <1>2, LeakHold
  <1>5. TypeOK'
    BY LockAssumption DEF TypeOK, Inside
  <1> QED BY <1>3, <1>4, <1>5

LEMMA CollectedLock ==
    ASSUME IInv, NEW t \in Task, Collected(t) PROVE IInv'
  <1> USE DEF Collected, Goto, IInv
  <1>1. \A u \in Task : u # t => Taken(u)' = Taken(u)
    BY DEF TypeOK, Taken
  <1>2. Taken(t)' = Taken(t) - 1
    BY DEF TypeOK, JobOK, Taken, Inside
  <1>3. JobOK'
    BY DEF TypeOK, JobOK
  <1>4. GiveSem(t)
    OBVIOUS
  <1>5. HoldOK' /\ depth' \in 0 .. 3 + MaxLeaks /\ sem' \in {t, NoTask}
    BY <1>1, <1>2, <1>4, GiveHold
  <1>6. TypeOK'
    BY <1>5 DEF TypeOK, Inside
  <1> QED BY <1>3, <1>5, <1>6

LEMMA LockNext == ASSUME IInv, [Next]_vars PROVE IInv'
  <1>1. CASE UNCHANGED vars
    BY <1>1 DEF vars, IInv, TypeOK, JobOK, HoldOK, Taken, Slack, Inside
  <1> QED
    BY <1>1, CallLock, LockLock, TimeoutLock, UnlockLock, WriteLock, WrittenLock,
       RolloverLock, WriteFailsLock, CollectLock, CopyLock, CopiedLock,
       CopyFailsLock, CollectedLock
    DEF Next

LEMMA LockInvariant == Spec => []IInv
  BY LockInit, LockNext, PTL DEF Spec

\* For any number of tasks ftl_sem is taken at most three deep by the calls under
\* way, by a save, by the collection in it and by the write of a record that it
\* copies, and once more for each format that has failed.
THEOREM TypeCorrect == Spec => []TypeOK
  <1>1. IInv => TypeOK
    BY DEF IInv
  <1> QED BY <1>1, LockInvariant, PTL

\* However many tasks save, load and collect, with and without ftl_mutex_lock,
\* only one is ever at the log, failing formats included: a task that leaves
\* ftl_sem taken keeps the others out rather than letting them in.
THEOREM OneWriterCorrect == Spec => []OneWriter
  <1>1. IInv => OneWriter
    <2> SUFFICES ASSUME IInv, NEW t \in Task, NEW u \in Task,
                        at[t] \in Inside, at[u] \in Inside
                 PROVE  t = u
      BY DEF OneWriter
    <2>1. Taken(t) # 0 /\ Taken(u) # 0
      BY DEF Taken
    <2>2. sem = t /\ sem = u
      BY <2>1 DEF IInv, HoldOK
    <2> QED BY <2>2
  <1> QED BY <1>1, LockInvariant, PTL

\* Until a format fails, ftl_sem is given back as often as it is taken, through
\* all the nesting of a save that collects and copies.
THEOREM SemBalancedCorrect == Spec => []SemBalanced
  <1>1. IInv => SemBalanced
    <2> SUFFICES ASSUME IInv, ~leaked, NEW t \in Task
                 PROVE  Taken(t) = IF sem = t THEN depth ELSE 0
      BY DEF SemBalanced, IInv, HoldOK
    <2>1. Slack = 0 /\ Taken(t) \in 0 .. 3 /\ depth \in Nat
      BY TakenType, LockAssumption DEF Slack, IInv, TypeOK
    <2> QED BY <2>1 DEF IInv, HoldOK
  <1> QED BY <1>1, LockInvariant, PTL
=============================================================================
