-------------------------- MODULE SchedulerProofs --------------------------
(***************************************************************************)
(* Proofs about the delayed flush, for any number of worker threads and    *)
(* any delay: there is one worker at most, it sleeps until the current     *)
(* deadline, and the deadline is the earliest that was asked for.          *)
(***************************************************************************)
EXTENDS Scheduler, FiniteSetTheorems, TLAPS

(* The inductive invariant: the wait of the one worker and the deadline    *)
(* need each other.                                                        *)
SInv ==
    /\ TypeOK
    /\ OneWorker
    /\ SleepsUntilDeadline
    /\ DeadlineIsEarliest

-----------------------------------------------------------------------------
(* What is counted is finite.                                              *)
LEMMA AliveFinite == IsFiniteSet(Alive) /\ Cardinality(Alive) \in Nat
<1>1. Alive \subseteq Worker
  BY DEF Alive
<1>2. IsFiniteSet(Worker)
  BY SchedulerAssumption
<1> QED BY <1>1, <1>2, FS_Subset, FS_CardinalityType

(* A thread that runs is the only one, is counted by worker_running, and   *)
(* no other one is being started.                                          *)
LEMMA TheWorker ==
    ASSUME OneWorker, NEW w \in Worker, phase[w] # "none"
    PROVE  /\ workerRunning = TRUE
           /\ caller # "spawning"
           /\ Cardinality(Alive) = 1
           /\ Alive = {w}
<1>1. w \in Alive
  BY DEF Alive
<1>2. Cardinality(Alive) # 0
  BY <1>1, AliveFinite, FS_EmptySet
<1>3. Cardinality(Alive) = 1 /\ caller # "spawning"
  BY <1>2, AliveFinite DEF OneWorker
<1>4. workerRunning
  BY <1>2, AliveFinite DEF OneWorker
<1>5. Alive = {w}
  <2>1. PICK v : Alive = {v}
    BY <1>3, AliveFinite, FS_Singleton
  <2> QED BY <2>1, <1>1
<1> QED BY <1>3, <1>4, <1>5

-----------------------------------------------------------------------------
(* Each kind of step keeps the types.                                      *)
LEMMA TypeStep == TypeOK /\ [Next]_vars => TypeOK'
<1> SUFFICES ASSUME TypeOK, [Next]_vars PROVE TypeOK'
  OBVIOUS
<1> USE SchedulerAssumption DEF Ticks
<1>1. ASSUME NEW delay \in {0, Delay}, ScheduleFlush(delay) PROVE TypeOK'
  <2>1. delay \in Ticks
    OBVIOUS
  <2>2. Earlier(due, delay) \in Ticks \cup {None}
    BY <2>1 DEF Earlier, TypeOK
  <2>3. NotifyOne => notified' \subseteq Worker
    BY DEF NotifyOne, Waiting, TypeOK
  <2> QED BY <1>1, <2>1, <2>2, <2>3 DEF ScheduleFlush, TypeOK
<1>2. CASE SpawnWorker
  BY <1>2 DEF SpawnWorker, TypeOK, Alive
<1>3. CASE SpawnFails
  BY <1>3 DEF SpawnFails, TypeOK
<1>4. CASE Tick
  <2>1. \A x \in Ticks \cup {None} : Passed(x) \in Ticks \cup {None}
    BY DEF Passed
  <2>2. \A x \in Ticks : Passed(x) \in Ticks
    BY DEF Passed
  <2> QED BY <1>4, <2>1, <2>2 DEF Tick, TypeOK
<1>5. ASSUME NEW w \in Worker, WorkerStep(w) PROVE TypeOK'
  <2>1. CASE WorkerEnds(w)
    BY <2>1 DEF WorkerEnds, FlagAtEnd, TypeOK
  <2>2. CASE WorkerWaits(w)
    BY <2>2 DEF WorkerWaits, TypeOK
  <2>3. CASE WorkerFlushes(w)
    BY <2>3 DEF WorkerFlushes, DeadlineTaken, TypeOK
  <2>4. CASE FlushReturns(w)
    BY <2>4 DEF FlushReturns, TypeOK
  <2>5. CASE WakesUp(w)
    BY <2>5 DEF WakesUp, TypeOK
  <2> QED BY <1>5, <2>1, <2>2, <2>3, <2>4, <2>5 DEF WorkerStep
<1>6. CASE UNCHANGED vars
  BY <1>6 DEF vars, TypeOK
<1> QED BY <1>1, <1>2, <1>3, <1>4, <1>5, <1>6 DEF Next

(* Each kind of step keeps the count of workers.                           *)
LEMMA OneWorkerStep == TypeOK /\ OneWorker /\ [Next]_vars => OneWorker'
<1> SUFFICES ASSUME TypeOK, OneWorker, [Next]_vars PROVE OneWorker'
  OBVIOUS
<1>1. ASSUME NEW delay \in {0, Delay}, ScheduleFlush(delay) PROVE OneWorker'
  <2>1. Alive' = Alive
    BY <1>1 DEF ScheduleFlush, Alive
  <2> QED BY <1>1, <2>1, AliveFinite DEF ScheduleFlush, OneWorker, NeedsWorker, TypeOK
<1>2. CASE SpawnWorker
  <2>1. PICK w \in Worker \ Alive : phase' = [phase EXCEPT ![w] = "loop"]
    BY <1>2 DEF SpawnWorker
  <2>2. Alive' = Alive \cup {w}
    BY <2>1 DEF Alive, TypeOK
  <2>3. Cardinality(Alive') = Cardinality(Alive) + 1
    BY <2>1, <2>2, AliveFinite, FS_AddElement
  <2> QED BY <1>2, <2>3, AliveFinite DEF SpawnWorker, OneWorker
<1>3. CASE SpawnFails
  <2>1. Alive' = Alive
    BY <1>3 DEF SpawnFails, Alive
  <2> QED BY <1>3, <2>1, AliveFinite DEF SpawnFails, OneWorker
<1>4. CASE Tick
  <2>1. Alive' = Alive
    BY <1>4 DEF Tick, Alive
  <2> QED BY <1>4, <2>1 DEF Tick, OneWorker
<1>5. ASSUME NEW w \in Worker, WorkerEnds(w) PROVE OneWorker'
  <2>1. Alive = {w} /\ caller # "spawning"
    BY <1>5, TheWorker DEF WorkerEnds
  <2>2. Alive' = {}
    BY <1>5, <2>1 DEF WorkerEnds, Alive, TypeOK
  <2> QED BY <1>5, <2>1, <2>2, FS_EmptySet DEF WorkerEnds, OneWorker, FlagAtEnd
<1>6. ASSUME NEW w \in Worker,
             WorkerWaits(w) \/ WorkerFlushes(w) \/ FlushReturns(w) \/ WakesUp(w)
      PROVE  OneWorker'
  <2>1. Alive' = Alive
    BY <1>6 DEF WorkerWaits, WorkerFlushes, FlushReturns, WakesUp, Alive, TypeOK
  <2> QED BY <1>6, <2>1 DEF WorkerWaits, WorkerFlushes, FlushReturns, WakesUp, OneWorker
<1>7. CASE UNCHANGED vars
  BY <1>7 DEF vars, OneWorker, Alive
<1> QED BY <1>1, <1>2, <1>3, <1>4, <1>5, <1>6, <1>7 DEF Next, WorkerStep

(* Each kind of step keeps the deadline the earliest one.                  *)
LEMMA EarliestStep == TypeOK /\ DeadlineIsEarliest /\ [Next]_vars => DeadlineIsEarliest'
<1> SUFFICES ASSUME TypeOK, DeadlineIsEarliest, [Next]_vars PROVE DeadlineIsEarliest'
  OBVIOUS
<1>1. ASSUME NEW delay \in {0, Delay}, ScheduleFlush(delay) PROVE DeadlineIsEarliest'
  <2>1. CASE KeepsDeadline(delay)
    BY <1>1, <2>1 DEF ScheduleFlush, KeepsDeadline, Earlier, DeadlineIsEarliest
  <2>2. CASE ~KeepsDeadline(delay)
    BY <1>1, <2>2 DEF ScheduleFlush, KeepsDeadline, Earlier, DeadlineIsEarliest
  <2> QED BY <2>1, <2>2
<1>2. CASE SpawnWorker \/ SpawnFails \/ Tick
  BY <1>2 DEF SpawnWorker, SpawnFails, Tick, DeadlineIsEarliest
<1>3. ASSUME NEW w \in Worker, WorkerStep(w) PROVE DeadlineIsEarliest'
  BY <1>3 DEF WorkerStep, WorkerEnds, WorkerWaits, WorkerFlushes, FlushReturns, WakesUp,
     DeadlineTaken, DeadlineIsEarliest
<1>4. CASE UNCHANGED vars
  BY <1>4 DEF vars, DeadlineIsEarliest
<1> QED BY <1>1, <1>2, <1>3, <1>4 DEF Next

(* Each kind of step keeps a worker from oversleeping: whoever moves the   *)
(* deadline notifies the one worker that waits, and nobody takes a         *)
(* deadline away from another worker.                                      *)
LEMMA SleepsStep ==
    TypeOK /\ OneWorker /\ SleepsUntilDeadline /\ [Next]_vars => SleepsUntilDeadline'
<1> SUFFICES ASSUME TypeOK, OneWorker, SleepsUntilDeadline, [Next]_vars,
                    NEW u \in Worker, phase'[u] = "waiting", u \notin notified'
             PROVE  deadline' # None /\ wakeAt'[u] = deadline'
  BY DEF SleepsUntilDeadline, Waiting
<1>0. u \in Waiting \ notified => deadline # None /\ wakeAt[u] = deadline
  BY DEF SleepsUntilDeadline
<1>1. ASSUME NEW delay \in {0, Delay}, ScheduleFlush(delay)
      PROVE  deadline' # None /\ wakeAt'[u] = deadline'
  <2>1. u \in Waiting /\ u \in Worker
    BY <1>1 DEF ScheduleFlush, Waiting
  <2>2. CASE KeepsDeadline(delay)
    BY <1>1, <1>0, <2>1, <2>2 DEF ScheduleFlush
  <2>3. CASE ~KeepsDeadline(delay)
    <3>1. PICK v \in Waiting : notified' = notified \cup {v}
      BY <1>1, <2>1, <2>3 DEF ScheduleFlush, NotifyOne
    <3>2. Alive = {u} /\ v \in Alive
      BY <2>1, <3>1, TheWorker DEF Waiting, Alive
    <3> QED BY <3>1, <3>2
  <2> QED BY <2>2, <2>3
<1>2. CASE SpawnWorker
  <2>1. u \in Waiting
    BY <1>2 DEF SpawnWorker, Waiting, TypeOK
  <2> QED BY <1>2, <1>0, <2>1 DEF SpawnWorker
<1>3. CASE SpawnFails
  BY <1>3, <1>0 DEF SpawnFails, Waiting
<1>4. CASE Tick
  <2>1. u \in Waiting \ notified
    BY <1>4 DEF Tick, Waiting
  <2>2. deadline \in Nat
    BY <2>1, <1>0, SchedulerAssumption DEF TypeOK, Ticks
  <2>3. Passed(deadline) # None
    BY <2>2, SchedulerAssumption DEF Passed
  <2> QED BY <1>4, <1>0, <2>1, <2>3 DEF Tick
<1>5. ASSUME NEW w \in Worker, WorkerStep(w)
      PROVE  deadline' # None /\ wakeAt'[u] = deadline'
  <2>1. phase[w] # "none"
    BY <1>5 DEF WorkerStep, WorkerEnds, WorkerWaits, WorkerFlushes, FlushReturns, WakesUp
  <2>2. Alive = {w}
    BY <2>1, TheWorker
  <2>3. u # w => phase[u] = "none" /\ phase'[u] = phase[u]
    BY <1>5, <2>2 DEF Alive, WorkerStep, WorkerEnds, WorkerWaits, WorkerFlushes,
       FlushReturns, WakesUp, TypeOK
  <2>4. u = w
    BY <2>3
  <2>5. CASE WorkerWaits(w)
    BY <2>4, <2>5 DEF WorkerWaits, TypeOK
  <2>6. CASE WorkerEnds(w) \/ WorkerFlushes(w) \/ FlushReturns(w) \/ WakesUp(w)
    BY <2>4, <2>6 DEF WorkerEnds, WorkerFlushes, FlushReturns, WakesUp, TypeOK
  <2> QED BY <1>5, <2>5, <2>6 DEF WorkerStep
<1>6. CASE UNCHANGED vars
  BY <1>6, <1>0 DEF vars, Waiting
<1> QED BY <1>1, <1>2, <1>3, <1>4, <1>5, <1>6 DEF Next

(* Nothing is scheduled and nobody works at first.                         *)
LEMMA SchedulerStarts == Init => SInv
<1> SUFFICES ASSUME Init PROVE SInv
  OBVIOUS
<1>1. TypeOK
  <2>1. 0 \in Ticks
    BY SchedulerAssumption DEF Ticks
  <2>2. phase \in [Worker -> {"none", "loop", "waiting", "flushing"}]
        /\ wakeAt \in [Worker -> Ticks]
    BY <2>1 DEF Init
  <2> QED BY <2>2 DEF Init, TypeOK
<1>2. Alive = {} /\ Waiting = {}
  BY DEF Init, Alive, Waiting
<1> QED BY <1>1, <1>2, FS_EmptySet DEF Init, SInv, OneWorker, SleepsUntilDeadline,
           DeadlineIsEarliest

(* The invariant holds in every reachable state.                           *)
LEMMA InvariantHolds == Spec => []SInv
<1>1. SInv /\ [Next]_vars => SInv'
  BY TypeStep, OneWorkerStep, EarliestStep, SleepsStep DEF SInv
<1> QED BY <1>1, SchedulerStarts, PTL DEF Spec

-----------------------------------------------------------------------------
(* Every reachable state of the scheduler is well typed: ticks never run   *)
(* below zero, and only workers are notified.                              *)
THEOREM TypeCorrect == Spec => []TypeOK
<1>1. SInv => TypeOK
  BY DEF SInv
<1> QED BY <1>1, InvariantHolds, PTL

(* worker_running counts the one thread that runs or is being started,     *)
(* also after threads were refused (schedule_flush, run_scheduler).        *)
THEOREM OneWorkerHolds == Spec => []OneWorker
<1>1. SInv => OneWorker
  BY DEF SInv
<1> QED BY <1>1, InvariantHolds, PTL

(* No wake-up is lost: notify_one reaches the one thread that waits, so a  *)
(* worker sleeps until the current deadline or has been woken.             *)
THEOREM SleepsUntilDeadlineHolds == Spec => []SleepsUntilDeadline
<1>1. SInv => SleepsUntilDeadline
  BY DEF SInv
<1> QED BY <1>1, InvariantHolds, PTL

(* The deadline is that of the earliest wish no flush has followed.        *)
THEOREM DeadlineIsEarliestHolds == Spec => []DeadlineIsEarliest
<1>1. SInv => DeadlineIsEarliest
  BY DEF SInv
<1> QED BY <1>1, InvariantHolds, PTL
=============================================================================
