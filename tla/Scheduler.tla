----------------------------- MODULE Scheduler -----------------------------
(***************************************************************************)
(* The delayed flush of one account: Scheduler, schedule_flush and         *)
(* run_scheduler of rust-core/src/sync.rs.                                 *)
(*                                                                         *)
(* A local operation commits its wish and then asks for a flush, at once   *)
(* or (automatic reads) after a delay, all of it while it holds the store  *)
(* lock.  One worker thread sleeps until the deadline on a condition       *)
(* variable, takes the deadline away, flushes and looks again; without a   *)
(* deadline it ends.  Time is counted in ticks; a thread that can run does *)
(* so within a tick, only flushing takes longer.                           *)
(***************************************************************************)
EXTENDS Integers, FiniteSets

CONSTANTS
    Worker,         \* bound: the threads there can be
    Delay,          \* AUTOMATIC_FLUSH_DELAY in ticks
    None,
    SpawnMayFail    \* whether the system may refuse a new thread

ASSUME SchedulerAssumption ==
    /\ IsFiniteSet(Worker)
    /\ Delay \in Nat \ {0}
    /\ None \notin Nat
    /\ SpawnMayFail \in BOOLEAN

VARIABLES
    deadline,       \* SchedulerState.deadline: ticks from now, or None
    workerRunning,  \* SchedulerState.worker_running
    caller,         \* "spawning" between setting worker_running and spawn
    phase,          \* where a worker thread is in run_scheduler
    wakeAt,         \* the timeout of a worker's wait, in ticks from now
    notified,       \* workers woken by notify_one
    due             \* history: when the earliest wish that no flush has
                    \* started after is to be flushed, or None

vars == <<deadline, workerRunning, caller, phase, wakeAt, notified, due>>

Ticks == 0 .. Delay

TypeOK ==
    /\ deadline \in Ticks \cup {None}
    /\ workerRunning \in BOOLEAN
    /\ caller \in {"idle", "spawning"}
    /\ phase \in [Worker -> {"none", "loop", "waiting", "flushing"}]
    /\ wakeAt \in [Worker -> Ticks]
    /\ notified \subseteq Worker
    /\ due \in Ticks \cup {None}

Init ==
    /\ deadline = None
    /\ workerRunning = FALSE
    /\ caller = "idle"
    /\ phase = [w \in Worker |-> "none"]
    /\ wakeAt = [w \in Worker |-> 0]
    /\ notified = {}
    /\ due = None

Alive == {w \in Worker : phase[w] # "none"}
Waiting == {w \in Worker : phase[w] = "waiting"}

-----------------------------------------------------------------------------
(* An earlier deadline stays: schedule_flush returns before it looks at    *)
(* the worker.                                                             *)
KeepsAny(delay) == deadline # None
KeepsDeadline(delay) == deadline # None /\ deadline <= delay

(* notify_one wakes one thread that waits, if there is one.                *)
NotifyNobody == notified' = notified
NotifyOne == IF Waiting = {} THEN notified' = notified
             ELSE \E w \in Waiting : notified' = notified \cup {w}

(* A thread is started when none is counted.                               *)
NeedsWorkerAlways == TRUE
NeedsWorker == ~workerRunning

Earlier(a, delay) == IF a # None /\ a <= delay THEN a ELSE delay

(* A local operation's commit and its schedule_flush.                      *)
ScheduleFlush(delay) ==
    /\ caller = "idle"
    /\ due' = Earlier(due, delay)
    /\ IF KeepsDeadline(delay)
       THEN UNCHANGED <<deadline, workerRunning, caller, notified>>
       ELSE /\ deadline' = delay
            /\ NotifyOne
            /\ workerRunning' = TRUE
            /\ caller' = IF NeedsWorker THEN "spawning" ELSE "idle"
    /\ UNCHANGED <<phase, wakeAt>>

SpawnWorker ==
    /\ caller = "spawning"
    /\ \E w \in Worker \ Alive : phase' = [phase EXCEPT ![w] = "loop"]
    /\ caller' = "idle"
    /\ UNCHANGED <<deadline, workerRunning, wakeAt, notified, due>>

(* The flag is taken back, the deadline is not.                            *)
SpawnFails ==
    /\ SpawnMayFail
    /\ caller = "spawning"
    /\ workerRunning' = FALSE
    /\ caller' = "idle"
    /\ UNCHANGED <<deadline, phase, wakeAt, notified, due>>

-----------------------------------------------------------------------------
(* One turn of run_scheduler's loop, under the schedule mutex.             *)
FlagLeftAtEnd == workerRunning
FlagAtEnd == FALSE

WorkerEnds(w) ==
    /\ phase[w] = "loop"
    /\ deadline = None
    /\ workerRunning' = FlagAtEnd
    /\ phase' = [phase EXCEPT ![w] = "none"]
    /\ UNCHANGED <<deadline, caller, wakeAt, notified, due>>

WorkerWaits(w) ==
    /\ phase[w] = "loop"
    /\ deadline # None /\ deadline > 0
    /\ phase' = [phase EXCEPT ![w] = "waiting"]
    /\ wakeAt' = [wakeAt EXCEPT ![w] = deadline]
    /\ UNCHANGED <<deadline, workerRunning, caller, notified, due>>

(* The deadline is removed before the flush: a wish that is committed from *)
(* here on sets a new one.                                                 *)
DeadlineTaken == None

WorkerFlushes(w) ==
    /\ phase[w] = "loop"
    /\ deadline = 0
    /\ deadline' = DeadlineTaken
    /\ due' = None
    /\ phase' = [phase EXCEPT ![w] = "flushing"]
    /\ UNCHANGED <<workerRunning, caller, wakeAt, notified>>

(* The flush succeeded, failed, timed out or panicked; all go on alike.    *)
FlushReturns(w) ==
    /\ phase[w] = "flushing"
    /\ phase' = [phase EXCEPT ![w] = "loop"]
    /\ UNCHANGED <<deadline, workerRunning, caller, wakeAt, notified, due>>

(* A notification, the timeout, or no reason at all.                       *)
WakesUp(w) ==
    /\ phase[w] = "waiting"
    /\ phase' = [phase EXCEPT ![w] = "loop"]
    /\ wakeAt' = [wakeAt EXCEPT ![w] = 0]
    /\ notified' = notified \ {w}
    /\ UNCHANGED <<deadline, workerRunning, caller, due>>

HasToWake(w) == w \in Waiting /\ (w \in notified \/ wakeAt[w] = 0)

-----------------------------------------------------------------------------
PassedBelowZero(ticks) == IF ticks \in Nat THEN ticks - 1 ELSE ticks
Passed(ticks) == IF ticks \in Nat \ {0} THEN ticks - 1 ELSE ticks

Tick ==
    /\ caller = "idle"
    /\ \A w \in Worker : phase[w] # "loop" /\ ~HasToWake(w)
    /\ deadline' = Passed(deadline)
    /\ due' = Passed(due)
    /\ wakeAt' = [w \in Worker |-> Passed(wakeAt[w])]
    /\ UNCHANGED <<workerRunning, caller, phase, notified>>

WorkerStep(w) ==
    \/ WorkerEnds(w) \/ WorkerWaits(w) \/ WorkerFlushes(w) \/ FlushReturns(w)
    \/ WakesUp(w)

Next ==
    \/ \E delay \in {0, Delay} : ScheduleFlush(delay)
    \/ SpawnWorker \/ SpawnFails \/ Tick
    \/ \E w \in Worker : WorkerStep(w)

Spec == Init /\ [][Next]_vars

(* Threads run, a flush ends (its deadlines), time passes also between     *)
(* wake-ups without a reason.                                              *)
FairSpec ==
    /\ Spec
    /\ WF_vars(SpawnWorker \/ SpawnFails)
    /\ SF_vars(Tick)
    /\ \A w \in Worker :
         WF_vars(WorkerEnds(w) \/ WorkerWaits(w) \/ WorkerFlushes(w)
                  \/ FlushReturns(w) \/ (HasToWake(w) /\ WakesUp(w)))

-----------------------------------------------------------------------------
(* No lost wake-up: a worker that sleeps without having been notified      *)
(* sleeps until the current deadline, also after a wish moved it forward.  *)
SleepsUntilDeadline ==
    \A w \in Waiting \ notified : deadline # None /\ wakeAt[w] = deadline

(* worker_running counts the one thread that runs or is being started, so  *)
(* that no deadline is left to a thread that has just ended and no two     *)
(* threads flush the account.                                              *)
OneWorker ==
    Cardinality(Alive) + (IF caller = "spawning" THEN 1 ELSE 0)
        = IF workerRunning THEN 1 ELSE 0

(* Wishes are coalesced into one deadline, the earliest of theirs: a later *)
(* automatic batch does not put off an earlier one, a manual change does   *)
(* not wait for the automatic delay, and nothing is flushed early, so that *)
(* Undo normally precedes delivery.                                        *)
DeadlineIsEarliest == deadline = due

(* A deadline that no thread will ever look at: the system refused the     *)
(* thread that was to wait for it.                                         *)
Stranded == deadline # None /\ ~workerRunning

(* "manual mutations request reconciliation immediately", automatic ones   *)
(* after the delay (SYNC_AND_DATA.md): after a wish is committed a flush   *)
(* starts, however wishes, wake-ups and the end of the worker interleave.  *)
(* Only a refused thread keeps it from starting.                           *)
FlushFollowsOrStranded == due # None ~> due = None \/ Stranded
=============================================================================
