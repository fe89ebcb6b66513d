---------------------------- MODULE RemoteClient ----------------------------
(***************************************************************************)
(* Who may talk to Miniflux, and until when (rust-core/src/sync.rs,        *)
(* remote/miniflux.rs).  Flushes and refreshes pass sync_gate, a StateLock *)
(* built from a mutex, an Option and a condition variable, with their own  *)
(* deadline.  The holder lends its deadline to the client                  *)
(* (operation_deadline), every request takes it from there, and the guards *)
(* are dropped in the reverse order of their declaration.                  *)
(*                                                                         *)
(* Time is counted in ticks.  A thread may take any time for a step of its *)
(* own, but a request ends when its timeout does.                          *)
(***************************************************************************)
EXTENDS Integers, FiniteSetsExt

CONSTANTS
    Thread,         \* threads of the process
    NoThread,
    GateTicks,      \* REFRESH_DEADLINE, FLUSH_DEADLINE
    RequestTicks,   \* REQUEST_TIMEOUT
    MaxNow          \* bound: the clock, and the deadlines calls are given

ASSUME ClientAssumption ==
    /\ NoThread \notin Thread
    /\ GateTicks \in Nat \ {0} /\ RequestTicks \in Nat \ {0} /\ MaxNow \in Nat

VARIABLES
    now,                \* the clock
    pc,                 \* where a thread is
    due,                \* the deadline of a thread's call
    holder,             \* who took the value out of sync_gate
    woken,              \* the threads notify_one woke that have not yet looked
    operationDeadline,  \* MinifluxClient::operation_deadline
    until               \* when a thread's request times out

clientVars == <<now, pc, due, holder, woken, operationDeadline, until>>

Never == MaxNow + RequestTicks + 1      \* None, as a time
Time == 0 .. Never

GatePhase == {"gate", "asleep", "holding", "remote", "sent", "clear", "leave"}

ClientInit ==
    /\ now = 0
    /\ pc = [t \in Thread |-> "idle"]
    /\ due = [t \in Thread |-> Never]
    /\ holder = NoThread
    /\ woken = {}
    /\ operationDeadline = Never
    /\ until = [t \in Thread |-> Never]

(* A call goes on, or returns.                                             *)
Go(t, phase) == pc' = [pc EXCEPT ![t] = phase]
Finish(t) == Go(t, "idle") /\ due' = [due EXCEPT ![t] = Never]

(* A call gets its deadline when it starts.                                *)
Begin(t, phase, ticks) ==
    /\ pc[t] = "idle"
    /\ now + ticks <= MaxNow
    /\ due' = [due EXCEPT ![t] = now + ticks]
    /\ Go(t, phase)

-----------------------------------------------------------------------------
(* StateLock::lock_until.  Each look at the slot happens under the mutex,  *)
(* and wait_timeout gives the mutex up and falls asleep in one step.       *)
Asleep == {t \in Thread : pc[t] = "asleep"}
GivesUpAtDeadline(t) == now >= due[t]
GivesUp(t) == holder # NoThread /\ now >= due[t]

Awake(t) == woken \ {t}

Look(t) ==
    /\ \/ /\ GivesUp(t)
          /\ Finish(t) /\ UNCHANGED holder
       \/ /\ ~GivesUp(t) /\ holder = NoThread
          /\ Go(t, "holding") /\ holder' = t /\ UNCHANGED due
       \/ /\ ~GivesUp(t) /\ holder # NoThread
          /\ Go(t, "asleep") /\ UNCHANGED <<holder, due>>
    /\ woken' = Awake(t)
    /\ UNCHANGED <<now, operationDeadline, until>>

StartRemote(t) ==
    /\ Begin(t, "gate", GateTicks)
    /\ UNCHANGED <<now, holder, woken, operationDeadline, until>>

LockUntil(t) == pc[t] = "gate" /\ Look(t)
WakeUp(t) == pc[t] = "asleep" /\ (t \in woken \/ now >= due[t]) /\ Look(t)

(* RemoteDeadlineGuard::new.                                               *)
LendDeadline(t) ==
    /\ pc[t] = "holding"
    /\ operationDeadline' = due[t]
    /\ Go(t, "remote")
    /\ UNCHANGED <<now, due, holder, woken, until>>

-----------------------------------------------------------------------------
(* execute_with_deadline: no request after the deadline, and the timeout   *)
(* of one is what is left, at most REQUEST_TIMEOUT.                        *)
NoTimeout(deadline) == Never - now
Timeout(deadline) ==
    IF deadline = Never THEN RequestTicks ELSE Min({deadline - now, RequestTicks})

Execute(t, deadline, sentPhase, failPhase) ==
    /\ IF deadline # Never /\ now >= deadline
       THEN Go(t, failPhase) /\ UNCHANGED until
       ELSE Go(t, sentPhase) /\ until' = [until EXCEPT ![t] = now + Timeout(deadline)]
    /\ UNCHANGED <<now, due, holder, woken, operationDeadline>>

(* The guards go in this order: _deadline was declared after _sync.        *)
GateFirst(phase) ==
    CASE phase = "remote" -> "leave" [] phase = "leave" -> "clear" [] phase = "clear" -> "idle"
AfterDrop(phase) ==
    CASE phase = "remote" -> "clear" [] phase = "clear" -> "leave" [] phase = "leave" -> "idle"

Request(t) ==
    /\ pc[t] = "remote"
    /\ Execute(t, operationDeadline, "sent", AfterDrop("remote"))

(* The reply or an error; the flush or the refresh may go on after either. *)
Answered(t) ==
    /\ pc[t] = "sent"
    /\ Go(t, "remote")
    /\ until' = [until EXCEPT ![t] = Never]
    /\ UNCHANGED <<now, due, holder, woken, operationDeadline>>
TimesOut(t) == now >= until[t] /\ Answered(t)

(* The work is done, has failed, or unwinds: the guards are dropped.       *)
EndWork(t) ==
    /\ pc[t] = "remote"
    /\ Go(t, AfterDrop("remote"))
    /\ UNCHANGED <<now, due, holder, woken, operationDeadline, until>>

Drop(t, phase) ==
    /\ pc[t] = phase
    /\ IF AfterDrop(phase) = "idle" THEN Finish(t)
       ELSE Go(t, AfterDrop(phase)) /\ UNCHANGED due

DropDeadline(t) ==
    /\ Drop(t, "clear")
    /\ operationDeadline' = Never
    /\ UNCHANGED <<now, holder, woken, until>>

(* StateGuard::drop: the value goes back and notify_one wakes one sleeper. *)
DropGate(t) ==
    /\ Drop(t, "leave")
    /\ holder' = NoThread
    /\ LET sleepers == Asleep \ woken
       IN  IF sleepers = {} THEN UNCHANGED woken
           ELSE \E s \in sleepers : woken' = woken \cup {s}
    /\ UNCHANGED <<now, operationDeadline, until>>

Tick ==
    /\ now < MaxNow
    /\ \A t \in Thread : now < until[t]
    /\ now' = now + 1
    /\ UNCHANGED <<pc, due, holder, woken, operationDeadline, until>>

GateStep(t) ==
    \/ LockUntil(t) \/ WakeUp(t) \/ LendDeadline(t) \/ Request(t) \/ TimesOut(t)
    \/ EndWork(t) \/ DropDeadline(t) \/ DropGate(t)

-----------------------------------------------------------------------------
(* Every request of a flush or refresh is made by the holder of the gate   *)
(* under the holder's own deadline, and is over when that deadline passes: *)
(* nobody's deadline is taken away or lent to somebody else while requests *)
(* run, so no call holds the gate for longer than it was granted.          *)
RequestsKeepDeadline ==
    \A t \in Thread :
        /\ pc[t] \in {"remote", "sent"} =>
             holder = t /\ operationDeadline = due[t]
        /\ pc[t] = "sent" => until[t] <= due[t]

(* No wakeup is lost: while the gate is free and threads sleep in front of *)
(* it, one of them is on its way, also when a notified thread finds its    *)
(* deadline passed or another thread takes the gate in between.            *)
NoLostWakeup ==
    holder = NoThread /\ Asleep # {} =>
        \E t \in Asleep : t \in woken \/ now >= due[t]
=============================================================================
