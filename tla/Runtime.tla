------------------------------ MODULE Runtime ------------------------------
(***************************************************************************)
(* The process-wide AppRuntime (rust-core/src/runtime.rs): which account   *)
(* requests are served for, and by which SyncService.                      *)
(*                                                                         *)
(* Threads of the app call the operations concurrently.  configure never   *)
(* contacts the server; it goes through several short critical sections    *)
(* and replaces the session in the last one.  Any other operation takes    *)
(* the session's service once, at its start, and works with it to the end, *)
(* also when the session has moved to another account by then.  A service  *)
(* lives as long as the session, a call or its flush worker holds it;      *)
(* services remembers it weakly, so that an account that is configured     *)
(* again gets the service, and with it the gate, it already has.           *)
(*                                                                         *)
(* A service is seen from outside here: its gate, its worker (Scheduler    *)
(* has the timing) and whether a wish still waits for its first flush      *)
(* (SyncService has the flush).  Threads are granted.                      *)
(***************************************************************************)
EXTENDS Integers, FiniteSets

CONSTANTS
    Caller,         \* the threads of the app that call the core
    Account,        \* accounts: a server and an API key
    Engine,         \* bound: the services that may exist at once
    Generation,     \* bound: the configuration generations the app uses
    NoAccount, NoEngine, NoThread, Worker

ASSUME RuntimeAssumption ==
    /\ NoAccount \notin Account /\ NoEngine \notin Engine
    /\ NoThread \notin Caller /\ Worker \notin Caller /\ NoThread # Worker
    /\ Generation \subseteq Int

VARIABLES
    session,        \* whom requests are served for: account, generation, engine
    services,       \* the weak reference to the last service of an account
    accountOf,      \* a service's account
    newestFirst,    \* a service's order of articles
    gate,           \* the holder of a service's sync_gate
    worker,         \* a service's flush worker: where it is
    due,            \* whether a flush is scheduled
    pc,             \* where a caller is
    engine,         \* the service a call holds
    wanted,         \* what a configure asks for
    untried,        \* history: accounts with a wish no flush has listed yet
    latest          \* history: the newest configuration that was registered

serviceVars == <<accountOf, newestFirst, gate, worker, due>>
sessionVars == <<session, services, latest>>
callVars == <<pc, engine, wanted>>
runtimeVars == <<sessionVars, serviceVars, callVars, untried>>

Configuration == [account : Account, newestFirst : BOOLEAN, generation : Generation]
Nothing == [account |-> NoAccount, newestFirst |-> FALSE, generation |-> 0]
NoSession == [account |-> NoAccount, generation |-> 0, engine |-> NoEngine]
Phase == {"idle", "configure", "local", "mutate", "wait", "gate", "answered"}

TypeOK ==
    /\ session \in [account : Account, generation : Generation, engine : Engine]
                     \cup {NoSession}
    /\ services \in [Account -> Engine \cup {NoEngine}]
    /\ accountOf \in [Engine -> Account \cup {NoAccount}]
    /\ newestFirst \in [Engine -> BOOLEAN]
    /\ gate \in [Engine -> Caller \cup {NoThread, Worker}]
    /\ worker \in [Engine -> {"none", "run", "wait", "gate"}]
    /\ due \in [Engine -> BOOLEAN]
    /\ pc \in [Caller -> Phase]
    /\ engine \in [Caller -> Engine \cup {NoEngine}]
    /\ wanted \in [Caller -> Configuration \cup {Nothing}]
    /\ untried \subseteq Account
    /\ latest \in Configuration \cup {Nothing}

RuntimeInit ==
    /\ session = NoSession
    /\ services = [a \in Account |-> NoEngine]
    /\ accountOf = [e \in Engine |-> NoAccount]
    /\ newestFirst = [e \in Engine |-> FALSE]
    /\ gate = [e \in Engine |-> NoThread]
    /\ worker = [e \in Engine |-> "none"]
    /\ due = [e \in Engine |-> FALSE]
    /\ pc = [t \in Caller |-> "idle"]
    /\ engine = [t \in Caller |-> NoEngine]
    /\ wanted = [t \in Caller |-> Nothing]
    /\ untried = {}
    /\ latest = Nothing

(* A service exists while an Arc to it does: the session's, a call's, or   *)
(* the one its running worker holds.                                       *)
LiveWithoutWorker ==
    ({session.engine} \cup {engine[t] : t \in Caller}) \ {NoEngine}
Live ==
    (({session.engine} \cup {engine[t] : t \in Caller}) \ {NoEngine})
        \cup {e \in Engine : worker[e] # "none"}

-----------------------------------------------------------------------------
(* A call ends with an answer; what it held is dropped.                    *)
Answer(t) ==
    /\ pc' = [pc EXCEPT ![t] = "answered"]
    /\ engine' = [engine EXCEPT ![t] = NoEngine]
    /\ wanted' = [wanted EXCEPT ![t] = Nothing]

GoTo(t, phase) ==
    /\ pc' = [pc EXCEPT ![t] = phase]
    /\ UNCHANGED <<engine, wanted>>

(* Refused before the runtime is asked, or by validate_configuration.      *)
Reject(t) ==
    /\ pc[t] = "idle"
    /\ Answer(t)
    /\ UNCHANGED <<sessionVars, serviceVars, untried>>

(* localize and localize_plural need no session.                           *)
Text(t) ==
    /\ pc[t] = "idle"
    /\ Answer(t)
    /\ UNCHANGED <<sessionVars, serviceVars, untried>>

(* The caller reads the answer and frees it.                               *)
Return(t) ==
    /\ pc[t] = "answered"
    /\ GoTo(t, "idle")
    /\ UNCHANGED <<sessionVars, serviceVars, untried>>

-----------------------------------------------------------------------------
(* configure: the arguments are checked, the store is opened once for the  *)
(* process, the account gets its row there, a client and a candidate       *)
(* service are made.  Nobody else sees any of this before Register.        *)
Configure(t, w) ==
    /\ pc[t] = "idle"
    /\ pc' = [pc EXCEPT ![t] = "configure"]
    /\ wanted' = [wanted EXCEPT ![t] = w]
    /\ UNCHANGED <<sessionVars, serviceVars, engine, untried>>

ConfigureFails(t) ==
    /\ pc[t] = "configure"
    /\ Answer(t)
    /\ UNCHANGED <<sessionVars, serviceVars, untried>>

(* Under the session's lock: a configuration that is older than the        *)
(* session's changes nothing and is answered with success all the same.    *)
AcceptedAlways(w) == TRUE
Accepted(w) == session = NoSession \/ w.generation >= session.generation

(* The service the account still has, or else the candidate.               *)
Retained(a) == services[a] \in Live
CandidateMissing == NoEngine
Candidate == CHOOSE e \in Engine : e \notin Live
Chosen(a) == IF Retained(a) THEN services[a] ELSE Candidate

(* The weak references that still lead somewhere.                          *)
KeptNone == [b \in Account |-> NoEngine]
Kept == [b \in Account |-> IF services[b] \in Live THEN services[b] ELSE NoEngine]

Replace(w, e) ==
    /\ accountOf' = [accountOf EXCEPT ![e] = w.account]
    /\ newestFirst' = [newestFirst EXCEPT ![e] = w.newestFirst]
    /\ services' = [Kept EXCEPT ![w.account] = e]
    /\ session' = [account |-> w.account, generation |-> w.generation, engine |-> e]

Register(t) ==
    /\ pc[t] = "configure"
    /\ Engine \ Live # {}
    /\ IF Accepted(wanted[t]) THEN Replace(wanted[t], Chosen(wanted[t].account))
       ELSE UNCHANGED <<accountOf, newestFirst, services, session>>
    /\ latest' = IF latest = Nothing \/ wanted[t].generation >= latest.generation
                 THEN wanted[t] ELSE latest
    /\ Answer(t)
    /\ UNCHANGED <<gate, worker, due, untried>>

-----------------------------------------------------------------------------
(* current_engine: the session's service, cloned under the session's lock. *)
NotConfigured(t) ==
    /\ pc[t] = "idle"
    /\ session = NoSession
    /\ Answer(t)
    /\ UNCHANGED <<sessionVars, serviceVars, untried>>

Start(t, phase) ==
    /\ pc[t] = "idle"
    /\ session # NoSession
    /\ pc' = [pc EXCEPT ![t] = phase]
    /\ engine' = [engine EXCEPT ![t] = session.engine]
    /\ UNCHANGED <<sessionVars, serviceVars, wanted, untried>>

(* local_snapshot and discard_undo touch the store only, feed_icon loads   *)
(* through its own cache (IconCache) and answers without an icon at worst. *)
LocalDone(t) ==
    /\ pc[t] = "local"
    /\ Answer(t)
    /\ UNCHANGED <<sessionVars, serviceVars, untried>>

(* set_read, set_starred and undo_read commit a wish and schedule a flush  *)
(* under the store's lock; the worker is started if none runs.  After the  *)
(* commit the snapshot or the deadline may still fail the call.            *)
Started(e) == IF worker[e] = "none" THEN "run" ELSE worker[e]

Mutate(t) ==
    /\ pc[t] = "mutate"
    /\ LET e == engine[t]
       IN  /\ due' = [due EXCEPT ![e] = TRUE]
           /\ worker' = [worker EXCEPT ![e] = Started(e)]
           /\ untried' = untried \cup {accountOf[e]}
    /\ Answer(t)
    /\ UNCHANGED <<sessionVars, accountOf, newestFirst, gate>>

MutateFails(t) ==
    /\ pc[t] = "mutate"
    /\ Answer(t)
    /\ UNCHANGED <<sessionVars, serviceVars, untried>>

-----------------------------------------------------------------------------
(* refresh and flush_pending wait for the gate until their deadline.       *)
EnterGate(t) ==
    /\ pc[t] = "wait"
    /\ gate[engine[t]] = NoThread
    /\ gate' = [gate EXCEPT ![engine[t]] = t]
    /\ GoTo(t, "gate")
    /\ UNCHANGED <<sessionVars, accountOf, newestFirst, worker, due, untried>>

WaitsForever(t) == FALSE
GivesUp(t) == pc[t] = "wait"
GateTimeout(t) ==
    /\ GivesUp(t)
    /\ Answer(t)
    /\ UNCHANGED <<sessionVars, serviceVars, untried>>

(* The remote work is done or has failed; its pending rows were listed,    *)
(* unless it failed before.                                                *)
LeaveGate(t, listed) ==
    /\ pc[t] = "gate"
    /\ gate' = [gate EXCEPT ![engine[t]] = NoThread]
    /\ untried' = IF listed THEN untried \ {accountOf[engine[t]]} ELSE untried
    /\ Answer(t)
    /\ UNCHANGED <<sessionVars, accountOf, newestFirst, worker, due>>

(* catch_unwind: the guards of a panicking call are dropped on the way.    *)
Panic(t) ==
    /\ pc[t] \notin {"idle", "answered"}
    /\ gate' = IF pc[t] = "gate" THEN [gate EXCEPT ![engine[t]] = NoThread] ELSE gate
    /\ Answer(t)
    /\ UNCHANGED <<sessionVars, accountOf, newestFirst, worker, due, untried>>

-----------------------------------------------------------------------------
(* The flush worker of a service (run_scheduler), without its clock.       *)
WorkerTakes(e) ==
    /\ worker[e] = "run" /\ due[e]
    /\ worker' = [worker EXCEPT ![e] = "wait"]
    /\ due' = [due EXCEPT ![e] = FALSE]
    /\ UNCHANGED <<sessionVars, accountOf, newestFirst, gate, callVars, untried>>

WorkerEnters(e) ==
    /\ worker[e] = "wait" /\ gate[e] = NoThread
    /\ worker' = [worker EXCEPT ![e] = "gate"]
    /\ gate' = [gate EXCEPT ![e] = Worker]
    /\ UNCHANGED <<sessionVars, accountOf, newestFirst, due, callVars, untried>>

(* A flush that fails, panics or is never let in is the attempt all the    *)
(* same; what it leaves waits for a later flush or refresh.                *)
WorkerDone(e) ==
    /\ worker[e] \in {"wait", "gate"}
    /\ worker' = [worker EXCEPT ![e] = "run"]
    /\ gate' = IF worker[e] = "gate" THEN [gate EXCEPT ![e] = NoThread] ELSE gate
    /\ untried' = untried \ {accountOf[e]}
    /\ UNCHANGED <<sessionVars, accountOf, newestFirst, due, callVars>>

WorkerEnds(e) ==
    /\ worker[e] = "run" /\ ~due[e]
    /\ worker' = [worker EXCEPT ![e] = "none"]
    /\ UNCHANGED <<sessionVars, accountOf, newestFirst, gate, due, callVars, untried>>

WorkerStep(e) == WorkerTakes(e) \/ WorkerEnters(e) \/ WorkerDone(e) \/ WorkerEnds(e)

CallBegins(t) ==
    \/ Reject(t) \/ Text(t) \/ NotConfigured(t)
    \/ \E w \in Configuration : Configure(t, w)
    \/ \E phase \in {"local", "mutate", "wait"} : Start(t, phase)

CallStep(t) ==
    \/ ConfigureFails(t) \/ Register(t)
    \/ LocalDone(t) \/ Mutate(t) \/ MutateFails(t)
    \/ EnterGate(t) \/ GateTimeout(t) \/ \E listed \in BOOLEAN : LeaveGate(t, listed)

RuntimeNext ==
    \/ \E t \in Caller : CallBegins(t) \/ CallStep(t) \/ Panic(t) \/ Return(t)
    \/ \E e \in Engine : WorkerStep(e)

RuntimeSpec == RuntimeInit /\ [][RuntimeNext]_runtimeVars

-----------------------------------------------------------------------------
(* One account, one service: no two services are of the same account, or   *)
(* two gates would guard one account's queue.  Weak references, account    *)
(* switches, old calls and workers that outlive a session must not bring   *)
(* that about.                                                             *)
OneService ==
    \A e, f \in Live : accountOf[e] = accountOf[f] => e = f

(* The session is the newest configuration, "stale generations are         *)
(* accepted with ok:true while leaving the existing session untouched"     *)
(* (configure): its account, its order of articles, which a shared service *)
(* holds, and its service's account, in whatever order configures finish.  *)
SessionIsLatest ==
    /\ session.account = latest.account
    /\ session.generation = latest.generation
    /\ session # NoSession =>
         /\ accountOf[session.engine] = latest.account
         /\ newestFirst[session.engine] = latest.newestFirst

(* A wish that was committed has a flush to come, by a service of its own  *)
(* account, however often the session moves on in between.                 *)
WishesHaveAWorker ==
    \A a \in untried : \E e \in Live :
        accountOf[e] = a /\ (due[e] \/ worker[e] \in {"wait", "gate"})

-----------------------------------------------------------------------------
(* The inductive invariant behind them: calls at work hold a service, ...  *)
CallsHold ==
    \A t \in Caller :
        /\ pc[t] \in {"local", "mutate", "wait", "gate"} => engine[t] \in Engine
        /\ pc[t] = "configure" => wanted[t] \in Configuration

(* ... services that exist are the ones their accounts are found by, ...   *)
Registered ==
    /\ \A e \in Live : accountOf[e] \in Account /\ services[accountOf[e]] = e
    /\ \A a \in Account : services[a] \in Live => accountOf[services[a]] = a

(* ... and a flush is scheduled only where a worker sees it.               *)
DueIsSeen == \A e \in Engine : due[e] => worker[e] # "none"

IInv ==
    /\ TypeOK
    /\ CallsHold
    /\ Registered
    /\ DueIsSeen
    /\ SessionIsLatest
    /\ WishesHaveAWorker
=============================================================================
