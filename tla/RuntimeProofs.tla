--------------------------- MODULE RuntimeProofs ---------------------------
(***************************************************************************)
(* Proofs about Runtime: one service per account, the session is the       *)
(* newest configuration, and no wish loses its worker.  And about CoreApi: *)
(* what its callers send is one of the runtime's operations or nothing, so *)
(* that all of this holds for every text.                                  *)
(***************************************************************************)
EXTENDS CoreApi, FiniteSetTheorems, WellFoundedInduction, TLAPS

(* What exists only shrinks when a call ends.                              *)
LEMMA AnswerDrops ==
    ASSUME TypeOK, NEW t \in Caller, Answer(t), session' = session, worker' = worker
    PROVE  /\ Live' \subseteq Live
           /\ engine' \in [Caller -> Engine \cup {NoEngine}]
           /\ pc' \in [Caller -> Phase]
           /\ wanted' \in [Caller -> Configuration \cup {Nothing}]
  BY DEF TypeOK, Answer, Live, Phase

(* The services that stay are registered as they were.                     *)
LEMMA StaysRegistered ==
    ASSUME Registered, Live' \subseteq Live, UNCHANGED <<services, accountOf>>
    PROVE  Registered'
  BY DEF Registered

(* A wish keeps its worker while services keep running as they do.         *)
LEMMA WishesStay ==
    ASSUME TypeOK, DueIsSeen, WishesHaveAWorker,
           UNCHANGED <<accountOf, worker, due, untried>>
    PROVE  DueIsSeen' /\ WishesHaveAWorker'
<1>1. DueIsSeen'
  BY DEF DueIsSeen
<1>2. ASSUME NEW a \in untried'
      PROVE  \E e \in Live' :
               accountOf'[e] = a /\ (due'[e] \/ worker'[e] \in {"wait", "gate"})
  <2>1. PICK e \in Live : accountOf[e] = a /\ (due[e] \/ worker[e] \in {"wait", "gate"})
    BY <1>2 DEF WishesHaveAWorker
  <2>2. e \in Engine
    BY <2>1 DEF Live, TypeOK, NoSession
  <2>3. worker[e] # "none"
    BY <2>1, <2>2 DEF DueIsSeen
  <2>4. e \in Live'
    BY <2>2, <2>3 DEF Live
  <2> QED BY <2>1, <2>4
<1> QED BY <1>1, <1>2 DEF WishesHaveAWorker

(* What exists are services.                                               *)
LEMMA LiveIsEngine == ASSUME TypeOK PROVE Live \subseteq Engine
  BY DEF Live, TypeOK, NoSession

(* A call that ends and touches no service.                                *)
LEMMA QuietAnswer ==
    ASSUME IInv, NEW t \in Caller, Answer(t), UNCHANGED <<sessionVars, serviceVars, untried>>
    PROVE  IInv'
<1> USE DEF IInv, sessionVars, serviceVars
<1>1. TypeOK'
  BY AnswerDrops DEF TypeOK
<1>2. CallsHold'
  BY DEF CallsHold, Answer, TypeOK
<1>3. Registered'
  BY AnswerDrops, StaysRegistered
<1>4. SessionIsLatest'
  BY DEF SessionIsLatest, NoSession
<1> QED BY <1>1, <1>2, <1>3, <1>4, WishesStay

(* A call that takes the session's service, or asks for a configuration.   *)
LEMMA BeginStep ==
    ASSUME IInv, NEW t \in Caller,
           \/ Return(t)
           \/ \E w \in Configuration : Configure(t, w)
           \/ \E phase \in {"local", "mutate", "wait"} : Start(t, phase)
    PROVE  IInv'
<1> USE DEF IInv, sessionVars, serviceVars
<1>1. /\ UNCHANGED <<session, services, latest, accountOf, newestFirst, gate, worker,
                     due, untried>>
  BY DEF Return, GoTo, Configure, Start
<1>2. TypeOK'
  <2>1. CASE Return(t)
    BY <1>1, <2>1 DEF Return, GoTo, TypeOK, Phase
  <2>2. ASSUME NEW w \in Configuration, Configure(t, w) PROVE TypeOK'
    BY <1>1, <2>2 DEF Configure, TypeOK, Phase
  <2>3. ASSUME NEW phase \in {"local", "mutate", "wait"}, Start(t, phase) PROVE TypeOK'
    BY <1>1, <2>3 DEF Start, TypeOK, Phase
  <2> QED BY <2>1, <2>2, <2>3
<1>3. CallsHold'
  <2>1. CASE Return(t)
    BY <2>1 DEF Return, GoTo, CallsHold, TypeOK
  <2>2. ASSUME NEW w \in Configuration, Configure(t, w) PROVE CallsHold'
    BY <2>2 DEF Configure, CallsHold, TypeOK
  <2>3. ASSUME NEW phase \in {"local", "mutate", "wait"}, Start(t, phase) PROVE CallsHold'
    BY <2>3 DEF Start, CallsHold, TypeOK
  <2> QED BY <2>1, <2>2, <2>3
<1>4. Live' \subseteq Live
  <2>1. engine' = engine \/ engine' = [engine EXCEPT ![t] = session.engine]
    BY DEF Return, GoTo, Configure, Start
  <2> QED BY <1>1, <2>1 DEF Live, TypeOK
<1>5. Registered'
  BY <1>1, <1>4, StaysRegistered
<1>6. SessionIsLatest'
  BY <1>1 DEF SessionIsLatest, NoSession
<1> QED BY <1>1, <1>2, <1>3, <1>5, <1>6, WishesStay

(* A call at its gate, and a panic.                                        *)
LEMMA GateStep ==
    ASSUME IInv, NEW t \in Caller,
           EnterGate(t) \/ (\E listed \in BOOLEAN : LeaveGate(t, listed)) \/ Panic(t)
    PROVE  IInv'
<1> USE DEF IInv, sessionVars
<1>1. /\ UNCHANGED <<session, services, latest, accountOf, newestFirst, worker, due>>
      /\ untried' \subseteq untried
  BY DEF EnterGate, LeaveGate, Panic
<1>2. (GoTo(t, "gate") /\ pc[t] = "wait") \/ Answer(t)
  BY DEF EnterGate, LeaveGate, Panic
<1>3. Live' \subseteq Live
  BY <1>1, <1>2, AnswerDrops DEF GoTo, Live
<1>4. TypeOK'
  <2>1. gate' \in [Engine -> Caller \cup {NoThread, Worker}]
    BY DEF EnterGate, LeaveGate, Panic, TypeOK
  <2>2. /\ engine' \in [Caller -> Engine \cup {NoEngine}]
        /\ pc' \in [Caller -> Phase]
        /\ wanted' \in [Caller -> Configuration \cup {Nothing}]
    BY <1>1, <1>2, AnswerDrops DEF GoTo, TypeOK, Phase
  <2> QED BY <1>1, <2>1, <2>2 DEF TypeOK
<1>5. CallsHold'
  BY <1>2 DEF CallsHold, Answer, GoTo, TypeOK
<1>6. Registered'
  BY <1>1, <1>3, StaysRegistered
<1>7. SessionIsLatest'
  BY <1>1 DEF SessionIsLatest, NoSession
<1>8. DueIsSeen'
  BY <1>1 DEF DueIsSeen
<1>9. WishesHaveAWorker'
  <2>1. ASSUME NEW a \in untried'
        PROVE  \E e \in Live' :
                 accountOf'[e] = a /\ (due'[e] \/ worker'[e] \in {"wait", "gate"})
    <3>1. PICK e \in Live : accountOf[e] = a /\ (due[e] \/ worker[e] \in {"wait", "gate"})
      BY <1>1, <2>1 DEF WishesHaveAWorker
    <3>2. e \in Engine
      BY <3>1, LiveIsEngine
    <3>3. e \in Live'
      BY <1>1, <3>1, <3>2 DEF DueIsSeen, Live
    <3> QED BY <1>1, <3>1, <3>3
  <2> QED BY <2>1 DEF WishesHaveAWorker
<1> QED BY <1>4, <1>5, <1>6, <1>7, <1>8, <1>9

(* A wish starts its service's worker.                                     *)
LEMMA MutateStep == ASSUME IInv, NEW t \in Caller, Mutate(t) PROVE IInv'
<1> DEFINE s == engine[t]
<1> USE DEF IInv, sessionVars
<1>1. s \in Engine /\ s \in Live
  BY LiveIsEngine, RuntimeAssumption DEF Mutate, CallsHold, Live
<1>2. /\ UNCHANGED <<session, services, latest, accountOf, newestFirst, gate>>
      /\ due' = [due EXCEPT ![s] = TRUE]
      /\ worker' = [worker EXCEPT ![s] = IF worker[s] = "none" THEN "run" ELSE worker[s]]
      /\ untried' = untried \cup {accountOf[s]}
      /\ Answer(t)
  BY DEF Mutate, Started
<1> HIDE DEF s
<1>3. /\ engine' \in [Caller -> Engine \cup {NoEngine}]
      /\ pc' \in [Caller -> Phase]
      /\ wanted' \in [Caller -> Configuration \cup {Nothing}]
      /\ \A u \in Caller : engine'[u] \in {engine[u], NoEngine}
  BY <1>2 DEF Answer, TypeOK, Phase
<1>4. accountOf[s] \in Account
  BY <1>1 DEF Registered
<1>5. TypeOK'
  BY <1>1, <1>2, <1>3, <1>4 DEF TypeOK
<1>6. CallsHold'
  BY <1>2 DEF CallsHold, Answer, TypeOK
<1>7. Live' \subseteq Live
  BY <1>1, <1>2, <1>3 DEF Live, TypeOK
<1>8. Registered'
  BY <1>2, <1>7, StaysRegistered
<1>9. SessionIsLatest'
  BY <1>2 DEF SessionIsLatest, NoSession
<1>10. DueIsSeen'
  BY <1>1, <1>2 DEF DueIsSeen, TypeOK
<1>11. WishesHaveAWorker'
  <2>1. ASSUME NEW e \in Engine, due'[e] \/ worker'[e] \in {"wait", "gate"}
        PROVE  e \in Live'
    BY <1>10, <2>1 DEF DueIsSeen, Live
  <2>2. s \in Live' /\ due'[s]
    BY <1>1, <1>2, <2>1 DEF TypeOK
  <2>3. ASSUME NEW a \in untried
        PROVE  \E e \in Live' :
                 accountOf'[e] = a /\ (due'[e] \/ worker'[e] \in {"wait", "gate"})
    <3>1. PICK e \in Live : accountOf[e] = a /\ (due[e] \/ worker[e] \in {"wait", "gate"})
      BY <2>3 DEF WishesHaveAWorker
    <3>2. e \in Engine
      BY <3>1, LiveIsEngine
    <3>3. due'[e] \/ worker'[e] \in {"wait", "gate"}
      BY <1>1, <1>2, <3>1, <3>2 DEF TypeOK
    <3> QED BY <1>2, <2>1, <3>1, <3>2, <3>3
  <2> QED BY <1>2, <2>2, <2>3 DEF WishesHaveAWorker
<1> QED BY <1>5, <1>6, <1>8, <1>9, <1>10, <1>11

(* The worker of a service: it exists until it has nothing left to do.     *)
LEMMA WorkerKeeps == ASSUME IInv, NEW s \in Engine, WorkerStep(s) PROVE IInv'
<1> USE DEF IInv, sessionVars, callVars
<1>1. /\ UNCHANGED <<session, services, latest, accountOf, newestFirst, pc, engine, wanted>>
      /\ untried' \subseteq untried
      /\ worker' = [worker EXCEPT ![s] = worker'[s]]
      /\ due' = [due EXCEPT ![s] = due'[s]]
      /\ worker[s] # "none"
      /\ worker'[s] \in {"none", "run", "wait", "gate"} /\ due'[s] \in BOOLEAN
  BY DEF WorkerStep, WorkerTakes, WorkerEnters, WorkerDone, WorkerEnds, TypeOK
<1>2. gate' \in [Engine -> Caller \cup {NoThread, Worker}]
  BY DEF WorkerStep, WorkerTakes, WorkerEnters, WorkerDone, WorkerEnds, TypeOK
<1>3. TypeOK'
  BY <1>1, <1>2 DEF TypeOK
<1>4. CallsHold'
  BY <1>1 DEF CallsHold
<1>5. Live' \subseteq Live
  BY <1>1 DEF Live, TypeOK
<1>6. Registered'
  BY <1>1, <1>5, StaysRegistered
<1>7. SessionIsLatest'
  BY <1>1 DEF SessionIsLatest, NoSession
<1>8. DueIsSeen'
  <2>1. due'[s] => worker'[s] # "none"
    BY DEF WorkerStep, WorkerTakes, WorkerEnters, WorkerDone, WorkerEnds, TypeOK
  <2> QED BY <1>1, <2>1 DEF DueIsSeen, TypeOK
<1>9. WishesHaveAWorker'
  <2>1. ASSUME NEW a \in untried'
        PROVE  \E e \in Live' :
                 accountOf'[e] = a /\ (due'[e] \/ worker'[e] \in {"wait", "gate"})
    <3>1. PICK e \in Live : accountOf[e] = a /\ (due[e] \/ worker[e] \in {"wait", "gate"})
      BY <1>1, <2>1 DEF WishesHaveAWorker
    <3>2. e \in Engine
      BY <3>1, LiveIsEngine
    <3>3. due'[e] \/ worker'[e] \in {"wait", "gate"}
      <4>1. CASE e # s
        BY <1>1, <3>1, <3>2, <4>1 DEF TypeOK
      <4>2. CASE e = s
        <5>1. ~WorkerDone(s)
          BY <2>1, <3>1, <4>2 DEF WorkerDone
        <5> QED BY <3>1, <4>2, <5>1 DEF WorkerStep, WorkerTakes, WorkerEnters, WorkerEnds,
                                        TypeOK
      <4> QED BY <4>1, <4>2
    <3>4. e \in Live'
      BY <1>8, <3>2, <3>3 DEF DueIsSeen, Live
    <3> QED BY <1>1, <3>1, <3>3, <3>4
  <2> QED BY <2>1 DEF WishesHaveAWorker
<1> QED BY <1>3, <1>4, <1>6, <1>7, <1>8, <1>9

(* Register, when it replaces the session: the service it chooses is the   *)
(* only one of its account, and the others stay found by theirs.           *)
LEMMA ReplaceStep ==
    ASSUME IInv, NEW t \in Caller, Register(t), Accepted(wanted[t])
    PROVE  IInv'
<1> DEFINE w == wanted[t]
           c == Chosen(w.account)
<1> USE DEF IInv, sessionVars
<1>1. w \in Configuration /\ w.account \in Account /\ w.newestFirst \in BOOLEAN
      /\ w.generation \in Generation
  BY DEF Register, CallsHold, Configuration
<1>2. c \in Engine /\ (c \in Live => Retained(w.account) /\ c = services[w.account])
      /\ (Retained(w.account) => c \in Live /\ c = services[w.account])
  <2>1. CASE Retained(w.account)
    BY <2>1, LiveIsEngine DEF Chosen, Retained
  <2>2. CASE ~Retained(w.account)
    <3>1. \E e \in Engine : e \notin Live
      BY DEF Register
    <3>2. Candidate \in Engine /\ Candidate \notin Live
      BY <3>1 DEF Candidate
    <3> QED BY <2>2, <3>2 DEF Chosen
  <2> QED BY <2>1, <2>2
<1>3. /\ accountOf' = [accountOf EXCEPT ![c] = w.account]
      /\ newestFirst' = [newestFirst EXCEPT ![c] = w.newestFirst]
      /\ services' = [Kept EXCEPT ![w.account] = c]
      /\ session' = [account |-> w.account, generation |-> w.generation, engine |-> c]
      /\ latest' = IF latest = Nothing \/ w.generation >= latest.generation
                   THEN w ELSE latest
      /\ Answer(t)
      /\ UNCHANGED <<gate, worker, due, untried>>
  BY DEF Register, Replace
<1> HIDE DEF c
<1>4. /\ engine' \in [Caller -> Engine \cup {NoEngine}]
      /\ pc' \in [Caller -> Phase]
      /\ wanted' \in [Caller -> Configuration \cup {Nothing}]
      /\ \A u \in Caller : engine'[u] \in {engine[u], NoEngine}
  BY <1>3 DEF Answer, TypeOK, Phase
<1>5. latest' = w
  <2>1. latest = Nothing <=> session = NoSession
    BY RuntimeAssumption DEF SessionIsLatest, TypeOK, Nothing, NoSession, Configuration
  <2> QED BY <1>3, <2>1 DEF Accepted, SessionIsLatest
<1>6. TypeOK'
  <2>1. services' \in [Account -> Engine \cup {NoEngine}]
    BY <1>1, <1>2, <1>3 DEF TypeOK, Kept
  <2>2. latest' \in Configuration \cup {Nothing}
    BY <1>1, <1>5
  <2>3. session' \in [account : Account, generation : Generation, engine : Engine]
    BY <1>1, <1>2, <1>3
  <2>4. accountOf' \in [Engine -> Account \cup {NoAccount}]
        /\ newestFirst' \in [Engine -> BOOLEAN]
    BY <1>1, <1>2, <1>3 DEF TypeOK
  <2> QED BY <1>3, <1>4, <2>1, <2>2, <2>3, <2>4 DEF TypeOK
<1>7. CallsHold'
  BY <1>3 DEF CallsHold, Answer, TypeOK
<1>8. Live' \subseteq Live \cup {c} /\ c \in Live'
  BY <1>2, <1>3, <1>4, RuntimeAssumption DEF Live, TypeOK
<1>9. Registered'
  <2>1. ASSUME NEW e \in Live' PROVE accountOf'[e] \in Account /\ services'[accountOf'[e]] = e
    <3>1. CASE e = c
      BY <1>1, <1>2, <1>3, <3>1 DEF TypeOK, Kept
    <3>2. CASE e # c
      <4>1. e \in Live /\ e \in Engine
        BY <1>8, <3>2, LiveIsEngine
      <4>2. accountOf[e] \in Account /\ services[accountOf[e]] = e /\ accountOf'[e] = accountOf[e]
        BY <1>3, <3>2, <4>1 DEF Registered, TypeOK
      <4>3. accountOf[e] # w.account
        BY <1>2, <3>2, <4>1, <4>2 DEF Retained
      <4>4. services'[accountOf[e]] = e
        BY <1>1, <1>3, <4>1, <4>2, <4>3 DEF Kept, TypeOK
      <4> QED BY <4>2, <4>4
    <3> QED BY <3>1, <3>2
  <2>2. ASSUME NEW a \in Account, services'[a] \in Live' PROVE accountOf'[services'[a]] = a
    <3>1. CASE a = w.account
      BY <1>1, <1>2, <1>3, <3>1 DEF TypeOK, Kept
    <3>2. CASE a # w.account
      <4>1. services'[a] = IF services[a] \in Live THEN services[a] ELSE NoEngine
        BY <1>1, <1>3, <3>2 DEF Kept, TypeOK
      <4>2. services[a] \in Live /\ services'[a] = services[a]
        BY <1>2, <1>8, <2>2, <4>1, LiveIsEngine, RuntimeAssumption
      <4>3. accountOf[services[a]] = a
        BY <4>2 DEF Registered
      <4>4. services[a] # c
        BY <1>1, <1>2, <3>2, <4>2, <4>3 DEF Registered
      <4> QED BY <1>3, <4>2, <4>3, <4>4, LiveIsEngine DEF TypeOK
    <3> QED BY <3>1, <3>2
  <2> QED BY <2>1, <2>2 DEF Registered
<1>10. SessionIsLatest'
  BY <1>1, <1>2, <1>3, <1>5 DEF SessionIsLatest, TypeOK
<1>11. DueIsSeen'
  BY <1>3 DEF DueIsSeen
<1>12. WishesHaveAWorker'
  <2>1. ASSUME NEW a \in untried'
        PROVE  \E e \in Live' :
                 accountOf'[e] = a /\ (due'[e] \/ worker'[e] \in {"wait", "gate"})
    <3>1. PICK e \in Live : accountOf[e] = a /\ (due[e] \/ worker[e] \in {"wait", "gate"})
      BY <1>3, <2>1 DEF WishesHaveAWorker
    <3>2. e \in Engine /\ worker[e] # "none"
      BY <3>1, LiveIsEngine DEF DueIsSeen
    <3>3. e \in Live'
      BY <1>3, <3>2 DEF Live
    <3>4. accountOf'[e] = a
      BY <1>1, <1>2, <1>3, <3>1, <3>2 DEF TypeOK, Registered
    <3> QED BY <1>3, <3>1, <3>3, <3>4
  <2> QED BY <2>1 DEF WishesHaveAWorker
<1> QED BY <1>6, <1>7, <1>9, <1>10, <1>11, <1>12

(* Register, when the configuration came too late.                         *)
LEMMA StaleStep ==
    ASSUME IInv, NEW t \in Caller, Register(t), ~Accepted(wanted[t])
    PROVE  IInv'
<1>1. latest # Nothing /\ ~(wanted[t].generation >= latest.generation)
  BY RuntimeAssumption DEF IInv, Accepted, SessionIsLatest, TypeOK, Nothing, NoSession,
     Configuration
<1>2. Answer(t) /\ UNCHANGED <<sessionVars, serviceVars, untried>>
  BY <1>1 DEF Register, sessionVars, serviceVars
<1> QED BY <1>2, QuietAnswer

(* The invariant is inductive.                                             *)
LEMMA RuntimeStep == IInv /\ [RuntimeNext]_runtimeVars => IInv'
<1> SUFFICES ASSUME IInv, [RuntimeNext]_runtimeVars PROVE IInv'
  OBVIOUS
<1>1. ASSUME NEW t \in Caller, CallBegins(t) \/ Return(t) PROVE IInv'
  <2>1. CASE Reject(t) \/ Text(t) \/ NotConfigured(t)
    BY <2>1, QuietAnswer DEF Reject, Text, NotConfigured
  <2>2. CASE ~(Reject(t) \/ Text(t) \/ NotConfigured(t))
    BY <1>1, <2>2, BeginStep DEF CallBegins
  <2> QED BY <2>1, <2>2
<1>2. ASSUME NEW t \in Caller, CallStep(t) \/ Panic(t) PROVE IInv'
  <2>1. CASE ConfigureFails(t) \/ LocalDone(t) \/ MutateFails(t) \/ GateTimeout(t)
    BY <2>1, QuietAnswer DEF ConfigureFails, LocalDone, MutateFails, GateTimeout
  <2>2. CASE EnterGate(t) \/ (\E listed \in BOOLEAN : LeaveGate(t, listed)) \/ Panic(t)
    BY <2>2, GateStep
  <2>3. CASE Register(t)
    BY <2>3, ReplaceStep, StaleStep
  <2>4. CASE Mutate(t)
    BY <2>4, MutateStep
  <2> QED BY <1>2, <2>1, <2>2, <2>3, <2>4 DEF CallStep
<1>3. ASSUME NEW e \in Engine, WorkerStep(e) PROVE IInv'
  BY <1>3, WorkerKeeps
<1>4. CASE UNCHANGED runtimeVars
  <2>1. Live' = Live
    BY <1>4 DEF runtimeVars, sessionVars, serviceVars, callVars, Live
  <2> QED BY <1>4, <2>1 DEF runtimeVars, sessionVars, serviceVars, callVars, IInv, TypeOK,
             CallsHold, Registered, DueIsSeen, SessionIsLatest, WishesHaveAWorker
<1> QED BY <1>1, <1>2, <1>3, <1>4 DEF RuntimeNext

(* The process starts with nothing configured.                             *)
LEMMA RuntimeStarts == RuntimeInit => IInv
<1> SUFFICES ASSUME RuntimeInit PROVE IInv
  OBVIOUS
<1>1. Live = {}
  BY DEF RuntimeInit, Live, NoSession
<1>2. TypeOK
  BY DEF RuntimeInit, TypeOK, Phase
<1> QED BY <1>1, <1>2 DEF RuntimeInit, IInv, CallsHold, Registered, DueIsSeen,
           SessionIsLatest, WishesHaveAWorker, NoSession, Nothing

(* The invariant holds in every reachable state.                           *)
LEMMA InvariantHolds == RuntimeSpec => []IInv
  BY RuntimeStarts, RuntimeStep, PTL DEF RuntimeSpec

(* Every reachable state of the runtime is well typed: no session without  *)
(* a service, no call at work without one.                                 *)
THEOREM TypeCorrect == RuntimeSpec => []TypeOK
<1>1. IInv => TypeOK
  BY DEF IInv
<1> QED BY <1>1, InvariantHolds, PTL

(* However configures, calls and workers overlap, an account never has two *)
(* services, and so never two gates (the search and retain in configure).  *)
THEOREM OneServiceHolds == RuntimeSpec => []OneService
<1>1. IInv => OneService
  <2> SUFFICES ASSUME IInv, NEW e \in Live, NEW f \in Live, accountOf[e] = accountOf[f]
               PROVE  e = f
    BY DEF OneService
  <2> QED BY DEF IInv, Registered
<1> QED BY <1>1, InvariantHolds, PTL

(* Requests are served for the newest configuration, whatever order        *)
(* configures finish in (the generation check in configure).               *)
THEOREM SessionIsLatestHolds == RuntimeSpec => []SessionIsLatest
<1>1. IInv => SessionIsLatest
  BY DEF IInv
<1> QED BY <1>1, InvariantHolds, PTL

(* A committed wish keeps a worker of its own account until that worker    *)
(* has tried to flush it (the Arc that schedule_flush gives the worker).   *)
THEOREM WishesHaveAWorkerHolds == RuntimeSpec => []WishesHaveAWorker
<1>1. IInv => WishesHaveAWorker
  BY DEF IInv
<1> QED BY <1>1, InvariantHolds, PTL

-----------------------------------------------------------------------------
(* A finite set of integers that is not empty has a greatest one: of the   *)
(* sets of what is above a member, one has none of the others inside it.   *)
LEMMA MaxIsGreatest ==
    ASSUME NEW S \in SUBSET Int, IsFiniteSet(S), S # {}
    PROVE  Max(S) \in S /\ \A y \in S : Max(S) >= y
<1> DEFINE above(x) == {y \in S : y > x}
           family == {above(x) : x \in S}
<1>0. family # {}
  OBVIOUS
<1>1. family \subseteq FiniteSubsetsOf(S)
  BY FS_Subset DEF FiniteSubsetsOf
<1>2. IsWellFoundedOn(StrictSubsetOrdering(S), FiniteSubsetsOf(S))
  BY FS_StrictSubsetOrderingWellFounded
<1> HIDE DEF family
<1>3. PICK T \in family : \A U \in family : ~ (<<U, T>> \in StrictSubsetOrdering(S))
  BY <1>0, <1>1, <1>2, WFMin
<1> USE DEF family
<1>4. PICK x \in S : T = above(x)
  BY <1>3
<1>5. ASSUME NEW y \in S, y > x
      PROVE  FALSE
  <2>1. x \in Int /\ y \in Int
    BY <1>5
  <2>2. \A z \in S : z > y => z > x
    BY <2>1, <1>5
  <2>3. above(y) \subseteq T
    BY <1>4, <2>2
  <2>4. y \in T /\ y \notin above(y)
    BY <1>4, <1>5, <2>1
  <2>5. <<above(y), T>> \in StrictSubsetOrdering(S)
    BY <1>4, <2>3, <2>4 DEF StrictSubsetOrdering
  <2> QED BY <1>3, <2>5
<1>6. \A y \in S : x >= y
  BY <1>5
<1> QED BY <1>6 DEF Max

(* The value of a field is absent or the value of one of its members.      *)
LEMMA LastOfMember ==
    ASSUME NEW members, members \in Seq(Range(members)), NEW field
    PROVE  \/ LastOf(members, field) = Null
           \/ \E m \in Range(members) : m.key = field /\ LastOf(members, field) = m.value
<1> DEFINE named == {i \in DOMAIN members : Names(members[i], {field})}
<1>1. CASE named = {}
  BY <1>1 DEF LastOf
<1>2. CASE named # {}
  <2>1. DOMAIN members = 1 .. Len(members) /\ Len(members) \in Nat
    OBVIOUS
  <2>2. named \in SUBSET Int /\ IsFiniteSet(named)
    <3>1. IsFiniteSet(1 .. Len(members))
      BY <2>1, FS_Interval
    <3>2. named \in SUBSET (1 .. Len(members))
      BY <2>1
    <3> QED BY <2>1, <3>1, <3>2, FS_Subset
  <2>3. Max(named) \in named
    BY <1>2, <2>2, MaxIsGreatest
  <2>4. LastOf(members, field) = members[Max(named)].value
    BY <1>2 DEF LastOf
  <2> QED BY <2>3, <2>4 DEF Range, Names
<1> QED BY <1>1, <1>2

(* What the fields of a configure stand for when they are absent.          *)
LEMMA ZeroOf ==
    /\ Zero("operation") = "" /\ Zero("newestFirst") = FALSE
    /\ Zero("configurationGeneration") = 0
<1>1. "operation" \in StringFields
  BY DEF StringFields
<1>2. "newestFirst" \in BoolFields /\ "newestFirst" \notin StringFields
      /\ "newestFirst" \notin IntFields /\ "newestFirst" \notin StringLists \cup IntLists
  BY DEF StringFields, IntFields, BoolFields, StringLists, IntLists
<1>3. /\ "configurationGeneration" \in IntFields
      /\ "configurationGeneration" \notin StringFields
      /\ "configurationGeneration" \notin BoolFields
      /\ "configurationGeneration" \notin StringLists \cup IntLists
  BY DEF StringFields, IntFields, BoolFields, StringLists, IntLists
<1>4. "operation" \notin IntFields /\ "operation" \notin BoolFields
      /\ "operation" \notin StringLists \cup IntLists
  BY DEF StringFields, IntFields, BoolFields, StringLists, IntLists
<1>5. Zero("operation") = ""
  BY <1>1, <1>4 DEF Zero
<1>6. Zero("newestFirst") = FALSE
  BY <1>2 DEF Zero
<1>7. Zero("configurationGeneration") = 0
  BY <1>3 DEF Zero
<1> QED BY <1>5, <1>6, <1>7

(* What a text that is well-formed asks for has the types of its fields.   *)
LEMMA RequestTyped ==
    ASSUME NEW i \in DOMAIN Texts, Texts[i].form = "object",
           ParseRequest(Texts[i].members) # Malformed
    PROVE  LET request == ParseRequest(Texts[i].members)
           IN  request.newestFirst \in BOOLEAN /\ request.configurationGeneration \in Generation
<1> DEFINE members == Texts[i].members
<1>1. /\ members \in Seq(Range(members)) /\ 0 \in Generation
      /\ \A m \in Range(members) : IsJson(m.value) /\ Bounded(m)
  BY ApiAssumption
<1>2. /\ "newestFirst" \in RequestFields \ {"selection"}
      /\ "configurationGeneration" \in RequestFields \ {"selection"}
  BY DEF RequestFields, StringFields, IntFields, BoolFields, SelectionFields
<1>3. /\ \A f \in RequestFields \ {"selection"} : Fits(f, LastOf(members, f))
      /\ ParseRequest(members) =
           [f \in RequestFields |-> IF f = "selection" THEN SelectionOf(LastOf(members, f))
                                    ELSE Decoded(f, LastOf(members, f))]
  BY DEF ParseRequest
<1> DEFINE newest == LastOf(members, "newestFirst")
           generation == LastOf(members, "configurationGeneration")
<1>4. /\ ParseRequest(members).newestFirst = Decoded("newestFirst", newest)
      /\ ParseRequest(members).configurationGeneration
           = Decoded("configurationGeneration", generation)
  BY <1>2, <1>3
<1>5. Decoded("newestFirst", newest) \in BOOLEAN
  <2>1. CASE newest = Null
    <3>1. IsNull(newest)
      BY <2>1 DEF IsNull, Null
    <3> QED BY <3>1, ZeroOf DEF Decoded
  <2>2. CASE newest # Null
    <3>1. IsJson(newest)
      BY <1>1, <2>2, LastOfMember
    <3>2. Fits("newestFirst", newest)
      BY <1>2, <1>3
    <3> QED BY <3>1, <3>2 DEF IsJson, Fits, Decoded, IsNull, Zero, ScalarType,
               StringFields, IntFields, BoolFields, StringLists, IntLists
  <2> QED BY <2>1, <2>2
<1>6. Decoded("configurationGeneration", generation) \in Generation
  <2>1. CASE generation = Null
    <3>1. IsNull(generation)
      BY <2>1 DEF IsNull, Null
    <3> QED BY <1>1, <3>1, ZeroOf DEF Decoded
  <2>2. CASE generation # Null
    <3>1. generation.type = "int" => generation.v \in Generation
      BY <1>1, <2>2, LastOfMember DEF Bounded
    <3>2. Fits("configurationGeneration", generation)
      BY <1>2, <1>3
    <3> QED BY <1>1, <3>1, <3>2 DEF Fits, Decoded, IsNull, Zero, ScalarType,
               StringFields, IntFields, BoolFields, StringLists, IntLists
  <2> QED BY <2>1, <2>2
<1> QED BY <1>4, <1>5, <1>6

(* A request is one operation of the runtime, or nothing at all.           *)
LEMMA TextIsOperation ==
    ASSUME NEW t \in Caller, NEW i \in DOMAIN Texts, FluxCoreRequest(t, i)
    PROVE  CallBegins(t)
<1> DEFINE request == Requests[i]
<1>1. CASE Reject(t)
  BY <1>1 DEF CallBegins
<1>2. ASSUME Texts[i].form = "object", request # Malformed, Supported(request),
             Dispatch(t, request)
      PROVE  CallBegins(t)
  <2>1. CASE request.operation = "configure" /\ Valid(request)
    <3>1. Configure(t, Asked(request))
      BY <1>2, <2>1 DEF Dispatch
    <3>2. request = ParseRequest(Texts[i].members)
      BY <1>2 DEF Requests, Decode
    <3>3. AccountAt[request.server] \in Account
      BY <2>1, ApiAssumption DEF Valid
    <3>4. Asked(request) \in Configuration
      BY <1>2, <3>2, <3>3, RequestTyped DEF Asked, Configuration
    <3> QED BY <3>1, <3>4 DEF CallBegins
  <2>2. CASE request.operation = "configure" /\ ~Valid(request)
    BY <1>2, <2>2 DEF Dispatch, CallBegins
  <2>3. CASE request.operation # "configure"
    BY <1>2, <2>3 DEF Dispatch, Supported, Operations, StartOrNotConfigured, CallBegins
  <2> QED BY <2>1, <2>2, <2>3
<1>3. CASE Texts[i].form = "null"
  <2>1. request = DefaultRequest
    BY <1>3 DEF Requests, Decode
  <2>2. ~Supported(request)
    <3>1. request.operation = ""
      BY <2>1, ZeroOf DEF DefaultRequest, RequestFields, StringFields, SelectionFields, Absent
    <3> QED BY <3>1 DEF Supported, Operations
  <2>3. Reject(t)
    BY <1>3, <2>2 DEF FluxCoreRequest, Perform
  <2> QED BY <1>1, <2>3
<1>4. CASE Texts[i].form = "object" /\ ~Reject(t)
  BY <1>2, <1>4 DEF FluxCoreRequest, Perform
<1> QED BY <1>1, <1>3, <1>4, ApiAssumption DEF FluxCoreRequest

(* So is a step of the boundary: a step of the runtime or none.            *)
LEMMA ApiStepIsRuntimeStep == [ApiNext]_runtimeVars => [RuntimeNext]_runtimeVars
  BY TextIsOperation DEF ApiNext, RuntimeNext, FluxCoreFree

(* The boundary implements the runtime: no text, however malformed, makes  *)
(* the core do what is not one of the runtime's operations with arguments  *)
(* it knows (process, dispatch).                                           *)
THEOREM BoundaryHolds == ApiSpec => BoundaryIsRuntime
<1>1. [ApiNext]_runtimeVars => [RuntimeNext]_runtimeVars
  BY ApiStepIsRuntimeStep
<1> QED BY <1>1, PTL DEF ApiSpec, BoundaryIsRuntime

(* So what is proved of the runtime holds whatever is sent to the core.    *)
THEOREM ServedSafely ==
    ApiSpec => [](TypeOK /\ OneService /\ SessionIsLatest /\ WishesHaveAWorker)
<1>1. BoundaryIsRuntime => RuntimeSpec
  BY DEF BoundaryIsRuntime, RuntimeSpec
<1> QED BY <1>1, BoundaryHolds, TypeCorrect, OneServiceHolds, SessionIsLatestHolds,
           WishesHaveAWorkerHolds, PTL
=============================================================================
