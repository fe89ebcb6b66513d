-------------------------- MODULE RemoteWorkProofs --------------------------
(***************************************************************************)
(* Proofs about the threads that talk to Miniflux, for any number of       *)
(* threads and feeds and any deadlines: requests keep the deadline of      *)
(* their call, the gate loses no wake-up, an icon has one load at a time   *)
(* and its waiters find it.                                                *)
(***************************************************************************)
EXTENDS IconCache, TLAPS

Inside == {"holding", "remote", "sent", "clear", "leave"}

(* The holder of the gate is the thread inside, and the client has its     *)
(* deadline while it sends.                                                *)
GateInv ==
    \A t \in Thread :
        /\ pc[t] \in Inside <=> holder = t
        /\ pc[t] \in {"remote", "sent"} => operationDeadline = due[t]
        /\ pc[t] = "sent" => until[t] <= due[t]

(* A load that is listed is the one at work on its feed, ...               *)
LoadsInv ==
    /\ \A t \in Thread : pc[t] \in Loading => loads[feed[t]] = t
    /\ \A f \in Feed : loads[f] # NoThread => pc[loads[f]] \in Loading /\ feed[loads[f]] = f

(* ... a waiter's load is under way and for its feed, ...                  *)
SlotsInv ==
    \A u \in Thread :
        /\ slot[u] # NoThread => pc[u] \in {"await", "reread"}
        /\ slot[u] \in Thread => /\ feed[slot[u]] = feed[u]
                                 /\ pc[slot[u]] \in Loading \cup {"ready"}

(* ... and an icon that a load has brought was cached before the load is   *)
(* given up.                                                               *)
OutcomeInv ==
    \A t \in Thread :
        /\ outcome[t] = "icon" =>
             pc[t] = "store" \/ (pc[t] \in {"release", "ready"} /\ feed[t] \in cache)
        /\ slot[t] = "icon" => feed[t] \in cache

RInv == TypeOK /\ GateInv /\ NoLostWakeup /\ LoadsInv /\ SlotsInv /\ OutcomeInv

-----------------------------------------------------------------------------
GateWork(t) == StartRemote(t) \/ GateStep(t) \/ Answered(t)
IconWork(t) == (\E f \in Feed : FeedIcon(t, f)) \/ IconStep(t) \/ IconAnswered(t)

(* The smaller of two numbers (Min of two).                                *)
LEMMA MinOfTwo ==
    ASSUME NEW a \in Int, NEW b \in Int
    PROVE  /\ Min({a, b}) \in {a, b}
           /\ Min({a, b}) <= a
           /\ Min({a, b}) <= b
<1> DEFINE P(x) == x \in {a, b} /\ \A y \in {a, b} : x <= y
<1>1. \E x : P(x)
  <2>1. CASE a <= b
    BY <2>1
  <2>2. CASE b <= a
    BY <2>2
  <2> QED BY <2>1, <2>2
<1>2. P(CHOOSE x : P(x))
  BY <1>1
<1>3. Min({a, b}) = CHOOSE x \in {a, b} : \A y \in {a, b} : x <= y
  BY DEF Min
<1> QED BY <1>1, <1>3

(* A request is over when its timeout is, which its deadline bounds.       *)
LEMMA TimeoutBounds ==
    ASSUME TypeOK, NEW deadline \in Time, deadline = Never \/ now < deadline
    PROVE  /\ now + Timeout(deadline) \in Time
           /\ now + Timeout(deadline) <= deadline
<1> USE ClientAssumption DEF Time, Never, TypeOK
<1>1. CASE deadline = Never
  BY <1>1 DEF Timeout
<1>2. CASE deadline # Never
  <2>1. Timeout(deadline) = Min({deadline - now, RequestTicks})
    BY <1>2 DEF Timeout
  <2>2. deadline - now \in Int /\ RequestTicks \in Int
    OBVIOUS
  <2> DEFINE left == deadline - now
  <2>3. /\ Min({left, RequestTicks}) \in {left, RequestTicks}
        /\ Min({left, RequestTicks}) <= left
    <3> HIDE DEF left
    <3> QED BY <2>2, MinOfTwo DEF left
  <2> QED BY <1>2, <2>1, <2>3
<1> QED BY <1>1, <1>2

(* What a step of one thread leaves alone: the others' places and times.   *)
LEMMA OthersKept ==
    ASSUME TypeOK, NEW t \in Thread, GateWork(t) \/ IconWork(t),
           NEW u \in Thread, u # t
    PROVE  pc'[u] = pc[u] /\ due'[u] = due[u] /\ until'[u] = until[u]
<1> USE DEF TypeOK, Go, Finish, Begin, Execute, Look, Return, ClientKept, Drop, iconVars
<1>1. ASSUME GateWork(t) PROVE pc'[u] = pc[u] /\ due'[u] = due[u] /\ until'[u] = until[u]
  BY <1>1 DEF GateWork, StartRemote, GateStep, LockUntil, WakeUp, LendDeadline, Request,
     TimesOut, Answered, EndWork, DropDeadline, DropGate
<1>2. ASSUME IconWork(t) PROVE pc'[u] = pc[u] /\ due'[u] = due[u] /\ until'[u] = until[u]
  BY <1>2 DEF IconWork, FeedIcon, IconStep, LookInCache, LookInLoads, InsertLoad, Await,
     Reread, RequestIcon, IconTimesOut, IconAnswered, ProcessIcon, StoreIcon, ReleaseLoad,
     MarkReady
<1> QED BY <1>1, <1>2

(* Loading an icon leaves the gate and the client's deadline alone.        *)
LEMMA IconWorkApart ==
    ASSUME TypeOK, NEW t \in Thread, IconWork(t)
    PROVE  /\ UNCHANGED <<now, holder, woken, operationDeadline>>
           /\ pc[t] \in IconPhase \cup {"idle"} /\ pc'[t] \in IconPhase \cup {"idle"}
  BY DEF IconWork, FeedIcon, IconStep, LookInCache, LookInLoads, InsertLoad, Await,
     Reread, RequestIcon, IconTimesOut, IconAnswered, ProcessIcon, StoreIcon, ReleaseLoad,
     MarkReady, TypeOK, Go, Finish, Begin, Execute, Return, ClientKept, iconVars, IconPhase

(* Flushing and refreshing leave the icons alone.                          *)
LEMMA GateWorkApart ==
    ASSUME TypeOK, NEW t \in Thread, GateWork(t)
    PROVE  /\ UNCHANGED now
           /\ pc[t] \in GatePhase \cup {"idle"} /\ pc'[t] \in GatePhase \cup {"idle"}
  BY DEF GateWork, StartRemote, GateStep, LockUntil, WakeUp, LendDeadline, Request,
     TimesOut, Answered, EndWork, DropDeadline, DropGate, AfterDrop, TypeOK, Go, Finish,
     Begin, Execute, Look, Drop, GatePhase

-----------------------------------------------------------------------------
(* The types of what flushes and refreshes change.                         *)
LEMMA GateTypes ==
    ASSUME TypeOK, GateInv, NEW t \in Thread, GateWork(t), UNCHANGED iconVars
    PROVE  TypeOK'
<1>1. pc' \in [Thread -> GatePhase \cup IconPhase \cup {"idle"}]
  <2>1. DOMAIN pc' = Thread /\ pc' = [u \in Thread |-> pc'[u]]
    BY DEF GateWork, StartRemote, GateStep, LockUntil, WakeUp, LendDeadline, Request,
       TimesOut, Answered, EndWork, DropDeadline, DropGate, TypeOK, Go, Finish,
       Begin, Execute, Look, Drop
  <2> QED BY <2>1, OthersKept, GateWorkApart DEF TypeOK
<1>2. due' \in [Thread -> Time]
  BY ClientAssumption DEF GateWork, StartRemote, GateStep, LockUntil, WakeUp, LendDeadline,
     Request, TimesOut, Answered, EndWork, DropDeadline, DropGate, TypeOK, Go, Finish,
     Begin, Execute, Look, Drop, Time, Never
<1>3. operationDeadline' \in Time /\ holder' \in Thread \cup {NoThread}
  BY ClientAssumption DEF GateWork, StartRemote, GateStep, LockUntil, WakeUp, LendDeadline,
     Request, TimesOut, Answered, EndWork, DropDeadline, DropGate, TypeOK, Execute,
     Look, Time, Never
<1>4. until' \in [Thread -> Time]
  <2>1. CASE Request(t)
    <3>1. CASE operationDeadline # Never /\ now >= operationDeadline
      BY <2>1, <3>1 DEF Request, Execute, TypeOK
    <3>2. CASE ~(operationDeadline # Never /\ now >= operationDeadline)
      <4>1. operationDeadline = Never \/ now < operationDeadline
        BY <3>2, ClientAssumption DEF TypeOK, Time, Never
      <4>2. now + Timeout(operationDeadline) \in Time
        BY <4>1, TimeoutBounds DEF TypeOK
      <4> QED BY <2>1, <3>2, <4>2 DEF Request, Execute, TypeOK
    <3> QED BY <3>1, <3>2
  <2>2. CASE ~Request(t)
    BY <2>2, ClientAssumption DEF GateWork, StartRemote, GateStep, LockUntil, WakeUp,
       LendDeadline, TimesOut, Answered, EndWork, DropDeadline, DropGate, TypeOK, Look,
       Time, Never
  <2> QED BY <2>1, <2>2
<1>5. woken' \subseteq Asleep'
  <2>1. Asleep \ {t} \subseteq Asleep'
    BY OthersKept DEF Asleep
  <2>2. CASE LockUntil(t) \/ WakeUp(t)
    BY <2>1, <2>2 DEF LockUntil, WakeUp, Look, Awake, TypeOK
  <2>3. CASE DropGate(t)
    <3>1. pc[t] # "asleep"
      BY <2>3 DEF DropGate, Drop
    <3>2. Asleep \subseteq Asleep'
      BY <2>1, <3>1 DEF Asleep
    <3> QED BY <2>3, <3>2 DEF DropGate, TypeOK
  <2>4. CASE ~(LockUntil(t) \/ WakeUp(t) \/ DropGate(t))
    <3>1. UNCHANGED woken /\ pc[t] # "asleep"
      BY <2>4 DEF GateWork, StartRemote, Begin, GateStep, LendDeadline, Request, Execute,
         TimesOut, Answered, EndWork, DropDeadline, Drop, Go
    <3>2. Asleep \subseteq Asleep'
      BY <2>1, <3>1 DEF Asleep
    <3> QED BY <3>1, <3>2 DEF TypeOK
  <2> QED BY <2>2, <2>3, <2>4
<1>6. now' = now
  BY GateWorkApart
<1> QED BY <1>1, <1>2, <1>3, <1>4, <1>5, <1>6 DEF TypeOK, iconVars

(* The types of what icon loads change.                                    *)
LEMMA IconTypes ==
    ASSUME TypeOK, LoadsInv, NEW t \in Thread, IconWork(t)
    PROVE  TypeOK'
<1>1. pc' \in [Thread -> GatePhase \cup IconPhase \cup {"idle"}]
  <2>1. DOMAIN pc' = Thread /\ pc' = [u \in Thread |-> pc'[u]]
    BY DEF IconWork, FeedIcon, IconStep, LookInCache, LookInLoads, InsertLoad, Await,
     Reread, RequestIcon, IconTimesOut, IconAnswered, ProcessIcon, StoreIcon, ReleaseLoad,
     MarkReady, TypeOK, Go, Finish, Begin, Execute, Return
  <2> QED BY <2>1, OthersKept, IconWorkApart DEF TypeOK
<1>2. due' \in [Thread -> Time]
  BY ClientAssumption, IconAssumption
  DEF IconWork, FeedIcon, IconStep, LookInCache, LookInLoads, InsertLoad, Await,
     Reread, RequestIcon, IconTimesOut, IconAnswered, ProcessIcon, StoreIcon, ReleaseLoad,
     MarkReady, TypeOK, Go, Finish, Begin, Execute, Return, Time, Never
<1>3. until' \in [Thread -> Time]
  <2>1. CASE RequestIcon(t)
    <3>1. CASE due[t] # Never /\ now >= due[t]
      BY <2>1, <3>1 DEF RequestIcon, Execute, TypeOK
    <3>2. CASE ~(due[t] # Never /\ now >= due[t])
      <4>1. due[t] = Never \/ now < due[t]
        BY <3>2, ClientAssumption DEF TypeOK, Time, Never
      <4>2. now + Timeout(due[t]) \in Time
        BY <4>1, TimeoutBounds DEF TypeOK
      <4> QED BY <2>1, <3>2, <4>2 DEF RequestIcon, Execute, TypeOK
    <3> QED BY <3>1, <3>2
  <2>2. CASE ~RequestIcon(t)
    BY <2>2, ClientAssumption DEF IconWork, FeedIcon, IconStep, LookInCache, LookInLoads,
       InsertLoad, Await, Reread, IconTimesOut, IconAnswered, ProcessIcon, StoreIcon,
       ReleaseLoad, MarkReady, TypeOK, ClientKept, Time, Never
  <2> QED BY <2>1, <2>2
<1>4. woken' \subseteq Asleep'
  <2>1. pc[t] # "asleep"
    BY IconWorkApart DEF IconPhase
  <2>2. Asleep \subseteq Asleep'
    BY <2>1, OthersKept DEF Asleep
  <2> QED BY <2>2, IconWorkApart DEF TypeOK
<1>5. /\ cache' \subseteq Feed
      /\ loads' \in [Feed -> Thread \cup {NoThread}]
      /\ feed' \in [Thread -> Feed]
  BY DEF IconWork, FeedIcon, IconStep, LookInCache, LookInLoads, InsertLoad, Await,
     Reread, RequestIcon, IconTimesOut, IconAnswered, ProcessIcon, StoreIcon, Stored,
     ReleaseLoad, MarkReady, TypeOK, iconVars
<1>6. outcome' \in [Thread -> Outcome]
  BY DEF IconWork, FeedIcon, IconStep, LookInCache, LookInLoads, InsertLoad, Await,
     Reread, RequestIcon, IconTimesOut, IconAnswered, ProcessIcon, StoreIcon,
     ReleaseLoad, MarkReady, TypeOK, iconVars, Outcome
<1>7. slot' \in [Thread -> Thread \cup {NoThread} \cup Outcome]
  BY DEF IconWork, FeedIcon, IconStep, LookInCache, LookInLoads, InsertLoad, Await,
     Reread, RequestIcon, IconTimesOut, IconAnswered, ProcessIcon, StoreIcon,
     ReleaseLoad, MarkReady, Return, TypeOK, iconVars
<1> QED BY <1>1, <1>2, <1>3, <1>4, <1>5, <1>6, <1>7, IconWorkApart DEF TypeOK

-----------------------------------------------------------------------------
(* A flush or refresh keeps the gate, the deadline and the timeout in      *)
(* step: only the holder lends a deadline or takes one away.               *)
LEMMA GateKeepsGate ==
    ASSUME TypeOK, GateInv, NEW t \in Thread, GateWork(t)
    PROVE  GateInv'
<1> SUFFICES ASSUME NEW u \in Thread
             PROVE  /\ pc'[u] \in Inside <=> holder' = u
                    /\ pc'[u] \in {"remote", "sent"} => operationDeadline' = due'[u]
                    /\ pc'[u] = "sent" => until'[u] <= due'[u]
  BY DEF GateInv
<1> USE ClientAssumption
<1>1. CASE StartRemote(t)
  BY <1>1 DEF StartRemote, Begin, Go, GateInv, TypeOK, Inside
<1>2. CASE LockUntil(t) \/ WakeUp(t)
  BY <1>2 DEF LockUntil, WakeUp, Look, Go, Finish, GateInv, TypeOK, Inside
<1>3. CASE LendDeadline(t)
  BY <1>3 DEF LendDeadline, Go, GateInv, TypeOK, Inside
<1>4. CASE Request(t)
  <2>1. operationDeadline = due[t] /\ due[t] \in Time /\ holder = t
    BY <1>4 DEF Request, GateInv, TypeOK, Inside
  <2>2. CASE operationDeadline # Never /\ now >= operationDeadline
    BY <1>4, <2>1, <2>2 DEF Request, Execute, AfterDrop, Go, GateInv, TypeOK, Inside
  <2>3. CASE ~(operationDeadline # Never /\ now >= operationDeadline)
    <3>1. due[t] = Never \/ now < due[t]
      BY <2>1, <2>3 DEF TypeOK, Time, Never
    <3>2. now + Timeout(due[t]) <= due[t]
      BY <2>1, <3>1, TimeoutBounds
    <3> QED BY <1>4, <2>1, <2>3, <3>2 DEF Request, Execute, Go, GateInv, TypeOK, Inside
  <2> QED BY <2>2, <2>3
<1>5. CASE Answered(t)
  BY <1>5 DEF Answered, Go, GateInv, TypeOK, Inside
<1>6. CASE EndWork(t)
  BY <1>6 DEF EndWork, AfterDrop, Go, GateInv, TypeOK, Inside
<1>7. CASE DropDeadline(t)
  BY <1>7 DEF DropDeadline, Drop, AfterDrop, Go, GateInv, TypeOK, Inside
<1>8. CASE DropGate(t)
  BY <1>8 DEF DropGate, Drop, AfterDrop, Finish, Go, GateInv, TypeOK, Inside
<1> QED BY <1>1, <1>2, <1>3, <1>4, <1>5, <1>6, <1>7, <1>8 DEF GateWork, GateStep, TimesOut

(* An icon load has nothing to do with the gate.                           *)
LEMMA IconKeepsGate ==
    ASSUME TypeOK, GateInv, NEW t \in Thread, IconWork(t)
    PROVE  GateInv'
<1> SUFFICES ASSUME NEW u \in Thread
             PROVE  /\ pc'[u] \in Inside <=> holder' = u
                    /\ pc'[u] \in {"remote", "sent"} => operationDeadline' = due'[u]
                    /\ pc'[u] = "sent" => until'[u] <= due'[u]
  BY DEF GateInv
<1>1. UNCHANGED <<holder, operationDeadline>>
  BY IconWorkApart
<1>2. CASE u = t
  BY <1>1, <1>2, IconWorkApart DEF GateInv, Inside, IconPhase
<1>3. CASE u # t
  BY <1>1, <1>3, OthersKept DEF GateInv
<1> QED BY <1>2, <1>3

(* Who gives the gate back wakes a sleeper, unless all are awake; who is   *)
(* awake and finds it free takes it.                                       *)
LEMMA GateKeepsWakeups ==
    ASSUME TypeOK, NoLostWakeup, NEW t \in Thread, GateWork(t)
    PROVE  NoLostWakeup'
<1> SUFFICES ASSUME holder' = NoThread, NEW s \in Thread, pc'[s] = "asleep"
             PROVE  \E u \in Asleep' : u \in woken' \/ now' >= due'[u]
  BY DEF NoLostWakeup, Asleep
<1> USE ClientAssumption
<1>1. CASE LockUntil(t) \/ WakeUp(t)
  <2>1. holder # NoThread => holder' # NoThread
    BY <1>1 DEF LockUntil, WakeUp, Look
  <2>2. holder = NoThread => holder' = t
    BY <1>1 DEF LockUntil, WakeUp, Look, GivesUp
  <2> QED BY <2>1, <2>2
<1>2. CASE DropGate(t)
  <2>1. pc[t] # "asleep" /\ pc'[t] # "asleep"
    BY <1>2 DEF DropGate, Drop, AfterDrop, Finish, Go, TypeOK
  <2>2. Asleep' = Asleep
    BY <2>1, OthersKept DEF Asleep
  <2>3. CASE Asleep \ woken = {}
    BY <1>2, <2>2, <2>3 DEF DropGate, Asleep
  <2>4. CASE Asleep \ woken # {}
    BY <1>2, <2>2, <2>4 DEF DropGate
  <2> QED BY <2>3, <2>4
<1>3. CASE ~(LockUntil(t) \/ WakeUp(t) \/ DropGate(t))
  <2>1. UNCHANGED <<woken, holder, now>> /\ pc[t] # "asleep" /\ pc'[t] # "asleep"
    BY <1>3 DEF GateWork, StartRemote, Begin, GateStep, LendDeadline, Request, Execute,
       TimesOut, Answered, EndWork, DropDeadline, Drop, AfterDrop, Go, Finish, TypeOK
  <2>2. Asleep' = Asleep /\ s \in Asleep
    BY <2>1, OthersKept DEF Asleep
  <2>3. PICK u \in Asleep : u \in woken \/ now >= due[u]
    BY <2>1, <2>2 DEF NoLostWakeup
  <2>4. u # t /\ u \in Thread
    BY <2>1 DEF Asleep
  <2> QED BY <2>1, <2>2, <2>3, <2>4, OthersKept
<1> QED BY <1>1, <1>2, <1>3

(* An icon load wakes and puts to sleep nobody at the gate.                *)
LEMMA IconKeepsWakeups ==
    ASSUME TypeOK, NoLostWakeup, NEW t \in Thread, IconWork(t)
    PROVE  NoLostWakeup'
<1>1. UNCHANGED <<now, holder, woken>> /\ pc[t] # "asleep" /\ pc'[t] # "asleep"
  BY IconWorkApart DEF IconPhase
<1>2. Asleep' = Asleep /\ \A u \in Asleep : due'[u] = due[u]
  BY <1>1, OthersKept DEF Asleep
<1> QED BY <1>1, <1>2 DEF NoLostWakeup

-----------------------------------------------------------------------------
(* Flushes and refreshes touch no load, slot or outcome.                   *)
LEMMA GateKeepsIcons ==
    ASSUME TypeOK, LoadsInv, SlotsInv, OutcomeInv, NEW t \in Thread, GateWork(t),
           UNCHANGED iconVars
    PROVE  LoadsInv' /\ SlotsInv' /\ OutcomeInv'
<1>1. pc[t] \notin IconPhase /\ pc'[t] \notin IconPhase
  BY GateWorkApart DEF IconPhase, GatePhase
<1>2. \A u \in Thread : pc'[u] = pc[u] \/ (pc[u] \notin IconPhase /\ pc'[u] \notin IconPhase)
  BY <1>1, OthersKept
<1>3. LoadsInv'
  BY <1>2 DEF LoadsInv, iconVars, Loading, IconPhase, TypeOK
<1>4. SlotsInv'
  BY <1>2 DEF SlotsInv, iconVars, Loading, IconPhase, TypeOK
<1>5. OutcomeInv'
  BY <1>2 DEF OutcomeInv, iconVars, Loading, IconPhase, TypeOK
<1> QED BY <1>3, <1>4, <1>5

(* A load is inserted only where there is none, and only its own thread    *)
(* takes it away (InsertLoad, ReleaseLoad).                                *)
LEMMA IconKeepsLoads ==
    ASSUME TypeOK, LoadsInv, NEW t \in Thread, IconWork(t)
    PROVE  LoadsInv'
<1> USE ClientAssumption
<1>1. CASE InsertLoad(t)
  <2>1. CASE Taken(t)
    BY <1>1, <2>1 DEF InsertLoad, Go, LoadsInv, TypeOK, Loading
  <2>2. CASE ~Taken(t)
    BY <1>1, <2>2 DEF InsertLoad, Taken, Go, LoadsInv, TypeOK, Loading
  <2> QED BY <2>1, <2>2
<1>2. CASE ReleaseLoad(t)
  BY <1>2 DEF ReleaseLoad, Go, LoadsInv, TypeOK, Loading
<1>3. CASE \E f \in Feed : FeedIcon(t, f)
  BY <1>3 DEF FeedIcon, Begin, Go, LoadsInv, TypeOK, Loading
<1>4. CASE LookInCache(t) \/ LookInLoads(t) \/ Await(t) \/ Reread(t) \/ MarkReady(t)
  BY <1>4 DEF LookInCache, LookInLoads, Await, Reread, MarkReady, Return, Finish, Go,
     LoadsInv, TypeOK, Loading
<1>5. CASE RequestIcon(t) \/ IconAnswered(t) \/ ProcessIcon(t) \/ StoreIcon(t)
  BY <1>5 DEF RequestIcon, Execute, IconAnswered, ProcessIcon, StoreIcon, Go, iconVars,
     LoadsInv, TypeOK, Loading
<1> QED BY <1>1, <1>2, <1>3, <1>4, <1>5 DEF IconWork, IconStep, IconTimesOut

(* A waiter waits for a load of its own feed that has yet to wake it.      *)
LEMMA IconKeepsSlots ==
    ASSUME TypeOK, LoadsInv, SlotsInv, NEW t \in Thread, IconWork(t)
    PROVE  SlotsInv'
<1> USE ClientAssumption, IconAssumption
<1>1. CASE MarkReady(t)
  <2> SUFFICES ASSUME NEW u \in Thread
               PROVE  /\ slot'[u] # NoThread => pc'[u] \in {"await", "reread"}
                      /\ slot'[u] \in Thread => /\ feed'[slot'[u]] = feed'[u]
                                                /\ pc'[slot'[u]] \in Loading \cup {"ready"}
    BY DEF SlotsInv
  <2>1. slot[t] = NoThread
    BY <1>1 DEF MarkReady, SlotsInv
  <2>2. CASE slot[u] = t
    BY <1>1, <2>1, <2>2 DEF MarkReady, Finish, Go, SlotsInv, TypeOK, Outcome
  <2>3. CASE slot[u] # t
    BY <1>1, <2>1, <2>3 DEF MarkReady, Finish, Go, SlotsInv, TypeOK
  <2> QED BY <2>2, <2>3
<1>2. CASE LookInLoads(t)
  BY <1>2 DEF LookInLoads, Go, SlotsInv, LoadsInv, TypeOK, Loading
<1>3. CASE \E f \in Feed : FeedIcon(t, f)
  BY <1>3 DEF FeedIcon, Begin, Go, SlotsInv, TypeOK, Loading
<1>4. CASE LookInCache(t) \/ Await(t) \/ Reread(t)
  BY <1>4 DEF LookInCache, Await, Reread, Return, Finish, Go, SlotsInv, TypeOK, Loading
<1>5. CASE InsertLoad(t) \/ ReleaseLoad(t)
  BY <1>5 DEF InsertLoad, ReleaseLoad, Go, SlotsInv, TypeOK, Loading
<1>6. CASE RequestIcon(t) \/ IconAnswered(t) \/ ProcessIcon(t) \/ StoreIcon(t)
  BY <1>6 DEF RequestIcon, Execute, IconAnswered, ProcessIcon, StoreIcon, Go, iconVars,
     SlotsInv, TypeOK, Loading
<1> QED BY <1>1, <1>2, <1>3, <1>4, <1>5, <1>6 DEF IconWork, IconStep, IconTimesOut

(* An icon is in the cache before its load ends and its waiters are woken. *)
LEMMA IconKeepsOutcome ==
    ASSUME TypeOK, SlotsInv, OutcomeInv, NEW t \in Thread, IconWork(t)
    PROVE  OutcomeInv'
<1> USE ClientAssumption, IconAssumption
<1>1. CASE MarkReady(t)
  <2> SUFFICES ASSUME NEW u \in Thread
               PROVE  /\ outcome'[u] = "icon" =>
                           \/ pc'[u] = "store"
                           \/ pc'[u] \in {"release", "ready"} /\ feed'[u] \in cache'
                      /\ slot'[u] = "icon" => feed'[u] \in cache'
    BY DEF OutcomeInv
  <2>1. outcome'[u] = "icon" =>
           \/ pc'[u] = "store"
           \/ pc'[u] \in {"release", "ready"} /\ feed'[u] \in cache'
    BY <1>1 DEF MarkReady, Finish, Go, ClientKept, OutcomeInv, TypeOK
  <2>2. slot'[u] = "icon" => feed'[u] \in cache'
    BY <1>1 DEF MarkReady, Finish, Go, ClientKept, OutcomeInv, SlotsInv, TypeOK
  <2> QED BY <2>1, <2>2
<1>2. CASE LookInLoads(t)
  BY <1>2 DEF LookInLoads, Go, OutcomeInv, TypeOK
<1>3. CASE \E f \in Feed : FeedIcon(t, f)
  BY <1>3 DEF FeedIcon, Begin, Go, OutcomeInv, SlotsInv, TypeOK
<1>4. CASE LookInCache(t) \/ Await(t) \/ Reread(t)
  BY <1>4 DEF LookInCache, Await, Reread, Return, Finish, Go, OutcomeInv, TypeOK
<1>5. CASE InsertLoad(t) \/ ReleaseLoad(t)
  BY <1>5 DEF InsertLoad, ReleaseLoad, Go, OutcomeInv, TypeOK
<1>6. CASE RequestIcon(t) \/ IconAnswered(t)
  BY <1>6 DEF RequestIcon, Execute, IconAnswered, Go, iconVars, OutcomeInv, TypeOK
<1>7. CASE ProcessIcon(t) \/ StoreIcon(t)
  BY <1>7 DEF ProcessIcon, StoreIcon, Stored, Go, OutcomeInv, TypeOK
<1> QED BY <1>1, <1>2, <1>3, <1>4, <1>5, <1>6, <1>7 DEF IconWork, IconStep, IconTimesOut

-----------------------------------------------------------------------------
(* Time passes: nobody moves, and who waits is nearer its deadline.        *)
LEMMA TickKeeps ==
    ASSUME RInv, Tick, UNCHANGED iconVars
    PROVE  RInv'
<1> USE ClientAssumption
<1>1. TypeOK'
  BY DEF RInv, Tick, TypeOK, Asleep, iconVars
<1>2. GateInv'
  BY DEF RInv, Tick, GateInv
<1>3. NoLostWakeup'
  <2>1. Asleep' = Asleep /\ now' >= now /\ now \in Nat /\ now' \in Nat
    BY DEF Tick, Asleep, RInv, TypeOK
  <2>2. \A u \in Asleep : now >= due[u] => now' >= due'[u]
    BY <2>1 DEF Tick, RInv, TypeOK, Asleep, Time, Never
  <2> QED BY <2>1, <2>2 DEF Tick, RInv, NoLostWakeup
<1>4. LoadsInv' /\ SlotsInv' /\ OutcomeInv'
  BY DEF RInv, Tick, iconVars, LoadsInv, SlotsInv, OutcomeInv
<1> QED BY <1>1, <1>2, <1>3, <1>4 DEF RInv

(* Each step keeps the invariant.                                          *)
LEMMA RemoteStep == RInv /\ [Next]_vars => RInv'
<1> SUFFICES ASSUME RInv, [Next]_vars PROVE RInv'
  OBVIOUS
<1>1. ASSUME NEW t \in Thread, GateWork(t), UNCHANGED iconVars PROVE RInv'
  BY <1>1, GateTypes, GateKeepsGate, GateKeepsWakeups, GateKeepsIcons DEF RInv
<1>2. ASSUME NEW t \in Thread, IconWork(t) PROVE RInv'
  BY <1>2, IconTypes, IconKeepsGate, IconKeepsWakeups, IconKeepsLoads, IconKeepsSlots,
     IconKeepsOutcome DEF RInv
<1>3. CASE Tick /\ UNCHANGED iconVars
  BY <1>3, TickKeeps
<1>4. CASE UNCHANGED vars
  BY <1>4 DEF vars, clientVars, iconVars, RInv, TypeOK, GateInv, NoLostWakeup, LoadsInv,
     SlotsInv, OutcomeInv, Asleep
<1> QED BY <1>1, <1>2, <1>3, <1>4 DEF Next, GateWork, IconWork

(* Nobody works at first.                                                  *)
LEMMA RemoteStarts == Init => RInv
<1> SUFFICES ASSUME Init PROVE RInv
  OBVIOUS
<1> USE ClientAssumption, IconAssumption DEF Init, ClientInit
<1>1. TypeOK
  BY DEF TypeOK, Time, Never, Outcome, Asleep
<1>2. GateInv
  BY DEF GateInv, Inside
<1>3. NoLostWakeup
  BY DEF NoLostWakeup, Asleep
<1>4. LoadsInv /\ SlotsInv /\ OutcomeInv
  BY DEF LoadsInv, SlotsInv, OutcomeInv, Loading
<1> QED BY <1>1, <1>2, <1>3, <1>4 DEF RInv

(* The invariant holds in every reachable state; fairness is not needed.   *)
LEMMA InvariantHolds == Spec => []RInv
  BY RemoteStarts, RemoteStep, PTL DEF Spec

-----------------------------------------------------------------------------
(* Every request of a flush or refresh is made inside the gate, under the  *)
(* deadline of its own call, and over when that passes (lock_until,        *)
(* RemoteDeadlineGuard, execute_with_deadline).                            *)
THEOREM RequestsKeepDeadlineHolds == Spec => []RequestsKeepDeadline
<1>1. RInv => RequestsKeepDeadline
  BY DEF RInv, GateInv, RequestsKeepDeadline, Inside
<1> QED BY <1>1, InvariantHolds, PTL

(* No thread sleeps at a free gate without another one on its way, for any *)
(* number of threads (StateGuard::drop, lock_until).                       *)
THEOREM NoLostWakeupHolds == Spec => []NoLostWakeup
<1>1. RInv => NoLostWakeup
  BY DEF RInv
<1> QED BY <1>1, InvariantHolds, PTL

(* One thread at a time loads an icon (feed_icon_with_deadline).           *)
THEOREM OneLoadHolds == Spec => []OneLoad
<1>1. RInv => OneLoad
  BY DEF RInv, LoadsInv, OneLoad
<1> QED BY <1>1, InvariantHolds, PTL

(* A waiter finds the icon its load has brought (LoadGuard, insertion into *)
(* the cache before it is dropped).                                        *)
THEOREM WaitersGetTheIconHolds == Spec => []WaitersGetTheIcon
<1>1. RInv => WaitersGetTheIcon
  BY DEF RInv, OutcomeInv, WaitersGetTheIcon
<1> QED BY <1>1, InvariantHolds, PTL
=============================================================================
