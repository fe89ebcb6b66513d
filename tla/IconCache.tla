----------------------------- MODULE IconCache -----------------------------
(***************************************************************************)
(* IconService (rust-core/src/icons.rs): a cache of feed icons where the   *)
(* threads that miss one and the same icon share one request.  cache,      *)
(* loads and each load's ready flag have mutexes of their own, so every    *)
(* action below is the code between two of them.  Icons use the same       *)
(* client as flushes and refreshes do, but neither the gate nor the        *)
(* deadline of its holder.                                                 *)
(***************************************************************************)
EXTENDS RemoteClient

CONSTANTS
    Feed,           \* feeds, by identifier
    IconTicks       \* ICON_DEADLINE

ASSUME IconAssumption ==
    /\ IconTicks \in Nat \ {0}
    /\ {"nothing", "icon"} \cap (Thread \cup {NoThread}) = {}

VARIABLES
    cache,          \* the feeds whose icon is kept
    loads,          \* who loads a feed's icon
    feed,           \* the feed a thread asks for
    slot,           \* the load a thread waits for; history: how it ended
    outcome         \* what a thread's own load brought

iconVars == <<cache, loads, feed, slot, outcome>>
vars == <<clientVars, iconVars>>

IconPhase == {"look", "loads", "insert", "load", "loading", "process", "store",
              "release", "ready", "await", "reread"}
Loading == {"load", "loading", "process", "store", "release"}
Outcome == {"nothing", "icon"}

TypeOK ==
    /\ now \in 0 .. MaxNow
    /\ pc \in [Thread -> GatePhase \cup IconPhase \cup {"idle"}]
    /\ due \in [Thread -> Time] /\ until \in [Thread -> Time]
    /\ holder \in Thread \cup {NoThread}
    /\ woken \subseteq Asleep
    /\ operationDeadline \in Time
    /\ cache \subseteq Feed
    /\ loads \in [Feed -> Thread \cup {NoThread}]
    /\ feed \in [Thread -> Feed]
    /\ slot \in [Thread -> Thread \cup {NoThread} \cup Outcome]
    /\ outcome \in [Thread -> Outcome]

Init ==
    /\ ClientInit
    /\ cache = {}
    /\ loads = [f \in Feed |-> NoThread]
    /\ feed \in [Thread -> Feed]
    /\ slot = [t \in Thread |-> NoThread]
    /\ outcome = [t \in Thread |-> "nothing"]

Expired(t) == now >= due[t]
Return(t) == Finish(t) /\ slot' = [slot EXCEPT ![t] = NoThread]

FeedIcon(t, f) ==
    /\ Begin(t, "look", IconTicks)
    /\ feed' = [feed EXCEPT ![t] = f]
    /\ UNCHANGED <<now, holder, woken, operationDeadline, until, cache, loads, slot, outcome>>

ClientKept == UNCHANGED <<now, holder, woken, operationDeadline, until>>

LookInCache(t) ==
    /\ pc[t] = "look"
    /\ IF feed[t] \in cache THEN Return(t)
       ELSE Go(t, "loads") /\ UNCHANGED <<due, slot>>
    /\ ClientKept /\ UNCHANGED <<cache, loads, feed, outcome>>

LookInLoads(t) ==
    /\ pc[t] = "loads"
    /\ slot' = [slot EXCEPT ![t] = loads[feed[t]]]
    /\ Go(t, IF loads[feed[t]] = NoThread THEN "insert" ELSE "await")
    /\ ClientKept /\ UNCHANGED <<due, cache, loads, feed, outcome>>

(* A load that was started since the look at loads: begin again.           *)
TakenNever(t) == FALSE
Taken(t) == loads[feed[t]] # NoThread
InsertLoad(t) ==
    /\ pc[t] = "insert"
    /\ IF Taken(t) THEN Go(t, "look") /\ UNCHANGED loads
       ELSE Go(t, "load") /\ loads' = [loads EXCEPT ![feed[t]] = t]
    /\ ClientKept /\ UNCHANGED <<due, cache, feed, slot, outcome>>

(* Waiting on a load: it ends, or the deadline comes first and there is no *)
(* icon.                                                                   *)
Await(t) ==
    /\ pc[t] = "await"
    /\ \/ slot[t] \in Outcome /\ Go(t, "reread") /\ UNCHANGED <<due, slot>>
       \/ slot[t] \notin Outcome /\ Expired(t) /\ Return(t)
    /\ ClientKept /\ UNCHANGED <<cache, loads, feed, outcome>>

(* The icon of the cache, if it is there and this is not too late.         *)
Reread(t) ==
    /\ pc[t] = "reread"
    /\ Return(t)
    /\ ClientKept /\ UNCHANGED <<cache, loads, feed, outcome>>

-----------------------------------------------------------------------------
(* load_and_process under its LoadGuard: the icon is put into the cache    *)
(* before the guard takes the load away and wakes the waiters.             *)
RequestIcon(t) ==
    /\ pc[t] = "load"
    /\ Execute(t, due[t], "loading", "release")
    /\ UNCHANGED iconVars

(* An icon, none, an error, or one that cannot be decoded; or it unwinds.  *)
IconAnswered(t) ==
    /\ pc[t] = "loading"
    /\ until' = [until EXCEPT ![t] = Never]
    /\ \/ Go(t, "process") /\ now < until[t]
       \/ Go(t, "release")
    /\ UNCHANGED <<now, due, holder, woken, operationDeadline, iconVars>>
IconTimesOut(t) == now >= until[t] /\ IconAnswered(t)

ProcessIcon(t) ==
    /\ pc[t] = "process"
    /\ IF Expired(t) THEN Go(t, "release") /\ UNCHANGED outcome
       ELSE Go(t, "store") /\ outcome' = [outcome EXCEPT ![t] = "icon"]
    /\ ClientKept /\ UNCHANGED <<due, cache, loads, feed, slot>>

StoredInTime(t) == IF Expired(t) THEN cache ELSE cache \cup {feed[t]}
Stored(t) == cache \cup {feed[t]}
StoreIcon(t) ==
    /\ pc[t] = "store"
    /\ cache' = Stored(t)
    /\ Go(t, "release")
    /\ ClientKept /\ UNCHANGED <<due, loads, feed, slot, outcome>>

ReleaseLoad(t) ==
    /\ pc[t] = "release"
    /\ loads' = [loads EXCEPT ![feed[t]] = NoThread]
    /\ Go(t, "ready")
    /\ ClientKept /\ UNCHANGED <<due, cache, feed, slot, outcome>>

(* ready becomes true and notify_all wakes everybody who holds the slot.   *)
MarkReady(t) ==
    /\ pc[t] = "ready"
    /\ Finish(t)
    /\ slot' = [u \in Thread |-> IF slot[u] = t THEN outcome[t] ELSE slot[u]]
    /\ outcome' = [outcome EXCEPT ![t] = "nothing"]
    /\ ClientKept /\ UNCHANGED <<cache, loads, feed>>

IconStep(t) ==
    \/ LookInCache(t) \/ LookInLoads(t) \/ InsertLoad(t) \/ Await(t) \/ Reread(t)
    \/ RequestIcon(t) \/ IconTimesOut(t) \/ ProcessIcon(t) \/ StoreIcon(t)
    \/ ReleaseLoad(t) \/ MarkReady(t)

Next ==
    \/ \E t \in Thread :
         \/ StartRemote(t) /\ UNCHANGED iconVars
         \/ GateStep(t) /\ UNCHANGED iconVars
         \/ Answered(t) /\ UNCHANGED iconVars
         \/ \E f \in Feed : FeedIcon(t, f)
         \/ IconStep(t) \/ IconAnswered(t)
    \/ Tick /\ UNCHANGED iconVars

(* Fairness: threads that can go on do, and time passes.  The server need  *)
(* not answer.                                                             *)
Spec ==
    /\ Init /\ [][Next]_vars
    /\ WF_vars(Tick /\ UNCHANGED iconVars)
    /\ \A t \in Thread : WF_vars(GateStep(t) /\ UNCHANGED iconVars) /\ WF_vars(IconStep(t))

-----------------------------------------------------------------------------
(* One request at a time for one icon, although the look at the cache, the *)
(* look at the loads and the insertion are three critical sections.        *)
OneLoad ==
    \A t, u \in Thread :
        pc[t] \in Loading /\ pc[u] \in Loading /\ feed[t] = feed[u] => t = u

(* A waiter finds the icon that the load it waited for brought: it was     *)
(* cached before the load was taken away and the waiter was woken.         *)
WaitersGetTheIcon ==
    \A t \in Thread : pc[t] = "reread" /\ slot[t] = "icon" => feed[t] \in cache

(* Every call returns although the server may never answer, whoever waits  *)
(* for whom.                                                               *)
EveryCallReturns == \A t \in Thread : pc[t] # "idle" ~> pc[t] = "idle"
=============================================================================
