------------------------------ MODULE CoreApi ------------------------------
(***************************************************************************)
(* The core as its callers see it (ffi.rs, transport, dispatcher.rs):      *)
(* FluxCoreRequest takes a text, answers every one, and never unwinds.     *)
(* The text is decoded by Transport's definitions and becomes one          *)
(* operation of Runtime, or is refused without touching it.                *)
(***************************************************************************)
EXTENDS Runtime, Transport

CONSTANTS
    Texts,          \* bound: the texts callers send, as a sequence
    AccountAt       \* account_id: the account of a server, NoAccount if the
                    \* server or the key is not a valid one

(* Texts are JSON, and of no other generations than the bound allows; one  *)
(* that gives none is of generation 0.                                     *)
IsJson(value) ==
    /\ value.type = "bool" => value.v \in BOOLEAN
    /\ value.type = "int" => value.v \in Int
Bounded(member) ==
    member.key = "configurationGeneration" /\ member.value.type = "int"
        => member.value.v \in Generation

ASSUME ApiAssumption ==
    /\ \A i \in DOMAIN Texts :
         /\ Texts[i].form \in {"pointer", "bytes", "null", "garbage", "object"}
         /\ Texts[i].form = "object" =>
              /\ Texts[i].members \in Seq(Range(Texts[i].members))
              /\ \A m \in Range(Texts[i].members) : IsJson(m.value) /\ Bounded(m)
    /\ \A server \in DOMAIN AccountAt : AccountAt[server] \in Account \cup {NoAccount}
    /\ 0 \in Generation

(* configure's arguments, server and key trimmed and checked.              *)
AnyKey(request) == request.server \in DOMAIN AccountAt
Valid(request) ==
    /\ request.server \in DOMAIN AccountAt
    /\ AccountAt[request.server] # NoAccount
    /\ request.apiKey # ""
Asked(request) ==
    [account |-> AccountAt[request.server], newestFirst |-> request.newestFirst,
     generation |-> request.configurationGeneration]

StartOrNotConfigured(t, phase) == Start(t, phase) \/ NotConfigured(t)

(* dispatch: one handler of AppRuntime per operation.                      *)
Dispatch(t, request) ==
    CASE request.operation = "configure" ->
           IF Valid(request) THEN Configure(t, Asked(request)) ELSE Reject(t)
      [] request.operation \in {"local_snapshot", "discard_undo", "feed_icon"} ->
           StartOrNotConfigured(t, "local")
      [] request.operation = "set_read" /\ EntryIds(request) = <<>> ->
           NotConfigured(t) \/ (session # NoSession /\ Reject(t))
      [] request.operation \in {"set_read", "set_starred", "undo_read"} ->
           StartOrNotConfigured(t, "mutate")
      [] request.operation \in {"refresh", "flush_pending"} ->
           StartOrNotConfigured(t, "wait")
      [] request.operation \in {"localize", "localize_plural"} -> Text(t)

(* handle_json: a request that is null stands for one without members.     *)
Perform(t, request) ==
    IF request # Malformed /\ Supported(request) THEN Dispatch(t, request)
    ELSE Reject(t)

Decode(text) == IF text.form = "null" THEN DefaultRequest ELSE ParseRequest(text.members)
Requests == [i \in {j \in DOMAIN Texts : Texts[j].form \in {"null", "object"}} |->
               Decode(Texts[i])]

(* FluxCoreRequest, from parse_input to the start of a handler.            *)
FluxCoreRequest(t, i) ==
    IF Texts[i].form \in {"pointer", "bytes", "garbage"} THEN Reject(t)
    ELSE Perform(t, Requests[i])

(* into_owned_c_string: the response is the caller's until it frees it.    *)
FluxCoreFree(t) == Return(t)

ApiNext ==
    \/ \E t \in Caller :
         \/ \E i \in DOMAIN Texts : FluxCoreRequest(t, i)
         \/ CallStep(t) \/ Panic(t) \/ FluxCoreFree(t)
    \/ \E e \in Engine : WorkerStep(e)

(* Fairness: threads that can go on do, since every wait of the core has a *)
(* deadline.  Nothing makes a caller call, nor free an answer.             *)
ApiSpec ==
    /\ RuntimeInit /\ [][ApiNext]_runtimeVars
    /\ \A t \in Caller : WF_runtimeVars(CallStep(t))
    /\ \A e \in Engine : WF_runtimeVars(WorkerStep(e))

-----------------------------------------------------------------------------
(* Every call is answered, whatever was sent and whoever holds the gate.   *)
EveryCallAnswered ==
    \A t \in Caller : pc[t] \notin {"idle", "answered"} ~> pc[t] = "answered"

(* The boundary adds nothing to the runtime: what a text stands for is one *)
(* of the runtime's operations with arguments it knows, or nothing.        *)
BoundaryIsRuntime == RuntimeInit /\ [][RuntimeNext]_runtimeVars
=============================================================================
