-------------------------------- MODULE Inbox --------------------------------
(***************************************************************************)
(* What the inbox of one account promises, without revisions, flushes,     *)
(* gates or restarts: every cell shows a wish of the user until the server *)
(* holds it, and otherwise what the server said last.  SyncService         *)
(* implements this specification (KeepsPromise).                           *)
(*                                                                         *)
(* A step is stated by what it may and may not change, since what the      *)
(* server says of a cell that others changed may be old or new.            *)
(***************************************************************************)
EXTENDS Naturals

CONSTANT Entry

VARIABLES
    known,          \* the stored articles
    shown,          \* what the user sees of a cell
    wished,         \* the cells that wait for the server to confirm a wish
    server,         \* what the server holds
    unseen          \* cells others changed since this process looked

inboxVars == <<known, shown, wished, server, unseen>>

Val == {0, 1}
Cell == Entry \X {"read", "starred"}

Init ==
    /\ known = {}
    /\ shown = [c \in Cell |-> 0]
    /\ wished = {}
    /\ server \in [Cell -> Val]
    /\ unseen = {}

(* The user wishes: what changes for the eye becomes a wish.               *)
Decide ==
    /\ wished \subseteq wished'
    /\ \A c \in Cell : shown'[c] # shown[c] => c \in wished'
    /\ \A c \in wished' : c[1] \in known
    /\ UNCHANGED <<known, server, unseen>>

(* The process writes a cell on the server, or looks at it, only while a   *)
(* wish for it waits.                                                      *)
Send(c) ==
    /\ c \in wished
    /\ \E v \in Val : server' = [server EXCEPT ![c] = v]
    /\ unseen' \in {unseen, unseen \ {c}}
    /\ UNCHANGED <<known, shown, wished>>

(* A wish is forgotten only when the server holds what the user sees.      *)
Confirm(c) ==
    /\ c \in wished
    /\ c \notin unseen => server[c] = shown[c]
    /\ wished' = wished \ {c}
    /\ UNCHANGED <<known, shown, server, unseen>>

(* A refresh never touches what waits, and shows nothing that the server   *)
(* does not hold, except of cells that others changed.                     *)
Learn ==
    /\ known \subseteq known'
    /\ \A c \in Cell : shown'[c] # shown[c] => c \notin wished
    /\ \A c \in Cell \ (unseen \cup wished) :
         shown'[c] # shown[c] \/ c[1] \in known' \ known => shown'[c] = server[c]
    /\ unseen' \subseteq unseen
    /\ \A c \in unseen \ (unseen' \cup wished) : shown'[c] = server[c]
    /\ UNCHANGED <<wished, server>>

(* Another client, or a request that arrives late.                         *)
Change(c) ==
    /\ \E v \in Val : server' = [server EXCEPT ![c] = v]
    /\ unseen' = unseen \cup {c}
    /\ UNCHANGED <<known, shown, wished>>

Next ==
    \/ Decide
    \/ Learn
    \/ \E c \in Cell : Send(c) \/ Confirm(c) \/ Change(c)

Spec == Init /\ [][Next]_inboxVars
=============================================================================
