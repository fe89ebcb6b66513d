----------------------------- MODULE Transport -----------------------------
(***************************************************************************)
(* The JSON boundary of the core (rust-core/src/transport/request.rs): how *)
(* the members of a request object become fields, and fields an operation. *)
(* Pure definitions, run by CoreApi.                                       *)
(*                                                                         *)
(* A JSON value is a record of its type and its content.  A member is a    *)
(* key, whether it is spelled as the field is or in other letter cases,    *)
(* and a value.  The order of members is the order of the text.            *)
(***************************************************************************)
EXTENDS Integers, Sequences, SequencesExt

Null == [type |-> "null", v |-> 0]
IsNull(value) == value.type = "null"
Str(s) == [type |-> "string", v |-> s]
Num(n) == [type |-> "int", v |-> n]
Bool(b) == [type |-> "bool", v |-> b]
List(s) == [type |-> "list", v |-> s]       \* s: a sequence of values
Obj(s) == [type |-> "object", v |-> s]      \* s: a sequence of members
Member(key, value) == [key |-> key, exact |-> TRUE, value |-> value]
Folded(key, value) == [key |-> key, exact |-> FALSE, value |-> value]

(* A field is given by its type and what it is when absent.                *)
StringFields == {"operation", "server", "apiKey", "key", "fallback", "oneFallback",
                 "otherFallback", "mutationSource", "mutationID", "feedName", "kind"}
IntFields == {"configurationGeneration", "count", "entryID", "feedID", "id"}
BoolFields == {"newestFirst", "read", "currentStarred", "desiredStarred", "unreadOnly"}
StringLists == {"locales"}
IntLists == {"entryIDs", "retainEntryIDs"}
SelectionFields == {"kind", "id", "unreadOnly"}
RequestFields ==
    ((StringFields \cup IntFields \cup BoolFields) \ SelectionFields)
        \cup StringLists \cup IntLists \cup {"selection"}

Zero(field) ==
    CASE field \in StringFields -> ""
      [] field \in IntFields -> 0
      [] field \in BoolFields -> FALSE
      [] field \in StringLists \cup IntLists -> <<>>
NoSelectionDto == [f \in SelectionFields |-> Zero(f)]
Absent(field) == IF field = "selection" THEN NoSelectionDto ELSE Zero(field)

-----------------------------------------------------------------------------
(* deserialize_null_default(_vec): null is the default, in a list too; a   *)
(* value of another type is refused.                                       *)
ScalarType(field) ==
    CASE field \in StringFields \cup StringLists -> "string"
      [] field \in IntFields \cup IntLists -> "int"
      [] field \in BoolFields -> "bool"
IsScalar(type, value) == value.type \in {"null", type}
ScalarZero(type) == CASE type = "string" -> "" [] type = "int" -> 0 [] type = "bool" -> FALSE
Scalar(type, value) == IF IsNull(value) THEN ScalarZero(type) ELSE value.v

Fits(field, value) ==
    \/ IsNull(value)
    \/ IF field \in StringLists \cup IntLists
       THEN /\ value.type = "list"
            /\ \A i \in DOMAIN value.v : IsScalar(ScalarType(field), value.v[i])
       ELSE value.type = ScalarType(field)
Decoded(field, value) ==
    IF IsNull(value) THEN Zero(field)
    ELSE IF field \in StringLists \cup IntLists
         THEN [i \in DOMAIN value.v |-> Scalar(ScalarType(field), value.v[i])]
         ELSE value.v

(* eq_ignore_ascii_case: another spelling names the field too.             *)
NamesExactly(member, fields) == member.exact /\ member.key \in fields
Names(member, fields) == member.key \in fields

(* SelectionVisitor: members in order, a later one replaces an earlier one.*)
SelectionMembers(value) == SelectSeq(value.v, LAMBDA m : Names(m, SelectionFields))
SelectionFits(value) ==
    \/ IsNull(value)
    \/ /\ value.type = "object"
       /\ \A i \in DOMAIN value.v :
             Names(value.v[i], SelectionFields) => Fits(value.v[i].key, value.v[i].value)
SelectionOf(value) ==
    IF IsNull(value) THEN NoSelectionDto
    ELSE FoldLeft(LAMBDA dto, m : [dto EXCEPT ![m.key] = Decoded(m.key, m.value)],
                  NoSelectionDto, SelectionMembers(value))

(* RequestMapVisitor: a later member takes the place of an earlier one of  *)
(* the same field; other keys are carried along and never looked at.       *)
(* Selections are read as they are met, other values when all are known.   *)
LastOf(members, field) ==
    LET named == {i \in DOMAIN members : Names(members[i], {field})}
    IN  IF named = {} THEN Null ELSE members[Max(named)].value
Malformed == [malformed |-> TRUE]
ParseRequest(members) ==
    IF \/ \E i \in DOMAIN members :
             Names(members[i], {"selection"}) /\ ~SelectionFits(members[i].value)
       \/ \E f \in RequestFields \ {"selection"} : ~Fits(f, LastOf(members, f))
    THEN Malformed
    ELSE [f \in RequestFields |->
            IF f = "selection" THEN SelectionOf(LastOf(members, f))
            ELSE Decoded(f, LastOf(members, f))]

(* What a text "null" stands for.                                          *)
DefaultRequest == [f \in RequestFields |-> Absent(f)]

-----------------------------------------------------------------------------
(* Request::into_operation, and Selection::normalize of the operation's    *)
(* selection, which knows five kinds and falls back to all unread.         *)
Operations ==
    {"configure", "local_snapshot", "refresh", "set_read", "set_starred", "undo_read",
     "discard_undo", "flush_pending", "feed_icon", "localize", "localize_plural"}
Supported(request) == request.operation \in Operations

Normalize(dto) ==
    CASE dto.kind = "all" -> dto
      [] dto.kind \in {"unread", "starred"} -> [dto EXCEPT !.id = 0]
      [] dto.kind \in {"category", "feed"} /\ dto.id > 0 -> dto
      [] OTHER -> [kind |-> "all", id |-> 0, unreadOnly |-> TRUE]
IsUnreadOnly(selection) == selection.kind = "unread" \/ selection.unreadOnly

(* AppRuntime::set_read: one id stands for a list of one.                  *)
EntryIds(request) ==
    IF request.entryIDs = <<>> /\ request.entryID > 0 THEN <<request.entryID>>
    ELSE request.entryIDs
=============================================================================
