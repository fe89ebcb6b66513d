----------------------------- MODULE MCCoreApi -----------------------------
(***************************************************************************)
(* An instance of CoreApi for TLC: two callers, two accounts, every kind   *)
(* of text.                                                                *)
(***************************************************************************)
EXTENDS CoreApi, TLC

CONSTANTS a, b

TwoAccounts == {a, b}
TwoGenerations == {0, 1}
Servers == [s \in {"a.example", "b.example", "no server"} |->
              CASE s = "a.example" -> a [] s = "b.example" -> b [] OTHER -> NoAccount]

Form(form) == [form |-> form, members |-> <<>>]
Object(members) == [form |-> "object", members |-> members]
Op(name) == Member("operation", Str(name))

ConfigureText(server, newest, generation) ==
    Object(<<Op("configure"), Member("server", Str(server)), Folded("apiKey", Str("key")),
             Member("newestFirst", Bool(newest)),
             Member("configurationGeneration", Num(generation))>>)

AllTexts ==
    <<Form("pointer"), Form("null"), Form("garbage"),
     ConfigureText("a.example", FALSE, 0), ConfigureText("a.example", TRUE, 1),
     ConfigureText("b.example", FALSE, 1), ConfigureText("no server", FALSE, 1),
     Object(<<Op("localize"), Member("locales", Null)>>),
     Object(<<Op("set_read"), Member("entryID", Num(7)),
              Member("selection", Obj(<<Member("kind", Str("unread"))>>))>>),
     Object(<<Op("set_read"), Member("entryIDs", List(<<>>))>>),
     Object(<<Op("set_read"), Member("entryID", Str("7"))>>),
     Object(<<Op("refresh"), Folded("operation", Str("local_snapshot"))>>),
     Object(<<Op("local_snapshot"), Member("operation", Str("refresh"))>>)>>
=============================================================================
