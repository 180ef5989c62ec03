------------------------------- MODULE MCChat --------------------------------
(* ChatOutput for TLC. *)
EXTENDS ChatOutput

\* Two tool calls as providers stream them: in one delta, with the name first, with
\* the name last, and with the name in parts; the first id of LateName is taken.
Delta(id, name, args) == [id |-> id, name |-> name, args |-> args]
TakenId == <<"call", "a">>
NewId == <<"call", "b">>
TwoDeltas(name) == <<Delta(NewId, name, <<"head">>), Delta(<<>>, <<>>, <<"tail">>)>>
OneDelta == <<Delta(NewId, <<"tool">>, <<"full">>)>>
LateName == <<Delta(TakenId, <<>>, <<"head">>), Delta(<<>>, <<"tool">>, <<"tail">>)>>
SplitName == <<Delta(NewId, <<"mcp">>, <<>>), Delta(<<>>, <<"x">>, <<"full">>)>>
StreamOf(pieces, client, aliases, details, first, second) ==
    [pieces |-> pieces, client |-> client, aliases |-> aliases, details |-> details,
     calls |-> (0 :> first) @@ (1 :> second)]

SomeStreams ==
    {StreamOf(2, "messages", FALSE, "none", OneDelta, TwoDeltas(Task)),
     StreamOf(3, "messages", FALSE, "origin", <<>>, <<>>),
     StreamOf(3, "responses", TRUE, "none", SplitName, <<>>),
     StreamOf(2, "messages", TRUE, "origin", TwoDeltas(Edit), <<>>),
     StreamOf(2, "responses", FALSE, "opaque", LateName, <<>>),
     StreamOf(2, "responses", TRUE, "origin", TwoDeltas(Task), SplitName),
     StreamOf(2, "messages", FALSE, "opaque", OneDelta, LateName),
     StreamOf(2, "responses", FALSE, "none", TwoDeltas(Edit), OneDelta)}
OneId == {TakenId}

ChatSpec == ChatInit /\ [][ChatNext]_chatVars
==============================================================================
