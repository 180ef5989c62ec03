------------------------------ MODULE MessagesInput ----------------------------
(***************************************************************************)
(* What an Anthropic Messages provider is sent of a Responses              *)
(* conversation: the builder of core/openai_responses/messages_request.py  *)
(* takes the client's items one after another and refuses a history it     *)
(* cannot represent; core/history_replay.py then gives reasoning back to   *)
(* the connection that made it, or tells it as text.                       *)
(***************************************************************************)
EXTENDS Integers, Sequences, FiniteSets, SequencesExt

CONSTANTS
    ToolIds,        \* call_ids
    Thoughts,       \* shapes of reasoning items, a subset of ThoughtShapes
    MaxItems        \* bound of a conversation

\* Reasoning without a carrier; a carrier of a Messages provider with thinking or
\* redacted data, made here or elsewhere; one of another protocol, readable or sealed;
\* one nobody knows; and a malformed carrier.  Sealed ones come with a visible summary or
\* without.
ThoughtShapes == {"plain", "hereThinking", "hereRedacted", "elseThinking", "otherTold",
                  "otherSealed", "otherSilent", "raw", "broken"}

ASSUME MessagesInputAssumption == Thoughts \subseteq ThoughtShapes /\ MaxItems \in Nat

VARIABLES
    taken,          \* the client's items taken so far
    body,           \* _MessagesInput.messages: a role and its blocks
    callKinds,      \* _calls: id and kind of every call
    unanswered,     \* ids of calls without an output
    outcome,        \* "building", "refused" or "sent"
    sent            \* the messages after prepare_history

messagesVars == <<taken, body, callKinds, unanswered, outcome, sent>>

-----------------------------------------------------------------------------
Block(kind, item) == [kind |-> kind, n |-> item.n, id |-> item.id]

\* The blocks one reasoning item becomes.
ReasoningBlocks(item) ==
    CASE item.shape = "plain" -> <<Block("context", item)>>
      [] item.shape \in {"hereThinking", "elseThinking"} -> <<Block(item.shape, item)>>
      [] item.shape = "raw" -> <<Block("raw", item), Block("context", item)>>
      [] item.shape = "hereRedacted" -> <<Block("hereRedacted", item), Block("context", item)>>
      [] item.shape = "otherSealed" -> <<Block("otherSealed", item), Block("context", item)>>
      [] OTHER -> <<Block(item.shape, item)>>

LastRole == IF body = <<>> THEN "none" ELSE body[Len(body)].role

\* While outputs are missing, only outputs may follow, or more of the assistant's turn.
Appendable(role) ==
    unanswered # {} => role = "assistant" /\ LastRole = "assistant"

Extended(role, blocks) ==
    IF LastRole = role
    THEN [body EXCEPT ![Len(body)] = [role |-> role, blocks |-> @.blocks \o blocks]]
    ELSE Append(body, [role |-> role, blocks |-> blocks])

Refuse == outcome' = "refused" /\ UNCHANGED <<body, callKinds, unanswered, sent>>
Accept(role, blocks) ==
    body' = Extended(role, blocks) /\ UNCHANGED <<outcome, sent>>

Taking(item) == outcome = "building" /\ Len(taken) < MaxItems /\ taken' = Append(taken, item)

\* Text of the user or the assistant, images, and records of hosted tools.
TakeSaid(item) ==
    /\ Taking(item) /\ item.kind \in {"said", "hosted"}
    /\ IF Appendable(item.role)
       THEN Accept(item.role, <<Block(item.kind, item)>>) /\ UNCHANGED <<callKinds, unanswered>>
       ELSE Refuse

\* System text is taken at the beginning only, and goes elsewhere.
TakeSystem(item) ==
    /\ Taking(item) /\ item.kind = "system"
    /\ IF body = <<>> THEN UNCHANGED <<body, callKinds, unanswered, outcome, sent>> ELSE Refuse

TakeReasoning(item) ==
    /\ Taking(item) /\ item.kind = "reasoning"
    /\ IF Appendable("assistant") /\ item.shape # "broken"
       THEN Accept("assistant", ReasoningBlocks(item)) /\ UNCHANGED <<callKinds, unanswered>>
       ELSE Refuse

TakeCall(item) ==
    /\ Taking(item) /\ item.kind = "call"
    /\ IF (\A c \in callKinds : c.id # item.id) /\ Appendable("assistant")
       THEN /\ Accept("assistant", <<Block("call", item)>>)
            /\ callKinds' = callKinds \cup {[id |-> item.id, kind |-> item.shape]}
            /\ unanswered' = unanswered \cup {item.id}
       ELSE Refuse

TakeOutput(item) ==
    /\ Taking(item) /\ item.kind = "output"
    /\ IF item.id \in unanswered /\ [id |-> item.id, kind |-> item.shape] \in callKinds
       THEN /\ Accept("user", <<Block("output", item)>>)
            /\ unanswered' = unanswered \ {item.id} /\ UNCHANGED callKinds
       ELSE Refuse

\* Reasoning of this connection is given back as it was; what another one can read of it
\* is told as text; what nobody knows is tried as it is.
Prepared(b) ==
    CASE b.kind \in {"elseThinking", "otherTold"} -> <<[b EXCEPT !.kind = "context"]>>
      [] b.kind \in {"otherSealed", "otherSilent"} -> <<>>
      [] OTHER -> <<b>>

PreparedMessage(m) ==
    IF m.role = "user" THEN m
    ELSE [m EXCEPT !.blocks = FlattenSeq([i \in DOMAIN @ |-> Prepared(@[i])])]

PreparedBody ==
    SelectSeq([i \in DOMAIN body |-> PreparedMessage(body[i])], LAMBDA m : m.blocks # <<>>)

FinishMessages ==
    /\ outcome = "building"
    /\ IF unanswered # {} \/ body = <<>> THEN outcome' = "refused" /\ UNCHANGED sent
       ELSE outcome' = "sent" /\ sent' = PreparedBody
    /\ UNCHANGED <<taken, body, callKinds, unanswered>>

-----------------------------------------------------------------------------
Item(kind, role, shape, id) ==
    [kind |-> kind, role |-> role, shape |-> shape, id |-> id, n |-> Len(taken) + 1]

NoId == 0

MessagesInit ==
    /\ taken = <<>> /\ body = <<>> /\ callKinds = {} /\ unanswered = {}
    /\ outcome = "building" /\ sent = <<>>

MessagesNext ==
    \/ \E role \in {"user", "assistant"} : TakeSaid(Item("said", role, "text", NoId))
    \/ TakeSaid(Item("hosted", "assistant", "text", NoId))
    \/ TakeSystem(Item("system", "system", "text", NoId))
    \/ \E shape \in Thoughts : TakeReasoning(Item("reasoning", "assistant", shape, NoId))
    \/ \E id \in ToolIds, shape \in {"function", "custom"} :
        \/ TakeCall(Item("call", "assistant", shape, id))
        \/ TakeOutput(Item("output", "user", shape, id))
    \/ FinishMessages

MessagesSpec == MessagesInit /\ [][MessagesNext]_messagesVars

-----------------------------------------------------------------------------
(* Properties *)

Roles == {"user", "assistant"}
Items ==
    [kind : {"said", "hosted", "system", "reasoning", "call", "output"},
     role : Roles \cup {"system"},
     shape : Thoughts \cup {"text", "function", "custom"}, id : ToolIds \cup {NoId}, n : Nat]
BlockKinds == ThoughtShapes \cup {"said", "hosted", "call", "output", "context"}
Blocks == [kind : BlockKinds, n : Nat, id : ToolIds \cup {NoId}]
MessagesTypeOK ==
    /\ taken \in Seq(Items)
    /\ body \in Seq([role : Roles, blocks : Seq(Blocks)])
    /\ callKinds \subseteq [id : ToolIds, kind : {"function", "custom"}]
    /\ unanswered \subseteq ToolIds
    /\ outcome \in {"building", "refused", "sent"}

\* Of the messages sent, two that follow each other have different roles, unless all that
\* the assistant said between two of the user's was reasoning that only another
\* connection could read.
RolesAlternate ==
    \A i \in 1 .. Len(sent) - 1 :
        LET between == Last(sent[i].blocks).n + 1 .. Head(sent[i + 1].blocks).n - 1
        IN sent[i].role = sent[i + 1].role =>
            /\ sent[i].role = "user" /\ between # {}
            /\ \A k \in between : taken[k].shape = "otherSilent"

\* A call that is sent is answered in the message that follows its own, although messages
\* without anything left to say are dropped.
AnsweredNext ==
    \A i \in DOMAIN sent : \A b \in Range(sent[i].blocks) : b.kind = "call" =>
        i < Len(sent) /\ \E a \in Range(sent[i + 1].blocks) : a.kind = "output" /\ a.id = b.id

\* Outputs come before anything else the user says.
OutputsFirst ==
    \A i \in DOMAIN sent : \A k \in DOMAIN sent[i].blocks : \A j \in 1 .. k :
        sent[i].blocks[k].kind = "output" => sent[i].blocks[j].kind = "output"

SentBlocks == FlattenSeq([i \in DOMAIN sent |-> sent[i].blocks])
Readings(n) == Cardinality({i \in DOMAIN SentBlocks : SentBlocks[i].n = n /\
                                SentBlocks[i].kind \notin {"raw", "hereRedacted"}})

\* Everything the client said is told exactly once and in its order, but for reasoning
\* that only another connection could read.
SaidOnce ==
    outcome = "sent" =>
        /\ \A i \in DOMAIN taken :
            Readings(i) = IF taken[i].kind = "system" \/ taken[i].shape = "otherSilent" THEN 0 ELSE 1
        /\ \A i, j \in DOMAIN SentBlocks : i < j => SentBlocks[i].n <= SentBlocks[j].n

\* Opaque reasoning is sent to its own connection, or when nobody knows whose it is.
ThoughtsGoHome ==
    \A i \in DOMAIN SentBlocks :
        SentBlocks[i].kind \notin {"elseThinking", "otherTold", "otherSealed", "otherSilent"}

MessagesSafety ==
    /\ MessagesTypeOK /\ RolesAlternate /\ AnsweredNext /\ OutputsFirst /\ SaidOnce
    /\ ThoughtsGoHome
=============================================================================
