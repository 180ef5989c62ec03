----------------------------- MODULE MCHistories ------------------------------
(***************************************************************************)
(* Checks in one run what a conversation is made of: the trees of its      *)
(* prompts (Conversation, with three prompts), the conversions of its      *)
(* history to what a provider is sent (ChatHistory, ResponsesHistory,      *)
(* MessagesInput), and the answer a client is shown (ChatOutput).  They    *)
(* share no state, the behaviour of one is chosen at the start and the     *)
(* others stay in their initial states; a conversion works on one          *)
(* conversation of SomeSettings.                                           *)
(***************************************************************************)
EXTENDS MCConversation, MCChat, ChatHistory, ResponsesHistory, MessagesInput

VARIABLE part

Kind(role, kind, shape) == [role |-> role, kind |-> kind, shape |-> shape]
Profile(mode, scope, structured) == [mode |-> mode, scope |-> scope, structured |-> structured]
Disabled == Profile("disabled", "tool_continuation", FALSE)
Profiles ==
    {Disabled, Profile("think_tags", "unknown", TRUE),
     Profile("reasoning_content", "tool_continuation", TRUE),
     Profile("reasoning", "tool_continuation", FALSE), Profile("reasoning_content", "all", FALSE)}
Tools == {Kind("assistant", "tool", "plain"), Kind("user", "result", "plain"), Kind("user", "text", "plain")}
Text == {Kind("assistant", "text", "plain")}
Pictures == {Kind("user", "result", "images")}
Thinking(shapes) == {Kind("assistant", "thinking", s) : s \in shapes}
Instructions(kinds) == {Kind("system", k, "plain") : k \in kinds}
\* What a profile can tell apart: only one that takes opaque state sees whose it is.
ShapePairs(profile) ==
    IF profile.structured
    THEN {{"plain", "hereSealed"}, {"hereTold", "hereTyped"}, {"elseTold", "elseSealed"},
          {"hereSummary", "elseSummary"}, {"raw", "broken"}}
    ELSE {{"plain", "hereSealed"}, {"elseTold", "elseSummary"}, {"raw", "broken"}}
Conversation(client, profile, blocks, ids, most) ==
    [client |-> client, provider |-> profile, blocks |-> blocks, ids |-> ids, most |-> most]
SomeSettings ==
    {Conversation("messages", Disabled, Tools \cup Text \cup Pictures, {1, 2}, 4),
     Conversation("messages", Disabled, Tools \cup Text, {1, 2}, 5),
     Conversation("messages", Profile("reasoning_content", "tool_continuation", TRUE),
        Tools \cup Instructions({"text"}) \cup Thinking({"plain"}), {1}, 4),
     Conversation("messages", Profile("think_tags", "tool_continuation", FALSE),
        Tools \cup Thinking({"plain"}) \cup {Kind("user", "image", "plain")}
            \cup {Kind("assistant", k, "plain") : k \in {"hosted", "active", "image"}}
            \cup Instructions({"text", "image"}), {1}, 3),
     Conversation("responses", Disabled, Tools \cup Pictures, {1, 2}, 5),
     Conversation("responses", Disabled,
        Tools \cup Pictures \cup Thinking({"plain"}) \cup {Kind("assistant", "tool", "malformed")}, {1, 2}, 4),
     Conversation("responses", Profile("think_tags", "tool_continuation", FALSE),
        Tools \cup Text \cup Thinking({"plain"})
            \cup {Kind("assistant", "tool", "malformed"), Kind("user", "result", "custom"),
                  Kind("system", "system", "plain"), Kind("user", "screenshot", "plain")}
            \cup {Kind("assistant", k, "plain") : k \in {"summary", "hosted", "active"}}, {1}, 4)}
    \cup UNION {{Conversation(client, p, Tools \cup Pictures \cup Thinking(s), {1}, 4) :
                    client \in {"messages", "responses"}, s \in ShapePairs(p)} : p \in Profiles}

NoHistory ==
    /\ setting = (CHOOSE s \in Settings : TRUE) /\ conversion = "building" /\ wire = <<>>
NoTranscript == transcript = <<>> /\ ledger = EmptyLedger
NoItems == items = <<>> /\ builder = EmptyBuilder

HistoriesInit ==
    /\ Init /\ ChatInit /\ MessagesInit
    /\ part \in {"trees", "answer", "chat", "responses", "messages"}
    /\ part # "answer" => chat = CHOOSE s \in Streams : TRUE
    /\ \/ part = "chat" /\ HistoryInit /\ NoItems
       \/ part = "responses" /\ ResponsesInit /\ NoTranscript
       \/ part \notin {"chat", "responses"} /\ NoHistory /\ NoTranscript /\ NoItems

conversionVars == <<setting, transcript, ledger, items, builder, conversion, wire>>

HistoriesNext ==
    \/ /\ part = "trees" /\ Next /\ RepliesToPrompts
       /\ UNCHANGED <<chatVars, conversionVars, messagesVars>>
    \/ part = "answer" /\ ChatNext /\ UNCHANGED <<vars, conversionVars, messagesVars>>
    \/ part = "chat" /\ HistoryNext /\ UNCHANGED <<vars, chatVars, items, builder, messagesVars>>
    \/ part = "responses" /\ ResponsesNext /\ UNCHANGED <<vars, chatVars, transcript, ledger, messagesVars>>
    \/ part = "messages" /\ MessagesNext /\ UNCHANGED <<vars, chatVars, conversionVars>>

HistoriesSpec ==
    HistoriesInit /\ [][HistoriesNext /\ UNCHANGED part]_<<vars, chatVars, conversionVars, messagesVars, part>>

\* What a provider is sent of a client's history, in whatever protocol either speaks:
\* every call with its outputs, nothing lost, told twice or out of order, and reasoning
\* only where its connection takes it.
HistoriesSafety ==
    /\ part = "chat" => HistorySafety
    /\ part = "responses" => ResponsesSafety
    /\ MessagesSafety
===============================================================================
