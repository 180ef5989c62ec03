-------------------------------- MODULE ChatWire -------------------------------
(***************************************************************************)
(* What a conversation looks like on its way to a Chat Completions         *)
(* provider, whichever protocol its client speaks, and what                *)
(* core/history_replay.py does with earlier reasoning once the connection  *)
(* is known.  Contents are numbers in the order of the client's blocks.    *)
(***************************************************************************)
EXTENDS Integers, Sequences, FiniteSets, SequencesExt

CONSTANTS
    Settings,       \* conversations to convert: the provider's reasoning profile
                    \* [mode, scope, structured], its client's protocol, the blocks
                    \* [role, kind, shape] and call ids the client uses, and how
                    \* many blocks it sends at most
    MaxPerMessage   \* bound of a message

ASSUME SettingsAssumption ==
    /\ MaxPerMessage \in Nat
    /\ \A s \in Settings :
        /\ s.provider.mode \in {"disabled", "think_tags", "reasoning_content", "reasoning"}
        /\ s.provider.scope \in {"unknown", "tool_continuation", "all"}
        /\ s.provider.structured \in BOOLEAN
        /\ s.client \in {"messages", "responses"}
        /\ s.most \in Nat /\ s.ids \subseteq Nat \ {0}

VARIABLES
    setting,        \* the conversation converted, a member of Settings
    conversion,     \* "building", "refused" or "sent"
    wire            \* the messages sent

provider == setting.provider
FieldModes == {"reasoning_content", "reasoning"}

\* One message; `field` says that a reasoning field is present, `native` what it holds.
Message(role, parts) ==
    [role |-> role, parts |-> parts, field |-> FALSE, native |-> <<>>, details |-> <<>>,
     calls |-> <<>>, answers |-> 0, relocated |-> FALSE]

Part(n, form) == [n |-> n, form |-> form]
Numbers(blocks) == [i \in DOMAIN blocks |-> blocks[i].n]

\* Calls and results carry an id of the client's.
HasId(v) == v.kind \in {"tool", "result"}

\* A carrier whose native record can be read by anybody: a text or a summary (one that
\* has both counts as two blocks).
Summarised(b) == b.shape \in {"hereSummary", "elseSummary"}
Readable(b) == b.shape \in {"hereTold", "hereTyped", "elseTold"} \/ Summarised(b)
Carrier(b) == b.kind = "thinking" /\ b.shape # "plain"
Visible(b) == b.kind = "thinking" /\ b.shape # "raw" /\ ~Readable(b)

\* The tool message of a result, and the user message its images move to.
ToolMessage(b) == [Message("tool", <<>>) EXCEPT !.answers = b.n]
ImageMessages(b) ==
    IF b.shape = "images"
    THEN <<[Message("user", <<Part(b.n, "moved")>>) EXCEPT !.relocated = TRUE]>>
    ELSE <<>>

\* An assistant message never sits between a tool's answer and the next user message,
\* unless one is put there.
CloseTurn(out, m) ==
    IF m.role = "user" /\ out # <<>> /\ Last(out).role = "tool"
    THEN out \o <<Message("assistant", <<>>), m>> ELSE Append(out, m)

CloseTurns(messages) == FoldLeft(CloseTurn, <<>>, messages)

-----------------------------------------------------------------------------
(* Reasoning, for the connection that was opened *)

LastUser(messages) ==
    SelectLastInSeq(messages, LAMBDA m : m.role = "user" /\ ~m.relocated)

NativeText(messages, i) ==
    \/ provider.scope = "all"
    \/ /\ provider.scope = "tool_continuation"
       /\ i > LastUser(messages)
       /\ \E j \in i + 1 .. Len(messages) : messages[j].role = "tool"

\* One carrier: its opaque state returns to the connection it came from, and what it
\* says is told where that state does not already tell it.
SentBack(b) ==
    provider.structured
    /\ b.shape \in {"raw", "hereTold", "hereTyped", "hereSealed", "hereSummary"}
Typed(b) == SentBack(b) /\ b.shape \in {"hereTyped", "hereSummary"}
Untold(b) == Readable(b) /\ ~Typed(b)

\* Text goes into the field where the profile lets it; a summary is only ever context.
PrepareMessage(m, natively) ==
    LET untold == SelectSeq(m.details, Untold)
        inField == natively /\ provider.mode \in FieldModes
        native == IF inField
                  THEN m.native \o Numbers(SelectSeq(untold, LAMBDA b : ~Summarised(b)))
                  ELSE <<>>
        context == IF inField THEN Numbers(SelectSeq(untold, Summarised))
                   ELSE Numbers(untold) \o m.native
        present == (natively /\ m.field) \/ native # <<>>
    IN [m EXCEPT
        !.details = SelectSeq(@, SentBack),
        !.parts = @ \o [i \in DOMAIN context |-> Part(context[i], "context")],
        !.native = native,
        !.field = present \/ (provider.mode = "reasoning_content" /\ m.field /\ m.calls # <<>>)]

PrepareHistory(messages) ==
    [i \in DOMAIN messages |->
        IF messages[i].role = "assistant" THEN PrepareMessage(messages[i], NativeText(messages, i))
        ELSE messages[i]]

-----------------------------------------------------------------------------
(* What a provider can see *)

\* The places on the wire where a block of the client is told.
Told(i) ==
    Numbers(wire[i].parts) \o wire[i].native \o Numbers(wire[i].calls)
    \o (IF wire[i].answers = 0 THEN <<>> ELSE <<wire[i].answers>>)
    \o Numbers(SelectSeq(wire[i].details, Typed))
AllTold == FlattenSeq([i \in DOMAIN wire |-> Told(i)])
Times(n) == Cardinality({i \in DOMAIN AllTold : AllTold[i] = n})
Place(n) == CHOOSE i \in DOMAIN wire : n \in Range(Told(i))
Sent == conversion = "sent"
=============================================================================
