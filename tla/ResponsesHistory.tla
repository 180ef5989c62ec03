---------------------------- MODULE ResponsesHistory ---------------------------
(***************************************************************************)
(* What a Chat Completions provider is sent of a Responses conversation:   *)
(* the builder of core/openai_responses/chat_request.py takes the items of *)
(* the client's input one after another.  It holds reasoning back until it *)
(* knows the message it belongs to, and images of results until something  *)
(* else than a result comes.                                               *)
(***************************************************************************)
EXTENDS ChatWire

VARIABLES
    items,          \* the client's items taken so far
    builder         \* _ResponsesChatInputBuilder: messages, reasoning, rich, quarantined

responsesVars == <<setting, items, builder, conversion, wire>>

EmptyBuilder == [messages |-> <<>>, reasoning |-> <<>>, rich |-> <<>>, quarantined |-> {}]

-----------------------------------------------------------------------------
(* The builder *)

Summary(b) == b.kind = "summary"
TextForm == IF provider.mode = "think_tags" THEN "tags" ELSE "context"

\* All reasoning that was held back goes into one message: summaries as context, text in
\* the provider's form, carriers beside them.
WithReasoning(m, reasoning) ==
    LET text == Numbers(SelectSeq(reasoning, Visible))
        summaries == Numbers(SelectSeq(reasoning, Summary))
        inField == provider.mode \in FieldModes /\ text # <<>>
        before == IF inField THEN <<>> ELSE text
    IN [m EXCEPT
        !.parts = [i \in DOMAIN before |-> Part(before[i], TextForm)]
                  \o [i \in DOMAIN summaries |-> Part(summaries[i], "context")] \o @,
        !.field = @ \/ inField,
        !.native = IF inField THEN @ \o text ELSE @,
        !.details = @ \o SelectSeq(reasoning, LAMBDA b : Carrier(b) /\ (provider.structured \/ b.shape # "raw"))]

Says(m) == m.parts # <<>> \/ m.field \/ m.details # <<>> \/ m.calls # <<>>

FlushReasoning(s) ==
    LET m == WithReasoning(Message("assistant", <<>>), s.reasoning)
    IN [s EXCEPT !.reasoning = <<>>, !.messages = IF Says(m) THEN Append(@, m) ELSE @]

FlushRich(s) ==
    IF s.rich = <<>> THEN s
    ELSE [s EXCEPT !.rich = <<>>,
                   !.messages = Append(@, [Message("user", s.rich) EXCEPT !.relocated = TRUE])]

AtCalls(s) == s.messages # <<>> /\ Last(s.messages).calls # <<>>

AddUser(s, b) ==
    LET flushed == FlushReasoning(FlushRich(s))
    IN [flushed EXCEPT !.messages = Append(@, Message("user", <<Part(b.n, b.kind)>>))]

AddAssistant(s, b) ==
    [FlushRich(s) EXCEPT
        !.messages = Append(@, WithReasoning(Message("assistant", <<Part(b.n, b.kind)>>), s.reasoning)),
        !.reasoning = <<>>]

\* Calls join the message of the call before them; one whose arguments cannot be parsed
\* is left out, with the reasoning before it, and so is its output.
AddCall(s, b) ==
    LET flushed == FlushRich(s)
        open == IF AtCalls(flushed) THEN flushed
                ELSE [flushed EXCEPT !.messages = Append(@, Message("assistant", <<>>))]
        called == [WithReasoning(Last(open.messages), open.reasoning) EXCEPT
                    !.calls = Append(@, b), !.field = @ \/ provider.mode = "reasoning_content"]
    IN IF b.shape = "malformed"
       THEN [flushed EXCEPT !.quarantined = @ \cup {b.id}, !.reasoning = <<>>]
       ELSE [open EXCEPT !.messages[Len(open.messages)] = called, !.reasoning = <<>>]

AddOutput(s, b) ==
    LET settled == IF s.reasoning # <<>> /\ AtCalls(s)
                   THEN [s EXCEPT !.messages[Len(s.messages)] = WithReasoning(@, s.reasoning),
                                  !.reasoning = <<>>]
                   ELSE FlushReasoning(s)
    IN IF b.shape # "custom" /\ b.id \in s.quarantined THEN s
       ELSE [settled EXCEPT
            !.messages = Append(@, ToolMessage(b)),
            !.rich = IF b.shape = "images" THEN Append(@, Part(b.n, "moved")) ELSE @]

\* A screenshot has no tool message; it follows as an image.
AddScreenshot(s, b) ==
    LET flushed == FlushReasoning(s)
    IN [flushed EXCEPT !.rich = Append(@, Part(b.n, "moved"))]

AddHosted(s, b) ==
    LET flushed == FlushReasoning(FlushRich(s))
    IN [flushed EXCEPT !.messages = Append(@, Message("assistant", <<Part(b.n, b.kind)>>))]

AddItem(s, b) ==
    CASE b.kind \in {"text", "image"} /\ b.role = "user" -> AddUser(s, b)
      [] b.kind = "text" /\ b.role = "assistant" -> AddAssistant(s, b)
      [] b.kind = "system" -> FlushRich(s)
      [] b.kind \in {"thinking", "summary"} ->
            [FlushRich(s) EXCEPT !.reasoning = Append(@, b)]
      [] b.kind = "tool" -> AddCall(s, b)
      [] b.kind = "result" -> AddOutput(s, b)
      [] b.kind = "screenshot" -> AddScreenshot(s, b)
      [] OTHER -> AddHosted(s, b)

-----------------------------------------------------------------------------
(* The client's items, one after another *)

ItemChoices ==
    {[role |-> v.role, kind |-> v.kind, shape |-> v.shape, id |-> c, n |-> Len(items) + 1] :
        v \in {w \in setting.blocks : HasId(w)}, c \in setting.ids}
    \cup {[role |-> v.role, kind |-> v.kind, shape |-> v.shape, id |-> 0, n |-> Len(items) + 1] :
            v \in {w \in setting.blocks : ~HasId(w)}}

ResponsesInit ==
    /\ setting \in {s \in Settings : s.client = "responses"}
    /\ items = <<>> /\ builder = EmptyBuilder
    /\ conversion = "building" /\ wire = <<>>

TakeItem(b) ==
    /\ conversion = "building" /\ Len(items) < setting.most
    /\ items' = Append(items, b)
    /\ IF b.kind = "active" \/ b.shape = "broken" THEN conversion' = "refused" /\ UNCHANGED builder
       ELSE builder' = AddItem(builder, b) /\ UNCHANGED conversion
    /\ UNCHANGED <<setting, wire>>

FinishResponses ==
    /\ conversion = "building"
    /\ LET messages == FlushReasoning(FlushRich(builder)).messages
       IN IF messages = <<>> THEN conversion' = "refused" /\ UNCHANGED wire
          ELSE conversion' = "sent" /\ wire' = PrepareHistory(CloseTurns(messages))
    /\ UNCHANGED <<setting, items, builder>>

ResponsesNext ==
    \/ \E b \in ItemChoices : TakeItem(b)
    \/ FinishResponses

ResponsesSpec == ResponsesInit /\ [][ResponsesNext]_responsesVars

-----------------------------------------------------------------------------
(* Properties *)

ResponsesTypeOK ==
    /\ setting \in Settings
    /\ conversion \in {"building", "refused", "sent"}
    /\ \A i \in DOMAIN builder.messages : builder.messages[i].role \in {"user", "assistant", "tool"}
    /\ \A i \in DOMAIN builder.reasoning : builder.reasoning[i].kind \in {"thinking", "summary"}
    /\ \A i \in DOMAIN builder.rich : builder.rich[i].form = "moved"
    /\ builder.quarantined \subseteq setting.ids

GivenCalls == {b \in Range(items) : b.kind = "tool"}
Outputs == {b \in Range(items) : b.kind = "result"}
Malformed(id) == \E c \in GivenCalls : c.id = id /\ c.shape = "malformed"
Between(b, c) == {m \in Range(items) : b.n < m.n /\ m.n < c.n}

\* Each call has its own id and one output behind it, and nothing but other calls and
\* their reasoning, then other outputs, comes between.
WellGrouped ==
    /\ \A c, d \in GivenCalls : c.id = d.id => c = d
    /\ \A c \in GivenCalls : \E r \in Outputs :
        /\ r.id = c.id /\ c.n < r.n
        /\ \A m \in Between(c, r) :
            /\ m.kind \in {"tool", "result", "thinking", "summary"}
            /\ m.kind = "result" => \A k \in Between(m, r) : k.kind = "result"
    /\ \A r, s \in Outputs : r.id = s.id => r = s
    /\ \A r \in Outputs : \E c \in GivenCalls : c.id = r.id

\* Every call is followed by the results of its message, all of them, before anything
\* else is said, and nothing is answered that was left out.
CallsAnswered ==
    Sent /\ WellGrouped /\ (\A r \in Outputs : r.shape = "custom" => ~Malformed(r.id)) =>
        /\ \A i \in DOMAIN wire :
            LET k == Len(wire[i].calls)
                answers == {wire[j].answers : j \in i + 1 .. IF i + k <= Len(wire) THEN i + k ELSE i}
            IN {items[n].id : n \in answers \ {0}} = {c.id : c \in Range(wire[i].calls)}
        /\ \A i \in DOMAIN wire : wire[i].role = "tool" =>
            \E j \in 1 .. i - 1 : i <= j + Len(wire[j].calls)

\* Reasoning that is left out with a malformed call behind it: nothing came between that
\* would have taken it.
LeftOut(b) ==
    \E c \in GivenCalls :
        /\ c.shape = "malformed" /\ b.n < c.n
        /\ \A m \in Between(b, c) :
            \/ m.kind \in {"thinking", "summary", "system"}
            \/ m.kind = "result" /\ m.shape # "custom" /\ Malformed(m.id)

TimesToldOf(b) ==
    CASE b.kind \in {"thinking", "summary"} -> IF b.shape = "raw" \/ LeftOut(b) THEN 0 ELSE 1
      [] b.kind = "tool" -> IF Malformed(b.id) THEN 0 ELSE 1
      [] b.kind = "result" ->
            (IF b.shape = "images" THEN 2 ELSE 1)
            * (IF b.shape # "custom" /\ Malformed(b.id) THEN 0 ELSE 1)
      [] b.kind = "system" -> 0
      [] OTHER -> 1

\* Nothing of the client's input is lost or told twice, but what goes with a malformed
\* call and what nobody can read; system text goes before the messages.
InputToldOnce ==
    Sent /\ WellGrouped => \A b \in Range(items) : Times(b.n) = TimesToldOf(b)

\* The client's order is kept, but for reasoning, which joins the message it leads to,
\* and for the images of results, which follow the last result of their turn.
InputOrderKept ==
    Sent => \A i, j \in DOMAIN wire :
        i < j => \A p \in Range(wire[i].parts), q \in Range(wire[j].parts) :
            p.form \in {"text", "image", "hosted"} /\ q.form \in {"text", "image", "hosted", "moved"}
                => p.n < q.n

\* No user message directly follows a tool message.
ToolTurnsClosed ==
    Sent => \A i \in DOMAIN wire :
        wire[i].role = "user" /\ i > 1 => wire[i - 1].role # "tool"

\* Opaque reasoning returns only to the connection that made it, or when nobody knows
\* whose it is.
OpaqueGoesHome ==
    Sent => \A i \in DOMAIN wire : \A b \in Range(wire[i].details) : SentBack(b)

\* In the provider's field is only reasoning of the continuation after the user's last
\* words, when the profile says so, and never a summary.
FieldAfterUser ==
    Sent => \A i \in DOMAIN wire : \A n \in Range(wire[i].native) :
        /\ items[n].kind = "thinking" /\ ~Summarised(items[n])
        /\ provider.scope # "all" =>
            /\ provider.scope = "tool_continuation"
            /\ \A b \in Range(items) : b.role = "user" /\ b.kind \in {"text", "image"} => b.n < n

\* A provider that replays reasoning_content finds the field beside every call.
FieldWithCalls ==
    Sent /\ provider.mode = "reasoning_content" =>
        \A i \in DOMAIN wire : wire[i].calls # <<>> => wire[i].field

ResponsesSafety ==
    /\ ResponsesTypeOK /\ CallsAnswered /\ InputToldOnce /\ InputOrderKept /\ ToolTurnsClosed
    /\ OpaqueGoesHome /\ FieldAfterUser /\ FieldWithCalls
=============================================================================
