------------------------------ MODULE ChatOutput ------------------------------
(***************************************************************************)
(* The output of one epoch of a Chat stream: the assembler and the tool    *)
(* assembler (providers/openai_chat/transport.py, tool_calls.py) feed the  *)
(* provider's chunks through the text-tool parsers                         *)
(* (core/anthropic/tools.py) into an output writer (stream_output.py) for  *)
(* Anthropic Messages or OpenAI Responses, which numbers, opens and closes *)
(* the blocks the client sees (core/anthropic/streaming/ledger.py,         *)
(* core/openai_responses/streaming).                                       *)
(*                                                                         *)
(* A piece of visible text is known by its number, the arguments of a call *)
(* are a sequence of fragments, a name is a sequence of the parts it is    *)
(* streamed in.  The think-tag parser only splits and delays content: its  *)
(* parts are content of their own.                                         *)
(***************************************************************************)
EXTENDS Integers, Sequences, SequencesExt, FiniteSets

CONSTANTS Streams,      \* clients and requests, how the provider streams two tool
                        \* calls, and how many chunks are not part of one
          ReservedIds   \* ids of earlier calls of the conversation

ASSUME ChatAssumption ==
    \A s \in Streams :
        /\ s.pieces \in Nat /\ s.client \in {"messages", "responses"}
        /\ s.aliases \in BOOLEAN /\ s.details \in {"none", "opaque", "origin"}

VARIABLES
    chat,      \* the stream: client, whether names have aliases, reasoning details, calls
    progress,  \* deltas of each call received; the chunks that were not, and where calls began
    stage,     \* how far the assembler is
    ended,     \* finish_reason
    assembly      \* the output writer, the assembler's buffers and the parsers

chatVars == <<chat, progress, stage, ended, assembly>>

CallIndex == {0, 1}
NoBlock == -1
Messages == chat.client = "messages"

Task == <<"task">>
Edit == <<"edit">>      \* the tool whose arguments have aliases
Portable == {Task, Edit, <<"tool">>}
Aliases == IF chat.aliases THEN {<<"tool", "x">>, <<"mcp", "x">>} ELSE {}
Decode(name) == IF name \in Aliases THEN <<"client">> \o name ELSE name
AliasPrefix(name) == \E a \in Aliases : IsStrictPrefix(name, a)

\* _merge_tool_name, and register_tool_name: a provider repeats or continues a name.
Merge(old, new) ==
    IF IsPrefix(old, new) THEN new ELSE IF IsPrefix(new, old) THEN old ELSE old \o new

Whole(args) == args \in {<<"full">>, <<"head", "tail">>}
RunnableArgs(args) == Whole(args) \/ args \in {<<"restored">>, <<"foreground">>}
Parses(args) == RunnableArgs(args) \/ args = <<"{}">>

NewTool(i) == [index |-> i, id |-> <<>>, name |-> <<>>, started |-> FALSE, open |-> FALSE,
               block |-> NoBlock, task |-> <<>>, taskDone |-> FALSE, early |-> <<>>,
               parts |-> <<>>]

NewEpoch ==
    [wire |-> <<>>, next |-> 0, text |-> NoBlock, reasoning |-> NoBlock, content |-> FALSE,
     tools |-> <<>>, details |-> FALSE, sealed |-> FALSE, seen |-> FALSE, error |-> FALSE,
     terminal |-> FALSE, candidates |-> [i \in CallIndex |-> <<>>],
     public |-> [i \in CallIndex |-> <<>>], names |-> [i \in CallIndex |-> <<>>],
     aliased |-> [i \in CallIndex |-> <<>>], tags |-> "searching", held |-> <<>>,
     parser |-> "text", buffer |-> <<>>, texts |-> 0]

ChatInit ==
    /\ chat \in Streams
    /\ progress = [calls |-> [i \in CallIndex |-> 0], pieces |-> <<>>]
    /\ stage = "reading" /\ ended = "none" /\ assembly = NewEpoch

-----------------------------------------------------------------------------
(* Blocks of reasoning and text. *)

Put(s, e) == [s EXCEPT !.wire = Append(@, e)]
Event(e, b, k, c) == [e |-> e, b |-> b, k |-> k, c |-> c]
StartBlock(s, k, id) == [Put(s, Event("start", s.next, k, id)) EXCEPT !.next = @ + 1]

StopReasoning(s) ==
    IF s.reasoning = NoBlock THEN s
    ELSE LET sealed == IF s.sealed THEN Put(s, Event("delta", s.reasoning, "seal", <<>>)) ELSE s
         IN [Put(sealed, Event("stop", s.reasoning, "reasoning", <<>>)) EXCEPT
               !.reasoning = NoBlock, !.sealed = FALSE]
StopText(s) ==
    IF s.text = NoBlock THEN s
    ELSE [Put(s, Event("stop", s.text, "text", <<>>)) EXCEPT !.text = NoBlock]
CloseContent(s) == StopText(StopReasoning(s))

\* emit_reasoning_replay: the details seal the open reasoning block when their origin
\* is known, and are a block of their own otherwise.
Replay(s) ==
    IF chat.details = "origin" /\ s.reasoning # NoBlock
      THEN IF Messages THEN Put(s, Event("delta", s.reasoning, "seal", <<>>))
           ELSE [s EXCEPT !.sealed = TRUE]
      ELSE LET c == CloseContent(s)
           IN [Put(StartBlock(c, "opaque", <<>>), Event("stop", c.next, "opaque", <<>>)) EXCEPT
                  !.content = TRUE]
FlushReplay(s) == IF s.details THEN [Replay(s) EXCEPT !.details = FALSE] ELSE s

EnsureReasoning(s) ==
    LET c == StopText(s)
    IN IF c.reasoning # NoBlock THEN c
       ELSE [StartBlock(c, "reasoning", <<>>) EXCEPT !.reasoning = c.next, !.content = TRUE]
EnsureText(s) ==
    LET c == StopReasoning(FlushReplay(s))
    IN IF c.text # NoBlock THEN c
       ELSE [StartBlock(c, "text", <<>>) EXCEPT !.text = c.next, !.content = TRUE]

Reason(s) == LET c == EnsureReasoning(s) IN Put(c, Event("delta", c.reasoning, "reasoning", <<>>))
Show(s, pieces) ==
    IF pieces = <<>> THEN s
    ELSE LET c == EnsureText(s) IN Put(c, Event("delta", c.text, "text", pieces))

-----------------------------------------------------------------------------
(* Blocks of tool calls. *)

KnownTool(s, i) == \E n \in DOMAIN s.tools : s.tools[n].index = i
ToolPlace(s, i) == CHOOSE n \in DOMAIN s.tools : s.tools[n].index = i
Tool(s, i) == IF KnownTool(s, i) THEN s.tools[ToolPlace(s, i)] ELSE NewTool(i)
EnsureTool(s, i) == IF KnownTool(s, i) THEN s ELSE [s EXCEPT !.tools = Append(@, NewTool(i))]
SetTool(s, i, t) == LET k == EnsureTool(s, i) IN [k EXCEPT !.tools[ToolPlace(k, i)] = t]

StartTool(s, i, id, name) ==
    LET t == [Tool(s, i) EXCEPT !.id = id, !.name = name, !.started = TRUE, !.open = TRUE,
                                !.block = s.next]
    IN [StartBlock(SetTool(s, i, t), "tool", id) EXCEPT !.content = TRUE]

\* The Responses writer keeps the arguments until the block is stopped.
EmitTool(s, i, args) ==
    LET t == [Tool(s, i) EXCEPT !.parts = @ \o args]
        k == SetTool(s, i, t)
    IN IF Messages THEN Put(k, Event("delta", t.block, "tool", args)) ELSE k

StopTool(s, i) ==
    LET t == Tool(s, i)
        k == SetTool(s, i, [t EXCEPT !.open = FALSE])
    IN IF ~t.open THEN s
       ELSE IF Messages THEN Put(k, Event("stop", t.block, "tool", <<>>))
       ELSE IF Parses(t.parts)
         THEN Put(Put(k, Event("delta", t.block, "tool", t.parts)),
                  Event("stop", t.block, "tool", <<>>))
       ELSE [k EXCEPT !.error = TRUE]

CloseAll(s) ==
    FoldLeft(LAMBDA c, t : StopTool(c, t.index), CloseContent(FlushReplay(s)), s.tools)

\* A tool call the parsers found in the text: a block of its own, after the others.
TextTool(s) ==
    LET c == CloseContent(FlushReplay(s))
        i == Len(c.tools)
        k == [c EXCEPT !.texts = @ + 1]
    IN StopTool(EmitTool(StartTool(k, i, <<"text", k.texts>>, <<"tool">>), i, <<"full">>), i)
TextTools(s, n) == IF n = 0 THEN s ELSE IF n = 1 THEN TextTool(s) ELSE TextTool(TextTool(s))

-----------------------------------------------------------------------------
(* The deltas of a native tool call (process_tool_call). *)

\* A public id is the provider's unless the conversation or the response has it.
PublicId(s, i) ==
    IF s.public[i] # <<>> THEN s.public[i]
    ELSE IF /\ s.candidates[i] \notin ReservedIds \cup {<<>>}
            /\ \A j \in CallIndex : s.public[j] # s.candidates[i]
      THEN s.candidates[i] ELSE <<"fresh", i>>

Identify(s, i, id) ==
    IF id = <<>> THEN s
    ELSE [EnsureTool(s, i) EXCEPT !.candidates[i] = IF s.public[i] = <<>> THEN id ELSE @]

Register(s, i, name) ==
    SetTool(s, i, [Tool(s, i) EXCEPT !.name = Merge(@, name)])

\* _decode_streamed_tool_name: a name that may become an alias is held.
Named(s, i, part) ==
    LET name == Merge(s.names[i], part)
    IN IF part = <<>> THEN s
       ELSE IF ~chat.aliases THEN Register(s, i, part)
       ELSE IF name \notin Aliases /\ AliasPrefix(name) THEN [s EXCEPT !.names[i] = name]
       ELSE Register([s EXCEPT !.names[i] = <<>>], i, Decode(name))

\* _emit_tool_arg_delta: the arguments of Task are held until they are whole and run
\* in the foreground, aliased ones until their names can be restored.
Argue(s, i, args, aliases) ==
    LET t == Tool(s, i)
        all == IF t.name = Task THEN t.task \o args ELSE s.aliased[i] \o args
    IN IF args = <<>> \/ (t.name = Task /\ t.taskDone) THEN s
       ELSE IF t.name = Task
         THEN IF Whole(all)
                THEN EmitTool(SetTool(s, i, [t EXCEPT !.task = <<>>, !.taskDone = TRUE]), i,
                              <<"foreground">>)
                ELSE SetTool(s, i, [t EXCEPT !.task = all])
       ELSE IF t.name = Edit /\ aliases
         THEN IF Whole(all) THEN EmitTool([s EXCEPT !.aliased[i] = <<>>], i, <<"restored">>)
              ELSE [s EXCEPT !.aliased[i] = all]
       ELSE EmitTool(s, i, args)

\* Mutant: the arguments that came before the name are dropped.
StartNamedAlone(s, i, aliases) ==
    LET t == Tool(s, i)
        id == PublicId(s, i)
        k == StartTool([s EXCEPT !.public[i] = id], i, id, t.name)
    IN IF t.started \/ t.name = <<>> THEN s
       ELSE SetTool(k, i, [Tool(k, i) EXCEPT !.early = <<>>])

\* The block starts once the call has a name; arguments that came before it follow.
StartNamed(s, i, aliases) ==
    LET t == Tool(s, i)
        id == PublicId(s, i)
        k == StartTool([s EXCEPT !.public[i] = id], i, id, t.name)
    IN IF t.started \/ t.name = <<>> THEN s
       ELSE Argue(SetTool(k, i, [Tool(k, i) EXCEPT !.early = <<>>]), i, t.early, aliases)

ReceiveArgs(s, i, args, aliases) ==
    LET k == StartNamed(s, i, aliases)
        t == Tool(k, i)
    IN IF args = <<>> THEN k
       ELSE IF t.started THEN Argue(k, i, args, aliases)
       ELSE SetTool(k, i, [t EXCEPT !.early = @ \o args])

ToolDelta(s, i, d) ==
    ReceiveArgs(Named(Identify(s, i, d.id), i, d.name), i, d.args, TRUE)

-----------------------------------------------------------------------------
(* The parsers of visible text. *)

\* FunctionTagToolParser.disable releases what it held.
Disable(s) ==
    IF s.tags \in {"disabled", "finished"} THEN s
    ELSE Show([s EXCEPT !.tags = "disabled", !.held = <<>>], s.held)

\* What a piece brings: text, and at the end of a "tail" what may begin a control token.
\* "close" ends such a token; "mark" is a bullet, "long" text longer than what may stand
\* between a bullet and its call; "call" starts a call, "json" is a web tool call in one
\* piece and "told" one with text before it; "angle" is text that begins with "<", "tag"
\* the tag of the other parser, with a beginning of it that was held over.
Content(p, kind) ==
    CASE kind = "tail" -> <<2 * p, 2 * p + 1>>
      [] kind \in {"call", "json"} -> <<>>
      [] OTHER -> <<2 * p>>
IsTail(n) == n % 2 = 1
LastTail(held) == SelectLastInSeq(held, IsTail)

\* _split_incomplete_control_token_tail: it is kept if something stands before it.
SafePrefix(held) == IF LastTail(held) > 1 THEN SubSeq(held, 1, LastTail(held) - 1) ELSE held
TokenTail(held) == SubSeq(held, Len(SafePrefix(held)) + 1, Len(held))

\* _strip_control_tokens: the end of a token takes away what began it.
Stripped(held) == IF LastTail(held) = 0 THEN held ELSE SubSeq(held, 1, LastTail(held) - 1)

\* HeuristicToolParser.feed.  Text goes before the calls found; a JSON call drops all that
\* was held and read, and a call what stands between it and an earlier bullet.  Within a
\* call, "<" may begin a parameter: it is held, and any text after it.
Heuristic(s, p, kind) ==
    LET held == IF kind = "close" THEN Stripped(s.buffer) ELSE s.buffer
        all == held \o Content(p, kind)
        found == IF s.parser = "call" THEN 1 ELSE 0
        Go(parser, buffer, shown, calls) ==
            TextTools(Show([s EXCEPT !.parser = parser, !.buffer = buffer], shown), calls)
    IN CASE kind \in {"json", "told"} -> Go(s.parser, <<>>, <<>>, 1)
         [] kind = "call" -> Go("call", <<>>, IF s.parser = "mark" THEN <<>> ELSE held, found)
         [] kind = "mark" /\ s.parser # "mark" -> Go("mark", Content(p, kind), held, found)
         [] s.parser = "mark" /\ kind \notin {"call", "json", "told", "long"} -> Go("mark", all, <<>>, 0)
         [] s.parser = "call" /\ kind \notin {"call", "json", "told", "mark"} ->
              IF held # <<>> \/ kind \in {"angle", "tag"} THEN Go("call", all, <<>>, 0)
              ELSE Go("text", <<>>, all, 1)
         [] OTHER -> Go("text", TokenTail(all), SafePrefix(all), 0)

\* FunctionTagToolParser.feed: from its tag on everything is held.
FeedText(s, p, kind) ==
    IF s.tags = "holding" \/ (s.tags = "searching" /\ kind = "tag")
      THEN [s EXCEPT !.tags = "holding", !.held = @ \o Content(p, kind)]
      ELSE Heuristic(s, p, kind)

-----------------------------------------------------------------------------
(* The assembler. *)

\* The details of a reasoning delta are kept until the reasoning ends.
FeedReasoning(s, kind) ==
    CASE kind = "details" -> [s EXCEPT !.details = TRUE]
      [] kind = "text" -> Reason([s EXCEPT !.seen = TRUE])
      [] kind = "empty" /\ chat.details = "none" /\ ~s.seen ->
            EnsureReasoning([s EXCEPT !.seen = TRUE])
      [] OTHER -> s

TextKinds == {"plain", "long", "tail", "close", "angle", "tag", "mark", "call", "json", "told"}
Begins(i) == IF i = 0 THEN "call 0" ELSE "call 1"
Beginnings == {"call 0", "call 1"}
MayRead ==
    stage = "reading"
    /\ Len(SelectSeq(progress.pieces, LAMBDA kind : kind \notin Beginnings)) < chat.pieces

ReadReasoning(kind) ==
    /\ MayRead
    /\ kind = "details" => chat.details # "none"
    /\ progress' = [progress EXCEPT !.pieces = Append(@, "reasoning")]
    /\ assembly' = FeedReasoning(assembly, kind)
    /\ UNCHANGED <<chat, stage, ended>>

ReadText(kind) ==
    /\ MayRead
    /\ progress' = [progress EXCEPT !.pieces = Append(@, kind)]
    /\ assembly' = FeedText(assembly, Len(progress.pieces) + 1, kind)
    /\ UNCHANGED <<chat, stage, ended>>

\* A chunk with the next delta of a call.
ReadCall(i) ==
    /\ stage = "reading" /\ progress.calls[i] < Len(chat.calls[i])
    /\ progress' = [progress EXCEPT !.calls[i] = @ + 1,
                        !.pieces = IF progress.calls[i] = 0 THEN Append(@, Begins(i)) ELSE @]
    /\ assembly' = ToolDelta(CloseContent(FlushReplay(Disable(assembly))), i,
                             chat.calls[i][progress.calls[i] + 1])
    /\ UNCHANGED <<chat, stage, ended>>

\* finish_upstream, once the provider gave a finish_reason.  The text held is an envelope
\* of a call, or it is shown; the heuristic parser ends the call it is in and never shows
\* what it holds.
FinishTurn(reason, valid) ==
    LET s == assembly
        tags == IF s.tags \in {"searching", "holding"} THEN "finished" ELSE s.tags
        k == [s EXCEPT !.tags = tags, !.held = <<>>]
        shown == IF valid THEN TextTool(k) ELSE Show(k, s.held)
        flushed == IF shown.parser = "call"
                   THEN TextTool([shown EXCEPT !.parser = "text", !.buffer = <<>>]) ELSE shown
    IN /\ stage = "reading" /\ (valid => s.tags = "holding")
       /\ \A i \in CallIndex : s.names[i] \in Portable \cup {<<>>}
       /\ stage' = "finished" /\ ended' = reason
       /\ assembly' = FlushReplay(flushed)
       /\ progress' = IF valid THEN [progress EXCEPT !.pieces = Append(@, "envelope")] ELSE progress
       /\ UNCHANGED chat

NameHeld(s, i) ==
    IF s.names[i] = <<>> THEN s
    ELSE ReceiveArgs(Register([s EXCEPT !.names[i] = <<>>], i, Decode(s.names[i])), i, <<>>, TRUE)

AnyTool(s) == \E n \in DOMAIN s.tools : s.tools[n].started
ShownText(s) ==
    \E n \in DOMAIN s.wire : s.wire[n].e = "delta" /\ s.wire[n].k = "text" /\ s.wire[n].c # <<0>>
Reasoned(s) == \E n \in DOMAIN s.wire : s.wire[n].e = "delta" /\ s.wire[n].k = "reasoning"

\* A response is never empty, nor reasoning alone; 0 stands for its blank.
BlankStream(s) ==
    IF ~s.content \/ (~AnyTool(s) /\ ~ShownText(s) /\ Reasoned(s)) THEN Show(s, <<0>>) ELSE s

FlushAliased(s, i) ==
    IF s.aliased[i] = <<>> \/ Tool(s, i).name # Edit THEN s
    ELSE EmitTool([s EXCEPT !.aliased[i] = <<>>], i, s.aliased[i])

\* The arguments of a Task that are not JSON are replaced.
FlushTask(s, t) ==
    IF t.task = <<>> \/ t.taskDone THEN s
    ELSE EmitTool(SetTool(s, t.index, [t EXCEPT !.task = <<>>, !.taskDone = TRUE]), t.index,
                  <<"{}">>)

\* finish_success: a terminal frame, once.
Success(s, reason) ==
    LET c == CloseAll(s)
        how == IF Messages THEN (IF AnyTool(c) THEN "tool_use" ELSE reason)
               ELSE IF c.error THEN "failed"
               ELSE IF reason = "length" THEN "incomplete" ELSE "completed"
    IN IF s.terminal THEN s ELSE [Put(c, Event("end", NoBlock, how, <<>>)) EXCEPT !.terminal = TRUE]

\* prepare_completion and terminal_events.
CompleteResponse ==
    LET named == NameHeld(NameHeld(assembly, 0), 1)
        aliased == FlushAliased(FlushAliased(BlankStream(named), 0), 1)
        task == FoldLeft(FlushTask, aliased, aliased.tools)
    IN /\ stage = "finished"
       /\ stage' = "done" /\ assembly' = Success(CloseAll(task), ended)
       /\ UNCHANGED <<chat, progress, ended>>

-----------------------------------------------------------------------------
(* Recovery of an interrupted stream (_recovery_events). *)

\* The stream breaks off, or ends without finish_reason or within a name.
Interrupt ==
    /\ stage = "reading"
    /\ stage' = "interrupted" /\ UNCHANGED <<chat, progress, ended, assembly>>

\* What the client of each call got so far, and what stands for it if that is nothing.
RepairPrefix(s, t) ==
    IF t.parts # <<>> THEN t.parts
    ELSE IF t.name = Task /\ t.task # <<>> THEN t.task
    ELSE IF t.index \in CallIndex THEN s.aliased[t.index] ELSE <<>>

\* Arguments the schema accepts; that of aliased ones may accept the private names.
Accepted(t, args, private) == RunnableArgs(args) /\ (t.name = Edit /\ args # <<"restored">> => private)
Suffix(prefix) == IF prefix = <<"head">> THEN <<"tail">> ELSE <<"full">>
Repair(s, t, private) ==
    LET prefix == RepairPrefix(s, t)
        whole == IF prefix \in {<<>>, <<"head">>} THEN prefix \o Suffix(prefix) ELSE prefix
    IN IF ~t.started \/ Accepted(t, t.parts, private) THEN s
       ELSE IF t.parts = <<>> THEN EmitTool(s, t.index, whole)
       ELSE EmitTool(s, t.index, IF t.parts = <<"head">> THEN <<"tail">> ELSE <<>>)
CanSalvage(s, private) ==
    AnyTool(s) /\ \A t \in ToSet(s.tools) : t.started => Accepted(t, t.parts, private)

\* Calls are whole, or are made whole by asking the model for the rest.
Salvage(private) ==
    LET s == FoldLeft(LAMBDA c, t : Repair(c, t, private), assembly, assembly.tools)
    IN /\ stage = "interrupted" /\ AnyTool(assembly)
       /\ CanSalvage(s, private)
       /\ stage' = "done" /\ assembly' = Success(s, "end_turn")
       /\ UNCHANGED <<chat, progress, ended>>

\* The model continues reasoning or text, or gives the calls it did not.
Continue(reasons, shows, recalled) ==
    LET s == assembly
        r == IF reasons THEN Reason(s) ELSE s
        t == IF shows THEN Show(r, <<2 * (Len(progress.pieces) + 1)>>) ELSE r
        Recall(c, i) == ReceiveArgs(Register(c, i, Decode(<<"tool">>)), i, <<"full">>, FALSE)
        called == IF recalled THEN Recall(CloseContent(FlushReplay(t)), 0) ELSE t
    IN /\ stage = "interrupted" /\ ~AnyTool(s) /\ (ShownText(s) \/ Reasoned(s))
       /\ reasons \/ shows \/ recalled
       /\ stage' = "done" /\ assembly' = Success(called, "end_turn")
       /\ UNCHANGED <<chat, progress, ended>>

\* Nothing can be recovered: the Messages writer closes its blocks, the latest first,
\* and leaves the error to the caller.  (When nothing was shown yet the output is
\* discarded with the holdback, Transport's GiveUp.)
CloseUnclosed(s) ==
    LET k == FlushReplay(s)
        Of(e, b) == SelectSeq(k.wire, LAMBDA w : w.e = e /\ w.b = b)
        open == {b \in 0..(k.next - 1) : Of("stop", b) = <<>>}
        KindOf(b) == Of("start", b)[1].k
        stops == [n \in 1..Cardinality(open) |->
                    LET b == CHOOSE b \in open : Cardinality({c \in open : c > b}) = n - 1
                    IN Event("stop", b, KindOf(b), <<>>)]
    IN [k EXCEPT !.wire = @ \o stops, !.text = NoBlock, !.reasoning = NoBlock,
                 !.tools = [n \in DOMAIN @ |-> [@[n] EXCEPT !.open = FALSE]]]
FailStream ==
    /\ stage = "interrupted" /\ stage' = "failed"
    /\ assembly' = IF Messages THEN CloseUnclosed(assembly)
                   ELSE [Put(CloseAll(assembly), Event("end", NoBlock, "failed", <<>>)) EXCEPT
                            !.terminal = TRUE]
    /\ UNCHANGED <<chat, progress, ended>>

ChatWork ==
    \/ \E i \in CallIndex : ReadCall(i)
    \/ \E reason \in {"stop", "length"}, valid \in BOOLEAN : FinishTurn(reason, valid)
    \/ CompleteResponse
    \/ \E private \in BOOLEAN : Salvage(private)
    \/ FailStream
ChatNext ==
    \/ ChatWork
    \/ \E kind \in {"text", "empty", "details"} : ReadReasoning(kind)
    \/ \E kind \in TextKinds : ReadText(kind)
    \/ Interrupt
    \/ \E reasons, shows, recalled \in BOOLEAN : Continue(reasons, shows, recalled)

-----------------------------------------------------------------------------
(* Properties. *)

Wire == assembly.wire
WireBefore(e, b, n) == \E m \in 1..(n - 1) : Wire[m].e = e /\ Wire[m].b = b
Starts == {n \in DOMAIN Wire : Wire[n].e = "start"}
ToolStarts == {n \in Starts : Wire[n].k = "tool"}
Contents(events) == FlattenSeq([n \in DOMAIN events |-> events[n].c])
Shown == Contents(SelectSeq(Wire, LAMBDA w : w.e = "delta" /\ w.k = "text"))
Delivered(b) == Contents(SelectSeq(Wire, LAMBDA w : w.e = "delta" /\ w.b = b))
SentArguments(i) == FlattenSeq([n \in 1..progress.calls[i] |-> chat.calls[i][n].args])
Recovered == stage = "done" /\ ended = "none"

ChatTypeOK ==
    /\ chat \in Streams
    /\ progress.calls \in [CallIndex -> Nat]
    /\ ToSet(progress.pieces) \subseteq TextKinds \cup Beginnings \cup {"reasoning", "envelope"}
    /\ stage \in {"reading", "interrupted", "finished", "done", "failed"}
    /\ ended \in {"none", "stop", "length"}
    /\ assembly.tags \in {"searching", "holding", "disabled", "finished"}
    /\ assembly.parser \in {"text", "mark", "call"} /\ assembly.next \in Nat

\* What the provider sent, in which the parsers go wrong (see the README).  One that puts
\* a call into its text and begins a native call after it makes two calls of one index:
Pieces == progress.pieces
CallsInText == {n \in DOMAIN Pieces : Pieces[n] \in {"call", "json", "told"}}
IndexIsShared ==
    \E n \in CallsInText, i \in CallIndex :
        chat.calls[i] # <<>> /\ \A m \in 1..(n - 1) : Pieces[m] # Begins(i)

\* the tag of one parser behind what the other holds is shown first when a native call
\* comes;
TagOvertakes ==
    \E m, n, k \in DOMAIN Pieces :
        /\ m < n /\ n < k
        /\ Pieces[m] \in {"mark", "tail", "angle"} /\ Pieces[n] = "tag" /\ Pieces[k] \in Beginnings

\* and arguments that came before the name of an interrupted call stay in front of those
\* of the call that replaces it.
NameIsMissing ==
    \E i \in CallIndex : SentArguments(i) # <<>>
        /\ \A n \in 1..progress.calls[i] : chat.calls[i][n].name = <<>>

\* The client's view: deltas and stops only for an open block, a block is stopped once,
\* nothing follows the terminal frame, and at most one block of text or reasoning is open,
\* whichever of the parsers, the native deltas and the recovery wrote the blocks.
WireContract ==
    ~IndexIsShared =>
      /\ \A n \in DOMAIN Wire : Wire[n].e \in {"delta", "stop"} =>
            WireBefore("start", Wire[n].b, n) /\ ~WireBefore("stop", Wire[n].b, n)
      /\ \A n \in DOMAIN Wire : Wire[n].e = "end" => n = Len(Wire)
      /\ \A m, n \in Starts \ ToolStarts : m < n => WireBefore("stop", Wire[m].b, n)

\* A response that ends well has content, all of it closed, and its frame tells whether
\* the client must run a tool.
EndsWhole ==
    stage = "done" /\ ~IndexIsShared =>
      LET end == Last(Wire)
      IN /\ end.e = "end" /\ Starts # {}
         /\ end.k # "failed" => \A n \in Starts : WireBefore("stop", Wire[n].b, Len(Wire))
         /\ Messages => (end.k = "tool_use" <=> ToolStarts # {})

\* The arguments of a call reach the client in order and whole, those of Task only as a
\* foreground one, whether its name came first, late, or in parts.
ArgumentsKept ==
    \A i \in CallIndex :
      LET t == Tool(assembly, i)
          sent == SentArguments(i)
          native == KnownTool(assembly, i) /\ (t.id = <<>> \/ t.id[1] # "text")
      IN native /\ ~IndexIsShared /\ ~Recovered /\ stage # "failed" =>
         CASE t.name = Task ->
                IF t.taskDone THEN t.parts = IF Whole(sent) THEN <<"foreground">> ELSE <<"{}">>
                ELSE t.early \o t.task = sent
           [] t.name = Edit ->
                IF t.parts = <<>> THEN t.early \o assembly.aliased[i] = sent
                ELSE t.parts = IF Whole(sent) THEN <<"restored">> ELSE sent
           [] OTHER -> t.parts \o t.early = sent

\* What recovery takes for the arguments a client got is what its wire had.
WireHasParts ==
    \A t \in ToSet(assembly.tools) :
        t.started /\ ~IndexIsShared /\ (Messages \/ (~t.open /\ Parses(t.parts))) =>
            Delivered(t.block) = t.parts

\* What the client runs after a recovery are the whole arguments of one call, as the model
\* wrote them or as the writer had prepared them, never a part or a mixture.  (That those
\* of Task are not prepared any more is what TaskRunsInForeground says.)
RecoveredAreWhole ==
    Recovered /\ ~IndexIsShared /\ ~NameIsMissing =>
      \A t \in ToSet(assembly.tools) : t.started => RunnableArgs(t.parts)

\* The ids of the calls of a response differ from each other, and native ones from those
\* of the conversation.
IdsAreNew ==
    /\ \A m, n \in ToolStarts : m # n => Wire[m].c # Wire[n].c
    /\ \A n \in ToolStarts : Wire[n].c \notin ReservedIds

\* Text behind a bullet that may begin a call, until a long text shows that it does not:
\* a call that begins drops it, and so does the end.
BehindBullet(n) ==
    \E m \in 1..(n - 1) :
        /\ Pieces[m] = "mark"
        /\ \A k \in (m + 1)..(n - 1) : Pieces[k] \notin {"long", "call"}
        /\ ~\E k \in n..Len(Pieces) :
              /\ Pieces[k] = "long"
              /\ \A j \in (m + 1)..k : Pieces[j] \notin {"tail", "tag", "call", "json", "told"}

\* Text behind a "<" within a call: a bullet shows it, the end drops it.
BehindAngle(n) ==
    \E c, m \in 1..n :
        /\ c < m /\ Pieces[c] = "call" /\ Pieces[m] \in {"angle", "tag"}
        /\ \A k \in (m + 1)..n : Pieces[k] \notin {"mark", "call"}

\* Text from the tag on, when all of it is an envelope of a call.
InEnvelope(n) == Last(Pieces) = "envelope" /\ \E m \in 1..n : Pieces[m] = "tag"

\* Visible text reaches the client once and in order, whatever the parsers hold back, and
\* all of it is shown but what stands behind a bullet, behind a "<" within a call, or in
\* an envelope.  What a JSON call tells before its call and an unclosed "<|" at the end
\* are dropped too: neither kind is in TextOf.
TextOf == {"plain", "long", "tail", "close"}
TextInOrder ==
    /\ \A m, n \in DOMAIN Shown : m < n /\ Shown[m] # 0 =>
          Shown[m] # Shown[n] /\ (~TagOvertakes => Shown[m] < Shown[n])
    /\ stage = "done" /\ ~Recovered =>
          \A n \in DOMAIN Pieces : Pieces[n] \in TextOf =>
              2 * n \in ToSet(Shown) \/ BehindBullet(n) \/ BehindAngle(n) \/ InEnvelope(n)

\* The output of a Chat stream: a legal sequence of blocks that ends whole, calls whose
\* arguments and ids are right, and text in order, also after an interruption.
ChatSafety ==
    /\ ChatTypeOK /\ WireContract /\ EndsWhole /\ ArgumentsKept /\ WireHasParts
    /\ RecoveredAreWhole /\ IdsAreNew /\ TextInOrder

\* A Task that the client runs is one in the foreground, or an empty one.
TaskRunsInForeground ==
    stage = "done" => \A t \in ToSet(assembly.tools) :
        t.started /\ t.name = Task => t.parts \in {<<"foreground">>, <<"{}">>}
=============================================================================
