------------------------------ MODULE ChatHistory ------------------------------
(***************************************************************************)
(* What a Chat Completions provider is sent of a Messages conversation:    *)
(* core/anthropic/conversion.py assembles it message by message in a       *)
(* ledger that waits for the results of every tool turn.                   *)
(***************************************************************************)
EXTENDS ChatWire

VARIABLES
    transcript,     \* the client's messages converted so far
    ledger          \* _OpenAIChatHistoryLedger: output, segments, results

historyVars == <<setting, transcript, ledger, conversion, wire>>

-----------------------------------------------------------------------------
(* The messages of one client message *)

ContentParts(b) ==
    CASE b.kind \in {"text", "hosted"} -> <<Part(b.n, b.kind)>>
      [] Visible(b) /\ provider.mode = "disabled" -> <<Part(b.n, "context")>>
      [] Visible(b) /\ provider.mode = "think_tags" -> <<Part(b.n, "tags")>>
      [] OTHER -> <<>>

AssistantMessage(blocks) ==
    LET thinking == IF provider.mode \in FieldModes THEN SelectSeq(blocks, Visible) ELSE <<>>
    IN [Message("assistant", FlattenSeq([i \in DOMAIN blocks |-> ContentParts(blocks[i])]))
            EXCEPT !.field = thinking # <<>>, !.native = Numbers(thinking),
                   !.details = SelectSeq(blocks, Carrier)]

IsCall(b) == b.kind = "tool"
FirstCall(blocks) == SelectInSeq(blocks, IsCall)

\* What stands before the first call, and all reasoning, goes into the message of the
\* calls; what follows waits for their results.
BeforeCalls(blocks) ==
    LET lead == [i \in DOMAIN blocks |-> i < FirstCall(blocks) \/ blocks[i].kind = "thinking"]
    IN FlattenSeq([i \in DOMAIN blocks |-> IF lead[i] THEN <<blocks[i]>> ELSE <<>>])

\* Mutant of DeferredBlocks: only what follows the last call is kept.
DeferLastOnly(blocks) ==
    SelectSeq(SubSeq(blocks, SelectLastInSeq(blocks, IsCall) + 1, Len(blocks)),
              LAMBDA b : b.kind # "thinking")

DeferredBlocks(blocks) ==
    SelectSeq(SubSeq(blocks, FirstCall(blocks) + 1, Len(blocks)),
              LAMBDA b : ~IsCall(b) /\ b.kind # "thinking")

ToolTurn(blocks) ==
    LET calls == SelectSeq(blocks, IsCall)
    IN [turn |-> TRUE, emitted |-> FALSE, messages |-> <<>>, required |-> calls,
        deferred |-> DeferredBlocks(blocks),
        assistant |-> [AssistantMessage(BeforeCalls(blocks))
                        EXCEPT !.calls = calls, !.field = @ \/ provider.mode = "reasoning_content"]]

Plain(messages) ==
    [turn |-> FALSE, emitted |-> FALSE, messages |-> messages, required |-> <<>>,
     deferred |-> <<>>, assistant |-> Message("assistant", <<>>)]

UserMessage(blocks) ==
    Message("user", [i \in DOMAIN blocks |-> Part(blocks[i].n, blocks[i].kind)])

-----------------------------------------------------------------------------
(* The ledger *)

EmptyLedger == [output |-> <<>>, segments |-> <<>>, results |-> {}]

Answered(l, s) == \A c \in Range(s.required) : \E r \in l.results : r.id = c.id
ResultOf(l, c) == CHOOSE r \in l.results : r.id = c.id

\* A turn leaves the queue with the results it required, in the order of its calls.
TurnOutput(l, s) ==
    LET results == [i \in DOMAIN s.required |-> ResultOf(l, s.required[i])]
    IN [i \in DOMAIN results |-> ToolMessage(results[i])]
       \o FlattenSeq([i \in DOMAIN results |-> ImageMessages(results[i])])
       \o (IF s.deferred = <<>> THEN <<>> ELSE <<AssistantMessage(s.deferred)>>)

DrainOne(l, s) ==
    LET shown == IF s.turn /\ ~s.emitted THEN Append(l.output, s.assistant) ELSE l.output
    IN CASE l.segments # <<>> -> [l EXCEPT !.segments = Append(@, s)]
         [] l.segments = <<>> /\ ~s.turn -> [l EXCEPT !.output = @ \o s.messages]
         [] l.segments = <<>> /\ s.turn /\ ~Answered(l, s) ->
                [l EXCEPT !.output = shown, !.segments = <<[s EXCEPT !.emitted = TRUE]>>]
         [] OTHER -> [l EXCEPT !.output = shown \o TurnOutput(l, s),
                               !.results = {r \in @ : \A c \in Range(s.required) : r.id # c.id}]

Drain(l) == FoldLeft(DrainOne, [l EXCEPT !.segments = <<>>], l.segments)
AddSegment(l, s) == Drain([l EXCEPT !.segments = Append(@, s)])

Awaited(l, id) == \E s \in Range(l.segments) : \E c \in Range(s.required) : c.id = id

RecordResult(l, b) ==
    IF Awaited(l, b.id)
    THEN [l EXCEPT !.results = {r \in @ : r.id # b.id} \cup {b}]
    ELSE AddSegment(l, Plain(<<ToolMessage(b)>> \o ImageMessages(b)))

\* Text and images between two results become one user message.
AddText(acc) ==
    IF acc.texts = <<>> THEN acc.ledger
    ELSE AddSegment(acc.ledger, Plain(<<UserMessage(acc.texts)>>))

AddUserBlock(acc, b) ==
    IF b.kind = "result"
    THEN [ledger |-> RecordResult(AddText(acc), b), texts |-> <<>>]
    ELSE [acc EXCEPT !.texts = Append(@, b)]

AddUserBlocks(l, blocks) ==
    Drain(AddText(FoldLeft(AddUserBlock, [ledger |-> l, texts |-> <<>>], blocks)))

Coalesce(out, m) ==
    IF m.role = "user" /\ out # <<>> /\ Last(out).role = "user"
    THEN [out EXCEPT ![Len(out)].parts = @ \o m.parts] ELSE Append(out, m)

Converted(output) == FoldLeft(Coalesce, <<>>, CloseTurns(output))

-----------------------------------------------------------------------------
(* The client's messages, one after another *)

BlockCount == FoldLeft(LAMBDA n, m : n + Len(m.blocks), 0, transcript)
AllBlocks == FlattenSeq([i \in DOMAIN transcript |-> transcript[i].blocks])

\* The lists of blocks a message of a role may carry: its calls have distinct ids, and
\* so have its results.
OfferedBlocks(role) ==
    {[kind |-> v.kind, shape |-> v.shape, id |-> c] :
        v \in {w \in setting.blocks : w.role = role /\ HasId(w)}, c \in setting.ids}
    \cup {[kind |-> v.kind, shape |-> v.shape, id |-> 0] :
            v \in {w \in setting.blocks : w.role = role /\ ~HasId(w)}}

BlocksOf(role, k) ==
    {blocks \in [1 .. k -> OfferedBlocks(role)] :
        \A i, j \in 1 .. k : i < j /\ blocks[i].id # 0 => blocks[i].id # blocks[j].id}

Numbered(blocks) ==
    [i \in DOMAIN blocks |->
        [n |-> BlockCount + i, kind |-> blocks[i].kind, shape |-> blocks[i].shape,
         id |-> blocks[i].id]]

HistoryInit ==
    /\ setting \in {s \in Settings : s.client = "messages"}
    /\ transcript = <<>> /\ ledger = EmptyLedger
    /\ conversion = "building" /\ wire = <<>>

Take(role, blocks) == transcript' = Append(transcript, [role |-> role, blocks |-> blocks])

\* An unfinished hosted tool, an image and a malformed carrier are refused.
TakeAssistant(given) ==
    LET blocks == Numbered(given)
    IN /\ conversion = "building"
       /\ Take("assistant", blocks)
       /\ IF \E b \in Range(blocks) : b.kind \in {"active", "image"} \/ b.shape = "broken"
          THEN conversion' = "refused" /\ UNCHANGED ledger
          ELSE /\ ledger' = AddSegment(ledger,
                    IF FirstCall(blocks) > 0 THEN ToolTurn(blocks)
                    ELSE Plain(<<AssistantMessage(blocks)>>))
               /\ UNCHANGED conversion
       /\ UNCHANGED <<setting, wire>>

TakeUser(given) ==
    /\ conversion = "building"
    /\ Take("user", Numbered(given))
    /\ ledger' = AddUserBlocks(ledger, Numbered(given))
    /\ UNCHANGED <<setting, conversion, wire>>

\* Instructions within the conversation become words of the user's.
TakeInstructions(given) ==
    LET blocks == Numbered(given)
    IN /\ conversion = "building"
       /\ Take("system", blocks)
       /\ IF \E b \in Range(blocks) : b.kind # "text"
          THEN conversion' = "refused" /\ UNCHANGED ledger
          ELSE ledger' = AddSegment(ledger, Plain(<<UserMessage(blocks)>>)) /\ UNCHANGED conversion
       /\ UNCHANGED <<setting, wire>>

FinishHistory ==
    /\ conversion = "building" /\ transcript # <<>>
    /\ IF \E s \in Range(ledger.segments) : s.turn /\ ~Answered(ledger, s)
       THEN conversion' = "refused" /\ UNCHANGED wire
       ELSE conversion' = "sent" /\ wire' = PrepareHistory(Converted(ledger.output))
    /\ UNCHANGED <<setting, transcript, ledger>>

HistoryNext ==
    \/ \E k \in 1 .. MaxPerMessage :
        BlockCount + k <= setting.most
        /\ \/ \E given \in BlocksOf("assistant", k) : TakeAssistant(given)
           \/ \E given \in BlocksOf("user", k) : TakeUser(given)
           \/ \E given \in BlocksOf("system", k) : TakeInstructions(given)
    \/ FinishHistory

HistorySpec == HistoryInit /\ [][HistoryNext]_historyVars
-----------------------------------------------------------------------------
(* Properties *)

HistoryTypeOK ==
    /\ setting \in Settings
    /\ conversion \in {"building", "refused", "sent"}
    /\ \A i \in DOMAIN transcript : transcript[i].role \in {"user", "assistant", "system"}
    /\ \A i \in DOMAIN ledger.segments : ledger.segments[i].turn \in BOOLEAN
    /\ \A r \in ledger.results : r.kind = "result"
    /\ \A i \in DOMAIN wire : wire[i].role \in {"user", "assistant", "tool"}

ClientBlock(n) == AllBlocks[n]
Results == {b \in Range(AllBlocks) : b.kind = "result"}
MadeCalls == {b \in Range(AllBlocks) : b.kind = "tool"}

\* The client answers every call once, after it, and nothing else.
Coherent ==
    /\ \A r \in Results : \E c \in MadeCalls : c.id = r.id /\ c.n < r.n
    /\ \A c, d \in MadeCalls : c.id = d.id => c = d
    /\ \A r, s \in Results : r.id = s.id => r = s

\* Every call is followed by the results of its message, all of them, in the order of
\* the calls, before anything else is said: what a provider requires of a history.
AnsweredInPlace ==
    Sent /\ Coherent =>
        /\ \A i \in DOMAIN wire : \A k \in DOMAIN wire[i].calls :
             /\ i + k <= Len(wire) /\ wire[i + k].role = "tool"
             /\ ClientBlock(wire[i + k].answers).id = wire[i].calls[k].id
        /\ \A i \in DOMAIN wire : wire[i].role = "tool" =>
             \E j \in 1 .. i - 1 : i <= j + Len(wire[j].calls)


\* Nothing the client sent is lost or told twice: an image result is told by its tool
\* message and by the message its images moved to, and reasoning that nobody can read
\* is not told.
ToldOnce ==
    Sent /\ Coherent => \A b \in Range(AllBlocks) :
        Times(b.n) = CASE b.shape = "images" -> 2 [] b.shape = "raw" -> 0 [] OTHER -> 1

\* Text, images and hosted tool records keep the client's order, and a result is never
\* told after text that the client placed behind it.
Placed(b) == b.kind \in {"text", "image", "hosted"}
OrderIsKept ==
    Sent /\ Coherent =>
        /\ \A i, j \in DOMAIN AllTold :
             i < j /\ Placed(ClientBlock(AllTold[i])) /\ Placed(ClientBlock(AllTold[j]))
                => AllTold[i] < AllTold[j]
        /\ \A r \in Results, b \in Range(AllBlocks) :
             Placed(b) /\ r.n < b.n => Place(r.n) < Place(b.n)

\* No user message follows a tool message or a user message.
TurnsAlternate ==
    Sent => \A i \in DOMAIN wire :
        wire[i].role = "user" => i = 1 \/ wire[i - 1].role = "assistant"

\* Opaque reasoning is sent to the connection that made it, or when nobody knows whose
\* it is, and not lost for that connection.
SealedGoesHome ==
    Sent => \A b \in Range(AllBlocks) :
        (\E i \in DOMAIN wire : b \in Range(wire[i].details))
            <=> provider.structured /\ b.kind = "thinking"
                /\ b.shape \in {"raw", "hereTold", "hereTyped", "hereSealed", "hereSummary"}

\* What the user, or an instruction, says between two messages of the assistant.
Words == {i \in DOMAIN AllBlocks : AllBlocks[i].kind \in {"text", "image"}
            /\ \E m \in Range(transcript) : m.role # "assistant" /\ AllBlocks[i] \in Range(m.blocks)}
Earlier(n) == {i \in DOMAIN transcript : transcript[i].role = "assistant" /\ transcript[i].blocks[1].n < n}
Before(n) == transcript[CHOOSE i \in Earlier(n) : \A j \in Earlier(n) : j <= i].blocks

\* Words whose last message of the assistant ends with calls, one of them answered by
\* images: they join the message of the images, which counts as a result and not as the
\* user's turn.  Decided by what the client sent alone.
BehindImages(n) ==
    /\ Earlier(n) # {} /\ FirstCall(Before(n)) > 0 /\ DeferredBlocks(Before(n)) = <<>>
    /\ \E c \in Range(Before(n)), r \in Results : IsCall(c) /\ r.id = c.id /\ r.shape = "images"

\* The words that start a turn of the user's.
Spoken == {n \in Words : ~BehindImages(n)}

\* Reasoning travels in the provider's field exactly where the profile lets it: in the
\* tool continuation after the user's last turn, and nowhere when reuse is unknown; what
\* travels there is reasoning and never a summary of it.
FieldOnlyInContinuation ==
    Sent /\ Coherent => \A i \in DOMAIN wire : \A n \in Range(wire[i].native) :
        /\ provider.mode \in FieldModes /\ provider.scope # "unknown"
        /\ ~Summarised(ClientBlock(n))
        /\ provider.scope = "tool_continuation" =>
             /\ \A w \in Spoken : w < n
             /\ \E c \in MadeCalls : c.n > n \/ Place(c.n) = i

\* Until the user's next turn, the reasoning before a call that was made is in the field of
\* every provider that has one and may reuse it, wherever the reasoning came from, except
\* what the restored opaque state already tells and summaries.
ContinuationKeepsReasoning ==
    Sent /\ Coherent /\ provider.mode \in FieldModes /\ provider.scope # "unknown" =>
        \A b \in Range(AllBlocks) :
            /\ b.kind = "thinking" /\ b.shape # "raw" /\ ~Typed(b) /\ ~Summarised(b)
            /\ \E c \in MadeCalls : c.n > b.n
            /\ \A w \in Spoken : w < b.n
            => \E i \in DOMAIN wire : b.n \in Range(wire[i].native)

\* A provider that replays reasoning_content finds the field beside every call.
FieldBesideCalls ==
    Sent /\ provider.mode = "reasoning_content" =>
        \A i \in DOMAIN wire : wire[i].calls # <<>> => wire[i].field

HistorySafety ==
    /\ HistoryTypeOK /\ AnsweredInPlace /\ ToldOnce /\ OrderIsKept /\ TurnsAlternate
    /\ SealedGoesHome /\ FieldOnlyInContinuation
    /\ ContinuationKeepsReasoning /\ FieldBesideCalls
=============================================================================
