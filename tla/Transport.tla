------------------------------ MODULE Transport -------------------------------
(***************************************************************************)
(* One provider execution: the three transports (providers/openai_chat,    *)
(* openai_responses and anthropic_messages) that open attempts, hold their *)
(* output back, and after a failure refresh the credentials, correct the   *)
(* request, retry invisibly, recover the interrupted output or give up     *)
(* (request_recovery.py, stream_recovery.py, http.py).  The admission      *)
(* gate, modelled by Admission, either admits an attempt or refuses it.    *)
(*                                                                         *)
(* An epoch is one generation attempt's output: what it holds back or has  *)
(* delivered is known by the number of the attempt.                        *)
(***************************************************************************)
EXTENDS Integers, FiniteSets

CONSTANT MaxAttempts    \* _max_attempts of the execution

ASSUME TransportAssumption == MaxAttempts \in Nat \ {0}

VARIABLES
    protocol,   \* the transport, the client's protocol, and how output is held back
    step,       \* what the execution awaits
    attempts,   \* attempts started
    execution,  \* state of the ProviderExecution
    attempt,    \* the ProviderAttempt in use
    upstream,   \* the provider stream in use is open
    purpose,    \* what the attempts are for
    epoch,      \* number of the generation attempt the output comes from
    held,       \* epochs with output in the holdback buffer, and whether it is empty
    committed,  \* the buffer has been flushed
    delivered,  \* epochs with content the client has received
    output,     \* what the epoch has generated: nothing, text, a tool call, a whole one
    refreshed,  \* the credentials were refreshed
    used,       \* corrections used
    fault,      \* the error being handled
    frame,      \* the terminal frame given to the client
    result      \* how the generator ended

transportVars == <<protocol, step, attempts, execution, attempt, upstream, purpose, epoch,
                   held, committed, delivered, output, refreshed, used, fault, frame, result>>

Attempts == 1..MaxAttempts
Corrections == {"reasoning", "providerSpecific"}    \* those that are tried once
Faults == [at : {"creating", "streaming"}, retryable : BOOLEAN, auth : BOOLEAN,
           fix : Corrections \cup {"none", "history"}, allowed : BOOLEAN]

Chat == protocol.transport = "chat"

TransportTypeOK ==
    /\ protocol \in [transport : {"chat", "responses", "messages"},
                     wire : {"messages", "responses"}, holdback : BOOLEAN]
    /\ step \in {"top", "creating", "streaming", "fault", "judged", "recovered", "final", "done"}
    /\ attempts \in 0..MaxAttempts
    /\ execution \in {"active", "succeeded", "failed", "abandoned"}
    /\ attempt \in {"none", "pending", "accepted"} /\ upstream \in BOOLEAN
    /\ purpose \in {"generation", "continuation", "repair"}
    /\ epoch \in 0..MaxAttempts /\ held \subseteq 0..MaxAttempts /\ committed \in BOOLEAN
    /\ delivered \subseteq Attempts
    /\ output \in {"nothing", "text", "tool", "wholeTool"}
    /\ refreshed \in BOOLEAN /\ used \subseteq Corrections /\ fault \in Faults
    /\ frame \in {"none", "success", "failure"}
    /\ result \in {"none", "returned", "raised", "closed"}

TransportInit ==
    /\ protocol \in [transport : {"chat", "responses", "messages"},
                     wire : {"messages", "responses"}, holdback : BOOLEAN]
    /\ step = "top" /\ attempts = 0 /\ execution = "active"
    /\ attempt = "none" /\ upstream = FALSE /\ purpose = "generation"
    /\ epoch = 0 /\ held = {} /\ committed = FALSE /\ delivered = {} /\ output = "nothing"
    /\ refreshed = FALSE /\ used = {} /\ fault \in {f \in Faults : f.fix = "none" /\ ~f.retryable /\ ~f.auth /\ ~f.allowed /\ f.at = "creating"}
    /\ frame = "none" /\ result = "none"

buffer == <<held, committed, delivered>>
history == <<refreshed, used>>
answer == <<frame, result>>

CanAttempt == execution = "active" /\ attempts < MaxAttempts
Remaining == IF execution = "active" THEN MaxAttempts - attempts ELSE 0

\* generated_output and complete_tool_salvageable of the epoch; the other
\* transports cannot salvage, and take the commitment for the output.
Generated == IF Chat THEN output # "nothing" ELSE committed
Salvageable == Chat /\ output = "wholeTool"

\* ProviderAttemptScope.aclose: the stream and the attempt are closed.
CloseScope == attempt' = "none" /\ upstream' = FALSE

\* The buffer is discarded, or flushed; 0 stands for frames without content.
Discard == held' = {} /\ UNCHANGED <<committed, delivered>>
Flushed == held' = {} /\ committed' = TRUE /\ delivered' = delivered \cup (held \ {0})

\* RecoveryController.push of the frames f: without a holdback they are flushed at
\* once, otherwise when the window or the buffer is full.
Push(f) ==
    IF committed THEN delivered' = delivered \cup (f \ {0}) /\ UNCHANGED <<held, committed>>
    ELSE \/ /\ held' = {} /\ committed' = TRUE
            /\ delivered' = delivered \cup ((held \cup f) \ {0})
         \/ protocol.holdback /\ held' = held \cup f /\ UNCHANGED <<committed, delivered>>

-----------------------------------------------------------------------------
(* Attempts. *)

\* The gate admits the next attempt.  A generation attempt begins an epoch.
OpenAttempt ==
    /\ step = "top" /\ CanAttempt
    /\ step' = "creating" /\ attempts' = attempts + 1 /\ attempt' = "pending"
    /\ IF purpose = "generation" THEN epoch' = attempts + 1 /\ output' = "nothing"
       ELSE UNCHANGED <<epoch, output>>
    /\ UNCHANGED <<protocol, execution, upstream, purpose, buffer, history, fault, answer>>

\* How an execution ends that raises; the wrapper marks it failed.
Raise ==
    /\ step' = "done" /\ result' = "raised"
    /\ execution' = IF execution = "active" THEN "failed" ELSE execution
    /\ CloseScope

\* No attempt is left, or the gate refuses one, as other requests have exhausted the
\* provider's recovery; or the endpoint, which the Responses transport resolves
\* first, cannot be.
NoAttempt ==
    /\ step = "top"
    /\ IF purpose = "generation" THEN Raise /\ UNCHANGED frame
       ELSE /\ step' = "final"
            /\ execution' = IF execution = "active" THEN "failed" ELSE execution
            /\ UNCHANGED <<attempt, upstream, answer>>
    /\ UNCHANGED <<protocol, attempts, purpose, epoch, buffer, output, history, fault>>

\* The endpoint is resolved and the provider answers with a stream.
Create ==
    /\ step = "creating"
    /\ step' = "streaming" /\ upstream' = TRUE
    /\ UNCHANGED <<protocol, attempts, execution, attempt, purpose, epoch, buffer, output,
                   history, fault, answer>>

\* Creating the stream fails, or reading it does; a stream that ends before its
\* terminal event fails.
AttemptFails(e) ==
    /\ step \in {"creating", "streaming"} /\ e.at = step /\ ~e.allowed
    /\ step' = "fault" /\ fault' = e
    /\ UNCHANGED <<protocol, attempts, execution, attempt, upstream, purpose, epoch, buffer,
                   output, history, answer>>

Outputs == {"nothing", "text", "tool", "wholeTool"}
Grown(from) == CASE from = "nothing" -> Outputs
                 [] from = "text" -> Outputs \ {"nothing"}
                 [] OTHER -> {"tool", "wholeTool"}

\* A chunk accepts the attempt; its frames go to the client through the buffer.  A
\* chunk without content starts the response at most.
ReadChunk(o) ==
    /\ step = "streaming" /\ purpose = "generation"
    /\ o \in Grown(output)
    /\ attempt' = "accepted" /\ output' = o
    /\ Push({IF o = "nothing" THEN 0 ELSE epoch})
    /\ UNCHANGED <<protocol, step, attempts, execution, upstream, purpose, epoch, history,
                   fault, answer>>

\* The Messages transport relays a ping without accepting the attempt.
Ping ==
    /\ step = "streaming" /\ protocol.transport = "messages" /\ protocol.wire = "messages"
    /\ Push({0})
    /\ UNCHANGED <<protocol, step, attempts, execution, attempt, upstream, purpose, epoch,
                   output, history, fault, answer>>

\* The stream is complete: everything is flushed, the last frame is the terminal one.
\* The Chat transport makes a text of an empty response.
Complete ==
    /\ step = "streaming" /\ purpose = "generation" /\ attempt = "accepted"
    /\ step' = "done" /\ result' = "returned" /\ frame' = "success"
    /\ execution' = IF execution = "active" THEN "succeeded" ELSE execution
    /\ held' = {} /\ committed' = TRUE
    /\ delivered' = delivered \cup {epoch} \cup (held \ {0})
    /\ CloseScope
    /\ UNCHANGED <<protocol, attempts, purpose, epoch, output, history, fault>>

-----------------------------------------------------------------------------
(* Failures. *)

Creating == fault.at = "creating"

\* retry_authentication: the credentials are refreshed once, unless the client has
\* seen output.  A recovery asks only where its stream is created.
RefreshIsTried ==
    fault.auth /\ ~refreshed /\ ~committed /\ (purpose = "generation" \/ Creating)

\* Mutant: a correction does not ask whether the client has seen output.
CorrectionIsTriedAlways == fault.fix # "none" /\ fault.fix \notin used

\* retry_request: a correction of the body.  Only a generation is bound to what the
\* client has seen.
CorrectionIsTried ==
    /\ fault.fix # "none" /\ fault.fix \notin used
    /\ IF purpose = "generation" THEN ~committed ELSE Creating

ResendIsTried == RefreshIsTried \/ CorrectionIsTried

\* The request is sent again at once, and the buffer of its epoch is discarded.
Resend ==
    /\ step = "fault" /\ CanAttempt /\ ResendIsTried
    /\ IF RefreshIsTried THEN refreshed' = TRUE /\ UNCHANGED used
       ELSE used' = used \cup (Corrections \cap {fault.fix}) /\ UNCHANGED refreshed
    /\ step' = "top" /\ CloseScope
    /\ IF purpose = "generation" THEN Discard ELSE UNCHANGED buffer
    /\ UNCHANGED <<protocol, attempts, execution, purpose, epoch, output, fault, answer>>

\* ProviderAttempt.fail, or .correct where it refuses: an attempt that was not
\* accepted fails the execution unless it may be retried.  Other requests may have
\* exhausted the provider's recovery, which fails it as well.
Judge ==
    /\ step = "fault" /\ ~(CanAttempt /\ ResendIsTried)
    /\ step' = "judged"
    /\ LET again == fault.retryable /\ ~ResendIsTried /\ CanAttempt IN
       IF attempt = "accepted" THEN UNCHANGED <<execution, fault>>
       ELSE \E shed \in BOOLEAN :
            /\ execution' = IF execution = "active" /\ (~again \/ shed) THEN "failed" ELSE execution
            /\ fault' = [fault EXCEPT !.retryable = fault.retryable /\ ~ResendIsTried,
                                      !.allowed = again /\ ~shed]
    /\ UNCHANGED <<protocol, attempts, attempt, upstream, purpose, epoch, buffer, output,
                   history, answer>>

\* advance_failure of RecoveryController.
RetriesEarly ==
    /\ fault.retryable /\ Remaining > 0 /\ ~Creating
    /\ ~committed /\ ~Salvageable /\ ~(Generated /\ Remaining = 1)

\* The Chat transport asks whether a retry is allowed only where it creates streams.
RetriesGeneration == RetriesEarly \/ (fault.allowed /\ (Chat => Creating))

Recovers ==
    Chat /\ ~Creating /\ fault.retryable /\ Generated /\ (Remaining > 0 \/ Salvageable)

\* Another generation attempt: a new epoch behind a new holdback.
RetryGeneration ==
    /\ step = "judged" /\ purpose = "generation" /\ RetriesGeneration
    /\ step' = "top" /\ CloseScope /\ Discard
    /\ UNCHANGED <<protocol, attempts, execution, purpose, epoch, output, history, fault, answer>>

\* The interrupted output is kept: a tool call that is whole ends the response, one
\* that is not has its arguments repaired, by what was kept of them where that is enough,
\* and a text is continued.
Recover ==
    /\ step = "judged" /\ purpose = "generation" /\ ~RetriesGeneration /\ Recovers
    /\ CloseScope
    /\ \/ output # "text" /\ step' = "recovered" /\ UNCHANGED purpose
       \/ output = "tool" /\ step' = "top" /\ purpose' = "repair"
       \/ output = "text" /\ step' = "top" /\ purpose' = "continuation"
    /\ UNCHANGED <<protocol, attempts, execution, epoch, buffer, output, history, fault, answer>>

\* _collect_recovery_output tries again after a failure that is retryable.
RetryRecovery ==
    /\ step = "judged" /\ purpose # "generation"
    /\ IF Creating THEN fault.allowed ELSE fault.retryable /\ CanAttempt
    /\ step' = "top" /\ CloseScope
    /\ UNCHANGED <<protocol, attempts, execution, purpose, epoch, buffer, output, history,
                   fault, answer>>

\* A recovery attempt is read to its end.  A repair that does not fit, or that leaves
\* another tool call, is followed by the next while there are attempts; a
\* continuation that adds nothing is none.
ReadRecovery(fits) ==
    /\ step = "streaming" /\ purpose # "generation"
    /\ step' = IF fits THEN "recovered" ELSE IF purpose = "repair" THEN "top" ELSE "final"
    /\ CloseScope
    /\ UNCHANGED <<protocol, attempts, execution, purpose, epoch, buffer, output, history,
                   fault, answer>>

\* The recovered output and its terminal frame are given to the client.
EndRecovered ==
    /\ step = "recovered"
    /\ step' = "done" /\ result' = "returned" /\ frame' = "success"
    /\ execution' = IF execution = "active" THEN "succeeded" ELSE execution
    /\ held' = {} /\ committed' = TRUE /\ delivered' = delivered \cup {epoch} \cup (held \ {0})
    /\ UNCHANGED <<protocol, attempts, attempt, upstream, purpose, epoch, output, history, fault>>

\* The client has seen output, or sees a whole tool call now.
Visible == committed \/ (Salvageable /\ held # {})

\* FINAL_ERROR: what is invisible is discarded, and the error raised, so that another
\* candidate may answer.  A Responses client gets a terminal frame.
GiveUp ==
    /\ \/ step = "final"
       \/ /\ step = "judged" /\ purpose = "generation" /\ ~RetriesGeneration /\ ~Recovers
       \/ /\ step = "judged" /\ purpose # "generation"
          /\ ~IF Creating THEN fault.allowed ELSE fault.retryable /\ CanAttempt
    /\ IF Visible THEN Flushed ELSE Discard
    /\ IF Visible /\ protocol.wire = "responses"
       THEN /\ frame' = "failure" /\ step' = "done" /\ result' = "returned" /\ CloseScope
            /\ execution' = IF execution = "active" THEN "failed" ELSE execution
       ELSE Raise /\ UNCHANGED frame
    /\ UNCHANGED <<protocol, attempts, purpose, epoch, output, history, fault>>

\* The reader is cancelled, or closes the generator at one of its yields.
CloseByReader ==
    /\ step # "done"
    /\ step' = "done" /\ result' = "closed" /\ CloseScope
    /\ execution' = IF execution = "active" THEN "abandoned" ELSE execution
    /\ UNCHANGED <<protocol, attempts, purpose, epoch, buffer, output, history, fault, frame>>

-----------------------------------------------------------------------------
TransportWork ==
    \/ Create \/ \E e \in Faults : AttemptFails(e)
    \/ \E o \in Outputs : ReadChunk(o)
    \/ Ping \/ Complete
    \/ Resend \/ Judge \/ RetryGeneration \/ Recover \/ RetryRecovery
    \/ \E fits \in BOOLEAN : ReadRecovery(fits)
    \/ EndRecovered \/ GiveUp \/ (attempts > 0 /\ (OpenAttempt \/ NoAttempt))

TransportNext == OpenAttempt \/ NoAttempt \/ TransportWork \/ CloseByReader

TransportSpec == TransportInit /\ [][TransportNext]_transportVars

\* Once it has begun, every wait of the execution ends: calls and reads have timeouts.
TransportFairness == WF_transportVars(TransportWork)

-----------------------------------------------------------------------------
(* Properties. *)

\* A response is not glued together from two generations: whatever was retried, no
\* content of it has been seen.
OneEpochIsSeen == Cardinality(delivered) <= 1

\* An answer that ends with a terminal frame was successful if and only if the
\* execution says so, and an answer that raised has none, so that the caller can
\* still send one.
FrameTellsResult ==
    step = "done" =>
        /\ result = "returned" => frame = IF execution = "succeeded" THEN "success" ELSE "failure"
        /\ result = "raised" => frame = "none" /\ execution = "failed"
        /\ frame = "failure" => committed

\* Whatever way an execution ends, it leaves neither a stream nor an attempt, which
\* holds one of the provider's slots.
NothingIsLeftOpen == step \in {"top", "recovered", "final", "done"} => attempt = "none" /\ ~upstream

TransportSafety == TransportTypeOK /\ OneEpochIsSeen /\ FrameTellsResult /\ NothingIsLeftOpen

\* Failures are not retried for ever.
NobodyRetries == step \in {"done", "streaming"} \/ attempts = 0
=============================================================================
