---------------------------- MODULE RequestsProofs ----------------------------
(***************************************************************************)
(* Safety of a client's request, of a provider execution, of the usage     *)
(* records and of the process that owns them all, for any number of        *)
(* routes, attempts, records and configuration updates, of each by itself  *)
(* and as MCRequests composes them.                                        *)
(*                                                                         *)
(* They need what the code knows by its place: candidates before the one   *)
(* in use are over and those after it untouched (OthersAreOver,            *)
(* CandidateFits), an epoch begins only while nothing of the one before    *)
(* has been delivered (EpochFits), only a flush under way holds a batch    *)
(* and the writer lives with its database (SinkFits, DatabaseFits), the    *)
(* lock's holder is the one that is releasing or updating (CallsFit,       *)
(* UpdatesFit), and a cleanup leaves behind only what it has not reached   *)
(* (ResourcesFit).                                                         *)
(***************************************************************************)
EXTENDS MCRequests, FiniteSetTheorems, SequenceTheorems, TLAPS

(* A client's request. *)

\* Candidates before the one in use have failed unheard; those after it are untouched.
OthersAreOver ==
    /\ \A d \in Routes : d < candidate => read[d] = "failure" /\ d \notin served /\ stream[d] # "open"
    /\ \A d \in Routes : d > candidate => read[d] = "no" /\ stream[d] = "none" /\ observer[d] = "none"

\* What the application's place says of the candidate in use.
CandidateFits ==
    /\ app \in {"unused", "startup", "opening"} =>
         read[candidate] = "no" /\ stream[candidate] = "none" /\ observer[candidate] = "none" /\ ~terminal
    /\ app = "reading" =>
         /\ read[candidate] = "no" /\ stream[candidate] = "open" /\ ~terminal
         /\ observer[candidate] \in {"made", "reading"}
    /\ app = "closing" => read[candidate] # "no" /\ stream[candidate] = "open" /\ ~terminal
    /\ app = "sending" =>
         IF terminal THEN read[candidate] # "no" /\ stream[candidate] # "open"
         ELSE read[candidate] = "no" /\ stream[candidate] = "open" /\ observer[candidate] = "atYield"
    /\ app = "closingBody" => (stream[candidate] = "open" => read[candidate] = "no")
    /\ app \in {"releasing", "ended"} => stream[candidate] # "open"

LeaseFits ==
    /\ lease = "held" <=> app \notin {"unused", "ended"}
    /\ releases = IF app = "ended" THEN 1 ELSE 0
    /\ middleware = "ended" => app = "ended"

RequestInv == RequestTypeOK /\ OthersAreOver /\ CandidateFits /\ LeaseFits

\* The inductive invariant says what RequestSafety does.
LEMMA RequestImplied == RequestInv => RequestSafety
<1> SUFFICES ASSUME RequestInv PROVE RequestSafety
  OBVIOUS
<1> USE RequestAssumption DEF RequestInv, RequestTypeOK, Routes
<1>1. FallbackIsJustified
  BY DEF FallbackIsJustified, OthersAreOver
<1>2. LeaseOutlivesStreams /\ EndedClean
  BY DEF LeaseOutlivesStreams, EndedClean, OthersAreOver, CandidateFits, LeaseFits
<1>3. MiddlewareEndsLast
  BY DEF MiddlewareEndsLast, LeaseFits
<1> QED
  BY <1>1, <1>2, <1>3 DEF RequestSafety

\* A request begins without a lease and without an attempt.
LEMMA RequestStarts == RequestInit => RequestInv
<1> SUFFICES ASSUME RequestInit PROVE RequestInv
  OBVIOUS
<1> USE RequestAssumption DEF RequestInit, Routes
<1>1. RequestTypeOK
  <2>1. late \in BOOLEAN /\ started \in BOOLEAN /\ terminal \in BOOLEAN
    OBVIOUS
  <2>2. /\ stream \in [Routes -> {"none", "open", "closed"}]
        /\ read \in [Routes -> EndsOfReading \cup {"no"}]
        /\ observer \in [Routes -> {"none", "made", "reading", "atYield", "over"}]
        /\ outcome \in [Routes -> {"no", "success", "failure"}]
        /\ \A c \in Routes : outcome[c] # "no" => observer[c] = "over"
    OBVIOUS
  <2> QED
    BY <2>1, <2>2 DEF RequestTypeOK
<1>2. OthersAreOver
  BY DEF OthersAreOver
<1>3. CandidateFits
  BY DEF CandidateFits
<1>4. LeaseFits
  BY DEF LeaseFits
<1> QED
  BY <1>1, <1>2, <1>3, <1>4 DEF RequestInv

\* Chunks, waits and ends of the candidate in use.
LEMMA RequestReads ==
    ASSUME RequestInv, Chunk \/ Wait \/ TimeOut \/ \E how \in {"done", "failure", "raised"} : StreamEnds(how)
    PROVE  RequestInv'
<1> USE RequestAssumption DEF RequestInv, RequestTypeOK, OthersAreOver, CandidateFits, LeaseFits, Routes, EndsOfReading, response
<1>1. CASE Chunk
  BY <1>1 DEF Chunk
<1>2. CASE Wait
  BY <1>2 DEF Wait
<1>3. CASE TimeOut
  BY <1>3 DEF TimeOut, ReadEnds, Observed
<1>4. ASSUME NEW how \in {"done", "failure", "raised"}, StreamEnds(how) PROVE RequestInv'
  BY <1>4 DEF StreamEnds, ReadEnds, Observed
<1> QED
  BY <1>1, <1>2, <1>3, <1>4

\* The end of a candidate: the next one is tried or the body ends.
LEMMA RequestDecides ==
    ASSUME RequestInv, NEW how \in EndsOfReading, app \in {"opening", "closing"},
           stream' \in {stream, ClosedStream(candidate)}, stream'[candidate] # "open",
           ReadEnds(candidate, how), Decide(candidate, how) \/ (EndBody(how) /\ UNCHANGED candidate),
           UNCHANGED <<middleware, lease, releases, observer, outcome, served, started>>,
           cuts' \in 0..MaxCuts, late' \in BOOLEAN
    PROVE  RequestInv'
<1> USE RequestAssumption DEF RequestInv, RequestTypeOK, LeaseFits, Routes, EndsOfReading, response, ReadEnds, ClosedStream
<1>1. CASE app' = "opening" /\ candidate' = candidate + 1 /\ how = "failure" /\ MayFallBack(candidate) /\ UNCHANGED terminal
  BY <1>1 DEF OthersAreOver, CandidateFits, MayFallBack
<1>2. CASE EndBody(how) /\ UNCHANGED candidate
  BY <1>2 DEF OthersAreOver, CandidateFits, EndBody
<1> QED
  BY <1>1, <1>2 DEF Decide

\* Sending, closing and releasing, the arrival and the end of the middleware.
LEMMA RequestEnds ==
    ASSUME RequestInv, Sent \/ CloseBody \/ Release \/ Arrive \/ EndStartup \/ EndMiddleware
                       \/ \E c \in Routes : FinalizeObserver(c)
    PROVE  RequestInv'
<1> USE RequestAssumption DEF RequestInv, RequestTypeOK, OthersAreOver, CandidateFits, LeaseFits, Routes, EndsOfReading, response
<1>1. CASE Sent
  <2>1. CASE terminal
    BY <1>1, <2>1 DEF Sent
  <2>2. CASE ~terminal
    <3>1. late' \in BOOLEAN
      BY <1>1, <2>2 DEF Sent
    <3>2. /\ app = "sending" /\ app' = "reading" /\ observer' = [observer EXCEPT ![candidate] = "reading"]
          /\ UNCHANGED <<response, candidate, stream, read, outcome, served, started, terminal>>
      BY <1>1, <2>2 DEF Sent
    <3> QED
      BY <2>2, <3>1, <3>2
  <2> QED
    BY <2>1, <2>2
<1>2. CASE CloseBody
  BY <1>2 DEF CloseBody
<1>3. CASE Release
  BY <1>3 DEF Release
<1>4. CASE Arrive
  BY <1>4 DEF Arrive
<1>7. CASE EndStartup
  BY <1>7 DEF EndStartup
<1>5. CASE EndMiddleware
  BY <1>5 DEF EndMiddleware
<1>6. ASSUME NEW c \in Routes, FinalizeObserver(c) PROVE RequestInv'
  BY <1>6 DEF FinalizeObserver, Observed
<1> QED
  BY <1>1, <1>2, <1>3, <1>4, <1>5, <1>6, <1>7

\* A cancellation meets the application wherever it is.
LEMMA RequestCancelled ==
    ASSUME RequestInv, CancelApp, middleware' \in {"waiting", "cancelling", "cleaning"}, cuts' \in 0..MaxCuts,
           app \notin {"unused", "ended"},
           UNCHANGED <<lease, releases, candidate, served, late, started>>
    PROVE  RequestInv'
<1> USE RequestAssumption
<1>1. CASE app = "opening"
  <2>1. ReadEnds(candidate, "cancelled") /\ EndBody("cancelled") /\ UNCHANGED <<stream, observer, outcome>>
    BY <1>1 DEF CancelApp
  <2> QED
    BY <1>1, <2>1 DEF RequestInv, RequestTypeOK, OthersAreOver, CandidateFits, LeaseFits, Routes,
       EndsOfReading, ReadEnds, EndBody
<1>2. CASE app = "closing"
  <2>1. /\ stream' = ClosedStream(candidate) /\ ReadEnds(candidate, "cancelled") /\ EndBody("cancelled")
        /\ UNCHANGED <<observer, outcome>>
    BY <1>2 DEF CancelApp
  <2> QED
    BY <1>2, <2>1 DEF RequestInv, RequestTypeOK, OthersAreOver, CandidateFits, LeaseFits, Routes,
       EndsOfReading, ReadEnds, EndBody, ClosedStream
<1>3. CASE app = "reading"
  <2>1. /\ ReadEnds(candidate, "cancelled") /\ Observed(candidate, "cancelled") /\ app' = "closing"
        /\ UNCHANGED <<stream, terminal>>
    BY <1>3 DEF CancelApp
  <2> QED
    BY <1>3, <2>1 DEF RequestInv, RequestTypeOK, OthersAreOver, CandidateFits, LeaseFits, Routes,
       EndsOfReading, ReadEnds, Observed
<1>4. CASE app \in {"startup", "sending"}
  <2>1. /\ app' = IF app = "startup" THEN "releasing" ELSE "closingBody"
        /\ UNCHANGED <<stream, read, observer, outcome, terminal>>
    BY <1>4 DEF CancelApp
  <2> QED
    BY <1>4, <2>1 DEF RequestInv, RequestTypeOK, OthersAreOver, CandidateFits, LeaseFits, Routes,
       EndsOfReading
<1>5. CASE app \in {"closingBody", "releasing"}
  <2>1. UNCHANGED <<app, stream, read, observer, outcome, terminal>>
    BY <1>5 DEF CancelApp
  <2> QED
    BY <1>5, <2>1 DEF RequestInv, RequestTypeOK, OthersAreOver, CandidateFits, LeaseFits, Routes,
       EndsOfReading
<1> QED
  BY <1>1, <1>2, <1>3, <1>4, <1>5 DEF RequestInv, RequestTypeOK

\* Every step of a request keeps RequestInv.
LEMMA RequestStep == RequestInv /\ [RequestNext]_requestVars => RequestInv'
<1> SUFFICES ASSUME RequestInv, [RequestNext]_requestVars PROVE RequestInv'
  OBVIOUS
<1> USE RequestAssumption
<1>1. ASSUME NEW how \in {"open", "failure", "raised"}, OpenStream(how) PROVE RequestInv'
  <2>1. CASE how = "open"
    <3>1. /\ app = "opening" /\ app' = "reading"
          /\ stream' = [stream EXCEPT ![candidate] = "open"]
          /\ observer' = [observer EXCEPT ![candidate] = "made"]
          /\ UNCHANGED <<response, read, candidate, terminal, outcome, served, late, started>>
      BY <1>1, <2>1 DEF OpenStream
    <3>2. RequestTypeOK'
      BY <3>1 DEF RequestInv, RequestTypeOK, CandidateFits, Routes, response
    <3>3. OthersAreOver' /\ CandidateFits' /\ LeaseFits'
      BY <3>1 DEF RequestInv, RequestTypeOK, OthersAreOver, CandidateFits, LeaseFits, Routes,
         response
    <3> QED
      BY <3>2, <3>3 DEF RequestInv
  <2>2. CASE how # "open"
    <3>1. /\ app = "opening" /\ ReadEnds(candidate, how) /\ Decide(candidate, how) /\ stream' = stream
          /\ UNCHANGED <<response, observer, outcome, served, late, started>>
      BY <1>1, <2>2 DEF OpenStream
    <3>2. how \in EndsOfReading /\ stream'[candidate] # "open" /\ cuts \in 0..MaxCuts /\ late \in BOOLEAN
      BY <2>2, <3>1 DEF EndsOfReading, RequestInv, CandidateFits, RequestTypeOK
    <3> QED
      BY <3>1, <3>2, RequestDecides DEF response
  <2> QED
    BY <2>1, <2>2
<1>2. ASSUME NEW slow \in BOOLEAN, CloseCandidate(slow) PROVE RequestInv'
  <2> DEFINE how == IF slow THEN "timeout" ELSE read[candidate]
  <2>1. /\ app = "closing" /\ ReadEnds(candidate, how) /\ Decide(candidate, how)
        /\ stream' = ClosedStream(candidate)
        /\ UNCHANGED <<response, observer, outcome, served, started>>
    BY <1>2 DEF CloseCandidate
  <2>2. how \in EndsOfReading
    BY <2>1 DEF RequestInv, RequestTypeOK, CandidateFits, EndsOfReading
  <2>3. stream'[candidate] # "open" /\ cuts \in 0..MaxCuts /\ late' \in BOOLEAN
    BY <1>2, <2>1 DEF RequestInv, RequestTypeOK, ClosedStream, CloseCandidate
  <2> HIDE DEF how
  <2> QED
    BY <2>1, <2>2, <2>3, RequestDecides DEF response
<1>3. CASE Disconnect
  BY <1>3, RequestCancelled DEF Disconnect, RequestInv, RequestTypeOK
<1>4. CASE CutMiddleware
  <2>1. cuts' \in 0..MaxCuts
    BY <1>4 DEF CutMiddleware, RequestInv, RequestTypeOK
  <2>2. CASE middleware # "cleaning" /\ app # "ended"
    BY <1>4, <2>1, <2>2, RequestCancelled DEF CutMiddleware
  <2>3. CASE ~(middleware # "cleaning" /\ app # "ended")
    BY <1>4, <2>1, <2>3 DEF CutMiddleware, RequestInv, RequestTypeOK, OthersAreOver,
       CandidateFits, LeaseFits, Routes
  <2> QED
    BY <2>2, <2>3
<1>5. CASE UNCHANGED requestVars
  BY <1>5 DEF requestVars, RequestInv, RequestTypeOK, OthersAreOver, CandidateFits, LeaseFits,
     Routes
<1> QED
  BY <1>1, <1>2, <1>3, <1>4, <1>5, RequestReads, RequestEnds DEF RequestNext, RequestWork

\* A later candidate answers only when every earlier one failed unheard, the
\* lease outlives the streams and is released once, and the middleware ends last
\* (application/routing and api/).
THEOREM RequestCorrectness == RequestSpec => []RequestSafety
  BY RequestImplied, RequestStarts, RequestStep, PTL DEF RequestSpec

-----------------------------------------------------------------------------
(* A provider execution. *)

Trying == {"creating", "streaming", "fault", "judged"}

\* Frames are those of one epoch; a new epoch is begun only when none was delivered.
EpochFits ==
    /\ delivered \subseteq {epoch} /\ held \subseteq {0, epoch} /\ epoch <= attempts
    /\ delivered # {} => committed
    /\ step \notin {"top", "done"} \/ purpose # "generation" => epoch >= 1
    /\ step = "top" /\ purpose = "generation" => delivered = {} /\ held = {}
    /\ step \in Trying /\ purpose = "generation" /\ attempt # "accepted" =>
         delivered = {} /\ held \subseteq {0} /\ output = "nothing"

\* Attempts are made by an execution that is active, and it ends with its answer.
ExecutionFits ==
    /\ step \in {"top", "creating", "streaming", "fault", "recovered"} => execution = "active"
    /\ step # "done" => execution \in {"active", "failed"} /\ frame = "none" /\ result = "none"
    /\ step = "fault" => ~fault.allowed
    /\ step = "judged" /\ (fault.allowed \/ attempt = "accepted") => execution = "active"
    /\ step = "judged" /\ fault.allowed => attempt # "accepted"

TransportInv == TransportTypeOK /\ EpochFits /\ ExecutionFits /\ FrameTellsResult /\ NothingIsLeftOpen

\* The inductive invariant says what TransportSafety does.
LEMMA TransportImplied == TransportInv => TransportSafety
<1> SUFFICES ASSUME TransportInv PROVE TransportSafety
  OBVIOUS
<1>1. delivered = {} \/ delivered = {epoch}
  BY DEF TransportInv, EpochFits
<1>2. Cardinality({}) = 0 /\ Cardinality({epoch}) = 1
  BY FS_EmptySet, FS_Singleton
<1>3. OneEpochIsSeen
  BY <1>1, <1>2 DEF OneEpochIsSeen
<1> QED
  BY <1>3 DEF TransportSafety, TransportInv

\* An execution begins without an attempt.
LEMMA TransportStarts == TransportInit => TransportInv
<1> SUFFICES ASSUME TransportInit PROVE TransportInv
  OBVIOUS
<1>1. fault \in Faults /\ ~fault.allowed
  BY DEF TransportInit
<1>2. upstream \in BOOLEAN /\ committed \in BOOLEAN /\ refreshed \in BOOLEAN
  BY DEF TransportInit
<1>5. TransportTypeOK
  BY <1>1, <1>2, TransportAssumption DEF TransportInit, TransportTypeOK, Attempts
<1>3. EpochFits /\ ExecutionFits
  BY <1>1 DEF TransportInit, EpochFits, ExecutionFits, Trying
<1>4. FrameTellsResult /\ NothingIsLeftOpen
  BY DEF TransportInit, FrameTellsResult, NothingIsLeftOpen
<1> QED
  BY <1>5, <1>3, <1>4 DEF TransportInv

\* Frames that are pushed go to the client, or stay behind the holdback.
LEMMA PushKeeps ==
    ASSUME TransportInv, NEW f, Push(f)
    PROVE  /\ held' \subseteq held \cup f
           /\ delivered' \subseteq delivered \cup ((held \cup f) \ {0})
           /\ committed' \in BOOLEAN
           /\ delivered' # {} => committed'
<1>1. committed \in BOOLEAN /\ (delivered # {} => committed)
  BY DEF TransportInv, EpochFits, TransportTypeOK
<1>2. CASE committed /\ delivered' = delivered \cup (f \ {0}) /\ UNCHANGED <<held, committed>>
  BY <1>1, <1>2
<1>3. CASE held' = {} /\ committed' = TRUE /\ delivered' = delivered \cup ((held \cup f) \ {0})
  BY <1>3
<1>4. CASE held' = held \cup f /\ UNCHANGED <<committed, delivered>>
  BY <1>1, <1>4
<1> QED
  BY <1>1, <1>2, <1>3, <1>4 DEF Push

\* A closed scope has neither a stream nor an attempt.
LEMMA ScopeCloses == CloseScope => attempt' = "none" /\ upstream' \in BOOLEAN
  BY DEF CloseScope

\* A new attempt; a generation attempt begins an epoch nothing was delivered of.
LEMMA TransportOpens == ASSUME TransportInv, OpenAttempt PROVE TransportInv'
<1> USE TransportAssumption DEF TransportInv, OpenAttempt, CanAttempt, buffer, history, answer
<1>1. TransportTypeOK'
  BY DEF TransportTypeOK, Attempts
<1>2. EpochFits'
  BY DEF TransportTypeOK, EpochFits, Attempts, Trying
<1>3. ExecutionFits'
  BY DEF ExecutionFits
<1>4. FrameTellsResult' /\ NothingIsLeftOpen'
  BY DEF FrameTellsResult, NothingIsLeftOpen
<1> QED
  BY <1>1, <1>2, <1>3, <1>4

\* Frames of the epoch, read from its stream.
LEMMA TransportReads ==
    ASSUME TransportInv, Ping \/ \E o \in Outputs : ReadChunk(o)
    PROVE  TransportInv'
<1> USE TransportAssumption DEF TransportInv
<1>0. step = "streaming"
  BY DEF Ping, ReadChunk
<1>1. step = "streaming" /\ epoch \in Attempts /\ epoch # 0
  BY <1>0 DEF EpochFits, TransportTypeOK, Attempts
<1>2. CASE Ping
  <2>1. /\ Push({0})
        /\ UNCHANGED <<protocol, step, attempts, execution, attempt, upstream, purpose, epoch, output,
                       history, fault, answer>>
    BY <1>2 DEF Ping
  <2>2. /\ held' \subseteq held \cup {0} /\ delivered' \subseteq delivered \cup ((held \cup {0}) \ {0})
        /\ committed' \in BOOLEAN /\ (delivered' # {} => committed')
    BY <2>1, PushKeeps
  <2>3. TransportTypeOK'
    BY <1>1, <2>1, <2>2 DEF TransportTypeOK, Attempts, history, answer
  <2>4. EpochFits'
    BY <1>1, <2>1, <2>2 DEF EpochFits, Trying, history, answer, Attempts
  <2>5. ExecutionFits' /\ FrameTellsResult' /\ NothingIsLeftOpen'
    BY <1>1, <2>1 DEF ExecutionFits, FrameTellsResult, NothingIsLeftOpen, history, answer
  <2> QED
    BY <2>3, <2>4, <2>5
<1>3. ASSUME NEW o \in Outputs, ReadChunk(o) PROVE TransportInv'
  <2> DEFINE f == {IF o = "nothing" THEN 0 ELSE epoch}
  <2>1. /\ Push(f) /\ attempt' = "accepted" /\ output' = o /\ purpose = "generation"
        /\ UNCHANGED <<protocol, step, attempts, execution, upstream, purpose, epoch, history, fault, answer>>
    BY <1>3 DEF ReadChunk
  <2>2. /\ held' \subseteq held \cup f /\ delivered' \subseteq delivered \cup ((held \cup f) \ {0})
        /\ committed' \in BOOLEAN /\ (delivered' # {} => committed')
    BY <2>1, PushKeeps
  <2>3. f \subseteq {0, epoch}
    OBVIOUS
  <2> HIDE DEF f
  <2>4. TransportTypeOK'
    BY <1>1, <2>1, <2>2, <2>3 DEF TransportTypeOK, Attempts, history, answer, Outputs
  <2>5. EpochFits'
    BY <1>1, <2>1, <2>2, <2>3 DEF EpochFits, Trying, history, answer, Attempts
  <2>6. ExecutionFits' /\ FrameTellsResult' /\ NothingIsLeftOpen'
    BY <1>1, <2>1 DEF ExecutionFits, FrameTellsResult, NothingIsLeftOpen, history, answer
  <2> QED
    BY <2>4, <2>5, <2>6
<1> QED
  BY <1>2, <1>3

\* An execution that ends with everything of its epoch.
LEMMA TransportEnds ==
    ASSUME TransportInv, Complete \/ EndRecovered
    PROVE  TransportInv'
<1> USE TransportAssumption DEF TransportInv
<1>1. /\ step' = "done" /\ result' = "returned" /\ frame' = "success"
      /\ held' = {} /\ committed' = TRUE /\ delivered' = delivered \cup {epoch} \cup (held \ {0})
      /\ attempt' = "none" /\ upstream' = FALSE
      /\ UNCHANGED <<protocol, attempts, purpose, epoch, output, history, fault>>
  BY DEF Complete, EndRecovered, CloseScope, NothingIsLeftOpen, TransportTypeOK
<1>2. execution' = "succeeded" /\ epoch \in Attempts
  BY DEF Complete, EndRecovered, ExecutionFits, EpochFits, TransportTypeOK, Attempts
<1>3. TransportTypeOK'
  BY <1>1, <1>2 DEF TransportTypeOK, history, EpochFits, Attempts
<1>4. EpochFits'
  BY <1>1, <1>2 DEF EpochFits, Trying, Attempts
<1>5. ExecutionFits' /\ FrameTellsResult' /\ NothingIsLeftOpen'
  BY <1>1, <1>2 DEF ExecutionFits, FrameTellsResult, NothingIsLeftOpen
<1> QED
  BY <1>3, <1>4, <1>5

\* Failures are noted and judged.
LEMMA TransportFails ==
    ASSUME TransportInv, Create \/ Judge \/ \E e \in Faults : AttemptFails(e)
    PROVE  TransportInv'
<1> USE TransportAssumption DEF TransportInv
<1>1. CASE Create
  <2>1. TransportTypeOK'
    BY <1>1 DEF Create, TransportTypeOK, buffer, history, answer
  <2> QED
    BY <1>1, <2>1 DEF Create, EpochFits, ExecutionFits, Trying, buffer, history, answer,
       FrameTellsResult, NothingIsLeftOpen
<1>2. ASSUME NEW e \in Faults, AttemptFails(e) PROVE TransportInv'
  <2>1. TransportTypeOK'
    BY <1>2 DEF AttemptFails, TransportTypeOK, buffer, history, answer
  <2>2. ~fault'.allowed
    BY <1>2 DEF AttemptFails
  <2> QED
    BY <1>2, <2>1, <2>2 DEF AttemptFails, EpochFits, ExecutionFits, Trying, buffer, history, answer,
       FrameTellsResult, NothingIsLeftOpen
<1>3. CASE Judge
  <2> DEFINE again == fault.retryable /\ ~ResendIsTried /\ CanAttempt
  <2>1. /\ step = "fault" /\ step' = "judged"
        /\ UNCHANGED <<protocol, attempts, attempt, upstream, purpose, epoch, buffer, output, history, answer>>
    BY <1>3 DEF Judge
  <2>2. /\ fault' \in Faults /\ execution' \in {"active", "failed"}
        /\ fault'.allowed \/ attempt = "accepted" => execution' = "active"
        /\ fault'.allowed => attempt # "accepted"
    <3>1. CASE attempt = "accepted"
      BY <1>3, <2>1, <3>1 DEF Judge, TransportTypeOK, ExecutionFits
    <3>2. CASE attempt # "accepted"
      <4>1. PICK shed \in BOOLEAN :
              /\ execution' = IF execution = "active" /\ (~again \/ shed) THEN "failed" ELSE execution
              /\ fault' = [fault EXCEPT !.retryable = fault.retryable /\ ~ResendIsTried,
                                        !.allowed = again /\ ~shed]
        BY <1>3, <3>2 DEF Judge
      <4>2. fault \in Faults /\ execution = "active"
        BY <2>1 DEF TransportTypeOK, ExecutionFits
      <4>3. fault'.allowed = (again /\ ~shed)
        BY <4>1, <4>2 DEF Faults
      <4>4. fault' \in Faults
        BY <4>1, <4>2 DEF Faults
      <4> HIDE DEF again
      <4> QED
        BY <3>2, <4>1, <4>2, <4>3, <4>4
    <3> QED
      BY <3>1, <3>2
  <2>3. TransportTypeOK'
    BY <2>1, <2>2 DEF TransportTypeOK, buffer, history, answer
  <2> QED
    BY <2>1, <2>2, <2>3 DEF EpochFits, ExecutionFits, Trying, buffer, history, answer,
       FrameTellsResult, NothingIsLeftOpen
<1> QED
  BY <1>1, <1>2, <1>3

\* Attempts that follow another: the same request again, a new generation, or a recovery.
LEMMA TransportRetries ==
    ASSUME TransportInv, Resend \/ RetryGeneration \/ Recover \/ RetryRecovery \/ \E fits \in BOOLEAN : ReadRecovery(fits)
    PROVE  TransportInv'
<1> USE TransportAssumption DEF TransportInv
<1>1. CASE Resend
  <2>1. /\ step = "fault" /\ step' = "top" /\ CloseScope /\ CanAttempt /\ ResendIsTried
        /\ IF purpose = "generation" THEN Discard ELSE UNCHANGED buffer
        /\ UNCHANGED <<protocol, attempts, execution, purpose, epoch, output, fault, answer>>
    BY <1>1 DEF Resend
  <2>2. refreshed' \in BOOLEAN /\ used' \subseteq Corrections
    BY <1>1 DEF Resend, TransportTypeOK
  <2>3. purpose = "generation" => delivered = {}
    BY <2>1 DEF ResendIsTried, RefreshIsTried, CorrectionIsTried, EpochFits
  <2>7. held' \subseteq 0..MaxAttempts /\ committed' \in BOOLEAN /\ delivered' \subseteq Attempts
    BY <2>1 DEF TransportTypeOK, Discard, buffer
  <2>4. TransportTypeOK'
    BY <2>1, <2>2, <2>7, ScopeCloses DEF TransportTypeOK, answer
  <2>5. EpochFits'
    BY <2>1, <2>3 DEF EpochFits, Trying, CloseScope, Discard, buffer, answer
  <2>6. ExecutionFits' /\ FrameTellsResult' /\ NothingIsLeftOpen'
    BY <2>1 DEF ExecutionFits, FrameTellsResult, NothingIsLeftOpen, CloseScope, answer
  <2> QED
    BY <2>4, <2>5, <2>6
<1>2. CASE RetryGeneration
  <2>1. /\ step = "judged" /\ purpose = "generation" /\ step' = "top" /\ CloseScope /\ Discard
        /\ UNCHANGED <<protocol, attempts, execution, purpose, epoch, output, history, fault, answer>>
    BY <1>2 DEF RetryGeneration
  <2>2. execution = "active"
    BY <1>2 DEF RetryGeneration, RetriesGeneration, RetriesEarly, Remaining, ExecutionFits
  <2>3. delivered = {}
    BY <1>2, <2>1 DEF RetryGeneration, RetriesGeneration, RetriesEarly, EpochFits, ExecutionFits,
       Trying
  <2>4. TransportTypeOK'
    BY <2>1, ScopeCloses DEF TransportTypeOK, Discard, history, answer
  <2>5. EpochFits'
    BY <2>1, <2>3 DEF EpochFits, Trying, CloseScope, Discard, history, answer
  <2>6. ExecutionFits' /\ FrameTellsResult' /\ NothingIsLeftOpen'
    BY <2>1, <2>2 DEF ExecutionFits, FrameTellsResult, NothingIsLeftOpen, CloseScope, answer
  <2> QED
    BY <2>4, <2>5, <2>6
<1>3. CASE Recover
  <2>1. /\ step = "judged" /\ purpose = "generation" /\ CloseScope /\ Chat /\ Generated
        /\ \/ step' = "recovered" /\ UNCHANGED purpose
           \/ step' = "top" /\ purpose' \in {"repair", "continuation"}
        /\ UNCHANGED <<protocol, attempts, execution, epoch, buffer, output, history, fault, answer>>
    BY <1>3 DEF Recover, Recovers
  <2>2. execution = "active"
    BY <2>1 DEF Generated, EpochFits, ExecutionFits, Trying
  <2>4. TransportTypeOK'
    BY <2>1, ScopeCloses DEF TransportTypeOK, buffer, history, answer
  <2>5. EpochFits'
    BY <2>1 DEF EpochFits, Trying, CloseScope, buffer, history, answer
  <2>6. ExecutionFits' /\ FrameTellsResult' /\ NothingIsLeftOpen'
    BY <2>1, <2>2 DEF ExecutionFits, FrameTellsResult, NothingIsLeftOpen, CloseScope, answer
  <2> QED
    BY <2>4, <2>5, <2>6
<1>4. CASE RetryRecovery
  <2>1. /\ step = "judged" /\ purpose # "generation" /\ step' = "top" /\ CloseScope
        /\ UNCHANGED <<protocol, attempts, execution, purpose, epoch, buffer, output, history, fault, answer>>
    BY <1>4 DEF RetryRecovery
  <2>2. execution = "active"
    BY <1>4 DEF RetryRecovery, CanAttempt, ExecutionFits
  <2>4. TransportTypeOK'
    BY <2>1, ScopeCloses DEF TransportTypeOK, buffer, history, answer
  <2>5. EpochFits'
    BY <2>1 DEF EpochFits, Trying, CloseScope, buffer, history, answer
  <2>6. ExecutionFits' /\ FrameTellsResult' /\ NothingIsLeftOpen'
    BY <2>1, <2>2 DEF ExecutionFits, FrameTellsResult, NothingIsLeftOpen, CloseScope, answer
  <2> QED
    BY <2>4, <2>5, <2>6
<1>5. ASSUME NEW fits \in BOOLEAN, ReadRecovery(fits) PROVE TransportInv'
  <2>1. /\ step = "streaming" /\ purpose # "generation" /\ step' \in {"recovered", "top", "final"} /\ CloseScope
        /\ UNCHANGED <<protocol, attempts, execution, purpose, epoch, buffer, output, history, fault, answer>>
    BY <1>5 DEF ReadRecovery
  <2>4. TransportTypeOK'
    BY <2>1, ScopeCloses DEF TransportTypeOK, buffer, history, answer
  <2>5. EpochFits'
    BY <2>1 DEF EpochFits, Trying, CloseScope, buffer, history, answer
  <2>6. ExecutionFits' /\ FrameTellsResult' /\ NothingIsLeftOpen'
    BY <2>1 DEF ExecutionFits, FrameTellsResult, NothingIsLeftOpen, CloseScope, answer
  <2> QED
    BY <2>4, <2>5, <2>6
<1> QED
  BY <1>1, <1>2, <1>3, <1>4, <1>5

\* An execution that gives up, or whose reader does.
LEMMA TransportGivesUp ==
    ASSUME TransportInv, NoAttempt \/ GiveUp \/ CloseByReader
    PROVE  TransportInv'
<1> USE TransportAssumption DEF TransportInv
<1>1. CASE NoAttempt
  <2>1. /\ step = "top" /\ execution' = "failed" /\ UNCHANGED frame
        /\ CloseScope
        /\ \/ step' = "done" /\ result' = "raised" /\ purpose = "generation"
           \/ step' = "final" /\ UNCHANGED result /\ purpose # "generation"
        /\ UNCHANGED <<protocol, attempts, purpose, epoch, buffer, output, history, fault>>
    BY <1>1 DEF NoAttempt, Raise, CloseScope, answer, ExecutionFits, NothingIsLeftOpen,
       TransportTypeOK
  <2>4. TransportTypeOK'
    BY <2>1, ScopeCloses DEF TransportTypeOK, buffer, history
  <2>5. EpochFits'
    BY <2>1 DEF EpochFits, Trying, CloseScope, buffer, history
  <2>6. ExecutionFits' /\ FrameTellsResult' /\ NothingIsLeftOpen'
    BY <2>1 DEF ExecutionFits, FrameTellsResult, NothingIsLeftOpen, CloseScope
  <2> QED
    BY <2>4, <2>5, <2>6
<1>2. CASE GiveUp
  <2>1. /\ step # "done" /\ step \in {"final", "judged"} /\ step' = "done" /\ CloseScope /\ execution' = "failed"
        /\ UNCHANGED <<protocol, attempts, purpose, epoch, output, history, fault>>
    BY <1>2 DEF GiveUp, Raise, ExecutionFits
  <2>2. \/ Visible /\ frame' = "failure" /\ result' = "returned"
        \/ result' = "raised" /\ frame' = "none"
    BY <1>2, <2>1 DEF GiveUp, Raise, ExecutionFits
  <2>3. IF Visible THEN Flushed ELSE Discard
    BY <1>2 DEF GiveUp
  <2>4. /\ held' = {} /\ committed' \in BOOLEAN /\ (Visible => committed') /\ (committed => committed')
        /\ delivered' \subseteq delivered \cup (held \ {0}) /\ (delivered' # delivered => committed')
    BY <2>3 DEF Flushed, Discard, TransportTypeOK
  <2>5. TransportTypeOK'
    BY <2>1, <2>2, <2>4, ScopeCloses DEF TransportTypeOK, history, Attempts
  <2>6. EpochFits'
    BY <2>1, <2>4 DEF EpochFits, Trying, CloseScope, history
  <2>7. ExecutionFits' /\ FrameTellsResult' /\ NothingIsLeftOpen'
    BY <2>1, <2>2, <2>4 DEF ExecutionFits, FrameTellsResult, NothingIsLeftOpen, CloseScope
  <2> QED
    BY <2>5, <2>6, <2>7
<1>3. CASE CloseByReader
  <2>1. /\ step # "done" /\ step' = "done" /\ result' = "closed" /\ CloseScope
        /\ execution' \in {"abandoned", "failed"} /\ frame = "none"
        /\ UNCHANGED <<protocol, attempts, purpose, epoch, buffer, output, history, fault, frame>>
    BY <1>3 DEF CloseByReader, ExecutionFits
  <2>4. TransportTypeOK'
    BY <2>1, ScopeCloses DEF TransportTypeOK, buffer, history
  <2>5. EpochFits'
    BY <2>1 DEF EpochFits, Trying, CloseScope, buffer, history
  <2>6. ExecutionFits' /\ FrameTellsResult' /\ NothingIsLeftOpen'
    BY <2>1 DEF ExecutionFits, FrameTellsResult, NothingIsLeftOpen, CloseScope
  <2> QED
    BY <2>4, <2>5, <2>6
<1> QED
  BY <1>1, <1>2, <1>3

\* Every step of an execution keeps TransportInv.
LEMMA TransportStep == TransportInv /\ [TransportNext]_transportVars => TransportInv'
<1> SUFFICES ASSUME TransportInv, [TransportNext]_transportVars PROVE TransportInv'
  OBVIOUS
<1>1. CASE UNCHANGED transportVars
  <2> USE <1>1 DEF transportVars, TransportInv
  <2>1. TransportTypeOK'
    BY DEF TransportTypeOK
  <2>2. EpochFits' /\ ExecutionFits'
    BY DEF EpochFits, ExecutionFits, Trying
  <2>3. FrameTellsResult' /\ NothingIsLeftOpen'
    BY DEF FrameTellsResult, NothingIsLeftOpen
  <2> QED
    BY <2>1, <2>2, <2>3
<1> QED
  BY <1>1, TransportOpens, TransportReads, TransportEnds, TransportFails, TransportRetries,
     TransportGivesUp DEF TransportNext, TransportWork

\* The client sees the output of one generation only, its terminal frame is that
\* of the execution, and nothing is left open (providers/request_recovery.py,
\* stream_recovery.py and the three transports).
THEOREM TransportCorrectness == TransportSpec => []TransportSafety
  BY TransportImplied, TransportStarts, TransportStep, PTL DEF TransportSpec

-----------------------------------------------------------------------------
(* Usage records. *)

\* What the place of the sink, the database and the writer says of what they hold:
\* only a flush under way has a batch, the writer is there with the database, and a
\* database that is being closed is left by everyone.
SinkFits ==
    /\ inFlight["loop"] # {} => flusher = "flushing"
    /\ inFlight["close"] # {} => sinkClose = "flushing"
    /\ sinkClose # "open" => flusher = "ended"

DatabaseFits ==
    /\ opener \in Flushers => inFlight[opener] # {}
    /\ database \in {"none", "migrating"} => batches = <<>> /\ writer = "none"
    /\ database = "open" => writer \in {"waiting", "taken", "thread", "cleaning"}
    /\ database = "closing" => writer = "ended" /\ sinkClose # "open"
    /\ writer \notin {"taken", "thread"} => writing = {}
    /\ sinkClose \in {"draining", "raised"} => database = "closing"
    /\ sinkClose = "closed" => database = "none"

\* Records grow old in their order.
AgedFits == \E k \in 0..recorded : aged = 1..k

UsageInv == UsageSafety /\ SinkFits /\ DatabaseFits /\ AgedFits

\* A sequence with one more element.
LEMMA OneMore ==
    ASSUME NEW S, NEW q \in Seq(S), NEW x \in S
    PROVE  /\ Append(q, x) \in Seq(S) /\ ToSet(Append(q, x)) = ToSet(q) \cup {x}
           /\ IsInjective(q) /\ x \notin ToSet(q) => IsInjective(Append(q, x))
<1> DEFINE n == Len(q)
           p == Append(q, x)
<1>1. /\ n \in Nat /\ DOMAIN q = 1..n /\ DOMAIN p = 1..(n + 1) /\ p \in Seq(S)
      /\ p[n + 1] = x /\ \A i \in 1..n : p[i] = q[i]
  OBVIOUS
<1> HIDE DEF n, p
<1>2. \A i \in 1..(n + 1) : i \in 1..n \/ i = n + 1
  BY <1>1
<1>3. (1..n) \subseteq 1..(n + 1) /\ n + 1 \in 1..(n + 1)
  BY <1>1
<1>4. ToSet(p) = ToSet(q) \cup {x}
  BY <1>1, <1>2, <1>3 DEF ToSet
<1>5. ASSUME IsInjective(q), x \notin ToSet(q) PROVE IsInjective(p)
  <2>1. \A i \in 1..n : q[i] # x
    BY <1>1, <1>5 DEF ToSet
  <2> QED
    BY <1>1, <1>2, <1>5, <2>1 DEF IsInjective
<1> QED
  BY <1>1, <1>4, <1>5 DEF p

\* The first element of a sequence, and the others.
LEMMA FirstAndRest ==
    ASSUME NEW S, NEW q \in Seq(S), q # <<>>
    PROVE  /\ Head(q) \in S /\ Tail(q) \in Seq(S)
           /\ ToSet(q) = {Head(q)} \cup ToSet(Tail(q))
<1> DEFINE n == Len(q)
           p == Tail(q)
<1>1. /\ n \in Nat /\ n > 0 /\ DOMAIN q = 1..n /\ DOMAIN p = 1..(n - 1) /\ p \in Seq(S)
      /\ Head(q) = q[1] /\ Head(q) \in S /\ \A i \in 1..(n - 1) : p[i] = q[i + 1]
  OBVIOUS
<1> HIDE DEF n, p
<1>2. \A i \in 1..(n - 1) : i + 1 \in 1..n
  BY <1>1
<1>3. 1 \in 1..n /\ \A i \in 1..n : i = 1 \/ (i - 1 \in 1..(n - 1) /\ i - 1 + 1 = i)
  BY <1>1
<1>4. ASSUME NEW y \in ToSet(q) PROVE y \in {Head(q)} \cup ToSet(p)
  <2>1. PICK i \in 1..n : y = q[i]
    BY <1>1 DEF ToSet
  <2>2. CASE i = 1
    BY <1>1, <2>1, <2>2
  <2>3. CASE i - 1 \in 1..(n - 1) /\ i - 1 + 1 = i
    BY <1>1, <2>1, <2>3 DEF ToSet
  <2> QED
    BY <1>3, <2>2, <2>3
<1>5. ASSUME NEW y \in {Head(q)} \cup ToSet(p) PROVE y \in ToSet(q)
  BY <1>1, <1>2, <1>3, <1>5 DEF ToSet
<1> QED
  BY <1>1, <1>4, <1>5 DEF p

\* A sequence cut in two.
LEMMA CutInTwo ==
    ASSUME NEW S, NEW q \in Seq(S), NEW k \in 0..Len(q)
    PROVE  LET p == SubSeq(q, 1, k)
               r == SubSeq(q, k + 1, Len(q))
           IN  /\ r \in Seq(S) /\ ToSet(q) = ToSet(p) \cup ToSet(r) /\ ToSet(p) \subseteq S
               /\ IsInjective(q) => IsInjective(r)
<1> DEFINE n == Len(q)
           p == SubSeq(q, 1, k)
           r == SubSeq(q, k + 1, Len(q))
<1>1. n \in Nat /\ DOMAIN q = 1..n /\ k \in Nat /\ k <= n /\ \A i \in 1..n : q[i] \in S
  OBVIOUS
<1>2. p \in Seq(S) /\ Len(p) = k /\ \A i \in 1..k : p[i] = q[i]
  <2>1. /\ p \in Seq(S) /\ Len(p) = IF 1 <= k THEN k - 1 + 1 ELSE 0
        /\ \A i \in 1..(k - 1 + 1) : p[i] = q[1 + i - 1]
    <3>1. 1 \in Int /\ k \in Int /\ \A i \in 1..k : q[i] \in S
      BY <1>1
    <3> QED
      BY <3>1, SubSeqProperties
  <2> QED
    BY <1>1, <2>1
<1>3. r \in Seq(S) /\ Len(r) = n - k /\ \A i \in 1..(n - k) : r[i] = q[k + i]
  <2>1. /\ r \in Seq(S) /\ Len(r) = IF k + 1 <= n THEN n - (k + 1) + 1 ELSE 0
        /\ \A i \in 1..(n - (k + 1) + 1) : r[i] = q[(k + 1) + i - 1]
    <3>1. k + 1 \in Int /\ n \in Int /\ \A i \in (k + 1)..n : q[i] \in S
      BY <1>1
    <3> QED
      BY <3>1, SubSeqProperties
  <2> HIDE DEF n, r
  <2>2. /\ (IF k + 1 <= n THEN n - (k + 1) + 1 ELSE 0) = n - k /\ n - (k + 1) + 1 = n - k
        /\ \A i \in 1..(n - k) : (k + 1) + i - 1 = k + i
    BY <1>1
  <2> QED
    BY <2>1, <2>2
<1>4. DOMAIN p = 1..k /\ DOMAIN r = 1..(n - k)
  BY <1>2, <1>3
<1> HIDE DEF n, p, r
<1>5. /\ \A i \in 1..k : i \in 1..n
      /\ \A i \in 1..(n - k) : k + i \in 1..n
      /\ \A i \in 1..n : i \in 1..k \/ (i - k \in 1..(n - k) /\ k + (i - k) = i)
  BY <1>1
<1>6. ToSet(p) \subseteq ToSet(q) /\ ToSet(r) \subseteq ToSet(q)
  <2>1. \A i \in DOMAIN p : p[i] \in ToSet(q)
    BY <1>1, <1>2, <1>4, <1>5 DEF ToSet
  <2>2. \A i \in DOMAIN r : r[i] \in ToSet(q)
    BY <1>1, <1>3, <1>4, <1>5 DEF ToSet
  <2> QED
    BY <2>1, <2>2 DEF ToSet
<1>7. ASSUME NEW y \in ToSet(q) PROVE y \in ToSet(p) \cup ToSet(r)
  <2>1. PICK i \in 1..n : y = q[i]
    BY <1>1 DEF ToSet
  <2>2. CASE i \in 1..k
    BY <1>2, <1>4, <2>1, <2>2 DEF ToSet
  <2>3. CASE i - k \in 1..(n - k) /\ k + (i - k) = i
    BY <1>3, <1>4, <2>1, <2>3 DEF ToSet
  <2> QED
    BY <1>5, <2>2, <2>3
<1>8. ToSet(q) \subseteq S
  BY <1>1 DEF ToSet
<1>9. ASSUME IsInjective(q) PROVE IsInjective(r)
  <2> SUFFICES ASSUME NEW i \in 1..(n - k), NEW j \in 1..(n - k), r[i] = r[j] PROVE i = j
    BY <1>4 DEF IsInjective
  <2>1. k + i = k + j
    BY <1>1, <1>3, <1>5, <1>9 DEF IsInjective
  <2> QED
    BY <1>1, <2>1
<1> QED
  BY <1>3, <1>6, <1>7, <1>8, <1>9 DEF p, r, n

\* A step that leaves the pending records and the queue alone.
LEMMA UsageStarts == UsageInit => UsageInv
<1> SUFFICES ASSUME UsageInit PROVE UsageInv
  OBVIOUS
<1> USE UsageAssumption DEF UsageInit
<1>1. UsageTypeOK
  <2>1. <<>> \in Seq(Records) /\ IsInjective(<<>>) /\ <<>> \in Seq(SUBSET Records)
    BY DEF IsInjective
  <2> QED
    BY <2>1 DEF UsageTypeOK, Flushers, Records
<1>2. RecordsAreAccounted
  <2>1. ToSet(<<>>) = {} /\ 1..0 = {}
    BY DEF ToSet
  <2> QED
    BY <2>1 DEF RecordsAreAccounted, RecordsOf, Flushers
<1>3. AgedFits
  BY DEF AgedFits
<1> QED
  BY <1>1, <1>2, <1>3 DEF UsageInv, UsageSafety, NothingDroppedBefore, ClosedIsDrained, SinkFits, DatabaseFits, Flushers

\* record_request
LEMMA UsageRecord == UsageInv /\ Record => UsageInv'
<1> SUFFICES ASSUME UsageInv, Record PROVE UsageInv'
  OBVIOUS
<1> USE UsageAssumption DEF UsageInv, UsageSafety, writerVars
<1> DEFINE new == recorded + 1
<1>1. recorded \in Nat /\ new \in Records /\ recorded' = new /\ new \in 0..MaxRecords
      /\ 1..new = 1..recorded \cup {new} /\ new \notin 1..recorded
  BY DEF Record, UsageTypeOK, Records
<1>2. unflushed' = Append(unflushed, new) /\ new \notin ToSet(unflushed)
  BY <1>1 DEF Record, RecordsAreAccounted
<1>3. unflushed' \in Seq(Records) /\ IsInjective(unflushed') /\ ToSet(unflushed') = ToSet(unflushed) \cup {new}
  BY <1>1, <1>2, OneMore DEF UsageTypeOK
<1> HIDE DEF new
<1>4. UsageTypeOK'
  BY <1>1, <1>3 DEF UsageTypeOK, Record
<1>5. RecordsAreAccounted'
  BY <1>1, <1>3 DEF RecordsAreAccounted, Record
<1>6. AgedFits'
  BY <1>1 DEF AgedFits, Record, new
<1>7. SinkFits' /\ DatabaseFits'
  BY DEF SinkFits, DatabaseFits, Record
<1> QED
  BY <1>4, <1>5, <1>6, <1>7 DEF NothingDroppedBefore, ClosedIsDrained, Record

\* A flush takes a batch off the pending records.
LEMMA UsageDrain ==
    ASSUME UsageInv, NEW f \in Flushers, inFlight[f] = {}, Drain(f)
    PROVE  /\ unflushed' \in Seq(Records) /\ IsInjective(unflushed')
           /\ inFlight' \in [Flushers -> SUBSET Records]
           /\ ToSet(unflushed) = ToSet(unflushed') \cup inFlight'[f]
           /\ \A g \in Flushers \ {f} : inFlight'[g] = inFlight[g]
<1>1. unflushed \in Seq(Records) /\ IsInjective(unflushed) /\ inFlight \in [Flushers -> SUBSET Records]
  BY DEF UsageInv, UsageSafety, UsageTypeOK
<1>2. Drained \in 0..Len(unflushed)
  BY <1>1, UsageAssumption DEF Drained
<1>3. /\ Rest \in Seq(Records) /\ IsInjective(Rest) /\ Batch \subseteq Records
      /\ ToSet(unflushed) = Batch \cup ToSet(Rest)
  BY <1>1, <1>2, CutInTwo DEF Batch, Rest
<1> QED
  BY <1>1, <1>3 DEF Drain

\* The loop's next flush.
LEMMA UsageTick == UsageInv /\ Tick => UsageInv'
<1> SUFFICES ASSUME UsageInv, Tick PROVE UsageInv'
  OBVIOUS
<1>1. inFlight["loop"] = {} /\ "loop" \in Flushers /\ Drain("loop")
  BY DEF UsageInv, SinkFits, Tick, Flushers
<1>2. /\ unflushed' \in Seq(Records) /\ IsInjective(unflushed')
      /\ inFlight' \in [Flushers -> SUBSET Records]
      /\ ToSet(unflushed) = ToSet(unflushed') \cup inFlight'["loop"]
      /\ inFlight'["close"] = inFlight["close"]
  BY <1>1, UsageDrain DEF Flushers
<1> USE DEF UsageInv, UsageSafety, Tick, writerVars
<1>3. UsageTypeOK'
  BY <1>2 DEF UsageTypeOK
<1>4. RecordsAreAccounted'
  BY <1>1, <1>2 DEF RecordsAreAccounted
<1>5. DatabaseFits'
  BY <1>1, <1>2 DEF DatabaseFits, Flushers
<1> QED
  BY <1>2, <1>3, <1>4, <1>5 DEF NothingDroppedBefore, ClosedIsDrained, SinkFits, AgedFits

\* The last flush.
LEMMA UsageLastFlush == UsageInv /\ LastFlush => UsageInv'
<1> SUFFICES ASSUME UsageInv, LastFlush PROVE UsageInv'
  OBVIOUS
<1> USE DEF UsageInv, UsageSafety, writerVars
<1>1. CASE unflushed = <<>>
  <2>1. UsageTypeOK'
    BY <1>1 DEF UsageTypeOK, LastFlush, Shutdown
  <2> QED
    BY <1>1, <2>1 DEF LastFlush, RecordsAreAccounted, NothingDroppedBefore, ClosedIsDrained,
       SinkFits, DatabaseFits, AgedFits
<1>2. CASE unflushed # <<>>
  <2>1. inFlight["close"] = {} /\ "close" \in Flushers /\ Drain("close") /\ sinkClose' = "flushing"
    BY <1>2 DEF SinkFits, LastFlush, Flushers
  <2>2. /\ unflushed' \in Seq(Records) /\ IsInjective(unflushed')
        /\ inFlight' \in [Flushers -> SUBSET Records]
        /\ ToSet(unflushed) = ToSet(unflushed') \cup inFlight'["close"]
        /\ inFlight'["loop"] = inFlight["loop"]
    BY <2>1, UsageDrain DEF Flushers
  <2> USE DEF LastFlush
  <2>3. UsageTypeOK'
    BY <2>1, <2>2 DEF UsageTypeOK, Shutdown
  <2>4. RecordsAreAccounted'
    BY <2>1, <2>2 DEF RecordsAreAccounted
  <2>5. DatabaseFits'
    BY <2>1, <2>2 DEF DatabaseFits, Flushers
  <2> QED
    BY <2>1, <2>2, <2>3, <2>4, <2>5
    DEF NothingDroppedBefore, ClosedIsDrained, SinkFits, AgedFits
<1> QED
  BY <1>1, <1>2

\* The records of a queue with one more batch, and of its first batch and the others.
LEMMA BatchesGrow ==
    ASSUME NEW q \in Seq(SUBSET Records), NEW b \in SUBSET Records
    PROVE  Append(q, b) \in Seq(SUBSET Records) /\ RecordsOf(Append(q, b)) = RecordsOf(q) \cup b
<1>1. Append(q, b) \in Seq(SUBSET Records) /\ ToSet(Append(q, b)) = ToSet(q) \cup {b}
  BY OneMore
<1>2. UNION (ToSet(q) \cup {b}) = (UNION ToSet(q)) \cup b
  OBVIOUS
<1> QED
  BY <1>1, <1>2 DEF RecordsOf

LEMMA BatchesShrink ==
    ASSUME NEW q \in Seq(SUBSET Records), q # <<>>
    PROVE  /\ Head(q) \in SUBSET Records /\ Tail(q) \in Seq(SUBSET Records)
           /\ RecordsOf(q) = Head(q) \cup RecordsOf(Tail(q))
<1>1. /\ Head(q) \in SUBSET Records /\ Tail(q) \in Seq(SUBSET Records)
      /\ ToSet(q) = {Head(q)} \cup ToSet(Tail(q))
  BY FirstAndRest
<1>2. UNION ({Head(q)} \cup ToSet(Tail(q))) = Head(q) \cup UNION ToSet(Tail(q))
  OBVIOUS
<1> QED
  BY <1>1, <1>2 DEF RecordsOf

\* The batch of a flush is over, whoever has its records now.
LEMMA UsageEndFlush ==
    ASSUME UsageInv, NEW f \in Flushers, inFlight[f] # {}, EndFlush(f)
    PROVE  /\ UNCHANGED <<recorded, unflushed>>
           /\ inFlight' \in [Flushers -> SUBSET Records]
           /\ inFlight'[f] = {} /\ \A g \in Flushers \ {f} : inFlight'[g] = inFlight[g]
           /\ f = "loop" => flusher = "flushing" /\ flusher' = "sleeping" /\ UNCHANGED sinkClose
                            /\ sinkClose = "open"
           /\ f = "close" => sinkClose = "flushing" /\ sinkClose' = "flushed" /\ UNCHANGED flusher
           /\ SinkFits'
<1> USE DEF UsageInv, UsageSafety, UsageTypeOK, SinkFits, EndFlush, Flushers
<1>1. inFlight' \in [Flushers -> SUBSET Records] /\ inFlight'[f] = {}
      /\ \A g \in Flushers \ {f} : inFlight'[g] = inFlight[g]
  OBVIOUS
<1>2. CASE f = "loop"
  BY <1>1, <1>2
<1>3. CASE f = "close"
  BY <1>1, <1>3
<1> QED
  BY <1>1, <1>2, <1>3

\* write_batch
LEMMA UsageDeliver == ASSUME UsageInv, NEW f \in Flushers, Deliver(f) PROVE UsageInv'
<1>1. /\ inFlight[f] # {} /\ database \in {"open", "closing"} /\ EndFlush(f)
      /\ UNCHANGED <<database, opener, reads, writer, writing, abandoned, rows, aged, failed>>
  BY DEF Deliver
<1>2. /\ UNCHANGED <<recorded, unflushed>>
      /\ inFlight' \in [Flushers -> SUBSET Records]
      /\ inFlight'[f] = {} /\ \A g \in Flushers \ {f} : inFlight'[g] = inFlight[g]
      /\ f = "loop" => flusher = "flushing" /\ flusher' = "sleeping" /\ UNCHANGED sinkClose
                       /\ sinkClose = "open"
      /\ f = "close" => sinkClose = "flushing" /\ sinkClose' = "flushed" /\ UNCHANGED flusher
      /\ SinkFits'
  BY <1>1, UsageEndFlush
<1>3. f = "loop" \/ f = "close"
  BY DEF Flushers
<1>4. inFlight[f] \in SUBSET Records /\ batches \in Seq(SUBSET Records)
  BY DEF UsageInv, UsageSafety, UsageTypeOK
<1> USE DEF UsageInv, UsageSafety
<1>5. CASE database = "open"
  <2>1. batches' = Append(batches, inFlight[f]) /\ UNCHANGED dropped
    BY <1>5 DEF Deliver
  <2>2. batches' \in Seq(SUBSET Records) /\ RecordsOf(batches') = RecordsOf(batches) \cup inFlight[f]
    BY <1>4, <2>1, BatchesGrow
  <2>3. UsageTypeOK'
    BY <1>1, <1>2, <1>3, <2>1, <2>2 DEF UsageTypeOK, Shutdown
  <2>4. RecordsAreAccounted'
    BY <1>1, <1>2, <1>3, <2>1, <2>2 DEF RecordsAreAccounted, Flushers
  <2>5. DatabaseFits'
    BY <1>1, <1>2, <1>3, <1>5 DEF DatabaseFits, UsageTypeOK
  <2> QED
    BY <1>1, <1>2, <1>3, <2>1, <2>3, <2>4, <2>5
    DEF NothingDroppedBefore, ClosedIsDrained, AgedFits
<1>6. CASE database = "closing"
  <2>1. dropped' = dropped \cup inFlight[f] /\ UNCHANGED batches /\ sinkClose # "open" /\ f = "close"
    BY <1>2, <1>3, <1>6 DEF Deliver, DatabaseFits
  <2>3. UsageTypeOK'
    BY <1>1, <1>2, <1>4, <2>1 DEF UsageTypeOK, Shutdown
  <2>4. RecordsAreAccounted'
    BY <1>1, <1>2, <2>1 DEF RecordsAreAccounted, Flushers
  <2>5. DatabaseFits'
    BY <1>1, <1>2, <1>6, <2>1 DEF DatabaseFits, UsageTypeOK
  <2> QED
    BY <1>1, <1>2, <2>1, <2>3, <2>4, <2>5
    DEF NothingDroppedBefore, ClosedIsDrained, AgedFits
<1> QED
  BY <1>1, <1>5, <1>6

\* Whoever needs the database first opens it, which may fail.
LEMMA UsageBeginOpen ==
    ASSUME UsageInv, NEW who \in Flushers \cup {"reader"}, BeginOpen(who) PROVE UsageInv'
<1> USE DEF UsageInv, UsageSafety, BeginOpen, sinkVars, writerVars
<1>1. UsageTypeOK'
  BY UsageAssumption DEF UsageTypeOK, Flushers
<1>2. DatabaseFits'
  <2>1. opener' \in Flushers => inFlight'[opener'] # {}
    BY DEF Flushers
  <2>2. sinkClose \notin {"draining", "raised", "closed"}
    BY DEF DatabaseFits, SinkFits, Flushers
  <2> QED
    BY <2>1, <2>2 DEF DatabaseFits
<1> QED
  BY <1>1, <1>2 DEF RecordsAreAccounted, NothingDroppedBefore, ClosedIsDrained, SinkFits, AgedFits,
     DatabaseFits

LEMMA UsageMigrated == UsageInv /\ Migrated => UsageInv'
<1> SUFFICES ASSUME UsageInv, Migrated PROVE UsageInv'
  OBVIOUS
<1> USE DEF UsageInv, UsageSafety, Migrated, sinkVars
<1>1. UsageTypeOK'
  BY DEF UsageTypeOK, Flushers
<1>2. DatabaseFits'
  BY DEF DatabaseFits, Flushers
<1> QED
  BY <1>1, <1>2 DEF RecordsAreAccounted, NothingDroppedBefore, ClosedIsDrained, SinkFits, AgedFits,
     DatabaseFits

LEMMA UsageMigrationFails == UsageInv /\ MigrationFails => UsageInv'
<1> SUFFICES ASSUME UsageInv, MigrationFails PROVE UsageInv'
  OBVIOUS
<1> USE DEF UsageInv, UsageSafety
<1>1. /\ database = "migrating" /\ database' = "none" /\ opener' = "nobody"
      /\ UNCHANGED <<reads, writerVars, dropped>>
  BY DEF MigrationFails
<1>2. CASE opener \in Flushers /\ inFlight[opener] # {}
  <2>1. failed' = failed \cup inFlight[opener] /\ EndFlush(opener) /\ inFlight[opener] \in SUBSET Records
    BY <1>2 DEF MigrationFails, UsageTypeOK
  <2>2. /\ UNCHANGED <<recorded, unflushed>>
        /\ inFlight' \in [Flushers -> SUBSET Records]
        /\ inFlight'[opener] = {} /\ \A g \in Flushers \ {opener} : inFlight'[g] = inFlight[g]
        /\ opener = "loop" => flusher = "flushing" /\ flusher' = "sleeping" /\ UNCHANGED sinkClose
                              /\ sinkClose = "open"
        /\ opener = "close" => sinkClose = "flushing" /\ sinkClose' = "flushed" /\ UNCHANGED flusher
        /\ SinkFits'
    BY <1>2, <2>1, UsageEndFlush
  <2>3. opener = "loop" \/ opener = "close"
    BY <1>2 DEF Flushers
  <2>4. UsageTypeOK'
    BY <1>1, <2>1, <2>2, <2>3 DEF UsageTypeOK, Shutdown, writerVars
  <2>5. RecordsAreAccounted'
    BY <1>1, <2>1, <2>2, <2>3 DEF RecordsAreAccounted, Flushers, writerVars
  <2>6. DatabaseFits'
    BY <1>1, <2>2, <2>3 DEF DatabaseFits, Flushers, writerVars
  <2> QED
    BY <1>1, <2>2, <2>3, <2>4, <2>5, <2>6
    DEF NothingDroppedBefore, ClosedIsDrained, DatabaseFits, AgedFits, writerVars
<1>3. CASE opener \notin Flushers
  <2>1. UNCHANGED <<failed, sinkVars>>
    BY <1>3 DEF MigrationFails
  <2>2. UsageTypeOK'
    BY <1>1, <2>1 DEF UsageTypeOK, sinkVars, writerVars
  <2>3. DatabaseFits'
    BY <1>1, <2>1 DEF DatabaseFits, Flushers, sinkVars, writerVars
  <2> QED
    BY <1>1, <2>1, <2>2, <2>3 DEF RecordsAreAccounted, NothingDroppedBefore, ClosedIsDrained,
       SinkFits, DatabaseFits, AgedFits, sinkVars, writerVars
<1> QED
  BY <1>2, <1>3 DEF DatabaseFits

\* The writer takes a batch, starts its thread and learns how it ended.
LEMMA UsageTake == UsageInv /\ Take => UsageInv'
<1> SUFFICES ASSUME UsageInv, Take PROVE UsageInv'
  OBVIOUS
<1>1. /\ Head(batches) \in SUBSET Records /\ Tail(batches) \in Seq(SUBSET Records)
      /\ RecordsOf(batches) = Head(batches) \cup RecordsOf(Tail(batches))
  BY BatchesShrink DEF UsageInv, UsageSafety, UsageTypeOK, Take
<1> USE DEF UsageInv, UsageSafety, Take, sinkVars
<1>2. writing = {}
  BY DEF DatabaseFits
<1>3. UsageTypeOK'
  BY <1>1 DEF UsageTypeOK
<1>4. RecordsAreAccounted'
  BY <1>1, <1>2 DEF RecordsAreAccounted
<1>5. DatabaseFits'
  BY DEF DatabaseFits
<1> QED
  BY <1>3, <1>4, <1>5 DEF NothingDroppedBefore, ClosedIsDrained, SinkFits, AgedFits, DatabaseFits

LEMMA UsageStartThread == UsageInv /\ StartThread => UsageInv'
<1> SUFFICES ASSUME UsageInv, StartThread PROVE UsageInv'
  OBVIOUS
<1> USE DEF UsageInv, UsageSafety, StartThread, sinkVars
<1>1. UsageTypeOK'
  BY DEF UsageTypeOK
<1>2. DatabaseFits'
  BY DEF DatabaseFits
<1> QED
  BY <1>1, <1>2 DEF RecordsAreAccounted, NothingDroppedBefore, ClosedIsDrained, SinkFits, AgedFits,
     DatabaseFits

LEMMA UsageEndWrite == ASSUME UsageInv, NEW ok \in BOOLEAN, EndWrite(ok) PROVE UsageInv'
<1> USE DEF UsageInv, UsageSafety, EndWrite, Committed, sinkVars
<1>0. database = "open"
  BY DEF DatabaseFits, UsageTypeOK
<1>1. UsageTypeOK'
  BY DEF UsageTypeOK
<1>2. DatabaseFits'
  BY <1>0 DEF DatabaseFits
<1>3. RecordsAreAccounted'
  BY DEF RecordsAreAccounted
<1> QED
  BY <1>0, <1>1, <1>2, <1>3 DEF NothingDroppedBefore, ClosedIsDrained, SinkFits, AgedFits, DatabaseFits

\* An abandoned thread ends.
LEMMA UsageEndAbandoned ==
    ASSUME UsageInv, NEW ok \in BOOLEAN, NEW b \in abandoned, EndAbandoned(b, ok) PROVE UsageInv'
<1> USE DEF UsageInv, UsageSafety, EndAbandoned, Committed, sinkVars
<1>1. UsageTypeOK'
  BY DEF UsageTypeOK
<1>2. (UNION abandoned) = (UNION (abandoned \ {b})) \cup b
  OBVIOUS
<1>3. RecordsAreAccounted'
  BY <1>2 DEF RecordsAreAccounted
<1> QED
  BY <1>1, <1>3 DEF NothingDroppedBefore, ClosedIsDrained, SinkFits, AgedFits, DatabaseFits

\* All rows are among the newest: the cleanup removes none.
LEMMA UsageRetain == UsageInv /\ Retain => UsageInv'
<1> SUFFICES ASSUME UsageInv, Retain PROVE UsageInv'
  OBVIOUS
<1>1. rows \subseteq 1..MaxRecords /\ MaxRecords \in Nat
  BY UsageAssumption DEF UsageInv, UsageSafety, UsageTypeOK, Records
<1>2. ASSUME NEW r \in rows PROVE r \in Newest(KeptRows)
  <2> DEFINE newer == {q \in rows : q > r}
  <2>1. IsFiniteSet(1..MaxRecords) /\ Cardinality(1..MaxRecords) = MaxRecords
    BY <1>1, FS_Interval
  <2>2. newer \subseteq 1..MaxRecords
    BY <1>1
  <2>3. Cardinality(newer) \in Nat /\ Cardinality(newer) <= MaxRecords
    <3> HIDE DEF newer
    <3>1. IsFiniteSet(newer) /\ Cardinality(newer) <= Cardinality(1..MaxRecords)
      BY <2>1, <2>2, FS_Subset
    <3> QED
      BY <2>1, <3>1, FS_CardinalityType
  <2>4. Cardinality(newer) < KeptRows
    <3> HIDE DEF newer
    <3> QED
      BY <1>1, <2>3 DEF KeptRows
  <2> QED
    BY <1>2, <2>4 DEF Newest
<1>3. rows' = rows
  BY <1>2 DEF Retain
<1> USE DEF UsageInv, UsageSafety, Retain, sinkVars
<1>4. UsageTypeOK'
  BY <1>3 DEF UsageTypeOK
<1>5. DatabaseFits'
  BY DEF DatabaseFits
<1> QED
  BY <1>3, <1>4, <1>5 DEF RecordsAreAccounted, NothingDroppedBefore, ClosedIsDrained, SinkFits,
     AgedFits, DatabaseFits

\* Records grow old.
LEMMA UsageAge == UsageInv /\ Age => UsageInv'
<1> SUFFICES ASSUME UsageInv, Age PROVE UsageInv'
  OBVIOUS
<1>1. PICK k \in 0..recorded : aged = 1..k
  BY DEF UsageInv, AgedFits
<1>2. recorded \in 0..MaxRecords /\ k \in Nat /\ recorded \in Nat /\ MaxRecords \in Nat
  BY <1>1, UsageAssumption DEF UsageInv, UsageSafety, UsageTypeOK
<1>3. Cardinality(aged) = k
  BY <1>1, <1>2, FS_Interval
<1>4. k < recorded /\ aged' = 1..k \cup {k + 1}
  BY <1>1, <1>2, <1>3 DEF Age
<1>5. aged' = 1..(k + 1) /\ k + 1 \in 0..recorded /\ (1..(k + 1)) \subseteq 1..MaxRecords
  BY <1>2, <1>4
<1> USE DEF UsageInv, UsageSafety, Age, sinkVars
<1>6. UsageTypeOK'
  BY <1>5 DEF UsageTypeOK, Records
<1> QED
  BY <1>5, <1>6 DEF RecordsAreAccounted, NothingDroppedBefore, ClosedIsDrained, SinkFits,
     AgedFits, DatabaseFits

\* The sink's close gives the loop's batch up.
LEMMA UsageCloseSink == UsageInv /\ CloseSink => UsageInv'
<1> SUFFICES ASSUME UsageInv, CloseSink PROVE UsageInv'
  OBVIOUS
<1> USE DEF UsageInv, UsageSafety, CloseSink, writerVars
<1>1. /\ inFlight' \in [Flushers -> SUBSET Records] /\ inFlight'["loop"] = {}
      /\ inFlight'["close"] = inFlight["close"] /\ inFlight["loop"] \in SUBSET Records
  BY DEF UsageTypeOK, Flushers
<1>2. UsageTypeOK'
  BY <1>1 DEF UsageTypeOK, Shutdown, Flushers
<1>3. RecordsAreAccounted'
  BY <1>1 DEF RecordsAreAccounted
<1>4. SinkFits'
  BY <1>1 DEF SinkFits
<1>5. DatabaseFits'
  BY <1>1 DEF DatabaseFits, UsageTypeOK, Flushers, SinkFits
<1> QED
  BY <1>2, <1>3, <1>4, <1>5 DEF NothingDroppedBefore, ClosedIsDrained, AgedFits

\* close_usage_database
LEMMA UsageCloseDatabase == UsageInv /\ CloseDatabase => UsageInv'
<1> SUFFICES ASSUME UsageInv, CloseDatabase PROVE UsageInv'
  OBVIOUS
<1> USE DEF UsageInv, UsageSafety, CloseDatabase
<1>1. UsageTypeOK'
  BY DEF UsageTypeOK, Shutdown
<1>2. SinkFits'
  BY DEF SinkFits
<1>3. DatabaseFits'
  BY DEF DatabaseFits
<1>4. ClosedIsDrained'
  BY DEF ClosedIsDrained, DatabaseFits, UsageTypeOK
<1>5. RecordsAreAccounted'
  <2>1. UNCHANGED <<recorded, unflushed, inFlight, batches, rows, failed>>
    OBVIOUS
  <2>2. writing \cup (UNION abandoned) \cup dropped
          = writing' \cup (UNION abandoned') \cup dropped'
    <3>1. CASE database = "none"
      BY <3>1
    <3>2. CASE database # "none" /\ writer = "taken"
      BY <3>2
    <3>3. CASE database # "none" /\ writer = "thread"
      <4>1. (UNION (abandoned \cup {writing})) = (UNION abandoned) \cup writing
        OBVIOUS
      <4> QED
        BY <3>3, <4>1
    <3>4. CASE database # "none" /\ writer \notin {"taken", "thread"}
      BY <3>4 DEF DatabaseFits
    <3> QED
      BY <3>1, <3>2, <3>3, <3>4
  <2> QED
    BY <2>1, <2>2 DEF RecordsAreAccounted
<1> QED
  BY <1>1, <1>2, <1>3, <1>4, <1>5 DEF NothingDroppedBefore, AgedFits

\* The queue is written, or a write raises.
LEMMA UsageDrainOne == ASSUME UsageInv, NEW ok \in BOOLEAN, DrainOne(ok) PROVE UsageInv'
<1>1. /\ Head(batches) \in SUBSET Records /\ Tail(batches) \in Seq(SUBSET Records)
      /\ RecordsOf(batches) = Head(batches) \cup RecordsOf(Tail(batches))
  BY BatchesShrink DEF UsageInv, UsageSafety, UsageTypeOK, DrainOne
<1> USE DEF UsageInv, UsageSafety, DrainOne, Committed
<1>2. UsageTypeOK'
  BY <1>1 DEF UsageTypeOK, Shutdown
<1>3. RecordsAreAccounted'
  BY <1>1 DEF RecordsAreAccounted
<1>4. DatabaseFits' /\ SinkFits'
  BY DEF DatabaseFits, SinkFits
<1> QED
  BY <1>2, <1>3, <1>4 DEF NothingDroppedBefore, ClosedIsDrained, AgedFits

LEMMA UsageCloseAgain == UsageInv /\ CloseAgain => UsageInv'
<1> SUFFICES ASSUME UsageInv, CloseAgain PROVE UsageInv'
  OBVIOUS
<1> USE DEF UsageInv, UsageSafety, CloseAgain, writerVars
<1>1. UsageTypeOK'
  BY DEF UsageTypeOK, Shutdown
<1>2. SinkFits' /\ DatabaseFits'
  BY DEF SinkFits, DatabaseFits
<1> QED
  BY <1>1, <1>2 DEF RecordsAreAccounted, NothingDroppedBefore, ClosedIsDrained, AgedFits

LEMMA UsageEndClose == UsageInv /\ EndClose => UsageInv'
<1> SUFFICES ASSUME UsageInv, EndClose PROVE UsageInv'
  OBVIOUS
<1> USE DEF UsageInv, UsageSafety, EndClose
<1>1. UsageTypeOK'
  BY DEF UsageTypeOK, Shutdown, DatabaseFits, Flushers
<1>2. SinkFits' /\ DatabaseFits'
  BY DEF SinkFits, DatabaseFits
<1> QED
  BY <1>1, <1>2 DEF RecordsAreAccounted, NothingDroppedBefore, ClosedIsDrained, AgedFits, DatabaseFits

LEMMA UsageStutters == UsageInv /\ UNCHANGED usageVars => UsageInv'
  BY DEF UsageInv, UsageSafety, UsageTypeOK, RecordsAreAccounted, NothingDroppedBefore,
     ClosedIsDrained, SinkFits, DatabaseFits, AgedFits, usageVars

LEMMA UsageStep == UsageInv /\ [UsageNext]_usageVars => UsageInv'
<1> SUFFICES ASSUME UsageInv, [UsageNext]_usageVars PROVE UsageInv'
  OBVIOUS
<1>1. CASE UsageWork
  BY <1>1, UsageTick, UsageDeliver, UsageBeginOpen, UsageMigrated, UsageMigrationFails, UsageTake,
     UsageStartThread, UsageRetain, UsageEndWrite, UsageDrainOne, UsageEndAbandoned,
     UsageLastFlush, UsageCloseDatabase, UsageEndClose DEF UsageWork
<1>2. CASE Record \/ Age \/ CloseSink \/ CloseAgain \/ BeginOpen("reader")
  BY <1>2, UsageRecord, UsageAge, UsageCloseSink, UsageCloseAgain, UsageBeginOpen
<1>3. CASE UNCHANGED usageVars
  BY <1>3, UsageStutters
<1> QED
  BY <1>1, <1>2, <1>3 DEF UsageNext

\* Every usage record stays accounted for, for any number of records, any size of a
\* batch and any interleaving of flushes, the writer and the shutdown.
THEOREM UsageIsAccounted == UsageSpec => []UsageSafety
<1>1. UsageInv => UsageSafety
  BY DEF UsageInv
<1> QED
  BY <1>1, UsageStarts, UsageStep, PTL DEF UsageSpec

-----------------------------------------------------------------------------
(* The application runtime. *)

\* Who holds the two locks, and what the calls know of the shutdown.
CallsFit ==
    /\ \A c \in Callers : lifecycle = c <=> hostCall[c] \in {"initializing", "gathering", "releasing"}
    /\ \A c \in Callers : config = c <=> hostCall[c] = "releasing"
    /\ \A c \in Callers : hostCall[c] = "initializing" => c = "start"
    /\ \A c \in Callers : hostCall[c] \in {"lifecycle", "gathering", "releasing"} => draining
    /\ hostCall["start"] = "idle" => \A c \in Callers : hostCall[c] = "idle"
    /\ releasing # 0 <=> \E c \in Callers : hostCall[c] = "releasing"
    /\ closed => draining

\* The startup tasks are there from the end of the start to the gathering of the close.
JobsFit ==
    /\ hostCall["start"] \in {"idle", "initializing"} =>
           (\A j \in Jobs : startupJob[j] = "none") /\ released = {} /\ ~closed
    /\ startupJob["messaging"] \in {"loading", "creating"} => released = {}
    /\ startupJob["messaging"] = "cleaning" <=> cleaning # 0
    /\ cleaning # 0 => cleaning \in FirstOfMessaging..LastOfMessaging
    /\ \A c \in Callers, j \in Jobs : hostCall[c] = "gathering" /\ Active(j) => startupJob[j] = "stopping"
    /\ releasing # 0 => \A j \in Jobs : ~Active(j)
    /\ startupJob["codex"] \in {"recognizing", "writing"} => config = "codex"
    /\ config = "codex" => startupJob["codex"] \in {"recognizing", "writing", "stopping"}

\* What a cleanup has passed is not open any more.
ResourcesFit ==
    /\ "ingress" \in open => "delivery" \in open
    /\ \A i \in 1..9 : i < releasing => Stages[i] \notin open
    /\ \A i \in 2..4 : i < cleaning => Stages[i] \notin open

\* An update holds the lock from its preparation on; what is written and not yet
\* running is about to be published or signalled.
Holding == {"preparing", "checking", "finalizing", "persisting", "publishing", "signalling"}
LiveFits == live = accepted \/ (live.cold # accepted.cold /\ (pendingFields \/ restarting))
UpdatesFit ==
    /\ \A u \in Updates : update[u] \in Holding <=> config = u
    /\ prepared.target.other = prepared.base.other
    /\ \A u \in Updates : update[u] = "publishing" =>
           accepted = prepared.target /\ prepared.target.cold = live.cold
    /\ \A u \in Updates : update[u] = "signalling" =>
           accepted = prepared.target /\ prepared.target.cold # live.cold
    /\ (\A u \in Updates : update[u] \notin {"publishing", "signalling"}) => LiveFits

RuntimeInv == RuntimeSafety /\ CallsFit /\ JobsFit /\ ResourcesFit /\ UpdatesFit
\* The tuple of stages, one by one.
LEMMA StagesAre ==
    /\ Len(Stages) = 9 /\ DOMAIN Stages = 1..9
    /\ Stages[1] = "picker" /\ Stages[2] = "ingress" /\ Stages[3] = "workflow"
    /\ Stages[4] = "delivery" /\ Stages[5] = "code" /\ Stages[6] = "transcriber"
    /\ Stages[7] = "usage" /\ Stages[8] = "providers" /\ Stages[9] = "accounts"
  BY DEF Stages

Resources == {"picker", "ingress", "workflow", "delivery", "code", "transcriber", "usage",
              "providers", "accounts"}

LEMMA ResourcesAre == {Stages[i] : i \in DOMAIN Stages} = Resources
<1>1. \A x \in Resources : \E i \in 1..9 : x = Stages[i]
  BY StagesAre DEF Resources
<1>2. \A i \in 1..9 : Stages[i] \in Resources
  <2> SUFFICES ASSUME NEW i \in 1..9 PROVE Stages[i] \in Resources
    OBVIOUS
  <2>1. i = 1 \/ i = 2 \/ i = 3 \/ i = 4 \/ i = 5 \/ i = 6 \/ i = 7 \/ i = 8 \/ i = 9
    OBVIOUS
  <2> QED
    BY <2>1, StagesAre DEF Resources
<1> QED
  BY <1>1, <1>2, StagesAre

\* What needs what, one by one.
LEMMA NeedsAre ==
    DependantsGoFirst <=>
        /\ "workflow" \in released => "ingress" \notin open
        /\ {"delivery", "transcriber", "providers"} \cap released # {} => "workflow" \notin open
        /\ {"usage", "providers"} \cap released # {} => "code" \notin open
        /\ "accounts" \in released => "providers" \notin open
  BY DEF DependantsGoFirst, Needs

\* Steps that leave a part of the state alone.
LEMMA UpdatesStay ==
    ASSUME UpdatesFit, OthersAreKept, UNCHANGED <<update, prepared, disk, live, accepted, elsewhere,
                                                  pendingFields, restarting>>,
           \A u \in Updates : config' = u <=> config = u
    PROVE  UpdatesFit' /\ LiveIsStored' /\ OthersAreKept'
<1>1. UpdatesFit' /\ OthersAreKept'
  BY DEF UpdatesFit, OthersAreKept, LiveFits
<1>2. UpdatesFit' => LiveIsStored'
  BY DEF UpdatesFit, LiveIsStored, LiveFits, Holding
<1> QED
  BY <1>1, <1>2

LEMMA ResourcesStay ==
    ASSUME ResourcesFit, DependantsGoFirst, UNCHANGED <<open, released, releasing, cleaning>>
    PROVE  ResourcesFit' /\ DependantsGoFirst'
  BY DEF ResourcesFit, DependantsGoFirst

LEMMA RuntimeStarts == RuntimeInit => RuntimeInv
<1> SUFFICES ASSUME RuntimeInit PROVE RuntimeInv
  OBVIOUS
<1> USE RuntimeAssumption DEF RuntimeInit
<1>1. RuntimeTypeOK
  <2>1. Initially \in Settings /\ NothingPrepared \in [base : Settings, target : Settings]
    BY DEF Initially, NothingPrepared, Settings
  <2>2. open \subseteq {Stages[i] : i \in DOMAIN Stages} /\ released \subseteq {Stages[i] : i \in DOMAIN Stages}
    BY ResourcesAre DEF Resources
  <2>3. cleaning \in 0..LastOfMessaging /\ releasing \in 0..Len(Stages) /\ faults \in 0..MaxFaults
        /\ elsewhere \in 0..MaxWrites
    BY StagesAre DEF LastOfMessaging
  <2> QED
    BY <2>1, <2>2, <2>3 DEF RuntimeTypeOK
<1>2. CallsFit
  BY DEF CallsFit, Callers
<1>3. JobsFit
  BY DEF JobsFit, Jobs, Callers, Active, Finished
<1>4. ResourcesFit /\ DependantsGoFirst
  BY DEF ResourcesFit, DependantsGoFirst
<1>5. UpdatesFit /\ LiveIsStored /\ OthersAreKept
  BY DEF UpdatesFit, LiveIsStored, OthersAreKept, LiveFits, Holding, Initially, NothingPrepared
<1>6. ClosedOwnsNothing /\ CodexIsCurrent
  BY DEF ClosedOwnsNothing, CodexIsCurrent, Jobs
<1> QED
  BY <1>1, <1>2, <1>3, <1>4, <1>5, <1>6 DEF RuntimeInv, RuntimeSafety

USE RuntimeAssumption DEF RuntimeInv, RuntimeSafety, lifecycleVars, jobVars, resourceVars, updateVars, fileVars, NoUpdate, Goto,
    JobTo, UpdateTo

\* start
LEMMA RuntimeStart == ASSUME RuntimeInv, Start PROVE RuntimeInv'
<1> USE DEF Start
<1>1. RuntimeTypeOK'
  BY ResourcesAre, StagesAre DEF RuntimeTypeOK, Callers, Jobs, Resources
<1>2. CallsFit'
  BY DEF CallsFit, Callers, RuntimeTypeOK
<1>3. JobsFit'
  BY DEF JobsFit, Jobs, Callers, Active, Finished, FirstOfMessaging, LastOfMessaging
<1>4. ResourcesFit' /\ DependantsGoFirst'
  BY ResourcesStay
<1>5. UpdatesFit' /\ LiveIsStored' /\ OthersAreKept'
  BY UpdatesStay
<1>6. ClosedOwnsNothing' /\ CodexIsCurrent'
  BY <1>2, <1>3 DEF ClosedOwnsNothing, CodexIsCurrent, Jobs, Callers, Active, Finished, JobsFit,
     CallsFit
<1> QED
  BY <1>1, <1>2, <1>3, <1>4, <1>5, <1>6

\* The startup tasks are registered.
LEMMA RuntimeStarted == ASSUME RuntimeInv, Started PROVE RuntimeInv'
<1> USE DEF Started
<1>1. RuntimeTypeOK'
  BY ResourcesAre, StagesAre DEF RuntimeTypeOK, Callers, Jobs, Resources
<1>2. CallsFit'
  BY DEF CallsFit, Callers, RuntimeTypeOK
<1>3. JobsFit'
  BY DEF JobsFit, Jobs, Callers, Active, Finished, RuntimeTypeOK, FirstOfMessaging, LastOfMessaging, CallsFit
<1>4. ResourcesFit' /\ DependantsGoFirst'
  BY ResourcesStay
<1>5. UpdatesFit' /\ LiveIsStored' /\ OthersAreKept'
  BY UpdatesStay
<1>6. ClosedOwnsNothing' /\ CodexIsCurrent'
  BY <1>2, <1>3 DEF ClosedOwnsNothing, CodexIsCurrent, Jobs, Callers, Active, Finished, JobsFit,
     CallsFit
<1> QED
  BY <1>1, <1>2, <1>3, <1>4, <1>5, <1>6

\* The start fails, or finds the shutdown begun.
LEMMA RuntimeStartFails == ASSUME RuntimeInv, StartFails PROVE RuntimeInv'
<1> USE DEF StartFails, Fault
<1>1. RuntimeTypeOK'
  BY ResourcesAre, StagesAre DEF RuntimeTypeOK, Callers, Jobs, Resources
<1>2. CallsFit'
  BY DEF CallsFit, Callers, RuntimeTypeOK
<1>3. JobsFit'
  BY DEF JobsFit, Jobs, Callers, Active, Finished, FirstOfMessaging, LastOfMessaging
<1>4. ResourcesFit' /\ DependantsGoFirst'
  BY ResourcesStay
<1>5. UpdatesFit' /\ LiveIsStored' /\ OthersAreKept'
  BY UpdatesStay
<1>6. ClosedOwnsNothing' /\ CodexIsCurrent'
  BY <1>2, <1>3 DEF ClosedOwnsNothing, CodexIsCurrent, Jobs, Callers, Active, Finished, JobsFit,
     CallsFit
<1> QED
  BY <1>1, <1>2, <1>3, <1>4, <1>5, <1>6

\* The server listens.
LEMMA RuntimeHttp == ASSUME RuntimeInv, HttpStarted PROVE RuntimeInv'
<1> USE DEF HttpStarted
<1>1. RuntimeTypeOK'
  BY ResourcesAre, StagesAre DEF RuntimeTypeOK, Callers, Jobs, Resources
<1>2. CallsFit'
  BY DEF CallsFit, Callers
<1>3. JobsFit'
  BY DEF JobsFit, Jobs, Callers, Active, Finished, FirstOfMessaging, LastOfMessaging
<1>4. ResourcesFit' /\ DependantsGoFirst'
  BY ResourcesStay
<1>5. UpdatesFit' /\ LiveIsStored' /\ OthersAreKept'
  BY UpdatesStay
<1>6. ClosedOwnsNothing' /\ CodexIsCurrent'
  BY <1>2, <1>3 DEF ClosedOwnsNothing, CodexIsCurrent, Jobs, Callers, Active, Finished, JobsFit,
     CallsFit
<1> QED
  BY <1>1, <1>2, <1>3, <1>4, <1>5, <1>6

\* The messaging job opens its resources one after another.
LEMMA RuntimeMessaging == ASSUME RuntimeInv, MessagingStep PROVE RuntimeInv'
<1> USE DEF MessagingStep
<1>1. RuntimeTypeOK'
  BY ResourcesAre, StagesAre DEF RuntimeTypeOK, Callers, Jobs, Resources
<1>2. CallsFit'
  BY DEF CallsFit, Callers
<1>3. JobsFit'
  BY DEF JobsFit, Jobs, Callers, Active, Finished, RuntimeTypeOK, FirstOfMessaging, LastOfMessaging
<1>4. ResourcesFit' /\ DependantsGoFirst'
  <2>1. releasing = 0 /\ cleaning = 0
    BY DEF JobsFit, CallsFit, Jobs, Active, Finished
  <2>2. ResourcesFit'
    BY <2>1 DEF ResourcesFit
  <2>3. released' = {} \/ open' = open
    BY DEF JobsFit
  <2> QED
    BY <2>2, <2>3, ResourcesStay DEF DependantsGoFirst
<1>5. UpdatesFit' /\ LiveIsStored' /\ OthersAreKept'
  BY UpdatesStay
<1>6. ClosedOwnsNothing' /\ CodexIsCurrent'
  BY <1>2, <1>3 DEF ClosedOwnsNothing, CodexIsCurrent, Jobs, Callers, Active, Finished, JobsFit, CallsFit, RuntimeTypeOK
<1> QED
  BY <1>1, <1>2, <1>3, <1>4, <1>5, <1>6

\* The messaging job fails and begins its cleanup.
LEMMA RuntimeMessagingFails == ASSUME RuntimeInv, MessagingFails PROVE RuntimeInv'
<1> USE DEF MessagingFails, Fault
<1>1. RuntimeTypeOK'
  BY ResourcesAre, StagesAre DEF RuntimeTypeOK, Callers, Jobs, Resources, FirstOfMessaging, LastOfMessaging
<1>2. CallsFit'
  BY DEF CallsFit, Callers
<1>3. JobsFit'
  BY DEF JobsFit, Jobs, Callers, Active, Finished, RuntimeTypeOK, FirstOfMessaging, LastOfMessaging
<1>4. ResourcesFit' /\ DependantsGoFirst'
  BY DEF ResourcesFit, DependantsGoFirst, FirstOfMessaging
<1>5. UpdatesFit' /\ LiveIsStored' /\ OthersAreKept'
  BY UpdatesStay
<1>6. ClosedOwnsNothing' /\ CodexIsCurrent'
  BY <1>2, <1>3 DEF ClosedOwnsNothing, CodexIsCurrent, Jobs, Callers, Active, Finished, JobsFit,
     CallsFit
<1> QED
  BY <1>1, <1>2, <1>3, <1>4, <1>5, <1>6

\* The code service has started.
LEMMA RuntimeCode == ASSUME RuntimeInv, CodeStarted PROVE RuntimeInv'
<1> USE DEF CodeStarted
<1>1. RuntimeTypeOK'
  BY ResourcesAre, StagesAre DEF RuntimeTypeOK, Callers, Jobs, Resources
<1>2. CallsFit'
  BY DEF CallsFit, Callers
<1>3. JobsFit'
  BY DEF JobsFit, Jobs, Callers, Active, Finished, FirstOfMessaging, LastOfMessaging
<1>4. ResourcesFit' /\ DependantsGoFirst'
  BY ResourcesStay
<1>5. UpdatesFit' /\ LiveIsStored' /\ OthersAreKept'
  BY UpdatesStay
<1>6. ClosedOwnsNothing' /\ CodexIsCurrent'
  BY <1>2, <1>3 DEF ClosedOwnsNothing, CodexIsCurrent, Jobs, Callers, Active, Finished, JobsFit,
     CallsFit
<1> QED
  BY <1>1, <1>2, <1>3, <1>4, <1>5, <1>6

\* The codex job takes the lock.
LEMMA RuntimeAsks == ASSUME RuntimeInv, CodexAsks PROVE RuntimeInv'
<1> USE DEF CodexAsks, Available, CatalogIsCurrent
<1>1. RuntimeTypeOK'
  BY ResourcesAre, StagesAre DEF RuntimeTypeOK, Callers, Jobs, Resources
<1>2. CallsFit'
  BY DEF CallsFit, Callers
<1>3. JobsFit'
  BY DEF JobsFit, Jobs, Callers, Active, Finished, RuntimeTypeOK, FirstOfMessaging, LastOfMessaging
<1>4. ResourcesFit' /\ DependantsGoFirst'
  BY ResourcesStay
<1>5. UpdatesFit' /\ LiveIsStored' /\ OthersAreKept'
  BY UpdatesStay DEF Callers, Jobs, JobsFit
<1>6. ClosedOwnsNothing' /\ CodexIsCurrent'
  BY <1>2, <1>3 DEF ClosedOwnsNothing, CodexIsCurrent, Jobs, Callers, Active, Finished, JobsFit, CallsFit, RuntimeTypeOK
<1> QED
  BY <1>1, <1>2, <1>3, <1>4, <1>5, <1>6

\* It releases the lock and waits for the catalog.
LEMMA RuntimeRecognized == ASSUME RuntimeInv, CodexRecognized PROVE RuntimeInv'
<1> USE DEF CodexRecognized, Available, CatalogIsCurrent
<1>1. RuntimeTypeOK'
  BY ResourcesAre, StagesAre DEF RuntimeTypeOK, Callers, Jobs, Resources
<1>2. CallsFit'
  BY DEF CallsFit, Callers, RuntimeTypeOK, JobsFit
<1>3. JobsFit'
  BY DEF JobsFit, Jobs, Callers, Active, Finished, RuntimeTypeOK, FirstOfMessaging, LastOfMessaging
<1>4. ResourcesFit' /\ DependantsGoFirst'
  BY ResourcesStay
<1>5. UpdatesFit' /\ LiveIsStored' /\ OthersAreKept'
  BY UpdatesStay DEF Callers, Jobs, JobsFit
<1>6. ClosedOwnsNothing' /\ CodexIsCurrent'
  BY <1>2, <1>3 DEF ClosedOwnsNothing, CodexIsCurrent, Jobs, Callers, Active, Finished, JobsFit,
     CallsFit
<1> QED
  BY <1>1, <1>2, <1>3, <1>4, <1>5, <1>6

\* The catalog is ready.
LEMMA RuntimeCatalog == ASSUME RuntimeInv, CatalogReady PROVE RuntimeInv'
<1> USE DEF CatalogReady, Available, CatalogIsCurrent
<1>1. RuntimeTypeOK'
  BY ResourcesAre, StagesAre DEF RuntimeTypeOK, Callers, Jobs, Resources
<1>2. CallsFit'
  BY DEF CallsFit, Callers
<1>3. JobsFit'
  BY DEF JobsFit, Jobs, Callers, Active, Finished, FirstOfMessaging, LastOfMessaging
<1>4. ResourcesFit' /\ DependantsGoFirst'
  BY ResourcesStay
<1>5. UpdatesFit' /\ LiveIsStored' /\ OthersAreKept'
  BY UpdatesStay
<1>6. ClosedOwnsNothing' /\ CodexIsCurrent'
  BY <1>2, <1>3 DEF ClosedOwnsNothing, CodexIsCurrent, Jobs, Callers, Active, Finished, JobsFit,
     CallsFit
<1> QED
  BY <1>1, <1>2, <1>3, <1>4, <1>5, <1>6

\* It takes the lock again, and looks whether the catalog is still current.
LEMMA RuntimeLocks == ASSUME RuntimeInv, CodexLocks PROVE RuntimeInv'
<1> USE DEF CodexLocks, Available, CatalogIsCurrent
<1>1. RuntimeTypeOK'
  BY ResourcesAre, StagesAre DEF RuntimeTypeOK, Callers, Jobs, Resources
<1>2. CallsFit'
  BY DEF CallsFit, Callers
<1>3. JobsFit'
  BY DEF JobsFit, Jobs, Callers, Active, Finished, RuntimeTypeOK, FirstOfMessaging, LastOfMessaging
<1>4. ResourcesFit' /\ DependantsGoFirst'
  BY ResourcesStay
<1>5. UpdatesFit' /\ LiveIsStored' /\ OthersAreKept'
  BY UpdatesStay DEF Callers, Jobs, JobsFit
<1>6. ClosedOwnsNothing' /\ CodexIsCurrent'
  BY <1>2, <1>3 DEF ClosedOwnsNothing, CodexIsCurrent, Jobs, Callers, Active, Finished, JobsFit,
     CallsFit
<1> QED
  BY <1>1, <1>2, <1>3, <1>4, <1>5, <1>6

\* The codex settings are written.
LEMMA RuntimeWritten == ASSUME RuntimeInv, CodexWritten PROVE RuntimeInv'
<1> USE DEF CodexWritten, Available, CatalogIsCurrent
<1>1. RuntimeTypeOK'
  BY ResourcesAre, StagesAre DEF RuntimeTypeOK, Callers, Jobs, Resources
<1>2. CallsFit'
  BY DEF CallsFit, Callers, RuntimeTypeOK, JobsFit
<1>3. JobsFit'
  BY DEF JobsFit, Jobs, Callers, Active, Finished, RuntimeTypeOK, FirstOfMessaging, LastOfMessaging
<1>4. ResourcesFit' /\ DependantsGoFirst'
  BY ResourcesStay
<1>5. UpdatesFit' /\ LiveIsStored' /\ OthersAreKept'
  BY UpdatesStay DEF Callers, Jobs, JobsFit
<1>6. ClosedOwnsNothing' /\ CodexIsCurrent'
  BY <1>2, <1>3 DEF ClosedOwnsNothing, CodexIsCurrent, Jobs, Callers, Active, Finished, JobsFit,
     CallsFit
<1> QED
  BY <1>1, <1>2, <1>3, <1>4, <1>5, <1>6

\* The shutdown begins.
LEMMA RuntimeShutdown == ASSUME RuntimeInv, BeginHostShutdown PROVE RuntimeInv'
<1> USE DEF BeginHostShutdown
<1>1. RuntimeTypeOK'
  BY ResourcesAre, StagesAre DEF RuntimeTypeOK, Callers, Jobs, Resources
<1>2. CallsFit'
  BY DEF CallsFit, Callers
<1>3. JobsFit'
  BY DEF JobsFit, Jobs, Callers, Active, Finished, FirstOfMessaging, LastOfMessaging
<1>4. ResourcesFit' /\ DependantsGoFirst'
  BY ResourcesStay
<1>5. UpdatesFit' /\ LiveIsStored' /\ OthersAreKept'
  BY UpdatesStay
<1>6. ClosedOwnsNothing' /\ CodexIsCurrent'
  BY <1>2, <1>3 DEF ClosedOwnsNothing, CodexIsCurrent, Jobs, Callers, Active, Finished, JobsFit,
     CallsFit
<1> QED
  BY <1>1, <1>2, <1>3, <1>4, <1>5, <1>6

\* close is called.
LEMMA RuntimeCallClose == ASSUME RuntimeInv, NEW c \in {"lifespan", "serve"}, CallClose(c) PROVE RuntimeInv'
<1> USE DEF CallClose
<1>1. RuntimeTypeOK'
  BY ResourcesAre, StagesAre DEF RuntimeTypeOK, Callers, Jobs, Resources
<1>2. CallsFit'
  BY DEF CallsFit, Callers
<1>3. JobsFit'
  BY DEF JobsFit, Jobs, Callers, Active, Finished, FirstOfMessaging, LastOfMessaging
<1>4. ResourcesFit' /\ DependantsGoFirst'
  BY ResourcesStay
<1>5. UpdatesFit' /\ LiveIsStored' /\ OthersAreKept'
  BY UpdatesStay
<1>6. ClosedOwnsNothing' /\ CodexIsCurrent'
  BY <1>2, <1>3 DEF ClosedOwnsNothing, CodexIsCurrent, Jobs, Callers, Active, Finished, JobsFit,
     CallsFit
<1> QED
  BY <1>1, <1>2, <1>3, <1>4, <1>5, <1>6

\* The startup tasks are cancelled.
LEMMA RuntimeGather == ASSUME RuntimeInv, NEW c \in Callers, Gather(c) PROVE RuntimeInv'
<1> USE DEF Gather
<1>1. RuntimeTypeOK'
  BY ResourcesAre, StagesAre DEF RuntimeTypeOK, Callers, Jobs, Resources, LastOfMessaging
<1>2. CallsFit'
  BY DEF CallsFit, Callers, RuntimeTypeOK
<1>3. JobsFit'
  BY DEF JobsFit, Jobs, Callers, Active, Finished, RuntimeTypeOK, FirstOfMessaging, LastOfMessaging
<1>4. ResourcesFit' /\ DependantsGoFirst'
  BY DEF ResourcesFit, DependantsGoFirst
<1>5. UpdatesFit' /\ LiveIsStored' /\ OthersAreKept'
  BY UpdatesStay DEF Callers
<1>6. ClosedOwnsNothing' /\ CodexIsCurrent'
  BY <1>2, <1>3 DEF ClosedOwnsNothing, CodexIsCurrent, Jobs, Callers, Active, Finished, JobsFit,
     CallsFit
<1> QED
  BY <1>1, <1>2, <1>3, <1>4, <1>5, <1>6

\* A cancelled task ends.
LEMMA RuntimeJobEnds == ASSUME RuntimeInv, NEW j \in Jobs, JobEnds(j) PROVE RuntimeInv'
<1> USE DEF JobEnds
<1>1. RuntimeTypeOK'
  BY ResourcesAre, StagesAre DEF RuntimeTypeOK, Callers, Jobs, Resources
<1>2. CallsFit'
  BY DEF CallsFit, Callers, Jobs
<1>3. JobsFit'
  BY DEF JobsFit, Jobs, Callers, Active, Finished, FirstOfMessaging, LastOfMessaging
<1>4. ResourcesFit' /\ DependantsGoFirst'
  BY ResourcesStay
<1>5. UpdatesFit' /\ LiveIsStored' /\ OthersAreKept'
  BY UpdatesStay DEF Jobs
<1>6. ClosedOwnsNothing' /\ CodexIsCurrent'
  BY <1>2, <1>3 DEF ClosedOwnsNothing, CodexIsCurrent, Jobs, Callers, Active, Finished, JobsFit,
     CallsFit
<1> QED
  BY <1>1, <1>2, <1>3, <1>4, <1>5, <1>6

\* The tasks have ended; the resources are released next.
LEMMA RuntimeEndGather == ASSUME RuntimeInv, NEW c \in Callers, EndGather(c) PROVE RuntimeInv'
<1> USE DEF EndGather, Gathered
<1>1. RuntimeTypeOK'
  BY ResourcesAre, StagesAre DEF RuntimeTypeOK, Callers, Jobs, Resources
<1>2. CallsFit'
  BY DEF CallsFit, Callers, RuntimeTypeOK
<1>3. JobsFit'
  BY DEF JobsFit, Jobs, Callers, Active, Finished, FirstOfMessaging, LastOfMessaging
<1>4. ResourcesFit' /\ DependantsGoFirst'
  BY DEF ResourcesFit, DependantsGoFirst
<1>5. UpdatesFit' /\ LiveIsStored' /\ OthersAreKept'
  BY UpdatesStay DEF Callers
<1>6. ClosedOwnsNothing' /\ CodexIsCurrent'
  BY <1>2, <1>3 DEF ClosedOwnsNothing, CodexIsCurrent, Jobs, Callers, Active, Finished, JobsFit,
     CallsFit
<1> QED
  BY <1>1, <1>2, <1>3, <1>4, <1>5, <1>6

HIDE RuntimeAssumption DEF RuntimeInv, RuntimeSafety, lifecycleVars, jobVars, resourceVars, updateVars, fileVars, NoUpdate, Goto,
    JobTo, UpdateTo

\* What passing a stage does, whether or not it had something to release.
LEMMA StagePassed ==
    ASSUME ResourcesFit, NEW s \in Resources,
           IF Applies(s) THEN ReleaseOne(s) ELSE UNCHANGED <<open, released>>
    PROVE  open' = open \ {s} /\ released' \subseteq released \cup {s}
<1>1. CASE s \in {"picker", "code", "usage"}
  BY <1>1 DEF Applies, ReleaseOne
<1>2. CASE s = "ingress"
  <2>1. Applies(s) <=> "delivery" \in open
    BY <1>2 DEF Applies
  <2>2. s \in open => "delivery" \in open
    BY <1>2 DEF ResourcesFit
  <2> QED
    BY <2>1, <2>2 DEF ReleaseOne
<1>3. CASE s \notin {"picker", "code", "usage", "ingress"}
  <2>1. Applies(s) <=> s \in open
    BY <1>3 DEF Applies
  <2> QED
    BY <2>1 DEF ReleaseOne
<1> QED
  BY <1>1, <1>2, <1>3

\* Stages in their order release nothing that something open needs.
LEMMA StagesInOrder ==
    ASSUME ResourcesFit, DependantsGoFirst, NEW i \in 1..9,
           open' = open \ {Stages[i]}, released' \subseteq released \cup {Stages[i]},
           \A j \in 2..4 : j < i => Stages[j] \notin open,
           i > 4 => \A j \in 1..9 : j < i => Stages[j] \notin open
    PROVE  DependantsGoFirst' /\ ("ingress" \in open' => "delivery" \in open')
<1>1. /\ "workflow" \in released => "ingress" \notin open
      /\ {"delivery", "transcriber", "providers"} \cap released # {} => "workflow" \notin open
      /\ {"usage", "providers"} \cap released # {} => "code" \notin open
      /\ "accounts" \in released => "providers" \notin open
  BY NeedsAre
<1>2. /\ i > 2 => "ingress" \notin open
      /\ i > 3 => "workflow" \notin open
      /\ i > 5 => "code" \notin open
      /\ i > 8 => "providers" \notin open
  BY StagesAre
<1>3. /\ Stages[i] = "workflow" => i = 3
      /\ Stages[i] = "delivery" => i = 4
      /\ Stages[i] = "transcriber" => i = 6
      /\ Stages[i] = "usage" => i = 7
      /\ Stages[i] = "providers" => i = 8
      /\ Stages[i] = "accounts" => i = 9
  <2>1. i = 1 \/ i = 2 \/ i = 3 \/ i = 4 \/ i = 5 \/ i = 6 \/ i = 7 \/ i = 8 \/ i = 9
    OBVIOUS
  <2> QED
    BY <2>1, StagesAre
<1>4. /\ "workflow" \in released' => "ingress" \notin open'
      /\ {"delivery", "transcriber", "providers"} \cap released' # {} => "workflow" \notin open'
      /\ {"usage", "providers"} \cap released' # {} => "code" \notin open'
      /\ "accounts" \in released' => "providers" \notin open'
  BY <1>1, <1>2, <1>3
<1>5. DependantsGoFirst'
  BY <1>4 DEF DependantsGoFirst, Needs
<1>6. "ingress" \in open' => "delivery" \in open'
  BY <1>2, <1>3 DEF ResourcesFit
<1> QED
  BY <1>5, <1>6

\* The messaging job cleans up after itself.
LEMMA RuntimeClean == ASSUME RuntimeInv, CleanStage PROVE RuntimeInv'
<1> USE RuntimeAssumption DEF RuntimeInv, RuntimeSafety, lifecycleVars, jobVars, resourceVars,
        updateVars, fileVars, JobTo, FirstOfMessaging, LastOfMessaging
<1> DEFINE s == Stages[cleaning]
           next == IF cleaning = LastOfMessaging THEN 0 ELSE cleaning + 1
<1>1. /\ startupJob["messaging"] = "cleaning"
      /\ UNCHANGED <<lifecycleVars, catalog, releasing, config, updateVars, fileVars>>
      /\ cleaning \in 2..4 /\ releasing = 0
  BY DEF CleanStage, JobsFit, Jobs, Active, Finished, RuntimeTypeOK
<1>2. \/ /\ IF Applies(s) THEN ReleaseOne(s) ELSE UNCHANGED <<open, released>>
         /\ cleaning' = next /\ startupJob' = [startupJob EXCEPT !["messaging"] = IF next = 0 THEN "done" ELSE "cleaning"]
         /\ UNCHANGED faults
      \/ /\ Fault /\ cleaning' = 0 /\ startupJob' = [startupJob EXCEPT !["messaging"] = "done"]
         /\ UNCHANGED <<open, released>>
  BY DEF CleanStage
<1>3. s \in Resources /\ cleaning \in 1..9
  <2>1. cleaning \in DOMAIN Stages
    BY <1>1, StagesAre
  <2> QED
    BY <1>1, <2>1, ResourcesAre
<1>4. /\ open' \subseteq open /\ released' \subseteq Resources
      /\ DependantsGoFirst' /\ ("ingress" \in open' => "delivery" \in open')
      /\ \A i \in 2..4 : i < cleaning' => Stages[i] \notin open'
  <2>0. released \subseteq Resources
    BY ResourcesAre DEF RuntimeTypeOK
  <2>1. CASE /\ IF Applies(s) THEN ReleaseOne(s) ELSE UNCHANGED <<open, released>>
             /\ cleaning' = next
    <3>1. open' = open \ {s} /\ released' \subseteq released \cup {s}
      BY <1>3, <2>1, StagePassed
    <3>2. \A j \in 2..4 : j < cleaning => Stages[j] \notin open
      BY DEF ResourcesFit
    <3>3. ~(cleaning > 4)
      BY <1>1
    <3>4. DependantsGoFirst' /\ ("ingress" \in open' => "delivery" \in open')
      BY <1>3, <3>1, <3>2, <3>3, StagesInOrder
    <3>5. \A j \in 2..4 : j < cleaning' => j < cleaning \/ j = cleaning
      BY <1>1, <2>1
    <3> QED
      BY <1>3, <2>0, <3>1, <3>2, <3>4, <3>5
  <2>2. CASE cleaning' = 0 /\ UNCHANGED <<open, released>>
    BY <2>0, <2>2 DEF DependantsGoFirst, ResourcesFit
  <2> QED
    BY <1>2, <2>1, <2>2
<1>5. cleaning' \in 0..4 /\ (startupJob'["messaging"] = "cleaning" <=> cleaning' # 0)
      /\ (cleaning' # 0 => cleaning' \in 2..4)
      /\ startupJob' = [startupJob EXCEPT !["messaging"] = IF cleaning' = 0 THEN "done" ELSE "cleaning"]
  BY <1>1, <1>2 DEF RuntimeTypeOK, Jobs
<1>6. faults' \in 0..MaxFaults
  BY <1>2 DEF Fault, RuntimeTypeOK
<1> HIDE DEF s, next
<1>7. RuntimeTypeOK'
  BY <1>1, <1>4, <1>5, <1>6, ResourcesAre, StagesAre DEF RuntimeTypeOK, Jobs
<1>8. CallsFit' /\ JobsFit'
  BY <1>1, <1>5 DEF CallsFit, JobsFit, Jobs, Callers, Active, Finished
<1>9. ResourcesFit'
  BY <1>1, <1>4 DEF ResourcesFit
<1>10. UpdatesFit' /\ LiveIsStored' /\ OthersAreKept'
  BY <1>1, UpdatesStay
<1>11. ClosedOwnsNothing' /\ CodexIsCurrent'
  BY <1>1, <1>4, <1>5 DEF ClosedOwnsNothing, CodexIsCurrent, Jobs, Active, Finished
<1> QED
  BY <1>4, <1>7, <1>8, <1>9, <1>10, <1>11

\* The shutdown passes a stage, or a stage fails.
LEMMA RuntimeRelease == ASSUME RuntimeInv, NEW c \in Callers, ReleaseStage(c) PROVE RuntimeInv'
<1> USE RuntimeAssumption DEF RuntimeInv, RuntimeSafety, lifecycleVars, jobVars, resourceVars,
        updateVars, fileVars, Goto
<1> DEFINE s == Stages[releasing]
<1>1. /\ hostCall[c] = "releasing" /\ releasing \in 1..9
      /\ UNCHANGED <<draining, httpReady, jobVars, updateVars, fileVars>>
      /\ config = c /\ lifecycle = c /\ draining
  BY StagesAre DEF ReleaseStage, CallsFit, RuntimeTypeOK
<1>2. /\ \A j \in Jobs : ~Active(j)
      /\ cleaning = 0
  BY <1>1 DEF JobsFit, Jobs, Active, Finished
<1>3. \/ /\ IF Applies(s) THEN ReleaseOne(s) ELSE UNCHANGED <<open, released>>
         /\ UNCHANGED faults
         /\ \/ /\ releasing < 9 /\ releasing' = releasing + 1
               /\ UNCHANGED <<hostCall, lifecycle, closed, config>>
            \/ /\ releasing = 9 /\ CloseReturns(c, TRUE)
      \/ /\ Fault /\ CloseReturns(c, FALSE) /\ UNCHANGED <<open, released>>
  <2>1. ~(releasing < 9) => releasing = 9
    BY <1>1
  <2> QED
    BY <2>1, StagesAre DEF ReleaseStage, StageFails
<1>4. s \in Resources
  BY <1>1, StagesAre, ResourcesAre
<1>5. /\ open' \subseteq open /\ released' \subseteq Resources
      /\ DependantsGoFirst' /\ ("ingress" \in open' => "delivery" \in open')
      /\ \A i \in 1..9 : i < releasing' => Stages[i] \notin open'
      /\ closed' => closed \/ open' = {}
  <2>0. released \subseteq Resources
    BY ResourcesAre DEF RuntimeTypeOK
  <2>1. CASE /\ IF Applies(s) THEN ReleaseOne(s) ELSE UNCHANGED <<open, released>>
             /\ \/ releasing < 9 /\ releasing' = releasing + 1 /\ UNCHANGED closed
                \/ releasing = 9 /\ CloseReturns(c, TRUE)
    <3>1. open' = open \ {s} /\ released' \subseteq released \cup {s}
      BY <1>4, <2>1, StagePassed
    <3>2. \A j \in 1..9 : j < releasing => Stages[j] \notin open
      BY DEF ResourcesFit
    <3>3. DependantsGoFirst' /\ ("ingress" \in open' => "delivery" \in open')
      BY <1>1, <3>1, <3>2, StagesInOrder
    <3>4. \A j \in 1..9 : j < releasing' => j < releasing \/ j = releasing
      BY <1>1, <2>1 DEF CloseReturns
    <3>5. releasing = 9 => open' = {}
      <4>1. open \subseteq {Stages[i] : i \in 1..9}
        BY StagesAre DEF RuntimeTypeOK
      <4>2. ASSUME releasing = 9, NEW x \in open PROVE x = s
        <5>1. PICK i \in 1..9 : x = Stages[i]
          BY <4>1
        <5>2. ~(i < 9)
          BY <3>2, <4>2, <5>1
        <5>3. i = 9
          BY <5>2
        <5> QED
          BY <4>2, <5>1, <5>3
      <4> QED
        BY <3>1, <4>2
    <3>6. closed' => closed \/ releasing = 9
      BY <2>1
    <3> QED
      BY <2>0, <1>4, <3>1, <3>2, <3>3, <3>4, <3>5, <3>6
  <2>2. CASE CloseReturns(c, FALSE) /\ UNCHANGED <<open, released>>
    BY <2>0, <2>2 DEF DependantsGoFirst, ResourcesFit, CloseReturns
  <2> QED
    BY <1>3, <2>1, <2>2
<1>6. /\ \/ /\ releasing' \in 1..9 /\ UNCHANGED <<hostCall, lifecycle, closed, config>>
         \/ /\ releasing' = 0 /\ hostCall' = [hostCall EXCEPT ![c] = "done"] /\ lifecycle' = "none"
            /\ config' = "none" /\ closed' \in BOOLEAN
      /\ faults' \in 0..MaxFaults
  <2>1. CASE releasing < 9 /\ releasing' = releasing + 1 /\ UNCHANGED <<hostCall, lifecycle, closed, config>>
             /\ UNCHANGED faults
    BY <1>1, <2>1 DEF RuntimeTypeOK
  <2>2. CASE CloseReturns(c, TRUE) /\ UNCHANGED faults
    BY <2>2 DEF CloseReturns, RuntimeTypeOK
  <2>3. CASE CloseReturns(c, FALSE) /\ Fault
    <3>1. faults \in 0..MaxFaults
      BY DEF RuntimeTypeOK
    <3>2. faults' \in 0..MaxFaults
      BY <2>3, <3>1 DEF Fault
    <3>3. closed' \in BOOLEAN
      BY <2>3, Zenon DEF CloseReturns
    <3> QED
      BY <2>3, <3>2, <3>3 DEF CloseReturns
  <2>4. \/ releasing < 9 /\ releasing' = releasing + 1 /\ UNCHANGED <<hostCall, lifecycle, closed, config>>
           /\ UNCHANGED faults
        \/ CloseReturns(c, TRUE) /\ UNCHANGED faults
        \/ CloseReturns(c, FALSE) /\ Fault
    <3> HIDE DEF s
    <3> QED
      BY <1>3
  <2> HIDE DEF s
  <2> QED
    BY <2>1, <2>2, <2>3, <2>4
<1> HIDE DEF s
<1>7. RuntimeTypeOK'
  BY <1>1, <1>5, <1>6, ResourcesAre, StagesAre DEF RuntimeTypeOK, Callers
<1>8. CallsFit'
  BY <1>1, <1>6 DEF CallsFit, Callers, RuntimeTypeOK
<1>9. JobsFit'
  BY <1>1, <1>2, <1>6 DEF JobsFit, CallsFit, Jobs, Callers, Active, Finished, RuntimeTypeOK
<1>10. ResourcesFit'
  BY <1>1, <1>2, <1>5 DEF ResourcesFit
<1>11. UpdatesFit' /\ LiveIsStored' /\ OthersAreKept'
  BY <1>1, <1>6, UpdatesStay DEF Callers
<1>12. ClosedOwnsNothing' /\ CodexIsCurrent'
  BY <1>1, <1>2, <1>5, <1>6 DEF ClosedOwnsNothing, CodexIsCurrent, Jobs, Callers, Active
<1> QED
  BY <1>5, <1>7, <1>8, <1>9, <1>10, <1>11, <1>12

-----------------------------------------------------------------------------
\* What the steps of an update keep the types of.
SettingsFit ==
    /\ config \in Updates \cup Callers \cup Jobs \cup {"none"}
    /\ update \in [Updates -> {"none", "lock", "preparing", "checking", "finalizing",
                               "persisting", "publishing", "signalling", "done"}]
    /\ cancelled \subseteq Updates
    /\ prepared \in [base : Settings, target : Settings] /\ elsewhere \in 0..MaxWrites
    /\ disk \in Settings /\ live \in Settings /\ accepted \in Settings
    /\ pendingFields \in BOOLEAN /\ restarting \in BOOLEAN /\ generation \in Nat
    /\ faults \in 0..MaxFaults

\* A step of an update moves the lock among the updates only, and no update
\* takes it once the shutdown has begun.
LEMMA UpdateSteps ==
    ASSUME RuntimeInv, UNCHANGED <<lifecycleVars, jobVars, releasing, open, released>>,
           SettingsFit', UpdatesFit', OthersAreKept',
           \/ config' = config
           \/ config \in Updates \cup {"none"} /\ config' \in Updates \cup {"none"},
           config' \in Updates => config \in Updates \/ ~draining,
           generation' = generation \/ config \in Updates
    PROVE  RuntimeInv'
<1> USE RuntimeAssumption DEF RuntimeInv, RuntimeSafety, lifecycleVars, jobVars
<1>1. RuntimeTypeOK'
  BY DEF RuntimeTypeOK, SettingsFit
<1>2. CallsFit' /\ JobsFit'
  BY DEF CallsFit, JobsFit, Callers, Jobs, Active
<1>3. ResourcesFit' /\ DependantsGoFirst'
  BY ResourcesStay
<1>4. LiveIsStored'
  BY DEF UpdatesFit, LiveIsStored, LiveFits, Holding
<1>5. ClosedOwnsNothing' /\ CodexIsCurrent'
  <2>1. startupJob["codex"] = "writing" => config \notin Updates
    BY DEF JobsFit, Jobs
  <2> QED
    BY <2>1 DEF ClosedOwnsNothing, CodexIsCurrent, CallsFit, Active
<1> QED
  BY <1>1, <1>2, <1>3, <1>4, <1>5

\* Settings as the model writes them.
LEMMA SettingsAre ==
    ASSUME RuntimeAssumption, NEW d \in Settings
    PROVE  /\ [d EXCEPT !.hot = ~@] \in Settings /\ [d EXCEPT !.cold = ~@] \in Settings
           /\ [d EXCEPT !.hot = ~@].other = d.other /\ [d EXCEPT !.cold = ~@].other = d.other
           /\ Initially \in Settings /\ NothingPrepared \in [base : Settings, target : Settings]
           /\ NothingPrepared.target.other = NothingPrepared.base.other
<1>1. (~d.hot) \in BOOLEAN /\ (~d.cold) \in BOOLEAN
  BY Zenon
<1>2. [d EXCEPT !.hot = ~@] \in Settings /\ [d EXCEPT !.hot = ~@].other = d.other
  BY <1>1 DEF Settings
<1>3. [d EXCEPT !.cold = ~@] \in Settings /\ [d EXCEPT !.cold = ~@].other = d.other
  BY <1>1 DEF Settings
<1>4. Initially \in Settings
  BY DEF Settings, Initially, RuntimeAssumption
<1>5. NothingPrepared \in [base : Settings, target : Settings]
      /\ NothingPrepared.target.other = NothingPrepared.base.other
  BY <1>4 DEF NothingPrepared
<1> QED
  BY <1>2, <1>3, <1>4, <1>5

\* What the invariant says of the update that holds the lock.
LEMMA OneHolds ==
    ASSUME RuntimeInv, NEW u \in Updates, update[u] \in Holding
    PROVE  /\ config = u
           /\ \A v \in Updates : v # u => update[v] \notin Holding
           /\ SettingsFit
  BY DEF RuntimeInv, RuntimeSafety, UpdatesFit, RuntimeTypeOK, SettingsFit

\* The end of an update whose outcome is settled.
LEMMA UpdateEnds ==
    ASSUME RuntimeInv, NEW u \in Updates, update[u] \in Holding, EndUpdate(u), LiveFits',
           UNCHANGED <<lifecycleVars, jobVars, releasing, open, released>>,
           elsewhere' \in 0..MaxWrites,
           disk' \in Settings /\ live' \in Settings /\ accepted' \in Settings,
           pendingFields' \in BOOLEAN /\ restarting' \in BOOLEAN /\ generation' \in Nat,
           faults' \in 0..MaxFaults, OthersAreKept'
    PROVE  RuntimeInv'
<1> USE RuntimeAssumption
<1>1. /\ config = u /\ SettingsFit
      /\ \A v \in Updates : v # u => update[v] \notin Holding
  BY OneHolds
<1>2. update' = [update EXCEPT ![u] = "done"] /\ config' = "none"
      /\ cancelled' = cancelled \ {u} /\ prepared' = NothingPrepared
  BY DEF EndUpdate, UpdateTo
<1>3. NothingPrepared \in [base : Settings, target : Settings]
      /\ NothingPrepared.target.other = NothingPrepared.base.other
  BY SettingsAre DEF RuntimeInv, RuntimeSafety, RuntimeTypeOK
<1>4. SettingsFit'
  BY <1>1, <1>2, <1>3 DEF SettingsFit
<1>5. \A v \in Updates : update'[v] \notin Holding
  BY <1>1, <1>2 DEF SettingsFit, Holding
<1>6. UpdatesFit'
  BY <1>2, <1>3, <1>5 DEF UpdatesFit, Holding
<1>7. config' \notin Updates
  BY <1>2
<1> QED
  BY <1>1, <1>2, <1>4, <1>6, <1>7, UpdateSteps

\* An update is asked for.
LEMMA RuntimeRequest == ASSUME RuntimeInv, NEW u \in Updates, RequestUpdate(u) PROVE RuntimeInv'
<1> USE RuntimeAssumption DEF RequestUpdate, lifecycleVars, jobVars, resourceVars, fileVars, NoUpdate, UpdateTo
<1>1. SettingsFit'
  BY DEF RuntimeInv, RuntimeSafety, RuntimeTypeOK, SettingsFit
<1>2. UpdatesFit' /\ OthersAreKept'
  BY DEF RuntimeInv, RuntimeSafety, RuntimeTypeOK, UpdatesFit, OthersAreKept, LiveFits, Holding
<1> QED
  BY <1>1, <1>2, UpdateSteps

\* It takes the configuration lock, or finds the runtime draining.
LEMMA RuntimeLockUpdate == ASSUME RuntimeInv, NEW u \in Updates, LockUpdate(u) PROVE RuntimeInv'
<1> USE RuntimeAssumption DEF LockUpdate, lifecycleVars, jobVars, resourceVars, fileVars, NoUpdate, UpdateTo
<1>1. SettingsFit'
  BY DEF RuntimeInv, RuntimeSafety, RuntimeTypeOK, SettingsFit
<1>2. UpdatesFit' /\ OthersAreKept'
  BY DEF RuntimeInv, RuntimeSafety, RuntimeTypeOK, UpdatesFit, OthersAreKept, LiveFits, Holding
<1>3. config' = config \/ (config = "none" /\ config' = u /\ ~draining)
  OBVIOUS
<1> QED
  BY <1>1, <1>2, <1>3, UpdateSteps

\* It is prepared on top of the file.
LEMMA RuntimePrepare == ASSUME RuntimeInv, NEW u \in Updates, Prepare(u) PROVE RuntimeInv'
<1> USE RuntimeAssumption DEF lifecycleVars, jobVars, resourceVars, fileVars, NoUpdate, UpdateTo
<1>1. /\ update[u] = "preparing" /\ update' = [update EXCEPT ![u] = "checking"]
      /\ UNCHANGED <<NoUpdate, config, cancelled, fileVars>>
  BY DEF Prepare
<1>2. config = u /\ SettingsFit /\ \A v \in Updates : v # u => update[v] \notin Holding
  BY <1>1, OneHolds DEF Holding
<1>3. PICK target \in {[disk EXCEPT !.hot = ~@], [disk EXCEPT !.cold = ~@]} :
          prepared' = [base |-> disk, target |-> target]
  BY DEF Prepare
<1>4. target \in Settings /\ target.other = disk.other /\ disk \in Settings
  <2>1. disk \in Settings
    BY <1>2 DEF SettingsFit
  <2>2. CASE target = [disk EXCEPT !.hot = ~@]
    BY <2>1, <2>2, SettingsAre
  <2>3. CASE target = [disk EXCEPT !.cold = ~@]
    BY <2>1, <2>3, SettingsAre
  <2> QED
    BY <1>3, <2>1, <2>2, <2>3
<1>5. prepared' \in [base : Settings, target : Settings]
      /\ prepared'.target.other = prepared'.base.other
  BY <1>3, <1>4
<1>6. SettingsFit'
  BY <1>1, <1>2, <1>5 DEF SettingsFit
<1>7. /\ update'[u] = "checking"
      /\ \A v \in Updates : v # u => update'[v] = update[v]
  BY <1>1, <1>2 DEF SettingsFit
<1>8. LiveFits'
  <2>1. \A v \in Updates : update[v] \notin {"publishing", "signalling"}
    BY <1>1, <1>2 DEF Holding
  <2> QED
    BY <1>1, <2>1 DEF RuntimeInv, UpdatesFit, LiveFits
<1>9. UpdatesFit'
  BY <1>1, <1>2, <1>5, <1>7, <1>8 DEF UpdatesFit, Holding
<1>10. OthersAreKept'
  BY <1>1 DEF RuntimeInv, RuntimeSafety, OthersAreKept
<1> QED
  BY <1>1, <1>6, <1>9, <1>10, UpdateSteps

\* While an update is only prepared, the running settings are accounted for.
LEMMA LiveIsSettled ==
    ASSUME RuntimeInv, NEW u \in Updates,
           update[u] \in {"preparing", "checking", "finalizing", "persisting"}
    PROVE  LiveFits
<1>1. \A v \in Updates : v # u => update[v] \notin Holding
  BY OneHolds DEF Holding
<1>2. \A v \in Updates : update[v] \notin {"publishing", "signalling"}
  BY <1>1 DEF Holding
<1> QED
  BY <1>2 DEF RuntimeInv, UpdatesFit

\* An update that gives up leaves the file and the running settings alone.
LEMMA UpdateGivesUp ==
    ASSUME RuntimeInv, NEW u \in Updates, EndUpdate(u),
           update[u] \in {"preparing", "checking", "finalizing", "persisting"},
           UNCHANGED <<lifecycleVars, jobVars, releasing, open, released, fileVars>>,
           faults' \in 0..MaxFaults
    PROVE  RuntimeInv'
<1> USE RuntimeAssumption DEF fileVars
<1>1. LiveFits'
  BY LiveIsSettled DEF LiveFits
<1>2. SettingsFit /\ update[u] \in Holding
  BY OneHolds DEF Holding
<1>3. OthersAreKept'
  BY DEF RuntimeInv, RuntimeSafety, OthersAreKept
<1>4. /\ elsewhere' \in 0..MaxWrites
      /\ disk' \in Settings /\ live' \in Settings /\ accepted' \in Settings
      /\ pendingFields' \in BOOLEAN /\ restarting' \in BOOLEAN /\ generation' \in Nat
  BY <1>2 DEF SettingsFit
<1> QED
  BY <1>1, <1>2, <1>3, <1>4, UpdateEnds

\* An update goes on to its next stage before the write.
LEMMA UpdateGoesOn ==
    ASSUME RuntimeInv, NEW u \in Updates, NEW at \in {"finalizing", "persisting"}, UpdateTo(u, at),
           update[u] \in {"preparing", "checking", "finalizing", "persisting"},
           UNCHANGED <<NoUpdate, fileVars, config, cancelled, prepared>>
    PROVE  RuntimeInv'
<1> USE RuntimeAssumption DEF lifecycleVars, jobVars, resourceVars, fileVars, NoUpdate, UpdateTo
<1>1. config = u /\ SettingsFit /\ \A v \in Updates : v # u => update[v] \notin Holding
  BY OneHolds DEF Holding
<1>2. SettingsFit'
  BY <1>1 DEF SettingsFit
<1>3. /\ update'[u] = at
      /\ \A v \in Updates : v # u => update'[v] = update[v]
  BY <1>1 DEF SettingsFit
<1>4. LiveFits'
  BY LiveIsSettled DEF LiveFits
<1>5. UpdatesFit'
  BY <1>1, <1>3, <1>4 DEF UpdatesFit, Holding, RuntimeInv
<1>6. OthersAreKept'
  BY DEF RuntimeInv, RuntimeSafety, OthersAreKept
<1> QED
  BY <1>2, <1>5, <1>6, UpdateSteps

\* The credentials are checked.
LEMMA RuntimeCheck == ASSUME RuntimeInv, NEW u \in Updates, Check(u) PROVE RuntimeInv'
<1>1. faults' \in 0..MaxFaults
  BY DEF Check, NoUpdate, resourceVars, RuntimeInv, RuntimeSafety, RuntimeTypeOK
<1>2. CASE EndUpdate(u)
  BY <1>1, <1>2, UpdateGivesUp DEF Check, NoUpdate, resourceVars
<1>3. CASE UpdateTo(u, "finalizing") /\ UNCHANGED <<config, cancelled, prepared>>
  BY <1>3, UpdateGoesOn DEF Check
<1> QED
  BY <1>2, <1>3 DEF Check

\* The update is finalized.
LEMMA RuntimeFinalize == ASSUME RuntimeInv, NEW u \in Updates, Finalize(u) PROVE RuntimeInv'
<1>1. faults' \in 0..MaxFaults
  BY DEF Finalize, NoUpdate, resourceVars, RuntimeInv, RuntimeSafety, RuntimeTypeOK
<1>2. CASE EndUpdate(u)
  BY <1>1, <1>2, UpdateGivesUp DEF Finalize, NoUpdate, resourceVars
<1>3. CASE UpdateTo(u, "persisting") /\ UNCHANGED <<config, cancelled, prepared>>
  BY <1>3, UpdateGoesOn DEF Finalize
<1> QED
  BY <1>2, <1>3 DEF Finalize

\* The file is written, unless it has changed.
LEMMA RuntimePersist == ASSUME RuntimeInv, NEW u \in Updates, Persist(u) PROVE RuntimeInv'
<1> USE RuntimeAssumption DEF lifecycleVars, jobVars, resourceVars, fileVars, NoUpdate
<1>1. /\ update[u] = "persisting"
      /\ UNCHANGED <<NoUpdate, live, elsewhere, pendingFields, restarting, generation>>
  BY DEF Persist
<1>2. config = u /\ SettingsFit /\ \A v \in Updates : v # u => update[v] \notin Holding
  BY <1>1, OneHolds DEF Holding
<1>3. CASE EndUpdate(u) /\ UNCHANGED <<disk, accepted>>
  <2>1. faults' \in 0..MaxFaults
    BY <1>1, <1>2 DEF SettingsFit
  <2> QED
    BY <1>1, <1>3, <2>1, UpdateGivesUp
<1>4. CASE /\ disk = prepared.base /\ disk' = prepared.target /\ accepted' = prepared.target
           /\ UpdateTo(u, IF NeedsRestart THEN "signalling" ELSE "publishing")
           /\ UNCHANGED <<config, cancelled, prepared>>
  <2>1. prepared.target \in Settings /\ prepared.target.other = disk.other
    BY <1>2, <1>4 DEF SettingsFit, RuntimeInv, UpdatesFit
  <2>2. OthersAreKept'
    BY <1>1, <1>4, <2>1 DEF OthersAreKept, RuntimeInv, RuntimeSafety
  <2>3. SettingsFit'
    BY <1>1, <1>2, <1>4, <2>1 DEF SettingsFit, UpdateTo
  <2>4. /\ update'[u] = IF NeedsRestart THEN "signalling" ELSE "publishing"
        /\ \A v \in Updates : v # u => update'[v] = update[v]
    BY <1>2, <1>4 DEF SettingsFit, UpdateTo
  <2>5. UpdatesFit'
    BY <1>1, <1>2, <1>4, <2>4 DEF UpdatesFit, Holding, RuntimeInv, NeedsRestart
  <2> QED
    BY <1>1, <1>4, <2>2, <2>3, <2>5, UpdateSteps
<1> QED
  BY <1>3, <1>4 DEF Persist, Unchanged

\* The write fails.
LEMMA RuntimePersistFails == ASSUME RuntimeInv, NEW u \in Updates, PersistFails(u) PROVE RuntimeInv'
<1>1. faults' \in 0..MaxFaults
  BY RuntimeAssumption DEF PersistFails, Fault, RuntimeInv, RuntimeSafety, RuntimeTypeOK, RuntimeAssumption
<1> QED
  BY <1>1, UpdateGivesUp DEF PersistFails

\* The new generation is published.
LEMMA RuntimePublish == ASSUME RuntimeInv, NEW u \in Updates, PublishUpdate(u) PROVE RuntimeInv'
<1> USE DEF lifecycleVars, jobVars, resourceVars, fileVars, NoUpdate
<1>1. /\ update[u] = "publishing" /\ EndUpdate(u)
      /\ live' = prepared.target /\ generation' = generation + 1 /\ pendingFields' = FALSE
      /\ UNCHANGED <<NoUpdate, disk, accepted, elsewhere, restarting>>
  BY DEF PublishUpdate
<1>2. SettingsFit /\ update[u] \in Holding
  BY <1>1, OneHolds DEF Holding
<1>3. LiveFits'
  BY <1>1 DEF LiveFits, RuntimeInv, UpdatesFit
<1>4. OthersAreKept'
  BY <1>1 DEF RuntimeInv, RuntimeSafety, OthersAreKept
<1>5. /\ elsewhere' \in 0..MaxWrites /\ faults' \in 0..MaxFaults
      /\ disk' \in Settings /\ live' \in Settings /\ accepted' \in Settings
      /\ pendingFields' \in BOOLEAN /\ restarting' \in BOOLEAN /\ generation' \in Nat
  <2>1. prepared.target \in Settings /\ generation + 1 \in Nat
    BY <1>2 DEF SettingsFit
  <2> QED
    BY <1>1, <1>2, <2>1 DEF SettingsFit
<1> QED
  BY <1>1, <1>2, <1>3, <1>4, <1>5, UpdateEnds

\* The supervisor is asked to restart.
LEMMA RuntimeSignal == ASSUME RuntimeInv, NEW u \in Updates, SignalRestart(u) PROVE RuntimeInv'
<1> USE DEF lifecycleVars, jobVars, resourceVars, fileVars, NoUpdate
<1>1. /\ update[u] = "signalling" /\ EndUpdate(u)
      /\ UNCHANGED <<NoUpdate, disk, accepted, elsewhere, live, generation>>
  BY DEF SignalRestart
<1>2. SettingsFit /\ update[u] \in Holding
  BY <1>1, OneHolds DEF Holding
<1>3. PICK signalled \in BOOLEAN : pendingFields' = ~signalled /\ restarting' = (restarting \/ signalled)
  BY DEF SignalRestart
<1>4. pendingFields' \in BOOLEAN /\ restarting' \in BOOLEAN /\ (pendingFields' \/ restarting')
  BY <1>3
<1>5. LiveFits'
  BY <1>1, <1>4 DEF LiveFits, RuntimeInv, UpdatesFit
<1>6. OthersAreKept'
  BY <1>1 DEF RuntimeInv, RuntimeSafety, OthersAreKept
<1>7. /\ elsewhere' \in 0..MaxWrites /\ faults' \in 0..MaxFaults
      /\ disk' \in Settings /\ live' \in Settings /\ accepted' \in Settings /\ generation' \in Nat
  BY <1>1, <1>2 DEF SettingsFit
<1> QED
  BY <1>1, <1>2, <1>4, <1>5, <1>6, <1>7, UpdateEnds

\* The caller of an update is cancelled.
LEMMA RuntimeCancel == ASSUME RuntimeInv, NEW u \in Updates, CancelUpdate(u) PROVE RuntimeInv'
<1> USE RuntimeAssumption DEF CancelUpdate, lifecycleVars, jobVars, resourceVars, fileVars, NoUpdate
<1>1. SettingsFit'
  BY DEF RuntimeInv, RuntimeSafety, RuntimeTypeOK, SettingsFit
<1>2. UpdatesFit' /\ OthersAreKept'
  BY DEF RuntimeInv, RuntimeSafety, UpdatesFit, OthersAreKept, LiveFits, Holding
<1> QED
  BY <1>1, <1>2, UpdateSteps

\* Cancelled before the write, the update gives up.
LEMMA RuntimeAbandon == ASSUME RuntimeInv, NEW u \in Updates, AbandonUpdate(u) PROVE RuntimeInv'
<1> USE RuntimeAssumption DEF AbandonUpdate, lifecycleVars, jobVars, resourceVars, fileVars, NoUpdate
<1>0. faults' \in 0..MaxFaults
  BY DEF RuntimeInv, RuntimeSafety, RuntimeTypeOK
<1>1. CASE update[u] \in {"preparing", "checking"}
  <2>1. config = u
    BY <1>1, OneHolds DEF Holding
  <2>2. EndUpdate(u)
    BY <2>1 DEF EndUpdate
  <2> QED
    BY <1>0, <1>1, <2>2, UpdateGivesUp
<1>2. CASE update[u] = "lock"
  <2>1. config # u /\ UNCHANGED <<config, prepared>>
    BY <1>2 DEF RuntimeInv, UpdatesFit, Holding
  <2>2. update' = [update EXCEPT ![u] = "done"] /\ cancelled' = cancelled \ {u}
    BY DEF UpdateTo
  <2>3. SettingsFit'
    BY <2>1, <2>2 DEF RuntimeInv, RuntimeSafety, RuntimeTypeOK, SettingsFit
  <2>4. UpdatesFit' /\ OthersAreKept'
    BY <1>2, <2>1, <2>2 DEF RuntimeInv, RuntimeSafety, RuntimeTypeOK, UpdatesFit, OthersAreKept, LiveFits, Holding
  <2> QED
    BY <2>1, <2>3, <2>4, UpdateSteps
<1> QED
  BY <1>1, <1>2

\* Another process writes the file.
LEMMA RuntimeWritesElsewhere == ASSUME RuntimeInv, WriteElsewhere PROVE RuntimeInv'
<1> USE RuntimeAssumption DEF WriteElsewhere, lifecycleVars, jobVars, resourceVars, updateVars, NoUpdate
<1>1. disk \in Settings /\ elsewhere \in 0..MaxWrites /\ elsewhere' \in 0..MaxWrites
  BY DEF RuntimeInv, RuntimeSafety, RuntimeTypeOK
<1>2. disk' \in Settings /\ disk'.other = elsewhere'
  BY <1>1 DEF Settings
<1>3. SettingsFit'
  BY <1>1, <1>2 DEF RuntimeInv, RuntimeSafety, RuntimeTypeOK, SettingsFit
<1>4. UpdatesFit' /\ OthersAreKept'
  BY <1>2 DEF RuntimeInv, UpdatesFit, OthersAreKept, LiveFits
<1> QED
  BY <1>3, <1>4, UpdateSteps

\* Every step of the runtime keeps the invariant.
LEMMA RuntimeStep == RuntimeInv /\ [RuntimeNext]_runtimeVars => RuntimeInv'
<1> SUFFICES ASSUME RuntimeInv, [RuntimeNext]_runtimeVars PROVE RuntimeInv'
  OBVIOUS
<1>1. CASE UNCHANGED runtimeVars
  <2>1. UNCHANGED <<lifecycleVars, jobVars, resourceVars, config, updateVars, fileVars>>
    BY <1>1 DEF runtimeVars
  <2> USE DEF lifecycleVars, jobVars, resourceVars, updateVars, fileVars
  <2>2. SettingsFit'
    BY <2>1 DEF RuntimeInv, RuntimeSafety, RuntimeTypeOK, SettingsFit
  <2>3. UpdatesFit' /\ OthersAreKept'
    BY <2>1, UpdatesStay DEF RuntimeInv, RuntimeSafety
  <2> QED
    BY <2>1, <2>2, <2>3, UpdateSteps
<1>2. CASE RuntimeNext
  <2>1. ASSUME NEW u \in Updates, UpdateWork(u) PROVE RuntimeInv'
    BY <2>1, RuntimeLockUpdate, RuntimePrepare, RuntimeCheck, RuntimeFinalize, RuntimePersist,
       RuntimePublish, RuntimeSignal, RuntimeAbandon DEF UpdateWork
  <2>2. ASSUME NEW u \in Updates, RequestUpdate(u) \/ PersistFails(u) \/ CancelUpdate(u) PROVE RuntimeInv'
    BY <2>2, RuntimeRequest, RuntimePersistFails, RuntimeCancel
  <2>3. ASSUME NEW c \in Callers, Gather(c) \/ EndGather(c) \/ ReleaseStage(c) PROVE RuntimeInv'
    BY <2>3, RuntimeGather, RuntimeEndGather, RuntimeRelease
  <2>4. CASE RuntimeWork
    BY <2>1, <2>3, <2>4, RuntimeStarted, RuntimeStartFails, RuntimeMessaging, RuntimeClean,
       RuntimeCode, RuntimeAsks, RuntimeRecognized, RuntimeCatalog, RuntimeLocks, RuntimeWritten,
       RuntimeJobEnds, RuntimeCallClose DEF RuntimeWork
  <2> QED
    BY <1>2, <2>2, <2>4, RuntimeStart, RuntimeHttp, RuntimeShutdown, RuntimeCallClose,
       RuntimeMessagingFails, RuntimeWritesElsewhere DEF RuntimeNext
<1> QED
  BY <1>1, <1>2

\* However starts fail, closes are repeated and updates are cancelled: what
\* something open still needs is not released, a closed runtime owns nothing,
\* and between updates the running providers use what was last written, or a
\* restart is due (runtime/application.py).
THEOREM RuntimeIsSafe == RuntimeSpec => []RuntimeSafety
<1>1. RuntimeInv => RuntimeSafety
  BY DEF RuntimeInv
<1> QED
  BY <1>1, RuntimeStarts, RuntimeStep, PTL DEF RuntimeSpec

-----------------------------------------------------------------------------
(* The parts together, as MCRequests composes them. *)

PartsInv == RequestInv /\ TransportInv /\ UsageInv /\ RuntimeInv

\* A step of one part leaves the others as they are.
LEMMA PartsStep == PartsInv /\ [HostNext /\ UNCHANGED part]_<<hostVars, part>> => PartsInv'
<1> SUFFICES ASSUME PartsInv, [HostNext /\ UNCHANGED part]_<<hostVars, part>> PROVE PartsInv'
  OBVIOUS
<1>1. /\ [RequestNext]_requestVars /\ [TransportNext]_transportVars
      /\ [UsageNext]_usageVars /\ [RuntimeNext]_runtimeVars
  BY DEF HostNext, hostVars
<1> QED
  BY <1>1, RequestStep, TransportStep, UsageStep, RuntimeStep DEF PartsInv

\* The inductive invariants hold together.
LEMMA PartsSafe == HostSteps => []PartsInv
<1>1. HostInit => PartsInv
  BY RequestStarts, TransportStarts, UsageStarts, RuntimeStarts DEF HostInit, HostStart, PartsInv
<1> QED
  BY <1>1, PartsStep, PTL DEF HostSteps

\* Whatever is flushed, closed, cancelled or fails on the way: usage records are
\* accounted for, resources are released after what needs them, and the running
\* settings are those of the managed file (application/usage, runtime/application.py).
THEOREM HostCorrectness == HostSpec => []HostSafety
<1>1. PartsInv => HostSafety
  BY DEF PartsInv, UsageInv, RuntimeInv, HostSafety
<1> QED
  BY <1>1, PartsSafe, PTL DEF HostSpec
=============================================================================
