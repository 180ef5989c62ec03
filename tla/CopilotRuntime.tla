--------------------------- MODULE CopilotRuntime ---------------------------
(***************************************************************************)
(* The runtime of one Copilot broker (providers/github_copilot/sdk.py): a  *)
(* process of the official SDK, the sessions created in it, the records    *)
(* that these leave behind, and the shutdown that has to remove them.      *)
(*                                                                         *)
(* A call that fails may have taken effect: a creation whose answer is     *)
(* lost may still write its record as long as the process runs.            *)
(***************************************************************************)
EXTENDS Integers, FiniteSets

CONSTANTS
    Ids,        \* session ids
    MaxLosses   \* bound: calls of the SDK that fail

ASSUME SdkAssumption == MaxLosses \in Nat

VARIABLES
    sdkClient,    \* whether _client is set
    sdkProcess,   \* the process: "down", "up"
    opened,       \* _sessions
    unknown,      \* _pending_session_ids
    asking,       \* sessions whose creation awaits its answer
    late,         \* creations whose answer is lost and whose record may yet be written
    detached,     \* sessions that are _disconnected
    records,      \* the records of sessions
    stopped,      \* _stopped
    refusing,     \* _closing
    ending,       \* the close task: where it is, what is left to it
    recordsOnly,  \* records_only
    losses,       \* number of failed calls
    lossy         \* history: a call has failed since close was last called

sessionVars == <<opened, unknown, asking, late, detached, records>>
sdkVars == <<sdkClient, sdkProcess, sessionVars, stopped, refusing, ending, recordsOnly, losses, lossy>>

NotEnding == [at |-> "none", left |-> {}]

SdkTypeOK ==
    /\ sdkClient \in BOOLEAN /\ sdkProcess \in {"down", "up"}
    /\ opened \subseteq Ids /\ unknown \subseteq Ids /\ asking \subseteq unknown
    /\ late \subseteq Ids /\ detached \subseteq Ids /\ records \subseteq Ids
    /\ stopped \in BOOLEAN /\ refusing \in BOOLEAN /\ recordsOnly \in BOOLEAN
    /\ ending \in [at : {"none", "begin", "sessions", "unknown", "stop", "quit", "after"},
                   left : SUBSET Ids]
    /\ losses \in 0..MaxLosses /\ lossy \in BOOLEAN

SdkInit ==
    /\ sdkClient = FALSE /\ sdkProcess = "down"
    /\ opened = {} /\ unknown = {} /\ asking = {} /\ late = {} /\ detached = {} /\ records = {}
    /\ stopped = FALSE /\ refusing = FALSE /\ ending = NotEnding
    /\ recordsOnly = FALSE /\ losses = 0 /\ lossy = FALSE

Loss == losses < MaxLosses /\ losses' = losses + 1 /\ lossy' = TRUE
EndingTo(at) == ending' = [ending EXCEPT !.at = at]

-----------------------------------------------------------------------------
(* Start and sessions. *)

\* start; a start that fails closes the client before it raises.
StartSdk ==
    /\ ~refusing /\ ~sdkClient /\ ending = NotEnding
    /\ sdkClient' = TRUE
    /\ \/ /\ sdkProcess' = "up"
          /\ UNCHANGED <<refusing, ending, losses, lossy>>
       \/ /\ Loss /\ sdkProcess' \in {"down", "up"}
          /\ refusing' = TRUE /\ EndingTo("begin")
    /\ UNCHANGED <<sessionVars, stopped, recordsOnly>>

\* session: the id is remembered before the call.
CreateSession(i) ==
    /\ sdkClient /\ ~refusing /\ i \notin opened \cup unknown \cup records
    /\ unknown' = unknown \cup {i} /\ asking' = asking \cup {i}
    /\ UNCHANGED <<sdkClient, sdkProcess, opened, late, detached, records, stopped, refusing,
                   ending, recordsOnly, losses, lossy>>

\* A session may have a record or not.
SessionAnswers(i) ==
    /\ i \in asking /\ asking' = asking \ {i}
    /\ \/ /\ opened' = opened \cup {i} /\ unknown' = unknown \ {i}
          /\ records' \in {records, records \cup {i}}
          /\ UNCHANGED <<late, losses, lossy>>
       \/ /\ Loss
          /\ late' = late \cup {i} /\ UNCHANGED <<opened, unknown, records>>
    /\ UNCHANGED <<sdkClient, sdkProcess, detached, stopped, refusing, ending, recordsOnly>>

LateRecord(i) ==
    /\ i \in late /\ sdkProcess = "up"
    /\ late' = late \ {i} /\ records' = records \cup {i}
    /\ UNCHANGED <<sdkClient, sdkProcess, opened, unknown, asking, detached, stopped, refusing,
                   ending, recordsOnly, losses, lossy>>

-----------------------------------------------------------------------------
(* Close. *)

\* close, which may be called again after it has failed; the broker has waited
\* for the creation of sessions.
AskEnd ==
    /\ ending = NotEnding /\ asking = {} /\ (sdkClient \/ ~refusing)
    /\ refusing' = TRUE /\ lossy' = FALSE
    /\ IF sdkClient THEN EndingTo("begin") ELSE UNCHANGED ending
    /\ UNCHANGED <<sdkClient, sdkProcess, sessionVars, stopped, recordsOnly, losses>>

\* _close_client: a client that was stopped is started once more, to remove records.
BeginEnd ==
    /\ ending.at = "begin"
    /\ recordsOnly' = stopped /\ stopped' = FALSE
    /\ \/ /\ sdkProcess' = IF stopped THEN "up" ELSE sdkProcess
          /\ ending' = [at |-> "sessions", left |-> opened]
          /\ UNCHANGED <<losses, lossy>>
       \/ /\ stopped /\ Loss
          /\ sdkProcess' \in {"down", "up"} /\ ending' = [at |-> "quit", left |-> {}]
    /\ UNCHANGED <<sdkClient, sessionVars, refusing>>

\* _delete_session_record: the deletion fails for a record that does not exist,
\* which a lookup has to confirm.
Deleted(i) == i \in records /\ records' = records \ {i} /\ UNCHANGED <<losses, lossy>>
FoundAbsent(i) == i \notin records /\ UNCHANGED <<records, losses, lossy>>
NotDeleted == Loss /\ UNCHANGED records

\* SdkSession.close: absence is believed only of a session that is detached, by its
\* own call or because its process has been stopped.
CloseSession(i) ==
    /\ ending.at = "sessions" /\ i \in ending.left
    /\ ending' = [ending EXCEPT !.left = @ \ {i}]
    /\ LET detachedNow == i \in detached \/ recordsOnly IN
       \/ /\ detached' = detached \cup {i}
          /\ \/ (Deleted(i) \/ FoundAbsent(i)) /\ opened' = opened \ {i}
             \/ NotDeleted /\ UNCHANGED opened
       \/ /\ ~detachedNow /\ Loss /\ UNCHANGED detached
          /\ \/ i \in records /\ records' = records \ {i} /\ opened' = opened \ {i}
             \/ UNCHANGED <<records, opened>>
    /\ UNCHANGED <<sdkClient, sdkProcess, unknown, asking, late, stopped, refusing, recordsOnly>>

\* Unknown creations are cleaned up only when the process that could still write
\* their records has been stopped.
WriterIsGone == recordsOnly

SessionsClosed ==
    /\ ending.at = "sessions" /\ ending.left = {}
    /\ ending' = IF WriterIsGone THEN [at |-> "unknown", left |-> unknown] ELSE [at |-> "stop", left |-> {}]
    /\ UNCHANGED <<sdkClient, sdkProcess, sessionVars, stopped, refusing, recordsOnly, losses,
                   lossy>>

CleanUnknown(i) ==
    /\ ending.at = "unknown" /\ i \in ending.left
    /\ ending' = [ending EXCEPT !.left = @ \ {i}]
    /\ \/ (Deleted(i) \/ FoundAbsent(i)) /\ unknown' = unknown \ {i}
       \/ NotDeleted /\ UNCHANGED unknown
    /\ UNCHANGED <<sdkClient, sdkProcess, opened, asking, late, detached, stopped, refusing,
                   recordsOnly>>

UnknownCleaned ==
    /\ ending = [at |-> "unknown", left |-> {}]
    /\ EndingTo("stop")
    /\ UNCHANGED <<sdkClient, sdkProcess, sessionVars, stopped, refusing, recordsOnly, losses,
                   lossy>>

\* The process is stopped, in order or by force, or close fails; "quit" follows a
\* reconnection that failed and fails in any case.
StopProcess ==
    /\ ending.at \in {"stop", "quit"}
    /\ \/ /\ sdkProcess' = "down" /\ late' = {} /\ stopped' = TRUE
          /\ ending' = IF ending.at = "quit" THEN NotEnding ELSE [at |-> "after", left |-> {}]
          /\ UNCHANGED <<losses, lossy>>
       \/ /\ Loss /\ ending' = NotEnding /\ UNCHANGED <<sdkProcess, late, stopped>>
    /\ UNCHANGED <<sdkClient, opened, unknown, asking, detached, records, refusing, recordsOnly>>

\* Once more for unknown records; then the client is forgotten, or close fails.
AfterStop ==
    /\ ending.at = "after"
    /\ IF unknown # {} /\ ~recordsOnly THEN EndingTo("begin") /\ UNCHANGED sdkClient
       ELSE ending' = NotEnding /\ sdkClient' = (opened \cup unknown # {})
    /\ UNCHANGED <<sdkProcess, sessionVars, stopped, refusing, recordsOnly, losses, lossy>>

-----------------------------------------------------------------------------
SdkWork ==
    \/ BeginEnd \/ SessionsClosed \/ UnknownCleaned \/ StopProcess \/ AfterStop
    \/ \E i \in Ids : SessionAnswers(i) \/ CloseSession(i) \/ CleanUnknown(i)

SdkNext ==
    \/ SdkWork \/ StartSdk \/ AskEnd
    \/ \E i \in Ids : CreateSession(i) \/ LateRecord(i)

\* Every call of the SDK has a timeout.
SdkFairness == WF_sdkVars(SdkWork)

-----------------------------------------------------------------------------
(* Properties. *)

\* Every record, one that is written late included, is known to the runtime.
RecordsAreKnown == records \cup late \subseteq opened \cup unknown

\* A runtime that has forgotten its client has left no process and no record.
ForgottenIsClean == refusing /\ ~sdkClient => sdkProcess = "down" /\ records = {} /\ late = {}

\* "Retry disconnect to finish cleanup": a close in which no call fails finishes,
\* whatever was left by earlier ones.
RetryFinishes == ending = NotEnding /\ refusing /\ sdkClient => lossy

SdkSafety == SdkTypeOK /\ RecordsAreKnown /\ ForgottenIsClean /\ RetryFinishes

NobodyEnds == ending = NotEnding /\ asking = {}
=============================================================================
