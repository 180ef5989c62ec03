------------------------------ MODULE VoiceNotes ------------------------------
(***************************************************************************)
(* Voice notes: VoiceNoteFlow (messaging/platforms/voice_flow.py) over     *)
(* PendingVoiceRegistry (messaging/voice.py).  A flow is one call of       *)
(* handle: it reserves its voice message, sends and binds a status         *)
(* message, downloads and transcribes, and hands the text to the message   *)
(* handler in a task of its own.  A voice message may be delivered again,  *)
(* to another flow.  Commands cancel pending notes; a transcribed command  *)
(* does so from inside a handoff.  The registry's lock is never held over  *)
(* an await, so each of its critical sections is part of a step.           *)
(***************************************************************************)
EXTENDS Integers, FiniteSets

CONSTANTS
    Flows,      \* calls of handle
    Voices,     \* voice messages
    Commands,   \* cancellations from outside any handoff
    NoFlow

ASSUME VoiceAssumption == NoFlow \notin Flows /\ Flows \cap Commands = {} /\ Voices # {}

VARIABLES
    stage,      \* what each flow awaits
    voice,      \* its voice message
    owner,      \* _pending: the flow whose claim holds a voice message
    bound,      \* status_bound
    status,     \* the status message of each flow
    handedOff,  \* handed_off
    handoff,    \* the handoff task
    asked,      \* the handoff task is cancelled
    failure,    \* how the handoff task ended
    cut,        \* the flow itself is cancelled, by a platform that stops
    cancellations, \* cancel, cancel_all and cancel_scope in progress, by who runs them
    taken,      \* the entries such a cancellation has removed
    released    \* flows whose status message a cancellation has taken over

voiceVars == <<stage, voice, owner, bound, status, handedOff, handoff, asked,
               failure, cut, cancellations, taken, released>>

Cancellers == Flows \cup Commands
Alive == {"created", "running", "commanding", "draining"}

VoiceTypeOK ==
    /\ stage \in [Flows -> {"unused", "sending", "working", "handing", "unwinding",
                            "finishing", "cleaning", "ended"}]
    /\ voice \in [Flows -> Voices] /\ owner \in [Voices -> Flows \cup {NoFlow}]
    /\ \A v \in Voices : owner[v] # NoFlow => voice[owner[v]] = v
    /\ bound \in [Flows -> BOOLEAN] /\ handedOff \in [Flows -> BOOLEAN]
    /\ status \in [Flows -> {"none", "shown", "deleted"}]
    /\ handoff \in [Flows -> Alive \cup {"none", "ended"}]
    /\ asked \in [Flows -> BOOLEAN] /\ cut \in [Flows -> BOOLEAN]
    /\ failure \in [Flows -> {"none", "error", "cancelled"}]
    /\ cancellations \in [Cancellers -> {"unused", "draining", "returned"}]
    /\ \A f \in Flows : cancellations[f] = "draining" <=> handoff[f] = "draining"
    /\ taken \in [Cancellers -> SUBSET Flows] /\ released \subseteq Flows

VoiceInit ==
    /\ stage = [f \in Flows |-> "unused"]
    /\ voice = [f \in Flows |-> CHOOSE v \in Voices : TRUE]
    /\ owner = [v \in Voices |-> NoFlow]
    /\ bound = [f \in Flows |-> FALSE] /\ handedOff = [f \in Flows |-> FALSE]
    /\ status = [f \in Flows |-> "none"]
    /\ handoff = [f \in Flows |-> "none"]
    /\ asked = [f \in Flows |-> FALSE] /\ cut = [f \in Flows |-> FALSE]
    /\ failure = [f \in Flows |-> "none"]
    /\ cancellations = [x \in Cancellers |-> "unused"]
    /\ taken = [x \in Cancellers |-> {}] /\ released = {}

Owns(f) == owner[voice[f]] = f
Step(f, to) == stage' = [stage EXCEPT ![f] = to]

-----------------------------------------------------------------------------
(* The flow. *)

Reservable(v) == owner[v] = NoFlow

\* handle begins; a message that is pending already is left to its flow.
Receive(f, v) ==
    /\ stage[f] = "unused"
    /\ voice' = [voice EXCEPT ![f] = v]
    /\ IF Reservable(v)
       THEN owner' = [owner EXCEPT ![v] = f] /\ Step(f, "sending")
       ELSE UNCHANGED owner /\ Step(f, "ended")
    /\ UNCHANGED <<bound, status, handedOff, handoff, asked, failure, cut,
                   cancellations, taken, released>>

\* The status message is delivered and bound, unless the note has been cancelled.
StatusSent(f) ==
    /\ stage[f] = "sending"
    /\ status' = [status EXCEPT ![f] = "shown"]
    /\ bound' = [bound EXCEPT ![f] = Owns(f)]
    /\ Step(f, IF Owns(f) THEN "working" ELSE "cleaning")
    /\ UNCHANGED <<voice, owner, handedOff, handoff, asked, failure, cut,
                   cancellations, taken, released>>

\* Sending, downloading or transcribing raises.
StageFails(f) ==
    /\ stage[f] \in {"sending", "working"}
    /\ Step(f, "cleaning")
    /\ UNCHANGED <<voice, owner, bound, status, handedOff, handoff, asked, failure, cut,
                   cancellations, taken, released>>

\* Mutant: a transcribed note is handed off without looking at its claim.
PublishableAlways(f) == TRUE

Publishable(f) == Owns(f)

\* The note is transcribed: handoff publishes its task, or is rejected.
Transcribed(f) ==
    /\ stage[f] = "working"
    /\ IF Publishable(f)
       THEN handoff' = [handoff EXCEPT ![f] = "created"] /\ Step(f, "handing")
       ELSE UNCHANGED handoff /\ Step(f, "cleaning")
    /\ UNCHANGED <<voice, owner, bound, status, handedOff, asked, failure, cut,
                   cancellations, taken, released>>

\* The handoff task is over; _finish_ownership starts a task of its own.
HandoffOver(f) ==
    /\ stage[f] \in {"handing", "unwinding"} /\ handoff[f] = "ended"
    /\ Step(f, "finishing")
    /\ UNCHANGED <<voice, owner, bound, status, handedOff, handoff, asked, failure, cut,
                   cancellations, taken, released>>

\* _complete_if_owned, and how handoff goes on: it returns, or raises the flow's
\* own cancellation or the handler's error when the note was still its own.
FinishOwnership(f) ==
    /\ stage[f] = "finishing"
    /\ owner' = [owner EXCEPT ![voice[f]] = IF @ = f THEN NoFlow ELSE @]
    /\ Step(f, IF cut[f] \/ (Owns(f) /\ failure[f] # "none") THEN "cleaning" ELSE "ended")
    /\ UNCHANGED <<voice, bound, status, handedOff, handoff, asked, failure, cut,
                   cancellations, taken, released>>

\* A platform that stops cancels the flow at whatever it awaits.
CutFlow(f) ==
    /\ stage[f] \in {"sending", "working", "handing", "finishing"} /\ ~cut[f]
    /\ cut' = [cut EXCEPT ![f] = TRUE]
    /\ CASE stage[f] \in {"sending", "working"} -> Step(f, "cleaning") /\ UNCHANGED asked
         [] stage[f] = "handing" ->
              Step(f, "unwinding") /\ asked' = [asked EXCEPT ![f] = handoff[f] # "ended"]
         [] OTHER -> UNCHANGED <<stage, asked>>
    /\ UNCHANGED <<voice, owner, bound, status, handedOff, handoff, failure,
                   cancellations, taken, released>>

DeletesStatus(f) == ~handedOff[f] /\ status[f] = "shown" /\ (Owns(f) \/ ~bound[f])

\* _clear_failed_pending_voice, in a task that the flow's cancellation awaits.
ClearFailed(f) ==
    /\ stage[f] = "cleaning"
    /\ owner' = [owner EXCEPT ![voice[f]] = IF @ = f THEN NoFlow ELSE @]
    /\ status' = [status EXCEPT ![f] = IF DeletesStatus(f) THEN "deleted" ELSE @]
    /\ Step(f, "ended")
    /\ UNCHANGED <<voice, bound, handedOff, handoff, asked, failure, cut,
                   cancellations, taken, released>>

-----------------------------------------------------------------------------
(* The handoff task: message_handler admits a turn or runs a command. *)

StartHandoff(f) ==
    /\ handoff[f] = "created"
    /\ handoff' = [handoff EXCEPT ![f] = IF asked[f] THEN "ended" ELSE "running"]
    /\ handedOff' = [handedOff EXCEPT ![f] = ~asked[f]]
    /\ failure' = [failure EXCEPT ![f] = IF asked[f] THEN "cancelled" ELSE @]
    /\ UNCHANGED <<stage, voice, owner, bound, status, asked, cut, cancellations, taken, released>>

\* A cancelled handler may have returned or failed already.
EndHandoff(f, how) ==
    /\ handoff[f] = "running" /\ (how = "cancelled" => asked[f])
    /\ handoff' = [handoff EXCEPT ![f] = "ended"]
    /\ failure' = [failure EXCEPT ![f] = how]
    /\ UNCHANGED <<stage, voice, owner, bound, status, handedOff, asked, cut,
                   cancellations, taken, released>>

-----------------------------------------------------------------------------
(* Cancellation. *)

\* Mutant: a note that is itself cancelling others is not spared.
ExcludedSelf(f, x) == f = x

\* _is_excluded: the canceller's own note, and notes whose handoff is cancelling
\* others (_active_cancellations), which would wait for each other.
Excluded(f, x) == f = x \/ cancellations[f] = "draining"

\* The transcribed text is a command: the workflow runs it in a task of its own,
\* which starts later and which a cancellation of the handler does not stop.
BeginCommand(f) ==
    /\ handoff[f] = "running" /\ ~asked[f] /\ cancellations[f] = "unused"
    /\ handoff' = [handoff EXCEPT ![f] = "commanding"]
    /\ UNCHANGED <<stage, voice, owner, bound, status, handedOff, asked, failure, cut,
                   cancellations, taken, released>>

MayCancel(x) ==
    /\ cancellations[x] = "unused"
    /\ x \in Flows => handoff[x] = "commanding"

\* cancel, cancel_all, cancel_scope: the notes lose their claims, their handoffs
\* are cancelled and awaited.
CancelNotes(x, notes) ==
    LET tasks == {f \in notes : handoff[f] \in Alive} IN
    /\ MayCancel(x)
    /\ \A f \in notes : Owns(f) /\ ~Excluded(f, x)
    /\ owner' = [v \in Voices |-> IF owner[v] \in notes THEN NoFlow ELSE owner[v]]
    /\ asked' = [f \in Flows |-> asked[f] \/ f \in tasks]
    /\ taken' = [taken EXCEPT ![x] = notes]
    /\ released' = released \cup {f \in notes : bound[f]}
    /\ cancellations' = [cancellations EXCEPT ![x] = IF tasks = {} THEN "returned" ELSE "draining"]
    /\ handoff' = [f \in Flows |-> IF f # x THEN handoff[f]
                                   ELSE IF tasks = {} THEN "running" ELSE "draining"]
    /\ UNCHANGED <<stage, voice, bound, status, handedOff, failure, cut>>

CancelOne(x, f) == CancelNotes(x, {f})
CancelAll(x) == CancelNotes(x, {f \in Flows : Owns(f) /\ ~Excluded(f, x)})

Drained(x) == \A f \in taken[x] : handoff[f] \notin Alive

\* The cancelled handoffs have ended; a cancellation of the canceller waits for it.
EndCancellation(x) ==
    /\ cancellations[x] = "draining" /\ Drained(x)
    /\ cancellations' = [cancellations EXCEPT ![x] = "returned"]
    /\ handoff' = [f \in Flows |-> IF f = x THEN "running" ELSE handoff[f]]
    /\ UNCHANGED <<stage, voice, owner, bound, status, handedOff, asked, failure, cut,
                   taken, released>>

-----------------------------------------------------------------------------
FlowStep(f) ==
    \/ StatusSent(f) \/ StageFails(f) \/ Transcribed(f)
    \/ HandoffOver(f) \/ FinishOwnership(f) \/ ClearFailed(f)

HandoffStep(f) ==
    \/ StartHandoff(f) \/ CancelAll(f)
    \/ \E how \in {"none", "error", "cancelled"} : EndHandoff(f, how)

VoiceWork ==
    \/ \E f \in Flows : FlowStep(f) \/ HandoffStep(f)
    \/ \E x \in Cancellers : EndCancellation(x)

VoiceNext ==
    \/ VoiceWork
    \/ \E f \in Flows, v \in Voices : Receive(f, v)
    \/ \E f \in Flows : CutFlow(f) \/ BeginCommand(f)
    \/ \E x \in Cancellers, f \in Flows : CancelOne(x, f)
    \/ \E x \in Commands : CancelAll(x)

VoiceSpec == VoiceInit /\ [][VoiceNext]_voiceVars

\* Platform calls, transcriptions and message handlers end, and tasks are run; no
\* flow goes on for ever.
VoiceFairness == WF_voiceVars(VoiceWork)

-----------------------------------------------------------------------------
(* Properties. *)

\* When a cancellation has returned, no handler of the notes it reports as
\* cancelled is running, and none starts later: a /stop that answered is final.
CancelledNoteIsQuiet ==
    \A x \in Cancellers : cancellations[x] = "returned" =>
        \A f \in taken[x] : handoff[f] \notin Alive

\* A status message that is still shown when its flow has ended belongs to
\* somebody: the turn it was handed to, the command that cancelled the note, or
\* nobody when the platform was stopping.
StatusHasOwner ==
    \A f \in Flows : stage[f] = "ended" /\ status[f] = "shown" =>
        handedOff[f] \/ f \in released \/ cut[f]

\* A flow that has ended has left the registry: the message can be sent again.
NoClaimLeft == \A f \in Flows : stage[f] = "ended" => ~Owns(f)

\* A voice message that is delivered twice is handled by one handler at a time,
\* unless the first one has been cancelled.
OneHandlerPerNote ==
    \A f, g \in Flows : f # g /\ voice[f] = voice[g] =>
        ~(handoff[f] \in Alive /\ handoff[g] \in Alive) \/ asked[f] \/ asked[g]

\* The invariant of voice notes: whatever is delivered twice, fails or is cancelled
\* in whatever order, no handler runs that should not, and nothing is left behind.
VoiceSafety ==
    VoiceTypeOK /\ CancelledNoteIsQuiet /\ OneHandlerPerNote /\ StatusHasOwner /\ NoClaimLeft

\* A cancellation ends, even if the handoffs of two notes cancel each other, and so
\* does a flow.
NobodyDrains ==
    /\ \A x \in Cancellers : cancellations[x] # "draining"
    /\ \A f \in Flows : stage[f] \in {"unused", "ended"}
=============================================================================
