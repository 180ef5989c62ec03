------------------------------ MODULE MCRequests ------------------------------
(***************************************************************************)
(* RequestPath, Transport, UsageStore and ApplicationRuntime for TLC: they *)
(* share no state, the behaviour of one is chosen at the start and the     *)
(* others stay in their initial states.  The runtime is checked twice:     *)
(* without configuration updates, and with updates but with messaging      *)
(* disabled.  MCSessions checks them.                                      *)
(***************************************************************************)
EXTENDS RequestPath, Transport, UsageStore, ApplicationRuntime, Parts

HostParts == {"request", "transport", "usage", "startup", "settings"}

HostStart ==
    /\ RequestInit /\ TransportInit /\ UsageInit /\ RuntimeInit
    /\ part # "transport" => protocol = [transport |-> "chat", wire |-> "messages", holdback |-> TRUE]
HostInit == part \in HostParts /\ HostStart

NoUpdates == UNCHANGED update
NoMessaging == startupJob'["messaging"] \in {"none", "loading", "stopping", "done"}

HostNext ==
    \/ part = "request" /\ RequestNext /\ UNCHANGED <<transportVars, usageVars, runtimeVars>>
    \/ part = "transport" /\ TransportNext /\ UNCHANGED <<requestVars, usageVars, runtimeVars>>
    \/ part = "usage" /\ UsageNext /\ UNCHANGED <<requestVars, transportVars, runtimeVars>>
    \/ part = "startup" /\ RuntimeNext /\ NoUpdates /\ UNCHANGED <<requestVars, transportVars, usageVars>>
    \/ part = "settings" /\ RuntimeNext /\ NoMessaging /\ UNCHANGED <<requestVars, transportVars, usageVars>>

hostVars == <<requestVars, transportVars, usageVars, runtimeVars>>
HostSteps == HostInit /\ [][HostNext /\ UNCHANGED part]_<<hostVars, part>>
\* Only the part that runs has work to do.
HostFairness ==
    /\ WF_requestVars(part = "request" /\ RequestWork)
    /\ WF_transportVars(part = "transport" /\ TransportWork)
    /\ WF_usageVars(part = "usage" /\ UsageWork)
    /\ WF_runtimeVars(part \in {"startup", "settings"} /\ RuntimeWork)
HostSpec == HostSteps /\ HostFairness

\* What the process owns and writes stays accounted for: usage records through
\* flushes and failures, resources through startups and shutdowns, the managed
\* file through updates.
HostSafety == UsageSafety /\ RuntimeSafety

\* No request or execution is under way, no usage record waits and nothing starts.
HostAtRest == NobodyHangs /\ NobodyRetries /\ NobodyBuffers /\ NobodyStarts
=============================================================================
