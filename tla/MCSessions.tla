------------------------------ MODULE MCSessions -------------------------------
(***************************************************************************)
(* Checks the sessions of Codex (CodeSessions, EventFeed, AppServer) and   *)
(* the process that serves them (MCRequests) in one run: they share no     *)
(* state, the behaviour of one is chosen at the start and the others stay  *)
(* in their initial states, in which there is nothing that fairness would  *)
(* ask for.  A behaviour of CodeSessions meets the adversities of one set  *)
(* of Adversities, and no others.                                          *)
(***************************************************************************)
EXTENDS CodeSessions, EventFeed, AppServer, MCRequests

VARIABLE adversities

Adversities ==
    {{"delete", "death"}, {"delete", "crash"}, {"asks", "death"}, {"death", "storage"},
     {"crash", "rename"}, {"stop"}, {"shutdown"}}

CodeStep ==
    \/ CodeWork \/ EventWork \/ CommandWork
    \/ \E s \in Senders, o \in Operations : (s = 1 \/ "rename" \in adversities) /\ CheckSend(s, o)
    \/ \E o \in Operations : TurnEnds(o)
    \/ \E kind \in adversities : Disturbed(kind)

SessionsInit ==
    /\ CodeInit /\ FeedInit /\ AppInit
    /\ part \in HostParts \cup {"code", "feed", "app"} /\ HostStart
    /\ IF part = "code" THEN adversities \in Adversities ELSE adversities = {}

SessionsNext ==
    \/ part = "code" /\ CodeStep /\ UNCHANGED <<feedVars, appVars, hostVars>>
    \/ part = "feed" /\ FeedNext /\ UNCHANGED <<codeVars, appVars, hostVars>>
    \/ part = "app" /\ AppNext /\ UNCHANGED <<codeVars, feedVars, hostVars>>
    \/ HostNext /\ UNCHANGED <<codeVars, feedVars, appVars>>

SessionsSpec ==
    /\ SessionsInit
    /\ [][SessionsNext /\ UNCHANGED <<part, adversities>>]_<<codeVars, feedVars, appVars, hostVars, part, adversities>>
    /\ WF_codeVars(part = "code" /\ CodeWork) /\ WF_codeVars(part = "code" /\ EventWork)
    /\ WF_codeVars(part = "code" /\ CommandWork)
    /\ WF_feedVars(part = "feed" /\ FeedWork) /\ WF_appVars(part = "app" /\ AppWork)
    /\ HostFairness

\* Whatever stops, fails or is deleted, the tasks of a session come to rest, those
\* around its process too, and observers read what was published; whatever the client,
\* the providers and the administrator do, requests and executions end, usage records
\* come to rest and the runtime is at rest.
EverythingRests == []<>(CodeAtRest /\ ObserversAreFed /\ AppAtRest /\ HostAtRest)
=============================================================================
