------------------------------ MODULE MCAccounts -------------------------------
(***************************************************************************)
(* SessionFile, OpenAIAccount, CopilotAccount, CopilotRuntime and          *)
(* ServerSupervisor for TLC: they share no state, the behaviour of one is  *)
(* chosen at the start and the others stay in their initial states.        *)
(* MCEdges checks them.                                                    *)
(* In the part "logins" nothing is upset and no credentials age, in the    *)
(* part "upsets" nobody signs in any more.                                 *)
(***************************************************************************)
EXTENDS SessionFile, OpenAIAccount, CopilotAccount, CopilotRuntime, ServerSupervisor, Parts

allVars == <<vars, accountVars, copilotVars, sdkVars, supervisorVars>>

AccountsParts == {"file", "logins", "upsets", "copilot", "sdk", "supervisor"}

AccountsStart ==
    /\ Init /\ AccountInit /\ CopilotInit /\ SdkInit /\ SupervisorInit
    /\ part \notin {"logins", "upsets"} => authFile = 0
    /\ part # "copilot" => ~account.enabled /\ ~signedIn
AccountsInit == part \in AccountsParts /\ AccountsStart

AccountsNext ==
    \/ part = "file" /\ Next /\ UNCHANGED <<accountVars, copilotVars, sdkVars, supervisorVars>>
    \/ /\ part \in {"logins", "upsets"} /\ AccountNext
       /\ IF part = "logins" THEN UNCHANGED <<upsets, transients, ageing>> ELSE logins' = logins
       /\ UNCHANGED <<vars, copilotVars, sdkVars, supervisorVars>>
    \/ part = "copilot" /\ CopilotNext /\ UNCHANGED <<vars, accountVars, sdkVars, supervisorVars>>
    \/ part = "sdk" /\ SdkNext /\ UNCHANGED <<vars, accountVars, copilotVars, supervisorVars>>
    \/ part = "supervisor" /\ SupervisorNext /\ UNCHANGED <<vars, accountVars, copilotVars, sdkVars>>

AccountsSafe == AccountsInit /\ [][AccountsNext /\ UNCHANGED part]_<<allVars, part>>
\* Only the part that runs has work to do.
AccountsFairness ==
    /\ WF_vars(part = "file" /\ Schedule) /\ WF_vars(part = "file" /\ Invalidate)
    /\ WF_vars(part = "file" /\ ClaimForFlush)
    /\ \A t \in Threads :
          WF_vars(part = "file" /\ Fire(t)) /\ WF_vars(part = "file" /\ Write(t))
    /\ \A m \in Managers : WF_accountVars(part \in {"logins", "upsets"} /\ AccountWork(m))
    /\ WF_copilotVars(part = "copilot" /\ CopilotWork)
    /\ WF_sdkVars(part = "sdk" /\ SdkWork)
    /\ WF_supervisorVars(part = "supervisor" /\ SupervisorWork)
AccountsSpec == AccountsSafe /\ AccountsFairness

\* The credentials in use are never given away or left behind, whatever is cancelled
\* or fails, and neither is a process that runs on their behalf.
AccountsSafety == TypeOK /\ AccountSafety /\ CopilotSafety /\ SdkSafety /\ SupervisorSafety

\* The state is in the file, unless a write failed; no login, request, administration
\* or shutdown is under way; the server serves or has ended.
AccountsAtRest == StateIsSaved /\ NobodySignsIn /\ NobodyConnects /\ NobodyEnds /\ NobodyStops
================================================================================
