------------------------------- MODULE MCEdges --------------------------------
(***************************************************************************)
(* Checks the edges of the process in one run: the voice notes of its chat *)
(* platforms (VoiceNotes), the CLI processes of its managed sessions       *)
(* (ManagedCli), its accounts, its session file and its server             *)
(* (MCAccounts).  They share no state, the behaviour of one is chosen at   *)
(* the start and the others stay in their initial states, in which there   *)
(* is nothing that fairness would ask for.                                 *)
(***************************************************************************)
EXTENDS VoiceNotes, ManagedCli, MCAccounts

CONSTANTS f1, f2, v1

\* The first voice note is v1, and f1's: nothing else tells them from the others.
FirstIsFirst ==
    stage[f1] = "unused" => stage'[f2] = "unused" /\ (stage'[f1] # "unused" => voice'[f1] = v1)

EdgesInit ==
    part \in {"voice", "managed"} \cup AccountsParts /\ VoiceInit /\ ManagedInit /\ AccountsStart

EdgesNext ==
    \/ part = "voice" /\ VoiceNext /\ FirstIsFirst /\ UNCHANGED <<managedVars, allVars>>
    \/ part = "managed" /\ ManagedNext /\ UNCHANGED <<voiceVars, allVars>>
    \/ AccountsNext /\ UNCHANGED <<voiceVars, managedVars>>

EdgesSpec ==
    /\ EdgesInit /\ [][EdgesNext /\ UNCHANGED part]_<<voiceVars, managedVars, allVars, part>>
    /\ WF_voiceVars(part = "voice" /\ VoiceWork)
    /\ WF_managedVars(part = "managed" /\ ManagedWork)
    /\ AccountsFairness

\* Whatever is waited for ends: cancellations of notes, flows, cancelled turns, logins,
\* requests, administration and shutdowns; the state is in the file, unless a write
\* failed; the server serves or has ended.
EverythingEnds == []<>(NobodyDrains /\ NobodyUnwinds /\ AccountsAtRest)
===============================================================================
