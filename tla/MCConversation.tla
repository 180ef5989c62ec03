---------------------------- MODULE MCConversation ----------------------------
(* Conversation for TLC: prompts differ only in their name. *)
EXTENDS Conversation, TLC

CONSTANTS n1, n2, n3

TwoNodes == {n1, n2}
ThreeNodes == {n1, n2, n3}
NodeSymmetry == Permutations(Nodes)

\* The first message is the first node's: nothing else tells the two apart.
FirstIsFirst == turns = 0 => turn'[n2] = turn[n2]
OrderedSpec == Init /\ [][Next /\ FirstIsFirst]_vars /\ Fairness

\* Replies are to prompts, not to their status messages, which MCConversation.cfg has.
RepliesToPrompts == \A n \in Nodes : ~turn'[n].viaStatus

\* Every prompt that is queued or running settles: it completes, fails, is
\* cancelled or is cleared.
EveryPromptSettles == \A n \in Nodes : Settles(n)
===============================================================================
