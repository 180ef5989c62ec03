----------------------------- MODULE MCGenerations -----------------------------
(***************************************************************************)
(* Checks in one run what a shutdown must drain: the provider generations  *)
(* (Generations) and the limiter of a chat platform's messages (Delivery). *)
(* They share no state, the behaviour of one is chosen at the start and    *)
(* the other stays in its initial state, in which there is nothing that    *)
(* fairness would ask for.                                                 *)
(***************************************************************************)
EXTENDS Generations, Delivery, Parts

DrainedInit ==
    part \in {"generations", "delivery"} /\ Init /\ DeliveryInit

DrainedNext ==
    \/ part = "generations" /\ Next /\ UNCHANGED deliveryVars
    \/ part = "delivery" /\ DeliveryNext /\ UNCHANGED vars

\* Only the part that runs has work to do; for the generations it is that of Fairness.
DrainedFairness ==
    /\ \A r \in Requests : WF_vars(part = "generations" /\ Release(r))
    /\ \A g \in Generations :
          WF_vars(part = "generations" /\ (Work(g) \/ Creation(g) \/ Cleaning(g)))
    /\ WF_vars(/\ part = "generations"
               /\ FailCommit \/ Publish \/ EndReplace \/ (lock = "connecting" /\ EndConnect))
    /\ WF_vars(part = "generations" /\ RunRefresh)
    /\ WF_vars(/\ part = "generations"
               /\ Closing \/ (closing /\ closer = "uncalled" /\ Close))
    /\ WF_deliveryVars(part = "delivery" /\ DeliveryWork)

DrainedSpec ==
    /\ DrainedInit /\ [][DrainedNext /\ UNCHANGED part]_<<vars, deliveryVars, part>>
    /\ DrainedFairness

\* No caller of the limiter waits for ever.
CallersAreTold == []<>NobodyWaits
================================================================================
