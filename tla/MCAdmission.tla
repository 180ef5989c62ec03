---------------------------- MODULE MCAdmission ----------------------------
(* Instances of Admission for TLC.                                          *)
EXTENDS Admission

CONSTANTS e1, e2, e3

TwoExecutions == {e1, e2}
ThreeExecutions == {e1, e2, e3}

\* Unless the leader ended between two attempts, whoever enters open_attempt leaves
\* it with a call in flight or with an error.  Executions differ only in their
\* name, so that what holds of one holds of all.
FirstAdmitted == EventuallyAdmitted(e1)
=============================================================================
