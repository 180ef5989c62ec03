--------------------------- MODULE CircuitBreaker ---------------------------
(***************************************************************************)
(* What an admission controller promises to the upstream provider          *)
(* (providers/admission.py, ProviderAdmissionController): calls flow while *)
(* the breaker is closed; a shared failure opens an epoch in which one     *)
(* client at a time probes with a single call; only the outcome of that    *)
(* call closes the breaker or trips it; a tripped breaker lets a new epoch *)
(* start with one probe.                                                   *)
(***************************************************************************)
EXTENDS Integers

CONSTANTS Clients, NoClient

VARIABLES
    mode,     \* "closed", "waiting" for a probe, "probing", or "tripped"
    epoch,    \* number of epochs opened so far
    prober,   \* the client that owns the probe, NoClient unless probing
    called,   \* the probe's call has been made
    calls     \* calls each client has made

breakerVars == <<mode, epoch, prober, called, calls>>

Init ==
    /\ mode = "closed" /\ epoch = 0 /\ prober = NoClient /\ called = FALSE
    /\ calls = [c \in Clients |-> 0]

Call(c) ==
    /\ mode = "closed"
    /\ calls' = [calls EXCEPT ![c] = @ + 1]
    /\ UNCHANGED <<mode, epoch, prober, called>>

Trip ==
    /\ mode = "closed" /\ mode' \in {"waiting", "tripped"}
    /\ epoch' = epoch + 1
    /\ UNCHANGED <<prober, called, calls>>

StartProbe(c) ==
    /\ \/ mode = "waiting" /\ epoch' = epoch
       \/ mode = "tripped" /\ epoch' = epoch + 1
    /\ mode' = "probing" /\ prober' = c
    /\ UNCHANGED <<called, calls>>

ProbeCall ==
    /\ mode = "probing" /\ ~called
    /\ called' = TRUE
    /\ calls' = [calls EXCEPT ![prober] = @ + 1]
    /\ UNCHANGED <<mode, epoch, prober>>

\* The permit is given back before any call was made.
ReturnProbe ==
    /\ mode = "probing" /\ ~called
    /\ mode' = "waiting" /\ prober' = NoClient
    /\ UNCHANGED <<epoch, called, calls>>

SettleProbe ==
    /\ mode = "probing" /\ called
    /\ mode' \in {"closed", "waiting", "tripped"}
    /\ prober' = NoClient /\ called' = FALSE
    /\ UNCHANGED <<epoch, calls>>

Next == \/ \E c \in Clients : Call(c) \/ StartProbe(c)
        \/ Trip \/ ProbeCall \/ ReturnProbe \/ SettleProbe

Spec == Init /\ [][Next]_breakerVars

=============================================================================
