-------------------------------- MODULE Parts --------------------------------
(* The part of the system that a behaviour of a composed run is about. *)
VARIABLE part
==============================================================================
