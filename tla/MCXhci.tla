------------------------------- MODULE MCXhci -------------------------------
(* An instance of Xhci for TLC: two ports with every pair of devices but   *)
(* one, a keyboard before another device, which is left out for its size:  *)
(* the pair of keyboards, where the second may also turn out to have no    *)
(* endpoint, has the same waits and the same events in between.            *)
EXTENDS Xhci

(* A second device is on a port that the firmware has enabled if there is  *)
(* a first one, and else on a port that has to be reset.                   *)
MCInit ==
    /\ XhciInit
    /\ attached # <<"keyboard", "other">>
    /\ enabled = {p \in {2} : attached[1] # "none" /\ attached[2] # "none"}

MCSpec == MCInit /\ [][XhciNext]_xhciVars /\ XhciFairness
=============================================================================
