------------------------------- MODULE MCFatFs -------------------------------
(* Instances of FatFs for TLC: contents of no, one and two clusters.       *)
EXTENDS FatFs

CONSTANTS fa, fb, fc, bad

VARIABLE part

TwoNames == {fa, fb}
ThreeNames == {fa, fb, fc}
OneBadName == {bad}
MCContents == {<<>>, <<"x">>, <<"y", "x">>}
NoCrash == {}
(* While a call builds a new file, and before format has touched the FAT.  *)
BuildPoints == {"idle", "alloc", "link", "data", "commit", "magic"}
(* While a call takes an old file away.                                    *)
RemovePoints == {"free", "clear"}

(* Three names for two slots without a power loss, or two names with power *)
(* losses.                                                                 *)
MCInit == Init /\ part \in {"names", "crash"}

MCNext ==
    /\ \/ part = "names" /\ (Call \/ Step \/ Boot)
       \/ part = "crash" /\ Next /\ op'.name # fc
    /\ UNCHANGED part

MCVars == <<vars, part>>
MCSpec == MCInit /\ [][MCNext]_MCVars /\ WF_MCVars((Step \/ Boot) /\ UNCHANGED part)
=============================================================================
