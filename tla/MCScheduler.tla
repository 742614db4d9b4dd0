----------------------------- MODULE MCScheduler -----------------------------
(* Instances of Scheduler for TLC, on one and on two processors.  A table  *)
(* that starts with room for two tasks and grows to four moves once, as    *)
(* the code's does at its fifth task.                                      *)
EXTENDS Scheduler

CONSTANTS c0, c1

OneCpu == {c0}
TwoCpus == {c0, c1}
=============================================================================
