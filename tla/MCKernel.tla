------------------------------ MODULE MCKernel ------------------------------
(***************************************************************************)
(* The scheduler, the heap and the interrupt-safe lock, which share no     *)
(* state, checked in one run.  A behaviour runs one of them; the others    *)
(* stay in their initial states.                                           *)
(***************************************************************************)
EXTENDS MCScheduler, Heap, SpinLock

CONSTANT c2

VARIABLE part

(* Two small classes, and a layout that is large for its alignment.        *)
MCBucketSizes == <<1, 3>>
MCRequests == {<<1, 1>>, <<3, 1>>, <<1, 2>>}

(* Three CPUs, two of which may fault, so that one of the three can hold   *)
(* or want the lock while the others force it.                             *)
ThreeCpus == {c0, c1, c2}
TwoFaulty == {c0, c1}

MCInit ==
    /\ Init /\ HeapInit /\ LockInit
    /\ part \in {"scheduler", "heap", "lock"}
    /\ part = "lock" \/ flag_if = [c \in LockCpu |-> TRUE]

SchedulerPart(step) == part = "scheduler" /\ step /\ UNCHANGED <<part, heapVars, lockVars>>
HeapPart == part = "heap" /\ HeapNext /\ UNCHANGED <<part, vars, lockVars>>
LockPart(step) == part = "lock" /\ step /\ UNCHANGED <<part, vars, heapVars>>

MCVars == <<part, vars, heapVars, lockVars>>

(* The fairness of FairSpec and LockFairSpec, each for its part.           *)
MCSpec ==
    /\ MCInit /\ [][SchedulerPart(Next) \/ HeapPart \/ LockPart(LockNext)]_MCVars
    /\ \A c \in CPU : WF_MCVars(SchedulerPart(Kernel(c)))
    /\ \A c \in LockCpu : WF_MCVars(LockPart(Step(c)))

(* kernel_main's init process is given a CPU after boot, whether or not a  *)
(* key is ever pressed (InitStarts, in the behaviours of the scheduler).   *)
InitIsRun == part = "scheduler" => InitStarts
=============================================================================
