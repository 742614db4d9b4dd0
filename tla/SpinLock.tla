------------------------------ MODULE SpinLock ------------------------------
(***************************************************************************)
(* InterruptSpinlock (src/src/interrupts.rs), the lock of SCHEDULER_LOCK,  *)
(* XHCI_LOCK, GLOBAL_CELL_RENDERER and GLOBAL_WRITER, with the three kinds *)
(* of code that take it on a CPU: the kernel's own, irq_handler, and       *)
(* exception_handler, which alone uses try_lock and force_unlock.          *)
(* GLOBAL_WRITER is taken by all three, the other locks by the first only. *)
(* allocator::Spinlock (the heap's and FS_LOCK) is the same compare-and-   *)
(* swap without the interrupt flag, and no handler takes it.               *)
(*                                                                         *)
(* A context is a CPU and a level: 0 the kernel's code or a user task, 1   *)
(* irq_handler, 2 exception_handler.  Interrupt gates clear IF, so a level *)
(* is never entered twice before it is left.                               *)
(***************************************************************************)
EXTENDS Integers

CONSTANTS
    LockCpu,      \* the processors
    MayFault  \* those on which an exception may happen

ASSUME MayFaultAssumption == MayFault \subseteq LockCpu

Level == 0 .. 2

VARIABLES
    lock,    \* the AtomicBool
    level,   \* the context each CPU is executing
    where,      \* where each context is
    ie,      \* the guard's interrupts_enabled
    flag_if,    \* RFLAGS.IF
    user,    \* cs of the exception frame says ring 3
    forced   \* history: force_unlock has released the lock of a guard

lockVars == <<lock, level, where, ie, flag_if, user, forced>>

(***************************************************************************)
(* where: "out" without a guard;         "in"    with one;                *)
(*     "spin"  in lock()'s loop;          "try"   at try_lock;             *)
(*     "force" try_lock returned None;    "halt"  exception_handler's      *)
(*                                        endless hlt, guard and all.      *)
(***************************************************************************)
Where == {"out", "spin", "in", "try", "force", "halt"}
Holding == {"in", "halt"}

LockInit ==
    /\ lock = FALSE
    /\ level = [c \in LockCpu |-> 0]
    /\ where = [c \in LockCpu |-> [l \in Level |-> "out"]]
    /\ ie = [c \in LockCpu |-> [l \in Level |-> FALSE]]
    /\ flag_if \in [LockCpu -> BOOLEAN]
    /\ user = [c \in LockCpu |-> FALSE]
    /\ forced = FALSE

At(c, p) == where[c][level[c]] = p
Goto(c, p) == where' = [where EXCEPT ![c][level[c]] = p]

-----------------------------------------------------------------------------
(* lock: RFLAGS are read, then cli.                                        *)
IfAfterCliKept(c) == flag_if
IfAfterCli(c) == [flag_if EXCEPT ![c] = FALSE]

Lock(c) ==
    /\ At(c, "out") /\ level[c] < 2
    /\ Goto(c, "spin")
    /\ ie' = [ie EXCEPT ![c][level[c]] = flag_if[c]]
    /\ flag_if' = IfAfterCli(c)
    /\ UNCHANGED <<lock, level, user, forced>>

(* The compare_exchange that succeeds; one that fails changes nothing.     *)
CanAcquireAlways == TRUE
CanAcquire == ~lock

Acquire(c) ==
    /\ At(c, "spin") /\ CanAcquire
    /\ lock' = TRUE
    /\ Goto(c, "in")
    /\ UNCHANGED <<level, ie, flag_if, user, forced>>

(* The guard is dropped: sti only if interrupts were enabled before.       *)
LockAfterDropKept == lock
LockAfterDrop == FALSE

Drop(c) ==
    /\ At(c, "in") /\ level[c] < 2
    /\ lock' = LockAfterDrop
    /\ Goto(c, "out")
    /\ flag_if' = [flag_if EXCEPT ![c] = ie[c][level[c]]]
    /\ UNCHANGED <<level, ie, user, forced>>

-----------------------------------------------------------------------------
(* An interrupt, which finds the CPU with IF set, and irq_handler's end:   *)
(* iret restores IF.  In between the handler may print (an unknown IRQ);   *)
(* the guard is dropped at the end of the match arm.                       *)
IrqDone(c) == At(c, "out")

Irq(c) ==
    /\ level[c] = 0 /\ flag_if[c]
    /\ level' = [level EXCEPT ![c] = 1]
    /\ flag_if' = [flag_if EXCEPT ![c] = FALSE]
    /\ UNCHANGED <<lock, where, ie, user, forced>>

Iret(c) ==
    /\ level[c] = 1 /\ IrqDone(c)
    /\ level' = [level EXCEPT ![c] = 0]
    /\ flag_if' = [flag_if EXCEPT ![c] = TRUE]
    /\ UNCHANGED <<lock, where, ie, user, forced>>

(* An exception: in a user task, or in code of the kernel that may hold    *)
(* the lock.                                                               *)
Exception(c, u) ==
    /\ c \in MayFault
    /\ level[c] < 2 /\ where[c][level[c]] \in {"out", "in"}
    /\ u => level[c] = 0 /\ At(c, "out")
    /\ level' = [level EXCEPT ![c] = 2]
    /\ where' = [where EXCEPT ![c][2] = "try"]
    /\ user' = [user EXCEPT ![c] = u]
    /\ ie' = [ie EXCEPT ![c][2] = FALSE]
    /\ flag_if' = [flag_if EXCEPT ![c] = FALSE]
    /\ UNCHANGED <<lock, forced>>

(* try_lock, with IF clear already: Some(guard), or None.                  *)
TryLock(c) ==
    /\ At(c, "try")
    /\ lock' = TRUE
    /\ Goto(c, IF lock THEN "force" ELSE "in")
    /\ UNCHANGED <<level, ie, flag_if, user, forced>>

(* The lock is released whoever holds it, then taken by lock().            *)
ForceUnlock(c) ==
    /\ At(c, "force")
    /\ lock' = FALSE
    /\ Goto(c, "spin")
    /\ forced' = TRUE
    /\ UNCHANGED <<level, ie, flag_if, user>>

(* The report is written.  A user task is killed and the CPU goes on with  *)
(* another context, whose IF may be either; a fault of the kernel ends in  *)
(* hlt, and the guard is never dropped.                                    *)
Reported(c) ==
    /\ level[c] = 2 /\ At(c, "in")
    /\ IF user[c]
       THEN /\ lock' = LockAfterDrop
            /\ Goto(c, "out")
            /\ level' = [level EXCEPT ![c] = 0]
            /\ \E b \in BOOLEAN : flag_if' = [flag_if EXCEPT ![c] = b]
       ELSE /\ Goto(c, "halt")
            /\ UNCHANGED <<lock, level, flag_if>>
    /\ UNCHANGED <<ie, user, forced>>

Step(c) ==
    \/ Acquire(c) \/ Drop(c) \/ Iret(c)
    \/ TryLock(c) \/ ForceUnlock(c) \/ Reported(c)

LockNext == \E c \in LockCpu :
    \/ Step(c) \/ Lock(c) \/ Irq(c)
    \/ \E u \in BOOLEAN : Exception(c, u)

LockSpec == LockInit /\ [][LockNext]_lockVars

(* A CPU executes what is before it.                                       *)
LockFairSpec == LockSpec /\ \A c \in LockCpu : WF_lockVars(Step(c))

-----------------------------------------------------------------------------
(* The types; a context is busy only up to the CPU's level.                *)
LockTypeOK ==
    /\ lock \in BOOLEAN /\ forced \in BOOLEAN
    /\ level \in [LockCpu -> Level]
    /\ where \in [LockCpu -> [Level -> Where]]
    /\ ie \in [LockCpu -> [Level -> BOOLEAN]]
    /\ flag_if \in [LockCpu -> BOOLEAN]
    /\ user \in [LockCpu -> BOOLEAN]
    /\ \A c \in LockCpu, l \in Level : l > level[c] => where[c][l] = "out"

(* Two contexts have a guard of the same lock only after force_unlock took *)
(* it from one of them: on two CPUs, or on one CPU when a handler          *)
(* interrupts the holder.                                                  *)
ExclusiveUnlessForced ==
    ~forced => \A c, d \in LockCpu, l, m \in Level :
        where[c][l] \in Holding /\ where[d][m] \in Holding => c = d /\ l = m

(* The flag and the guards agree: no guard is lost with the lock taken,    *)
(* and none survives its release.                                          *)
FlagMatchesGuards ==
    ~forced => (lock <=> \E c \in LockCpu, l \in Level : where[c][l] \in Holding)

(* irq_handler never waits for a guard that the code it interrupted has or *)
(* is about to get: lock() clears IF first, and dropping a guard inside a  *)
(* handler does not set it.                                                *)
NoSelfDeadlock ==
    \A c \in LockCpu : level[c] = 1 => where[c][0] = "out"

(* A lock that is wanted is taken by somebody, whichever CPUs fault and    *)
(* whatever they hold then: no dead context keeps the others from it until *)
(* exception_handler itself halts with the guard.  (Who gets it is up to   *)
(* the hardware: a spinning CPU may lose every compare_exchange.)          *)
LockTaken ==
    (\E c \in LockCpu : At(c, "spin") \/ At(c, "try"))
        ~> (\E c \in LockCpu : At(c, "in") \/ At(c, "halt"))
=============================================================================
