------------------------------ MODULE Scheduler ------------------------------
(***************************************************************************)
(* The task scheduler (src/src/scheduler.rs) as every CPU runs it: the     *)
(* boot processor's loop (main.rs), the application processors' loop       *)
(* (run_ap_scheduler), and the system calls and exceptions of user tasks   *)
(* that enter it.                                                          *)
(*                                                                         *)
(* What the code does under SCHEDULER_LOCK is one step (module SpinLock    *)
(* shows that the lock excludes).  switch_task drops the lock BEFORE       *)
(* context_switch saves the old stack pointer, so a switch is two steps:   *)
(* SwitchTask, under the lock, and ContextSwitch, outside it.              *)
(*                                                                         *)
(* Abstractions.  A stack pointer is the task it belongs to.  stack_top    *)
(* is kept as `saved': is it the RSP at which the task last stopped?       *)
(* kernel_stack stands for percpu.kernel_stack and the TSS's rsp0, which   *)
(* the code always writes together, user_stack for percpu.user_stack.      *)
(* gs_base is saved and restored beside user_rsp and is left out.          *)
(***************************************************************************)
EXTENDS Integers

CONSTANTS
    CPU,       \* the processors that reach the scheduler
    BSP,       \* the boot processor, the only one the PIC interrupts
    MaxTasks,  \* bound: tasks ever created, the kernel's task 0 included
    VecCap,    \* first capacity of Vec<Task> (4 in the alloc crate)
    UserCodes  \* exit codes user tasks pass to terminate_task

ASSUME ConstantsAssumption ==
    /\ BSP \in CPU
    /\ MaxTasks \in Nat /\ MaxTasks >= 2
    /\ VecCap \in Nat /\ VecCap >= 1
    /\ UserCodes \subseteq Nat

Index == 0 .. MaxTasks - 1
NoTask == -1                         \* usize::MAX in current_task_index
DEAD == 57005                        \* 0xDEAD
Codes == UserCodes \cup {0, DEAD}
TaskStatus == {"Absent", "Ready", "Running", "Terminated"}

VARIABLES
    len,          \* tasks.len()
    cap,          \* tasks.capacity()
    status,       \* tasks[t].status, "Absent" for t >= len
    exit_code,    \* tasks[t].exit_code
    saved,        \* tasks[t].stack_top is where task t last stopped
    user_rsp,     \* the task whose user RSP tasks[t].user_rsp is
    looping,      \* tasks inside a `loop { switch_task(); hlt }'
    current,      \* percpu.current_task_index
    kernel_stack, \* the task whose kernel stack percpu.kernel_stack is
    user_stack,   \* the task whose user RSP percpu.user_stack is
    intr,         \* RFLAGS.IF
    pc,           \* where the CPU is
    old,          \* switch_task's old_stack_ref: the task it points into
    fresh,        \* switch_task's new_stack was a saved RSP when read
    dangling      \* CPUs whose old_stack_ref points into a freed buffer

table == <<len, cap, status, exit_code, saved, user_rsp, looping>>
percpu == <<current, kernel_stack, user_stack>>
local == <<pc, intr, old, fresh, dangling>>
vars == <<table, percpu, local>>

(***************************************************************************)
(* pc: "boot"     kernel_main before its loop;                             *)
(*     "switch"   at the entry of switch_task;                             *)
(*     "unlocked" past drop(guard), before context_switch;                 *)
(*     "run"      user mode;                                               *)
(*     "hlt"      asleep in the hlt of a scheduler loop;                   *)
(*     "halted"   switch_task's or the exception handler's endless hlt.    *)
(***************************************************************************)
PC == {"boot", "switch", "unlocked", "run", "hlt", "halted"}

(* scheduler::init, syscall::init and start_all_aps have run.  An AP has   *)
(* executed sti and is about to call switch_task for the first time; when  *)
(* it gets there is up to the hardware.                                    *)
Init ==
    /\ len = 1
    /\ cap = VecCap
    /\ status = [t \in Index |-> IF t = 0 THEN "Running" ELSE "Absent"]
    /\ exit_code = [t \in Index |-> 0]
    /\ saved = [t \in Index |-> FALSE]
    /\ user_rsp = [t \in Index |-> NoTask]
    /\ looping = {0}
    /\ current = [c \in CPU |-> IF c = BSP THEN 0 ELSE NoTask]
    /\ kernel_stack = [c \in CPU |-> NoTask]
    /\ user_stack = [c \in CPU |-> NoTask]
    /\ intr = [c \in CPU |-> TRUE]
    /\ pc = [c \in CPU |-> IF c = BSP THEN "boot" ELSE "switch"]
    /\ old = [c \in CPU |-> NoTask]
    /\ fresh = [c \in CPU |-> TRUE]
    /\ dangling = {}

-----------------------------------------------------------------------------
(* add_new_user_task: a frame that context_switch can resume is built and  *)
(* the task is pushed.  A push on a full Vec moves the buffer, and every   *)
(* old_stack_ref still to be written points into the freed one.            *)
AddNewUserTask ==
    /\ len < MaxTasks
    /\ status' = [status EXCEPT ![len] = "Ready"]
    /\ saved' = [saved EXCEPT ![len] = TRUE]
    /\ user_rsp' = [user_rsp EXCEPT ![len] = len]
    /\ len' = len + 1
    /\ IF len = cap
       THEN /\ cap' = 2 * cap
            /\ dangling' = {c \in CPU : pc[c] = "unlocked" /\ old[c] # NoTask}
       ELSE UNCHANGED <<cap, dangling>>
    /\ UNCHANGED <<exit_code, looping>>

-----------------------------------------------------------------------------
(* switch_task, the part under the lock.                                   *)

ReadyTasksPastEnd == {t \in Index : status[t] = "Ready" \/ t = len}
ReadyTasksAlive == {t \in Index : status[t] \in {"Ready", "Running"}}
ReadyTasks == {t \in Index : status[t] = "Ready"}

(* How many entries the round-robin scan passes before it looks at t.      *)
ScanStart(c) == IF current[c] = NoTask THEN 0 ELSE current[c]
Distance(c, t) == (t - ScanStart(c) - 1 + len) % len
IsNext(c, t) ==
    /\ t \in ReadyTasks
    /\ \A u \in ReadyTasks : Distance(c, t) <= Distance(c, u)

(* Where a call of switch_task returns to when it switches nothing, or     *)
(* where the resumed context goes on: a scheduler loop executes hlt, any   *)
(* other context is a system call that returns to user mode.               *)
InLoop(t) == t = NoTask \/ t \in looping
Return(c, t) ==
    /\ pc' = [pc EXCEPT ![c] = IF InLoop(t) THEN "hlt" ELSE "run"]
    /\ intr' = [intr EXCEPT ![c] = IF InLoop(t) THEN @ ELSE TRUE]

(* The status switch_task leaves the task it switches away from.           *)
StatusOfOldAlwaysReady(t) == "Ready"
StatusOfOldKept(t) == status[t]
StatusOfOld(t) == IF status[t] = "Running" THEN "Ready" ELSE status[t]

(* The kernel stack system calls and interrupts from user mode will use:   *)
(* task 0 has none (kernel_stack_top = 0) and leaves the old one in place. *)
KernelStackKept(c, next) == kernel_stack[c]
KernelStackFor(c, next) == IF next = 0 THEN kernel_stack[c] ELSE next

(* The user RSP saved for the old task, then loaded for the new one.       *)
UserRspSavedLate(c, next) == [user_rsp EXCEPT ![next] = user_stack[c]]
UserRspSaved(c, next) ==
    [t \in Index |-> IF t = current[c] THEN user_stack[c] ELSE user_rsp[t]]

Dispatch(c, next) ==
    /\ status' = [t \in Index |-> IF t = next THEN "Running"
                                  ELSE IF t = current[c] THEN StatusOfOld(t)
                                  ELSE status[t]]
    /\ current' = [current EXCEPT ![c] = next]
    /\ old' = [old EXCEPT ![c] = current[c]]
    /\ fresh' = [fresh EXCEPT ![c] = saved[next]]
    /\ kernel_stack' = [kernel_stack EXCEPT ![c] = KernelStackFor(c, next)]
    /\ user_rsp' = UserRspSaved(c, next)
    /\ user_stack' = [user_stack EXCEPT ![c] = user_rsp'[next]]
    /\ pc' = [pc EXCEPT ![c] = "unlocked"]
    /\ UNCHANGED <<len, cap, exit_code, saved, looping, intr, dangling>>

(* Nothing is Ready: a terminated caller halts for good, any other caller  *)
(* carries on.                                                             *)
NothingReady(c) ==
    /\ IF current[c] # NoTask /\ status[current[c]] = "Terminated"
       THEN /\ pc' = [pc EXCEPT ![c] = "halted"]
            /\ UNCHANGED intr
       ELSE Return(c, current[c])
    /\ UNCHANGED <<table, percpu, old, fresh, dangling>>

SwitchTask(c) ==
    /\ pc[c] = "switch"
    /\ \/ /\ ReadyTasks = {}
          /\ NothingReady(c)
       \/ \E next \in Index :
             /\ IsNext(c, next)
             /\ IF next = current[c]
                THEN /\ Return(c, current[c])
                     /\ UNCHANGED <<table, percpu, old, fresh, dangling>>
                ELSE Dispatch(c, next)

(* context_switch: RSP goes to *old_stack_ref and is loaded from the       *)
(* new_stack that switch_task read under the lock.  RFLAGS are not         *)
(* switched, so a resumed scheduler loop inherits IF from the context that *)
(* gave the CPU up.  A stack pointer that was not saved when it was read   *)
(* leads into a frame that is gone or being rewritten: the CPU faults, or  *)
(* goes on with what it finds there.                                       *)
SavedBySwitchNever(c) == [saved EXCEPT ![current[c]] = FALSE]
SavedBySwitch(c) ==
    [t \in Index |-> \/ t = old[c] /\ c \notin dangling
                     \/ t # current[c] /\ saved[t]]

ContextSwitch(c) ==
    /\ pc[c] = "unlocked"
    /\ saved' = SavedBySwitch(c)
    /\ old' = [old EXCEPT ![c] = NoTask]
    /\ dangling' = dangling \ {c}
    /\ \/ Return(c, current[c])
       \/ /\ ~fresh[c]
          /\ pc' = [pc EXCEPT ![c] = "halted"]
          /\ UNCHANGED intr
    /\ UNCHANGED <<len, cap, status, exit_code, user_rsp, looping,
                   percpu, fresh>>

-----------------------------------------------------------------------------
(* The callers.                                                            *)

(* kernel_main: the init process is added, then the loop starts, with      *)
(* switch_task before the first hlt.                                       *)
LoopStartHlt == "hlt"
LoopStart == "switch"
StartLoop(c) ==
    /\ pc[c] = "boot"
    /\ AddNewUserTask
    /\ pc' = [pc EXCEPT ![c] = LoopStart]
    /\ UNCHANGED <<percpu, intr, old, fresh>>

(* The keyboard's IRQ 1 is the only unmasked interrupt (pic.rs) and only   *)
(* the boot processor receives it.  hlt returns and the loop goes round.   *)
Wake(c) ==
    /\ c = BSP
    /\ pc[c] = "hlt"
    /\ intr[c]
    /\ pc' = [pc EXCEPT ![c] = "switch"]
    /\ UNCHANGED <<table, percpu, intr, old, fresh, dangling>>

(* A system call: SFMASK clears IF, the handler stores RSP in gs:[8].      *)
EnterKernel(c) ==
    /\ pc[c] = "run"
    /\ user_stack' = [user_stack EXCEPT ![c] = current[c]]

(* Syscall 4.                                                              *)
SysSwitchTask(c) ==
    /\ EnterKernel(c)
    /\ pc' = [pc EXCEPT ![c] = "switch"]
    /\ intr' = [intr EXCEPT ![c] = FALSE]
    /\ UNCHANGED <<table, current, kernel_stack, old, fresh, dangling>>

(* Syscall 3: the task table grows and the caller returns to user mode.    *)
SysAddTask(c) ==
    /\ EnterKernel(c)
    /\ AddNewUserTask
    /\ UNCHANGED <<current, kernel_stack, pc, intr, old, fresh>>

(* Syscall 18: sti, and the calling task becomes a scheduler loop.         *)
SysRunApScheduler(c) ==
    /\ EnterKernel(c)
    /\ looping' = looping \cup {current[c]}
    /\ pc' = [pc EXCEPT ![c] = "switch"]
    /\ UNCHANGED <<len, cap, status, exit_code, saved, user_rsp,
                   current, kernel_stack, intr, old, fresh, dangling>>

(* terminate_task up to its call of switch_task.                           *)
TerminateTask(c, code) ==
    /\ status' = [status EXCEPT ![current[c]] = "Terminated"]
    /\ exit_code' = [exit_code EXCEPT ![current[c]] = code]
    /\ pc' = [pc EXCEPT ![c] = "switch"]
    /\ intr' = [intr EXCEPT ![c] = FALSE]
    /\ UNCHANGED <<len, cap, saved, user_rsp, looping, current,
                   kernel_stack, old, fresh, dangling>>

(* Syscall 5.                                                              *)
SysTerminateTask(c) ==
    /\ EnterKernel(c)
    /\ \E code \in UserCodes : TerminateTask(c, code)

(* An exception in ring 3: the gate clears IF, the task is killed.         *)
Fault(c) ==
    /\ pc[c] = "run"
    /\ TerminateTask(c, DEAD)
    /\ UNCHANGED user_stack

Kernel(c) == StartLoop(c) \/ SwitchTask(c) \/ ContextSwitch(c)

User(c) ==
    \/ SysSwitchTask(c) \/ SysAddTask(c) \/ SysRunApScheduler(c)
    \/ SysTerminateTask(c) \/ Fault(c)

Next == \E c \in CPU : Kernel(c) \/ User(c) \/ Wake(c)

Spec == Init /\ [][Next]_vars

(* A CPU that is executing kernel code goes on executing it.  Nothing      *)
(* makes a user task call the kernel, or somebody press a key.             *)
FairSpec == Spec /\ \A c \in CPU : WF_vars(Kernel(c))

(* The same, with keys pressed again and again.                            *)
KeyboardSpec == FairSpec /\ WF_vars(Wake(BSP))

-----------------------------------------------------------------------------
(* The types, and every current_task_index is one that tasks[..] accepts.  *)
TypeOK ==
    /\ len \in 1 .. MaxTasks
    /\ cap \in Nat
    /\ status \in [Index -> TaskStatus]
    /\ exit_code \in [Index -> Codes]
    /\ saved \in [Index -> BOOLEAN]
    /\ user_rsp \in [Index -> Index \cup {NoTask}]
    /\ looping \subseteq Index
    /\ current \in [CPU -> Index \cup {NoTask}]
    /\ kernel_stack \in [CPU -> Index \cup {NoTask}]
    /\ user_stack \in [CPU -> Index \cup {NoTask}]
    /\ intr \in [CPU -> BOOLEAN]
    /\ pc \in [CPU -> PC]
    /\ old \in [CPU -> Index \cup {NoTask}]
    /\ fresh \in [CPU -> BOOLEAN]
    /\ dangling \subseteq CPU
    /\ \A c \in CPU : current[c] < len

(* No two CPUs have the same current_task_index, however their switches,   *)
(* terminations and faults interleave around the dropped lock.             *)
OneCpuPerTask ==
    \A c, d \in CPU : current[c] = current[d] /\ current[c] # NoTask => c = d

(* The status field and the CPUs' indices tell the same story: a CPU's     *)
(* current task is Running or Terminated, never Ready (so the branch       *)
(* next_index == current_index of switch_task is dead), and a Running task *)
(* is on some CPU, so no live task is ever lost to the scheduler.          *)
StatusMatchesCpus ==
    /\ \A c \in CPU : current[c] # NoTask =>
          status[current[c]] \in {"Running", "Terminated"}
    /\ \A t \in Index : status[t] = "Running" => \E c \in CPU : current[c] = t

(* A CPU in user mode has its own task's kernel stack in percpu and TSS,   *)
(* and its own task's RSP is what the next return from a system call       *)
(* loads; with OneCpuPerTask, two CPUs never take system calls on one      *)
(* stack, wherever the tasks migrated from.                                *)
StacksFollowTask ==
    \A c \in CPU :
        /\ pc[c] = "run" => kernel_stack[c] = current[c]
        /\ pc[c] = "run" => user_stack[c] = current[c]

(* A terminated task stays terminated and its exit code, which             *)
(* get_task_exit_code hands to its parent, does not change: switch_task    *)
(* does not make it Ready again when it switches away from it.             *)
TerminatedForever ==
    [][\A t \in Index : status[t] = "Terminated" =>
          status'[t] = "Terminated" /\ exit_code'[t] = exit_code[t]]_vars

(* switch_task only loads a stack_top that is the RSP at which the task    *)
(* last stopped ("Saved Stack Pointer (current RSP)", scheduler.rs:18).    *)
FreshDispatch == \A c \in CPU : pc[c] = "unlocked" => fresh[c]

(* No application processor has taken a task so far; on one processor that *)
(* is always so.                                                           *)
Alone == \A c \in CPU \ {BSP} : current[c] = NoTask

(* As long as the boot processor has the tasks for itself, every switch    *)
(* resumes a context that was saved.                                       *)
FreshWhileAlone == Alone => FreshDispatch

(* As long as it has, no processor enters the endless hlt of switch_task   *)
(* or of a fault in a context that is gone: task 0 is always left to run.  *)
(* (In the hlt of the scheduler loop it may sleep: see FaultResumesShell.) *)
NoHaltWhileAlone == Alone => \A c \in CPU : pc[c] # "halted"

(* The init process is given a CPU after boot, whether or not a key is     *)
(* ever pressed and whatever the application processors do meanwhile.      *)
InitStarts == <>(status[1] = "Running")

(* An exception in user mode kills the process and the system goes on with *)
(* the next ready task, "the shell", instead of halting                    *)
(* (interrupts.rs:437-439).                                                *)
UserReady == \E t \in Index \ {0} : status[t] = "Ready" /\ t \notin looping
UserRunning == \E t \in Index \ {0} : status[t] = "Running"
FaultResumesShell ==
    ((\E t \in Index : exit_code[t] = DEAD) /\ UserReady) ~> UserRunning
=============================================================================
