--------------------------- MODULE SchedulerProofs ---------------------------
(***************************************************************************)
(* Proofs about Scheduler for any set of CPUs and any number of tasks.     *)
(*                                                                         *)
(* None of the properties is inductive alone: that Terminate and Dispatch  *)
(* touch no other CPU's task needs OneCpuPerTask, which needs that a Ready *)
(* task is nobody's current, which needs that a CPU past its switch has a  *)
(* Running task.  SchedInv collects these facts.                           *)
(***************************************************************************)
EXTENDS Scheduler, TLAPS

(* The task table ends at len.                                             *)
TableEnd == \A t \in Index : status[t] = "Absent" <=> t >= len

(* Only a CPU inside switch_task, or halted there, has a terminated task.  *)
RunningOutsideSwitch ==
    \A c \in CPU : pc[c] \notin {"switch", "halted"} /\ current[c] # NoTask =>
        status[current[c]] = "Running"

(* User mode is only entered for tasks that are not scheduler loops; task  *)
(* 0 is one from the start.                                                *)
UserModeIsUser ==
    /\ 0 \in looping
    /\ \A c \in CPU : pc[c] = "run" =>
          current[c] # NoTask /\ current[c] \notin looping
    /\ \A c \in CPU : pc[c] = "boot" => current[c] = 0

(* Saved and loaded stacks belong to the task they are kept for.           *)
Owner(t) == IF t = 0 THEN NoTask ELSE t
StacksOwned ==
    /\ \A t \in Index : t < len => user_rsp[t] = Owner(t)
    /\ \A c \in CPU : user_stack[c] = Owner(current[c])
    /\ \A c \in CPU : current[c] \in Index \ {0} => kernel_stack[c] = current[c]

SchedInv ==
    /\ TypeOK
    /\ TableEnd
    /\ OneCpuPerTask
    /\ StatusMatchesCpus
    /\ RunningOutsideSwitch
    /\ UserModeIsUser
    /\ StacksOwned

-----------------------------------------------------------------------------
(* What the round-robin scan finds is a Ready task of the table.           *)
LEMMA NextIsReady ==
    ASSUME NEW c, NEW t, IsNext(c, t)
    PROVE  t \in Index /\ status[t] = "Ready"
BY DEF IsNext, ReadyTasks

LEMMA IndexFacts == /\ NoTask \notin Index
                    /\ 0 \in Index
                    /\ Index \subseteq Int
                    /\ \A t \in Index : Owner(t) \in Index \cup {NoTask}
                    /\ Owner(NoTask) = NoTask
BY ConstantsAssumption DEF Index, NoTask, Owner

LEMMA InitInv == Init => SchedInv
<1> SUFFICES ASSUME Init PROVE SchedInv
  OBVIOUS
<1> USE ConstantsAssumption
<1>1. TypeOK
  BY DEF Init, TypeOK, Index, NoTask, TaskStatus, Codes, PC
<1>2. TableEnd
  BY DEF Init, TableEnd, Index
<1>3. OneCpuPerTask /\ StatusMatchesCpus /\ RunningOutsideSwitch
  BY DEF Init, OneCpuPerTask, StatusMatchesCpus, RunningOutsideSwitch,
         Index, NoTask
<1>4. UserModeIsUser /\ StacksOwned
  BY DEF Init, UserModeIsUser, StacksOwned, Owner, Index, NoTask
<1> QED
  BY <1>1, <1>2, <1>3, <1>4 DEF SchedInv

-----------------------------------------------------------------------------
(* One lemma per way the scheduler's state changes.                        *)

(* add_new_user_task writes the entry past the end of the table.           *)
LEMMA AddKeepsInv ==
    ASSUME SchedInv, AddNewUserTask, NEW c \in CPU,
           UNCHANGED <<current, kernel_stack, intr, old, fresh>>,
           \/ /\ pc[c] = "run"
              /\ user_stack' = [user_stack EXCEPT ![c] = current[c]]
              /\ UNCHANGED pc
           \/ /\ pc[c] = "boot"
              /\ UNCHANGED user_stack
              /\ pc' = [pc EXCEPT ![c] = "switch"]
    PROVE  SchedInv'
<1> USE ConstantsAssumption, IndexFacts
<1>1. len \in Index /\ status[len] = "Absent"
  BY DEF SchedInv, TypeOK, TableEnd, AddNewUserTask, Index
<1>2. TypeOK'
  <2>1. len' \in 1 .. MaxTasks /\ cap' \in Nat /\ dangling' \subseteq CPU
    BY DEF SchedInv, TypeOK, AddNewUserTask
  <2>2. status' \in [Index -> TaskStatus] /\ saved' \in [Index -> BOOLEAN]
    BY <1>1 DEF SchedInv, TypeOK, AddNewUserTask, TaskStatus
  <2>3. user_rsp' \in [Index -> Index \cup {NoTask}]
    BY <1>1 DEF SchedInv, TypeOK, AddNewUserTask
  <2>4. user_stack' \in [CPU -> Index \cup {NoTask}] /\ pc' \in [CPU -> PC]
    BY DEF SchedInv, TypeOK, PC
  <2>5. \A d \in CPU : current'[d] < len'
    <3>1. \A d \in CPU : current[d] \in Int /\ current[d] < len
      BY DEF SchedInv, TypeOK, Index, NoTask
    <3>2. len \in Int /\ len' = len + 1 /\ current' = current
      BY DEF SchedInv, TypeOK, AddNewUserTask
    <3> QED
      BY <3>1, <3>2
  <2> QED
    BY <2>1, <2>2, <2>3, <2>4, <2>5 DEF SchedInv, TypeOK, AddNewUserTask
<1>3. TableEnd'
  BY <1>1 DEF SchedInv, TypeOK, TableEnd, AddNewUserTask, Index
<1>4. OneCpuPerTask'
  BY DEF SchedInv, OneCpuPerTask
<1>5. \A t \in Index : status'[t] = IF t = len THEN "Ready" ELSE status[t]
  BY DEF SchedInv, TypeOK, AddNewUserTask
<1>6. \A d \in CPU : current[d] # NoTask =>
          status'[current[d]] = status[current[d]]
  <2>1. \A d \in CPU : current[d] # len
    BY <1>1 DEF SchedInv, TypeOK, StatusMatchesCpus
  <2>2. \A d \in CPU : current[d] # NoTask => current[d] \in Index
    BY DEF SchedInv, TypeOK
  <2> QED
    BY <1>5, <2>1, <2>2
<1>7. StatusMatchesCpus'
  <2>1. \A d \in CPU : current'[d] # NoTask =>
          status'[current'[d]] \in {"Running", "Terminated"}
    BY <1>6 DEF SchedInv, StatusMatchesCpus
  <2>2. \A t \in Index : status'[t] = "Running" => status[t] = "Running"
    BY <1>5
  <2> QED
    BY <2>1, <2>2 DEF SchedInv, StatusMatchesCpus
<1>8. RunningOutsideSwitch'
  BY <1>5, <1>6 DEF SchedInv, TypeOK, RunningOutsideSwitch
<1>9. UserModeIsUser'
  BY DEF SchedInv, TypeOK, UserModeIsUser, AddNewUserTask
<1>10. StacksOwned'
  <2>1. \A t \in Index : t < len' => user_rsp'[t] = Owner(t)
    BY <1>1 DEF SchedInv, TypeOK, StacksOwned, Owner, AddNewUserTask, Index
  <2>2. \A d \in CPU : user_stack'[d] = Owner(current[d])
    BY DEF SchedInv, TypeOK, StacksOwned, UserModeIsUser, Owner
  <2> QED
    BY <2>1, <2>2 DEF SchedInv, StacksOwned
<1> QED
  BY <1>2, <1>3, <1>4, <1>7, <1>8, <1>9, <1>10 DEF SchedInv

(* Dispatch moves one CPU from its task to a Ready one, which is nobody    *)
(* else's.                                                                 *)
LEMMA DispatchKeepsInv ==
    ASSUME SchedInv, NEW c \in CPU, NEW next \in Index,
           pc[c] = "switch", IsNext(c, next), Dispatch(c, next)
    PROVE  SchedInv'
<1> USE ConstantsAssumption, IndexFacts
<1>1. status[next] = "Ready" /\ next < len
  BY NextIsReady DEF SchedInv, TypeOK, TableEnd, Index
<1>2. \A d \in CPU : current[d] # next
  BY <1>1 DEF SchedInv, TypeOK, StatusMatchesCpus
<1>3. /\ status' = [t \in Index |-> IF t = next THEN "Running"
                       ELSE IF t = current[c] THEN StatusOfOld(t)
                       ELSE status[t]]
      /\ current' = [current EXCEPT ![c] = next]
      /\ pc' = [pc EXCEPT ![c] = "unlocked"]
      /\ len' = len /\ looping' = looping
  BY DEF Dispatch
<1>4. TypeOK'
  <2>1. user_rsp' \in [Index -> Index \cup {NoTask}]
    BY DEF SchedInv, TypeOK, Dispatch, UserRspSaved
  <2>2. \A d \in CPU : current'[d] < len'
    BY <1>1, <1>3 DEF SchedInv, TypeOK
  <2> QED
    BY <2>1, <2>2 DEF SchedInv, TypeOK, Dispatch, StatusOfOld, KernelStackFor,
                TaskStatus, PC
<1>5. TableEnd'
  BY <1>1, <1>3 DEF SchedInv, TypeOK, TableEnd, StatusOfOld
<1>6. OneCpuPerTask'
  BY <1>2, <1>3 DEF SchedInv, TypeOK, OneCpuPerTask
<1>7. \A d \in CPU \ {c} : current[d] # NoTask =>
          current[d] # current[c] /\ status'[current[d]] = status[current[d]]
  BY <1>2, <1>3 DEF SchedInv, TypeOK, OneCpuPerTask
<1>8. StatusMatchesCpus'
  <2>1. \A d \in CPU : current'[d] # NoTask =>
          status'[current'[d]] \in {"Running", "Terminated"}
    <3>1. \A d \in CPU \ {c} : current'[d] = current[d]
      BY <1>3 DEF SchedInv, TypeOK
    <3>2. current'[c] = next /\ status'[next] = "Running"
      BY <1>3 DEF SchedInv, TypeOK
    <3> QED
      BY <1>7, <3>1, <3>2 DEF SchedInv, StatusMatchesCpus
  <2>2. \A t \in Index :
          status'[t] = "Running" => \E d \in CPU : current'[d] = t
    BY <1>3 DEF SchedInv, TypeOK, StatusMatchesCpus, StatusOfOld
  <2> QED
    BY <2>1, <2>2 DEF StatusMatchesCpus
<1>9. RunningOutsideSwitch'
  BY <1>3, <1>7 DEF SchedInv, TypeOK, RunningOutsideSwitch
<1>10. UserModeIsUser'
  BY <1>3 DEF SchedInv, TypeOK, UserModeIsUser
<1>11. StacksOwned'
  <2>1. \A t \in Index : t < len' => user_rsp'[t] = Owner(t)
    BY DEF SchedInv, TypeOK, StacksOwned, Dispatch, UserRspSaved
  <2>2. \A d \in CPU : user_stack'[d] = Owner(current'[d])
    BY <1>1, <1>3, <2>1 DEF SchedInv, TypeOK, StacksOwned, Dispatch
  <2>3. \A d \in CPU : current'[d] \in Index \ {0} =>
          kernel_stack'[d] = current'[d]
    BY <1>3 DEF SchedInv, TypeOK, StacksOwned, Dispatch, KernelStackFor
  <2> QED
    BY <2>1, <2>2, <2>3 DEF StacksOwned
<1> QED
  BY <1>4, <1>5, <1>6, <1>8, <1>9, <1>10, <1>11 DEF SchedInv

(* A return from switch_task, with or without a switch, leaves the task    *)
(* table's bookkeeping alone and enters user mode for user tasks only.     *)
LEMMA ReturnKeepsInv ==
    ASSUME SchedInv, NEW c \in CPU,
           \/ /\ Return(c, current[c])
              /\ current[c] # NoTask => status[current[c]] = "Running"
           \/ pc' = [pc EXCEPT ![c] = "halted"] /\ UNCHANGED intr,
           saved' \in [Index -> BOOLEAN],
           old' \in [CPU -> Index \cup {NoTask}],
           dangling' \subseteq CPU,
           UNCHANGED <<len, cap, status, exit_code, user_rsp, looping,
                       percpu, fresh>>
    PROVE  SchedInv'
<1> USE ConstantsAssumption, IndexFacts
<1>0. /\ current' = current /\ kernel_stack' = kernel_stack
      /\ user_stack' = user_stack
  BY DEF percpu
<1>1. TypeOK'
  <2>1. pc' \in [CPU -> PC] /\ intr' \in [CPU -> BOOLEAN]
    <3>1. CASE Return(c, current[c])
      BY <3>1 DEF SchedInv, TypeOK, Return, PC
    <3>2. CASE pc' = [pc EXCEPT ![c] = "halted"] /\ UNCHANGED intr
      BY <3>2 DEF SchedInv, TypeOK, PC
    <3> QED
      BY <3>1, <3>2
  <2> QED
    BY <1>0, <2>1 DEF SchedInv, TypeOK
<1>2. TableEnd' /\ OneCpuPerTask' /\ StatusMatchesCpus'
  BY <1>0 DEF SchedInv, TableEnd, OneCpuPerTask, StatusMatchesCpus
<1>3. RunningOutsideSwitch'
  BY <1>0 DEF SchedInv, TypeOK, RunningOutsideSwitch, Return
<1>4. UserModeIsUser'
  BY <1>0 DEF SchedInv, TypeOK, UserModeIsUser, Return, InLoop
<1>5. StacksOwned'
  BY <1>0 DEF SchedInv, StacksOwned
<1> QED
  BY <1>1, <1>2, <1>3, <1>4, <1>5 DEF SchedInv

(* terminate_task only writes the entry of the CPU's own, Running task.    *)
LEMMA TerminateKeepsInv ==
    ASSUME SchedInv, NEW c \in CPU, NEW code \in Codes,
           pc[c] = "run", TerminateTask(c, code),
           \/ UNCHANGED user_stack
           \/ user_stack' = [user_stack EXCEPT ![c] = current[c]]
    PROVE  SchedInv'
<1> USE ConstantsAssumption, IndexFacts
<1>1. /\ current[c] \in Index \ {0}
      /\ status[current[c]] = "Running"
  BY DEF SchedInv, TypeOK, UserModeIsUser, RunningOutsideSwitch
<1>2. /\ status' = [status EXCEPT ![current[c]] = "Terminated"]
      /\ pc' = [pc EXCEPT ![c] = "switch"]
      /\ UNCHANGED <<len, user_rsp, looping, current, kernel_stack>>
  BY DEF TerminateTask
<1>3. user_stack' = user_stack
  BY <1>1 DEF SchedInv, TypeOK, StacksOwned, Owner
<1>4. TypeOK'
  BY <1>1, <1>3 DEF SchedInv, TypeOK, TerminateTask, TaskStatus, PC
<1>5. TableEnd'
  BY <1>1, <1>2 DEF SchedInv, TypeOK, TableEnd
<1>6. OneCpuPerTask'
  BY <1>2 DEF SchedInv, OneCpuPerTask
<1>7. StatusMatchesCpus'
  <2>1. \A d \in CPU : current'[d] # NoTask =>
          status'[current'[d]] \in {"Running", "Terminated"}
    BY <1>1, <1>2 DEF SchedInv, TypeOK, StatusMatchesCpus
  <2>2. \A t \in Index : status'[t] = "Running" => status[t] = "Running"
    BY <1>2 DEF SchedInv, TypeOK
  <2> QED
    BY <1>2, <2>1, <2>2 DEF SchedInv, StatusMatchesCpus
<1>8. RunningOutsideSwitch'
  BY <1>1, <1>2 DEF SchedInv, TypeOK, RunningOutsideSwitch, OneCpuPerTask
<1>9. UserModeIsUser'
  BY <1>2 DEF SchedInv, TypeOK, UserModeIsUser
<1>10. StacksOwned'
  BY <1>2, <1>3 DEF SchedInv, StacksOwned
<1> QED
  BY <1>4, <1>5, <1>6, <1>7, <1>8, <1>9, <1>10 DEF SchedInv

(* Steps that leave the task table and the current tasks alone and put     *)
(* the CPU at the entry of switch_task.                                    *)
LEMMA EnterSwitchKeepsInv ==
    ASSUME SchedInv, NEW c \in CPU, Wake(c) \/ SysSwitchTask(c) \/ SysRunApScheduler(c)
    PROVE  SchedInv'
<1> USE ConstantsAssumption, IndexFacts
<1>1. /\ UNCHANGED <<len, status, user_rsp, current, kernel_stack>>
      /\ pc' = [pc EXCEPT ![c] = "switch"]
  BY DEF Wake, SysSwitchTask, SysRunApScheduler, table, percpu
<1>2. user_stack' = user_stack
  <2>1. CASE Wake(c)
    BY <2>1 DEF Wake, percpu
  <2>2. CASE EnterKernel(c)
    <3>1. current[c] \in Index \ {0}
      BY <2>2 DEF EnterKernel, SchedInv, TypeOK, UserModeIsUser
    <3> QED
      BY <2>2, <3>1 DEF EnterKernel, SchedInv, TypeOK, StacksOwned, Owner
  <2> QED
    BY <2>1, <2>2 DEF SysSwitchTask, SysRunApScheduler
<1>3. /\ looping' \subseteq Index
      /\ 0 \in looping'
      /\ \A d \in CPU : pc'[d] = "run" => current[d] \notin looping'
  <2>1. CASE looping' = looping
    BY <1>1, <2>1 DEF SchedInv, TypeOK, UserModeIsUser
  <2>2. CASE SysRunApScheduler(c)
    <3>1. looping' = looping \cup {current[c]} /\ pc[c] = "run"
      BY <2>2 DEF SysRunApScheduler, EnterKernel
    <3>2. current[c] \in Index
      BY <3>1 DEF SchedInv, TypeOK, UserModeIsUser
    <3>3. \A d \in CPU \ {c} : pc[d] = "run" => current[d] # current[c]
      BY <3>2 DEF SchedInv, OneCpuPerTask, UserModeIsUser
    <3> QED
      BY <1>1, <3>1, <3>2, <3>3 DEF SchedInv, TypeOK, UserModeIsUser
  <2> QED
    BY <2>1, <2>2 DEF Wake, SysSwitchTask, table
<1>4. TypeOK'
  <2>1. /\ UNCHANGED <<cap, exit_code, saved, old, fresh, dangling>>
        /\ intr' = intr \/ intr' = [intr EXCEPT ![c] = FALSE]
    BY DEF Wake, SysSwitchTask, SysRunApScheduler, table
  <2>2. pc' \in [CPU -> PC] /\ intr' \in [CPU -> BOOLEAN]
    BY <1>1, <2>1 DEF SchedInv, TypeOK, PC
  <2> QED
    BY <1>1, <1>2, <1>3, <2>1, <2>2 DEF SchedInv, TypeOK
<1>5. TableEnd' /\ OneCpuPerTask' /\ StatusMatchesCpus'
  BY <1>1 DEF SchedInv, TableEnd, OneCpuPerTask, StatusMatchesCpus
<1>6. RunningOutsideSwitch'
  BY <1>1 DEF SchedInv, TypeOK, RunningOutsideSwitch
<1>7. UserModeIsUser'
  BY <1>1, <1>3 DEF SchedInv, TypeOK, UserModeIsUser
<1>8. StacksOwned'
  BY <1>1, <1>2 DEF SchedInv, StacksOwned
<1> QED
  BY <1>4, <1>5, <1>6, <1>7, <1>8 DEF SchedInv

(* switch_task under the lock: it returns, halts or dispatches.            *)
LEMMA SwitchKeepsInv ==
    ASSUME SchedInv, NEW c \in CPU, SwitchTask(c)
    PROVE  SchedInv'
<1>1. pc[c] = "switch"
  BY DEF SwitchTask
<1>2. CASE NothingReady(c)
  <2>1. current[c] # NoTask => status[current[c]] \in {"Running", "Terminated"}
    BY DEF SchedInv, StatusMatchesCpus
  <2>2. UNCHANGED <<len, cap, status, exit_code, user_rsp, looping, percpu, fresh>>
    BY <1>2 DEF NothingReady, table
  <2>3. /\ saved' \in [Index -> BOOLEAN]
        /\ old' \in [CPU -> Index \cup {NoTask}]
        /\ dangling' \subseteq CPU
    BY <1>2 DEF NothingReady, table, SchedInv, TypeOK
  <2>4. \/ /\ Return(c, current[c])
           /\ current[c] # NoTask => status[current[c]] = "Running"
        \/ pc' = [pc EXCEPT ![c] = "halted"] /\ UNCHANGED intr
    BY <1>2, <2>1 DEF NothingReady
  <2> QED
    BY <2>2, <2>3, <2>4, ReturnKeepsInv
<1>3. ASSUME NEW next \in Index, IsNext(c, next),
             IF next = current[c]
             THEN /\ Return(c, current[c])
                  /\ UNCHANGED <<table, percpu, old, fresh, dangling>>
             ELSE Dispatch(c, next)
      PROVE  SchedInv'
  <2>1. status[next] = "Ready"
    BY <1>3, NextIsReady
  <2>2. next # current[c]
    BY <2>1, IndexFacts DEF SchedInv, StatusMatchesCpus
  <2> QED
    BY <1>1, <1>3, <2>2, DispatchKeepsInv
<1> QED
  BY <1>2, <1>3 DEF SwitchTask

LEMMA ContextSwitchKeepsInv ==
    ASSUME SchedInv, NEW c \in CPU, ContextSwitch(c)
    PROVE  SchedInv'
<1>1. current[c] # NoTask => status[current[c]] = "Running"
  BY DEF SchedInv, RunningOutsideSwitch, ContextSwitch
<1>2. saved' \in [Index -> BOOLEAN]
  BY DEF ContextSwitch, SavedBySwitch
<1>3. old' \in [CPU -> Index \cup {NoTask}] /\ dangling' \subseteq CPU
  BY DEF ContextSwitch, SchedInv, TypeOK
<1> QED
  BY <1>1, <1>2, <1>3, ReturnKeepsInv DEF ContextSwitch

LEMMA NextInv == SchedInv /\ [Next]_vars => SchedInv'
<1> SUFFICES ASSUME SchedInv, [Next]_vars PROVE SchedInv'
  OBVIOUS
<1>1. ASSUME NEW c \in CPU, Kernel(c) PROVE SchedInv'
  <2>1. CASE StartLoop(c)
    <3>1. UNCHANGED <<current, kernel_stack, user_stack, intr, old, fresh>>
      BY <2>1 DEF StartLoop, percpu
    <3> QED
      BY <2>1, <3>1, AddKeepsInv DEF StartLoop, LoopStart
  <2> QED
    BY <1>1, <2>1, SwitchKeepsInv, ContextSwitchKeepsInv DEF Kernel
<1>2. ASSUME NEW c \in CPU, User(c) PROVE SchedInv'
  <2>1. CASE SysAddTask(c)
    BY <2>1, AddKeepsInv DEF SysAddTask, EnterKernel
  <2>2. CASE SysTerminateTask(c)
    <3>1. PICK code \in UserCodes : TerminateTask(c, code)
      BY <2>2 DEF SysTerminateTask
    <3>2. code \in Codes
      BY DEF Codes
    <3> QED
      BY <2>2, <3>1, <3>2, TerminateKeepsInv DEF SysTerminateTask, EnterKernel
  <2>3. CASE Fault(c)
    <3>1. DEAD \in Codes
      BY DEF Codes
    <3> QED
      BY <2>3, <3>1, TerminateKeepsInv DEF Fault
  <2> QED
    BY <1>2, <2>1, <2>2, <2>3, EnterSwitchKeepsInv DEF User
<1>3. CASE UNCHANGED vars
  BY <1>3 DEF vars, table, percpu, local, SchedInv, TypeOK, TableEnd,
       OneCpuPerTask, StatusMatchesCpus, RunningOutsideSwitch,
       UserModeIsUser, StacksOwned
<1> QED
  BY <1>1, <1>2, <1>3, EnterSwitchKeepsInv DEF Next

-----------------------------------------------------------------------------
(* The inductive invariant holds in every reachable state.                 *)
THEOREM SchedInvariant == Spec => []SchedInv
BY InitInv, NextInv, PTL DEF Spec

(* Type correctness of the scheduler's state.                              *)
THEOREM TypeCorrect == Spec => []TypeOK
<1>1. SchedInv => TypeOK
  BY DEF SchedInv
<1> QED
  BY <1>1, SchedInvariant, PTL

(* switch_task, terminate_task and the exception handler keep every task   *)
(* on at most one CPU, for any number of CPUs and tasks.                   *)
THEOREM OneCpuPerTaskAlways == Spec => []OneCpuPerTask
<1>1. SchedInv => OneCpuPerTask
  BY DEF SchedInv
<1> QED
  BY <1>1, SchedInvariant, PTL

(* No live task is lost and none is Ready while a CPU has it.              *)
THEOREM StatusMatchesCpusAlways == Spec => []StatusMatchesCpus
<1>1. SchedInv => StatusMatchesCpus
  BY DEF SchedInv
<1> QED
  BY <1>1, SchedInvariant, PTL

(* A CPU that runs a user task takes its system calls on that task's       *)
(* kernel stack and returns to that task's user stack.                     *)
THEOREM StacksFollowTaskAlways == Spec => []StacksFollowTask
<1>1. SchedInv => StacksFollowTask
  <2> SUFFICES ASSUME SchedInv, NEW c \in CPU, pc[c] = "run"
               PROVE  kernel_stack[c] = current[c] /\ user_stack[c] = current[c]
    BY DEF StacksFollowTask
  <2>1. current[c] \in Index \ {0}
    BY DEF SchedInv, TypeOK, UserModeIsUser
  <2> QED
    BY <2>1 DEF SchedInv, StacksOwned, Owner
<1> QED
  BY <1>1, SchedInvariant, PTL

(* Termination is final and the exit code read by the parent is stable.    *)
THEOREM TerminatedForeverAlways == Spec => TerminatedForever
<1> DEFINE Kept == \A t \in Index : status[t] = "Terminated" =>
                     status'[t] = "Terminated" /\ exit_code'[t] = exit_code[t]
<1>1. SchedInv /\ [Next]_vars => [Kept]_vars
  <2> SUFFICES ASSUME SchedInv, Next, NEW t \in Index, status[t] = "Terminated"
               PROVE  status'[t] = "Terminated" /\ exit_code'[t] = exit_code[t]
    OBVIOUS
  <2>1. PICK c \in CPU : Kernel(c) \/ User(c) \/ Wake(c)
    BY DEF Next
  <2>2. CASE AddNewUserTask
    <3>1. t # len
      BY DEF SchedInv, TypeOK, TableEnd
    <3> QED
      BY <2>2, <3>1 DEF AddNewUserTask, SchedInv, TypeOK
  <2>3. CASE SwitchTask(c)
    <3>1. CASE status' = status /\ exit_code' = exit_code
      BY <3>1
    <3>2. ASSUME NEW next \in Index, IsNext(c, next), Dispatch(c, next)
          PROVE  status'[t] = "Terminated" /\ exit_code'[t] = exit_code[t]
      <4>1. t # next
        BY <3>2, NextIsReady
      <4> QED
        BY <3>2, <4>1 DEF Dispatch, StatusOfOld
    <3> QED
      BY <2>3, <3>1, <3>2 DEF SwitchTask, NothingReady, table
  <2>4. ASSUME NEW code, pc[c] = "run", TerminateTask(c, code)
        PROVE  status'[t] = "Terminated" /\ exit_code'[t] = exit_code[t]
    <3>1. t # current[c]
      BY <2>4, IndexFacts DEF SchedInv, RunningOutsideSwitch, UserModeIsUser
    <3> QED
      BY <2>4, <3>1 DEF TerminateTask, SchedInv, TypeOK
  <2>5. CASE Fault(c) \/ SysTerminateTask(c)
    BY <2>4, <2>5 DEF Fault, SysTerminateTask, EnterKernel
  <2>6. CASE ContextSwitch(c) \/ Wake(c) \/ SysSwitchTask(c) \/ SysRunApScheduler(c)
    BY <2>6 DEF ContextSwitch, Wake, SysSwitchTask, SysRunApScheduler, table
  <2> QED
    BY <2>1, <2>2, <2>3, <2>5, <2>6 DEF Kernel, User, StartLoop, SysAddTask
<1> QED
  BY <1>1, SchedInvariant, PTL DEF Spec, TerminatedForever

-----------------------------------------------------------------------------
(* The boot processor alone.  The window between drop(guard) and           *)
(* context_switch is then harmless: every Ready task but the one being     *)
(* switched away from has its RSP saved, and task 0 is always there to be  *)
(* switched to.  The other processors are in their first loop.             *)
UniInv ==
    /\ \A c \in CPU \ {BSP} : pc[c] \in {"switch", "hlt"}
    /\ dangling = {}
    /\ \A t \in Index :
          status[t] = "Ready" /\ ~(pc[BSP] = "unlocked" /\ old[BSP] = t)
             => saved[t] = TRUE
    /\ pc[BSP] = "unlocked" => fresh[BSP] = TRUE
    /\ pc[BSP] # "halted"
    /\ status[0] \in {"Ready", "Running"}

LEMMA UniInitInv == Init => UniInv
BY ConstantsAssumption DEF Init, UniInv, Index

LEMMA UniNextInv ==
    ASSUME Alone, SchedInv, UniInv, Kernel(BSP) \/ User(BSP) \/ Wake(BSP)
    PROVE  UniInv'
<1> USE ConstantsAssumption, IndexFacts
<1>1. \A c \in CPU \ {BSP} : pc'[c] \in {"switch", "hlt"}
  <2>1. \A c \in CPU \ {BSP} : pc'[c] = pc[c]
    <3>1. CASE StartLoop(BSP)
      BY <3>1 DEF StartLoop, SchedInv, TypeOK
    <3>2. CASE ContextSwitch(BSP)
      BY <3>2 DEF ContextSwitch, Return, SchedInv, TypeOK
    <3>3. CASE SwitchTask(BSP)
      <4>1. CASE NothingReady(BSP)
        BY <4>1 DEF NothingReady, Return, SchedInv, TypeOK
      <4>2. CASE Return(BSP, current[BSP])
        BY <4>2 DEF Return, SchedInv, TypeOK
      <4>3. ASSUME NEW next \in Index, Dispatch(BSP, next)
            PROVE  \A c \in CPU \ {BSP} : pc'[c] = pc[c]
        BY <4>3 DEF Dispatch, SchedInv, TypeOK
      <4> QED
        BY <3>3, <4>1, <4>2, <4>3 DEF SwitchTask
    <3>4. CASE SysAddTask(BSP)
      BY <3>4 DEF SysAddTask
    <3>5. CASE SysSwitchTask(BSP) \/ SysRunApScheduler(BSP) \/ Wake(BSP)
      BY <3>5 DEF SysSwitchTask, SysRunApScheduler, Wake, SchedInv, TypeOK
    <3>6. ASSUME NEW code, TerminateTask(BSP, code)
          PROVE  \A c \in CPU \ {BSP} : pc'[c] = pc[c]
      BY <3>6 DEF TerminateTask, SchedInv, TypeOK
    <3>7. CASE SysTerminateTask(BSP) \/ Fault(BSP)
      BY <3>6, <3>7 DEF SysTerminateTask, Fault
    <3> QED
      BY <3>1, <3>2, <3>3, <3>4, <3>5, <3>7 DEF Kernel, User
  <2> QED
    BY <2>1 DEF UniInv
<1>2. CASE AddNewUserTask /\ pc[BSP] \in {"boot", "run"} /\ pc'[BSP] \in {"switch", "run"}
  <2>1. len \in Index /\ len # 0
    BY <1>2 DEF AddNewUserTask, SchedInv, TypeOK, Index
  <2>2. dangling' = {}
    BY <1>2 DEF AddNewUserTask, UniInv
  <2>3. \A t \in Index : /\ status'[t] = IF t = len THEN "Ready" ELSE status[t]
                         /\ t = len => saved'[t] = TRUE
                         /\ t # len => saved'[t] = saved[t]
    BY <1>2, <2>1 DEF AddNewUserTask, SchedInv, TypeOK
  <2> QED
    BY <1>1, <1>2, <2>1, <2>2, <2>3 DEF UniInv
<1>3. CASE SwitchTask(BSP)
  <2>1. pc[BSP] = "switch"
    BY <1>3 DEF SwitchTask
  <2>2. CASE NothingReady(BSP) /\ ReadyTasks = {}
    <3>1. status[0] = "Running"
      BY <2>2 DEF UniInv, ReadyTasks
    <3>2. current[BSP] = 0
      BY <3>1 DEF SchedInv, StatusMatchesCpus, Alone, NoTask, Index
    <3>3. Return(BSP, current[BSP])
      BY <2>2, <3>1, <3>2 DEF NothingReady
    <3>4. pc'[BSP] \in {"hlt", "run"}
      BY <3>3 DEF Return, SchedInv, TypeOK
    <3> QED
      BY <2>1, <2>2, <3>4, <1>1 DEF NothingReady, table, UniInv
  <2>3. ASSUME NEW next \in Index, IsNext(BSP, next),
               IF next = current[BSP]
               THEN /\ Return(BSP, current[BSP])
                    /\ UNCHANGED <<table, percpu, old, fresh, dangling>>
               ELSE Dispatch(BSP, next)
        PROVE  UniInv'
    <3>1. status[next] = "Ready"
      BY <2>3, NextIsReady
    <3>2. next # current[BSP]
      BY <3>1 DEF SchedInv, StatusMatchesCpus
    <3>3. Dispatch(BSP, next)
      BY <2>3, <3>2
    <3>4. saved[next] = TRUE
      BY <2>1, <3>1 DEF UniInv
    <3>5. /\ pc'[BSP] = "unlocked" /\ old'[BSP] = current[BSP]
          /\ fresh'[BSP] = TRUE
          /\ saved' = saved /\ dangling' = dangling
      BY <3>3, <3>4 DEF Dispatch, SchedInv, TypeOK
    <3>6. \A t \in Index : status'[t] = "Ready" => t = current[BSP] \/ status[t] = "Ready"
      BY <3>3 DEF Dispatch
    <3>7. status'[0] \in {"Ready", "Running"}
      BY <3>3 DEF Dispatch, StatusOfOld, UniInv
    <3> QED
      BY <1>1, <2>1, <3>5, <3>6, <3>7 DEF UniInv
  <2> QED
    BY <1>3, <2>2, <2>3 DEF SwitchTask
<1>4. CASE ContextSwitch(BSP)
  <2>1. /\ pc[BSP] = "unlocked" /\ fresh[BSP] = TRUE
        /\ saved' = SavedBySwitch(BSP)
        /\ dangling' = {} /\ fresh' = fresh /\ status' = status
    BY <1>4 DEF ContextSwitch, UniInv
  <2>2. pc'[BSP] \in {"hlt", "run"}
    BY <1>4, <2>1 DEF ContextSwitch, Return, SchedInv, TypeOK
  <2>3. \A t \in Index : status[t] = "Ready" => t # current[BSP]
    BY DEF SchedInv, StatusMatchesCpus
  <2>4. ASSUME NEW t \in Index, status[t] = "Ready" PROVE saved'[t] = TRUE
    <3>1. CASE t = old[BSP]
      BY <2>1, <3>1 DEF SavedBySwitch, UniInv
    <3>2. CASE t # old[BSP]
      BY <2>1, <2>3, <2>4, <3>2 DEF SavedBySwitch, UniInv
    <3> QED
      BY <3>1, <3>2
  <2> QED
    BY <1>1, <2>1, <2>2, <2>4 DEF UniInv
<1>5. ASSUME NEW code, pc[BSP] = "run", TerminateTask(BSP, code)
      PROVE  UniInv'
  <2>1. current[BSP] \in Index \ {0}
    BY <1>5 DEF SchedInv, TypeOK, UserModeIsUser
  <2> QED
    BY <1>1, <1>5, <2>1 DEF TerminateTask, UniInv, SchedInv, TypeOK
<1>6. CASE Wake(BSP) \/ SysSwitchTask(BSP) \/ SysRunApScheduler(BSP)
  <2>1. /\ UNCHANGED <<status, saved, old, fresh, dangling>>
        /\ pc[BSP] \in {"hlt", "run"} /\ pc'[BSP] = "switch"
    BY <1>6 DEF Wake, SysSwitchTask, SysRunApScheduler, EnterKernel, table,
                SchedInv, TypeOK
  <2> QED
    BY <1>1, <2>1 DEF UniInv
<1>7. CASE StartLoop(BSP) \/ SysAddTask(BSP)
  BY <1>2, <1>7 DEF StartLoop, LoopStart, SysAddTask, EnterKernel, SchedInv, TypeOK
<1>8. CASE SysTerminateTask(BSP) \/ Fault(BSP)
  BY <1>5, <1>8 DEF SysTerminateTask, Fault, EnterKernel
<1> QED
  BY <1>3, <1>4, <1>6, <1>7, <1>8 DEF Kernel, User

(* A processor without a task finds nothing to do, or takes its first.    *)
LEMMA UniOtherInv ==
    ASSUME Alone, SchedInv, UniInv, NEW c \in CPU \ {BSP}, Kernel(c) \/ User(c) \/ Wake(c)
    PROVE  Alone' => UniInv'
<1> USE ConstantsAssumption
<1>1. pc[c] \in {"switch", "hlt"} /\ current[c] = NoTask
  BY DEF UniInv, Alone
<1>2. SwitchTask(c)
  BY <1>1 DEF Kernel, User, Wake, StartLoop, ContextSwitch, SysSwitchTask, SysAddTask,
              SysRunApScheduler, SysTerminateTask, Fault, EnterKernel
<1>3. CASE NothingReady(c)
  <2>1. Return(c, NoTask)
    BY <1>1, <1>3 DEF NothingReady
  <2>2. pc' = [pc EXCEPT ![c] = "hlt"]
    BY <2>1 DEF Return, InLoop
  <2>3. UNCHANGED <<status, saved, old, fresh, dangling>>
    BY <1>3 DEF NothingReady, table
  <2> QED
    BY <2>2, <2>3 DEF UniInv, SchedInv, TypeOK
<1>4. ASSUME NEW next \in Index, Dispatch(c, next)
      PROVE  ~Alone'
  <2>1. current'[c] = next
    BY <1>4 DEF Dispatch, SchedInv, TypeOK
  <2> QED
    BY <2>1 DEF Alone, Index, NoTask
<1>5. ASSUME NEW next \in Index PROVE next # current[c]
  BY <1>1 DEF Index, NoTask
<1> QED
  BY <1>2, <1>3, <1>4, <1>5 DEF SwitchTask

LEMMA AloneBefore ==
    ASSUME SchedInv, Next, Alone'
    PROVE  Alone
<1> USE ConstantsAssumption
<1>1. PICK c \in CPU : Kernel(c) \/ User(c) \/ Wake(c)
  BY DEF Next
<1>2. CASE current' = current
  BY <1>2 DEF Alone
<1>3. CASE \E next \in Index : Dispatch(c, next)
  <2>1. PICK next \in Index : Dispatch(c, next)
    BY <1>3
  <2>2. current' = [current EXCEPT ![c] = next]
    BY <2>1 DEF Dispatch
  <2>3. c = BSP
    BY <2>2 DEF Alone, Index, NoTask, SchedInv, TypeOK
  <2> QED
    BY <2>2, <2>3 DEF Alone, SchedInv, TypeOK
<1>4. CASE SwitchTask(c)
  BY <1>2, <1>3, <1>4 DEF SwitchTask, NothingReady, percpu
<1>5. CASE User(c) \/ Wake(c) \/ StartLoop(c) \/ ContextSwitch(c)
  BY <1>2, <1>5 DEF User, SysSwitchTask, SysAddTask, SysRunApScheduler, SysTerminateTask, Fault,
                    TerminateTask, Wake, StartLoop, ContextSwitch, percpu
<1> QED
  BY <1>1, <1>4, <1>5 DEF Kernel

(* As long as no other processor has taken a task, and so for ever on a    *)
(* machine with one processor, every context switch resumes a saved        *)
(* context and no processor ends in an endless hlt.                        *)
THEOREM BootProcessorAlone == Spec => [](FreshWhileAlone /\ NoHaltWhileAlone)
<1>1. SchedInv /\ (Alone => UniInv) /\ [Next]_vars => (Alone => UniInv)'
  <2>1. CASE UNCHANGED vars
    BY <2>1 DEF vars, table, percpu, local, UniInv, Alone
  <2>2. ASSUME SchedInv, Alone => UniInv, Next, Alone'
        PROVE  UniInv'
    <3>1. Alone
      BY <2>2, AloneBefore
    <3>2. PICK c \in CPU : Kernel(c) \/ User(c) \/ Wake(c)
      BY <2>2 DEF Next
    <3> QED
      BY <2>2, <3>1, <3>2, UniNextInv, UniOtherInv
  <2> QED
    BY <2>1, <2>2
<1>2. (Alone => UniInv) => FreshWhileAlone /\ NoHaltWhileAlone
  BY DEF UniInv, FreshDispatch, FreshWhileAlone, NoHaltWhileAlone
<1> QED
  BY <1>1, <1>2, UniInitInv, SchedInvariant, PTL DEF Spec
=============================================================================
