-------------------------------- MODULE Nvme --------------------------------
(***************************************************************************)
(* The NVMe driver of src/src/nvme.rs and the controller it talks to: the  *)
(* bring-up, the submission and completion queues in memory with their     *)
(* doorbells, and the shutdown another CPU may start at any moment.        *)
(*                                                                         *)
(* The file system calls the driver with FS_LOCK held and the bring-up     *)
(* runs alone, so one command at a time is under way.  The controller      *)
(* (external) fetches, executes and answers in its own time.               *)
(*                                                                         *)
(* Abstractions.  A command is its command_id: 1 identify, 2 and 3 create  *)
(* the I/O queues, 100 read, 101 write.  What a command transfers is left  *)
(* out (FatFs has the disk), and so is the status of a completion, which   *)
(* the driver does not look at: nvme_read and nvme_write return 0.         *)
(***************************************************************************)
EXTENDS Integers

CONSTANT QueueSize      \* entries of each queue (64)

ASSUME NvmeAssumption == QueueSize \in Nat /\ QueueSize >= 2

Queue == {"admin", "io"}
Entry == 0 .. QueueSize - 1
NoCommand == 0
Identify == 1
CreateCQ == 2
CreateSQ == 3
IoCommands == {100, 101}
Command == {Identify, CreateCQ, CreateSQ} \cup IoCommands

VARIABLES
    npc,      \* where the driver is
    cid,      \* the command it waits for
    tail,     \* queue.tail, also what the tail doorbell holds
    head,     \* queue.head, also what the head doorbell holds
    phase,    \* queue.phase
    sq,       \* the submission entries
    cq,       \* the completion entries; new: posted and not yet consumed
    nsid,     \* NVME_CTX.nsid
    en,       \* CC.EN
    rdy,      \* CSTS.RDY
    shn,      \* CC.SHN says normal shutdown
    shst,     \* CSTS.SHST says complete
    spc,      \* where nvme::shutdown is
    fetched,  \* the controller's submission head
    posted,   \* the controller's completion tail
    dphase,   \* the phase tag it writes
    running   \* the command it executes

driver == <<npc, cid, tail, head, phase, sq, nsid, en, shn, spc>>
device == <<rdy, shst, fetched, posted, dphase, running>>
nvmeVars == <<driver, cq, device>>

Blank == [cid |-> NoCommand, phase |-> 0, new |-> FALSE]
Zeroed == [i \in Entry |-> Blank]

(* The kernel's image: zeroed queues.  The firmware may have left the      *)
(* controller enabled.                                                     *)
NvmeInit ==
    /\ npc = "probe" /\ cid = NoCommand
    /\ tail = [q \in Queue |-> 0] /\ head = [q \in Queue |-> 0]
    /\ phase = [q \in Queue |-> 1]
    /\ sq = [q \in Queue |-> [i \in Entry |-> NoCommand]]
    /\ cq = [q \in Queue |-> Zeroed]
    /\ nsid = 0
    /\ en \in BOOLEAN /\ rdy = en
    /\ shn = FALSE /\ shst = FALSE /\ spc = "no"
    /\ fetched = [q \in Queue |-> 0] /\ posted = [q \in Queue |-> 0]
    /\ dphase = [q \in Queue |-> 1]
    /\ running = [q \in Queue |-> NoCommand]

Used(c) == IF c \in IoCommands THEN "io" ELSE "admin"
Step1(i) == IF i + 1 >= QueueSize THEN 0 ELSE i + 1

-----------------------------------------------------------------------------
(* nvme_submit_command: the entry, the tail, the doorbell.                 *)
Submit(c) ==
    LET q == Used(c) IN
    /\ sq' = [sq EXCEPT ![q][tail[q]] = c]
    /\ tail' = [tail EXCEPT ![q] = Step1(@)]
    /\ cid' = c
    /\ npc' = "wait"

(* init: CC.EN is cleared if it is set.                                    *)
InitDisable ==
    /\ npc = "probe"
    /\ en' = FALSE
    /\ npc' = "disabling"
    /\ UNCHANGED <<cid, tail, head, phase, sq, cq, nsid, shn, spc, device>>

(* RDY is 0: the admin queue is zeroed and described, EN is set.           *)
InitEnable ==
    /\ npc = "disabling" /\ ~rdy
    /\ cq' = [cq EXCEPT !["admin"] = Zeroed]
    /\ sq' = [sq EXCEPT !["admin"] = [i \in Entry |-> NoCommand]]
    /\ head' = [head EXCEPT !["admin"] = 0]
    /\ tail' = [tail EXCEPT !["admin"] = 0]
    /\ phase' = [phase EXCEPT !["admin"] = 1]
    /\ en' = TRUE
    /\ npc' = "enabling"
    /\ UNCHANGED <<cid, nsid, shn, spc, device>>

(* RDY is 1: nvme_identify_controller.                                     *)
InitIdentify ==
    /\ npc = "enabling" /\ rdy
    /\ Submit(Identify)
    /\ UNCHANGED <<head, phase, cq, nsid, en, shn, spc, device>>

(* nvme_setup_io_queues, its two commands, its queue structure, and        *)
(* nvme_identify_namespace, which selects namespace 1.                     *)
InitQueues ==
    /\ npc = "next"
    /\ \/ /\ cid = Identify /\ Submit(CreateCQ)
          /\ UNCHANGED <<head, phase, nsid>>
       \/ /\ cid = CreateCQ /\ Submit(CreateSQ)
          /\ UNCHANGED <<head, phase, nsid>>
       \/ /\ cid = CreateSQ
          /\ head' = [head EXCEPT !["io"] = 0]
          /\ tail' = [tail EXCEPT !["io"] = 0]
          /\ phase' = [phase EXCEPT !["io"] = 1]
          /\ nsid' = 1
          /\ npc' = "idle" /\ cid' = NoCommand
          /\ UNCHANGED sq
    /\ UNCHANGED <<cq, en, shn, spc, device>>

(* nvme_read and nvme_write, for which fs.rs asks default_nsid first.      *)
ReadWrite(c) ==
    /\ npc = "idle" /\ nsid # 0
    /\ Submit(c)
    /\ UNCHANGED <<head, phase, cq, nsid, en, shn, spc, device>>

(* nvme_wait_for_completion: the entry at the head is consumed when its    *)
(* phase tag is the queue's; the call returns when it is the awaited one.  *)
LooksNew(q) == cq[q][head[q]].phase = phase[q]

FlippedNever(q) == phase[q]
Flipped(q) == IF head[q] + 1 >= QueueSize THEN 1 - phase[q] ELSE phase[q]

Continue(c, got) == IF got # c THEN "wait"
                 ELSE IF c \in IoCommands THEN "idle" ELSE "next"

Consumed(entry) == [cid |-> entry.cid, phase |-> entry.phase, new |-> FALSE]

WaitForCompletion ==
    LET q == Used(cid) IN
    /\ npc = "wait" /\ LooksNew(q)
    /\ head' = [head EXCEPT ![q] = Step1(@)]
    /\ phase' = [phase EXCEPT ![q] = Flipped(q)]
    /\ cq' = [cq EXCEPT ![q][head[q]] = Consumed(@)]
    /\ npc' = Continue(cid, cq[q][head[q]].cid)
    /\ UNCHANGED <<cid, tail, sq, nsid, en, shn, spc, device>>

-----------------------------------------------------------------------------
(* shutdown, on any CPU, with no lock: the request, then at most ten       *)
(* million polls of CSTS.  Only a user task asks for it, after the         *)
(* bring-up.                                                               *)
ShutdownRequest ==
    /\ spc = "no" /\ nsid # 0
    /\ shn' = TRUE
    /\ spc' = "polling"
    /\ UNCHANGED <<npc, cid, tail, head, phase, sq, cq, nsid, en, device>>

ShutdownComplete ==
    /\ spc = "polling" /\ shst
    /\ spc' = "complete"
    /\ UNCHANGED <<npc, cid, tail, head, phase, sq, cq, nsid, en, shn, device>>

ShutdownTimeout ==
    /\ spc = "polling" /\ ~shst
    /\ spc' = "timeout"
    /\ UNCHANGED <<npc, cid, tail, head, phase, sq, cq, nsid, en, shn, device>>

-----------------------------------------------------------------------------
(* The controller.                                                         *)

(* RDY follows EN; the reset forgets the queues.                           *)
DeviceReady ==
    /\ rdy # en /\ ~shst
    /\ rdy' = en
    /\ fetched' = [q \in Queue |-> 0] /\ posted' = [q \in Queue |-> 0]
    /\ dphase' = [q \in Queue |-> 1]
    /\ running' = [q \in Queue |-> NoCommand]
    /\ UNCHANGED <<driver, cq, shst>>

DeviceFetch(q) ==
    /\ rdy /\ en /\ ~shst
    /\ fetched[q] # tail[q] /\ running[q] = NoCommand
    /\ running' = [running EXCEPT ![q] = sq[q][fetched[q]]]
    /\ fetched' = [fetched EXCEPT ![q] = Step1(@)]
    /\ UNCHANGED <<driver, cq, rdy, shst, posted, dphase>>

(* A completion is posted if its queue has room.                           *)
DevicePost(q) ==
    /\ rdy /\ en /\ ~shst
    /\ running[q] # NoCommand /\ Step1(posted[q]) # head[q]
    /\ cq' = [cq EXCEPT ![q][posted[q]] =
                [cid |-> running[q], phase |-> dphase[q], new |-> TRUE]]
    /\ posted' = [posted EXCEPT ![q] = Step1(@)]
    /\ dphase' = [dphase EXCEPT ![q] = IF posted[q] + 1 >= QueueSize THEN 1 - @ ELSE @]
    /\ running' = [running EXCEPT ![q] = NoCommand]
    /\ UNCHANGED <<driver, rdy, shst, fetched>>

(* The controller flushes and stops.                                       *)
DeviceShutdown ==
    /\ shn /\ ~shst
    /\ shst' = TRUE
    /\ UNCHANGED <<driver, cq, rdy, fetched, posted, dphase, running>>

DriverStep ==
    \/ InitDisable \/ InitEnable \/ InitIdentify \/ InitQueues
    \/ WaitForCompletion
ShutdownStep == ShutdownComplete \/ ShutdownTimeout
DeviceStep == DeviceReady \/ \E q \in Queue : DeviceFetch(q) \/ DevicePost(q)

NvmeNext ==
    \/ DriverStep \/ (\E c \in IoCommands : ReadWrite(c))
    \/ ShutdownRequest \/ ShutdownStep
    \/ DeviceStep \/ DeviceShutdown

NvmeSpec == NvmeInit /\ [][NvmeNext]_nvmeVars

(* The CPU that called the driver runs on, shutdown's polls are counted,   *)
(* and the controller does what it was told.                               *)
NvmeFairness ==
    /\ WF_nvmeVars(DriverStep) /\ WF_nvmeVars(ShutdownStep)
    /\ WF_nvmeVars(DeviceStep)

-----------------------------------------------------------------------------
(* State domains; every index is one of the queue's entries, and a caller  *)
(* that waits has a command.                                               *)
NvmeTypeOK ==
    /\ npc \in {"probe", "disabling", "enabling", "next", "wait", "idle"}
    /\ cid \in Command \cup {NoCommand}
    /\ npc \in {"wait", "next"} => cid # NoCommand
    /\ tail \in [Queue -> Entry] /\ head \in [Queue -> Entry]
    /\ fetched \in [Queue -> Entry] /\ posted \in [Queue -> Entry]
    /\ phase \in [Queue -> 0 .. 1] /\ dphase \in [Queue -> 0 .. 1]
    /\ sq \in [Queue -> [Entry -> Command \cup {NoCommand}]]
    /\ cq \in [Queue -> [Entry -> [cid : Command \cup {NoCommand},
                                   phase : 0 .. 1, new : BOOLEAN]]]
    /\ running \in [Queue -> Command \cup {NoCommand}]
    /\ nsid \in 0 .. 1
    /\ spc \in {"no", "polling", "complete", "timeout"}
    /\ en \in BOOLEAN /\ rdy \in BOOLEAN /\ shn \in BOOLEAN /\ shst \in BOOLEAN

(* The phase tag tells the truth through every wrap of both queues: the    *)
(* entry the driver looks at has its phase exactly when the controller has *)
(* posted it and nobody has consumed it, so a call never returns on the    *)
(* completion of an earlier one, whose id is the same.                     *)
PhaseTellsNew == \A q \in Queue : LooksNew(q) <=> cq[q][head[q]].new

Submitted(q) == fetched[q] # tail[q]
Executing(q) == running[q] # NoCommand
Answered(q) == cq[q][head[q]].new

(* The driver waits exactly when its command is somewhere on the way       *)
(* (submitted, executing, or answered and not consumed), and no other      *)
(* command is: a call returns after the controller is done with its        *)
(* buffer, never before, and the queues cannot overflow.                   *)
OneUnderWay ==
    \A q \in Queue :
        /\ (npc = "wait" /\ q = Used(cid)) <=> Submitted(q) \/ Executing(q) \/ Answered(q)
        /\ Submitted(q) => /\ tail[q] = Step1(fetched[q]) /\ sq[q][fetched[q]] = cid
                           /\ ~Executing(q) /\ ~Answered(q)
        /\ Executing(q) => running[q] = cid /\ ~Answered(q)
        /\ Answered(q) => cq[q][head[q]].cid = cid
        /\ \A i \in Entry \ {head[q]} : ~cq[q][i].new

(* nvme_wait_for_completion returns on the completion of its own command   *)
(* and on no other, through every wrap.                                    *)
CompletionsMatch == PhaseTellsNew /\ OneUnderWay

(* Every call of the driver, and the bring-up, comes to its end unless the *)
(* machine is being shut down.                                             *)
CallReturns == npc # "idle" ~> npc = "idle" \/ shn
=============================================================================
