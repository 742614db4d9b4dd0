----------------------------- MODULE NvmeProofs -----------------------------
(***************************************************************************)
(* For queues of every size: the phase tags of the NVMe completion queues  *)
(* tell the driver the truth, and one command at a time is under way.      *)
(***************************************************************************)
EXTENDS Nvme, TLAPS

Starting == npc \in {"probe", "disabling", "enabling"}

(* A queue as the kernel image has it, seen by both sides.                 *)
Fresh(q) ==
    /\ tail[q] = 0 /\ head[q] = 0 /\ phase[q] = 1
    /\ fetched[q] = 0 /\ posted[q] = 0 /\ dphase[q] = 1
    /\ running[q] = NoCommand /\ cq[q] = Zeroed

(* How far the bring-up is.  After it the controller is on, and until the  *)
(* namespace is known the I/O queue is untouched and nobody shuts down.    *)
StagesInv ==
    /\ Starting => Fresh("admin")
    /\ npc = "enabling" => en
    /\ ~Starting => en /\ rdy
    /\ nsid = 0 => Fresh("io") /\ ~shn
    /\ npc = "next" => cid \in {Identify, CreateCQ, CreateSQ}
    /\ npc \in {"wait", "next"} /\ cid \notin IoCommands => nsid = 0
    /\ npc = "wait" /\ cid \in IoCommands => nsid # 0
    /\ Starting => nsid = 0
    /\ shst => shn

(* The completion entries before the head have the driver's phase, those   *)
(* after it the other one; the entry at the head has the driver's phase    *)
(* exactly when it is new, and then the controller is one entry ahead.     *)
Marked(entries, h, p) ==
    \A i \in Entry : /\ i < h => entries[i].phase = p
                     /\ i > h => entries[i].phase = 1 - p
                     /\ i # h => ~entries[i].new
RingInv(q) ==
    /\ Marked(cq[q], head[q], phase[q])
    /\ Answered(q) => /\ LooksNew(q)
                      /\ posted[q] = Step1(head[q]) /\ dphase[q] = Flipped(q)
    /\ ~Answered(q) => /\ cq[q][head[q]].phase = 1 - phase[q]
                       /\ posted[q] = head[q] /\ dphase[q] = phase[q]

(* One command at a time, of the caller that waits.                        *)
Waits(q) == npc = "wait" /\ q = Used(cid)
WayInv(q) ==
    /\ Waits(q) <=> Submitted(q) \/ Executing(q) \/ Answered(q)
    /\ Submitted(q) => /\ tail[q] = Step1(fetched[q]) /\ sq[q][fetched[q]] = cid
                       /\ ~Executing(q) /\ ~Answered(q)
    /\ Executing(q) => running[q] = cid /\ ~Answered(q)
    /\ Answered(q) => cq[q][head[q]].cid = cid

NvmeInv == NvmeTypeOK /\ StagesInv /\ \A q \in Queue : RingInv(q) /\ WayInv(q)

-----------------------------------------------------------------------------
(* The next entry of a queue is an entry, and another one.                 *)
LEMMA StepFacts ==
    ASSUME NEW i \in Entry
    PROVE  Step1(i) \in Entry /\ Step1(i) # i /\ 0 \in Entry
BY NvmeAssumption DEF Entry, Step1

(* What an entry at the head is changed to does not matter to the others.  *)
LEMMA MarkedAround ==
    ASSUME NEW old, NEW new, NEW h \in Entry, NEW p, Marked(old, h, p),
           \A i \in Entry : i # h => new[i] = old[i]
    PROVE  Marked(new, h, p)
<1> SUFFICES ASSUME NEW i \in Entry
             PROVE  /\ i < h => new[i].phase = p
                    /\ i > h => new[i].phase = 1 - p
                    /\ i # h => ~new[i].new
  BY DEF Marked
<1>1. i < h => i # h
  BY NvmeAssumption DEF Entry
<1>2. i > h => i # h
  BY NvmeAssumption DEF Entry
<1>3. i # h => new[i] = old[i]
  OBVIOUS
<1>4. /\ i < h => old[i].phase = p
      /\ i > h => old[i].phase = 1 - p
      /\ i # h => ~old[i].new
  BY DEF Marked
<1> QED
  BY <1>1, <1>2, <1>3, <1>4, Zenon

(* A head that moves over an entry of its own phase, now consumed.         *)
LEMMA MarkedMoves ==
    ASSUME NEW es, NEW h \in Entry, NEW p \in 0 .. 1, NEW next, NEW flipped,
           Marked(es, h, p), es[h].phase = p, ~es[h].new, next = Step1(h),
           flipped = IF h + 1 >= QueueSize THEN 1 - p ELSE p
    PROVE  /\ Marked(es, next, flipped)
           /\ es[next].phase = 1 - flipped /\ ~es[next].new
<1>1. /\ Entry = 0 .. QueueSize - 1 /\ QueueSize \in Nat /\ QueueSize >= 2
      /\ next \in Entry /\ next # h
  BY NvmeAssumption, StepFacts DEF Entry
<1>2. ASSUME NEW i \in Entry
      PROVE  /\ ~es[i].new
             /\ i <= h => es[i].phase = p
             /\ i > h => es[i].phase = 1 - p
  <2>1. CASE i = h
    BY <1>1, <2>1
  <2>2. CASE i # h
    <3>1. i <= h => i < h
      BY <1>1, <2>2
    <3> QED
      BY <2>2, <3>1 DEF Marked
  <2> QED
    BY <2>1, <2>2
<1>3. CASE h + 1 >= QueueSize
  <2>1. next = 0 /\ flipped = 1 - p /\ 1 - flipped = p
    BY <1>3 DEF Step1
  <2>2. ASSUME NEW i \in Entry PROVE i <= h /\ ~(i < next)
    BY <1>1, <1>3, <2>1
  <2>3. ASSUME NEW i \in Entry PROVE es[i].phase = 1 - flipped /\ ~es[i].new
    BY <1>2, <2>1, <2>2
  <2> QED
    BY <1>1, <2>2, <2>3 DEF Marked
<1>4. CASE ~(h + 1 >= QueueSize)
  <2>1. next = h + 1 /\ flipped = p
    BY <1>4 DEF Step1
  <2>2. ASSUME NEW i \in Entry PROVE (i < next => i <= h) /\ (i >= next => i > h)
    BY <1>1, <2>1
  <2>3. ASSUME NEW i \in Entry
        PROVE  /\ ~es[i].new
               /\ i < next => es[i].phase = flipped
               /\ i >= next => es[i].phase = 1 - flipped
    BY <1>2, <2>1, <2>2
  <2>4. (\A i \in Entry : i > next => i >= next) /\ next >= next
    BY <1>1
  <2> QED
    BY <1>1, <2>3, <2>4 DEF Marked
<1> QED
  BY <1>3, <1>4

(* The ring of a queue that a step leaves alone.                           *)
LEMMA RingUntouched ==
    ASSUME NEW q \in Queue, RingInv(q), head'[q] = head[q], phase'[q] = phase[q],
           cq'[q] = cq[q], posted'[q] = posted[q], dphase'[q] = dphase[q]
    PROVE  RingInv(q)'
BY DEF RingInv, Answered, LooksNew, Flipped, Marked

(* Entries that were never written, seen by a driver that expects 1.       *)
LEMMA MarkedZeroed == /\ Marked(Zeroed, 0, 1)
                      /\ Zeroed[0].phase = 1 - 1 /\ ~Zeroed[0].new
<1>1. 0 \in Entry /\ \A i \in Entry : ~(i < 0)
  BY NvmeAssumption DEF Entry
<1>2. \A i \in Entry : Zeroed[i].phase = 0 /\ ~Zeroed[i].new
  BY DEF Zeroed, Blank
<1> QED
  BY <1>1, <1>2 DEF Marked

(* A fresh queue has nothing under way.                                    *)
LEMMA FreshFacts ==
    ASSUME NEW q \in Queue, Fresh(q)
    PROVE  RingInv(q) /\ ~Submitted(q) /\ ~Executing(q) /\ ~Answered(q)
<1>1. ~Submitted(q) /\ ~Executing(q) /\ ~Answered(q)
  BY MarkedZeroed DEF Fresh, Submitted, Executing, Answered
<1>2. RingInv(q)
  BY <1>1, MarkedZeroed DEF Fresh, RingInv
<1> QED
  BY <1>1, <1>2

LEMMA NvmeInitInv == NvmeInit => NvmeInv
<1> SUFFICES ASSUME NvmeInit PROVE NvmeInv
  OBVIOUS
<1>1. 0 \in Entry
  BY NvmeAssumption DEF Entry
<1>2. NvmeTypeOK
  <2>1. en \in BOOLEAN /\ rdy \in BOOLEAN /\ shn \in BOOLEAN /\ shst \in BOOLEAN
    BY Zenon DEF NvmeInit
  <2>2. cq \in [Queue -> [Entry -> [cid : Command \cup {NoCommand}, phase : 0 .. 1, new : BOOLEAN]]]
    BY DEF NvmeInit, Zeroed, Blank
  <2> QED
    BY <1>1, <2>1, <2>2 DEF NvmeInit, NvmeTypeOK, Command, NoCommand
<1>3. \A q \in Queue : Fresh(q)
  BY DEF NvmeInit, Fresh
<1>4. StagesInv
  BY <1>3 DEF NvmeInit, StagesInv, Starting, Queue
<1>5. \A q \in Queue : RingInv(q) /\ WayInv(q)
  BY <1>3, FreshFacts DEF WayInv, Waits, NvmeInit
<1> QED
  BY <1>2, <1>4, <1>5 DEF NvmeInv
-----------------------------------------------------------------------------
(* Types are kept by every step.                                           *)
CompletionEntry == [cid : Command \cup {NoCommand}, phase : 0 .. 1, new : BOOLEAN]

LEMMA SubmitTypes ==
    ASSUME NvmeTypeOK, NEW c \in Command, Submit(c)
    PROVE  /\ sq' \in [Queue -> [Entry -> Command \cup {NoCommand}]]
           /\ tail' \in [Queue -> Entry] /\ cid' \in Command /\ cid' # NoCommand /\ npc' = "wait"
<1>1. Used(c) \in Queue /\ tail[Used(c)] \in Entry /\ Step1(tail[Used(c)]) \in Entry
  BY StepFacts DEF NvmeTypeOK, Used, Queue
<1>2. c # NoCommand
  BY DEF Command, NoCommand, Identify, CreateCQ, CreateSQ, IoCommands
<1> QED
  BY <1>1, <1>2 DEF NvmeTypeOK, Submit

LEMMA NvmeTypes == NvmeInv /\ [NvmeNext]_nvmeVars => NvmeTypeOK'
<1> SUFFICES ASSUME NvmeInv, [NvmeNext]_nvmeVars PROVE NvmeTypeOK'
  OBVIOUS
<1>0. NvmeTypeOK /\ 0 \in Entry /\ \A q \in Queue : 1 - phase[q] \in 0 .. 1 /\ 1 - dphase[q] \in 0 .. 1
  <2>1. NvmeTypeOK
    BY DEF NvmeInv
  <2>2. 0 \in Entry
    BY NvmeAssumption DEF Entry
  <2>3. \A q \in Queue : phase[q] \in 0 .. 1 /\ dphase[q] \in 0 .. 1
    BY <2>1 DEF NvmeTypeOK
  <2> QED
    BY <2>1, <2>2, <2>3
<1>1. CASE InitDisable
  BY <1>0, <1>1 DEF NvmeTypeOK, InitDisable, device
<1>2. CASE InitEnable
  <2>0. Zeroed \in [Entry -> CompletionEntry]
    BY DEF Zeroed, Blank, CompletionEntry
  <2>1. cq' \in [Queue -> [Entry -> CompletionEntry]]
    BY <1>0, <1>2, <2>0 DEF NvmeTypeOK, InitEnable, CompletionEntry
  <2> QED
    BY <1>0, <1>2, <2>1 DEF NvmeTypeOK, InitEnable, device, CompletionEntry
<1>3. CASE InitIdentify
  <2>1. Identify \in Command
    BY DEF Command
  <2> QED
    BY <1>0, <1>3, <2>1, SubmitTypes DEF NvmeTypeOK, InitIdentify, device
<1>4. CASE InitQueues
  <2>1. CreateCQ \in Command /\ CreateSQ \in Command
    BY DEF Command
  <2>2. CASE Submit(CreateCQ) /\ UNCHANGED <<head, phase, nsid>>
    BY <1>0, <1>4, <2>1, <2>2, SubmitTypes DEF NvmeTypeOK, InitQueues, device
  <2>3. CASE Submit(CreateSQ) /\ UNCHANGED <<head, phase, nsid>>
    BY <1>0, <1>4, <2>1, <2>3, SubmitTypes DEF NvmeTypeOK, InitQueues, device
  <2>4. CASE /\ head' = [head EXCEPT !["io"] = 0] /\ tail' = [tail EXCEPT !["io"] = 0]
             /\ phase' = [phase EXCEPT !["io"] = 1] /\ nsid' = 1
             /\ npc' = "idle" /\ cid' = NoCommand /\ UNCHANGED sq
    <3>1. UNCHANGED <<cq, en, shn, spc, rdy, shst, fetched, posted, dphase, running>>
      BY <1>4 DEF InitQueues, device
    <3>2. 0 \in Entry /\ 1 \in 0 .. 1
      BY <1>0
    <3>3. head' \in [Queue -> Entry] /\ tail' \in [Queue -> Entry]
      BY <1>0, <2>4, <3>2 DEF NvmeTypeOK
    <3>4. phase' \in [Queue -> 0 .. 1]
      BY <1>0, <2>4, <3>2 DEF NvmeTypeOK
    <3>5. nsid' \in 0 .. 1 /\ cid' \in Command \cup {NoCommand}
      BY <2>4
    <3> QED
      BY <1>0, <2>4, <3>1, <3>3, <3>4, <3>5 DEF NvmeTypeOK
  <2> QED
    BY <1>4, <2>2, <2>3, <2>4 DEF InitQueues
<1>5. ASSUME NEW c \in IoCommands, ReadWrite(c) PROVE NvmeTypeOK'
  <2>1. c \in Command
    BY DEF Command
  <2> QED
    BY <1>0, <1>5, <2>1, SubmitTypes DEF NvmeTypeOK, ReadWrite, device
<1>6. CASE WaitForCompletion
  <2>1. /\ Used(cid) \in Queue /\ head[Used(cid)] \in Entry /\ Step1(head[Used(cid)]) \in Entry
        /\ Flipped(Used(cid)) \in 0 .. 1
    BY <1>0, StepFacts DEF NvmeTypeOK, Used, Queue, Flipped
  <2>2. cq' \in [Queue -> [Entry -> CompletionEntry]]
    <3>1. cq \in [Queue -> [Entry -> CompletionEntry]]
      BY <1>0 DEF NvmeTypeOK, CompletionEntry
    <3>2. Consumed(cq[Used(cid)][head[Used(cid)]]) \in CompletionEntry
      BY <2>1, <3>1 DEF CompletionEntry, Consumed
    <3> QED
      BY <1>6, <2>1, <3>1, <3>2 DEF WaitForCompletion
  <2>3. npc' \in {"next", "wait", "idle"} /\ cid # NoCommand
    BY <1>0, <1>6 DEF WaitForCompletion, Continue, NvmeTypeOK
  <2> QED
    BY <1>0, <1>6, <2>1, <2>2, <2>3 DEF NvmeTypeOK, WaitForCompletion, CompletionEntry, device
<1>7. CASE ShutdownRequest \/ ShutdownStep
  BY <1>0, <1>7 DEF NvmeTypeOK, ShutdownRequest, ShutdownStep, ShutdownComplete, ShutdownTimeout, device
<1>8. CASE DeviceReady
  BY <1>0, <1>8 DEF NvmeTypeOK, DeviceReady, driver, NoCommand, Command
<1>9. ASSUME NEW q \in Queue, DeviceFetch(q) PROVE NvmeTypeOK'
  <2>1. fetched[q] \in Entry /\ Step1(fetched[q]) \in Entry /\ sq[q][fetched[q]] \in Command \cup {NoCommand}
    BY <1>0, StepFacts DEF NvmeTypeOK
  <2> QED
    BY <1>0, <1>9, <2>1 DEF NvmeTypeOK, DeviceFetch, driver
<1>10. ASSUME NEW q \in Queue, DevicePost(q) PROVE NvmeTypeOK'
  <2>1. posted[q] \in Entry /\ Step1(posted[q]) \in Entry
    BY <1>0, StepFacts DEF NvmeTypeOK
  <2>2. [cid |-> running[q], phase |-> dphase[q], new |-> TRUE] \in CompletionEntry
    BY <1>0 DEF NvmeTypeOK, CompletionEntry
  <2>3. cq' \in [Queue -> [Entry -> CompletionEntry]]
    BY <1>0, <1>10, <2>1, <2>2 DEF NvmeTypeOK, DevicePost, CompletionEntry
  <2> QED
    BY <1>0, <1>10, <2>1, <2>3 DEF NvmeTypeOK, DevicePost, driver, CompletionEntry
<1>11. CASE DeviceShutdown
  BY <1>0, <1>11 DEF NvmeTypeOK, DeviceShutdown, driver
<1>12. CASE UNCHANGED nvmeVars
  BY <1>0, <1>12 DEF NvmeTypeOK, nvmeVars, driver, device
<1> QED
  BY <1>1, <1>2, <1>3, <1>4, <1>5, <1>6, <1>7, <1>8, <1>9, <1>10, <1>11, <1>12
  DEF NvmeNext, DriverStep, DeviceStep
-----------------------------------------------------------------------------
(* What the two sides of a queue share, step by step.                      *)
QueuesInv == \A q \in Queue : RingInv(q) /\ WayInv(q)

(* A command is submitted when none is under way.                          *)
LEMMA SubmitKeeps ==
    ASSUME NvmeInv, NEW c \in Command, Submit(c), npc # "wait",
           UNCHANGED <<head, phase, cq, device>>
    PROVE  QueuesInv'
<1> SUFFICES ASSUME NEW q \in Queue PROVE RingInv(q)' /\ WayInv(q)'
  BY DEF QueuesInv
<1>0. NvmeTypeOK /\ RingInv(q) /\ WayInv(q)
  BY DEF NvmeInv
<1>1. RingInv(q)'
  BY <1>0 DEF RingInv, Answered, LooksNew, Flipped, device
<1>2. ~Submitted(q) /\ ~Executing(q) /\ ~Answered(q)
  BY <1>0 DEF WayInv, Waits
<1>3. ~Executing(q)' /\ ~Answered(q)'
  BY <1>2 DEF Executing, Answered, device
<1>4. npc' = "wait" /\ cid' = c /\ UNCHANGED fetched
  BY DEF Submit, device
<1>5. CASE q = Used(c)
  <2>1. tail[q] \in Entry /\ tail \in [Queue -> Entry] /\ sq \in [Queue -> [Entry -> Command \cup {NoCommand}]]
    BY <1>0 DEF NvmeTypeOK
  <2>2. tail'[q] = Step1(tail[q]) /\ sq'[q][tail[q]] = c
    BY <1>5, <2>1 DEF Submit
  <2>3. fetched'[q] = tail[q] /\ Step1(tail[q]) # tail[q]
    BY <1>2, <1>4, <2>1, StepFacts DEF Submitted
  <2> QED
    BY <1>1, <1>3, <1>4, <1>5, <2>2, <2>3 DEF WayInv, Waits, Submitted
<1>6. CASE q # Used(c)
  <2>1. tail'[q] = tail[q]
    BY <1>0, <1>6 DEF Submit, NvmeTypeOK
  <2> QED
    BY <1>1, <1>2, <1>3, <1>4, <1>6, <2>1 DEF WayInv, Waits, Submitted
<1> QED
  BY <1>5, <1>6

(* A completion is consumed: the head moves on, and after the last entry   *)
(* the driver expects the other phase.                                     *)
LEMMA WaitKeeps == NvmeInv /\ WaitForCompletion => QueuesInv'
<1> SUFFICES ASSUME NvmeInv, WaitForCompletion, NEW r \in Queue PROVE RingInv(r)' /\ WayInv(r)'
  BY DEF QueuesInv
<1> DEFINE q == Used(cid)
<1>0. /\ NvmeTypeOK /\ RingInv(q) /\ WayInv(q) /\ q \in Queue
      /\ head[q] \in Entry /\ phase[q] \in 0 .. 1 /\ QueueSize \in Nat /\ QueueSize >= 2
      /\ Entry = 0 .. QueueSize - 1
  BY NvmeAssumption DEF NvmeInv, NvmeTypeOK, Used, Queue, Entry
<1>1. /\ npc = "wait" /\ LooksNew(q)
      /\ head' = [head EXCEPT ![q] = Step1(head[q])]
      /\ phase' = [phase EXCEPT ![q] = Flipped(q)]
      /\ cq' = [cq EXCEPT ![q][head[q]] = Consumed(cq[q][head[q]])]
      /\ npc' = Continue(cid, cq[q][head[q]].cid)
      /\ UNCHANGED <<cid, tail, sq, rdy, shst, fetched, posted, dphase, running>>
  BY DEF WaitForCompletion, device
<1>2. Answered(q)
  BY <1>0, <1>1 DEF RingInv, LooksNew
<1>3. npc' # "wait" /\ ~Submitted(q) /\ ~Executing(q)
  BY <1>0, <1>1, <1>2 DEF WayInv, Continue
<1>4. CASE r = q
  <2>1. /\ head'[q] = Step1(head[q]) /\ phase'[q] = Flipped(q)
        /\ cq'[q][head[q]] = Consumed(cq[q][head[q]])
        /\ \A i \in Entry : i # head[q] => cq'[q][i] = cq[q][i]
        /\ head'[q] \in Entry /\ head'[q] # head[q]
    BY <1>0, <1>1, StepFacts DEF NvmeTypeOK
  <2>2. cq'[q][head[q]].phase = phase[q] /\ ~cq'[q][head[q]].new
    BY <1>1, <2>1 DEF Consumed, LooksNew
  <2>3. Marked(cq'[q], head[q], phase[q])
    <3>1. Marked(cq[q], head[q], phase[q])
      BY <1>0 DEF RingInv
    <3> QED
      BY <1>0, <2>1, <3>1, MarkedAround
  <2>4. /\ Marked(cq'[q], head'[q], phase'[q])
        /\ cq'[q][head'[q]].phase = 1 - phase'[q] /\ ~cq'[q][head'[q]].new
    <3>1. phase'[q] = IF head[q] + 1 >= QueueSize THEN 1 - phase[q] ELSE phase[q]
      BY <2>1 DEF Flipped
    <3>2. head[q] \in Entry /\ phase[q] \in 0 .. 1 /\ head'[q] = Step1(head[q])
      BY <1>0, <2>1
    <3> QED
      BY <2>2, <2>3, <3>1, <3>2, MarkedMoves
  <2>5. ~Answered(q)'
    BY <1>1, <2>4 DEF Answered
  <2>6. posted'[q] = head'[q] /\ dphase'[q] = phase'[q]
    BY <1>0, <1>1, <1>2, <2>1 DEF RingInv
  <2>7. RingInv(r)'
    BY <1>1, <1>4, <2>4, <2>5, <2>6 DEF RingInv
  <2>8. WayInv(r)'
    BY <1>1, <1>3, <1>4, <2>5 DEF WayInv, Waits, Submitted, Executing, Answered
  <2> QED
    BY <2>7, <2>8
<1>5. CASE r # q
  <2>1. head'[r] = head[r] /\ phase'[r] = phase[r] /\ cq'[r] = cq[r]
    BY <1>0, <1>1, <1>5 DEF NvmeTypeOK
  <2>2. RingInv(r) /\ WayInv(r) /\ ~Waits(r)
    BY <1>5 DEF NvmeInv, Waits
  <2>3. RingInv(r)'
    BY <1>1, <2>1, <2>2, RingUntouched
  <2>4. WayInv(r)'
    BY <1>1, <1>3, <2>1, <2>2 DEF WayInv, Waits, Submitted, Executing, Answered
  <2> QED
    BY <2>3, <2>4
<1> QED
  BY <1>4, <1>5
(* The controller takes a command, and answers it at its own tail, which   *)
(* is the driver's head.                                                   *)
LEMMA FetchKeeps ==
    ASSUME NvmeInv, NEW q \in Queue, DeviceFetch(q)
    PROVE  QueuesInv'
<1> SUFFICES ASSUME NEW r \in Queue PROVE RingInv(r)' /\ WayInv(r)'
  BY DEF QueuesInv
<1>0. NvmeTypeOK /\ RingInv(r) /\ WayInv(r) /\ WayInv(q) /\ fetched[q] \in Entry
  BY DEF NvmeInv, NvmeTypeOK
<1>1. /\ fetched[q] # tail[q]
      /\ running' = [running EXCEPT ![q] = sq[q][fetched[q]]]
      /\ fetched' = [fetched EXCEPT ![q] = Step1(fetched[q])]
      /\ UNCHANGED <<npc, cid, tail, head, phase, sq, cq, posted, dphase>>
  BY DEF DeviceFetch, driver
<1>2. RingInv(r)'
  BY <1>0, <1>1 DEF RingInv, Answered, LooksNew, Flipped
<1>3. CASE r = q
  <2>1. Waits(q) /\ tail[q] = Step1(fetched[q]) /\ sq[q][fetched[q]] = cid /\ ~Answered(q)
    BY <1>0, <1>1 DEF WayInv, Submitted
  <2>2. cid # NoCommand
    BY <1>0, <2>1 DEF Waits, NvmeTypeOK
  <2>3. fetched'[q] = tail[q] /\ running'[q] = cid
    BY <1>0, <1>1, <2>1 DEF NvmeTypeOK
  <2> QED
    BY <1>1, <1>2, <1>3, <2>1, <2>2, <2>3 DEF WayInv, Waits, Submitted, Executing, Answered
<1>4. CASE r # q
  <2>1. fetched'[r] = fetched[r] /\ running'[r] = running[r]
    BY <1>0, <1>1, <1>4 DEF NvmeTypeOK
  <2> QED
    BY <1>0, <1>1, <1>2, <2>1 DEF WayInv, Waits, Submitted, Executing, Answered
<1> QED
  BY <1>3, <1>4

LEMMA PostKeeps ==
    ASSUME NvmeInv, NEW q \in Queue, DevicePost(q)
    PROVE  QueuesInv'
<1> SUFFICES ASSUME NEW r \in Queue PROVE RingInv(r)' /\ WayInv(r)'
  BY DEF QueuesInv
<1> DEFINE answer == [cid |-> running[q], phase |-> dphase[q], new |-> TRUE]
<1>0. /\ NvmeTypeOK /\ RingInv(r) /\ WayInv(r) /\ RingInv(q) /\ WayInv(q)
      /\ posted[q] \in Entry /\ head[q] \in Entry
  BY DEF NvmeInv, NvmeTypeOK
<1>1. /\ running[q] # NoCommand
      /\ cq' = [cq EXCEPT ![q][posted[q]] = answer]
      /\ posted' = [posted EXCEPT ![q] = Step1(posted[q])]
      /\ dphase' = [dphase EXCEPT ![q] = IF posted[q] + 1 >= QueueSize THEN 1 - dphase[q] ELSE dphase[q]]
      /\ running' = [running EXCEPT ![q] = NoCommand]
      /\ UNCHANGED <<npc, cid, tail, head, phase, sq, fetched>>
  BY DEF DevicePost, driver
<1>2. CASE r = q
  <2>1. Waits(q) /\ ~Submitted(q) /\ running[q] = cid /\ ~Answered(q)
    BY <1>0, <1>1 DEF WayInv, Executing
  <2>2. posted[q] = head[q] /\ dphase[q] = phase[q]
    BY <1>0, <2>1 DEF RingInv
  <2>3. /\ cq'[q][head[q]] = answer /\ \A i \in Entry : i # head[q] => cq'[q][i] = cq[q][i]
        /\ posted'[q] = Step1(head[q]) /\ dphase'[q] = Flipped(q) /\ running'[q] = NoCommand
    BY <1>0, <1>1, <2>2 DEF NvmeTypeOK, Flipped
  <2>4. /\ cq'[q][head[q]].new /\ cq'[q][head[q]].phase = phase[q] /\ cq'[q][head[q]].cid = cid
    BY <2>1, <2>2, <2>3
  <2>5. Answered(q)' /\ LooksNew(q)' /\ Flipped(q)' = Flipped(q)
    BY <1>1, <2>4 DEF Answered, LooksNew, Flipped
  <2>6. RingInv(q)'
    <3>1. Marked(cq[q], head[q], phase[q])
      BY <1>0 DEF RingInv
    <3>2. Marked(cq'[q], head[q], phase[q])
      BY <1>0, <2>3, <3>1, MarkedAround
    <3> QED
      BY <1>1, <2>3, <2>5, <3>2 DEF RingInv
  <2>7. WayInv(q)'
    BY <1>1, <2>1, <2>3, <2>4, <2>5 DEF WayInv, Waits, Submitted, Executing
  <2> QED
    BY <1>2, <2>6, <2>7
<1>3. CASE r # q
  <2>1. cq'[r] = cq[r] /\ posted'[r] = posted[r] /\ dphase'[r] = dphase[r] /\ running'[r] = running[r]
    BY <1>0, <1>1, <1>3 DEF NvmeTypeOK
  <2>2. RingInv(r)'
    BY <1>0, <1>1, <2>1, RingUntouched
  <2>3. WayInv(r)'
    BY <1>0, <1>1, <2>1 DEF WayInv, Waits, Submitted, Executing, Answered
  <2> QED
    BY <2>2, <2>3
<1> QED
  BY <1>2, <1>3

(* A step that leaves both queues fresh, or alone, and nobody waiting.     *)
LEMMA FreshKeeps ==
    ASSUME npc' # "wait", \A q \in Queue : Fresh(q)'
    PROVE  QueuesInv'
<1> SUFFICES ASSUME NEW q \in Queue PROVE RingInv(q)' /\ WayInv(q)'
  BY DEF QueuesInv
<1>1. ~Submitted(q)' /\ ~Executing(q)' /\ ~Answered(q)'
  BY MarkedZeroed DEF Fresh, Submitted, Executing, Answered
<1>2. RingInv(q)'
  BY <1>1, MarkedZeroed DEF Fresh, RingInv
<1>3. WayInv(q)'
  BY <1>1 DEF WayInv, Waits
<1> QED
  BY <1>2, <1>3

LEMMA AloneKeeps ==
    ASSUME NvmeInv, UNCHANGED <<npc, cid>> \/ (npc # "wait" /\ npc' # "wait"),
           UNCHANGED <<tail, head, phase, sq, cq, fetched, posted, dphase, running>>
    PROVE  QueuesInv' /\ \A q \in Queue : Fresh(q)' <=> Fresh(q)
<1>1. ASSUME NEW q \in Queue PROVE RingInv(q)'
  BY RingUntouched DEF NvmeInv
<1>2. ASSUME NEW q \in Queue PROVE WayInv(q)'
  <2>1. WayInv(q)
    BY DEF NvmeInv
  <2> QED
    BY <2>1 DEF WayInv, Waits, Submitted, Executing, Answered
<1>3. \A q \in Queue : Fresh(q)' <=> Fresh(q)
  BY DEF Fresh
<1> QED
  BY <1>1, <1>2, <1>3 DEF QueuesInv

-----------------------------------------------------------------------------
(* The bring-up.                                                           *)
LEMMA BringUpKeeps ==
    NvmeInv /\ (InitDisable \/ InitEnable \/ InitIdentify \/ InitQueues) => StagesInv' /\ QueuesInv'
<1> SUFFICES ASSUME NvmeInv, InitDisable \/ InitEnable \/ InitIdentify \/ InitQueues
             PROVE  StagesInv' /\ QueuesInv'
  OBVIOUS
<1>0. NvmeTypeOK /\ StagesInv /\ "io" \in Queue /\ "admin" \in Queue
  BY DEF NvmeInv, Queue
<1>1. CASE InitDisable
  BY <1>0, <1>1, AloneKeeps DEF InitDisable, device, StagesInv, Starting
<1>2. CASE InitEnable
  <2>1. Fresh("admin") /\ Fresh("io") /\ nsid = 0 /\ ~shn /\ npc = "disabling"
    BY <1>0, <1>2 DEF InitEnable, StagesInv, Starting
  <2>2. /\ head' = [head EXCEPT !["admin"] = 0] /\ tail' = [tail EXCEPT !["admin"] = 0]
        /\ phase' = [phase EXCEPT !["admin"] = 1] /\ cq' = [cq EXCEPT !["admin"] = Zeroed]
        /\ en' = TRUE /\ npc' = "enabling"
        /\ UNCHANGED <<cid, nsid, shn, rdy, shst, fetched, posted, dphase, running>>
    BY <1>2 DEF InitEnable, device
  <2>3. Fresh("admin")' /\ Fresh("io")'
    BY <1>0, <2>1, <2>2 DEF Fresh, NvmeTypeOK
  <2>4. StagesInv'
    BY <1>0, <2>1, <2>2, <2>3 DEF StagesInv, Starting
  <2>5. QueuesInv'
    BY <2>2, <2>3, FreshKeeps DEF Queue
  <2> QED
    BY <2>4, <2>5
<1>3. ASSUME NEW c \in {Identify, CreateCQ, CreateSQ}, Submit(c), nsid = 0, npc # "wait", en, rdy,
             UNCHANGED <<head, phase, nsid, cq, en, shn, device>>
      PROVE  StagesInv' /\ QueuesInv'
  <2>1. c \in Command /\ c \notin IoCommands /\ Used(c) = "admin"
    BY DEF Command, IoCommands, Identify, CreateCQ, CreateSQ, Used
  <2>2. QueuesInv'
    BY <1>3, <2>1, SubmitKeeps
  <2>3. npc' = "wait" /\ cid' = c /\ tail'["io"] = tail["io"]
    BY <1>0, <1>3, <2>1 DEF Submit, NvmeTypeOK
  <2>4. Fresh("io")'
    BY <1>0, <1>3, <2>3 DEF StagesInv, Fresh, device
  <2> QED
    BY <1>0, <1>3, <2>1, <2>2, <2>3, <2>4 DEF StagesInv, Starting, device
<1>4. CASE InitIdentify
  BY <1>0, <1>3, <1>4 DEF InitIdentify, StagesInv, Starting
<1>5. CASE InitQueues
  <2>0. npc = "next" /\ nsid = 0 /\ en /\ rdy
    BY <1>0, <1>5 DEF InitQueues, StagesInv, Starting, IoCommands, Identify, CreateCQ, CreateSQ
  <2>1. CASE cid # CreateSQ
    BY <1>3, <1>5, <2>0, <2>1 DEF InitQueues
  <2>2. CASE cid = CreateSQ
    <3>1. /\ head' = [head EXCEPT !["io"] = 0] /\ tail' = [tail EXCEPT !["io"] = 0]
          /\ phase' = [phase EXCEPT !["io"] = 1] /\ nsid' = 1 /\ npc' = "idle"
          /\ UNCHANGED <<sq, cq, en, shn, rdy, shst, fetched, posted, dphase, running>>
      BY <1>5, <2>2 DEF InitQueues, device, Identify, CreateCQ, CreateSQ
    <3>2. tail["io"] = 0 /\ head["io"] = 0 /\ phase["io"] = 1
      BY <1>0, <2>0 DEF StagesInv, Fresh
    <3>3. UNCHANGED <<head, tail, phase>>
      BY <1>0, <3>1, <3>2 DEF NvmeTypeOK
    <3>4. QueuesInv'
      BY <2>0, <3>1, <3>3, AloneKeeps
    <3>5. StagesInv'
      BY <1>0, <2>0, <3>1 DEF StagesInv, Starting
    <3> QED
      BY <3>4, <3>5
  <2> QED
    BY <2>1, <2>2
<1> QED
  BY <1>1, <1>2, <1>4, <1>5
(* The calls and the shutdown.                                             *)
LEMMA CallsKeep ==
    ASSUME NvmeInv,
           (\E c \in IoCommands : ReadWrite(c)) \/ WaitForCompletion \/ ShutdownRequest \/ ShutdownStep
    PROVE  StagesInv' /\ QueuesInv'
<1>0. NvmeTypeOK /\ StagesInv /\ "io" \in Queue /\ "admin" \in Queue
  BY DEF NvmeInv, Queue
<1>1. ASSUME NEW c \in IoCommands, ReadWrite(c) PROVE StagesInv' /\ QueuesInv'
  <2>1. c \in Command /\ npc = "idle" /\ npc' = "wait" /\ cid' = c /\ nsid # 0 /\ Submit(c)
        /\ UNCHANGED <<head, phase, cq, nsid, en, shn, device>>
    BY <1>1 DEF Command, ReadWrite, Submit
  <2>2. QueuesInv'
    BY <2>1, SubmitKeeps
  <2> QED
    BY <1>0, <2>1, <2>2 DEF StagesInv, Starting, device
<1>2. CASE WaitForCompletion
  <2>1. QueuesInv'
    BY <1>2, WaitKeeps
  <2>2. /\ npc = "wait" /\ npc' \in {"wait", "next", "idle"}
        /\ (npc' = "next" => cid \notin IoCommands) /\ (npc' = "idle" => cid \in IoCommands)
        /\ UNCHANGED <<cid, tail, nsid, en, shn, rdy, shst, fetched, posted, dphase, running>>
    BY <1>2 DEF WaitForCompletion, Continue, device
  <2>3. cid \in Command
    BY <1>0, <2>2 DEF NvmeTypeOK
  <2>4. ASSUME nsid = 0 PROVE Fresh("io")'
    <3>1. Used(cid) = "admin"
      BY <1>0, <2>2, <2>4 DEF StagesInv, Used
    <3>2. head'["io"] = head["io"] /\ phase'["io"] = phase["io"] /\ cq'["io"] = cq["io"]
      BY <1>0, <1>2, <3>1 DEF WaitForCompletion, NvmeTypeOK
    <3> QED
      BY <1>0, <2>2, <2>4, <3>2 DEF StagesInv, Fresh
  <2>5. StagesInv'
    BY <1>0, <2>2, <2>3, <2>4 DEF StagesInv, Starting, Command
  <2> QED
    BY <2>1, <2>5
<1>3. CASE ShutdownRequest \/ ShutdownStep
  <2>1. /\ UNCHANGED <<npc, cid, tail, head, phase, sq, cq, nsid, en, device>>
        /\ (shn' <=> shn) \/ nsid # 0
        /\ shn => shn'
    BY <1>3 DEF ShutdownRequest, ShutdownStep, ShutdownComplete, ShutdownTimeout
  <2>2. QueuesInv' /\ (Fresh("io")' <=> Fresh("io")) /\ (Fresh("admin")' <=> Fresh("admin"))
    BY <1>0, <2>1, AloneKeeps DEF device
  <2> QED
    BY <1>0, <2>1, <2>2 DEF StagesInv, Starting, device
<1> QED
  BY <1>1, <1>2, <1>3

(* The controller.                                                         *)
LEMMA DeviceKeeps ==
    ASSUME NvmeInv, DeviceStep \/ DeviceShutdown
    PROVE  StagesInv' /\ QueuesInv'
<1>0. NvmeTypeOK /\ StagesInv /\ "io" \in Queue /\ "admin" \in Queue
  BY DEF NvmeInv, Queue
<1>1. CASE DeviceReady
  <2>1. /\ UNCHANGED <<npc, cid, tail, head, phase, cq, nsid, en, shn, shst>>
        /\ fetched' = [q \in Queue |-> 0] /\ posted' = [q \in Queue |-> 0]
        /\ dphase' = [q \in Queue |-> 1] /\ running' = [q \in Queue |-> NoCommand]
    BY <1>1 DEF DeviceReady, driver
  <2>2. Starting /\ Fresh("io") /\ Fresh("admin") /\ npc' # "wait"
    BY <1>0, <1>1, <2>1 DEF DeviceReady, StagesInv, Starting, NvmeTypeOK
  <2>3. \A q \in Queue : Fresh(q)'
    BY <2>1, <2>2 DEF Fresh, Queue
  <2>4. QueuesInv'
    BY <2>2, <2>3, FreshKeeps
  <2> QED
    BY <1>0, <2>1, <2>2, <2>3, <2>4 DEF StagesInv, Starting
<1>2. ASSUME NEW q \in Queue, DeviceFetch(q) \/ DevicePost(q) PROVE StagesInv' /\ QueuesInv'
  <2>1. QueuesInv'
    BY <1>2, FetchKeeps, PostKeeps
  <2>2. ~Fresh(q)
    BY <1>2, FreshFacts DEF DeviceFetch, DevicePost, Submitted, Executing
  <2>3. /\ UNCHANGED <<npc, cid, tail, head, phase, nsid, en, rdy, shn, shst>>
        /\ \A r \in Queue : r # q => /\ cq'[r] = cq[r] /\ fetched'[r] = fetched[r]
                                     /\ posted'[r] = posted[r] /\ dphase'[r] = dphase[r]
                                     /\ running'[r] = running[r]
    BY <1>0, <1>2 DEF DeviceFetch, DevicePost, driver, NvmeTypeOK
  <2>4. \A r \in Queue : Fresh(r) => Fresh(r)'
    BY <2>2, <2>3 DEF Fresh
  <2> QED
    BY <1>0, <2>1, <2>3, <2>4 DEF StagesInv, Starting
<1>3. CASE DeviceShutdown
  <2>1. shn /\ UNCHANGED <<driver, cq, rdy, fetched, posted, dphase, running>>
    BY <1>3 DEF DeviceShutdown
  <2>2. QueuesInv' /\ (Fresh("io")' <=> Fresh("io")) /\ (Fresh("admin")' <=> Fresh("admin"))
    BY <1>0, <2>1, AloneKeeps DEF driver
  <2> QED
    BY <1>0, <2>1, <2>2 DEF StagesInv, Starting, driver
<1> QED
  BY <1>1, <1>2, <1>3 DEF DeviceStep

-----------------------------------------------------------------------------
(* The inductive invariant.                                                *)
THEOREM NvmeInvariant == NvmeSpec => []NvmeInv
<1>1. NvmeInv /\ [NvmeNext]_nvmeVars => NvmeInv'
  <2> SUFFICES ASSUME NvmeInv, [NvmeNext]_nvmeVars PROVE StagesInv' /\ QueuesInv'
    BY NvmeTypes DEF NvmeInv, QueuesInv
  <2>1. CASE UNCHANGED nvmeVars
    <3>1. UNCHANGED <<npc, cid, tail, head, phase, sq, cq, fetched, posted, dphase, running, nsid, en,
                      rdy, shn, shst>>
      BY <2>1 DEF nvmeVars, driver, device
    <3> QED
      BY <3>1, AloneKeeps DEF NvmeInv, StagesInv, Starting, Queue
  <2>2. CASE NvmeNext
    BY <2>2, BringUpKeeps, CallsKeep, DeviceKeeps DEF NvmeNext, DriverStep
  <2> QED
    BY <2>1, <2>2
<1> QED
  BY <1>1, NvmeInitInv, PTL DEF NvmeSpec

(* nvme_wait_for_completion tells a new completion from an old one through *)
(* every wrap, for queues of every size.                                   *)
THEOREM PhaseIsRight == NvmeSpec => []PhaseTellsNew
<1>1. NvmeInv => PhaseTellsNew
  <2> SUFFICES ASSUME NvmeInv, NEW q \in Queue PROVE LooksNew(q) <=> Answered(q)
    BY DEF PhaseTellsNew, Answered
  <2>1. RingInv(q) /\ phase[q] \in 0 .. 1
    BY DEF NvmeInv, NvmeTypeOK
  <2> QED
    BY <2>1 DEF RingInv, LooksNew
<1> QED
  BY <1>1, NvmeInvariant, PTL

(* The caller waits exactly while its command, and no other, is under way. *)
THEOREM OneCommandUnderWay == NvmeSpec => []OneUnderWay
<1>1. NvmeInv => OneUnderWay
  <2> SUFFICES ASSUME NvmeInv, NEW q \in Queue
               PROVE  WayInv(q) /\ \A i \in Entry \ {head[q]} : ~cq[q][i].new
    BY DEF OneUnderWay, WayInv, Waits
  <2> QED
    BY DEF NvmeInv, RingInv, Marked
<1> QED
  BY <1>1, NvmeInvariant, PTL

(* Every index stays inside its queue.                                     *)
THEOREM NvmeTypesKept == NvmeSpec => []NvmeTypeOK
BY NvmeInvariant, PTL DEF NvmeInv

(* A wait ends on its own command's completion, for queues of every size.  *)
THEOREM CompletionsAlwaysMatch == NvmeSpec => []CompletionsMatch
BY PhaseIsRight, OneCommandUnderWay, PTL DEF CompletionsMatch
=============================================================================
