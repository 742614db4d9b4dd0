--------------------------- MODULE ApStartProofs ---------------------------
(***************************************************************************)
(* For every MADT, every number of processors and every limit: what the    *)
(* processors that start_all_aps brings up may rely on, whatever the order *)
(* in which they and the boot processor take their steps.                  *)
(***************************************************************************)
EXTENDS ApStart, TLAPS

Busy == bsp \in {"assigned", "init", "wait"}

(* The slots filled, and those whose processor was sent its STARTUP.       *)
Filled == 1 .. (IF Busy THEN ap_index + 1 ELSE ap_index)
Sent == 1 .. (IF bsp = "wait" THEN ap_index + 1 ELSE ap_index)
(* The entries of apic_ids that have had their slot.                       *)
Handled == 1 .. (IF Busy THEN cpu ELSE cpu - 1)

(* The table of slots: one processor each, with the stack of its number;   *)
(* the rest is as the kernel image has it.                                 *)
SlotsInv ==
    /\ Busy => /\ cpu \in DOMAIN apic_ids /\ apic_ids[cpu] # BspId
               /\ ap_index < MAX_AP_COUNT /\ slots[ap_index + 1].apic_id = apic_ids[cpu]
    /\ slots[0].apic_id = BspId
    /\ \A s \in Filled :
        /\ slots[s].apic_id \in Aps /\ slots[s].kernel_stack = s
        /\ \E k \in DOMAIN apic_ids : k \in Handled /\ slots[s].apic_id = apic_ids[k]
        /\ \A t \in Filled : slots[s].apic_id = slots[t].apic_id => s = t
    /\ \A s \in 1 .. MAX_AP_COUNT : s \notin Filled => slots[s] = EmptySlot

(* A processor that was sent a STARTUP has a slot, and keeps to it.        *)
ProcessorsInv ==
    /\ \A a \in Aps : ap[a] # "off" => \E s \in Sent : slots[s].apic_id = a
    /\ bsp = "wait" => ap[apic_ids[cpu]] # "off"
    /\ \A a \in Aps : ap[a] \in {"found", "signalled", "online"} =>
        percpu[a] \in Filled /\ slots[percpu[a]].apic_id = a

(* While nobody has been given up, only the awaited processor is on its    *)
(* way, the page holds its stack, and the flag is its own.                 *)
StacksInv ==
    gaveUp = {} =>
        /\ Busy => tramp.rsp = ap_index + 1
        /\ bsp \in {"assigned", "init"} => tramp.online = 0
        /\ \A a \in Aps : ap[a] \in {"started", "entry", "found"} =>
            bsp = "wait" /\ a = apic_ids[cpu] /\ tramp.online = 0
        /\ \A a \in Aps : Entered(a) => rsp[a] \in Filled /\ slots[rsp[a]].apic_id = a

ApInv == ApTypeOK /\ SlotsInv /\ ProcessorsInv /\ StacksInv

-----------------------------------------------------------------------------
(* ap_entry's search ends at the processor's own slot, although slots not  *)
(* yet filled carry id 0, which is a processor's id too.                   *)
LEMMA SearchFindsOwn ==
    ASSUME ApInv, NEW a \in Aps, ap[a] # "off"
    PROVE  SlotOf(a) \in Filled /\ slots[SlotOf(a)].apic_id = a
<1> DEFINE mine == {s \in DOMAIN slots : slots[s].apic_id = a} \cup {NoSlot}
<1>1. /\ ap_index \in 0 .. MAX_AP_COUNT /\ MAX_AP_COUNT \in Nat /\ DOMAIN slots = 0 .. MAX_AP_COUNT
      /\ ap_index < MAX_AP_COUNT \/ ~Busy
  BY ApAssumption DEF ApInv, ApTypeOK, SlotsInv
<1>2. PICK own \in Filled : slots[own].apic_id = a
  BY <1>1 DEF ApInv, ProcessorsInv, Sent, Filled, Busy
<1>3. own \in mine /\ own \in 1 .. MAX_AP_COUNT
  BY <1>1, <1>2 DEF Filled
<1>4. ASSUME NEW t \in mine PROVE own <= t
  <2>1. t # 0
    BY <1>1, <1>4 DEF ApInv, SlotsInv, NoSlot, Aps
  <2>2. CASE t \in Filled
    <3>1. slots[t].apic_id = a
      BY <1>1, <2>2 DEF Filled, NoSlot
    <3> QED
      BY <1>1, <1>2, <2>2, <3>1 DEF ApInv, SlotsInv, Filled
  <2>3. CASE t \notin Filled
    BY <1>1, <1>2, <1>3, <2>1, <2>3 DEF Filled, NoSlot
  <2> QED
    BY <2>2, <2>3
<1>5. \A s \in mine : (\A t \in mine : s <= t) => s = own
  BY <1>1, <1>3, <1>4 DEF NoSlot
<1>6. SlotOf(a) = CHOOSE s \in mine : \A t \in mine : s <= t
  BY DEF SlotOf
<1>7. SlotOf(a) = own
  BY <1>3, <1>4, <1>5, <1>6
<1> QED
  BY <1>2, <1>7

LEMMA ApInitInv == ApInit => ApInv
<1> SUFFICES ASSUME ApInit PROVE ApInv
  OBVIOUS
<1>1. ApTypeOK
  BY ApAssumption DEF ApInit, ApTypeOK, EmptySlot, NoStack, NoSlot
<1>2. ~Busy /\ Filled = {} /\ Sent = {}
  BY DEF ApInit, Busy, Filled, Sent
<1>3. SlotsInv
  BY <1>2, ApAssumption DEF ApInit, SlotsInv
<1>4. ProcessorsInv /\ StacksInv
  BY <1>2 DEF ApInit, ProcessorsInv, StacksInv, Entered
<1> QED
  BY <1>1, <1>3, <1>4 DEF ApInv
-----------------------------------------------------------------------------
(* Types are kept by every step.                                           *)
LEMMA ApTypes == ApInv /\ [ApNext]_apVars => ApTypeOK'
<1> SUFFICES ASSUME ApInv, [ApNext]_apVars PROVE ApTypeOK'
  OBVIOUS
<1>0. /\ ApTypeOK /\ SlotsInv /\ MAX_AP_COUNT \in Nat \ {0}
      /\ (UNCHANGED apic_ids => Aps' = Aps)
  BY ApAssumption DEF ApInv, Aps
<1>1. CASE Skip \/ InitIpi \/ GiveUp \/ SeesOnline \/ AllStarted
  BY <1>0, <1>1 DEF ApTypeOK, SlotsInv, Busy, Skip, InitIpi, GiveUp, SeesOnline, AllStarted,
     StartApReturns
<1>2. CASE Assign
  <2>1. apic_ids[cpu] \in Aps /\ ap_index + 1 \in 0 .. MAX_AP_COUNT
    BY <1>0, <1>2 DEF Assign, write_trampoline_params, Aps, ApTypeOK
  <2> QED
    BY <1>0, <1>2, <2>1 DEF ApTypeOK, Assign, write_trampoline_params, FilledSlot, NextStack, NoSlot
<1>3. CASE Sipi
  BY <1>0, <1>3 DEF ApTypeOK, Sipi
<1>4. ASSUME NEW a \in Aps, ApStep(a) PROVE ApTypeOK'
  <2>1. CASE TrampolineCode(a)
    BY <1>0, <2>1 DEF ApTypeOK, TrampolineCode
  <2>2. CASE SignalOnline(a)
    BY <1>0, <2>2 DEF ApTypeOK, SignalOnline
  <2>3. CASE CountOnline(a)
    BY <1>0, <2>3 DEF ApTypeOK, CountOnline
  <2>4. CASE FindSlot(a)
    <3>1. SlotOf(a) \in Filled
      BY <2>4, SearchFindsOwn DEF FindSlot
    <3>2. SlotOf(a) \in 0 .. NoSlot
      BY <1>0, <3>1 DEF Filled, ApTypeOK, NoSlot
    <3> QED
      BY <1>0, <2>4, <3>2 DEF ApTypeOK, FindSlot
  <2> QED
    BY <1>4, <2>1, <2>2, <2>3, <2>4 DEF ApStep
<1>5. CASE UNCHANGED apVars
  BY <1>0, <1>5 DEF apVars, ApTypeOK
<1> QED
  BY <1>1, <1>2, <1>3, <1>4, <1>5 DEF ApNext, BspStep

(* Filling a slot leaves every processor with one.                         *)
LEMMA AssignFills == ApInv /\ Assign => SlotsInv' /\ ProcessorsInv' /\ StacksInv'
<1> SUFFICES ASSUME ApInv, Assign PROVE SlotsInv' /\ ProcessorsInv' /\ StacksInv'
  OBVIOUS
<1>0. /\ MAX_AP_COUNT \in Nat /\ ap_index \in Nat /\ ap_index < MAX_AP_COUNT /\ cpu \in Nat \ {0}
      /\ DOMAIN slots = 0 .. MAX_AP_COUNT /\ Aps' = Aps
      /\ cpu \in DOMAIN apic_ids /\ apic_ids[cpu] # BspId /\ apic_ids[cpu] \in Aps
      /\ bsp = "next" /\ bsp' = "assigned"
      /\ UNCHANGED <<apic_ids, cpu, ap_index, ap, rsp, percpu, gaveUp>>
  BY ApAssumption DEF ApInv, ApTypeOK, Assign, write_trampoline_params, Aps
<1>1. /\ Filled = 1 .. ap_index /\ Sent = 1 .. ap_index /\ Handled = 1 .. cpu - 1
      /\ Filled' = 1 .. ap_index + 1 /\ Sent' = 1 .. ap_index /\ Handled' = 1 .. cpu
  BY <1>0 DEF Filled, Sent, Handled, Busy
<1>2. /\ slots'[ap_index + 1] = [apic_id |-> apic_ids[cpu], kernel_stack |-> ap_index + 1]
      /\ \A s \in 0 .. MAX_AP_COUNT : s # ap_index + 1 => slots'[s] = slots[s]
  BY <1>0 DEF Assign, write_trampoline_params, FilledSlot, NextStack
<1>3. \A s \in Filled : slots[s].apic_id # apic_ids[cpu]
  <2> SUFFICES ASSUME NEW s \in Filled PROVE slots[s].apic_id # apic_ids[cpu]
    OBVIOUS
  <2>1. PICK k \in DOMAIN apic_ids : k \in Handled /\ slots[s].apic_id = apic_ids[k]
    BY DEF ApInv, SlotsInv
  <2>2. k # cpu
    BY <1>0, <1>1, <2>1
  <2> QED
    BY <1>0, <2>1, <2>2, ApAssumption DEF ApInv, ApTypeOK
<1>4. SlotsInv'
  <2>1. ASSUME NEW s \in Filled'
        PROVE  /\ slots'[s].apic_id \in Aps /\ slots'[s].kernel_stack = s
               /\ \E k \in DOMAIN apic_ids : k \in Handled' /\ slots'[s].apic_id = apic_ids[k]
               /\ \A t \in Filled' : slots'[s].apic_id = slots'[t].apic_id => s = t
    <3>1. CASE s = ap_index + 1
      BY <1>0, <1>1, <1>2, <1>3, <3>1
    <3>2. CASE s # ap_index + 1
      <4>1. s \in Filled /\ slots'[s] = slots[s]
        BY <1>0, <1>1, <1>2, <2>1, <3>2
      <4>2. PICK k \in DOMAIN apic_ids : k \in Handled /\ slots[s].apic_id = apic_ids[k]
        BY <4>1 DEF ApInv, SlotsInv
      <4>3. k \in Handled'
        BY <1>0, <1>1, <4>2
      <4>4. \A t \in Filled' : slots'[s].apic_id = slots'[t].apic_id => s = t
        BY <1>0, <1>1, <1>2, <1>3, <4>1 DEF ApInv, SlotsInv
      <4> QED
        BY <4>1, <4>2, <4>3, <4>4 DEF ApInv, SlotsInv
    <3> QED
      BY <3>1, <3>2
  <2>2. slots'[0].apic_id = BspId
    BY <1>0, <1>2 DEF ApInv, SlotsInv
  <2>3. \A s \in 1 .. MAX_AP_COUNT : s \notin Filled' => slots'[s] = EmptySlot
    BY <1>0, <1>1, <1>2 DEF ApInv, SlotsInv
  <2> QED
    BY <1>0, <1>2, <2>1, <2>2, <2>3 DEF SlotsInv, EmptySlot
<1>5. \A s \in Filled : s \in Filled' /\ slots'[s] = slots[s]
  BY <1>0, <1>1, <1>2
<1>6. ProcessorsInv'
  BY <1>0, <1>1, <1>5 DEF ApInv, ProcessorsInv
<1>7. StacksInv'
  BY <1>0, <1>5 DEF ApInv, StacksInv, Entered, Assign, write_trampoline_params, NextStack, Busy
<1> QED
  BY <1>4, <1>6, <1>7
(* The boot processor's other steps leave the slots as they are.           *)
LEMMA BspKeeps ==
    ASSUME ApInv, Skip \/ InitIpi \/ Sipi \/ SeesOnline \/ GiveUp \/ AllStarted
    PROVE  SlotsInv' /\ ProcessorsInv' /\ StacksInv'
<1>0. /\ MAX_AP_COUNT \in Nat /\ ap_index \in Nat /\ cpu \in Nat \ {0} /\ Aps' = Aps
      /\ ApTypeOK /\ SlotsInv /\ ProcessorsInv /\ StacksInv
      /\ UNCHANGED <<apic_ids, slots, rsp, percpu>>
  BY ApAssumption DEF ApInv, ApTypeOK, Aps, Skip, InitIpi, Sipi, SeesOnline, GiveUp, AllStarted
<1>1. /\ Filled' = Filled /\ Sent \subseteq Sent' /\ Handled \subseteq Handled'
      /\ (Sipi \/ Sent' = Sent)
  BY <1>0 DEF Filled, Sent, Handled, Busy, Skip, InitIpi, Sipi, SeesOnline, GiveUp, AllStarted,
     StartApReturns
<1>2. SlotsInv'
  <2>1. ASSUME Busy'
        PROVE  /\ cpu' \in DOMAIN apic_ids /\ apic_ids[cpu'] # BspId
               /\ ap_index' < MAX_AP_COUNT /\ slots[ap_index' + 1].apic_id = apic_ids[cpu']
    BY <1>0, <2>1 DEF SlotsInv, Busy, Skip, InitIpi, Sipi, SeesOnline, GiveUp, AllStarted,
       StartApReturns
  <2>2. \A s \in Filled : \E k \in DOMAIN apic_ids :
          k \in Handled' /\ slots[s].apic_id = apic_ids[k]
    BY <1>0, <1>1 DEF SlotsInv
  <2> QED
    BY <1>0, <1>1, <2>1, <2>2 DEF SlotsInv
<1>3. ProcessorsInv'
  <2>1. CASE Sipi
    <3>1. /\ ap' = [ap EXCEPT ![apic_ids[cpu]] = "started"]
          /\ ap_index + 1 \in Sent' /\ slots[ap_index + 1].apic_id = apic_ids[cpu]
          /\ apic_ids[cpu] \in Aps /\ UNCHANGED cpu
      BY <1>0, <2>1 DEF Sipi, Sent, SlotsInv, Busy, Aps
    <3>2. ap \in [Aps -> {"off", "started", "entry", "found", "signalled", "online"}]
      BY <1>0 DEF ApTypeOK
    <3> QED
      BY <1>0, <1>1, <3>1, <3>2 DEF ProcessorsInv
  <2>2. CASE ~Sipi
    <3>1. UNCHANGED ap /\ bsp' # "wait"
      BY <2>2 DEF Skip, InitIpi, SeesOnline, GiveUp, AllStarted, StartApReturns
    <3> QED
      BY <1>0, <1>1, <3>1 DEF ProcessorsInv
  <2> QED
    BY <2>1, <2>2
<1>4. StacksInv'
  <2> SUFFICES ASSUME gaveUp' = {} PROVE StacksInv'
    BY DEF StacksInv
  <2>1. gaveUp = {} /\ ~GiveUp
    BY DEF GiveUp, Skip, InitIpi, Sipi, SeesOnline, AllStarted
  <2>2. CASE Skip \/ AllStarted \/ InitIpi
    BY <1>0, <1>1, <2>1, <2>2 DEF StacksInv, Entered, Busy, Skip, AllStarted, InitIpi, ApTypeOK
  <2>3. CASE SeesOnline
    BY <1>0, <1>1, <2>1, <2>3 DEF StacksInv, Entered, Busy, SeesOnline, IsOnline, StartApReturns
  <2>4. CASE Sipi
    <3>1. /\ ap' = [ap EXCEPT ![apic_ids[cpu]] = "started"] /\ bsp = "init" /\ bsp' = "wait"
          /\ UNCHANGED <<cpu, ap_index, tramp>>
      BY <2>4 DEF Sipi
    <3>2. ap \in [Aps -> {"off", "started", "entry", "found", "signalled", "online"}]
      BY <1>0 DEF ApTypeOK
    <3>3. \A a \in Aps : ap[a] \notin {"started", "entry", "found"}
      BY <1>0, <2>1, <3>1 DEF StacksInv
    <3> QED
      BY <1>0, <1>1, <2>1, <3>1, <3>2, <3>3 DEF StacksInv, Entered, Busy
  <2> QED
    BY <2>1, <2>2, <2>3, <2>4
<1> QED
  BY <1>2, <1>3, <1>4

(* A processor's own steps.                                                *)
LEMMA ProcessorKeeps ==
    ASSUME ApInv, NEW a \in Aps, ApStep(a)
    PROVE  SlotsInv' /\ ProcessorsInv' /\ StacksInv'
<1>0. /\ Aps' = Aps /\ Filled' = Filled /\ Sent' = Sent /\ Handled' = Handled /\ Busy' = Busy
      /\ ApTypeOK /\ SlotsInv /\ ProcessorsInv /\ StacksInv
      /\ UNCHANGED <<apic_ids, slots, bsp, cpu, ap_index, gaveUp>>
  BY DEF ApInv, Aps, Filled, Sent, Handled, Busy, ApStep, TrampolineCode, FindSlot, SignalOnline,
     CountOnline
<1>1. /\ ap \in [Aps -> {"off", "started", "entry", "found", "signalled", "online"}]
      /\ rsp \in [Aps -> 0 .. MAX_AP_COUNT] /\ percpu \in [Aps -> 0 .. NoSlot]
  BY <1>0 DEF ApTypeOK
<1>2. SlotsInv'
  BY <1>0 DEF SlotsInv
<1>3. CASE TrampolineCode(a)
  <2>1. ap[a] = "started" /\ ap' = [ap EXCEPT ![a] = "entry"]
        /\ rsp' = [rsp EXCEPT ![a] = tramp.rsp] /\ UNCHANGED <<percpu, tramp>>
    BY <1>3 DEF TrampolineCode
  <2>2. ProcessorsInv'
    BY <1>0, <1>1, <2>1 DEF ProcessorsInv
  <2>3. gaveUp = {} => tramp.rsp \in Filled /\ slots[tramp.rsp].apic_id = a
    BY <1>0, <2>1 DEF StacksInv, SlotsInv, Filled, Busy, ApTypeOK
  <2>4. StacksInv'
    BY <1>0, <1>1, <2>1, <2>3 DEF StacksInv, Entered
  <2> QED
    BY <1>2, <2>2, <2>4
<1>4. CASE FindSlot(a)
  <2>1. ap[a] = "entry" /\ ap' = [ap EXCEPT ![a] = "found"]
        /\ percpu' = [percpu EXCEPT ![a] = SlotOf(a)] /\ UNCHANGED <<rsp, tramp>>
    BY <1>4 DEF FindSlot
  <2>2. SlotOf(a) \in Filled /\ slots[SlotOf(a)].apic_id = a
    BY <2>1, SearchFindsOwn
  <2>3. ProcessorsInv'
    BY <1>0, <1>1, <2>1, <2>2 DEF ProcessorsInv
  <2>4. StacksInv'
    BY <1>0, <1>1, <2>1 DEF StacksInv, Entered
  <2> QED
    BY <1>2, <2>3, <2>4
<1>5. CASE SignalOnline(a)
  <2>1. ap[a] = "found" /\ ap' = [ap EXCEPT ![a] = "signalled"]
        /\ tramp'.rsp = tramp.rsp /\ UNCHANGED <<rsp, percpu>>
    BY <1>0, <1>5 DEF SignalOnline, ApTypeOK
  <2>2. ProcessorsInv'
    BY <1>0, <1>1, <2>1 DEF ProcessorsInv
  <2>3. StacksInv'
    BY <1>0, <1>1, <2>1 DEF StacksInv, Entered
  <2> QED
    BY <1>2, <2>2, <2>3
<1>6. CASE CountOnline(a)
  <2>1. ap[a] = "signalled" /\ ap' = [ap EXCEPT ![a] = "online"] /\ UNCHANGED <<rsp, percpu, tramp>>
    BY <1>6 DEF CountOnline
  <2> QED
    BY <1>0, <1>1, <1>2, <2>1 DEF ProcessorsInv, StacksInv, Entered
<1> QED
  BY <1>3, <1>4, <1>5, <1>6 DEF ApStep

-----------------------------------------------------------------------------
(* The inductive invariant.                                                *)
THEOREM ApInvariant == ApSpec => []ApInv
<1>1. ApInv /\ [ApNext]_apVars => ApInv'
  <2> SUFFICES ASSUME ApInv, [ApNext]_apVars PROVE SlotsInv' /\ ProcessorsInv' /\ StacksInv'
    BY ApTypes DEF ApInv
  <2>1. CASE BspStep
    BY <2>1, BspKeeps, AssignFills DEF BspStep
  <2>2. ASSUME NEW a \in Aps, ApStep(a) PROVE SlotsInv' /\ ProcessorsInv' /\ StacksInv'
    BY <2>2, ProcessorKeeps
  <2>3. CASE UNCHANGED apVars
    <3>1. SlotsInv'
      <4>1. Filled' = Filled /\ Handled' = Handled /\ Busy' = Busy /\ Aps' = Aps
        BY <2>3 DEF apVars, Filled, Handled, Busy, Aps
      <4> QED
        BY <2>3, <4>1 DEF apVars, ApInv, SlotsInv
    <3>2. ProcessorsInv'
      BY <2>3 DEF apVars, ApInv, ProcessorsInv, Aps, Filled, Sent, Handled, Busy
    <3>3. StacksInv'
      BY <2>3 DEF apVars, ApInv, StacksInv, Entered, Aps, Filled, Sent, Handled, Busy
    <3> QED
      BY <3>1, <3>2, <3>3
  <2> QED
    BY <2>1, <2>2, <2>3 DEF ApNext
<1> QED
  BY <1>1, ApInitInv, PTL DEF ApSpec

(* A processor finds its own slot, however late it comes.                  *)
THEOREM EveryoneOwnSlot == ApSpec => []OwnSlot
<1>1. ApInv => OwnSlot
  <2> SUFFICES ASSUME ApInv, NEW a \in Aps, ap[a] \in {"found", "signalled", "online"}
               PROVE  /\ percpu[a] \in 1 .. MAX_AP_COUNT /\ slots[percpu[a]].apic_id = a
                      /\ \A b \in Aps : a # b /\ ap[b] = "online" => percpu[b] # percpu[a]
    BY DEF OwnSlot
  <2>1. percpu[a] \in Filled /\ slots[percpu[a]].apic_id = a
    BY DEF ApInv, ProcessorsInv
  <2>2. percpu[a] \in 1 .. MAX_AP_COUNT
    BY <2>1, ApAssumption DEF Filled, ApInv, ApTypeOK, SlotsInv
  <2>3. \A b \in Aps : ap[b] = "online" => slots[percpu[b]].apic_id = b
    BY DEF ApInv, ProcessorsInv
  <2> QED
    BY <2>1, <2>2, <2>3
<1> QED
  BY <1>1, ApInvariant, PTL

(* While nobody was given up, the flag of the trampoline page speaks for   *)
(* the processor that start_ap waits for.                                  *)
THEOREM FlagSpeaksForAwaited == ApSpec => []FlagIsHonest
<1>1. ApInv => FlagIsHonest
  <2> SUFFICES ASSUME ApInv, bsp = "wait", tramp.online # 0, gaveUp = {}
               PROVE  ap[apic_ids[cpu]] \in {"signalled", "online"}
    BY DEF FlagIsHonest
  <2>1. apic_ids[cpu] \in Aps
    BY DEF ApInv, SlotsInv, Busy, Aps
  <2>2. ap[apic_ids[cpu]] # "off"
    BY DEF ApInv, ProcessorsInv
  <2> QED
    BY <2>1, <2>2 DEF ApInv, StacksInv, ApTypeOK
<1> QED
  BY <1>1, ApInvariant, PTL

(* Two processors never run on one stack, and a system call of a processor *)
(* uses the stack it was started with, while nobody was given up.          *)
THEOREM StacksAreUnique == ApSpec => []UniqueStacks
<1>1. ApInv => UniqueStacks
  <2> SUFFICES ASSUME ApInv, gaveUp = {}
               PROVE  /\ \A a, b \in Aps : Entered(a) /\ Entered(b) /\ rsp[a] = rsp[b] => a = b
                      /\ \A a \in Aps : ap[a] = "online" => rsp[a] = slots[percpu[a]].kernel_stack
    BY DEF UniqueStacks
  <2>1. \A a \in Aps : Entered(a) => rsp[a] \in Filled /\ slots[rsp[a]].apic_id = a
    BY DEF ApInv, StacksInv
  <2>2. ASSUME NEW a \in Aps, ap[a] = "online" PROVE rsp[a] = slots[percpu[a]].kernel_stack
    <3>1. percpu[a] \in Filled /\ slots[percpu[a]].apic_id = a
      BY <2>2 DEF ApInv, ProcessorsInv
    <3>2. rsp[a] \in Filled /\ slots[rsp[a]].apic_id = a
      BY <2>1, <2>2 DEF Entered
    <3>3. percpu[a] = rsp[a]
      BY <3>1, <3>2 DEF ApInv, SlotsInv
    <3> QED
      BY <3>1, <3>3 DEF ApInv, SlotsInv
  <2> QED
    BY <2>1, <2>2
<1> QED
  BY <1>1, ApInvariant, PTL

(* Every stack and slot number stays inside its table.                     *)
THEOREM ApTypesKept == ApSpec => []ApTypeOK
BY ApInvariant, PTL DEF ApInv

(* Slots, stacks and the flag, for every MADT and number of processors.    *)
THEOREM ProcessorsStayApart == ApSpec => []ProcessorsApart
BY EveryoneOwnSlot, StacksAreUnique, FlagSpeaksForAwaited, PTL DEF ProcessorsApart
=============================================================================
