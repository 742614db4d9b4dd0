------------------------------ MODULE ApStart ------------------------------
(***************************************************************************)
(* Bringing up the other processors (src/src/processor.rs): parse_madt     *)
(* lists them, and the boot processor starts them one after the other with *)
(* INIT-SIPI-SIPI.  All of them run the same trampoline page, which holds  *)
(* one stack pointer and one online flag; the boot processor writes them,  *)
(* sends the interrupts and waits for the flag, but not for ever.          *)
(*                                                                         *)
(* A processor that was sent a STARTUP interrupt may take any time for     *)
(* each of its steps, or may never appear.                                 *)
(***************************************************************************)
EXTENDS Integers, Sequences, FiniteSets

CONSTANTS
    MAX_AP_COUNT,
    MAX_CPUS,     \* length of MadtInfo.apic_ids
    BspId,        \* local APIC id of the boot processor
    Madts         \* MADTs: sequences of [type, len, left, id, enabled], where
                  \* left is what remains of the table from the entry on

NoStack == 0
NoSlot == MAX_AP_COUNT + 1

VARIABLES
    madt,
    apic_ids,     \* MadtInfo.apic_ids: the processors parse_madt found
    cpu, ap_index,  \* start_all_aps: the loop over apic_ids and the count of APs
    bsp,          \* "next", "assigned", "init", "wait" or "done"
    slots,        \* PERCPU_DATA_SLOTS: apic_id and kernel_stack
    tramp,        \* the trampoline page: stack pointer and online flag
    AP_ONLINE_COUNT,
    ap,           \* by APIC id: where the processor is
    rsp, percpu,  \* the stack it took and the slot it found
    gaveUp        \* ghost: processors the boot processor gave up on

apVars == <<madt, apic_ids, cpu, ap_index, bsp, slots, tramp, AP_ONLINE_COUNT, ap, rsp, percpu, gaveUp>>

(* iter_madt_entries walks the entries by their length and stops at one    *)
(* that is shorter than a header or does not fit; parse_madt keeps the     *)
(* enabled processors, as many as the array holds.                         *)
EntryHeader == 2
Malformed(entry) == entry.len < EntryHeader \/ entry.len > entry.left
ReadTo(table) == {k \in DOMAIN table : \A l \in 1 .. k : ~Malformed(table[l])}
Listed(table) == SelectSeq(SubSeq(table, 1, Cardinality(ReadTo(table))),
                           LAMBDA e : e.type = "lapic" /\ e.enabled)
FullEarly(n) == n + 1 >= MAX_CPUS
Full(n) == n >= MAX_CPUS
parse_madt(table) ==
    LET all == Listed(table)
        kept == {k \in DOMAIN all : ~Full(k - 1)}
    IN  [k \in kept |-> all[k].id]
Aps == {apic_ids[k] : k \in DOMAIN apic_ids} \ {BspId}

(* The firmware lists a processor once.                                    *)
ASSUME ApAssumption ==
    /\ MAX_AP_COUNT \in Nat \ {0} /\ MAX_CPUS \in Nat \ {0}
    /\ \A table \in Madts : \A j, k \in DOMAIN parse_madt(table) :
        parse_madt(table)[j] = parse_madt(table)[k] => j = k

EmptySlot == [apic_id |-> 0, kernel_stack |-> NoStack]

(* The boot processor's own slot is filled by syscall::init.  With one     *)
(* processor start_all_aps returns at once.                                *)
ApInit ==
    /\ madt \in Madts /\ apic_ids = parse_madt(madt)
    /\ cpu = 1 /\ ap_index = 0
    /\ bsp = IF Cardinality(DOMAIN apic_ids) <= 1 THEN "done" ELSE "next"
    /\ slots = [s \in 0 .. MAX_AP_COUNT |->
                  IF s = 0 THEN [apic_id |-> BspId, kernel_stack |-> MAX_AP_COUNT + 1] ELSE EmptySlot]
    /\ tramp = [rsp |-> NoStack, online |-> 0]
    /\ AP_ONLINE_COUNT = 0
    /\ ap = [a \in Aps |-> "off"]
    /\ rsp = [a \in Aps |-> NoStack] /\ percpu = [a \in Aps |-> 0]
    /\ gaveUp = {}

-----------------------------------------------------------------------------
(* One round of start_all_aps: the boot processor itself and processors    *)
(* beyond the limit are passed over; for another one the slot is filled    *)
(* and write_trampoline_params clears the flag and writes the stack.       *)
NextStack(index) == index + 1

Skip ==
    /\ bsp = "next" /\ cpu \in DOMAIN apic_ids
    /\ apic_ids[cpu] = BspId \/ ap_index >= MAX_AP_COUNT
    /\ cpu' = cpu + 1
    /\ UNCHANGED <<madt, apic_ids, ap_index, bsp, slots, tramp, AP_ONLINE_COUNT, ap, rsp, percpu, gaveUp>>

FilledSlot(id) == [slots EXCEPT ![ap_index + 1] =
                     [apic_id |-> id, kernel_stack |-> NextStack(ap_index)]]

write_trampoline_params(stack) == [rsp |-> stack, online |-> 0]

Assign ==
    /\ bsp = "next" /\ cpu \in DOMAIN apic_ids
    /\ apic_ids[cpu] # BspId /\ ap_index < MAX_AP_COUNT
    /\ slots' = FilledSlot(apic_ids[cpu])
    /\ tramp' = write_trampoline_params(NextStack(ap_index))
    /\ bsp' = "assigned"
    /\ UNCHANGED <<madt, apic_ids, cpu, ap_index, AP_ONLINE_COUNT, ap, rsp, percpu, gaveUp>>

(* start_ap clears the flag again, sends INIT and, after a delay, the two  *)
(* STARTUP interrupts; the second one finds the processor running.         *)
InitIpi ==
    /\ bsp = "assigned"
    /\ tramp' = [tramp EXCEPT !.online = 0]
    /\ bsp' = "init"
    /\ UNCHANGED <<madt, apic_ids, cpu, ap_index, slots, AP_ONLINE_COUNT, ap, rsp, percpu, gaveUp>>

Sipi ==
    /\ bsp = "init"
    /\ ap' = [ap EXCEPT ![apic_ids[cpu]] = "started"]
    /\ bsp' = "wait"
    /\ UNCHANGED <<madt, apic_ids, cpu, ap_index, slots, tramp, AP_ONLINE_COUNT, rsp, percpu, gaveUp>>

(* start_ap returns, because of the flag or after a million rounds; the    *)
(* next processor gets the next index either way.                          *)
StartApReturns == cpu' = cpu + 1 /\ ap_index' = ap_index + 1 /\ bsp' = "next"

IsOnlineAtOnce == TRUE
IsOnline == tramp.online # 0
SeesOnline ==
    /\ bsp = "wait" /\ IsOnline
    /\ StartApReturns
    /\ UNCHANGED <<madt, apic_ids, slots, tramp, AP_ONLINE_COUNT, ap, rsp, percpu, gaveUp>>

TimeoutNever == FALSE
Timeout == TRUE
GiveUp ==
    /\ bsp = "wait" /\ ~IsOnline /\ Timeout
    /\ StartApReturns
    /\ gaveUp' = gaveUp \cup {apic_ids[cpu]}
    /\ UNCHANGED <<madt, apic_ids, slots, tramp, AP_ONLINE_COUNT, ap, rsp, percpu>>

AllStarted ==
    /\ bsp = "next" /\ cpu \notin DOMAIN apic_ids
    /\ bsp' = "done"
    /\ UNCHANGED <<madt, apic_ids, cpu, ap_index, slots, tramp, AP_ONLINE_COUNT, ap, rsp, percpu, gaveUp>>

-----------------------------------------------------------------------------
(* The trampoline code: the stack pointer is taken from the page.          *)
TrampolineCode(a) ==
    /\ ap[a] = "started"
    /\ rsp' = [rsp EXCEPT ![a] = tramp.rsp]
    /\ ap' = [ap EXCEPT ![a] = "entry"]
    /\ UNCHANGED <<madt, apic_ids, cpu, ap_index, bsp, slots, tramp, AP_ONLINE_COUNT, percpu, gaveUp>>

(* ap_entry: the first slot with the processor's own APIC id.  Without one *)
(* it would still report itself and stop; a slot never filled has id 0.    *)
SlotOf(a) ==
    LET mine == {s \in DOMAIN slots : slots[s].apic_id = a} \cup {NoSlot}
    IN  CHOOSE s \in mine : \A t \in mine : s <= t
FindSlot(a) ==
    /\ ap[a] = "entry"
    /\ percpu' = [percpu EXCEPT ![a] = SlotOf(a)]
    /\ ap' = [ap EXCEPT ![a] = "found"]
    /\ UNCHANGED <<madt, apic_ids, cpu, ap_index, bsp, slots, tramp, AP_ONLINE_COUNT, rsp, gaveUp>>

SignalOnline(a) ==
    /\ ap[a] = "found"
    /\ tramp' = [tramp EXCEPT !.online = 1]
    /\ ap' = [ap EXCEPT ![a] = "signalled"]
    /\ UNCHANGED <<madt, apic_ids, cpu, ap_index, bsp, slots, AP_ONLINE_COUNT, rsp, percpu, gaveUp>>

CountOnline(a) ==
    /\ ap[a] = "signalled"
    /\ AP_ONLINE_COUNT' = AP_ONLINE_COUNT + 1
    /\ ap' = [ap EXCEPT ![a] = "online"]
    /\ UNCHANGED <<madt, apic_ids, cpu, ap_index, bsp, slots, tramp, rsp, percpu, gaveUp>>

BspStep == Skip \/ Assign \/ InitIpi \/ Sipi \/ SeesOnline \/ GiveUp \/ AllStarted
ApStep(a) == TrampolineCode(a) \/ FindSlot(a) \/ SignalOnline(a) \/ CountOnline(a)
ApNext == BspStep \/ \E a \in Aps : ApStep(a)

(* Only the boot processor is sure to go on (its local APIC accepts each   *)
(* interrupt it sends); the others may stop anywhere.                      *)
ApSpec == ApInit /\ [][ApNext]_apVars /\ WF_apVars(BspStep)

-----------------------------------------------------------------------------
Entered(a) == ap[a] \in {"entry", "found", "signalled", "online"}

(* State domains.                                                          *)
ApTypeOK ==
    /\ madt \in Madts /\ apic_ids = parse_madt(madt)
    /\ cpu \in Nat \ {0} /\ ap_index \in 0 .. MAX_AP_COUNT
    /\ bsp \in {"next", "assigned", "init", "wait", "done"}
    /\ ap \in [Aps -> {"off", "started", "entry", "found", "signalled", "online"}]
    /\ rsp \in [Aps -> 0 .. MAX_AP_COUNT]
    /\ percpu \in [Aps -> 0 .. NoSlot]
    /\ slots \in [0 .. MAX_AP_COUNT -> [apic_id : Aps \cup {0, BspId}, kernel_stack : 0 .. NoSlot]]
    /\ tramp \in [rsp : 0 .. MAX_AP_COUNT, online : {0, 1}]
    /\ AP_ONLINE_COUNT \in Nat

(* However late it comes, a processor finds its own slot, never that of    *)
(* the boot processor or of another one, although ap_entry searches while  *)
(* start_all_aps still fills the table: no two CPUs share a GS base, and   *)
(* each has the kernel stack of its own slot for its system calls.         *)
OwnSlot ==
    \A a \in Aps : ap[a] \in {"found", "signalled", "online"} =>
        /\ percpu[a] \in 1 .. MAX_AP_COUNT /\ slots[percpu[a]].apic_id = a
        /\ \A b \in Aps : a # b /\ ap[b] = "online" => percpu[b] # percpu[a]

(* "Assign a unique stack for this AP": two processors that run have two   *)
(* stacks, and the stack in a processor's slot is the one it runs on, as   *)
(* long as the boot processor has given up on nobody.  A processor that    *)
(* comes late takes the stack written for its successor; and because it    *)
(* sets the flag the successor is waited for with, the successor, too, may *)
(* be left behind and take a third one's stack.                            *)
UniqueStacks ==
    gaveUp = {} =>
        /\ \A a, b \in Aps : Entered(a) /\ Entered(b) /\ rsp[a] = rsp[b] => a = b
        /\ \A a \in Aps : ap[a] = "online" => rsp[a] = slots[percpu[a]].kernel_stack

(* The online flag speaks for the processor start_ap waits for, unless one *)
(* that the boot processor gave up on reports late.                        *)
FlagIsHonest ==
    bsp = "wait" /\ tramp.online # 0 /\ gaveUp = {} => ap[apic_ids[cpu]] \in {"signalled", "online"}

(* start_all_aps keeps the processors apart, each with its own slot and    *)
(* stack, and believes only the one it waits for.                          *)
ProcessorsApart == OwnSlot /\ UniqueStacks /\ FlagIsHonest

(* Every enabled processor that a well-formed MADT lists, and that the     *)
(* tables have room for, has been sent its STARTUP when boot goes on.      *)
NobodyForgotten ==
    LET others == {k \in DOMAIN madt : madt[k].type = "lapic" /\ madt[k].enabled
                                       /\ madt[k].id # BspId}
    IN  bsp = "done" /\ (\A k \in DOMAIN madt : ~Malformed(madt[k]))
            /\ Cardinality(others) <= MAX_AP_COUNT
        => \A k \in others : madt[k].id \in Aps /\ ap[madt[k].id] # "off"

(* Boot goes on whatever the other processors do.                          *)
BspGoesOn == <>(bsp = "done")
=============================================================================
