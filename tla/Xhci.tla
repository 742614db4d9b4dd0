-------------------------------- MODULE Xhci --------------------------------
(***************************************************************************)
(* The xHCI driver of src/src/xhci.rs: the enumeration that init runs at   *)
(* boot (one thread, polling) and the keyboards afterwards.  Every request *)
(* is answered by an event, and every wait looks at one variable,          *)
(* LAST_COMPLETION_CODE, which process_events overwrites with the code of  *)
(* any command completion or transfer event it meets.                      *)
(*                                                                         *)
(* The rings are queues here (XhciRings shows that they are).  The         *)
(* controller, the devices and the person typing are external: a command   *)
(* succeeds or fails, a control transfer is answered in time, late or      *)
(* never, or stalls and halts its endpoint; a keyboard reports when its    *)
(* keys change and a request is queued, or stalls.                         *)
(***************************************************************************)
EXTENDS Integers, Sequences, FiniteSets
LOCAL INSTANCE SequencesExt

CONSTANTS
    MAX_PORTS, \* ports of the root hub
    Keys,      \* HID key codes
    Printable, \* those hid_key_to_ascii knows
    RingRoom,  \* TRBs a command or transfer ring holds (254)
    EventRoom, \* events the event ring holds
    KeyRoom    \* keys the keyboard buffer holds

ASSUME XhciAssumption ==
    /\ MAX_PORTS \in Nat \ {0} /\ RingRoom \in Nat /\ EventRoom \in Nat \ {0} /\ KeyRoom \in Nat
    /\ Printable \subseteq Keys /\ Keys \subseteq Nat \ {0}

Ports == 1 .. MAX_PORTS
Slots == 1 .. MAX_PORTS

SUCCESS == 1
STALL == 6

Commands == {"enable", "address", "configure", "noop"}
Transfers == {"device", "header", "full", "config", "idle", "protocol"}
Waits == Transfers \cup (Commands \ {"noop"})

VARIABLES
    host,        \* controller: HCRST set, CNR set, or ready
    attached,    \* what is plugged into each port
    enabled,     \* ports with PED set
    at,          \* the boot thread: what it waits for, its port, slot, total_len # 0
    LAST_COMPLETION_CODE, LAST_SLOT_ID,
    commands,    \* the command ring: commands not yet executed
    ep0,         \* the EP0 rings: transfers not yet done, by slot
    EP_INDICES,  \* slots with a KEYBOARD_EP_INDICES entry
    KBD_RINGS,   \* slots with a keyboard transfer ring
    requests,    \* report requests on it
    events,      \* the event ring
    reports,     \* KEYBOARD_REPORT_BUFFERS
    previous,    \* PREVIOUS_KEYBOARD_REPORTS
    usb_data,    \* USB_DATA_BUFFER: zeros, or the answer it holds
    pressed,     \* the keyboard buffer
    used,        \* controller: slots given out
    addressed,   \* controller: slots with an address
    halted,      \* controller: halted endpoints <<slot, "ep0" or "kbd">>
    listens,     \* ghost: slots whose first report was requested
    heard,       \* ghost: the wait's own event was processed
    late, mixed  \* ghosts: a transfer timed out; a wait ended without its event

driverVars == <<at, LAST_COMPLETION_CODE, LAST_SLOT_ID, EP_INDICES, KBD_RINGS,
                previous, pressed, listens, heard, late, mixed>>
controllerVars == <<host, attached, enabled, reports, used, addressed, halted>>
xhciVars == <<driverVars, controllerVars, commands, ep0, requests, events, usb_data>>

Zeros == <<"zeros", 0>>

(* init has set HCRST.  What it builds afterwards (rings, DCBAA, ERST) is  *)
(* here from the start: nobody uses it before the controller is started.   *)
XhciInit ==
    /\ host = "reset"
    /\ attached \in [Ports -> {"none", "keyboard", "other"}]
    /\ enabled \in SUBSET {p \in Ports : attached[p] # "none"}
    /\ at = [pc |-> "hcrst", port |-> 1, slot |-> 0, length |-> FALSE]
    /\ LAST_COMPLETION_CODE = 0 /\ LAST_SLOT_ID = 0
    /\ commands = <<>> /\ ep0 = [s \in Slots |-> <<>>]
    /\ EP_INDICES = {} /\ KBD_RINGS = {} /\ requests = [s \in Slots |-> 0]
    /\ events = <<>>
    /\ reports = [s \in Slots |-> {}] /\ previous = [s \in Slots |-> {}]
    /\ usb_data = Zeros /\ pressed = <<>>
    /\ used = {} /\ addressed = {} /\ halted = {}
    /\ listens = {} /\ heard = FALSE /\ late = FALSE /\ mixed = FALSE

-----------------------------------------------------------------------------
(* init waits for HCRST and then for CNR to become 0, builds the rings and *)
(* starts the controller; the wait for HCH is one round, whatever it sees. *)
HostReady ==
    /\ \/ at.pc = "hcrst" /\ host # "reset" /\ at' = [at EXCEPT !.pc = "cnr"]
       \/ at.pc = "cnr" /\ host = "ready" /\ at' = [at EXCEPT !.pc = "port"]
    /\ UNCHANGED <<LAST_COMPLETION_CODE, LAST_SLOT_ID, EP_INDICES, KBD_RINGS, previous, pressed,
                   listens, heard, late, mixed, controllerVars, commands, ep0, requests,
                   events, usb_data>>

(* process_events, one event: a completion is noted, a report of a         *)
(* keyboard is compared with the one before, its new keys are typed and    *)
(* the request is queued again.  Port events change nothing.               *)
Room == KeyRoom - Len(pressed)
hid_key_to_ascii(k) == IF k \in Printable THEN k ELSE 0
NewKeys(s) == {k \in reports[s] \ previous[s] : hid_key_to_ascii(k) # 0}
KeptAll(q) == q
Kept(q) == SubSeq(q, 1, IF Len(q) < Room THEN Len(q) ELSE Room)

IsKeyboardReport(e) == e.kind = "report" /\ e.slot \in KBD_RINGS

RequeueOnPress(e) ==
    IsKeyboardReport(e) /\ e.code = SUCCESS /\ NewKeys(e.slot) # {}
Requeue(e) == IsKeyboardReport(e) /\ e.code = SUCCESS /\ e.slot \in EP_INDICES

ProcessEvent ==
    /\ at.pc \in Waits \cup {"run"}
    /\ events # <<>>
    /\ LET e == Head(events) IN
       /\ events' = Tail(events)
       /\ LAST_COMPLETION_CODE' = IF e.kind = "port" THEN LAST_COMPLETION_CODE ELSE e.code
       /\ LAST_SLOT_ID' = IF e.kind = "command" THEN e.slot ELSE LAST_SLOT_ID
       /\ IF IsKeyboardReport(e) /\ e.code = SUCCESS
          THEN /\ \E q \in SetToSeqs(NewKeys(e.slot)) : pressed' = pressed \o Kept(q)
               /\ previous' = [previous EXCEPT ![e.slot] = reports[e.slot]]
          ELSE UNCHANGED <<pressed, previous>>
       /\ requests' = IF Requeue(e) THEN [requests EXCEPT ![e.slot] = @ + 1] ELSE requests
       /\ heard' = (heard \/ e.of = <<at.pc, at.port>>)
    /\ UNCHANGED <<at, EP_INDICES, KBD_RINGS, listens, late, mixed, controllerVars, commands,
                   ep0, usb_data>>
-----------------------------------------------------------------------------
(* A request goes out and the boot thread waits for its answer: a command  *)
(* on the command ring, a control transfer on the slot's EP0 ring.  A      *)
(* transfer that reads zeroes the data buffer first.                       *)
ReadsData(op, length) == op \in {"device", "header"} \/ (op = "full" /\ length)

CodeKept(code) == code
CodeCleared(code) == 0

Send(op, slot, length) ==
    /\ at' = [at EXCEPT !.pc = op, !.slot = slot, !.length = length]
    /\ LAST_COMPLETION_CODE' = CodeCleared(LAST_COMPLETION_CODE)
    /\ heard' = FALSE
    /\ commands' = IF op \in Commands
                   THEN Append(commands, [op |-> op, port |-> at.port, slot |-> slot])
                   ELSE commands
    /\ ep0' = CASE op = "address" -> [ep0 EXCEPT ![slot] = <<>>]
                [] op \in Transfers -> [ep0 EXCEPT ![slot] =
                                          Append(@, [op |-> op, port |-> at.port, data |-> ReadsData(op, length)])]
                [] OTHER -> ep0
    /\ usb_data' = IF ReadsData(op, length) THEN Zeros ELSE usb_data

(* The next port; after the last one a no-op command, which nobody waits   *)
(* for, and the system runs.                                               *)
NextPort ==
    /\ IF at.port < MAX_PORTS
       THEN /\ at' = [at EXCEPT !.pc = "port", !.port = @ + 1, !.slot = 0, !.length = FALSE]
            /\ commands' = commands
       ELSE /\ at' = [at EXCEPT !.pc = "run", !.slot = 0, !.length = FALSE]
            /\ commands' = Append(commands, [op |-> "noop", port |-> 0, slot |-> 0])
    /\ heard' = FALSE
    /\ UNCHANGED <<LAST_COMPLETION_CODE, ep0, usb_data>>

(* enable_slot                                                             *)
EnableSlot == Send("enable", at.slot, FALSE) /\ LAST_SLOT_ID' = 0

(* poll_ports: an empty port is passed over, a port that is not enabled is *)
(* reset first.                                                            *)
PollPort ==
    /\ at.pc = "port"
    /\ \/ /\ attached[at.port] = "none"
          /\ NextPort /\ LAST_SLOT_ID' = LAST_SLOT_ID
       \/ /\ attached[at.port] # "none" /\ at.port \in enabled
          /\ EnableSlot
       \/ /\ attached[at.port] # "none" /\ at.port \notin enabled
          /\ at' = [at EXCEPT !.pc = "reset"]
          /\ UNCHANGED <<LAST_COMPLETION_CODE, LAST_SLOT_ID, heard, commands, ep0, usb_data>>
    /\ UNCHANGED <<EP_INDICES, KBD_RINGS, previous, pressed, listens, late, mixed,
                   controllerVars, requests, events>>

ResetDone ==
    /\ at.pc = "reset" /\ at.port \in enabled
    /\ EnableSlot
    /\ UNCHANGED <<EP_INDICES, KBD_RINGS, previous, pressed, listens, late, mixed,
                   controllerVars, requests, events>>

(* What the configuration descriptor says, as far as the buffer holds it:  *)
(* an answer to another request is read as if it were one.                 *)
HasLength == IF usb_data = Zeros THEN {FALSE}
             ELSE IF usb_data = <<"header", at.port>> THEN {TRUE} ELSE BOOLEAN
HasInterruptIn ==
    IF ~at.length \/ usb_data = Zeros THEN {FALSE}
    ELSE IF usb_data = <<"full", at.port>> THEN {attached[at.port] = "keyboard"}
    ELSE BOOLEAN

(* What follows the wait for an answer.  SET_IDLE and SET_PROTOCOL may     *)
(* fail; every other step needs the code for success.                      *)
PassedAlways == TRUE
Passed == LAST_COMPLETION_CODE = SUCCESS
NoEndpoint == UNCHANGED <<EP_INDICES, KBD_RINGS, requests, listens>>

(* address_device, for the slot enable_slot returned: the slot gets a new  *)
(* EP0 ring.                                                               *)
AddressDevice ==
    /\ at.pc = "enable" /\ LAST_SLOT_ID > 0
    /\ Send("address", LAST_SLOT_ID, FALSE)
    /\ NoEndpoint

(* get_descriptor, and get_config_descriptor up to its first transfer      *)
GetDescriptor ==
    /\ at.pc = "address" /\ Passed
    /\ Send("device", at.slot, FALSE)
    /\ NoEndpoint

GetConfigDescriptor ==
    /\ at.pc = "device" /\ Passed
    /\ Send("header", at.slot, FALSE)
    /\ NoEndpoint

(* get_config_descriptor goes on: the whole descriptor, then the first     *)
(* Interrupt In endpoint in it, for which setup_keyboard_endpoint starts   *)
GetFullDescriptor ==
    /\ at.pc = "header" /\ Passed
    /\ \E length \in HasLength : Send("full", at.slot, length)
    /\ NoEndpoint

FindEndpoint ==
    /\ at.pc = "full" /\ Passed
    /\ \E found \in HasInterruptIn :
         IF found THEN Send("config", at.slot, FALSE) /\ EP_INDICES' = EP_INDICES \cup {at.slot}
         ELSE NextPort /\ UNCHANGED EP_INDICES
    /\ UNCHANGED <<KBD_RINGS, requests, listens>>

(* setup_keyboard_endpoint: SET_IDLE, SET_PROTOCOL, the keyboard's ring,   *)
(* CONFIGURE_ENDPOINT, and the first report request                        *)
SetIdle == at.pc = "config" /\ Passed /\ Send("idle", at.slot, FALSE) /\ NoEndpoint
SetProtocol == at.pc = "idle" /\ Send("protocol", at.slot, FALSE) /\ NoEndpoint

ConfigureEndpoint ==
    /\ at.pc = "protocol"
    /\ Send("configure", at.slot, FALSE)
    /\ KBD_RINGS' = KBD_RINGS \cup {at.slot} /\ requests' = [requests EXCEPT ![at.slot] = 0]
    /\ UNCHANGED <<EP_INDICES, listens>>

StartReports ==
    /\ at.pc = "configure" /\ Passed
    /\ requests' = [requests EXCEPT ![at.slot] = @ + 1]
    /\ listens' = listens \cup {at.slot}
    /\ NextPort
    /\ UNCHANGED <<EP_INDICES, KBD_RINGS>>

(* Without a slot, or without the code for success, the port is left.      *)
LeavePort ==
    /\ IF at.pc = "enable" THEN LAST_SLOT_ID = 0 ELSE at.pc \notin {"idle", "protocol"} /\ ~Passed
    /\ NextPort
    /\ NoEndpoint

GoOn ==
    \/ AddressDevice \/ GetDescriptor \/ GetConfigDescriptor \/ GetFullDescriptor
    \/ FindEndpoint \/ SetIdle \/ SetProtocol \/ ConfigureEndpoint \/ StartReports
    \/ LeavePort

(* A wait ends when process_events has emptied the ring and a code is      *)
(* there; control_transfer also gives up after 2,000,000 rounds.           *)
WaitOver ==
    /\ at.pc \in Waits /\ events = <<>> /\ LAST_COMPLETION_CODE # 0
    /\ GoOn
    /\ mixed' = (mixed \/ ~heard)
    /\ UNCHANGED <<LAST_SLOT_ID, previous, pressed, late, controllerVars, events>>

GivesUpNever(pc) == FALSE
GivesUp(pc) == pc \in Transfers
TimeOut ==
    /\ GivesUp(at.pc) /\ events = <<>> /\ LAST_COMPLETION_CODE = 0
    /\ GoOn
    /\ late' = TRUE
    /\ UNCHANGED <<LAST_SLOT_ID, previous, pressed, mixed, controllerVars, events>>

(* get_key, by sys_read_key.                                               *)
ReadKey ==
    /\ at.pc = "run" /\ pressed # <<>>
    /\ pressed' = Tail(pressed)
    /\ UNCHANGED <<at, LAST_COMPLETION_CODE, LAST_SLOT_ID, EP_INDICES, KBD_RINGS, previous,
                   listens, heard, late, mixed, controllerVars, commands, ep0, requests, events, usb_data>>

-----------------------------------------------------------------------------
(* The controller and the devices (external).                              *)
Post(kind, code, slot, of) ==
    /\ Len(events) < EventRoom
    /\ events' = Append(events, [kind |-> kind, code |-> code, slot |-> slot, of |-> of])

HostReset ==
    /\ \/ host = "reset" /\ host' \in {"not ready", "ready"}
       \/ host = "not ready" /\ host' = "ready"
    /\ UNCHANGED <<driverVars, attached, enabled, reports, used, addressed, halted, commands,
                   ep0, requests, events, usb_data>>

PortReset ==
    /\ at.pc = "reset" /\ at.port \notin enabled
    /\ enabled' = enabled \cup {at.port}
    /\ Post("port", 0, 0, <<"port", at.port>>)
    /\ UNCHANGED <<driverVars, host, attached, reports, used, addressed, halted, commands,
                   ep0, requests, usb_data>>

Execute ==
    /\ commands # <<>>
    /\ LET c == Head(commands)
           free == Slots \ used
           new == CHOOSE s \in free : \A t \in free : s <= t
       IN
       \E ok \in BOOLEAN :
       /\ ok /\ c.op = "enable" => free # {}
       /\ used' = IF ok /\ c.op = "enable" THEN used \cup {new} ELSE used
       /\ addressed' = IF ok /\ c.op = "address" THEN addressed \cup {c.slot} ELSE addressed
       /\ halted' = IF ok /\ c.op = "address" THEN halted \ {<<c.slot, "ep0">>} ELSE halted
       /\ Post("command", IF ok THEN SUCCESS ELSE STALL,
               IF c.op # "enable" THEN c.slot ELSE IF ok THEN new ELSE 0, <<c.op, c.port>>)
    /\ commands' = Tail(commands)
    /\ UNCHANGED <<driverVars, host, attached, enabled, reports, ep0, requests, usb_data>>

AnswerTransfer(s) ==
    /\ ep0[s] # <<>> /\ s \in addressed /\ <<s, "ep0">> \notin halted
    /\ LET t == Head(ep0[s]) IN
       \E ok \in BOOLEAN :
       /\ Post("transfer", IF ok THEN SUCCESS ELSE STALL, s, <<t.op, t.port>>)
       /\ usb_data' = IF ok /\ t.data THEN <<t.op, t.port>> ELSE usb_data
       /\ halted' = IF ok THEN halted ELSE halted \cup {<<s, "ep0">>}
    /\ ep0' = [ep0 EXCEPT ![s] = Tail(@)]
    /\ UNCHANGED <<driverVars, host, attached, enabled, reports, used, addressed, commands,
                   requests>>

Report(s) ==
    /\ requests[s] > 0 /\ <<s, "kbd">> \notin halted
    /\ \/ \E keys \in SUBSET Keys :
            /\ keys # reports[s]
            /\ reports' = [reports EXCEPT ![s] = keys]
            /\ halted' = halted
            /\ Post("report", SUCCESS, s, <<"report", s>>)
       \/ /\ reports' = reports
          /\ halted' = halted \cup {<<s, "kbd">>}
          /\ Post("report", STALL, s, <<"report", s>>)
    /\ requests' = [requests EXCEPT ![s] = @ - 1]
    /\ UNCHANGED <<driverVars, host, attached, enabled, used, addressed, commands, ep0,
                   usb_data>>

-----------------------------------------------------------------------------
XhciDriver == HostReady \/ PollPort \/ ResetDone \/ ProcessEvent \/ WaitOver \/ TimeOut
XhciNext ==
    \/ XhciDriver \/ ReadKey
    \/ HostReset \/ PortReset \/ Execute
    \/ \E s \in Slots : AnswerTransfer(s) \/ Report(s)

(* The boot thread keeps polling and gets past the reports of keyboards,   *)
(* which come slower than it polls; the controller finishes its reset,     *)
(* resets ports and executes commands.  No device need ever answer.                         *)
XhciFairness ==
    /\ WF_xhciVars(XhciDriver) /\ SF_xhciVars(WaitOver \/ TimeOut)
    /\ WF_xhciVars(HostReset) /\ WF_xhciVars(PortReset) /\ SF_xhciVars(Execute)
XhciSpec == XhciInit /\ [][XhciNext]_xhciVars /\ XhciFairness

-----------------------------------------------------------------------------
(* The driver's state and the devices': only an enabled slot is addressed, *)
(* a keyboard's ring belongs to a slot with an endpoint index, and neither *)
(* buffer holds more than its room.                                        *)
XhciTypeOK ==
    /\ attached \in [Ports -> {"none", "keyboard", "other"}] /\ enabled \subseteq Ports
    /\ at \in [pc : Waits \cup {"hcrst", "cnr", "port", "reset", "run"}, port : Ports, slot : {0} \cup Slots,
               length : BOOLEAN]
    /\ LAST_COMPLETION_CODE \in {0, SUCCESS, STALL} /\ LAST_SLOT_ID \in {0} \cup Slots
    /\ EP_INDICES \subseteq Slots /\ KBD_RINGS \subseteq EP_INDICES
    /\ used \subseteq Slots /\ addressed \subseteq used
    /\ Len(events) <= EventRoom /\ Len(pressed) <= KeyRoom

Underway(s) ==
    requests[s] + Len(SelectSeq(events, LAMBDA e : e.kind = "report" /\ e.slot = s))

(* A keyboard that was set up has exactly one report requested or waiting  *)
(* to be processed, during the enumeration of further devices too: with    *)
(* two, the second report would be written over the one process_events is  *)
(* about to compare; with none, the keyboard would be dead.  Excluded is   *)
(* none, after the endpoint stalled or a wait was ended by somebody else's *)
(* event (see MixedOnlyBy).                                                *)
OneRequest ==
    /\ \A s \in Slots : Underway(s) <= 1
    /\ \A s \in listens : mixed \/ <<s, "kbd">> \in halted \/ Underway(s) = 1

(* The answer that ends a wait of the boot thread is the answer to its own *)
(* request, as "Wait for completion" says, except after some control       *)
(* transfer timed out, or when a keyboard set up earlier is already        *)
(* reporting.                                                              *)
MixedOnlyBy == mixed => late \/ KBD_RINGS # {}

(* TRBs on a slot's EP0 ring: setup, data if any, and status.              *)
Outstanding(s) == FoldLeft(LAMBDA n, t : n + (IF t.data THEN 3 ELSE 2), 0, ep0[s])

(* enqueue never asks whether the ring has room (xhci.rs:165).  It has: a  *)
(* device that does not answer, or answers late, is left before its ring   *)
(* fills, and no event, however mixed up, makes the driver queue more      *)
(* commands or report requests than the rings hold.  This is what          *)
(* XhciRings assumes of the driver.                                        *)
RingsHaveRoom ==
    /\ Len(commands) <= RingRoom
    /\ \A s \in Slots : Outstanding(s) <= RingRoom /\ requests[s] <= RingRoom

(* Boot gets past USB: the controller is started, poll_ports ends and   *)
(* the system runs, whatever the devices answer or fail to answer.         *)
EnumerationEnds == <>(at.pc = "run")
=============================================================================
