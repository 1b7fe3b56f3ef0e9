------------------------------- MODULE Pl2303 -------------------------------
(***************************************************************************)
(* The USB serial driver driver-study/pl2303/pl2303.c, one port.           *)
(*                                                                         *)
(* Threads change the control lines (pl2303_dtr_rts, pl2303_tiocmset,      *)
(* pl2303_set_termios): they update line_control under priv->lock and send *)
(* it to the device after the unlock.  The interrupt callback and the read *)
(* callback change line_status, and threads in TIOCMIWAIT sleep on it.     *)
(* A section under priv->lock is one step, and so is every access to       *)
(* line_status outside the lock and every call of the USB or tty layer.    *)
(*                                                                         *)
(* line_control and line_status are sets of lines.  What set_termios tells *)
(* the chip about speed and framing touches none of this; its arithmetic   *)
(* is in Pl2303Baud.                                                       *)
(***************************************************************************)
EXTENDS Pl2303Baud, FiniteSets

CONSTANTS
  Threads,      \* callers of the tty operations
  StatusBits,   \* the bits of line_status in use, by name
  Asked,        \* the modem lines TIOCMIWAIT asks for
  MaxCalls, MaxInterrupts, MaxReads   \* bounds

Control == {"DTR", "RTS"}

ASSUME Pl2303Assumption ==
  /\ StatusBits \subseteq {"DCD", "DSR", "RING", "CTS", "BREAK", "FRAME", "PARITY", "OVERRUN"}
  /\ Asked \subseteq StatusBits \cap {"DCD", "DSR", "RING", "CTS"}
  /\ {MaxCalls, MaxInterrupts, MaxReads} \subseteq Nat

VARIABLES
  port,          \* "closed", "termios", "int_urb" (opening), "open", "closing"
  tty,           \* is a tty attached?  What tty_port_tty_get finds
  line_control,  \* priv->line_control
  lines,         \* the control lines of the device
  pc,            \* a thread is "idle", about to "send" control, or in TIOCMIWAIT
  copy,          \* its control or its prevstatus
  late,          \* history: it went to sleep on a status that had changed
  calls,         \* calls begun
  excused,       \* history: a call changed line_control while another had still to
                 \* send, or a control message did not reach the device
  line_status,   \* priv->line_status
  int_urb,       \* "none", in "flight", or where its callback is
  prev, ints,    \* prev_line_status of the callback, and its calls
  carrier,       \* what usb_serial_handle_dcd_change reported last
  unseen,        \* history: DCD changed with no tty to tell, and no report since
  brk,           \* the last break: "none", "raised", "reported", "swallowed"
  rpc, rstatus, rdata, reads \* the read callback, its line_status, any data?, its calls

ctlVars  == <<line_control, lines, excused>>
callVars == <<pc, copy, late, calls>>
intVars  == <<int_urb, prev, ints, carrier, unseen>>
readVars == <<rpc, rstatus, rdata, reads>>
vars == <<port, tty, ctlVars, callVars, line_status, intVars, brk, readVars>>

(* pl2303_startup: a zeroed pl2303_private, nothing submitted. *)
Init ==
  /\ port = "closed" /\ tty = FALSE
  /\ line_control = {} /\ lines = {} /\ excused = FALSE
  /\ pc = [t \in Threads |-> "idle"] /\ copy = [t \in Threads |-> {}]
  /\ late = [t \in Threads |-> FALSE] /\ calls = 0
  /\ line_status = {} /\ int_urb = "none" /\ prev = {} /\ ints = 0
  /\ carrier = FALSE /\ unseen = FALSE /\ brk = "none"
  /\ rpc = "idle" /\ rstatus = {} /\ rdata = FALSE /\ reads = 0

Goto(t, at, with) ==
  pc' = [pc EXCEPT ![t] = at] /\ copy' = [copy EXCEPT ![t] = with]

Call(t) ==
  /\ port = "open" /\ pc[t] = "idle" /\ calls < MaxCalls
  /\ calls' = calls + 1

-----------------------------------------------------------------------------
(* The control lines *)

(* A faulty Copy: control is read before line_control is changed. *)
CopyEarly(new) == line_control

(* control = priv->line_control, after the change. *)
Copy(new) == new

(* The section under the lock of a call that goes on to send. *)
ChangeControl(t, new) ==
  /\ line_control' = new
  /\ Goto(t, "send", Copy(new))
  /\ excused' = (excused \/ \E u \in Threads : pc[u] = "send")

pl2303_dtr_rts(t, on) ==
  /\ Call(t)
  /\ ChangeControl(t, IF on THEN line_control \cup Control ELSE line_control \ Control)
  /\ UNCHANGED <<port, tty, lines, late, line_status, intVars, brk, readVars>>

pl2303_tiocmset(t, set, clear) ==
  /\ Call(t)
  /\ ChangeControl(t, (line_control \cup set) \ clear)
  /\ UNCHANGED <<port, tty, lines, late, line_status, intVars, brk, readVars>>

(* Lines 413-426; the lines are sent only if they change.  B0 drops them.   *)
TermiosControl(t, b0) ==
  LET new == IF b0 THEN line_control \ Control ELSE line_control \cup Control
  IN IF new # line_control
     THEN ChangeControl(t, new)
     ELSE UNCHANGED <<line_control, pc, copy, excused>>

(* With no change of the termios, or no memory, it does nothing at all.     *)
pl2303_set_termios(t, b0) ==
  /\ Call(t)
  /\ TermiosControl(t, b0)
  /\ UNCHANGED <<port, tty, lines, late, line_status, intVars, brk, readVars>>

(* The message arrives or is lost; nobody looks but the caller of tiocmset. *)
set_control_lines(t) ==
  /\ pc[t] = "send"
  /\ Goto(t, "idle", {})
  /\ \/ lines' = copy[t] /\ UNCHANGED excused
     \/ excused' = TRUE /\ UNCHANGED lines
  /\ UNCHANGED <<port, tty, line_control, late, calls, line_status, intVars, brk, readVars>>

-----------------------------------------------------------------------------
(* Open and close; thread t opens. *)

(* pl2303_set_termios is given an old_termios that was never initialised    *)
(* (line 477), so its test for a change (line 269) can go either way.  The  *)
(* console opens with no tty, and then it is not called.                   *)
OpenTermios(t, with_tty, hw_change, b0) ==
  /\ port = "closed" /\ pc[t] = "idle"
  /\ port' = "termios" /\ tty' = with_tty
  /\ IF with_tty /\ hw_change THEN TermiosControl(t, b0)
                               ELSE UNCHANGED <<line_control, pc, copy, excused>>
  /\ UNCHANGED <<lines, late, calls, line_status, intVars, brk, readVars>>

OpenReadUrb ==
  /\ port = "termios" /\ \A u \in Threads : pc[u] # "send"
  /\ port' \in {"int_urb", "closing"}
  /\ UNCHANGED <<tty, ctlVars, callVars, line_status, intVars, brk, readVars>>

OpenIntUrb ==
  /\ port = "int_urb"
  /\ \/ port' = "open" /\ int_urb' = "flight"
     \/ port' = "closing" /\ UNCHANGED int_urb
  /\ UNCHANGED <<tty, ctlVars, callVars, line_status, prev, ints, carrier, unseen, brk, readVars>>

(* The tty layer takes the tty away (a hangup, or the last close of a       *)
(* console's tty) or attaches one (to a console's port, or by a new open    *)
(* while a hangup is under way) whatever the callbacks are doing.           *)
tty_port_tty_set ==
  /\ port # "closed"
  /\ tty' = ~ tty
  /\ UNCHANGED <<port, ctlVars, callVars, line_status, intVars, brk, readVars>>

(* The last close, its tty still attached, or a hangup, its tty taken away, *)
(* under the calls in progress.                                            *)
CloseBegins ==
  /\ port = "open"
  /\ port' = "closing"
  /\ UNCHANGED <<tty, ctlVars, callVars, line_status, intVars, brk, readVars>>

(* A faulty usb_kill_urb: it only unlinks, as usb_unlink_urb does. *)
usb_unlink_urb == int_urb \in {"none", "flight"}

(* usb_kill_urb waits for the callbacks. *)
usb_kill_urb == int_urb \in {"none", "flight"} /\ rpc = "idle"

pl2303_close ==
  /\ port = "closing" /\ usb_kill_urb
  /\ port' = "closed" /\ int_urb' = "none" /\ tty' = FALSE
  /\ UNCHANGED <<ctlVars, callVars, line_status, prev, ints, carrier, unseen, brk, readVars>>

-----------------------------------------------------------------------------
(* The interrupt callback *)

(* pl2303_update_line_status, the section under the lock. *)
IntUpdate(data) ==
  /\ int_urb = "flight" /\ ints < MaxInterrupts
  /\ ints' = ints + 1
  /\ prev' = line_status /\ line_status' = data
  /\ brk' = IF "BREAK" \in data THEN "raised" ELSE brk
  /\ int_urb' = "break"
  /\ UNCHANGED <<port, tty, ctlVars, callVars, carrier, unseen, readVars>>

(* An error, or a packet without a status byte: straight to exit. *)
IntNoStatus ==
  /\ int_urb = "flight" /\ ints < MaxInterrupts
  /\ ints' = ints + 1
  /\ int_urb' = "submit"
  /\ UNCHANGED <<port, tty, ctlVars, callVars, line_status, prev, carrier, unseen, brk, readVars>>

(* A faulty BreakSeen: only the beginning of a break is reported. *)
BreakSeenEdge == "BREAK" \in line_status \ prev

(* line_status is read again, without the lock. *)
BreakSeen == "BREAK" \in line_status

IntBreak ==
  /\ int_urb = "break"
  /\ brk' = IF BreakSeen THEN "reported" ELSE brk
  /\ int_urb' = "wake"
  /\ UNCHANGED <<port, tty, ctlVars, callVars, line_status, prev, ints, carrier, unseen, readVars>>

(* A faulty wake_up_interruptible. *)
wake_up_nobody == UNCHANGED <<pc, late>>

wake_up_interruptible ==
  /\ pc' = [t \in Threads |-> IF pc[t] = "asleep" THEN "woken" ELSE pc[t]]
  /\ late' = [t \in Threads |-> FALSE]

IntWake ==
  /\ int_urb = "wake"
  /\ wake_up_interruptible
  /\ int_urb' = "tty"
  /\ UNCHANGED <<port, tty, ctlVars, copy, calls, line_status, prev, ints, carrier, unseen,
                 brk, readVars>>

DcdChanged == ("DCD" \in line_status) # ("DCD" \in prev)

(* tty_port_tty_get.  With no tty it returns, and a change of DCD is in     *)
(* line_status and told to nobody; a tty it gets stays until tty_kref_put.  *)
IntTty ==
  /\ int_urb = "tty"
  /\ IF tty THEN int_urb' = "dcd" /\ UNCHANGED <<prev, unseen>>
            ELSE int_urb' = "submit" /\ prev' = {} /\ unseen' = (unseen \/ DcdChanged)
  /\ UNCHANGED <<port, tty, ctlVars, callVars, line_status, ints, carrier, brk, readVars>>

(* line_status is read again, without the lock, to compare it with prev ... *)
IntCompare ==
  /\ int_urb = "dcd"
  /\ int_urb' = IF DcdChanged THEN "report" ELSE "submit"
  /\ prev' = {}
  /\ UNCHANGED <<port, tty, ctlVars, callVars, line_status, ints, carrier, unseen, brk, readVars>>

(* ... and once more for what usb_serial_handle_dcd_change is told.         *)
IntDcd ==
  /\ int_urb = "report"
  /\ carrier' = ("DCD" \in line_status) /\ unseen' = FALSE
  /\ int_urb' = "submit"
  /\ UNCHANGED <<port, tty, ctlVars, callVars, line_status, prev, ints, brk, readVars>>

(* usb_submit_urb; it fails while the urb is being killed, or for want of   *)
(* memory.                                                                 *)
IntSubmit ==
  /\ int_urb = "submit"
  /\ int_urb' \in IF port = "open" THEN {"flight", "none"} ELSE {"none"}
  /\ UNCHANGED <<port, tty, ctlVars, callVars, line_status, prev, ints, carrier, unseen, brk,
                 readVars>>

-----------------------------------------------------------------------------
(* The read callback *)

(* A faulty Transient: the mask is one bit too wide. *)
TransientWide == {"BREAK", "FRAME", "PARITY", "OVERRUN", "DCD"}

(* UART_STATE_TRANSIENT_MASK *)
Transient == {"BREAK", "FRAME", "PARITY", "OVERRUN"}

ReadStatus(data) ==
  /\ port \in {"int_urb", "open"} /\ rpc = "idle" /\ reads < MaxReads
  /\ reads' = reads + 1
  /\ rstatus' = line_status /\ rdata' = data
  /\ line_status' = line_status \ Transient
  /\ rpc' = "wake"
  /\ UNCHANGED <<port, tty, ctlVars, callVars, intVars, brk>>

(* The read callback has a break to hand over and returns without: it is    *)
(* lost, unless line_status has a new one.                                  *)
BreakDropped == IF "BREAK" \in rstatus \ line_status /\ brk = "raised" THEN "swallowed" ELSE brk

ReadReturn == rpc' = "idle" /\ rstatus' = {} /\ rdata' = FALSE

(* Waiters are woken; with nothing read that is all. *)
ReadWake ==
  /\ rpc = "wake"
  /\ wake_up_interruptible
  /\ IF rdata THEN rpc' = "push" /\ UNCHANGED <<rstatus, rdata, brk>>
              ELSE ReadReturn /\ brk' = BreakDropped
  /\ UNCHANGED <<port, tty, ctlVars, copy, calls, line_status, intVars, reads>>

(* What was read goes to the tty, if there is one, flagged TTY_BREAK before *)
(* any other flag.                                                         *)
ReadPush ==
  /\ rpc = "push"
  /\ brk' = CASE ~ tty -> BreakDropped
              [] tty /\ "BREAK" \in rstatus -> "reported"
              [] tty /\ "BREAK" \notin rstatus -> brk
  /\ ReadReturn
  /\ UNCHANGED <<port, tty, ctlVars, callVars, line_status, intVars, reads>>

-----------------------------------------------------------------------------
(* wait_modem_info *)

Changed(t) ==
  Asked \cap ((line_status \ copy[t]) \cup (copy[t] \ line_status)) # {}

(* A status was stored and its wake_up_interruptible is still to come. *)
WakeComing == int_urb \in {"break", "wake"}

WaitCall(t) ==
  /\ Call(t)
  /\ Goto(t, "sleep", line_status)
  /\ UNCHANGED <<port, tty, ctlVars, late, line_status, intVars, brk, readVars>>

interruptible_sleep_on(t) ==
  /\ pc[t] = "sleep"
  /\ pc' = [pc EXCEPT ![t] = "asleep"]
  /\ late' = [late EXCEPT ![t] = Changed(t) /\ ~ WakeComing]
  /\ UNCHANGED <<port, tty, ctlVars, copy, calls, line_status, intVars, brk, readVars>>

(* A signal ends the wait. *)
WaitSignal(t) ==
  /\ pc[t] \in {"asleep", "woken"}
  /\ Goto(t, "idle", {})
  /\ late' = [late EXCEPT ![t] = FALSE]
  /\ UNCHANGED <<port, tty, ctlVars, calls, line_status, intVars, brk, readVars>>

WaitCheck(t) ==
  /\ pc[t] = "woken"
  /\ IF Changed(t) THEN Goto(t, "idle", {}) ELSE Goto(t, "sleep", line_status)
  /\ UNCHANGED <<port, tty, ctlVars, late, calls, line_status, intVars, brk, readVars>>

-----------------------------------------------------------------------------
ThreadStep(t) ==
  \/ \E on \in BOOLEAN : pl2303_dtr_rts(t, on) \/ pl2303_set_termios(t, on)
  \/ \E set, clear \in SUBSET Control : set \cap clear = {} /\ pl2303_tiocmset(t, set, clear)
  \/ \E with_tty, hw_change, b0 \in BOOLEAN : OpenTermios(t, with_tty, hw_change, b0)
  \/ set_control_lines(t)
  \/ WaitCall(t) \/ interruptible_sleep_on(t) \/ WaitSignal(t) \/ WaitCheck(t)

Interrupt ==
  \/ \E data \in SUBSET StatusBits : IntUpdate(data)
  \/ IntNoStatus \/ IntBreak \/ IntWake \/ IntTty \/ IntCompare \/ IntDcd \/ IntSubmit

Read == (\E data \in BOOLEAN : ReadStatus(data)) \/ ReadWake \/ ReadPush

Port == OpenReadUrb \/ OpenIntUrb \/ tty_port_tty_set \/ CloseBegins \/ pl2303_close

Next == (\E t \in Threads : ThreadStep(t)) \/ Interrupt \/ Read \/ Port

Spec == Init /\ [][Next]_vars

-----------------------------------------------------------------------------
(* Properties *)

TypeOK ==
  /\ port \in {"closed", "termios", "int_urb", "open", "closing"}
  /\ line_control \subseteq Control /\ lines \subseteq Control
  /\ pc \in [Threads -> {"idle", "send", "sleep", "asleep", "woken"}]
  /\ copy \in [Threads -> (SUBSET Control) \cup (SUBSET StatusBits)]
  /\ late \in [Threads -> BOOLEAN] /\ {excused, carrier, unseen, rdata, tty} \subseteq BOOLEAN
  /\ {line_status, prev, rstatus} \subseteq SUBSET StatusBits
  /\ int_urb \in {"none", "flight", "break", "wake", "tty", "dcd", "report", "submit"}
  /\ port = "closed" => int_urb = "none" /\ rpc = "idle"
  /\ brk \in {"none", "raised", "reported", "swallowed"} /\ rpc \in {"idle", "wake", "push"}
  /\ calls \in 0 .. MaxCalls /\ ints \in 0 .. MaxInterrupts /\ reads \in 0 .. MaxReads

(* When no call is under way the device has the lines line_control says,    *)
(* unless a message was lost or a call changed line_control while another   *)
(* had still to send its own copy (lines 423, 464, 537: after the unlock).  *)
LinesAgree ==
  (\A t \in Threads : pc[t] # "send") /\ ~ excused
    => lines = line_control

(* Once the interrupt callback is through, the carrier last reported is the *)
(* DCD line, although the callback reads line_status twice more without the *)
(* lock (lines 714, 715) while the read callback writes it: unless DCD      *)
(* changed while no tty was attached, the one change that is stored and not *)
(* reported (line 712), and it has not changed with a tty since.            *)
CarrierReported ==
  int_urb \in {"none", "flight", "submit"} => unseen \/ carrier = ("DCD" \in line_status)

(* A break reaches the tty through usb_serial_handle_break or as the flag   *)
(* of the characters read.  The interrupt callback tests for it after the   *)
(* unlock (line 707), when the read callback may have cleared it; then the  *)
(* read callback has it, and hands it over unless its urb is empty or no    *)
(* tty is attached (lines 772-777).                                        *)
BreakReported ==
  brk = "raised" => int_urb = "break" \/ (rpc # "idle" /\ "BREAK" \in rstatus)

(* No waiter sleeps through a change of a line it asked for, unless it read *)
(* the status, the status changed and was announced, and only then it went  *)
(* to sleep (lines 588-592, and 598-592 in every later round).             *)
NoChangeSleptThrough ==
  \A t \in Threads : pc[t] = "asleep" /\ Changed(t) => WakeComing \/ late[t]

(* Whatever rate pl2303_set_termios may be asked for on an open port, the  *)
(* rate it sets is one the chip supports (line 306 says it falls back to    *)
(* 9600 otherwise), none that the chip supports is nearer to the one asked  *)
(* for, and the four bytes sent mean that rate, to one percent.            *)
BaudNearest == port = "open" => RatesNearest
=============================================================================
