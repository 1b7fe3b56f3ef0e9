---------------------------- MODULE Pl2303Proofs ----------------------------
(***************************************************************************)
(* Proofs about the pl2303 driver, for any number of threads, of calls, of *)
(* interrupts and of reads, and any status bits in use.  DriverInv is      *)
(* inductive: to what the properties say of a finished call or callback it *)
(* adds what holds in the middle of one, after the unlock.                 *)
(***************************************************************************)
EXTENDS Pl2303, TLAPS

(* The interrupt urb is not submitted before the port is open. *)
Phases == port \in {"closed", "termios", "int_urb"} => int_urb = "none"

(* Unless calls have met, one thread at most has a copy to send, the last. *)
Senders ==
  /\ \A t \in Threads : pc[t] = "send" => copy[t] \subseteq Control
  /\ ~ excused =>
       /\ \A t, u \in Threads : pc[t] = "send" /\ pc[u] = "send" => t = u
       /\ \A t \in Threads : pc[t] = "send" => copy[t] = line_control
       /\ (\A t \in Threads : pc[t] # "send") => lines = line_control

(* In the middle of the callback the tty has the carrier of prev; when it   *)
(* has decided to report, it will have that of line_status.                 *)
BeforeCompare == int_urb \in {"break", "wake", "tty", "dcd"}

Carrier ==
  \/ unseen \/ int_urb = "report"
  \/ carrier = IF BeforeCompare THEN "DCD" \in prev ELSE "DCD" \in line_status

(* A break that is still to be reported is in line_status for the interrupt *)
(* callback, or the read callback has taken it out and keeps it.            *)
ReaderHasBreak == rpc # "idle" /\ "BREAK" \in rstatus

Breaks ==
  /\ brk = "raised" /\ int_urb # "break" => "BREAK" \notin line_status /\ ReaderHasBreak
  /\ brk = "raised" /\ int_urb = "break" => "BREAK" \in line_status \/ ReaderHasBreak

DriverInv ==
  TypeOK /\ Phases /\ Senders /\ Carrier /\ Breaks /\ NoChangeSleptThrough

-----------------------------------------------------------------------------
(* Next by the threads' calls, the waits, and the rest. *)

ControlCall(t) ==
  \/ \E on \in BOOLEAN : pl2303_dtr_rts(t, on) \/ pl2303_set_termios(t, on)
  \/ \E with_tty, hw_change, b0 \in BOOLEAN : OpenTermios(t, with_tty, hw_change, b0)
  \/ \E set, clear \in SUBSET Control : pl2303_tiocmset(t, set, clear)

Wait(t) == WaitCall(t) \/ interruptible_sleep_on(t) \/ WaitSignal(t) \/ WaitCheck(t)

LEMMA StepCases ==
  ASSUME [Next]_vars
  PROVE  \/ UNCHANGED vars
         \/ \E t \in Threads : ControlCall(t) \/ set_control_lines(t) \/ Wait(t)
         \/ Interrupt \/ Read \/ Port
BY DEF Next, ThreadStep, ControlCall, Wait

(* A call changes the lines under the lock and has a copy to send, or it    *)
(* changes nothing but the count of calls and the state of the port.       *)
Sends(t, new) ==
  /\ pc[t] = "idle" /\ new \subseteq Control
  /\ line_control' = new
  /\ pc' = [pc EXCEPT ![t] = "send"] /\ copy' = [copy EXCEPT ![t] = new]
  /\ excused' = (excused \/ \E u \in Threads : pc[u] = "send")

LEMMA ControlCallCases ==
  ASSUME TypeOK, NEW t \in Threads, ControlCall(t)
  PROVE  /\ (\E new : Sends(t, new)) \/ UNCHANGED <<line_control, pc, copy, excused>>
         /\ UNCHANGED <<lines, late, line_status, intVars, brk, readVars>>
         /\ \/ UNCHANGED <<port, tty>> /\ port = "open" /\ calls < MaxCalls /\ calls' = calls + 1
            \/ port = "closed" /\ port' = "termios" /\ tty' \in BOOLEAN /\ calls' = calls
<1> USE DEF Call, ChangeControl, Goto, Copy, TermiosControl, Sends, TypeOK, Control
<1>1. ASSUME NEW on \in BOOLEAN, pl2303_dtr_rts(t, on)
      PROVE  /\ \E new : Sends(t, new)
             /\ UNCHANGED <<lines, late, line_status, intVars, brk, readVars>>
             /\ UNCHANGED <<port, tty>> /\ port = "open" /\ calls < MaxCalls /\ calls' = calls + 1
  BY <1>1 DEF pl2303_dtr_rts
<1>2. ASSUME NEW on \in BOOLEAN, pl2303_set_termios(t, on)
      PROVE  /\ (\E new : Sends(t, new)) \/ UNCHANGED <<line_control, pc, copy, excused>>
             /\ UNCHANGED <<lines, late, line_status, intVars, brk, readVars>>
             /\ UNCHANGED <<port, tty>> /\ port = "open" /\ calls < MaxCalls /\ calls' = calls + 1
  BY <1>2 DEF pl2303_set_termios
<1>3. ASSUME NEW with_tty \in BOOLEAN, NEW hw_change \in BOOLEAN, NEW b0 \in BOOLEAN,
             OpenTermios(t, with_tty, hw_change, b0)
      PROVE  /\ (\E new : Sends(t, new)) \/ UNCHANGED <<line_control, pc, copy, excused>>
             /\ UNCHANGED <<lines, late, line_status, intVars, brk, readVars>>
             /\ port = "closed" /\ port' = "termios" /\ tty' \in BOOLEAN /\ calls' = calls
  BY <1>3 DEF OpenTermios
<1>4. ASSUME NEW set \in SUBSET Control, NEW clear \in SUBSET Control,
             pl2303_tiocmset(t, set, clear)
      PROVE  /\ \E new : Sends(t, new)
             /\ UNCHANGED <<lines, late, line_status, intVars, brk, readVars>>
             /\ UNCHANGED <<port, tty>> /\ port = "open" /\ calls < MaxCalls /\ calls' = calls + 1
  BY <1>4 DEF pl2303_tiocmset
<1> QED BY <1>1, <1>2, <1>3, <1>4 DEF ControlCall

-----------------------------------------------------------------------------
(* One lemma per kind of step. *)

LEMMA ControlCallStep ==
  ASSUME DriverInv, NEW t \in Threads, ControlCall(t)
  PROVE  DriverInv'
<1>1. /\ (\E new : Sends(t, new)) \/ UNCHANGED <<line_control, pc, copy, excused>>
      /\ UNCHANGED <<lines, late, line_status, int_urb, prev, ints, carrier, unseen, brk,
                     rpc, rstatus, rdata, reads>>
      /\ \/ UNCHANGED <<port, tty>> /\ port = "open" /\ calls < MaxCalls /\ calls' = calls + 1
         \/ port = "closed" /\ port' = "termios" /\ tty' \in BOOLEAN /\ calls' = calls
  BY ControlCallCases DEF DriverInv, intVars, readVars
<1>2. TypeOK /\ Senders /\ NoChangeSleptThrough
  BY DEF DriverInv
<1>3. TypeOK'
  <2>1. calls' \in 0 .. MaxCalls
    BY <1>1, <1>2, Pl2303Assumption DEF TypeOK
  <2>2. /\ pc' \in [Threads -> {"idle", "send", "sleep", "asleep", "woken"}]
        /\ copy' \in [Threads -> (SUBSET Control) \cup (SUBSET StatusBits)]
        /\ line_control' \subseteq Control /\ {excused', tty'} \subseteq BOOLEAN
    BY <1>1, <1>2 DEF TypeOK, Sends
  <2> QED BY <1>1, <1>2, <2>1, <2>2 DEF TypeOK
<1>4. Senders'
  <2>1. CASE UNCHANGED <<line_control, pc, copy, excused>>
    BY <1>1, <1>2, <2>1 DEF Senders
  <2>2. ASSUME NEW new, Sends(t, new) PROVE Senders'
    BY <1>1, <1>2, <2>2 DEF Senders, Sends, TypeOK
  <2> QED BY <1>1, <2>1, <2>2
<1>5. Phases' /\ Carrier' /\ Breaks'
  BY <1>1 DEF DriverInv, Phases, Carrier, BeforeCompare, Breaks, ReaderHasBreak
<1>6. NoChangeSleptThrough'
  BY <1>1, <1>2 DEF NoChangeSleptThrough, Changed, WakeComing, Sends, TypeOK
<1> QED BY <1>3, <1>4, <1>5, <1>6 DEF DriverInv

LEMMA SetControlLinesStep ==
  ASSUME DriverInv, NEW t \in Threads, set_control_lines(t)
  PROVE  DriverInv'
<1>1. /\ pc[t] = "send"
      /\ pc' = [pc EXCEPT ![t] = "idle"] /\ copy' = [copy EXCEPT ![t] = {}]
      /\ \/ lines' = copy[t] /\ excused' = excused
         \/ excused' = TRUE /\ lines' = lines
      /\ UNCHANGED <<port, tty, line_control, late, calls, line_status, int_urb, prev, ints,
                     carrier, unseen, brk, rpc, rstatus, rdata, reads>>
  BY DEF set_control_lines, Goto, intVars, readVars
<1>2. TypeOK /\ Senders /\ NoChangeSleptThrough
  BY DEF DriverInv
<1>3. TypeOK'
  <2>1. copy[t] \subseteq Control
    BY <1>1, <1>2 DEF Senders
  <2> QED BY <1>1, <1>2, <2>1 DEF TypeOK
<1>4. Senders'
  BY <1>1, <1>2 DEF Senders, TypeOK
<1>5. Phases' /\ Carrier' /\ Breaks'
  BY <1>1 DEF DriverInv, Phases, Carrier, BeforeCompare, Breaks, ReaderHasBreak
<1>6. NoChangeSleptThrough'
  BY <1>1, <1>2 DEF NoChangeSleptThrough, Changed, WakeComing, TypeOK
<1> QED BY <1>3, <1>4, <1>5, <1>6 DEF DriverInv

LEMMA WaitStep ==
  ASSUME DriverInv, NEW t \in Threads, Wait(t)
  PROVE  DriverInv'
<1>1. UNCHANGED <<port, tty, line_control, lines, excused, line_status, int_urb, prev, ints,
                  carrier, unseen, brk, rpc, rstatus, rdata, reads>>
  BY DEF Wait, WaitCall, interruptible_sleep_on, WaitSignal, WaitCheck, ctlVars, intVars,
         readVars
<1>2. TypeOK /\ Senders /\ NoChangeSleptThrough
  BY DEF DriverInv
<1>3. /\ pc[t] # "send" /\ pc'[t] # "send"
      /\ \A u \in Threads \ {t} : pc'[u] = pc[u] /\ copy'[u] = copy[u] /\ late'[u] = late[u]
  BY <1>2 DEF Wait, WaitCall, Call, interruptible_sleep_on, WaitSignal, WaitCheck, Goto, TypeOK
<1>4. TypeOK'
  <2>1. calls' \in 0 .. MaxCalls
    BY <1>2, Pl2303Assumption DEF TypeOK, Wait, WaitCall, Call, interruptible_sleep_on,
                                  WaitSignal, WaitCheck
  <2>2. pc' \in [Threads -> {"idle", "send", "sleep", "asleep", "woken"}]
    BY <1>2 DEF TypeOK, Wait, WaitCall, interruptible_sleep_on, WaitSignal, WaitCheck, Goto
  <2>4. copy' \in [Threads -> (SUBSET Control) \cup (SUBSET StatusBits)]
    <3> DEFINE T == (SUBSET Control) \cup (SUBSET StatusBits)
    <3>1. copy \in [Threads -> T]
      BY <1>2 DEF TypeOK
    <3>2. line_status \in T /\ {} \in T
      <4>1. line_status \in SUBSET StatusBits
        BY <1>2 DEF TypeOK
      <4> QED BY <4>1
    <3>3. \/ copy' = copy
          \/ copy' = [copy EXCEPT ![t] = {}]
          \/ copy' = [copy EXCEPT ![t] = line_status]
      BY DEF Wait, WaitCall, interruptible_sleep_on, WaitSignal, WaitCheck, Goto
    <3> HIDE DEF T
    <3>4. copy' \in [Threads -> T]
      BY <3>1, <3>2, <3>3
    <3> QED BY <3>4 DEF T
  <2>3. late' \in [Threads -> BOOLEAN]
    BY <1>2 DEF TypeOK, Wait, WaitCall, interruptible_sleep_on, WaitSignal, WaitCheck,
                Changed, WakeComing
  <2> QED BY <1>1, <1>2, <2>1, <2>2, <2>3, <2>4 DEF TypeOK
<1>5. Senders'
  BY <1>1, <1>2, <1>3 DEF Senders
<1>6. Phases' /\ Carrier' /\ Breaks'
  BY <1>1 DEF DriverInv, Phases, Carrier, BeforeCompare, Breaks, ReaderHasBreak
<1>7. NoChangeSleptThrough'
  <2>1. ASSUME pc'[t] = "asleep", Changed(t)' PROVE WakeComing' \/ late'[t]
    BY <1>1, <1>2, <2>1 DEF Wait, WaitCall, interruptible_sleep_on, WaitSignal, WaitCheck, Goto,
                            Changed, WakeComing, TypeOK
  <2> QED BY <1>1, <1>2, <1>3, <2>1 DEF NoChangeSleptThrough, Changed, WakeComing
<1> QED BY <1>4, <1>5, <1>6, <1>7 DEF DriverInv

LEMMA InterruptStep ==
  ASSUME DriverInv, Interrupt
  PROVE  DriverInv'
<1>1. UNCHANGED <<port, tty, line_control, lines, excused, copy, calls, rpc, rstatus, rdata, reads>>
  BY DEF Interrupt, IntUpdate, IntNoStatus, IntBreak, IntWake, IntTty, IntCompare, IntDcd,
         IntSubmit, ctlVars, callVars, readVars
<1>2. TypeOK /\ Phases /\ Senders /\ Carrier /\ Breaks /\ NoChangeSleptThrough
  BY DEF DriverInv
<1>3. ASSUME NEW data \in SUBSET StatusBits, IntUpdate(data)
      PROVE  DriverInv'
  <2>1. /\ int_urb = "flight" /\ int_urb' = "break" /\ prev' = line_status
        /\ line_status' = data /\ ints < MaxInterrupts /\ ints' = ints + 1
        /\ brk' = (IF "BREAK" \in data THEN "raised" ELSE brk)
        /\ UNCHANGED <<pc, late, carrier, unseen>>
    BY <1>3 DEF IntUpdate, callVars
  <2>2. TypeOK'
    <3>1. ints' \in 0 .. MaxInterrupts
      BY <1>2, <2>1, Pl2303Assumption DEF TypeOK
    <3> QED BY <1>1, <1>2, <2>1, <3>1 DEF TypeOK
  <2>3. Phases' /\ Senders' /\ Carrier'
    BY <1>1, <1>2, <2>1 DEF Phases, Senders, Carrier, BeforeCompare, TypeOK
  <2>4. Breaks'
    BY <1>1, <1>2, <2>1 DEF Breaks, ReaderHasBreak
  <2>5. NoChangeSleptThrough'
    BY <2>1 DEF NoChangeSleptThrough, WakeComing
  <2> QED BY <2>2, <2>3, <2>4, <2>5 DEF DriverInv
<1>4. CASE IntNoStatus \/ IntSubmit
  <2>1. /\ int_urb \in {"flight", "submit"} /\ int_urb' \in {"submit", "none", "flight"}
        /\ int_urb' = "flight" => port = "open"
        /\ UNCHANGED <<pc, late, line_status, prev, carrier, unseen, brk>>
    BY <1>4 DEF IntNoStatus, IntSubmit, callVars
  <2>2. TypeOK'
    <3>1. ints' \in 0 .. MaxInterrupts
      BY <1>2, <1>4, Pl2303Assumption DEF TypeOK, IntNoStatus, IntSubmit
    <3>2. port # "closed"
      BY <1>2, <2>1 DEF TypeOK
    <3> QED BY <1>1, <1>2, <2>1, <3>1, <3>2 DEF TypeOK
  <2>3. Phases' /\ Senders' /\ Carrier'
    BY <1>1, <1>2, <2>1 DEF Phases, Senders, Carrier, BeforeCompare, TypeOK
  <2>4. Breaks'
    BY <1>1, <1>2, <2>1 DEF Breaks, ReaderHasBreak
  <2>5. NoChangeSleptThrough'
    BY <1>1, <1>2, <2>1 DEF NoChangeSleptThrough, WakeComing, Changed
  <2> QED BY <2>2, <2>3, <2>4, <2>5 DEF DriverInv
<1>5. CASE IntBreak
  <2>1. /\ int_urb = "break" /\ int_urb' = "wake"
        /\ brk' = (IF "BREAK" \in line_status THEN "reported" ELSE brk)
        /\ UNCHANGED <<pc, late, line_status, prev, ints, carrier, unseen>>
    BY <1>5 DEF IntBreak, BreakSeen, callVars
  <2>2. TypeOK' /\ Phases' /\ Senders' /\ Carrier' /\ Breaks'
    BY <1>1, <1>2, <2>1 DEF TypeOK, Phases, Senders, Carrier, BeforeCompare, Breaks, ReaderHasBreak
  <2>3. NoChangeSleptThrough'
    BY <2>1 DEF NoChangeSleptThrough, WakeComing
  <2> QED BY <2>2, <2>3 DEF DriverInv
<1>6. CASE IntWake
  <2>1. /\ int_urb = "wake" /\ int_urb' = "tty"
        /\ pc' = [t \in Threads |-> IF pc[t] = "asleep" THEN "woken" ELSE pc[t]]
        /\ late' = [t \in Threads |-> FALSE]
        /\ UNCHANGED <<brk, line_status, prev, ints, carrier, unseen>>
    BY <1>6 DEF IntWake, wake_up_interruptible
  <2>2. TypeOK' /\ Phases' /\ Carrier' /\ Breaks'
    BY <1>1, <1>2, <2>1 DEF TypeOK, Phases, Carrier, BeforeCompare, Breaks, ReaderHasBreak
  <2>3. Senders' /\ NoChangeSleptThrough'
    BY <1>1, <1>2, <2>1 DEF NoChangeSleptThrough, Senders
  <2> QED BY <2>2, <2>3 DEF DriverInv
<1>7. CASE IntTty \/ IntCompare
  <2>1. /\ int_urb \in {"tty", "dcd"} /\ int_urb' \in {"dcd", "report", "submit"}
        /\ prev' \in {prev, {}}
        /\ UNCHANGED <<pc, late, brk, line_status, ints, carrier>>
    BY <1>7 DEF IntTty, IntCompare, callVars
  <2>2. unseen' \in BOOLEAN
    BY <1>2, <1>7, Zenon DEF IntTty, IntCompare, DcdChanged, TypeOK
  <2>3. Carrier'
    <3>1. CASE IntTty
      BY <1>2, <3>1 DEF IntTty, DcdChanged, Carrier, BeforeCompare
    <3>2. CASE IntCompare
      BY <1>2, <3>2 DEF IntCompare, DcdChanged, Carrier, BeforeCompare
    <3> QED BY <1>7, <3>1, <3>2
  <2>4. TypeOK' /\ Phases' /\ Senders' /\ Breaks'
    BY <1>1, <1>2, <2>1, <2>2 DEF TypeOK, Phases, Senders, Breaks, ReaderHasBreak
  <2>5. NoChangeSleptThrough'
    BY <1>1, <1>2, <2>1 DEF NoChangeSleptThrough, WakeComing, Changed
  <2> QED BY <2>3, <2>4, <2>5 DEF DriverInv
<1>8. CASE IntDcd
  <2>1. /\ int_urb = "report" /\ int_urb' = "submit" /\ unseen' = FALSE
        /\ carrier' = ("DCD" \in line_status)
        /\ UNCHANGED <<pc, late, brk, line_status, prev, ints>>
    BY <1>8 DEF IntDcd, callVars
  <2>2. Carrier'
    BY <2>1 DEF Carrier, BeforeCompare
  <2>3. carrier' \in BOOLEAN
    <3>1. ("DCD" \in line_status) \in BOOLEAN
      OBVIOUS
    <3> QED BY <2>1, <3>1, Zenon
  <2>4. TypeOK' /\ Phases' /\ Senders' /\ Breaks'
    BY <1>1, <1>2, <2>1, <2>3 DEF TypeOK, Phases, Senders, Breaks, ReaderHasBreak
  <2>5. NoChangeSleptThrough'
    BY <1>1, <1>2, <2>1 DEF NoChangeSleptThrough, WakeComing, Changed
  <2> QED BY <2>2, <2>4, <2>5 DEF DriverInv
<1> QED BY <1>3, <1>4, <1>5, <1>6, <1>7, <1>8 DEF Interrupt

LEMMA ReadStep ==
  ASSUME DriverInv, Read
  PROVE  DriverInv'
<1>1. UNCHANGED <<port, tty, line_control, lines, excused, copy, calls, int_urb, prev, ints,
                  carrier, unseen>>
  BY DEF Read, ReadStatus, ReadWake, ReadPush, ctlVars, callVars, intVars
<1>2. TypeOK /\ Phases /\ Senders /\ Carrier /\ Breaks /\ NoChangeSleptThrough
  BY DEF DriverInv
<1>3. ASSUME NEW data \in BOOLEAN, ReadStatus(data)
      PROVE  DriverInv'
  <2>1. /\ port \in {"int_urb", "open"} /\ rpc = "idle" /\ rpc' = "wake"
        /\ rstatus' = line_status /\ rdata' = data
        /\ line_status' = line_status \ Transient
        /\ UNCHANGED <<pc, late, brk>>
    BY <1>3 DEF ReadStatus, callVars
  <2>2. TypeOK'
    <3>1. reads' \in 0 .. MaxReads
      BY <1>2, <1>3, Pl2303Assumption DEF TypeOK, ReadStatus
    <3> QED BY <1>1, <1>2, <2>1, <3>1 DEF TypeOK
  <2>3. Phases' /\ Senders' /\ Carrier'
    BY <1>1, <1>2, <2>1 DEF Phases, Senders, Carrier, BeforeCompare, Transient
  <2>4. Breaks'
    BY <1>1, <1>2, <2>1 DEF Breaks, ReaderHasBreak, Transient
  <2>5. \A t \in Threads : Changed(t)' => Changed(t)
    BY <1>1, <2>1, Pl2303Assumption DEF Changed, Transient
  <2>6. NoChangeSleptThrough'
    BY <1>1, <1>2, <2>1, <2>5 DEF NoChangeSleptThrough, WakeComing
  <2> QED BY <2>2, <2>3, <2>4, <2>6 DEF DriverInv
<1>4. CASE ReadWake \/ ReadPush
  <2>1. /\ rpc # "idle" /\ UNCHANGED <<line_status, reads>>
        /\ \/ rpc' = "idle" /\ rstatus' = {} /\ rdata' = FALSE
           \/ rpc' = "push" /\ UNCHANGED <<rstatus, rdata, brk>>
    BY <1>4 DEF ReadWake, ReadPush, ReadReturn
  <2>2. \/ UNCHANGED <<pc, late>>
        \/ /\ pc' = [t \in Threads |-> IF pc[t] = "asleep" THEN "woken" ELSE pc[t]]
           /\ late' = [t \in Threads |-> FALSE]
    BY <1>4 DEF ReadWake, ReadPush, wake_up_interruptible, callVars
  <2>3. brk' \in {brk, "reported", "swallowed"}
    BY <1>2, <1>4 DEF ReadWake, ReadPush, BreakDropped, TypeOK
  <2>4. brk' = "raised" /\ rpc' = "idle"
          => brk = "raised" /\ ("BREAK" \in rstatus => "BREAK" \in line_status)
    BY <1>2, <1>4 DEF ReadWake, ReadPush, ReadReturn, BreakDropped, TypeOK
  <2>5. TypeOK'
    <3>1. rdata' \in BOOLEAN /\ rstatus' \in SUBSET StatusBits
      BY <1>2, <2>1 DEF TypeOK
    <3>2. /\ pc' \in [Threads -> {"idle", "send", "sleep", "asleep", "woken"}]
          /\ late' \in [Threads -> BOOLEAN]
      BY <1>2, <2>2 DEF TypeOK
    <3> QED BY <1>1, <1>2, <2>1, <2>3, <3>1, <3>2 DEF TypeOK
  <2>6. Phases' /\ Carrier'
    BY <1>1, <1>2, <2>1 DEF Phases, Carrier, BeforeCompare
  <2>7. Breaks'
    BY <1>1, <1>2, <2>1, <2>4 DEF Breaks, ReaderHasBreak
  <2>8. Senders' /\ NoChangeSleptThrough'
    BY <1>1, <1>2, <2>1, <2>2 DEF NoChangeSleptThrough, Senders, WakeComing, Changed
  <2> QED BY <2>5, <2>6, <2>7, <2>8 DEF DriverInv
<1> QED BY <1>3, <1>4 DEF Read

LEMMA PortStep ==
  ASSUME DriverInv, Port
  PROVE  DriverInv'
<1>1. UNCHANGED <<line_control, lines, excused, pc, copy, late, calls, line_status, prev, ints,
                  carrier, unseen, brk, rpc, rstatus, rdata, reads>>
  BY DEF Port, OpenReadUrb, OpenIntUrb, tty_port_tty_set, CloseBegins, pl2303_close, ctlVars,
         callVars, intVars, readVars
<1>2. TypeOK /\ Phases /\ Senders /\ Carrier /\ Breaks /\ NoChangeSleptThrough
  BY DEF DriverInv
<1>3. /\ int_urb' # int_urb => {int_urb, int_urb'} \subseteq {"none", "flight"}
      /\ port' \in {port, "int_urb", "open", "closing", "closed"}
      /\ tty' \in BOOLEAN
      /\ port' = "closed" => int_urb' = "none" /\ rpc = "idle"
      /\ port' \in {"termios", "int_urb"} => int_urb' = "none"
  BY <1>2 DEF Port, OpenReadUrb, OpenIntUrb, tty_port_tty_set, CloseBegins, pl2303_close,
              usb_kill_urb, intVars, Phases, TypeOK
<1>4. TypeOK' /\ Phases'
  BY <1>1, <1>2, <1>3 DEF TypeOK, Phases
<1>5. Senders' /\ Carrier' /\ Breaks'
  BY <1>1, <1>2, <1>3 DEF Senders, Carrier, BeforeCompare, Breaks, ReaderHasBreak
<1>6. NoChangeSleptThrough'
  BY <1>1, <1>2, <1>3 DEF NoChangeSleptThrough, WakeComing, Changed
<1> QED BY <1>4, <1>5, <1>6 DEF DriverInv

LEMMA DriverInvInit == Init => DriverInv
<1> SUFFICES ASSUME Init PROVE DriverInv
  OBVIOUS
<1>1. TypeOK
  <2>1. calls \in 0 .. MaxCalls /\ ints \in 0 .. MaxInterrupts /\ reads \in 0 .. MaxReads
    BY Pl2303Assumption DEF Init
  <2>2. {excused, carrier, unseen, rdata, tty} \subseteq BOOLEAN
        /\ {line_status, prev, rstatus} \subseteq SUBSET StatusBits
    BY DEF Init
  <2>3. /\ copy \in [Threads -> (SUBSET Control) \cup (SUBSET StatusBits)]
        /\ late \in [Threads -> BOOLEAN]
        /\ pc \in [Threads -> {"idle", "send", "sleep", "asleep", "woken"}]
    BY DEF Init
  <2> QED BY <2>1, <2>2, <2>3 DEF Init, TypeOK
<1>2. Phases /\ Senders /\ Breaks /\ NoChangeSleptThrough
  BY DEF Init, Phases, Senders, Breaks, NoChangeSleptThrough
<1>3. Carrier
  <2>1. carrier \in BOOLEAN /\ ~ BeforeCompare
    BY DEF Init, BeforeCompare
  <2>2. carrier <=> "DCD" \in line_status
    BY DEF Init
  <2> QED BY <2>1, <2>2 DEF Carrier
<1> QED BY <1>1, <1>2, <1>3 DEF DriverInv

LEMMA DriverInvStep == DriverInv /\ [Next]_vars => DriverInv'
<1> SUFFICES ASSUME DriverInv, [Next]_vars PROVE DriverInv'
  OBVIOUS
<1>1. CASE UNCHANGED vars
  BY <1>1 DEF DriverInv, TypeOK, Phases, Senders, Carrier, BeforeCompare, Breaks, ReaderHasBreak,
              NoChangeSleptThrough, Changed, WakeComing, vars, ctlVars, callVars, intVars, readVars
<1> QED BY <1>1, StepCases, ControlCallStep, SetControlLinesStep, WaitStep, InterruptStep,
           ReadStep, PortStep

LEMMA DriverInvariant == Spec => []DriverInv
BY DriverInvInit, DriverInvStep, PTL DEF Spec

(* Types; while the port is closed no callback of pl2303.c runs and no urb  *)
(* is in flight (pl2303_close waits for both).                              *)
THEOREM DriverTypes == Spec => []TypeOK
<1>1. DriverInv => TypeOK
  BY DEF DriverInv
<1> QED BY <1>1, DriverInvariant, PTL

(* With no call under way the device has the lines of line_control, unless  *)
(* a message was lost or a call changed line_control while another had its  *)
(* copy still to send (pl2303_dtr_rts, pl2303_tiocmset, pl2303_set_termios, *)
(* all after the unlock).                                                   *)
THEOREM LinesInStep == Spec => []LinesAgree
<1>1. DriverInv => LinesAgree
  BY DEF DriverInv, Senders, LinesAgree
<1> QED BY <1>1, DriverInvariant, PTL

(* Once the interrupt callback is through, the carrier last reported is the *)
(* DCD line, although pl2303_update_line_status reads line_status twice     *)
(* more without the lock: only a change that found no tty attached goes     *)
(* unreported, until the next change that finds one.                        *)
THEOREM CarrierTold == Spec => []CarrierReported
<1>1. DriverInv => CarrierReported
  BY DEF DriverInv, Carrier, BeforeCompare, CarrierReported
<1> QED BY <1>1, DriverInvariant, PTL

(* A break is reported by one of the two callbacks, whichever finds it in   *)
(* line_status first (pl2303_update_line_status, the read callback), unless *)
(* the reader that took it out has no data, or no tty to give it to.        *)
THEOREM BreakTold == Spec => []BreakReported
<1>1. DriverInv => BreakReported
  BY DEF DriverInv, Breaks, ReaderHasBreak, BreakReported
<1> QED BY <1>1, DriverInvariant, PTL

(* Only the waiter that reads the status and goes to sleep after the change *)
(* was announced sleeps through it (wait_modem_info).                       *)
THEOREM WaitersWoken == Spec => []NoChangeSleptThrough
<1>1. DriverInv => NoChangeSleptThrough
  BY DEF DriverInv
<1> QED BY <1>1, DriverInvariant, PTL

-----------------------------------------------------------------------------
(* The baud rate.  Neighbours in baud_sup differ by a factor of two at most, *)
(* so the remainders PickNeighbour compares are distances.                   *)

LEMMA SupDomain == DOMAIN baud_sup = 1 .. 25
BY DEF baud_sup

LEMMA SupType ==
  \A k \in 1 .. 25 : baud_sup[k] \in Nat /\ 75 =< baud_sup[k] /\ baud_sup[k] =< 6000000
BY DEF baud_sup

LEMMA SupNext ==
  \A k \in 1 .. 24 : baud_sup[k] < baud_sup[k + 1] /\ baud_sup[k + 1] =< 2 * baud_sup[k]
BY DEF baud_sup

LEMMA SupSorted == \A j, k \in 1 .. 25 : j < k => baud_sup[j] < baud_sup[k]
BY DEF baud_sup

LEMMA Quotient == \A a, b \in Nat : b # 0 => (a \div b # 0 <=> a >= b)
OBVIOUS

LEMMA Nearer ==
  ASSUME NEW b \in Nat, NEW f \in Nat, NEW c \in Nat, 0 < f, f < b, b =< c, c =< 2 * f
  PROVE  LET r == PickNeighbour(b, f, c)
         IN r \in {f, c} /\ Distance(r, b) =< b - f /\ Distance(r, b) =< c - b
<1>1. c % b = c - b
  OBVIOUS
<1>2. b < 2 * f => b % f = b - f
  OBVIOUS
<1>3. b = 2 * f => b % f = 0
  OBVIOUS
<1> QED BY <1>1, <1>2, <1>3 DEF PickNeighbour, Distance

LEMMA MinIs ==
  ASSUME NEW S \in SUBSET Int, NEW m \in S, \A x \in S : m =< x
  PROVE  Min(S) = m
<1>1. \A x \in S : (\A y \in S : x =< y) => x = m
  OBVIOUS
<1> QED BY <1>1 DEF Min

Above(baud) == {k \in DOMAIN baud_sup : baud_sup[k] \div baud # 0}

LEMMA AboveIs ==
  ASSUME NEW baud \in Nat \ {0}
  PROVE  Above(baud) = {k \in 1 .. 25 : baud =< baud_sup[k]}
BY SupDomain, SupType, Quotient DEF Above

LEMMA RoundBaudIs ==
  ASSUME NEW baud \in Nat \ {0}
  PROVE  /\ 6000000 < baud => RoundBaud(baud) = baud
         /\ baud =< 75 => RoundBaud(baud) = 75
         /\ \A k \in 2 .. 25 : baud_sup[k - 1] < baud /\ baud =< baud_sup[k]
              => RoundBaud(baud) = PickNeighbour(baud, baud_sup[k - 1], baud_sup[k])
<1> DEFINE k0 == Min(Above(baud))
<1>0. RoundBaud(baud) = CASE Above(baud) = {} -> baud
                          [] Above(baud) # {} /\ k0 = 1 -> baud_sup[1]
                          [] OTHER -> PickNeighbour(baud, baud_sup[k0 - 1], baud_sup[k0])
  BY DEF RoundBaud, Above
<1>1. ASSUME 6000000 < baud PROVE RoundBaud(baud) = baud
  <2>1. Above(baud) = {}
    BY <1>1, AboveIs, SupType
  <2> QED BY <1>0, <2>1
<1>2. ASSUME NEW k \in 1 .. 25, baud =< baud_sup[k], k = 1 \/ baud_sup[k - 1] < baud
      PROVE  k0 = k /\ Above(baud) # {}
  <2>1. k \in Above(baud) /\ Above(baud) \in SUBSET Int
    BY <1>2, AboveIs
  <2>2. ASSUME NEW x \in Above(baud), x < k PROVE FALSE
    <3>1. x \in 1 .. 25 /\ baud =< baud_sup[x] /\ k - 1 \in 1 .. 25 /\ x =< k - 1
      BY <2>2, AboveIs
    <3>2. baud_sup[x] =< baud_sup[k - 1] /\ baud_sup[x] \in Nat /\ baud_sup[k - 1] \in Nat
      BY <3>1, SupSorted, SupType
    <3> QED BY <1>2, <2>2, <3>1, <3>2
  <2>3. \A x \in Above(baud) : k =< x
    BY <2>1, <2>2
  <2> QED BY <2>1, <2>3, MinIs
<1>3. baud_sup[1] = 75
  BY DEF baud_sup
<1>4. ASSUME baud =< 75 PROVE RoundBaud(baud) = 75
  <2>1. k0 = 1 /\ Above(baud) # {}
    BY <1>2, <1>3, <1>4
  <2> QED BY <1>0, <1>3, <2>1
<1>5. ASSUME NEW k \in 2 .. 25, baud_sup[k - 1] < baud, baud =< baud_sup[k]
      PROVE  RoundBaud(baud) = PickNeighbour(baud, baud_sup[k - 1], baud_sup[k])
  <2>1. k0 = k /\ Above(baud) # {}
    BY <1>2, <1>5
  <2> HIDE DEF k0
  <2> QED BY <1>0, <2>1
<1> QED BY <1>1, <1>4, <1>5

LEMMA Between ==
  ASSUME NEW baud \in Nat \ {0}, 75 < baud, baud =< 6000000
  PROVE  \E k \in 2 .. 25 : baud_sup[k - 1] < baud /\ baud =< baud_sup[k]
BY DEF baud_sup

(* Nearest of all rates, before the limits of the chip. *)
LEMMA RoundNearest ==
  ASSUME NEW baud \in Nat \ {0}, baud =< 6000000
  PROVE  /\ \E k \in 1 .. 25 : RoundBaud(baud) = baud_sup[k]
         /\ \A j \in 1 .. 25 : Distance(RoundBaud(baud), baud) =< Distance(baud_sup[j], baud)
<1>1. CASE baud =< 75
  <2>1. RoundBaud(baud) = 75 /\ baud_sup[1] = 75
    BY <1>1, RoundBaudIs DEF baud_sup
  <2> QED BY <1>1, <2>1, SupType DEF Distance
<1>2. CASE 75 < baud
  <2>1. PICK k \in 2 .. 25 : baud_sup[k - 1] < baud /\ baud =< baud_sup[k]
    BY <1>2, Between
  <2> DEFINE f == baud_sup[k - 1]
             c == baud_sup[k]
             r == RoundBaud(baud)
  <2>2. k - 1 \in 1 .. 24 /\ k - 1 \in 1 .. 25 /\ k \in 1 .. 25 /\ (k - 1) + 1 = k
    OBVIOUS
  <2>3. f \in Nat /\ c \in Nat /\ 0 < f /\ c =< 2 * f
    BY <2>2, SupType, SupNext
  <2>4. r = PickNeighbour(baud, f, c)
    BY <2>1, RoundBaudIs
  <2>5. r \in {f, c} /\ Distance(r, baud) =< baud - f /\ Distance(r, baud) =< c - baud
    BY <2>1, <2>3, <2>4, Nearer
  <2>6. ASSUME NEW j \in 1 .. 25
        PROVE  Distance(r, baud) =< Distance(baud_sup[j], baud)
    <3>1. baud_sup[j] \in Nat
      BY SupType
    <3>2. baud_sup[j] =< f \/ c =< baud_sup[j]
      <4>1. CASE j =< k - 1
        BY <2>2, <4>1, SupSorted, SupType
      <4>2. CASE k =< j
        BY <2>2, <4>2, SupSorted, SupType
      <4> QED BY <4>1, <4>2
    <3>3. Distance(r, baud) \in Int
      BY <2>3, <2>5 DEF Distance
    <3> HIDE DEF f, c, r
    <3>4. CASE baud_sup[j] =< f
      <4>1. Distance(baud_sup[j], baud) >= baud - f
        BY <2>1, <2>3, <3>1, <3>4 DEF Distance, f
      <4> QED BY <2>3, <2>5, <3>1, <3>3, <4>1 DEF Distance
    <3>5. CASE c =< baud_sup[j]
      <4>1. Distance(baud_sup[j], baud) >= c - baud
        BY <2>1, <2>3, <3>1, <3>5 DEF Distance, c
      <4> QED BY <2>3, <2>5, <3>1, <3>3, <4>1 DEF Distance
    <3> QED BY <3>2, <3>4, <3>5
  <2> QED BY <2>2, <2>5, <2>6
<1> QED BY <1>1, <1>2

(* The limits of the chip, and the two rates they are about. *)
LEMMA SetBaudNearest ==
  ASSUME NEW baud \in Nat \ {0}, NEW type \in Types
  PROVE  /\ \E k \in 1 .. 25 : SetBaud(baud, type) = baud_sup[k]
         /\ \A j \in 1 .. 25 : baud_sup[j] =< 1228800 \/ type = "HX"
              => Distance(SetBaud(baud, type), baud) =< Distance(baud_sup[j], baud)
<1> DEFINE b == RoundBaud(baud)
           s == SetBaud(baud, type)
<1>1. s = CASE b > 1228800 /\ type # "HX" -> 1228800
            [] b > 6000000 /\ type = "HX" -> 6000000
            [] OTHER -> b
  BY DEF SetBaud
<1>2. baud_sup[22] = 1228800 /\ baud_sup[25] = 6000000
  BY DEF baud_sup
<1>3. CASE 6000000 < baud
  <2>1. b = baud
    BY <1>3, RoundBaudIs
  <2>2. s = IF type = "HX" THEN 6000000 ELSE 1228800
    BY <1>1, <1>3, <2>1
  <2> QED BY <1>2, <1>3, <2>2, SupType DEF Distance
<1>4. CASE baud =< 6000000
  <2>1. PICK k \in 1 .. 25 : b = baud_sup[k]
    BY <1>4, RoundNearest
  <2>2. \A j \in 1 .. 25 : Distance(b, baud) =< Distance(baud_sup[j], baud)
    BY <1>4, RoundNearest
  <2>3. b \in Nat /\ b =< 6000000
    BY <2>1, SupType
  <2> HIDE DEF b, s
  <2>4. CASE b > 1228800 /\ type # "HX"
    <3>1. s = 1228800
      BY <1>1, <2>4
    <3>2. baud > 1228800
      <4>1. Distance(b, baud) =< Distance(1228800, baud)
        BY <1>2, <2>2
      <4> QED BY <2>3, <2>4, <4>1 DEF Distance
    <3> QED BY <1>2, <2>4, <3>1, <3>2, SupType DEF Distance, s
  <2>5. CASE ~ (b > 1228800 /\ type # "HX")
    <3>1. s = b
      BY <1>1, <2>3, <2>5
    <3> QED BY <2>1, <2>2, <3>1 DEF s
  <2> QED BY <2>4, <2>5
<1> QED BY <1>3, <1>4

(* A low rate is sent as it is. *)
LEMMA LowRateExact ==
  ASSUME NEW r \in Nat, r =< 115200
  PROVE  DecodeBaud(EncodeBaud(r)) = r
<1> DEFINE e == [i \in 0 .. 3 |-> (r \div 256 ^ i) % 256]
<1>1. EncodeBaud(r) = e
  BY DEF EncodeBaud
<1>2. 256 ^ 0 = 1 /\ 256 ^ 1 = 256 /\ 256 ^ 2 = 65536 /\ 256 ^ 3 = 16777216
  OBVIOUS
<1>3. /\ e[0] = r % 256 /\ e[1] = (r \div 256) % 256
      /\ e[2] = (r \div 65536) % 256 /\ e[3] = (r \div 16777216) % 256
  BY <1>2
<1> HIDE DEF e
<1>4. e[3] = 0
  BY <1>3
<1>5. (r % 256) + 256 * ((r \div 256) % 256) + 65536 * ((r \div 65536) % 256) = r
  OBVIOUS
<1> QED BY <1>1, <1>3, <1>4, <1>5 DEF DecodeBaud

(* A high rate is sent as a divisor and a power of four: n divisions by     *)
(* four make its quotient t fit a byte.                                     *)
Fits(t) == {i \in 0 .. 8 : t \div 4 ^ i < 256}
Least(t, n) == t \div 4 ^ n < 256 /\ \A i \in 0 .. 8 : i < n => ~ (t \div 4 ^ i < 256)
Meaning(t, n) == 384000000 \div (2 ^ (IF n = 0 THEN 0 ELSE 2 ^ n) * (t \div 4 ^ n))

LEMMA LeastPower ==
  ASSUME NEW t \in Nat, NEW n \in 0 .. 8, Least(t, n)
  PROVE  Min(Fits(t)) = n
<1>1. Fits(t) \subseteq 0 .. 8 /\ n \in Fits(t) /\ \A x \in Fits(t) : ~ (x < n)
  BY Zenon DEF Fits, Least
<1>2. Fits(t) \in SUBSET Int /\ \A x \in Fits(t) : n =< x
  BY <1>1
<1> QED BY <1>1, <1>2, MinIs

LEMMA HighRate ==
  ASSUME NEW r \in Nat, 115200 < r
  PROVE  DecodeBaud(EncodeBaud(r)) = Meaning(384000000 \div r, Min(Fits(384000000 \div r)))
<1> DEFINE t == 384000000 \div r
           n == Min(Fits(t))
           x == IF n = 0 THEN 0 ELSE 2 ^ n
           y == t \div 4 ^ n
           e == [i \in 0 .. 3 |-> CASE i = 0 -> y [] i = 1 -> x [] i = 2 -> 0 [] i = 3 -> 128]
<1>1. 12 * 1000 * 1000 * 32 = 384000000
  BY SMT
<1>2. ~ (r <= 115200)
  BY SMT
<1>3. EncodeBaud(r) = e
  BY <1>1, <1>2, SMT DEF EncodeBaud, Fits
<1>4. Meaning(t, n) = 384000000 \div (2 ^ x * y)
  BY SMT DEF Meaning
<1> HIDE DEF t, n, x, y
<1>5. e[0] = y /\ e[1] = x /\ e[3] = 128
  BY SMT
<1> HIDE DEF e
<1>6. DecodeBaud(e) = (12 * 1000 * 1000 * 32) \div (2 ^ x * y)
  BY <1>5, SMT DEF DecodeBaud
<1>7. DecodeBaud(EncodeBaud(r)) = Meaning(t, n)
  BY <1>1, <1>3, <1>4, <1>6, SMT
<1> QED BY <1>7, SMT DEF t, n

LEMMA HighRatesClose ==
  ASSUME NEW r \in {230400, 460800, 614400, 921600, 1228800, 2457600, 3000000, 6000000}
  PROVE  100 * Distance(DecodeBaud(EncodeBaud(r)), r) =< r
<1>1. /\ 4 ^ 0 = 1 /\ 4 ^ 1 = 4 /\ 4 ^ 2 = 16
      /\ 2 ^ 0 = 1 /\ 2 ^ 1 = 2 /\ 2 ^ 2 = 4 /\ 2 ^ 4 = 16
  BY SMT
<1> DEFINE t == 384000000 \div r
<1>2. r \in Nat /\ 115200 < r /\ t \in Nat
  BY SMT
<1>3. ASSUME NEW n \in 0 .. 8, Least(t, n)
      PROVE  DecodeBaud(EncodeBaud(r)) = Meaning(t, n)
  <2>1. Min(Fits(t)) = n
    BY <1>2, <1>3, LeastPower, SMT
  <2> QED BY <1>2, <2>1, HighRate, SMT
<1>4. CASE r = 230400
  <2>1. t = 1666
    BY <1>4, SMT
  <2>2. Least(t, 2) /\ Meaning(t, 2) = 230769
    BY <1>1, <2>1, SMT DEF Least, Meaning
  <2> QED BY <1>3, <1>4, <2>2, SMT DEF Distance
<1>5. CASE r = 460800
  <2>1. t = 833
    BY <1>5, SMT
  <2>2. Least(t, 1) /\ Meaning(t, 1) = 461538
    BY <1>1, <2>1, SMT DEF Least, Meaning
  <2> QED BY <1>3, <1>5, <2>2, SMT DEF Distance
<1>6. CASE r = 614400
  <2>1. t = 625
    BY <1>6, SMT
  <2>2. Least(t, 1) /\ Meaning(t, 1) = 615384
    BY <1>1, <2>1, SMT DEF Least, Meaning
  <2> QED BY <1>3, <1>6, <2>2, SMT DEF Distance
<1>7. CASE r = 921600
  <2>1. t = 416
    BY <1>7, SMT
  <2>2. Least(t, 1) /\ Meaning(t, 1) = 923076
    BY <1>1, <2>1, SMT DEF Least, Meaning
  <2> QED BY <1>3, <1>7, <2>2, SMT DEF Distance
<1>8. CASE r = 1228800
  <2>1. t = 312
    BY <1>8, SMT
  <2>2. Least(t, 1) /\ Meaning(t, 1) = 1230769
    BY <1>1, <2>1, SMT DEF Least, Meaning
  <2> QED BY <1>3, <1>8, <2>2, SMT DEF Distance
<1>9. CASE r = 2457600
  <2>1. t = 156
    BY <1>9, SMT
  <2>2. Least(t, 0) /\ Meaning(t, 0) = 2461538
    BY <1>1, <2>1, SMT DEF Least, Meaning
  <2> QED BY <1>3, <1>9, <2>2, SMT DEF Distance
<1>10. CASE r = 3000000
  <2>1. t = 128
    BY <1>10, SMT
  <2>2. Least(t, 0) /\ Meaning(t, 0) = 3000000
    BY <1>1, <2>1, SMT DEF Least, Meaning
  <2> QED BY <1>3, <1>10, <2>2, SMT DEF Distance
<1>11. CASE r = 6000000
  <2>1. t = 64
    BY <1>11, SMT
  <2>2. Least(t, 0) /\ Meaning(t, 0) = 6000000
    BY <1>1, <2>1, SMT DEF Least, Meaning
  <2> QED BY <1>3, <1>11, <2>2, SMT DEF Distance
<1> QED BY <1>4, <1>5, <1>6, <1>7, <1>8, <1>9, <1>10, <1>11, SMT

(* Whatever rate is asked for, not only the samples a run tries: the rate   *)
(* pl2303_set_termios sets is supported by the chip, none that the chip     *)
(* supports is nearer, and the bytes sent mean that rate to one percent.    *)
THEOREM EveryRateNearest ==
  \A baud \in Nat \ {0}, type \in Types : RateNearest(baud, type)
<1> SUFFICES ASSUME NEW baud \in Nat \ {0}, NEW type \in Types
             PROVE  RateNearest(baud, type)
  OBVIOUS
<1> DEFINE s == SetBaud(baud, type)
<1>1. PICK k \in 1 .. 25 : s = baud_sup[k]
  BY SetBaudNearest
<1>2. 100 * Distance(DecodeBaud(EncodeBaud(s)), s) =< s
  <2>1. CASE s =< 115200
    <3>1. s \in Nat /\ DecodeBaud(EncodeBaud(s)) = s
      BY <1>1, <2>1, SupType, LowRateExact, SMT
    <3> HIDE DEF s
    <3> QED BY <3>1, SMT DEF Distance
  <2>2. CASE ~ (s =< 115200)
    <3>1. s \in {230400, 460800, 614400, 921600, 1228800, 2457600, 3000000, 6000000}
      <4> HIDE DEF s
      <4> QED BY <1>1, <2>2, SMT DEF baud_sup
    <3> QED BY <3>1, HighRatesClose, SMT
  <2> QED BY <2>1, <2>2, SMT
<1> QED BY <1>1, <1>2, SetBaudNearest, SupDomain, SMT DEF RateNearest

LEMMA SamplesAreRates == BaudSamples \subseteq Nat \ {0}
<1>1. Len(baud_sup) = 25
  BY SMT DEF baud_sup
<1>2. ASSUME NEW k \in 1 .. 24
      PROVE  (baud_sup[k] + baud_sup[k + 1]) \div 2 \in Nat
             /\ (baud_sup[k] + baud_sup[k + 1]) \div 2 >= 75
  <2>1. k \in 1 .. 25 /\ k + 1 \in 1 .. 25
    BY SMT
  <2>2. /\ baud_sup[k] \in Nat /\ 75 =< baud_sup[k]
        /\ baud_sup[k + 1] \in Nat /\ 75 =< baud_sup[k + 1]
    BY <2>1, SupType, SMT
  <2> QED BY <2>2, SMT
<1> QED BY <1>1, <1>2, SupDomain, SupType, SMT DEF BaudSamples

(* The rates of pl2303_set_termios on an open port. *)
THEOREM RatesRight == Spec => []BaudNearest
<1>1. BaudNearest
  BY EveryRateNearest, SamplesAreRates DEF BaudNearest, RatesNearest
<1> QED BY <1>1, PTL
=============================================================================
