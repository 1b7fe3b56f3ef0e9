----------------------------- MODULE Pl2303Baud -----------------------------
(***************************************************************************)
(* The baud rate arithmetic of pl2303_set_termios                          *)
(* (driver-study/pl2303/pl2303.c, lines 305-360): the nearest supported    *)
(* rate and its encoding for the chip.                                     *)
(***************************************************************************)
EXTENDS Integers, Sequences, FiniteSetsExt

baud_sup == << 75, 150, 300, 600, 1200, 1800, 2400, 3600, 4800, 7200, 9600, 14400,
               19200, 28800, 38400, 57600, 115200, 230400, 460800, 614400, 921600,
               1228800, 2457600, 3000000, 6000000 >>

Types == {"type_0", "type_1", "HX"}

(* A faulty PickNeighbour: the comparison is turned round. *)
PickNeighbourFar(baud, baud_floor, baud_ceil) ==
  IF baud_ceil % baud < baud % baud_floor THEN baud_floor ELSE baud_ceil

(* The neighbour with the smaller remainder. *)
PickNeighbour(baud, baud_floor, baud_ceil) ==
  IF baud_ceil % baud > baud % baud_floor THEN baud_floor ELSE baud_ceil

(* The loop over baud_sup, up to the first rate that is not below baud. *)
RoundBaud(baud) ==
  LET above == {k \in DOMAIN baud_sup : baud_sup[k] \div baud # 0}
      k == Min(above)
  IN CASE above = {} -> baud
       [] above # {} /\ k = 1 -> baud_sup[1]
       [] OTHER -> PickNeighbour(baud, baud_sup[k - 1], baud_sup[k])

(* The limits of the chip. *)
SetBaud(baud, type) ==
  LET b == RoundBaud(baud)
  IN CASE b > 1228800 /\ type # "HX" -> 1228800
       [] b > 6000000 /\ type = "HX" -> 6000000
       [] OTHER -> b

(* buf[0] to buf[3]: the rate in little-endian order or, for high rates, a  *)
(* divisor and a power.  n rounds of the loop divide tmp by 4 each and      *)
(* double buf[1], which starts at 1 if there is a round at all.            *)
EncodeBaud(baud) ==
  IF baud <= 115200
  THEN [i \in 0 .. 3 |-> (baud \div 256 ^ i) % 256]
  ELSE LET tmp == (12 * 1000 * 1000 * 32) \div baud
           n == Min({i \in 0 .. 8 : tmp \div 4 ^ i < 256})
       IN [i \in 0 .. 3 |-> CASE i = 0 -> tmp \div 4 ^ n
                              [] i = 1 -> IF n = 0 THEN 0 ELSE 2 ^ n
                              [] i = 2 -> 0
                              [] i = 3 -> 128]

-----------------------------------------------------------------------------
(* How the chip reads buf, by the comment at lines 344-346. *)
DecodeBaud(buf) ==
  IF buf[3] = 128 THEN (12 * 1000 * 1000 * 32) \div (2 ^ buf[1] * buf[0])
                  ELSE buf[0] + 256 * buf[1] + 65536 * buf[2]

Distance(a, b) == IF a > b THEN a - b ELSE b - a

(* Every supported rate, and the rates around the middle between two. *)
BaudSamples ==
  LET Middle(k) == (baud_sup[k] + baud_sup[k + 1]) \div 2
  IN {1, 74, 6000001, 12000000}
       \cup {baud_sup[k] + i : k \in DOMAIN baud_sup, i \in {-1, 0, 1}}
       \cup {Middle(k) + i : k \in 1 .. Len(baud_sup) - 1, i \in {-1, 0, 1, 2}}

(* A rate the chip supports, none is nearer, and the chip is told so. *)
RateNearest(baud, type) ==
  LET set == SetBaud(baud, type)
      sent == DecodeBaud(EncodeBaud(set))
  IN /\ \E k \in DOMAIN baud_sup : baud_sup[k] = set
     /\ \A k \in DOMAIN baud_sup :
          baud_sup[k] <= 1228800 \/ type = "HX"
            => Distance(set, baud) <= Distance(baud_sup[k], baud)
     /\ 100 * Distance(sent, set) <= set

RatesNearest == \A baud \in BaudSamples, type \in Types : RateNearest(baud, type)
=============================================================================
