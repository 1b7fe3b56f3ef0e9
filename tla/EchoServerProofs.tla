-------------------------- MODULE EchoServerProofs --------------------------
(***************************************************************************)
(* Proofs about the echo server, for any set of clients and any sizes of   *)
(* read, socket and message.  EchoInv is inductive: the types, the order   *)
(* of the bytes and the count of the write events hold of each client by   *)
(* itself, and a disconnect is judged by what the client is still owed.    *)
(* ReadStep and WriteStep say what the two callbacks do to a queue.        *)
(***************************************************************************)
EXTENDS EchoServer, SequenceTheorems, TLAPS

(* Helpers. *)

LEMMA MinOfTwo ==
  ASSUME NEW a \in Int, NEW b \in Int
  PROVE  /\ Min({a, b}) \in {a, b}
         /\ Min({a, b}) =< a /\ Min({a, b}) =< b
<1>1. \E x \in {a, b} : \A y \in {a, b} : x =< y
  <2>1. CASE a =< b BY <2>1
  <2>2. CASE b < a BY <2>2
  <2> QED BY <2>1, <2>2
<1> QED BY <1>1 DEF Min

LEMMA ReplaceHead ==
  ASSUME NEW S, NEW q \in Seq(S), q # <<>>, NEW w \in S
  PROVE  LET r == <<w>> \o Tail(q)
         IN /\ r \in Seq(S) /\ Len(r) = Len(q)
            /\ r[1] = w /\ \A i \in 2 .. Len(q) : r[i] = q[i]
<1>1. Tail(q) \in Seq(S) /\ Len(Tail(q)) = Len(q) - 1 /\ Len(q) \in Nat \ {0}
  BY EmptySeq, HeadTailProperties
<1>2. <<w>> \in Seq(S) /\ Len(<<w>>) = 1 /\ <<w>>[1] = w
  OBVIOUS
<1>3. \A i \in 1 .. Len(Tail(q)) : Tail(q)[i] = q[i + 1]
  BY HeadTailProperties
<1> QED BY <1>1, <1>2, <1>3, ConcatProperties

LEMMA AppendRun ==
  ASSUME NEW s \in Seq(Nat \ {0}), NEW k \in Nat, NEW n \in Nat
  PROVE  LET r == s \o [i \in 1 .. n |-> k + i]
         IN /\ r \in Seq(Nat \ {0}) /\ Len(r) = Len(s) + n
            /\ \A i \in 1 .. Len(s) : r[i] = s[i]
            /\ \A i \in Len(s) + 1 .. Len(s) + n : r[i] = k + (i - Len(s))
<1> DEFINE f == [i \in 1 .. n |-> k + i]
<1>1. f \in Seq(Nat \ {0}) /\ Len(f) = n
  OBVIOUS
<1> QED BY <1>1, ConcatProperties

LEMMA QueueTypes ==
  ASSUME TypeOK, NEW c \in Clients
  PROVE  /\ writeq[c] \in Seq(Buffer) /\ Len(writeq[c]) \in Nat
         /\ DOMAIN writeq[c] = 1 .. Len(writeq[c])
         /\ \A i \in 1 .. Len(writeq[c]) :
              /\ writeq[c][i] \in Buffer /\ writeq[c][i].from \in Nat
              /\ writeq[c][i].offset \in Nat /\ writeq[c][i].len \in Nat
              /\ writeq[c][i].len \in 1 .. BUFLEN /\ writeq[c][i].offset < writeq[c][i].len
<1>1. writeq[c] \in Seq(Buffer)
  BY DEF TypeOK
<1>2. /\ Len(writeq[c]) \in Nat /\ DOMAIN writeq[c] = 1 .. Len(writeq[c])
      /\ \A i \in 1 .. Len(writeq[c]) : writeq[c][i] \in Buffer
  BY <1>1
<1>3. \A i \in DOMAIN writeq[c] :
        writeq[c][i].len \in 1 .. BUFLEN /\ writeq[c][i].offset < writeq[c][i].len
  BY DEF TypeOK
<1> QED BY <1>1, <1>2, <1>3 DEF Buffer

-----------------------------------------------------------------------------
(* What on_read and on_write do to the queue of their client. *)

ReadBy(c, n) ==
  /\ n \in 1 .. BUFLEN /\ n =< rcvbuf[c]
  /\ writeq'[c] \in Seq(Buffer) /\ Len(writeq'[c]) = Len(writeq[c]) + 1
  /\ \A i \in 1 .. Len(writeq[c]) : writeq'[c][i] = writeq[c][i]
  /\ writeq'[c][Len(writeq[c]) + 1] = [from |-> received[c], len |-> n, offset |-> 0]
  /\ received'[c] = received[c] + n

LEMMA ReadStep ==
  ASSUME TypeOK, NEW c \in Clients, on_read(c)
  PROVE  /\ \E n \in Nat : /\ ReadBy(c, n)
                           /\ rcvbuf' = [rcvbuf EXCEPT ![c] = @ - n]
                           /\ received' = [received EXCEPT ![c] = @ + n]
         /\ \A d \in Clients \ {c} : writeq'[d] = writeq[d]
         /\ writeq' \in [Clients -> Seq(Buffer)]
<1> DEFINE n == BytesRead(c)
           b == [from |-> received[c], len |-> n, offset |-> 0]
<1>1. rcvbuf[c] \in Nat \ {0} /\ received[c] \in Nat /\ writeq[c] \in Seq(Buffer)
  BY DEF on_read, TypeOK
<1>2. n \in Nat \ {0} /\ n =< BUFLEN /\ n =< rcvbuf[c]
  <2>1. BUFLEN \in Int /\ rcvbuf[c] \in Int
    BY <1>1, EchoAssumption
  <2>2. n \in {BUFLEN, rcvbuf[c]} /\ n =< BUFLEN /\ n =< rcvbuf[c]
    BY <2>1, MinOfTwo, Zenon DEF BytesRead
  <2> QED BY <1>1, <2>2, EchoAssumption
<1>4. /\ writeq' = [writeq EXCEPT ![c] = Append(@, b)]
      /\ rcvbuf' = [rcvbuf EXCEPT ![c] = @ - n]
      /\ received' = [received EXCEPT ![c] = @ + n]
  BY DEF on_read
<1> HIDE DEF n
<1>3. b \in Buffer
  BY <1>1, <1>2 DEF Buffer
<1>5. writeq'[c] = Append(writeq[c], b) /\ received'[c] = received[c] + n
  BY <1>4 DEF TypeOK
<1> HIDE DEF b
<1>6. /\ writeq'[c] \in Seq(Buffer) /\ Len(writeq'[c]) = Len(writeq[c]) + 1
      /\ \A i \in 1 .. Len(writeq[c]) : writeq'[c][i] = writeq[c][i]
      /\ writeq'[c][Len(writeq[c]) + 1] = b
  BY <1>1, <1>3, <1>5, AppendProperties
<1>7. n \in 1 .. BUFLEN
  BY <1>2, EchoAssumption
<1>8. ReadBy(c, n)
  BY <1>2, <1>5, <1>6, <1>7 DEF ReadBy, b
<1>9. /\ \A d \in Clients \ {c} : writeq'[d] = writeq[d]
      /\ writeq' \in [Clients -> Seq(Buffer)]
  BY <1>4, <1>6 DEF TypeOK
<1> QED BY <1>2, <1>4, <1>8, <1>9

SentBy(c, b, n) ==
  /\ n \in Nat \ {0} /\ b.offset + n =< b.len
  /\ sent'[c] \in Seq(Nat \ {0}) /\ Len(sent'[c]) = Len(sent[c]) + n
  /\ \A i \in 1 .. Len(sent[c]) : sent'[c][i] = sent[c][i]
  /\ \A i \in Len(sent[c]) + 1 .. Len(sent[c]) + n :
       sent'[c][i] = b.from + b.offset + (i - Len(sent[c]))
  /\ sndbuf'[c] = sndbuf[c] + n /\ sndbuf'[c] =< SNDBUF

Partly(c, n) ==
  /\ writeq[c] # <<>> /\ SentBy(c, writeq[c][1], n)
  /\ writeq[c][1].offset + n < writeq[c][1].len
  /\ writeq'[c] \in Seq(Buffer) /\ Len(writeq'[c]) = Len(writeq[c])
  /\ writeq'[c][1] = [writeq[c][1] EXCEPT !.offset = @ + n]
  /\ \A i \in 2 .. Len(writeq[c]) : writeq'[c][i] = writeq[c][i]
  /\ ev_write' = ev_write

Wholly(c, n) ==
  /\ writeq[c] # <<>> /\ SentBy(c, writeq[c][1], n)
  /\ writeq[c][1].offset + n = writeq[c][1].len
  /\ writeq'[c] \in Seq(Buffer) /\ Len(writeq'[c]) = Len(writeq[c]) - 1
  /\ \A i \in 1 .. Len(writeq[c]) - 1 : writeq'[c][i] = writeq[c][i + 1]
  /\ ev_write' = ev_write \ {c}

Nothing(c) ==
  /\ writeq[c] = <<>> /\ UNCHANGED <<writeq, sent, sndbuf>>
  /\ ev_write' = ev_write \ {c}

LEMMA WriteStep ==
  ASSUME TypeOK, NEW c \in Clients, on_write(c)
  PROVE  /\ Nothing(c) \/ \E n \in Nat : Partly(c, n) \/ Wholly(c, n)
         /\ \A d \in Clients \ {c} : /\ writeq'[d] = writeq[d] /\ sent'[d] = sent[d]
                                     /\ sndbuf'[d] = sndbuf[d]
         /\ writeq' \in [Clients -> Seq(Buffer)] /\ sent' \in [Clients -> Seq(Nat \ {0})]
         /\ sndbuf' \in [Clients -> 0 .. SNDBUF]
<1>1. CASE writeq[c] = <<>>
  BY <1>1 DEF on_write, Nothing, Rearm, TypeOK
<1>2. CASE writeq[c] # <<>>
  <2> DEFINE b == Head(writeq[c])
             n == Min({b.len - b.offset, SNDBUF - sndbuf[c]})
  <2>1. /\ writeq[c] \in Seq(Buffer) /\ sent[c] \in Seq(Nat \ {0}) /\ sndbuf[c] \in Nat
        /\ sndbuf[c] < SNDBUF /\ SNDBUF \in Nat
    BY EchoAssumption DEF TypeOK, on_write, Writable
  <2>2. Len(writeq[c]) \in Nat \ {0} /\ DOMAIN writeq[c] = 1 .. Len(writeq[c])
    BY <1>2, <2>1, EmptySeq, LenProperties
  <2>3. b = writeq[c][1] /\ b \in Buffer
    BY <2>1, <2>2
  <2>4. b.offset < b.len /\ b.offset \in Nat /\ b.len \in Nat /\ b.from \in Nat
    BY <2>2, <2>3 DEF TypeOK, Buffer
  <2>5. n \in Nat \ {0} /\ n =< b.len - b.offset /\ n =< SNDBUF - sndbuf[c]
    <3>1. b.len - b.offset \in Int /\ SNDBUF - sndbuf[c] \in Int
      BY <2>1, <2>4
    <3>2. n \in {b.len - b.offset, SNDBUF - sndbuf[c]}
          /\ n =< b.len - b.offset /\ n =< SNDBUF - sndbuf[c]
      BY <3>1, MinOfTwo, Zenon
    <3> QED BY <2>1, <2>4, <3>2
  <2>6. /\ sent' = [sent EXCEPT ![c] = @ \o [i \in 1 .. n |-> b.from + b.offset + i]]
        /\ sndbuf' = [sndbuf EXCEPT ![c] = @ + n]
        /\ writeq' = [writeq EXCEPT ![c] = IF b.offset + n < b.len
                                           THEN <<Written(b, n)>> \o Tail(@) ELSE Tail(@)]
        /\ Rearm(c, b.offset + n >= b.len)
    BY <1>2 DEF on_write
  <2> HIDE DEF b, n
  <2>7. SentBy(c, b, n)
    <3> DEFINE k == b.from + b.offset
               r == sent[c] \o [i \in 1 .. n |-> k + i]
    <3>1. sent'[c] = r /\ sndbuf'[c] = sndbuf[c] + n
      BY <2>6 DEF TypeOK
    <3>2. k \in Nat
      BY <2>4
    <3> HIDE DEF k
    <3>3. /\ r \in Seq(Nat \ {0}) /\ Len(r) = Len(sent[c]) + n
          /\ \A i \in 1 .. Len(sent[c]) : r[i] = sent[c][i]
          /\ \A i \in Len(sent[c]) + 1 .. Len(sent[c]) + n : r[i] = k + (i - Len(sent[c]))
      BY <2>1, <2>5, <3>2, AppendRun
    <3> HIDE DEF r
    <3> QED BY <2>1, <2>4, <2>5, <3>1, <3>3 DEF SentBy, k
  <2>8. \E m \in Nat : Partly(c, m) \/ Wholly(c, m)
    <3>1. CASE b.offset + n < b.len
      <4>1. writeq'[c] = <<Written(b, n)>> \o Tail(writeq[c])
        BY <2>6, <3>1 DEF TypeOK
      <4>2. ev_write' = ev_write
        BY <2>4, <2>5, <2>6, <3>1 DEF Rearm
      <4>3. Written(b, n) = [b EXCEPT !.offset = @ + n] /\ Written(b, n) \in Buffer
        BY <2>3, <2>4, <2>5 DEF Written, Buffer
      <4>4. /\ writeq'[c] \in Seq(Buffer) /\ Len(writeq'[c]) = Len(writeq[c])
            /\ writeq'[c][1] = Written(b, n)
            /\ \A i \in 2 .. Len(writeq[c]) : writeq'[c][i] = writeq[c][i]
        BY <1>2, <2>1, <4>1, <4>3, ReplaceHead
      <4>5. Partly(c, n)
        BY <1>2, <2>3, <2>7, <3>1, <4>2, <4>3, <4>4 DEF Partly
      <4> QED BY <2>5, <4>5
    <3>2. CASE ~ (b.offset + n < b.len)
      <4>1. writeq'[c] = Tail(writeq[c])
        BY <2>6, <3>2 DEF TypeOK
      <4>2. b.offset + n = b.len
        BY <2>4, <2>5, <3>2
      <4>5. ev_write' = ev_write \ {c}
        BY <2>4, <2>6, <4>2 DEF Rearm
      <4>3. /\ writeq'[c] \in Seq(Buffer) /\ Len(writeq'[c]) = Len(writeq[c]) - 1
            /\ \A i \in 1 .. Len(writeq[c]) - 1 : writeq'[c][i] = writeq[c][i + 1]
        BY <1>2, <2>1, <2>2, <4>1, HeadTailProperties
      <4>4. Wholly(c, n)
        BY <1>2, <2>3, <2>7, <4>2, <4>5, <4>3 DEF Wholly
      <4> QED BY <2>5, <4>4
    <3> QED BY <3>1, <3>2
  <2>9. writeq'[c] \in Seq(Buffer) /\ sent'[c] \in Seq(Nat \ {0}) /\ sndbuf'[c] \in 0 .. SNDBUF
    BY <2>1, <2>5, <2>7, <2>8 DEF Partly, Wholly, SentBy
  <2>10. /\ \A d \in Clients \ {c} : /\ writeq'[d] = writeq[d] /\ sent'[d] = sent[d]
                                     /\ sndbuf'[d] = sndbuf[d]
        /\ writeq' \in [Clients -> Seq(Buffer)] /\ sent' \in [Clients -> Seq(Nat \ {0})]
        /\ sndbuf' \in [Clients -> 0 .. SNDBUF]
    BY <2>6, <2>9 DEF TypeOK
  <2> QED BY <2>8, <2>10
<1> QED BY <1>1, <1>2

(* Every other action leaves the queues and what was read and sent alone. *)
queueVars == <<writeq, ev_write, received, sent, merged>>

OtherStep(c) ==
  \/ on_accept(c) \/ on_read_closed(c) \/ on_write_again(c) \/ on_write_fails(c)
  \/ OutOfMemory(c) \/ Environment(c)

LEMMA OtherQuiet ==
  ASSUME NEW c \in Clients, OtherStep(c)
  PROVE  UNCHANGED queueVars
BY DEF OtherStep, on_accept, on_read_closed, on_write_again, on_write_fails, OutOfMemory,
       Environment, Connect, Send, Take, Leave, Rearm, peerVars, queueVars

LEMMA StepCases ==
  ASSUME [Next]_vars
  PROVE  \/ UNCHANGED vars
         \/ \E c \in Clients : on_read(c) \/ on_write(c) \/ OtherStep(c)
BY DEF Next, Callback, OtherStep

-----------------------------------------------------------------------------
(* Types. *)

LEMMA TypeOtherStep ==
  ASSUME TypeOK, NEW c \in Clients, OtherStep(c)
  PROVE  TypeOK'
<1>1. UNCHANGED queueVars
  BY OtherQuiet
<1>2. /\ server' \in {"running", "exited", "corrupt"}
      /\ conn' \in [Clients -> {"none", "waiting", "open", "freed"}]
      /\ peer' \in [Clients -> {"open", "fin", "rst"}]
  BY DEF TypeOK, OtherStep, on_accept, on_read_closed, on_write_again, on_write_fails,
         OutOfMemory, Environment, Connect, Send, Take, Leave, err, peerVars
<1>3. rcvbuf' \in [Clients -> Nat]
  <2>1. CASE Send(c)
    BY <2>1 DEF TypeOK, Send
  <2> QED BY <2>1 DEF TypeOK, OtherStep, on_accept, on_read_closed, on_write_again, on_write_fails,
         OutOfMemory, Environment, Connect, Send, Take, Leave, peerVars
<1>4. sndbuf' \in [Clients -> 0 .. SNDBUF]
  <2>1. CASE Take(c)
    <3>1. PICK n \in 1 .. sndbuf[c] : sndbuf' = [sndbuf EXCEPT ![c] = @ - n]
      BY <2>1 DEF Take
    <3>2. sndbuf[c] - n \in 0 .. SNDBUF
      BY EchoAssumption DEF TypeOK
    <3> QED BY <3>1, <3>2 DEF TypeOK
  <2>2. CASE ~ Take(c)
    BY <2>2 DEF TypeOK, OtherStep, on_accept, on_read_closed, on_write_again, on_write_fails,
           OutOfMemory, Environment, Connect, Send, Leave
  <2> QED BY <2>1, <2>2
<1> QED BY <1>1, <1>2, <1>3, <1>4 DEF TypeOK, queueVars

LEMMA TypeReadStep ==
  ASSUME TypeOK, NEW c \in Clients, on_read(c)
  PROVE  TypeOK'
<1>1. PICK n \in Nat : /\ ReadBy(c, n)
                      /\ rcvbuf' = [rcvbuf EXCEPT ![c] = @ - n]
                      /\ received' = [received EXCEPT ![c] = @ + n]
  BY ReadStep
<1>2. /\ \A d \in Clients \ {c} : writeq'[d] = writeq[d]
      /\ writeq' \in [Clients -> Seq(Buffer)]
  BY ReadStep
<1>3. rcvbuf' \in [Clients -> Nat] /\ received' \in [Clients -> Nat]
  BY <1>1 DEF TypeOK, ReadBy
<1>4. /\ merged' \in [Clients -> Nat] /\ ev_write' \subseteq Clients
      /\ UNCHANGED <<server, conn, peer, sndbuf, sent>>
  BY DEF TypeOK, on_read, peerVars
<1>5. ASSUME NEW d \in Clients, NEW i \in DOMAIN writeq'[d]
      PROVE  writeq'[d][i].len \in 1 .. BUFLEN /\ writeq'[d][i].offset < writeq'[d][i].len
  <2>1. CASE d # c
    BY <1>2, <2>1 DEF TypeOK
  <2>2. CASE d = c /\ i \in 1 .. Len(writeq[c])
    BY <1>1, <2>2, QueueTypes DEF ReadBy
  <2>3. CASE d = c /\ i = Len(writeq[c]) + 1
    BY <1>1, <2>3, EchoAssumption DEF ReadBy
  <2>4. d = c => i \in 1 .. Len(writeq[c]) + 1 /\ Len(writeq[c]) \in Nat
    BY <1>1 DEF ReadBy, TypeOK
  <2> QED BY <2>1, <2>2, <2>3, <2>4
<1> QED BY <1>2, <1>3, <1>4, <1>5 DEF TypeOK

LEMMA TypeWriteStep ==
  ASSUME TypeOK, NEW c \in Clients, on_write(c)
  PROVE  TypeOK'
<1>1. /\ Nothing(c) \/ \E n \in Nat : Partly(c, n) \/ Wholly(c, n)
      /\ \A d \in Clients \ {c} : writeq'[d] = writeq[d]
      /\ writeq' \in [Clients -> Seq(Buffer)] /\ sent' \in [Clients -> Seq(Nat \ {0})]
      /\ sndbuf' \in [Clients -> 0 .. SNDBUF]
  BY WriteStep
<1>2. UNCHANGED <<server, conn, peer, rcvbuf, received, merged>>
  BY DEF on_write, peerVars
<1>3. ev_write' \subseteq Clients
  BY <1>1 DEF TypeOK, Nothing, Partly, Wholly
<1>4. ASSUME NEW d \in Clients, NEW i \in DOMAIN writeq'[d]
      PROVE  writeq'[d][i].len \in 1 .. BUFLEN /\ writeq'[d][i].offset < writeq'[d][i].len
  <2>1. CASE d # c
    BY <1>1, <2>1 DEF TypeOK
  <2>2. CASE d = c /\ Nothing(c)
    BY <2>2 DEF TypeOK, Nothing
  <2>3. ASSUME d = c, NEW n \in Nat, Partly(c, n)
        PROVE  writeq'[d][i].len \in 1 .. BUFLEN /\ writeq'[d][i].offset < writeq'[d][i].len
    <3>1. Len(writeq[c]) \in Nat /\ i \in 1 .. Len(writeq[c]) /\ writeq[c] \in Seq(Buffer)
      BY <2>3 DEF TypeOK, Partly
    <3> DEFINE b == writeq[c][1]
    <3>4. b \in Buffer /\ b.offset \in Nat /\ b.len \in 1 .. BUFLEN
      BY <3>1, QueueTypes
    <3>2. CASE i = 1
      <4>1. writeq'[c][1] = [b EXCEPT !.offset = @ + n] /\ b.offset + n < b.len
        BY <2>3 DEF Partly
      <4>2. [b EXCEPT !.offset = @ + n].offset = b.offset + n
            /\ [b EXCEPT !.offset = @ + n].len = b.len
        BY <3>4 DEF Buffer
      <4> QED BY <2>3, <3>2, <3>4, <4>1, <4>2
    <3>3. CASE i # 1
      BY <2>3, <3>1, <3>3, QueueTypes DEF Partly
    <3> QED BY <3>2, <3>3
  <2>4. ASSUME d = c, NEW n \in Nat, Wholly(c, n)
        PROVE  writeq'[d][i].len \in 1 .. BUFLEN /\ writeq'[d][i].offset < writeq'[d][i].len
    <3>1. Len(writeq[c]) \in Nat /\ i \in 1 .. Len(writeq[c]) - 1 /\ i + 1 \in DOMAIN writeq[c]
      BY <2>4 DEF TypeOK, Wholly
    <3> QED BY <2>4, <3>1 DEF TypeOK, Wholly
  <2> QED BY <1>1, <2>1, <2>2, <2>3, <2>4
<1> QED BY <1>1, <1>2, <1>3, <1>4 DEF TypeOK

LEMMA TypeStep ==
  ASSUME TypeOK, [Next]_vars
  PROVE  TypeOK'
<1>1. CASE UNCHANGED vars
  BY <1>1 DEF TypeOK, vars, peerVars
<1> QED BY <1>1, StepCases, TypeReadStep, TypeWriteStep, TypeOtherStep

LEMMA TypeInit == Init => TypeOK
BY EchoAssumption DEF Init, TypeOK

(* The socket buffers, the queues and the counters stay within their types *)
(* however the callbacks interleave: a socket never holds more than SNDBUF *)
(* bytes, a queued buffer has at most BUFLEN and is not sent yet (on_read  *)
(* and on_write).                                                          *)
THEOREM EchoTypes == Spec => []TypeOK
BY TypeInit, TypeStep, PTL DEF Spec

-----------------------------------------------------------------------------
(* The order of the bytes, one client at a time.  Linked is QueueContiguous *)
(* without its LET; Within is what makes a queued buffer a debt.            *)

Linked(c) ==
  LET q == writeq[c]
  IN /\ q = <<>> => Len(sent[c]) = received[c]
     /\ q # <<>> => /\ q[1].from + q[1].offset = Len(sent[c])
                    /\ q[Len(q)].from + q[Len(q)].len = received[c]
     /\ \A i \in 2 .. Len(q) : q[i].from + q[i].offset = q[i - 1].from + q[i - 1].len

Within(c) ==
  \A i \in 1 .. Len(writeq[c]) : writeq[c][i].from + writeq[c][i].len =< received[c]

ClientOrdered(c) ==
  /\ \A i \in 1 .. Len(sent[c]) : sent[c][i] = i
  /\ Linked(c)
  /\ Within(c)

ClientEvents(c) ==
  Len(writeq[c]) = merged[c] + (IF c \in ev_write THEN 1 ELSE 0)

EchoInv ==
  /\ TypeOK
  /\ \A c \in Clients : ClientOrdered(c) /\ ClientEvents(c)
  /\ CleanDisconnectSafe

LEMMA LinkedIsContiguous ==
  ASSUME TypeOK, NEW c \in Clients
  PROVE  Linked(c) => QueueContiguous(c)
<1> DEFINE q == writeq[c]
           End(i) == IF i = 0 THEN Len(sent[c]) ELSE q[i].from + q[i].len
<1>1. q \in Seq(Buffer) /\ Len(q) \in Nat /\ DOMAIN q = 1 .. Len(q)
  BY QueueTypes
<1> SUFFICES ASSUME Linked(c)
             PROVE  (\A i \in DOMAIN q : q[i].from + q[i].offset = End(i - 1))
                    /\ End(Len(q)) = received[c]
  BY DEF QueueContiguous
<1>2. CASE q = <<>>
  <2>1. Len(q) = 0
    BY <1>2
  <2> QED BY <1>1, <1>2, <2>1 DEF Linked
<1>3. CASE q # <<>>
  <2>1. Len(q) # 0
    BY <1>1, <1>3, EmptySeq
  <2>2. End(Len(q)) = received[c]
    BY <1>3, <2>1 DEF Linked
  <2>3. ASSUME NEW i \in 1 .. Len(q)
        PROVE  q[i].from + q[i].offset = End(i - 1)
    <3>1. CASE i = 1
      BY <1>3, <3>1 DEF Linked
    <3>2. CASE i # 1
      <4>1. i \in 2 .. Len(q) /\ i - 1 # 0
        BY <1>1, <3>2
      <4> QED BY <4>1 DEF Linked
    <3> QED BY <3>1, <3>2
  <2> QED BY <1>1, <2>2, <2>3
<1> QED BY <1>2, <1>3

LEMMA EchoInvImplies ==
  EchoInv => EchoInOrder /\ EventsMatchBuffers
<1> SUFFICES ASSUME EchoInv
             PROVE  EchoInOrder /\ EventsMatchBuffers
  OBVIOUS
<1>1. ASSUME NEW c \in Clients
      PROVE  (\A i \in DOMAIN sent[c] : sent[c][i] = i) /\ QueueContiguous(c)
  <2>1. DOMAIN sent[c] = 1 .. Len(sent[c])
    BY DEF EchoInv, TypeOK
  <2> QED BY <2>1, LinkedIsContiguous DEF EchoInv, ClientOrdered
<1> QED BY <1>1 DEF EchoInv, EchoInOrder, EventsMatchBuffers, ClientEvents

(* A client an action does not touch. *)
LEMMA ClientUntouched ==
  ASSUME NEW d \in Clients, ClientOrdered(d), ClientEvents(d),
         writeq'[d] = writeq[d], sent'[d] = sent[d], received'[d] = received[d],
         merged'[d] = merged[d], d \in ev_write' <=> d \in ev_write
  PROVE  ClientOrdered(d)' /\ ClientEvents(d)'
BY DEF ClientOrdered, ClientEvents, Linked, Within

LEMMA ClientRead ==
  ASSUME TypeOK, NEW c \in Clients, on_read(c), ClientOrdered(c), ClientEvents(c)
  PROVE  ClientOrdered(c)' /\ ClientEvents(c)'
<1> DEFINE q == writeq[c]
           L == Len(q)
<1>1. PICK n \in Nat : ReadBy(c, n)
  BY ReadStep
<1>2. /\ L \in Nat /\ received[c] \in Nat /\ Len(sent[c]) \in Nat /\ merged[c] \in Nat
      /\ \A i \in 1 .. L : q[i].from \in Nat /\ q[i].offset \in Nat /\ q[i].len \in Nat
  BY QueueTypes DEF TypeOK
<1>3. /\ Len(writeq'[c]) = L + 1 /\ writeq'[c] # <<>>
      /\ \A i \in 1 .. L : writeq'[c][i] = q[i]
      /\ writeq'[c][L + 1].from = received[c] /\ writeq'[c][L + 1].len = n
      /\ writeq'[c][L + 1].offset = 0
      /\ received'[c] = received[c] + n
  BY <1>1, <1>2, EmptySeq DEF ReadBy
<1>4. sent' = sent
  BY DEF on_read
<1>5. Linked(c)'
  <2>1. writeq'[c][1].from + writeq'[c][1].offset = Len(sent[c])
    <3>1. CASE q = <<>>
      BY <1>2, <1>3, <3>1 DEF ClientOrdered, Linked
    <3>2. CASE q # <<>>
      <4>1. 1 \in 1 .. L
        BY <1>2, <3>2, QueueTypes, EmptySeq
      <4>2. writeq'[c][1] = q[1]
        BY <1>3, <4>1
      <4>3. q[1].from + q[1].offset = Len(sent[c])
        BY <3>2 DEF ClientOrdered, Linked
      <4> QED BY <4>2, <4>3
    <3> QED BY <3>1, <3>2
  <2>2. ASSUME NEW i \in 2 .. L + 1
        PROVE  writeq'[c][i].from + writeq'[c][i].offset
                 = writeq'[c][i - 1].from + writeq'[c][i - 1].len
    <3>1. CASE i = L + 1
      <4>1. i - 1 = L /\ L \in 1 .. L /\ q # <<>>
        BY <1>2, <3>1
      <4>2. q[L].from + q[L].len = received[c]
        BY <4>1 DEF ClientOrdered, Linked
      <4>3. writeq'[c][i - 1] = q[L]
        BY <1>3, <4>1
      <4>4. writeq'[c][i].from = received[c] /\ writeq'[c][i].offset = 0
        BY <1>3, <3>1
      <4>5. writeq'[c][i].from + writeq'[c][i].offset = received[c]
        BY <1>2, <4>4
      <4> QED BY <4>2, <4>3, <4>5
    <3>2. CASE i # L + 1
      <4>1. i \in 2 .. L /\ i \in 1 .. L /\ i - 1 \in 1 .. L
        BY <1>2, <3>2
      <4>2. writeq'[c][i] = q[i] /\ writeq'[c][i - 1] = q[i - 1]
        BY <1>3, <4>1
      <4>3. q[i].from + q[i].offset = q[i - 1].from + q[i - 1].len
        BY <4>1 DEF ClientOrdered, Linked
      <4> QED BY <4>2, <4>3
    <3> QED BY <3>1, <3>2
  <2>3. received'[c] = writeq'[c][L + 1].from + writeq'[c][L + 1].len
    BY <1>3
  <2> QED BY <1>3, <1>4, <2>1, <2>2, <2>3 DEF Linked
<1>6. Within(c)'
  <2> SUFFICES ASSUME NEW i \in 1 .. L + 1
               PROVE  writeq'[c][i].from + writeq'[c][i].len =< received'[c]
    BY <1>3 DEF Within
  <2>1. CASE i = L + 1
    BY <1>2, <1>3, <2>1
  <2>2. CASE i # L + 1
    <3>1. i \in 1 .. L
      BY <1>2, <2>2
    <3>2. q[i].from + q[i].len =< received[c]
      BY <3>1 DEF ClientOrdered, Within
    <3>3. writeq'[c][i] = q[i] /\ q[i].from \in Nat /\ q[i].len \in Nat
      BY <1>2, <1>3, <3>1
    <3>4. received'[c] = received[c] + n
      BY <1>3
    <3>5. received[c] \in Nat
      BY <1>2
    <3>6. q[i].from + q[i].len =< received[c] + n
      BY <3>2, <3>3, <3>5
    <3> QED BY <3>3, <3>4, <3>6
  <2> QED BY <2>1, <2>2
<1>7. ClientEvents(c)'
  <2>1. c \in ev_write' /\ merged'[c] = IF c \in ev_write THEN merged[c] + 1 ELSE merged[c]
    BY DEF on_read, TypeOK
  <2> QED BY <1>2, <1>3, <2>1 DEF ClientEvents
<1> QED BY <1>4, <1>5, <1>6, <1>7 DEF ClientOrdered

LEMMA PlusAssoc ==
  ASSUME NEW a \in Nat, NEW b \in Nat, NEW n \in Nat
  PROVE  a + (b + n) = (a + b) + n
OBVIOUS

LEMMA SentInOrder ==
  ASSUME NEW c, NEW b, NEW n \in Nat, SentBy(c, b, n), Len(sent[c]) \in Nat,
         b.from + b.offset = Len(sent[c]), \A i \in 1 .. Len(sent[c]) : sent[c][i] = i
  PROVE  \A i \in 1 .. Len(sent'[c]) : sent'[c][i] = i
<1> DEFINE m == Len(sent[c])
<1> SUFFICES ASSUME NEW i \in 1 .. m + n
             PROVE  sent'[c][i] = i
  BY DEF SentBy
<1>1. CASE i \in 1 .. m
  BY <1>1 DEF SentBy
<1>2. CASE i \in m + 1 .. m + n
  <2>1. sent'[c][i] = b.from + b.offset + (i - m)
    BY <1>2 DEF SentBy
  <2>2. sent'[c][i] = m + (i - m)
    BY <2>1
  <2> QED BY <2>2
<1> QED BY <1>1, <1>2

LEMMA ClientPartly ==
  ASSUME TypeOK, NEW c \in Clients, NEW n \in Nat, Partly(c, n), ClientOrdered(c),
         received' = received
  PROVE  ClientOrdered(c)' /\ Len(writeq'[c]) = Len(writeq[c])
<1> DEFINE q == writeq[c]
           L == Len(q)
           r == writeq'[c]
<1>1. /\ L \in Nat \ {0} /\ received[c] \in Nat /\ Len(sent[c]) \in Nat
      /\ \A i \in 1 .. L : /\ q[i] \in Buffer
                          /\ q[i].from \in Nat /\ q[i].offset \in Nat /\ q[i].len \in Nat
  <2>1. q # <<>> /\ q \in Seq(Buffer) /\ L \in Nat
    BY QueueTypes DEF Partly
  <2>2. L # 0
    BY <2>1, EmptySeq
  <2>3. received[c] \in Nat /\ Len(sent[c]) \in Nat
    BY DEF TypeOK
  <2> QED BY <2>1, <2>2, <2>3, QueueTypes
<1>2. q # <<>> /\ r # <<>> /\ Len(r) = L
  BY <1>1, EmptySeq DEF Partly
<1>3. /\ r[1].from = q[1].from /\ r[1].len = q[1].len /\ r[1].offset = q[1].offset + n
      /\ \A i \in 2 .. L : r[i] = q[i]
  <2>1. r[1] = [q[1] EXCEPT !.offset = @ + n] /\ \A i \in 2 .. L : r[i] = q[i]
    BY DEF Partly
  <2>2. q[1] \in Buffer
    BY <1>1
  <2> QED BY <2>1, <2>2 DEF Buffer
<1>4. SentBy(c, q[1], n)
  BY DEF Partly
<1>5. q[1].from + q[1].offset = Len(sent[c])
  BY <1>2 DEF ClientOrdered, Linked
<1>6. \A i \in 1 .. L : r[i].from = q[i].from /\ r[i].len = q[i].len
  BY <1>1, <1>3
<1>7. \A i \in 1 .. Len(sent'[c]) : sent'[c][i] = i
  BY <1>1, <1>4, <1>5, SentInOrder DEF ClientOrdered
<1>8. Linked(c)'
  <2>1. r[1].from + r[1].offset = Len(sent'[c])
    <3>1. q[1].from \in Nat /\ q[1].offset \in Nat
      BY <1>1
    <3>2. Len(sent'[c]) = Len(sent[c]) + n
      BY <1>4 DEF SentBy
    <3>3. q[1].from + (q[1].offset + n) = (q[1].from + q[1].offset) + n
      BY <3>1, PlusAssoc
    <3>4. r[1].from + r[1].offset = q[1].from + (q[1].offset + n)
      BY <1>3
    <3> QED BY <1>5, <3>2, <3>3, <3>4
  <2>2. r[L].from + r[L].len = received[c]
    BY <1>1, <1>2, <1>6 DEF ClientOrdered, Linked
  <2>3. ASSUME NEW i \in 2 .. L
        PROVE  r[i].from + r[i].offset = r[i - 1].from + r[i - 1].len
    <3>1. i \in 1 .. L /\ i - 1 \in 1 .. L
      BY <1>1
    <3>2. q[i].from + q[i].offset = q[i - 1].from + q[i - 1].len
      BY DEF ClientOrdered, Linked
    <3> QED BY <1>3, <1>6, <3>1, <3>2
  <2> QED BY <1>2, <2>1, <2>2, <2>3 DEF Linked
<1>9. Within(c)'
  BY <1>2, <1>6 DEF Within, ClientOrdered
<1> QED BY <1>2, <1>7, <1>8, <1>9 DEF ClientOrdered

LEMMA ClientWholly ==
  ASSUME TypeOK, NEW c \in Clients, NEW n \in Nat, Wholly(c, n), ClientOrdered(c),
         received' = received
  PROVE  ClientOrdered(c)' /\ Len(writeq'[c]) = Len(writeq[c]) - 1
<1> DEFINE q == writeq[c]
           L == Len(q)
           r == writeq'[c]
<1>1. /\ L \in Nat \ {0} /\ received[c] \in Nat /\ Len(sent[c]) \in Nat
      /\ \A i \in 1 .. L : q[i].from \in Nat /\ q[i].offset \in Nat /\ q[i].len \in Nat
  BY QueueTypes, EmptySeq DEF TypeOK, Wholly
<1>2. /\ q # <<>> /\ Len(r) = L - 1 /\ (r = <<>> <=> L = 1)
      /\ \A i \in 1 .. L - 1 : r[i] = q[i + 1]
  <2>1. q # <<>> /\ r \in Seq(Buffer) /\ Len(r) = L - 1
        /\ \A i \in 1 .. L - 1 : r[i] = q[i + 1]
    BY DEF Wholly
  <2>2. r = <<>> <=> Len(r) = 0
    BY <2>1, EmptySeq
  <2>3. Len(r) = 0 <=> L = 1
    BY <1>1, <2>1
  <2> QED BY <2>1, <2>2, <2>3
<1>3. SentBy(c, q[1], n) /\ q[1].offset + n = q[1].len
  BY DEF Wholly
<1>4. q[1].from + q[1].offset = Len(sent[c])
  BY <1>2 DEF ClientOrdered, Linked
<1>5. Len(sent'[c]) = q[1].from + q[1].len
  <2>1. q[1].from \in Nat /\ q[1].offset \in Nat /\ q[1].len \in Nat
    BY <1>1
  <2>2. Len(sent'[c]) = Len(sent[c]) + n
    BY <1>3 DEF SentBy
  <2>3. q[1].from + (q[1].offset + n) = (q[1].from + q[1].offset) + n
    BY <2>1, PlusAssoc
  <2> QED BY <1>3, <1>4, <2>2, <2>3
<1>6. \A i \in 1 .. Len(sent'[c]) : sent'[c][i] = i
  BY <1>1, <1>3, <1>4, SentInOrder DEF ClientOrdered
<1>7. q[L].from + q[L].len = received[c]
  BY <1>2 DEF ClientOrdered, Linked
<1>8. Linked(c)'
  <2>1. r = <<>> => Len(sent'[c]) = received[c]
    BY <1>2, <1>5, <1>7
  <2>2. ASSUME r # <<>>
        PROVE  r[1].from + r[1].offset = Len(sent'[c])
    <3>1. 2 \in 2 .. L /\ r[1] = q[2]
      BY <1>1, <1>2, <2>2
    <3>2. q[2].from + q[2].offset = q[2 - 1].from + q[2 - 1].len
      BY <3>1 DEF ClientOrdered, Linked
    <3> QED BY <1>5, <3>1, <3>2
  <2>3. ASSUME r # <<>>
        PROVE  r[L - 1].from + r[L - 1].len = received[c]
    <3>1. L - 1 \in 1 .. L - 1 /\ (L - 1) + 1 = L
      BY <1>1, <1>2, <2>3
    <3>2. r[L - 1] = q[L]
      BY <1>2, <3>1
    <3> QED BY <1>7, <3>2
  <2>4. ASSUME NEW i \in 2 .. L - 1
        PROVE  r[i].from + r[i].offset = r[i - 1].from + r[i - 1].len
    <3>1. /\ i + 1 \in 2 .. L /\ i \in 1 .. L - 1 /\ i - 1 \in 1 .. L - 1
          /\ (i + 1) - 1 = i /\ (i - 1) + 1 = i
      BY <1>1
    <3>2. q[i + 1].from + q[i + 1].offset = q[(i + 1) - 1].from + q[(i + 1) - 1].len
      BY <3>1 DEF ClientOrdered, Linked
    <3>3. r[i] = q[i + 1] /\ r[i - 1] = q[i]
      BY <1>2, <3>1
    <3> QED BY <3>1, <3>2, <3>3
  <2> QED BY <1>2, <2>1, <2>2, <2>3, <2>4 DEF Linked
<1>9. Within(c)'
  <2> SUFFICES ASSUME NEW i \in 1 .. L - 1
               PROVE  r[i].from + r[i].len =< received[c]
    BY <1>2 DEF Within
  <2>1. i + 1 \in 1 .. L /\ r[i] = q[i + 1]
    BY <1>1, <1>2
  <2> QED BY <2>1 DEF ClientOrdered, Within
<1> QED BY <1>2, <1>6, <1>8, <1>9 DEF ClientOrdered

LEMMA ClientWrite ==
  ASSUME TypeOK, NEW c \in Clients, on_write(c), ClientOrdered(c), ClientEvents(c)
  PROVE  ClientOrdered(c)' /\ ClientEvents(c)'
<1>1. c \in ev_write /\ received' = received /\ merged' = merged
  BY DEF on_write
<1>2. merged[c] \in Nat /\ Len(writeq[c]) \in Nat
  BY QueueTypes DEF TypeOK
<1>3. writeq[c] # <<>>
  <2>1. Len(writeq[c]) # 0
    BY <1>1, <1>2 DEF ClientEvents
  <2> QED BY <2>1
<1>4. PICK n \in Nat : Partly(c, n) \/ Wholly(c, n)
  BY <1>3, WriteStep DEF Nothing
<1>5. CASE Partly(c, n)
  <2>1. ClientOrdered(c)' /\ Len(writeq'[c]) = Len(writeq[c])
    BY <1>1, <1>5, ClientPartly
  <2> QED BY <1>1, <1>5, <2>1 DEF ClientEvents, Partly
<1>6. CASE Wholly(c, n)
  <2>1. ClientOrdered(c)' /\ Len(writeq'[c]) = Len(writeq[c]) - 1
    BY <1>1, <1>6, ClientWholly
  <2>2. c \notin ev_write'
    BY <1>6 DEF Wholly
  <2> QED BY <1>1, <1>2, <2>1, <2>2 DEF ClientEvents
<1> QED BY <1>4, <1>5, <1>6

-----------------------------------------------------------------------------
(* A client with a write event pending is owed bytes. *)
LEMMA EventIsDebt ==
  ASSUME TypeOK, NEW c \in Clients, ClientOrdered(c), ClientEvents(c), c \in ev_write
  PROVE  Len(sent[c]) # received[c]
<1> DEFINE q == writeq[c]
<1>1. merged[c] \in Nat /\ Len(q) \in Nat /\ received[c] \in Nat
  BY QueueTypes DEF TypeOK
<1>2. Len(q) # 0
  BY <1>1 DEF ClientEvents
<1>3. 1 \in 1 .. Len(q) /\ q # <<>>
  BY <1>1, <1>2
<1>4. q[1].from \in Nat /\ q[1].offset \in Nat /\ q[1].len \in Nat /\ q[1].offset < q[1].len
  BY <1>3, QueueTypes
<1>5. q[1].from + q[1].len =< received[c]
  BY <1>3 DEF ClientOrdered, Within
<1>6. q[1].from + q[1].offset = Len(sent[c])
  BY <1>3 DEF ClientOrdered, Linked
<1> QED BY <1>1, <1>4, <1>5, <1>6

LEMMA CorruptStays ==
  ASSUME TypeOK, CleanDisconnectSafe, server = "corrupt", [Next]_vars
  PROVE  CleanDisconnectSafe'
<1>1. PICK d \in Clients : conn[d] = "freed" /\ Len(sent[d]) # received[d]
  BY DEF CleanDisconnectSafe
<1>2. CASE UNCHANGED vars
  BY <1>1, <1>2 DEF CleanDisconnectSafe, vars, peerVars
<1>3. ASSUME NEW c \in Clients, Callback(c) \/ Environment(c)
      PROVE  conn'[d] = "freed" /\ sent' = sent /\ received' = received
  <2>1. Environment(c)
    BY <1>3 DEF Callback, on_accept, on_read, on_read_closed, on_write, on_write_again,
                on_write_fails, OutOfMemory
  <2> QED BY <1>1, <2>1 DEF Environment, Connect, Send, Take, Leave, peerVars, TypeOK
<1> QED BY <1>1, <1>2, <1>3 DEF CleanDisconnectSafe, Next

LEMMA DisconnectStep ==
  ASSUME EchoInv, [Next]_vars
  PROVE  CleanDisconnectSafe'
<1>1. CASE server = "corrupt"
  BY <1>1, CorruptStays DEF EchoInv
<1>2. CASE server # "corrupt" /\ server' = "corrupt"
  <2>1. PICK c \in Clients : on_read_closed(c) /\ c \in ev_write
    BY <1>2 DEF Next, Callback, on_accept, on_read, on_read_closed, on_write, on_write_again,
                on_write_fails, OutOfMemory, err, Environment, Connect, Send, Take, Leave, vars
  <2>2. conn'[c] = "freed" /\ sent' = sent /\ received' = received
    BY <2>1 DEF on_read_closed, EchoInv, TypeOK
  <2>3. Len(sent[c]) # received[c]
    BY <2>1, EventIsDebt DEF EchoInv
  <2> QED BY <2>2, <2>3 DEF CleanDisconnectSafe
<1>3. CASE server' # "corrupt"
  BY <1>3 DEF CleanDisconnectSafe
<1> QED BY <1>1, <1>2, <1>3

LEMMA ClientsStep ==
  ASSUME EchoInv, [Next]_vars, NEW d \in Clients
  PROVE  ClientOrdered(d)' /\ ClientEvents(d)'
<1>1. TypeOK /\ ClientOrdered(d) /\ ClientEvents(d)
  BY DEF EchoInv
<1>2. CASE UNCHANGED vars
  BY <1>1, <1>2, ClientUntouched DEF vars
<1>3. ASSUME NEW c \in Clients, OtherStep(c)
      PROVE  ClientOrdered(d)' /\ ClientEvents(d)'
  <2>1. UNCHANGED queueVars
    BY <1>3, OtherQuiet
  <2> QED BY <1>1, <2>1, ClientUntouched DEF queueVars
<1>4. ASSUME NEW c \in Clients, on_read(c), d # c
      PROVE  ClientOrdered(d)' /\ ClientEvents(d)'
  <2>1. writeq'[d] = writeq[d]
    BY <1>1, <1>4, ReadStep
  <2>2. /\ sent'[d] = sent[d] /\ received'[d] = received[d] /\ merged'[d] = merged[d]
        /\ (d \in ev_write' <=> d \in ev_write)
    BY <1>1, <1>4 DEF on_read, TypeOK
  <2> QED BY <1>1, <2>1, <2>2, ClientUntouched
<1>5. ASSUME NEW c \in Clients, on_write(c), d # c
      PROVE  ClientOrdered(d)' /\ ClientEvents(d)'
  <2>1. /\ writeq'[d] = writeq[d] /\ sent'[d] = sent[d]
        /\ Nothing(c) \/ \E n \in Nat : Partly(c, n) \/ Wholly(c, n)
    BY <1>1, <1>5, WriteStep
  <2>2. received'[d] = received[d] /\ merged'[d] = merged[d]
    BY <1>5 DEF on_write
  <2>3. d \in ev_write' <=> d \in ev_write
    BY <1>5, <2>1 DEF Nothing, Partly, Wholly
  <2> QED BY <1>1, <2>1, <2>2, <2>3, ClientUntouched
<1> QED BY <1>1, <1>2, <1>3, <1>4, <1>5, ClientRead, ClientWrite, StepCases

LEMMA EchoInvInit == Init => EchoInv
<1> SUFFICES ASSUME Init PROVE EchoInv
  OBVIOUS
<1>1. TypeOK
  BY TypeInit
<1>2. \A c \in Clients : ClientOrdered(c) /\ ClientEvents(c)
  BY DEF Init, ClientOrdered, ClientEvents, Linked, Within
<1>3. CleanDisconnectSafe
  BY DEF Init, CleanDisconnectSafe
<1> QED BY <1>1, <1>2, <1>3 DEF EchoInv

LEMMA EchoInvStep == EchoInv /\ [Next]_vars => EchoInv'
<1> SUFFICES ASSUME EchoInv, [Next]_vars PROVE EchoInv'
  OBVIOUS
<1>1. TypeOK'
  BY TypeStep DEF EchoInv
<1>2. CleanDisconnectSafe'
  BY DisconnectStep
<1>3. \A d \in Clients : ClientOrdered(d)' /\ ClientEvents(d)'
  BY ClientsStep
<1> QED BY <1>1, <1>2, <1>3 DEF EchoInv

LEMMA EchoInvariant == Spec => []EchoInv
BY EchoInvInit, EchoInvStep, PTL DEF Spec

(* A client gets back its own bytes, each once and in the order it sent     *)
(* them, whatever the sizes of reads and writes, the number of clients and  *)
(* the order of the callbacks (on_read and on_write).                       *)
THEOREM EchoOrdered == Spec => []EchoInOrder
BY EchoInvariant, EchoInvImplies, PTL

(* A queued buffer without a write event is exactly an event_add that found *)
(* ev_write pending (on_read), so ev_write never fires for an empty queue.  *)
THEOREM EventsAccounted == Spec => []EventsMatchBuffers
BY EchoInvariant, EchoInvImplies, PTL

(* The disconnect of on_read, which does not look at ev_write, leaves       *)
(* libevent with the event of a freed client only if the client was owed    *)
(* bytes.                                                                   *)
THEOREM DisconnectsClean == Spec => []CleanDisconnectSafe
<1>1. EchoInv => CleanDisconnectSafe
  BY DEF EchoInv
<1> QED BY <1>1, EchoInvariant, PTL
=============================================================================
