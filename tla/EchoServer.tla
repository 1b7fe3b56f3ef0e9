----------------------------- MODULE EchoServer -----------------------------
(***************************************************************************)
(* The echo server of libevent-study/test1/server2.c: one thread in        *)
(* event_dispatch that calls on_accept, on_read and on_write as sockets    *)
(* become ready.  A callback runs to its end, so it is one action; what    *)
(* interleaves is the order of the callbacks and what the peers do.        *)
(*                                                                         *)
(* The bytes a client sends are numbered 1, 2, ..., so a buffer is known   *)
(* by the place of its first byte.  ev_read is persistent and is pending   *)
(* as long as the connection is open; ev_write fires once per event_add.   *)
(***************************************************************************)
EXTENDS Integers, Sequences, FiniteSetsExt

CONSTANTS
  Clients,
  BUFLEN,       \* the most bytes one read(2) takes
  SNDBUF,       \* the bytes a socket holds for its peer
  MaxBytes      \* how many bytes a client sends, a bound

ASSUME EchoAssumption ==
  BUFLEN \in Nat \ {0} /\ SNDBUF \in Nat \ {0} /\ MaxBytes \in Nat

VARIABLES
  server,       \* "running", "exited" by err(), or "corrupt" when libevent
                \* is left with an event in freed memory
  conn,         \* "none", "waiting" in the backlog, "open" or "freed"
  peer,         \* "open", "fin" when it has shut down, "rst" when it is gone
  rcvbuf,       \* bytes the kernel has for on_read
  sndbuf,       \* bytes written that the peer has not taken
  writeq,       \* client->writeq
  ev_write,     \* the clients whose ev_write is pending
  received,     \* how many bytes on_read has taken from a client
  sent,         \* the bytes on_write has written to a client
  merged        \* how often event_add found ev_write already pending

peerVars == <<conn, peer>>
vars == <<server, peerVars, rcvbuf, sndbuf, writeq, ev_write, received, sent, merged>>

(* struct bufferq: buf holds the bytes from + 1 to from + len. *)
Buffer == [from : Nat, len : Nat \ {0}, offset : Nat]

(* main. *)
Init ==
  /\ server = "running"
  /\ conn = [c \in Clients |-> "none"]
  /\ peer = [c \in Clients |-> "open"]
  /\ rcvbuf = [c \in Clients |-> 0]
  /\ sndbuf = [c \in Clients |-> 0]
  /\ writeq = [c \in Clients |-> <<>>]
  /\ ev_write = {}
  /\ received = [c \in Clients |-> 0]
  /\ sent = [c \in Clients |-> <<>>]
  /\ merged = [c \in Clients |-> 0]

-----------------------------------------------------------------------------
(* The peers and the network. *)

Connect(c) ==
  /\ conn[c] = "none"
  /\ conn' = [conn EXCEPT ![c] = "waiting"]
  /\ UNCHANGED <<server, peer, rcvbuf, sndbuf, writeq, ev_write, received, sent, merged>>

Send(c) ==
  /\ conn[c] \in {"waiting", "open"} /\ peer[c] = "open"
  /\ received[c] + rcvbuf[c] < MaxBytes
  /\ rcvbuf' = [rcvbuf EXCEPT ![c] = @ + 1]
  /\ UNCHANGED <<server, peerVars, sndbuf, writeq, ev_write, received, sent, merged>>

(* The peer takes some of what was echoed to it. *)
Take(c) ==
  /\ \E n \in 1 .. sndbuf[c] : sndbuf' = [sndbuf EXCEPT ![c] = @ - n]
  /\ UNCHANGED <<server, peerVars, rcvbuf, writeq, ev_write, received, sent, merged>>

Leave(c, how) ==
  /\ conn[c] \in {"waiting", "open"} /\ peer[c] # "rst" /\ peer[c] # how
  /\ peer' = [peer EXCEPT ![c] = how]
  /\ UNCHANGED <<server, conn, rcvbuf, sndbuf, writeq, ev_write, received, sent, merged>>

-----------------------------------------------------------------------------
(* The callbacks. *)

Readable(c) == conn[c] = "open" /\ (rcvbuf[c] > 0 \/ peer[c] # "open")
Writable(c) == conn[c] = "open" /\ (sndbuf[c] < SNDBUF \/ peer[c] = "rst")

(* err(1, ...) *)
err == server' = "exited"

(* accept fails for another reason than the peer's: on_accept returns, the *)
(* connection stays in the backlog, and nothing changes.                   *)
on_accept(c) ==
  /\ server = "running" /\ conn[c] = "waiting"
  /\ conn' = [conn EXCEPT ![c] = "open"]
  /\ UNCHANGED <<server, peer, rcvbuf, sndbuf, writeq, ev_write, received, sent, merged>>

(* malloc or calloc fails in on_accept or on_read. *)
OutOfMemory(c) ==
  /\ server = "running" /\ (conn[c] = "waiting" \/ Readable(c))
  /\ err
  /\ UNCHANGED <<peerVars, rcvbuf, sndbuf, writeq, ev_write, received, sent, merged>>

(* A faulty BytesRead: what is left for the next read is taken too. *)
BytesReadAll(c) == rcvbuf[c]

(* read(fd, buf, BUFLEN) *)
BytesRead(c) == Min({BUFLEN, rcvbuf[c]})

(* read returns data: a new buffer at the tail, and event_add. *)
on_read(c) ==
  /\ server = "running" /\ conn[c] = "open" /\ rcvbuf[c] > 0
  /\ LET n == BytesRead(c)
     IN /\ rcvbuf' = [rcvbuf EXCEPT ![c] = @ - n]
        /\ received' = [received EXCEPT ![c] = @ + n]
        /\ writeq' = [writeq EXCEPT
             ![c] = Append(@, [from |-> received[c], len |-> n, offset |-> 0])]
  /\ ev_write' = ev_write \cup {c}
  /\ merged' = [merged EXCEPT ![c] = IF c \in ev_write THEN @ + 1 ELSE @]
  /\ UNCHANGED <<server, peerVars, sndbuf, sent>>

(* read returns 0 or an error: the socket is closed, ev_read deleted and   *)
(* the client freed.  ev_write is not looked at, nor is the queue.         *)
on_read_closed(c) ==
  /\ server = "running" /\ conn[c] = "open"
  /\ peer[c] = "rst" \/ (peer[c] = "fin" /\ rcvbuf[c] = 0)
  /\ conn' = [conn EXCEPT ![c] = "freed"]
  /\ server' = IF c \in ev_write THEN "corrupt" ELSE server
  /\ UNCHANGED <<peer, rcvbuf, sndbuf, writeq, ev_write, received, sent, merged>>

(* A faulty Written: the offset becomes what this write wrote. *)
WrittenLast(b, n) == [b EXCEPT !.offset = n]

(* bufferq->offset += len *)
Written(b, n) == [b EXCEPT !.offset = @ + n]

(* Faulty versions of Rearm: never add ev_write again, always do. *)
RearmNever(c, complete) == ev_write' = ev_write \ {c}
RearmAlways(c, complete) == UNCHANGED ev_write

(* ev_write has fired; it is added again unless the buffer is complete. *)
Rearm(c, complete) == ev_write' = IF complete THEN ev_write \ {c} ELSE ev_write

(* ev_write fires and write takes as many bytes as the socket has room for. *)
on_write(c) ==
  /\ server = "running" /\ c \in ev_write /\ Writable(c) /\ peer[c] # "rst"
  /\ IF writeq[c] = <<>>
     THEN Rearm(c, TRUE) /\ UNCHANGED <<writeq, sent, sndbuf>>
     ELSE LET b == Head(writeq[c])
              n == Min({b.len - b.offset, SNDBUF - sndbuf[c]})
          IN /\ sent' = [sent EXCEPT ![c] = @ \o [i \in 1 .. n |-> b.from + b.offset + i]]
             /\ sndbuf' = [sndbuf EXCEPT ![c] = @ + n]
             /\ writeq' = [writeq EXCEPT ![c] = IF b.offset + n < b.len
                                               THEN <<Written(b, n)>> \o Tail(@)
                                               ELSE Tail(@)]
             /\ Rearm(c, b.offset + n >= b.len)
  /\ UNCHANGED <<server, peerVars, rcvbuf, received, merged>>

(* write fails with EINTR or EAGAIN: the event that fired is added again. *)
on_write_again(c) ==
  /\ server = "running" /\ c \in ev_write /\ Writable(c) /\ writeq[c] # <<>>
  /\ Rearm(c, FALSE)
  /\ UNCHANGED <<server, peerVars, rcvbuf, sndbuf, writeq, received, sent, merged>>

(* write fails otherwise. *)
on_write_fails(c) ==
  /\ server = "running" /\ c \in ev_write /\ Writable(c) /\ peer[c] = "rst"
  /\ writeq[c] # <<>>
  /\ err
  /\ UNCHANGED <<peerVars, rcvbuf, sndbuf, writeq, ev_write, received, sent, merged>>

-----------------------------------------------------------------------------
Callback(c) ==
  \/ on_accept(c)
  \/ on_read(c)
  \/ on_read_closed(c)
  \/ on_write(c)
  \/ on_write_again(c)
  \/ on_write_fails(c)
  \/ OutOfMemory(c)

Environment(c) ==
  Connect(c) \/ Send(c) \/ Take(c) \/ \E how \in {"fin", "rst"} : Leave(c, how)

Next == \E c \in Clients : Callback(c) \/ Environment(c)

(* event_dispatch calls the callback of every socket that is ready.        *)
(* Nothing is assumed of the peers.                                        *)
Fairness ==
  \A c \in Clients : /\ WF_vars(on_accept(c))
                     /\ WF_vars(on_read(c) \/ on_read_closed(c))
                     /\ WF_vars(on_write(c) \/ on_write_fails(c))

Spec == Init /\ [][Next]_vars /\ Fairness

-----------------------------------------------------------------------------
(* Properties *)

TypeOK ==
  /\ server \in {"running", "exited", "corrupt"}
  /\ conn \in [Clients -> {"none", "waiting", "open", "freed"}]
  /\ peer \in [Clients -> {"open", "fin", "rst"}]
  /\ rcvbuf \in [Clients -> Nat]
  /\ sndbuf \in [Clients -> 0 .. SNDBUF]
  /\ writeq \in [Clients -> Seq(Buffer)]
  /\ \A c \in Clients : \A i \in DOMAIN writeq[c] :
       writeq[c][i].len \in 1 .. BUFLEN /\ writeq[c][i].offset < writeq[c][i].len
  /\ ev_write \subseteq Clients
  /\ received \in [Clients -> Nat]
  /\ sent \in [Clients -> Seq(Nat \ {0})]
  /\ merged \in [Clients -> Nat]

(* The bytes the queue of a client still holds follow those written to it  *)
(* without a gap or an overlap, up to the last byte read.                  *)
QueueContiguous(c) ==
  LET q == writeq[c]
      End(i) == IF i = 0 THEN Len(sent[c]) ELSE q[i].from + q[i].len
  IN /\ \A i \in DOMAIN q : q[i].from + q[i].offset = End(i - 1)
     /\ End(Len(q)) = received[c]

(* However reads, partial writes and retries of several clients interleave, *)
(* a client gets back its own bytes, each once and in the order it sent     *)
(* them (the offset of on_write, lines 138-153).                           *)
EchoInOrder ==
  \A c \in Clients :
    /\ \A i \in DOMAIN sent[c] : sent[c][i] = i
    /\ QueueContiguous(c)

(* The write event a client is owed: a buffer is in the queue without a     *)
(* write event to send it exactly for every on_read whose event_add (line   *)
(* 122) found ev_write pending.  In particular ev_write never fires for an  *)
(* empty queue, the case of line 135.                                      *)
EventsMatchBuffers ==
  \A c \in Clients :
    Len(writeq[c]) = merged[c] + (IF c \in ev_write THEN 1 ELSE 0)

(* The disconnect of lines 96-110, which does not look at ev_write, leaves  *)
(* libevent with an event of a freed client only if that client was still   *)
(* owed bytes.                                                             *)
CleanDisconnectSafe ==
  (\A c \in Clients : conn[c] = "freed" => Len(sent[c]) = received[c])
    => server # "corrupt"

Settled(c) ==
  writeq[c] = <<>> \/ conn[c] = "freed" \/ server # "running" \/ sndbuf[c] = SNDBUF

(* A client that never lets two reads meet before a write has all its bytes *)
(* echoed, as far as it takes them, or is disconnected.                    *)
EchoCompletesInTurn ==
  \A c \in Clients : (writeq[c] # <<>>) ~> (Settled(c) \/ merged[c] > 0)

(* Line 121: there is now data to write back, so a write event is added:    *)
(* what is in the queue is echoed, as far as the client takes it.          *)
EchoCompletes ==
  \A c \in Clients : (writeq[c] # <<>>) ~> Settled(c)
=============================================================================
