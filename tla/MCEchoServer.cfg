\* Two clients of four bytes; a read takes three, a socket holds two.
CONSTANTS
  Clients = {c1, c2}
  BUFLEN = 3
  SNDBUF = 2
  MaxBytes = 4
SPECIFICATION Spec
INVARIANTS TypeOK EchoInOrder EventsMatchBuffers CleanDisconnectSafe
PROPERTY EchoCompletesInTurn
CHECK_DEADLOCK FALSE
