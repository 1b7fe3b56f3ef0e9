\* One client, reads that meet before a write.
CONSTANTS
  Clients = {c1}
  BUFLEN = 2
  SNDBUF = 3
  MaxBytes = 3
SPECIFICATION Spec
PROPERTY EchoCompletes
CHECK_DEADLOCK FALSE
