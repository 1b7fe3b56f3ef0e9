\* Two threads, the DCD line and breaks.
CONSTANTS
  Threads = {t1, t2}
  StatusBits = {"DCD", "BREAK"}
  Asked = {"DCD"}
  MaxCalls = 2
  MaxInterrupts = 2
  MaxReads = 1
SYMMETRY ThreadSymmetry
SPECIFICATION Spec
INVARIANTS TypeOK LinesAgree CarrierReported BreakReported NoChangeSleptThrough BaudNearest
CHECK_DEADLOCK FALSE
