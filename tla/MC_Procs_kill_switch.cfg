SPECIFICATION OnePartSpec
CONSTANTS
  NPROC = 4
  NSEM = 0
  QUANTUM = 1
  INITPRIO = 2
  Created <- OneLow
  Syscalls <- Deaths
  Prios = {1}
  NewPrios = {}
  Delays = {}
  Timeouts = {}
  Counts = {}
  Signals = {}
  MaxCount = 0
  UserKinds = {TRUE}
  Victims = {"READY"}
PROPERTIES DeadStayDead
