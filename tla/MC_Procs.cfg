SPECIFICATION ProcsSpec
CONSTANTS
  NPROC = 4
  NSEM = 1
  QUANTUM = 2
  INITPRIO = 2
  Created <- EqualAndHigh
  Syscalls <- Messages
  Prios = {}
  NewPrios = {}
  Delays = {2}
  Timeouts = {1}
  Counts = {}
  Signals = {}
  MaxCount = 0
  UserKinds = {FALSE}
  Victims = {"SUSP", "RECV"}
INVARIANTS SchedulerSound QueuesSound MessagesFound SleepExact
PROPERTIES DeadStayDead EverybodyGoesOn
