SPECIFICATION KernelSpec
CONSTANTS
  t1 = t1
  t2 = t2
  None = None
  Tasks <- const_Tasks
  First <- const_First
  UserTasks <- const_User
  MAX_RT_PRIO = 2
  NICE_0 = 3
  MaxStatic = 3
  Callers <- const_Callers
  WaiterPrios <- const_Waiters
  Params <- const_Params
  CPUs = {0, 1}
  Removable = {1}
  Groups = {"top", "low"}
  Parent <- const_Parent
  Readers = {1, 2}
  MachineCPUs <- FourCPUs
  Topologies <- const_Topologies
  Isolated = {}
  MachineRemovable = {3}
  Walkers = {3}
  Partitions <- const_Partitions
  NODES_PER_DOMAIN = 2
  Scale = 8
  Gain = 10
  Roots = {"def", "r1", "r2", "r3", "r4", "r5"}
  def_root_domain = "def"
  AffinityCPUs = {0, 1, 2}
  AffinityCallers = {1, 2}
  Masks = {{0}, {0, 1}, {1, 2}, {0, 1, 2}}
  Cpusets = {{0, 1}, {1, 2}, {2}}
  SyncCallers = {1, 2}
  TRIES = 1
  TaskGroups = {"g1", "g2"}
  root_task_group = "root"
  FAIR = TRUE
  RT = TRUE
  Packages = {{0, 1}}
  PowerModes = {FALSE, TRUE}
  Wakers = {0}
  Timers = {1}
  LoadTasks = {1, 2}
  Limit = 1
  FIXED_1 = 4
  EXP = 3
  TimeTasks = {1, 2}
  Nice = {2}
  MaxTicks = 3
  MaxRun = 2
  WIDTH = 4
  HALF = 2
  MaxUsage = 2
  GroupLoads = {0, 4}
  Settings = {1, 9}
  MIN_SHARES = 2
  MAX_SHARES = 8
  NICE_0_LOAD = 4
  shares_thresh = 1
  Here = 0
  Horizon = 4
  QueueLoads = {0, 3, 10}
  CPU_LOAD_IDX_MAX = 5
  PERIOD = 4
  TICK = 4
  LONG = 9
  Ages <- const_Ages
  Sums = {0, 15}
  ForcedPids = {2, 3}
INVARIANTS TasksInForce DomainsHold AffinityHolds GraceHolds GroupsWhole IdleBalanced
           NoLostResched LoadsAreTrue TimesAreTrue SharesWithinGroup TickComes LoopsComplete
PROPERTIES CallsTakeEffect
CHECK_DEADLOCK FALSE
