CONSTANTS
  p1 = p1
  p2 = p2
  p3 = p3
  work = work
  local = local
  agyn = agyn
  dev = dev
  th1 = th1
  th2 = th2
  r1 = r1
  r2 = r2
  None = None
  Old = Old
  Procs <- MCProcs
  Profiles <- MCProfiles
  VMs <- MCVMs
  Default = agyn
  Refs <- MCRefs
  Programs <- MCPrograms
  Machines <- MCMachines
  MaxKills = 1
  Runs <- MCRuns
  Instances <- MCVMs
  Main = agyn
  MaxPort = 3
  Scripts <- MCScripts
  MaxCuts = 1
SPECIFICATION LocalSpec
CHECK_DEADLOCK FALSE
PROPERTIES
  WritesKeepOthers
  CurrentStaysConfigured
  StartLeavesUsable
  BootsCompleteDisks
  PickedPortsApart
