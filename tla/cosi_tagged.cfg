\* Software that relies on the pids of the tlb lines when it switches
CONSTANTS
  pu = pu
  pk = pk
  f = f
  k = k
  t0 = t0
  t1 = t1
  NoFrame = NoFrame
  Page <- MCPage
  Frame <- MCFrame
  ZeroFrame = f
  Identity <- MCIdentity
  Pid <- MCPid
  ZeroPid = 0
  Table <- MCTable
  TableFrame <- MCTableFrame
  TableOf <- MCTableOf
  IhtPage = pu
  HandlerPages = {pk}
  Words <- MCWords
  Levels <- MCLevels
  FlushOnSwitch = FALSE
SPECIFICATION Spec
INVARIANT
  PidChecked
CHECK_DEADLOCK FALSE
