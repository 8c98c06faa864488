\* Software that flushes the tlb on every switch of process
CONSTANTS
  pu = pu
  pk = pk
  f = f
  k = k
  t0 = t0
  t1 = t1
  NoFrame = NoFrame
  Page <- MCPage
  Frame <- MCFrame
  ZeroFrame = f
  Identity <- MCIdentity
  Pid <- MCPid
  ZeroPid = 0
  Table <- MCTable
  TableFrame <- MCTableFrame
  TableOf <- MCTableOf
  IhtPage = pu
  HandlerPages = {pk}
  Words <- MCWords
  Levels <- MCLevels
  FlushOnSwitch = TRUE
SPECIFICATION Spec
INVARIANTS
  TypeOK
  TlbShowsTable
  AccessFollowsTable
  PidChecked
  WrittenPageDirty
  IInv
PROPERTIES
  TablesOnlyMarked
  NoSelfMadePrivilege
CHECK_DEADLOCK FALSE
