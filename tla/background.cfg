CONSTANTS
  n1 = n1
  n2 = n2
  p1 = p1
  p2 = p2
  x1 = x1
  Deps = {p2, x1}
  TypeOf <- MCTypeOf
  PkgOf <- MCPkgOf
  Ops = {o1, o2}
  Users = {g1}
  Readers = {}
  Sandbox = FALSE
  Requests = {"create", "delete", "force", "reinstall", "batchReinstall", "batchDelete", "cancel", "auto", "restore", "cli"}
  MaxRequests = 2
  MaxRestarts = 1
  NoOp = NoOp
  Updates = {u1, u2}
  Deployments = {"docker", "binary"}
  Container <- MCContainer
  Mirrored = TRUE
  MaxVersion = 2
  MaxUpdates = 2
  MaxUpdateFaults = 1
  LogReaders = {w1}
  Characters = 2
  MaxChunk = 3
  Room = 4
  ChannelCap = 1
  FileCap = 3
  PollLimit = 2
  MaxReconnects = 1
  Runs = {r1}
  WorkDirs = {d1}
  ScriptsDir = d1
  Forms = {"ts-node", "inline"}
  MaxChunks = 1
SPECIFICATION BackgroundSpec
INVARIANTS PendingHasOwner ShownInOrder SettledLogIsWhole
PROPERTIES BusyRowsSettle UpdatesEnd UpdateRestarts SubscribersLearnTheEnd CommandsEnd
CHECK_DEADLOCK FALSE
