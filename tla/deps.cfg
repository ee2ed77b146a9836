CONSTANTS
  n1 = n1
  n2 = n2
  p1 = p1
  p2 = p2
  x1 = x1
  Deps = {n1, p1, p2}
  TypeOf <- MCTypeOf
  PkgOf <- MCPkgOf
  Ops = {o1, o2}
  Users = {u1, u2}
  Readers = {r1}
  Sandbox = FALSE
  Requests = {"create", "delete", "force", "reinstall", "batchReinstall", "batchDelete", "cancel", "auto", "restore", "cli"}
  MaxRequests = 2
  MaxRestarts = 1
  NoOp = NoOp
SPECIFICATION FoundSpec
INVARIANTS PackageToolsSerialised BusyRowHasOwner ReconciledRowsAreTrue
CHECK_DEADLOCK FALSE
SYMMETRY MCSymmetry
