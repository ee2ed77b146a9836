CONSTANTS
  fa = fa
  fb = fb
  Files = {fa, fb}
  Commits = {1, 2}
  RemoteHas <- MCRemoteHas
  Kept = {fa}
  Mine = 8
  Mixed = 9
  Pulls = {p1}
  Actors = {u1}
  Readers = {}
  Kinds = {"filter", "overwrite", "stop"}
  HookScript = TRUE
  AutoAdd = TRUE
  AutoDelete = TRUE
  HasCron = {fb}
  Helpers = {}
  DefaultRule = "empty"
  MaxPulls = 2
  MaxOps = 1
  MaxEdits = 1
  MaxFaults = 1
  NoPull = NoPull
SPECIFICATION AnyTreeSpec
INVARIANTS SuccessIsUpToDate TasksFollowRemote
PROPERTY KeepsLocalWork
CHECK_DEADLOCK FALSE
