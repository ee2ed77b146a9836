CONSTANTS
  fa = fa
  fb = fb
  Files = {fa}
  Commits = {1}
  RemoteHas <- MCRemoteHas
  Kept = {fa}
  Mine = 8
  Mixed = 9
  Pulls = {p1, p2}
  Actors = {u1, u2}
  Readers = {r1}
  Kinds = {"create", "schedule", "enable", "disable", "delete", "batchDelete", "reload", "stop"}
  HookScript = FALSE
  AutoAdd = TRUE
  AutoDelete = TRUE
  HasCron = {}
  Helpers = {}
  DefaultRule = "empty"
  MaxPulls = 2
  MaxOps = 2
  MaxEdits = 0
  MaxFaults = 0
  NoPull = NoPull
SPECIFICATION FreshSpec
INVARIANTS PullSlotExact StoppedPullFails JobMatchesRow
CHECK_DEADLOCK FALSE
SYMMETRY MCSymmetry
