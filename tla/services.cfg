CONSTANTS
  EnvClients = {c1, c2}
  MaxItems = 1
  MaxEnvs = 3
  MaxPosition = 3
  Trials = {s1, s2}
  TrialKinds = {"file", "inline", "code"}
  MaxInstalls = 1
  AutoInstall = TRUE
  AccountValues <- MCValues
  AccountSpecs <- MCSpecs
  AccountModes = {"conc", "desi"}
  Runs = {r1, r2}
  WorkDirs = {w1}
  ScriptsDir = w1
  Forms = {"ts-node", "go", "inline"}
  MaxChunks = 1
  Names = {"python", "node"}
  Releases = {"preset", "own"}
  Entries <- EntriesValue
  Executable = "bin"
  Requests = {q1, q2}
  Versions = {"3.11", "3.12"}
  Default = "3.12"
  Images = {{}, {"3.12"}}
  Interpreters = {"3.11", "3.12"}
  Deps = {d1}
  Tasks = {}
  Users = {g1, g2}
  Bootstraps = 1
  MaxVenvFaults = 1
SPECIFICATION ServicesSpec
INVARIANTS DoneRunIsDead AccountsAreRows LeavesNoFiles OneReleasePerRuntime RowsFollowPackages
PROPERTIES KeepsPageOrder WorkingEnvironmentStays
CHECK_DEADLOCK FALSE
