SPECIFICATION BackupSpec
CONSTANTS
    web = web ddp = ddp manual = manual cron = cron
    Restorers <- MCRestorers
    Cli <- MCCli
    Creators <- MCCreators
    Manual = manual
    Selections <- MCSelections
    Uploads <- MCUploads
    InitialDb <- MCInitialDb
    RowsPerTable = 2
    MaxRestores = 2
    MaxBackups = 1
    MaxEdits = 1
INVARIANT LiveDirectoryWhole
PROPERTY RestoreDelivers
CHECK_DEADLOCK FALSE
