----------------------------- MODULE MCBackup -----------------------------
EXTENDS BackupProps, QingLongImport

CONSTANTS web, ddp, manual, cron

MCRestorers == {web, ddp}
MCCli == {ddp}
MCCreators == {manual, cron}
All == {"configs", "tasks", "subscriptions", "env_vars", "logs", "scripts", "dependencies"}
MCSelections == {All, {"configs", "logs"}}

MCInitialDb ==
    [channels |-> {[id |-> 1, name |-> "mail", on |-> FALSE]}, apps |-> {[name |-> "app", on |-> FALSE]},
     config |-> [schedule |-> TRUE, pending |-> FALSE],
     tasks |-> {[id |-> 1, name |-> "first", status |-> "enabled", needs |-> 2, channel |-> 1],
                [id |-> 2, name |-> "second", status |-> "enabled", needs |-> 0, channel |-> 0]},
     logs |-> {[task |-> 1, name |-> "first", status |-> "success"],
               [task |-> 2, name |-> "second", status |-> "failed"]},
     keys |-> {[id |-> 1, name |-> "key"]},
     subs |-> {[id |-> 1, name |-> "sub", on |-> TRUE, schedule |-> TRUE, key |-> 1]},
     envs |-> {[name |-> "env", on |-> TRUE, position |-> 1]},
     deps |-> {[type |-> "python", name |-> "dep"]}, next |-> 3]

QL == [variables |-> {"PUSH_KEY", "TG_BOT_TOKEN"}, settings |-> {}, apps |-> {}, deps |-> {},
       envs |-> {[id |-> 1, name |-> "q", status |-> 1, position |-> 0]},
       crontabs |-> {[id |-> 7, name |-> "qtask", disabled |-> FALSE, valid |-> TRUE],
                     [id |-> 8, name |-> "qbad", disabled |-> FALSE, valid |-> FALSE]},
       subs |-> {[id |-> 4, name |-> "qsub", disabled |-> FALSE, valid |-> TRUE, url |-> TRUE]},
       scripts |-> TRUE, logs |-> TRUE]
MCUploads == [n \in {"ql"} |-> buildQingLongManifest(QL)]
=============================================================================
