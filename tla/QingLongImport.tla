-------------------------- MODULE QingLongImport ---------------------------
(***************************************************************************)
(* service/backup_qinglong.go: the manifest that a QingLong backup becomes.*)
(* A backup is a record: which settings and exported variables config.sh   *)
(* has, the rows of its database, and whether it has scripts and logs.     *)
(***************************************************************************)
EXTENDS Naturals, FiniteSets

\* A variable counts when its value is complete: QYWX_AM has four parts, for example.
buildQingLongBarkConfig(variables) == "BARK_PUSH" \in variables
buildQingLongCustomWebhookConfig(variables) == "WEBHOOK_URL" \in variables
buildQingLongEmailConfig(variables) == {"SMTP_SERVER", "SMTP_EMAIL", "SMTP_PASSWORD"} \subseteq variables
buildQingLongWecomAppConfig(variables) == "QYWX_AM" \in variables

\* The channels that need one variable, or two.
OneVariable ==
    [serverchan |-> "PUSH_KEY", dingtalk |-> "DD_BOT_TOKEN", wecom |-> "QYWX_KEY",
     pushplus |-> "PUSH_PLUS_TOKEN", pushdeer |-> "DEER_KEY", pushme |-> "PUSHME_KEY",
     igot |-> "IGOT_PUSH_KEY", qmsg |-> "QMSG_KEY", feishu |-> "FSKEY", ntfy |-> "NTFY_TOPIC"]
SeveralVariables ==
    [telegram |-> {"TG_BOT_TOKEN", "TG_USER_ID"}, gotify |-> {"GOTIFY_URL", "GOTIFY_TOKEN"}]
WxPusherReceivers == {"WXPUSHER_TOPIC_IDS", "WXPUSHER_UIDS"}

buildQingLongNotificationChannels(variables) ==
    {c \in DOMAIN OneVariable : OneVariable[c] \in variables}
      \cup {c \in DOMAIN SeveralVariables : SeveralVariables[c] \subseteq variables}
      \cup {c \in {"wxpusher"} : /\ "WXPUSHER_APP_TOKEN" \in variables
                                 /\ WxPusherReceivers \cap variables # {}}
      \cup {c \in {"bark"} : buildQingLongBarkConfig(variables)}
      \cup {c \in {"custom"} : buildQingLongCustomWebhookConfig(variables)}
      \cup {c \in {"email"} : buildQingLongEmailConfig(variables)}
      \cup {c \in {"wecom_app"} : buildQingLongWecomAppConfig(variables)}

MappedSettings ==
    {"AutoAddCron", "AutoDelCron", "DefaultCronRule", "RepoFileExtensions", "ProxyUrl", "CpuWarn",
     "MemoryWarn", "DiskWarn", "RandomDelay", "RandomDelayFileExtensions"}

\* The first valid value of a setting counts; the names are mapped one to one.
mapQingLongConfigToSystemConfig(settings) ==
    {s.name : s \in {x \in settings : x.name \in MappedSettings /\ x.valid}}

\* Rows keep the order of position, then id; those without a position get their rank.
Before(e, f) == e.position < f.position \/ (e.position = f.position /\ e.id < f.id)
loadQingLongEnvVars(rows) ==
    LET kept == {e \in rows : e.name # ""}
    IN  {[name |-> e.name, on |-> e.status = 0,
          position |-> IF e.position > 0 THEN e.position
                       ELSE 1 + Cardinality({f \in kept : Before(f, e)})] : e \in kept}

\* A task keeps its id until the restore maps it; its schedule must be valid.
loadQingLongTasks(rows) ==
    {[id |-> t.id, name |-> t.name, status |-> IF t.disabled THEN "disabled" ELSE "enabled",
      needs |-> 0, channel |-> 0] : t \in {x \in rows : x.valid}}

\* A subscription without a valid schedule is imported without one.
loadQingLongSubscriptions(rows) ==
    {[id |-> s.id, name |-> s.name, on |-> ~s.disabled, schedule |-> s.valid, key |-> 0] :
        s \in {x \in rows : x.url}}

loadQingLongDependencies(rows) ==
    {[type |-> d.type, name |-> d.name] :
        d \in {x \in rows : x.name # "" /\ x.status = 1 /\ x.type \in {"nodejs", "python"}}}

loadQingLongApps(rows) ==
    {[name |-> a.name, on |-> TRUE] : a \in {x \in rows : x.secret}}

\* Only what was found is selected, so that the rest of the panel is kept.
buildQingLongManifest(q) ==
    LET channels == buildQingLongNotificationChannels(q.variables)
        settings == mapQingLongConfigToSystemConfig(q.settings)
        apps == loadQingLongApps(q.apps)
        envs == loadQingLongEnvVars(q.envs)
        tasks == loadQingLongTasks(q.crontabs)
        subs == loadQingLongSubscriptions(q.subs)
        deps == loadQingLongDependencies(q.deps)
    IN  [source |-> "qinglong", encrypted |-> FALSE, mirrors |-> FALSE,
         sel |-> {k \in {"configs"} : settings \cup channels # {} \/ apps # {}}
                   \cup {k \in {"env_vars"} : envs # {}} \cup {k \in {"tasks"} : tasks # {}}
                   \cup {k \in {"subscriptions"} : subs # {}}
                   \cup {k \in {"dependencies"} : deps # {}}
                   \cup {k \in {"scripts"} : q.scripts} \cup {k \in {"logs"} : q.logs},
         channels |-> LET n == CHOOSE f \in [channels -> 1 .. Cardinality(channels)] :
                               \A c, d \in channels : f[c] = f[d] => c = d
                      IN  {[id |-> n[c], name |-> c, on |-> TRUE] : c \in channels},
         apps |-> apps, envs |-> envs, tasks |-> tasks, subs |-> subs, deps |-> deps,
         keys |-> {}, logs |-> {}, config |-> [schedule |-> FALSE, pending |-> FALSE],
         scripts |-> "qinglong", logfiles |-> "qinglong"]
=============================================================================
