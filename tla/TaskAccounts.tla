---------------------------- MODULE TaskAccounts ----------------------------
(***************************************************************************)
(* Accounts: several variables of one name are handed to a script as one   *)
(* value, and a command "conc" or "desi" takes some of them back out.      *)
(* service/task_env_values.go, runtime_exec.go, script_runner.go.          *)
(*                                                                         *)
(* A value is a sequence of characters: "&", the escape, or another one;   *)
(* a joined value that reads as a JSON array of strings is not among them. *)
(* A number of an account is 0 for "max".                                  *)
(***************************************************************************)
EXTENDS Integers, Sequences, FiniteSets

CONSTANTS
    AccountValues, \* the lists of values a name may have, in the order of the page
    AccountSpecs,  \* lists of tokens <<n>> and <<from, to>> of a command
    AccountModes   \* "conc" and "desi"

VARIABLES
    values,   \* of the enabled variables of the name
    plan,     \* CommandExecutionPlan
    picked,   \* resolveTaskAccountSelections, in order
    accounts, \* the goroutine and process of each picked account
    results   \* the channel of results

accountVars == <<values, plan, picked, accounts, results>>

\* Values are strings, a token is a number or a range of two.
ASSUME AccountAssumption ==
    /\ AccountModes \subseteq {"conc", "desi"}
    /\ AccountValues \subseteq Seq(Seq(STRING))
    /\ \A spec \in AccountSpecs : spec \in Seq(Seq(Nat)) /\ \A k \in DOMAIN spec : Len(spec[k]) \in 1..2

Amp == "&"
Escape == "esc"

-----------------------------------------------------------------------------
\* Sequences one after the other: the first k of them, and all.
UpTo(ss) == LET first[k \in 0..Len(ss)] == IF k = 0 THEN <<>> ELSE first[k - 1] \o ss[k] IN first
Concat(ss) == UpTo(ss)[Len(ss)]

Among(x, s) == \E i \in DOMAIN s : s[i] = x

\* A value is escaped for a separator of one or of two "&".
EscapedOnlyAmp(value, width) ==
    Concat([i \in DOMAIN value |-> IF value[i] = Amp /\ width = 1 THEN <<Escape, Amp>> ELSE <<value[i]>>])

\* Pairs are replaced from the left, so an odd "&" is left alone.
InPair(value, i) ==
    LET run == {k \in 1..i : \A j \in k..i : value[j] = Amp}
    IN  value[i] = Amp /\ (Cardinality(run) % 2 = 0 \/ (i < Len(value) /\ value[i + 1] = Amp))

EscapedCharacter(value, i, width) ==
    CASE value[i] = Escape -> <<Escape, Escape>>
      [] value[i] = Amp /\ (width = 1 \/ InPair(value, i)) -> <<Escape, Amp>>
      [] OTHER -> <<value[i]>>

escapeTaskEnvValue(value, width) == Concat([i \in DOMAIN value |-> EscapedCharacter(value, i, width)])

SeparatorWidth(vs) == IF \E k \in DOMAIN vs : Among(Amp, vs[k]) THEN 2 ELSE 1

joinTaskEnvValues(vs) ==
    LET width == SeparatorWidth(vs)
        separator == [k \in 1..width |-> Amp]
    IN  CASE Len(vs) = 0 -> <<>>
          [] Len(vs) = 1 -> vs[1]
          [] OTHER -> Concat([k \in DOMAIN vs |-> (IF k = 1 THEN <<>> ELSE separator) \o escapeTaskEnvValue(vs[k], width)])

\* One pass over the characters: the i-th one, and the state after each.
Read(at, raw, width, i) ==
    CASE at.skip -> [at EXCEPT !.skip = FALSE]
      [] ~at.skip /\ at.escaped -> [at EXCEPT !.current = Append(@, raw[i]), !.escaped = FALSE]
      [] ~at.skip /\ ~at.escaped /\ raw[i] = Escape -> [at EXCEPT !.escaped = TRUE]
      [] ~at.skip /\ ~at.escaped /\ raw[i] = Amp /\ (width = 2 => i < Len(raw) /\ raw[i + 1] = Amp) ->
           [found |-> Append(at.found, at.current), current |-> <<>>, escaped |-> FALSE, skip |-> width = 2]
      [] OTHER -> [at EXCEPT !.current = Append(@, raw[i])]

Scanned(raw, width) ==
    LET at[i \in 0..Len(raw)] ==
          IF i = 0 THEN [found |-> <<>>, current |-> <<>>, escaped |-> FALSE, skip |-> FALSE]
          ELSE Read(at[i - 1], raw, width, i)
    IN  at
Scan(raw, width) == Scanned(raw, width)[Len(raw)]

splitEscapedTaskEnvValues(raw, width) ==
    LET end == Scan(raw, width)
    IN  Append(end.found, IF end.escaped THEN Append(end.current, Escape) ELSE end.current)

hasUnescapedTaskEnvSeparator(raw, width) == Scan(raw, width).found # <<>>

splitTaskEnvValues(raw) ==
    splitEscapedTaskEnvValues(raw, IF hasUnescapedTaskEnvSeparator(raw, 2) THEN 2 ELSE 1)

-----------------------------------------------------------------------------
\* The numbers of a specification: an error is the empty list.
parseTaskAccountEndpoint(n, total) == IF n = 0 THEN total ELSE n
Valid(spec, total) == \A k \in DOMAIN spec : \A i \in DOMAIN spec[k] : spec[k][i] <= total

expandTaskAccountToken(token, total) ==
    LET from == parseTaskAccountEndpoint(token[1], total)
        to == parseTaskAccountEndpoint(token[Len(token)], total)
    IN  IF from <= to THEN [k \in 1..(to - from + 1) |-> from + k - 1]
        ELSE [k \in 1..(from - to + 1) |-> from - k + 1]

Seen(s) ==
    LET seen[i \in 0..Len(s)] ==
          IF i = 0 THEN <<>> ELSE IF Among(s[i], seen[i - 1]) THEN seen[i - 1] ELSE Append(seen[i - 1], s[i])
    IN  seen
WithoutRepeats(s) == Seen(s)[Len(s)]

parseTaskAccountSpec(spec, total) ==
    IF ~Valid(spec, total) THEN <<>>
    ELSE WithoutRepeats(Concat([k \in DOMAIN spec |-> expandTaskAccountToken(spec[k], total)]))

resolveTaskAccountSelections(raw, spec) ==
    LET found == splitTaskEnvValues(raw)
        numbers == parseTaskAccountSpec(IF spec = <<>> THEN <<<<1, 0>>>> ELSE spec, Len(found))
    IN  IF raw = <<>> THEN <<>>
        ELSE [k \in DOMAIN numbers |-> [index |-> numbers[k], value |-> found[numbers[k]]]]

-----------------------------------------------------------------------------
AccountInit ==
    /\ values \in AccountValues /\ plan \in [mode : AccountModes, spec : AccountSpecs, pc : {"new"}, code : {0}]
    /\ picked = <<>> /\ accounts = <<>> /\ results = <<>>

\* The values of a name, in the order of the page, become one variable.
BuildManagedRuntimeEnvMap(vs) == joinTaskEnvValues(vs)

\* runConcurrentCommand starts a goroutine for each account; applyCommandEnvOverrides
\* hands the picked values to one process, which is account 1 here.
RunCommandWithPlan ==
    LET selections == resolveTaskAccountSelections(BuildManagedRuntimeEnvMap(values), plan.spec)
    IN  /\ plan.pc = "new" /\ picked' = selections /\ UNCHANGED <<values, results>>
        /\ plan' = [plan EXCEPT !.pc = IF selections = <<>> THEN "error" ELSE "run"]
        /\ accounts' = IF plan.mode = "conc" THEN [k \in DOMAIN selections |-> "new"]
                       ELSE [k \in 1..(IF selections = <<>> THEN 0 ELSE 1) |-> "new"]

Account(k, state) == accounts' = [accounts EXCEPT ![k] = state]
Result(code) == results' = Append(results, code)

\* runSingleCommand of one account: a command that does not start is a result of 1.
StartAccount(k) ==
    /\ accounts[k] = "new" /\ UNCHANGED <<values, plan, picked>>
    /\ \/ Account(k, "running") /\ UNCHANGED results
       \/ Account(k, "done") /\ Result(1)

AccountExits(k, code) ==
    accounts[k] = "running" /\ Account(k, "done") /\ Result(code) /\ UNCHANGED <<values, plan, picked>>

\* A stop, by the processes that are registered so far.
StopAccounts ==
    LET alive == {k \in DOMAIN accounts : accounts[k] = "running"}
    IN  /\ alive # {} /\ UNCHANGED <<values, plan, picked>>
        /\ accounts' = [k \in DOMAIN accounts |-> IF k \in alive THEN "done" ELSE accounts[k]]
        /\ results' = results \o [k \in 1..Cardinality(alive) |-> 1]

OverallCode(codes) == IF \E k \in DOMAIN codes : codes[k] # 0 THEN SelectSeq(codes, LAMBDA c : c # 0)[1] ELSE 0

\* After waitGroup.Wait.
Collect ==
    /\ plan.pc = "run" /\ \A k \in DOMAIN accounts : accounts[k] = "done"
    /\ plan' = [plan EXCEPT !.pc = "done", !.code = OverallCode(results)]
    /\ UNCHANGED <<values, picked, accounts, results>>

AccountNext ==
    \/ RunCommandWithPlan \/ StopAccounts \/ Collect
    \/ \E k \in DOMAIN accounts : StartAccount(k) \/ \E code \in {0, 1} : AccountExits(k, code)

AccountSpec == AccountInit /\ [][AccountNext]_accountVars
=============================================================================
