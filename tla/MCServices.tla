----------------------------- MODULE MCServices -----------------------------
(***************************************************************************)
(* Small instances of the modules that share no variables with any other,  *)
(* on one run of TLC: a behaviour is one of one part, and the variables of *)
(* the other parts keep one of their initial values.  As no action of one  *)
(* part mentions a variable of another, what holds of each part alone      *)
(* holds of any interleaving of them.                                      *)
(***************************************************************************)
EXTENDS EnvProps, DebugProps, CommandProps, AndroidProps, VenvProps

VARIABLE part

\* An archive whose executable comes neither first nor last.
EntriesValue == <<"lib", "bin", "share">>

\* Two values of up to two characters or with "&&" in them, and three of a few that are
\* empty or end or begin with "&"; the first two of the page; no, swapped, overlapping
\* and missing accounts.
MCChars == {"&", "esc", "x"}
MCWords == UNION {[1..n -> MCChars] : n \in 0..2} \cup {<<"x", "&", "&", "x">>}
MCValues == UNION {[1..n -> MCWords] : n \in 1..2} \cup [1..3 -> {<<>>, <<"x">>, <<"&", "x">>}]
MCSpecs == {<<>>, <<<<2, 1>>>>, <<<<0>>, <<1, 2>>>>, <<<<3>>>>}

Only(p, initial) == part = p \/ initial

ServicesInit ==
    /\ part \in {"env", "debug", "accounts", "command", "android", "venv"}
    /\ EnvInit /\ Only("env", envIds = 0)
    /\ AccountInit /\ Only("accounts", values = <<<<"x">>>> /\ plan.mode = "conc" /\ plan.spec = <<>>)
    /\ CmdInit /\ Only("command", \A d \in WorkDirs : link[d] = "none")
    /\ VenvInit /\ Only("venv", /\ rowVersion = [r \in Rows |-> Default] /\ legacy = NoEnv
                                /\ flat = [v \in Versions |-> NoEnv] /\ Single = {})
    /\ DebugInit /\ AndroidInit

ServicesNext ==
    \/ part = "env" /\ EnvNext
       /\ UNCHANGED <<part, debugVars, accountVars, cmdVars, androidVars, venvVars>>
    \/ part = "debug" /\ DebugNext
       /\ UNCHANGED <<part, envVars, accountVars, cmdVars, androidVars, venvVars>>
    \/ part = "accounts" /\ AccountNext
       /\ UNCHANGED <<part, envVars, debugVars, cmdVars, androidVars, venvVars>>
    \/ part = "command" /\ CmdNext
       /\ UNCHANGED <<part, envVars, debugVars, accountVars, androidVars, venvVars>>
    \/ part = "android" /\ AndroidNext
       /\ UNCHANGED <<part, envVars, debugVars, accountVars, cmdVars, venvVars>>
    \/ part = "venv" /\ VenvNext
       /\ UNCHANGED <<part, envVars, debugVars, accountVars, cmdVars, androidVars>>

ServicesSpec ==
    /\ ServicesInit
    /\ [][ServicesNext]_<<part, envVars, debugVars, accountVars, cmdVars, androidVars, venvVars>>
=============================================================================
