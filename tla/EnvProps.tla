------------------------------ MODULE EnvProps ------------------------------
(***************************************************************************)
(* What the environment variables, and the accounts that the values of one *)
(* name become, must guarantee.                                            *)
(***************************************************************************)
EXTENDS EnvVariables, TaskAccounts

\* Where a request wants the variable it moves: directly before another of its list or
\* last in it, first of all, or last of all.
LandsAsAsked(r) ==
    LET others == DOMAIN env \ {r.id}
        siblings == {i \in others : env[i].sortOrder = env[r.id].sortOrder}
    IN  r.id \in DOMAIN env =>
          /\ r.op = "top" => \A i \in others : ComesBefore(r.id, i)
          /\ r.op = "untop" => \A i \in others : ComesBefore(i, r.id)
          /\ r.op = "sort" /\ r.arg = 0 => \A i \in siblings : ComesBefore(i, r.id)
          /\ r.op = "sort" /\ r.arg \in siblings =>
               \A i \in siblings : (i = r.arg \/ ComesBefore(r.arg, i)) <=> ComesBefore(r.id, i)

\* Whatever requests interleave and whatever positions the rows had, a step changes the
\* order of at most one variable, and a variable that was moved is where it was to be
\* (env.go, reorderEnvWithinSortBucket, MoveToTop, appendEnvToSortBucket).
KeepsPageOrder ==
    [][/\ \E x \in DOMAIN env \cup {0} :
            \A i, j \in (DOMAIN env \cap DOMAIN env') \ {x} : ComesBefore(i, j) <=> ComesBefore(i, j)'
       /\ \A r \in {envRequest[c] : c \in {d \in EnvClients : envRequest[d].pc = "move" /\ envRequest'[d].pc = "free"}} :
            LandsAsAsked(r)']_env

\* Values that the separators keep apart: a single value has no "&" and no escape, only
\* the last one ends with "&", and where one "&" separates, none but the first and the
\* last is empty.
Separable(vs) ==
    /\ Len(vs) = 1 => ~Among(Amp, vs[1]) /\ ~Among(Escape, vs[1])
    /\ \A k \in 1..(Len(vs) - 1) : vs[k] = <<>> \/ vs[k][Len(vs[k])] # Amp
    /\ SeparatorWidth(vs) = 1 => \A k \in 2..(Len(vs) - 1) : vs[k] # <<>>

Picks == [k \in DOMAIN picked |-> picked[k].value]

\* The account with number n is the n-th enabled variable of the page, whatever its value
\* contains, and a script that splits what "desi" hands it finds just the picked ones;
\* no account is picked twice.
AccountsAreRows ==
    Separable(values) =>
        /\ \A k \in DOMAIN picked : picked[k].value = values[picked[k].index]
        /\ \A k, l \in DOMAIN picked : picked[k].index = picked[l].index => k = l
        /\ plan.mode = "desi" /\ picked # <<>> /\ Separable(Picks) => splitTaskEnvValues(joinTaskEnvValues(Picks)) = Picks
=============================================================================
