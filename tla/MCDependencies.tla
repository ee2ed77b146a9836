-------------------------- MODULE MCDependencies --------------------------
(***************************************************************************)
(* Small instances of DependencyProps for TLC: rows n1, n2 of npm, p1, p2   *)
(* of python, x1 of linux.                                                  *)
(***************************************************************************)
EXTENDS DependencyProps, TLC

CONSTANTS n1, n2, p1, p2, x1

MCTypeOf == [d \in Deps |-> CASE d \in {n1, n2} -> "nodejs"
                              [] d \in {p1, p2} -> "python"
                              [] OTHER -> "linux"]
\* p1 and p2 are two spellings of one package.
MCPkgOf == [d \in Deps |-> IF d = p2 THEN p1 ELSE d]

\* The page as it is found: the first spelling and the linux package are
\* installed, npm's has failed.
FoundInit == DepInit /\ \A d \in Deps : row[d] = CASE d = p2 -> "none"
                                                    [] d \in {n1, n2} -> "failed"
                                                    [] OTHER -> "installed"
FoundSpec == FoundInit /\ [][Next]_depVars
\* Goroutines, and users, are alike; used without temporal properties only.
MCSymmetry == Permutations(Ops) \cup Permutations(Users)
=============================================================================
