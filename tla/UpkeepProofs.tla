---------------------------- MODULE UpkeepProofs ----------------------------
(***************************************************************************)
(* Python environments, updates, backups, the page of environment          *)
(* variables and the accounts its values become: what the panel does to    *)
(* its own files and lists leaves none of them half done or out of order,  *)
(* whatever comes between.  They share no variable; a section each.        *)
(***************************************************************************)
EXTENDS SequenceTheorems, EnvProps, VenvProps, UpdateProps, BackupProps, FiniteSetTheorems, TLAPS

-----------------------------------------------------------------------------
(* Orders of finite sets.                                                  *)

\* A strict total order, as a set of pairs.
Orders(R, S) ==
  /\ \A x \in S : <<x, x>> \notin R
  /\ \A x, y \in S : x # y => <<x, y>> \in R \/ <<y, x>> \in R
  /\ \A x, y, z \in S : <<x, y>> \in R /\ <<y, z>> \in R => <<x, z>> \in R

Ascends(s, R) == \A k, l \in DOMAIN s : k < l => <<s[k], s[l]>> \in R

\* A function between finite sets of one size that keeps elements apart is onto.
LEMMA SameSizeIsOnto ==
  ASSUME NEW S, NEW T, IsFiniteSet(S), IsFiniteSet(T), Cardinality(S) = Cardinality(T),
         NEW f \in [S -> T], \A x, y \in S : f[x] = f[y] => x = y
  PROVE  \A t \in T : \E x \in S : f[x] = t
<1>1. SUFFICES ASSUME NEW t \in T, \A x \in S : f[x] # t PROVE FALSE
  OBVIOUS
<1>. DEFINE U == T \ {t}
<1>2. IsFiniteSet(U) /\ Cardinality(U) = Cardinality(T) - 1 /\ Cardinality(T) \in Nat
  BY FS_RemoveElement, FS_CardinalityType
<1>3. f \in [S -> U]
  BY <1>1
<1>. HIDE DEF U
<1>4. Cardinality(U) < Cardinality(S)
  BY <1>2
<1>5. \E x, y \in S : x # y /\ f[x] = f[y]
  BY <1>2, <1>3, <1>4, FS_PigeonHole
<1>. QED
  BY <1>5

\* A sequence that ascends, as long as the set, has every element.
LEMMA AscendingIsOnto ==
  ASSUME NEW S, IsFiniteSet(S), NEW R, Orders(R, S),
         NEW s \in [1..Cardinality(S) -> S], Ascends(s, R)
  PROVE  /\ \A x \in S : \E k \in DOMAIN s : s[k] = x
         /\ \A k, l \in DOMAIN s : s[k] = s[l] => k = l
<1>. DEFINE n == Cardinality(S)
<1>1. n \in Nat /\ IsFiniteSet(1..n) /\ Cardinality(1..n) = n
  BY FS_CardinalityType, FS_Interval
<1>2. \A k, l \in 1..n : s[k] = s[l] => k = l
  <2>1. SUFFICES ASSUME NEW k \in 1..n, NEW l \in 1..n, s[k] = s[l], k # l PROVE FALSE
    OBVIOUS
  <2>2. CASE k < l BY <2>1, <2>2, <1>1 DEF Ascends, Orders
  <2>3. CASE l < k BY <2>1, <2>3, <1>1 DEF Ascends, Orders
  <2>. HIDE DEF n
  <2>. QED BY <2>1, <2>2, <2>3, <1>1
<1>3. \A x \in S : \E k \in 1..n : s[k] = x
  <2>. HIDE DEF n
  <2>1. s \in [1..n -> S] /\ Cardinality(1..n) = Cardinality(S)
    BY <1>1 DEF n
  <2>. QED BY <1>1, <1>2, <2>1, SameSizeIsOnto
<1>. QED
  BY <1>2, <1>3

\* A finite set has such a sequence: an element's place is the number of those before it.
LEMMA Ranking ==
  ASSUME NEW S, IsFiniteSet(S), NEW R, Orders(R, S)
  PROVE  \E s \in [1..Cardinality(S) -> S] : Ascends(s, R)
<1>. DEFINE n == Cardinality(S)
            Below(x) == {y \in S : <<y, x>> \in R}
            rank == [x \in S |-> Cardinality(Below(x)) + 1]
<1>1. n \in Nat /\ IsFiniteSet(1..n) /\ Cardinality(1..n) = n
  BY FS_CardinalityType, FS_Interval
<1>2. ASSUME NEW x \in S PROVE IsFiniteSet(Below(x)) /\ Cardinality(Below(x)) \in Nat /\ rank[x] \in 1..n
  <2>1. Below(x) \in SUBSET (S \ {x})
    BY DEF Orders
  <2>2. IsFiniteSet(S \ {x}) /\ Cardinality(S \ {x}) = n - 1
    BY FS_RemoveElement
  <2>3. IsFiniteSet(Below(x)) /\ Cardinality(Below(x)) <= n - 1
    <3>. HIDE DEF Below
    <3>1. IsFiniteSet(Below(x)) /\ Cardinality(Below(x)) <= Cardinality(S \ {x})
      BY <2>1, <2>2, FS_Subset, Zenon
    <3>. QED BY <2>2, <3>1
  <2>4. Cardinality(Below(x)) \in Nat /\ rank[x] = Cardinality(Below(x)) + 1
    BY <2>3, FS_CardinalityType
  <2>. HIDE DEF n, Below, rank
  <2>. QED BY <2>3, <2>4, <1>1
<1>3. ASSUME NEW x \in S, NEW y \in S, <<x, y>> \in R PROVE rank[x] < rank[y]
  <2>1. Below(x) \in SUBSET (Below(y) \ {x}) /\ x \in Below(y)
    BY <1>3 DEF Orders
  <2>2. IsFiniteSet(Below(y) \ {x}) /\ Cardinality(Below(y) \ {x}) = Cardinality(Below(y)) - 1
    BY <2>1, <1>2, FS_RemoveElement
  <2>. HIDE DEF Below
  <2>3. Cardinality(Below(x)) <= Cardinality(Below(y)) - 1
    BY <2>1, <2>2, FS_Subset
  <2>4. /\ Cardinality(Below(x)) \in Nat /\ rank[x] = Cardinality(Below(x)) + 1
        /\ Cardinality(Below(y)) \in Nat /\ rank[y] = Cardinality(Below(y)) + 1
    BY <1>2
  <2>. HIDE DEF rank
  <2>. QED BY <2>3, <2>4
<1>. HIDE DEF n
<1>4. rank \in [S -> 1..n]
  BY <1>2
<1>. HIDE DEF rank, Below
<1>5. \A x, y \in S : rank[x] = rank[y] => x = y
  <2>1. \A x, y \in S : x # y => rank[x] < rank[y] \/ rank[y] < rank[x]
    BY <1>3 DEF Orders
  <2>2. \A x \in S : rank[x] \in Int
    BY <1>1, <1>4
  <2>. QED BY <2>1, <2>2
<1>8. \A k \in 1..n : \E x \in S : rank[x] = k
  <2>. DEFINE T == 1..n
  <2>1. IsFiniteSet(T) /\ Cardinality(S) = Cardinality(T) /\ rank \in [S -> T]
    BY <1>1, <1>4 DEF n
  <2>. HIDE DEF T
  <2>2. \A k \in T : \E x \in S : rank[x] = k
    BY <1>5, <2>1, SameSizeIsOnto
  <2>. QED BY <2>2 DEF T
<1>. DEFINE s == [k \in 1..n |-> CHOOSE x \in S : rank[x] = k]
<1>9. \A k \in 1..n : s[k] \in S /\ rank[s[k]] = k
  BY <1>8
<1>10. s \in [1..n -> S] /\ DOMAIN s = 1..n
  BY <1>9
<1>. HIDE DEF s
<1>11. ASSUME NEW k \in 1..n, NEW l \in 1..n, k < l PROVE <<s[k], s[l]>> \in R
  <2>1. s[k] # s[l]
    BY <1>9, <1>11, <1>1
  <2>2. ~(<<s[l], s[k]>> \in R)
    BY <1>9, <1>11, <1>1, <1>3
  <2>. QED BY <2>1, <2>2, <1>9 DEF Orders
<1>. QED
  BY <1>10, <1>11 DEF Ascends, n

-----------------------------------------------------------------------------
(***************************************************************************)
(* A working environment stays in its place, for every number of versions, *)
(* threads, packages, faults and starts, and whatever layout was found.    *)
(*                                                                         *)
(* Three things make it so: one thread at a time works on the directories  *)
(* (the mutex, and a start during which nobody asks for an environment);   *)
(* the looks at an environment that come before it is taken away are made  *)
(* while that thread works; and what others do meanwhile, installing a     *)
(* package or breaking, does not make an environment work.                 *)
(***************************************************************************)
DirFields == {"kind", "python", "pip", "pkgs"}
IsDir(d) == DirFields \subseteq DOMAIN d
AtFields == {"pc", "v", "todo", "next", "tries", "found"}
IsPlace(a) == /\ AtFields \subseteq DOMAIN a
              /\ a.v \in Versions
              /\ a.next \in {"fill", "clean", "recheck"}

Works(t) == at[t].pc \notin {"idle", "lock", "up"}
\* Where a thread is about to replace the directory of its version.
Replacing == {"swap", "repair", "quarantine"}
Healthy(v) == managedPythonVenvHealthyForVersion(flat[v], v)

VenvShape ==
  /\ DOMAIN flat = Versions /\ DOMAIN nested = Versions /\ DOMAIN pre = Versions
  /\ \A v \in Versions : IsDir(flat[v]) /\ IsDir(nested[v]) /\ IsDir(pre[v])
  /\ IsDir(legacy)
  /\ Single \subseteq Versions
  /\ DOMAIN at = Threads /\ \A t \in Threads : IsPlace(at[t])

WorkersHoldMutex == \A t \in Users : Works(t) => mu = t
QuietDuringStart == at[Boot].pc # "up" => \A t \in Users : at[t].pc = "idle"
\* What is about to be replaced does not work.
ReplacedIsBroken == \A t \in Threads : at[t].pc \in Replacing => ~Healthy(at[t].v)

VenvInv == VenvShape /\ WorkersHoldMutex /\ QuietDuringStart /\ ReplacedIsBroken

DirsInOrder ==
  /\ DOMAIN flat = Versions /\ DOMAIN nested = Versions /\ DOMAIN pre = Versions
  /\ \A v \in Versions : IsDir(flat[v]) /\ IsDir(nested[v]) /\ IsDir(pre[v])
  /\ IsDir(legacy)
  /\ Single \subseteq Versions

Stays == \A v \in CurrentPythonRuntimeVersions :
           Healthy(v) => IsEnv(flat'[v]) /\ flat[v].pkgs \subseteq flat'[v].pkgs

LEMMA Constructed ==
  /\ \A kind, python, pip, pkgs :
       LET d == Dir(kind, python, pip, pkgs) IN
       /\ IsDir(d)
       /\ d.kind = kind /\ d.python = python /\ d.pip = pip /\ d.pkgs = pkgs
  /\ IsDir(NoEnv) /\ IsDir(Shell) /\ NoEnv.kind = "absent" /\ Shell.kind = "shell"
BY DEF Dir, IsDir, DirFields, NoEnv, Shell

LEMMA Rests ==
  ASSUME NEW pc
  PROVE  IsPlace(Resting(pc)) /\ Resting(pc).pc = pc /\ IsPlace(Booting) /\ Booting.pc = "flatten"
BY PythonAssumption DEF Resting, Booting, IsPlace, AtFields

LEMMA CurrentIsVersion ==
  ASSUME VenvInv
  PROVE  CurrentPythonRuntimeVersions \subseteq Versions
BY DEF VenvInv, VenvShape, CurrentPythonRuntimeVersions

\* No two threads work at a time.
LEMMA Alone ==
  ASSUME VenvInv, NEW t \in Threads, NEW q \in Threads \ {t}, Works(t)
  PROVE  ~Works(q)
BY PythonAssumption DEF VenvInv, WorkersHoldMutex, QuietDuringStart, Works, Threads

\* A step of the thread that works.
LEMMA WorkerKeeps ==
  ASSUME VenvInv, NEW t \in Threads, Works(t), NEW a, at' = [at EXCEPT ![t] = a],
         IsPlace(a), DirsInOrder',
         a.pc \in Replacing => ~managedPythonVenvHealthyForVersion(flat'[a.v], a.v),
         UNCHANGED mu \/ (t \in Users /\ a.pc = "idle")
  PROVE  VenvInv'
<1>1. DOMAIN at = Threads /\ DOMAIN at' = Threads /\ at'[t] = a
      /\ \A q \in Threads \ {t} : at'[q] = at[q] /\ ~Works(q)
  BY Alone DEF VenvInv, VenvShape
<1>2. VenvShape'
  BY <1>1 DEF VenvInv, VenvShape, DirsInOrder
<1>3. WorkersHoldMutex'
  BY <1>1, PythonAssumption DEF VenvInv, WorkersHoldMutex, Works, Threads
<1>4. QuietDuringStart'
  BY <1>1, PythonAssumption DEF VenvInv, QuietDuringStart, Works, Threads
<1>5. ReplacedIsBroken'
  BY <1>1 DEF ReplacedIsBroken, Works, Replacing, Healthy
<1> QED BY <1>2, <1>3, <1>4, <1>5 DEF VenvInv

\* Moving on does not disturb a thread's place.
LEMMA Places ==
  ASSUME VenvInv, NEW t \in Threads, NEW pc
  PROVE  /\ IsPlace([at[t] EXCEPT !.pc = pc])
         /\ [at[t] EXCEPT !.pc = pc].pc = pc
         /\ [at[t] EXCEPT !.pc = pc].v = at[t].v
BY DEF VenvInv, VenvShape, IsPlace, AtFields

LEMMA InOrder == VenvInv => DirsInOrder
BY DEF VenvInv, VenvShape, DirsInOrder

LEMMA FlattenKeeps ==
  ASSUME VenvInv, NEW t \in Threads, NEW v \in Versions, Flatten(t, v), UNCHANGED Single
  PROVE  VenvInv' /\ Stays
<1>1. Works(t) /\ IsPlace(at[t]) /\ DirsInOrder /\ at[t].pc = "flatten"
  BY InOrder DEF Flatten, Works, VenvInv, VenvShape
<1>2. DirsInOrder'
  BY <1>1, Constructed DEF Flatten, dirs, DirsInOrder
<1>3. flat' = flat \/ (~IsEnv(flat[v]) /\ flat' = [flat EXCEPT ![v] = NoEnv])
  BY DEF Flatten, dirs
<1>4. Stays
  BY <1>1, <1>3, CurrentIsVersion DEF Stays, Healthy, managedPythonVenvHealthyForVersion, DirsInOrder
<1> DEFINE on == [at[t] EXCEPT !.todo = at[t].todo \ {v}]
           go == [at[t] EXCEPT !.pc = "swap", !.v = v]
<1>5. IsPlace(on) /\ on.pc = "flatten"
  BY <1>1 DEF IsPlace, AtFields
<1>6. IsPlace(go) /\ go.v = v
  BY <1>1 DEF IsPlace, AtFields
<1>7. \/ at' = [at EXCEPT ![t] = on]
      \/ at' = [at EXCEPT ![t] = go] /\ flat' = [flat EXCEPT ![v] = NoEnv]
  BY DEF Flatten
<1>8. UNCHANGED mu
  BY DEF Flatten
<1>9. at' = [at EXCEPT ![t] = go] /\ flat' = [flat EXCEPT ![v] = NoEnv]
        => ~managedPythonVenvHealthyForVersion(flat'[v], v)
  BY <1>1, Constructed DEF DirsInOrder, managedPythonVenvHealthyForVersion, IsEnv
<1> HIDE DEF on, go
<1> QED BY <1>1, <1>2, <1>4, <1>5, <1>6, <1>7, <1>8, <1>9, WorkerKeeps DEF Replacing

LEMMA SwapKeeps ==
  ASSUME VenvInv, NEW t \in Threads, Swap(t), UNCHANGED Single
  PROVE  VenvInv' /\ Stays
<1> DEFINE v == at[t].v
           a == [at[t] EXCEPT !.pc = "flatten", !.todo = at[t].todo \ {v}]
<1>1. Works(t) /\ IsPlace(at[t]) /\ DirsInOrder /\ v \in Versions /\ ~Healthy(v)
  BY InOrder DEF Swap, Works, VenvInv, VenvShape, IsPlace, ReplacedIsBroken, Replacing
<1>2. \E d \in {pre[v], Shell} : flat' = [flat EXCEPT ![v] = d]
  BY DEF Swap
<1>3. DirsInOrder'
  BY <1>1, <1>2, Constructed DEF Swap, DirsInOrder
<1>4. Stays
  BY <1>1, <1>2, CurrentIsVersion DEF Stays, Healthy, managedPythonVenvHealthyForVersion, DirsInOrder
<1>5. IsPlace(a) /\ a.pc = "flatten"
  BY <1>1 DEF IsPlace, AtFields
<1>6. at' = [at EXCEPT ![t] = a] /\ UNCHANGED mu
  BY DEF Swap
<1> HIDE DEF a, v
<1> QED BY <1>1, <1>3, <1>4, <1>5, <1>6, WorkerKeeps DEF Replacing

LEMMA MigrateKeeps ==
  ASSUME VenvInv, NEW t \in Threads, MigrateRoot(t), UNCHANGED Single
  PROVE  VenvInv' /\ Stays
<1>1. Works(t) /\ IsPlace(at[t]) /\ DirsInOrder
  BY InOrder DEF MigrateRoot, Works, VenvInv, VenvShape
<1>2. \/ flat' = flat
      \/ \E v : ~directoryExists(flat[v]) /\ flat' = [flat EXCEPT ![v] = legacy]
  BY DEF MigrateRoot, TargetExists, dirs
<1>3. DirsInOrder'
  BY <1>1, <1>2, Constructed DEF MigrateRoot, DirsInOrder, dirs
<1>4. Stays
  BY <1>1, <1>2, CurrentIsVersion
     DEF Stays, Healthy, managedPythonVenvHealthyForVersion, DirsInOrder, directoryExists, IsEnv
<1> DEFINE a(found) == [at[t] EXCEPT !.pc = at[t].next, !.found = found]
<1>5. PICK found : at' = [at EXCEPT ![t].pc = at[t].next, ![t].found = found]
  BY DEF MigrateRoot
<1>6. at' = [at EXCEPT ![t] = a(found)]
  BY <1>5
<1>7. IsPlace(a(found)) /\ a(found).pc = at[t].next
  BY <1>1 DEF IsPlace, AtFields
<1>8. UNCHANGED mu
  BY DEF MigrateRoot
<1>9. at[t].next \notin Replacing
  BY <1>1 DEF IsPlace, Replacing
<1> HIDE DEF a
<1> QED BY <1>1, <1>3, <1>4, <1>6, <1>7, <1>8, <1>9, WorkerKeeps

\* The steps of a start after the directories are migrated.
LEMMA StartKeeps ==
  ASSUME VenvInv, StartPanelOnce, UNCHANGED Single
  PROVE  VenvInv' /\ Stays
<1>1. Boot \in Threads /\ IsPlace(at[Boot]) /\ DirsInOrder /\ UNCHANGED mu
  BY InOrder DEF VenvInv, VenvShape, Threads, StartPanelOnce, NormalizeLegacyPythonVersionColumns,
     NormalizeLegacyPythonVersionColumnsAfterVenvMigration, ApplySinglePythonRuntimePolicyOnStartup,
     CleanupManagedPythonArtifactsOnStartup
<1>2. Works(Boot)
  BY DEF Works, StartPanelOnce, NormalizeLegacyPythonVersionColumns,
     NormalizeLegacyPythonVersionColumnsAfterVenvMigration, ApplySinglePythonRuntimePolicyOnStartup,
     CleanupManagedPythonArtifactsOnStartup
<1> DEFINE again == [at[Boot] EXCEPT !.pc = "flatten", !.todo = Versions, !.next = "clean"]
<1>3. \/ UNCHANGED dirs /\ \E pc \in {"move", "policy"} : at' = [at EXCEPT ![Boot] = [at[Boot] EXCEPT !.pc = pc]]
      \/ UNCHANGED dirs /\ at' = [at EXCEPT ![Boot] = again]
      \/ CleanupManagedPythonArtifactsOnStartup
  BY DEF StartPanelOnce, NormalizeLegacyPythonVersionColumns,
     NormalizeLegacyPythonVersionColumnsAfterVenvMigration, ApplySinglePythonRuntimePolicyOnStartup, Go
<1>4. CASE UNCHANGED dirs
  <2>1. DirsInOrder' /\ Stays
    BY <1>1, <1>4, CurrentIsVersion DEF dirs, DirsInOrder, Stays, Healthy, managedPythonVenvHealthyForVersion
  <2>2. CASE at' = [at EXCEPT ![Boot] = again]
    <3>1. IsPlace(again) /\ again.pc = "flatten"
      BY <1>1 DEF IsPlace, AtFields
    <3> HIDE DEF again
    <3> QED BY <1>1, <1>2, <2>1, <2>2, <3>1, WorkerKeeps DEF Replacing
  <2>3. CASE \E pc \in {"move", "policy"} : at' = [at EXCEPT ![Boot] = [at[Boot] EXCEPT !.pc = pc]]
    <3>1. PICK pc \in {"move", "policy"} : at' = [at EXCEPT ![Boot] = [at[Boot] EXCEPT !.pc = pc]]
      BY <2>3
    <3> DEFINE a == [at[Boot] EXCEPT !.pc = pc]
    <3>2. IsPlace(a) /\ a.pc = pc /\ pc \notin Replacing
      BY <1>1, Places DEF Replacing
    <3>3. at' = [at EXCEPT ![Boot] = a]
      BY <3>1
    <3> HIDE DEF a
    <3> QED BY <1>1, <1>2, <2>1, <3>2, <3>3, WorkerKeeps
  <2>4. CASE CleanupManagedPythonArtifactsOnStartup
    <3>1. at' = [at EXCEPT ![Boot] = Resting("up")]
      BY <2>4 DEF CleanupManagedPythonArtifactsOnStartup, Rest
    <3> QED BY <1>1, <1>2, <2>1, <3>1, Rests, WorkerKeeps DEF Replacing
  <2> QED BY <1>3, <2>2, <2>3, <2>4
<1>5. CASE CleanupManagedPythonArtifactsOnStartup
  <2>1. at' = [at EXCEPT ![Boot] = Resting("up")]
    BY <1>5 DEF CleanupManagedPythonArtifactsOnStartup, Rest
  <2>2. DirsInOrder'
    BY <1>1, <1>5, Constructed DEF CleanupManagedPythonArtifactsOnStartup,
       cleanupUnsupportedManagedPythonVenvsLocked, DirsInOrder
  <2>3. Stays
    BY <1>1, <1>5, CurrentIsVersion DEF CleanupManagedPythonArtifactsOnStartup,
       cleanupUnsupportedManagedPythonVenvsLocked, Stays, Healthy, managedPythonVenvHealthyForVersion
  <2> QED BY <1>1, <1>2, <2>1, <2>2, <2>3, Rests, WorkerKeeps DEF Replacing
<1> QED BY <1>3, <1>4, <1>5

\* With the mutex: the second look, the repair, the replacement.
LEMMA RecheckKeeps ==
  ASSUME VenvInv, NEW t \in Users, Recheck(t), UNCHANGED Single
  PROVE  VenvInv' /\ Stays
<1>1. t \in Threads /\ Works(t) /\ DirsInOrder /\ UNCHANGED dirs
  BY InOrder DEF Recheck, Works, Threads, Unlock
<1>2. DirsInOrder' /\ Stays
  BY <1>1, CurrentIsVersion DEF dirs, DirsInOrder, Stays, Healthy, managedPythonVenvHealthyForVersion
<1>3. CASE Unlock(t)
  <2>1. at' = [at EXCEPT ![t] = Resting("idle")]
    BY <1>3 DEF Unlock, Rest
  <2> QED BY <1>1, <1>2, <2>1, Rests, WorkerKeeps DEF Replacing
<1>4. CASE ~Healthy(at[t].v) /\ UNCHANGED mu /\ \E pc \in {"repair", "create"} : Go(t, pc)
  <2>1. PICK pc \in {"repair", "create"} : Go(t, pc)
    BY <1>4
  <2> DEFINE a == [at[t] EXCEPT !.pc = pc]
  <2>2. at' = [at EXCEPT ![t] = a]
    BY <2>1 DEF Go
  <2>3. IsPlace(a) /\ a.v = at[t].v
    BY <1>1, Places
  <2>4. ~managedPythonVenvHealthyForVersion(flat'[a.v], a.v)
    BY <1>1, <1>4, <2>3 DEF Healthy, dirs
  <2> HIDE DEF a
  <2> QED BY <1>1, <1>2, <1>4, <2>2, <2>3, <2>4, WorkerKeeps
<1> QED BY <1>3, <1>4 DEF Recheck, Healthy

LEMMA RepairKeeps ==
  ASSUME VenvInv, NEW t \in Users, repairManagedPythonVenvPip(t) \/ quarantineManagedPythonVenv(t),
         UNCHANGED Single
  PROVE  VenvInv' /\ Stays
<1> DEFINE v == at[t].v
<1>1. t \in Threads /\ Works(t) /\ DirsInOrder /\ v \in Versions /\ ~Healthy(v)
  BY InOrder DEF repairManagedPythonVenvPip, quarantineManagedPythonVenv, Works, Threads, VenvInv,
     VenvShape, IsPlace, ReplacedIsBroken, Replacing
<1>2. \/ flat' = flat
      \/ \E d \in {NoEnv, [flat[v] EXCEPT !.pip = TRUE]} : flat' = [flat EXCEPT ![v] = d]
  BY DEF repairManagedPythonVenvPip, quarantineManagedPythonVenv, dirs
<1>3. IsDir(flat[v]) /\ IsDir([flat[v] EXCEPT !.pip = TRUE])
  BY <1>1 DEF DirsInOrder, IsDir, DirFields
<1>4. DirsInOrder'
  BY <1>1, <1>2, <1>3, Constructed
     DEF repairManagedPythonVenvPip, quarantineManagedPythonVenv, DirsInOrder, dirs
<1>5. Stays
  BY <1>1, <1>2, CurrentIsVersion DEF Stays, Healthy, managedPythonVenvHealthyForVersion, DirsInOrder
<1>6. CASE Rest(t, "idle")
  <2>1. at' = [at EXCEPT ![t] = Resting("idle")]
    BY <1>6 DEF Rest
  <2> QED BY <1>1, <1>4, <1>5, <2>1, Rests, WorkerKeeps DEF Replacing
<1>7. CASE Go(t, "quarantine") /\ UNCHANGED dirs /\ UNCHANGED mu
  <2> DEFINE a == [at[t] EXCEPT !.pc = "quarantine"]
  <2>1. at' = [at EXCEPT ![t] = a] /\ IsPlace(a) /\ a.v = v
    BY <1>7, <1>1, Places DEF Go
  <2>2. ~managedPythonVenvHealthyForVersion(flat'[a.v], a.v)
    BY <1>1, <1>7, <2>1 DEF Healthy, dirs
  <2> HIDE DEF a, v
  <2> QED BY <1>1, <1>4, <1>5, <1>7, <2>1, <2>2, WorkerKeeps
<1>8. CASE Go(t, "create") /\ UNCHANGED mu
  <2> DEFINE a == [at[t] EXCEPT !.pc = "create"]
  <2>1. at' = [at EXCEPT ![t] = a] /\ IsPlace(a) /\ a.pc = "create"
    BY <1>8, <1>1, Places DEF Go
  <2> HIDE DEF a, v
  <2> QED BY <1>1, <1>4, <1>5, <1>8, <2>1, WorkerKeeps DEF Replacing
<1> QED BY <1>6, <1>7, <1>8 DEF repairManagedPythonVenvPip, quarantineManagedPythonVenv

LEMMA CreateKeeps ==
  ASSUME VenvInv, NEW t \in Users, CreateEnv(t), UNCHANGED Single
  PROVE  VenvInv' /\ Stays
<1> DEFINE v == at[t].v
           made(pip) == Dir("env", v, pip, flat[v].pkgs)
<1>1. t \in Threads /\ Works(t) /\ DirsInOrder /\ v \in Versions /\ IsPlace(at[t])
  BY InOrder DEF CreateEnv, Works, Threads, VenvInv, VenvShape, IsPlace
<1>2. CASE Unlock(t)
  <2>1. at' = [at EXCEPT ![t] = Resting("idle")] /\ UNCHANGED dirs
    BY <1>2 DEF Unlock, Rest
  <2>2. DirsInOrder' /\ Stays
    BY <1>1, <2>1, CurrentIsVersion DEF dirs, DirsInOrder, Stays, Healthy, managedPythonVenvHealthyForVersion
  <2> QED BY <1>1, <2>1, <2>2, Rests, WorkerKeeps DEF Replacing
<1>3. ASSUME NEW pip, flat' = [flat EXCEPT ![v] = made(pip)], UNCHANGED <<nested, pre, legacy>>
      PROVE  DirsInOrder' /\ Stays
  <2>1. IsDir(made(pip)) /\ IsEnv(made(pip)) /\ made(pip).pkgs = flat[v].pkgs
    BY Constructed DEF IsEnv
  <2> HIDE DEF made
  <2>2. DirsInOrder'
    BY <1>1, <1>3, <2>1 DEF DirsInOrder
  <2>3. Stays
    BY <1>1, <1>3, <2>1, CurrentIsVersion
       DEF Stays, Healthy, managedPythonVenvHealthyForVersion, DirsInOrder
  <2> QED BY <2>2, <2>3
<1>4. CASE flat' = [flat EXCEPT ![v] = made(TRUE)] /\ Rest(t, "idle") /\ UNCHANGED <<nested, pre, legacy>>
  <2>1. at' = [at EXCEPT ![t] = Resting("idle")]
    BY <1>4 DEF Rest
  <2> QED BY <1>1, <1>3, <1>4, <2>1, Rests, WorkerKeeps DEF Replacing
<1>5. CASE /\ flat' = [flat EXCEPT ![v] = made(FALSE)] /\ UNCHANGED <<nested, pre, legacy, mu>>
           /\ \E next \in {"repair", "quarantine"} :
                at' = [at EXCEPT ![t].pc = next, ![t].tries = @ + 1]
  <2>1. PICK next \in {"repair", "quarantine"} :
          at' = [at EXCEPT ![t].pc = next, ![t].tries = @ + 1]
    BY <1>5
  <2> DEFINE a == [at[t] EXCEPT !.pc = next, !.tries = at[t].tries + 1]
  <2>2. at' = [at EXCEPT ![t] = a]
    BY <1>1, <2>1 DEF VenvInv, VenvShape
  <2>3. IsPlace(a) /\ a.v = v
    BY <1>1 DEF IsPlace, AtFields
  <2>4. ~managedPythonVenvHealthyForVersion(flat'[v], v)
    <3>1. ~made(FALSE).pip
      BY DEF Dir
    <3>2. flat'[v] = made(FALSE)
      BY <1>1, <1>5 DEF DirsInOrder
    <3> HIDE DEF made
    <3> QED BY <3>1, <3>2 DEF managedPythonVenvHealthyForVersion
  <2> HIDE DEF a, v, made
  <2> QED BY <1>1, <1>3, <1>5, <2>2, <2>3, <2>4, WorkerKeeps
<1> QED BY <1>2, <1>4, <1>5 DEF CreateEnv

\* Who asks for an environment waits for the mutex with nothing in hand.
LEMMA AskKeeps ==
  ASSUME VenvInv, NEW t \in Users, LookForEnv(t) \/ Lock(t), UNCHANGED Single
  PROVE  VenvInv' /\ Stays
<1>1. t \in Threads /\ DOMAIN at = Threads /\ IsPlace(at[t]) /\ UNCHANGED dirs
      /\ t # Boot /\ Boot \in Threads /\ Nobody \notin Users
  BY PythonAssumption DEF VenvInv, VenvShape, Threads, LookForEnv, Lock
<1>2. DirsInOrder' /\ Stays
  BY <1>1, InOrder, CurrentIsVersion DEF dirs, DirsInOrder, Stays, Healthy, managedPythonVenvHealthyForVersion
<1>3. PICK a : at' = [at EXCEPT ![t] = a] /\ IsPlace(a) /\ a.pc \in {"lock", "flatten"}
               /\ (a.pc = "lock" => mu' = mu) /\ (a.pc = "flatten" => mu = Nobody /\ mu' = t)
  <2>1. CASE LookForEnv(t)
    <3>1. PICK v \in CurrentPythonRuntimeVersions : at' = [at EXCEPT ![t].pc = "lock", ![t].v = v]
      BY <2>1 DEF LookForEnv
    <3> DEFINE a == [at[t] EXCEPT !.pc = "lock", !.v = v]
    <3>2. at' = [at EXCEPT ![t] = a] /\ IsPlace(a) /\ a.pc = "lock" /\ mu' = mu
      BY <1>1, <2>1, <3>1, CurrentIsVersion DEF IsPlace, AtFields, LookForEnv
    <3> HIDE DEF a
    <3> QED BY <3>2
  <2>2. CASE Lock(t)
    <3> DEFINE a == [at[t] EXCEPT !.pc = "flatten", !.todo = Versions, !.next = "recheck", !.tries = 0]
    <3>1. at' = [at EXCEPT ![t] = a] /\ mu = Nobody /\ mu' = t
      BY <1>1, <2>2 DEF Lock
    <3>2. IsPlace(a) /\ a.pc = "flatten"
      BY <1>1 DEF IsPlace, AtFields
    <3> HIDE DEF a
    <3> QED BY <3>1, <3>2
  <2> QED BY <2>1, <2>2
<1>4. at[Boot].pc = "up"
  BY <1>1 DEF VenvInv, QuietDuringStart, LookForEnv, Lock
<1>5. \A q \in Threads \ {t} : at'[q] = at[q]
  BY <1>1, <1>3
<1>6. at'[t] = a /\ DOMAIN at' = Threads
  BY <1>1, <1>3
<1>7. VenvShape'
  BY <1>2, <1>3, <1>5, <1>6 DEF VenvInv, VenvShape, DirsInOrder
<1>8. WorkersHoldMutex'
  BY <1>1, <1>3, <1>5, <1>6 DEF VenvInv, WorkersHoldMutex, Works, Threads
<1>9. QuietDuringStart'
  BY <1>1, <1>4, <1>5 DEF QuietDuringStart
<1>10. ReplacedIsBroken'
  BY <1>1, <1>3, <1>5, <1>6 DEF VenvInv, ReplacedIsBroken, Replacing, Healthy, dirs
<1> QED BY <1>2, <1>7, <1>8, <1>9, <1>10 DEF VenvInv

\* What happens beside the threads makes no environment work that did not.
LEMMA OthersKeep ==
  ASSUME VenvInv, (\E d \in Deps : Install(d)) \/ (\E v \in Versions : Decay(v)) \/ SetDefaultPythonRuntime,
         UNCHANGED Single
  PROVE  VenvInv' /\ Stays
<1>1. UNCHANGED <<at, mu, nested, pre, legacy>> /\ DirsInOrder
  BY InOrder DEF Install, Decay, SetDefaultPythonRuntime, dirs
<1>2. \/ flat' = flat
      \/ \E v \in Versions, d \in Deps : Healthy(v) /\ flat' = [flat EXCEPT ![v].pkgs = @ \cup {d}]
      \/ \E v \in Versions : flat' = [flat EXCEPT ![v].pip = FALSE] \/ flat' = [flat EXCEPT ![v].python = "none"]
  BY CurrentIsVersion DEF Install, Decay, SetDefaultPythonRuntime, dirs, Healthy
<1>3. DOMAIN flat' = Versions /\ \A w \in Versions : IsDir(flat'[w])
  BY <1>1, <1>2 DEF DirsInOrder, IsDir, DirFields
<1>4. Stays
  BY <1>1, <1>2, CurrentIsVersion
     DEF Stays, Healthy, managedPythonVenvHealthyForVersion, DirsInOrder, IsDir, DirFields, IsEnv
<1>5. \A w \in Versions : Healthy(w)' => Healthy(w)
  <2> SUFFICES ASSUME NEW w \in Versions, ~Healthy(w) PROVE ~Healthy(w)'
    OBVIOUS
  <2>1. IsDir(flat[w])
    BY <1>1 DEF DirsInOrder
  <2>2. \/ flat'[w] = flat[w]
        \/ flat'[w] = [flat[w] EXCEPT !.pip = FALSE]
        \/ flat'[w] = [flat[w] EXCEPT !.python = "none"]
    BY <1>1, <1>2 DEF DirsInOrder
  <2>3. ASSUME flat'[w] = [flat[w] EXCEPT !.pip = FALSE] PROVE ~flat'[w].pip
    BY <2>1, <2>3 DEF IsDir, DirFields
  <2>4. ASSUME flat'[w] = [flat[w] EXCEPT !.python = "none"] PROVE flat'[w].python # w
    BY <2>1, <2>4, PythonAssumption DEF IsDir, DirFields
  <2> QED BY <2>2, <2>3, <2>4 DEF Healthy, managedPythonVenvHealthyForVersion
<1>6. VenvInv'
  BY <1>1, <1>3, <1>5 DEF VenvInv, VenvShape, WorkersHoldMutex, Works, QuietDuringStart,
     ReplacedIsBroken, IsPlace
<1> QED BY <1>4, <1>6

LEMMA DiesKeeps ==
  ASSUME VenvInv, PanelDies, UNCHANGED Single
  PROVE  VenvInv' /\ Stays
<1>1. UNCHANGED dirs /\ DOMAIN at' = Threads
      /\ \A t \in Threads : at'[t] = IF t = Boot THEN Booting ELSE Resting("idle")
  BY DEF PanelDies
<1>2. DirsInOrder' /\ Stays
  BY <1>1, InOrder, CurrentIsVersion DEF dirs, DirsInOrder, Stays, Healthy, managedPythonVenvHealthyForVersion
<1>3. \A t \in Threads : IsPlace(at'[t]) /\ at'[t].pc = IF t = Boot THEN "flatten" ELSE "idle"
  BY <1>1, Rests
<1>4. Boot \notin Users
  BY PythonAssumption
<1> QED BY <1>1, <1>2, <1>3, <1>4 DEF VenvInv, VenvShape, DirsInOrder, WorkersHoldMutex, Works,
           QuietDuringStart, ReplacedIsBroken, Replacing, Threads

LEMMA VenvStepKeeps ==
  ASSUME VenvInv, VenvNext
  PROVE  VenvInv' /\ Stays
BY StartKeeps, OthersKeep, DiesKeeps, FlattenKeeps, SwapKeeps, MigrateKeeps, AskKeeps, RecheckKeeps,
   CreateKeeps, RepairKeeps DEF VenvNext, VenvStep

LEMMA VenvInitInv == VenvInit => VenvInv
<1> SUFFICES ASSUME VenvInit PROVE VenvInv
  OBVIOUS
<1>0. PICK w \in Versions \cup {"none"}, pkgs \in SUBSET Deps, back \in BOOLEAN :
        /\ legacy \in {NoEnv, Dir("env", w, w # "none", pkgs)}
        /\ \E u \in Versions :
             nested \in {[x \in Versions |-> NoEnv],
                        [x \in Versions |-> IF x = u /\ x # Default THEN Dir("env", u, TRUE, {}) ELSE NoEnv]}
        /\ flat = [x \in Versions |->
             IF directoryExists(nested[x]) THEN Shell
             ELSE IF back /\ x = Default
               THEN Dir("env", x, TRUE, {d \in Deps : rowVersion[d] = Default})
               ELSE NoEnv]
  BY Zenon DEF VenvInit
<1> USE Constructed
<1>1. IsDir(legacy)
  BY <1>0
<1>2. DOMAIN nested = Versions /\ \A v \in Versions : IsDir(nested[v])
  <2>1. PICK u \in Versions :
          \/ nested = [x \in Versions |-> NoEnv]
          \/ nested = [x \in Versions |-> IF x = u /\ x # Default THEN Dir("env", u, TRUE, {}) ELSE NoEnv]
    BY <1>0, Zenon
  <2>2. CASE nested = [x \in Versions |-> NoEnv]
    BY <2>2
  <2>3. CASE nested = [x \in Versions |-> IF x = u /\ x # Default THEN Dir("env", u, TRUE, {}) ELSE NoEnv]
    <3>1. IsDir(Dir("env", u, TRUE, {})) /\ IsDir(NoEnv)
      BY Zenon
    <3> QED BY <2>3, <3>1
  <2> QED BY <2>1, <2>2, <2>3
<1>3. DOMAIN flat = Versions /\ \A v \in Versions : IsDir(flat[v])
  BY <1>0
<1>4. DOMAIN pre = Versions /\ \A v \in Versions : IsDir(pre[v])
  BY Constructed DEF VenvInit
<1>5. Single \subseteq Versions
  BY PythonAssumption DEF VenvInit
<1>6. DOMAIN at = Threads /\ \A t \in Threads :
        IsPlace(at[t]) /\ at[t].pc = IF t = Boot THEN "flatten" ELSE "idle"
  BY Rests DEF VenvInit
<1>7. Boot \notin Users
  BY PythonAssumption
<1> QED BY <1>1, <1>2, <1>3, <1>4, <1>5, <1>6, <1>7 DEF VenvInv, VenvShape, WorkersHoldMutex, Works,
           QuietDuringStart, ReplacedIsBroken, Replacing, Threads

LEMMA VenvIsKept == ASSUME VenvInv, [VenvNext]_venvVars PROVE VenvInv'
<1>1. ASSUME UNCHANGED venvVars PROVE VenvInv'
  BY <1>1 DEF venvVars, VenvInv, VenvShape, WorkersHoldMutex, Works, QuietDuringStart,
     ReplacedIsBroken, Healthy
<1> QED BY <1>1, VenvStepKeeps

\* However starts, threads that want an environment, installs, faults and crashes
\* interleave, no environment that works is taken from its place or loses a
\* package.
THEOREM WorkingEnvironmentsStay == VenvSpec => WorkingEnvironmentStays
<1>1. VenvInv /\ [VenvNext]_venvVars => VenvInv'
  BY VenvIsKept
<1>2. VenvInv /\ [VenvNext]_venvVars =>
        [\A v \in CurrentPythonRuntimeVersions :
           managedPythonVenvHealthyForVersion(flat[v], v)
             => IsEnv(flat'[v]) /\ flat[v].pkgs \subseteq flat'[v].pkgs]_venvVars
  BY VenvStepKeeps DEF Stays, Healthy
<1> QED BY <1>1, <1>2, VenvInitInv, PTL DEF VenvSpec, WorkingEnvironmentStays

-----------------------------------------------------------------------------
(***************************************************************************)
(* A start that no fault disturbs leaves the rows at their packages, for   *)
(* every layout it finds.                                                  *)
(*                                                                         *)
(* The argument is one of phases.  Before the migration the only           *)
(* environment with packages is that of the default version, and rows of   *)
(* the old environment have no version if there is one.  What the          *)
(* migration found tells apart, while rows are filled and moved, those of  *)
(* the environment that moved from those of the one that was there.  From  *)
(* then on every package is where its row points, and what threads do to   *)
(* the directories carries packages along or leaves them out.              *)
(***************************************************************************)
StartPlaces == {"flatten", "swap", "fill", "move", "policy", "clean", "up"}
Migrating == at[Boot].pc \in {"flatten", "swap"}
Early == Migrating /\ at[Boot].next = "fill"
Late == at[Boot].pc \in {"policy", "clean", "up"} \/ (Migrating /\ at[Boot].next = "clean")
InPlaces == /\ faults \in Nat
            /\ at[Boot].pc \in StartPlaces /\ at[Boot].next \in {"fill", "clean"}

\* No packages but in the environments, and in the old one.
NothingAside ==
  /\ \A v \in Versions : /\ nested[v].pkgs = {} /\ pre[v].pkgs = {}
                         /\ ~directoryExists(flat[v]) => flat[v].pkgs = {}
  /\ ~IsEnv(legacy) => legacy.pkgs = {}

BeforeMigration ==
  /\ legacy.python \in Versions \cup {"none"}
  /\ ~directoryExists(nested[Default])
  /\ at[Boot].pc = "swap" => at[Boot].v # Default
  /\ \A d \in Deps : rowVersion[d] \in {"", Default}
  /\ \A d \in Deps, v \in Versions : d \in flat[v].pkgs => v = Default /\ rowVersion[d] = Default
  /\ directoryExists(flat[Default]) => \A d \in Deps \cap legacy.pkgs : rowVersion[d] = ""

\* The rows of the environment that moved: without a version until they are
\* named, and with the default one only if that was it, or none was there.
Moved(d, v, named) ==
  /\ at[Boot].found.moved /\ v = at[Boot].found.version
  /\ \/ rowVersion[d] = IF named THEN v ELSE ""
     \/ rowVersion[d] = Default /\ (v = Default \/ ~at[Boot].found.defaultExisted)
Untouched(d, v) ==
  /\ v = Default /\ rowVersion[d] = Default
  /\ \/ ~at[Boot].found.moved \/ at[Boot].found.version = Default
     \/ at[Boot].found.defaultExisted
AfterMigration(named) ==
  /\ legacy.pkgs = {}
  /\ at[Boot].found.moved => at[Boot].found.version \in Versions
  /\ \A d \in Deps, v \in Versions : d \in flat[v].pkgs => Untouched(d, v) \/ Moved(d, v, named)

AllFollow ==
  /\ legacy.pkgs = {}
  /\ \A d \in Deps, v \in Versions : d \in flat[v].pkgs => rowVersion[d] = v

InPhase ==
  /\ NothingAside
  /\ Early => BeforeMigration
  /\ at[Boot].pc = "fill" => AfterMigration(FALSE)
  /\ at[Boot].pc = "move" => AfterMigration(TRUE)
  /\ Late => AllFollow
FollowInv == faults \in Nat /\ (faults = 0 => InPlaces /\ InPhase)

\* A user of the environments acts only when the start is done.
LEMMA UsersComeLate ==
  ASSUME VenvInv, InPlaces, NEW t \in Users, at[t].pc # "idle"
  PROVE  at[Boot].pc = "up" /\ Late /\ ~Early /\ t # Boot
BY PythonAssumption DEF VenvInv, QuietDuringStart, Late, Early, Migrating

\* Late, and with the start where it was: packages may be copied or left out.
LEMMA LateStays ==
  ASSUME InPlaces, at[Boot].pc = "up", at'[Boot] = at[Boot], UNCHANGED rowVersion,
         InPhase, NothingAside', legacy'.pkgs = {},
         \A v \in Versions : \A d \in flat'[v].pkgs : d \in flat[v].pkgs \/ rowVersion[d] = v
  PROVE  InPhase'
BY DEF InPhase, Late, Early, Migrating, AllFollow

LEMMA FlattenAside ==
  ASSUME VenvInv, NothingAside, NEW t \in Threads, NEW v \in Versions, Flatten(t, v)
  PROVE  /\ NothingAside' /\ UNCHANGED <<legacy, rowVersion>>
         /\ \A w \in Versions : flat'[w].pkgs \subseteq flat[w].pkgs
         /\ \A w \in Versions : directoryExists(flat'[w]) => directoryExists(flat[w])
         /\ \A w \in Versions : directoryExists(nested'[w]) => directoryExists(nested[w])
         /\ UNCHANGED faults
<1>1. DirsInOrder
  BY InOrder
<1>2. NoEnv.pkgs = {} /\ NoEnv.kind = "absent"
  BY DEF NoEnv, Dir
<1>3. UNCHANGED <<legacy, rowVersion, faults>>
  BY DEF Flatten, dirs
<1>4. nested' = nested \/ nested' = [nested EXCEPT ![v] = NoEnv]
  BY DEF Flatten, dirs
<1>5. flat' = flat \/ flat' = [flat EXCEPT ![v] = NoEnv]
  BY DEF Flatten, dirs
<1>6. pre' = pre \/ pre' = [pre EXCEPT ![v] = nested[v]]
  BY DEF Flatten, dirs
<1> QED BY <1>1, <1>2, <1>3, <1>4, <1>5, <1>6 DEF NothingAside, DirsInOrder, directoryExists

LEMMA FlattenFollows ==
  ASSUME VenvInv, InPlaces, InPhase, NEW t \in Threads, NEW v \in Versions, Flatten(t, v)
  PROVE  InPlaces' /\ InPhase'
<1>1. /\ DOMAIN at = Threads /\ IsPlace(at[t]) /\ at[t].pc = "flatten" /\ Boot \in Threads
      /\ IsPlace(at[Boot])
  BY DEF VenvInv, VenvShape, Flatten, Threads
<1>2. /\ NothingAside' /\ UNCHANGED <<legacy, rowVersion, faults>>
      /\ \A w \in Versions : flat'[w].pkgs \subseteq flat[w].pkgs
      /\ \A w \in Versions : directoryExists(flat'[w]) => directoryExists(flat[w])
      /\ \A w \in Versions : directoryExists(nested'[w]) => directoryExists(nested[w])
  BY FlattenAside DEF InPhase
<1>3. CASE t = Boot
  <2> DEFINE on == [at[Boot] EXCEPT !.todo = at[Boot].todo \ {v}]
             go == [at[Boot] EXCEPT !.pc = "swap", !.v = v]
  <2>1. /\ on.pc = "flatten" /\ on.next = at[Boot].next
        /\ go.pc = "swap" /\ go.next = at[Boot].next /\ go.v = v
    BY <1>1, <1>3 DEF IsPlace, AtFields
  <2>2. at'[Boot] = on \/ (at'[Boot] = go /\ IsEnv(nested[v]))
    BY <1>1, <1>3 DEF Flatten
  <2> HIDE DEF on, go
  <2>3. /\ at'[Boot].pc \in {"flatten", "swap"} /\ at'[Boot].next = at[Boot].next
        /\ at'[Boot].pc = "swap" => at'[Boot].v = v /\ IsEnv(nested[v])
    BY <2>1, <2>2
  <2>4. Early' => BeforeMigration'
    BY <1>1, <1>2, <1>3, <2>3, PythonAssumption
       DEF InPhase, Early, Migrating, BeforeMigration, IsEnv, directoryExists
  <2>5. Late' => AllFollow'
    BY <1>1, <1>2, <1>3, <2>3 DEF InPhase, Late, Migrating, AllFollow
  <2> QED BY <1>1, <1>2, <1>3, <2>3, <2>4, <2>5 DEF InPlaces, InPhase, StartPlaces
<1>4. CASE t \in Users
  <2>1. at[Boot].pc = "up" /\ Late /\ t # Boot
    BY <1>1, <1>4, UsersComeLate
  <2>2. at'[Boot] = at[Boot]
    BY <1>1, <2>1 DEF Flatten
  <2>3. legacy'.pkgs = {}
    BY <1>2, <2>1 DEF InPhase, AllFollow
  <2>4. InPhase'
    BY <1>2, <2>1, <2>2, <2>3, LateStays
  <2> QED BY <1>2, <2>2, <2>4 DEF InPlaces
<1> QED BY <1>3, <1>4 DEF Threads

LEMMA SwapFollows ==
  ASSUME VenvInv, InPlaces, InPhase, NEW t \in Threads, Swap(t), faults' = 0
  PROVE  InPlaces' /\ InPhase'
<1> DEFINE v == at[t].v
           a == [at[t] EXCEPT !.pc = "flatten", !.todo = at[t].todo \ {v}]
<1>1. /\ DOMAIN at = Threads /\ IsPlace(at[t]) /\ at[t].pc = "swap" /\ Boot \in Threads
      /\ IsPlace(at[Boot]) /\ v \in Versions /\ DirsInOrder
  BY InOrder DEF VenvInv, VenvShape, Swap, Threads, IsPlace
<1>2. flat' = [flat EXCEPT ![v] = pre[v]] /\ UNCHANGED <<nested, faults, legacy, rowVersion>>
      /\ pre' = [pre EXCEPT ![v] = NoEnv] /\ at' = [at EXCEPT ![t] = a]
  <2>1. ~Fails
    BY DEF Fails, InPlaces
  <2> QED BY <1>1, <2>1 DEF Swap
<1>3. a.pc = "flatten" /\ a.next = at[t].next
  BY <1>1 DEF IsPlace, AtFields
<1> HIDE DEF a, v
<1>4. NoEnv.pkgs = {}
  BY DEF NoEnv, Dir
<1>5. NothingAside' /\ flat'[v].pkgs = {} /\ \A w \in Versions \ {v} : flat'[w] = flat[w]
  BY <1>1, <1>2, <1>4 DEF InPhase, NothingAside, DirsInOrder
<1>6. CASE t = Boot
  <2>1. at'[Boot] = a
    BY <1>1, <1>2, <1>6
  <2>2. Early' => BeforeMigration'
    BY <1>1, <1>2, <1>3, <1>5, <1>6, <2>1, PythonAssumption, ZenonT(60)
       DEF InPhase, Early, Migrating, BeforeMigration, v, directoryExists
  <2>3. Late' => AllFollow'
    BY <1>1, <1>2, <1>3, <1>5, <1>6, <2>1 DEF InPhase, Late, Migrating, AllFollow
  <2> QED BY <1>2, <1>3, <1>5, <1>6, <2>1, <2>2, <2>3 DEF InPlaces, InPhase, StartPlaces
<1>7. CASE t \in Users
  <2>1. at[Boot].pc = "up" /\ Late /\ t # Boot
    BY <1>1, <1>7, UsersComeLate
  <2>2. at'[Boot] = at[Boot]
    BY <1>1, <1>2, <2>1
  <2>3. legacy'.pkgs = {}
    BY <1>2, <2>1 DEF InPhase, AllFollow
  <2>4. \A w \in Versions : flat'[w].pkgs \subseteq flat[w].pkgs
    BY <1>5
  <2>5. InPhase'
    BY <1>2, <1>5, <2>1, <2>2, <2>3, <2>4, LateStays
  <2> QED BY <1>2, <2>2, <2>5 DEF InPlaces
<1> QED BY <1>6, <1>7 DEF Threads

\* What the migration does to the old environment, and what it then knows.
MigrationFound(moved) ==
  [version |-> IF IsEnv(legacy) THEN detectManagedPythonVenvVersion(legacy) ELSE "",
   moved |-> moved, defaultExisted |-> directoryExists(flat[Default])]

LEMMA MigrateMoves ==
  ASSUME VenvInv, InPlaces, InPhase, NEW t \in Threads, MigrateRoot(t), faults' = 0
  PROVE  /\ NothingAside' /\ legacy'.pkgs = {} /\ UNCHANGED <<nested, pre, rowVersion, faults>>
         /\ \E moved \in BOOLEAN :
              /\ at'[t].pc = at[t].next /\ at'[t].next = at[t].next
              /\ at'[t].found = MigrationFound(moved)
              /\ \A q \in Threads \ {t} : at'[q] = at[q]
              /\ IF moved
                   THEN LET v == detectManagedPythonVenvVersion(legacy) IN
                        /\ IsEnv(legacy) /\ ~directoryExists(flat[v])
                        /\ flat' = [flat EXCEPT ![v] = legacy]
                   ELSE UNCHANGED flat
<1> DEFINE v == detectManagedPythonVenvVersion(legacy)
           a(moved) == [at[t] EXCEPT !.pc = at[t].next, !.found = MigrationFound(moved)]
<1>1. DOMAIN at = Threads /\ IsPlace(at[t]) /\ DirsInOrder
  BY InOrder DEF VenvInv, VenvShape
<1>2. ~Fails
  BY DEF Fails, InPlaces
<1>3. \A moved : a(moved).pc = at[t].next /\ a(moved).next = at[t].next
                 /\ a(moved).found = MigrationFound(moved)
  BY <1>1 DEF IsPlace, AtFields
<1>4. NoEnv.pkgs = {} /\ NoEnv.kind = "absent"
  BY DEF NoEnv, Dir
<1>5. UNCHANGED <<nested, pre, rowVersion, faults>>
  BY <1>2 DEF MigrateRoot, dirs
<1>6. \/ /\ at' = [at EXCEPT ![t] = a(FALSE)] /\ UNCHANGED flat
         /\ legacy' = NoEnv \/ (~IsEnv(legacy) /\ legacy' = legacy)
      \/ /\ at' = [at EXCEPT ![t] = a(TRUE)] /\ legacy' = NoEnv
         /\ IsEnv(legacy) /\ ~directoryExists(flat[v]) /\ flat' = [flat EXCEPT ![v] = legacy]
  BY <1>1, <1>2 DEF MigrateRoot, MigrationFound, dirs, TargetExists
<1> HIDE DEF a, v
<1>7. legacy'.pkgs = {}
  BY <1>4, <1>6 DEF InPhase, NothingAside
<1>8. NothingAside'
  BY <1>1, <1>4, <1>5, <1>6, <1>7 DEF InPhase, NothingAside, DirsInOrder, directoryExists, IsEnv
<1>9. CASE at' = [at EXCEPT ![t] = a(FALSE)] /\ UNCHANGED flat
  BY <1>1, <1>3, <1>5, <1>7, <1>8, <1>9
<1>10. CASE /\ at' = [at EXCEPT ![t] = a(TRUE)]
            /\ IsEnv(legacy) /\ ~directoryExists(flat[v]) /\ flat' = [flat EXCEPT ![v] = legacy]
  BY <1>1, <1>3, <1>5, <1>7, <1>8, <1>10 DEF v
<1> QED BY <1>6, <1>9, <1>10

LEMMA MigrateFollows ==
  ASSUME VenvInv, InPlaces, InPhase, NEW t \in Threads, MigrateRoot(t), faults' = 0
  PROVE  InPlaces' /\ InPhase'
<1> DEFINE v == detectManagedPythonVenvVersion(legacy)
<1>1. /\ IsPlace(at[t]) /\ at[t].pc = "flatten" /\ Boot \in Threads /\ DirsInOrder
      /\ Default \in Versions
  BY InOrder, PythonAssumption DEF VenvInv, VenvShape, MigrateRoot, Threads
<1>2. /\ NothingAside' /\ legacy'.pkgs = {} /\ UNCHANGED <<rowVersion, faults>>
  BY MigrateMoves
<1>3. PICK moved \in BOOLEAN :
        /\ at'[t].pc = at[t].next /\ at'[t].next = at[t].next
        /\ at'[t].found = MigrationFound(moved)
        /\ \A q \in Threads \ {t} : at'[q] = at[q]
        /\ IF moved
             THEN /\ IsEnv(legacy) /\ ~directoryExists(flat[v])
                  /\ flat' = [flat EXCEPT ![v] = legacy]
             ELSE UNCHANGED flat
  BY MigrateMoves
<1>4. CASE t = Boot /\ at[Boot].next = "fill"
  <2>1. BeforeMigration /\ v \in Versions
    BY <1>1, <1>4 DEF InPhase, Early, Migrating, BeforeMigration, detectManagedPythonVenvVersion
  <2>2. /\ at'[Boot].found.moved = moved
        /\ at'[Boot].found.defaultExisted = directoryExists(flat[Default])
        /\ moved => at'[Boot].found.version = v
    <3>1. at'[Boot].found = MigrationFound(moved) /\ (moved => IsEnv(legacy))
      BY <1>3, <1>4
    <3>2. /\ MigrationFound(moved).moved = moved
          /\ MigrationFound(moved).defaultExisted = directoryExists(flat[Default])
          /\ IsEnv(legacy) => MigrationFound(moved).version = v
      BY DEF MigrationFound
    <3> QED BY <3>1, <3>2
  <2> HIDE DEF v
  <2>3. ASSUME NEW d \in Deps, NEW w \in Versions, d \in flat'[w].pkgs
        PROVE  Untouched(d, w)' \/ Moved(d, w, FALSE)'
    <3>1. CASE moved /\ w = v
      <4>1. d \in legacy.pkgs
        BY <1>1, <1>3, <2>1, <2>3, <3>1 DEF DirsInOrder
      <4>2. rowVersion[d] = "" \/ (rowVersion[d] = Default /\ ~directoryExists(flat[Default]))
        BY <2>1, <4>1 DEF BeforeMigration
      <4> QED BY <1>2, <2>2, <3>1, <4>2 DEF Moved
    <3>2. CASE ~moved \/ w # v
      <4>1. d \in flat[w].pkgs
        BY <1>1, <1>3, <2>1, <2>3, <3>2 DEF DirsInOrder
      <4>2. w = Default /\ rowVersion[d] = Default /\ directoryExists(flat[Default])
        BY <2>1, <4>1, <1>1 DEF BeforeMigration, InPhase, NothingAside
      <4> QED BY <1>2, <2>2, <4>2 DEF Untouched
    <3> QED BY <3>1, <3>2
  <2>4. AfterMigration(FALSE)'
    BY <1>2, <2>1, <2>2, <2>3 DEF AfterMigration
  <2> QED BY <1>2, <1>3, <1>4, <2>4 DEF InPlaces, InPhase, StartPlaces, Early, Late, Migrating
<1>5. ASSUME Late PROVE \A w \in Versions : flat'[w].pkgs \subseteq flat[w].pkgs
  BY <1>1, <1>3, <1>5 DEF InPhase, AllFollow, DirsInOrder
<1>6. CASE t = Boot /\ at[Boot].next = "clean"
  <2>1. Late /\ at'[Boot].pc = "clean" /\ at'[Boot].next = "clean"
    BY <1>1, <1>3, <1>6 DEF Late, Migrating
  <2>2. AllFollow'
    BY <1>2, <1>5, <2>1 DEF InPhase, AllFollow
  <2> QED BY <1>2, <2>1, <2>2 DEF InPlaces, InPhase, StartPlaces, Early, Migrating
<1>7. CASE t \in Users
  <2>1. at[Boot].pc = "up" /\ Late /\ t # Boot
    BY <1>1, <1>7, UsersComeLate
  <2>2. at'[Boot] = at[Boot]
    BY <1>1, <1>3, <2>1
  <2>3. \A w \in Versions : \A d \in flat'[w].pkgs : d \in flat[w].pkgs
    BY <1>5, <2>1
  <2>4. InPhase'
    BY <1>2, <2>1, <2>2, <2>3, LateStays
  <2> QED BY <1>2, <2>2, <2>4 DEF InPlaces
<1> QED BY <1>4, <1>6, <1>7 DEF Threads, InPlaces

LEMMA FillFollows ==
  ASSUME VenvInv, InPlaces, InPhase, NormalizeLegacyPythonVersionColumns
  PROVE  InPlaces' /\ InPhase'
<1>1. /\ at[Boot].pc = "fill" /\ UNCHANGED <<dirs, faults>>
      /\ rowVersion' = RowsMoved(Rows, {""}, MigratedVersion)
  BY DEF NormalizeLegacyPythonVersionColumns
<1>2. at'[Boot].pc = "move" /\ at'[Boot].next = at[Boot].next /\ at'[Boot].found = at[Boot].found
  BY DEF NormalizeLegacyPythonVersionColumns, Go, VenvInv, VenvShape, Threads, IsPlace, AtFields
<1>3. AfterMigration(FALSE)
  BY <1>1 DEF InPhase
<1>4. at[Boot].found.moved => MigratedVersion = at[Boot].found.version
  BY <1>3, PythonAssumption DEF AfterMigration, MigratedVersion
<1>5. \A d \in Deps : rowVersion'[d] = IF rowVersion[d] = "" THEN MigratedVersion ELSE rowVersion[d]
  BY <1>1 DEF RowsMoved, Rows
<1>6. Default # ""
  BY PythonAssumption
<1>7. ASSUME NEW d \in Deps, NEW w \in Versions, d \in flat'[w].pkgs
      PROVE  Untouched(d, w)' \/ Moved(d, w, TRUE)'
  <2>1. Untouched(d, w) \/ Moved(d, w, FALSE)
    BY <1>1, <1>3, <1>7 DEF AfterMigration, dirs
  <2>2. CASE Untouched(d, w)
    BY <1>2, <1>5, <1>6, <2>2 DEF Untouched
  <2>3. CASE Moved(d, w, FALSE)
    BY <1>2, <1>4, <1>5, <1>6, <2>3 DEF Moved
  <2> QED BY <2>1, <2>2, <2>3
<1>8. AfterMigration(TRUE)'
  BY <1>1, <1>2, <1>3, <1>7 DEF AfterMigration, dirs
<1>9. NothingAside'
  BY <1>1 DEF InPhase, NothingAside, dirs
<1> QED BY <1>1, <1>2, <1>8, <1>9 DEF InPlaces, InPhase, StartPlaces, Early, Late, Migrating

LEMMA MoveFollows ==
  ASSUME VenvInv, InPlaces, InPhase, NormalizeLegacyPythonVersionColumnsAfterVenvMigration
  PROVE  InPlaces' /\ InPhase'
<1> DEFINE F == at[Boot].found
           moves == F.moved /\ MigratedVersion # Default /\ ~F.defaultExisted
<1>1. /\ at[Boot].pc = "move" /\ UNCHANGED <<dirs, faults>>
      /\ moves => rowVersion' = RowsMoved(Rows, {Default}, MigratedVersion)
      /\ ~moves => UNCHANGED rowVersion
  BY DEF NormalizeLegacyPythonVersionColumnsAfterVenvMigration
<1>2. at'[Boot].pc = "policy" /\ at'[Boot].next = at[Boot].next
  BY DEF NormalizeLegacyPythonVersionColumnsAfterVenvMigration, Go, VenvInv, VenvShape, Threads,
     IsPlace, AtFields
<1>3. AfterMigration(TRUE)
  BY <1>1 DEF InPhase
<1>4. F.moved => MigratedVersion = F.version
  BY <1>3, PythonAssumption DEF AfterMigration, MigratedVersion
<1>5. \A d \in Deps : rowVersion'[d] = IF moves /\ rowVersion[d] = Default THEN MigratedVersion
                                       ELSE rowVersion[d]
  BY <1>1 DEF RowsMoved, Rows
<1>6. ASSUME NEW d \in Deps, NEW w \in Versions, d \in flat'[w].pkgs
      PROVE  rowVersion'[d] = w
  <2>1. Untouched(d, w) \/ Moved(d, w, TRUE)
    BY <1>1, <1>3, <1>6 DEF AfterMigration, dirs
  <2>2. CASE Untouched(d, w)
    BY <1>4, <1>5, <2>2 DEF Untouched
  <2>3. CASE Moved(d, w, TRUE)
    BY <1>4, <1>5, <2>3 DEF Moved
  <2> QED BY <2>1, <2>2, <2>3
<1>7. AllFollow'
  BY <1>1, <1>3, <1>6 DEF AllFollow, AfterMigration, dirs
<1>8. NothingAside'
  BY <1>1 DEF InPhase, NothingAside, dirs
<1> QED BY <1>1, <1>2, <1>7, <1>8 DEF InPlaces, InPhase, StartPlaces, Early, Migrating

LEMMA PolicyFollows ==
  ASSUME VenvInv, InPlaces, InPhase, ApplySinglePythonRuntimePolicyOnStartup
  PROVE  InPlaces' /\ InPhase'
<1> DEFINE again == [at[Boot] EXCEPT !.pc = "flatten", !.todo = Versions, !.next = "clean"]
<1>1. at[Boot].pc = "policy" /\ UNCHANGED <<dirs, faults>> /\ DOMAIN at = Threads
      /\ Boot \in Threads /\ IsPlace(at[Boot])
  BY DEF ApplySinglePythonRuntimePolicyOnStartup, VenvInv, VenvShape, Threads
<1>2. again.pc = "flatten" /\ again.next = "clean"
  BY <1>1 DEF IsPlace, AtFields
<1>3. at'[Boot] = again
  BY <1>1 DEF ApplySinglePythonRuntimePolicyOnStartup
<1> HIDE DEF again
<1>4. \A d \in Deps : rowVersion'[d] = rowVersion[d]
  BY PythonAssumption DEF ApplySinglePythonRuntimePolicyOnStartup, Rows
<1>5. Late
  BY <1>1 DEF Late
<1>6. AllFollow'
  BY <1>1, <1>4, <1>5 DEF InPhase, AllFollow, dirs
<1>7. NothingAside'
  BY <1>1 DEF InPhase, NothingAside, dirs
<1> QED BY <1>1, <1>2, <1>3, <1>6, <1>7 DEF InPlaces, InPhase, StartPlaces, Early, Migrating

LEMMA CleanFollows ==
  ASSUME VenvInv, InPlaces, InPhase, CleanupManagedPythonArtifactsOnStartup
  PROVE  InPlaces' /\ InPhase'
<1>1. at[Boot].pc = "clean" /\ UNCHANGED <<pre, legacy, rowVersion, faults>> /\ DOMAIN at = Threads
      /\ Boot \in Threads
  BY DEF CleanupManagedPythonArtifactsOnStartup, VenvInv, VenvShape, Threads
<1>2. Resting("up").pc = "up" /\ Resting("up").next = "fill"
  BY DEF Resting
<1>3. at'[Boot] = Resting("up")
  BY <1>1 DEF CleanupManagedPythonArtifactsOnStartup, Rest
<1>4. NoEnv.pkgs = {} /\ NoEnv.kind = "absent"
  BY DEF NoEnv, Dir
<1>5. \A v \in Versions : /\ flat'[v] \in {flat[v], NoEnv} /\ nested'[v] \in {nested[v], NoEnv}
  BY DEF CleanupManagedPythonArtifactsOnStartup, cleanupUnsupportedManagedPythonVenvsLocked
<1>6. NothingAside'
  BY <1>1, <1>4, <1>5 DEF InPhase, NothingAside, directoryExists
<1>7. AllFollow'
  BY <1>1, <1>4, <1>5 DEF InPhase, Late, AllFollow
<1> QED BY <1>1, <1>2, <1>3, <1>6, <1>7 DEF InPlaces, InPhase, StartPlaces, Early, Migrating

\* Somebody who wants an environment carries its packages along, or leaves them.
LEMMA AloneStays ==
  ASSUME VenvInv, InPlaces, InPhase, at[Boot].pc = "up", at'[Boot] = at[Boot],
         UNCHANGED <<nested, pre, legacy, rowVersion, faults>>,
         \A v \in Versions : \/ flat'[v].kind = flat[v].kind /\ flat'[v].pkgs = flat[v].pkgs
                            \/ flat'[v].pkgs = {}
                            \/ /\ flat'[v].kind # "absent"
                               /\ \A d \in flat'[v].pkgs : d \in flat[v].pkgs \/ rowVersion[d] = v
  PROVE  InPlaces' /\ InPhase'
<1>1. legacy'.pkgs = {}
  BY DEF InPhase, Late, AllFollow
<1>2. NothingAside'
  BY DEF InPhase, NothingAside, directoryExists
<1>3. InPhase'
  BY <1>1, <1>2, LateStays
<1> QED BY <1>3 DEF InPlaces

LEMMA UserMoves ==
  ASSUME VenvInv, NEW t \in Users, NEW a, at' = [at EXCEPT ![t] = a]
  PROVE  at'[Boot] = at[Boot]
BY PythonAssumption DEF VenvInv, VenvShape, Threads

LEMMA UserFollows ==
  ASSUME VenvInv, InPlaces, InPhase, NEW t \in Users, faults' = 0,
         \/ LookForEnv(t) \/ Lock(t) \/ Recheck(t) \/ CreateEnv(t)
         \/ repairManagedPythonVenvPip(t) \/ quarantineManagedPythonVenv(t)
  PROVE  InPlaces' /\ InPhase'
<1>1. IsPlace(at[t]) /\ at[t].v \in Versions /\ DirsInOrder /\ t \in Threads
  BY InOrder DEF VenvInv, VenvShape, Threads, IsPlace
<1>2. at[Boot].pc = "up"
  BY UsersComeLate DEF LookForEnv, Lock, Recheck, CreateEnv, repairManagedPythonVenvPip,
     quarantineManagedPythonVenv
<1>3. ~Fails
  BY DEF Fails, InPlaces
<1>4. at'[Boot] = at[Boot]
  BY PythonAssumption DEF LookForEnv, Lock, Recheck, CreateEnv, repairManagedPythonVenvPip,
     quarantineManagedPythonVenv, Unlock, Rest, Go, VenvInv, VenvShape, Threads
<1>5. UNCHANGED <<nested, pre, legacy, rowVersion, faults>>
  BY <1>3 DEF LookForEnv, Lock, Recheck, CreateEnv, repairManagedPythonVenvPip,
     quarantineManagedPythonVenv, Unlock, dirs
<1>6. CASE UNCHANGED flat
  BY <1>2, <1>4, <1>5, <1>6, AloneStays
<1>7. CASE LookForEnv(t) \/ Lock(t) \/ Recheck(t)
  BY <1>6, <1>7 DEF LookForEnv, Lock, Recheck, Unlock, dirs
<1> DEFINE v == at[t].v
           made(pip) == Dir("env", v, pip, flat[v].pkgs)
<1>8. CASE CreateEnv(t)
  <2>1. UNCHANGED flat \/ \E pip \in BOOLEAN : flat' = [flat EXCEPT ![v] = made(pip)]
    BY <1>8 DEF CreateEnv, Unlock, dirs
  <2>2. \A pip \in BOOLEAN : made(pip).kind = "env" /\ made(pip).pkgs = flat[v].pkgs
    BY DEF Dir
  <2>3. ASSUME NEW pip \in BOOLEAN, flat' = [flat EXCEPT ![v] = made(pip)]
        PROVE  InPlaces' /\ InPhase'
    <3>1. made(pip).kind = "env" /\ made(pip).pkgs = flat[v].pkgs
      BY <2>2
    <3> HIDE DEF made
    <3>2. \A w \in Versions : flat'[w] = IF w = v THEN made(pip) ELSE flat[w]
      BY <1>1, <2>3 DEF DirsInOrder
    <3> QED BY <1>2, <1>4, <1>5, <3>1, <3>2, AloneStays
  <2> QED BY <1>6, <2>1, <2>3
<1>9. CASE repairManagedPythonVenvPip(t)
  <2>1. UNCHANGED flat \/ flat' = [flat EXCEPT ![v].pip = TRUE]
    BY <1>9 DEF repairManagedPythonVenvPip, dirs
  <2>2. ASSUME flat' = [flat EXCEPT ![v].pip = TRUE]
        PROVE  \A w \in Versions : flat'[w].kind = flat[w].kind /\ flat'[w].pkgs = flat[w].pkgs
    BY <1>1, <2>2 DEF DirsInOrder, IsDir, DirFields
  <2> QED BY <1>2, <1>4, <1>5, <1>6, <2>1, <2>2, AloneStays
<1>10. CASE quarantineManagedPythonVenv(t)
  <2>1. UNCHANGED flat \/ flat' = [flat EXCEPT ![v] = NoEnv]
    BY <1>10, <1>3 DEF quarantineManagedPythonVenv
  <2>2. NoEnv.pkgs = {}
    BY DEF NoEnv, Dir
  <2>3. ASSUME flat' = [flat EXCEPT ![v] = NoEnv]
        PROVE  \A w \in Versions : flat'[w] = flat[w] \/ flat'[w].pkgs = {}
    BY <1>1, <2>2, <2>3 DEF DirsInOrder
  <2> QED BY <1>2, <1>4, <1>5, <1>6, <2>1, <2>3, AloneStays
<1> QED BY <1>7, <1>8, <1>9, <1>10

\* Installs, decay, and the setting that names the default version.
LEMMA BesidesFollows ==
  ASSUME VenvInv, InPlaces, InPhase,
         (\E d \in Deps : Install(d)) \/ (\E v \in Versions : Decay(v)) \/ SetDefaultPythonRuntime
  PROVE  InPlaces' /\ InPhase'
<1>1. /\ at[Boot].pc = "up" /\ UNCHANGED <<nested, pre, legacy, rowVersion, faults, at>>
      /\ DirsInOrder
  BY InOrder DEF Install, Decay, SetDefaultPythonRuntime, dirs
<1>2. CASE \E d \in Deps : Install(d)
  <2>1. PICK d \in Deps : Install(d)
    BY <1>2
  <2>2. PICK v \in Versions : /\ v = rowVersion[d] /\ flat[v].kind = "env"
                             /\ flat' = [flat EXCEPT ![v].pkgs = @ \cup {d}]
    BY <2>1, CurrentIsVersion DEF Install, managedPythonVenvHealthyForVersion, IsEnv
  <2>3. \A w \in Versions : IF w = v THEN flat'[w].kind = "env" /\ flat'[w].pkgs = flat[w].pkgs \cup {d}
                                      ELSE flat'[w] = flat[w]
    BY <1>1, <2>2 DEF DirsInOrder, IsDir, DirFields
  <2> QED BY <1>1, <2>2, <2>3, AloneStays
<1>3. CASE (\E v \in Versions : Decay(v)) \/ SetDefaultPythonRuntime
  <2>1. \A w \in Versions : flat'[w].kind = flat[w].kind /\ flat'[w].pkgs = flat[w].pkgs
    BY <1>1, <1>3 DEF Decay, SetDefaultPythonRuntime, dirs, DirsInOrder, IsDir, DirFields
  <2> QED BY <1>1, <2>1, AloneStays
<1> QED BY <1>1, <1>2, <1>3 DEF Install, Decay, SetDefaultPythonRuntime

\* Faults are counted, and only they change the count.
LEMMA FaultsCount ==
  ASSUME VenvNext
  PROVE  UNCHANGED faults \/ Fails
<1>1. CASE StartPanelOnce
  BY <1>1 DEF StartPanelOnce, NormalizeLegacyPythonVersionColumns,
     NormalizeLegacyPythonVersionColumnsAfterVenvMigration, ApplySinglePythonRuntimePolicyOnStartup,
     CleanupManagedPythonArtifactsOnStartup
<1>2. CASE SetDefaultPythonRuntime \/ PanelDies \/ (\E d \in Deps : Install(d)) \/ (\E v \in Versions : Decay(v))
  BY <1>2 DEF SetDefaultPythonRuntime, PanelDies, Install, Decay
<1>3. ASSUME NEW t \in Threads, (\E v \in Versions : Flatten(t, v)) \/ Swap(t) \/ MigrateRoot(t)
      PROVE  UNCHANGED faults \/ Fails
  BY <1>3 DEF Flatten, Swap, MigrateRoot
<1>4. ASSUME NEW t \in Users, LookForEnv(t) \/ Lock(t) \/ Recheck(t) \/ CreateEnv(t)
                             \/ repairManagedPythonVenvPip(t) \/ quarantineManagedPythonVenv(t)
      PROVE  UNCHANGED faults \/ Fails
  BY <1>4 DEF LookForEnv, Lock, Recheck, CreateEnv, repairManagedPythonVenvPip,
     quarantineManagedPythonVenv, Unlock
<1> QED BY <1>1, <1>2, <1>3, <1>4 DEF VenvNext, VenvStep

LEMMA FollowStep ==
  ASSUME VenvInv, FollowInv, [VenvNext]_venvVars
  PROVE  FollowInv'
<1>1. CASE UNCHANGED venvVars
  <2>1. (NothingAside' <=> NothingAside) /\ (Early' <=> Early) /\ (Late' <=> Late)
    BY <1>1 DEF venvVars, NothingAside, Early, Late, Migrating
  <2>2. BeforeMigration => BeforeMigration'
    BY <1>1 DEF venvVars, BeforeMigration
  <2>3. AfterMigration(FALSE) => AfterMigration(FALSE)'
    BY <1>1 DEF venvVars, AfterMigration, Untouched, Moved
  <2>4. AfterMigration(TRUE) => AfterMigration(TRUE)'
    BY <1>1 DEF venvVars, AfterMigration, Untouched, Moved
  <2>5. AllFollow => AllFollow'
    BY <1>1 DEF venvVars, AllFollow
  <2>6. UNCHANGED <<at, faults>>
    BY <1>1 DEF venvVars
  <2> QED BY <2>1, <2>2, <2>3, <2>4, <2>5, <2>6 DEF FollowInv, InPlaces, InPhase
<1>2. CASE VenvNext
  <2>1. faults' \in Nat /\ (faults' = 0 => faults = 0)
    BY <1>2, FaultsCount DEF Fails, FollowInv
  <2>2. SUFFICES ASSUME faults' = 0, InPlaces, InPhase
                 PROVE  InPlaces' /\ InPhase'
    BY <2>1 DEF FollowInv
  <2>3. ~PanelDies
    BY <2>2 DEF PanelDies, Fails, InPlaces
  <2>4. CASE StartPanelOnce
    BY <2>2, <2>4, FillFollows, MoveFollows, PolicyFollows, CleanFollows DEF StartPanelOnce
  <2>5. CASE SetDefaultPythonRuntime \/ (\E d \in Deps : Install(d)) \/ (\E v \in Versions : Decay(v))
    BY <2>2, <2>5, BesidesFollows
  <2>6. ASSUME NEW t \in Threads, (\E v \in Versions : Flatten(t, v)) \/ Swap(t) \/ MigrateRoot(t)
        PROVE  InPlaces' /\ InPhase'
    BY <2>2, <2>6, FlattenFollows, SwapFollows, MigrateFollows
  <2>7. ASSUME NEW t \in Users, LookForEnv(t) \/ Lock(t) \/ Recheck(t) \/ CreateEnv(t)
                               \/ repairManagedPythonVenvPip(t) \/ quarantineManagedPythonVenv(t)
        PROVE  InPlaces' /\ InPhase'
    BY <2>2, <2>7, UserFollows
  <2> QED BY <1>2, <2>3, <2>4, <2>5, <2>6, <2>7 DEF VenvNext, VenvStep
<1> QED BY <1>1, <1>2

LEMMA FollowInit == VenvInit => FollowInv
<1> SUFFICES ASSUME VenvInit PROVE FollowInv
  OBVIOUS
<1>1. PICK v \in Versions \cup {"none"}, pkgs \in SUBSET Deps, back \in BOOLEAN :
        /\ \A d \in pkgs : back => rowVersion[d] = ""
        /\ legacy \in {NoEnv, Dir("env", v, v # "none", pkgs)}
        /\ \E u \in Versions :
             nested \in {[x \in Versions |-> NoEnv],
                        [x \in Versions |-> IF x = u /\ x # Default THEN Dir("env", u, TRUE, {}) ELSE NoEnv]}
        /\ flat = [x \in Versions |->
             IF directoryExists(nested[x]) THEN Shell
             ELSE IF back /\ x = Default
               THEN Dir("env", x, TRUE, {d \in Deps : rowVersion[d] = Default})
               ELSE NoEnv]
  BY Zenon DEF VenvInit
<1>2. /\ NoEnv.kind = "absent" /\ NoEnv.python = "none" /\ NoEnv.pkgs = {}
      /\ Shell.kind = "shell" /\ Shell.pkgs = {}
      /\ \A kind, python, pip, held :
           LET d == Dir(kind, python, pip, held) IN d.kind = kind /\ d.python = python /\ d.pkgs = held
  BY DEF NoEnv, Shell, Dir
<1>3. /\ legacy.python \in Versions \cup {"none"} /\ legacy.pkgs \subseteq pkgs
      /\ ~IsEnv(legacy) => legacy.pkgs = {}
  <2>1. legacy = NoEnv \/ legacy = Dir("env", v, v # "none", pkgs)
    BY <1>1
  <2>2. Dir("env", v, v # "none", pkgs).kind = "env" /\ Dir("env", v, v # "none", pkgs).python = v
        /\ Dir("env", v, v # "none", pkgs).pkgs = pkgs
    BY DEF Dir
  <2> QED BY <1>2, <2>1, <2>2 DEF IsEnv
<1>4. \A w \in Versions : nested[w].pkgs = {} /\ (w = Default => nested[w].kind = "absent")
  <2>1. PICK u \in Versions :
          \/ nested = [x \in Versions |-> NoEnv]
          \/ nested = [x \in Versions |-> IF x = u /\ x # Default THEN Dir("env", u, TRUE, {}) ELSE NoEnv]
    BY <1>1, Zenon
  <2>2. Dir("env", u, TRUE, {}).pkgs = {}
    BY DEF Dir
  <2> QED BY <1>2, <2>1, <2>2
<1>5. \A w \in Versions : \/ flat[w].pkgs = {} /\ ~(w = Default /\ back)
                          \/ /\ w = Default /\ back /\ flat[w].kind = "env"
                             /\ flat[w].pkgs = {d \in Deps : rowVersion[d] = Default}
  <2> SUFFICES ASSUME NEW w \in Versions
               PROVE  \/ flat[w].pkgs = {} /\ ~(w = Default /\ back)
                      \/ /\ w = Default /\ back /\ flat[w].kind = "env"
                         /\ flat[w].pkgs = {d \in Deps : rowVersion[d] = Default}
    OBVIOUS
  <2>1. flat[w] = IF directoryExists(nested[w]) THEN Shell
                  ELSE IF back /\ w = Default
                    THEN Dir("env", w, TRUE, {d \in Deps : rowVersion[d] = Default})
                    ELSE NoEnv
    BY <1>1
  <2>2. /\ Dir("env", w, TRUE, {d \in Deps : rowVersion[d] = Default}).kind = "env"
        /\ Dir("env", w, TRUE, {d \in Deps : rowVersion[d] = Default}).pkgs
             = {d \in Deps : rowVersion[d] = Default}
    BY DEF Dir
  <2> QED BY <1>2, <1>4, <2>1, <2>2 DEF directoryExists
<1>6. directoryExists(flat[Default]) => back
  BY <1>1, <1>2, <1>4, PythonAssumption DEF directoryExists
<1>7. \A w \in Versions : pre[w].pkgs = {}
  BY <1>2 DEF VenvInit
<1>8. \A d \in Deps : rowVersion[d] \in {"", Default}
  BY DEF VenvInit, Rows
<1>9. faults = 0 /\ at[Boot].pc = "flatten" /\ at[Boot].next = "fill"
  <2>1. at[Boot] = Booting
    BY DEF VenvInit, Threads
  <2>2. Booting.pc = "flatten" /\ Booting.next = "fill"
    BY DEF Booting, Resting
  <2> QED BY <2>1, <2>2 DEF VenvInit
<1>10. BeforeMigration
  <2>1. \A d \in pkgs : back => rowVersion[d] = ""
    BY <1>1
  <2>2. Default \in Versions
    BY PythonAssumption
  <2> QED BY <1>3, <1>4, <1>5, <1>6, <1>8, <1>9, <2>1, <2>2, ZenonT(30) DEF BeforeMigration, directoryExists
<1>11. NothingAside
  BY <1>3, <1>4, <1>5, <1>7 DEF NothingAside, directoryExists
<1> QED BY <1>9, <1>10, <1>11 DEF FollowInv, InPlaces, InPhase, StartPlaces, Early, Late, Migrating

\* Whatever layout and rows an upgrade finds, and whatever users of the
\* environments do, a start that no fault disturbs leaves every dependency row at
\* the version whose environment has its package, and so it stays.
THEOREM RowsStayWithPackages == VenvSpec => []RowsFollowPackages
<1>1. VenvInv /\ [VenvNext]_venvVars => VenvInv'
  BY VenvIsKept
<1>2. VenvInv /\ FollowInv /\ [VenvNext]_venvVars => FollowInv'
  BY FollowStep
<1>3. FollowInv => RowsFollowPackages
  BY DEF FollowInv, InPhase, Late, AllFollow, RowsFollowPackages
<1> QED BY <1>1, <1>2, <1>3, VenvInitInv, FollowInit, PTL DEF VenvSpec

-----------------------------------------------------------------------------
(***************************************************************************)
(* Backups: a directory misses only where a switch is under way or was cut *)
(* short, for every number of restores, backups, archives and crashes.     *)
(*                                                                         *)
(* The restore that renamed the old directory away still has it, until it  *)
(* has put something in its place; two restores may both have renamed, but *)
(* the second of them found nothing to rename.                             *)
(***************************************************************************)
RestFields == {"pc", "archive", "pending", "old", "clean", "dir"}
Reading == {"idle", "read", "signal"}

\* A directory with nothing but helpers has been missing at a start.
CutIf(v, d) == v = "helpers" => d \in cut
HelpersOfCut(m) == \A d \in Dirs : CutIf(Content(m, d), d)

RestOK(t) ==
  /\ RestFields \subseteq DOMAIN t
  /\ t.pc = "in" => CutIf(t.old, t.dir)
  /\ t.archive # NoArchive => HelpersOfCut(t.archive)
  /\ t.archive = NoArchive => t.pc \in Reading
MakerOK(m) ==
  /\ {"pc", "archive"} \subseteq DOMAIN m
  /\ m.pc # "idle" => {"sel", "scripts", "logfiles"} \subseteq DOMAIN m.archive

\* Somebody has the directory that misses.
Watched(d) ==
  live[d] = Absent => d \in cut \/ \E r \in Restorers : AtDir(r, "in", d) /\ rest[r].old # Absent

WholeInv ==
  /\ DOMAIN live = Dirs /\ DOMAIN rest = Restorers /\ DOMAIN maker = Creators
  /\ \A d \in Dirs : CutIf(live[d], d) /\ Watched(d)
  /\ \A r \in Restorers : RestOK(rest[r])
  /\ \A c \in Creators : MakerOK(maker[c])
  /\ \A n \in DOMAIN archives : archives[n] # NoArchive => HelpersOfCut(archives[n])

Alike(t, u) == /\ t.pc = u.pc /\ t.archive = u.archive /\ t.old = u.old /\ t.dir = u.dir
               /\ RestFields \subseteq DOMAIN t

LEMMA CutGrows ==
  ASSUME cut \subseteq cut'
  PROVE  /\ \A m : HelpersOfCut(m) => HelpersOfCut(m)'
         /\ \A t : RestOK(t) => RestOK(t)'
         /\ \A v, d : CutIf(v, d) => CutIf(v, d)'
BY DEF HelpersOfCut, RestOK, CutIf

LEMMA AlikeIsOK ==
  ASSUME NEW t, NEW u, Alike(t, u), RestOK(u)
  PROVE  RestOK(t)
BY DEF Alike, RestOK

LEMMA NoRestoreIsOK == RestOK(NoRestore) /\ NoRestore.pc = "idle"
BY DEF RestOK, NoRestore, RestFields, Reading

LEMMA DisturbedIsAlike ==
  ASSUME WholeInv, NEW others
  PROVE  DOMAIN Disturbed(others) = Restorers
         /\ \A r \in Restorers : Alike(Disturbed(others)[r], rest[r])
<1>1. ASSUME NEW r \in Restorers PROVE Alike([rest[r] EXCEPT !.clean = FALSE], rest[r])
  BY DEF WholeInv, RestOK, Alike, RestFields
<1>2. \A r \in Restorers : Alike(rest[r], rest[r])
  BY DEF WholeInv, RestOK, Alike
<1> QED BY <1>1, <1>2 DEF Disturbed

\* A restore goes on that has no directory in its hands.
LEMMA RestMoves ==
  ASSUME WholeInv, NEW r \in Restorers, NEW t, DOMAIN rest' = Restorers, rest'[r] = t,
         \A q \in Restorers \ {r} : Alike(rest'[q], rest[q]),
         RestOK(t), rest[r].pc # "in", UNCHANGED <<live, cut, archives, maker>>
  PROVE  WholeInv'
<1>1. \A q \in Restorers : RestOK(rest'[q])
  BY AlikeIsOK DEF WholeInv
<1>2. \A q \in Restorers : RestOK(rest[q])'
  BY <1>1 DEF RestOK, HelpersOfCut, CutIf
<1>3. ASSUME NEW d \in Dirs PROVE Watched(d)'
  BY DEF WholeInv, Watched, Alike, AtDir
<1> QED BY <1>2, <1>3 DEF WholeInv, CutIf, HelpersOfCut

LEMMA StageMoves ==
  ASSUME WholeInv, NEW r \in Restorers, NEW pc, rest' = [rest EXCEPT ![r].pc = pc], pc # "in",
         rest[r].pc # "in", rest[r].archive # NoArchive, UNCHANGED <<live, cut, archives, maker>>
  PROVE  WholeInv'
<1> DEFINE t == [rest[r] EXCEPT !.pc = pc]
<1>1. RestFields \subseteq DOMAIN rest[r] /\ DOMAIN rest = Restorers
  BY DEF WholeInv, RestOK
<1>2. RestOK(t)
  BY <1>1 DEF WholeInv, RestOK, RestFields
<1>3. rest'[r] = t /\ DOMAIN rest' = Restorers /\ \A q \in Restorers \ {r} : rest'[q] = rest[q]
  BY <1>1
<1>4. \A q \in Restorers \ {r} : Alike(rest'[q], rest[q])
  BY <1>3 DEF Alike, WholeInv, RestOK
<1> HIDE DEF t
<1> QED BY <1>2, <1>3, <1>4, RestMoves

LEMMA RestEnds ==
  ASSUME WholeInv, NEW r \in Restorers, NEW t, rest' = [rest EXCEPT ![r] = t], RestOK(t),
         rest[r].pc # "in", UNCHANGED <<live, cut, archives, maker>>
  PROVE  WholeInv'
<1>1. DOMAIN rest' = Restorers /\ rest'[r] = t /\ \A q \in Restorers \ {r} : Alike(rest'[q], rest[q])
  BY DEF WholeInv, Alike, RestOK
<1> QED BY <1>1, RestMoves

LEMMA BeginKeeps ==
  ASSUME WholeInv, NEW r \in Restorers, NEW name \in DOMAIN archives, BeginRestore(r, name)
  PROVE  WholeInv'
<1> DEFINE alone == \A q \in Restorers \ {r} : rest[q].pc = "idle"
           t == [NoRestore EXCEPT !.pc = "read", !.archive = archives[name], !.clean = alone]
           f == Disturbed(Restorers \ {r})
<1>1. rest' = [f EXCEPT ![r] = t] /\ rest[r].pc = "idle" /\ UNCHANGED <<live, cut, archives, maker>>
  BY DEF BeginRestore
<1>2. DOMAIN f = Restorers /\ \A q \in Restorers : Alike(f[q], rest[q])
  BY DisturbedIsAlike
<1>3. RestFields \subseteq DOMAIN t /\ t.pc = "read" /\ t.archive = archives[name]
  <2> HIDE DEF alone
  <2> QED BY DEF NoRestore, RestFields
<1> HIDE DEF t, f
<1>4. RestOK(t)
  BY <1>3 DEF RestOK, WholeInv, Reading
<1>5. DOMAIN rest' = Restorers /\ rest'[r] = t /\ \A q \in Restorers \ {r} : Alike(rest'[q], rest[q])
  BY <1>1, <1>2
<1> QED BY <1>1, <1>4, <1>5, RestMoves

LEMMA EarlyStepsKeep ==
  ASSUME WholeInv, NEW r \in Restorers,
         \/ ReadArchive(r) \/ snapshotProtectedRuntimeSystemConfigs(r) \/ restoreBackupManifest(r)
         \/ restoreProtectedRuntimeSystemConfigs(r)
  PROVE  WholeInv'
<1>1. UNCHANGED <<live, cut, archives, maker>> /\ rest[r].pc # "in"
  BY DEF ReadArchive, snapshotProtectedRuntimeSystemConfigs, restoreBackupManifest,
         restoreProtectedRuntimeSystemConfigs
<1>2. ~ReadArchive(r) => rest[r].archive # NoArchive
  BY DEF WholeInv, RestOK, Reading, snapshotProtectedRuntimeSystemConfigs, restoreBackupManifest,
         restoreProtectedRuntimeSystemConfigs
<1>3. CASE FailRestore(r)
  BY <1>1, <1>3, NoRestoreIsOK, RestEnds DEF FailRestore
<1>4. CASE ReadArchive(r)
  BY <1>1, <1>3, <1>4, StageMoves DEF ReadArchive, NextStage
<1>5. CASE snapshotProtectedRuntimeSystemConfigs(r)
  <2> DEFINE t == [rest[r] EXCEPT !.pending = db.config.pending, !.pc = "data"]
  <2>1. rest' = [rest EXCEPT ![r] = t] /\ ~ReadArchive(r)
    BY <1>5 DEF snapshotProtectedRuntimeSystemConfigs, ReadArchive
  <2>2. RestOK(rest[r])
    BY DEF WholeInv
  <2>3. RestFields \subseteq DOMAIN t /\ t.pc = "data" /\ t.archive = rest[r].archive
    BY <2>2 DEF RestOK, RestFields
  <2> HIDE DEF t
  <2>4. RestOK(t)
    BY <1>2, <2>1, <2>2, <2>3 DEF RestOK
  <2> QED BY <1>1, <2>1, <2>4, RestEnds
<1>6. CASE restoreBackupManifest(r) /\ ~FailRestore(r)
  <2> DEFINE f == Disturbed(Restorers \ {r})
             t == [f[r] EXCEPT !.pc = "protect"]
  <2>1. rest' = [f EXCEPT ![r].pc = "protect"] /\ ~ReadArchive(r)
    BY <1>6 DEF restoreBackupManifest, ReadArchive
  <2>2. DOMAIN f = Restorers /\ (\A q \in Restorers : Alike(f[q], rest[q])) /\ RestOK(rest[r])
    BY DisturbedIsAlike DEF WholeInv
  <2>3. rest' = [f EXCEPT ![r] = t]
    BY <2>1
  <2> HIDE DEF f
  <2>4. RestFields \subseteq DOMAIN t /\ t.pc = "protect" /\ t.archive = rest[r].archive
    BY <2>2 DEF Alike, RestFields
  <2> HIDE DEF t
  <2>5. RestOK(t)
    BY <1>2, <2>1, <2>2, <2>4 DEF RestOK
  <2>6. DOMAIN rest' = Restorers /\ rest'[r] = t /\ \A q \in Restorers \ {r} : Alike(rest'[q], rest[q])
    BY <2>2, <2>3
  <2> QED BY <1>1, <2>5, <2>6, RestMoves
<1>7. CASE restoreProtectedRuntimeSystemConfigs(r)
  <2>1. rest' = [rest EXCEPT ![r].pc = "fill"] /\ ~ReadArchive(r)
    BY <1>7 DEF restoreProtectedRuntimeSystemConfigs, NextStage, ReadArchive
  <2> QED BY <1>1, <1>2, <2>1, StageMoves
<1> QED BY <1>3, <1>4, <1>5, <1>6, <1>7

\* After a directory comes the next one, or the mirrors.
LEMMA AfterDirIs ==
  ASSUME WholeInv, NEW r \in Restorers, NEW d \in Dirs, AfterDir(r, d), rest[r].archive # NoArchive
  PROVE  \E t : rest' = [rest EXCEPT ![r] = t] /\ RestOK(t) /\ t.pc # "in"
<1> DEFINE pc == IF d = "scripts" THEN "fill" ELSE "mirrors"
           t == [rest[r] EXCEPT !.pc = pc, !.dir = "logs"]
<1>1. rest' = [rest EXCEPT ![r] = t]
  BY DEF AfterDir
<1>2. RestFields \subseteq DOMAIN t /\ t.pc = pc /\ t.archive = rest[r].archive
  BY DEF WholeInv, RestOK, RestFields
<1> HIDE DEF t
<1>3. RestOK(t) /\ t.pc # "in"
  BY <1>2 DEF WholeInv, RestOK
<1> QED BY <1>1, <1>3

LEMMA FillKeeps ==
  ASSUME WholeInv, NEW r \in Restorers, NEW d \in Dirs, Fill(r, d)
  PROVE  WholeInv'
<1>1. UNCHANGED <<live, cut, archives, maker>> /\ rest[r].pc = "fill"
  BY DEF Fill, AtDir
<1>2. rest[r].archive # NoArchive
  BY <1>1 DEF WholeInv, RestOK, Reading
<1>3. CASE FailRestore(r)
  BY <1>1, <1>3, NoRestoreIsOK, RestEnds DEF FailRestore
<1>4. CASE NextStage(r, "out")
  BY <1>1, <1>2, <1>4, StageMoves DEF NextStage
<1>5. CASE AfterDir(r, d)
  BY <1>1, <1>2, <1>5, AfterDirIs, RestEnds
<1> QED BY <1>3, <1>4, <1>5 DEF Fill

\* Once the old directory is renamed away, the restore has it.
LEMMA SwapOutKeeps ==
  ASSUME WholeInv, NEW r \in Restorers, NEW d \in Dirs, SwapOut(r, d)
  PROVE  WholeInv'
<1>1. rest[r].pc = "out" /\ rest[r].dir = d /\ UNCHANGED <<cut, archives, maker>>
  BY DEF SwapOut, AtDir
<1>2. rest[r].archive # NoArchive
  BY <1>1 DEF WholeInv, RestOK, Reading
<1>3. CASE FailRestore(r) /\ UNCHANGED live
  BY <1>1, <1>3, NoRestoreIsOK, RestEnds DEF FailRestore
<1>4. CASE rest' = [rest EXCEPT ![r].pc = "in", ![r].old = live[d]] /\ live' = [live EXCEPT ![d] = Absent]
  <2> DEFINE t == [rest[r] EXCEPT !.pc = "in", !.old = live[d]]
  <2>1. RestFields \subseteq DOMAIN t /\ t.pc = "in" /\ t.old = live[d] /\ t.dir = d
        /\ t.archive = rest[r].archive
    BY <1>1 DEF WholeInv, RestOK, RestFields
  <2>2. rest' = [rest EXCEPT ![r] = t]
    BY <1>4
  <2> HIDE DEF t
  <2>3. RestOK(t)
    BY <1>2, <2>1 DEF WholeInv, RestOK
  <2>4. DOMAIN rest' = Restorers /\ rest'[r] = t /\ \A q \in Restorers \ {r} : rest'[q] = rest[q]
    BY <2>2 DEF WholeInv
  <2>5. DOMAIN live' = Dirs /\ live'[d] = Absent /\ \A e \in Dirs \ {d} : live'[e] = live[e]
    BY <1>4 DEF WholeInv
  <2>6. \A q \in Restorers : RestOK(rest[q])'
    <3>1. \A q \in Restorers : RestOK(rest'[q])
      BY <2>3, <2>4 DEF WholeInv
    <3> QED BY <1>1, <3>1 DEF RestOK, HelpersOfCut, CutIf
  <2>7. Watched(d)'
    <3>1. CASE live[d] = Absent
      <4>1. d \in cut \/ \E q \in Restorers \ {r} : AtDir(q, "in", d) /\ rest[q].old # Absent
        BY <1>1, <3>1 DEF WholeInv, Watched, AtDir
      <4> QED BY <1>1, <2>4, <4>1 DEF Watched, AtDir
    <3>2. CASE live[d] # Absent
      BY <2>1, <2>4, <3>2 DEF Watched, AtDir
    <3> QED BY <3>1, <3>2
  <2>8. ASSUME NEW e \in Dirs \ {d} PROVE Watched(e)'
    <3>1. Watched(e)
      BY DEF WholeInv
    <3> QED BY <1>1, <2>4, <2>5, <3>1 DEF Watched, AtDir
  <2>9. \A e \in Dirs : CutIf(live'[e], e)
    BY <2>5 DEF WholeInv, CutIf, Absent
  <2> QED BY <1>1, <2>4, <2>5, <2>6, <2>7, <2>8, <2>9 DEF WholeInv, CutIf, HelpersOfCut
<1> QED BY <1>3, <1>4 DEF SwapOut

\* The switch ends with something in the directory's place.
LEMMA SwapInKeeps ==
  ASSUME WholeInv, NEW r \in Restorers, NEW d \in Dirs, SwapIn(r, d)
  PROVE  WholeInv'
<1>1. rest[r].pc = "in" /\ rest[r].dir = d /\ UNCHANGED <<cut, archives, maker>>
  BY DEF SwapIn, AtDir
<1>2. rest[r].archive # NoArchive /\ HelpersOfCut(rest[r].archive) /\ CutIf(rest[r].old, d)
  BY <1>1 DEF WholeInv, RestOK, Reading
<1>3. PICK t : rest' = [rest EXCEPT ![r] = t] /\ RestOK(t) /\ t.pc # "in"
  BY <1>2, AfterDirIs, NoRestoreIsOK DEF SwapIn, FailRestore
<1>4. DOMAIN rest' = Restorers /\ rest'[r] = t /\ \A q \in Restorers \ {r} : rest'[q] = rest[q]
  BY <1>3 DEF WholeInv
<1>5. \A q \in Restorers : RestOK(rest[q])'
  <2>1. \A q \in Restorers : RestOK(rest'[q])
    BY <1>3, <1>4 DEF WholeInv
  <2> QED BY <1>1, <2>1 DEF RestOK, HelpersOfCut, CutIf
<1> DEFINE new == Filled(rest[r].archive, d)
<1>6. \/ live' = live /\ live[d] # Absent
      \/ live[d] = Absent /\ \E v \in {new, rest[r].old} : live' = [live EXCEPT ![d] = v]
  BY DEF SwapIn
<1>7. new # Absent /\ CutIf(new, d)
  BY <1>2 DEF Filled, HelpersOfCut, CutIf, Absent
<1> HIDE DEF new
<1>8. DOMAIN live' = Dirs /\ (\A e \in Dirs \ {d} : live'[e] = live[e]) /\ CutIf(live'[d], d)
      /\ (live'[d] = Absent => live[d] = Absent /\ rest[r].old = Absent)
  BY <1>2, <1>6, <1>7 DEF WholeInv
<1>9. Watched(d)'
  <2> SUFFICES ASSUME live'[d] = Absent PROVE Watched(d)'
    BY DEF Watched
  <2>1. d \in cut \/ \E q \in Restorers \ {r} : AtDir(q, "in", d) /\ rest[q].old # Absent
    BY <1>8 DEF WholeInv, Watched
  <2> QED BY <1>1, <1>4, <2>1 DEF Watched, AtDir
<1>10. ASSUME NEW e \in Dirs \ {d} PROVE Watched(e)'
  <2>1. Watched(e)
    BY DEF WholeInv
  <2> QED BY <1>1, <1>4, <1>8, <2>1 DEF Watched, AtDir
<1> QED BY <1>1, <1>4, <1>5, <1>8, <1>9, <1>10 DEF WholeInv, CutIf, HelpersOfCut

LEMMA LateStepsKeep ==
  ASSUME WholeInv, NEW r \in Restorers,
         ApplyDependencyMirrorSettings(r) \/ ReloadTasks(r) \/ ReloadSubs(r) \/ ReloadBackup(r)
         \/ CompleteRestore(r)
  PROVE  WholeInv'
<1>1. UNCHANGED <<live, cut, archives, maker>> /\ rest[r].pc \notin Reading /\ rest[r].pc # "in"
  BY DEF ApplyDependencyMirrorSettings, ReloadTasks, ReloadSubs, ReloadBackup, Reload,
         CompleteRestore, Reading
<1>2. rest[r].archive # NoArchive
  BY <1>1 DEF WholeInv, RestOK
<1>3. CASE FailRestore(r)
  BY <1>1, <1>3, NoRestoreIsOK, RestEnds DEF FailRestore
<1>4. CASE \E pc \in {"tasks", "subs", "backup", "complete"} : NextStage(r, pc)
  BY <1>1, <1>2, <1>4, StageMoves DEF NextStage
<1>5. CASE CompleteRestore(r)
  <2> DEFINE t == IF r \in Cli THEN [NoRestore EXCEPT !.pc = "signal"] ELSE NoRestore
  <2>1. rest' = [rest EXCEPT ![r] = t]
    BY <1>5 DEF CompleteRestore
  <2>2. RestOK(t)
    BY NoRestoreIsOK DEF NoRestore, RestOK, RestFields, Reading
  <2> HIDE DEF t
  <2> QED BY <1>1, <2>1, <2>2, RestEnds
<1> QED BY <1>3, <1>4, <1>5
        DEF ApplyDependencyMirrorSettings, ReloadTasks, ReloadSubs, ReloadBackup, Reload

\* The server's restores end with it; what they had in their hands is cut short.
LEMMA ServerGoneKeeps ==
  ASSUME WholeInv, ServerGone, DOMAIN rest' = Restorers,
         \A r \in Restorers : \/ Alike(rest'[r], rest[r])
                              \/ rest'[r] = NoRestore /\ (r \notin Cli \/ rest[r].pc # "in")
  PROVE  WholeInv'
<1>1. /\ cut' = cut \cup {d \in Dirs : \E r \in Restorers \ Cli : AtDir(r, "in", d)}
      /\ live' = live /\ archives' = archives /\ maker' = [c \in Creators |-> NoMaker]
  BY DEF ServerGone
<1>2. cut \subseteq cut'
  BY <1>1
<1>3. ASSUME NEW r \in Restorers PROVE RestOK(rest[r])'
  <2>1. PICK t : t = rest'[r]
    OBVIOUS
  <2>2. RestOK(t)
    BY <2>1, AlikeIsOK, NoRestoreIsOK DEF WholeInv
  <2>3. RestOK(t)'
    BY <1>2, <2>2, CutGrows
  <2> QED BY <2>1, <2>3 DEF RestOK, HelpersOfCut, CutIf
<1>4. ASSUME NEW d \in Dirs PROVE Watched(d)'
  <2> SUFFICES ASSUME live[d] = Absent, d \notin cut' PROVE \E r \in Restorers : (AtDir(r, "in", d) /\ rest[r].old # Absent)'
    BY <1>1 DEF Watched
  <2>1. PICK r \in Restorers : AtDir(r, "in", d) /\ rest[r].old # Absent
    BY <1>2 DEF WholeInv, Watched
  <2>2. r \in Cli
    BY <1>1, <2>1
  <2>3. Alike(rest'[r], rest[r])
    BY <2>1, <2>2 DEF AtDir
  <2> QED BY <2>1, <2>3 DEF Alike, AtDir
<1>5. \A d \in Dirs : CutIf(live[d], d)'
  BY <1>1, <1>2 DEF WholeInv, CutIf
<1>6. \A c \in Creators : MakerOK(maker[c])'
  BY <1>1 DEF MakerOK, NoMaker
<1>7. \A n \in DOMAIN archives' : archives'[n] # NoArchive => HelpersOfCut(archives[n])'
  BY <1>1, <1>2 DEF WholeInv, HelpersOfCut, CutIf
<1> QED BY <1>1, <1>3, <1>4, <1>5, <1>6, <1>7 DEF WholeInv

LEMMA CrashKeeps ==
  ASSUME WholeInv, CrashServer
  PROVE  WholeInv'
<1>1. ServerGone /\ rest' = [r \in Restorers |-> IF r \in Cli THEN [rest[r] EXCEPT !.clean = FALSE] ELSE NoRestore]
  BY DEF CrashServer
<1>2. \A r \in Restorers : Alike([rest[r] EXCEPT !.clean = FALSE], rest[r])
  BY DEF WholeInv, RestOK, Alike, RestFields
<1>3. DOMAIN rest' = Restorers
      /\ \A r \in Restorers : Alike(rest'[r], rest[r]) \/ (rest'[r] = NoRestore /\ r \notin Cli)
  BY <1>1, <1>2
<1> QED BY <1>1, <1>3, ServerGoneKeeps

LEMMA SignalKeeps ==
  ASSUME WholeInv, NEW r \in Restorers, SignalServer(r)
  PROVE  WholeInv'
<1>1. rest[r].pc = "signal"
  BY DEF SignalServer
<1>2. CASE serverUp
  <2>1. ServerGone /\ rest' = [q \in Restorers |-> IF q = r \/ q \notin Cli THEN NoRestore ELSE rest[q]]
    BY <1>2 DEF SignalServer
  <2>2. \A q \in Restorers : Alike(rest[q], rest[q])
    BY DEF WholeInv, RestOK, Alike
  <2>3. DOMAIN rest' = Restorers /\ \A q \in Restorers :
          Alike(rest'[q], rest[q]) \/ (rest'[q] = NoRestore /\ (q \notin Cli \/ rest[q].pc # "in"))
    BY <1>1, <2>1, <2>2
  <2> QED BY <2>1, <2>3, ServerGoneKeeps
<1>3. CASE ~serverUp
  <2>1. rest' = [rest EXCEPT ![r] = NoRestore] /\ UNCHANGED <<live, cut, archives, maker>>
    BY <1>3 DEF SignalServer
  <2> QED BY <1>1, <2>1, NoRestoreIsOK, RestEnds
<1> QED BY <1>2, <1>3

\* A start fills what misses, and says so.
LEMMA BootstrapKeeps ==
  ASSUME WholeInv, Bootstrap, UNCHANGED <<archives, maker, rest>>
  PROVE  WholeInv'
<1>1. /\ live' = [d \in Dirs |-> IF live[d] = Absent THEN "helpers" ELSE live[d]]
      /\ cut' = cut \cup {d \in Dirs : live[d] = Absent}
  BY DEF Bootstrap
<1>2. cut \subseteq cut'
  BY <1>1
<1>3. \A d \in Dirs : CutIf(live[d], d)' /\ Watched(d)'
  BY <1>1 DEF WholeInv, CutIf, Watched, Absent
<1>4. \A r \in Restorers : RestOK(rest[r])'
  BY <1>2 DEF WholeInv, RestOK, HelpersOfCut, CutIf
<1>5. \A n \in DOMAIN archives' : archives'[n] # NoArchive => HelpersOfCut(archives[n])'
  BY <1>2 DEF WholeInv, HelpersOfCut, CutIf
<1> QED BY <1>1, <1>3, <1>4, <1>5 DEF WholeInv

\* Backups change neither directory nor restore.
LEMMA BackupMoves ==
  ASSUME WholeInv, UNCHANGED <<live, cut, rest>>, DOMAIN maker' = Creators,
         \A c \in Creators : MakerOK(maker'[c]),
         \A n \in DOMAIN archives' : archives'[n] # NoArchive => HelpersOfCut(archives'[n])
  PROVE  WholeInv'
<1>1. \A r \in Restorers : RestOK(rest[r])'
  BY DEF WholeInv, RestOK, HelpersOfCut, CutIf
<1>2. \A d \in Dirs : CutIf(live[d], d)' /\ Watched(d)'
  BY DEF WholeInv, CutIf, Watched, AtDir
<1> QED BY <1>1, <1>2 DEF WholeInv, MakerOK, HelpersOfCut, CutIf

LEMMA MakerMoves ==
  ASSUME WholeInv, NEW c \in Creators, NEW m, maker' = [maker EXCEPT ![c] = m], MakerOK(m),
         UNCHANGED <<live, cut, rest, archives>>
  PROVE  WholeInv'
<1>1. DOMAIN maker' = Creators /\ \A e \in Creators : MakerOK(maker'[e])
  BY DEF WholeInv
<1>2. \A n \in DOMAIN archives' : archives'[n] # NoArchive => HelpersOfCut(archives'[n])
  BY DEF WholeInv
<1> QED BY <1>1, <1>2, BackupMoves

LEMMA BackupStepKeeps ==
  ASSUME WholeInv, NEW c \in Creators, BackupStep(c)
  PROVE  WholeInv'
<1>0. MakerOK(maker[c])
  BY DEF WholeInv
<1>1. CASE \E sel \in Selections : BeginBackup(c, sel)
  <2> PICK sel \in Selections : BeginBackup(c, sel)
    BY <1>1
  <2> DEFINE m == [pc |-> "configs", archive |->
                    [source |-> "daidai-panel", encrypted |-> FALSE, mirrors |-> "configs" \in sel,
                     sel |-> sel, scripts |-> Absent, logfiles |-> Absent,
                     channels |-> {}, apps |-> {}, config |-> [schedule |-> FALSE, pending |-> FALSE],
                     tasks |-> {}, envs |-> {}, keys |-> {}, subs |-> {}, deps |-> {}, logs |-> {}]]
  <2>1. maker' = [maker EXCEPT ![c] = m] /\ UNCHANGED <<live, cut, rest, archives>>
    BY DEF BeginBackup
  <2>2. MakerOK(m)
    BY DEF MakerOK
  <2> HIDE DEF m
  <2> QED BY <2>1, <2>2, MakerMoves
<1>2. CASE snapshotConfigBundle(c)
  <2>1. {"sel", "scripts", "logfiles"} \subseteq DOMAIN maker[c].archive /\ DOMAIN maker = Creators
    BY <1>0, <1>2 DEF snapshotConfigBundle, MakerOK, WholeInv
  <2> DEFINE a == IF "configs" \notin maker[c].archive.sel THEN maker[c].archive
                  ELSE [maker[c].archive EXCEPT !.channels = db.channels, !.apps = db.apps,
                                                !.config = db.config]
             m == [maker[c] EXCEPT !.pc = "tables", !.archive = a]
  <2>2. maker' = [maker EXCEPT ![c] = m]
    BY <1>0, <1>2, <2>1 DEF snapshotConfigBundle, MakerOK
  <2>3. DOMAIN a = DOMAIN maker[c].archive
    OBVIOUS
  <2> HIDE DEF a
  <2>4. MakerOK(m)
    BY <1>0, <2>1, <2>3 DEF MakerOK
  <2> HIDE DEF m
  <2> QED BY <1>2, <2>2, <2>4, MakerMoves DEF snapshotConfigBundle
<1>3. CASE buildBackupManifest(c)
  <2>1. {"sel", "scripts", "logfiles"} \subseteq DOMAIN maker[c].archive /\ DOMAIN maker = Creators
    BY <1>0, <1>3 DEF buildBackupManifest, MakerOK, WholeInv
  <2> DEFINE If(k, rows) == IF k \in maker[c].archive.sel THEN rows ELSE {}
             a == [maker[c].archive EXCEPT
                     !.tasks = If("tasks", db.tasks), !.envs = If("env_vars", db.envs),
                     !.keys = If("subscriptions", db.keys), !.subs = If("subscriptions", db.subs),
                     !.deps = If("dependencies", db.deps), !.logs = If("logs", db.logs)]
             m == [pc |-> "files", archive |-> a]
  <2>2. maker' = [maker EXCEPT ![c] = m]
    BY <1>3, <2>1 DEF buildBackupManifest
  <2>3. DOMAIN a = DOMAIN maker[c].archive
    OBVIOUS
  <2> HIDE DEF a
  <2>4. MakerOK(m)
    BY <2>1, <2>3 DEF MakerOK
  <2> HIDE DEF m
  <2> QED BY <1>3, <2>2, <2>4, MakerMoves DEF buildBackupManifest
<1>4. CASE createBackupArchive(c)
  <2> DEFINE s == maker[c].archive.sel
             Of(d) == IF d \in s THEN live[d] ELSE Absent
             new == [maker[c].archive EXCEPT !.scripts = Of("scripts"), !.logfiles = Of("logs")]
  <2>1. /\ maker' = [maker EXCEPT ![c] = NoMaker] /\ UNCHANGED <<live, cut, rest>>
        /\ archives' = archives \/ archives' = [archives EXCEPT ![c] = new]
    BY <1>4 DEF createBackupArchive
  <2>2. {"sel", "scripts", "logfiles"} \subseteq DOMAIN maker[c].archive
    BY <1>0, <1>4 DEF createBackupArchive, MakerOK
  <2>3. new.scripts = Of("scripts") /\ new.logfiles = Of("logs")
    BY <2>2
  <2>4. \A d \in Dirs : CutIf(Of(d), d)
    BY DEF WholeInv, CutIf, Absent
  <2> HIDE DEF s, Of, new
  <2>5. HelpersOfCut(new)
    BY <2>3, <2>4 DEF HelpersOfCut, Content, Dirs
  <2>6. \A n \in DOMAIN archives' : archives'[n] # NoArchive => HelpersOfCut(archives'[n])
    BY <2>1, <2>5 DEF WholeInv
  <2>7. MakerOK(NoMaker)
    BY DEF MakerOK, NoMaker
  <2>8. DOMAIN maker' = Creators /\ \A e \in Creators : MakerOK(maker'[e])
    BY <2>1, <2>7 DEF WholeInv
  <2> QED BY <2>1, <2>6, <2>8, BackupMoves
<1> QED BY <1>1, <1>2, <1>3, <1>4 DEF BackupStep

LEMMA EditKeeps ==
  ASSUME WholeInv, NEW newDb, NEW newJobs, EditRows(newDb, newJobs)
  PROVE  WholeInv'
<1>1. rest' = Disturbed(Restorers) /\ UNCHANGED <<live, cut, archives, maker>>
  BY DEF EditRows
<1>2. DOMAIN rest' = Restorers /\ \A q \in Restorers : Alike(rest'[q], rest[q])
  BY <1>1, DisturbedIsAlike
<1>3. \A q \in Restorers : RestOK(rest'[q])
  BY <1>2, AlikeIsOK DEF WholeInv
<1>4. \A q \in Restorers : RestOK(rest[q])'
  BY <1>1, <1>3 DEF RestOK, HelpersOfCut, CutIf
<1>5. ASSUME NEW d \in Dirs PROVE Watched(d)'
  BY <1>1, <1>2 DEF WholeInv, Watched, Alike, AtDir
<1> QED BY <1>1, <1>2, <1>4, <1>5 DEF WholeInv, CutIf, HelpersOfCut

LEMMA DeleteKeeps ==
  ASSUME WholeInv, NEW name \in DOMAIN archives, DeleteBackup(name)
  PROVE  WholeInv'
<1>1. archives' = [archives EXCEPT ![name] = NoArchive] /\ UNCHANGED <<live, cut, rest, maker>>
  BY DEF DeleteBackup
<1>2. \A n \in DOMAIN archives' : archives'[n] # NoArchive => HelpersOfCut(archives'[n])
  BY <1>1 DEF WholeInv
<1>3. DOMAIN maker' = Creators /\ \A c \in Creators : MakerOK(maker'[c])
  BY <1>1 DEF WholeInv
<1> QED BY <1>1, <1>2, <1>3, BackupMoves

LEMMA WholeStep ==
  ASSUME WholeInv, [BackupNext]_backupVars
  PROVE  WholeInv'
<1>1. CASE UNCHANGED backupVars
  <2>1. UNCHANGED <<live, cut, rest, maker, archives>>
    BY <1>1 DEF backupVars
  <2> QED BY <2>1, BackupMoves DEF WholeInv
<1>2. CASE \E r \in Restorers : \E n \in DOMAIN archives : BeginRestore(r, n)
  BY <1>2, BeginKeeps
<1>3. CASE \E r \in Restorers : RestoreStep(r)
  BY <1>3, EarlyStepsKeep, LateStepsKeep, FillKeeps, SwapOutKeeps, SwapInKeeps, SignalKeeps DEF RestoreStep
<1>4. CASE \E c \in Creators : BackupStep(c)
  BY <1>4, BackupStepKeeps
<1>5. CASE \E n \in DOMAIN archives : DeleteBackup(n)
  BY <1>5, DeleteKeeps
<1>6. CASE DisableTask \/ RunTask \/ DisableEnv \/ DisableSub \/ SetBackupSchedule
           \/ DeleteBackupSchedule \/ BeginUpdate
  <2>1. \E newDb, newJobs : EditRows(newDb, newJobs)
    BY <1>6 DEF DisableTask, RunTask, DisableEnv, DisableSub, SetBackupSchedule, DeleteBackupSchedule,
                BeginUpdate
  <2> QED BY <2>1, EditKeeps
<1>7. CASE CrashServer
  BY <1>7, CrashKeeps
<1>8. CASE StartServer \/ CliCommand
  BY <1>8, BootstrapKeeps DEF StartServer, CliCommand
<1> QED BY <1>1, <1>2, <1>3, <1>4, <1>5, <1>6, <1>7, <1>8 DEF BackupNext

LEMMA WholeInit == BackupInit => WholeInv
<1> SUFFICES ASSUME BackupInit PROVE WholeInv
  OBVIOUS
<1>1. /\ live = [d \in Dirs |-> "initial"] /\ rest = [r \in Restorers |-> NoRestore]
      /\ maker = [c \in Creators |-> NoMaker]
      /\ archives = [n \in Creators \cup DOMAIN Uploads |-> IF n \in DOMAIN Uploads THEN Uploads[n] ELSE NoArchive]
  BY DEF BackupInit
<1>2. \A d \in Dirs : CutIf(live[d], d) /\ Watched(d)
  BY <1>1 DEF CutIf, Watched, Absent
<1>3. \A n \in DOMAIN Uploads : HelpersOfCut(Uploads[n])
  BY BackupAssumption DEF HelpersOfCut, Content, CutIf
<1>4. MakerOK(NoMaker)
  BY DEF MakerOK, NoMaker
<1> QED BY <1>1, <1>2, <1>3, <1>4, NoRestoreIsOK DEF WholeInv

\* Whatever restores of server and command line, backups, edits and crashes
\* interleave: a directory misses, or has the helpers alone, only while a restore
\* is between its two renames, or after a crash or a ddp command came there.
THEOREM DirectoriesStayWhole == BackupSpec => []LiveDirectoryWhole
<1>1. BackupSpec => []WholeInv
  BY WholeInit, WholeStep, PTL DEF BackupSpec
<1>2. WholeInv => LiveDirectoryWhole
  BY DEF WholeInv, Watched, CutIf, LiveDirectoryWhole
<1> QED BY <1>1, <1>2, PTL

-----------------------------------------------------------------------------
(***************************************************************************)
(* A restore that nobody disturbs delivers its archive, for every number   *)
(* of rows, archives, restores, backups and crashes, and any references    *)
(* between rows, those that lead nowhere among them.                       *)
(*                                                                         *)
(* The new ids keep rows apart and are none of them the id of no row, so   *)
(* what a row referred to it refers to under the new id, and a reference   *)
(* to nothing stays one.  After that it is a matter of who writes what     *)
(* until the restore is complete: a restore that is still clean is alone.  *)
(***************************************************************************)

\* New ids keep rows apart.
LEMMA IdMapIs ==
  ASSUME NEW rows, NEW columns, Table(rows, columns), NEW next \in Nat \ {0}
  PROVE  LET f == IdMap(rows, next)
         IN  /\ f \in [Ids(rows) -> Nat \ {0}]
             /\ \A o, p \in Ids(rows) : f[o] = f[p] => o = p
             /\ \E n \in Nat : \A o \in Ids(rows) : f[o] \in 1..n
<1> DEFINE S == Ids(rows)
           f == IdMap(rows, next)
           Below(o) == {p \in S : p < o}
<1>1. IsFiniteSet(S) /\ S \in SUBSET Nat
  BY DEF Table, Ids
<1>2. f = [o \in S |-> next + Cardinality(Below(o))]
  BY DEF IdMap
<1> HIDE DEF S, f
<1>3. \A o \in S : IsFiniteSet(Below(o)) /\ Cardinality(Below(o)) \in Nat
  BY <1>1, FS_Subset, FS_CardinalityType
<1>4. ASSUME NEW o \in S, NEW p \in S, o < p PROVE Cardinality(Below(o)) < Cardinality(Below(p))
  <2>0. \A x \in S : x \in Nat
    BY <1>1
  <2>1. Below(o) \in SUBSET Below(p) /\ o \in Below(p) /\ o \notin Below(o)
    <3>1. o \in Nat /\ p \in Nat
      BY <2>0
    <3>2. ASSUME NEW x \in S, x < o PROVE x < p
      BY <1>4, <2>0, <3>1, <3>2
    <3>3. /\ \A x \in Below(o) : x \in S /\ x < o
          /\ \A x \in S : x < p => x \in Below(p)
      OBVIOUS
    <3>4. o \in Below(p) /\ o \notin Below(o)
      BY <1>4, <3>1
    <3> HIDE DEF Below
    <3> QED BY <3>2, <3>3, <3>4
  <2>2. Cardinality(Below(o)) <= Cardinality(Below(p)) /\ Cardinality(Below(o)) # Cardinality(Below(p))
    <3> HIDE DEF Below
    <3> QED BY <1>3, <2>1, FS_Subset
  <2> QED BY <1>3, <2>2
<1> HIDE DEF Below
<1>5. f \in [S -> Nat \ {0}]
  BY <1>2, <1>3
<1>6. ASSUME NEW o \in S, NEW p \in S, f[o] = f[p] PROVE o = p
  <2>1. Cardinality(Below(o)) = Cardinality(Below(p))
    BY <1>2, <1>3, <1>6
  <2> QED BY <1>1, <1>3, <1>4, <2>1
<1>7. \E n \in Nat : \A o \in S : f[o] \in 1..n
  <2>1. Cardinality(S) \in Nat /\ \A o \in S : Cardinality(Below(o)) <= Cardinality(S)
    BY <1>1, FS_Subset, FS_CardinalityType DEF Below
  <2>2. next + Cardinality(S) \in Nat
    BY <2>1
  <2>3. \A o \in S : f[o] \in 1..(next + Cardinality(S))
    BY <1>2, <1>3, <2>1
  <2> QED BY <2>2, <2>3
<1> QED BY <1>5, <1>6, <1>7 DEF S, f

\* The rows of new are those of rows under their new ids.
Renames(new, rows, f) ==
  /\ \A u \in new : \E t \in rows : u.id = f[t.id] /\ u.name = t.name
  /\ \A t \in rows : \E u \in new : u.id = f[t.id] /\ u.name = t.name

LEMMA RenamesKeeps ==
  ASSUME NEW rows, NEW columns, Table(rows, columns), NEW next \in Nat \ {0},
         NEW new, Renames(new, rows, IdMap(rows, next))
  PROVE  /\ IsFiniteSet(Ids(new)) /\ Ids(new) \subseteq Nat \ {0}
         /\ \A o : NamesOf(new, Mapped(IdMap(rows, next), o)) = NamesOf(rows, o)
         /\ RowNames(new) = RowNames(rows)
<1> DEFINE f == IdMap(rows, next)
<1>1. /\ f \in [Ids(rows) -> Nat \ {0}]
      /\ \A o, p \in Ids(rows) : f[o] = f[p] => o = p
      /\ \E n \in Nat : \A o \in Ids(rows) : f[o] \in 1..n
  BY IdMapIs
<1> HIDE DEF f
<1>0. \A i : (i \in Ids(new) <=> \E u \in new : u.id = i) /\ (i \in Ids(rows) <=> \E t \in rows : t.id = i)
  BY DEF Ids
<1>2. /\ \A u \in new : \E t \in rows : u.id = f[t.id] /\ u.name = t.name
      /\ \A t \in rows : \E u \in new : u.id = f[t.id] /\ u.name = t.name
      /\ \A t \in rows : t.id \in Ids(rows)
  BY <1>0 DEF f, Renames
<1>3. Ids(new) \subseteq Nat \ {0}
  <2> SUFFICES ASSUME NEW i \in Ids(new) PROVE i \in Nat \ {0}
    OBVIOUS
  <2>1. PICK u \in new : u.id = i
    BY <1>0
  <2>2. PICK t \in rows : u.id = f[t.id]
    BY <1>2
  <2> QED BY <1>1, <1>2, <2>1, <2>2
<1>4. IsFiniteSet(Ids(new))
  <2>1. PICK n \in Nat : \A o \in Ids(rows) : f[o] \in 1..n
    BY <1>1
  <2>2. Ids(new) \in SUBSET (1..n)
    <3> SUFFICES ASSUME NEW i \in Ids(new) PROVE i \in 1..n
      OBVIOUS
    <3>1. PICK u \in new : u.id = i
      BY <1>0
    <3> QED BY <1>2, <2>1, <3>1
  <2>3. IsFiniteSet(1..n)
    BY FS_Interval
  <2> QED BY <2>2, <2>3, FS_Subset
<1>5. ASSUME NEW o PROVE NamesOf(new, Mapped(f, o)) = NamesOf(rows, o)
  <2>1. CASE o \in Ids(rows)
    <3>1. Mapped(f, o) = f[o]
      BY <1>1, <2>1 DEF Mapped
    <3>2. ASSUME NEW u \in new, u.id = f[o] PROVE \E t \in rows : t.id = o /\ t.name = u.name
      <4>1. PICK t \in rows : u.id = f[t.id] /\ u.name = t.name
        BY <1>2
      <4> QED BY <1>1, <1>2, <2>1, <3>2, <4>1
    <3>3. ASSUME NEW t \in rows, t.id = o PROVE \E u \in new : u.id = f[o] /\ u.name = t.name
      BY <1>2, <3>3
    <3> QED BY <3>1, <3>2, <3>3 DEF NamesOf
  <2>2. CASE o \notin Ids(rows)
    <3>1. Mapped(f, o) = 0
      BY <1>1, <2>2 DEF Mapped, NoRow
    <3>2. \A u \in new : u.id # 0
      BY <1>0, <1>3
    <3>3. \A t \in rows : t.id # o
      BY <1>2, <2>2
    <3> QED BY <3>1, <3>2, <3>3 DEF NamesOf
  <2> QED BY <2>1, <2>2
<1>6. RowNames(new) = RowNames(rows)
  BY <1>2 DEF RowNames
<1> QED BY <1>3, <1>4, <1>5, <1>6 DEF f

\* A set of numbers that is finite has a least one.
LEMMA LeastIs ==
  ASSUME NEW S, IsFiniteSet(S), S \subseteq Nat, S # {}
  PROVE  \E i \in S : \A j \in S : i <= j
<1> DEFINE R == {p \in S \X S : p[1] < p[2]}
           n == Cardinality(S)
<1>0. \A i \in S : i \in Nat
  OBVIOUS
<1>2. \A i, j \in S : <<i, j>> \in R <=> i < j
  OBVIOUS
<1>1. Orders(R, S)
  BY <1>0, <1>2 DEF Orders
<1> HIDE DEF R
<1>3. PICK s \in [1..n -> S] : Ascends(s, R)
  BY <1>1, Ranking
<1>4. n \in Nat
  BY FS_CardinalityType
<1> HIDE DEF n
<1>5. \A i \in S : \E k \in 1..n : s[k] = i
  BY <1>1, <1>3, AscendingIsOnto DEF n
<1>6. 1 \in 1..n
  <2>1. PICK i \in S : TRUE
    OBVIOUS
  <2>2. PICK k \in 1..n : s[k] = i
    BY <1>5
  <2> QED BY <1>4, <2>2
<1>7. \A k \in 1..n : s[1] <= s[k]
  <2> SUFFICES ASSUME NEW k \in 1..n PROVE s[1] <= s[k]
    OBVIOUS
  <2>0. s[1] \in S /\ s[k] \in S /\ s[1] \in Nat /\ s[k] \in Nat
    BY <1>0, <1>6
  <2>1. CASE k = 1
    BY <2>0, <2>1
  <2>2. CASE k # 1
    <3>1. 1 < k
      BY <1>4, <2>2
    <3>2. <<s[1], s[k]>> \in R
      BY <1>3, <1>6, <3>1 DEF Ascends
    <3> QED BY <1>2, <2>0, <3>2
  <2> QED BY <2>1, <2>2
<1> QED BY <1>5, <1>6, <1>7

\* What each table becomes.
LEMMA TasksRestored ==
  ASSUME NEW rows, Table(rows, {"id", "name", "status", "needs", "channel"}), NEW f, NEW g
  PROVE  LET new == restoreTasks(rows, f, g)
             From(u, t) == /\ {"id", "name", "status", "needs", "channel"} \subseteq DOMAIN u
                           /\ u.id = f[t.id] /\ u.name = t.name
                           /\ (u.status = "disabled" <=> t.status = "disabled")
                           /\ u.needs = Mapped(f, t.needs) /\ u.channel = Mapped(g, t.channel)
         IN  /\ \A u \in new : \E t \in rows : From(u, t)
             /\ \A t \in rows : \E u \in new : From(u, t)
<1> DEFINE New(t) == [t EXCEPT !.id = f[t.id], !.status = normalizeRestoredTaskStatus(t.status),
                               !.needs = Mapped(f, t.needs), !.channel = Mapped(g, t.channel)]
           From(u, t) == /\ {"id", "name", "status", "needs", "channel"} \subseteq DOMAIN u
                         /\ u.id = f[t.id] /\ u.name = t.name
                         /\ (u.status = "disabled" <=> t.status = "disabled")
                         /\ u.needs = Mapped(f, t.needs) /\ u.channel = Mapped(g, t.channel)
<1>1. ASSUME NEW t \in rows PROVE From(New(t), t)
  <2>1. {"id", "name", "status", "needs", "channel"} \subseteq DOMAIN t
    BY DEF Table
  <2> QED BY <2>1 DEF normalizeRestoredTaskStatus
<1>2. restoreTasks(rows, f, g) = {New(t) : t \in rows}
  BY DEF restoreTasks
<1> HIDE DEF New, From
<1>3. /\ \A u \in restoreTasks(rows, f, g) : \E t \in rows : From(u, t)
      /\ \A t \in rows : \E u \in restoreTasks(rows, f, g) : From(u, t)
  BY <1>1, <1>2
<1> QED BY <1>3 DEF From

LEMMA SubsRestored ==
  ASSUME NEW rows, Table(rows, {"id", "name", "on", "schedule", "key"}), NEW f, NEW g
  PROVE  LET new == restoreSubscriptions(rows, f, g)
             From(u, t) == /\ {"id", "name", "on", "schedule", "key"} \subseteq DOMAIN u
                           /\ u.id = f[t.id] /\ u.name = t.name /\ u.key = Mapped(g, t.key)
                           /\ u.on /\ u.schedule = t.schedule
         IN  /\ \A u \in new : \E t \in rows : From(u, t)
             /\ \A t \in rows : \E u \in new : From(u, t)
<1> DEFINE New(t) == [t EXCEPT !.id = f[t.id], !.on = TRUE, !.key = Mapped(g, t.key)]
           From(u, t) == /\ {"id", "name", "on", "schedule", "key"} \subseteq DOMAIN u
                         /\ u.id = f[t.id] /\ u.name = t.name /\ u.key = Mapped(g, t.key)
                         /\ u.on /\ u.schedule = t.schedule
<1>1. ASSUME NEW t \in rows PROVE From(New(t), t)
  <2>1. {"id", "name", "on", "schedule", "key"} \subseteq DOMAIN t
    BY DEF Table
  <2> QED BY <2>1
<1>2. restoreSubscriptions(rows, f, g) = {New(t) : t \in rows}
  BY DEF restoreSubscriptions
<1> HIDE DEF New, From
<1>3. /\ \A u \in restoreSubscriptions(rows, f, g) : \E t \in rows : From(u, t)
      /\ \A t \in rows : \E u \in restoreSubscriptions(rows, f, g) : From(u, t)
  BY <1>1, <1>2
<1> QED BY <1>3 DEF From

LEMMA ChannelsRestored ==
  ASSUME NEW rows, Table(rows, {"id", "name", "on"}), NEW next \in Nat \ {0}
  PROVE  LET new == restoreNotifyChannels(rows, IdMap(rows, next))
         IN  /\ Renames(new, rows, IdMap(rows, next)) /\ Table(new, {"id", "name", "on"})
             /\ AllOn(new)
<1> DEFINE f == IdMap(rows, next)
           New(c) == [c EXCEPT !.id = f[c.id], !.on = TRUE]
           Is(u, c) == /\ {"id", "name", "on"} \subseteq DOMAIN u
                       /\ u.id = f[c.id] /\ u.name = c.name /\ u.on
           new == restoreNotifyChannels(rows, f)
<1>1. ASSUME NEW c \in rows PROVE Is(New(c), c)
  <2>1. {"id", "name", "on"} \subseteq DOMAIN c
    BY DEF Table
  <2> HIDE DEF f
  <2> QED BY <2>1
<1>2. new = {New(c) : c \in rows}
  BY DEF restoreNotifyChannels
<1> HIDE DEF New, new
<1>3. /\ \A u \in new : \E c \in rows : Is(u, c)
      /\ \A c \in rows : \E u \in new : Is(u, c)
  <2> HIDE DEF Is
  <2> QED BY <1>1, <1>2
<1> HIDE DEF f
<1>4. Renames(new, rows, f)
  BY <1>3 DEF Renames
<1>5. IsFiniteSet(Ids(new)) /\ Ids(new) \subseteq Nat \ {NoRow}
  BY <1>4, RenamesKeeps DEF f, NoRow
<1>6. \A u \in new : u.id \in Nat \ {NoRow} /\ {"id", "name", "on"} \subseteq DOMAIN u
  BY <1>3, <1>5 DEF Ids
<1>7. AllOn(new)
  BY <1>3 DEF AllOn
<1> QED BY <1>4, <1>5, <1>6, <1>7 DEF Table, new, f

LEMMA AppsRestored ==
  ASSUME NEW rows, \A a \in rows : {"name", "on"} \subseteq DOMAIN a
  PROVE  LET new == restoreOpenApps(rows)
         IN  /\ \A u \in new : {"name", "on"} \subseteq DOMAIN u
             /\ RowNames(new) = RowNames(rows) /\ AllOn(new)
<1> DEFINE New(a) == [a EXCEPT !.on = TRUE]
           Is(u, a) == {"name", "on"} \subseteq DOMAIN u /\ u.name = a.name /\ u.on
           new == restoreOpenApps(rows)
<1>1. \A a \in rows : Is(New(a), a)
  OBVIOUS
<1>2. new = {New(a) : a \in rows}
  BY DEF restoreOpenApps
<1> HIDE DEF New, new
<1>3. /\ \A u \in new : \E a \in rows : Is(u, a)
      /\ \A a \in rows : \E u \in new : Is(u, a)
  <2> HIDE DEF Is
  <2> QED BY <1>1, <1>2
<1>4. RowNames(new) = RowNames(rows)
  BY <1>3 DEF RowNames
<1>5. AllOn(new) /\ \A u \in new : {"name", "on"} \subseteq DOMAIN u
  BY <1>3 DEF AllOn
<1> QED BY <1>4, <1>5 DEF new

LEMMA KeysRestored ==
  ASSUME NEW rows, Table(rows, {"id", "name"}), NEW next \in Nat \ {0}
  PROVE  LET new == restoreSSHKeys(rows, IdMap(rows, next))
         IN  Renames(new, rows, IdMap(rows, next)) /\ Table(new, {"id", "name"})
<1> DEFINE f == IdMap(rows, next)
           New(k) == [k EXCEPT !.id = f[k.id]]
           Is(u, k) == {"id", "name"} \subseteq DOMAIN u /\ u.id = f[k.id] /\ u.name = k.name
           new == restoreSSHKeys(rows, f)
<1>1. ASSUME NEW k \in rows PROVE Is(New(k), k)
  <2>1. {"id", "name"} \subseteq DOMAIN k
    BY DEF Table
  <2> HIDE DEF f
  <2> QED BY <2>1
<1>2. new = {New(k) : k \in rows}
  BY DEF restoreSSHKeys
<1> HIDE DEF New, new
<1>3. /\ \A u \in new : \E k \in rows : Is(u, k)
      /\ \A k \in rows : \E u \in new : Is(u, k)
  <2> HIDE DEF Is
  <2> QED BY <1>1, <1>2
<1> HIDE DEF f
<1>4. Renames(new, rows, f)
  BY <1>3 DEF Renames
<1>5. IsFiniteSet(Ids(new)) /\ Ids(new) \subseteq Nat \ {NoRow}
  BY <1>4, RenamesKeeps DEF f, NoRow
<1>6. \A u \in new : u.id \in Nat \ {NoRow} /\ {"id", "name"} \subseteq DOMAIN u
  BY <1>3, <1>5 DEF Ids
<1> QED BY <1>4, <1>5, <1>6 DEF Table, new, f

\* A log that is restored belongs to a task of its name, and it is restored when
\* there is one.
LogsFit(logs, f, tasks) ==
  /\ \A l \in logs : {"task", "name", "status"} \subseteq DOMAIN l
  /\ IsFiniteSet(Ids(tasks)) /\ Ids(tasks) \subseteq Nat \ {NoRow}
  /\ \A t, u \in tasks : t.id = u.id => t.name = u.name
  /\ \A l \in logs : Mapped(f, l.task) # NoRow => NamesOf(tasks, f[l.task]) = {l.name}

LEMMA LogFinds ==
  ASSUME NEW logs, NEW tasks, NEW f, LogsFit(logs, f, tasks), NEW l \in logs
  PROVE  /\ LogTask(l, f, tasks) # NoRow => NamesOf(tasks, LogTask(l, f, tasks)) = {l.name}
         /\ LogTask(l, f, tasks) # NoRow <=> l.name \in RowNames(tasks)
<1> DEFINE i == LogTask(l, f, tasks)
           named == {t.id : t \in {u \in tasks : u.name = l.name}}
<1>0. /\ IsFiniteSet(Ids(tasks)) /\ Ids(tasks) \subseteq Nat \ {NoRow}
      /\ \A t, u \in tasks : t.id = u.id => t.name = u.name
  BY DEF LogsFit
<1>1. NamesOf(tasks, i) = {l.name} => l.name \in RowNames(tasks)
  <2> HIDE DEF i
  <2> QED BY DEF NamesOf, RowNames
<1>2. CASE Mapped(f, l.task) # NoRow
  <2>1. i = f[l.task] /\ NamesOf(tasks, i) = {l.name}
    BY <1>2 DEF LogTask, LogsFit
  <2>2. i # NoRow
    BY <1>2, <2>1 DEF Mapped
  <2> QED BY <1>1, <2>1, <2>2
<1>3. CASE Mapped(f, l.task) = NoRow
  <2>1. i = IF named = {} THEN NoRow ELSE CHOOSE n \in named : \A m \in named : n <= m
    BY <1>3 DEF LogTask
  <2>2. named # {} <=> l.name \in RowNames(tasks)
    BY DEF RowNames
  <2>3. named \in SUBSET Ids(tasks) /\ \A n \in named : \E u \in tasks : u.id = n /\ u.name = l.name
    BY DEF Ids
  <2> HIDE DEF named, i
  <2>4. ASSUME named # {} PROVE i \in named
    <3>1. \E n \in named : \A m \in named : n <= m
      BY <1>0, <2>3, <2>4, FS_Subset, LeastIs
    <3> QED BY <2>1, <2>4, <3>1
  <2>5. ASSUME named # {} PROVE i # NoRow /\ NamesOf(tasks, i) = {l.name}
    <3>1. PICK u \in tasks : u.id = i /\ u.name = l.name
      BY <2>3, <2>4, <2>5
    <3>2. i # NoRow
      BY <1>0, <2>3, <2>4, <2>5
    <3> QED BY <1>0, <3>1, <3>2 DEF NamesOf
  <2> QED BY <2>1, <2>2, <2>5 DEF i
<1> QED BY <1>2, <1>3

LEMMA LogsRestored ==
  ASSUME NEW m, NEW e, NEW f, LogsFit(m.logs, f, e.tasks), e.logs = restoreTaskLogs(m.logs, f, e.tasks)
  PROVE  /\ \A l \in e.logs : /\ {"task", "name", "status"} \subseteq DOMAIN l
                              /\ NamesOf(e.tasks, l.task) = {l.name}
         /\ LogView(e) = LogsOf(m, e.tasks)
<1> DEFINE T(l) == LogTask(l, f, e.tasks)
           New(l) == [l EXCEPT !.task = T(l)]
           Is(k, l) == /\ {"task", "name", "status"} \subseteq DOMAIN k
                       /\ k.name = l.name /\ k.status = l.status /\ k.task = T(l)
           kept == {l \in m.logs : l.name \in RowNames(e.tasks)}
<1>1. \A l \in m.logs : Is(New(l), l)
  BY DEF LogsFit
<1>2. \A l \in m.logs : /\ T(l) # NoRow => NamesOf(e.tasks, T(l)) = {l.name}
                        /\ T(l) # NoRow <=> l \in kept
  BY LogFinds
<1>3. e.logs = {New(l) : l \in {k \in m.logs : T(k) # NoRow}}
  BY DEF restoreTaskLogs
<1> HIDE DEF New, T
<1>4. /\ \A k \in e.logs : \E l \in kept : Is(k, l)
      /\ \A l \in kept : \E k \in e.logs : Is(k, l)
  <2> HIDE DEF Is
  <2> QED BY <1>1, <1>2, <1>3
<1>5. \A l \in kept : l \in m.logs /\ NamesOf(e.tasks, T(l)) = {l.name}
  BY <1>2
<1> DEFINE Item(l) == [name |-> l.name, status |-> l.status, task |-> NamesOf(e.tasks, l.task)]
           Due(l) == [name |-> l.name, status |-> l.status, task |-> {l.name}]
<1>6. ASSUME NEW k, NEW l \in kept, Is(k, l)
      PROVE  Item(k) = Due(l) /\ NamesOf(e.tasks, k.task) = {k.name}
  BY <1>5, <1>6
<1>7. LogView(e) = {Item(k) : k \in e.logs} /\ LogsOf(m, e.tasks) = {Due(l) : l \in kept}
  BY DEF LogView, LogsOf
<1>8. \A k \in e.logs : /\ {"task", "name", "status"} \subseteq DOMAIN k
                        /\ NamesOf(e.tasks, k.task) = {k.name}
  BY <1>4, <1>6
<1> HIDE DEF Is, Item, Due, kept
<1>9. LogView(e) = LogsOf(m, e.tasks)
  BY <1>4, <1>6, <1>7
<1> QED BY <1>8, <1>9

\* What a restore promises of the tables.
RowsOf(d, m) ==
  /\ "tasks" \in m.sel => TaskView(d, "configs" \in m.sel) = TaskView(m, "configs" \in m.sel)
  /\ "env_vars" \in m.sel => d.envs = m.envs
  /\ "subscriptions" \in m.sel => SubView(d) = SubView(m) /\ AllOn(d.subs)
  /\ "configs" \in m.sel => /\ RowNames(d.channels) = RowNames(m.channels) /\ AllOn(d.channels)
                            /\ RowNames(d.apps) = RowNames(m.apps) /\ AllOn(d.apps)
                            /\ d.config.schedule = m.config.schedule
  /\ "dependencies" \in m.sel => d.deps = m.deps
  /\ "logs" \in m.sel => LogView(d) = LogsOf(m, d.tasks)

LEMMA ChannelsAre ==
  ASSUME NEW d, Tables(d), d.next \in Nat \ {0}, NEW m, Tables(m), NEW e, e = Restored(d, m)
  PROVE  /\ Table(e.channels, {"id", "name", "on"})
         /\ "configs" \in m.sel => /\ Renames(e.channels, m.channels, IdMap(m.channels, d.next))
                                   /\ RowNames(e.channels) = RowNames(m.channels)
                                   /\ AllOn(e.channels)
<1>1. e.channels = IF "configs" \in m.sel
                   THEN restoreNotifyChannels(m.channels, IdMap(m.channels, d.next)) ELSE d.channels
  BY DEF Restored
<1>2. Table(m.channels, {"id", "name", "on"}) /\ Table(d.channels, {"id", "name", "on"})
  BY DEF Tables
<1>3. CASE "configs" \in m.sel
  <2>1. /\ Renames(e.channels, m.channels, IdMap(m.channels, d.next))
        /\ Table(e.channels, {"id", "name", "on"}) /\ AllOn(e.channels)
    BY <1>1, <1>2, <1>3, ChannelsRestored
  <2> QED BY <1>2, <2>1, RenamesKeeps
<1> QED BY <1>1, <1>2, <1>3

LEMMA SubsAre ==
  ASSUME NEW d, Tables(d), d.next \in Nat \ {0}, NEW m, Tables(m), NEW e, e = Restored(d, m)
  PROVE  /\ Table(e.keys, {"id", "name"}) /\ Table(e.subs, {"id", "name", "on", "schedule", "key"})
         /\ "subscriptions" \in m.sel => SubView(e) = SubView(m) /\ AllOn(e.subs)
<1> DEFINE g == IdMap(m.keys, d.next)
           f == IdMap(m.subs, d.next)
<1>1. /\ e.keys = IF "subscriptions" \in m.sel THEN restoreSSHKeys(m.keys, g) ELSE d.keys
      /\ e.subs = IF "subscriptions" \in m.sel THEN restoreSubscriptions(m.subs, f, g) ELSE d.subs
  BY DEF Restored
<1>2. /\ Table(m.keys, {"id", "name"}) /\ Table(d.keys, {"id", "name"})
      /\ Table(m.subs, {"id", "name", "on", "schedule", "key"})
      /\ Table(d.subs, {"id", "name", "on", "schedule", "key"})
  BY DEF Tables
<1>3. CASE "subscriptions" \in m.sel
  <2>1. Renames(e.keys, m.keys, g) /\ Table(e.keys, {"id", "name"})
    BY <1>1, <1>2, <1>3, KeysRestored
  <2>2. \A o : NamesOf(e.keys, Mapped(g, o)) = NamesOf(m.keys, o)
    BY <1>2, <2>1, RenamesKeeps
  <2> HIDE DEF g
  <2> DEFINE From(u, t) == /\ {"id", "name", "on", "schedule", "key"} \subseteq DOMAIN u
                           /\ u.id = f[t.id] /\ u.name = t.name /\ u.key = Mapped(g, t.key)
                           /\ u.on /\ u.schedule = t.schedule
  <2>3. /\ \A u \in e.subs : \E t \in m.subs : From(u, t)
        /\ \A t \in m.subs : \E u \in e.subs : From(u, t)
    <3> HIDE DEF f
    <3> QED BY <1>1, <1>2, <1>3, SubsRestored
  <2>4. Renames(e.subs, m.subs, f)
    BY <2>3 DEF Renames
  <2>5. IsFiniteSet(Ids(e.subs)) /\ Ids(e.subs) \subseteq Nat \ {NoRow}
    BY <1>2, <2>4, RenamesKeeps DEF NoRow
  <2> HIDE DEF f
  <2>6. Table(e.subs, {"id", "name", "on", "schedule", "key"})
    <3>1. \A u \in e.subs : u.id \in Nat \ {NoRow} /\ {"id", "name", "on", "schedule", "key"} \subseteq DOMAIN u
      BY <2>3, <2>5 DEF Ids
    <3> QED BY <2>5, <3>1 DEF Table
  <2> DEFINE Item(x, s) == [name |-> s.name, schedule |-> s.schedule, key |-> NamesOf(x.keys, s.key)]
  <2>7. \A u, t : From(u, t) => Item(e, u) = Item(m, t)
    BY <2>2
  <2>8. SubView(e) = {Item(e, u) : u \in e.subs} /\ SubView(m) = {Item(m, t) : t \in m.subs}
    BY DEF SubView
  <2>10. AllOn(e.subs)
    BY <2>3 DEF AllOn
  <2> HIDE DEF From, Item
  <2>9. SubView(e) = SubView(m)
    BY <2>3, <2>7, <2>8
  <2> QED BY <2>1, <2>6, <2>9, <2>10
<1> QED BY <1>1, <1>2, <1>3

LEMMA TasksAre ==
  ASSUME NEW d, Tables(d), d.next \in Nat \ {0}, NEW m, Tables(m), NEW e, e = Restored(d, m)
  PROVE  /\ Table(e.tasks, {"id", "name", "status", "needs", "channel"})
         /\ \A t, u \in e.tasks : t.id = u.id => t.name = u.name
         /\ "tasks" \in m.sel =>
              /\ \A o : NamesOf(e.tasks, Mapped(IdMap(m.tasks, d.next), o)) = NamesOf(m.tasks, o)
              /\ TaskView(e, "configs" \in m.sel) = TaskView(m, "configs" \in m.sel)
<1> DEFINE f == IdMap(m.tasks, d.next)
           g == IF "configs" \in m.sel THEN IdMap(m.channels, d.next) ELSE << >>
           Columns == {"id", "name", "status", "needs", "channel"}
<1>1. e.tasks = IF "tasks" \in m.sel THEN restoreTasks(m.tasks, f, g) ELSE d.tasks
  BY DEF Restored
<1>2. /\ Table(m.tasks, Columns) /\ Table(d.tasks, Columns) /\ Table(m.channels, {"id", "name", "on"})
      /\ \A t, u \in m.tasks : t.id = u.id => t.name = u.name
      /\ \A t, u \in d.tasks : t.id = u.id => t.name = u.name
  BY DEF Tables
<1>3. CASE "tasks" \in m.sel
  <2> DEFINE From(u, t) == /\ Columns \subseteq DOMAIN u
                           /\ u.id = f[t.id] /\ u.name = t.name
                           /\ (u.status = "disabled" <=> t.status = "disabled")
                           /\ u.needs = Mapped(f, t.needs) /\ u.channel = Mapped(g, t.channel)
  <2>1. /\ \A u \in e.tasks : \E t \in m.tasks : From(u, t)
        /\ \A t \in m.tasks : \E u \in e.tasks : From(u, t)
    <3> HIDE DEF f, g
    <3> QED BY <1>1, <1>2, <1>3, TasksRestored
  <2>2. Renames(e.tasks, m.tasks, f)
    BY <2>1 DEF Renames
  <2>3. /\ IsFiniteSet(Ids(e.tasks)) /\ Ids(e.tasks) \subseteq Nat \ {NoRow}
        /\ \A o : NamesOf(e.tasks, Mapped(f, o)) = NamesOf(m.tasks, o)
    BY <1>2, <2>2, RenamesKeeps DEF NoRow
  <2>4. "configs" \in m.sel => \A o : NamesOf(e.channels, Mapped(g, o)) = NamesOf(m.channels, o)
    BY <1>2, ChannelsAre, RenamesKeeps
  <2>5. \A o, p \in Ids(m.tasks) : f[o] = f[p] => o = p
    BY <1>2, IdMapIs
  <2>6. \A t \in m.tasks : t.id \in Ids(m.tasks)
    BY DEF Ids
  <2> HIDE DEF f, g
  <2>7. \A t, u \in e.tasks : t.id = u.id => t.name = u.name
    BY <1>2, <2>1, <2>5, <2>6
  <2>8. Table(e.tasks, Columns)
    <3>1. \A u \in e.tasks : u.id \in Nat \ {NoRow} /\ Columns \subseteq DOMAIN u
      BY <2>1, <2>3 DEF Ids
    <3> QED BY <2>3, <3>1 DEF Table
  <2> DEFINE Item(x, t) == [name |-> t.name, disabled |-> t.status = "disabled",
                            needs |-> NamesOf(x.tasks, t.needs),
                            channel |-> IF "configs" \in m.sel THEN NamesOf(x.channels, t.channel) ELSE {}]
  <2>9. ASSUME NEW u, NEW t, From(u, t) PROVE Item(e, u) = Item(m, t)
    <3>1. (u.status = "disabled") = (t.status = "disabled") /\ u.name = t.name
      BY <2>9
    <3>2. NamesOf(e.tasks, u.needs) = NamesOf(m.tasks, t.needs)
      BY <2>3, <2>9
    <3>3. "configs" \in m.sel => NamesOf(e.channels, u.channel) = NamesOf(m.channels, t.channel)
      BY <2>4, <2>9
    <3> QED BY <3>1, <3>2, <3>3
  <2>10. /\ TaskView(e, "configs" \in m.sel) = {Item(e, u) : u \in e.tasks}
         /\ TaskView(m, "configs" \in m.sel) = {Item(m, t) : t \in m.tasks}
    BY DEF TaskView
  <2> HIDE DEF From, Item
  <2>11. TaskView(e, "configs" \in m.sel) = TaskView(m, "configs" \in m.sel)
    BY <2>1, <2>9, <2>10
  <2> QED BY <2>3, <2>7, <2>8, <2>11 DEF f
<1> QED BY <1>1, <1>2, <1>3

\* The transaction delivers the tables and leaves tables.
LEMMA RestoredIs ==
  ASSUME NEW d, Tables(d), d.next \in Nat \ {0}, NEW m, Tables(m), NEW e, e = Restored(d, m)
  PROVE  /\ Tables(e) /\ "next" \in DOMAIN e /\ e.next \in Nat \ {0}
         /\ RowsOf(e, m)
<1> DEFINE f == IF "tasks" \in m.sel THEN IdMap(m.tasks, d.next) ELSE << >>
<1>1. /\ DOMAIN e = {"channels", "apps", "config", "tasks", "logs", "keys", "subs", "envs", "deps", "next"}
      /\ e.config = IF "configs" \in m.sel THEN restoreSystemConfigs(m) ELSE d.config
      /\ e.logs = IF "logs" \in m.sel THEN restoreTaskLogs(m.logs, f, e.tasks)
                  ELSE IF "tasks" \in m.sel THEN {} ELSE d.logs
      /\ e.envs = IF "env_vars" \in m.sel THEN m.envs ELSE d.envs
      /\ e.deps = IF "dependencies" \in m.sel THEN m.deps ELSE d.deps
      /\ "tasks" \notin m.sel => e.tasks = d.tasks
      /\ e.next = d.next + RowsPerTable
  BY DEF Restored, restoreEnvVars, restoreDependencyRows
<1>2. e.next \in Nat \ {0}
  BY <1>1, BackupAssumption
<1>3. /\ {"schedule", "pending"} \subseteq DOMAIN e.config /\ e.config.pending \in BOOLEAN
      /\ "configs" \in m.sel => e.config.schedule = m.config.schedule
  <2>1. CASE "configs" \in m.sel
    <3>1. e.config = [schedule |-> m.config.schedule, pending |-> FALSE]
      BY <1>1, <2>1 DEF restoreSystemConfigs
    <3> QED BY <3>1
  <2>2. CASE "configs" \notin m.sel
    BY <1>1, <2>2 DEF Tables
  <2> QED BY <2>1, <2>2
<1>4. /\ Table(e.tasks, {"id", "name", "status", "needs", "channel"})
      /\ \A t, u \in e.tasks : t.id = u.id => t.name = u.name
      /\ "tasks" \in m.sel =>
           /\ \A o : NamesOf(e.tasks, Mapped(IdMap(m.tasks, d.next), o)) = NamesOf(m.tasks, o)
           /\ TaskView(e, "configs" \in m.sel) = TaskView(m, "configs" \in m.sel)
  BY TasksAre
<1>5. IsFiniteSet(Ids(e.tasks)) /\ Ids(e.tasks) \subseteq Nat \ {NoRow}
  BY <1>4 DEF Table, Ids
<1>6. ASSUME NEW l \in m.logs, Mapped(f, l.task) # NoRow PROVE NamesOf(e.tasks, f[l.task]) = {l.name}
  <2>1. CASE "tasks" \in m.sel
    <3>1. Table(m.tasks, {"id", "name", "status", "needs", "channel"})
      BY DEF Tables
    <3>2. l.task \in Ids(m.tasks) /\ f[l.task] = Mapped(IdMap(m.tasks, d.next), l.task)
      BY <1>6, <2>1, <3>1, IdMapIs DEF Mapped
    <3>3. NamesOf(m.tasks, l.task) = {l.name}
      BY <3>2 DEF Tables, NamesOf, Ids
    <3> QED BY <1>4, <2>1, <3>2, <3>3
  <2>2. CASE "tasks" \notin m.sel
    <3>1. DOMAIN << >> = {}
      OBVIOUS
    <3> QED BY <1>6, <2>2, <3>1 DEF Mapped
  <2> QED BY <2>1, <2>2
<1> HIDE DEF f
<1>7. /\ \A a \in e.apps : {"name", "on"} \subseteq DOMAIN a
      /\ "configs" \in m.sel => RowNames(e.apps) = RowNames(m.apps) /\ AllOn(e.apps)
  <2>1. e.apps = IF "configs" \in m.sel THEN restoreOpenApps(m.apps) ELSE d.apps
    BY DEF Restored
  <2>2. \A a \in d.apps \cup m.apps : {"name", "on"} \subseteq DOMAIN a
    BY DEF Tables
  <2> QED BY <2>1, <2>2, AppsRestored
<1>8. CASE "logs" \in m.sel
  <2>1. \A l \in m.logs : {"task", "name", "status"} \subseteq DOMAIN l
    BY DEF Tables
  <2>2. /\ \A l \in e.logs : /\ {"task", "name", "status"} \subseteq DOMAIN l
                             /\ NamesOf(e.tasks, l.task) = {l.name}
        /\ LogView(e) = LogsOf(m, e.tasks)
    <3>1. \A l \in m.logs : Mapped(f, l.task) # NoRow => NamesOf(e.tasks, f[l.task]) = {l.name}
      BY <1>6
    <3>2. e.logs = restoreTaskLogs(m.logs, f, e.tasks) /\ \A t, u \in e.tasks : t.id = u.id => t.name = u.name
      BY <1>1, <1>4, <1>8
    <3>3. LogsFit(m.logs, f, e.tasks)
      BY <1>5, <2>1, <3>1, <3>2 DEF LogsFit
    <3> QED BY <3>2, <3>3, LogsRestored
  <2>3. ASSUME NEW l \in e.logs, NEW t \in e.tasks, t.id = l.task PROVE t.name = l.name
    BY <2>2, <2>3 DEF NamesOf
  <2>4. Tables(e)
    BY <1>1, <1>3, <1>4, <1>7, <2>2, <2>3, ChannelsAre, SubsAre DEF Tables
  <2> QED BY <1>1, <1>2, <1>3, <1>4, <1>7, <2>2, <2>4, ChannelsAre, SubsAre DEF RowsOf
<1>9. CASE "logs" \notin m.sel
  <2>1. \A l \in e.logs : /\ {"task", "name", "status"} \subseteq DOMAIN l
                           /\ \A t \in e.tasks : t.id = l.task => t.name = l.name
    BY <1>1, <1>9 DEF Tables
  <2>2. Tables(e)
    BY <1>1, <1>3, <1>4, <1>7, <2>1, ChannelsAre, SubsAre DEF Tables
  <2> QED BY <1>1, <1>2, <1>3, <1>4, <1>7, <1>9, <2>2, ChannelsAre, SubsAre DEF RowsOf
<1> QED BY <1>8, <1>9

\* All tables there are, are tables.
SoundInv ==
  /\ Tables(db) /\ "next" \in DOMAIN db /\ db.next \in Nat \ {0}
  /\ jobs = [tasks |-> jobs.tasks, subs |-> jobs.subs, backup |-> jobs.backup]
  /\ \A n \in DOMAIN archives : archives[n] # NoArchive => Tables(archives[n])
  /\ \A r \in Restorers : rest[r].archive # NoArchive => Tables(rest[r].archive)
  /\ \A c \in Creators : maker[c].pc # "idle" => Tables(maker[c].archive)

\* A user changes a row, not its id.
LEMMA RowReplaced ==
  ASSUME NEW rows, NEW columns, Table(rows, columns), NEW t \in rows, NEW u, DOMAIN u = DOMAIN t, u.id = t.id
  PROVE  Table((rows \ {t}) \cup {u}, columns)
<1> DEFINE new == (rows \ {t}) \cup {u}
<1>1. Ids(new) \in SUBSET Ids(rows)
  BY DEF Ids
<1>2. /\ IsFiniteSet(Ids(rows))
      /\ \A row \in rows : columns \subseteq DOMAIN row /\ row.id \in Nat \ {NoRow}
  BY DEF Table
<1>3. \A row \in new : columns \subseteq DOMAIN row /\ row.id \in Nat \ {NoRow}
  BY <1>2
<1> HIDE DEF new
<1>4. IsFiniteSet(Ids(new))
  BY <1>1, <1>2, FS_Subset
<1> QED BY <1>3, <1>4 DEF Table, new

\* Tables that hold the same rows, or none.
LEMMA TablesAlike ==
  ASSUME NEW d, Tables(d), NEW e, DOMAIN d \subseteq DOMAIN e,
         e.channels \in {d.channels, {}}, e.keys \in {d.keys, {}}, e.subs \in {d.subs, {}},
         e.tasks \in {d.tasks, {}}, e.logs \in {d.logs, {}}, e.apps \in {d.apps, {}},
         {"schedule", "pending"} \subseteq DOMAIN e.config, e.config.pending \in BOOLEAN
  PROVE  Tables(e)
<1>1. \A columns : Table({}, columns)
  <2>1. Ids({}) = {}
    BY DEF Ids
  <2> QED BY <2>1, FS_EmptySet DEF Table
<1> QED BY <1>1 DEF Tables

LEMMA StatusKeepsTables ==
  ASSUME Tables(db), NEW t \in db.tasks, NEW status
  PROVE  Tables(SetStatus(t, status))
<1> DEFINE u == [t EXCEPT !.status = status]
           new == (db.tasks \ {t}) \cup {u}
           e == SetStatus(t, status)
           Columns == {"id", "name", "status", "needs", "channel"}
<1>1. Table(db.tasks, Columns) /\ \A s, w \in db.tasks : s.id = w.id => s.name = w.name
  BY DEF Tables
<1>2. DOMAIN u = DOMAIN t /\ u.id = t.id /\ u.name = t.name
  BY <1>1 DEF Table
<1> HIDE DEF u
<1>3. Table(new, Columns)
  BY <1>1, <1>2, RowReplaced
<1>4. \A w \in new : \E s \in db.tasks : w.id = s.id /\ w.name = s.name
  BY <1>2
<1>5. e = [db EXCEPT !.tasks = new]
  BY DEF SetStatus, u
<1> HIDE DEF new, e
<1>6. /\ DOMAIN e = DOMAIN db /\ e.tasks = new /\ e.channels = db.channels /\ e.keys = db.keys
      /\ e.subs = db.subs /\ e.logs = db.logs /\ e.config = db.config /\ e.apps = db.apps
  BY <1>5 DEF Tables
<1>7. \A s, w \in e.tasks : s.id = w.id => s.name = w.name
  BY <1>1, <1>4, <1>6
<1>8. \A l \in e.logs : /\ {"task", "name", "status"} \subseteq DOMAIN l
                         /\ \A w \in e.tasks : w.id = l.task => w.name = l.name
  BY <1>4, <1>6 DEF Tables
<1> QED BY <1>3, <1>6, <1>7, <1>8 DEF Tables, e

LEMMA EditKeepsTables ==
  ASSUME SoundInv,
         DisableTask \/ RunTask \/ DisableEnv \/ DisableSub \/ SetBackupSchedule
         \/ DeleteBackupSchedule \/ BeginUpdate
  PROVE  /\ Tables(db') /\ "next" \in DOMAIN db' /\ db'.next = db.next
         /\ jobs' = [tasks |-> jobs'.tasks, subs |-> jobs'.subs, backup |-> jobs'.backup]
<1>0. /\ Tables(db) /\ "next" \in DOMAIN db /\ DOMAIN db \subseteq DOMAIN db
      /\ {"envs", "subs", "config", "tasks", "apps"} \subseteq DOMAIN db
      /\ {"schedule", "pending"} \subseteq DOMAIN db.config /\ db.config.pending \in BOOLEAN
  BY DEF SoundInv, Tables
<1>1. jobs' = [tasks |-> jobs'.tasks, subs |-> jobs'.subs, backup |-> jobs'.backup]
  <2>1. jobs = [tasks |-> jobs.tasks, subs |-> jobs.subs, backup |-> jobs.backup]
    BY DEF SoundInv
  <2>2. \/ jobs' = jobs
        \/ \E i : jobs' = [jobs EXCEPT !.tasks = @ \ {i}] \/ jobs' = [jobs EXCEPT !.subs = @ \ {i}]
        \/ jobs' = [jobs EXCEPT !.backup = ~db.config.schedule]
    BY DEF DisableTask, RunTask, DisableEnv, DisableSub, SetBackupSchedule, DeleteBackupSchedule,
           BeginUpdate, EditRows
  <2>3. ASSUME NEW i, jobs' = [jobs EXCEPT !.tasks = @ \ {i}]
        PROVE  jobs' = [tasks |-> jobs'.tasks, subs |-> jobs'.subs, backup |-> jobs'.backup]
    BY <2>1, <2>3
  <2>4. ASSUME NEW i, jobs' = [jobs EXCEPT !.subs = @ \ {i}]
        PROVE  jobs' = [tasks |-> jobs'.tasks, subs |-> jobs'.subs, backup |-> jobs'.backup]
    BY <2>1, <2>4
  <2>5. CASE jobs' = [jobs EXCEPT !.backup = ~db.config.schedule]
    BY <2>1, <2>5
  <2> QED BY <2>1, <2>2, <2>3, <2>4, <2>5
<1>2. CASE DisableTask \/ RunTask
  <2>1. PICK t \in db.tasks : \E status : db' = SetStatus(t, status)
    BY <1>2 DEF DisableTask, RunTask, EditRows
  <2>2. PICK status : db' = SetStatus(t, status)
    BY <2>1
  <2>3. "next" \in DOMAIN db' /\ db'.next = db.next
    BY <1>0, <2>2 DEF SetStatus
  <2> QED BY <1>0, <1>1, <2>2, <2>3, StatusKeepsTables
<1>3. CASE DisableEnv
  <2>1. PICK new : db' = [db EXCEPT !.envs = new]
    BY <1>3 DEF DisableEnv, EditRows
  <2>2. /\ DOMAIN db' = DOMAIN db /\ db'.subs = db.subs /\ db'.tasks = db.tasks /\ db'.channels = db.channels
        /\ db'.keys = db.keys /\ db'.logs = db.logs /\ db'.config = db.config /\ db'.next = db.next
        /\ db'.apps = db.apps
    BY <1>0, <2>1
  <2> QED BY <1>0, <1>1, <2>2, TablesAlike
<1>4. CASE DisableSub
  <2>1. PICK s \in db.subs : db' = [db EXCEPT !.subs = (@ \ {s}) \cup {[s EXCEPT !.on = FALSE]}]
    BY <1>4 DEF DisableSub, EditRows
  <2> DEFINE u == [s EXCEPT !.on = FALSE]
             new == (db.subs \ {s}) \cup {u}
             Columns == {"id", "name", "on", "schedule", "key"}
  <2>2. Table(db.subs, Columns)
    BY <1>0 DEF Tables
  <2>3. DOMAIN u = DOMAIN s /\ u.id = s.id
    BY <2>2 DEF Table
  <2>4. db' = [db EXCEPT !.subs = new]
    BY <2>1
  <2> HIDE DEF u
  <2>5. Table(new, Columns)
    BY <2>2, <2>3, RowReplaced
  <2> HIDE DEF new
  <2>6. /\ DOMAIN db' = DOMAIN db /\ db'.subs = new /\ db'.tasks = db.tasks /\ db'.channels = db.channels
        /\ db'.keys = db.keys /\ db'.logs = db.logs /\ db'.config = db.config /\ db'.next = db.next
        /\ db'.apps = db.apps
    BY <1>0, <2>4
  <2>7. Tables(db')
    BY <1>0, <2>5, <2>6 DEF Tables
  <2> QED BY <1>0, <1>1, <2>6, <2>7
<1>5. CASE SetBackupSchedule \/ DeleteBackupSchedule \/ BeginUpdate
  <2>1. PICK c : /\ db' = [db EXCEPT !.config = c]
                 /\ {"schedule", "pending"} \subseteq DOMAIN c /\ c.pending \in BOOLEAN
    <3> DEFINE set(v) == [db.config EXCEPT !.schedule = v]
               begun == [db.config EXCEPT !.pending = TRUE]
    <3>1. \/ \E v : db' = [db EXCEPT !.config = set(v)]
          \/ db' = [db EXCEPT !.config = begun]
      BY <1>0, <1>5 DEF SetBackupSchedule, DeleteBackupSchedule, BeginUpdate, EditRows
    <3>2. \A v : {"schedule", "pending"} \subseteq DOMAIN set(v) /\ set(v).pending \in BOOLEAN
      BY <1>0
    <3>3. {"schedule", "pending"} \subseteq DOMAIN begun /\ begun.pending \in BOOLEAN
      BY <1>0
    <3> HIDE DEF set, begun
    <3> QED BY <3>1, <3>2, <3>3
  <2>2. /\ DOMAIN db' = DOMAIN db /\ db'.subs = db.subs /\ db'.tasks = db.tasks /\ db'.channels = db.channels
        /\ db'.keys = db.keys /\ db'.logs = db.logs /\ db'.config = c /\ db'.next = db.next
        /\ db'.apps = db.apps
    BY <1>0, <2>1
  <2> QED BY <1>0, <1>1, <2>1, <2>2, TablesAlike
<1> QED BY <1>2, <1>3, <1>4, <1>5

\* A backup copies tables, or none of a table.
LEMMA BackupKeepsTables ==
  ASSUME WholeInv, SoundInv, NEW c \in Creators, BackupStep(c)
  PROVE  /\ \A e \in Creators : maker'[e].pc # "idle" => Tables(maker'[e].archive)
         /\ \A n \in DOMAIN archives' : archives'[n] # NoArchive => Tables(archives'[n])
<1>0. /\ DOMAIN maker = Creators /\ {"pc", "archive"} \subseteq DOMAIN maker[c] /\ Tables(db)
      /\ maker[c].pc # "idle" => /\ Tables(maker[c].archive)
                                 /\ {"sel", "scripts", "logfiles"} \subseteq DOMAIN maker[c].archive
      /\ \A e \in Creators : maker[e].pc # "idle" => Tables(maker[e].archive)
      /\ \A n \in DOMAIN archives : archives[n] # NoArchive => Tables(archives[n])
  BY DEF WholeInv, MakerOK, SoundInv
<1>1. CASE \E sel \in Selections : BeginBackup(c, sel)
  <2> PICK sel \in Selections : BeginBackup(c, sel)
    BY <1>1
  <2> DEFINE a == [source |-> "daidai-panel", encrypted |-> FALSE, mirrors |-> "configs" \in sel,
                   sel |-> sel, scripts |-> Absent, logfiles |-> Absent,
                   channels |-> {}, apps |-> {}, config |-> [schedule |-> FALSE, pending |-> FALSE],
                   tasks |-> {}, envs |-> {}, keys |-> {}, subs |-> {}, deps |-> {}, logs |-> {}]
  <2>1. maker' = [maker EXCEPT ![c] = [pc |-> "configs", archive |-> a]] /\ UNCHANGED archives
    BY DEF BeginBackup
  <2>2. Ids({}) = {}
    BY DEF Ids
  <2>3. Tables(a)
    BY <2>2, FS_EmptySet DEF Tables, Table
  <2> HIDE DEF a
  <2> QED BY <1>0, <2>1, <2>3
<1>2. CASE snapshotConfigBundle(c)
  <2> DEFINE b == maker[c].archive
             with == [b EXCEPT !.channels = db.channels, !.apps = db.apps, !.config = db.config]
             a == IF "configs" \notin b.sel THEN b ELSE with
             m == [maker[c] EXCEPT !.pc = "tables", !.archive = a]
  <2>1. maker' = [maker EXCEPT ![c] = m] /\ UNCHANGED archives /\ Tables(b)
    BY <1>0, <1>2 DEF snapshotConfigBundle
  <2>2. Tables(with)
    <3>1. {"channels", "apps", "config"} \subseteq DOMAIN b
      BY <2>1 DEF Tables
    <3> HIDE DEF b
    <3>2. /\ DOMAIN with = DOMAIN b /\ with.channels = db.channels /\ with.config = db.config
          /\ with.apps = db.apps
          /\ with.keys = b.keys /\ with.subs = b.subs /\ with.tasks = b.tasks /\ with.logs = b.logs
      BY <3>1
    <3> HIDE DEF with
    <3> QED BY <1>0, <2>1, <3>2 DEF Tables
  <2>3. Tables(a)
    BY <2>1, <2>2
  <2> HIDE DEF a
  <2>4. m.archive = a
    BY <1>0
  <2> HIDE DEF m
  <2> QED BY <1>0, <2>1, <2>3, <2>4
<1>3. CASE buildBackupManifest(c)
  <2> DEFINE b == maker[c].archive
             If(k, rows) == IF k \in b.sel THEN rows ELSE {}
             a == [b EXCEPT !.tasks = If("tasks", db.tasks), !.envs = If("env_vars", db.envs),
                            !.keys = If("subscriptions", db.keys), !.subs = If("subscriptions", db.subs),
                            !.deps = If("dependencies", db.deps), !.logs = If("logs", db.logs)]
             m == [pc |-> "files", archive |-> a]
  <2>1. maker' = [maker EXCEPT ![c] = m] /\ UNCHANGED archives /\ Tables(b)
    BY <1>0, <1>3 DEF buildBackupManifest
  <2>2. Tables(a)
    <3>1. {"tasks", "envs", "keys", "subs", "deps", "logs"} \subseteq DOMAIN b
      BY <2>1 DEF Tables
    <3>2. \A k, rows : If(k, rows) \in {rows, {}}
      OBVIOUS
    <3> HIDE DEF b, If
    <3>3. /\ DOMAIN a = DOMAIN b /\ a.channels = b.channels /\ a.config = b.config /\ a.apps = b.apps
          /\ a.keys = If("subscriptions", db.keys) /\ a.subs = If("subscriptions", db.subs)
          /\ a.tasks = If("tasks", db.tasks) /\ a.logs = If("logs", db.logs)
      BY <3>1
    <3> HIDE DEF a
    <3>4. /\ a.keys \in {db.keys, {}} /\ a.subs \in {db.subs, {}}
          /\ a.tasks \in {db.tasks, {}} /\ a.logs \in {db.logs, {}}
      BY <3>2, <3>3
    <3>5. Ids({}) = {}
      BY DEF Ids
    <3>6. \A columns, rows, some : Table(rows, columns) /\ some \in {rows, {}} => Table(some, columns)
      BY <3>5, FS_EmptySet DEF Table
    <3>7. /\ Table(a.keys, {"id", "name"}) /\ Table(a.subs, {"id", "name", "on", "schedule", "key"})
          /\ Table(a.tasks, {"id", "name", "status", "needs", "channel"})
          /\ \A t, u \in a.tasks : t.id = u.id => t.name = u.name
      BY <1>0, <3>4, <3>6 DEF Tables
    <3>8. \A l \in a.logs : /\ {"task", "name", "status"} \subseteq DOMAIN l
                            /\ \A t \in a.tasks : t.id = l.task => t.name = l.name
      BY <1>0, <3>4 DEF Tables
    <3> QED BY <2>1, <3>3, <3>7, <3>8 DEF Tables
  <2> HIDE DEF a
  <2> QED BY <1>0, <2>1, <2>2
<1>4. CASE createBackupArchive(c)
  <2> DEFINE Of(d) == IF d \in maker[c].archive.sel THEN live[d] ELSE Absent
             a == [maker[c].archive EXCEPT !.scripts = Of("scripts"), !.logfiles = Of("logs")]
  <2>1. /\ maker' = [maker EXCEPT ![c] = NoMaker] /\ Tables(maker[c].archive)
        /\ archives' = archives \/ archives' = [archives EXCEPT ![c] = a]
    BY <1>0, <1>4 DEF createBackupArchive
  <2> HIDE DEF Of
  <2>2. Tables(a)
    <3>1. {"channels", "apps", "config", "keys", "subs", "tasks", "logs"} \subseteq DOMAIN maker[c].archive
      BY <2>1 DEF Tables
    <3>2. /\ DOMAIN a = DOMAIN maker[c].archive /\ a.channels = maker[c].archive.channels
          /\ a.config = maker[c].archive.config /\ a.keys = maker[c].archive.keys
          /\ a.subs = maker[c].archive.subs /\ a.tasks = maker[c].archive.tasks
          /\ a.logs = maker[c].archive.logs /\ a.apps = maker[c].archive.apps
      BY <3>1
    <3> HIDE DEF a
    <3> QED BY <2>1, <3>2 DEF Tables
  <2> HIDE DEF a
  <2>3. maker'[c] = NoMaker /\ \A e \in Creators \ {c} : maker'[e] = maker[e]
    BY <1>0, <2>1
  <2>4. \A n \in DOMAIN archives' : archives'[n] # NoArchive => Tables(archives'[n])
    BY <1>0, <2>1, <2>2
  <2> QED BY <1>0, <2>3, <2>4 DEF NoMaker
<1> QED BY <1>1, <1>2, <1>3, <1>4 DEF BackupStep

\* A step of a restore keeps its archive or drops it, and others keep theirs.
LEMMA RestoreKeepsTables ==
  ASSUME WholeInv, SoundInv, NEW r \in Restorers, RestoreStep(r)
  PROVE  \A q \in Restorers : rest'[q].archive # NoArchive => Tables(rest'[q].archive)
<1>0. DOMAIN rest = Restorers /\ \A q \in Restorers : RestFields \subseteq DOMAIN rest[q]
  BY DEF WholeInv, RestOK
<1>1. SUFFICES \A q \in Restorers : rest'[q].archive \in {rest[q].archive, NoArchive}
  BY DEF SoundInv
<1>2. NoRestore.archive = NoArchive /\ [NoRestore EXCEPT !.pc = "signal"].archive = NoArchive
  BY DEF NoRestore
<1>3. ASSUME NEW t, rest' = [rest EXCEPT ![r] = t], t.archive \in {rest[r].archive, NoArchive}
      PROVE  \A q \in Restorers : rest'[q].archive \in {rest[q].archive, NoArchive}
  BY <1>0, <1>3
<1>4. CASE FailRestore(r)
  BY <1>2, <1>3, <1>4 DEF FailRestore
<1>5. CASE \E pc : NextStage(r, pc)
  <2>1. PICK pc : NextStage(r, pc)
    BY <1>5
  <2>2. /\ rest' = [rest EXCEPT ![r] = [rest[r] EXCEPT !.pc = pc]]
        /\ [rest[r] EXCEPT !.pc = pc].archive = rest[r].archive
    BY <1>0, <2>1 DEF NextStage
  <2> QED BY <1>3, <2>2
<1>6. CASE \E d \in Dirs : AfterDir(r, d)
  <2>1. PICK pc : rest' = [rest EXCEPT ![r].pc = pc, ![r].dir = "logs"]
    BY <1>6 DEF AfterDir
  <2> DEFINE t == [rest[r] EXCEPT !.pc = pc, !.dir = "logs"]
  <2>2. rest' = [rest EXCEPT ![r] = t]
    BY <1>0, <2>1
  <2>3. t.archive = rest[r].archive
    BY <1>0 DEF RestFields
  <2> HIDE DEF t
  <2> QED BY <1>3, <2>2, <2>3
<1>7. CASE snapshotProtectedRuntimeSystemConfigs(r)
  <2> DEFINE t == [rest[r] EXCEPT !.pending = db.config.pending, !.pc = "data"]
  <2>1. rest' = [rest EXCEPT ![r] = t]
    BY <1>0, <1>7 DEF snapshotProtectedRuntimeSystemConfigs
  <2>2. t.archive = rest[r].archive
    BY <1>0 DEF RestFields
  <2> HIDE DEF t
  <2> QED BY <1>3, <2>1, <2>2
<1>8. CASE restoreBackupManifest(r) /\ ~FailRestore(r)
  <2> DEFINE f == Disturbed(Restorers \ {r})
  <2>1. rest' = [f EXCEPT ![r].pc = "protect"]
    BY <1>8 DEF restoreBackupManifest
  <2>2. DOMAIN f = Restorers /\ \A q \in Restorers : Alike(f[q], rest[q])
    BY DisturbedIsAlike
  <2> HIDE DEF f
  <2>3. \A q \in Restorers : f[q].archive = rest[q].archive /\ RestFields \subseteq DOMAIN f[q]
    BY <2>2 DEF Alike
  <2> QED BY <2>1, <2>2, <2>3
<1>9. CASE \E d \in Dirs : SwapOut(r, d) /\ ~FailRestore(r)
  <2>1. PICK d \in Dirs : rest' = [rest EXCEPT ![r].pc = "in", ![r].old = live[d]]
    BY <1>9 DEF SwapOut
  <2> DEFINE t == [rest[r] EXCEPT !.pc = "in", !.old = live[d]]
  <2>2. rest' = [rest EXCEPT ![r] = t]
    BY <1>0, <2>1
  <2>3. t.archive = rest[r].archive
    BY <1>0 DEF RestFields
  <2> HIDE DEF t
  <2> QED BY <1>3, <2>2, <2>3
<1>10. CASE CompleteRestore(r)
  <2> DEFINE t == IF r \in Cli THEN [NoRestore EXCEPT !.pc = "signal"] ELSE NoRestore
  <2>1. rest' = [rest EXCEPT ![r] = t] /\ t.archive = NoArchive
    BY <1>2, <1>10 DEF CompleteRestore
  <2> HIDE DEF t
  <2> QED BY <1>3, <2>1
<1>11. CASE SignalServer(r)
  <2>1. \A q \in Restorers : rest'[q] \in {rest[q], NoRestore}
    BY <1>0, <1>11 DEF SignalServer
  <2> QED BY <1>2, <2>1
<1> QED BY <1>4, <1>5, <1>6, <1>7, <1>8, <1>9, <1>10, <1>11
        DEF RestoreStep, ReadArchive, restoreBackupManifest, restoreProtectedRuntimeSystemConfigs,
            Fill, SwapOut, SwapIn, ApplyDependencyMirrorSettings, ReloadTasks, ReloadSubs,
            ReloadBackup, Reload

\* What a step of a restore makes of the tables and the schedulers.
LEMMA RestoreWritesTables ==
  ASSUME WholeInv, SoundInv, NEW r \in Restorers, RestoreStep(r)
  PROVE  /\ Tables(db') /\ "next" \in DOMAIN db' /\ db'.next \in Nat \ {0}
         /\ jobs' = [tasks |-> jobs'.tasks, subs |-> jobs'.subs, backup |-> jobs'.backup]
         /\ archives' = archives /\ \A c \in Creators : maker'[c] \in {maker[c], NoMaker}
<1>0. /\ Tables(db) /\ "next" \in DOMAIN db /\ db.next \in Nat \ {0}
      /\ jobs = [tasks |-> jobs.tasks, subs |-> jobs.subs, backup |-> jobs.backup]
  BY DEF SoundInv
<1>1. CASE restoreBackupManifest(r) /\ db' # db
  <2>1. db' = Restored(db, rest[r].archive) /\ rest[r].pc = "data" /\ UNCHANGED <<jobs, archives, maker>>
    BY <1>1 DEF restoreBackupManifest
  <2>2. Tables(rest[r].archive)
    BY <2>1 DEF WholeInv, RestOK, Reading, SoundInv
  <2> QED BY <1>0, <2>1, <2>2, RestoredIs
<1>2. CASE restoreProtectedRuntimeSystemConfigs(r)
  <2> DEFINE c == [db.config EXCEPT !.pending = @ \/ rest[r].pending]
  <2>1. db' = [db EXCEPT !.config = c] /\ UNCHANGED <<jobs, archives, maker>>
    BY <1>2 DEF restoreProtectedRuntimeSystemConfigs
  <2>2. {"schedule", "pending"} \subseteq DOMAIN c /\ c.pending \in BOOLEAN
    BY <1>0 DEF Tables
  <2> HIDE DEF c
  <2>3. /\ DOMAIN db' = DOMAIN db /\ db'.subs = db.subs /\ db'.tasks = db.tasks /\ db'.channels = db.channels
        /\ db'.keys = db.keys /\ db'.logs = db.logs /\ db'.config = c /\ db'.next = db.next
        /\ db'.apps = db.apps
    BY <1>0, <2>1 DEF Tables
  <2> QED BY <1>0, <2>1, <2>2, <2>3, TablesAlike
<1>3. CASE ReloadTasks(r) \/ ReloadSubs(r) \/ ReloadBackup(r)
  <2>1. /\ UNCHANGED <<db, archives, maker>>
        /\ \/ jobs' = jobs
           \/ jobs' = [jobs EXCEPT !.tasks = EnabledTasks(db)]
           \/ jobs' = [jobs EXCEPT !.subs = ScheduledSubs(db)]
           \/ jobs' = [jobs EXCEPT !.backup = db.config.schedule]
    BY <1>3 DEF ReloadTasks, ReloadSubs, ReloadBackup, Reload
  <2> QED BY <1>0, <2>1
<1>4. CASE SignalServer(r)
  BY <1>0, <1>4 DEF SignalServer, ServerGone, NoJobs
<1>5. CASE UNCHANGED <<db, jobs, archives, maker>>
  BY <1>0, <1>5
<1>6. \/ restoreBackupManifest(r) /\ db' # db
      \/ restoreProtectedRuntimeSystemConfigs(r)
      \/ ReloadTasks(r) \/ ReloadSubs(r) \/ ReloadBackup(r)
      \/ SignalServer(r) \/ UNCHANGED <<db, jobs, archives, maker>>
  BY DEF RestoreStep, ReadArchive, snapshotProtectedRuntimeSystemConfigs, restoreBackupManifest,
         Fill, SwapOut, SwapIn, ApplyDependencyMirrorSettings, CompleteRestore
<1> QED BY <1>1, <1>2, <1>3, <1>4, <1>5, <1>6

LEMMA SoundStep ==
  ASSUME WholeInv, SoundInv, [BackupNext]_backupVars
  PROVE  SoundInv'
<1>0. /\ DOMAIN rest = Restorers /\ NoMaker.pc = "idle" /\ NoRestore.archive = NoArchive
      /\ \A others : \A q \in Restorers : Disturbed(others)[q].archive = rest[q].archive
  BY DisturbedIsAlike DEF WholeInv, NoMaker, NoRestore, Alike
<1>1. CASE UNCHANGED backupVars
  BY <1>1 DEF SoundInv, backupVars
<1>2. CASE \E r \in Restorers : \E n \in DOMAIN archives : BeginRestore(r, n)
  <2>1. PICK r \in Restorers, n \in DOMAIN archives : BeginRestore(r, n)
    BY <1>2
  <2> DEFINE alone == \A q \in Restorers \ {r} : rest[q].pc = "idle"
             t == [NoRestore EXCEPT !.pc = "read", !.archive = archives[n], !.clean = alone]
             f == Disturbed(Restorers \ {r})
  <2>2. rest' = [f EXCEPT ![r] = t] /\ UNCHANGED <<db, jobs, archives, maker>>
    BY <2>1 DEF BeginRestore
  <2>3. t.archive = archives[n]
    <3> HIDE DEF alone
    <3> QED BY DEF NoRestore
  <2>4. DOMAIN f = Restorers /\ \A q \in Restorers : f[q].archive = rest[q].archive
    BY <1>0 DEF Disturbed
  <2> HIDE DEF t, f
  <2>5. \A q \in Restorers : rest'[q].archive \in {rest[q].archive, archives[n]}
    BY <2>2, <2>3, <2>4
  <2> QED BY <2>2, <2>5 DEF SoundInv
<1>3. CASE \E r \in Restorers : RestoreStep(r)
  <2>1. PICK r \in Restorers : RestoreStep(r)
    BY <1>3
  <2> QED BY <1>0, <2>1, RestoreKeepsTables, RestoreWritesTables DEF SoundInv
<1>4. CASE \E c \in Creators : BackupStep(c)
  <2>1. PICK c \in Creators : BackupStep(c)
    BY <1>4
  <2>2. UNCHANGED <<db, jobs, rest>>
    BY <2>1 DEF BackupStep, BeginBackup, snapshotConfigBundle, buildBackupManifest, createBackupArchive
  <2> QED BY <2>1, <2>2, BackupKeepsTables DEF SoundInv
<1>5. CASE \E n \in DOMAIN archives : DeleteBackup(n)
  BY <1>5 DEF DeleteBackup, SoundInv
<1>6. CASE DisableTask \/ RunTask \/ DisableEnv \/ DisableSub \/ SetBackupSchedule
           \/ DeleteBackupSchedule \/ BeginUpdate
  <2>1. rest' = Disturbed(Restorers) /\ UNCHANGED <<archives, maker>>
    BY <1>6 DEF DisableTask, RunTask, DisableEnv, DisableSub, SetBackupSchedule, DeleteBackupSchedule,
                BeginUpdate, EditRows
  <2> QED BY <1>0, <1>6, <2>1, EditKeepsTables DEF SoundInv
<1>7. CASE CrashServer
  <2>1. /\ rest' = [r \in Restorers |-> IF r \in Cli THEN [rest[r] EXCEPT !.clean = FALSE] ELSE NoRestore]
        /\ UNCHANGED <<db, archives>> /\ jobs' = NoJobs /\ maker' = [c \in Creators |-> NoMaker]
    BY <1>7 DEF CrashServer, ServerGone
  <2>2. \A r \in Restorers : [rest[r] EXCEPT !.clean = FALSE].archive = rest[r].archive
    BY DEF WholeInv, RestOK, RestFields
  <2>3. \A r \in Restorers : rest'[r].archive \in {rest[r].archive, NoArchive}
    BY <1>0, <2>1, <2>2
  <2> QED BY <1>0, <2>1, <2>3 DEF SoundInv, NoJobs
<1>8. CASE StartServer \/ CliCommand
  BY <1>8 DEF StartServer, CliCommand, SoundInv, AllJobs
<1> QED BY <1>1, <1>2, <1>3, <1>4, <1>5, <1>6, <1>7, <1>8 DEF BackupNext

LEMMA SoundInit == BackupInit => SoundInv
<1> SUFFICES ASSUME BackupInit PROVE SoundInv
  OBVIOUS
<1>1. /\ db = InitialDb /\ jobs = AllJobs(InitialDb) /\ rest = [r \in Restorers |-> NoRestore]
      /\ maker = [c \in Creators |-> NoMaker]
      /\ archives = [n \in Creators \cup DOMAIN Uploads |->
                       IF n \in DOMAIN Uploads THEN Uploads[n] ELSE NoArchive]
  BY DEF BackupInit
<1>2. NoMaker.pc = "idle" /\ NoRestore.archive = NoArchive
  BY DEF NoMaker, NoRestore
<1> QED BY <1>1, <1>2, TableAssumption DEF SoundInv, AllJobs

\* Where a restore is.
AtRest == {"idle", "signal"}
AfterProtect == {"fill", "out", "in", "mirrors", "tasks", "subs", "backup", "complete"}
AfterData == AfterProtect \cup {"protect"}
AfterDirs == {"mirrors", "tasks", "subs", "backup", "complete"}
Clean(t) == t.clean /\ t.pc \notin AtRest

\* What a restore has delivered by then, if nobody has disturbed it.
RowsSoFar(t, d) ==
  /\ t.pc \in AfterData => RowsOf(d, t.archive)
  /\ t.pc \in AfterProtect /\ t.pending => d.config.pending
ScriptsSoFar(t, l) ==
  (t.dir = "logs" \/ t.pc \in AfterDirs) /\ "scripts" \in t.archive.sel /\ t.archive.scripts # Absent =>
    l["scripts"] = t.archive.scripts
JobsSoFar(r, t, d, j) == r \notin Cli =>
  /\ t.pc \in {"subs", "backup", "complete"} => j.tasks = EnabledTasks(d)
  /\ t.pc \in {"backup", "complete"} => j.subs = ScheduledSubs(d)
  /\ t.pc = "complete" => j.backup = d.config.schedule
SoFar(r, t, d, l, j) == RowsSoFar(t, d) /\ ScriptsSoFar(t, l) /\ JobsSoFar(r, t, d, j)

\* A restore that nobody has disturbed is alone.
DeliverInv ==
  /\ \A r \in Restorers : Clean(rest[r]) => SoFar(r, rest[r], db, live, jobs)
  /\ \A r, q \in Restorers : Clean(rest[r]) /\ q # r => rest[q].pc \in AtRest

\* A restore goes on; others that are under way have been disturbed by it.
LEMMA RestoreGoesOn ==
  ASSUME DeliverInv, NEW r \in Restorers, rest[r].pc \notin AtRest,
         \A q \in Restorers \ {r} : rest'[q].pc = rest[q].pc /\ (rest'[q].clean => rest[q].clean),
         Clean(rest'[r]) => /\ rest[r].clean
                            /\ SoFar(r, rest[r], db, live, jobs) => SoFar(r, rest'[r], db', live', jobs')
  PROVE  DeliverInv'
<1>1. ASSUME NEW q \in Restorers \ {r} PROVE ~Clean(rest'[q])
  BY DEF DeliverInv, Clean
<1>2. ASSUME Clean(rest'[r])
      PROVE  /\ SoFar(r, rest'[r], db', live', jobs')
             /\ \A q \in Restorers \ {r} : rest'[q].pc \in AtRest
  BY <1>2 DEF DeliverInv, Clean
<1> QED BY <1>1, <1>2 DEF DeliverInv

\* The others are not concerned.
LEMMA StageGoesOn ==
  ASSUME WholeInv, DeliverInv, NEW r \in Restorers, NEW t, rest' = [rest EXCEPT ![r] = t],
         rest[r].pc \notin AtRest,
         Clean(t) => /\ rest[r].clean
                     /\ SoFar(r, rest[r], db, live, jobs) => SoFar(r, t, db', live', jobs')
  PROVE  DeliverInv'
<1>1. rest'[r] = t /\ \A q \in Restorers \ {r} : rest'[q] = rest[q]
  BY DEF WholeInv
<1> QED BY <1>1, RestoreGoesOn

\* Restores may be disturbed and may end.
LEMMA RestoresStay ==
  ASSUME DeliverInv,
         \A q \in Restorers : rest'[q].pc = rest[q].pc \/ rest'[q].pc \in AtRest,
         \A q \in Restorers : Clean(rest'[q]) =>
           /\ rest'[q] = rest[q]
           /\ SoFar(q, rest[q], db, live, jobs) => SoFar(q, rest[q], db', live', jobs')
  PROVE  DeliverInv'
BY DEF DeliverInv

LEMMA EndDelivers ==
  ASSUME WholeInv, DeliverInv, NEW r \in Restorers, FailRestore(r) \/ CompleteRestore(r),
         rest[r].pc \notin AtRest
  PROVE  DeliverInv'
<1>1. PICK t : rest' = [rest EXCEPT ![r] = t] /\ t \in {NoRestore, [NoRestore EXCEPT !.pc = "signal"]}
  BY DEF FailRestore, CompleteRestore
<1>2. t.pc \in AtRest
  BY <1>1 DEF NoRestore, AtRest
<1> QED BY <1>1, <1>2, StageGoesOn DEF Clean

LEMMA EarlyStepsDeliver ==
  ASSUME WholeInv, SoundInv, DeliverInv, NEW r \in Restorers,
         \/ ReadArchive(r) \/ snapshotProtectedRuntimeSystemConfigs(r) \/ restoreBackupManifest(r)
         \/ restoreProtectedRuntimeSystemConfigs(r)
  PROVE  DeliverInv'
<1>0. /\ DOMAIN rest = Restorers /\ RestFields \subseteq DOMAIN rest[r] /\ rest[r].pc \notin AtRest
      /\ live' = live
  BY DEF WholeInv, RestOK, ReadArchive, snapshotProtectedRuntimeSystemConfigs, restoreBackupManifest,
         restoreProtectedRuntimeSystemConfigs, AtRest
<1>1. CASE FailRestore(r)
  BY <1>0, <1>1, EndDelivers
<1>2. CASE ReadArchive(r) /\ ~FailRestore(r)
  <2> DEFINE t == [rest[r] EXCEPT !.pc = "snapshot"]
  <2>1. rest' = [rest EXCEPT ![r] = t]
    BY <1>2 DEF ReadArchive, NextStage
  <2>2. t.pc = "snapshot" /\ t.archive = rest[r].archive /\ t.clean = rest[r].clean /\ t.dir = rest[r].dir
    BY <1>0 DEF RestFields
  <2> HIDE DEF t
  <2>3. SoFar(r, rest[r], db, live, jobs) => SoFar(r, t, db', live', jobs')
    BY <1>0, <2>2 DEF SoFar, RowsSoFar, ScriptsSoFar, JobsSoFar, AfterData, AfterProtect, AfterDirs
  <2> QED BY <1>0, <2>1, <2>2, <2>3, StageGoesOn DEF Clean
<1>3. CASE snapshotProtectedRuntimeSystemConfigs(r)
  <2> DEFINE t == [rest[r] EXCEPT !.pending = db.config.pending, !.pc = "data"]
  <2>1. rest' = [rest EXCEPT ![r] = t]
    BY <1>0, <1>3 DEF snapshotProtectedRuntimeSystemConfigs
  <2>2. t.pc = "data" /\ t.archive = rest[r].archive /\ t.clean = rest[r].clean /\ t.dir = rest[r].dir
    BY <1>0 DEF RestFields
  <2> HIDE DEF t
  <2>3. SoFar(r, rest[r], db, live, jobs) => SoFar(r, t, db', live', jobs')
    BY <1>0, <2>2 DEF SoFar, RowsSoFar, ScriptsSoFar, JobsSoFar, AfterData, AfterProtect, AfterDirs
  <2> QED BY <1>0, <2>1, <2>2, <2>3, StageGoesOn DEF Clean
<1>4. CASE restoreBackupManifest(r) /\ ~FailRestore(r)
  <2> DEFINE f == Disturbed(Restorers \ {r})
             t == [rest[r] EXCEPT !.pc = "protect"]
  <2>1. /\ rest' = [f EXCEPT ![r].pc = "protect"] /\ db' = Restored(db, rest[r].archive)
        /\ rest[r].pc = "data"
    BY <1>4 DEF restoreBackupManifest
  <2>2. f[r] = rest[r] /\ DOMAIN f = Restorers
    BY DEF Disturbed
  <2>3. \A q \in Restorers \ {r} : f[q].pc = rest[q].pc /\ (f[q].clean => rest[q].clean)
    <3>1. \A q \in Restorers : [rest[q] EXCEPT !.clean = FALSE].clean = FALSE
      BY DEF WholeInv, RestOK, RestFields
    <3>2. \A q \in Restorers : f[q].pc = rest[q].pc
      BY DisturbedIsAlike DEF Alike
    <3> QED BY <3>1, <3>2 DEF Disturbed
  <2> HIDE DEF f
  <2>4. rest'[r] = t /\ \A q \in Restorers \ {r} : rest'[q] = f[q]
    BY <2>1, <2>2
  <2>5. t.pc = "protect" /\ t.archive = rest[r].archive /\ t.clean = rest[r].clean /\ t.dir = rest[r].dir
    BY <1>0 DEF RestFields
  <2> HIDE DEF t
  <2>6. RowsOf(db', t.archive)
    <3>1. Tables(rest[r].archive)
      BY <2>1 DEF WholeInv, RestOK, Reading, SoundInv
    <3> QED BY <2>1, <2>5, <3>1, RestoredIs DEF SoundInv
  <2>7. SoFar(r, rest[r], db, live, jobs) => SoFar(r, t, db', live', jobs')
    BY <1>0, <2>5, <2>6 DEF SoFar, RowsSoFar, ScriptsSoFar, JobsSoFar, AfterData, AfterProtect, AfterDirs
  <2> QED BY <1>0, <2>3, <2>4, <2>5, <2>7, RestoreGoesOn DEF Clean
<1>5. CASE restoreProtectedRuntimeSystemConfigs(r)
  <2> DEFINE t == [rest[r] EXCEPT !.pc = "fill"]
             c == [db.config EXCEPT !.pending = @ \/ rest[r].pending]
  <2>1. rest' = [rest EXCEPT ![r] = t] /\ db' = [db EXCEPT !.config = c] /\ rest[r].pc = "protect"
    BY <1>5 DEF restoreProtectedRuntimeSystemConfigs, NextStage
  <2>2. /\ t.pc = "fill" /\ t.archive = rest[r].archive /\ t.clean = rest[r].clean
        /\ t.dir = rest[r].dir /\ t.pending = rest[r].pending
    BY <1>0 DEF RestFields
  <2>3. c.schedule = db.config.schedule /\ c.pending = (db.config.pending \/ rest[r].pending)
    BY DEF SoundInv, Tables
  <2> HIDE DEF t, c
  <2>4. /\ db'.channels = db.channels /\ db'.tasks = db.tasks /\ db'.envs = db.envs /\ db'.keys = db.keys
        /\ db'.subs = db.subs /\ db'.deps = db.deps /\ db'.logs = db.logs /\ db'.config = c
        /\ db'.apps = db.apps
    BY <2>1 DEF SoundInv, Tables
  <2>5. RowsOf(db, rest[r].archive) => RowsOf(db', t.archive)
    BY <2>2, <2>3, <2>4 DEF RowsOf, TaskView, SubView, LogView
  <2>6. SoFar(r, rest[r], db, live, jobs) => SoFar(r, t, db', live', jobs')
    BY <1>0, <2>1, <2>2, <2>3, <2>4, <2>5
       DEF SoFar, RowsSoFar, ScriptsSoFar, JobsSoFar, AfterData, AfterProtect, AfterDirs
  <2> QED BY <1>0, <2>1, <2>2, <2>6, StageGoesOn DEF Clean
<1> QED BY <1>1, <1>2, <1>3, <1>4, <1>5

\* The scripts are there once their directory is done.
LEMMA DirStepsDeliver ==
  ASSUME WholeInv, DeliverInv, NEW r \in Restorers, NEW d \in Dirs,
         Fill(r, d) \/ SwapOut(r, d) \/ SwapIn(r, d)
  PROVE  DeliverInv'
<1>0. /\ DOMAIN rest = Restorers /\ RestFields \subseteq DOMAIN rest[r] /\ DOMAIN live = Dirs
      /\ rest[r].pc \in {"fill", "out", "in"} /\ rest[r].dir = d /\ UNCHANGED <<db, jobs>>
      /\ rest[r].pc \notin AtRest
  BY DEF WholeInv, RestOK, Fill, SwapOut, SwapIn, AtDir, AtRest
<1>1. CASE FailRestore(r)
  BY <1>0, <1>1, EndDelivers
<1>2. ASSUME NEW t, rest' = [rest EXCEPT ![r] = t], t.pc \in {"out", "in", "fill", "mirrors"},
             t.archive = rest[r].archive, t.clean = rest[r].clean, t.pending = rest[r].pending,
             ScriptsSoFar(rest[r], live) => ScriptsSoFar(t, live')
      PROVE  DeliverInv'
  <2>1. SoFar(r, rest[r], db, live, jobs) => SoFar(r, t, db', live', jobs')
    BY <1>0, <1>2 DEF SoFar, RowsSoFar, JobsSoFar, AfterData, AfterProtect
  <2> QED BY <1>0, <1>2, <2>1, StageGoesOn DEF Clean
<1>3. CASE AfterDir(r, d) /\ (live' = live \/ d = "logs")
           /\ (d = "scripts" => \/ "scripts" \notin rest[r].archive.sel
                                \/ rest[r].archive.scripts = Absent)
           /\ live'["scripts"] = live["scripts"]
  <2> DEFINE pc == IF d = "scripts" THEN "fill" ELSE "mirrors"
             t == [rest[r] EXCEPT !.pc = pc, !.dir = "logs"]
  <2>1. rest' = [rest EXCEPT ![r] = t]
    BY <1>0, <1>3 DEF AfterDir
  <2>2. /\ t.pc = pc /\ t.archive = rest[r].archive /\ t.clean = rest[r].clean
        /\ t.pending = rest[r].pending
    BY <1>0 DEF RestFields
  <2> HIDE DEF t
  <2>3. ScriptsSoFar(rest[r], live) => ScriptsSoFar(t, live')
    BY <1>0, <1>3, <2>2 DEF ScriptsSoFar, Dirs
  <2> QED BY <1>2, <2>1, <2>2, <2>3
<1>4. CASE AfterDir(r, d) /\ live' = [live EXCEPT ![d] = Filled(rest[r].archive, d)]
  <2> DEFINE pc == IF d = "scripts" THEN "fill" ELSE "mirrors"
             t == [rest[r] EXCEPT !.pc = pc, !.dir = "logs"]
  <2>1. rest' = [rest EXCEPT ![r] = t]
    BY <1>0, <1>4 DEF AfterDir
  <2>2. /\ t.pc = pc /\ t.archive = rest[r].archive /\ t.clean = rest[r].clean
        /\ t.pending = rest[r].pending
    BY <1>0 DEF RestFields
  <2> HIDE DEF t
  <2>3. d = "scripts" /\ rest[r].archive.scripts # Absent => live'["scripts"] = rest[r].archive.scripts
    BY <1>0, <1>4 DEF Filled, Content, Dirs
  <2>4. d = "logs" => live'["scripts"] = live["scripts"]
    BY <1>0, <1>4 DEF Dirs
  <2>5. ScriptsSoFar(rest[r], live) => ScriptsSoFar(t, live')
    BY <1>0, <2>2, <2>3, <2>4 DEF ScriptsSoFar, Dirs
  <2> QED BY <1>2, <2>1, <2>2, <2>5
<1>5. CASE Fill(r, d) /\ NextStage(r, "out")
  <2> DEFINE t == [rest[r] EXCEPT !.pc = "out"]
  <2>1. rest' = [rest EXCEPT ![r] = t] /\ live' = live
    BY <1>5 DEF NextStage, Fill
  <2>2. /\ t.pc = "out" /\ t.archive = rest[r].archive /\ t.clean = rest[r].clean
        /\ t.pending = rest[r].pending /\ t.dir = rest[r].dir
    BY <1>0 DEF RestFields
  <2> HIDE DEF t
  <2>3. ScriptsSoFar(rest[r], live) => ScriptsSoFar(t, live')
    BY <2>1, <2>2 DEF ScriptsSoFar, AfterDirs
  <2> QED BY <1>2, <2>1, <2>2, <2>3
<1>6. CASE rest' = [rest EXCEPT ![r].pc = "in", ![r].old = live[d]] /\ live' = [live EXCEPT ![d] = Absent]
  <2> DEFINE t == [rest[r] EXCEPT !.pc = "in", !.old = live[d]]
  <2>1. rest' = [rest EXCEPT ![r] = t]
    BY <1>0, <1>6
  <2>2. /\ t.pc = "in" /\ t.archive = rest[r].archive /\ t.clean = rest[r].clean
        /\ t.pending = rest[r].pending /\ t.dir = rest[r].dir
    BY <1>0 DEF RestFields
  <2> HIDE DEF t
  <2>3. d = "logs" => live'["scripts"] = live["scripts"]
    BY <1>0, <1>6 DEF Dirs
  <2>4. ScriptsSoFar(rest[r], live) => ScriptsSoFar(t, live')
    BY <1>0, <2>2, <2>3 DEF ScriptsSoFar, AfterDirs
  <2> QED BY <1>2, <2>1, <2>2, <2>4
<1>7. CASE Fill(r, d)
  <2>1. CASE AfterDir(r, d) /\ ~FailRestore(r) /\ ~NextStage(r, "out")
    <3>1. /\ live' = live
          /\ \/ d \notin rest[r].archive.sel
             \/ d = "logs"
             \/ Content(rest[r].archive, d) = Absent
      BY <1>7, <2>1 DEF Fill
    <3> QED BY <1>3, <2>1, <3>1 DEF Content
  <2> QED BY <1>1, <1>5, <1>7, <2>1 DEF Fill
<1>8. CASE SwapOut(r, d)
  BY <1>1, <1>6, <1>8 DEF SwapOut
<1>9. CASE SwapIn(r, d)
  BY <1>1, <1>4, <1>9 DEF SwapIn
<1> QED BY <1>7, <1>8, <1>9

\* The schedulers read the new rows, one after the other.
LEMMA LateStepsDeliver ==
  ASSUME WholeInv, SoundInv, DeliverInv, NEW r \in Restorers,
         ApplyDependencyMirrorSettings(r) \/ ReloadTasks(r) \/ ReloadSubs(r) \/ ReloadBackup(r)
         \/ CompleteRestore(r)
  PROVE  DeliverInv'
<1>0. /\ DOMAIN rest = Restorers /\ RestFields \subseteq DOMAIN rest[r] /\ UNCHANGED <<db, live>>
      /\ rest[r].pc \in AfterDirs /\ rest[r].pc \notin AtRest
  BY DEF WholeInv, RestOK, ApplyDependencyMirrorSettings, ReloadTasks, ReloadSubs, ReloadBackup, Reload,
         CompleteRestore, AfterDirs, AtRest
<1>1. CASE FailRestore(r) \/ CompleteRestore(r)
  BY <1>0, <1>1, EndDelivers
<1>2. ASSUME NEW pc \in {"tasks", "subs", "backup", "complete"}, rest' = [rest EXCEPT ![r].pc = pc],
             JobsSoFar(r, rest[r], db, jobs) => JobsSoFar(r, [rest[r] EXCEPT !.pc = pc], db, jobs')
      PROVE  DeliverInv'
  <2> DEFINE t == [rest[r] EXCEPT !.pc = pc]
  <2>1. rest' = [rest EXCEPT ![r] = t]
    BY <1>2
  <2>2. /\ t.pc = pc /\ t.archive = rest[r].archive /\ t.clean = rest[r].clean
        /\ t.pending = rest[r].pending /\ t.dir = rest[r].dir
    BY <1>0 DEF RestFields
  <2>3. JobsSoFar(r, rest[r], db, jobs) => JobsSoFar(r, t, db', jobs')
    BY <1>0, <1>2
  <2> HIDE DEF t
  <2>4. SoFar(r, rest[r], db, live, jobs) => SoFar(r, t, db', live', jobs')
    BY <1>0, <2>2, <2>3 DEF SoFar, RowsSoFar, ScriptsSoFar, AfterData, AfterProtect, AfterDirs
  <2> QED BY <1>0, <2>1, <2>2, <2>4, StageGoesOn DEF Clean
<1>3. \A pc : [rest[r] EXCEPT !.pc = pc].pc = pc
  BY <1>0 DEF RestFields
<1>4. jobs = [tasks |-> jobs.tasks, subs |-> jobs.subs, backup |-> jobs.backup]
  BY DEF SoundInv
<1>5. CASE ApplyDependencyMirrorSettings(r) /\ ~FailRestore(r)
  <2>1. rest' = [rest EXCEPT ![r].pc = "tasks"]
    BY <1>5 DEF ApplyDependencyMirrorSettings, NextStage
  <2> QED BY <1>2, <1>3, <2>1 DEF JobsSoFar
<1>6. CASE ReloadTasks(r)
  <2>1. /\ rest' = [rest EXCEPT ![r].pc = "subs"]
        /\ r \notin Cli => jobs' = [jobs EXCEPT !.tasks = EnabledTasks(db)]
    BY <1>6 DEF ReloadTasks, Reload, NextStage
  <2>2. r \notin Cli => jobs'.tasks = EnabledTasks(db)
    BY <1>4, <2>1
  <2> QED BY <1>2, <1>3, <2>1, <2>2 DEF JobsSoFar
<1>7. CASE ReloadSubs(r)
  <2>1. /\ rest' = [rest EXCEPT ![r].pc = "backup"] /\ rest[r].pc = "subs"
        /\ r \notin Cli => jobs' = [jobs EXCEPT !.subs = ScheduledSubs(db)]
    BY <1>7 DEF ReloadSubs, Reload, NextStage
  <2>2. r \notin Cli => jobs'.subs = ScheduledSubs(db) /\ jobs'.tasks = jobs.tasks
    BY <1>4, <2>1
  <2> QED BY <1>2, <1>3, <2>1, <2>2 DEF JobsSoFar
<1>8. CASE ReloadBackup(r)
  <2>1. /\ rest' = [rest EXCEPT ![r].pc = "complete"] /\ rest[r].pc = "backup"
        /\ r \notin Cli => jobs' = [jobs EXCEPT !.backup = db.config.schedule]
    BY <1>8 DEF ReloadBackup, Reload, NextStage
  <2>2. r \notin Cli => /\ jobs'.backup = db.config.schedule /\ jobs'.tasks = jobs.tasks
                        /\ jobs'.subs = jobs.subs
    BY <1>4, <2>1
  <2> QED BY <1>2, <1>3, <2>1, <2>2 DEF JobsSoFar
<1> QED BY <1>1, <1>5, <1>6, <1>7, <1>8

LEMMA BeginDelivers ==
  ASSUME WholeInv, DeliverInv, NEW r \in Restorers, NEW name \in DOMAIN archives, BeginRestore(r, name)
  PROVE  DeliverInv'
<1> DEFINE alone == \A q \in Restorers \ {r} : rest[q].pc = "idle"
           t == [NoRestore EXCEPT !.pc = "read", !.archive = archives[name], !.clean = alone]
           f == Disturbed(Restorers \ {r})
<1>1. rest' = [f EXCEPT ![r] = t]
  BY DEF BeginRestore
<1>2. t.pc = "read" /\ t.dir = "scripts" /\ t.clean = alone
  <2> HIDE DEF alone
  <2> QED BY DEF NoRestore
<1>3. DOMAIN f = Restorers /\ \A q \in Restorers \ {r} : f[q].pc = rest[q].pc /\ ~Clean(f[q])
  <2>1. \A q \in Restorers : [rest[q] EXCEPT !.clean = FALSE].clean = FALSE
    BY DEF WholeInv, RestOK, RestFields
  <2>2. DOMAIN f = Restorers /\ \A q \in Restorers : f[q].pc = rest[q].pc
    BY DisturbedIsAlike DEF Alike
  <2>3. \A q \in Restorers \ {r} : rest[q].pc # "idle" => f[q].clean = FALSE
    BY <2>1 DEF Disturbed
  <2> HIDE DEF f
  <2> QED BY <2>2, <2>3 DEF Clean, AtRest
<1> HIDE DEF t, f
<1>4. rest'[r] = t /\ \A q \in Restorers \ {r} : rest'[q].pc = rest[q].pc /\ ~Clean(rest'[q])
  BY <1>1, <1>3
<1>5. Clean(t) => \A q \in Restorers \ {r} : rest[q].pc \in AtRest
  BY <1>2 DEF Clean, AtRest
<1>6. SoFar(r, t, db', live', jobs')
  BY <1>2 DEF SoFar, RowsSoFar, ScriptsSoFar, JobsSoFar, AfterData, AfterProtect, AfterDirs
<1> QED BY <1>4, <1>5, <1>6 DEF DeliverInv

\* A start creates what misses, and no restore has delivered that.
LEMMA BootstrapDelivers ==
  ASSUME WholeInv, DeliverInv, Bootstrap, UNCHANGED <<db, rest>>, jobs' \in {jobs, AllJobs(db)}
  PROVE  DeliverInv'
<1>1. live["scripts"] # Absent => live'["scripts"] = live["scripts"]
  BY DEF Bootstrap, Dirs
<1>2. ASSUME NEW q \in Restorers, SoFar(q, rest[q], db, live, jobs) PROVE SoFar(q, rest[q], db', live', jobs')
  BY <1>1, <1>2 DEF SoFar, RowsSoFar, ScriptsSoFar, JobsSoFar, AllJobs
<1> QED BY <1>2, RestoresStay

LEMMA SignalDelivers ==
  ASSUME WholeInv, DeliverInv, NEW r \in Restorers, SignalServer(r)
  PROVE  DeliverInv'
<1>1. /\ UNCHANGED <<db, live>> /\ NoRestore.pc \in AtRest
      /\ \A q \in Restorers : rest'[q] = rest[q] \/ rest'[q] = NoRestore
      /\ \A q \in Restorers : Clean(rest'[q]) => q \in Cli \/ jobs' = jobs
  <2>1. NoRestore.pc \in AtRest /\ DOMAIN rest = Restorers
    BY DEF WholeInv, NoRestore, AtRest
  <2>2. CASE serverUp
    <3>1. /\ UNCHANGED <<db, live>>
          /\ rest' = [q \in Restorers |-> IF q = r \/ q \notin Cli THEN NoRestore ELSE rest[q]]
      BY <2>2 DEF SignalServer, ServerGone
    <3> QED BY <2>1, <3>1 DEF Clean
  <2>3. CASE ~serverUp
    BY <2>1, <2>3 DEF SignalServer
  <2> QED BY <2>1, <2>2, <2>3
<1>2. \A q \in Restorers : Clean(rest'[q]) => rest'[q] = rest[q]
  BY <1>1 DEF Clean
<1>3. ASSUME NEW q \in Restorers, Clean(rest'[q]), SoFar(q, rest[q], db, live, jobs)
      PROVE  SoFar(q, rest[q], db', live', jobs')
  BY <1>1, <1>3 DEF SoFar, JobsSoFar
<1> QED BY <1>1, <1>2, <1>3, RestoresStay

LEMMA DeliverStep ==
  ASSUME WholeInv, SoundInv, DeliverInv, [BackupNext]_backupVars
  PROVE  DeliverInv'
<1>0. /\ DOMAIN rest = Restorers
      /\ \A q \in Restorers : [rest[q] EXCEPT !.clean = FALSE].clean = FALSE
                              /\ [rest[q] EXCEPT !.clean = FALSE].pc = rest[q].pc
  BY DEF WholeInv, RestOK, RestFields
<1>1. CASE UNCHANGED <<db, live, jobs, rest>>
  BY <1>1, RestoresStay
<1>2. CASE \E r \in Restorers : \E n \in DOMAIN archives : BeginRestore(r, n)
  BY <1>2, BeginDelivers
<1>3. CASE \E r \in Restorers : RestoreStep(r)
  BY <1>3, EarlyStepsDeliver, DirStepsDeliver, LateStepsDeliver, SignalDelivers DEF RestoreStep
<1>4. CASE \E c \in Creators : BackupStep(c)
  BY <1>1, <1>4 DEF BackupStep, BeginBackup, snapshotConfigBundle, buildBackupManifest, createBackupArchive
<1>5. CASE \E n \in DOMAIN archives : DeleteBackup(n)
  BY <1>1, <1>5 DEF DeleteBackup
<1>6. CASE DisableTask \/ RunTask \/ DisableEnv \/ DisableSub \/ SetBackupSchedule
           \/ DeleteBackupSchedule \/ BeginUpdate
  <2>1. rest' = Disturbed(Restorers)
    BY <1>6 DEF DisableTask, RunTask, DisableEnv, DisableSub, SetBackupSchedule, DeleteBackupSchedule,
                BeginUpdate, EditRows
  <2>2. \A q \in Restorers : rest'[q].pc = rest[q].pc /\ (rest[q].pc # "idle" => ~rest'[q].clean)
    BY <1>0, <2>1 DEF Disturbed
  <2>3. \A q \in Restorers : ~Clean(rest'[q])
    BY <2>2 DEF Clean, AtRest
  <2> QED BY <2>2, <2>3, RestoresStay
<1>7. CASE CrashServer
  <2>1. rest' = [r \in Restorers |-> IF r \in Cli THEN [rest[r] EXCEPT !.clean = FALSE] ELSE NoRestore]
    BY <1>7 DEF CrashServer
  <2>2. NoRestore.pc \in AtRest
    BY DEF NoRestore, AtRest
  <2>3. \A q \in Restorers : (rest'[q].pc = rest[q].pc \/ rest'[q].pc \in AtRest) /\ ~Clean(rest'[q])
    BY <1>0, <2>1, <2>2 DEF Clean
  <2> QED BY <2>3, RestoresStay
<1>8. CASE StartServer \/ CliCommand
  BY <1>8, BootstrapDelivers DEF StartServer, CliCommand
<1>9. CASE UNCHANGED backupVars
  BY <1>1, <1>9 DEF backupVars
<1> QED BY <1>2, <1>3, <1>4, <1>5, <1>6, <1>7, <1>8, <1>9 DEF BackupNext

LEMMA DeliverInit == BackupInit => DeliverInv
<1> SUFFICES ASSUME BackupInit PROVE DeliverInv
  OBVIOUS
<1>1. rest = [r \in Restorers |-> NoRestore] /\ NoRestore.pc \in AtRest
  BY DEF BackupInit, NoRestore, AtRest
<1> QED BY <1>1 DEF DeliverInv, Clean

\* Whatever the tables hold, a restore that nobody disturbs and that reports
\* completion has delivered the rows and the scripts of its archive: every reference
\* between rows leads to the row of the same name, the subscriptions, channels and
\* apps are enabled, whatever they were, the logs are those whose task is there, an
\* update under way is kept, and the schedulers of the server run exactly the new rows.
THEOREM RestoresDeliver == BackupSpec => RestoreDelivers
<1>1. BackupSpec => []WholeInv
  BY WholeInit, WholeStep, PTL DEF BackupSpec
<1>2. BackupSpec => []SoundInv
  BY <1>1, SoundInit, SoundStep, PTL DEF BackupSpec
<1>3. BackupSpec => []DeliverInv
  BY <1>1, <1>2, DeliverInit, DeliverStep, PTL DEF BackupSpec
<1>4. ASSUME SoundInv, DeliverInv, NEW r \in Restorers, rest[r].pc = "complete", rest[r].clean
      PROVE  Delivered(r)
  <2>1. SoFar(r, rest[r], db, live, jobs)
    BY <1>4 DEF DeliverInv, Clean, AtRest
  <2>2. RowsOf(db, rest[r].archive) /\ (rest[r].pending => db.config.pending)
    BY <1>4, <2>1 DEF SoFar, RowsSoFar, AfterData, AfterProtect
  <2>3. "scripts" \in rest[r].archive.sel /\ rest[r].archive.scripts # Absent =>
          live["scripts"] = rest[r].archive.scripts
    BY <1>4, <2>1 DEF SoFar, ScriptsSoFar, AfterDirs
  <2>4. r \notin Cli => jobs = AllJobs(db)
    BY <1>4, <2>1 DEF SoFar, JobsSoFar, AllJobs, SoundInv
  <2> QED BY <2>2, <2>3, <2>4 DEF Delivered, RowsOf
<1>5. SoundInv /\ DeliverInv /\ [BackupNext]_backupVars =>
        [\A r \in Restorers :
           /\ rest[r].pc = "complete" /\ rest'[r].pc # "complete" /\ rest[r].clean
           /\ progress'[ProcessOf(r)].status = "completed"
           => Delivered(r)]_backupVars
  BY <1>4
<1> QED BY <1>2, <1>3, <1>5, PTL DEF BackupSpec, RestoreDelivers

-----------------------------------------------------------------------------
(***************************************************************************)
(* Updates: a running server has a version pending only while the silent   *)
(* update that recorded it is on its way or has yet to report its failure. *)
(*                                                                         *)
(* The server works on one update at a time, which ends with it; so when   *)
(* an update that a user asked for fails, the pending version is not its.  *)
(***************************************************************************)
UpdateFields == {"pc", "by", "auto", "version", "helper", "child"}
UpdateOK(t) ==
  /\ UpdateFields \subseteq DOMAIN t
  /\ t.by \in {"server", "ddp"}
  /\ t.auto => t.by = "server"
  /\ t.pc \in {"record", "failed"} => t.auto

\* An update that the server works on.
Serving(t) == t.pc \notin {"free", "failed"} /\ t.by = "server"
Silent(t) == Serving(t) /\ t.auto
Busy == updater["server"] \in {"running", "restarting"}

PendingInv ==
  /\ DOMAIN upd = Updates /\ DOMAIN updater = {"server", "ddp"} /\ {"stage", "version"} \subseteq DOMAIN panel
  /\ \A u \in Updates : UpdateOK(upd[u])
  /\ \A u \in Updates : Serving(upd[u]) => panel.stage = "on" /\ Busy
  /\ \A u, v \in Updates : Serving(upd[u]) /\ Serving(upd[v]) => u = v
  /\ panel.stage = "on" /\ pendingRow # NoVersion =>
       \E u \in Updates : upd[u].pc = "failed" \/ Silent(upd[u])

LEMMA FreeUpdateIsOK == UpdateOK(FreeUpdate) /\ ~Serving(FreeUpdate) /\ FreeUpdate.pc = "free"
BY DEF UpdateOK, FreeUpdate, UpdateFields, Serving

\* Clearing leaves what is still under way.
LEMMA ClearedIs ==
  ASSUME NEW f, \A u \in Updates : UpdateOK(f[u])
  PROVE  /\ DOMAIN Cleared(f) = Updates
         /\ \A u \in Updates : /\ UpdateOK(Cleared(f)[u]) /\ Cleared(f)[u].pc = f[u].pc
                               /\ f[u].pc # "free" => Cleared(f)[u] = f[u]
BY FreeUpdateIsOK DEF Cleared

\* What is cleared is not under way.
Stands(t, was) == UpdateOK(t) /\ t.pc = was.pc /\ (was.pc # "free" => t = was)

\* One update goes on; what others do is untouched.
LEMMA UpdateMoves ==
  ASSUME PendingInv, NEW u \in Updates, NEW t, UpdateOK(t),
         DOMAIN upd' = Updates, \A v \in Updates \ {u} : Stands(upd'[v], upd[v]), upd'[u] = t,
         {"stage", "version"} \subseteq DOMAIN panel', panel'.stage = panel.stage,
         DOMAIN updater' = {"server", "ddp"},
         Serving(t) => Serving(upd[u]) /\ Busy',
         Serving(upd[u]) \/ updater'["server"] = updater["server"],
         pendingRow' \in {pendingRow, NoVersion} \/ Silent(t),
         upd[u].pc = "failed" \/ Silent(upd[u]) =>
           t.pc = "failed" \/ Silent(t) \/ pendingRow' = NoVersion
  PROVE  PendingInv'
<1>1. \A v \in Updates : UpdateOK(upd'[v])
  BY DEF Stands
<1>2. \A v \in Updates : Serving(upd'[v]) => Serving(upd[v])
  BY DEF Stands, Serving
<1>3. ASSUME NEW v \in Updates, Serving(upd'[v]) PROVE panel'.stage = "on" /\ Busy'
  <2>1. Serving(upd[v])
    BY <1>2, <1>3
  <2>2. CASE v = u
    BY <1>3, <2>1, <2>2 DEF PendingInv
  <2>3. CASE v # u
    <3>1. ~Serving(upd[u])
      BY <2>1, <2>3 DEF PendingInv
    <3> QED BY <2>1, <3>1 DEF PendingInv, Busy
  <2> QED BY <2>2, <2>3
<1>4. \A v, w \in Updates : Serving(upd'[v]) /\ Serving(upd'[w]) => v = w
  BY <1>2 DEF PendingInv
<1>5. ASSUME panel'.stage = "on", pendingRow' # NoVersion
      PROVE  \E v \in Updates : upd'[v].pc = "failed" \/ Silent(upd'[v])
  <2>1. CASE Silent(t)
    BY <2>1
  <2>2. CASE pendingRow # NoVersion
    <3>1. PICK v \in Updates : upd[v].pc = "failed" \/ Silent(upd[v])
      BY <1>5, <2>2 DEF PendingInv
    <3> QED BY <1>5, <3>1 DEF Stands, Silent, Serving
  <2> QED BY <1>5, <2>1, <2>2
<1> QED BY <1>1, <1>3, <1>4, <1>5 DEF PendingInv, UpdateOK, Serving, Silent

LEMMA OneUpdateIs ==
  ASSUME PendingInv, NEW u \in Updates, NEW t, UpdateOK(t)
  PROVE  LET f == [upd EXCEPT ![u] = t] IN
         /\ DOMAIN f = Updates /\ f[u] = t
         /\ \A v \in Updates : UpdateOK(f[v])
         /\ \A v \in Updates \ {u} : Stands(f[v], upd[v])
BY DEF PendingInv, Stands

LEMMA OneClearedIs ==
  ASSUME PendingInv, NEW u \in Updates, NEW t, UpdateOK(t)
  PROVE  LET f == Cleared([upd EXCEPT ![u] = t]) IN
         /\ DOMAIN f = Updates
         /\ UpdateOK(f[u]) /\ f[u].pc = t.pc /\ (t.pc # "free" => f[u] = t)
         /\ \A v \in Updates \ {u} : Stands(f[v], upd[v])
<1> DEFINE g == [upd EXCEPT ![u] = t]
<1>1. DOMAIN g = Updates /\ g[u] = t /\ \A v \in Updates \ {u} : g[v] = upd[v]
  BY DEF PendingInv
<1>2. \A v \in Updates : UpdateOK(g[v])
  BY <1>1 DEF PendingInv
<1> HIDE DEF g
<1>3. /\ DOMAIN Cleared(g) = Updates
      /\ \A v \in Updates : /\ UpdateOK(Cleared(g)[v]) /\ Cleared(g)[v].pc = g[v].pc
                            /\ g[v].pc # "free" => Cleared(g)[v] = g[v]
  BY <1>2, ClearedIs
<1>4. \A v \in Updates \ {u} : Stands(Cleared(g)[v], upd[v])
  BY <1>1, <1>3 DEF Stands
<1> QED BY <1>1, <1>3, <1>4 DEF g

\* An update that begins in the server is the only one there.
LEMMA BeginsAlone ==
  ASSUME PendingInv, NEW u \in Updates, NEW auto \in BOOLEAN, panel.stage = "on", begin(u, "server", auto)
  PROVE  PendingInv'
<1> DEFINE t == [buildPanelUpdatePlan EXCEPT !.pc = IF auto THEN "record" ELSE "prepare", !.by = "server", !.auto = auto]
<1>1. /\ upd' = [upd EXCEPT ![u] = t] /\ updater' = [updater EXCEPT !["server"] = "running"]
      /\ UNCHANGED <<panel, pendingRow>> /\ upd[u].pc = "free"
      /\ \A v \in Updates : upd[v].pc # "free" => upd[v].by # "server" \/ upd[v].pc = "failed"
  BY DEF begin
<1>2. UpdateOK(t) /\ Serving(t)
  BY DEF buildPanelUpdatePlan, FreeUpdate, UpdateOK, UpdateFields, Serving
<1> HIDE DEF t
<1>3. DOMAIN upd' = Updates /\ upd'[u] = t /\ \A v \in Updates \ {u} : upd'[v] = upd[v]
  BY <1>1 DEF PendingInv
<1>4. \A v \in Updates : ~Serving(upd[v])
  BY <1>1 DEF Serving
<1>5. DOMAIN updater' = {"server", "ddp"} /\ updater'["server"] = "running"
  BY <1>1 DEF PendingInv
<1>6. \A v \in Updates : Serving(upd'[v]) => v = u
  BY <1>3, <1>4
<1>7. panel'.stage = "on" /\ pendingRow' # NoVersion => \E v \in Updates : upd'[v].pc = "failed" \/ Silent(upd'[v])
  BY <1>1, <1>3, <1>4 DEF PendingInv, Silent
<1>8. \A v \in Updates : UpdateOK(upd'[v])
  BY <1>2, <1>3 DEF PendingInv
<1> QED BY <1>1, <1>3, <1>5, <1>6, <1>7, <1>8 DEF PendingInv, Busy, UpdateOK, Serving, Silent

LEMMA BeginKeepsPending ==
  ASSUME PendingInv, NEW u \in Updates,
         UpdatePanel(u) \/ ExecutePanelUpdateForCLI(u) \/ (panel.stage = "on" /\ begin(u, "server", TRUE))
  PROVE  PendingInv'
<1>1. CASE UpdatePanel(u)
  <2>1. PICK auto \in BOOLEAN : begin(u, "server", auto) /\ panel.stage = "on"
    BY <1>1 DEF UpdatePanel
  <2> QED BY <2>1, BeginsAlone
<1>2. CASE panel.stage = "on" /\ begin(u, "server", TRUE)
  <2>1. PICK auto \in BOOLEAN : begin(u, "server", auto) /\ panel.stage = "on"
    BY <1>2
  <2> QED BY <2>1, BeginsAlone
<1>3. CASE ExecutePanelUpdateForCLI(u)
  <2> DEFINE t == [buildPanelUpdatePlan EXCEPT !.pc = "prepare", !.by = "ddp", !.auto = FALSE]
  <2>1. /\ upd' = [upd EXCEPT ![u] = t] /\ updater' = [updater EXCEPT !["ddp"] = "running"]
        /\ UNCHANGED <<panel, pendingRow>> /\ upd[u].pc = "free"
    BY <1>3 DEF ExecutePanelUpdateForCLI, begin
  <2>2. UpdateOK(t) /\ ~Serving(t)
    BY DEF buildPanelUpdatePlan, FreeUpdate, UpdateOK, UpdateFields, Serving
  <2> HIDE DEF t
  <2>3. DOMAIN updater' = {"server", "ddp"} /\ updater'["server"] = updater["server"]
    BY <2>1 DEF PendingInv
  <2>4. DOMAIN upd' = Updates /\ upd'[u] = t /\ \A v \in Updates \ {u} : Stands(upd'[v], upd[v])
    BY <2>1, <2>2, OneUpdateIs
  <2>5. ~(upd[u].pc = "failed" \/ Silent(upd[u]))
    BY <2>1 DEF Silent, Serving
  <2> QED BY <2>1, <2>2, <2>3, <2>4, <2>5, UpdateMoves DEF PendingInv
<1> QED BY <1>1, <1>2, <1>3

\* The steps of one update from its preparation to the start of its helper.
LEMMA UpdateGoesOn ==
  ASSUME PendingInv, NEW u \in Updates,
         \/ executePanelUpdate(u) \/ startUpdateHelper(u)
         \/ recordPendingAutoUpdate(u)
  PROVE  PendingInv'
<1>1. upd[u].pc \notin {"free", "failed"} /\ panel' = panel
  BY DEF executePanelUpdate, startUpdateHelper, recordPendingAutoUpdate, preflightUpdateRegistry,
         PullImage, TagImage, downloadBinaryUpdateAsset, extractBinaryUpdateArchive, NextStep
<1>2. /\ updater' = updater
         \/ \E status \in {"running", "restarting"} : updater' = [updater EXCEPT ![upd[u].by] = status]
      /\ pendingRow' = pendingRow \/ upd[u].pc = "record"
  BY DEF executePanelUpdate, startUpdateHelper, recordPendingAutoUpdate, preflightUpdateRegistry,
         PullImage, TagImage, downloadBinaryUpdateAsset, extractBinaryUpdateArchive, NextStep
<1>3. UpdateOK(upd[u])
  BY DEF PendingInv
<1>4. ASSUME NEW pc, pc \notin {"free", "failed", "record"}, upd' = [upd EXCEPT ![u].pc = pc]
      PROVE  \E t : /\ upd' = [upd EXCEPT ![u] = t] /\ UpdateFields \subseteq DOMAIN t
                    /\ t.pc \notin {"free", "failed", "record"} /\ t.by = upd[u].by /\ t.auto = upd[u].auto
  <2> DEFINE t == [upd[u] EXCEPT !.pc = pc]
  <2>1. upd' = [upd EXCEPT ![u] = t] /\ UpdateFields \subseteq DOMAIN t /\ t.pc = pc
        /\ t.by = upd[u].by /\ t.auto = upd[u].auto
    BY <1>3, <1>4 DEF UpdateOK, UpdateFields
  <2> HIDE DEF t
  <2> QED BY <1>4, <2>1
<1>5. PICK t : /\ upd' = [upd EXCEPT ![u] = t] /\ UpdateFields \subseteq DOMAIN t
               /\ t.pc \notin {"free", "failed", "record"} /\ t.by = upd[u].by /\ t.auto = upd[u].auto
  <2>1. CASE executePanelUpdate(u)
    <3>1. PICK pc \in {"fetch", "tag", "schedule", "extract"} : upd' = [upd EXCEPT ![u].pc = pc]
      BY <2>1 DEF executePanelUpdate, preflightUpdateRegistry, PullImage, TagImage,
                  downloadBinaryUpdateAsset, extractBinaryUpdateArchive, NextStep
    <3> QED BY <1>4, <3>1
  <2>2. CASE startUpdateHelper(u)
    <3> DEFINE child == upd[u].by = "server"
               t == [upd[u] EXCEPT !.pc = "exit", !.helper = "begin", !.child = child]
    <3>1. upd' = [upd EXCEPT ![u] = t]
      BY <2>2 DEF startUpdateHelper
    <3> HIDE DEF child
    <3>2. UpdateFields \subseteq DOMAIN t /\ t.pc = "exit" /\ t.by = upd[u].by /\ t.auto = upd[u].auto
      BY <1>3 DEF UpdateOK, UpdateFields
    <3> HIDE DEF t
    <3> QED BY <3>1, <3>2
  <2>3. CASE recordPendingAutoUpdate(u)
    <3>1. PICK pc \in {"prepare"} : upd' = [upd EXCEPT ![u].pc = pc]
      BY <2>3 DEF recordPendingAutoUpdate
    <3> QED BY <1>4, <3>1
  <2> QED BY <2>1, <2>2, <2>3
<1>6. UpdateOK(t) /\ (Serving(t) <=> Serving(upd[u])) /\ (Silent(t) <=> Silent(upd[u]))
  BY <1>1, <1>3, <1>5 DEF UpdateOK, Serving, Silent
<1>7. DOMAIN upd' = Updates /\ upd'[u] = t /\ \A v \in Updates \ {u} : Stands(upd'[v], upd[v])
  BY <1>5, <1>6, OneUpdateIs
<1>8. /\ DOMAIN updater' = {"server", "ddp"}
      /\ Serving(upd[u]) => Busy'
      /\ Serving(upd[u]) \/ updater'["server"] = updater["server"]
  BY <1>1, <1>2, <1>3 DEF PendingInv, Busy, Serving, UpdateOK
<1>9. pendingRow' \in {pendingRow, NoVersion} \/ Silent(t)
  BY <1>1, <1>2, <1>3, <1>6 DEF UpdateOK, Silent, Serving
<1>10. upd[u].pc = "failed" \/ Silent(upd[u]) => Silent(t)
  BY <1>1, <1>6
<1>11. {"stage", "version"} \subseteq DOMAIN panel' /\ panel'.stage = panel.stage
  BY <1>1 DEF PendingInv
<1> QED BY <1>6, <1>7, <1>8, <1>9, <1>10, <1>11, UpdateMoves

\* A silent update that fails waits to be reported.
LEMMA FailKeepsPending ==
  ASSUME PendingInv, NEW u \in Updates, failPanelUpdate(u) \/ notifyAutoUpdateFailure(u)
  PROVE  PendingInv'
<1>1. UpdateOK(upd[u]) /\ panel' = panel
  BY DEF PendingInv, failPanelUpdate, notifyAutoUpdateFailure
<1>2. CASE notifyAutoUpdateFailure(u)
  <2>1. upd' = [upd EXCEPT ![u] = FreeUpdate] /\ pendingRow' = NoVersion /\ updater' = updater
    BY <1>2 DEF notifyAutoUpdateFailure
  <2>2. DOMAIN upd' = Updates /\ upd'[u] = FreeUpdate /\ \A v \in Updates \ {u} : Stands(upd'[v], upd[v])
    BY <2>1, FreeUpdateIsOK, OneUpdateIs
  <2> QED BY <1>1, <2>1, <2>2, FreeUpdateIsOK, UpdateMoves DEF PendingInv
<1>3. CASE failPanelUpdate(u)
  <2> DEFINE pc == IF upd[u].auto THEN "failed" ELSE "free"
             t == [upd[u] EXCEPT !.pc = pc]
             f == Cleared([upd EXCEPT ![u] = t])
  <2>1. /\ upd[u].pc \notin {"free", "failed"} /\ upd' = f /\ pendingRow' = pendingRow
        /\ updater' = [updater EXCEPT ![upd[u].by] = "failed"]
    BY <1>3 DEF failPanelUpdate
  <2>2. UpdateOK(t) /\ t.pc = pc
    BY <1>1 DEF UpdateOK, UpdateFields
  <2> HIDE DEF t
  <2>3. /\ DOMAIN f = Updates /\ UpdateOK(f[u]) /\ f[u].pc = pc
        /\ \A v \in Updates \ {u} : Stands(f[v], upd[v])
    BY <2>2, OneClearedIs
  <2> HIDE DEF f
  <2>4. ~Serving(f[u]) /\ (Silent(upd[u]) => f[u].pc = "failed") /\ upd[u].pc # "failed"
    BY <2>1, <2>3 DEF Serving, Silent
  <2>5. DOMAIN updater' = {"server", "ddp"} /\ (Serving(upd[u]) \/ updater'["server"] = updater["server"])
    BY <1>1, <2>1 DEF PendingInv, Serving, UpdateOK
  <2>6. \A v \in Updates \ {u} : Stands(upd'[v], upd[v])
    BY <2>1, <2>3
  <2>7. {"stage", "version"} \subseteq DOMAIN panel' /\ panel'.stage = panel.stage
    BY <1>1 DEF PendingInv
  <2> QED BY <2>1, <2>3, <2>4, <2>5, <2>6, <2>7, UpdateMoves
<1> QED BY <1>2, <1>3

\* When the server ends, so do its updates.
LEMMA ServerEndKeeps ==
  ASSUME PendingInv, NEW f, NEW service \in BOOLEAN, \A u \in Updates : UpdateOK(f[u]), EndServer(f, service)
  PROVE  PendingInv'
<1> DEFINE g == [u \in Updates |->
        IF f[u].by = "server" \/ deploy = "docker"
        THEN [f[u] EXCEPT !.pc = "free", !.helper = IF service /\ f[u].child THEN "none" ELSE @]
        ELSE f[u]]
<1>1. upd' = Cleared(g)
  BY DEF EndServer, WithoutServer
<1>2. ASSUME NEW u \in Updates PROVE UpdateOK(g[u]) /\ ~Serving(g[u])
  <2>1. UpdateOK(f[u])
    OBVIOUS
  <2>2. CASE f[u].by = "server" \/ deploy = "docker"
    <3> DEFINE helper == IF service /\ f[u].child THEN "none" ELSE f[u].helper
               t == [f[u] EXCEPT !.pc = "free", !.helper = helper]
    <3>1. UpdateOK(t) /\ t.pc = "free"
      BY <2>1 DEF UpdateOK, UpdateFields
    <3>2. g[u] = t
      BY <2>1, <2>2 DEF UpdateOK, UpdateFields
    <3> HIDE DEF t, g
    <3> QED BY <3>1, <3>2 DEF Serving
  <2>3. CASE ~(f[u].by = "server" \/ deploy = "docker")
    <3>1. g[u] = f[u] /\ f[u].by # "server"
      BY <2>3
    <3> QED BY <2>1, <3>1 DEF Serving
  <2> QED BY <2>2, <2>3
<1> HIDE DEF g
<1>3. /\ DOMAIN upd' = Updates
      /\ \A u \in Updates : UpdateOK(upd'[u]) /\ ~Serving(upd'[u])
  BY <1>1, <1>2, ClearedIs, FreeUpdateIsOK DEF Serving
<1>4. DOMAIN updater' = {"server", "ddp"} /\ {"stage", "version"} \subseteq DOMAIN panel' /\ panel'.stage = "off"
  BY DEF EndServer, PendingInv
<1> QED BY <1>3, <1>4 DEF PendingInv, UpdateOK, Serving

\* Steps of the helper and of an update that only end it leave the server's work.
LEMMA HelperMoves ==
  ASSUME PendingInv, NEW u \in Updates, NEW t, UpdateOK(t), t.by = upd[u].by, t.auto = upd[u].auto,
         t.pc = upd[u].pc \/ (t.pc = "free" /\ ~Serving(upd[u]) /\ upd[u].pc # "failed"),
         upd' = Cleared([upd EXCEPT ![u] = t]), UNCHANGED pendingRow,
         {"stage", "version"} \subseteq DOMAIN panel', panel'.stage = panel.stage,
         DOMAIN updater' = {"server", "ddp"}, updater'["server"] = updater["server"]
  PROVE  PendingInv'
<1>1. /\ DOMAIN upd' = Updates /\ UpdateOK(upd'[u]) /\ upd'[u].pc = t.pc /\ (t.pc # "free" => upd'[u] = t)
      /\ \A v \in Updates \ {u} : Stands(upd'[v], upd[v])
  BY OneClearedIs
<1>2. Serving(upd'[u]) => Serving(upd[u]) /\ Busy'
  BY <1>1 DEF Serving, PendingInv, Busy
<1>3. upd[u].pc = "failed" \/ Silent(upd[u]) => upd'[u].pc = "failed" \/ Silent(upd'[u])
  BY <1>1 DEF Serving, Silent
<1> QED BY <1>1, <1>2, <1>3, UpdateMoves

LEMMA StepTo ==
  ASSUME PendingInv, NEW u \in Updates, NEW step
  PROVE  LET t == [upd[u] EXCEPT !.helper = step] IN
         /\ UpdateOK(t) /\ t.by = upd[u].by /\ t.auto = upd[u].auto /\ t.pc = upd[u].pc
         /\ To(u, step) = Cleared([upd EXCEPT ![u] = t])
<1> DEFINE t == [upd[u] EXCEPT !.helper = step]
<1>1. UpdateOK(upd[u])
  BY DEF PendingInv
<1>2. UpdateFields \subseteq DOMAIN t /\ t.by = upd[u].by /\ t.auto = upd[u].auto /\ t.pc = upd[u].pc
  BY <1>1 DEF UpdateOK, UpdateFields
<1>3. To(u, step) = Cleared([upd EXCEPT ![u] = t])
  BY DEF To
<1> HIDE DEF t
<1>4. UpdateOK(t)
  BY <1>1, <1>2 DEF UpdateOK
<1> QED BY <1>2, <1>3, <1>4 DEF t

LEMMA StepToIsOK ==
  ASSUME PendingInv, NEW u \in Updates, NEW step
  PROVE  \A v \in Updates : UpdateOK(To(u, step)[v])
<1> DEFINE t == [upd[u] EXCEPT !.helper = step]
           f == Cleared([upd EXCEPT ![u] = t])
<1>1. UpdateOK(t) /\ To(u, step) = f
  BY StepTo
<1> HIDE DEF t
<1>2. UpdateOK(f[u]) /\ \A v \in Updates \ {u} : Stands(f[v], upd[v])
  BY <1>1, OneClearedIs
<1> QED BY <1>1, <1>2 DEF Stands

\* While the server is not up to work, there is no update of it.
LEMMA OffDuty ==
  ASSUME PendingInv, panel.stage # "on", panel'.stage # "on" \/ pendingRow' = NoVersion,
         {"stage", "version"} \subseteq DOMAIN panel', DOMAIN updater' = {"server", "ddp"},
         DOMAIN upd' = Updates, \A u \in Updates : UpdateOK(upd'[u]) /\ upd'[u].pc = upd[u].pc
                                                   /\ (upd[u].pc # "free" => upd'[u].by = upd[u].by)
  PROVE  PendingInv'
<1>1. \A u \in Updates : ~Serving(upd'[u])
  BY DEF PendingInv, Serving
<1> QED BY <1>1 DEF PendingInv, UpdateOK, Serving

LEMMA StepToStands ==
  ASSUME PendingInv, NEW u \in Updates, NEW step
  PROVE  /\ DOMAIN To(u, step) = Updates
         /\ \A v \in Updates : /\ UpdateOK(To(u, step)[v]) /\ To(u, step)[v].pc = upd[v].pc
                               /\ upd[v].pc # "free" => To(u, step)[v].by = upd[v].by
<1> DEFINE t == [upd[u] EXCEPT !.helper = step]
           f == Cleared([upd EXCEPT ![u] = t])
<1>1. UpdateOK(t) /\ To(u, step) = f /\ t.by = upd[u].by /\ t.pc = upd[u].pc
  BY StepTo
<1> HIDE DEF t
<1>2. /\ DOMAIN f = Updates /\ UpdateOK(f[u]) /\ f[u].pc = t.pc /\ (t.pc # "free" => f[u] = t)
      /\ \A v \in Updates \ {u} : Stands(f[v], upd[v])
  BY <1>1, OneClearedIs
<1> HIDE DEF f
<1>3. ASSUME NEW v \in Updates
      PROVE  UpdateOK(f[v]) /\ f[v].pc = upd[v].pc /\ (upd[v].pc # "free" => f[v].by = upd[v].by)
  BY <1>1, <1>2 DEF Stands
<1> QED BY <1>1, <1>2, <1>3

LEMMA ExitKeepsPending ==
  ASSUME PendingInv, NEW u \in Updates, ExitAfterHelper(u)
  PROVE  PendingInv'
<1>1. UpdateOK(upd[u]) /\ upd[u].pc = "exit" /\ UNCHANGED pendingRow
  BY DEF PendingInv, ExitAfterHelper
<1>2. CASE upd[u].by = "ddp"
  <2> DEFINE t == [upd[u] EXCEPT !.pc = "free"]
  <2>1. /\ upd' = Cleared([upd EXCEPT ![u] = t]) /\ updater' = [updater EXCEPT !["ddp"] = "idle"]
        /\ panel' = panel
    BY <1>2 DEF ExitAfterHelper
  <2>2. UpdateOK(t) /\ t.by = upd[u].by /\ t.auto = upd[u].auto /\ t.pc = "free"
    BY <1>1 DEF UpdateOK, UpdateFields
  <2> HIDE DEF t
  <2>3. ~Serving(upd[u]) /\ upd[u].pc # "failed"
    BY <1>1, <1>2 DEF Serving
  <2>4. DOMAIN updater' = {"server", "ddp"} /\ updater'["server"] = updater["server"]
        /\ {"stage", "version"} \subseteq DOMAIN panel' /\ panel'.stage = panel.stage
    BY <2>1 DEF PendingInv
  <2> QED BY <1>1, <2>1, <2>2, <2>3, <2>4, HelperMoves
<1>3. CASE upd[u].by # "ddp"
  <2>1. PICK service \in BOOLEAN : EndServer(upd, service)
    BY <1>3 DEF ExitAfterHelper
  <2>2. \A v \in Updates : UpdateOK(upd[v])
    BY DEF PendingInv
  <2> QED BY <2>1, <2>2, ServerEndKeeps
<1> QED BY <1>2, <1>3

LEMMA HelperKeepsPending ==
  ASSUME PendingInv, NEW u \in Updates, HelperStep(u)
  PROVE  PendingInv'
<1>1. UNCHANGED pendingRow /\ DOMAIN updater = {"server", "ddp"} /\ {"stage", "version"} \subseteq DOMAIN panel
  BY DEF HelperStep, RemoveContainer, RunContainer, StopForHelper, StartCopied, CopyFiles, HelperRest,
         PendingInv
<1>2. \/ \E step : \E service \in BOOLEAN : EndServer(To(u, step), service)
      \/ \E step : upd' = To(u, step) /\ updater' = updater
                   /\ (panel' = panel \/ (~Up /\ panel' = [stage |-> "boot", version |-> installed["binary"]]))
  <2>1. CASE RemoveContainer(u)
    <3>1. CASE EndServer(To(u, "run"), FALSE)
      <4>1. \E service \in BOOLEAN : EndServer(To(u, "run"), service)
        BY <3>1
      <4> QED BY <4>1
    <3>2. CASE upd' = To(u, "run") /\ UNCHANGED <<panel, updater>>
      BY <3>2
    <3> QED BY <2>1, <3>1, <3>2 DEF RemoveContainer
  <2>2. CASE RunContainer(u)
    BY <2>2 DEF RunContainer
  <2>3. CASE StopForHelper(u)
    <3>1. CASE EndServer(To(u, "binary"), deploy = "systemd")
      <4>1. \E service \in BOOLEAN : EndServer(To(u, "binary"), service)
        BY <3>1
      <4> QED BY <4>1
    <3>2. CASE upd' = To(u, "binary") /\ UNCHANGED <<panel, updater>>
      BY <3>2
    <3> QED BY <2>3, <3>1, <3>2 DEF StopForHelper
  <2>4. CASE StartCopied(u)
    BY <2>4 DEF StartCopied
  <2>5. CASE CopyFiles(u, "binary", "web") \/ CopyFiles(u, "web", "start")
    BY <2>5 DEF CopyFiles
  <2> QED BY <2>1, <2>2, <2>3, <2>4, <2>5 DEF HelperStep
<1>3. CASE \E step : \E service \in BOOLEAN : EndServer(To(u, step), service)
  BY <1>3, StepToIsOK, ServerEndKeeps
<1>4. ASSUME NEW step, upd' = To(u, step), updater' = updater, panel' = panel
      PROVE  PendingInv'
  <2> DEFINE t == [upd[u] EXCEPT !.helper = step]
  <2>1. /\ UpdateOK(t) /\ t.by = upd[u].by /\ t.auto = upd[u].auto /\ t.pc = upd[u].pc
        /\ upd' = Cleared([upd EXCEPT ![u] = t])
    BY <1>4, StepTo
  <2> HIDE DEF t
  <2> QED BY <1>1, <1>4, <2>1, HelperMoves
<1>5. ASSUME NEW step, upd' = To(u, step), updater' = updater, ~Up,
             panel' = [stage |-> "boot", version |-> installed["binary"]]
      PROVE  PendingInv'
  BY <1>1, <1>5, StepToStands, OffDuty DEF Up
<1> QED BY <1>2, <1>3, <1>4, <1>5

\* The server ends, starts, and takes up its work with no version pending.
LEMMA ServerLifeKeeps ==
  ASSUME PendingInv, CrashPanel \/ StartPanel \/ FinalizePendingAutoUpdateOnStartup
  PROVE  PendingInv'
<1>1. CASE CrashPanel
  <2>1. PICK service \in BOOLEAN : EndServer(upd, service)
    BY <1>1 DEF CrashPanel
  <2>2. \A v \in Updates : UpdateOK(upd[v])
    BY DEF PendingInv
  <2> QED BY <2>1, <2>2, ServerEndKeeps
<1>2. CASE StartPanel \/ FinalizePendingAutoUpdateOnStartup
  <2>1. /\ UNCHANGED <<upd, updater>> /\ panel.stage # "on"
        /\ panel'.stage # "on" \/ pendingRow' = NoVersion
        /\ {"stage", "version"} \subseteq DOMAIN panel'
    BY <1>2 DEF StartPanel, FinalizePendingAutoUpdateOnStartup, PendingInv
  <2>2. \A v \in Updates : UpdateOK(upd'[v]) /\ upd'[v] = upd[v]
    BY <2>1 DEF PendingInv
  <2>3. DOMAIN updater' = {"server", "ddp"} /\ DOMAIN upd' = Updates
    BY <2>1 DEF PendingInv
  <2> QED BY <2>1, <2>2, <2>3, OffDuty
<1> QED BY <1>1, <1>2

LEMMA NothingOfUpdatesMoves ==
  ASSUME PendingInv, UNCHANGED <<upd, updater, panel, pendingRow>>
  PROVE  PendingInv'
BY DEF PendingInv, UpdateOK, Serving, Silent, Busy

LEMMA PendingStep ==
  ASSUME PendingInv, [UpdateNext]_updateVars
  PROVE  PendingInv'
<1>1. CASE UNCHANGED updateVars \/ Release \/ DayPasses
  BY <1>1, NothingOfUpdatesMoves DEF updateVars, Release, DayPasses
<1>2. CASE \E u \in Updates : UpdatePanel(u) \/ ExecutePanelUpdateForCLI(u)
  BY <1>2, BeginKeepsPending
<1>3. CASE \E u \in Updates : UpdateStep(u) \/ failPanelUpdate(u)
  BY <1>3, UpdateGoesOn, FailKeepsPending, ExitKeepsPending DEF UpdateStep
<1>4. CASE \E u \in Updates : HelperStep(u)
  BY <1>4, HelperKeepsPending
<1>5. CASE runPanelAutoUpdateCheck
  <2>1. CASE \E u \in Updates : begin(u, "server", TRUE)
    BY <1>5, <2>1, BeginKeepsPending DEF runPanelAutoUpdateCheck
  <2>2. CASE UNCHANGED <<upd, updater, panel, pendingRow>>
    BY <2>2, NothingOfUpdatesMoves
  <2> QED BY <1>5, <2>1, <2>2 DEF runPanelAutoUpdateCheck
<1>6. CASE CrashPanel \/ StartPanel \/ FinalizePendingAutoUpdateOnStartup
  BY <1>6, ServerLifeKeeps
<1> QED BY <1>1, <1>2, <1>3, <1>4, <1>5, <1>6 DEF UpdateNext

LEMMA PendingInit == UpdateInit => PendingInv
BY FreeUpdateIsOK DEF UpdateInit, PendingInv

\* However updates of users, of ddp and of the daily check, failures, helpers and
\* ends of the server interleave: a server that is up has a version pending only
\* while its update runs or restarts it, or is about to report its failure.
THEOREM PendingVersionsHaveOwners == UpdateSpec => []PendingHasOwner
<1>1. UpdateSpec => []PendingInv
  BY PendingInit, PendingStep, PTL DEF UpdateSpec
<1>2. PendingInv => PendingHasOwner
  BY DEF PendingInv, PendingHasOwner, Silent, Busy
<1> QED BY <1>1, <1>2, PTL

-----------------------------------------------------------------------------
(***************************************************************************)
(* The order of the environment variables, whatever positions the rows had *)
(* and however the requests interleave.                                    *)
(*                                                                         *)
(* No invariant about the positions is needed, and none holds: a restored  *)
(* backup may leave rows that share one.  The order of the page is strict  *)
(* and total all the same, since rows that share a position are ordered by *)
(* their ids, and the list a move works on is sorted by it; hence places   *)
(* that ascend along that list leave its order as it was.                  *)
(***************************************************************************)

EnvRow == [sortOrder : {Pinned, Normal}, position : Int]
EnvRequest == [op : {"none", "create", "merge", "sort", "top", "untop"},
               pc : {"free", "look", "insert", "move"}, id : Nat, arg : Int, items : Int]

EnvInv ==
  /\ envIds \in Nat
  /\ DOMAIN env \subseteq 1..envIds
  /\ env \in [DOMAIN env -> EnvRow]
  /\ envRequest \in [EnvClients -> EnvRequest]

LEMMA EnvInitially == EnvInit => EnvInv
<1>. SUFFICES ASSUME EnvInit PROVE EnvInv
  OBVIOUS
<1>1. envIds \in Nat
  BY EnvAssumption DEF EnvInit
<1>2. DOMAIN env \subseteq 1..envIds /\ env \in [DOMAIN env -> EnvRow]
  BY DEF EnvInit, EnvRow, Normal
<1>3. envRequest \in [EnvClients -> EnvRequest]
  BY DEF EnvInit, EnvRequest, NoRequest
<1>. QED BY <1>1, <1>2, <1>3 DEF EnvInv

LEMMA RowsAreFinite == EnvInv => IsFiniteSet(DOMAIN env)
  BY FS_Interval, FS_Subset DEF EnvInv

LOCAL INSTANCE SequencesExt
LOCAL INSTANCE FiniteSetsExt

\* The order of the page is strict and total, whatever positions the rows share.
LEMMA PageIsOrdered ==
  ASSUME EnvInv, NEW ids \in SUBSET DOMAIN env
  PROVE  Orders({p \in ids \X ids : ComesBefore(p[1], p[2])}, ids)
<1>. DEFINE R == {p \in ids \X ids : ComesBefore(p[1], p[2])}
<1>1. \A i \in ids : i \in Int /\ env[i].sortOrder \in Int /\ env[i].position \in Int
  BY DEF EnvInv, EnvRow, Pinned, Normal
<1>2. \A i, j \in ids : <<i, j>> \in R <=> ComesBefore(i, j)
  OBVIOUS
<1>. HIDE DEF R
<1>3. \A i \in ids : ~ComesBefore(i, i)
  BY <1>1 DEF ComesBefore
<1>4. \A i, j \in ids : i # j => ComesBefore(i, j) \/ ComesBefore(j, i)
  BY <1>1 DEF ComesBefore
<1>5. \A i, j, k \in ids : ComesBefore(i, j) /\ ComesBefore(j, k) => ComesBefore(i, k)
  BY <1>1 DEF ComesBefore
<1>. QED
  BY <1>2, <1>3, <1>4, <1>5 DEF Orders, R

\* The page lists every row once, in its order.
LEMMA PageIsSorted ==
  ASSUME EnvInv, NEW ids \in SUBSET DOMAIN env
  PROVE  LET q == orderedEnvQuery(ids)
         IN  /\ q \in [1..Cardinality(ids) -> ids] /\ Cardinality(ids) \in Nat
             /\ \A k, l \in 1..Cardinality(ids) : k < l => ComesBefore(q[k], q[l])
             /\ \A k, l \in 1..Cardinality(ids) : q[k] = q[l] => k = l
             /\ \A i \in ids : \E k \in 1..Cardinality(ids) : q[k] = i
<1>. DEFINE R == {p \in ids \X ids : ComesBefore(p[1], p[2])}
            n == Cardinality(ids)
            q == orderedEnvQuery(ids)
<1>1. IsFiniteSet(ids) /\ n \in Nat
  BY RowsAreFinite, FS_Subset, FS_CardinalityType
<1>2. Orders(R, ids)
  BY PageIsOrdered
<1>3. \A i, j \in ids : <<i, j>> \in R <=> ComesBefore(i, j)
  OBVIOUS
<1>. HIDE DEF R
<1>4. \E s \in [1..n -> ids] : Ascends(s, R)
  BY <1>1, <1>2, Ranking
<1>5. \E s \in [1..n -> ids] : \A k, l \in DOMAIN s : k < l => ComesBefore(s[k], s[l])
  <2>. HIDE DEF n
  <2>1. PICK s \in [1..n -> ids] : Ascends(s, R)
    BY <1>4
  <2>. QED BY <2>1, <1>3 DEF Ascends
<1>6. q \in [1..n -> ids] /\ \A k, l \in DOMAIN q : k < l => ComesBefore(q[k], q[l])
  BY <1>5 DEF orderedEnvQuery, Sorted
<1>. HIDE DEF q
<1>7. Ascends(q, R)
  <2>. HIDE DEF n
  <2>. QED BY <1>6, <1>3 DEF Ascends
<1>8. /\ \A i \in ids : \E k \in DOMAIN q : q[k] = i
      /\ \A k, l \in DOMAIN q : q[k] = q[l] => k = l
  BY <1>1, <1>2, <1>6, <1>7, AscendingIsOnto
<1>9. DOMAIN q = 1..n
  BY <1>6
<1>. QED
  BY <1>1, <1>6, <1>8, <1>9 DEF q

\* The ends of a list.
LEMMA EndsOfList ==
  ASSUME EnvInv, NEW order, Bucket(order) # {}
  PROVE  LET P == Positions(order)
         IN  /\ Max(P) \in Int /\ \A i \in Bucket(order) : env[i].position <= Max(P)
             /\ Min(P) \in Int /\ \A i \in Bucket(order) : Min(P) <= env[i].position
<1>. DEFINE P == Positions(order)
            B == Bucket(order)
            n == Cardinality(B)
<1>1. \A i \in B : env[i].sortOrder = order /\ env[i].position \in Int /\ env[i].position \in P
  BY DEF Bucket, Positions, EnvInv, EnvRow
<1>2. P \in SUBSET Int /\ \A p \in P : \E i \in B : p = env[i].position
  BY <1>1 DEF Positions
<1>3. B \in SUBSET DOMAIN env /\ B # {}
  BY DEF Bucket
<1>. HIDE DEF P, B
<1>4. PICK q \in [1..n -> B] :
         /\ n \in Nat
         /\ \A k, l \in 1..n : k < l => ComesBefore(q[k], q[l])
         /\ \A i \in B : \E k \in 1..n : q[k] = i
  BY <1>3, PageIsSorted
<1>. HIDE DEF n
<1>5. n \in Nat \ {0} /\ 1 \in 1..n /\ n \in 1..n
  BY <1>3, <1>4
<1>6. \A k, l \in 1..n : k < l => env[q[k]].position <= env[q[l]].position
  <2>1. SUFFICES ASSUME NEW k \in 1..n, NEW l \in 1..n, k < l PROVE env[q[k]].position <= env[q[l]].position
    OBVIOUS
  <2>2. q[k] \in B /\ q[l] \in B /\ ComesBefore(q[k], q[l])
    BY <2>1, <1>4
  <2>3. order \in Int
    BY <2>2, <1>1, <1>3 DEF EnvInv, EnvRow, Pinned, Normal
  <2>. QED BY <2>2, <2>3, <1>1 DEF ComesBefore
<1>7. \A i \in B : env[q[1]].position <= env[i].position /\ env[i].position <= env[q[n]].position
  <2>1. SUFFICES ASSUME NEW i \in B PROVE env[q[1]].position <= env[i].position /\ env[i].position <= env[q[n]].position
    OBVIOUS
  <2>2. PICK k \in 1..n : q[k] = i
    BY <1>4
  <2>3. (1 < k => env[q[1]].position <= env[i].position) /\ (k < n => env[i].position <= env[q[n]].position)
    BY <2>2, <1>5, <1>6
  <2>4. env[i].position \in Int
    BY <1>1
  <2>. QED BY <2>2, <2>3, <2>4, <1>5
<1>8. q[1] \in B /\ q[n] \in B
  BY <1>4, <1>5
<1>9. \E x \in P : \A y \in P : x >= y
  <2>1. env[q[n]].position \in P /\ \A i \in B : env[i].position <= env[q[n]].position
    BY <1>1, <1>7, <1>8
  <2>2. \A y \in P : env[q[n]].position >= y
    BY <1>2, <2>1
  <2>. QED BY <2>1, <2>2
<1>10. \E x \in P : \A y \in P : x <= y
  <2>1. env[q[1]].position \in P /\ \A i \in B : env[q[1]].position <= env[i].position
    BY <1>1, <1>7, <1>8
  <2>2. \A y \in P : env[q[1]].position <= y
    BY <1>2, <2>1
  <2>. QED BY <2>1, <2>2
<1>11. Max(P) \in P /\ \A y \in P : Max(P) >= y
  BY <1>9 DEF Max
<1>12. Min(P) \in P /\ \A y \in P : Min(P) <= y
  BY <1>10 DEF Min
<1>. QED
  BY <1>1, <1>2, <1>11, <1>12 DEF P, B

\* A sequence with an element put at a place of it.
LEMMA Inserted ==
  ASSUME NEW S, NEW e \in S, NEW n \in Nat, NEW q \in [1..n -> S], NEW pos \in 1..(n + 1)
  PROVE  LET o == InsertAt(q, pos, e)
         IN  /\ DOMAIN o = 1..(n + 1)
             /\ \A k \in 1..(n + 1) : o[k] = IF k < pos THEN q[k] ELSE IF k = pos THEN e ELSE q[k - 1]
<1>. DEFINE a == SubSeq(q, 1, pos - 1)
            b == SubSeq(q, pos, Len(q))
<1>1. q \in Seq(S) /\ Len(q) = n
  OBVIOUS
<1>2. a \in Seq(S) /\ Len(a) = pos - 1 /\ \A k \in 1..(pos - 1) : a[k] = q[k]
  BY <1>1
<1>3. b \in Seq(S) /\ Len(b) = n + 1 - pos /\ \A k \in 1..(n + 1 - pos) : b[k] = q[pos + k - 1]
  BY <1>1
<1>. HIDE DEF a, b
<1>. DEFINE c == a \o <<e>>
            o == c \o b
<1>4. c \in Seq(S) /\ Len(c) = pos /\ \A k \in 1..pos : c[k] = IF k < pos THEN q[k] ELSE e
  BY <1>2
<1>. HIDE DEF c
<1>5. o \in Seq(S) /\ Len(o) = n + 1
  BY <1>3, <1>4
<1>6. ASSUME NEW k \in 1..(n + 1)
      PROVE  o[k] = IF k < pos THEN q[k] ELSE IF k = pos THEN e ELSE q[k - 1]
  <2>1. CASE k <= pos
    BY <2>1, <1>3, <1>4
  <2>2. CASE k > pos
    <3>1. o[k] = b[k - pos]
      BY <2>2, <1>3, <1>4
    <3>2. b[k - pos] = q[pos + (k - pos) - 1]
      BY <2>2, <1>3
    <3>. QED BY <2>2, <3>1, <3>2
  <2>. HIDE DEF o
  <2>. QED BY <2>1, <2>2
<1>7. InsertAt(q, pos, e) = o
  BY DEF InsertAt, o, c, a, b
<1>. QED
  <2>. HIDE DEF o
  <2>. QED BY <1>5, <1>6, <1>7

\* What a move within its list does: the others get their places, in their order, and the
\* moved one the place before the target, or the last.
Placed(source, target, siblings, n, q, pos) ==
  /\ \A k, l \in 1..n : k < l => ComesBefore(q[k], q[l])
  /\ \A i \in siblings : \E k \in 1..n : q[k] = i
  /\ target = 0 => pos = n + 1
  /\ target # 0 => pos \in 1..n /\ q[pos] = target
  /\ DOMAIN env' = DOMAIN env
  /\ \A i \in DOMAIN env : env'[i].sortOrder = env[i].sortOrder
  /\ env'[source].position = pos
  /\ \A k \in 1..n : env'[q[k]].position = IF k < pos THEN k ELSE k + 1
  /\ \A i \in DOMAIN env : i # source /\ i \notin siblings => env'[i] = env[i]

LEMMA Renumbering ==
  ASSUME EnvInv, NEW source \in DOMAIN env, NEW target, NEW siblings,
         siblings = Bucket(env[source].sortOrder) \ {source},
         target = 0 \/ target \in siblings,
         reorderEnvWithinSortBucket(source, target)
  PROVE  \E n \in Nat : \E q \in [1..n -> siblings], pos \in 1..(n + 1) :
           Placed(source, target, siblings, n, q, pos)
<1>. DEFINE q == orderedEnvQuery(siblings)
            n == Cardinality(siblings)
            pos == IF target = 0 THEN Len(q) + 1 ELSE CHOOSE k \in DOMAIN q : q[k] = target
            o == InsertAt(q, pos, source)
            all == siblings \cup {source}
<1>1. siblings \in SUBSET DOMAIN env /\ source \notin siblings /\ 0 \notin siblings
  BY DEF Bucket, EnvInv
<1>2. /\ n \in Nat /\ q \in [1..n -> siblings]
      /\ \A k, l \in 1..n : k < l => ComesBefore(q[k], q[l])
      /\ \A k, l \in 1..n : q[k] = q[l] => k = l
      /\ \A i \in siblings : \E k \in 1..n : q[k] = i
  BY <1>1, PageIsSorted
<1>3. env' = [i \in DOMAIN env |->
                IF i \in {o[k] : k \in DOMAIN o}
                THEN [env[i] EXCEPT !.position = CHOOSE k \in DOMAIN o : o[k] = i] ELSE env[i]]
  <2>. HIDE DEF q
  <2>1. env' = [i \in DOMAIN env |->
                  IF i \in Range(o)
                  THEN [env[i] EXCEPT !.position = CHOOSE k \in DOMAIN o : o[k] = i] ELSE env[i]]
    BY DEF reorderEnvWithinSortBucket, Renumbered, q
  <2>. QED BY <2>1 DEF Range
<1>. HIDE DEF q, n
<1>4. /\ pos \in 1..(n + 1)
      /\ target = 0 => pos = n + 1
      /\ target # 0 => pos \in 1..n /\ q[pos] = target
  <2>1. CASE target = 0
    <3>1. Len(q) = n
      BY <1>2
    <3>. QED BY <2>1, <3>1, <1>2
  <2>2. CASE target # 0
    <3>1. \E k \in DOMAIN q : q[k] = target
      BY <2>2, <1>2
    <3>2. pos \in DOMAIN q /\ q[pos] = target /\ DOMAIN q = 1..n
      BY <2>2, <3>1, <1>2
    <3>. HIDE DEF pos
    <3>. QED BY <2>2, <3>2, <1>2
  <2>. QED BY <2>1, <2>2
<1>. HIDE DEF pos
<1>5. q \in [1..n -> all] /\ source \in all
  BY <1>2
<1>6. /\ DOMAIN o = 1..(n + 1)
      /\ \A k \in 1..(n + 1) : o[k] = IF k < pos THEN q[k] ELSE IF k = pos THEN source ELSE q[k - 1]
  <2>. HIDE DEF all
  <2>1. n \in Nat /\ pos \in 1..(n + 1)
    BY <1>2, <1>4
  <2>. QED BY <1>5, <2>1, Inserted DEF o
<1>. HIDE DEF o
<1>7. o[pos] = source
  BY <1>4, <1>6
<1>8. \A k \in 1..n : (k < pos => o[k] = q[k]) /\ (~(k < pos) => o[k + 1] = q[k])
  BY <1>2, <1>4, <1>6
<1>9. \A k \in 1..(n + 1) : o[k] \in all
  BY <1>2, <1>4, <1>6
<1>10. \A k, l \in 1..(n + 1) : o[k] = o[l] => k = l
  <2>1. SUFFICES ASSUME NEW k \in 1..(n + 1), NEW l \in 1..(n + 1), k < l PROVE o[k] # o[l]
    BY <1>2
  <2>2. CASE l < pos
    <3>1. k \in 1..n /\ l \in 1..n /\ o[k] = q[k] /\ o[l] = q[l]
      BY <2>1, <2>2, <1>2, <1>4, <1>6
    <3>. QED BY <3>1, <2>1, <1>2
  <2>3. CASE l = pos
    <3>1. k \in 1..n /\ o[k] = q[k] /\ o[l] = source
      BY <2>1, <2>3, <1>2, <1>4, <1>6
    <3>. QED BY <3>1, <1>1, <1>2
  <2>4. CASE l > pos /\ k < pos
    <3>1. k \in 1..n /\ l - 1 \in 1..n /\ o[k] = q[k] /\ o[l] = q[l - 1] /\ k # l - 1
      BY <2>1, <2>4, <1>2, <1>4, <1>6
    <3>. QED BY <3>1, <2>1, <1>2
  <2>5. CASE l > pos /\ k = pos
    <3>1. l - 1 \in 1..n /\ o[k] = source /\ o[l] = q[l - 1]
      BY <2>1, <2>5, <1>2, <1>4, <1>6
    <3>. QED BY <3>1, <1>1, <1>2
  <2>6. CASE l > pos /\ k > pos
    <3>1. k - 1 \in 1..n /\ l - 1 \in 1..n /\ o[k] = q[k - 1] /\ o[l] = q[l - 1] /\ k - 1 # l - 1
      BY <2>1, <2>6, <1>2, <1>4, <1>6
    <3>. QED BY <3>1, <2>1, <1>2
  <2>. QED BY <2>2, <2>3, <2>4, <2>5, <2>6, <1>4
<1>11. {o[k] : k \in DOMAIN o} = {o[k] : k \in 1..(n + 1)}
  BY <1>6
<1>12. ASSUME NEW k \in 1..(n + 1)
       PROVE  o[k] \in DOMAIN env /\ env'[o[k]] = [env[o[k]] EXCEPT !.position = k]
  <2>1. o[k] \in {o[l] : l \in DOMAIN o} /\ o[k] \in DOMAIN env
    BY <1>1, <1>6, <1>9
  <2>2. (CHOOSE l \in DOMAIN o : o[l] = o[k]) = k
    BY <1>6, <1>10
  <2>. QED BY <2>1, <2>2, <1>3
<1>13. \A i \in DOMAIN env : i # source /\ i \notin siblings => env'[i] = env[i]
  <2>1. \A i : i # source /\ i \notin siblings => i \notin {o[k] : k \in DOMAIN o}
    BY <1>9, <1>11
  <2>. QED BY <1>3, <2>1
<1>14. DOMAIN env' = DOMAIN env /\ \A i \in DOMAIN env : env'[i].sortOrder = env[i].sortOrder
  BY <1>3 DEF EnvInv, EnvRow
<1>15. ASSUME NEW l \in 1..(n + 1) PROVE env'[o[l]].position = l
  <2>1. env[o[l]] \in EnvRow /\ env'[o[l]] = [env[o[l]] EXCEPT !.position = l]
    BY <1>12 DEF EnvInv
  <2>. QED BY <2>1 DEF EnvRow
<1>16. env'[source].position = pos
  <2>1. pos \in 1..(n + 1)
    BY <1>4
  <2>2. env'[o[pos]].position = pos
    BY <2>1, <1>15
  <2>. QED BY <2>2, <1>7
<1>17. ASSUME NEW k \in 1..n PROVE env'[q[k]].position = IF k < pos THEN k ELSE k + 1
  <2>1. k \in 1..(n + 1) /\ k + 1 \in 1..(n + 1)
    BY <1>2
  <2>. QED BY <1>8, <1>15, <2>1
<1>18. Placed(source, target, siblings, n, q, pos)
  BY <1>2, <1>4, <1>13, <1>14, <1>16, <1>17 DEF Placed
<1>. QED
  BY <1>2, <1>4, <1>18

\* Rows that a step leaves alone keep their order.
LEMMA SameRowsSameOrder ==
  ASSUME NEW i, NEW j, env'[i] = env[i], env'[j] = env[j]
  PROVE  ComesBefore(i, j)' <=> ComesBefore(i, j)
  BY DEF ComesBefore

\* What a move within a list promises.
SortedIn(source, target, siblings) ==
  /\ \A i, j \in DOMAIN env \ {source} : ComesBefore(i, j)' <=> ComesBefore(i, j)
  /\ target = 0 => \A i \in siblings : ComesBefore(i, source)'
  /\ target \in siblings =>
       \A i \in siblings : (i = target \/ ComesBefore(target, i)') <=> ComesBefore(source, i)'

\* A move within a list keeps the order of all others, and puts the moved variable where
\* it was to be.
LEMMA SortKeepsOrder ==
  ASSUME EnvInv, NEW source \in DOMAIN env, NEW target, NEW siblings,
         siblings = Bucket(env[source].sortOrder) \ {source},
         NEW n \in Nat, NEW q \in [1..n -> siblings], NEW pos \in 1..(n + 1),
         Placed(source, target, siblings, n, q, pos)
  PROVE  SortedIn(source, target, siblings)
<1>. DEFINE place(k) == IF k < pos THEN k ELSE k + 1
            order == env[source].sortOrder
<1>1. /\ siblings \in SUBSET DOMAIN env /\ source \notin siblings /\ 0 \notin siblings
      /\ order \in Int /\ \A i \in DOMAIN env : i \in siblings <=> env[i].sortOrder = order /\ i # source
  BY DEF Bucket, EnvInv, EnvRow, Pinned, Normal
<1>2. \A i \in DOMAIN env : i \in Int /\ env[i].sortOrder \in Int /\ env[i].position \in Int
  BY DEF EnvInv, EnvRow, Pinned, Normal
<1>3. /\ \A i \in DOMAIN env : env'[i].sortOrder = env[i].sortOrder
      /\ env'[source].position = pos
      /\ \A k \in 1..n : q[k] \in siblings /\ env'[q[k]].position = place(k)
  BY DEF Placed
<1>4. \A k, l \in 1..n : k < l => ComesBefore(q[k], q[l])
  BY DEF Placed
<1>5. \A i \in siblings : \E k \in 1..n : q[k] = i
  BY DEF Placed
<1>. HIDE DEF order
<1>6. ASSUME NEW k \in 1..n, NEW l \in 1..n
      PROVE  (ComesBefore(q[k], q[l])' <=> k < l) /\ (ComesBefore(q[k], q[l]) <=> k < l)
  <2>1. q[k] \in siblings /\ q[l] \in siblings
    BY <1>3
  <2>2. q[k] \in DOMAIN env /\ q[l] \in DOMAIN env /\ env'[q[k]].sortOrder = order /\ env'[q[l]].sortOrder = order
    BY <2>1, <1>1, <1>3
  <2>3. (k < l => place(k) < place(l)) /\ (place(k) \in Int /\ place(l) \in Int) /\ (l < k => place(l) < place(k))
    OBVIOUS
  <2>4. env'[q[k]].position = place(k) /\ env'[q[l]].position = place(l)
    BY <1>3
  <2>. HIDE DEF place
  <2>5. k < l => ComesBefore(q[k], q[l])'
    BY <2>2, <2>3, <2>4, <1>1 DEF ComesBefore
  <2>6. ComesBefore(q[k], q[l])' => k < l
    BY <2>2, <2>3, <2>4, <1>1, <1>2 DEF ComesBefore
  <2>7. k < l => ComesBefore(q[k], q[l])
    BY <1>4
  <2>8. l < k => ~ComesBefore(q[k], q[l])
    <3>1. l < k => ComesBefore(q[l], q[k])
      BY <1>4
    <3>. QED BY <3>1, <2>2, <1>2 DEF ComesBefore
  <2>9. k = l => ~ComesBefore(q[k], q[l])
    BY <2>2, <1>2 DEF ComesBefore
  <2>. QED BY <2>5, <2>6, <2>7, <2>8, <2>9
<1>7. ASSUME NEW i \in DOMAIN env \ {source}, NEW j \in DOMAIN env \ {source}
      PROVE  ComesBefore(i, j)' <=> ComesBefore(i, j)
  <2>1. CASE i \in siblings /\ j \in siblings
    <3>1. PICK k \in 1..n : q[k] = i
      BY <2>1, <1>5
    <3>2. PICK l \in 1..n : q[l] = j
      BY <2>1, <1>5
    <3>. QED BY <3>1, <3>2, <1>6
  <2>2. CASE i \notin siblings /\ j \notin siblings
    <3>1. env'[i] = env[i] /\ env'[j] = env[j]
      BY <2>2 DEF Placed
    <3>. QED BY <3>1, SameRowsSameOrder
  <2>3. CASE i \in siblings <=> j \notin siblings
    <3>1. env[i].sortOrder # env[j].sortOrder
      BY <2>3, <1>1
    <3>2. env'[i].sortOrder = env[i].sortOrder /\ env'[j].sortOrder = env[j].sortOrder
      BY <1>3
    <3>. QED BY <3>1, <3>2, <1>2 DEF ComesBefore
  <2>. QED BY <2>1, <2>2, <2>3
<1>8. ASSUME NEW k \in 1..n
      PROVE  /\ ComesBefore(q[k], source)' <=> k < pos
             /\ ComesBefore(source, q[k])' <=> ~(k < pos)
  <2>1. q[k] \in DOMAIN env /\ env'[q[k]].sortOrder = order /\ env'[source].sortOrder = order
    BY <1>1, <1>3 DEF order
  <2>2. env'[q[k]].position = place(k) /\ env'[source].position = pos
    BY <1>3
  <2>3. place(k) \in Int /\ pos \in Int /\ (k < pos => place(k) < pos) /\ (~(k < pos) => place(k) > pos)
    OBVIOUS
  <2>. HIDE DEF place
  <2>. QED BY <2>1, <2>2, <2>3, <1>1 DEF ComesBefore
<1>9. target = 0 => \A i \in siblings : ComesBefore(i, source)'
  <2>1. SUFFICES ASSUME target = 0, NEW i \in siblings PROVE ComesBefore(i, source)'
    OBVIOUS
  <2>2. pos = n + 1
    BY <2>1 DEF Placed
  <2>3. PICK k \in 1..n : q[k] = i
    BY <1>5
  <2>. QED BY <2>2, <2>3, <1>8
<1>10. target \in siblings =>
         \A i \in siblings : (i = target \/ ComesBefore(target, i)') <=> ComesBefore(source, i)'
  <2>1. SUFFICES ASSUME target \in siblings, NEW i \in siblings
        PROVE  (i = target \/ ComesBefore(target, i)') <=> ComesBefore(source, i)'
    OBVIOUS
  <2>2. pos \in 1..n /\ q[pos] = target
    BY <2>1, <1>1 DEF Placed
  <2>3. PICK k \in 1..n : q[k] = i
    BY <1>5
  <2>4. ComesBefore(target, i)' <=> pos < k
    BY <2>2, <2>3, <1>6
  <2>5. i = target <=> pos = k
    <3>1. pos < k => ComesBefore(q[pos], q[k])
      BY <1>4, <2>2
    <3>2. k < pos => ComesBefore(q[k], q[pos])
      BY <1>4, <2>2
    <3>3. ~ComesBefore(target, target)
      BY <1>1, <1>2, <2>1 DEF ComesBefore
    <3>. QED BY <2>2, <2>3, <3>1, <3>2, <3>3
  <2>. QED BY <2>2, <2>3, <2>4, <2>5, <1>8
<1>. QED
  BY <1>7, <1>9, <1>10 DEF SortedIn

\* A request is changed a field at a time.
LEMMA RequestEdits ==
  ASSUME NEW r \in EnvRequest
  PROVE  /\ \A op \in {"none", "create", "merge", "sort", "top", "untop"} : [r EXCEPT !.op = op] \in EnvRequest
         /\ \A pc \in {"free", "look", "insert", "move"} : [r EXCEPT !.pc = pc] \in EnvRequest
         /\ \A id \in Nat : [r EXCEPT !.id = id] \in EnvRequest
         /\ \A arg \in Int : [r EXCEPT !.arg = arg] \in EnvRequest
         /\ \A items \in Int : [r EXCEPT !.items = items] \in EnvRequest
  BY DEF EnvRequest

LEMMA NoRequestTyped == NoRequest \in EnvRequest
  BY DEF NoRequest, EnvRequest

\* The others keep theirs.
LEMMA RequestSet ==
  ASSUME EnvInv, NEW c \in EnvClients, \E r \in EnvRequest : SetRequest(c, r)
  PROVE  /\ envRequest' \in [EnvClients -> EnvRequest]
         /\ \A d \in EnvClients : d # c => envRequest'[d] = envRequest[d]
  BY DEF SetRequest, EnvInv

LEMMA NextItemTyped ==
  ASSUME EnvInv, NEW c \in EnvClients, NextItem(c)
  PROVE  /\ envRequest' \in [EnvClients -> EnvRequest]
         /\ \A d \in EnvClients : d # c => envRequest'[d] = envRequest[d]
<1>. DEFINE r == [envRequest[c] EXCEPT !.items = @ - 1, !.pc = "look"]
<1>1. envRequest[c] \in EnvRequest
  BY DEF EnvInv
<1>2. envRequest[c].items - 1 \in Int
  BY <1>1 DEF EnvRequest
<1>3. r \in EnvRequest
  BY <1>1, <1>2, RequestEdits
<1>4. SetRequest(c, NoRequest) \/ SetRequest(c, r)
  BY DEF NextItem, AnswerRequest
<1>. HIDE DEF r
<1>. QED
  BY <1>3, <1>4, NoRequestTyped, RequestSet

LEMMA EnvStepKeeps == EnvInv /\ [EnvNext]_envVars => EnvInv'
<1>. SUFFICES ASSUME EnvInv, [EnvNext]_envVars PROVE EnvInv'
  OBVIOUS
<1>1. ASSUME NEW c \in EnvClients, EnvStep(c) PROVE EnvInv'
  <2>0. envRequest[c] \in EnvRequest
    BY DEF EnvInv
  <2>1. ASSUME NEW op \in {"create", "merge", "replace"}, NEW items \in 1..MaxItems, BeginRows(c, op, items)
        PROVE  EnvInv'
    <3>1. envRequest' \in [EnvClients -> EnvRequest]
      <4>. DEFINE r == [NoRequest EXCEPT !.op = IF op = "merge" THEN op ELSE "create", !.items = items, !.pc = "look"]
      <4>0. items \in Int /\ (IF op = "merge" THEN op ELSE "create") \in {"create", "merge"}
        BY EnvAssumption
      <4>1. r \in EnvRequest
        BY <4>0, NoRequestTyped, RequestEdits
      <4>2. SetRequest(c, r)
        BY <2>1 DEF BeginRows, Arrives
      <4>. QED BY <4>1, <4>2, RequestSet
    <3>2. envIds' = envIds /\ (env' = env \/ env' = [i \in {} |-> env[i]])
      BY <2>1 DEF BeginRows, Arrives, DeleteRows
    <3>. QED BY <3>1, <3>2 DEF EnvInv
  <2>2. ASSUME NEW op \in {"sort", "top", "untop"}, NEW i \in DOMAIN env, NEW arg \in {0} \cup DOMAIN env,
               BeginMove(c, op, i, arg)
        PROVE  EnvInv'
    <3>1. i \in Nat /\ arg \in Int
      BY DEF EnvInv
    <3>2. envRequest' \in [EnvClients -> EnvRequest]
      <4>. DEFINE r == [NoRequest EXCEPT !.op = op, !.id = i, !.arg = arg, !.pc = "move"]
      <4>1. r \in EnvRequest
        BY <3>1, NoRequestTyped, RequestEdits
      <4>2. SetRequest(c, r)
        BY <2>2 DEF BeginMove, Arrives
      <4>. QED BY <4>1, <4>2, RequestSet
    <3>. QED BY <2>2, <3>2 DEF BeginMove, Arrives, EnvInv
  <2>3. ASSUME CountRows(c) PROVE EnvInv'
    <3>1. nextEnvPosition(Normal) \in Int
      BY EndsOfList DEF nextEnvPosition
    <3>2. env' = env /\ envIds' = envIds
      BY <2>3 DEF CountRows
    <3>3. envRequest' \in [EnvClients -> EnvRequest]
      <4>1. CASE NextItem(c)
        BY <4>1, NextItemTyped
      <4>2. CASE SetRequest(c, [envRequest[c] EXCEPT !.pc = "insert", !.arg = nextEnvPosition(Normal)])
        <5>. DEFINE r == [envRequest[c] EXCEPT !.pc = "insert", !.arg = nextEnvPosition(Normal)]
        <5>1. r \in EnvRequest
          BY <2>0, <3>1, RequestEdits
        <5>. QED BY <4>2, <5>1, RequestSet
      <4>. QED BY <2>3, <4>1, <4>2 DEF CountRows
    <3>. QED BY <3>2, <3>3 DEF EnvInv
  <2>4. ASSUME Insert(c) PROVE EnvInv'
    <3>1. envRequest' \in [EnvClients -> EnvRequest]
      BY <2>4, NextItemTyped DEF Insert
    <3>2. envIds' = envIds + 1 /\ DOMAIN env' = DOMAIN env \cup {envIds + 1}
      BY <2>4 DEF Insert
    <3>3. \A i \in DOMAIN env' : env'[i] \in EnvRow
      BY <2>0, <2>4 DEF Insert, EnvInv, EnvRow, EnvRequest
    <3>4. env' \in [DOMAIN env' -> EnvRow]
      BY <2>4, <3>3 DEF Insert
    <3>5. envIds' \in Nat /\ DOMAIN env' \subseteq 1..envIds'
      BY <3>2 DEF EnvInv
    <3>. QED BY <3>1, <3>4, <3>5 DEF EnvInv
  <2>5. ASSUME Move(c) PROVE EnvInv'
    <3>1. envIds' = envIds /\ envRequest' \in [EnvClients -> EnvRequest]
      BY <2>5 DEF Move, AnswerRequest, SetRequest, NoRequest, EnvInv, EnvRequest
    <3>2. env' \in [DOMAIN env -> EnvRow]
      <4>1. \A i \in DOMAIN env' : env'[i].position \in 0..MaxPosition
        BY <2>5 DEF Move
      <4>2. CASE Sort(c)
        <5>1. CASE UNCHANGED env
          BY <5>1 DEF EnvInv
        <5>2. CASE \E i, j \in Int : reorderEnvWithinSortBucket(i, j)
          <6>1. PICK i, j \in Int : reorderEnvWithinSortBucket(i, j)
            BY <5>2
          <6>2. DOMAIN env' = DOMAIN env /\ \A k \in DOMAIN env : env'[k] = env[k] \/ \E p : env'[k] = [env[k] EXCEPT !.position = p]
            BY <6>1 DEF reorderEnvWithinSortBucket, Renumbered
          <6>3. ASSUME NEW k \in DOMAIN env PROVE env'[k] \in EnvRow
            <7>1. env'[k].position \in Int /\ env[k] \in EnvRow
              BY <4>1, <6>2 DEF EnvInv
            <7>2. CASE env'[k] = env[k]
              BY <7>1, <7>2
            <7>3. CASE \E p : env'[k] = [env[k] EXCEPT !.position = p]
              BY <7>1, <7>3 DEF EnvRow
            <7>. QED BY <6>2, <7>2, <7>3
          <6>4. env' = [k \in DOMAIN env |-> env'[k]]
            BY <6>1 DEF reorderEnvWithinSortBucket, Renumbered
          <6>. QED BY <6>3, <6>4
        <5>3. envRequest[c].id \in Int /\ envRequest[c].arg \in Int
          BY <2>0 DEF EnvRequest
        <5>. QED BY <4>2, <5>1, <5>2, <5>3 DEF Sort
      <4>3. CASE MoveToTop(c)
        BY <2>5, <4>1, <4>3 DEF MoveToTop, SetOrder, EnvInv, EnvRow
      <4>4. CASE CancelMoveToTop(c)
        BY <2>5, <4>1, <4>4 DEF CancelMoveToTop, SetOrder, EnvInv, EnvRow
      <4>. QED BY <2>5, <4>2, <4>3, <4>4 DEF Move
    <3>. QED BY <3>1, <3>2 DEF EnvInv
  <2>. QED
    BY <1>1, <2>1, <2>2, <2>3, <2>4, <2>5 DEF EnvStep
<1>2. ASSUME NEW ids \in SUBSET DOMAIN env, BatchDelete(ids) PROVE EnvInv'
  BY <1>2 DEF BatchDelete, DeleteRows, EnvInv
<1>3. CASE UNCHANGED envVars
  BY <1>3 DEF envVars, EnvInv
<1>. QED
  BY <1>1, <1>2, <1>3 DEF EnvNext

\* The requests whose move a step writes.
Landing == {envRequest[c] : c \in {d \in EnvClients : envRequest[d].pc = "move" /\ envRequest'[d].pc = "free"}}

OneRowMoves ==
  \E x \in DOMAIN env \cup {0} :
    \A i, j \in (DOMAIN env \cap DOMAIN env') \ {x} : ComesBefore(i, j) <=> ComesBefore(i, j)'

LEMMA OthersStay ==
  ASSUME \A i \in DOMAIN env \cap DOMAIN env' : env'[i] = env[i]
  PROVE  OneRowMoves
  BY SameRowsSameOrder DEF OneRowMoves

LEMMA OnlyMovesLand ==
  ASSUME EnvInv, NEW c \in EnvClients, envRequest[c].pc # "move",
         \A d \in EnvClients : d # c => envRequest'[d] = envRequest[d]
  PROVE  Landing = {}
  BY DEF Landing

LEMMA SortLands ==
  ASSUME EnvInv, NEW r \in EnvRequest, r.op = "sort", r.id \in DOMAIN env, r.id # r.arg,
         r.arg # 0 => r.arg \in DOMAIN env /\ env[r.arg].sortOrder = env[r.id].sortOrder,
         reorderEnvWithinSortBucket(r.id, r.arg)
  PROVE  OneRowMoves /\ LandsAsAsked(r)'
<1>. DEFINE siblings == Bucket(env[r.id].sortOrder) \ {r.id}
<1>1. r.arg = 0 \/ r.arg \in siblings
  BY DEF Bucket
<1>2. PICK n \in Nat :
        \E q \in [1..n -> siblings], pos \in 1..(n + 1) : Placed(r.id, r.arg, siblings, n, q, pos)
  BY <1>1, Renumbering
<1>3. PICK q \in [1..n -> siblings], pos \in 1..(n + 1) : Placed(r.id, r.arg, siblings, n, q, pos)
  BY <1>2
<1>4. siblings = Bucket(env[r.id].sortOrder) \ {r.id}
  OBVIOUS
<1>5. PICK source \in DOMAIN env : source = r.id
  OBVIOUS
<1>. HIDE DEF siblings
<1>6. /\ \A i, j \in DOMAIN env \ {r.id} : ComesBefore(i, j)' <=> ComesBefore(i, j)
      /\ r.arg = 0 => \A i \in siblings : ComesBefore(i, r.id)'
      /\ r.arg \in siblings =>
           \A i \in siblings : (i = r.arg \/ ComesBefore(r.arg, i)') <=> ComesBefore(r.id, i)'
  <2>1. Placed(source, r.arg, siblings, n, q, pos) /\ siblings = Bucket(env[source].sortOrder) \ {source}
    BY <1>3, <1>4, <1>5
  <2>2. SortedIn(source, r.arg, siblings)
    BY <2>1, SortKeepsOrder
  <2>. QED BY <2>2, <1>5 DEF SortedIn
<1>7. DOMAIN env' = DOMAIN env /\ \A i \in DOMAIN env : env'[i].sortOrder = env[i].sortOrder
  BY <1>3 DEF Placed
<1>8. {i \in DOMAIN env' \ {r.id} : env'[i].sortOrder = env'[r.id].sortOrder} = siblings
  BY <1>7, <1>4 DEF Bucket
<1>9. OneRowMoves
  BY <1>6, <1>7 DEF OneRowMoves
<1>10. LandsAsAsked(r)'
  BY <1>6, <1>8 DEF LandsAsAsked
<1>. QED
  BY <1>9, <1>10

LEMMA TopLands ==
  ASSUME EnvInv, NEW r \in EnvRequest, r.op = "top", NEW p \in Int,
         \A i \in Bucket(Pinned) : p < env[i].position,
         SetOrder(r.id, Pinned, p)
  PROVE  OneRowMoves /\ LandsAsAsked(r)'
<1>1. /\ DOMAIN env' = DOMAIN env
      /\ \A i \in DOMAIN env : i # r.id => env'[i] = env[i]
      /\ r.id \in DOMAIN env => env'[r.id] = [sortOrder |-> Pinned, position |-> p]
  BY DEF SetOrder
<1>2. OneRowMoves
  <2>1. CASE r.id \in DOMAIN env
    BY <2>1, <1>1, SameRowsSameOrder DEF OneRowMoves
  <2>2. CASE r.id \notin DOMAIN env
    BY <2>2, <1>1, OthersStay
  <2>. QED BY <2>1, <2>2
<1>3. ASSUME NEW i \in DOMAIN env \ {r.id}, r.id \in DOMAIN env PROVE ComesBefore(r.id, i)'
  <2>1. env'[i] = env[i] /\ env[i].sortOrder \in {Pinned, Normal} /\ env[i].position \in Int
    BY <1>1 DEF EnvInv, EnvRow
  <2>2. env'[r.id].sortOrder = Pinned /\ env'[r.id].position = p
    BY <1>1, <1>3
  <2>3. env[i].sortOrder = Pinned => p < env[i].position
    BY DEF Bucket
  <2>. QED BY <2>1, <2>2, <2>3 DEF ComesBefore, Pinned, Normal
<1>4. LandsAsAsked(r)'
  BY <1>1, <1>3 DEF LandsAsAsked
<1>. QED
  BY <1>2, <1>4

LEMMA UntopLands ==
  ASSUME EnvInv, NEW r \in EnvRequest, r.op = "untop", NEW p \in Int,
         \A i \in Bucket(Normal) : env[i].position < p,
         SetOrder(r.id, Normal, p)
  PROVE  OneRowMoves /\ LandsAsAsked(r)'
<1>1. /\ DOMAIN env' = DOMAIN env
      /\ \A i \in DOMAIN env : i # r.id => env'[i] = env[i]
      /\ r.id \in DOMAIN env => env'[r.id] = [sortOrder |-> Normal, position |-> p]
  BY DEF SetOrder
<1>2. OneRowMoves
  <2>1. CASE r.id \in DOMAIN env
    BY <2>1, <1>1, SameRowsSameOrder DEF OneRowMoves
  <2>2. CASE r.id \notin DOMAIN env
    BY <2>2, <1>1, OthersStay
  <2>. QED BY <2>1, <2>2
<1>3. ASSUME NEW i \in DOMAIN env \ {r.id}, r.id \in DOMAIN env PROVE ComesBefore(i, r.id)'
  <2>1. env'[i] = env[i] /\ env[i].sortOrder \in {Pinned, Normal} /\ env[i].position \in Int
    BY <1>1 DEF EnvInv, EnvRow
  <2>2. env'[r.id].sortOrder = Normal /\ env'[r.id].position = p
    BY <1>1, <1>3
  <2>3. env[i].sortOrder = Normal => env[i].position < p
    BY DEF Bucket
  <2>. QED BY <2>1, <2>2, <2>3 DEF ComesBefore, Pinned, Normal
<1>4. LandsAsAsked(r)'
  BY <1>1, <1>3 DEF LandsAsAsked
<1>. QED
  BY <1>2, <1>4

LEMMA MoveKeepsPage ==
  ASSUME EnvInv, NEW c \in EnvClients, Move(c), env' # env
  PROVE  OneRowMoves /\ \A r \in Landing : LandsAsAsked(r)'
<1>1. PICK r \in EnvRequest : r = envRequest[c]
  BY DEF EnvInv
<1>2. \A s \in Landing : s = r
  <2>1. \A d \in EnvClients : d # c => envRequest'[d] = envRequest[d]
    BY NoRequestTyped, RequestSet DEF Move, AnswerRequest
  <2>. QED BY <1>1, <2>1 DEF Landing
<1>3. CASE Sort(c)
  BY <1>1, <1>2, <1>3, SortLands DEF Sort
<1>4. CASE MoveToTop(c)
  <2>1. PICK p \in Int : /\ p = IF Bucket(Pinned) = {} THEN 1 ELSE Min(Positions(Pinned)) - 1
                         /\ \A i \in Bucket(Pinned) : p < env[i].position
    <3>1. CASE Bucket(Pinned) = {}
      BY <3>1
    <3>2. CASE Bucket(Pinned) # {}
      <4>1. /\ Min(Positions(Pinned)) \in Int
            /\ \A i \in Bucket(Pinned) : Min(Positions(Pinned)) <= env[i].position
        BY <3>2, EndsOfList
      <4>2. \A i \in Bucket(Pinned) : env[i].position \in Int
        BY DEF Bucket, EnvInv, EnvRow
      <4>. QED BY <3>2, <4>1, <4>2
    <3>. QED BY <3>1, <3>2
  <2>2. r.op = "top" /\ SetOrder(r.id, Pinned, p)
    BY <1>1, <1>4, <2>1 DEF MoveToTop
  <2>. QED BY <1>2, <2>1, <2>2, TopLands
<1>5. CASE CancelMoveToTop(c)
  <2>1. PICK p \in Int : p = nextEnvPosition(Normal) /\ \A i \in Bucket(Normal) : env[i].position < p
    <3>1. CASE Bucket(Normal) = {}
      BY <3>1 DEF nextEnvPosition
    <3>2. CASE Bucket(Normal) # {}
      <4>1. /\ Max(Positions(Normal)) \in Int
            /\ \A i \in Bucket(Normal) : env[i].position <= Max(Positions(Normal))
        BY <3>2, EndsOfList
      <4>2. \A i \in Bucket(Normal) : env[i].position \in Int
        BY DEF Bucket, EnvInv, EnvRow
      <4>. QED BY <3>2, <4>1, <4>2 DEF nextEnvPosition
    <3>. QED BY <3>1, <3>2
  <2>2. r.op = "untop" /\ SetOrder(r.id, Normal, p)
    BY <1>1, <1>5, <2>1 DEF CancelMoveToTop
  <2>. QED BY <1>2, <2>1, <2>2, UntopLands
<1>. QED
  BY <1>3, <1>4, <1>5 DEF Move

LEMMA StepKeepsPage ==
  ASSUME EnvInv, [EnvNext]_envVars, env' # env
  PROVE  OneRowMoves /\ \A r \in Landing : LandsAsAsked(r)'
<1>1. ASSUME NEW c \in EnvClients, EnvStep(c) PROVE OneRowMoves /\ \A r \in Landing : LandsAsAsked(r)'
  <2>1. ASSUME NEW op \in {"create", "merge", "replace"}, NEW items \in 1..MaxItems, BeginRows(c, op, items)
        PROVE  OneRowMoves /\ Landing = {}
    <3>1. DOMAIN env' = {}
      BY <2>1 DEF BeginRows, DeleteRows
    <3>2. envRequest[c].pc # "move" /\ \A d \in EnvClients : d # c => envRequest'[d] = envRequest[d]
      BY <2>1 DEF BeginRows, Arrives, SetRequest, EnvInv
    <3>. QED BY <3>1, <3>2, OthersStay, OnlyMovesLand
  <2>2. ASSUME Insert(c) PROVE OneRowMoves /\ Landing = {}
    <3>1. \A i \in DOMAIN env : env'[i] = env[i]
      BY <2>2 DEF Insert
    <3>2. envRequest[c].pc # "move" /\ \A d \in EnvClients : d # c => envRequest'[d] = envRequest[d]
      BY <2>2, NextItemTyped DEF Insert
    <3>. QED BY <3>1, <3>2, OthersStay, OnlyMovesLand
  <2>3. CASE Move(c)
    BY <2>3, MoveKeepsPage
  <2>4. \A op, i, arg : ~BeginMove(c, op, i, arg)
    BY DEF BeginMove
  <2>5. ~CountRows(c)
    BY DEF CountRows
  <2>. QED
    BY <1>1, <2>1, <2>2, <2>3, <2>4, <2>5 DEF EnvStep
<1>2. ASSUME NEW ids \in SUBSET DOMAIN env, BatchDelete(ids) PROVE OneRowMoves /\ Landing = {}
  <2>1. \A i \in DOMAIN env' : env'[i] = env[i]
    BY <1>2 DEF BatchDelete, DeleteRows
  <2>2. Landing = {}
    BY <1>2 DEF BatchDelete, Landing
  <2>. QED BY <2>1, <2>2, OthersStay
<1>3. CASE UNCHANGED envVars
  BY <1>3 DEF envVars
<1>. QED
  BY <1>1, <1>2, <1>3 DEF EnvNext

\* Whatever requests interleave, and whatever positions a restored backup left, a step
\* moves at most one variable of the page, and a variable that was moved is where it was
\* to be (env.go, reorderEnvWithinSortBucket, MoveToTop, appendEnvToSortBucket).
THEOREM MovesKeepThePage == EnvSpec => KeepsPageOrder
<1>1. EnvInit => EnvInv
  BY EnvInitially
<1>2. EnvInv /\ [EnvNext]_envVars => EnvInv'
  BY EnvStepKeeps
<1>3. EnvInv /\ [EnvNext]_envVars =>
        [/\ \E x \in DOMAIN env \cup {0} :
              \A i, j \in (DOMAIN env \cap DOMAIN env') \ {x} : ComesBefore(i, j) <=> ComesBefore(i, j)'
         /\ \A r \in {envRequest[c] : c \in {d \in EnvClients : envRequest[d].pc = "move" /\ envRequest'[d].pc = "free"}} :
              LandsAsAsked(r)']_env
  BY StepKeepsPage DEF OneRowMoves, Landing
<1>. QED
  BY <1>1, <1>2, <1>3, PTL DEF EnvSpec, KeepsPageOrder

-----------------------------------------------------------------------------
(* Accounts.  The characters of values and the numbers of tokens are       *)
(* counted along 0..n; joining and splitting are recursive functions, the  *)
(* equation of each of which is proved first.                              *)

\* Induction along 0..n, with the set of the numbers a fact holds of in place of a predicate.
LEMMA Along ==
  ASSUME NEW n \in Nat, NEW S, 0 \in S, \A i \in 0..(n - 1) : i \in S => (i + 1) \in S
  PROVE  \A i \in 0..n : i \in S
<1> DEFINE T == (0..n) \ S
<1> SUFFICES ASSUME T # {} PROVE FALSE
  OBVIOUS
<1>0. IsFiniteSet(0..n)
  BY FS_Interval
<1>1. T \subseteq Nat /\ IsFiniteSet(T)
  <2>1. T \subseteq 0..n
    OBVIOUS
  <2> HIDE DEF T
  <2>2. IsFiniteSet(T)
    BY <1>0, <2>1, FS_Subset
  <2> QED BY <2>1, <2>2
<1>2. PICK x \in T : \A y \in T : x <= y
  BY <1>1, LeastIs
<1>3. x \in 1..n /\ x \notin S
  OBVIOUS
<1>4. x - 1 \in 0..(n - 1) /\ x - 1 \in 0..n /\ (x - 1) + 1 = x /\ ~(x <= x - 1)
  BY <1>3
<1>5. x - 1 \in S
  BY <1>2, <1>4
<1> QED BY <1>3, <1>4, <1>5

\* A function of 0..n that begins with a and goes on with the steps of g.
Steps(g, n, A) == g \in [A \X (1..n) -> A]
Follows(f, n, A, a, g) ==
  /\ f \in [0..n -> A] /\ f[0] = a
  /\ \A i \in 1..n : f[i] = g[<<f[i - 1], i>>]

\* There is such a function.
LEMMA Recursion ==
  ASSUME NEW n, NEW A, NEW a, NEW g, n \in Nat, a \in A, Steps(g, n, A)
  PROVE  \E f : Follows(f, n, A, a, g)
<1> DEFINE Begun(m) == \E f \in [0..m -> A] : f[0] = a /\ \A i \in 1..m : f[i] = g[<<f[i - 1], i>>]
           S == {m \in 0..n : Begun(m)}
<1>0. g \in [A \X (1..n) -> A]
  BY DEF Steps
<1>1. 0 \in S
  <2> DEFINE f == [i \in 0..0 |-> a]
  <2>1. f \in [0..0 -> A] /\ f[0] = a /\ \A i \in 1..0 : f[i] = g[<<f[i - 1], i>>]
    OBVIOUS
  <2>2. Begun(0)
    <3> HIDE DEF f
    <3> QED BY <2>1
  <2> HIDE DEF Begun
  <2> QED BY <2>2
<1>2. ASSUME NEW m \in 0..(n - 1), m \in S PROVE (m + 1) \in S
  <2>1. PICK f \in [0..m -> A] : f[0] = a /\ \A i \in 1..m : f[i] = g[<<f[i - 1], i>>]
    BY <1>2
  <2> DEFINE h == [i \in 0..(m + 1) |-> IF i = m + 1 THEN g[<<f[m], i>>] ELSE f[i]]
  <2>2. h \in [0..(m + 1) -> A]
    <3> SUFFICES ASSUME NEW i \in 0..(m + 1) PROVE (IF i = m + 1 THEN g[<<f[m], i>>] ELSE f[i]) \in A
      OBVIOUS
    <3>1. f[m] \in A /\ (i = m + 1 => i \in 1..n) /\ (i # m + 1 => i \in 0..m)
      OBVIOUS
    <3> QED BY <1>0, <3>1
  <2>3. h[0] = a
    BY <2>1
  <2>4. ASSUME NEW i \in 1..(m + 1) PROVE h[i] = g[<<h[i - 1], i>>]
    <3>1. i - 1 \in 0..m /\ h[i - 1] = f[i - 1]
      OBVIOUS
    <3>2. CASE i = m + 1
      BY <3>1, <3>2
    <3>3. CASE i # m + 1
      <4>1. i \in 1..m
        BY <3>3
      <4> QED BY <2>1, <3>1, <3>3, <4>1
    <3> QED BY <3>2, <3>3
  <2>5. Begun(m + 1)
    <3> HIDE DEF h
    <3> QED BY <2>2, <2>3, <2>4
  <2> HIDE DEF Begun
  <2> QED BY <2>5
<1>3. n \in S
  <2> HIDE DEF S
  <2> QED BY <1>1, <1>2, Along
<1> QED BY <1>3 DEF Follows

-----------------------------------------------------------------------------
\* The equation of UpTo, and its type.
LEMMA UpToIs ==
  ASSUME NEW C, NEW ss \in Seq(Seq(C))
  PROVE  /\ UpTo(ss) \in [0..Len(ss) -> Seq(C)] /\ UpTo(ss)[0] = <<>>
         /\ \A k \in 1..Len(ss) : UpTo(ss)[k] = UpTo(ss)[k - 1] \o ss[k]
<1> DEFINE n == Len(ss)
           g == [p \in Seq(C) \X (1..n) |-> p[1] \o ss[p[2]]]
           F(f) == [k \in 0..n |-> IF k = 0 THEN <<>> ELSE f[k - 1] \o ss[k]]
<1>0. n \in Nat /\ <<>> \in Seq(C) /\ \A k \in 1..n : ss[k] \in Seq(C)
  OBVIOUS
<1>1. Steps(g, n, Seq(C))
  <2> SUFFICES ASSUME NEW p \in Seq(C) \X (1..n) PROVE p[1] \o ss[p[2]] \in Seq(C)
    BY DEF Steps
  <2> QED BY <1>0, ConcatProperties
<1>2. PICK f \in [0..n -> Seq(C)] : f[0] = <<>> /\ \A i \in 1..n : f[i] = g[<<f[i - 1], i>>]
  <2> HIDE DEF n, g
  <2>1. PICK f : Follows(f, n, Seq(C), <<>>, g)
    BY <1>0, <1>1, Recursion
  <2> QED BY <2>1 DEF Follows
<1>3. f = F(f)
  <2>1. ASSUME NEW k \in 0..n PROVE f[k] = F(f)[k]
    <3>1. CASE k = 0
      BY <1>2, <3>1
    <3>2. CASE k # 0
      <4>1. k \in 1..n /\ k - 1 \in 0..n /\ f[k - 1] \in Seq(C)
        <5>1. k \in 1..n /\ k - 1 \in 0..n
          BY <1>0, <3>2
        <5> HIDE DEF n
        <5> QED BY <5>1
      <4>2. g[<<f[k - 1], k>>] = f[k - 1] \o ss[k]
        BY <4>1
      <4> QED BY <1>2, <3>2, <4>1, <4>2
    <3> QED BY <3>1, <3>2
  <2> QED BY <2>1
<1>4. UpTo(ss) = F(UpTo(ss))
  <2>1. UpTo(ss) = CHOOSE h : h = F(h)
    BY DEF UpTo
  <2> HIDE DEF F
  <2> QED BY <1>3, <2>1
<1> DEFINE u == UpTo(ss)
<1>5. u[0] = <<>> /\ \A k \in 1..n : u[k] = u[k - 1] \o ss[k]
  <2> HIDE DEF u
  <2>1. u = F(u)
    BY <1>4 DEF u
  <2>2. \A k \in 0..n : u[k] = IF k = 0 THEN <<>> ELSE u[k - 1] \o ss[k]
    BY <2>1
  <2>3. 0 \in 0..n /\ \A k \in 1..n : k \in 0..n /\ k # 0
    BY <1>0
  <2> QED BY <2>2, <2>3
<1>6. \A k \in 0..n : u[k] \in Seq(C)
  <2> HIDE DEF u, n
  <2> DEFINE S == {k \in 0..n : u[k] \in Seq(C)}
  <2>1. 0 \in S
    <3>1. u[0] \in Seq(C)
      BY <1>0, <1>5, Zenon
    <3> QED BY <1>0, <3>1
  <2>2. ASSUME NEW k \in 0..(n - 1), k \in S PROVE (k + 1) \in S
    <3>1. k + 1 \in 1..n /\ (k + 1) - 1 = k /\ k + 1 \in 0..n
      BY <1>0
    <3>2. u[k + 1] = u[k] \o ss[k + 1]
      BY <1>5, <3>1
    <3>3. u[k] \in Seq(C) /\ ss[k + 1] \in Seq(C)
      BY <1>0, <2>2, <3>1
    <3>4. u[k + 1] \in Seq(C)
      BY <3>2, <3>3, ConcatProperties
    <3> QED BY <3>1, <3>4
  <2> HIDE DEF S
  <2>3. \A k \in 0..n : k \in S
    BY <1>0, <2>1, <2>2, Along
  <2> QED BY <2>3 DEF S
<1>7. u \in [0..n -> Seq(C)]
  BY <1>4, <1>6
<1> QED BY <1>5, <1>7

-----------------------------------------------------------------------------
\* The equation of Scanned, and its type.
Chars == STRING \cup {Amp, Escape}
Values == Seq(Seq(Chars))
States == [found : Values, current : Seq(Chars), escaped : BOOLEAN, skip : BOOLEAN]
Unescaped(f, c) == [found |-> f, current |-> c, escaped |-> FALSE, skip |-> FALSE]
Escaping(f, c) == [found |-> f, current |-> c, escaped |-> TRUE, skip |-> FALSE]
Skipping(f, c) == [found |-> f, current |-> c, escaped |-> FALSE, skip |-> TRUE]
Both(f, c) == [found |-> f, current |-> c, escaped |-> TRUE, skip |-> TRUE]

\* These are states of the scan.
LEMMA StateIs ==
  ASSUME NEW f \in Values, NEW c \in Seq(Chars)
  PROVE  /\ Unescaped(f, c) \in States /\ Escaping(f, c) \in States
         /\ Skipping(f, c) \in States
BY DEF Unescaped, Escaping, Skipping, Both, States

\* Where an escape is, and where a separator of the width begins.
Escapes(raw, i) == raw[i] = Escape
Separates(raw, width, i) == raw[i] = Amp /\ (width = 2 => i < Len(raw) /\ raw[i + 1] = Amp)

\* What reading the i-th character does, by the state before it: where one is to be skipped, no more.
LEMMA ReadSkipped ==
  ASSUME NEW raw, NEW width, NEW i, NEW f, NEW c, NEW x, x = Skipping(f, c)
  PROVE  Read(x, raw, width, i) = Unescaped(f, c)
BY DEF Read, Unescaped, Escaping, Skipping, Both

\* The character to be skipped is skipped, whatever else is to come.
LEMMA ReadBoth ==
  ASSUME NEW raw, NEW width, NEW i, NEW f, NEW c, NEW x, x = Both(f, c)
  PROVE  Read(x, raw, width, i) = Escaping(f, c)
BY DEF Read, Unescaped, Escaping, Skipping, Both

\* Behind the escape, a character is taken as it is.
LEMMA ReadEscaped ==
  ASSUME NEW raw, NEW width, NEW i, NEW f, NEW c, NEW x, x = Escaping(f, c)
  PROVE  Read(x, raw, width, i) = Unescaped(f, Append(c, raw[i]))
BY DEF Read, Unescaped, Escaping, Skipping, Both

\* An escape is not taken, and the next character is escaped.
LEMMA ReadEscape ==
  ASSUME NEW raw, NEW width, NEW i, NEW f, NEW c, NEW x, x = Unescaped(f, c), Escapes(raw, i)
  PROVE  Read(x, raw, width, i) = Escaping(f, c)
BY DEF Read, Unescaped, Escaping, Skipping, Both, Amp, Escape, Escapes

\* A separator ends the value; the second "&" of a wide one is skipped.
LEMMA ReadSeparator ==
  ASSUME NEW raw, NEW width, NEW i, NEW f, NEW c, NEW x, x = Unescaped(f, c),
         Separates(raw, width, i)
  PROVE  Read(x, raw, width, i) = IF width = 2 THEN Skipping(Append(f, c), <<>>) ELSE Unescaped(Append(f, c), <<>>)
<1>1. raw[i] # Escape
  BY DEF Amp, Escape, Separates
<1>2. Read(x, raw, width, i) =
        [found |-> Append(f, c), current |-> <<>>, escaped |-> FALSE, skip |-> width = 2]
  BY <1>1 DEF Read, Unescaped, Separates
<1>3. CASE width = 2
  BY <1>2, <1>3 DEF Skipping
<1>4. CASE width # 2
  BY <1>2, <1>4 DEF Unescaped
<1> QED BY <1>3, <1>4

\* Another character is taken.
LEMMA ReadLetter ==
  ASSUME NEW raw, NEW width, NEW i, NEW f, NEW c, NEW x, x = Unescaped(f, c),
         ~Escapes(raw, i), ~Separates(raw, width, i)
  PROVE  Read(x, raw, width, i) = Unescaped(f, Append(c, raw[i]))
BY DEF Read, Unescaped, Escaping, Skipping, Both, Separates, Escapes

\* A state of the scan is followed by one.
LEMMA ReadTypes ==
  ASSUME NEW raw \in Seq(Chars), NEW width, NEW before \in States, NEW i \in 1..Len(raw)
  PROVE  Read(before, raw, width, i) \in States
<1> DEFINE f == before.found
           c == before.current
<1>1. f \in Values /\ c \in Seq(Chars)
  BY DEF States
<1>2. \/ before = Unescaped(f, c)
      \/ before = Escaping(f, c)
      \/ before = Skipping(f, c)
      \/ before = Both(f, c)
  BY DEF States, Unescaped, Escaping, Skipping, Both
<1>3. raw[i] \in Chars
  BY ElementOfSeq
<1>4. Append(c, raw[i]) \in Seq(Chars) /\ Append(f, c) \in Values /\ <<>> \in Seq(Chars)
  BY <1>1, <1>3, AppendProperties DEF Values
<1> HIDE DEF f, c
<1> DEFINE r == Read(before, raw, width, i)
           c2 == Append(c, raw[i])
           f2 == Append(f, c)
<1>8. c2 \in Seq(Chars) /\ f2 \in Values
  BY <1>4
<1>9. Unescaped(f, c2) \in States
  <2> HIDE DEF c2
  <2> QED BY <1>1, <1>8, StateIs
<1>10. Unescaped(f2, <<>>) \in States /\ Skipping(f2, <<>>) \in States
  <2> DEFINE none == <<>>
  <2>1. none \in Seq(Chars)
    BY <1>4
  <2> HIDE DEF f2, none
  <2>2. Unescaped(f2, none) \in States /\ Skipping(f2, none) \in States
    BY <1>8, <2>1, StateIs
  <2> QED BY <2>2 DEF none
<1>5. CASE before = Skipping(f, c) \/ before = Both(f, c)
  <2>1. r = Unescaped(f, c) \/ r = Escaping(f, c)
    <3>1. CASE before = Skipping(f, c)
      BY <3>1, ReadSkipped
    <3>2. CASE before = Both(f, c)
      BY <3>2, ReadBoth
    <3> QED BY <1>5, <3>1, <3>2
  <2> QED BY <1>1, <2>1, StateIs, Zenon
<1>6. CASE before = Escaping(f, c)
  <2>1. r = Unescaped(f, Append(c, raw[i]))
    BY <1>6, ReadEscaped
  <2> QED BY <1>9, <2>1, Zenon
<1>7. CASE before = Unescaped(f, c)
  <2>2. CASE Escapes(raw, i)
    <3>1. r = Escaping(f, c)
      BY <1>7, <2>2, ReadEscape
    <3> QED BY <1>1, <3>1, StateIs, Zenon
  <2>3. CASE Separates(raw, width, i)
    <3>1. r = IF width = 2 THEN Skipping(f2, <<>>) ELSE Unescaped(f2, <<>>)
      BY <1>7, <2>3, ReadSeparator
    <3>2. CASE width = 2
      BY <1>10, <3>1, <3>2
    <3>3. CASE width # 2
      BY <1>10, <3>1, <3>3
    <3> QED BY <3>2, <3>3
  <2>4. CASE ~Escapes(raw, i) /\ ~Separates(raw, width, i)
    <3>1. r = Unescaped(f, Append(c, raw[i]))
      BY <1>7, <2>4, ReadLetter
    <3> QED BY <1>9, <3>1, Zenon
  <2> QED BY <2>2, <2>3, <2>4
<1> QED BY <1>2, <1>5, <1>6, <1>7

Start == Unescaped(<<>>, <<>>)

\* Scanned starts with nothing found, and each state is read from the one before it.
LEMMA ScannedIs ==
  ASSUME NEW raw \in Seq(Chars), NEW width
  PROVE  /\ Scanned(raw, width) \in [0..Len(raw) -> States] /\ Scanned(raw, width)[0] = Start
         /\ \A i \in 1..Len(raw) : Scanned(raw, width)[i] = Read(Scanned(raw, width)[i - 1], raw, width, i)
<1> DEFINE n == Len(raw)
           g == [p \in States \X (1..n) |-> Read(p[1], raw, width, p[2])]
           F(f) == [i \in 0..n |-> IF i = 0 THEN Start ELSE Read(f[i - 1], raw, width, i)]
<1>0. n \in Nat /\ Start \in States
  BY EmptySeq DEF Start, Unescaped, Escaping, Skipping, Both, States, Values
<1>1. Steps(g, n, States)
  <2> SUFFICES ASSUME NEW p \in States \X (1..n) PROVE Read(p[1], raw, width, p[2]) \in States
    BY DEF Steps
  <2> QED BY ReadTypes
<1>2. PICK f \in [0..n -> States] : f[0] = Start /\ \A i \in 1..n : f[i] = g[<<f[i - 1], i>>]
  <2> HIDE DEF n, g
  <2>1. PICK f : Follows(f, n, States, Start, g)
    BY <1>0, <1>1, Recursion
  <2> QED BY <2>1 DEF Follows
<1>3. f = F(f)
  <2>1. ASSUME NEW k \in 0..n PROVE f[k] = F(f)[k]
    <3>1. CASE k = 0
      BY <1>2, <3>1
    <3>2. CASE k # 0
      <4>1. k \in 1..n /\ k - 1 \in 0..n
        BY <1>0, <3>2
      <4>2. f[k - 1] \in States
        BY <4>1
      <4>3. g[<<f[k - 1], k>>] = Read(f[k - 1], raw, width, k)
        BY <4>1, <4>2
      <4> QED BY <1>2, <3>2, <4>1, <4>3
    <3> QED BY <3>1, <3>2
  <2> QED BY <2>1
<1>4. Scanned(raw, width) = F(Scanned(raw, width))
  <2>1. Scanned(raw, width) = CHOOSE h : h = F(h)
    BY DEF Scanned, Start, Unescaped, Escaping, Skipping, Both
  <2> HIDE DEF F
  <2> QED BY <1>3, <2>1
<1> DEFINE u == Scanned(raw, width)
<1>5. u[0] = Start /\ \A k \in 1..n : u[k] = Read(u[k - 1], raw, width, k)
  <2> HIDE DEF u
  <2>1. u = F(u)
    BY <1>4 DEF u
  <2>2. \A k \in 0..n : u[k] = IF k = 0 THEN Start ELSE Read(u[k - 1], raw, width, k)
    BY <2>1
  <2>3. 0 \in 0..n /\ \A k \in 1..n : k \in 0..n /\ k # 0
    BY <1>0
  <2> QED BY <2>2, <2>3
<1>6. \A k \in 0..n : u[k] \in States
  <2> HIDE DEF u
  <2> DEFINE S == {k \in 0..n : u[k] \in States}
  <2>1. 0 \in S
    BY <1>0, <1>5
  <2>2. ASSUME NEW k \in 0..(n - 1), k \in S PROVE (k + 1) \in S
    <3>1. k + 1 \in 1..n /\ (k + 1) - 1 = k /\ k + 1 \in 0..n
      BY <1>0
    <3>2. u[k + 1] = Read(u[k], raw, width, k + 1)
      BY <1>5, <3>1
    <3>3. u[k] \in States
      BY <2>2
    <3>4. u[k + 1] \in States
      BY <3>1, <3>2, <3>3, ReadTypes
    <3> QED BY <3>1, <3>4
  <2> HIDE DEF S
  <2>3. \A k \in 0..n : k \in S
    BY <1>0, <2>1, <2>2, Along
  <2> QED BY <2>3 DEF S
<1>7. u \in [0..n -> States]
  BY <1>4, <1>6
<1> QED BY <1>5, <1>7

-----------------------------------------------------------------------------
\* The equation of Seen, and its type.
AlsoSeen(x, seen) == IF Among(x, seen) THEN seen ELSE Append(seen, x)

\* The equation of Seen, and its type.
LEMMA SeenIs ==
  ASSUME NEW C, NEW s \in Seq(C)
  PROVE  /\ Seen(s)[0] = <<>> /\ \A i \in 0..Len(s) : Seen(s)[i] \in Seq(C)
         /\ \A i \in 1..Len(s) : Seen(s)[i] = AlsoSeen(s[i], Seen(s)[i - 1])
<1> DEFINE n == Len(s)
           g == [p \in Seq(C) \X (1..n) |-> AlsoSeen(s[p[2]], p[1])]
           F(f) == [i \in 0..n |-> IF i = 0 THEN <<>> ELSE AlsoSeen(s[i], f[i - 1])]
<1>0. n \in Nat /\ <<>> \in Seq(C) /\ \A i \in 1..n : s[i] \in C
  OBVIOUS
<1>a. ASSUME NEW seen \in Seq(C), NEW i \in 1..n PROVE AlsoSeen(s[i], seen) \in Seq(C)
  BY <1>0, AppendProperties DEF AlsoSeen
<1>1. Steps(g, n, Seq(C))
  <2> SUFFICES ASSUME NEW p \in Seq(C) \X (1..n) PROVE AlsoSeen(s[p[2]], p[1]) \in Seq(C)
    BY DEF Steps
  <2> QED BY <1>a
<1>2. PICK f \in [0..n -> Seq(C)] : f[0] = <<>> /\ \A i \in 1..n : f[i] = g[<<f[i - 1], i>>]
  <2> HIDE DEF n, g
  <2>1. PICK f : Follows(f, n, Seq(C), <<>>, g)
    BY <1>0, <1>1, Recursion
  <2> QED BY <2>1 DEF Follows
<1>3. f = F(f)
  <2>1. ASSUME NEW k \in 0..n PROVE f[k] = F(f)[k]
    <3>1. CASE k = 0
      BY <1>2, <3>1
    <3>2. CASE k # 0
      <4>1. k \in 1..n /\ k - 1 \in 0..n
        BY <1>0, <3>2
      <4>2. f[k - 1] \in Seq(C)
        <5> HIDE DEF n
        <5> QED BY <4>1
      <4>3. g[<<f[k - 1], k>>] = AlsoSeen(s[k], f[k - 1])
        BY <4>1, <4>2
      <4> QED BY <1>2, <3>2, <4>1, <4>3
    <3> QED BY <3>1, <3>2
  <2> QED BY <2>1
<1>4. Seen(s) = F(Seen(s))
  <2>1. Seen(s) = CHOOSE h : h = F(h)
    BY DEF Seen, AlsoSeen
  <2> HIDE DEF F
  <2> QED BY <1>3, <2>1
<1> DEFINE u == Seen(s)
<1>5. u[0] = <<>> /\ \A k \in 1..n : u[k] = AlsoSeen(s[k], u[k - 1])
  <2> HIDE DEF u
  <2>1. u = F(u)
    BY <1>4 DEF u
  <2>2. \A k \in 0..n : u[k] = IF k = 0 THEN <<>> ELSE AlsoSeen(s[k], u[k - 1])
    BY <2>1
  <2>3. 0 \in 0..n /\ \A k \in 1..n : k \in 0..n /\ k # 0
    BY <1>0
  <2> QED BY <2>2, <2>3
<1>6. \A k \in 0..n : u[k] \in Seq(C)
  <2> HIDE DEF u
  <2> DEFINE S == {k \in 0..n : u[k] \in Seq(C)}
  <2>1. 0 \in S
    <3>1. u[0] \in Seq(C)
      BY <1>0, <1>5, Zenon
    <3> QED BY <1>0, <3>1
  <2>2. ASSUME NEW k \in 0..(n - 1), k \in S PROVE (k + 1) \in S
    <3>1. k + 1 \in 1..n /\ (k + 1) - 1 = k /\ k + 1 \in 0..n
      BY <1>0
    <3>2. u[k + 1] = AlsoSeen(s[k + 1], u[k])
      BY <1>5, <3>1
    <3>3. u[k] \in Seq(C)
      BY <2>2
    <3>4. u[k + 1] \in Seq(C)
      BY <1>a, <3>1, <3>2, <3>3
    <3> QED BY <3>1, <3>4
  <2> HIDE DEF S
  <2>3. \A k \in 0..n : k \in S
    BY <1>0, <2>1, <2>2, Along
  <2> QED BY <2>3 DEF S
<1> QED BY <1>5, <1>6

\* Numbers without repeats are among the numbers, each of them once.
LEMMA NoRepeats ==
  ASSUME NEW C, NEW s \in Seq(C)
  PROVE  /\ WithoutRepeats(s) \in Seq(C)
         /\ \A k, l \in DOMAIN WithoutRepeats(s) : WithoutRepeats(s)[k] = WithoutRepeats(s)[l] => k = l
<1> DEFINE n == Len(s)
           u == Seen(s)
           Distinct(t) == \A k, l \in DOMAIN t : t[k] = t[l] => k = l
<1>0. n \in Nat
  OBVIOUS
<1>1. /\ u[0] = <<>> /\ \A i \in 0..n : u[i] \in Seq(C)
      /\ \A i \in 1..n : u[i] = AlsoSeen(s[i], u[i - 1])
  BY SeenIs
<1> HIDE DEF u
<1>2. ASSUME NEW t \in Seq(C), NEW x \in C, Distinct(t) PROVE Distinct(AlsoSeen(x, t))
  <2>1. CASE Among(x, t)
    BY <1>2, <2>1 DEF AlsoSeen
  <2>2. CASE ~Among(x, t)
    <3>1. AlsoSeen(x, t) = Append(t, x)
      BY <2>2 DEF AlsoSeen
    <3>2. \A k \in 1..Len(t) : t[k] # x
      BY <2>2 DEF Among
    <3>3. DOMAIN Append(t, x) = 1..(Len(t) + 1) /\ DOMAIN t = 1..Len(t) /\ Len(t) \in Nat
      OBVIOUS
    <3>4. \A k \in 1..Len(t) : Append(t, x)[k] = t[k]
      OBVIOUS
    <3>5. Append(t, x)[Len(t) + 1] = x
      OBVIOUS
    <3> SUFFICES ASSUME NEW k \in 1..(Len(t) + 1), NEW l \in 1..(Len(t) + 1),
                        Append(t, x)[k] = Append(t, x)[l]
                 PROVE  k = l
      BY <3>1, <3>3
    <3>6. CASE k \in 1..Len(t) /\ l \in 1..Len(t)
      BY <1>2, <3>3, <3>4, <3>6
    <3>7. CASE k = Len(t) + 1 \/ l = Len(t) + 1
      BY <3>2, <3>3, <3>4, <3>5, <3>7
    <3> QED BY <3>3, <3>6, <3>7
  <2> QED BY <2>1, <2>2
<1> DEFINE S == {i \in 0..n : Distinct(u[i])}
<1>3. 0 \in S
  BY <1>0, <1>1
<1>4. ASSUME NEW i \in 0..(n - 1), i \in S PROVE (i + 1) \in S
  <2>1. i + 1 \in 1..n /\ i + 1 \in 0..n /\ (i + 1) - 1 = i /\ i \in 0..n
    BY <1>0
  <2>2. u[i + 1] = AlsoSeen(s[i + 1], u[i]) /\ u[i] \in Seq(C) /\ s[i + 1] \in C
    BY <1>1, <2>1
  <2>3. Distinct(u[i])
    BY <1>4
  <2> HIDE DEF Distinct, n
  <2>4. Distinct(u[i + 1])
    BY <1>2, <2>2, <2>3
  <2> QED BY <2>1, <2>4
<1> HIDE DEF S, n
<1>5. \A i \in 0..n : i \in S
  BY <1>0, <1>3, <1>4, Along
<1>6. n \in 0..n /\ WithoutRepeats(s) = u[n]
  <2>1. n \in 0..n
    BY <1>0
  <2>2. WithoutRepeats(s) = u[n]
    BY DEF WithoutRepeats, u, n
  <2> QED BY <2>1, <2>2
<1> HIDE DEF Distinct
<1>7. u[n] \in Seq(C) /\ Distinct(u[n])
  BY <1>1, <1>5, <1>6 DEF S
<1> QED BY <1>6, <1>7 DEF Distinct

-----------------------------------------------------------------------------
\* Where a part of a concatenation is.
Holds(t, p, r) == p + Len(r) <= Len(t) /\ \A j \in 1..Len(r) : t[p + j] = r[j]

\* The parts of a concatenation lie one behind the other, each in the whole.
LEMMA Offsets ==
  ASSUME NEW C, NEW ss \in Seq(Seq(C))
  PROVE  /\ Concat(ss) \in Seq(C)
         /\ \A k \in 0..Len(ss) : UpTo(ss)[k] \in Seq(C)
         /\ \A k \in 1..Len(ss) : /\ Len(UpTo(ss)[k]) = Len(UpTo(ss)[k - 1]) + Len(ss[k])
                                  /\ Holds(UpTo(ss)[k], Len(UpTo(ss)[k - 1]), ss[k])
         /\ \A k \in 0..Len(ss) : Holds(Concat(ss), 0, UpTo(ss)[k])
<1> DEFINE n == Len(ss)
           u == UpTo(ss)
<1>0. n \in Nat /\ \A k \in 1..n : ss[k] \in Seq(C)
  OBVIOUS
<1>1. u[0] = <<>> /\ \A k \in 1..n : u[k] = u[k - 1] \o ss[k]
  BY UpToIs
<1>2. \A k \in 0..n : u[k] \in Seq(C)
  BY UpToIs
<1>3. Concat(ss) = u[n]
  BY DEF Concat
<1> HIDE DEF u
<1>4. \A k \in 1..n : Len(u[k]) = Len(u[k - 1]) + Len(ss[k]) /\ Holds(u[k], Len(u[k - 1]), ss[k])
             /\ Holds(u[k], 0, u[k - 1])
  <2> SUFFICES ASSUME NEW k \in 1..n
               PROVE  Len(u[k]) = Len(u[k - 1]) + Len(ss[k]) /\ Holds(u[k], Len(u[k - 1]), ss[k])
                      /\ Holds(u[k], 0, u[k - 1])
    OBVIOUS
  <2>1. k - 1 \in 0..n /\ k \in 0..n
    BY <1>0
  <2> DEFINE x == u[k - 1]
             y == ss[k]
  <2>2. x \in Seq(C) /\ y \in Seq(C) /\ u[k] = x \o y
    BY <1>0, <1>1, <1>2, <2>1
  <2> HIDE DEF x, y
  <2>3. /\ Len(x \o y) = Len(x) + Len(y)
        /\ \A i \in 1..(Len(x) + Len(y)) : (x \o y)[i] = IF i <= Len(x) THEN x[i] ELSE y[i - Len(x)]
    BY <2>2, ConcatProperties
  <2>4. Len(x) \in Nat /\ Len(y) \in Nat
    BY <2>2
  <2> DEFINE z == x \o y
  <2> HIDE DEF z
  <2>5. \A j \in 1..Len(y) : z[Len(x) + j] = y[j]
    BY <2>3, <2>4 DEF z
  <2>6. \A j \in 1..Len(x) : z[0 + j] = x[j]
    BY <2>3, <2>4 DEF z
  <2>7. Len(z) = Len(x) + Len(y)
    BY <2>3 DEF z
  <2>8. Holds(z, Len(x), y) /\ Holds(z, 0, x)
    BY <2>4, <2>5, <2>6, <2>7 DEF Holds
  <2> QED BY <2>2, <2>7, <2>8 DEF x, y, z
<1>5. ASSUME NEW k \in 0..n PROVE Holds(u[n], 0, u[k])
  <2> DEFINE S == {m \in 0..n : m < k \/ Holds(u[m], 0, u[k])}
  <2>0. Holds(u[k], 0, u[k])
    <3>1. u[k] \in Seq(C)
      BY <1>2
    <3> QED BY <3>1 DEF Holds
  <2>1. 0 \in S
    BY <1>0, <2>0
  <2>2. ASSUME NEW m \in 0..(n - 1), m \in S PROVE (m + 1) \in S
    <3>1. m + 1 \in 1..n /\ (m + 1) - 1 = m /\ m + 1 \in 0..n /\ m \in 0..n
      BY <1>0
    <3>2. Holds(u[m + 1], 0, u[m])
      BY <1>4, <3>1
    <3>3. CASE m + 1 < k
      BY <3>1, <3>3
    <3>4. CASE m + 1 = k
      BY <2>0, <3>1, <3>4
    <3>5. CASE m + 1 > k
      <4>1. Holds(u[m], 0, u[k])
        BY <2>2, <3>5
      <4> DEFINE a == u[m + 1]
                 b == u[m]
                 c == u[k]
      <4> HIDE DEF a, b, c
      <4>a. a \in Seq(C) /\ b \in Seq(C) /\ c \in Seq(C)
        BY <1>2, <3>1 DEF a, b, c
      <4>2. Len(a) \in Nat /\ Len(b) \in Nat /\ Len(c) \in Nat
        BY <4>a
      <4>3. Holds(a, 0, b) /\ Holds(b, 0, c)
        BY <3>2, <4>1 DEF a, b, c
      <4>4. Holds(a, 0, c)
        BY <4>2, <4>3 DEF Holds
      <4> QED BY <3>1, <4>4 DEF a, c
    <3> QED BY <1>0, <3>3, <3>4, <3>5
  <2> HIDE DEF S
  <2>3. \A m \in 0..n : m \in S
    BY <1>0, <2>1, <2>2, Along
  <2> QED BY <1>0, <2>3 DEF S
<1>6. n \in 0..n
  BY <1>0
<1> QED BY <1>2, <1>3, <1>4, <1>5, <1>6 DEF u

\* What holds a concatenation holds its parts, each after those before it.
LEMMA PartsHeld ==
  ASSUME NEW C, NEW ss \in Seq(Seq(C)), NEW t \in Seq(C), NEW p \in Nat, Holds(t, p, Concat(ss)),
         NEW k \in 1..Len(ss)
  PROVE  /\ Len(UpTo(ss)[k - 1]) \in Nat /\ Len(UpTo(ss)[k]) = Len(UpTo(ss)[k - 1]) + Len(ss[k])
         /\ p + Len(UpTo(ss)[k]) <= Len(t)
         /\ Holds(t, p + Len(UpTo(ss)[k - 1]), ss[k])
<1> DEFINE a == Concat(ss)
           b == UpTo(ss)[k]
           q == Len(UpTo(ss)[k - 1])
           c == ss[k]
<1>1. k \in 0..Len(ss) /\ k - 1 \in 0..Len(ss)
  OBVIOUS
<1>2. a \in Seq(C) /\ b \in Seq(C) /\ c \in Seq(C) /\ q \in Nat
  <2>1. a \in Seq(C)
    BY Offsets
  <2>2. b \in Seq(C)
    BY <1>1, Offsets
  <2> DEFINE d == UpTo(ss)[k - 1]
  <2>3. d \in Seq(C)
    BY <1>1, Offsets
  <2> HIDE DEF d
  <2>4. Len(d) \in Nat
    BY <2>3
  <2> QED BY <2>1, <2>2, <2>4 DEF d
<1>3. Holds(a, 0, b) /\ Holds(b, q, c) /\ Len(b) = q + Len(c) /\ Holds(t, p, a)
  BY <1>1, Offsets
<1> HIDE DEF a, b, q, c
<1>4. p + Len(b) <= Len(t)
  BY <1>2, <1>3 DEF Holds
<1>5. Holds(t, p + q, c)
  <2>1. Len(a) \in Nat /\ Len(b) \in Nat /\ Len(c) \in Nat /\ Len(t) \in Nat
    BY <1>2
  <2>2. ASSUME NEW j \in 1..Len(c) PROVE t[p + q + j] = c[j]
    <3>1. q + j \in 1..Len(b) /\ q + j \in 1..Len(a)
      BY <1>2, <1>3, <2>1 DEF Holds
    <3>2. b[q + j] = c[j] /\ a[0 + (q + j)] = b[q + j] /\ t[p + (q + j)] = a[q + j]
      BY <1>3, <3>1 DEF Holds
    <3>3. p + (q + j) = p + q + j /\ 0 + (q + j) = q + j
      BY <1>2
    <3> QED BY <3>2, <3>3
  <2>3. p + q + Len(c) <= Len(t)
    BY <1>2, <1>3, <1>4, <2>1
  <2> QED BY <2>2, <2>3 DEF Holds
<1> QED BY <1>2, <1>3, <1>4, <1>5 DEF a, b, q, c

-----------------------------------------------------------------------------
\* After p characters the values f are complete and the next one begins with c.
Has(t, w, p, f, c) == Scanned(t, w)[p] = Unescaped(f, c)

\* An "&" that is left alone is where two separate, and no other one follows.
LeftAlone(t, w, p, v, i) ==
  Len(EscapedCharacter(v, i, w)) = 1 /\ v[i] = Amp => w = 2 /\ ~(p + 1 < Len(t) /\ t[p + 2] = Amp)

\* A character is read back from its code.
LEMMA ScanCode ==
  ASSUME NEW t \in Seq(Chars), NEW w \in 1..2, NEW p \in Nat,
         NEW v \in Seq(Chars), NEW i \in 1..Len(v), Holds(t, p, EscapedCharacter(v, i, w)),
         NEW f, NEW c, Has(t, w, p, f, c), LeftAlone(t, w, p, v, i)
  PROVE  Has(t, w, p + Len(EscapedCharacter(v, i, w)), f, Append(c, v[i]))
<1> DEFINE u == Scanned(t, w)
           e == EscapedCharacter(v, i, w)
<1>1. \A k \in 1..Len(t) : u[k] = Read(u[k - 1], t, w, k)
  BY ScannedIs
<1>2. u[p] = Unescaped(f, c) /\ Holds(t, p, e)
  BY DEF Has
<1>3. \/ e = <<Escape, v[i]>>
      \/ e = <<v[i]>> /\ v[i] # Escape
  BY DEF EscapedCharacter
<1>4. Len(e) = 1 /\ v[i] = Amp => w = 2 /\ ~(p + 1 < Len(t) /\ t[p + 2] = Amp)
  BY DEF LeftAlone
<1> HIDE DEF u, e
<1>5. CASE e = <<Escape, v[i]>>
  <2>1. Len(e) = 2 /\ e[1] = Escape /\ e[2] = v[i]
    BY <1>5
  <2>2. p + 2 <= Len(t) /\ t[p + 1] = Escape /\ t[p + 2] = v[i]
    BY <1>2, <2>1 DEF Holds
  <2>3. p + 1 \in 1..Len(t) /\ p + 2 \in 1..Len(t) /\ (p + 1) - 1 = p /\ (p + 2) - 1 = p + 1
    <3> DEFINE m == Len(t)
    <3>1. m \in Nat /\ p + 2 <= m
      BY <2>2
    <3> HIDE DEF m
    <3>2. p + 1 \in 1..m /\ p + 2 \in 1..m
      BY <3>1
    <3>3. (p + 1) - 1 = p /\ (p + 2) - 1 = p + 1
      OBVIOUS
    <3> QED BY <3>2, <3>3 DEF m
  <2>4. u[p + 1] = Read(u[p], t, w, p + 1) /\ u[p + 2] = Read(u[p + 1], t, w, p + 2)
    BY <1>1, <2>3
  <2>5. u[p + 1] = Escaping(f, c)
    <3>1. Escapes(t, p + 1)
      BY <2>2 DEF Escapes
    <3> QED BY <1>2, <2>4, <3>1, ReadEscape
  <2>6. u[p + 2] = Unescaped(f, Append(c, t[p + 2]))
    BY <2>4, <2>5, ReadEscaped
  <2> QED BY <2>1, <2>2, <2>6 DEF u, e, Has
<1>6. CASE e = <<v[i]>> /\ v[i] # Escape
  <2>1. Len(e) = 1 /\ e[1] = v[i]
    BY <1>6
  <2>2. p + 1 <= Len(t) /\ t[p + 1] = v[i]
    BY <1>2, <2>1 DEF Holds
  <2>3. p + 1 \in 1..Len(t) /\ (p + 1) - 1 = p
    <3> DEFINE m == Len(t)
    <3>1. m \in Nat /\ p + 1 <= m
      BY <2>2
    <3> HIDE DEF m
    <3>2. p + 1 \in 1..m /\ (p + 1) - 1 = p
      BY <3>1
    <3> QED BY <3>2 DEF m
  <2>4. u[p + 1] = Read(u[p], t, w, p + 1)
    BY <1>1, <2>3
  <2>5. ~Escapes(t, p + 1)
    BY <1>6, <2>2 DEF Escapes
  <2>6. ~Separates(t, w, p + 1)
    <3>1. (p + 1) + 1 = p + 2
      OBVIOUS
    <3> QED BY <1>4, <2>1, <2>2, <3>1 DEF Separates
  <2>7. u[p + 1] = Unescaped(f, Append(c, t[p + 1]))
    BY <1>2, <2>4, <2>5, <2>6, ReadLetter
  <2> QED BY <2>1, <2>2, <2>7 DEF u, e, Has
<1> QED BY <1>3, <1>5, <1>6

\* Sequences of one and of two.
LEMMA ShortSequences ==
  ASSUME NEW C, NEW a \in C, NEW b \in C
  PROVE  /\ <<a>> \in Seq(C) /\ Len(<<a>>) = 1 /\ <<a>>[1] = a
         /\ <<a, b>> \in Seq(C) /\ Len(<<a, b>>) = 2 /\ <<a, b>>[1] = a
OBVIOUS

\* The codes of the characters of a value.
Codes(v, w) == [i \in DOMAIN v |-> EscapedCharacter(v, i, w)]

\* The codes are sequences of characters, and a value is escaped by their concatenation.
LEMMA CodesAre ==
  ASSUME NEW v \in Seq(Chars), NEW w \in 1..2
  PROVE  /\ Codes(v, w) \in Seq(Seq(Chars)) /\ Len(Codes(v, w)) = Len(v)
         /\ escapeTaskEnvValue(v, w) = Concat(Codes(v, w))
         /\ \A i \in 1..Len(v) : Codes(v, w)[i] = EscapedCharacter(v, i, w)
<1>1. \A i \in 1..Len(v) : EscapedCharacter(v, i, w) \in Seq(Chars)
  <2> SUFFICES ASSUME NEW i \in 1..Len(v) PROVE EscapedCharacter(v, i, w) \in Seq(Chars)
    OBVIOUS
  <2>1. v[i] \in Chars /\ Escape \in Chars /\ Amp \in Chars
    <3>1. v[i] \in Chars
      BY ElementOfSeq
    <3> QED BY <3>1 DEF Chars
  <2>2. <<Escape, Escape>> \in Seq(Chars) /\ <<Escape, Amp>> \in Seq(Chars) /\ <<v[i]>> \in Seq(Chars)
    BY <2>1, ShortSequences
  <2>3. EscapedCharacter(v, i, w) \in {<<Escape, Escape>>, <<Escape, Amp>>, <<v[i]>>}
    BY DEF EscapedCharacter, Escape, Amp
  <2> QED BY <2>2, <2>3
<1>2. DOMAIN v = 1..Len(v) /\ Len(v) \in Nat
  OBVIOUS
<1>3. Codes(v, w) = [i \in 1..Len(v) |-> EscapedCharacter(v, i, w)]
  BY <1>2 DEF Codes
<1>4. escapeTaskEnvValue(v, w) = Concat(Codes(v, w))
  BY DEF escapeTaskEnvValue, Codes
<1> DEFINE e(i) == EscapedCharacter(v, i, w)
<1> HIDE DEF e
<1>5. \A i \in 1..Len(v) : e(i) \in Seq(Chars)
  BY <1>1 DEF e
<1>6. Codes(v, w) = [i \in 1..Len(v) |-> e(i)]
  BY <1>3 DEF e
<1>7. Codes(v, w) \in Seq(Seq(Chars)) /\ Len(Codes(v, w)) = Len(v)
  BY <1>2, <1>5, <1>6
<1>8. \A i \in 1..Len(v) : Codes(v, w)[i] = EscapedCharacter(v, i, w)
  BY <1>3
<1> QED BY <1>4, <1>7, <1>8

\* A prefix and the next element.
LEMMA LongerByOne ==
  ASSUME NEW C, NEW s \in Seq(C), NEW i \in 0..(Len(s) - 1)
  PROVE  Append(SubSeq(s, 1, i), s[i + 1]) = SubSeq(s, 1, i + 1)
OBVIOUS

\* A value is read back from its escaped characters, if none is an "&" that an "&" after
\* the value follows.
LEMMA ScanValue ==
  ASSUME NEW t \in Seq(Chars), NEW w \in 1..2, NEW p \in Nat, NEW v \in Seq(Chars),
         Holds(t, p, escapeTaskEnvValue(v, w)),
         NEW f, Has(t, w, p, f, <<>>),
         \/ v = <<>> \/ v[Len(v)] # Amp
         \/ p + Len(escapeTaskEnvValue(v, w)) = Len(t)
  PROVE  Has(t, w, p + Len(escapeTaskEnvValue(v, w)), f, v)
<1> DEFINE n == Len(v)
           d == Codes(v, w)
           u == UpTo(d)
           ReadTo(i) == Has(t, w, p + Len(u[i]), f, SubSeq(v, 1, i))
           S == {i \in 0..n : ReadTo(i)}
<1>0. n \in Nat
  OBVIOUS
<1>1. d \in Seq(Seq(Chars)) /\ Len(d) = n /\ \A i \in 1..n : d[i] = EscapedCharacter(v, i, w)
  BY CodesAre
<1>2. Holds(t, p, Concat(d)) /\ escapeTaskEnvValue(v, w) = Concat(d) /\ Concat(d) = u[n]
  BY <1>1, CodesAre DEF Concat
<1>3. u[0] = <<>>
  BY <1>1, UpToIs
<1> DEFINE e(k) == EscapedCharacter(v, k, w)
<1>a. \A k \in 1..n : /\ Len(u[k - 1]) \in Nat /\ Len(u[k]) = Len(u[k - 1]) + Len(e(k))
                      /\ p + Len(u[k]) <= Len(t) /\ Holds(t, p + Len(u[k - 1]), e(k))
  <2> SUFFICES ASSUME NEW k \in 1..n
               PROVE  /\ Len(u[k - 1]) \in Nat /\ Len(u[k]) = Len(u[k - 1]) + Len(d[k])
                      /\ p + Len(u[k]) <= Len(t) /\ Holds(t, p + Len(u[k - 1]), d[k])
    BY <1>1
  <2>1. k \in 1..Len(d)
    BY <1>1
  <2> HIDE DEF d, n
  <2> QED BY <1>1, <1>2, <2>1, PartsHeld
<1>b. \A k \in 1..n : e(k) = <<Escape, Escape>> \/ e(k) = <<Escape, Amp>> \/ e(k) = <<v[k]>>
  BY DEF EscapedCharacter, Escape, Amp
<1>c. \A k \in 1..n : Len(e(k)) \in 1..2 /\ e(k)[1] \in {Escape, v[k]}
  <2> SUFFICES ASSUME NEW k \in 1..n PROVE Len(e(k)) \in 1..2 /\ e(k)[1] \in {Escape, v[k]}
    OBVIOUS
  <2> DEFINE x == e(k)
  <2>1. x = <<Escape, Escape>> \/ x = <<Escape, Amp>> \/ x = <<v[k]>>
    BY <1>b
  <2> HIDE DEF x
  <2>2. Len(x) \in 1..2 /\ x[1] \in {Escape, v[k]}
    BY <2>1
  <2> QED BY <2>2 DEF x
\* An "&" that is not escaped has no other one behind it.
<1>d. ASSUME NEW k \in 1..n, Len(e(k)) = 1, v[k] = Amp
      PROVE  w = 2 /\ ~(k < n /\ v[k + 1] = Amp)
  <2>1. v[k] # Escape
    BY <1>d DEF Amp, Escape
  <2>2. w = 2 /\ ~InPair(v, k)
    <3> SUFFICES ASSUME w = 1 \/ InPair(v, k) PROVE FALSE
      OBVIOUS
    <3>1. e(k) = <<Escape, Amp>>
      BY <1>d, <2>1 DEF EscapedCharacter
    <3> DEFINE x == e(k)
    <3>2. Len(x) = 1 /\ x = <<Escape, Amp>>
      BY <1>d, <3>1
    <3> HIDE DEF x
    <3> QED BY <3>2
  <2> QED BY <1>d, <2>2 DEF InPair
<1> HIDE DEF d, e
<1>4. 0 \in S
  <2>1. Len(u[0]) = 0 /\ p + 0 = p
    BY <1>3
  <2>2. SubSeq(v, 1, 0) = <<>>
    OBVIOUS
  <2>3. ReadTo(0)
    BY <2>1, <2>2
  <2> QED BY <1>0, <2>3
<1> HIDE DEF u
<1>5. ASSUME NEW i \in 0..(n - 1), i \in S PROVE (i + 1) \in S
  <2> DEFINE k == i + 1
             q == p + Len(u[i])
  <2>1. k \in 1..n /\ k - 1 = i /\ k \in 0..n /\ i \in 0..n
    BY <1>0
  <2>2. Len(u[i]) \in Nat /\ Len(u[k]) = Len(u[i]) + Len(e(k)) /\ p + Len(u[k]) <= Len(t) /\ Holds(t, q, e(k))
    BY <1>a, <2>1
  <2>3. Has(t, w, q, f, SubSeq(v, 1, i))
    BY <1>5
  <2>5. q \in Nat /\ q + Len(e(k)) = p + Len(u[k])
    <3>1. Len(e(k)) \in 1..2
      BY <1>c, <2>1
    <3> DEFINE x == Len(e(k))
               y == Len(u[i])
    <3>2. x \in 1..2 /\ y \in Nat /\ Len(u[k]) = y + x
      BY <2>2, <3>1
    <3> HIDE DEF x, y
    <3>3. p + y \in Nat /\ p + y + x = p + Len(u[k])
      BY <3>2
    <3> QED BY <3>3 DEF x, y
  <2> HIDE DEF q
  <2>4. ASSUME Len(e(k)) = 1, v[k] = Amp
        PROVE  w = 2 /\ ~(q + 1 < Len(t) /\ t[q + 2] = Amp)
    <3>1. w = 2 /\ ~(k < n /\ v[k + 1] = Amp)
      BY <1>d, <2>1, <2>4
    <3>2. q + 1 = p + Len(u[k])
      BY <2>4, <2>5
    <3>4. CASE k < n
      <4> DEFINE l == k + 1
      <4>1. l \in 1..n /\ l - 1 = k
        BY <2>1, <3>4
      <4>2. Holds(t, p + Len(u[k]), e(l)) /\ Len(u[k]) \in Nat
        BY <1>a, <4>1
      <4>3. Len(e(l)) \in 1..2 /\ e(l)[1] \in {Escape, v[l]}
        BY <1>c, <4>1
      <4>4. e(l)[1] # Amp
        BY <3>1, <3>4, <4>3 DEF Amp, Escape
      <4>5. t[q + 1 + 1] = e(l)[1]
        <5> DEFINE x == e(l)
                   o == p + Len(u[k])
        <5>1. Holds(t, o, x) /\ Len(x) \in 1..2 /\ q + 1 = o
          BY <3>2, <4>2, <4>3
        <5> HIDE DEF x, o
        <5> DEFINE m == Len(x)
        <5>2. m \in 1..2
          BY <5>1
        <5> HIDE DEF m
        <5>3. 1 \in 1..m
          BY <5>2
        <5>4. 1 \in 1..Len(x)
          BY <5>3 DEF m
        <5>5. t[o + 1] = x[1]
          BY <5>1, <5>4 DEF Holds
        <5> QED BY <5>1, <5>5 DEF x
      <4>6. q + 1 + 1 = q + 2
        BY <2>5
      <4> QED BY <3>1, <4>4, <4>5, <4>6
    <3>5. CASE k = n
      <4>1. p + Len(u[n]) = Len(t)
        BY <1>2, <2>4, <3>5
      <4> QED BY <3>1, <3>2, <3>5, <4>1
    <3> QED BY <1>0, <2>1, <3>4, <3>5
  <2>6. Has(t, w, q + Len(e(k)), f, Append(SubSeq(v, 1, i), v[k]))
    <3>1. LeftAlone(t, w, q, v, k)
      BY <2>4 DEF LeftAlone, e
    <3> DEFINE c == SubSeq(v, 1, i)
    <3>2. Has(t, w, q, f, c)
      BY <2>3
    <3>3. Holds(t, q, EscapedCharacter(v, k, w))
      BY <2>2 DEF e
    <3>4. k \in 1..Len(v) /\ q \in Nat
      BY <2>1, <2>5
    <3> HIDE DEF k, c
    <3>5. Has(t, w, q + Len(EscapedCharacter(v, k, w)), f, Append(c, v[k]))
      BY <3>1, <3>2, <3>3, <3>4, ScanCode
    <3> QED BY <3>5 DEF e, c
  <2>7. Append(SubSeq(v, 1, i), v[k]) = SubSeq(v, 1, k)
    BY LongerByOne
  <2>9. ReadTo(k)
    BY <2>5, <2>6, <2>7
  <2> QED BY <2>1, <2>9
<1> HIDE DEF S
<1>6. \A i \in 0..n : i \in S
  BY <1>0, <1>4, <1>5, Along
<1>7. ReadTo(n)
  BY <1>0, <1>6 DEF S
<1>8. SubSeq(v, 1, n) = v
  OBVIOUS
<1> QED BY <1>2, <1>7, <1>8 DEF u

-----------------------------------------------------------------------------
\* The joined values: each but the first behind a separator.
Separator(w) == [k \in 1..w |-> Amp]
Piece(vs, w, k) == (IF k = 1 THEN <<>> ELSE Separator(w)) \o escapeTaskEnvValue(vs[k], w)
Pieces(vs, w) == [k \in DOMAIN vs |-> Piece(vs, w, k)]

\* An escaped value is a sequence of characters.
LEMMA EscapedType ==
  ASSUME NEW v \in Seq(Chars), NEW w \in 1..2
  PROVE  escapeTaskEnvValue(v, w) \in Seq(Chars)
BY CodesAre, Offsets

\* The pieces of a list of two or more, which is joined by their concatenation.
LEMMA PiecesAre ==
  ASSUME NEW vs \in Values, NEW w \in 1..2, Len(vs) >= 2
  PROVE  /\ Pieces(vs, w) \in Seq(Seq(Chars)) /\ Len(Pieces(vs, w)) = Len(vs)
         /\ Pieces(vs, w)[1] = escapeTaskEnvValue(vs[1], w)
         /\ \A k \in 2..Len(vs) : Pieces(vs, w)[k] = Separator(w) \o escapeTaskEnvValue(vs[k], w)
         /\ w = SeparatorWidth(vs) => joinTaskEnvValues(vs) = Concat(Pieces(vs, w))
<1> DEFINE n == Len(vs)
           e(k) == escapeTaskEnvValue(vs[k], w)
           q(k) == Piece(vs, w, k)
<1>0. n \in Nat /\ DOMAIN vs = 1..n /\ n >= 2 /\ \A k \in 1..n : vs[k] \in Seq(Chars)
  BY DEF Values
<1>1. \A k \in 1..n : e(k) \in Seq(Chars)
  BY <1>0, EscapedType
<1>2. Separator(w) \in Seq(Chars)
  <2>1. Amp \in Chars
    BY DEF Chars
  <2> QED BY <2>1 DEF Separator
<1> HIDE DEF e
<1>3. \A k \in 1..n : q(k) = IF k = 1 THEN e(k) ELSE Separator(w) \o e(k)
  <2> SUFFICES ASSUME NEW k \in 1..n PROVE q(k) = IF k = 1 THEN e(k) ELSE Separator(w) \o e(k)
    OBVIOUS
  <2>1. CASE k = 1
    <3>1. <<>> \o e(k) = e(k)
      BY <1>1, ConcatEmptySeq
    <3> QED BY <2>1, <3>1 DEF Piece, e
  <2>2. CASE k # 1
    BY <2>2 DEF Piece, e
  <2> QED BY <2>1, <2>2
<1>4. \A k \in 1..n : q(k) \in Seq(Chars)
  <2> SUFFICES ASSUME NEW k \in 1..n PROVE q(k) \in Seq(Chars)
    OBVIOUS
  <2>1. e(k) \in Seq(Chars) /\ Separator(w) \o e(k) \in Seq(Chars)
    BY <1>1, <1>2, ConcatProperties
  <2> HIDE DEF q
  <2> QED BY <1>3, <2>1
<1>5. Pieces(vs, w) = [k \in 1..n |-> q(k)]
  BY <1>0 DEF Pieces
<1> HIDE DEF q
<1>6. Pieces(vs, w) \in Seq(Seq(Chars)) /\ Len(Pieces(vs, w)) = n
  BY <1>0, <1>4, <1>5
<1>7. \A k \in 1..n : Pieces(vs, w)[k] = q(k)
  BY <1>5
<1>8. Pieces(vs, w)[1] = e(1) /\ \A k \in 2..n : Pieces(vs, w)[k] = Separator(w) \o e(k)
  <2>1. 1 \in 1..n
    BY <1>0
  <2>2. Pieces(vs, w)[1] = e(1)
    BY <1>3, <1>7, <2>1
  <2>3. ASSUME NEW k \in 2..n PROVE Pieces(vs, w)[k] = Separator(w) \o e(k)
    <3>1. k \in 1..n /\ k # 1
      BY <1>0
    <3> QED BY <1>3, <1>7, <3>1
  <2> QED BY <2>2, <2>3
<1>9. joinTaskEnvValues(vs) = Concat(Pieces(vs, SeparatorWidth(vs)))
  <2>1. Len(vs) # 0 /\ Len(vs) # 1
    BY <1>0
  <2> QED BY <2>1 DEF joinTaskEnvValues, Pieces, Piece, Separator
<1> QED BY <1>6, <1>8, <1>9 DEF e

\* A separator ends a value and begins the next one.
LEMMA ScanSeparator ==
  ASSUME NEW t \in Seq(Chars), NEW w \in 1..2, NEW p \in Nat, Holds(t, p, Separator(w)),
         NEW f, NEW c, Has(t, w, p, f, c)
  PROVE  Has(t, w, p + w, Append(f, c), <<>>)
<1> DEFINE u == Scanned(t, w)
           m == Len(t)
<1>0. m \in Nat
  OBVIOUS
<1>1. \A k \in 1..m : u[k] = Read(u[k - 1], t, w, k)
  BY ScannedIs
<1>2. u[p] = Unescaped(f, c)
  BY DEF Has
<1>3. p + w <= m /\ \A j \in 1..w : t[p + j] = Amp
  <2>1. Len(Separator(w)) = w /\ \A j \in 1..w : Separator(w)[j] = Amp
    BY DEF Separator
  <2> QED BY <2>1 DEF Holds
<1>4. t[p + 1] = Amp /\ (w = 2 => t[p + 2] = Amp)
  BY <1>3
<1> HIDE DEF u, m
<1>5. p + 1 \in 1..m /\ (p + 1) - 1 = p /\ (p + 1) + 1 = p + 2 /\ (w = 2 => p + 1 < m)
  BY <1>0, <1>3
<1>6. u[p + 1] = Read(u[p], t, w, p + 1)
  BY <1>1, <1>5
<1>7. Separates(t, w, p + 1)
  BY <1>4, <1>5 DEF Separates, m
<1>8. u[p + 1] = IF w = 2 THEN Skipping(Append(f, c), <<>>) ELSE Unescaped(Append(f, c), <<>>)
  BY <1>2, <1>6, <1>7, ReadSeparator
<1>9. CASE w = 1
  BY <1>8, <1>9 DEF Has, u
<1>10. CASE w = 2
  <2>1. u[p + 1] = Skipping(Append(f, c), <<>>)
    BY <1>8, <1>10
  <2>2. p + 2 \in 1..m /\ (p + 2) - 1 = p + 1
    BY <1>0, <1>3, <1>10
  <2>3. u[p + 2] = Read(u[p + 1], t, w, p + 2)
    BY <1>1, <2>2
  <2>4. u[p + 2] = Unescaped(Append(f, c), <<>>)
    BY <2>1, <2>3, ReadSkipped
  <2> QED BY <1>10, <2>4 DEF Has, u
<1> QED BY <1>9, <1>10

\* Nothing is read before the first character.
LEMMA HasNothing ==
  ASSUME NEW t \in Seq(Chars), NEW w
  PROVE  Has(t, w, 0, <<>>, <<>>)
BY ScannedIs DEF Has, Start

\* What holds two in a row holds each.
LEMMA HoldsBoth ==
  ASSUME NEW C, NEW t \in Seq(C), NEW p \in Nat, NEW a \in Seq(C), NEW b \in Seq(C), Holds(t, p, a \o b)
  PROVE  /\ Holds(t, p, a) /\ Holds(t, p + Len(a), b)
         /\ p + Len(a \o b) = (p + Len(a)) + Len(b)
<1> DEFINE x == Len(a)
           y == Len(b)
           z == Len(t)
           ab == a \o b
<1>1. x \in Nat /\ y \in Nat /\ z \in Nat
  OBVIOUS
<1>2. Len(ab) = x + y /\ \A i \in 1..(x + y) : ab[i] = IF i <= x THEN a[i] ELSE b[i - x]
  BY ConcatProperties
<1>3. p + Len(ab) <= z /\ \A j \in 1..Len(ab) : t[p + j] = ab[j]
  BY DEF Holds
<1> HIDE DEF x, y, z, ab
<1>4. p + x + y <= z /\ \A j \in 1..(x + y) : t[p + j] = IF j <= x THEN a[j] ELSE b[j - x]
  <2>1. p + (x + y) <= z /\ p + (x + y) = p + x + y
    BY <1>1, <1>2, <1>3
  <2> QED BY <1>2, <1>3, <2>1
<1>5. ASSUME NEW j \in 1..x PROVE t[p + j] = a[j]
  <2>1. j \in 1..(x + y) /\ j <= x
    BY <1>1
  <2> QED BY <1>4, <2>1
<1>6. ASSUME NEW j \in 1..y PROVE t[p + x + j] = b[j]
  <2>1. x + j \in 1..(x + y) /\ ~(x + j <= x) /\ (x + j) - x = j /\ p + (x + j) = p + x + j
    BY <1>1
  <2> QED BY <1>4, <2>1
<1>7. Holds(t, p, a) /\ Holds(t, p + x, b)
  BY <1>1, <1>4, <1>5, <1>6 DEF Holds, x, y, z
<1>8. p + Len(ab) = (p + x) + y
  BY <1>1, <1>2
<1> QED BY <1>7, <1>8 DEF x, y, ab

-----------------------------------------------------------------------------
\* Each of the joined values is read back, where none but the last ends with "&".
LEMMA ScanJoin ==
  ASSUME NEW vs \in Values, Len(vs) >= 2, NEW w \in 1..2,
         \A k \in 1..(Len(vs) - 1) : vs[k] = <<>> \/ vs[k][Len(vs[k])] # Amp
  PROVE  Has(Concat(Pieces(vs, w)), w, Len(Concat(Pieces(vs, w))), SubSeq(vs, 1, Len(vs) - 1), vs[Len(vs)])
<1> DEFINE n == Len(vs)
           d == Pieces(vs, w)
           t == Concat(d)
           u == UpTo(d)
           e(k) == escapeTaskEnvValue(vs[k], w)
           ReadTo(k) == Has(t, w, Len(u[k]), SubSeq(vs, 1, k - 1), vs[k])
           S == {i \in 0..(n - 1) : ReadTo(i + 1)}
<1>0. n \in Nat /\ n >= 2 /\ \A k \in 1..n : vs[k] \in Seq(Chars)
  BY DEF Values
<1>1. d \in Seq(Seq(Chars)) /\ Len(d) = n /\ d[1] = e(1) /\ \A k \in 2..n : d[k] = Separator(w) \o e(k)
  BY PiecesAre
<1>2. \A k \in 1..n : e(k) \in Seq(Chars)
  BY <1>0, EscapedType
<1>3. t \in Seq(Chars) /\ u[0] = <<>> /\ t = u[n]
  BY <1>1, Offsets, UpToIs DEF Concat
<1> HIDE DEF e, d, u, t, n
<1>4. Holds(t, 0, Concat(d))
  BY <1>3 DEF Holds, t
<1>5. \A k \in 1..n : /\ Len(u[k - 1]) \in Nat /\ Len(u[k]) = Len(u[k - 1]) + Len(d[k])
                      /\ Len(u[k]) <= Len(t) /\ Holds(t, Len(u[k - 1]), d[k])
  <2> SUFFICES ASSUME NEW k \in 1..n
               PROVE  /\ Len(u[k - 1]) \in Nat /\ Len(u[k]) = Len(u[k - 1]) + Len(d[k])
                      /\ Len(u[k]) <= Len(t) /\ Holds(t, Len(u[k - 1]), d[k])
    OBVIOUS
  <2>1. k \in 1..Len(d) /\ 0 \in Nat
    BY <1>1
  <2>2. /\ Len(u[k - 1]) \in Nat /\ Len(u[k]) = Len(u[k - 1]) + Len(d[k])
        /\ 0 + Len(u[k]) <= Len(t) /\ Holds(t, 0 + Len(u[k - 1]), d[k])
    <3> DEFINE p == 0
    <3>1. p \in Nat /\ Holds(t, p, Concat(d)) /\ d \in Seq(Seq(Chars)) /\ t \in Seq(Chars) /\ k \in 1..Len(d)
      BY <1>1, <1>3, <1>4, <2>1
    <3> HIDE DEF p
    <3>2. /\ Len(u[k - 1]) \in Nat /\ Len(u[k]) = Len(u[k - 1]) + Len(d[k])
          /\ p + Len(u[k]) <= Len(t) /\ Holds(t, p + Len(u[k - 1]), d[k])
      BY <3>1, PartsHeld DEF u
    <3> QED BY <3>2 DEF p
  <2>3. Len(d[k]) \in Nat
    <3>1. d[k] \in Seq(Chars)
      BY <1>1, <2>1, ElementOfSeq
    <3> DEFINE x == d[k]
    <3> HIDE DEF x
    <3>2. x \in Seq(Chars)
      BY <3>1 DEF x
    <3>3. Len(x) \in Nat
      BY <3>2
    <3> QED BY <3>3 DEF x
  <2>4. 0 + Len(u[k - 1]) = Len(u[k - 1]) /\ 0 + Len(u[k]) = Len(u[k])
    BY <2>2, <2>3
  <2> QED BY <2>2, <2>4
<1>6. ASSUME NEW k \in 1..n, NEW p \in Nat, Holds(t, p, e(k)), p + Len(e(k)) = Len(u[k]),
             Has(t, w, p, SubSeq(vs, 1, k - 1), <<>>)
      PROVE  ReadTo(k)
  <2>1. vs[k] = <<>> \/ vs[k][Len(vs[k])] # Amp \/ p + Len(e(k)) = Len(t)
    <3>1. k \in 1..(n - 1) \/ k = n
      BY <1>0
    <3> QED BY <1>3, <1>6, <3>1 DEF n
  <2> DEFINE f == SubSeq(vs, 1, k - 1)
             v == vs[k]
  <2>2. v \in Seq(Chars) /\ Holds(t, p, escapeTaskEnvValue(v, w)) /\ Has(t, w, p, f, <<>>)
    BY <1>0, <1>6 DEF e
  <2>3. v = <<>> \/ v[Len(v)] # Amp \/ p + Len(escapeTaskEnvValue(v, w)) = Len(t)
    BY <2>1 DEF e
  <2> HIDE DEF f, v
  <2>4. Has(t, w, p + Len(escapeTaskEnvValue(v, w)), f, v)
    BY <1>3, <2>2, <2>3, ScanValue
  <2> QED BY <1>6, <2>4 DEF f, v, e
<1>7. 0 \in S
  <2>1. 1 \in 1..n /\ 0 \in Nat /\ 1 - 1 = 0 /\ 0 \in 0..(n - 1) /\ 0 + 1 = 1
    BY <1>0
  <2>2. Len(u[0]) = 0 /\ Holds(t, 0, e(1)) /\ 0 + Len(e(1)) = Len(u[1])
    <3>1. Len(u[0]) = 0
      BY <1>3
    <3>2. Len(u[1]) = 0 + Len(e(1)) /\ Holds(t, 0, e(1))
      BY <1>1, <1>5, <2>1, <3>1
    <3> QED BY <3>1, <3>2
  <2>3. SubSeq(vs, 1, 1 - 1) = <<>>
    OBVIOUS
  <2>4. Has(t, w, 0, SubSeq(vs, 1, 1 - 1), <<>>)
    BY <1>3, <2>3, HasNothing
  <2> HIDE DEF ReadTo
  <2>5. ReadTo(1)
    BY <1>6, <2>1, <2>2, <2>4
  <2> QED BY <2>1, <2>5
<1>8. ASSUME NEW i \in 0..((n - 1) - 1), i \in S PROVE (i + 1) \in S
  <2> DEFINE k == i + 1
             l == k + 1
             p == Len(u[k])
             f == SubSeq(vs, 1, k - 1)
  <2>1. k \in 1..n /\ k \in 0..(n - 1) /\ l \in 2..n /\ l \in 1..n /\ l - 1 = k
    BY <1>0
  <2>2. Has(t, w, p, f, vs[k])
    BY <1>8
  <2>3. p \in Nat /\ Len(u[l]) = p + Len(Separator(w) \o e(l)) /\ Holds(t, p, Separator(w) \o e(l))
    BY <1>1, <1>5, <2>1
  <2>4. Separator(w) \in Seq(Chars) /\ Len(Separator(w)) = w
    <3>1. Amp \in Chars
      BY DEF Chars
    <3> QED BY <3>1 DEF Separator
  <2>5. e(l) \in Seq(Chars)
    BY <1>2, <2>1
  <2> HIDE DEF p, f, l, k
  <2>6. /\ Holds(t, p, Separator(w)) /\ Holds(t, p + w, e(l))
        /\ Len(u[l]) = (p + w) + Len(e(l))
    <3> DEFINE a == Separator(w)
               b == e(l)
    <3>1. a \in Seq(Chars) /\ b \in Seq(Chars) /\ p \in Nat /\ t \in Seq(Chars) /\ Holds(t, p, a \o b)
      BY <1>3, <2>3, <2>4, <2>5
    <3> HIDE DEF a, b
    <3>2. Holds(t, p, a) /\ Holds(t, p + Len(a), b) /\ p + Len(a \o b) = (p + Len(a)) + Len(b)
      BY <3>1, HoldsBoth
    <3> QED BY <2>3, <2>4, <3>2 DEF a, b
  <2>7. Has(t, w, p + w, Append(f, vs[k]), <<>>)
    BY <1>3, <2>2, <2>3, <2>6, ScanSeparator
  <2>8. Append(f, vs[k]) = SubSeq(vs, 1, l - 1)
    <3>1. i \in 0..(Len(vs) - 1)
      BY <1>0 DEF n
    <3>2. Append(SubSeq(vs, 1, i), vs[i + 1]) = SubSeq(vs, 1, i + 1)
      BY <3>1, LongerByOne DEF Values
    <3>3. l - 1 = i + 1 /\ k = i + 1 /\ k - 1 = i
      BY DEF k, l
    <3> QED BY <3>2, <3>3 DEF f
  <2>9. p + w \in Nat
    BY <2>3
  <2>10. ReadTo(l)
    <3> HIDE DEF ReadTo
    <3> QED BY <1>6, <2>1, <2>6, <2>7, <2>8, <2>9
  <2>11. l = (i + 1) + 1 /\ i + 1 \in 0..(n - 1)
    BY <2>1 DEF k, l
  <2> HIDE DEF ReadTo
  <2> QED BY <2>10, <2>11
<1> HIDE DEF S
<1>9. \A i \in 0..(n - 1) : i \in S
  <2>1. n - 1 \in Nat
    BY <1>0
  <2> QED BY <1>7, <1>8, <2>1, Along
<1>10. ReadTo(n)
  <2>1. n - 1 \in S /\ (n - 1) + 1 = n
    BY <1>0, <1>9
  <2> HIDE DEF ReadTo
  <2> QED BY <2>1 DEF S
<1> QED BY <1>3, <1>10 DEF t, d, n

-----------------------------------------------------------------------------
\* Where no part has x, the concatenation has none.
LEMMA ConcatLacks ==
  ASSUME NEW C, NEW ss \in Seq(Seq(C)), NEW x, \A k \in 1..Len(ss) : ~Among(x, ss[k])
  PROVE  ~Among(x, Concat(ss))
<1> DEFINE n == Len(ss)
           u == UpTo(ss)
           S == {k \in 0..n : ~Among(x, u[k])}
<1>0. n \in Nat /\ \A k \in 1..n : ss[k] \in Seq(C)
  OBVIOUS
<1>1. u[0] = <<>> /\ \A k \in 1..n : u[k] = u[k - 1] \o ss[k]
  BY UpToIs
<1>2. \A k \in 0..n : u[k] \in Seq(C)
  BY UpToIs
<1>3. Concat(ss) = u[n]
  BY DEF Concat
<1> HIDE DEF u
<1>4. 0 \in S
  BY <1>0, <1>1 DEF Among
<1>5. ASSUME NEW k \in 0..(n - 1), k \in S PROVE (k + 1) \in S
  <2>1. k + 1 \in 1..n /\ (k + 1) - 1 = k /\ k + 1 \in 0..n /\ k \in 0..n
    BY <1>0
  <2> DEFINE a == u[k]
             b == ss[k + 1]
  <2>2. a \in Seq(C) /\ b \in Seq(C) /\ u[k + 1] = a \o b
    BY <1>0, <1>1, <1>2, <2>1
  <2>3. ~Among(x, a) /\ ~Among(x, b)
    BY <1>5, <2>1
  <2> HIDE DEF a, b
  <2>4. ~Among(x, a \o b)
    <3>1. DOMAIN a = 1..Len(a) /\ DOMAIN b = 1..Len(b) /\ Len(a) \in Nat /\ Len(b) \in Nat
      BY <2>2
    <3>2. /\ DOMAIN (a \o b) = 1..(Len(a) + Len(b))
          /\ \A i \in 1..(Len(a) + Len(b)) : (a \o b)[i] = IF i <= Len(a) THEN a[i] ELSE b[i - Len(a)]
      BY <2>2, ConcatProperties
    <3> SUFFICES ASSUME NEW i \in 1..(Len(a) + Len(b)), (a \o b)[i] = x PROVE FALSE
      BY <3>2 DEF Among
    <3>3. CASE i <= Len(a)
      <4>1. i \in 1..Len(a) /\ (a \o b)[i] = a[i]
        BY <3>1, <3>2, <3>3
      <4>2. i \in DOMAIN a /\ a[i] = x
        BY <3>1, <4>1
      <4> QED BY <2>3, <4>2 DEF Among
    <3>4. CASE ~(i <= Len(a))
      <4>1. i - Len(a) \in 1..Len(b)
        BY <3>1, <3>4
      <4> QED BY <2>3, <3>1, <3>2, <3>4, <4>1 DEF Among
    <3> QED BY <3>3, <3>4
  <2> QED BY <2>1, <2>2, <2>4
<1> HIDE DEF S
<1>6. \A k \in 0..n : k \in S
  BY <1>0, <1>4, <1>5, Along
<1> QED BY <1>0, <1>3, <1>6 DEF S

\* A value without "&" has none when it is escaped, and is as empty as before.
LEMMA EscapedLacks ==
  ASSUME NEW v \in Seq(Chars), NEW w \in 1..2, ~Among(Amp, v)
  PROVE  ~Among(Amp, escapeTaskEnvValue(v, w)) /\ (v # <<>> => escapeTaskEnvValue(v, w) # <<>>)
<1> DEFINE d == Codes(v, w)
           n == Len(v)
<1>1. d \in Seq(Seq(Chars)) /\ Len(d) = n /\ escapeTaskEnvValue(v, w) = Concat(d)
  BY CodesAre
<1>2. ASSUME NEW i \in 1..n PROVE d[i] = <<Escape, Escape>> \/ d[i] = <<v[i]>>
  <2>1. v[i] # Amp
    BY DEF Among
  <2>2. d[i] = EscapedCharacter(v, i, w)
    BY CodesAre
  <2> HIDE DEF d
  <2> QED BY <2>1, <2>2 DEF EscapedCharacter
<1> HIDE DEF d
<1>3. ASSUME NEW i \in 1..n PROVE ~Among(Amp, d[i]) /\ Len(d[i]) >= 1
  <2>1. v[i] # Amp
    BY DEF Among
  <2> DEFINE x == d[i]
  <2>2. x = <<Escape, Escape>> \/ x = <<v[i]>>
    BY <1>2
  <2> HIDE DEF x
  <2>3. ~Among(Amp, x) /\ Len(x) >= 1
    <3>1. CASE x = <<Escape, Escape>>
      <4>1. DOMAIN x = 1..2 /\ Len(x) = 2 /\ x[1] = Escape /\ x[2] = Escape
        BY <3>1
      <4> QED BY <4>1 DEF Among, Amp, Escape
    <3>2. CASE x = <<v[i]>>
      <4>1. DOMAIN x = 1..1 /\ Len(x) = 1 /\ x[1] = v[i]
        BY <3>2
      <4> QED BY <2>1, <4>1 DEF Among
    <3> QED BY <2>2, <3>1, <3>2
  <2> QED BY <2>3 DEF x
<1>4. ~Among(Amp, Concat(d))
  BY <1>1, <1>3, ConcatLacks
<1>5. ASSUME v # <<>> PROVE Concat(d) # <<>>
  <2>1. n \in Nat /\ n # 0
    BY <1>5
  <2>2. 1 \in 1..Len(d) /\ 1 \in 1..n
    BY <1>1, <2>1
  <2> DEFINE t == Concat(d)
             a == UpTo(d)[1]
             b == UpTo(d)[1 - 1]
  <2>3. t \in Seq(Chars) /\ Holds(t, 0, t)
    <3>1. t \in Seq(Chars)
      BY <1>1, Offsets
    <3> QED BY <3>1 DEF Holds
  <2>4. Len(b) \in Nat /\ Len(a) = Len(b) + Len(d[1]) /\ 0 + Len(a) <= Len(t)
    <3> HIDE DEF t, a, b
    <3>1. 0 \in Nat /\ Holds(t, 0, Concat(d))
      BY <2>3 DEF t
    <3> QED BY <1>1, <2>2, <2>3, <3>1, PartsHeld DEF a, b
  <2>5. Len(d[1]) >= 1 /\ Len(d[1]) \in Nat
    <3> DEFINE x == d[1]
    <3>1. x \in Seq(Chars) /\ Len(x) >= 1
      BY <1>1, <1>3, <2>2, ElementOfSeq
    <3> HIDE DEF x
    <3>2. Len(x) \in Nat
      BY <3>1
    <3> QED BY <3>1, <3>2 DEF x
  <2> HIDE DEF t, a, b
  <2>6. Len(t) # 0
    BY <2>3, <2>4, <2>5
  <2>7. t # <<>>
    BY <2>6
  <2> QED BY <2>7 DEF t
<1> QED BY <1>1, <1>4, <1>5

\* Sequences without two "&" in a row, and those that end with one.
Apart(x) == \A i \in 1..(Len(x) - 1) : ~(x[i] = Amp /\ x[i + 1] = Amp)
Ends(x) == Len(x) > 0 /\ x[Len(x)] = Amp

\* A separator and a value without "&" put no two "&" in a row, behind a sequence that ends with none.
LEMMA StaysApart ==
  ASSUME NEW x \in Seq(Chars), NEW e \in Seq(Chars), Apart(x), ~Ends(x), ~Among(Amp, e)
  PROVE  Apart(x \o (Separator(1) \o e)) /\ (e # <<>> => ~Ends(x \o (Separator(1) \o e)))
<1> DEFINE a == Len(x)
           b == Len(e)
           y == Separator(1) \o e
           z == x \o y
<1>1. a \in Nat /\ b \in Nat /\ (e # <<>> => b # 0) /\ \A i \in 1..b : e[i] # Amp
  BY DEF Among
<1>2. Separator(1) \in Seq(Chars) /\ Len(Separator(1)) = 1 /\ Separator(1)[1] = Amp
  <2>1. Amp \in Chars
    BY DEF Chars
  <2> QED BY <2>1 DEF Separator
<1>3. y \in Seq(Chars) /\ Len(y) = 1 + b /\ \A i \in 1..(1 + b) : y[i] = IF i <= 1 THEN Amp ELSE e[i - 1]
  <2> DEFINE q == Separator(1)
  <2>1. q \in Seq(Chars) /\ e \in Seq(Chars) /\ Len(q) = 1 /\ q[1] = Amp
    BY <1>2
  <2> HIDE DEF q
  <2>2. /\ q \o e \in Seq(Chars) /\ Len(q \o e) = 1 + b
        /\ \A i \in 1..(1 + b) : (q \o e)[i] = IF i <= 1 THEN q[i] ELSE e[i - 1]
    <3>1. /\ q \o e \in Seq(Chars) /\ Len(q \o e) = Len(q) + Len(e)
          /\ \A i \in 1..(Len(q) + Len(e)) : (q \o e)[i] = IF i <= Len(q) THEN q[i] ELSE e[i - Len(q)]
      BY <2>1, ConcatProperties
    <3> DEFINE r == q \o e
    <3> HIDE DEF r
    <3> QED BY <2>1, <3>1 DEF r
  <2>3. \A i \in 1..(1 + b) : i <= 1 => i = 1
    BY <1>1
  <2> QED BY <2>1, <2>2, <2>3 DEF q
<1> HIDE DEF y
<1>4. Len(z) = a + (1 + b) /\ \A i \in 1..(a + (1 + b)) : z[i] = IF i <= a THEN x[i] ELSE y[i - a]
  <2>1. x \in Seq(Chars) /\ y \in Seq(Chars)
    BY <1>3
  <2> DEFINE r == x \o y
             m == Len(y)
  <2>2. /\ x \o y \in Seq(Chars)
        /\ Len(x \o y) = Len(x) + Len(y)
        /\ \A i \in 1..(Len(x) + Len(y)) : (x \o y)[i] = IF i <= Len(x) THEN x[i] ELSE y[i - Len(x)]
    BY <2>1, ConcatProperties, Zenon
  <2>3. m = 1 + b /\ Len(r) = a + m /\ \A i \in 1..(a + m) : r[i] = IF i <= a THEN x[i] ELSE y[i - a]
    <3>1. Len(y) = 1 + b
      BY <1>3
    <3> QED BY <2>2, <3>1
  <2> HIDE DEF r, m
  <2>4. Len(r) = a + (1 + b) /\ \A i \in 1..(a + (1 + b)) : r[i] = IF i <= a THEN x[i] ELSE y[i - a]
    BY <2>3
  <2> QED BY <2>4 DEF r
<1> HIDE DEF z
<1>5. Apart(x) /\ ~Ends(x)
  OBVIOUS
<1>6. (\A i \in 1..(a - 1) : ~(x[i] = Amp /\ x[i + 1] = Amp)) /\ (a > 0 => x[a] # Amp)
  BY <1>5 DEF Apart, Ends
<1> HIDE DEF a, b
<1>7. \A i \in 1..a : z[i] = x[i]
  BY <1>1, <1>4
<1>8. \A j \in 1..b : z[a + 1 + j] = e[j] /\ z[a + 1 + j] # Amp
  <2> SUFFICES ASSUME NEW j \in 1..b PROVE z[a + 1 + j] = e[j] /\ z[a + 1 + j] # Amp
    OBVIOUS
  <2>1. a + 1 + j \in 1..(a + (1 + b)) /\ ~(a + 1 + j <= a) /\ (a + 1 + j) - a = 1 + j
    BY <1>1
  <2>2. 1 + j \in 1..(1 + b) /\ ~(1 + j <= 1) /\ (1 + j) - 1 = j
    BY <1>1
  <2>3. z[a + 1 + j] = y[1 + j] /\ y[1 + j] = e[j]
    BY <1>3, <1>4, <2>1, <2>2
  <2> QED BY <1>1, <2>3
<1>9. ASSUME NEW i \in 1..((a + (1 + b)) - 1), z[i] = Amp, z[i + 1] = Amp PROVE FALSE
  <2>1. CASE i + 1 <= a
    <3>1. i \in 1..(a - 1) /\ i \in 1..a /\ i + 1 \in 1..a
      BY <1>1, <2>1
    <3> QED BY <1>6, <1>7, <1>9, <3>1
  <2>2. CASE i = a
    <3>1. i \in 1..a /\ a > 0
      BY <1>1, <2>2
    <3> QED BY <1>6, <1>7, <1>9, <2>2, <3>1
  <2>3. CASE i > a
    <3>1. i - a \in 1..b /\ a + 1 + (i - a) = i + 1
      BY <1>1, <2>3
    <3> QED BY <1>8, <1>9, <3>1
  <2> QED BY <1>1, <2>1, <2>2, <2>3
<1>10. Apart(z)
  BY <1>4, <1>9 DEF Apart
<1>11. ASSUME e # <<>> PROVE ~Ends(z)
  <2>1. b \in 1..b /\ a + 1 + b = a + (1 + b)
    BY <1>1, <1>11
  <2> QED BY <1>4, <1>8, <2>1 DEF Ends
<1> QED BY <1>10, <1>11 DEF z, y

\* Without "&" there are no two in a row.
LEMMA LacksApart ==
  ASSUME NEW x \in Seq(Chars), ~Among(Amp, x)
  PROVE  Apart(x) /\ ~Ends(x)
<1> DEFINE a == Len(x)
<1>1. a \in Nat /\ \A i \in 1..a : x[i] # Amp
  BY DEF Among
<1> HIDE DEF a
<1>2. \A i \in 1..(a - 1) : i \in 1..a
  BY <1>1
<1>3. a > 0 => a \in 1..a
  BY <1>1
<1> QED BY <1>1, <1>2, <1>3 DEF Apart, Ends, a

\* Values without "&", where none but the first and the last is empty, are joined
\* without two "&" in a row.
LEMMA JoinApart ==
  ASSUME NEW vs \in Values, Len(vs) >= 2, \A k \in 1..Len(vs) : ~Among(Amp, vs[k]),
         \A k \in 2..(Len(vs) - 1) : vs[k] # <<>>
  PROVE  Apart(Concat(Pieces(vs, 1)))
<1> DEFINE n == Len(vs)
           d == Pieces(vs, 1)
           u == UpTo(d)
           e(k) == escapeTaskEnvValue(vs[k], 1)
           S == {i \in 0..(n - 1) : Apart(u[i + 1]) /\ (i + 1 < n => ~Ends(u[i + 1]))}
<1>0. n \in Nat /\ n >= 2 /\ \A k \in 1..n : vs[k] \in Seq(Chars)
  BY DEF Values
<1>1. /\ d \in Seq(Seq(Chars)) /\ Len(d) = n /\ d[1] = e(1)
      /\ \A k \in 2..n : d[k] = Separator(1) \o e(k)
  <2> DEFINE w == 1
  <2>1. w \in 1..2
    OBVIOUS
  <2> HIDE DEF w
  <2>2. /\ Pieces(vs, w) \in Seq(Seq(Chars)) /\ Len(Pieces(vs, w)) = Len(vs)
        /\ Pieces(vs, w)[1] = escapeTaskEnvValue(vs[1], w)
        /\ \A k \in 2..Len(vs) : Pieces(vs, w)[k] = Separator(w) \o escapeTaskEnvValue(vs[k], w)
    BY <2>1, PiecesAre
  <2> QED BY <2>2 DEF w
<1>2. \A k \in 1..n : e(k) \in Seq(Chars) /\ ~Among(Amp, e(k))
  BY <1>0, EscapedType, EscapedLacks
<1>3. \A k \in 2..(n - 1) : e(k) # <<>>
  <2> SUFFICES ASSUME NEW k \in 2..(n - 1) PROVE e(k) # <<>>
    OBVIOUS
  <2>1. k \in 1..n
    BY <1>0
  <2>2. vs[k] \in Seq(Chars) /\ ~Among(Amp, vs[k]) /\ vs[k] # <<>>
    BY <1>0, <2>1
  <2> QED BY <2>2, EscapedLacks
<1> HIDE DEF d, e
<1>4. /\ \A k \in 0..n : u[k] \in Seq(Chars)
      /\ u[0] = <<>> /\ \A k \in 1..n : u[k] = u[k - 1] \o d[k]
  <2>1. \A k \in 0..Len(d) : u[k] \in Seq(Chars)
    BY <1>1, Offsets
  <2>2. u[0] = <<>> /\ \A k \in 1..Len(d) : u[k] = u[k - 1] \o d[k]
    BY <1>1, UpToIs
  <2> QED BY <1>1, <2>1, <2>2
<1> HIDE DEF u, n
<1>5. u[1] = e(1)
  <2>1. 1 \in 1..n /\ 1 - 1 = 0
    BY <1>0
  <2>2. u[1] = <<>> \o d[1]
    BY <1>4, <2>1
  <2>3. e(1) \in Seq(Chars)
    BY <1>2, <2>1
  <2> QED BY <1>1, <2>2, <2>3, ConcatEmptySeq
<1>6. 0 \in S
  <2>1. 1 \in 1..n /\ 0 \in 0..(n - 1) /\ 0 + 1 = 1
    BY <1>0
  <2>2. Apart(u[1]) /\ ~Ends(u[1])
    BY <1>2, <1>5, <2>1, LacksApart
  <2> QED BY <2>1, <2>2
<1>7. ASSUME NEW i \in 0..((n - 1) - 1), i \in S PROVE (i + 1) \in S
  <2> DEFINE x == u[i + 1]
             k == i + 2
             y == e(k)
             z == u[k]
  <2>1. i + 1 \in 0..n /\ k \in 1..n /\ k \in 2..n /\ k - 1 = i + 1 /\ i + 1 < n /\ i + 1 \in 0..(n - 1) /\ (i + 1) + 1 = k
    BY <1>0
  <2>2. Apart(x) /\ ~Ends(x) /\ x \in Seq(Chars)
    BY <1>4, <1>7, <2>1
  <2>3. y \in Seq(Chars) /\ ~Among(Amp, y)
    BY <1>2, <2>1
  <2>4. k < n => y # <<>>
    <3>1. k < n => k \in 2..(n - 1)
      BY <1>0
    <3> QED BY <1>3, <3>1
  <2>5. z = x \o (Separator(1) \o y)
    BY <1>1, <1>4, <2>1
  <2> HIDE DEF x, y, z
  <2>6. Apart(z) /\ (y # <<>> => ~Ends(z))
    BY <2>2, <2>3, <2>5, StaysApart
  <2>7. Apart(u[(i + 1) + 1]) /\ ((i + 1) + 1 < n => ~Ends(u[(i + 1) + 1]))
    <3> HIDE DEF k
    <3> QED BY <2>1, <2>4, <2>6 DEF z
  <2> QED BY <2>1, <2>7
<1> HIDE DEF S
<1>8. \A i \in 0..(n - 1) : i \in S
  <2>1. n - 1 \in Nat
    BY <1>0
  <2> QED BY <1>6, <1>7, <2>1, Along
<1>9. Apart(u[n])
  <2>1. n - 1 \in 0..(n - 1) /\ (n - 1) + 1 = n
    BY <1>0
  <2>2. n - 1 \in S
    BY <1>8, <2>1
  <2> QED BY <2>1, <2>2 DEF S
<1> QED BY <1>1, <1>9 DEF Concat, u, d

\* Where no two "&" are in a row, no separator of two is found.
LEMMA NothingFound ==
  ASSUME NEW t \in Seq(Chars), Apart(t)
  PROVE  ~hasUnescapedTaskEnvSeparator(t, 2)
<1> DEFINE n == Len(t)
           u == Scanned(t, 2)
           S == {i \in 0..n : \E c \in Seq(Chars) : u[i] = Unescaped(<<>>, c) \/ u[i] = Escaping(<<>>, c)}
<1>0. n \in Nat /\ \A i \in 1..n : t[i] \in Chars
  OBVIOUS
<1>1. u[0] = Unescaped(<<>>, <<>>) /\ \A i \in 1..n : u[i] = Read(u[i - 1], t, 2, i)
  BY ScannedIs DEF Start
<1>2. \A i \in 1..(n - 1) : ~(t[i] = Amp /\ t[i + 1] = Amp)
  BY DEF Apart
<1> HIDE DEF u
<1>3. 0 \in S
  <2>1. <<>> \in Seq(Chars) /\ 0 \in 0..n
    BY <1>0
  <2>2. \E c \in Seq(Chars) : u[0] = Unescaped(<<>>, c) \/ u[0] = Escaping(<<>>, c)
    BY <1>1, <2>1
  <2> QED BY <2>1, <2>2
<1>4. ASSUME NEW i \in 0..(n - 1), i \in S PROVE (i + 1) \in S
  <2> DEFINE j == i + 1
  <2>1. j \in 1..n /\ j \in 0..n /\ j - 1 = i
    BY <1>0
  <2>2. PICK c \in Seq(Chars) : u[i] = Unescaped(<<>>, c) \/ u[i] = Escaping(<<>>, c)
    BY <1>4
  <2> DEFINE more == Append(c, t[j])
  <2>3. more \in Seq(Chars)
    <3>1. t[j] \in Chars
      BY <1>0, <2>1
    <3> QED BY <2>2, <3>1, AppendProperties
  <2>4. u[j] = Read(u[i], t, 2, j)
    BY <1>1, <2>1
  <2>5. ~Separates(t, 2, j)
    <3> SUFFICES ASSUME j < n, t[j] = Amp, t[j + 1] = Amp PROVE FALSE
      BY DEF Separates
    <3>1. j \in 1..(n - 1)
      <4> HIDE DEF n
      <4> QED BY <1>0, <2>1
    <3> QED BY <1>2, <3>1
  <2>6. u[j] = Unescaped(<<>>, more) \/ u[j] = Escaping(<<>>, c)
    <3>1. CASE u[i] = Escaping(<<>>, c)
      BY <2>4, <3>1, ReadEscaped
    <3>2. CASE u[i] = Unescaped(<<>>, c) /\ Escapes(t, j)
      BY <2>4, <3>2, ReadEscape
    <3>3. CASE u[i] = Unescaped(<<>>, c) /\ ~Escapes(t, j)
      BY <2>4, <2>5, <3>3, ReadLetter
    <3> QED BY <2>2, <3>1, <3>2, <3>3
  <2> HIDE DEF more, j
  <2>7. j \in S
    BY <2>1, <2>2, <2>3, <2>6
  <2> QED BY <2>7 DEF j
<1> HIDE DEF S, n
<1>5. n \in S
  <2>1. \A i \in 0..n : i \in S
    BY <1>0, <1>3, <1>4, Along
  <2>2. n \in 0..n
    BY <1>0
  <2> QED BY <2>1, <2>2
<1>6. u[n].found = <<>>
  <2>1. \E c \in Seq(Chars) : u[n] = Unescaped(<<>>, c) \/ u[n] = Escaping(<<>>, c)
    BY <1>5 DEF S
  <2> DEFINE x == u[n]
  <2>2. PICK c : x = Unescaped(<<>>, c) \/ x = Escaping(<<>>, c)
    BY <2>1
  <2> HIDE DEF x
  <2>3. x.found = <<>>
    BY <2>2 DEF Unescaped, Escaping
  <2> QED BY <2>3 DEF x
<1> QED BY <1>6 DEF hasUnescapedTaskEnvSeparator, Scan, u, n

\* A value without "&" and escape is read as it is.
LEMMA ScanPlain ==
  ASSUME NEW t \in Seq(Chars), NEW w \in 1..2, ~Among(Amp, t), ~Among(Escape, t)
  PROVE  Has(t, w, Len(t), <<>>, t)
<1> DEFINE n == Len(t)
           u == Scanned(t, w)
           S == {i \in 0..n : u[i] = Unescaped(<<>>, SubSeq(t, 1, i))}
<1>0. n \in Nat /\ \A i \in 1..n : t[i] # Amp /\ t[i] # Escape
  BY DEF Among
<1>1. u[0] = Unescaped(<<>>, <<>>) /\ \A i \in 1..n : u[i] = Read(u[i - 1], t, w, i)
  BY ScannedIs DEF Start
<1> HIDE DEF u
<1>2. 0 \in S
  <2>1. SubSeq(t, 1, 0) = <<>> /\ 0 \in 0..n
    BY <1>0
  <2>2. u[0] = Unescaped(<<>>, SubSeq(t, 1, 0))
    BY <1>1, <2>1
  <2> QED BY <2>1, <2>2
<1>3. ASSUME NEW i \in 0..(n - 1), i \in S PROVE (i + 1) \in S
  <2> DEFINE j == i + 1
             c == SubSeq(t, 1, i)
  <2>1. j \in 1..n /\ j \in 0..n /\ j - 1 = i
    BY <1>0
  <2>2. u[i] = Unescaped(<<>>, c)
    BY <1>3
  <2>3. u[j] = Read(u[i], t, w, j)
    BY <1>1, <2>1
  <2>4. ~Escapes(t, j) /\ ~Separates(t, w, j)
    BY <1>0, <2>1 DEF Escapes, Separates
  <2>5. u[j] = Unescaped(<<>>, Append(c, t[j]))
    <3> HIDE DEF c, j
    <3> QED BY <2>2, <2>3, <2>4, ReadLetter
  <2>6. Append(c, t[j]) = SubSeq(t, 1, j)
    BY LongerByOne
  <2>7. u[j] = Unescaped(<<>>, SubSeq(t, 1, j))
    BY <2>5, <2>6
  <2> HIDE DEF j
  <2>8. j \in S
    BY <2>1, <2>7
  <2> QED BY <2>8 DEF j
<1> HIDE DEF S, n
<1>4. n \in S
  <2>1. \A i \in 0..n : i \in S
    BY <1>0, <1>2, <1>3, Along
  <2>2. n \in 0..n
    BY <1>0
  <2> QED BY <2>1, <2>2
<1>5. SubSeq(t, 1, n) = t
  BY DEF n
<1> QED BY <1>4, <1>5 DEF Has, S, n, u

\* What the state after the last character says of the split.
LEMMA SplitIs ==
  ASSUME NEW t \in Seq(Chars), NEW w \in 1..2, NEW f, NEW c, Has(t, w, Len(t), f, c)
  PROVE  /\ splitEscapedTaskEnvValues(t, w) = Append(f, c)
         /\ hasUnescapedTaskEnvSeparator(t, w) <=> f # <<>>
<1>1. Scan(t, w) = Unescaped(f, c)
  BY DEF Scan, Has
<1> QED BY <1>1 DEF splitEscapedTaskEnvValues, hasUnescapedTaskEnvSeparator, Unescaped

\* Splitting what was joined gives the values back, where they are separable.
LEMMA RoundTrip ==
  ASSUME NEW vs \in Values, vs # <<>>, Separable(vs)
  PROVE  splitTaskEnvValues(joinTaskEnvValues(vs)) = vs
<1> DEFINE n == Len(vs)
           w == SeparatorWidth(vs)
           t == Concat(Pieces(vs, w))
           f == SubSeq(vs, 1, n - 1)
           c == vs[n]
<1>0. n \in Nat /\ n >= 1 /\ DOMAIN vs = 1..n /\ \A k \in 1..n : vs[k] \in Seq(Chars)
  BY DEF Values
<1>1. CASE n = 1
  <2> DEFINE v == vs[1]
  <2>1. joinTaskEnvValues(vs) = v /\ v \in Seq(Chars) /\ ~Among(Amp, v) /\ ~Among(Escape, v)
    <3>1. joinTaskEnvValues(vs) = v
      BY <1>1 DEF joinTaskEnvValues
    <3>2. v \in Seq(Chars)
      BY <1>0, <1>1
    <3>3. ~Among(Amp, v) /\ ~Among(Escape, v)
      BY <1>1, Zenon DEF Separable
    <3> QED BY <3>1, <3>2, <3>3
  <2>2. vs = <<v>>
    <3> DEFINE b == <<v>>
    <3>0. v \in Seq(Chars) /\ vs[1] = v
      BY <1>0, <1>1
    <3> HIDE DEF v
    <3>1. Len(b) = 1 /\ b[1] = v
      OBVIOUS
    <3>2. \A i \in 1..1 : i = 1
      OBVIOUS
    <3>3. b \in Seq(Seq(Chars))
      BY <3>0
    <3>4. vs \in Seq(Seq(Chars)) /\ Len(vs) = 1
      BY <1>1 DEF Values
    <3> HIDE DEF b, n
    <3>5. vs = b
      BY <3>0, <3>1, <3>2, <3>3, <3>4, SeqEqual
    <3> QED BY <3>5 DEF b
  <2> HIDE DEF v
  <2>3. ~hasUnescapedTaskEnvSeparator(v, 2)
    BY <2>1, LacksApart, NothingFound
  <2>4. splitEscapedTaskEnvValues(v, 1) = Append(<<>>, v)
    <3>1. 1 \in 1..2
      OBVIOUS
    <3>2. Has(v, 1, Len(v), <<>>, v)
      BY <2>1, <3>1, ScanPlain
    <3> DEFINE none == <<>>
    <3> HIDE DEF none
    <3>3. splitEscapedTaskEnvValues(v, 1) = Append(none, v)
      BY <2>1, <3>1, <3>2, SplitIs DEF none
    <3> QED BY <3>3 DEF none
  <2>5. splitTaskEnvValues(v) = <<v>>
    BY <2>3, <2>4 DEF splitTaskEnvValues
  <2> QED BY <2>1, <2>2, <2>5
<1>2. CASE n >= 2
  <2>1. w \in 1..2 /\ joinTaskEnvValues(vs) = t /\ t \in Seq(Chars)
    <3>1. w \in 1..2
      BY DEF SeparatorWidth
    <3> HIDE DEF w
    <3>2. Pieces(vs, w) \in Seq(Seq(Chars)) /\ joinTaskEnvValues(vs) = t
      BY <1>2, <3>1, PiecesAre DEF w
    <3>3. t \in Seq(Chars)
      BY <3>2, Offsets
    <3> QED BY <3>1, <3>2, <3>3
  <2>2. \A k \in 1..(n - 1) : vs[k] = <<>> \/ vs[k][Len(vs[k])] # Amp
    BY DEF Separable
  <2> HIDE DEF w
  <2>3. Has(t, w, Len(t), f, c)
    BY <1>2, <2>1, <2>2, ScanJoin
  <2>4. Append(f, c) = vs /\ f # <<>>
    <3>1. Append(f, c) = vs
      BY <1>2 DEF Values
    <3>2. Len(f) = n - 1
      BY <1>2 DEF Values
    <3>3. Len(f) # 0
      BY <1>0, <1>2, <3>2
    <3> HIDE DEF f
    <3> QED BY <3>1, <3>3
  <2> HIDE DEF t, f, c
  <2>5. splitEscapedTaskEnvValues(t, w) = vs /\ hasUnescapedTaskEnvSeparator(t, w)
    BY <2>1, <2>3, <2>4, SplitIs
  <2>6. CASE w = 2
    BY <2>1, <2>5, <2>6 DEF splitTaskEnvValues
  <2>7. CASE w = 1
    <3>1. \A k \in 1..n : ~Among(Amp, vs[k])
      BY <1>0, <2>7 DEF w, SeparatorWidth
    <3>2. \A k \in 2..(n - 1) : vs[k] # <<>>
      BY <2>7 DEF w, Separable
    <3>3. Apart(t)
      BY <1>2, <2>7, <3>1, <3>2, JoinApart DEF t
    <3>4. ~hasUnescapedTaskEnvSeparator(t, 2)
      BY <2>1, <3>3, NothingFound
    <3> QED BY <2>1, <2>5, <2>7, <3>4 DEF splitTaskEnvValues
  <2> QED BY <2>1, <2>6, <2>7
<1> QED BY <1>0, <1>1, <1>2

-----------------------------------------------------------------------------
\* The tokens of a command: numbers and ranges of two.
Tokens(spec) == spec \in Seq(Seq(Nat)) /\ \A k \in DOMAIN spec : Len(spec[k]) \in 1..2
Distinct(s) == \A k, l \in DOMAIN s : s[k] = s[l] => k = l

\* A token that is valid expands into numbers of accounts there are.
LEMMA TokenExpands ==
  ASSUME NEW token \in Seq(Nat), Len(token) \in 1..2, NEW total \in Nat, total >= 1,
         \A i \in DOMAIN token : token[i] <= total
  PROVE  expandTaskAccountToken(token, total) \in Seq(1..total)
<1> DEFINE n == Len(token)
           from == parseTaskAccountEndpoint(token[1], total)
           to == parseTaskAccountEndpoint(token[n], total)
<1>1. 1 \in 1..n /\ n \in 1..n /\ DOMAIN token = 1..n
  OBVIOUS
<1>2. token[1] \in 0..total /\ token[n] \in 0..total
  <2> HIDE DEF n
  <2>1. token[1] \in Nat /\ token[n] \in Nat
    BY <1>1
  <2> QED BY <1>1, <2>1
<1>3. from \in 1..total /\ to \in 1..total
  BY <1>2 DEF parseTaskAccountEndpoint
<1> HIDE DEF from, to
<1>4. CASE from <= to
  <2>1. to - from + 1 \in Nat /\ \A k \in 1..(to - from + 1) : from + k - 1 \in 1..total
    BY <1>3, <1>4
  <2>2. [k \in 1..(to - from + 1) |-> from + k - 1] \in Seq(1..total)
    <3> DEFINE m == to - from + 1
               x(k) == from + k - 1
    <3>1. m \in Nat /\ \A k \in 1..m : x(k) \in 1..total
      BY <2>1
    <3> HIDE DEF m, x
    <3>2. [k \in 1..m |-> x(k)] \in Seq(1..total)
      BY <3>1
    <3> QED BY <3>2 DEF m, x
  <2> QED BY <1>4, <2>2 DEF expandTaskAccountToken, from, to
<1>5. CASE ~(from <= to)
  <2>1. from - to + 1 \in Nat /\ \A k \in 1..(from - to + 1) : from - k + 1 \in 1..total
    BY <1>3, <1>5
  <2>2. [k \in 1..(from - to + 1) |-> from - k + 1] \in Seq(1..total)
    <3> DEFINE m == from - to + 1
               x(k) == from - k + 1
    <3>1. m \in Nat /\ \A k \in 1..m : x(k) \in 1..total
      BY <2>1
    <3> HIDE DEF m, x
    <3>2. [k \in 1..m |-> x(k)] \in Seq(1..total)
      BY <3>1
    <3> QED BY <3>2 DEF m, x
  <2> QED BY <1>5, <2>2 DEF expandTaskAccountToken, from, to
<1> QED BY <1>4, <1>5

\* The numbers of a specification are of accounts there are, and none comes twice.
LEMMA NumbersAre ==
  ASSUME NEW spec, Tokens(spec), NEW total \in Nat, total >= 1
  PROVE  /\ parseTaskAccountSpec(spec, total) \in Seq(1..total)
         /\ Distinct(parseTaskAccountSpec(spec, total))
<1>1. CASE ~Valid(spec, total)
  <2>1. parseTaskAccountSpec(spec, total) = <<>>
    BY <1>1 DEF parseTaskAccountSpec
  <2> QED BY <2>1 DEF Distinct
<1>2. CASE Valid(spec, total)
  <2> DEFINE n == Len(spec)
             x(k) == expandTaskAccountToken(spec[k], total)
             d == [k \in DOMAIN spec |-> x(k)]
  <2>1. n \in Nat /\ DOMAIN spec = 1..n /\ \A k \in 1..n : spec[k] \in Seq(Nat) /\ Len(spec[k]) \in 1..2
    BY DEF Tokens
  <2>2. \A k \in 1..n : \A i \in DOMAIN spec[k] : spec[k][i] <= total
    BY <1>2, <2>1 DEF Valid
  <2>3. \A k \in 1..n : x(k) \in Seq(1..total)
    BY <2>1, <2>2, TokenExpands
  <2> HIDE DEF x, n
  <2>4. d \in Seq(Seq(1..total))
    BY <2>1, <2>3
  <2> HIDE DEF d
  <2>5. Concat(d) \in Seq(1..total)
    BY <2>4, Offsets
  <2>6. WithoutRepeats(Concat(d)) \in Seq(1..total) /\ Distinct(WithoutRepeats(Concat(d)))
    BY <2>5, NoRepeats DEF Distinct
  <2>7. parseTaskAccountSpec(spec, total) = WithoutRepeats(Concat(d))
    BY <1>2 DEF parseTaskAccountSpec, d, x
  <2> QED BY <2>6, <2>7
<1> QED BY <1>1, <1>2

\* Numbers of accounts, and the accounts with them.
AccountsOf(vs, numbers) == [k \in DOMAIN numbers |-> [index |-> numbers[k], value |-> vs[numbers[k]]]]

\* The picked accounts are values of the list, each at most once.
LEMMA PickedAre ==
  ASSUME NEW vs \in Values, NEW spec, Tokens(spec), Separable(vs)
  PROVE  \E numbers \in Seq(1..Len(vs)) :
           Distinct(numbers) /\ resolveTaskAccountSelections(joinTaskEnvValues(vs), spec) = AccountsOf(vs, numbers)
<1> DEFINE raw == joinTaskEnvValues(vs)
           n == Len(vs)
<1>0. n \in Nat
  BY DEF Values
<1>1. CASE raw = <<>>
  <2> DEFINE numbers == <<>>
  <2>1. numbers \in Seq(1..n) /\ DOMAIN numbers = {}
    OBVIOUS
  <2>2. Distinct(numbers)
    BY <2>1 DEF Distinct
  <2>3. resolveTaskAccountSelections(raw, spec) = <<>>
    BY <1>1 DEF resolveTaskAccountSelections
  <2>4. AccountsOf(vs, numbers) = <<>>
    BY DEF AccountsOf
  <2> QED BY <2>1, <2>2, <2>3, <2>4
<1>2. CASE raw # <<>>
  <2> DEFINE s == IF spec = <<>> THEN <<<<1, 0>>>> ELSE spec
             numbers == parseTaskAccountSpec(s, n)
  <2>1. vs # <<>> /\ n >= 1
    <3>1. n # 0
      BY <1>2 DEF joinTaskEnvValues
    <3>2. vs # <<>>
      BY <3>1
    <3> QED BY <1>0, <3>1, <3>2
  <2>2. splitTaskEnvValues(raw) = vs
    BY <2>1, RoundTrip
  <2>3. Tokens(s)
    <3>1. Tokens(<<<<1, 0>>>>)
      <4> DEFINE one == <<1, 0>>
                 usual == <<one>>
      <4>1. one \in Seq(Nat) /\ Len(one) = 2
        OBVIOUS
      <4> HIDE DEF one
      <4>2. usual \in Seq(Seq(Nat)) /\ DOMAIN usual = 1..1 /\ usual[1] = one
        BY <4>1
      <4> HIDE DEF usual
      <4>3. \A k \in DOMAIN usual : Len(usual[k]) \in 1..2
        BY <4>1, <4>2
      <4> QED BY <4>2, <4>3 DEF Tokens, usual, one
    <3> QED BY <3>1
  <2> HIDE DEF s
  <2>4. numbers \in Seq(1..n) /\ Distinct(numbers)
    BY <1>0, <2>1, <2>3, NumbersAre
  <2>5. resolveTaskAccountSelections(raw, spec) = AccountsOf(vs, numbers)
    <3> HIDE DEF raw
    <3> QED BY <1>2, <2>2 DEF resolveTaskAccountSelections, AccountsOf, s
  <2> QED BY <2>4, <2>5
<1> QED BY <1>1, <1>2

-----------------------------------------------------------------------------
\* The inductive invariant: what was picked was picked from these values by this command,
\* neither of which changes.
AccountsFrom ==
  /\ values \in AccountValues /\ plan.spec \in AccountSpecs
  /\ DOMAIN plan = {"mode", "spec", "pc", "code"}
  /\ \/ picked = <<>>
     \/ picked = resolveTaskAccountSelections(joinTaskEnvValues(values), plan.spec)

\* Strings are lists of characters, as the lemmas take them.
LEMMA ValuesAre ==
  ASSUME NEW vs \in AccountValues
  PROVE  vs \in Values
<1>1. vs \in Seq(Seq(STRING))
  BY AccountAssumption
<1>2. STRING \subseteq Chars
  BY DEF Chars
<1>3. Seq(STRING) \subseteq Seq(Chars)
  <2> DEFINE A == STRING
             B == Chars
  <2>1. A \subseteq B
    BY <1>2
  <2> HIDE DEF A, B
  <2>2. ASSUME NEW s \in Seq(A) PROVE s \in Seq(B)
    BY <2>1
  <2>3. Seq(A) \subseteq Seq(B)
    BY <2>2
  <2> QED BY <2>3 DEF A, B
<1> DEFINE A == Seq(STRING)
           B == Seq(Chars)
<1>4. vs \in Seq(A) /\ A \subseteq B
  BY <1>1, <1>3
<1> HIDE DEF A, B
<1>5. vs \in Seq(B)
  BY <1>4
<1> QED BY <1>5 DEF Values, B

\* What the invariant says of the picked accounts is what they must be.
LEMMA FromGivesRows ==
  ASSUME AccountsFrom
  PROVE  AccountsAreRows
<1> SUFFICES ASSUME Separable(values)
             PROVE  /\ \A k \in DOMAIN picked : picked[k].value = values[picked[k].index]
                    /\ \A k, l \in DOMAIN picked : picked[k].index = picked[l].index => k = l
                    /\ plan.mode = "desi" /\ picked # <<>> /\ Separable(Picks)
                         => splitTaskEnvValues(joinTaskEnvValues(Picks)) = Picks
  BY DEF AccountsAreRows
<1>1. values \in Values /\ Tokens(plan.spec)
  <2>1. values \in Values
    BY ValuesAre DEF AccountsFrom
  <2>2. Tokens(plan.spec)
    BY AccountAssumption DEF AccountsFrom, Tokens
  <2> QED BY <2>1, <2>2
<1>2. \E numbers \in Seq(1..Len(values)) : Distinct(numbers) /\ picked = AccountsOf(values, numbers)
  <2>1. CASE picked = <<>>
    <3> DEFINE numbers == <<>>
    <3>1. numbers \in Seq(1..Len(values)) /\ Distinct(numbers) /\ AccountsOf(values, numbers) = <<>>
      BY DEF Distinct, AccountsOf
    <3> QED BY <2>1, <3>1
  <2>2. CASE picked = resolveTaskAccountSelections(joinTaskEnvValues(values), plan.spec)
    BY <1>1, <2>2, PickedAre
  <2> QED BY <2>1, <2>2 DEF AccountsFrom
<1>3. PICK numbers \in Seq(1..Len(values)) : Distinct(numbers) /\ picked = AccountsOf(values, numbers)
  BY <1>2
<1>4. /\ DOMAIN picked = DOMAIN numbers
      /\ \A k \in DOMAIN numbers : picked[k].index = numbers[k] /\ picked[k].value = values[numbers[k]]
  BY <1>3 DEF AccountsOf
<1>5. Picks \in Values
  <2> DEFINE n == Len(values)
             m == Len(numbers)
             x(k) == picked[k].value
  <2>1. n \in Nat /\ m \in Nat /\ DOMAIN numbers = 1..m /\ \A k \in 1..m : numbers[k] \in 1..n
    <3>1. n \in Nat /\ m \in Nat /\ DOMAIN numbers = 1..m
      BY <1>1 DEF Values
    <3> DEFINE C == 1..n
    <3> HIDE DEF C
    <3>2. numbers \in Seq(C)
      BY DEF C
    <3>3. \A k \in 1..m : numbers[k] \in C
      BY <3>2, ElementOfSeq
    <3> QED BY <3>1, <3>3 DEF C
  <2>2. \A i \in 1..n : values[i] \in Seq(Chars)
    BY <1>1 DEF Values
  <2>3. \A k \in 1..m : x(k) \in Seq(Chars)
    BY <1>4, <2>1, <2>2
  <2>4. Picks = [k \in 1..m |-> x(k)]
    BY <1>4, <2>1 DEF Picks
  <2> HIDE DEF x, m
  <2> QED BY <2>1, <2>3, <2>4 DEF Values
<1>6. picked # <<>> => Picks # <<>>
  <2>1. DOMAIN Picks = DOMAIN numbers
    BY <1>4 DEF Picks
  <2>2. ASSUME Picks = <<>> PROVE picked = <<>>
    <3>1. Len(numbers) = 0
      BY <2>1, <2>2
    <3>2. numbers = <<>>
      BY <3>1
    <3> QED BY <1>3, <3>2 DEF AccountsOf
  <2> QED BY <2>2
<1>7. ASSUME picked # <<>>, Separable(Picks) PROVE splitTaskEnvValues(joinTaskEnvValues(Picks)) = Picks
  BY <1>5, <1>6, <1>7, RoundTrip
<1>8. \A k, l \in DOMAIN picked : picked[k].index = picked[l].index => k = l
  BY <1>3, <1>4 DEF Distinct
<1> QED BY <1>4, <1>7, <1>8

\* The account with number n is the n-th enabled variable of the page, whatever the
\* values contain that the separators keep apart, however many there are and whatever
\* tokens a command names; no account is picked twice, and a script that splits what it
\* is handed finds just the picked ones.
THEOREM AccountsStayRows == AccountSpec => []AccountsAreRows
<1>1. AccountInit => AccountsFrom
  BY DEF AccountInit, AccountsFrom
<1>2. AccountsFrom /\ [AccountNext]_accountVars => AccountsFrom'
  <2> SUFFICES ASSUME AccountsFrom, [AccountNext]_accountVars PROVE AccountsFrom'
    OBVIOUS
  <2>1. CASE RunCommandWithPlan
    BY <2>1 DEF AccountsFrom, RunCommandWithPlan, BuildManagedRuntimeEnvMap
  <2>2. CASE StopAccounts
    BY <2>2 DEF AccountsFrom, StopAccounts
  <2>3. CASE Collect
    BY <2>3 DEF AccountsFrom, Collect
  <2>4. ASSUME NEW k \in DOMAIN accounts, StartAccount(k) PROVE AccountsFrom'
    BY <2>4 DEF AccountsFrom, StartAccount
  <2>5. ASSUME NEW k \in DOMAIN accounts, NEW code \in {0, 1}, AccountExits(k, code) PROVE AccountsFrom'
    BY <2>5 DEF AccountsFrom, AccountExits
  <2>6. CASE UNCHANGED accountVars
    BY <2>6 DEF AccountsFrom, accountVars
  <2> QED BY <2>1, <2>2, <2>3, <2>4, <2>5, <2>6 DEF AccountNext
<1> QED BY <1>1, <1>2, FromGivesRows, PTL DEF AccountSpec
=============================================================================
