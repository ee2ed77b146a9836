---------------------------- MODULE EnvVariables ----------------------------
(***************************************************************************)
(* The order of the environment variables: handler/env.go and              *)
(* cmd/ddp/env_commands.go.                                                *)
(*                                                                         *)
(* Requests of the page and of other tools (the open API, ddp in a process *)
(* of its own) read and write the rows one statement at a time; a          *)
(* transaction is one step.  Names, values, groups and whether a variable  *)
(* is enabled are columns the order does not depend on: a request that     *)
(* writes only them leaves this state as it is.  Positions are in units of *)
(* envPositionStep.                                                        *)
(***************************************************************************)
EXTENDS Integers, Sequences, FiniteSets
LOCAL INSTANCE SequencesExt
LOCAL INSTANCE FiniteSetsExt

CONSTANTS
    EnvClients, \* requests in progress at once
    MaxItems,   \* bound: rows in one request
    MaxEnvs,    \* bound: rows ever created
    MaxPosition \* bound: positions are between -1 and MaxPosition

VARIABLES
    env,        \* the rows by id
    envRequest, \* the request of each client
    envIds      \* the sequence the next id comes from

envVars == <<env, envRequest, envIds>>

ASSUME EnvAssumption == MaxItems \in Nat /\ MaxEnvs \in Nat /\ MaxPosition \in Nat

Pinned == 1    \* envPinnedSortOrder
Normal == 0    \* envNormalSortOrder

NoRequest == [op |-> "none", pc |-> "free", id |-> 0, arg |-> 0, items |-> 0]

\* Rows of a restored backup may share a position.
EnvInit ==
    /\ envIds \in 0..(MaxEnvs - 1)
    /\ env \in [1..envIds -> [sortOrder : {Normal}, position : {1, 2}]]
    /\ envRequest = [c \in EnvClients |-> NoRequest]

-----------------------------------------------------------------------------
\* sort_order DESC, position ASC, created_at ASC, id ASC; ids are given in the order
\* of creation.
ComesBefore(i, j) ==
    \/ env[i].sortOrder > env[j].sortOrder
    \/ /\ env[i].sortOrder = env[j].sortOrder
       /\ \/ env[i].position < env[j].position
          \/ env[i].position = env[j].position /\ i < j

Sorted(ids, before(_, _)) ==
    CHOOSE s \in [1..Cardinality(ids) -> ids] : \A k, l \in DOMAIN s : k < l => before(s[k], s[l])

orderedEnvQuery(ids) == Sorted(ids, ComesBefore)
Bucket(order) == {i \in DOMAIN env : env[i].sortOrder = order}
Positions(order) == {env[i].position : i \in Bucket(order)}

nextEnvPosition(order) == IF Bucket(order) = {} THEN 1 ELSE 1 + Max(Positions(order))

\* An update of a row that is gone changes nothing.
SetOrder(i, order, p) ==
    env' = [j \in DOMAIN env |-> IF i = j THEN [sortOrder |-> order, position |-> p] ELSE env[j]]

DeleteRows(ids) == env' = [i \in DOMAIN env \ ids |-> env[i]]

\* The siblings get new positions, with the source before the target or last.
Renumbered(siblings, source, target) ==
    LET at == IF target = 0 THEN Len(siblings) + 1 ELSE CHOOSE k \in DOMAIN siblings : siblings[k] = target
        ordered == InsertAt(siblings, at, source)
    IN  env' = [i \in DOMAIN env |->
                  IF i \in Range(ordered)
                  THEN [env[i] EXCEPT !.position = CHOOSE k \in DOMAIN ordered : ordered[k] = i] ELSE env[i]]

reorderByCreation(source, target) ==
    Renumbered(Sorted(Bucket(env[source].sortOrder) \ {source}, <), source, target)

reorderEnvWithinSortBucket(source, target) ==
    Renumbered(orderedEnvQuery(Bucket(env[source].sortOrder) \ {source}), source, target)

-----------------------------------------------------------------------------
SetRequest(c, r) == envRequest' = [envRequest EXCEPT ![c] = r]
AnswerRequest(c) == SetRequest(c, NoRequest)
Arrives(c, r) == envRequest[c].pc = "free" /\ SetRequest(c, r) /\ UNCHANGED envIds

\* Create, Import and runEnvSet write rows one by one; a replacing import deletes all
\* rows first.
BeginRows(c, op, items) ==
    /\ Arrives(c, [NoRequest EXCEPT !.op = IF op = "merge" THEN op ELSE "create", !.items = items, !.pc = "look"])
    /\ IF op = "replace" THEN DeleteRows(DOMAIN env) ELSE UNCHANGED env

\* Sort, MoveToTop and CancelMoveToTop look whether the row is there first.
BeginMove(c, op, i, arg) ==
    /\ i \in DOMAIN env /\ (arg # 0 => op = "sort") /\ UNCHANGED env
    /\ Arrives(c, [NoRequest EXCEPT !.op = op, !.id = i, !.arg = arg, !.pc = "move"])

\* Delete, BatchDelete and runEnvDelete.
BatchDelete(ids) == DeleteRows(ids) /\ UNCHANGED <<envRequest, envIds>>

NextItem(c) ==
    IF envRequest[c].items = 1 THEN AnswerRequest(c)
    ELSE SetRequest(c, [envRequest[c] EXCEPT !.items = @ - 1, !.pc = "look"])

\* A merge and ddp write the values of a row with that name and those remarks, if there
\* is one; ddp refuses several.
CountRows(c) ==
    /\ envRequest[c].pc = "look" /\ UNCHANGED <<env, envIds>>
    /\ \/ envRequest[c].op = "merge" /\ DOMAIN env # {} /\ NextItem(c)
       \/ /\ nextEnvPosition(Normal) <= MaxPosition
          /\ SetRequest(c, [envRequest[c] EXCEPT !.pc = "insert", !.arg = nextEnvPosition(Normal)])

Insert(c) ==
    /\ envRequest[c].pc = "insert" /\ envIds < MaxEnvs /\ envIds' = envIds + 1 /\ NextItem(c)
    /\ env' = [i \in DOMAIN env \cup {envIds + 1} |->
                 IF i \in DOMAIN env THEN env[i] ELSE [sortOrder |-> Normal, position |-> envRequest[c].arg]]

\* A target that is gone, or in the other bucket, is an error.
Sort(c) ==
    LET r == envRequest[c]
    IN  /\ r.op = "sort"
        /\ IF r.id \in DOMAIN env /\ r.id # r.arg
              /\ (r.arg # 0 => r.arg \in DOMAIN env /\ env[r.arg].sortOrder = env[r.id].sortOrder)
           THEN reorderEnvWithinSortBucket(r.id, r.arg) ELSE UNCHANGED env

MoveToTop(c) ==
    /\ envRequest[c].op = "top"
    /\ SetOrder(envRequest[c].id, Pinned,
                IF Bucket(Pinned) = {} THEN 1 ELSE Min(Positions(Pinned)) - 1)

CancelMoveToTop(c) ==
    /\ envRequest[c].op = "untop" /\ SetOrder(envRequest[c].id, Normal, nextEnvPosition(Normal))

Move(c) ==
    /\ envRequest[c].pc = "move" /\ AnswerRequest(c) /\ UNCHANGED envIds
    /\ Sort(c) \/ MoveToTop(c) \/ CancelMoveToTop(c)
    /\ \A i \in DOMAIN env' : env'[i].position \in 0..MaxPosition

EnvStep(c) ==
    \/ \E op \in {"create", "merge", "replace"}, items \in 1..MaxItems : BeginRows(c, op, items)
    \/ \E op \in {"sort", "top", "untop"}, i \in DOMAIN env, arg \in {0} \cup DOMAIN env : BeginMove(c, op, i, arg)
    \/ CountRows(c) \/ Insert(c) \/ Move(c)

EnvNext == (\E c \in EnvClients : EnvStep(c)) \/ (\E ids \in SUBSET DOMAIN env : BatchDelete(ids))

EnvSpec == EnvInit /\ [][EnvNext]_envVars
=============================================================================
