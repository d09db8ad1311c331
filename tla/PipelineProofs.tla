---------------------------- MODULE PipelineProofs ----------------------------
(* Theorems about Pipeline, for any number of requests, releases,            *)
(* generations, cron runs, maintainers, other requests and integrity checks. *)
(*                                                                           *)
(* Nothing holds a lock: a cron run reads the checkpoint, the open requests, *)
(* the count of generations and the row in statements of its own, a workflow *)
(* outlives its generation, a maintainer checks the graph before the update, *)
(* a blocked request is resumed on blockers and releases read before.        *)
(* The invariant says of each what it knows that the others cannot undo, and *)
(* that its next conditional write asks for the rest.                        *)
EXTENDS Pipeline, FiniteSetTheorems, WellFoundedInduction, TLAPS

(***************************************************************************)
(* The admission graph: fewer edges have fewer paths.                      *)
(***************************************************************************)

(* Some element of a set of natural numbers is the least. *)
LEMMA LeastNat ==
  ASSUME NEW T, T \subseteq Nat, T # {}
  PROVE  \E x \in T : \A y \in T : x <= y
<1> DEFINE R == OpToRel(<, Nat)
<1>1. IsWellFoundedOn(R, Nat)
  BY NatLessThanWellFounded
<1>2. \A x, y \in Nat : x < y => <<x, y>> \in R
  BY DEF OpToRel
<1> HIDE DEF R
<1>3. PICK x \in T : \A y \in T : ~ (<<y, x>> \in R)
  BY <1>1, WFMin
<1>4. \A y \in T : y \in Nat
  OBVIOUS
<1>5. SUFFICES ASSUME NEW y \in T, ~ (x <= y) PROVE FALSE
  BY <1>3
<1>6. x \in Nat /\ y \in Nat /\ y < x
  BY <1>3, <1>4, <1>5
<1> QED
  BY <1>2, <1>3, <1>6

(* Induction up to n, for a set instead of a predicate. *)
LEMMA UpTo ==
  ASSUME NEW n \in Nat, NEW S, 0 \in S, \A k \in 0 .. n-1 : k \in S => k + 1 \in S
  PROVE  \A k \in 0 .. n : k \in S
<1> DEFINE T == {k \in 0 .. n : k \notin S}
<1>1. SUFFICES ASSUME T # {} PROVE FALSE
  OBVIOUS
<1>2. PICK x \in T : \A y \in T : x <= y
  <2>1. T \subseteq Nat
    OBVIOUS
  <2> HIDE DEF T
  <2> QED
    BY <1>1, <2>1, LeastNat
<1>3. x \in 0 .. n /\ x # 0
  OBVIOUS
<1>4. x - 1 \in 0 .. n-1 /\ x - 1 \notin T
  BY <1>2, <1>3
<1> QED
  BY <1>3, <1>4

Children(edges, S) == {e[2] : e \in {e \in edges : e[1] \in S}}

Solves(edges, n, m, g) ==
  g = [k \in 0 .. m |-> IF k = 0 THEN {n} ELSE Children(edges, g[k - 1])]

(* The recursive definition of the levels has a solution. *)
LEMMA LevelsExist ==
  ASSUME NEW edges, NEW n
  PROVE  \A m \in 0 .. MaxDepth : \E g : Solves(edges, n, m, g)
<1> DEFINE S == {m \in 0 .. MaxDepth : \E g : Solves(edges, n, m, g)}
<1>1. MaxDepth \in Nat
  BY PipelineAssumption
<1>2. 0 \in S
  <2> DEFINE g == [k \in 0 .. 0 |-> {n}]
  <2>1. Solves(edges, n, 0, g)
    BY DEF Solves
  <2>2. \E f : Solves(edges, n, 0, f)
    BY <2>1
  <2>3. 0 \in 0 .. MaxDepth
    BY <1>1
  <2> QED
    BY <2>2, <2>3
<1>3. ASSUME NEW m \in 0 .. MaxDepth - 1, m \in S
      PROVE  m + 1 \in S
  <2>1. PICK g : Solves(edges, n, m, g)
    BY <1>3
  <2> DEFINE h == [k \in 0 .. m + 1 |-> IF k = m + 1 THEN Children(edges, g[m]) ELSE g[k]]
  <2>2. ASSUME NEW k \in 0 .. m + 1
        PROVE  h[k] = IF k = 0 THEN {n} ELSE Children(edges, h[k - 1])
    <3>1. CASE k = m + 1
      <4>1. k - 1 = m /\ k # 0 /\ m # m + 1 /\ m \in 0 .. m + 1
        BY <1>1, <3>1
      <4>2. h[m] = g[m]
        BY <4>1
      <4> QED
        BY <3>1, <4>1, <4>2
    <3>2. CASE k # m + 1
      <4>1. k \in 0 .. m
        BY <1>1, <3>2
      <4>2. h[k] = g[k]
        BY <3>2
      <4>3. g[k] = IF k = 0 THEN {n} ELSE Children(edges, g[k - 1])
        BY <2>1, <4>1 DEF Solves
      <4>4. k # 0 => h[k - 1] = g[k - 1]
        BY <1>1, <4>1
      <4> QED
        BY <4>2, <4>3, <4>4
    <3> QED
      BY <3>1, <3>2
  <2>3. Solves(edges, n, m + 1, h)
    BY <2>2 DEF Solves
  <2>4. \E f : Solves(edges, n, m + 1, f)
    BY <2>3
  <2>5. m + 1 \in 0 .. MaxDepth
    BY <1>1
  <2> QED
    BY <2>4, <2>5
<1> HIDE DEF S
<1>4. \A m \in 0 .. MaxDepth : m \in S
  BY <1>1, <1>2, <1>3, UpTo
<1> QED
  BY <1>4 DEF S

(* What the levels are, from one to the next. *)
LEMMA Levels ==
  ASSUME NEW edges, NEW n
  PROVE  /\ LevelsFrom(edges, n)[0] = {n}
         /\ \A k \in 0 .. MaxDepth - 1 :
              LevelsFrom(edges, n)[k + 1] = Children(edges, LevelsFrom(edges, n)[k])
<1> DEFINE L == LevelsFrom(edges, n)
<1>1. MaxDepth \in Nat
  BY PipelineAssumption
<1>2. L = CHOOSE g : Solves(edges, n, MaxDepth, g)
  BY DEF LevelsFrom, Solves, Children
<1>3. \E g : Solves(edges, n, MaxDepth, g)
  <2>1. MaxDepth \in 0 .. MaxDepth
    BY <1>1
  <2> QED
    BY <2>1, LevelsExist
<1> HIDE DEF L
<1>4. L = [k \in 0 .. MaxDepth |-> IF k = 0 THEN {n} ELSE Children(edges, L[k - 1])]
  BY <1>2, <1>3 DEF Solves
<1>5. L[0] = {n}
  BY <1>1, <1>4
<1>6. ASSUME NEW k \in 0 .. MaxDepth - 1
      PROVE  L[k + 1] = Children(edges, L[k])
  <2>1. k + 1 \in 0 .. MaxDepth /\ k + 1 # 0 /\ (k + 1) - 1 = k
    BY <1>1
  <2> QED
    BY <1>4, <2>1
<1> QED
  BY <1>5, <1>6 DEF L

(* An edge less never makes a graph inadmissible. *)
LEMMA FewerEdges ==
  ASSUME NEW A, NEW B, A \subseteq B, Admissible(B)
  PROVE  Admissible(A)
<1>1. MaxDepth \in Nat
  BY PipelineAssumption
<1>2. SUFFICES ASSUME NEW n \in Nodes PROVE LevelsFrom(A, n)[MaxDepth] = {}
  BY DEF Admissible
<1> DEFINE S == {k \in 0 .. MaxDepth : LevelsFrom(A, n)[k] \subseteq LevelsFrom(B, n)[k]}
<1>3. 0 \in S
  BY <1>1, Levels
<1>4. ASSUME NEW k \in 0 .. MaxDepth - 1, k \in S
      PROVE  k + 1 \in S
  <2>1. LevelsFrom(A, n)[k + 1] = Children(A, LevelsFrom(A, n)[k])
    BY Levels
  <2>2. LevelsFrom(B, n)[k + 1] = Children(B, LevelsFrom(B, n)[k])
    BY Levels
  <2>3. Children(A, LevelsFrom(A, n)[k]) \subseteq Children(B, LevelsFrom(B, n)[k])
    BY <1>4 DEF Children
  <2> QED
    BY <1>1, <2>1, <2>2, <2>3
<1> HIDE DEF S
<1>5. MaxDepth \in S
  BY <1>1, <1>3, <1>4, UpTo
<1>6. LevelsFrom(B, n)[MaxDepth] = {}
  BY DEF Admissible
<1> QED
  BY <1>5, <1>6 DEF S

(* A graph without edges is admissible: a path of one edge needs one. *)
LEMMA NoEdges == Admissible({})
<1>1. SUFFICES ASSUME NEW n \in Nodes PROVE LevelsFrom({}, n)[MaxDepth] = {}
  BY DEF Admissible
<1>2. MaxDepth - 1 \in 0 .. MaxDepth - 1 /\ (MaxDepth - 1) + 1 = MaxDepth
  BY PipelineAssumption
<1>3. LevelsFrom({}, n)[MaxDepth] = Children({}, LevelsFrom({}, n)[MaxDepth - 1])
  BY <1>2, Levels
<1> QED
  BY <1>3 DEF Children

(***************************************************************************)
(* The inductive invariant.                                                *)
(***************************************************************************)
Statuses == {"none", "pending", "generating", "review", "blocked", "queued", "building",
             "built", "failed", "rejected"}
Row == [status : Statuses, release : Nat, owner : {None, "system", "maintainer"},
        generation : Nat, autos : Nat, resumes : Nat,
        revision : {None} \cup [release : Nat, generation : Nat]]
CheckSteps == {"idle", "detect", "previous", "duplicate", "active", "advance", "create",
               "dispatch", "count", "claim", "create instance", "confirm", "dispatch failed"}
Check == [pc : CheckSteps, row : 0 .. MaxRequest, release : Nat, previous : Nat,
          request : 0 .. MaxRequest, generation : Nat, seen : Statuses,
          lost : SUBSET {"pending", "failed"}]
FactorySteps == {"begin", "prepare", "branch", "commit", "pull", "persist", "review", "append",
                 "wait", "stop", "fail"}
Instance == [request : 0 .. MaxRequest, pc : FactorySteps,
             status : {"none", "running", "complete", "errored", "terminated"}, retries : Nat]
Pulls == {"none", "created", "committed", "open"}
Node == Nodes \cup {None}
Blocker == [status : {"none", "open", "resolved", "superseded"}, child : Node, id : Nat]
Link == [pc : {"idle", "check", "link"}, parent : Node, child : Node, version : Nat, id : Nat]
Start == [pc : {"none", "call", "failed"}, request : 0 .. MaxRequest]
ReadBlocker == [node : Nodes, id : Nat, child : Node]
Resolver == [pc : {"idle", "releases", "resolve"}, blockers : SUBSET ReadBlocker,
             parents : SUBSET Nodes]

RowsType ==
  /\ kind \in SourceKinds /\ newest \in Nat \ {0} /\ generations \in Nat
  /\ request \in [Requests -> Row]
  /\ checkpoint \in [0 .. MaxRequest -> Nat] /\ published \in 0 .. MaxRequest
ChecksType == cron \in [Crons -> Check]
InstancesType == instance \in [Generations -> Instance] /\ pulls \in [Generations -> Pulls]
LinksType ==
  /\ blocker \in [Nodes -> Blocker] /\ graphVersion \in Nat
  /\ link \in [Linkers -> Link]
CallsType == starting \in [Generations -> Start] /\ resolving \in [Resolvers -> Resolver]
TypeInv == RowsType /\ ChecksType /\ InstancesType /\ LinksType /\ CallsType

(* A source that names each release apart. *)
Named == kind # "moving"

(* A release the package has, or has a request for. *)
Known(r) == r = 1 \/ \E q \in Rows : request[q].release = r

(* The first build, or a request whose revision packages what it asked for. *)
Shipped(q) ==
  q = 0 \/ (q \in Rows /\ (Named => request[q].revision.release = request[q].release))

(* Rows are numbered in the order of their insertion. *)
Numbered == \E k \in 0 .. MaxRequest : Rows = 1 .. k

(* A row within its budget; one that waits for a generation has one left. *)
Budgeted(row) ==
  /\ row.autos <= MAX_AUTOMATIC_GENERATIONS + row.resumes
  /\ row.status = "pending" /\ row.autos # 0 =>
       row.autos < MAX_AUTOMATIC_GENERATIONS + row.resumes

RowOK(q) ==
  /\ request[q].status # "none" => request[q].release \in 1 .. newest
  /\ request[q].generation <= generations
  /\ Budgeted(request[q])
  /\ Named =>
       /\ request[q].revision = None \/ request[q].revision.release = request[q].release
       /\ request[q].status \in {"queued", "building", "built"} =>
            request[q].revision.release = request[q].release

RowsInv ==
  /\ Numbered
  /\ \A q \in Requests : RowOK(q)
  /\ Shipped(published)
  /\ Named => \A row \in 0 .. MaxRequest : checkpoint[row] = 0 \/ Known(checkpoint[row])

(* What a cron run still holds of the rows it read.  Of the count it holds   *)
(* only that there is a budget, unless its claim asks for the generation that *)
(* failed: a pending request may have been blocked and resumed since.         *)
CheckOK(k) ==
  /\ Shipped(k.row)
  /\ k.request \in Rows \cup {0}
  /\ k.generation <= generations
  /\ k.pc \in {"previous", "duplicate", "active", "advance", "create"} => k.release \in 1 .. newest
  /\ k.pc \in {"count", "claim", "create instance", "confirm", "dispatch failed"} => k.request \in Rows
  /\ k.pc \in {"count", "claim"} => k.seen \in {"pending", "failed"}
  /\ Named =>
       /\ k.pc = "duplicate" => k.previous = 0 \/ Known(k.previous)
       /\ k.pc = "advance" => Known(k.release)
  /\ k.pc = "claim" =>
       /\ 0 < MAX_AUTOMATIC_GENERATIONS
       /\ k.seen = "failed" /\ request[k.request].generation = k.generation =>
            AutomaticGenerationAvailable(k.request)
ChecksInv == \A c \in Crons : CheckOK(cron[c])

InstanceOK(g) ==
  /\ instance[g].status # "none" => instance[g].request \in Rows
  /\ instance[g].status = "running" /\ instance[g].pc \in {"persist", "review"} => pulls[g] = "open"
InstancesInv == \A g \in Generations : InstanceOK(g)

(* A call about to link was checked against this very graph, unless the     *)
(* version has moved on.                                                    *)
LinkOK(m) ==
  /\ link[m].version <= graphVersion
  /\ link[m].pc = "link" /\ link[m].version = graphVersion =>
       Admissible(Edges(link[m].parent, link[m].parent, link[m].child))
LinksInv == LinksAdmissible /\ \A m \in Linkers : LinkOK(m)

(* A call of the pipeline is about a row. *)
CallsInv == \A g \in Generations : starting[g].pc # "none" => starting[g].request \in Rows

PipelineInv == TypeInv /\ RowsInv /\ ChecksInv /\ InstancesInv /\ LinksInv /\ CallsInv

-----------------------------------------------------------------------------
(* Numbers *)

(* The constants are numbers, requests and generations their intervals. *)
LEMMA Bounds ==
  /\ MaxRequest \in Nat /\ MaxGeneration \in Nat /\ MAX_AUTOMATIC_GENERATIONS \in Nat
  /\ Requests = 1 .. MaxRequest /\ Generations = 1 .. MaxGeneration
BY WatchAssumption DEF Requests, Generations

(* The latest of some requests is one of them. *)
LEMMA LatestIsOne ==
  ASSUME NEW S, S \subseteq Requests
  PROVE  (Latest(S) = 0 /\ S = {}) \/ Latest(S) \in S
<1>1. CASE S = {}
  BY <1>1 DEF Latest
<1>2. CASE S # {}
  <2> DEFINE T == {MaxRequest - x : x \in S}
  <2>1. T \subseteq Nat /\ T # {}
    <3>1. \A x \in S : x \in 1 .. MaxRequest
      BY Bounds
    <3>2. \A x \in S : MaxRequest - x \in Nat
      BY <3>1, Bounds
    <3> QED
      BY <1>2, <3>2
  <2> HIDE DEF T
  <2>2. PICK t \in T : \A u \in T : t <= u
    BY <2>1, LeastNat
  <2>3. PICK x \in S : t = MaxRequest - x
    BY <2>2 DEF T
  <2>4. \A y \in S : MaxRequest - y \in T
    BY DEF T
  <2>5. \A y \in S : x >= y
    BY <2>2, <2>3, <2>4, Bounds
  <2>6. Max(S) \in S
    BY <2>3, <2>5 DEF Max
  <2> QED
    BY <1>2, <2>6 DEF Latest
<1> QED
  BY <1>1, <1>2

(* The next row is free. *)
LEMMA NextRow ==
  ASSUME NEW k \in 0 .. MaxRequest, Rows = 1 .. k
  PROVE  NewRequest = k + 1
<1>1. Cardinality(1 .. k) = k
  BY FS_Interval, Bounds
<1> QED
  BY <1>1 DEF NewRequest

-----------------------------------------------------------------------------
(***************************************************************************)
(* What every step does to the rows.                                       *)
(***************************************************************************)
RowsStep ==
  /\ kind' = kind
  /\ newest' \in Nat /\ newest' >= newest
  /\ generations' \in Nat /\ generations' >= generations
  /\ request' \in [Requests -> Row]
  /\ Numbered'
  /\ \A q \in Requests : RowOK(q)'
  /\ \A q \in Rows :
       /\ q \in Rows'
       /\ request'[q].release = request[q].release
       /\ Named /\ request[q].revision.release = request[q].release =>
            request'[q].revision.release = request[q].release
       /\ request'[q].generation = request[q].generation \/ request'[q].generation > generations
       /\ request'[q].autos = request[q].autos \/ request'[q].generation > generations

(* Nothing is written. *)
LEMMA RowsSame ==
  ASSUME PipelineInv, UNCHANGED <<kind, newest, request, generations>>
  PROVE  RowsStep
<1>1. Rows' = Rows
  BY DEF Rows
<1>2. Numbered' /\ \A q \in Requests : RowOK(q)'
  BY <1>1 DEF PipelineInv, RowsInv, Numbered, RowOK, Named, Budgeted
<1> QED
  BY <1>1, <1>2 DEF RowsStep, PipelineInv, TypeInv, RowsType

(* A row is inserted. *)
LEMMA RowInserted ==
  ASSUME PipelineInv, UNCHANGED <<kind, newest, generations>>,
         NEW owner \in {"system", "maintainer"}, NEW release \in 1 .. newest,
         Insert(owner, release)
  PROVE  /\ RowsStep
         /\ NewRequest \in Rows' /\ request'[NewRequest].release = release
<1> DEFINE row == [NoRequest EXCEPT !.status = "pending", !.owner = owner, !.release = release]
           n == NewRequest
<1>1. PICK k \in 0 .. MaxRequest : Rows = 1 .. k
  BY DEF PipelineInv, RowsInv, Numbered
<1>2. n = k + 1
  BY <1>1, NextRow
<1>3. n \in Requests /\ request' = [request EXCEPT ![n] = row]
  BY DEF Insert
<1> HIDE DEF n
<1>4. /\ request \in [Requests -> Row] /\ generations \in Nat
      /\ newest \in Nat
  BY DEF PipelineInv, TypeInv, RowsType
<1>5. /\ row \in Row /\ row.status = "pending" /\ row.release = release
      /\ row.generation = 0 /\ row.autos = 0 /\ row.resumes = 0 /\ row.revision = None
  <2>1. release \in Nat
    BY <1>4
  <2>2. row \in Row
    BY <2>1 DEF NoRequest, Row, Statuses
  <2> QED
    BY <2>2 DEF NoRequest
<1> HIDE DEF row
<1>6. request' \in [Requests -> Row] /\ request'[n] = row
      /\ \A q \in Requests \ {n} : request'[q] = request[q]
  BY <1>3, <1>5, <1>4
<1>7. Rows' = Rows \cup {n} /\ n \notin Rows
  BY <1>1, <1>2, <1>3, <1>5, <1>6, Bounds DEF Rows
<1>8. Rows' = 1 .. (k + 1) /\ k + 1 \in 0 .. MaxRequest
  BY <1>1, <1>2, <1>3, <1>7, Bounds
<1>9. Numbered'
  BY <1>8 DEF Numbered
<1>10. ASSUME NEW q \in Requests PROVE RowOK(q)'
  <2>1. CASE q = n
    BY <1>5, <1>4, <1>6, <2>1, Bounds DEF RowOK, Named, Budgeted
  <2>2. CASE q # n
    BY <1>6, <2>2 DEF PipelineInv, RowsInv, RowOK, Named, Budgeted
  <2> QED
    BY <2>1, <2>2
<1>11. \A q \in Rows : request'[q] = request[q] /\ q \in Rows' /\ q \in Requests
  BY <1>6, <1>7 DEF Rows
<1>12. RowsStep
  BY <1>4, <1>6, <1>9, <1>10, <1>11 DEF RowsStep, Row
<1> QED
  BY <1>5, <1>6, <1>7, <1>12 DEF n

(* A row becomes another. *)
RowBecomes(q, row) == request' = [request EXCEPT ![q] = row]

(* A changed row keeps its release, and takes its old generation or one just *)
(* counted.                                                                  *)
LEMMA RowChanged ==
  ASSUME PipelineInv, UNCHANGED <<kind, newest>>,
         generations' \in Nat, generations' >= generations,
         NEW q \in Rows, NEW row \in Row, RowBecomes(q, row),
         row.status # "none", row.release = request[q].release,
         row.generation = request[q].generation
           \/ (row.generation > generations /\ row.generation <= generations'),
         row.autos = request[q].autos \/ row.generation > generations,
         Budgeted(row),
         Named => row.revision = request[q].revision \/ row.revision.release = row.release,
         Named /\ row.status \in {"queued", "building", "built"} =>
           row.revision.release = row.release
  PROVE  RowsStep
<1>1. /\ request \in [Requests -> Row] /\ generations \in Nat
      /\ newest \in Nat /\ q \in Requests
  BY DEF PipelineInv, TypeInv, RowsType, Rows
<1>2. /\ request' \in [Requests -> Row] /\ request'[q] = row
      /\ \A p \in Requests \ {q} : request'[p] = request[p]
  BY <1>1 DEF RowBecomes
<1>3. Rows' = Rows
  BY <1>1, <1>2 DEF Rows
<1>4. Numbered'
  BY <1>3 DEF PipelineInv, RowsInv, Numbered
<1>5. RowOK(q) /\ request[q].status # "none"
  BY <1>1 DEF PipelineInv, RowsInv, Rows
<1>6. RowOK(q)'
  <2>1. row.release \in 1 .. newest'
    BY <1>1, <1>5 DEF RowOK
  <2>2. row.generation <= generations'
    <3>1. request[q] \in Row /\ request[q].generation \in Nat /\ row.generation \in Nat
      BY <1>1 DEF Row
    <3> QED
      BY <1>1, <1>5, <3>1 DEF RowOK
  <2>3. Named => row.revision = None \/ row.revision.release = row.release
    BY <1>5 DEF RowOK
  <2> QED
    BY <1>2, <2>1, <2>2, <2>3 DEF RowOK, Named, Budgeted
<1>7. ASSUME NEW p \in Requests, p # q PROVE RowOK(p)'
  <2>1. RowOK(p) /\ request'[p] = request[p] /\ request[p] \in Row
    BY <1>1, <1>2, <1>7 DEF PipelineInv, RowsInv
  <2> QED
    BY <1>1, <2>1 DEF RowOK, Named, Row, Budgeted
<1>8. ASSUME NEW p \in Rows
      PROVE  /\ p \in Rows' /\ request'[p].release = request[p].release
             /\ Named /\ request[p].revision.release = request[p].release =>
                  request'[p].revision.release = request[p].release
             /\ request'[p].generation = request[p].generation \/ request'[p].generation > generations
             /\ request'[p].autos = request[p].autos \/ request'[p].generation > generations
  <2>1. CASE p = q
    BY <1>2, <1>3, <2>1
  <2>2. CASE p # q
    <3>1. request'[p] = request[p]
      BY <1>2, <2>2 DEF Rows
    <3> QED
      BY <1>3, <3>1
  <2> QED
    BY <2>1, <2>2
<1> QED
  BY <1>1, <1>2, <1>4, <1>6, <1>7, <1>8 DEF RowsStep, Named

-----------------------------------------------------------------------------
(***************************************************************************)
(* What a step of the rows keeps.                                          *)
(***************************************************************************)
LEMMA StepOfRows ==
  ASSUME PipelineInv, RowsStep
  PROVE  /\ Named' = Named
         /\ \A r : Known(r) => Known(r)'
         /\ \A q : Shipped(q) => Shipped(q)'
         /\ \A q \in Rows : q \in Rows'
<1>1. \A q \in Rows : q \in Rows' /\ request'[q].release = request[q].release
  BY DEF RowsStep
<1>2. Named' = Named
  BY DEF RowsStep, Named
<1>3. ASSUME NEW r, Known(r) PROVE Known(r)'
  BY <1>1, <1>3 DEF Known
<1>4. ASSUME NEW q, Shipped(q) PROVE Shipped(q)'
  BY <1>2, <1>4 DEF Shipped, RowsStep
<1> QED
  BY <1>1, <1>2, <1>3, <1>4

(* The rows stay sound whatever else a step does, a publication included. *)
LEMMA RowsKept ==
  ASSUME PipelineInv, RowsStep, Shipped(published)', published' \in 0 .. MaxRequest,
         checkpoint' = checkpoint
  PROVE  RowsType' /\ RowsInv'
<1>1. RowsType'
  BY DEF PipelineInv, TypeInv, RowsType, RowsStep
<1>2. Named => \A row \in 0 .. MaxRequest : checkpoint[row] = 0 \/ Known(checkpoint[row])
  BY DEF PipelineInv, RowsInv
<1>3. ASSUME Named', NEW row \in 0 .. MaxRequest
      PROVE  checkpoint'[row] = 0 \/ Known(checkpoint[row])'
  <2>1. SUFFICES ASSUME NEW r, r = checkpoint[row] PROVE r = 0 \/ Known(r)'
    BY DEF Known
  <2> QED
    BY <1>2, <1>3, <2>1, StepOfRows
<1>4. RowsInv'
  BY <1>3 DEF RowsInv, RowsStep
<1> QED
  BY <1>1, <1>4

(* The same where nothing is published. *)
LEMMA RowsStay ==
  ASSUME PipelineInv, RowsStep, UNCHANGED <<published, checkpoint>>
  PROVE  RowsType' /\ RowsInv'
<1>1. Shipped(published) /\ published \in 0 .. MaxRequest
  BY DEF PipelineInv, RowsInv, TypeInv, RowsType
<1>2. Shipped(published)'
  BY <1>1, StepOfRows
<1> QED
  BY <1>1, <1>2, RowsKept

(* What a cron run holds stays true while the rows move on. *)
LEMMA CheckKept ==
  ASSUME PipelineInv, RowsStep, NEW k \in Check, CheckOK(k)
  PROVE  CheckOK(k)'
<1>1. Named' = Named
  BY StepOfRows
<1>2. Shipped(k.row)'
  BY StepOfRows DEF CheckOK
<1>3. (k.request \in Rows \cup {0})' /\ (k.request \in Rows => k.request \in Rows')
  BY StepOfRows DEF CheckOK
<1>4. generations \in Nat /\ generations' \in Nat /\ generations' >= generations
      /\ newest \in Nat /\ newest' \in Nat /\ newest' >= newest
      /\ k.generation \in Nat
  BY DEF PipelineInv, TypeInv, RowsType, RowsStep, Check
<1>5. k.generation <= generations'
  <2>1. k.generation <= generations
    BY DEF CheckOK
  <2> QED
    BY <1>4, <2>1
<1>6. k.pc \in {"previous", "duplicate", "active", "advance", "create"} => k.release \in 1 .. newest'
  <2>1. k.pc \in {"previous", "duplicate", "active", "advance", "create"} => k.release \in 1 .. newest
    BY DEF CheckOK
  <2> QED
    BY <1>4, <2>1
<1>7. Named =>
        /\ k.pc = "duplicate" => k.previous = 0 \/ Known(k.previous)'
        /\ k.pc = "advance" => Known(k.release)'
  BY StepOfRows DEF CheckOK
<1>8. ASSUME k.pc = "claim", k.seen = "failed", request'[k.request].generation = k.generation
      PROVE  AutomaticGenerationAvailable(k.request)'
  <2>1. SUFFICES ASSUME NEW q, q = k.request PROVE AutomaticGenerationAvailable(q)'
    OBVIOUS
  <2>2. q \in Rows /\ q \in Requests
    BY <1>8, <2>1 DEF CheckOK, Rows
  <2>3. /\ request'[q].generation = request[q].generation \/ request'[q].generation > generations
        /\ request'[q].autos = request[q].autos \/ request'[q].generation > generations
    BY <2>2 DEF RowsStep
  <2>4. request'[q].generation \in Nat /\ k.generation <= generations
    BY <2>2 DEF RowsStep, Row, CheckOK
  <2>5. ~ (request'[q].generation > generations)
    BY <1>4, <1>8, <2>1, <2>4
  <2>6. AutomaticGenerationAvailable(q)
    BY <1>8, <2>1, <2>3, <2>5 DEF CheckOK
  <2> QED
    BY <2>3, <2>5, <2>6 DEF AutomaticGenerationAvailable
<1>9. k.pc \in {"count", "claim", "create instance", "confirm", "dispatch failed"} =>
        (k.request \in Rows)'
  BY <1>3 DEF CheckOK
<1>10. /\ k.pc \in {"count", "claim"} => k.seen \in {"pending", "failed"}
       /\ k.pc = "claim" => 0 < MAX_AUTOMATIC_GENERATIONS
  BY DEF CheckOK
<1> QED
  BY <1>1, <1>2, <1>3, <1>5, <1>6, <1>7, <1>8, <1>9, <1>10 DEF CheckOK

(* A cron run moves on; the others keep what they hold. *)
CronGoes(c, e) == cron' = [cron EXCEPT ![c] = e]

(* One cron run takes a step. *)
LEMMA CronMoves ==
  ASSUME PipelineInv, RowsStep, NEW c \in Crons, NEW e \in Check, CronGoes(c, e), CheckOK(e)'
  PROVE  ChecksType' /\ ChecksInv'
<1>1. cron \in [Crons -> Check]
  BY DEF PipelineInv, TypeInv, ChecksType
<1>2. /\ cron' \in [Crons -> Check] /\ cron'[c] = e
      /\ \A d \in Crons \ {c} : cron'[d] = cron[d]
  BY <1>1 DEF CronGoes
<1>3. ASSUME NEW d \in Crons PROVE CheckOK(cron[d])'
  <2>1. CASE d = c
    BY <1>2, <2>1 DEF CheckOK
  <2>2. CASE d # c
    <3>1. SUFFICES ASSUME NEW k, k = cron[d] PROVE CheckOK(k)'
      BY <1>2, <2>2 DEF CheckOK
    <3>2. k \in Check /\ CheckOK(k)
      BY <1>1, <3>1 DEF PipelineInv, ChecksInv
    <3> QED
      BY <3>1, <3>2, CheckKept
  <2> QED
    BY <2>1, <2>2
<1> QED
  BY <1>2, <1>3 DEF ChecksType, ChecksInv

(* No cron run takes a step. *)
LEMMA CronsStay ==
  ASSUME PipelineInv, RowsStep, cron' = cron
  PROVE  ChecksType' /\ ChecksInv'
<1>1. cron \in [Crons -> Check]
  BY DEF PipelineInv, TypeInv, ChecksType
<1>2. ASSUME NEW d \in Crons PROVE CheckOK(cron[d])'
  <2>1. SUFFICES ASSUME NEW k, k = cron[d] PROVE CheckOK(k)'
    BY DEF CheckOK
  <2>2. k \in Check /\ CheckOK(k)
    BY <1>1, <2>1 DEF PipelineInv, ChecksInv
  <2> QED
    BY <2>1, <2>2, CheckKept
<1> QED
  BY <1>1, <1>2 DEF ChecksType, ChecksInv

-----------------------------------------------------------------------------
(* Instances *)

(* No workflow and no pull request moves. *)
LEMMA InstancesStay ==
  ASSUME PipelineInv, RowsStep, UNCHANGED <<instance, pulls>>
  PROVE  InstancesType' /\ InstancesInv'
<1>1. \A q \in Rows : q \in Rows'
  BY StepOfRows
<1> QED
  BY <1>1 DEF PipelineInv, TypeInv, InstancesType, InstancesInv, InstanceOK

InstanceGoes(g, e) == instance' = [instance EXCEPT ![g] = e]

(* One workflow and the pull request of its generation move. *)
LEMMA InstanceMoves ==
  ASSUME PipelineInv, RowsStep, NEW g \in Generations, NEW e \in Instance, InstanceGoes(g, e),
         NEW p \in Pulls, pulls' = [pulls EXCEPT ![g] = p],
         e.status # "none" => e.request \in Rows,
         e.status = "running" /\ e.pc \in {"persist", "review"} => p = "open"
  PROVE  InstancesType' /\ InstancesInv'
<1>1. instance \in [Generations -> Instance] /\ pulls \in [Generations -> Pulls]
  BY DEF PipelineInv, TypeInv, InstancesType
<1>2. /\ instance' \in [Generations -> Instance] /\ pulls' \in [Generations -> Pulls]
      /\ instance'[g] = e /\ pulls'[g] = p
      /\ \A h \in Generations \ {g} : instance'[h] = instance[h] /\ pulls'[h] = pulls[h]
  BY <1>1 DEF InstanceGoes
<1>3. ASSUME NEW h \in Generations PROVE InstanceOK(h)'
  <2>1. CASE h = g
    BY <1>2, <2>1, StepOfRows DEF InstanceOK
  <2>2. CASE h # g
    BY <1>2, <2>2, StepOfRows DEF InstanceOK, PipelineInv, InstancesInv
  <2> QED
    BY <2>1, <2>2
<1> QED
  BY <1>2, <1>3 DEF InstancesType, InstancesInv

(* An instance whose pull request stays as it is. *)
LEMMA InstanceMovesOnly ==
  ASSUME PipelineInv, RowsStep, NEW g \in Generations, NEW e \in Instance, InstanceGoes(g, e),
         pulls' = pulls,
         e.status # "none" => e.request \in Rows,
         e.status = "running" /\ e.pc \in {"persist", "review"} => pulls[g] = "open"
  PROVE  InstancesType' /\ InstancesInv'
<1>1. pulls \in [Generations -> Pulls]
  BY DEF PipelineInv, TypeInv, InstancesType
<1>2. SUFFICES ASSUME NEW p, p = pulls[g] PROVE InstancesType' /\ InstancesInv'
  OBVIOUS
<1>3. p \in Pulls /\ pulls' = [pulls EXCEPT ![g] = p]
  BY <1>1, <1>2
<1> QED
  BY <1>2, <1>3, InstanceMoves

-----------------------------------------------------------------------------
(***************************************************************************)
(* Cron runs.                                                              *)
(***************************************************************************)
WatchStep == RowsStep /\ RowsType' /\ RowsInv' /\ ChecksType' /\ ChecksInv'

(* The fields a cron run may hold once it is past its releases and claims. *)
LEMMA Light ==
  ASSUME PipelineInv, NEW e \in Check, e.row = 0, e.request \in Rows \cup {0},
         e.generation <= generations, e.pc \in {"idle", "dispatch"}
  PROVE  CheckOK(e)
BY DEF CheckOK, Shipped

(* A cron run that has not started, or has stopped, knows nothing. *)
LEMMA Idle ==
  ASSUME PipelineInv
  PROVE  NoCheck \in Check /\ CheckOK(NoCheck)
<1>1. NoCheck \in Check
  BY Bounds DEF NoCheck, Check, CheckSteps, Statuses
<1>2. 0 <= generations
  BY DEF PipelineInv, TypeInv, RowsType
<1> QED
  BY <1>1, <1>2, Light DEF NoCheck

(* What a cron run knows holds. *)
LEMMA Holds ==
  ASSUME PipelineInv, NEW c \in Crons
  PROVE  cron[c] \in Check /\ CheckOK(cron[c])
BY DEF PipelineInv, TypeInv, ChecksType, ChecksInv

(* A cron run that only moves on itself. *)
LEMMA CronOnly ==
  ASSUME PipelineInv, UNCHANGED <<kind, newest, request, generations, checkpoint, published>>,
         NEW c \in Crons, NEW e \in Check, CronGoes(c, e), CheckOK(e)
  PROVE  WatchStep
<1>1. RowsStep
  BY RowsSame
<1>2. CheckOK(e)'
  BY <1>1, CheckKept
<1> QED
  BY <1>1, <1>2, RowsStay, CronMoves DEF WatchStep

(* A cron run gives up and changes nothing else. *)
LEMMA CronStops ==
  ASSUME PipelineInv, UNCHANGED <<kind, newest, request, generations, checkpoint, published>>,
         NEW c \in Crons, Go(c, NoCheck)
  PROVE  WatchStep
<1>1. SUFFICES ASSUME NEW e, e = NoCheck PROVE WatchStep
  OBVIOUS
<1>2. e \in Check /\ CheckOK(e) /\ e.pc = "idle"
  BY <1>1, Idle DEF NoCheck
<1>3. CronGoes(c, e)
  BY <1>1 DEF Go, CronGoes
<1> QED
  BY <1>2, <1>3, CronOnly

(* selectTracked *)
LEMMA SelectTrackedKeeps ==
  ASSUME PipelineInv, NEW c \in Crons, SelectTracked(c)
  PROVE  WatchStep
<1>1. SUFFICES ASSUME NEW e, e = [NoCheck EXCEPT !.pc = "detect", !.row = published]
               PROVE  WatchStep
  OBVIOUS
<1>2. NoCheck \in Check /\ CheckOK(NoCheck) /\ published \in 0 .. MaxRequest /\ Shipped(published)
  BY Idle DEF PipelineInv, TypeInv, RowsType, RowsInv
<1>3. e \in Check /\ e.pc = "detect"
  BY <1>1, <1>2 DEF NoCheck, Check, CheckSteps
<1>4. e.row = published /\ e.request = 0 /\ e.generation = 0
  BY <1>1 DEF NoCheck
<1>5. 0 <= generations
  BY DEF PipelineInv, TypeInv, RowsType
<1>6. CheckOK(e)
  BY <1>2, <1>3, <1>4, <1>5 DEF CheckOK
<1>7. CronGoes(c, e)
  BY <1>1 DEF SelectTracked, Go, CronGoes
<1> QED
  BY <1>3, <1>6, <1>7, CronOnly DEF SelectTracked

(* inspectSource *)
LEMMA InspectSourceKeeps ==
  ASSUME PipelineInv, NEW c \in Crons, InspectSource(c)
  PROVE  WatchStep
<1>1. CASE Go(c, [cron[c] EXCEPT !.pc = "previous", !.release = newest])
  <2>1. SUFFICES ASSUME NEW e, e = [cron[c] EXCEPT !.pc = "previous", !.release = newest]
                 PROVE  WatchStep
    OBVIOUS
  <2>2. cron[c] \in Check /\ CheckOK(cron[c]) /\ newest \in Nat /\ newest >= 1
    BY Holds DEF PipelineInv, TypeInv, RowsType
  <2>3. /\ e \in Check /\ e.pc = "previous" /\ e.release = newest /\ e.row = cron[c].row
        /\ e.request = cron[c].request /\ e.generation = cron[c].generation
    BY <2>1, <2>2 DEF Check, CheckSteps
  <2>4. e.release \in 1 .. newest
    BY <2>2, <2>3
  <2>5. CheckOK(e)
    BY <2>2, <2>3, <2>4 DEF CheckOK
  <2>6. CronGoes(c, e)
    BY <1>1, <2>1 DEF Go, CronGoes
  <2> QED
    BY <2>3, <2>5, <2>6, CronOnly DEF InspectSource
<1>2. CASE CheckFails(c)
  BY <1>2, CronStops DEF CheckFails, InspectSource
<1> QED
  BY <1>1, <1>2 DEF InspectSource

(* readCheckpoint: a release already handled ends the run. *)
LEMMA ReadCheckpointKeeps ==
  ASSUME PipelineInv, NEW c \in Crons, ReadCheckpoint(c)
  PROVE  WatchStep
<1>1. SUFFICES ASSUME NEW r, r = checkpoint[cron[c].row],
                      NEW e, e = [cron[c] EXCEPT !.pc = "duplicate", !.previous = r]
               PROVE  WatchStep
  OBVIOUS
<1>2. cron[c] \in Check /\ CheckOK(cron[c]) /\ cron[c].pc = "previous"
  BY Holds DEF ReadCheckpoint, At
<1>3. cron[c].row \in 0 .. MaxRequest
  BY <1>2 DEF Check, CheckSteps
<1>4. r \in Nat /\ (Named => r = 0 \/ Known(r))
  BY <1>1, <1>3 DEF PipelineInv, TypeInv, RowsType, RowsInv
<1>5. /\ e \in Check /\ e.pc = "duplicate" /\ e.previous = r /\ e.row = cron[c].row
      /\ e.release = cron[c].release
      /\ e.request = cron[c].request /\ e.generation = cron[c].generation
  BY <1>1, <1>2, <1>4 DEF Check, CheckSteps
<1>6. CheckOK(e)
  BY <1>2, <1>4, <1>5 DEF CheckOK
<1>7. CronGoes(c, e)
  BY <1>1 DEF ReadCheckpoint, Go, CronGoes
<1> QED
  BY <1>5, <1>6, <1>7, CronOnly DEF ReadCheckpoint

(* A check without a new release holds one the package has. *)
LEMMA NothingNew ==
  ASSUME PipelineInv, NEW k \in Check, CheckOK(k), k.pc = "duplicate", Named, ~ ShouldCreate(k)
  PROVE  Known(k.release)
<1>1. k.previous = 0 \/ Known(k.previous)
  BY DEF CheckOK
<1>2. VersionKnown
  BY DEF VersionKnown, Named
<1>3. CASE k.previous # 0
  BY <1>1, <1>3 DEF ShouldCreate
<1>4. CASE k.previous = 0
  <2>1. k.release = ReleaseOf(k.row)
    BY <1>2, <1>4 DEF ShouldCreate
  <2>2. Shipped(k.row)
    BY DEF CheckOK
  <2> QED
    BY <2>1, <2>2 DEF Known, Shipped, ReleaseOf
<1> QED
  BY <1>3, <1>4

(* What may be started is a row. *)
LEMMA StartableIsRow ==
  ASSUME NEW S, S \subseteq Rows, NEW statuses
  PROVE  Startable(Latest(S), statuses) \in Rows \cup {0}
<1>1. S \subseteq Requests
  BY DEF Rows
<1>2. Latest(S) = 0 \/ Latest(S) \in Rows
  BY <1>1, LatestIsOne
<1> QED
  BY <1>2 DEF Startable

(* The request for this very release, if there is one. *)
LEMMA FindDuplicateKeeps ==
  ASSUME PipelineInv, NEW c \in Crons, FindDuplicate(c)
  PROVE  WatchStep
<1> DEFINE duplicate == Latest(Duplicates(cron[c].release))
           q == Startable(duplicate, {"pending", "generating", "failed"})
<1>1. cron[c] \in Check /\ CheckOK(cron[c]) /\ cron[c].pc = "duplicate"
  BY Holds DEF FindDuplicate, At
<1>2. CASE ShouldCreate(cron[c]) /\ duplicate = 0
  <2>1. SUFFICES ASSUME NEW e, e = [cron[c] EXCEPT !.pc = "active"]
                 PROVE  WatchStep
    OBVIOUS
  <2>2. /\ e \in Check /\ e.pc = "active" /\ e.release = cron[c].release /\ e.row = cron[c].row
        /\ e.request = cron[c].request /\ e.generation = cron[c].generation
    BY <1>1, <2>1 DEF Check, CheckSteps
  <2>3. CheckOK(e)
    BY <1>1, <2>2 DEF CheckOK
  <2>4. CronGoes(c, e)
    BY <1>2, <2>1 DEF FindDuplicate, Step, Go, CronGoes
  <2> QED
    BY <2>2, <2>3, <2>4, CronOnly DEF FindDuplicate
<1>3. CASE ~ (ShouldCreate(cron[c]) /\ duplicate = 0)
  <2>1. SUFFICES ASSUME NEW e, e = [cron[c] EXCEPT !.pc = "advance", !.request = q]
                 PROVE  WatchStep
    OBVIOUS
  <2>2. Duplicates(cron[c].release) \subseteq Rows /\ Rows \subseteq Requests
    BY DEF Duplicates, Rows
  <2>3. q \in Rows \cup {0}
    BY <2>2, StartableIsRow
  <2>4. q \in 0 .. MaxRequest
    <3> HIDE DEF q
    <3> QED
      BY <2>2, <2>3, Bounds
  <2>5. Named => Known(cron[c].release)
    <3>1. CASE duplicate # 0
      <4>1. duplicate \in Duplicates(cron[c].release)
        BY <2>2, <3>1, LatestIsOne
      <4> HIDE DEF duplicate
      <4> QED
        BY <4>1 DEF Duplicates, SameSource, Named, Known
    <3>2. CASE duplicate = 0
      BY <1>1, <1>3, <3>2, NothingNew
    <3> QED
      BY <3>1, <3>2
  <2> HIDE DEF q, duplicate
  <2>6. /\ e \in Check /\ e.pc = "advance" /\ e.release = cron[c].release /\ e.row = cron[c].row
        /\ e.request = q /\ e.generation = cron[c].generation
    BY <1>1, <2>1, <2>4 DEF Check, CheckSteps
  <2>7. CheckOK(e)
    BY <1>1, <2>3, <2>5, <2>6 DEF CheckOK
  <2>8. CronGoes(c, e)
    BY <1>3, <2>1 DEF FindDuplicate, Go, CronGoes, q, duplicate
  <2> QED
    BY <2>6, <2>7, <2>8, CronOnly DEF FindDuplicate
<1> QED
  BY <1>2, <1>3

(* The open request of the package, if there is one. *)
LEMMA FindActiveKeeps ==
  ASSUME PipelineInv, NEW c \in Crons, FindActive(c)
  PROVE  WatchStep
<1> DEFINE active == Latest(Actives)
           q == Startable(active, {"pending", "generating"})
<1>1. cron[c] \in Check /\ CheckOK(cron[c]) /\ cron[c].pc = "active"
  BY Holds DEF FindActive, At
<1>2. CASE active = 0
  <2>1. SUFFICES ASSUME NEW e, e = [cron[c] EXCEPT !.pc = "create"]
                 PROVE  WatchStep
    OBVIOUS
  <2>2. /\ e \in Check /\ e.pc = "create" /\ e.release = cron[c].release /\ e.row = cron[c].row
        /\ e.request = cron[c].request /\ e.generation = cron[c].generation
    BY <1>1, <2>1 DEF Check, CheckSteps
  <2>3. CheckOK(e)
    BY <1>1, <2>2 DEF CheckOK
  <2>4. CronGoes(c, e)
    BY <1>2, <2>1 DEF FindActive, Go, CronGoes
  <2> QED
    BY <2>2, <2>3, <2>4, CronOnly DEF FindActive
<1>3. CASE active # 0
  <2>1. SUFFICES ASSUME NEW e, e = [NoCheck EXCEPT !.pc = "dispatch", !.request = q]
                 PROVE  WatchStep
    OBVIOUS
  <2>2. Actives \subseteq Rows /\ Rows \subseteq Requests
    BY DEF Actives, Rows
  <2>3. q \in Rows \cup {0}
    BY <2>2, StartableIsRow
  <2>4. q \in 0 .. MaxRequest /\ NoCheck \in Check /\ 0 <= generations
    <3> HIDE DEF q
    <3>1. generations \in Nat
      BY DEF PipelineInv, TypeInv, RowsType
    <3> QED
      BY <2>2, <2>3, <3>1, Bounds, Idle
  <2> HIDE DEF q, active
  <2>5. e \in Check /\ e.pc = "dispatch" /\ e.row = 0 /\ e.request = q /\ e.generation = 0
    BY <2>1, <2>4 DEF Check, CheckSteps, NoCheck
  <2>6. CheckOK(e)
    BY <2>3, <2>4, <2>5, Light
  <2>7. CronGoes(c, e)
    BY <1>3, <2>1 DEF FindActive, Go, CronGoes, q, active
  <2> QED
    BY <2>5, <2>6, <2>7, CronOnly DEF FindActive
<1> QED
  BY <1>2, <1>3

(* A row changes its status only, and does not wait for a generation. *)
LEMMA StatusSet ==
  ASSUME PipelineInv, UNCHANGED <<kind, newest, generations>>,
         NEW q \in Rows, NEW s \in Statuses, s # "none", SetStatus(q, s),
         s # "pending",
         Named /\ s \in {"queued", "building", "built"} =>
           request[q].revision.release = request[q].release
  PROVE  RowsStep
<1>1. SUFFICES ASSUME NEW row, row = [request[q] EXCEPT !.status = s] PROVE RowsStep
  OBVIOUS
<1>2. request \in [Requests -> Row] /\ q \in Requests /\ generations \in Nat
  BY DEF PipelineInv, TypeInv, RowsType, Rows
<1>3. request[q] \in Row
  BY <1>2
<1>4. /\ row \in Row /\ row.status = s /\ row.release = request[q].release
      /\ row.generation = request[q].generation /\ row.autos = request[q].autos
      /\ row.resumes = request[q].resumes /\ row.revision = request[q].revision
  BY <1>1, <1>3 DEF Row
<1>5. RowBecomes(q, row)
  BY <1>1, <1>2 DEF SetStatus, RowBecomes
<1>6. generations' \in Nat /\ generations' >= generations
  BY <1>2
<1>7. Budgeted(row)
  BY <1>2, <1>4 DEF PipelineInv, RowsInv, RowOK, Budgeted
<1> QED
  BY <1>4, <1>5, <1>6, <1>7, RowChanged

(* The checkpoint moves to a release that is known. *)
LEMMA AdvanceCheckpointKeeps ==
  ASSUME PipelineInv, NEW c \in Crons, AdvanceCheckpoint(c)
  PROVE  WatchStep
<1>1. SUFFICES ASSUME NEW k, k = cron[c],
                      NEW e, e = [NoCheck EXCEPT !.pc = "dispatch", !.request = k.request]
               PROVE  WatchStep
  OBVIOUS
<1>2. k \in Check /\ CheckOK(k) /\ k.pc = "advance" /\ NoCheck \in Check
  BY <1>1, Holds, Idle DEF AdvanceCheckpoint, At
<1>3. k.row \in 0 .. MaxRequest /\ k.release \in Nat /\ k.request \in 0 .. MaxRequest
      /\ k.request \in Rows \cup {0}
  BY <1>2 DEF Check, CheckOK
<1>4. e \in Check /\ e.pc = "dispatch" /\ e.row = 0 /\ e.request = k.request /\ e.generation = 0
  BY <1>1, <1>2, <1>3 DEF Check, CheckSteps, NoCheck
<1>5. RowsStep
  BY RowsSame DEF AdvanceCheckpoint
<1>6. 0 <= generations
  BY DEF PipelineInv, TypeInv, RowsType
<1>7. CheckOK(e)
  BY <1>3, <1>4, <1>6, Light
<1>8. CheckOK(e)'
  BY <1>4, <1>5, <1>7, CheckKept
<1>9. CronGoes(c, e)
  BY <1>1 DEF AdvanceCheckpoint, Dispatch, Go, CronGoes
<1>10. ChecksType' /\ ChecksInv'
  BY <1>4, <1>5, <1>8, <1>9, CronMoves
<1>11. /\ checkpoint \in [0 .. MaxRequest -> Nat]
       /\ checkpoint' = [checkpoint EXCEPT ![k.row] = k.release]
  BY <1>1 DEF PipelineInv, TypeInv, RowsType, AdvanceCheckpoint
<1>12. RowsType'
  BY <1>3, <1>5, <1>11 DEF PipelineInv, TypeInv, RowsType, RowsStep, AdvanceCheckpoint
<1>13. Shipped(published)'
  <2>1. Shipped(published) /\ published' = published
    BY DEF PipelineInv, RowsInv, AdvanceCheckpoint
  <2> QED
    BY <1>5, <2>1, StepOfRows
<1>14. ASSUME Named', NEW row \in 0 .. MaxRequest
       PROVE  checkpoint'[row] = 0 \/ Known(checkpoint[row])'
  <2>1. SUFFICES ASSUME NEW r, r = checkpoint'[row] PROVE r = 0 \/ Known(r)'
    BY DEF Known
  <2>2. Named
    BY <1>5, <1>14, StepOfRows
  <2>3. r = 0 \/ Known(r)
    <3>1. CASE row = k.row
      BY <1>2, <1>3, <1>11, <2>1, <2>2, <3>1 DEF CheckOK
    <3>2. CASE row # k.row
      BY <1>11, <2>1, <2>2, <3>2 DEF PipelineInv, RowsInv
    <3> QED
      BY <3>1, <3>2
  <2> QED
    BY <1>5, <2>3, StepOfRows
<1>15. RowsInv'
  BY <1>5, <1>13, <1>14 DEF RowsInv, RowsStep
<1> QED
  BY <1>5, <1>10, <1>12, <1>15 DEF WatchStep

(* A request is inserted for a release no row has. *)
LEMMA CreateRequestKeeps ==
  ASSUME PipelineInv, NEW c \in Crons, CreateRequest(c)
  PROVE  WatchStep
<1>1. CASE CheckFails(c) /\ UNCHANGED <<request, checkpoint>>
  BY <1>1, CronStops DEF CheckFails, CreateRequest
<1>2. CASE /\ Insert("system", cron[c].release)
           /\ checkpoint' = [checkpoint EXCEPT ![cron[c].row] = cron[c].release]
           /\ Dispatch(c, NewRequest)
  <2>1. SUFFICES ASSUME NEW k, k = cron[c], NEW n, n = NewRequest,
                        NEW e, e = [NoCheck EXCEPT !.pc = "dispatch", !.request = n]
                 PROVE  WatchStep
    OBVIOUS
  <2>2. k \in Check /\ CheckOK(k) /\ k.pc = "create" /\ NoCheck \in Check
    BY <2>1, Holds, Idle DEF CreateRequest, At
  <2>3. k.row \in 0 .. MaxRequest /\ k.release \in Nat /\ k.release \in 1 .. newest
    BY <2>2 DEF Check, CheckOK
  <2>4. n \in Requests /\ n \in 0 .. MaxRequest
    BY <1>2, <2>1, Bounds DEF Insert
  <2>5. e \in Check /\ e.pc = "dispatch" /\ e.row = 0 /\ e.request = n /\ e.generation = 0
    BY <2>1, <2>2, <2>4 DEF Check, CheckSteps, NoCheck
  <2>6. Insert("system", k.release) /\ UNCHANGED <<kind, newest, generations>>
    BY <1>2, <2>1 DEF CreateRequest
  <2>7. RowsStep /\ n \in Rows' /\ request'[n].release = k.release
    BY <2>1, <2>3, <2>6, RowInserted
  <2>8. generations' \in Nat
    BY <2>7 DEF RowsStep
  <2>9. CheckOK(e)'
    BY <2>5, <2>7, <2>8 DEF CheckOK, Shipped
  <2>10. CronGoes(c, e)
    BY <1>2, <2>1 DEF Dispatch, Go, CronGoes
  <2>11. ChecksType' /\ ChecksInv'
    BY <2>5, <2>7, <2>9, <2>10, CronMoves
  <2>12. /\ checkpoint \in [0 .. MaxRequest -> Nat]
         /\ checkpoint' = [checkpoint EXCEPT ![k.row] = k.release]
         /\ published' = published
    BY <1>2, <2>1 DEF PipelineInv, TypeInv, RowsType, CreateRequest
  <2>13. RowsType'
    BY <2>3, <2>7, <2>12 DEF PipelineInv, TypeInv, RowsType, RowsStep
  <2>14. Shipped(published)'
    <3>1. Shipped(published)
      BY DEF PipelineInv, RowsInv
    <3> QED
      BY <2>7, <2>12, <3>1, StepOfRows
  <2>15. ASSUME Named', NEW row \in 0 .. MaxRequest
         PROVE  checkpoint'[row] = 0 \/ Known(checkpoint[row])'
    <3>1. SUFFICES ASSUME NEW r, r = checkpoint'[row] PROVE r = 0 \/ Known(r)'
      BY DEF Known
    <3>2. CASE row = k.row
      <4>1. r = k.release
        BY <2>3, <2>12, <3>1, <3>2
      <4> QED
        BY <2>7, <4>1 DEF Known
    <3>3. CASE row # k.row
      <4>1. Named /\ r = checkpoint[row]
        BY <2>7, <2>12, <2>15, <3>1, <3>3, StepOfRows
      <4>2. r = 0 \/ Known(r)
        BY <4>1 DEF PipelineInv, RowsInv
      <4> QED
        BY <2>7, <4>2, StepOfRows
    <3> QED
      BY <3>2, <3>3
  <2>16. RowsInv'
    BY <2>7, <2>14, <2>15 DEF RowsInv, RowsStep
  <2> QED
    BY <2>7, <2>11, <2>13, <2>16 DEF WatchStep
<1> QED
  BY <1>1, <1>2 DEF CreateRequest

(* The row that is to be dispatched is read again. *)
LEMMA ReadRequestKeeps ==
  ASSUME PipelineInv, NEW c \in Crons, ReadRequest(c)
  PROVE  WatchStep
<1>1. SUFFICES ASSUME NEW k, k = cron[c], NEW q, q = k.request,
                      NEW row, row = IF q = 0 THEN NoRequest ELSE request[q]
               PROVE  WatchStep
  OBVIOUS
<1>2. k \in Check /\ CheckOK(k) /\ k.pc = "dispatch" /\ NoCheck \in Check
  BY <1>1, Holds, Idle DEF ReadRequest, At
<1>3. q \in 0 .. MaxRequest /\ q \in Rows \cup {0}
  BY <1>1, <1>2 DEF Check, CheckOK
<1>4. row.status # "none" => q \in Rows
  BY <1>1, <1>3 DEF NoRequest
<1>5. q \in Rows => /\ row = request[q] /\ row \in Row
                    /\ row.generation \in Nat /\ row.generation <= generations
                    /\ row.status \in Statuses
  <2>1. ASSUME q \in Rows
        PROVE  /\ row = request[q] /\ row \in Row
               /\ row.generation <= generations
    <3>1. q \in Requests /\ q # 0
      BY <2>1, Bounds DEF Rows
    <3>2. row = request[q] /\ row \in Row
      BY <1>1, <3>1 DEF PipelineInv, TypeInv, RowsType
    <3> QED
      BY <3>1, <3>2 DEF PipelineInv, RowsInv, RowOK
  <2> QED
    BY <2>1 DEF Row
<1>6. Go(c, CASE row.owner = "system" /\ row.status \in {"pending", "failed"} \ k.lost ->
                   [k EXCEPT !.pc = "count", !.seen = row.status, !.generation = row.generation]
              [] row.owner = "system" /\ row.status = "generating" ->
                   [NoCheck EXCEPT !.pc = "create instance", !.request = q,
                                   !.generation = row.generation]
              [] OTHER -> NoCheck)
  BY <1>1 DEF ReadRequest
<1>7. UNCHANGED <<kind, newest, request, generations, checkpoint, published>>
  BY DEF ReadRequest
<1>8. CASE row.owner = "system" /\ row.status \in {"pending", "failed"} \ k.lost
  <2>1. SUFFICES ASSUME NEW e, e = [k EXCEPT !.pc = "count", !.seen = row.status,
                                             !.generation = row.generation]
                 PROVE  WatchStep
    OBVIOUS
  <2>2. q \in Rows /\ row.status \in {"pending", "failed"}
    BY <1>4, <1>8
  <2>3. /\ e \in Check /\ e.pc = "count" /\ e.seen \in {"pending", "failed"} /\ e.row = k.row
        /\ e.request = q /\ e.generation = row.generation
    BY <1>1, <1>2, <1>5, <2>1, <2>2 DEF Check, CheckSteps
  <2>4. CheckOK(e)
    BY <1>2, <1>5, <2>2, <2>3 DEF CheckOK
  <2>5. CronGoes(c, e)
    BY <1>6, <1>8, <2>1 DEF Go, CronGoes
  <2> QED
    BY <1>7, <2>3, <2>4, <2>5, CronOnly
<1>9. CASE row.owner = "system" /\ row.status = "generating"
  <2>1. SUFFICES ASSUME NEW e, e = [NoCheck EXCEPT !.pc = "create instance", !.request = q,
                                                   !.generation = row.generation]
                 PROVE  WatchStep
    OBVIOUS
  <2>2. q \in Rows
    BY <1>4, <1>9
  <2>3. /\ e \in Check /\ e.pc = "create instance" /\ e.row = 0
        /\ e.request = q /\ e.generation = row.generation
    BY <1>2, <1>3, <1>5, <2>1, <2>2 DEF Check, CheckSteps, NoCheck
  <2>4. CheckOK(e)
    BY <1>5, <2>2, <2>3 DEF CheckOK, Shipped
  <2>5. CronGoes(c, e)
    BY <1>6, <1>9, <2>1 DEF Go, CronGoes
  <2> QED
    BY <1>7, <2>3, <2>4, <2>5, CronOnly
<1>10. CASE /\ ~ (row.owner = "system" /\ row.status \in {"pending", "failed"} \ k.lost)
            /\ ~ (row.owner = "system" /\ row.status = "generating")
  <2>1. Go(c, NoCheck)
    BY <1>6, <1>10
  <2> QED
    BY <1>7, <2>1, CronStops
<1> QED
  BY <1>8, <1>9, <1>10

(* The automatic generations are counted before one is claimed. *)
LEMMA CountGenerationsKeeps ==
  ASSUME PipelineInv, NEW c \in Crons, CountGenerations(c)
  PROVE  WatchStep
<1>1. CASE AutomaticGenerationAvailable(cron[c].request)
  <2>1. SUFFICES ASSUME NEW k, k = cron[c], NEW e, e = [k EXCEPT !.pc = "claim"]
                 PROVE  WatchStep
    OBVIOUS
  <2>2. k \in Check /\ CheckOK(k) /\ k.pc = "count"
    BY <2>1, Holds DEF CountGenerations, At
  <2>3. /\ e \in Check /\ e.pc = "claim" /\ e.row = k.row /\ e.seen = k.seen
        /\ e.request = k.request /\ e.generation = k.generation
    BY <2>1, <2>2 DEF Check, CheckSteps
  <2>4. 0 < MAX_AUTOMATIC_GENERATIONS
    <3>1. request[k.request] \in Row
      BY <2>2 DEF CheckOK, Rows, PipelineInv, TypeInv, RowsType
    <3>2. request[k.request].autos \in Nat
      BY <3>1 DEF Row
    <3> QED
      BY <1>1, <2>1, <3>2, Bounds DEF AutomaticGenerationAvailable
  <2>5. CheckOK(e)
    BY <1>1, <2>1, <2>2, <2>3, <2>4 DEF CheckOK
  <2>6. CronGoes(c, e)
    BY <1>1, <2>1 DEF CountGenerations, Step, Go, CronGoes
  <2> QED
    BY <2>3, <2>5, <2>6, CronOnly DEF CountGenerations
<1>2. CASE ~ AutomaticGenerationAvailable(cron[c].request)
  BY <1>2, CronStops DEF CountGenerations
<1> QED
  BY <1>1, <1>2

(* A row is given a new generation. *)
LEMMA Regenerated ==
  ASSUME PipelineInv, UNCHANGED <<kind, newest>>, NEW q \in Rows,
         generations' = generations + 1,
         NEW row \in Row, RowBecomes(q, row),
         row.status = "generating", row.release = request[q].release,
         row.generation = generations + 1, row.revision = request[q].revision,
         row.autos <= MAX_AUTOMATIC_GENERATIONS + row.resumes
  PROVE  RowsStep
<1>1. generations \in Nat
  BY DEF PipelineInv, TypeInv, RowsType
<1>2. generations' \in Nat /\ generations' >= generations
      /\ row.generation > generations /\ row.generation <= generations'
  BY <1>1
<1>3. Budgeted(row)
  BY DEF Budgeted
<1> QED
  BY <1>2, <1>3, RowChanged

(* The claim writes over the failed generation it counted for, or over a      *)
(* pending row, which has a generation left whenever it was counted.          *)
LEMMA ClaimGenerationKeeps ==
  ASSUME PipelineInv, NEW c \in Crons, ClaimGeneration(c)
  PROVE  WatchStep
<1>1. SUFFICES ASSUME NEW k, k = cron[c], NEW q, q = k.request, NEW g, g = generations + 1
               PROVE  WatchStep
  OBVIOUS
<1>2. k \in Check /\ CheckOK(k) /\ k.pc = "claim" /\ NoCheck \in Check
  BY <1>1, Holds, Idle DEF ClaimGeneration, At
<1>3. q \in 0 .. MaxRequest /\ q \in Rows /\ q \in Requests
  BY <1>1, <1>2 DEF Check, CheckOK, Rows
<1>4. UNCHANGED <<kind, newest, checkpoint, published>>
  BY DEF ClaimGeneration
<1>5. generations \in Nat /\ request[q] \in Row
  BY <1>3 DEF PipelineInv, TypeInv, RowsType
<1>6. CASE ~ Unclaimed(c)
  <2>1. SUFFICES ASSUME NEW lost, lost = IF k.seen = "pending" THEN {"pending"}
                                         ELSE {"pending", "failed"},
                        NEW e, e = [NoCheck EXCEPT !.pc = "dispatch", !.request = q, !.lost = lost]
                 PROVE  WatchStep
    OBVIOUS
  <2>2. lost \in SUBSET {"pending", "failed"}
    BY <2>1
  <2>3. e \in Check /\ e.pc = "dispatch" /\ e.row = 0 /\ e.request = q /\ e.generation = 0
    BY <1>2, <1>3, <2>1, <2>2 DEF Check, CheckSteps, NoCheck
  <2>4. 0 <= generations
    BY <1>5
  <2>5. CheckOK(e)
    BY <1>3, <2>3, <2>4, Light
  <2>6. CronGoes(c, e) /\ UNCHANGED <<request, generations>>
    BY <1>1, <1>6, <2>1 DEF ClaimGeneration, Go, CronGoes
  <2> QED
    BY <1>4, <2>3, <2>5, <2>6, CronOnly
<1>7. CASE Unclaimed(c) /\ Unfinished \subseteq {q}
  <2>1. SUFFICES ASSUME NEW row, row = [request[q] EXCEPT !.status = "generating",
                                          !.generation = g, !.autos = @ + 1],
                        NEW e, e = [NoCheck EXCEPT !.pc = "create instance", !.request = q,
                                                   !.generation = g]
                 PROVE  WatchStep
    OBVIOUS
  <2>2. /\ generations' = g
        /\ request' = [request EXCEPT ![q].status = "generating", ![q].generation = g,
                                      ![q].autos = @ + 1]
        /\ CronGoes(c, e)
    BY <1>1, <1>7, <2>1 DEF ClaimGeneration, Go, CronGoes
  <2>3. request \in [Requests -> Row] /\ g \in Nat
    BY <1>1, <1>5 DEF PipelineInv, TypeInv, RowsType
  <2>4. RowBecomes(q, row)
    BY <1>3, <2>1, <2>2, <2>3 DEF RowBecomes
  <2>5. /\ row \in Row /\ row.status = "generating" /\ row.release = request[q].release
        /\ row.generation = g /\ row.revision = request[q].revision
        /\ row.autos = request[q].autos + 1 /\ row.resumes = request[q].resumes
    <3>1. "generating" \in Statuses
      BY DEF Statuses
    <3>2. request[q].autos \in Nat /\ request[q].autos + 1 \in Nat
      BY <1>5 DEF Row
    <3>3. row \in Row
      BY <1>5, <2>1, <2>3, <3>1, <3>2 DEF Row
    <3> QED
      BY <1>5, <2>1, <3>1, <3>3 DEF Row
  <2>6. request[q].autos \in Nat /\ request[q].resumes \in Nat
    BY <1>5 DEF Row
  <2>7. row.autos <= MAX_AUTOMATIC_GENERATIONS + row.resumes
    <3>1. request[q].status = k.seen /\ k.seen \in {"pending", "failed"}
          /\ (k.seen = "failed" => request[q].generation = k.generation)
      BY <1>1, <1>2, <1>7 DEF Unclaimed, CheckOK
    <3>2. CASE k.seen = "failed"
      <4>1. request[q].autos < MAX_AUTOMATIC_GENERATIONS
        BY <1>1, <1>2, <3>1, <3>2 DEF CheckOK, AutomaticGenerationAvailable
      <4> QED
        BY <2>5, <2>6, <4>1, Bounds
    <3>3. CASE k.seen = "pending"
      <4>1. Budgeted(request[q])
        BY <1>3 DEF PipelineInv, RowsInv, RowOK
      <4>2. 0 < MAX_AUTOMATIC_GENERATIONS
        BY <1>2 DEF CheckOK
      <4> QED
        BY <2>5, <2>6, <3>1, <3>3, <4>1, <4>2, Bounds DEF Budgeted
    <3> QED
      BY <3>1, <3>2, <3>3
  <2>8. RowsStep
    BY <1>1, <1>3, <1>4, <2>2, <2>4, <2>5, <2>7, Regenerated
  <2>9. /\ e \in Check /\ e.pc = "create instance" /\ e.row = 0
        /\ e.request = q /\ e.generation = g
    BY <1>2, <1>3, <2>1, <2>3 DEF Check, CheckSteps, NoCheck
  <2>10. q \in Rows' /\ g <= generations'
    BY <1>3, <2>2, <2>3, <2>8 DEF RowsStep
  <2>11. CheckOK(e)'
    BY <2>9, <2>10 DEF CheckOK, Shipped
  <2> QED
    BY <1>4, <2>2, <2>8, <2>9, <2>11, CronMoves, RowsStay DEF WatchStep
<1>8. CASE Unclaimed(c) /\ ~ (Unfinished \subseteq {q})
  <2>1. Go(c, NoCheck) /\ UNCHANGED <<request, generations>>
    BY <1>1, <1>8 DEF ClaimGeneration, CheckFails
  <2> QED
    BY <1>4, <2>1, CronStops
<1> QED
  BY <1>6, <1>7, <1>8

(* A run in these steps goes to another of them. *)
LEMMA DispatchSteps ==
  ASSUME PipelineInv, UNCHANGED <<kind, newest, request, generations, checkpoint, published>>,
         NEW c \in Crons, NEW pc \in {"confirm", "dispatch failed"}, Step(c, pc),
         cron[c].pc \in {"create instance", "confirm"}
  PROVE  WatchStep
<1>1. SUFFICES ASSUME NEW k, k = cron[c], NEW e, e = [k EXCEPT !.pc = pc]
               PROVE  WatchStep
  OBVIOUS
<1>2. k \in Check /\ CheckOK(k) /\ k.pc \in {"create instance", "confirm"}
  BY <1>1, Holds
<1>3. /\ e \in Check /\ e.pc = pc /\ e.row = k.row /\ e.request = k.request
      /\ e.generation = k.generation
  BY <1>1, <1>2 DEF Check, CheckSteps
<1>4. CheckOK(e)
  BY <1>2, <1>3 DEF CheckOK
<1>5. CronGoes(c, e)
  BY <1>1 DEF Step, Go, CronGoes
<1> QED
  BY <1>3, <1>4, <1>5, CronOnly

(* The instance is created under the name of the generation. *)
LEMMA CreateInstanceKeeps ==
  ASSUME PipelineInv, NEW c \in Crons, CreateInstance(c)
  PROVE  WatchStep
<1>1. UNCHANGED <<kind, newest, request, generations, checkpoint, published>>
      /\ cron[c].pc = "create instance"
  BY DEF CreateInstance, At
<1>2. Go(c, NoCheck) \/ Step(c, "confirm")
  BY DEF CreateInstance
<1> QED
  BY <1>1, <1>2, CronStops, DispatchSteps

(* A failed creation is checked against the instance there may be. *)
LEMMA ConfirmInstanceKeeps ==
  ASSUME PipelineInv, NEW c \in Crons, ConfirmInstance(c)
  PROVE  WatchStep
<1>1. UNCHANGED <<kind, newest, request, generations, checkpoint, published>>
      /\ cron[c].pc = "confirm"
  BY DEF ConfirmInstance, At
<1>2. Go(c, NoCheck) \/ Step(c, "dispatch failed")
  BY DEF ConfirmInstance
<1> QED
  BY <1>1, <1>2, CronStops, DispatchSteps

(* A dispatch that failed marks the generation it claimed, and no other. *)
LEMMA RecordDispatchFailureKeeps ==
  ASSUME PipelineInv, NEW c \in Crons, RecordDispatchFailure(c)
  PROVE  WatchStep
<1>1. SUFFICES ASSUME NEW q, q = cron[c].request PROVE WatchStep
  OBVIOUS
<1>2. CheckOK(cron[c]) /\ cron[c].pc = "dispatch failed"
  BY Holds DEF RecordDispatchFailure, At
<1>3. q \in Rows
  BY <1>1, <1>2 DEF CheckOK
<1>4. UNCHANGED <<kind, newest, generations, checkpoint, published>> /\ Go(c, NoCheck)
  BY DEF RecordDispatchFailure, CheckFails
<1>5. CASE UNCHANGED request
  BY <1>4, <1>5, CronStops
<1>6. CASE SetStatus(q, "failed")
  <2>1. "failed" \in Statuses
    BY DEF Statuses
  <2>2. RowsStep
    BY <1>3, <1>4, <1>6, <2>1, StatusSet
  <2>3. SUFFICES ASSUME NEW e, e = NoCheck PROVE WatchStep
    OBVIOUS
  <2>4. e \in Check /\ CheckOK(e) /\ e.pc # "claim"
    BY <2>3, Idle DEF NoCheck
  <2>5. CronGoes(c, e)
    BY <1>4, <2>3 DEF Go, CronGoes
  <2>6. CheckOK(e)'
    BY <2>2, <2>4, CheckKept
  <2> QED
    BY <1>4, <2>2, <2>4, <2>5, <2>6, CronMoves, RowsStay DEF WatchStep
<1> QED
  BY <1>1, <1>5, <1>6 DEF RecordDispatchFailure

(* A cron run is lost. *)
LEMMA CronDiesKeeps ==
  ASSUME PipelineInv, NEW c \in Crons, CronDies(c)
  PROVE  WatchStep
BY CronStops DEF CronDies

(* An instance is made only for a generation that has none. *)
LEMMA Created ==
  ASSUME PipelineInv, RowsStep, NEW g \in Generations, NEW q \in Rows, Create(g, q), pulls' = pulls
  PROVE  InstancesType' /\ InstancesInv'
<1>1. SUFFICES ASSUME NEW e, e = [NoInstance EXCEPT !.request = q, !.status = "running"]
               PROVE  InstancesType' /\ InstancesInv'
  OBVIOUS
<1>2. q \in 0 .. MaxRequest /\ 0 \in 0 .. MaxRequest
  BY Bounds DEF Rows
<1>3. e \in Instance /\ e.pc = "begin" /\ e.request = q
  BY <1>1, <1>2 DEF NoInstance, Instance, FactorySteps
<1>4. InstanceGoes(g, e)
  BY <1>1 DEF Create, InstanceGoes
<1> QED
  BY <1>3, <1>4, InstanceMovesOnly

(* A created instance belongs to a row. *)
LEMMA CreateInstanceInstances ==
  ASSUME PipelineInv, NEW c \in Crons, RowsStep, CreateInstance(c), pulls' = pulls
  PROVE  InstancesType' /\ InstancesInv'
<1>1. SUFFICES ASSUME NEW g, g = cron[c].generation, NEW q, q = cron[c].request
               PROVE  InstancesType' /\ InstancesInv'
  OBVIOUS
<1>2. instance' = instance \/ Create(g, q)
  BY <1>1 DEF CreateInstance
<1>3. CASE instance' = instance
  BY <1>3, InstancesStay
<1>4. CASE Create(g, q)
  <2>1. cron[c].pc = "create instance"
    BY DEF CreateInstance, At
  <2>2. q \in Rows
    BY <1>1, <2>1, Holds DEF CheckOK
  <2>3. CASE g \in Generations
    BY <1>4, <2>2, <2>3, Created
  <2>4. CASE g \notin Generations
    <3>1. instance' = instance
      BY <1>4, <2>4 DEF Create, PipelineInv, TypeInv, InstancesType
    <3> QED
      BY <3>1, InstancesStay
  <2> QED
    BY <2>3, <2>4
<1> QED
  BY <1>2, <1>3, <1>4

(* A step of a cron run. *)
LEMMA WatchKeeps ==
  ASSUME PipelineInv, NEW c \in Crons, Watch(c) \/ CronDies(c), pulls' = pulls
  PROVE  WatchStep /\ InstancesType' /\ InstancesInv'
<1>1. CASE SelectTracked(c)
  BY <1>1, SelectTrackedKeeps, InstancesStay DEF WatchStep, SelectTracked
<1>2. CASE InspectSource(c)
  BY <1>2, InspectSourceKeeps, InstancesStay DEF WatchStep, InspectSource
<1>3. CASE ReadCheckpoint(c)
  BY <1>3, ReadCheckpointKeeps, InstancesStay DEF WatchStep, ReadCheckpoint
<1>4. CASE FindDuplicate(c)
  BY <1>4, FindDuplicateKeeps, InstancesStay DEF WatchStep, FindDuplicate
<1>5. CASE FindActive(c)
  BY <1>5, FindActiveKeeps, InstancesStay DEF WatchStep, FindActive
<1>6. CASE AdvanceCheckpoint(c)
  BY <1>6, AdvanceCheckpointKeeps, InstancesStay DEF WatchStep, AdvanceCheckpoint
<1>7. CASE CreateRequest(c)
  BY <1>7, CreateRequestKeeps, InstancesStay DEF WatchStep, CreateRequest
<1>8. CASE ReadRequest(c)
  BY <1>8, ReadRequestKeeps, InstancesStay DEF WatchStep, ReadRequest
<1>9. CASE CountGenerations(c)
  BY <1>9, CountGenerationsKeeps, InstancesStay DEF WatchStep, CountGenerations
<1>10. CASE ClaimGeneration(c)
  BY <1>10, ClaimGenerationKeeps, InstancesStay DEF WatchStep, ClaimGeneration
<1>11. CASE CreateInstance(c)
  BY <1>11, CreateInstanceKeeps, CreateInstanceInstances DEF WatchStep
<1>12. CASE ConfirmInstance(c)
  BY <1>12, ConfirmInstanceKeeps, InstancesStay DEF WatchStep, ConfirmInstance
<1>13. CASE RecordDispatchFailure(c)
  BY <1>13, RecordDispatchFailureKeeps, InstancesStay DEF WatchStep, RecordDispatchFailure
<1>14. CASE CronDies(c)
  BY <1>14, CronDiesKeeps, InstancesStay DEF WatchStep, CronDies
<1> QED
  BY <1>1, <1>2, <1>3, <1>4, <1>5, <1>6, <1>7, <1>8, <1>9, <1>10, <1>11, <1>12, <1>13, <1>14
     DEF Watch, CheckUpstream, DispatchUpstreamFactory

-----------------------------------------------------------------------------
(***************************************************************************)
(* Factory workflows.                                                      *)
(***************************************************************************)
FactoryStep == WatchStep /\ InstancesType' /\ InstancesInv'

(* A workflow that touches neither rows nor cron runs. *)
LEMMA Quiet ==
  ASSUME PipelineInv,
         UNCHANGED <<kind, newest, request, generations, checkpoint, published, cron>>
  PROVE  WatchStep
BY RowsSame, RowsStay, CronsStay DEF WatchStep

(* A workflow that touches the rows, by a step of the rows. *)
LEMMA RowsOnly ==
  ASSUME PipelineInv, RowsStep, UNCHANGED <<checkpoint, published, cron>>
  PROVE  WatchStep
BY RowsStay, CronsStay DEF WatchStep

(* A running instance has a row and, from persist on, an open pull request. *)
LEMMA InstanceRow ==
  ASSUME PipelineInv, NEW g \in Generations, instance[g].status = "running"
  PROVE  /\ instance[g] \in Instance /\ pulls[g] \in Pulls
         /\ instance[g].request \in Rows /\ instance[g].request \in Requests
         /\ request[instance[g].request] \in Row
         /\ instance[g].pc \in {"persist", "review"} => pulls[g] = "open"
BY DEF PipelineInv, TypeInv, InstancesType, InstancesInv, InstanceOK, Rows, RowsType

(* A workflow goes to its next step, with its pull request. *)
LEMMA Going ==
  ASSUME PipelineInv, RowsStep, NEW g \in Generations, instance[g].status = "running",
         NEW pc \in FactorySteps, To(g, pc), NEW p \in Pulls, pulls' = [pulls EXCEPT ![g] = p],
         pc \in {"persist", "review"} => p = "open"
  PROVE  InstancesType' /\ InstancesInv'
<1>1. SUFFICES ASSUME NEW e, e = [instance[g] EXCEPT !.pc = pc]
               PROVE  InstancesType' /\ InstancesInv'
  OBVIOUS
<1>2. instance \in [Generations -> Instance]
  BY DEF PipelineInv, TypeInv, InstancesType
<1>3. e \in Instance /\ e.pc = pc /\ e.status = "running" /\ e.request = instance[g].request
  BY <1>1, <1>2 DEF Instance
<1>4. InstanceGoes(g, e)
  BY <1>1, <1>2 DEF To, InstanceGoes
<1> QED
  BY <1>3, <1>4, InstanceRow, InstanceMoves

(* The same with pull requests left alone. *)
LEMMA GoingOn ==
  ASSUME PipelineInv, RowsStep, NEW g \in Generations, instance[g].status = "running",
         NEW pc \in FactorySteps, To(g, pc), pulls' = pulls,
         pc \in {"persist", "review"} => pulls[g] = "open"
  PROVE  InstancesType' /\ InstancesInv'
<1>1. SUFFICES ASSUME NEW p, p = pulls[g] PROVE InstancesType' /\ InstancesInv'
  OBVIOUS
<1>2. p \in Pulls /\ pulls' = [pulls EXCEPT ![g] = p]
  BY <1>1 DEF PipelineInv, TypeInv, InstancesType
<1> QED
  BY <1>1, <1>2, Going

(* A step throws: it is retried, or the workflow turns to its failure. *)
LEMMA Throwing ==
  ASSUME PipelineInv, RowsStep, NEW g \in Generations, instance[g].status = "running",
         Throw(g), NEW p \in Pulls, pulls' = [pulls EXCEPT ![g] = p]
  PROVE  InstancesType' /\ InstancesInv'
<1>1. SUFFICES ASSUME NEW i, i = instance[g],
                      NEW pc, pc = IF i.pc # "stop" /\ i.retries < MaxRetries THEN "begin" ELSE "stop",
                      NEW n, n = IF i.retries < MaxRetries THEN i.retries + 1 ELSE i.retries,
                      NEW e, e = [i EXCEPT !.pc = pc, !.retries = n]
               PROVE  InstancesType' /\ InstancesInv'
  OBVIOUS
<1>2. instance \in [Generations -> Instance] /\ i \in Instance /\ i.status = "running"
  BY <1>1 DEF PipelineInv, TypeInv, InstancesType
<1>3. pc \in {"begin", "stop"} /\ n \in Nat
  BY <1>1, <1>2 DEF Instance
<1>4. e \in Instance /\ e.pc = pc /\ e.status = "running" /\ e.request = i.request
  BY <1>1, <1>2, <1>3 DEF Instance, FactorySteps
<1>5. InstanceGoes(g, e)
  BY <1>1, <1>2 DEF Throw, InstanceGoes
<1> QED
  <2>1. e.request \in Rows
    BY <1>1, <1>4, InstanceRow
  <2>2. e.pc \notin {"persist", "review"}
    BY <1>3, <1>4
  <2> QED
    BY <1>4, <1>5, <2>1, <2>2, InstanceMoves

(* The same with pull requests left alone. *)
LEMMA ThrowingOnly ==
  ASSUME PipelineInv, RowsStep, NEW g \in Generations, instance[g].status = "running",
         Throw(g), pulls' = pulls
  PROVE  InstancesType' /\ InstancesInv'
<1>1. SUFFICES ASSUME NEW p, p = pulls[g] PROVE InstancesType' /\ InstancesInv'
  OBVIOUS
<1>2. p \in Pulls /\ pulls' = [pulls EXCEPT ![g] = p]
  BY <1>1 DEF PipelineInv, TypeInv, InstancesType
<1> QED
  BY <1>2, Throwing

(* A workflow ends. *)
LEMMA Ending ==
  ASSUME PipelineInv, RowsStep, NEW g \in Generations, instance[g].status = "running",
         NEW status \in {"complete", "errored", "terminated"}, End(g, status), pulls' = pulls
  PROVE  InstancesType' /\ InstancesInv'
<1>1. SUFFICES ASSUME NEW e, e = [instance[g] EXCEPT !.status = status]
               PROVE  InstancesType' /\ InstancesInv'
  OBVIOUS
<1>2. instance \in [Generations -> Instance]
  BY DEF PipelineInv, TypeInv, InstancesType
<1>3. e \in Instance /\ e.status = status /\ e.request = instance[g].request
  BY <1>1, <1>2 DEF Instance
<1>4. InstanceGoes(g, e)
  BY <1>1, <1>2 DEF End, InstanceGoes
<1> QED
  BY <1>3, <1>4, InstanceRow, InstanceMovesOnly

(* The workflow starts on its generation. *)
LEMMA BeginKeeps ==
  ASSUME PipelineInv, NEW g \in Generations, Begin(g)
  PROVE  FactoryStep
<1>1. WatchStep /\ RowsStep /\ pulls' = pulls /\ instance[g].status = "running"
  BY Quiet DEF Begin, SameWatch, Running, WatchStep
<1>2. End(g, "complete") \/ To(g, "prepare") \/ Throw(g)
  BY DEF Begin
<1>3. "prepare" \in FactorySteps
  BY DEF FactorySteps
<1> QED
  BY <1>1, <1>2, <1>3, Ending, GoingOn, ThrowingOnly DEF FactoryStep

(* The run begins, with no pull request yet. *)
LEMMA PrepareKeeps ==
  ASSUME PipelineInv, NEW g \in Generations, Prepare(g)
  PROVE  FactoryStep
<1>1. WatchStep /\ RowsStep /\ instance[g].status = "running"
  BY Quiet DEF Prepare, SameWatch, Running, WatchStep
<1>2. "branch" \in FactorySteps /\ "none" \in Pulls
  BY DEF FactorySteps, Pulls
<1>3. To(g, "branch") /\ pulls' = [pulls EXCEPT ![g] = "none"]
  BY DEF Prepare
<1> QED
  BY <1>1, <1>2, <1>3, Going DEF FactoryStep

(* An attempt is used up. *)
LEMMA UseAttemptKeeps ==
  ASSUME PipelineInv, NEW g \in Generations, PrepareFails(g) \/ BuildsFail(g)
  PROVE  FactoryStep
<1>1. WatchStep /\ RowsStep /\ pulls' = pulls /\ instance[g].status = "running"
  BY Quiet DEF PrepareFails, BuildsFail, SameWatch, Running, WatchStep
<1>2. To(g, "prepare") \/ Throw(g)
  BY DEF PrepareFails, BuildsFail, UseAttempt
<1>3. "prepare" \in FactorySteps
  BY DEF FactorySteps
<1> QED
  BY <1>1, <1>2, <1>3, GoingOn, ThrowingOnly DEF FactoryStep

(* Something else ended the run. *)
LEMMA RunLostKeeps ==
  ASSUME PipelineInv, NEW g \in Generations, RunLost(g)
  PROVE  FactoryStep
<1>1. WatchStep /\ RowsStep /\ pulls' = pulls /\ instance[g].status = "running"
  BY Quiet DEF RunLost, SameWatch, Running, WatchStep
<1> QED
  BY <1>1, ThrowingOnly DEF RunLost, FactoryStep

(* One step of createFactoryPullRequest. *)
LEMMA PullStepKeeps ==
  ASSUME PipelineInv, NEW g \in Generations, NEW pc \in {"branch", "commit", "pull"}, PullStep(g, pc)
  PROVE  FactoryStep
<1>1. WatchStep /\ RowsStep /\ instance[g].status = "running"
  BY Quiet DEF PullStep, SameWatch, Running, WatchStep
<1>2. SUFFICES ASSUME NEW next, next = NextPull[pc], NEW p, p = PullAfter[pc]
               PROVE  FactoryStep
  OBVIOUS
<1>3. next \in FactorySteps /\ p \in Pulls /\ (next \in {"persist", "review"} => p = "open")
  <2>1. CASE pc = "branch"
    BY <1>2, <2>1 DEF NextPull, PullAfter, FactorySteps, Pulls
  <2>2. CASE pc = "commit"
    BY <1>2, <2>2 DEF NextPull, PullAfter, FactorySteps, Pulls
  <2>3. CASE pc = "pull"
    BY <1>2, <2>3 DEF NextPull, PullAfter, FactorySteps, Pulls
  <2> QED
    BY <2>1, <2>2, <2>3
<1>4. CASE To(g, next) /\ pulls' = [pulls EXCEPT ![g] = p]
  BY <1>1, <1>3, <1>4, Going DEF FactoryStep
<1>5. CASE Throw(g) /\ pulls' = pulls
  BY <1>1, <1>5, ThrowingOnly DEF FactoryStep
<1>6. CASE Throw(g) /\ pulls' = [pulls EXCEPT ![g] = p]
  BY <1>1, <1>3, <1>6, Throwing DEF FactoryStep
<1> QED
  BY <1>2, <1>4, <1>5, <1>6 DEF PullStep

(* persistFactoryRevision reads the request before its batch. *)
LEMMA ReadForRevisionKeeps ==
  ASSUME PipelineInv, NEW g \in Generations, ReadForRevision(g)
  PROVE  FactoryStep
<1>1. WatchStep /\ RowsStep /\ pulls' = pulls
      /\ instance[g].status = "running" /\ instance[g].pc = "persist"
  BY Quiet DEF ReadForRevision, SameWatch, Running, WatchStep
<1>2. pulls[g] = "open"
  BY <1>1, InstanceRow
<1>3. Throw(g) \/ To(g, "review") \/ To(g, "append")
  BY DEF ReadForRevision
<1>4. "review" \in FactorySteps /\ "append" \in FactorySteps
  BY DEF FactorySteps
<1> QED
  BY <1>1, <1>2, <1>3, <1>4, GoingOn, ThrowingOnly DEF FactoryStep

(* A revision packages what its request asked for, unless the source moves. *)
LEMMA RevisionSet ==
  ASSUME PipelineInv, UNCHANGED <<kind, newest, generations>>, NEW g \in Generations,
         instance[g].status = "running", NEW status \in Statuses,
         status = "review" \/ status = Request(g).status, SetRevision(g, status)
  PROVE  RowsStep
<1>1. SUFFICES ASSUME NEW q, q = instance[g].request, NEW v, v = Packaged(g),
                      NEW row, row = [request[q] EXCEPT !.status = status, !.revision = v]
               PROVE  RowsStep
  OBVIOUS
<1>2. q \in Rows /\ q \in Requests /\ request[q] \in Row
  BY <1>1, InstanceRow
<1>3. request \in [Requests -> Row] /\ newest \in Nat /\ generations \in Nat
  BY DEF PipelineInv, TypeInv, RowsType
<1>4. v \in [release : Nat, generation : Nat] /\ (Named => v.release = request[q].release)
  BY <1>1, <1>2, <1>3, Bounds DEF Packaged, Request, Named, Row
<1>5. /\ row \in Row /\ row.status = status /\ row.release = request[q].release
      /\ row.generation = request[q].generation /\ row.autos = request[q].autos
      /\ row.resumes = request[q].resumes /\ row.revision = v
  BY <1>1, <1>2, <1>4 DEF Row
<1>6. RowBecomes(q, row)
  BY <1>1, <1>2, <1>3 DEF SetRevision, RowBecomes
<1>7. status # "none" /\ (status = "pending" => request[q].status = "pending")
  BY <1>1, <1>2 DEF Request, Rows
<1>8. generations' \in Nat /\ generations' >= generations
  BY <1>3
<1>9. Budgeted(row)
  BY <1>2, <1>5, <1>7 DEF PipelineInv, RowsInv, RowOK, Budgeted
<1> QED
  BY <1>2, <1>4, <1>5, <1>6, <1>7, <1>8, <1>9, RowChanged

(* persistFactoryRevision: review, if the generation is still this one. *)
LEMMA EnterReviewKeeps ==
  ASSUME PipelineInv, NEW g \in Generations, EnterReview(g)
  PROVE  FactoryStep
<1>1. UNCHANGED <<kind, newest, generations, checkpoint, published, cron, pulls>>
      /\ instance[g].status = "running"
  BY DEF EnterReview, SameWatch, Running
<1>2. CASE SetRevision(g, "review") /\ To(g, "wait")
  <2>1. "review" \in Statuses /\ "wait" \in FactorySteps
    BY DEF Statuses, FactorySteps
  <2>2. RowsStep
    BY <1>1, <1>2, <2>1, RevisionSet
  <2> QED
    BY <1>1, <1>2, <2>1, <2>2, RowsOnly, GoingOn DEF FactoryStep
<1>3. CASE Throw(g) /\ UNCHANGED request
  <2>1. WatchStep /\ RowsStep
    BY <1>1, <1>3, Quiet DEF WatchStep
  <2> QED
    BY <1>1, <1>3, <2>1, ThrowingOnly DEF FactoryStep
<1> QED
  BY <1>2, <1>3 DEF EnterReview

(* The repair of a request in review. *)
LEMMA AppendRevisionKeeps ==
  ASSUME PipelineInv, NEW g \in Generations, AppendRevision(g)
  PROVE  FactoryStep
<1>1. UNCHANGED <<kind, newest, generations, checkpoint, published, cron, pulls>>
      /\ instance[g].status = "running"
  BY DEF AppendRevision, SameWatch, Running
<1>2. SUFFICES ASSUME NEW status, status = Request(g).status PROVE FactoryStep
  OBVIOUS
<1>3. status \in Statuses /\ "wait" \in FactorySteps
  BY <1>1, <1>2, InstanceRow DEF Request, Row, FactorySteps
<1>4. SetRevision(g, status) /\ To(g, "wait")
  BY <1>2 DEF AppendRevision
<1>5. RowsStep
  BY <1>1, <1>2, <1>3, <1>4, RevisionSet
<1> QED
  BY <1>1, <1>3, <1>4, <1>5, RowsOnly, GoingOn DEF FactoryStep

(* The private builds of the candidate succeed. *)
LEMMA BuildsSucceedKeeps ==
  ASSUME PipelineInv, NEW g \in Generations, BuildsSucceed(g)
  PROVE  FactoryStep
<1>1. WatchStep /\ RowsStep /\ pulls' = pulls /\ instance[g].status = "running"
  BY Quiet DEF BuildsSucceed, SameWatch, Running, WatchStep
<1> QED
  BY <1>1, Ending DEF BuildsSucceed, FactoryStep

(* The handler of a terminal failure stops the run. *)
LEMMA StopRunKeeps ==
  ASSUME PipelineInv, NEW g \in Generations, StopRun(g)
  PROVE  FactoryStep
<1>1. WatchStep /\ RowsStep /\ pulls' = pulls /\ instance[g].status = "running"
  BY Quiet DEF StopRun, SameWatch, Running, WatchStep
<1>2. "fail" \in FactorySteps
  BY DEF FactorySteps
<1> QED
  BY <1>1, <1>2, GoingOn DEF StopRun, FactoryStep

(* The workflow marks its request failed, in its own generation only. *)
LEMMA FailRequestKeeps ==
  ASSUME PipelineInv, NEW g \in Generations, FailRequest(g)
  PROVE  FactoryStep
<1>1. UNCHANGED <<kind, newest, generations, checkpoint, published, cron, pulls>>
      /\ instance[g].status = "running" /\ End(g, "errored")
  BY DEF FailRequest, SameWatch, Running
<1>2. instance[g].request \in Rows /\ "failed" \in Statuses
  BY <1>1, InstanceRow DEF Statuses
<1>3. CASE SetStatus(instance[g].request, "failed")
  <2>1. SUFFICES ASSUME NEW q \in Rows, SetStatus(q, "failed") PROVE FactoryStep
    BY <1>2, <1>3
  <2>2. RowsStep
    BY <1>1, <1>2, <2>1, StatusSet
  <2> QED
    BY <1>1, <2>2, RowsOnly, Ending DEF FactoryStep
<1>4. CASE UNCHANGED request
  <2>1. WatchStep /\ RowsStep
    BY <1>1, <1>4, Quiet DEF WatchStep
  <2> QED
    BY <1>1, <2>1, Ending DEF FactoryStep
<1> QED
  BY <1>3, <1>4 DEF FailRequest

(* An instance is terminated from outside. *)
LEMMA TerminateKeeps ==
  ASSUME PipelineInv, NEW g \in Generations, Terminate(g)
  PROVE  FactoryStep
<1>1. WatchStep /\ RowsStep /\ pulls' = pulls /\ instance[g].status = "running"
  BY Quiet DEF Terminate, SameWatch, WatchStep
<1> QED
  BY <1>1, Ending DEF Terminate, FactoryStep

(* Every step of the factory workflow. *)
LEMMA FactoryKeeps ==
  ASSUME PipelineInv, NEW g \in Generations, RunFactory(g) \/ Terminate(g)
  PROVE  FactoryStep
<1>1. CASE CreateBranch(g) \/ CommitRecipeTree(g) \/ OpenPull(g)
  BY <1>1, PullStepKeeps DEF CreateBranch, CommitRecipeTree, OpenPull
<1> QED
  BY <1>1, BeginKeeps, PrepareKeeps, UseAttemptKeeps, RunLostKeeps, ReadForRevisionKeeps,
     EnterReviewKeeps, AppendRevisionKeeps, BuildsSucceedKeeps, StopRunKeeps, FailRequestKeeps,
     TerminateKeeps DEF RunFactory

-----------------------------------------------------------------------------
(***************************************************************************)
(* Publications.                                                           *)
(***************************************************************************)
LEMMA PublishBuildKeeps ==
  ASSUME PipelineInv, NEW q \in Requests, PublishBuild(q)
  PROVE  WatchStep
<1>1. UNCHANGED <<kind, newest, generations, checkpoint, cron>>
  BY DEF PublishBuild, SamePipeline
<1>2. CASE UNCHANGED <<published, request>>
  BY <1>1, <1>2, Quiet
<1>3. CASE q \notin released /\ published' = q /\ SetStatus(q, "built")
  <2>1. Publishable(q)
    BY <1>3 DEF PublishBuild
  <2>2. q \in Rows
    BY <2>1 DEF Publishable, Rows
  <2>3. Named => request[q].revision.release = request[q].release
    BY <2>1 DEF PipelineInv, RowsInv, RowOK, Publishable
  <2>4. "built" \in Statuses
    BY DEF Statuses
  <2>5. RowsStep
    BY <1>1, <1>3, <2>2, <2>3, <2>4, StatusSet
  <2>6. Shipped(q)'
    BY <2>2, <2>3, <2>5, StepOfRows DEF Shipped
  <2>7. Shipped(published)' /\ published' \in 0 .. MaxRequest
    BY <1>3, <2>6, Bounds DEF Shipped
  <2> QED
    BY <1>1, <2>5, <2>7, RowsKept, CronsStay DEF WatchStep
<1> QED
  BY <1>2, <1>3 DEF PublishBuild

(* Every step of a publication job. *)
LEMMA PublicationKeeps ==
  ASSUME PipelineInv, RunPublication
  PROVE  FactoryStep
<1>1. UNCHANGED <<kind, newest, generations, checkpoint, cron, instance, pulls>>
  BY DEF RunPublication, PublishBuild, CompleteJob, PublishFails, FailJob, Enqueue, ReadJob,
         CreateFlow, InspectFlow, MarkCall, CallDies, SamePipeline, factoryVars
<1>2. WatchStep
  <2>1. CASE \E q \in Requests : PublishBuild(q)
    BY <2>1, PublishBuildKeeps
  <2>2. CASE UNCHANGED <<request, published>>
    BY <1>1, <2>2, Quiet
  <2> QED
    BY <2>1, <2>2
       DEF RunPublication, CompleteJob, PublishFails, FailJob, Enqueue, ReadJob, CreateFlow,
           InspectFlow, MarkCall, CallDies
<1> QED
  BY <1>1, <1>2, InstancesStay DEF FactoryStep, WatchStep

-----------------------------------------------------------------------------
(***************************************************************************)
(* Blockers and links.                                                     *)
(***************************************************************************)
Graph == {<<n, blocker[n].child>> : n \in {n \in Nodes : Linked(n)}}

(* Nothing about blockers changes. *)
LEMMA LinksStay ==
  ASSUME PipelineInv, UNCHANGED <<blocker, graphVersion, link>>
  PROVE  LinksType' /\ LinksInv'
BY DEF PipelineInv, TypeInv, LinksType, LinksInv, LinksAdmissible, LinkOK, Edges, Linked, Open

(* A call knows its graph as long as the version is the one it read. *)
LEMMA LinkKept ==
  ASSUME PipelineInv, NEW m \in Linkers, UNCHANGED link,
         graphVersion' \in Nat, graphVersion' >= graphVersion,
         graphVersion' = graphVersion =>
           \A n \in Nodes : Linked(n)' = Linked(n) /\ (Linked(n) => blocker'[n] = blocker[n])
  PROVE  LinkOK(m)'
<1>1. LinkOK(m) /\ graphVersion \in Nat /\ link[m].version \in Nat
  BY DEF PipelineInv, LinksInv, TypeInv, LinksType, Link
<1>2. link[m].version <= graphVersion'
  BY <1>1 DEF LinkOK
<1>3. ASSUME link[m].pc = "link", link[m].version = graphVersion'
      PROVE  Admissible(Edges(link[m].parent, link[m].parent, link[m].child))'
  <2>1. graphVersion' = graphVersion
    BY <1>1, <1>3 DEF LinkOK
  <2>2. SUFFICES ASSUME NEW p, p = link[m].parent, NEW c, c = link[m].child
                 PROVE  Admissible(Edges(p, p, c))'
    BY DEF Edges
  <2>3. Edges(p, p, c)' = Edges(p, p, c)
    BY <2>1 DEF Edges
  <2>4. Admissible(Edges(p, p, c))
    BY <1>1, <1>3, <2>1, <2>2 DEF LinkOK
  <2> QED
    BY <2>3, <2>4
<1> QED
  BY <1>2, <1>3 DEF LinkOK

(* A blocker changes without a new edge. *)
LEMMA BlockerSet ==
  ASSUME PipelineInv, NEW n \in Nodes, NEW b \in Blocker, SetBlocker(n, b), UNCHANGED link,
         ~ (b.status = "open" /\ b.child # None)
  PROVE  LinksType' /\ LinksInv'
<1>1. /\ blocker \in [Nodes -> Blocker] /\ graphVersion \in Nat
      /\ link \in [Linkers -> Link]
  BY DEF PipelineInv, TypeInv, LinksType
<1>2. /\ blocker' \in [Nodes -> Blocker] /\ blocker'[n] = b
      /\ \A p \in Nodes \ {n} : blocker'[p] = blocker[p]
  BY <1>1 DEF SetBlocker
<1>3. graphVersion' \in Nat /\ graphVersion' >= graphVersion
  BY <1>1 DEF SetBlocker
<1>4. graphVersion' = graphVersion => blocker[n].child = None
  BY <1>1 DEF SetBlocker
<1>5. LinksType'
  BY <1>1, <1>2, <1>3 DEF LinksType
<1>6. ~ Linked(n)'
  BY <1>2 DEF Linked, Open
<1>7. \A p \in Nodes \ {n} : Linked(p)' = Linked(p)
  BY <1>2 DEF Linked, Open
<1>8. LinksAdmissible'
  <2>1. SUFFICES ASSUME NEW A, A = Graph', NEW B, B = Graph, Admissible(B) PROVE Admissible(A)
    BY DEF PipelineInv, LinksInv, LinksAdmissible, Graph
  <2>2. A \subseteq B
    BY <1>2, <1>6, <1>7, <2>1 DEF Graph
  <2> QED
    BY <2>1, <2>2, FewerEdges
<1>9. graphVersion' = graphVersion =>
        \A p \in Nodes : Linked(p)' = Linked(p) /\ (Linked(p) => blocker'[p] = blocker[p])
  <2>1. SUFFICES ASSUME graphVersion' = graphVersion, NEW p \in Nodes
                 PROVE  Linked(p)' = Linked(p) /\ (Linked(p) => blocker'[p] = blocker[p])
    OBVIOUS
  <2>2. CASE p = n
    BY <1>4, <1>6, <2>1, <2>2 DEF Linked
  <2>3. CASE p # n
    BY <1>2, <1>7, <2>3
  <2> QED
    BY <2>2, <2>3
<1>10. \A m \in Linkers : LinkOK(m)'
  BY <1>3, <1>9, LinkKept
<1> QED
  BY <1>5, <1>8, <1>10 DEF LinksInv

(* A call moves on in an unchanged graph. *)
LEMMA LinkMoves ==
  ASSUME PipelineInv, UNCHANGED <<blocker, graphVersion>>, NEW m \in Linkers, NEW l \in Link,
         link' = [link EXCEPT ![m] = l], l.version <= graphVersion,
         l.pc = "link" => Admissible(Edges(l.parent, l.parent, l.child))
  PROVE  LinksType' /\ LinksInv'
<1>1. /\ blocker \in [Nodes -> Blocker] /\ graphVersion \in Nat
      /\ link \in [Linkers -> Link]
  BY DEF PipelineInv, TypeInv, LinksType
<1>2. /\ link' \in [Linkers -> Link] /\ link'[m] = l
      /\ \A k \in Linkers \ {m} : link'[k] = link[k]
  BY <1>1
<1>3. \A p, c : Edges(p, p, c)' = Edges(p, p, c)
  BY DEF Edges, Linked, Open
<1>4. ASSUME NEW k \in Linkers PROVE LinkOK(k)'
  <2>1. CASE k = m
    <3>1. SUFFICES ASSUME NEW p, p = l.parent, NEW c, c = l.child,
                          Admissible(Edges(p, p, c)) \/ l.pc # "link"
                   PROVE  LinkOK(m)'
      BY <2>1
    <3>2. link'[m].parent = p /\ link'[m].child = c /\ Edges(p, p, c)' = Edges(p, p, c)
      BY <1>2, <1>3, <3>1
    <3>3. Edges(link[m].parent, link[m].parent, link[m].child)' = Edges(p, p, c)
      BY <3>2 DEF Edges, Linked, Open
    <3>4. Admissible(Edges(link[m].parent, link[m].parent, link[m].child))' \/ l.pc # "link"
      BY <3>1, <3>3
    <3> QED
      BY <1>2, <3>4 DEF LinkOK
  <2>2. CASE k # m
    <3>1. LinkOK(k) /\ link'[k] = link[k]
      BY <1>2, <2>2 DEF PipelineInv, LinksInv
    <3>2. Edges(link[k].parent, link[k].parent, link[k].child)'
          = Edges(link[k].parent, link[k].parent, link[k].child)
      BY <3>1 DEF Edges, Linked, Open
    <3> QED
      BY <3>1, <3>2 DEF LinkOK
  <2> QED
    BY <2>1, <2>2
<1>5. LinksAdmissible'
  BY DEF PipelineInv, LinksInv, LinksAdmissible, Linked, Open
<1> QED
  BY <1>1, <1>2, <1>4, <1>5 DEF LinksInv, LinksType

(* A call that is not under way. *)
LEMMA NoLinkIsLink ==
  ASSUME PipelineInv
  PROVE  NoLink \in Link /\ NoLink.version <= graphVersion /\ NoLink.pc = "idle"
BY DEF PipelineInv, TypeInv, LinksType, NoLink, Link, Node

(* linkDependencyRequest reads the version of the graph first. *)
LEMMA BeginLinkKeeps ==
  ASSUME PipelineInv, NEW m \in Linkers, NEW parent \in Nodes, NEW child \in Nodes,
         BeginLink(m, parent, child)
  PROVE  LinksType' /\ LinksInv'
<1>1. SUFFICES ASSUME NEW l, l = [pc |-> "check", parent |-> parent, child |-> child,
                                  version |-> graphVersion, id |-> blocker[parent].id]
               PROVE  LinksType' /\ LinksInv'
  OBVIOUS
<1>2. l \in Link /\ l.pc = "check" /\ l.version <= graphVersion
  <2>1. blocker[parent].id \in Nat
    BY DEF PipelineInv, TypeInv, LinksType, Blocker
  <2> QED
    BY <1>1, <2>1 DEF PipelineInv, TypeInv, LinksType, Link, Node
<1>3. link' = [link EXCEPT ![m] = l] /\ UNCHANGED <<blocker, graphVersion>>
  BY <1>1 DEF BeginLink, SetLink
<1> QED
  BY <1>2, <1>3, LinkMoves

(* Then the edges, which may already be those of a later version. *)
LEMMA CheckGraphKeeps ==
  ASSUME PipelineInv, NEW m \in Linkers, CheckGraph(m)
  PROVE  LinksType' /\ LinksInv'
<1>1. SUFFICES ASSUME NEW l, l = link[m],
                      NEW k, k = IF Admissible(Edges(l.parent, l.parent, l.child))
                                 THEN [l EXCEPT !.pc = "link"] ELSE NoLink
               PROVE  LinksType' /\ LinksInv'
  OBVIOUS
<1>2. l \in Link /\ l.version <= graphVersion
  BY <1>1 DEF PipelineInv, TypeInv, LinksType, LinksInv, LinkOK
<1>3. link' = [link EXCEPT ![m] = k] /\ UNCHANGED <<blocker, graphVersion>>
  BY <1>1 DEF CheckGraph, SetLink
<1>4. CASE Admissible(Edges(l.parent, l.parent, l.child))
  <2>1. k \in Link /\ k.version = l.version /\ k.parent = l.parent /\ k.child = l.child
    BY <1>1, <1>2, <1>4 DEF Link
  <2>2. k.version <= graphVersion /\ Admissible(Edges(k.parent, k.parent, k.child))
    BY <1>2, <1>4, <2>1
  <2> QED
    BY <1>3, <2>1, <2>2, LinkMoves
<1>5. CASE ~ Admissible(Edges(l.parent, l.parent, l.child))
  <2>1. k = NoLink
    BY <1>1, <1>5
  <2>2. k \in Link /\ k.version <= graphVersion /\ k.pc = "idle"
    BY <2>1, NoLinkIsLink
  <2> QED
    BY <1>3, <2>2, LinkMoves
<1> QED
  BY <1>4, <1>5

(* The UPDATE writes only at the version read: the graph it was checked on. *)
LEMMA LinkBlockerKeeps ==
  ASSUME PipelineInv, NEW m \in Linkers, LinkBlocker(m)
  PROVE  LinksType' /\ LinksInv'
<1>1. SUFFICES ASSUME NEW l, l = link[m], NEW none, none = NoLink,
                      NEW b, b = [blocker[l.parent] EXCEPT !.child = l.child]
               PROVE  LinksType' /\ LinksInv'
  OBVIOUS
<1>2. /\ blocker \in [Nodes -> Blocker] /\ graphVersion \in Nat
      /\ link \in [Linkers -> Link]
  BY DEF PipelineInv, TypeInv, LinksType
<1>3. /\ l \in Link /\ l.pc = "link" /\ LinkOK(m)
      /\ l.parent \in Nodes => b \in Blocker /\ b.child = l.child
  BY <1>1, <1>2 DEF LinkBlocker, Linking, PipelineInv, LinksInv, Link, Blocker
<1>4. none \in Link /\ none.version = 0 /\ none.pc = "idle"
  BY <1>1, NoLinkIsLink DEF NoLink
<1>5. link' = [link EXCEPT ![m] = none]
  BY <1>1 DEF LinkBlocker, SetLink
<1>6. CASE UNCHANGED <<blocker, graphVersion>>
  BY <1>1, <1>4, <1>5, <1>6, NoLinkIsLink, LinkMoves
<1>7. CASE OpenAs(l.parent, l.id) /\ graphVersion = l.version /\ SetBlocker(l.parent, b)
  <2>1. Admissible(Edges(l.parent, l.parent, l.child))
    BY <1>1, <1>3, <1>7 DEF LinkOK
  <2>2. \A p \in Nodes \ {l.parent} : blocker'[p] = blocker[p]
    BY <1>2, <1>7 DEF SetBlocker
  <2>3. l.parent \in Nodes => blocker'[l.parent] = b
    BY <1>2, <1>7 DEF SetBlocker
  <2>4. LinksAdmissible'
    <3>1. SUFFICES ASSUME NEW A, A = Graph', NEW B, B = Edges(l.parent, l.parent, l.child),
                          Admissible(B)
                   PROVE  Admissible(A)
      BY <2>1 DEF LinksAdmissible, Graph
    <3>2. A \subseteq B
      <4>1. SUFFICES ASSUME NEW p \in Nodes, Linked(p)' PROVE <<p, blocker'[p].child>> \in B
        BY <3>1 DEF Graph
      <4>2. CASE p = l.parent
        BY <1>3, <2>3, <3>1, <4>2 DEF Edges
      <4>3. CASE p # l.parent
        <5>1. Linked(p) /\ blocker'[p] = blocker[p]
          BY <2>2, <4>1, <4>3 DEF Linked, Open
        <5> QED
          BY <3>1, <4>3, <5>1 DEF Edges
      <4> QED
        BY <4>2, <4>3
    <3> QED
      BY <3>1, <3>2, FewerEdges
  <2>5. graphVersion' \in Nat /\ graphVersion' >= graphVersion
    BY <1>2, <1>7 DEF SetBlocker
  <2>6. blocker' \in [Nodes -> Blocker]
    BY <1>2, <1>3, <1>7 DEF SetBlocker
  <2>7. link' \in [Linkers -> Link]
    BY <1>2, <1>4, <1>5
  <2>8. ASSUME NEW k \in Linkers PROVE LinkOK(k)'
    <3>1. CASE k = m
      BY <1>2, <1>4, <1>5, <2>5, <3>1 DEF LinkOK
    <3>2. CASE k # m
      <4>1. link'[k] = link[k] /\ LinkOK(k) /\ link[k].version \in Nat
        BY <1>2, <1>5, <3>2 DEF PipelineInv, LinksInv, Link
      <4>2. CASE graphVersion' # graphVersion
        <5>1. link'[k].version < graphVersion'
          BY <1>2, <2>5, <4>1, <4>2 DEF LinkOK
        <5> QED
          BY <2>5, <4>1, <5>1 DEF LinkOK
      <4>3. CASE graphVersion' = graphVersion
        <5>1. l.parent \in Nodes =>
                b.child = None /\ blocker[l.parent].child = None
          BY <1>2, <1>7, <4>3 DEF SetBlocker
        <5>2. \A p \in Nodes : Linked(p)' = Linked(p) /\ (Linked(p) => blocker'[p] = blocker[p])
          BY <2>2, <2>3, <5>1 DEF Linked, Open
        <5>3. Edges(link[k].parent, link[k].parent, link[k].child)'
              = Edges(link[k].parent, link[k].parent, link[k].child)
          BY <4>1, <5>2 DEF Edges
        <5> QED
          BY <4>1, <4>3, <5>3 DEF LinkOK
      <4> QED
        BY <4>2, <4>3
    <3> QED
      BY <3>1, <3>2
  <2> QED
    BY <2>4, <2>5, <2>6, <2>7, <2>8 DEF LinksType, LinksInv
<1> QED
  BY <1>1, <1>6, <1>7 DEF LinkBlocker

(***************************************************************************)
(* Calls of the pipeline and of resolveDependencyBlockers.                 *)
(***************************************************************************)

(* No call moves. *)
LEMMA CallsStay ==
  ASSUME PipelineInv, RowsStep, UNCHANGED <<starting, resolving>>
  PROVE  CallsType' /\ CallsInv'
<1>1. \A q \in Rows : q \in Rows'
  BY StepOfRows
<1> QED
  BY <1>1 DEF PipelineInv, TypeInv, CallsType, CallsInv

(* A call that resolves blockers moves on. *)
LEMMA ResolverGoes ==
  ASSUME PipelineInv, RowsStep, UNCHANGED starting,
         NEW r \in Resolvers, NEW e \in Resolver, SetResolver(r, e)
  PROVE  CallsType' /\ CallsInv'
<1>1. \A q \in Rows : q \in Rows'
  BY StepOfRows
<1>2. resolving \in [Resolvers -> Resolver]
  BY DEF PipelineInv, TypeInv, CallsType
<1>3. resolving' \in [Resolvers -> Resolver]
  BY <1>2 DEF SetResolver
<1> QED
  BY <1>1, <1>3 DEF PipelineInv, TypeInv, CallsType, CallsInv

(* A call of the pipeline moves on. *)
LEMMA StartGoes ==
  ASSUME PipelineInv, RowsStep, UNCHANGED resolving,
         NEW g \in Generations, NEW e \in Start, starting' = [starting EXCEPT ![g] = e],
         e.pc # "none" => e.request \in Rows
  PROVE  CallsType' /\ CallsInv'
<1>1. \A q \in Rows : q \in Rows'
  BY StepOfRows
<1>2. starting \in [Generations -> Start]
  BY DEF PipelineInv, TypeInv, CallsType
<1>3. /\ starting' \in [Generations -> Start] /\ starting'[g] = e
      /\ \A h \in Generations \ {g} : starting'[h] = starting[h]
  BY <1>2
<1>4. ASSUME NEW h \in Generations, starting'[h].pc # "none"
      PROVE  starting'[h].request \in Rows'
  BY <1>1, <1>3, <1>4 DEF PipelineInv, CallsInv
<1>5. CallsType'
  BY <1>3 DEF PipelineInv, TypeInv, CallsType
<1> QED
  BY <1>4, <1>5 DEF CallsInv

(* A call of the pipeline that is under way is about a row. *)
LEMMA Calls ==
  ASSUME PipelineInv, NEW g \in Generations, starting[g].pc # "none"
  PROVE  starting[g] \in Start /\ starting[g].request \in Rows
BY DEF PipelineInv, TypeInv, CallsType, CallsInv

(* It succeeds, fails or is lost. *)
LEMMA StartedGoes ==
  ASSUME PipelineInv, RowsStep, UNCHANGED resolving,
         NEW g \in Generations, starting[g].pc # "none", NEW pc \in {"none", "failed"}, Started(g, pc)
  PROVE  CallsType' /\ CallsInv'
<1>1. SUFFICES ASSUME NEW e, e = [starting[g] EXCEPT !.pc = pc] PROVE CallsType' /\ CallsInv'
  OBVIOUS
<1>2. starting[g] \in Start /\ starting[g].request \in Rows
  BY Calls
<1>3. e \in Start /\ e.request \in Rows
  BY <1>1, <1>2 DEF Start
<1>4. starting' = [starting EXCEPT ![g] = e]
  BY <1>1 DEF Started, PipelineInv, TypeInv, CallsType
<1> QED
  BY <1>3, <1>4, StartGoes

(* The parts of the invariant. *)
LEMMA Together ==
  ASSUME FactoryStep, LinksType' /\ LinksInv', CallsType' /\ CallsInv'
  PROVE  PipelineInv'
BY DEF FactoryStep, WatchStep, PipelineInv, TypeInv

(* A step of the rows that leaves workflows alone. *)
LEMMA StatusStep ==
  ASSUME PipelineInv, RowsStep, UNCHANGED <<checkpoint, published, cron, instance, pulls>>
  PROVE  FactoryStep
BY RowsOnly, InstancesStay DEF FactoryStep

(* A step that leaves rows and workflows alone. *)
LEMMA QuietStep ==
  ASSUME PipelineInv,
         UNCHANGED <<kind, newest, request, generations, checkpoint, published, cron,
                     instance, pulls>>
  PROVE  FactoryStep /\ RowsStep
BY Quiet, InstancesStay DEF FactoryStep, WatchStep

(* A step of the rows alone. *)
LEMMA RowStep ==
  ASSUME PipelineInv, RowsStep,
         UNCHANGED <<checkpoint, published, cron, instance, pulls, blocker, graphVersion, link,
                     starting, resolving>>
  PROVE  PipelineInv'
<1>1. FactoryStep
  BY StatusStep
<1>2. LinksType' /\ LinksInv'
  BY LinksStay
<1>3. CallsType' /\ CallsInv'
  BY CallsStay
<1> QED
  BY <1>1, <1>2, <1>3, Together

(* A step that leaves everything the invariant is about alone. *)
LEMMA Untouched ==
  ASSUME PipelineInv,
         UNCHANGED <<kind, newest, request, generations, checkpoint, published, cron, instance,
                     pulls, blocker, graphVersion, link, starting, resolving>>
  PROVE  PipelineInv'
<1>1. RowsStep
  BY RowsSame
<1> QED
  BY <1>1, RowStep

(* A new blocker has no child, so no edge is added. *)
LEMMA NewBlockerKeeps ==
  ASSUME PipelineInv, NEW n \in Nodes, Report(n), UNCHANGED link
  PROVE  LinksType' /\ LinksInv'
<1>1. SUFFICES ASSUME NEW b, b = [status |-> "open", child |-> None, id |-> blocker[n].id + 1]
               PROVE  LinksType' /\ LinksInv'
  OBVIOUS
<1>2. blocker[n].id + 1 \in Nat
  BY DEF PipelineInv, TypeInv, LinksType, Blocker
<1>3. b \in Blocker /\ b.child = None
  BY <1>1, <1>2 DEF Blocker, Node
<1>4. SetBlocker(n, b)
  BY <1>1 DEF Report
<1> QED
  BY <1>3, <1>4, BlockerSet

(* A resolved blocker takes its edge away. *)
LEMMA ClosedBlockerKeeps ==
  ASSUME PipelineInv, NEW n \in Nodes, NEW s \in {"resolved", "superseded"},
         SetBlocker(n, [blocker[n] EXCEPT !.status = s]), UNCHANGED link
  PROVE  LinksType' /\ LinksInv'
<1>1. SUFFICES ASSUME NEW b, b = [blocker[n] EXCEPT !.status = s]
               PROVE  LinksType' /\ LinksInv'
  OBVIOUS
<1>2. blocker[n] \in Blocker
  BY DEF PipelineInv, TypeInv, LinksType
<1>3. b \in Blocker /\ b.status = s
  BY <1>1, <1>2 DEF Blocker
<1> QED
  BY <1>1, <1>3, BlockerSet

(* Rows are nodes of the graph. *)
LEMMA RequestsAreNodes == \A q \in Rows : q \in Requests /\ q \in Nodes
BY DEF Rows, Nodes

(* A missing dependency blocks a request. *)
LEMMA ReportMissingKeeps ==
  ASSUME PipelineInv, NEW g \in Generations, ReportMissing(g), UNCHANGED starting
  PROVE  PipelineInv'
<1>1. SUFFICES ASSUME NEW q, q = instance[g].request PROVE PipelineInv'
  OBVIOUS
<1>2. /\ instance[g].status = "running" /\ SetStatus(q, "blocked") /\ Report(q)
      /\ UNCHANGED <<kind, newest, generations, checkpoint, published, cron, instance, pulls, link,
                     resolving>>
  BY <1>1 DEF ReportMissing, Running, SameWatch, factoryVars
<1>3. q \in Rows /\ q \in Nodes /\ "blocked" \in Statuses
  BY <1>1, <1>2, InstanceRow, RequestsAreNodes DEF Statuses
<1>4. RowsStep
  BY <1>2, <1>3, StatusSet
<1>5. LinksType' /\ LinksInv'
  BY <1>2, <1>3, NewBlockerKeeps
<1>6. CallsType' /\ CallsInv'
  BY <1>2, <1>4, CallsStay
<1>7. FactoryStep
  BY <1>2, <1>4, StatusStep
<1> QED
  BY <1>5, <1>6, <1>7, Together

(* A call that is over. *)
LEMMA NoResolverIsResolver == NoResolver \in Resolver
BY DEF NoResolver, Resolver

(* The first read of resolveDependencyBlockers. *)
LEMMA ReadBlockersKeeps ==
  ASSUME PipelineInv, NEW r \in Resolvers, NEW S, S \subseteq Nodes, ReadBlockers(r, S),
         UNCHANGED starting
  PROVE  PipelineInv'
<1>1. SUFFICES ASSUME NEW found, found = {n \in S : Open(n) /\ StillBlocked(n)},
                      NEW bs, bs = {[node |-> n, id |-> blocker[n].id,
                                     child |-> blocker[n].child] : n \in found},
                      NEW e, e = [pc |-> "releases", parents |-> found, blockers |-> bs]
               PROVE  PipelineInv'
  OBVIOUS
<1>2. found \subseteq Nodes /\ \A n \in Nodes : blocker[n].id \in Nat /\ blocker[n].child \in Node
  BY <1>1 DEF PipelineInv, TypeInv, LinksType, Blocker
<1>3. bs \subseteq ReadBlocker
  BY <1>1, <1>2 DEF ReadBlocker
<1>4. e \in Resolver
  BY <1>1, <1>2, <1>3 DEF Resolver
<1>5. UNCHANGED <<kind, newest, request, generations, checkpoint, published, cron,
                  instance, pulls, blocker, graphVersion, link>>
  BY DEF ReadBlockers, SameRequests, watchVars, factoryVars
<1>6. SetResolver(r, e)
  BY <1>1 DEF ReadBlockers
<1>7. FactoryStep /\ RowsStep
  BY <1>5, QuietStep
<1>8. CallsType' /\ CallsInv'
  BY <1>4, <1>6, <1>7, ResolverGoes
<1> QED
  BY <1>5, <1>7, <1>8, LinksStay, Together

(* Its second read. *)
LEMMA ReadReleasesKeeps ==
  ASSUME PipelineInv, NEW r \in Resolvers, ReadReleases(r), UNCHANGED starting
  PROVE  PipelineInv'
<1>1. SUFFICES ASSUME NEW k, k = resolving[r],
                      NEW bs, bs = {b \in k.blockers : ProviderReleased(b.child)},
                      NEW e, e = [k EXCEPT !.pc = "resolve", !.blockers = bs]
               PROVE  PipelineInv'
  OBVIOUS
<1>2. k \in Resolver
  BY <1>1 DEF PipelineInv, TypeInv, CallsType
<1>3. bs \subseteq k.blockers
  BY <1>1
<1>4. e \in Resolver
  BY <1>1, <1>2, <1>3 DEF Resolver
<1>5. UNCHANGED <<kind, newest, request, generations, checkpoint, published, cron,
                  instance, pulls, blocker, graphVersion, link>>
  BY DEF ReadReleases, SameRequests, watchVars, factoryVars
<1>6. SetResolver(r, e)
  BY <1>1, <1>2 DEF ReadReleases, Resolver
<1>7. FactoryStep /\ RowsStep
  BY <1>5, QuietStep
<1>8. CallsType' /\ CallsInv'
  BY <1>4, <1>6, <1>7, ResolverGoes
<1> QED
  BY <1>5, <1>7, <1>8, LinksStay, Together

(* The writes of blockers, each asking only for an open one. *)
LEMMA ResolveBlockerKeeps ==
  ASSUME PipelineInv, NEW r \in Resolvers, NEW b, ResolveBlocker(r, b), UNCHANGED starting
  PROVE  PipelineInv'
<1>1. SUFFICES ASSUME NEW k, k = resolving[r],
                      NEW bs, bs = k.blockers \ {b}, NEW e, e = [k EXCEPT !.blockers = bs]
               PROVE  PipelineInv'
  OBVIOUS
<1>2. k \in Resolver /\ b \in k.blockers
  BY <1>1 DEF PipelineInv, TypeInv, CallsType, ResolveBlocker
<1>3. e \in Resolver
  BY <1>1, <1>2 DEF Resolver
<1>4. UNCHANGED <<kind, newest, request, generations, checkpoint, published, cron,
                  instance, pulls, link>>
  BY DEF ResolveBlocker, SameRequests, watchVars, factoryVars
<1>5. SetResolver(r, e)
  BY <1>1, <1>2 DEF ResolveBlocker, Resolver
<1>6. FactoryStep /\ RowsStep
  BY <1>4, QuietStep
<1>7. CallsType' /\ CallsInv'
  BY <1>3, <1>5, <1>6, ResolverGoes
<1>8. LinksType' /\ LinksInv'
  <2>1. b.node \in Nodes
    BY <1>2 DEF Resolver, ReadBlocker
  <2>2. CASE SetBlocker(b.node, [blocker[b.node] EXCEPT !.status = "resolved"])
    BY <1>4, <2>1, <2>2, ClosedBlockerKeeps
  <2>3. CASE UNCHANGED <<blocker, graphVersion>>
    BY <1>4, <2>3, LinksStay
  <2> QED
    BY <2>2, <2>3 DEF ResolveBlocker
<1> QED
  BY <1>6, <1>7, <1>8, Together

(* A blocked request goes on, with one generation more to use. *)
LEMMA Resumed ==
  ASSUME PipelineInv, UNCHANGED <<kind, newest, generations>>,
         NEW q \in Rows, NEW status \in {"pending", "review"},
         request' = [request EXCEPT ![q].status = status, ![q].resumes = @ + 1]
  PROVE  RowsStep
<1>1. SUFFICES ASSUME NEW row, row = [request[q] EXCEPT !.status = status, !.resumes = @ + 1]
               PROVE  RowsStep
  OBVIOUS
<1>2. request \in [Requests -> Row] /\ q \in Requests /\ generations \in Nat
  BY DEF PipelineInv, TypeInv, RowsType, Rows
<1>3. request[q] \in Row /\ status \in Statuses /\ request[q].resumes + 1 \in Nat
  BY <1>2 DEF Row, Statuses
<1>4. /\ row \in Row /\ row.status = status /\ row.release = request[q].release
      /\ row.generation = request[q].generation /\ row.autos = request[q].autos
      /\ row.resumes = request[q].resumes + 1 /\ row.revision = request[q].revision
  BY <1>1, <1>3 DEF Row
<1>5. RowBecomes(q, row)
  BY <1>1, <1>2 DEF RowBecomes, Row
<1>6. generations' \in Nat /\ generations' >= generations
  BY <1>2
<1>7. Budgeted(row)
  <2>1. Budgeted(request[q])
    BY <1>2 DEF PipelineInv, RowsInv, RowOK
  <2>2. request[q].autos \in Nat /\ request[q].resumes \in Nat
    BY <1>3 DEF Row
  <2> QED
    BY <1>4, <2>1, <2>2, Bounds DEF Budgeted
<1> QED
  BY <1>4, <1>5, <1>6, <1>7, RowChanged

(* The writes of requests. *)
LEMMA ResumeKeeps ==
  ASSUME PipelineInv, NEW r \in Resolvers, NEW n, Resume(r, n), UNCHANGED starting
  PROVE  PipelineInv'
<1>1. UNCHANGED <<kind, newest, generations, checkpoint, published, cron, instance, pulls,
                  blocker, graphVersion, link>>
  BY DEF Resume, SameWatch, factoryVars
<1>2. RowsStep
  <2>1. CASE UNCHANGED request
    BY <1>1, <2>1, RowsSame
  <2>2. CASE n \in Requests /\ ~Open(n) /\ StillBlocked(n)
    <3>1. SUFFICES ASSUME NEW s, s = IF request[n].revision = None THEN "pending" ELSE "review"
                   PROVE  RowsStep
      OBVIOUS
    <3>2. n \in Rows /\ s \in {"pending", "review"}
      BY <2>2, <3>1 DEF StillBlocked, Rows
    <3>3. request' = [request EXCEPT ![n].status = s, ![n].resumes = @ + 1]
      BY <2>2, <3>1 DEF Resume
    <3> QED
      BY <1>1, <3>2, <3>3, Resumed
  <2> QED
    BY <2>1, <2>2 DEF Resume
<1>3. FactoryStep
  BY <1>1, <1>2, StatusStep
<1>4. CallsType' /\ CallsInv'
  <2>1. SUFFICES ASSUME NEW k, k = resolving[r], NEW ps, ps = k.parents \ {n},
                        NEW e, e = IF k.parents = {n} THEN NoResolver ELSE [k EXCEPT !.parents = ps]
                 PROVE  CallsType' /\ CallsInv'
    OBVIOUS
  <2>2. k \in Resolver
    BY <2>1 DEF PipelineInv, TypeInv, CallsType
  <2>3. [k EXCEPT !.parents = ps] \in Resolver
    BY <2>1, <2>2 DEF Resolver
  <2>4. e \in Resolver
    BY <2>1, <2>3, NoResolverIsResolver
  <2>5. SetResolver(r, e)
    BY <2>1, <2>2 DEF Resume, Resolver
  <2> QED
    BY <1>2, <2>4, <2>5, ResolverGoes
<1> QED
  BY <1>1, <1>3, <1>4, LinksStay, Together

(* The call is lost between two statements. *)
LEMMA ResolverDiesKeeps ==
  ASSUME PipelineInv, NEW r \in Resolvers, ResolverDies(r), UNCHANGED starting
  PROVE  PipelineInv'
<1>1. UNCHANGED <<kind, newest, request, generations, checkpoint, published, cron, instance, pulls,
                  blocker, graphVersion, link>>
  BY DEF ResolverDies, SameWatch, factoryVars
<1>2. FactoryStep /\ RowsStep
  BY <1>1, QuietStep
<1>3. SetResolver(r, NoResolver)
  BY DEF ResolverDies
<1>4. CallsType' /\ CallsInv'
  BY <1>2, <1>3, NoResolverIsResolver, ResolverGoes
<1> QED
  BY <1>1, <1>2, <1>4, LinksStay, Together

(* Every step about blockers. *)
LEMMA BlockersKeep ==
  ASSUME PipelineInv, WorkOnBlockers, UNCHANGED starting
  PROVE  PipelineInv'
<1>1. CASE \E n \in Others : BlockOther(n)
  <2>1. PICK n \in Others : BlockOther(n)
    BY <1>1
  <2>2. /\ n \in Nodes /\ Report(n) /\ UNCHANGED <<link, resolving>>
        /\ UNCHANGED <<kind, newest, request, generations, checkpoint, published, cron,
                       instance, pulls>>
    BY <2>1 DEF BlockOther, SameRequests, watchVars, factoryVars, Nodes
  <2>3. FactoryStep /\ RowsStep
    BY <2>2, QuietStep
  <2> QED
    BY <2>2, <2>3, NewBlockerKeeps, CallsStay, Together
<1>2. CASE \E n \in Others : PublishProvider(n)
  <2>1. UNCHANGED <<kind, newest, request, generations, checkpoint, published, cron,
                    instance, pulls, blocker, graphVersion, link, resolving>>
    BY <1>2 DEF PublishProvider, SameRequests, watchVars, factoryVars
  <2> QED
    BY <2>1, Untouched
<1>3. ASSUME NEW r \in Resolvers, NEW S \in {Nodes} \cup {{n} : n \in Nodes}, ReadBlockers(r, S)
      PROVE  PipelineInv'
  <2>1. S \subseteq Nodes
    OBVIOUS
  <2> QED
    BY <1>3, <2>1, ReadBlockersKeeps
<1>4. CASE \E m \in Linkers :
             \/ \E parent, child \in Nodes : BeginLink(m, parent, child)
             \/ CheckGraph(m)
             \/ LinkBlocker(m)
  <2>1. UNCHANGED <<kind, newest, request, generations, checkpoint, published, cron,
                    instance, pulls, resolving>>
    BY <1>4 DEF BeginLink, CheckGraph, LinkBlocker, SameRequests, watchVars, factoryVars
  <2>2. LinksType' /\ LinksInv'
    BY <1>4, BeginLinkKeeps, CheckGraphKeeps, LinkBlockerKeeps
  <2>3. FactoryStep /\ RowsStep
    BY <2>1, QuietStep
  <2> QED
    BY <2>1, <2>2, <2>3, CallsStay, Together
<1> QED
  BY <1>1, <1>2, <1>3, <1>4, ReportMissingKeeps, ReadReleasesKeeps, ResolveBlockerKeeps,
     ResumeKeeps, ResolverDiesKeeps DEF WorkOnBlockers

-----------------------------------------------------------------------------
(* Maintainers and the integrity check *)

(* startFactory: a maintainer claims a generation. *)
LEMMA StartFactoryKeeps ==
  ASSUME PipelineInv, NEW q \in Requests, StartFactory(q)
  PROVE  PipelineInv'
<1>1. SUFFICES ASSUME NEW g, g = generations + 1, NEW e, e = [pc |-> "call", request |-> q]
               PROVE  PipelineInv'
  OBVIOUS
<1>2. /\ g \in Generations /\ generations' = g
      /\ request[q].status \in {"pending", "failed", "review", "blocked"}
      /\ UNCHANGED <<kind, newest, checkpoint, published, cron, instance, pulls, link, resolving>>
      /\ request' = [request EXCEPT ![q].status = "generating", ![q].generation = g]
      /\ starting' = [starting EXCEPT ![g] = e]
  BY <1>1 DEF StartFactory, factoryVars
<1>3. q \in Rows /\ q \in Nodes /\ request[q] \in Row /\ request \in [Requests -> Row]
      /\ generations \in Nat
  BY <1>2 DEF Rows, Nodes, PipelineInv, TypeInv, RowsType
<1>4. RowsStep
  <2>1. SUFFICES ASSUME NEW row, row = [request[q] EXCEPT !.status = "generating", !.generation = g]
                 PROVE  RowsStep
    OBVIOUS
  <2>2. "generating" \in Statuses /\ g \in Nat
    BY <1>1, <1>3 DEF Statuses
  <2>3. /\ row \in Row /\ row.status = "generating" /\ row.release = request[q].release
        /\ row.generation = g /\ row.revision = request[q].revision
        /\ row.autos = request[q].autos /\ row.resumes = request[q].resumes
    BY <1>3, <2>1, <2>2 DEF Row
  <2>4. RowBecomes(q, row)
    BY <1>2, <1>3, <2>1 DEF RowBecomes
  <2>5. row.autos <= MAX_AUTOMATIC_GENERATIONS + row.resumes
    BY <2>3 DEF PipelineInv, RowsInv, RowOK, Budgeted
  <2> QED
    BY <1>1, <1>2, <1>3, <2>3, <2>4, <2>5, Regenerated
<1>5. FactoryStep
  BY <1>2, <1>4, StatusStep
<1>6. LinksType' /\ LinksInv'
  <2>1. CASE SetBlocker(q, [blocker[q] EXCEPT !.status = "superseded"])
    BY <1>2, <1>3, <2>1, ClosedBlockerKeeps
  <2>2. CASE UNCHANGED <<blocker, graphVersion>>
    BY <1>2, <2>2, LinksStay
  <2> QED
    BY <2>1, <2>2 DEF StartFactory
<1>7. e \in Start /\ e.request \in Rows
  BY <1>1, <1>3, Bounds DEF Start, Rows
<1>8. CallsType' /\ CallsInv'
  BY <1>2, <1>4, <1>7, StartGoes
<1> QED
  BY <1>5, <1>6, <1>8, Together

(* The call of the pipeline that follows. *)
LEMMA CallPipelineKeeps ==
  ASSUME PipelineInv, NEW g \in Generations, CallPipeline(g)
  PROVE  PipelineInv'
<1>1. SUFFICES ASSUME NEW q, q = starting[g].request PROVE PipelineInv'
  OBVIOUS
<1>2. /\ starting[g].pc # "none"
      /\ UNCHANGED <<kind, newest, request, generations, checkpoint, published, cron, pulls,
                     blocker, graphVersion, link, resolving>>
      /\ Create(g, q) \/ UNCHANGED instance
      /\ Started(g, "none") \/ Started(g, "failed")
  BY <1>1 DEF CallPipeline, SameWatch, factoryVars, blockerVars
<1>3. q \in Rows
  BY <1>1, <1>2, Calls
<1>4. WatchStep /\ RowsStep
  BY <1>2, Quiet DEF WatchStep
<1>5. InstancesType' /\ InstancesInv'
  BY <1>2, <1>3, <1>4, Created, InstancesStay
<1>6. CallsType' /\ CallsInv'
  BY <1>2, <1>4, StartedGoes
<1> QED
  BY <1>2, <1>4, <1>5, <1>6, LinksStay, Together DEF FactoryStep

(* A call that failed undoes the claim it was made for. *)
LEMMA DispatchFailsKeeps ==
  ASSUME PipelineInv, NEW g \in Generations, DispatchFails(g)
  PROVE  PipelineInv'
<1>1. SUFFICES ASSUME NEW q, q = starting[g].request PROVE PipelineInv'
  OBVIOUS
<1>2. /\ starting[g].pc # "none" /\ Started(g, "none")
      /\ UNCHANGED <<kind, newest, generations, checkpoint, published, cron, instance, pulls,
                     blocker, graphVersion, link, resolving>>
      /\ SetStatus(q, "failed") \/ UNCHANGED request
  BY <1>1 DEF DispatchFails, SameWatch, factoryVars, blockerVars
<1>3. q \in Rows /\ "failed" \in Statuses
  BY <1>1, <1>2, Calls DEF Statuses
<1>4. RowsStep
  BY <1>2, <1>3, StatusSet, RowsSame
<1>5. FactoryStep
  BY <1>2, <1>4, StatusStep
<1>6. CallsType' /\ CallsInv'
  BY <1>2, <1>4, StartedGoes
<1> QED
  BY <1>2, <1>5, <1>6, LinksStay, Together

(* startFactory is lost after its batch. *)
LEMMA StartDiesKeeps ==
  ASSUME PipelineInv, NEW g \in Generations, StartDies(g)
  PROVE  PipelineInv'
<1>1. /\ starting[g].pc # "none" /\ Started(g, "none")
      /\ UNCHANGED <<kind, newest, request, generations, checkpoint, published, cron, instance, pulls,
                     blocker, graphVersion, link, resolving>>
  BY DEF StartDies, SameWatch, factoryVars, blockerVars
<1>2. FactoryStep /\ RowsStep
  BY <1>1, QuietStep
<1>3. CallsType' /\ CallsInv'
  BY <1>1, <1>2, StartedGoes
<1> QED
  BY <1>1, <1>2, <1>3, LinksStay, Together

(* A row takes a status that asks for no release. *)
LEMMA SetStatusKeeps ==
  ASSUME PipelineInv, NEW q \in Rows,
         NEW s \in {"review", "blocked", "failed", "rejected"}, SetStatus(q, s),
         UNCHANGED <<kind, newest, generations>>
  PROVE  RowsStep
<1>1. s \in Statuses /\ s # "none" /\ s # "pending" /\ s \notin {"queued", "building", "built"}
  BY DEF Statuses
<1> QED
  BY <1>1, StatusSet

(* A row goes on with the revision that packages its release. *)
LEMMA ReviewedKeeps ==
  ASSUME PipelineInv, NEW q \in Rows, NEW s \in {"queued", "building"}, SetStatus(q, s),
         request[q].revision # None \/ request[q].status = "queued",
         UNCHANGED <<kind, newest, generations>>
  PROVE  RowsStep
<1>1. s \in Statuses /\ s # "none" /\ s # "pending"
  BY DEF Statuses
<1>2. RowOK(q)
  BY DEF PipelineInv, RowsInv, Rows
<1>3. Named => request[q].revision.release = request[q].release
  BY <1>2 DEF RowOK
<1> QED
  BY <1>1, <1>3, StatusSet

(* Every step of a finalization, and of the builds it queues. *)
LEMMA FinalizationKeeps ==
  ASSUME PipelineInv, NEW q \in Requests,
         \/ LockFinalization(q) \/ MergeRecipe(q) \/ QueueBuilds(q) \/ ReopenFinalization(q)
         \/ FinalizationDies(q) \/ Build(q) \/ BuildFails(q)
  PROVE  PipelineInv'
<1>1. UNCHANGED <<kind, newest, generations, checkpoint, published, cron, instance, pulls,
                  blocker, graphVersion, link, starting, resolving>>
  BY DEF LockFinalization, MergeRecipe, QueueBuilds, ReopenFinalization, FinalizationDies, Build,
         BuildFails, SameWatch, SameButFinalization, blockerVars, factoryVars, maintainerVars
<1>2. CASE UNCHANGED request
  BY <1>1, <1>2, Untouched
<1>3. CASE LockFinalization(q)
  <2>1. q \in Rows /\ request[q].revision # None /\ SetStatus(q, "queued")
    BY <1>3 DEF LockFinalization, Rows
  <2> QED
    BY <1>1, <2>1, ReviewedKeeps, RowStep
<1>4. CASE Build(q)
  <2>1. q \in Rows /\ request[q].status = "queued" /\ SetStatus(q, "building")
    BY <1>4 DEF Build, Rows
  <2> QED
    BY <1>1, <2>1, ReviewedKeeps, RowStep
<1>5. CASE ReopenFinalization(q) /\ ~ UNCHANGED request
  <2>1. q \in Rows /\ SetStatus(q, "review")
    BY <1>5 DEF ReopenFinalization, Rows
  <2> QED
    BY <1>1, <2>1, SetStatusKeeps, RowStep
<1>6. CASE BuildFails(q)
  <2>1. q \in Rows /\ SetStatus(q, "failed")
    BY <1>6 DEF BuildFails, Rows
  <2> QED
    BY <1>1, <2>1, SetStatusKeeps, RowStep
<1> QED
  BY <1>2, <1>3, <1>4, <1>5, <1>6 DEF MergeRecipe, QueueBuilds, FinalizationDies

(* Every step of a maintainer. *)
LEMMA MaintainersKeep ==
  ASSUME PipelineInv, MaintainersStep
  PROVE  PipelineInv'
<1>1. CASE SubmitRequest
  <2>1. /\ UNCHANGED <<kind, newest, generations, checkpoint, published, cron, instance, pulls,
                       blocker, graphVersion, link, starting, resolving>>
        /\ Insert("maintainer", newest)
    BY <1>1 DEF SubmitRequest, SameWatch, factoryVars, blockerVars
  <2>2. SUFFICES ASSUME NEW r, r = newest PROVE PipelineInv'
    OBVIOUS
  <2>3. r \in 1 .. newest /\ Insert("maintainer", r)
    BY <2>1, <2>2 DEF PipelineInv, TypeInv, RowsType
  <2>4. RowsStep
    BY <2>1, <2>3, RowInserted
  <2> QED
    BY <2>1, <2>4, RowStep
<1>2. ASSUME NEW q \in Requests, RejectRequest(q)
      PROVE  PipelineInv'
  <2>1. /\ UNCHANGED <<kind, newest, generations, checkpoint, published, cron, instance, pulls,
                       blocker, graphVersion, link, starting, resolving>>
        /\ q \in Rows /\ SetStatus(q, "rejected")
    BY <1>2 DEF RejectRequest, SameWatch, blockerVars, factoryVars, Rows
  <2> QED
    BY <2>1, SetStatusKeeps, RowStep
<1>3. ASSUME NEW q \in Requests, BuildReportsMissing(q)
      PROVE  PipelineInv'
  <2>1. /\ UNCHANGED <<kind, newest, generations, checkpoint, published, cron, instance, pulls, link,
                       starting, resolving>>
        /\ SetStatus(q, "blocked") /\ Report(q)
    BY <1>3 DEF BuildReportsMissing, SameWatch, factoryVars
  <2>2. q \in Rows /\ q \in Nodes
    BY <1>3 DEF BuildReportsMissing, Rows, Nodes
  <2>3. RowsStep
    BY <2>1, <2>2, SetStatusKeeps
  <2>4. FactoryStep
    BY <2>1, <2>3, StatusStep
  <2> QED
    BY <2>1, <2>2, <2>3, <2>4, NewBlockerKeeps, CallsStay, Together
<1> QED
  BY <1>1, <1>2, <1>3, StartFactoryKeeps, CallPipelineKeeps, DispatchFailsKeeps, StartDiesKeeps,
     FinalizationKeeps DEF MaintainersStep

(* Every step of an integrity check. *)
LEMMA IntegrityKeeps ==
  ASSUME PipelineInv, IntegrityStep
  PROVE  PipelineInv'
<1>1. UNCHANGED <<kind, newest, generations, checkpoint, published, cron, instance, pulls,
                  blocker, graphVersion, link, starting, resolving>>
  BY DEF IntegrityStep, EditMain, ReadHead, ReadRows, FreezeRequest, SameWatch, watchVars,
         factoryVars, blockerVars, maintainerVars
<1>2. CASE UNCHANGED request
  BY <1>1, <1>2, Untouched
<1>3. CASE \E c \in Auditors : FreezeRequest(c)
  <2>1. PICK c \in Auditors : FreezeRequest(c)
    BY <1>3
  <2>2. SUFFICES ASSUME NEW q, q = check[c].request, ~ UNCHANGED request PROVE PipelineInv'
    BY <1>2
  <2>3. request[q].status \in {"review", "queued", "building"} /\ SetStatus(q, "failed")
    BY <2>1, <2>2 DEF FreezeRequest
  <2>4. request \in [Requests -> Row]
    BY DEF PipelineInv, TypeInv, RowsType
  <2>5. q \in Requests
    BY <2>2, <2>3, <2>4 DEF SetStatus
  <2>6. q \in Rows
    BY <2>3, <2>5 DEF Rows
  <2> QED
    BY <1>1, <2>3, <2>6, SetStatusKeeps, RowStep
<1> QED
  BY <1>2, <1>3 DEF IntegrityStep, EditMain, ReadHead, ReadRows, watchVars

-----------------------------------------------------------------------------
(***************************************************************************)
(* The invariant.                                                          *)
(***************************************************************************)
LEMMA InitHolds ==
  ASSUME Init
  PROVE  PipelineInv
<1>1. /\ kind \in SourceKinds /\ newest = 1 /\ generations = 0 /\ published = 0
      /\ request = [q \in Requests |-> NoRequest]
      /\ checkpoint = [q \in 0 .. MaxRequest |-> 0]
      /\ instance = [g \in Generations |-> NoInstance]
      /\ cron = [c \in Crons |-> NoCheck]
      /\ pulls = [g \in Generations |-> "none"]
      /\ blocker = [n \in Nodes |-> NoBlocker] /\ graphVersion = 0
      /\ link = [m \in Linkers |-> NoLink]
      /\ starting = [g \in Generations |-> NoStart]
      /\ resolving = [r \in Resolvers |-> NoResolver]
  BY DEF Init, WatchInit, WatchStart, FactoryInit, BlockerInit
<1>2. NoRequest \in Row
  BY DEF NoRequest, Row, Statuses
<1>3. RowsType
  BY <1>1, <1>2, Bounds DEF RowsType
<1>4. Rows = {}
  BY <1>1 DEF Rows, NoRequest
<1>5. RowsInv
  <2>1. Numbered
    <3>1. Rows = 1 .. 0 /\ 0 \in 0 .. MaxRequest
      BY <1>4, Bounds
    <3> QED
      BY <3>1 DEF Numbered
  <2>2. ASSUME NEW q \in Requests PROVE RowOK(q)
    <3>1. request[q] = NoRequest
      BY <1>1
    <3> QED
      BY <1>1, <3>1, Bounds DEF RowOK, NoRequest, Budgeted
  <2> QED
    BY <1>1, <2>1, <2>2 DEF RowsInv, Shipped
<1>6. NoCheck \in Check
  BY Bounds DEF NoCheck, Check, CheckSteps, Statuses
<1>7. CheckOK(NoCheck)
  BY <1>1 DEF CheckOK, NoCheck, Shipped
<1>8. ChecksType /\ ChecksInv
  <2>1. \A c \in Crons : cron[c] = NoCheck
    BY <1>1
  <2> QED
    BY <1>1, <1>6, <1>7, <2>1 DEF ChecksType, ChecksInv
<1>9. NoInstance \in Instance /\ "none" \in Pulls
  BY Bounds DEF NoInstance, Instance, FactorySteps, Pulls
<1>10. InstancesType /\ InstancesInv
  <2>1. \A g \in Generations : instance[g].status = "none"
    BY <1>1 DEF NoInstance
  <2> QED
    BY <1>1, <1>9, <2>1 DEF InstancesType, InstancesInv, InstanceOK
<1>11. NoBlocker \in Blocker /\ NoLink \in Link
  BY DEF NoBlocker, Blocker, NoLink, Link, Node
<1>12. LinksType
  BY <1>1, <1>11 DEF LinksType
<1>13. LinksAdmissible
  <2>1. \A n \in Nodes : ~ Linked(n)
    BY <1>1 DEF Linked, Open, NoBlocker
  <2>2. Graph = {}
    BY <2>1 DEF Graph
  <2> QED
    BY <2>2, NoEdges DEF LinksAdmissible, Graph
<1>14. \A m \in Linkers : LinkOK(m)
  BY <1>1 DEF LinkOK, NoLink
<1>15. NoStart \in Start /\ NoResolver \in Resolver
  BY NoResolverIsResolver, Bounds DEF NoStart, Start
<1>16. CallsType /\ CallsInv
  <2>1. \A g \in Generations : starting[g].pc = "none"
    BY <1>1 DEF NoStart
  <2> QED
    BY <1>1, <1>15, <2>1 DEF CallsType, CallsInv
<1> QED
  BY <1>3, <1>5, <1>8, <1>10, <1>12, <1>13, <1>14, <1>16 DEF PipelineInv, TypeInv, LinksInv

(* Upstream publishes a release. *)
LEMMA NewReleaseKeeps ==
  ASSUME PipelineInv, NewRelease /\ UnchangedByWatch
  PROVE  PipelineInv'
<1>1. UNCHANGED <<kind, request, generations, checkpoint, published, cron, instance, pulls,
                  blocker, graphVersion, link, starting, resolving>>
  BY DEF NewRelease, UnchangedByWatch, factoryVars, blockerVars, maintainerVars
<1>2. newest \in Nat /\ newest' = newest + 1 /\ request \in [Requests -> Row] /\ generations \in Nat
  BY DEF PipelineInv, TypeInv, RowsType, NewRelease
<1>3. Rows' = Rows
  BY <1>1 DEF Rows
<1>4. Numbered'
  BY <1>3 DEF PipelineInv, RowsInv, Numbered
<1>5. ASSUME NEW q \in Requests PROVE RowOK(q)'
  <2>1. RowOK(q) /\ request'[q] = request[q]
    BY <1>1 DEF PipelineInv, RowsInv
  <2>2. request[q].status # "none" => request[q].release \in 1 .. newest'
    <3>1. request[q].status # "none" => request[q].release \in 1 .. newest
      BY <2>1 DEF RowOK
    <3> QED
      BY <1>2, <3>1
  <2> QED
    BY <1>1, <2>1, <2>2 DEF RowOK, Named, Budgeted
<1>6. RowsStep
  BY <1>1, <1>2, <1>3, <1>4, <1>5 DEF RowsStep
<1> QED
  BY <1>1, <1>6, RowStep

(* Every step keeps the invariant. *)
LEMMA NextHolds ==
  ASSUME PipelineInv, [Next]_vars
  PROVE  PipelineInv'
<1>1. CASE NewRelease /\ UnchangedByWatch
  BY <1>1, NewReleaseKeeps
<1>2. CASE NeighbourPublished /\ UnchangedByWatch
  <2>1. UNCHANGED <<kind, newest, request, generations, checkpoint, published, cron, instance,
                    pulls, blocker, graphVersion, link, starting, resolving>>
    BY <1>2 DEF NeighbourPublished, UnchangedByWatch, factoryVars, blockerVars, maintainerVars
  <2> QED
    BY <2>1, Untouched
<1>3. CASE \E c \in Crons : (Watch(c) \/ CronDies(c)) /\ UnchangedByWatch
  <2>1. PICK c \in Crons : (Watch(c) \/ CronDies(c)) /\ UnchangedByWatch
    BY <1>3
  <2>2. UNCHANGED <<pulls, blocker, graphVersion, link, starting, resolving>>
    BY <2>1 DEF UnchangedByWatch, factoryVars, blockerVars, maintainerVars
  <2>3. FactoryStep /\ RowsStep
    BY <2>1, <2>2, WatchKeeps DEF FactoryStep, WatchStep
  <2> QED
    BY <2>2, <2>3, LinksStay, CallsStay, Together
<1>4. CASE \E g \in Generations : (RunFactory(g) \/ Terminate(g)) /\ UnchangedByFactory
  <2>1. UNCHANGED <<blocker, graphVersion, link, starting, resolving>>
    BY <1>4 DEF UnchangedByFactory, blockerVars, maintainerVars
  <2>2. FactoryStep /\ RowsStep
    BY <1>4, FactoryKeeps DEF FactoryStep, WatchStep
  <2> QED
    BY <2>1, <2>2, LinksStay, CallsStay, Together
<1>5. CASE RunPublication /\ UNCHANGED <<blockerVars, maintainerVars, sourceVars>>
  <2>1. UNCHANGED <<blocker, graphVersion, link, starting, resolving>>
    BY <1>5 DEF blockerVars, maintainerVars
  <2>2. FactoryStep /\ RowsStep
    BY <1>5, PublicationKeeps DEF FactoryStep, WatchStep
  <2> QED
    BY <2>1, <2>2, LinksStay, CallsStay, Together
<1>6. CASE WorkOnBlockers /\ UNCHANGED <<maintainerVars, sourceVars>>
  BY <1>6, BlockersKeep DEF maintainerVars
<1>7. CASE MaintainersStep
  BY <1>7, MaintainersKeep
<1>8. CASE IntegrityStep
  BY <1>8, IntegrityKeeps
<1>9. CASE UNCHANGED vars
  <2>1. UNCHANGED <<kind, newest, request, generations, checkpoint, published, cron, instance,
                    pulls, blocker, graphVersion, link, starting, resolving>>
    BY <1>9 DEF vars, watchVars, factoryVars, blockerVars, maintainerVars
  <2> QED
    BY <2>1, Untouched
<1> QED
  BY <1>1, <1>2, <1>3, <1>4, <1>5, <1>6, <1>7, <1>8, <1>9 DEF Next

(* The invariant of the pipeline, for any number of cron runs, requests,     *)
(* generations, maintainers, resolved blockers and integrity checks: what a  *)
(* cron run, a workflow, a call of the pipeline and a linking maintainer     *)
(* read stays usable for the conditional write that follows                  *)
(* (recordUpstreamRelease, prepareAutomaticFactoryRun,                       *)
(* persistFactoryRevision, startFactory, linkDependencyRequest).             *)
THEOREM PipelineInvariant == Spec => []PipelineInv
<1>1. Init => PipelineInv
  BY InitHolds
<1>2. PipelineInv /\ [Next]_vars => PipelineInv'
  BY NextHolds
<1> QED
  BY <1>1, <1>2, PTL DEF Spec

(* What the invariant says of generations and links. *)
LEMMA InvGivesBounds == PipelineInv => GenerationsBounded /\ LinksAdmissible
BY DEF PipelineInv, RowsInv, RowOK, Budgeted, LinksInv, GenerationsBounded

(* A newest release that the checkpoint holds is published or has a request. *)
LEMMA InvKeepsReleases ==
  ASSUME PipelineInv
  PROVE  ReleaseKept
<1>1. SUFFICES ASSUME Named, checkpoint[published] = newest
               PROVE  \/ ReleaseOf(published) = newest
                      \/ \E q \in Rows : Packages(q, newest)
  BY DEF ReleaseKept, Named
<1>2. newest \in Nat \ {0} /\ published \in 0 .. MaxRequest /\ Shipped(published)
  BY DEF PipelineInv, TypeInv, RowsType, RowsInv
<1>3. Known(newest)
  BY <1>1, <1>2 DEF PipelineInv, RowsInv
<1>4. ASSUME NEW q \in Rows, request[q].release = newest
      PROVE  Packages(q, newest)
  <2>1. RowOK(q)
    BY DEF PipelineInv, RowsInv, Rows
  <2> QED
    BY <1>1, <1>4, <2>1 DEF RowOK, Packages, SameSource
<1>5. CASE \E q \in Rows : request[q].release = newest
  BY <1>4, <1>5
<1>6. CASE newest = 1
  <2>1. CASE published = 0
    BY <1>6, <2>1 DEF ReleaseOf
  <2>2. CASE published # 0
    <3>1. published \in Rows
      BY <1>2, <2>2 DEF Shipped
    <3>2. request[published].release \in 1 .. newest
      BY <3>1 DEF PipelineInv, RowsInv, RowOK, Rows
    <3>3. request[published].release = newest
      BY <1>6, <3>2
    <3> QED
      BY <1>4, <3>1, <3>3
  <2> QED
    BY <2>1, <2>2
<1> QED
  BY <1>3, <1>5, <1>6 DEF Known

-----------------------------------------------------------------------------
(***************************************************************************)
(* How a request comes to review.                                          *)
(***************************************************************************)
OnlyReopens ==
  \A q \in Requests :
    request'[q].status = "review" => request[q].status \in {"review", "blocked"}

(* A row that takes another status than review. *)
LEMMA OtherStatus ==
  ASSUME PipelineInv, NEW q, NEW s, SetStatus(q, s), s # "review"
  PROVE  OnlyReopens
<1>1. request \in [Requests -> Row]
  BY DEF PipelineInv, TypeInv, RowsType
<1>2. ASSUME NEW p \in Requests PROVE request'[p].status \in {request[p].status, s}
  <2>1. request[p] \in Row
    BY <1>1
  <2> QED
    BY <1>1, <2>1 DEF SetStatus, Row
<1> QED
  BY <1>2 DEF OnlyReopens

(* Rows left alone. *)
LEMMA SameRows ==
  ASSUME UNCHANGED request
  PROVE  OnlyReopens
BY DEF OnlyReopens

(* An inserted row is pending. *)
LEMMA InsertIsPending ==
  ASSUME PipelineInv, NEW owner, NEW release, Insert(owner, release)
  PROVE  OnlyReopens
<1>1. request \in [Requests -> Row]
  BY DEF PipelineInv, TypeInv, RowsType
<1>2. SUFFICES ASSUME NEW n, n = NewRequest, NEW row,
                      row = [NoRequest EXCEPT !.status = "pending", !.owner = owner,
                                              !.release = release]
               PROVE  OnlyReopens
  OBVIOUS
<1>3. request' = [request EXCEPT ![n] = row] /\ row.status = "pending"
  BY <1>2 DEF Insert, NoRequest
<1>4. ASSUME NEW p \in Requests PROVE request'[p] = request[p] \/ request'[p].status = "pending"
  BY <1>1, <1>3
<1> QED
  BY <1>4 DEF OnlyReopens

(* Cron runs bring no request to review. *)
LEMMA WatchNeverReviews ==
  ASSUME PipelineInv, NEW c \in Crons, Watch(c) \/ CronDies(c)
  PROVE  OnlyReopens
<1>1. CASE UNCHANGED request
  BY <1>1, SameRows
<1>2. CASE CreateRequest(c)
  <2>1. CASE Insert("system", cron[c].release)
    <3>1. SUFFICES ASSUME NEW r, Insert("system", r) PROVE OnlyReopens
      BY <2>1
    <3> QED
      BY <3>1, InsertIsPending
  <2> QED
    BY <1>1, <1>2, <2>1 DEF CreateRequest
<1>3. CASE ClaimGeneration(c)
  <2>1. SUFFICES ASSUME NEW q, NEW g,
                        request' = [request EXCEPT ![q].status = "generating",
                                      ![q].generation = g, ![q].autos = @ + 1]
                 PROVE  OnlyReopens
    BY <1>1, <1>3 DEF ClaimGeneration
  <2>2. request \in [Requests -> Row]
    BY DEF PipelineInv, TypeInv, RowsType
  <2>3. ASSUME NEW p \in Requests
        PROVE  request'[p].status \in {request[p].status, "generating"}
    <3>1. request[p] \in Row
      BY <2>2
    <3> QED
      BY <2>1, <2>2, <3>1 DEF Row
  <2> QED
    BY <2>3 DEF OnlyReopens
<1>4. CASE RecordDispatchFailure(c)
  <2>1. SUFFICES ASSUME NEW q, SetStatus(q, "failed") PROVE OnlyReopens
    BY <1>1, <1>4 DEF RecordDispatchFailure
  <2> QED
    BY <2>1, OtherStatus
<1> QED
  BY <1>1, <1>2, <1>3, <1>4
     DEF Watch, CheckUpstream, DispatchUpstreamFactory, SelectTracked, InspectSource,
         ReadCheckpoint, FindDuplicate, FindActive, AdvanceCheckpoint, ReadRequest,
         CountGenerations, CreateInstance, ConfirmInstance, CronDies

(* A generation that enters review is the request's, with its pull request;  *)
(* a finalization that queued nothing gives back the review it took.         *)
ReviewStep ==
  \A q \in Requests :
    request'[q].status = "review" /\ request[q].status \notin {"review", "blocked"} =>
      \/ /\ request[q].status = "generating"
         /\ request'[q].revision.generation = request'[q].generation
         /\ pulls'[request'[q].generation] = "open"
      \/ /\ request[q].status = "queued" /\ ~HasBuilds(q)
         /\ request'[q] = [request[q] EXCEPT !.status = "review"]

(* A request blocked while in review returns to it: no new review. *)
LEMMA ReopeningIsNoReview ==
  ASSUME OnlyReopens
  PROVE  ReviewStep
BY DEF OnlyReopens, ReviewStep

(* The workflow brings a request to review only with the revision of its own *)
(* generation and an open pull request.                                      *)
LEMMA FactoryReviews ==
  ASSUME PipelineInv, NEW g \in Generations, RunFactory(g) \/ Terminate(g)
  PROVE  ReviewStep
<1>1. CASE UNCHANGED request
  BY <1>1, SameRows, ReopeningIsNoReview
<1>2. CASE EnterReview(g) /\ ~ UNCHANGED request
  <2>1. /\ Request(g).generation = g /\ Request(g).status = "generating"
        /\ SetRevision(g, "review") /\ pulls' = pulls
        /\ instance[g].status = "running" /\ instance[g].pc = "review"
    BY <1>2 DEF EnterReview, Current, Running
  <2>2. SUFFICES ASSUME NEW r, r = instance[g].request, NEW v, v = Packaged(g)
                 PROVE  ReviewStep
    OBVIOUS
  <2>3. /\ r \in Requests /\ request \in [Requests -> Row] /\ request[r] \in Row
        /\ request[r].generation = g /\ request[r].status = "generating"
        /\ pulls[g] = "open" /\ v.generation = g
    BY <2>1, <2>2, InstanceRow DEF PipelineInv, TypeInv, RowsType, Request, Packaged
  <2>4. request' = [request EXCEPT ![r].status = "review", ![r].revision = v]
    BY <2>1, <2>2 DEF SetRevision
  <2>5. request'[r].revision = v /\ request'[r].generation = g
    BY <2>3, <2>4 DEF Row
  <2>6. \A p \in Requests \ {r} : request'[p] = request[p]
    BY <2>3, <2>4
  <2>7. ASSUME NEW p \in Requests, request'[p].status = "review",
               request[p].status \notin {"review", "blocked"}
        PROVE  /\ request[p].status = "generating"
               /\ request'[p].revision.generation = request'[p].generation
               /\ pulls'[request'[p].generation] = "open"
    <3>1. p = r
      BY <2>6, <2>7
    <3> QED
      BY <2>1, <2>3, <2>5, <3>1
  <2> QED
    BY <2>7 DEF ReviewStep
<1>3. CASE AppendRevision(g)
  <2>1. SetRevision(g, Request(g).status) /\ instance[g].status = "running"
    BY <1>3 DEF AppendRevision, Running
  <2>2. SUFFICES ASSUME NEW r, r = instance[g].request, NEW v, v = Packaged(g),
                        NEW s, s = request[r].status
                 PROVE  OnlyReopens
    BY ReopeningIsNoReview
  <2>3. r \in Requests /\ request \in [Requests -> Row]
    BY <2>1, <2>2, InstanceRow DEF PipelineInv, TypeInv, RowsType
  <2>4. request' = [request EXCEPT ![r].status = s, ![r].revision = v]
    BY <2>1, <2>2 DEF SetRevision, Request
  <2>5. \A p \in Requests : request'[p].status = request[p].status
    BY <2>2, <2>3, <2>4 DEF Row
  <2> QED
    BY <2>5 DEF OnlyReopens
<1>4. CASE FailRequest(g)
  <2>1. SUFFICES ASSUME NEW q, SetStatus(q, "failed") PROVE OnlyReopens
    BY <1>1, <1>4, ReopeningIsNoReview DEF FailRequest
  <2> QED
    BY <2>1, OtherStatus
<1> QED
  BY <1>1, <1>2, <1>3, <1>4
     DEF RunFactory, Begin, Prepare, PrepareFails, RunLost, CreateBranch, CommitRecipeTree, OpenPull,
         PullStep, ReadForRevision, BuildsSucceed, BuildsFail, StopRun, Terminate

(* Publications bring no request to review. *)
LEMMA PublicationNeverReviews ==
  ASSUME PipelineInv, RunPublication
  PROVE  OnlyReopens
<1>1. CASE UNCHANGED request
  BY <1>1, SameRows
<1>2. CASE \E q \in Requests : SetStatus(q, "built")
  BY <1>2, OtherStatus
<1> QED
  BY <1>1, <1>2 DEF RunPublication, PublishBuild, CompleteJob, PublishFails, FailJob, Enqueue,
                    ReadJob, CreateFlow, InspectFlow, MarkCall, CallDies

(* Resolving the last blocker returns a request to where it was. *)
LEMMA BlockersOnlyReopen ==
  ASSUME PipelineInv, WorkOnBlockers
  PROVE  OnlyReopens
<1>1. CASE UNCHANGED request
  BY <1>1, SameRows
<1>2. CASE \E g \in Generations : ReportMissing(g)
  <2>1. SUFFICES ASSUME NEW q, SetStatus(q, "blocked") PROVE OnlyReopens
    BY <1>2 DEF ReportMissing
  <2> QED
    BY <2>1, OtherStatus
<1>3. CASE \E r \in Resolvers : \E n \in resolving[r].parents : Resume(r, n)
  <2>1. PICK r \in Resolvers : \E n : Resume(r, n)
    BY <1>3
  <2>2. PICK n : Resume(r, n)
    BY <2>1
  <2>3. SUFFICES ASSUME n \in Requests, request[n].status = "blocked", NEW row,
                        request' = [request EXCEPT ![n] = row]
                 PROVE  OnlyReopens
    BY <1>1, <2>2 DEF Resume, StillBlocked
  <2>4. request \in [Requests -> Row]
    BY DEF PipelineInv, TypeInv, RowsType
  <2>5. \A p \in Requests \ {n} : request'[p] = request[p]
    BY <2>3, <2>4
  <2> QED
    BY <2>3, <2>5 DEF OnlyReopens
<1> QED
  BY <1>1, <1>2, <1>3
     DEF WorkOnBlockers, BlockOther, PublishProvider, ReadBlockers, ReadReleases, ResolveBlocker,
         ResolverDies, BeginLink, CheckGraph, LinkBlocker, SameRequests, watchVars

(* A finalization that failed gives back the review it took, before any build *)
(* of the revision is queued.                                                  *)
LEMMA ReopeningReviews ==
  ASSUME PipelineInv, NEW q \in Requests, ReopenFinalization(q)
  PROVE  ReviewStep
<1>1. CASE UNCHANGED request
  BY <1>1, SameRows, ReopeningIsNoReview
<1>2. CASE request[q].status = "queued" /\ ~HasBuilds(q) /\ SetStatus(q, "review")
  <2>1. request \in [Requests -> Row]
    BY DEF PipelineInv, TypeInv, RowsType
  <2>2. /\ request'[q] = [request[q] EXCEPT !.status = "review"]
        /\ \A p \in Requests \ {q} : request'[p] = request[p]
    BY <1>2, <2>1 DEF SetStatus
  <2> QED
    BY <1>2, <2>2 DEF ReviewStep
<1> QED
  BY <1>1, <1>2 DEF ReopenFinalization

(* Nothing else that maintainers do brings a request to review. *)
LEMMA MaintainersReview ==
  ASSUME PipelineInv, MaintainersStep
  PROVE  ReviewStep
<1>1. CASE UNCHANGED request
  BY <1>1, SameRows, ReopeningIsNoReview
<1>2. CASE SubmitRequest
  <2>1. SUFFICES ASSUME NEW r, Insert("maintainer", r) PROVE OnlyReopens
    BY <1>2, ReopeningIsNoReview DEF SubmitRequest
  <2> QED
    BY <2>1, InsertIsPending
<1>3. CASE \E q \in Requests : StartFactory(q)
  <2>1. PICK q \in Requests : StartFactory(q)
    BY <1>3
  <2>2. PICK g : request' = [request EXCEPT ![q].status = "generating", ![q].generation = g]
    BY <2>1 DEF StartFactory
  <2>3. request \in [Requests -> Row]
    BY DEF PipelineInv, TypeInv, RowsType
  <2>4. ASSUME NEW p \in Requests PROVE request'[p].status \in {request[p].status, "generating"}
    <3>1. request[p] \in Row
      BY <2>3
    <3> QED
      BY <2>2, <2>3, <3>1 DEF Row
  <2> QED
    BY <2>4, ReopeningIsNoReview DEF OnlyReopens
<1>4. CASE \E q : \E s \in {"rejected", "queued", "building", "blocked", "failed"} : SetStatus(q, s)
  BY <1>4, OtherStatus, ReopeningIsNoReview
<1>5. CASE \E q \in Requests : ReopenFinalization(q)
  BY <1>5, ReopeningReviews
<1>6. ASSUME NEW q \in Requests,
             \/ RejectRequest(q) \/ LockFinalization(q) \/ Build(q) \/ BuildFails(q)
             \/ BuildReportsMissing(q)
      PROVE  \E s \in {"rejected", "queued", "building", "blocked", "failed"} : SetStatus(q, s)
  BY <1>6 DEF RejectRequest, LockFinalization, Build, BuildFails, BuildReportsMissing
<1>7. ASSUME NEW g \in Generations, CallPipeline(g) \/ DispatchFails(g) \/ StartDies(g)
      PROVE  UNCHANGED request \/ \E q : SetStatus(q, "failed")
  BY <1>7 DEF CallPipeline, DispatchFails, StartDies
<1>8. ASSUME NEW q \in Requests, MergeRecipe(q) \/ QueueBuilds(q) \/ FinalizationDies(q)
      PROVE  UNCHANGED request
  BY <1>8 DEF MergeRecipe, QueueBuilds, FinalizationDies
<1> QED
  BY <1>1, <1>2, <1>3, <1>4, <1>5, <1>6, <1>7, <1>8 DEF MaintainersStep

(* Nor do integrity checks. *)
LEMMA IntegrityNeverReviews ==
  ASSUME PipelineInv, IntegrityStep
  PROVE  OnlyReopens
<1>1. CASE UNCHANGED request
  BY <1>1, SameRows
<1>2. CASE \E q : SetStatus(q, "failed")
  BY <1>2, OtherStatus
<1>3. (UNCHANGED request) \/ \E q : SetStatus(q, "failed")
  <2>1. CASE EditMain \/ \E c \in Auditors : ReadHead(c) \/ ReadRows(c)
    BY <2>1 DEF EditMain, ReadHead, ReadRows, watchVars
  <2>2. CASE \E c \in Auditors : FreezeRequest(c)
    BY <2>2 DEF FreezeRequest
  <2> QED
    BY <2>1, <2>2 DEF IntegrityStep
<1> QED
  BY <1>1, <1>2, <1>3

(* Every step. *)
LEMMA StepReviews ==
  ASSUME PipelineInv, [Next]_vars
  PROVE  ReviewStep
<1>1. CASE \/ (NewRelease \/ NeighbourPublished) /\ UnchangedByWatch
           \/ UNCHANGED vars
  BY <1>1, SameRows, ReopeningIsNoReview DEF NewRelease, NeighbourPublished, vars, watchVars
<1>2. CASE \E c \in Crons : (Watch(c) \/ CronDies(c)) /\ UnchangedByWatch
  BY <1>2, WatchNeverReviews, ReopeningIsNoReview
<1>3. CASE \E g \in Generations : (RunFactory(g) \/ Terminate(g)) /\ UnchangedByFactory
  BY <1>3, FactoryReviews
<1>4. CASE RunPublication
  BY <1>4, PublicationNeverReviews, ReopeningIsNoReview
<1>5. CASE WorkOnBlockers \/ MaintainersStep \/ IntegrityStep
  BY <1>5, BlockersOnlyReopen, MaintainersReview, IntegrityNeverReviews, ReopeningIsNoReview
<1> QED
  BY <1>1, <1>2, <1>3, <1>4, <1>5 DEF Next

-----------------------------------------------------------------------------
(* A request has no more automatic generations than its budget and one for   *)
(* each time it was resumed, though they are counted in one statement and    *)
(* claimed in another and cron runs overlap (release.ts); the links that     *)
(* maintainers make at the same time never close a cycle or exceed the depth *)
(* (dependency-blockers.ts).                                                 *)
THEOREM GenerationsAndLinks == Spec => [](GenerationsBounded /\ LinksAdmissible)
BY PipelineInvariant, InvGivesBounds, PTL

(* Moreover no release is forgotten: where a source names each release       *)
(* apart, once the checkpoint of the published recipe holds the newest       *)
(* release, that release is published or a request packages it               *)
(* (recordUpstreamRelease).                                                  *)
THEOREM RequestsSound == Spec => []RequestsAreSound
<1>1. PipelineInv => RequestsAreSound
  BY InvGivesBounds, InvKeepsReleases DEF RequestsAreSound
<1> QED
  BY <1>1, PipelineInvariant, PTL

(* A request comes to review only with the revision of its latest generation *)
(* and an open pull request, though workflows of earlier generations are     *)
(* still under way, steps are retried and maintainers start others           *)
(* (persistFactoryRevision of revision.ts, services/pipeline), or comes back *)
(* to it from a finalization that queued no build (reopenFinalization of     *)
(* requests.ts).                                                             *)
THEOREM ReviewsAreCurrent == Spec => ReviewIsCurrent
<1>1. PipelineInv /\ [Next]_vars =>
        [\A q \in Requests :
           request'[q].status = "review" /\ request[q].status \notin {"review", "blocked"} =>
             \/ /\ request[q].status = "generating"
                /\ request'[q].revision.generation = request'[q].generation
                /\ pulls'[request'[q].generation] = "open"
             \/ /\ request[q].status = "queued" /\ ~HasBuilds(q)
                /\ request'[q] = [request[q] EXCEPT !.status = "review"]]_vars
  BY StepReviews DEF ReviewStep
<1> QED
  BY <1>1, PipelineInvariant, PTL DEF Spec, ReviewIsCurrent
===============================================================================
