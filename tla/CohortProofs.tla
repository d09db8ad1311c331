----------------------------- MODULE CohortProofs -----------------------------
(* Proofs about Cohort, for any packages, parent universe, recipes, cohorts   *)
(* and calls, and any bounds.                                                 *)
(*                                                                            *)
(* A gate is evaluated page by page, or by a call that commits later.  What   *)
(* makes the sum of the pages count is that the epoch moves with everything a *)
(* gate reads, so a clean page is clean now.  An inline gate has no epoch:    *)
(* its findings stay true because the outputs of a scope past its build phase *)
(* cannot change while its recipes are the latest, which in turn rests on     *)
(* each recipe having one owner.  CohortInv says both.                        *)
EXTENDS Cohort, FiniteSetTheorems, TLAPS

-----------------------------------------------------------------------------
(* The inductive invariant *)

AllBytes == {b.bytes : b \in Parent} \cup (Packages \X Nat \X Nat)
Row == [recipe : Nat, revision : Nat, number : Nat, status : {"queued", "leased", "succeeded"},
        lock : SUBSET AllBytes]
Pcs == {"idle", "propose", "seal", "page", "paged", "phase"}
Call == [pc : Pcs, cohort : Cohorts \cup {Null}, upload : Uploads \cup {Null}, members : SUBSET Member,
         pkg : Packages \cup {Null}, row : CohortRow \cup {Null}, clean : BOOLEAN,
         passes : BOOLEAN, fresh : BOOLEAN, current : BOOLEAN, rows : BOOLEAN]

TypeOK ==
  /\ cohorts \in [Cohorts -> CohortRow \cup {Null}]
  /\ owner \in [Keys -> Cohorts \cup {Null}]
  /\ catalog \in [Packages -> [revision : Nat, admitted : BOOLEAN]]
  /\ recipe \in [Packages -> Nat]
  /\ selection \in [Packages -> [revision : Nat, lock : SUBSET AllBytes]]
  /\ builds \in [Packages -> Row]
  /\ pages \in [Cohorts -> [Packages -> {Null, "clean", "blocked"}]]
  /\ uploads \in [Uploads -> Upload \cup {Null}]
  /\ calls \in [Handlers -> Call]

(* A recipe exists, and a build that began has a number. *)
RecipesInv ==
  \A p \in Packages :
    /\ recipe[p] \in 1..Recipes[p]
    /\ builds[p].recipe \in 1..Recipes[p]
    /\ builds[p].number <= MaxBuilds
    /\ builds[p].status # "queued" => builds[p].number >= 1

(* The scope holds recipes of packages of its own, none of them newer than    *)
(* the latest.                                                                *)
ScopeInv(c) ==
  Open(c) =>
    /\ cohorts[c].members # {}
    /\ \A m \in cohorts[c].members :
         /\ <<m.pkg, m.recipe>> \in Keys
         /\ owner[<<m.pkg, m.recipe>>] = c
         /\ m.recipe <= recipe[m.pkg]
ScopesInv == \A c \in Cohorts : ScopeInv(c)

UploadsInv == \A u \in Uploads : uploads[u] # Null => uploads[u].count # 0

(* While its recipes are the latest, the outputs of a scope are there and the *)
(* universe they make has no finding.                                         *)
Latest(c) == \A m \in Members(c) : recipe[m.pkg] = m.recipe
AllBuilt(c) ==
  \A m \in Members(c) : builds[m.pkg].status = "succeeded" /\ builds[m.pkg].recipe = m.recipe
Settled(c) == Latest(c) => AllBuilt(c) /\ Findings(Universe(c), Parent) = {}
Late == {"verify", "stage", "approve"}

Same(row, d) == row.revision = d.revision /\ row.phase = d.phase /\ row.members = d.members
(* A row read earlier: phases go forward within a revision. *)
Before(row, d) ==
  /\ row.revision <= d.revision
  /\ row.revision = d.revision => Index(row.phase) <= Index(d.phase)

CallInv(x) ==
  /\ x.pc # "idle" => x.cohort \in Cohorts
  /\ x.pc = "propose" => x.members # {}
  /\ x.pc = "seal" =>
       /\ x.upload \in Uploads /\ uploads[x.upload] # Null
       /\ uploads[x.upload].cohort = x.cohort
       /\ Cardinality(x.members) = uploads[x.upload].count
  /\ x.pc \in {"page", "paged", "phase"} => x.row \in CohortRow
  /\ x.pc \in {"page", "paged"} => x.pkg \in Packages
  /\ x.pc = "paged" =>
       /\ Open(x.cohort) /\ Before(x.row, cohorts[x.cohort])
       /\ x.fresh /\ x.clean /\ Same(x.row, cohorts[x.cohort])
            => Gate(x.cohort, Page(x.cohort, x.pkg))
  /\ x.pc = "phase" /\ x.current =>
       /\ cohorts[x.cohort] = x.row
       /\ x.passes /\ ~x.row.chunked /\ x.row.phase \in Late => Settled(x.cohort)
CallsInv == \A h \in Handlers : CallInv(calls[h])

(* The ledger holds clean pages that are clean now. *)
LedgerInv ==
  \A c \in Cohorts, p \in Packages : pages[c][p] = "clean" => Open(c) /\ Gate(c, Page(c, p))

StagedInv ==
  \A c \in Cohorts : Open(c) /\ cohorts[c].phase \in {"stage", "approve"} => Settled(c)

CohortInv ==
  /\ TypeOK
  /\ RecipesInv
  /\ ScopesInv
  /\ UploadsInv
  /\ CallsInv
  /\ LedgerInv
  /\ StagedInv

-----------------------------------------------------------------------------
(* Phases *)

PhaseNames == {"plan", "review", "build", "verify", "stage", "approve"}

LEMMA PhaseFacts ==
  /\ {Phases[i] : i \in 1..6} = PhaseNames
  /\ Index("plan") = 0 /\ Index("review") = 1 /\ Index("build") = 2
  /\ Index("verify") = 3 /\ Index("stage") = 4 /\ Index("approve") = 5
  /\ Next5("plan") = "review" /\ Next5("review") = "build" /\ Next5("build") = "verify"
  /\ Next5("verify") = "stage" /\ Next5("stage") = "approve"
<1>1. /\ Phases[1] = "plan" /\ Phases[2] = "review" /\ Phases[3] = "build"
      /\ Phases[4] = "verify" /\ Phases[5] = "stage" /\ Phases[6] = "approve"
    BY DEF Phases
<1>2. {Phases[i] : i \in 1..6} = PhaseNames
    BY <1>1 DEF PhaseNames
<1>3. ASSUME NEW n \in 0..5, NEW ph, ph = Phases[n + 1]
      PROVE  Index(ph) = n
  <2>1. \A i \in 0..5 : Phases[i + 1] = ph => i = n
      BY <1>1, <1>3
  <2> QED BY <1>3, <2>1 DEF Index
<1>4. /\ Index("plan") = 0 /\ Index("review") = 1 /\ Index("build") = 2
      /\ Index("verify") = 3 /\ Index("stage") = 4 /\ Index("approve") = 5
  <2>1. Index("plan") = 0
      BY <1>1, <1>3
  <2>2. Index("review") = 1
      BY <1>1, <1>3
  <2>3. Index("build") = 2
      BY <1>1, <1>3
  <2>4. Index("verify") = 3
      BY <1>1, <1>3
  <2>5. Index("stage") = 4
      BY <1>1, <1>3
  <2>6. Index("approve") = 5
      BY <1>1, <1>3
  <2> QED BY <2>1, <2>2, <2>3, <2>4, <2>5, <2>6
<1> QED BY <1>1, <1>2, <1>4 DEF Next5

LEMMA PhaseSteps ==
  ASSUME NEW row \in CohortRow
  PROVE  /\ row.phase \in PhaseNames /\ row.revision \in Nat
         /\ Index(row.phase) \in 0..5
         /\ row.phase \in Late <=> Index(row.phase) >= 3
         /\ row.phase # "approve" =>
              /\ Next5(row.phase) \in PhaseNames
              /\ Index(Next5(row.phase)) = Index(row.phase) + 1
         /\ row.phase # "approve" /\ Next5(row.phase) \in {"stage", "approve"} => row.phase \in Late
<1>1. row.phase \in PhaseNames /\ row.revision \in Nat
    BY PhaseFacts DEF CohortRow
<1> QED BY <1>1, PhaseFacts DEF PhaseNames, Late

-----------------------------------------------------------------------------
(* A universe without findings can be installed *)

LEMMA NoDuplicates ==
  ASSUME NEW U, Findings(U, Parent) = {}
  PROVE  \A p, q \in U : p.name = q.name => p = q
<1>1. DuplicateNames(U) = {}
    BY DEF Findings
<1> QED BY <1>1 DEF DuplicateNames

LEMMA Resolved ==
  ASSUME NEW U, Findings(U, Parent) = {}
  PROVE  /\ \A c \in U : \A d \in c.depends : \E p \in U : d \in NamesOf(p)
         /\ \A c \in U : \A s \in c.needed : \E p \in U : s \in p.sonames
<1>1. UnresolvedRelations(U) = {} /\ UnresolvedNeeded(U) = {}
    BY DEF Findings
<1> QED BY <1>1 DEF UnresolvedRelations, UnresolvedNeeded

LEMMA Bound ==
  ASSUME NEW U, Findings(U, Parent) = {}, NEW c \in U, NEW p \in U,
         c.origin = "candidate", Links(c, p)
  PROVE  p.bytes \in c.lock
<1>1. UnboundProviders(U) = {}
    BY DEF Findings
<1>2. \A pc \in U \X CandidatesOf(U) :
        ~(pc[1] \in ProvidersFor(U, pc[2]) /\ pc[1].bytes \notin pc[2].lock)
    BY <1>1 DEF UnboundProviders
<1>3. <<p, c>> \in U \X CandidatesOf(U) /\ p \in ProvidersFor(U, c)
    BY DEF CandidatesOf, ProvidersFor, Links
<1> QED BY <1>2, <1>3

LEMMA Rebuilt ==
  ASSUME NEW U, Findings(U, Parent) = {}, NEW c \in U, NEW p \in U,
         p.origin = "candidate", c.origin # "candidate", Links(c, p),
         \A b \in Parent : b.bytes # p.bytes
  PROVE  FALSE
<1>1. RebuildsRequired(U, Parent) = {}
    BY DEF Findings
<1>2. p \in SuccessorsOf(U, Parent)
    BY DEF SuccessorsOf, CandidatesOf, PreviousBytes, PreviousOf
<1>3. c.name # p.name
    BY NoDuplicates
<1>4. c \in ReverseConsumers(U, Parent, p)
    BY <1>3 DEF ReverseConsumers, Links
<1>5. \A pc \in SuccessorsOf(U, Parent) \X U :
        ~(pc[2] \in ReverseConsumers(U, Parent, pc[1]) /\ pc[2].origin # "candidate")
    BY <1>1 DEF RebuildsRequired
<1>6. <<p, c>> \in SuccessorsOf(U, Parent) \X U
    BY <1>2
<1> QED BY <1>4, <1>5, <1>6

LEMMA FindingsSound ==
  ASSUME NEW U, Findings(U, Parent) = {},
         \A p \in U : p.origin = "candidate" => \A b \in Parent : b.bytes # p.bytes
  PROVE  Sound(U)
<1>1. ASSUME NEW c \in U, NEW p \in U, Links(c, p), "candidate" \in {c.origin, p.origin}
      PROVE  p.bytes \in c.lock
  <2>1. CASE c.origin = "candidate"
      BY <1>1, <2>1, Bound
  <2>2. CASE c.origin # "candidate"
      BY <1>1, <2>2, Rebuilt
  <2> QED BY <2>1, <2>2
<1> QED BY <1>1, NoDuplicates, Resolved DEF Sound

(* The bytes of an output are no package's of the parent. *)
LEMMA UniverseSound ==
  ASSUME CohortInv, NEW c \in Cohorts, Open(c), Findings(Universe(c), Parent) = {}
  PROVE  Sound(Universe(c))
<1> DEFINE U == Universe(c)
<1>1. \A p \in U : p \in Outputs(c) \/ p \in Parent
    BY DEF Universe, UniverseOf
<1>2. ASSUME NEW p \in Outputs(c) PROVE \A b \in Parent : b.bytes # p.bytes
  <2>1. PICK m \in Members(c) : builds[m.pkg].status = "succeeded" /\ p = Output(m.pkg)
      BY <1>2 DEF Outputs
  <2>2. m.pkg \in Packages
      BY DEF CohortInv, TypeOK, Members, CohortRow, Member
  <2>3. p.bytes = <<m.pkg, builds[m.pkg].recipe, builds[m.pkg].number>>
      BY <2>1 DEF Output, Bytes
  <2>4. builds[m.pkg].recipe \in 1..Recipes[m.pkg] /\ builds[m.pkg].number \in 1..MaxBuilds
      BY <2>1, <2>2, CohortAssumption DEF CohortInv, TypeOK, RecipesInv, Row
  <2> QED BY <2>2, <2>3, <2>4, ParentAssumption
<1>3. \A p \in Parent : p.origin # "candidate"
    BY ParentAssumption
<1> HIDE DEF U
<1> QED BY <1>1, <1>2, <1>3, FindingsSound DEF U

-----------------------------------------------------------------------------
(* What a gate reads *)

LEMMA OpenTyped ==
  ASSUME TypeOK, NEW c \in Cohorts, Open(c)
  PROVE  /\ cohorts[c] \in CohortRow
         /\ Members(c) = cohorts[c].members
         /\ cohorts[c].members \subseteq Member
BY DEF TypeOK, Open, Members, CohortRow

LEMMA SameUniverse ==
  ASSUME NEW c, Members(c)' = Members(c),
         \A m \in Members(c) : builds'[m.pkg] = builds[m.pkg]
  PROVE  Universe(c)' = Universe(c)
<1> DEFINE Out(p, b) ==
      LET meta == Meta[p][b.recipe] IN
      [name |-> p, bytes |-> <<p, b.recipe, b.number>>, origin |-> "candidate", abi |-> TRUE,
       lock |-> b.lock, provides |-> meta.provides, depends |-> meta.depends,
       rebuildOn |-> meta.rebuildOn, sonames |-> meta.sonames, needed |-> meta.needed,
       exports |-> meta.exports, imports |-> meta.imports, archives |-> meta.archives]
     Done(M, f) == {x \in M : f[x.pkg].status = "succeeded" /\ f[x.pkg].recipe = x.recipe}
<1>1. Outputs(c) = {Out(m.pkg, builds[m.pkg]) : m \in Done(Members(c), builds)}
    BY DEF Outputs, Output, Bytes
<1>2. Outputs(c)' = {Out(m.pkg, builds'[m.pkg]) : m \in Done(Members(c)', builds')}
    BY DEF Outputs, Output, Bytes
<1> HIDE DEF Out
<1>3. Done(Members(c)', builds') = Done(Members(c), builds)
    OBVIOUS
<1>4. Outputs(c)' = Outputs(c)
    BY <1>1, <1>2, <1>3
<1> QED BY <1>4 DEF Universe

LEMMA SettledStays ==
  ASSUME NEW c \in Cohorts, TypeOK, ScopeInv(c), Open(c), Settled(c),
         cohorts'[c] # Null, cohorts'[c].members = cohorts[c].members,
         recipe' \in [Packages -> Nat], \A p \in Packages : recipe'[p] >= recipe[p],
         Latest(c) /\ Latest(c)' /\ AllBuilt(c)
           => \A m \in Members(c) : builds'[m.pkg] = builds[m.pkg]
  PROVE  Settled(c)'
<1>1. Members(c) = cohorts[c].members /\ Members(c)' = cohorts[c].members
    BY DEF Members, Open
<1>2. SUFFICES ASSUME Latest(c)'
               PROVE  AllBuilt(c)' /\ Findings(Universe(c), Parent)' = {}
    BY DEF Settled
<1>3. Latest(c)
  <2> SUFFICES ASSUME NEW m \in Members(c) PROVE recipe[m.pkg] = m.recipe
      BY DEF Latest
  <2>1. recipe'[m.pkg] = m.recipe
      BY <1>1, <1>2 DEF Latest
  <2>2. m.recipe <= recipe[m.pkg] /\ m \in Member
      BY <1>1, OpenTyped DEF ScopeInv
  <2>3. m.pkg \in Packages /\ m.recipe \in Nat
      BY <2>2 DEF Member
  <2>4. recipe[m.pkg] \in Nat /\ recipe'[m.pkg] >= recipe[m.pkg]
      BY <2>3 DEF TypeOK
  <2> QED BY <2>1, <2>2, <2>3, <2>4
<1>4. AllBuilt(c) /\ Findings(Universe(c), Parent) = {}
    BY <1>3 DEF Settled
<1>5. \A m \in Members(c) : builds'[m.pkg] = builds[m.pkg]
    BY <1>2, <1>3, <1>4
<1>6. AllBuilt(c)'
    BY <1>1, <1>4, <1>5 DEF AllBuilt
<1>7. Universe(c)' = Universe(c)
    BY <1>1, <1>5, SameUniverse
<1> QED BY <1>4, <1>6, <1>7

Evidence == <<catalog, recipe, approved, selection, builds, native>>

(* Without a change of what it reads, a gate keeps its answer. *)
LEMMA GateStays ==
  ASSUME NEW c \in Cohorts, NEW p, UNCHANGED Evidence, Open(c), cohorts'[c] # Null,
         Same(cohorts[c], cohorts'[c]), Gate(c, Page(c, p))
  PROVE  Gate(c, Page(c, p))'
<1>1. Members(c)' = Members(c)
    BY DEF Members, Open, Same
<1>2. Page(c, p)' = Page(c, p)
    BY <1>1 DEF Page
<1>3. Universe(c)' = Universe(c)
    BY <1>1, SameUniverse DEF Evidence
<1>4. /\ cohorts'[c].phase = cohorts[c].phase /\ cohorts'[c].revision = cohorts[c].revision
      /\ catalog' = catalog /\ recipe' = recipe /\ approved' = approved
      /\ selection' = selection /\ builds' = builds /\ native' = native
    BY DEF Same, Evidence
<1>5. \A m : MemberReady(c, m) => MemberReady(c, m)'
    BY <1>4 DEF MemberReady, Policied, BuiltFor
<1>6. \A m : QualifiedNow(c, m) => QualifiedNow(c, m)'
    BY <1>4 DEF QualifiedNow
<1> QED BY <1>2, <1>3, <1>4, <1>5, <1>6 DEF Gate

LEMMA ReadyLatest ==
  ASSUME NEW c, NEW m, MemberReady(c, m)
  PROVE  recipe[m.pkg] = m.recipe
BY DEF MemberReady

LEMMA ReadyBuilt ==
  ASSUME NEW c, NEW m, MemberReady(c, m),
         Index(cohorts[c].phase) \in Nat, Index(cohorts[c].phase) >= 3
  PROVE  builds[m.pkg].status = "succeeded" /\ builds[m.pkg].recipe = m.recipe
BY DEF MemberReady, BuiltFor

LEMMA GateSettles ==
  ASSUME NEW c, Gate(c, Members(c)), Index(cohorts[c].phase) \in Nat, Index(cohorts[c].phase) >= 3
  PROVE  Settled(c)
<1>1. \A m \in Members(c) : MemberReady(c, m)
    BY DEF Gate
<1>2. Findings(Universe(c), Parent) = {}
    BY DEF Gate
<1>3. \A m \in Members(c) : builds[m.pkg].status = "succeeded" /\ builds[m.pkg].recipe = m.recipe
    BY <1>1, ReadyBuilt
<1> QED BY <1>2, <1>3 DEF Settled, AllBuilt

-----------------------------------------------------------------------------
(* What happens to the packages moves the epoch *)

LEMMA CallTyped ==
  ASSUME TypeOK, NEW h \in Handlers
  PROVE  calls[h] \in Call
BY DEF TypeOK

LEMMA EnvironmentKeeps ==
  ASSUME CohortInv, TypeOK', RecipesInv', UNCHANGED <<cohorts, owner, uploads>>, EpochMoved,
         \A p \in Packages : recipe'[p] >= recipe[p],
         \A c \in Cohorts :
           Open(c) /\ cohorts[c].phase \in Late /\ Latest(c) /\ Latest(c)' /\ AllBuilt(c)
             => \A m \in Members(c) : builds'[m.pkg] = builds[m.pkg]
  PROVE  CohortInv'
<1>1. ASSUME NEW c \in Cohorts, Open(c), cohorts[c].phase \in Late, Settled(c)
      PROVE  Settled(c)'
  <2>1. TypeOK /\ ScopeInv(c) /\ cohorts'[c] # Null /\ cohorts'[c].members = cohorts[c].members
      BY <1>1 DEF CohortInv, ScopesInv, Open
  <2>2. recipe' \in [Packages -> Nat]
      BY DEF TypeOK
  <2> QED BY <1>1, <2>1, <2>2, SettledStays
<1>2. ScopesInv'
  <2> SUFFICES ASSUME NEW c \in Cohorts, Open(c)' PROVE ScopeInv(c)'
      BY DEF ScopesInv, ScopeInv
  <2>1. Open(c) /\ ScopeInv(c) /\ cohorts[c].members \subseteq Member
      BY OpenTyped DEF Open, CohortInv, ScopesInv
  <2>2. ASSUME NEW m \in cohorts[c].members PROVE m.recipe <= recipe'[m.pkg]
    <3>1. m.recipe <= recipe[m.pkg] /\ m.pkg \in Packages /\ m.recipe \in Nat
        BY <2>1, <2>2 DEF ScopeInv, Member
    <3>2. recipe'[m.pkg] >= recipe[m.pkg] /\ recipe[m.pkg] \in Nat /\ recipe'[m.pkg] \in Nat
        BY <3>1 DEF CohortInv, TypeOK
    <3> QED BY <3>1, <3>2
  <2> QED BY <2>1, <2>2 DEF ScopeInv, Open
<1>3. UploadsInv'
    BY DEF CohortInv, UploadsInv
<1>4. CallsInv'
  <2> SUFFICES ASSUME NEW h \in Handlers PROVE CallInv(calls[h])'
      BY DEF CallsInv
  <2>1. PICK x \in Call : x = calls[h]
      BY CallTyped DEF CohortInv
  <2>2. CallInv(x)
      BY <2>1 DEF CohortInv, CallsInv
  <2>3. PICK y : y = [x EXCEPT !.fresh = FALSE]
      OBVIOUS
  <2>4. calls'[h] = y
      BY <2>1, <2>3 DEF EpochMoved
  <2>5. /\ ~y.fresh
        /\ y.pc = x.pc /\ y.cohort = x.cohort /\ y.upload = x.upload
        /\ y.members = x.members /\ y.pkg = x.pkg /\ y.row = x.row /\ y.passes = x.passes /\ y.current = x.current
      BY <2>3 DEF Call
  <2>6. ASSUME x.pc = "phase", x.current, x.passes, ~x.row.chunked, x.row.phase \in Late
        PROVE  Settled(x.cohort)'
    <3>1. x.cohort \in Cohorts /\ cohorts[x.cohort] = x.row /\ x.row \in CohortRow
          /\ Settled(x.cohort)
        BY <2>2, <2>6 DEF CallInv
    <3>2. Open(x.cohort)
        BY <3>1, NullAssumption DEF Open
    <3> QED BY <1>1, <2>6, <3>1, <3>2
  <2>7. CallInv(y)'
      BY <2>2, <2>5, <2>6 DEF CallInv, Open
  <2> QED BY <2>4, <2>7
<1>5. LedgerInv'
    BY NullAssumption DEF LedgerInv, EpochMoved
<1>6. StagedInv'
  <2> SUFFICES ASSUME NEW c \in Cohorts, Open(c), cohorts[c].phase \in {"stage", "approve"}
               PROVE  Settled(c)'
      BY DEF StagedInv, Open
  <2>1. Settled(c) /\ cohorts[c].phase \in Late
      BY DEF CohortInv, StagedInv, Late
  <2> QED BY <1>1, <2>1
<1> QED BY <1>2, <1>3, <1>4, <1>5, <1>6 DEF CohortInv

(* A package that a scope before its verification builds or selects inputs    *)
(* for is in no scope past it whose recipes are the latest.                   *)
LEMMA NotListed ==
  ASSUME CohortInv, NEW c \in Cohorts, NEW d \in Cohorts, NEW p,
         ScopeLists(d, p, {"plan", "review", "build"}),
         Open(c), cohorts[c].phase \in Late, Latest(c),
         NEW m \in Members(c)
  PROVE  m.pkg # p
<1> SUFFICES ASSUME m.pkg = p PROVE FALSE
    OBVIOUS
<1>1. PICK n \in Members(d) : n.pkg = p /\ n.recipe = recipe[p]
    BY DEF ScopeLists
<1>2. Open(d) /\ cohorts[d].phase \in {"plan", "review", "build"}
    BY DEF ScopeLists
<1>3. owner[<<n.pkg, n.recipe>>] = d
    BY <1>1, <1>2, OpenTyped DEF CohortInv, ScopesInv, ScopeInv
<1>4. owner[<<m.pkg, m.recipe>>] = c /\ m.recipe = recipe[p]
    BY OpenTyped DEF CohortInv, ScopesInv, ScopeInv, Latest
<1>5. c = d
    BY <1>1, <1>3, <1>4
<1> QED BY <1>2, <1>5 DEF Late

LEMMA EpochTyped ==
  ASSUME TypeOK, EpochMoved
  PROVE  /\ pages' \in [Cohorts -> [Packages -> {Null, "clean", "blocked"}]]
         /\ calls' \in [Handlers -> Call]
<1>1. pages' \in [Cohorts -> [Packages -> {Null, "clean", "blocked"}]]
    BY DEF EpochMoved
<1>2. ASSUME NEW call \in Call PROVE [call EXCEPT !.fresh = FALSE] \in Call
    BY DEF Call
<1>3. \A h \in Handlers : [calls[h] EXCEPT !.fresh = FALSE] \in Call
    BY <1>2 DEF TypeOK
<1>4. calls' \in [Handlers -> Call]
    BY <1>3 DEF EpochMoved
<1> QED BY <1>1, <1>4

LEMMA StepRevise ==
  ASSUME CohortInv, NEW p \in Packages, NEW admitted \in BOOLEAN, Revise(p, admitted)
  PROVE  CohortInv'
<1>1. TypeOK'
    BY EpochTyped DEF CohortInv, TypeOK, Revise
<1>2. RecipesInv' /\ recipe' = recipe /\ builds' = builds
    BY DEF CohortInv, RecipesInv, Revise
<1>3. \A q \in Packages : recipe'[q] >= recipe[q]
    BY <1>2 DEF CohortInv, TypeOK
<1> QED BY <1>1, <1>2, <1>3, EnvironmentKeeps DEF Revise

LEMMA StepReview ==
  ASSUME CohortInv, NEW p \in Packages, NEW yes, Review(p, yes)
  PROVE  CohortInv'
<1>1. TypeOK'
    BY EpochTyped DEF CohortInv, TypeOK, Review
<1>2. RecipesInv' /\ recipe' = recipe /\ builds' = builds
    BY DEF CohortInv, RecipesInv, Review
<1>3. \A q \in Packages : recipe'[q] >= recipe[q]
    BY <1>2 DEF CohortInv, TypeOK
<1> QED BY <1>1, <1>2, <1>3, EnvironmentKeeps DEF Review

LEMMA StepReport ==
  ASSUME CohortInv, NEW c \in Cohorts, NEW p \in Packages, NEW passed, Report(c, p, passed)
  PROVE  CohortInv'
<1>1. TypeOK'
    BY EpochTyped DEF CohortInv, TypeOK, Report
<1>2. RecipesInv' /\ recipe' = recipe /\ builds' = builds
    BY DEF CohortInv, RecipesInv, Report
<1>3. \A q \in Packages : recipe'[q] >= recipe[q]
    BY <1>2 DEF CohortInv, TypeOK
<1> QED BY <1>1, <1>2, <1>3, EnvironmentKeeps DEF Report

LEMMA StepNewRecipe ==
  ASSUME CohortInv, NEW p \in Packages, NewRecipe(p)
  PROVE  CohortInv'
<1>1. /\ recipe' = [recipe EXCEPT ![p] = @ + 1] /\ recipe[p] < Recipes[p]
      /\ builds' = [builds EXCEPT ![p].status = "queued"]
      /\ recipe \in [Packages -> Nat] /\ builds \in [Packages -> Row]
    BY DEF NewRecipe, CohortInv, TypeOK
<1>2. TypeOK'
  <2>1. recipe' \in [Packages -> Nat]
      BY <1>1
  <2>2. builds' \in [Packages -> Row]
      BY <1>1 DEF Row
  <2> QED BY <2>1, <2>2, EpochTyped DEF CohortInv, TypeOK, NewRecipe
<1>3. RecipesInv'
  <2> SUFFICES ASSUME NEW q \in Packages
               PROVE  /\ recipe'[q] \in 1..Recipes[q]
                      /\ builds'[q].recipe \in 1..Recipes[q]
                      /\ builds'[q].number <= MaxBuilds
                      /\ builds'[q].status # "queued" => builds'[q].number >= 1
      BY DEF RecipesInv
  <2>1. recipe[q] \in 1..Recipes[q] /\ Recipes[q] \in Nat
      BY CohortAssumption DEF CohortInv, RecipesInv
  <2>4. recipe'[q] = IF q = p THEN recipe[p] + 1 ELSE recipe[q]
      BY <1>1
  <2>2. recipe'[q] \in 1..Recipes[q]
    <3>1. CASE q = p
      <4>1. recipe[p] < Recipes[p] /\ recipe[p] \in 1..Recipes[p] /\ Recipes[p] \in Nat
          BY <1>1, <2>1, <3>1
      <4> QED BY <2>4, <3>1, <4>1
    <3>2. CASE q # p
        BY <2>1, <2>4, <3>2
    <3> QED BY <3>1, <3>2
  <2>3. /\ builds'[q].recipe = builds[q].recipe /\ builds'[q].number = builds[q].number
        /\ builds'[q].status # "queued" => builds'[q].status = builds[q].status
      BY <1>1 DEF Row
  <2> QED BY <2>2, <2>3 DEF CohortInv, RecipesInv
<1>4. \A q \in Packages : recipe'[q] >= recipe[q]
    BY <1>1
<1>5. ASSUME NEW c \in Cohorts, Open(c), Latest(c)', NEW m \in Members(c)
      PROVE  m.pkg \in Packages /\ m.pkg # p
  <2>4. Members(c)' = Members(c)
      BY DEF Members, NewRecipe
  <2>1. recipe'[m.pkg] = m.recipe
      BY <1>5, <2>4 DEF Latest
  <2>5. Members(c) = cohorts[c].members /\ m \in Member /\ ScopeInv(c)
      BY <1>5, OpenTyped DEF CohortInv, ScopesInv
  <2>2. m.recipe <= recipe[m.pkg] /\ m.recipe \in Nat /\ m.pkg \in Packages
      BY <1>5, <2>5 DEF ScopeInv, Member
  <2>3. recipe'[p] = recipe[p] + 1 /\ recipe[p] \in Nat
      BY <1>1
  <2> QED BY <2>1, <2>2, <2>3
<1>6. ASSUME NEW c \in Cohorts, Open(c), Latest(c)', NEW m \in Members(c)
      PROVE  builds'[m.pkg] = builds[m.pkg]
    BY <1>1, <1>5, <1>6
<1> QED BY <1>2, <1>3, <1>4, <1>6, EnvironmentKeeps DEF NewRecipe

LEMMA StepBuildFinish ==
  ASSUME CohortInv, NEW p \in Packages, BuildFinish(p)
  PROVE  CohortInv'
<1>1. /\ recipe' = recipe /\ builds[p].status = "leased"
      /\ builds' = [builds EXCEPT ![p].status = "succeeded"]
      /\ recipe \in [Packages -> Nat] /\ builds \in [Packages -> Row]
    BY DEF BuildFinish, CohortInv, TypeOK
<1>2. TypeOK'
  <2>1. builds' \in [Packages -> Row]
      BY <1>1 DEF Row
  <2> QED BY <2>1, EpochTyped DEF CohortInv, TypeOK, BuildFinish
<1>3. RecipesInv'
  <2> SUFFICES ASSUME NEW q \in Packages
               PROVE  /\ recipe'[q] \in 1..Recipes[q]
                      /\ builds'[q].recipe \in 1..Recipes[q]
                      /\ builds'[q].number <= MaxBuilds
                      /\ builds'[q].status # "queued" => builds'[q].number >= 1
      BY DEF RecipesInv
  <2>1. /\ builds'[q].recipe = builds[q].recipe /\ builds'[q].number = builds[q].number
        /\ builds'[q].status # "queued" => builds[q].status # "queued"
      BY <1>1 DEF Row
  <2> QED BY <1>1, <2>1 DEF CohortInv, RecipesInv
<1>4. \A q \in Packages : recipe'[q] >= recipe[q]
    BY <1>1
<1>5. ASSUME NEW c \in Cohorts, Open(c), AllBuilt(c), NEW m \in Members(c)
      PROVE  builds'[m.pkg] = builds[m.pkg]
  <2>1. m.pkg # p /\ m.pkg \in Packages
      BY <1>1, <1>5, OpenTyped DEF AllBuilt, CohortInv, Member
  <2> QED BY <1>1, <2>1
<1> QED BY <1>2, <1>3, <1>4, <1>5, EnvironmentKeeps DEF BuildFinish

LEMMA StepBuildStart ==
  ASSUME CohortInv, NEW d \in Cohorts, NEW p \in Packages, BuildStart(d, p)
  PROVE  CohortInv'
<1> DEFINE new == [recipe |-> recipe[p], revision |-> cohorts[d].revision,
                   number |-> builds[p].number + 1, status |-> "leased", lock |-> selection[p].lock]
<1>1. /\ recipe' = recipe /\ builds[p].number < MaxBuilds
      /\ builds' = [builds EXCEPT ![p] = new]
      /\ recipe \in [Packages -> Nat] /\ builds \in [Packages -> Row]
    BY DEF BuildStart, CohortInv, TypeOK
<1>2. new \in Row
  <2>1. cohorts[d] \in CohortRow
      BY OpenTyped DEF BuildStart, ScopeLists, CohortInv
  <2>2. selection[p].lock \in SUBSET AllBytes
      BY DEF CohortInv, TypeOK
  <2>3. cohorts[d].revision \in Nat /\ builds[p].number \in Nat /\ recipe[p] \in Nat
      BY <1>1, <2>1 DEF CohortRow, Row
  <2> QED BY <2>2, <2>3 DEF Row
<1>3. new.recipe = recipe[p] /\ new.number = builds[p].number + 1
    OBVIOUS
<1> HIDE DEF new
<1>4. TypeOK'
    BY <1>1, <1>2, EpochTyped DEF CohortInv, TypeOK, BuildStart
<1>5. RecipesInv'
  <2> SUFFICES ASSUME NEW q \in Packages
               PROVE  /\ recipe'[q] \in 1..Recipes[q]
                      /\ builds'[q].recipe \in 1..Recipes[q]
                      /\ builds'[q].number <= MaxBuilds
                      /\ builds'[q].status # "queued" => builds'[q].number >= 1
      BY DEF RecipesInv
  <2>1. CASE q = p
    <3>1. builds'[q] = new /\ builds[p].number \in Nat
        BY <1>1, <2>1 DEF Row
    <3> QED BY <1>1, <1>3, <2>1, <3>1, CohortAssumption DEF CohortInv, RecipesInv
  <2>2. CASE q # p
    <3>1. builds'[q] = builds[q]
        BY <1>1, <2>2
    <3> QED BY <1>1, <3>1 DEF CohortInv, RecipesInv
  <2> QED BY <2>1, <2>2
<1>6. \A q \in Packages : recipe'[q] >= recipe[q]
    BY <1>1
<1>7. ASSUME NEW c \in Cohorts, Open(c), cohorts[c].phase \in Late, Latest(c), NEW m \in Members(c)
      PROVE  builds'[m.pkg] = builds[m.pkg]
  <2>1. ScopeLists(d, p, {"plan", "review", "build"})
      BY DEF BuildStart, ScopeLists
  <2>2. m.pkg # p /\ m.pkg \in Packages
      BY <1>7, <2>1, NotListed, OpenTyped DEF CohortInv, Member
  <2> QED BY <1>1, <2>2
<1> QED BY <1>4, <1>5, <1>6, <1>7, EnvironmentKeeps DEF BuildStart

LEMMA LocksTyped ==
  ASSUME CohortInv, NEW p \in Packages, NEW lock \in Locks(p)
  PROVE  lock \in SUBSET AllBytes
<1>1. PICK f \in [Needs(p) -> UNION {InputOf(q) : q \in Needs(p)}] :
        /\ \A q \in Needs(p) : f[q] \in InputOf(q)
        /\ lock = {f[q] : q \in Needs(p)}
    BY DEF Locks
<1>2. ASSUME NEW q \in Packages PROVE InputOf(q) \subseteq AllBytes
  <2>1. PreviousBytes(Parent, [name |-> q]) \subseteq AllBytes
      BY DEF PreviousBytes, PreviousOf, AllBytes
  <2>2. Bytes(q) \in AllBytes
      BY DEF Bytes, AllBytes, CohortInv, TypeOK, Row
  <2>3. {Bytes(x) : x \in {y \in {q} : builds[y].status = "succeeded"}} \subseteq {Bytes(q)}
      OBVIOUS
  <2> QED BY <2>1, <2>2, <2>3 DEF InputOf
<1>3. Needs(p) \subseteq Packages
    BY DEF Needs
<1> QED BY <1>1, <1>2, <1>3

LEMMA StepSelectInput ==
  ASSUME CohortInv, NEW d \in Cohorts, NEW p \in Packages, NEW lock \in Locks(p),
         SelectInput(d, p, lock)
  PROVE  CohortInv'
<1>1. /\ recipe' = recipe
      /\ builds' = [builds EXCEPT ![p].status = "queued"]
      /\ selection' = [selection EXCEPT ![p] = [revision |-> cohorts[d].revision, lock |-> lock]]
      /\ recipe \in [Packages -> Nat] /\ builds \in [Packages -> Row]
    BY DEF SelectInput, CohortInv, TypeOK
<1>2. TypeOK'
  <2>1. builds' \in [Packages -> Row]
      BY <1>1 DEF Row
  <2>2. cohorts[d].revision \in Nat
      BY OpenTyped DEF SelectInput, ScopeLists, CohortInv, CohortRow
  <2>3. selection' \in [Packages -> [revision : Nat, lock : SUBSET AllBytes]]
      BY <1>1, <2>2, LocksTyped DEF CohortInv, TypeOK
  <2> QED BY <2>1, <2>3, EpochTyped DEF CohortInv, TypeOK, SelectInput
<1>3. RecipesInv'
  <2> SUFFICES ASSUME NEW q \in Packages
               PROVE  /\ recipe'[q] \in 1..Recipes[q]
                      /\ builds'[q].recipe \in 1..Recipes[q]
                      /\ builds'[q].number <= MaxBuilds
                      /\ builds'[q].status # "queued" => builds'[q].number >= 1
      BY DEF RecipesInv
  <2>1. /\ builds'[q].recipe = builds[q].recipe /\ builds'[q].number = builds[q].number
        /\ builds'[q].status # "queued" => builds[q].status # "queued"
      BY <1>1 DEF Row
  <2> QED BY <1>1, <2>1 DEF CohortInv, RecipesInv
<1>4. \A q \in Packages : recipe'[q] >= recipe[q]
    BY <1>1
<1>5. ASSUME NEW c \in Cohorts, Open(c), cohorts[c].phase \in Late, Latest(c), NEW m \in Members(c)
      PROVE  builds'[m.pkg] = builds[m.pkg]
  <2>1. ScopeLists(d, p, {"plan", "review", "build"})
      BY DEF SelectInput
  <2>2. m.pkg # p /\ m.pkg \in Packages
      BY <1>5, <2>1, NotListed, OpenTyped DEF CohortInv, Member
  <2> QED BY <1>1, <2>2
<1> QED BY <1>2, <1>3, <1>4, <1>5, EnvironmentKeeps DEF SelectInput

LEMMA StepEnvironment ==
  ASSUME CohortInv, Environment
  PROVE  CohortInv'
BY StepRevise, StepReview, StepReport, StepNewRecipe, StepBuildFinish, StepBuildStart,
   StepSelectInput DEF Environment

-----------------------------------------------------------------------------
(* Calls that only read, or write what no gate reads *)

LEMMA SettledQuiet ==
  ASSUME NEW c \in Cohorts, cohorts'[c] # Null <=> Open(c),
         Open(c) => cohorts'[c].members = cohorts[c].members,
         UNCHANGED <<recipe, builds>>, Settled(c)
  PROVE  Settled(c)'
<1>1. Members(c)' = Members(c)
    BY DEF Members, Open
<1>2. Universe(c)' = Universe(c)
    BY <1>1, SameUniverse
<1>3. Latest(c)' = Latest(c) /\ AllBuilt(c)' = AllBuilt(c)
    BY <1>1 DEF Latest, AllBuilt
<1> QED BY <1>2, <1>3 DEF Settled

Kept(old, new) ==
  \A u \in Uploads :
    old[u] # Null => new[u] # Null /\ new[u].cohort = old[u].cohort /\ new[u].count = old[u].count

LEMMA CallQuiet ==
  ASSUME UNCHANGED <<cohorts, owner>>, UNCHANGED Evidence, Kept(uploads, uploads'),
         NEW x, CallInv(x)
  PROVE  CallInv(x)'
<1>1. ASSUME x.pc = "paged", x.fresh, x.clean, Same(x.row, cohorts[x.cohort])
      PROVE  Gate(x.cohort, Page(x.cohort, x.pkg))'
  <2>1. x.cohort \in Cohorts /\ Open(x.cohort) /\ Gate(x.cohort, Page(x.cohort, x.pkg))
      BY <1>1 DEF CallInv
  <2>2. cohorts'[x.cohort] # Null /\ Same(cohorts[x.cohort], cohorts'[x.cohort])
      BY <2>1 DEF Open, Same
  <2> QED BY <2>1, <2>2, GateStays
<1>2. ASSUME x.pc = "phase", x.current, x.passes, ~x.row.chunked, x.row.phase \in Late
      PROVE  Settled(x.cohort)'
  <2>1. x.cohort \in Cohorts /\ Settled(x.cohort)
      BY <1>2 DEF CallInv
  <2> QED BY <2>1, SettledQuiet DEF Evidence, Open
<1>3. x.pc = "seal" =>
        /\ x.upload \in Uploads /\ uploads'[x.upload] # Null
        /\ uploads'[x.upload].cohort = x.cohort
        /\ Cardinality(x.members) = uploads'[x.upload].count
    BY DEF CallInv, Kept
<1> QED BY <1>1, <1>2, <1>3 DEF CallInv, Open

LEMMA CallsQuiet ==
  ASSUME CallsInv, UNCHANGED <<cohorts, owner>>, UNCHANGED Evidence, Kept(uploads, uploads'),
         NEW h \in Handlers, NEW x, CallInv(x)', calls' = [calls EXCEPT ![h] = x], TypeOK
  PROVE  CallsInv'
<1> SUFFICES ASSUME NEW k \in Handlers PROVE CallInv(calls[k])'
    BY DEF CallsInv
<1>1. CASE k = h
    BY <1>1 DEF TypeOK
<1>2. CASE k # h
  <2>1. PICK y : y = calls[k]
      OBVIOUS
  <2>2. CallInv(y) /\ calls'[k] = y
      BY <1>2, <2>1 DEF CallsInv, TypeOK
  <2>3. CallInv(y)'
      BY <2>2, CallQuiet
  <2> QED BY <2>2, <2>3
<1> QED BY <1>1, <1>2

LEMMA QuietKeeps ==
  ASSUME CohortInv, UNCHANGED <<cohorts, owner>>, UNCHANGED Evidence,
         TypeOK', UploadsInv', CallsInv', LedgerInv'
  PROVE  CohortInv'
<1>1. RecipesInv'
    BY DEF CohortInv, RecipesInv, Evidence
<1>2. ScopesInv'
    BY DEF CohortInv, ScopesInv, ScopeInv, Open, Evidence
<1>3. StagedInv'
  <2> SUFFICES ASSUME NEW c \in Cohorts, Open(c), cohorts[c].phase \in {"stage", "approve"}
               PROVE  Settled(c)'
      BY DEF StagedInv, Open
  <2> QED BY SettledQuiet DEF CohortInv, StagedInv, Evidence, Open
<1> QED BY <1>1, <1>2, <1>3 DEF CohortInv

LEMMA LedgerQuiet ==
  ASSUME LedgerInv, UNCHANGED cohorts, UNCHANGED Evidence,
         NEW c \in Cohorts, NEW p \in Packages, pages[c][p] = "clean"
  PROVE  Open(c)' /\ Gate(c, Page(c, p))'
<1>1. Open(c) /\ Gate(c, Page(c, p))
    BY DEF LedgerInv
<1>2. cohorts'[c] # Null /\ Same(cohorts[c], cohorts'[c])
    BY <1>1 DEF Open, Same
<1> QED BY <1>1, <1>2, GateStays DEF Open

(* A handler remembers what it read, or answers. *)
LEMMA StepCall ==
  ASSUME CohortInv, UNCHANGED <<cohorts, owner, pages>>, UNCHANGED Evidence,
         uploads' \in [Uploads -> Upload \cup {Null}], UploadsInv', Kept(uploads, uploads'),
         NEW h \in Handlers, NEW x \in Call, CallInv(x)', calls' = [calls EXCEPT ![h] = x]
  PROVE  CohortInv'
<1>1. TypeOK'
    BY DEF CohortInv, TypeOK, Evidence
<1>2. CallsInv'
    BY CallsQuiet DEF CohortInv
<1>3. LedgerInv'
    BY LedgerQuiet DEF CohortInv, LedgerInv
<1> QED BY <1>1, <1>2, <1>3, QuietKeeps

LEMMA UploadsQuiet ==
  ASSUME CohortInv, UNCHANGED uploads
  PROVE  uploads' \in [Uploads -> Upload \cup {Null}] /\ UploadsInv' /\ Kept(uploads, uploads')
BY DEF CohortInv, TypeOK, UploadsInv, Kept

LEMMA IdleTyped == Idle \in Call
BY DEF Idle, Call, Pcs

LEMMA MemberTyped ==
  ASSUME CohortInv, NEW p \in Packages
  PROVE  MemberOf(p) \in Member
<1>1. catalog[p].revision \in Nat /\ recipe[p] \in Nat
    BY DEF CohortInv, TypeOK
<1> QED BY <1>1 DEF MemberOf, Member

LEMMA StepProposeRead ==
  ASSUME CohortInv, NEW h \in Handlers, NEW c \in Cohorts, NEW S \in (SUBSET Packages) \ {{}},
         ProposeRead(h, c, S)
  PROVE  CohortInv'
<1>1. PICK x : x = [Idle EXCEPT !.pc = "propose", !.cohort = c,
                                !.members = {MemberOf(p) : p \in S}, !.current = TRUE]
    OBVIOUS
<1>2. {MemberOf(p) : p \in S} \in SUBSET Member /\ {MemberOf(p) : p \in S} # {}
  <2>1. \A p \in S : MemberOf(p) \in Member
      BY MemberTyped
  <2>2. \E p : p \in S
      OBVIOUS
  <2> QED BY <2>1, <2>2
<1>3. x \in Call
    BY <1>1, <1>2 DEF Idle, Call, Pcs
<1>4. x.pc = "propose" /\ x.cohort = c /\ x.members # {}
    BY <1>1, <1>2 DEF Idle
<1>5. CallInv(x)'
    BY <1>4 DEF CallInv
<1> QED BY <1>1, <1>3, <1>5, StepCall, UploadsQuiet DEF ProposeRead, Evidence

LEMMA StepSealRead ==
  ASSUME CohortInv, NEW h \in Handlers, NEW u \in Uploads, SealRead(h, u)
  PROVE  CohortInv'
<1>1. PICK x : x = [Idle EXCEPT !.pc = "seal", !.cohort = uploads[u].cohort, !.upload = u,
                                !.members = uploads[u].members, !.current = TRUE]
    OBVIOUS
<1>2. uploads[u] # Null /\ uploads[u] \in Upload /\ Cardinality(uploads[u].members) = uploads[u].count
    BY DEF SealRead, CohortInv, TypeOK
<1>3. x \in Call
    BY <1>1, <1>2 DEF Idle, Call, Pcs, Upload
<1>4. /\ x.pc = "seal" /\ x.cohort = uploads[u].cohort /\ x.upload = u
      /\ x.members = uploads[u].members
    BY <1>1 DEF Idle
<1>5. CallInv(x)'
    BY <1>2, <1>4 DEF CallInv, SealRead, Upload
<1> QED BY <1>1, <1>3, <1>5, StepCall, UploadsQuiet DEF SealRead, Evidence

LEMMA StepPageRead ==
  ASSUME CohortInv, NEW h \in Handlers, NEW c \in Cohorts, NEW p \in Packages, PageRead(h, c, p)
  PROVE  CohortInv'
<1>1. PICK x : x = [Idle EXCEPT !.pc = "page", !.cohort = c, !.pkg = p, !.row = cohorts[c],
                                !.fresh = TRUE]
    OBVIOUS
<1>2. cohorts[c] \in CohortRow
    BY OpenTyped DEF PageRead, CohortInv
<1>3. x \in Call
    BY <1>1, <1>2 DEF Idle, Call, Pcs
<1>4. x.pc = "page" /\ x.cohort = c /\ x.pkg = p /\ x.row \in CohortRow
    BY <1>1, <1>2 DEF Idle
<1>5. CallInv(x)'
    BY <1>4 DEF CallInv
<1> QED BY <1>1, <1>3, <1>5, StepCall, UploadsQuiet DEF PageRead, Evidence

LEMMA StepGiveUp ==
  ASSUME CohortInv, NEW h \in Handlers, GiveUp(h)
  PROVE  CohortInv'
<1>1. PICK x : x = Idle
    OBVIOUS
<1>2. x.pc = "idle" /\ x \in Call
    BY <1>1, IdleTyped DEF Idle
<1>3. CallInv(x)'
    BY <1>2 DEF CallInv
<1> QED BY <1>1, <1>2, <1>3, StepCall, UploadsQuiet DEF GiveUp, Answer, Evidence

LEMMA StepPageEval ==
  ASSUME CohortInv, NEW h \in Handlers, PageEval(h)
  PROVE  CohortInv'
<1>1. PICK x \in Call : x = calls[h]
    BY CallTyped DEF CohortInv
<1>2. CallInv(x) /\ x.pc = "page" /\ x.fresh /\ cohorts[x.cohort] = x.row
    BY <1>1 DEF CohortInv, CallsInv, PageEval
<1>3. PICK clean \in BOOLEAN : clean = Gate(x.cohort, Page(x.cohort, x.pkg))
    BY DEF Gate
<1>4. PICK y : y = [x EXCEPT !.pc = "paged", !.clean = clean]
    OBVIOUS
<1>5. y \in Call
    BY <1>4 DEF Call, Pcs
<1>6. y.pc = "paged" /\ y.cohort = x.cohort /\ y.pkg = x.pkg /\ y.row = x.row /\ y.clean = clean
    BY <1>4 DEF Call
<1>7. CallInv(y)
  <2>1. x.cohort \in Cohorts /\ x.row \in CohortRow /\ x.pkg \in Packages
      BY <1>2 DEF CallInv
  <2>2. Open(x.cohort)
      BY <1>2, <2>1, NullAssumption DEF Open
  <2>3. Before(x.row, cohorts[x.cohort])
      BY <1>2, <2>1, PhaseSteps DEF Before
  <2> QED BY <1>3, <1>6, <2>1, <2>2, <2>3 DEF CallInv
<1>8. CallInv(y)'
    BY <1>7, CallQuiet, UploadsQuiet DEF PageEval, Evidence
<1>9. calls' = [calls EXCEPT ![h] = y]
    BY <1>1, <1>3, <1>4 DEF PageEval
<1> QED BY <1>5, <1>8, <1>9, StepCall, UploadsQuiet DEF PageEval, Evidence

LEMMA StepPhaseRead ==
  ASSUME CohortInv, NEW h \in Handlers, NEW c \in Cohorts, PhaseRead(h, c)
  PROVE  CohortInv'
<1>1. PICK passes \in BOOLEAN : passes = Passes(c)
    BY DEF Passes, LedgerClean, Gate
<1>2. PICK x : x = [Idle EXCEPT !.pc = "phase", !.cohort = c, !.row = cohorts[c],
                                !.passes = passes, !.fresh = TRUE, !.current = TRUE,
                                !.rows = TRUE]
    OBVIOUS
<1>3. cohorts[c] \in CohortRow /\ Open(c)
    BY OpenTyped DEF PhaseRead, CohortInv
<1>4. x \in Call
    BY <1>2, <1>3 DEF Idle, Call, Pcs
<1>5. x.pc = "phase" /\ x.cohort = c /\ x.row = cohorts[c] /\ x.passes = passes
    BY <1>2 DEF Idle
<1>6. ASSUME passes, ~cohorts[c].chunked, cohorts[c].phase \in Late
      PROVE  Settled(c)
  <2>1. Gate(c, Members(c))
      BY <1>1, <1>6 DEF Passes
  <2> QED BY <1>3, <1>6, <2>1, PhaseSteps, GateSettles
<1>7. CallInv(x)
    BY <1>3, <1>5, <1>6 DEF CallInv
<1>8. CallInv(x)'
    BY <1>7, CallQuiet, UploadsQuiet DEF PhaseRead, Evidence
<1>9. calls' = [calls EXCEPT ![h] = x]
    BY <1>1, <1>2 DEF PhaseRead
<1> QED BY <1>4, <1>8, <1>9, StepCall, UploadsQuiet DEF PhaseRead, Evidence

LEMMA StepPageStore ==
  ASSUME CohortInv, NEW h \in Handlers, PageStore(h)
  PROVE  CohortInv'
<1>1. PICK x \in Call : x = calls[h]
    BY CallTyped DEF CohortInv
<1>2. PICK c : c = x.cohort
    OBVIOUS
<1>3. CallInv(x) /\ x.pc = "paged" /\ x.fresh /\ cohorts[c] = x.row
    BY <1>1, <1>2 DEF CohortInv, CallsInv, PageStore
<1>4. c \in Cohorts /\ x.pkg \in Packages /\ Open(c)
    BY <1>2, <1>3 DEF CallInv
<1>5. x.clean => Gate(c, Page(c, x.pkg))
    BY <1>2, <1>3 DEF CallInv, Same
<1>6. pages' = [pages EXCEPT ![c][x.pkg] = IF x.clean THEN "clean" ELSE "blocked"]
    BY <1>1, <1>2 DEF PageStore
<1>7. /\ UNCHANGED <<cohorts, owner, uploads>> /\ UNCHANGED Evidence
    BY DEF PageStore, Evidence
<1>8. \A k \in Handlers :
        calls'[k] = IF k = h THEN Idle
                    ELSE IF calls[k].cohort = c THEN [calls[k] EXCEPT !.rows = FALSE] ELSE calls[k]
    BY <1>1, <1>2 DEF PageStore
<1>9. calls' \in [Handlers -> Call]
  <2>1. \A k \in Handlers : calls'[k] \in Call
    <3> SUFFICES ASSUME NEW k \in Handlers PROVE calls'[k] \in Call
        OBVIOUS
    <3>1. calls[k] \in Call
        BY CallTyped DEF CohortInv
    <3>2. [calls[k] EXCEPT !.rows = FALSE] \in Call
        BY <3>1 DEF Call
    <3> HIDE DEF Call
    <3> QED BY <1>8, <3>1, <3>2, IdleTyped
  <2>2. calls' = [k \in Handlers |-> calls'[k]]
      BY DEF PageStore
  <2> QED BY <2>1, <2>2
<1>10. TypeOK'
  <2>1. pages' \in [Cohorts -> [Packages -> {Null, "clean", "blocked"}]]
      BY <1>4, <1>6 DEF CohortInv, TypeOK
  <2> QED BY <1>7, <1>9, <2>1 DEF CohortInv, TypeOK, Evidence
<1>11. CallsInv'
  <2> SUFFICES ASSUME NEW k \in Handlers PROVE CallInv(calls[k])'
      BY DEF CallsInv
  <2>1. PICK z \in Call : z = calls[k]
      BY CallTyped DEF CohortInv
  <2>2. CallInv(z)'
    <3>1. CallInv(z)
        BY <2>1 DEF CohortInv, CallsInv
    <3> QED BY <1>7, <3>1, CallQuiet, UploadsQuiet
  <2>3. CASE calls'[k] = Idle
      BY <2>3 DEF CallInv, Idle
  <2>4. CASE calls'[k] = z
      BY <2>2, <2>4
  <2>5. CASE calls'[k] = [z EXCEPT !.rows = FALSE]
    <3>1. PICK y : y = [z EXCEPT !.rows = FALSE]
        OBVIOUS
    <3>2. /\ y.pc = z.pc /\ y.cohort = z.cohort /\ y.upload = z.upload
          /\ y.members = z.members /\ y.pkg = z.pkg
          /\ y.row = z.row /\ y.clean = z.clean /\ y.passes = z.passes /\ y.fresh = z.fresh
          /\ y.current = z.current
        BY <3>1 DEF Call
    <3>3. CallInv(y)'
        BY <2>2, <3>2 DEF CallInv
    <3> QED BY <2>5, <3>1, <3>3
  <2> QED BY <1>8, <2>1, <2>3, <2>4, <2>5
<1>12. LedgerInv'
  <2> SUFFICES ASSUME NEW d \in Cohorts, NEW q \in Packages, pages'[d][q] = "clean"
               PROVE  Open(d)' /\ Gate(d, Page(d, q))'
      BY DEF LedgerInv
  <2>1. Open(d) /\ Gate(d, Page(d, q))
    <3>1. CASE d = c /\ q = x.pkg
        BY <1>4, <1>5, <1>6, <3>1 DEF CohortInv, TypeOK
    <3>2. CASE ~(d = c /\ q = x.pkg)
      <4>1. pages'[d][q] = pages[d][q]
          BY <1>4, <1>6, <3>2 DEF CohortInv, TypeOK
      <4> QED BY <4>1 DEF CohortInv, LedgerInv
    <3> QED BY <3>1, <3>2
  <2>2. cohorts'[d] # Null /\ Same(cohorts[d], cohorts'[d])
      BY <1>7, <2>1 DEF Open, Same
  <2> QED BY <1>7, <2>1, <2>2, GateStays DEF Open
<1>13. UploadsInv'
    BY <1>7, UploadsQuiet
<1> QED BY <1>7, <1>10, <1>11, <1>12, <1>13, QuietKeeps

(* An upload is begun or appended to: no call in flight reads it again. *)
LEMMA UploadStep ==
  ASSUME CohortInv, UNCHANGED <<cohorts, owner, pages, calls>>, UNCHANGED Evidence,
         uploads' \in [Uploads -> Upload \cup {Null}], UploadsInv', Kept(uploads, uploads')
  PROVE  CohortInv'
<1>1. TypeOK'
    BY DEF CohortInv, TypeOK, Evidence
<1>2. CallsInv'
  <2> SUFFICES ASSUME NEW k \in Handlers PROVE CallInv(calls[k])'
      BY DEF CallsInv
  <2>1. PICK y : y = calls[k]
      OBVIOUS
  <2>2. CallInv(y)
      BY <2>1 DEF CohortInv, CallsInv
  <2>3. CallInv(y)'
      BY <2>2, CallQuiet
  <2> QED BY <2>1, <2>3
<1>3. LedgerInv'
    BY LedgerQuiet DEF CohortInv, LedgerInv
<1> QED BY <1>1, <1>2, <1>3, QuietKeeps

LEMMA StepBegin ==
  ASSUME CohortInv, NEW k \in Uploads, NEW c \in Cohorts, NEW S \in (SUBSET Packages) \ {{}},
         Begin(k, c, S)
  PROVE  CohortInv'
<1>1. PICK u : u = [cohort |-> c, expected |-> Revision(c), count |-> Cardinality(S),
                    members |-> {}, sealed |-> 0]
    OBVIOUS
<1>2. IsFiniteSet(S)
    BY CohortAssumption, FS_Subset
<1>3. Cardinality(S) \in Nat /\ Cardinality(S) # 0
    BY <1>2, FS_CardinalityType, FS_EmptySet
<1>4. Revision(c) \in Nat
  <2>1. CASE Open(c)
      BY <2>1, OpenTyped, PhaseSteps DEF Revision, CohortInv
  <2>2. CASE ~Open(c)
      BY <2>2 DEF Revision
  <2> QED BY <2>1, <2>2
<1>5. u \in Upload /\ u.count # 0
    BY <1>1, <1>3, <1>4 DEF Upload
<1>6. uploads' = [uploads EXCEPT ![k] = u] /\ uploads[k] = Null
    BY <1>1 DEF Begin
<1>7. uploads' \in [Uploads -> Upload \cup {Null}] /\ UploadsInv' /\ Kept(uploads, uploads')
    BY <1>5, <1>6 DEF CohortInv, TypeOK, UploadsInv, Kept
<1> QED BY <1>7, UploadStep DEF Begin, Evidence

LEMMA StepAppend1 ==
  ASSUME CohortInv, NEW k \in Uploads, NEW p \in Packages, Append1(k, p)
  PROVE  CohortInv'
<1>1. uploads[k] \in Upload /\ uploads[k] # Null
    BY DEF Append1, CohortInv, TypeOK
<1>2. PICK u : u = [uploads[k] EXCEPT !.members = @ \cup {MemberOf(p)}]
    OBVIOUS
<1>3. u \in Upload /\ u.count = uploads[k].count /\ u.cohort = uploads[k].cohort
    BY <1>1, <1>2, MemberTyped DEF Upload
<1>4. uploads' = [uploads EXCEPT ![k] = u]
    BY <1>2 DEF Append1
<1>5. u # Null
    BY <1>3, NullAssumption
<1>6. uploads' \in [Uploads -> Upload \cup {Null}] /\ UploadsInv' /\ Kept(uploads, uploads')
    BY <1>1, <1>3, <1>4, <1>5 DEF CohortInv, TypeOK, UploadsInv, Kept
<1> QED BY <1>6, UploadStep DEF Append1, Evidence

-----------------------------------------------------------------------------
(* The row of a cohort changes *)

(* A row that no earlier row is the same as. *)
Later(row, d) ==
  \/ row.revision < d.revision
  \/ row.revision = d.revision /\ Index(row.phase) < Index(d.phase)

LEMMA BeforeMoves ==
  ASSUME NEW x \in CohortRow, NEW row \in CohortRow, NEW d \in CohortRow,
         Before(x, row), Same(row, d) \/ Later(row, d)
  PROVE  Before(x, d) /\ (Same(x, d) => Same(x, row) /\ Same(row, d))
<1>1. /\ x.revision \in Nat /\ row.revision \in Nat /\ d.revision \in Nat
      /\ Index(x.phase) \in Nat /\ Index(row.phase) \in Nat /\ Index(d.phase) \in Nat
    BY PhaseSteps
<1>2. CASE Same(row, d)
    BY <1>2 DEF Same, Before
<1>3. CASE Later(row, d)
  <2>1. Before(x, d)
      BY <1>1, <1>3 DEF Before, Later
  <2>2. ~Same(x, d)
      BY <1>1, <1>3 DEF Before, Later, Same
  <2> QED BY <2>1, <2>2
<1> QED BY <1>2, <1>3

Cleared(c) == [pages EXCEPT ![c] = [p \in Packages |-> Null]]

LEMMA RowChanges ==
  ASSUME CohortInv, UNCHANGED Evidence, NEW h \in Handlers, NEW c \in Cohorts, NEW d \in CohortRow,
         cohorts' = [cohorts EXCEPT ![c] = d],
         Open(c) => Same(cohorts[c], d) \/ Later(cohorts[c], d),
         \/ pages' = Cleared(c)
         \/ Open(c) /\ Same(cohorts[c], d) /\ pages' = pages,
         calls' = Superseded(h, c),
         owner' \in [Keys -> Cohorts \cup {Null}], ScopesInv',
         uploads' \in [Uploads -> Upload \cup {Null}], UploadsInv', Kept(uploads, uploads'),
         d.phase \in {"stage", "approve"} => Settled(c)'
  PROVE  CohortInv'
<1>1. cohorts'[c] = d /\ d # Null /\ \A e \in Cohorts \ {c} : cohorts'[e] = cohorts[e]
    BY NullAssumption DEF CohortInv, TypeOK
<1>2. ASSUME NEW e \in Cohorts \ {c}, Settled(e) PROVE Settled(e)'
    BY <1>1, <1>2, SettledQuiet DEF Evidence, Open
<1>3. ASSUME NEW e \in Cohorts, NEW p, Open(e), Gate(e, Page(e, p)),
             e = c => Same(cohorts[c], d)
      PROVE  Gate(e, Page(e, p))'
  <2>1. cohorts'[e] # Null /\ Same(cohorts[e], cohorts'[e])
      BY <1>1, <1>3 DEF Open, Same
  <2> QED BY <1>3, <2>1, GateStays
<1>4. TypeOK'
  <2>1. cohorts' \in [Cohorts -> CohortRow \cup {Null}]
      BY DEF CohortInv, TypeOK
  <2>2. pages' \in [Cohorts -> [Packages -> {Null, "clean", "blocked"}]]
    <3>1. [p \in Packages |-> Null] \in [Packages -> {Null, "clean", "blocked"}]
        OBVIOUS
    <3>2. Cleared(c) \in [Cohorts -> [Packages -> {Null, "clean", "blocked"}]]
        BY <3>1 DEF CohortInv, TypeOK, Cleared
    <3> QED BY <3>2 DEF CohortInv, TypeOK
  <2>3. calls' \in [Handlers -> Call]
    <3>1. ASSUME NEW k \in Handlers PROVE calls'[k] \in Call
      <4>1. calls[k] \in Call
          BY CallTyped DEF CohortInv
      <4>2. [calls[k] EXCEPT !.current = FALSE] \in Call
          BY <4>1 DEF Call
      <4> QED BY <4>1, <4>2, IdleTyped DEF Superseded
    <3>2. calls' = [k \in Handlers |-> calls'[k]]
        BY DEF Superseded
    <3> QED BY <3>1, <3>2
  <2> QED BY <2>1, <2>2, <2>3 DEF CohortInv, TypeOK, Evidence
<1>5. RecipesInv'
    BY DEF CohortInv, RecipesInv, Evidence
<1>6. CallsInv'
  <2> SUFFICES ASSUME NEW k \in Handlers PROVE CallInv(calls[k])'
      BY DEF CallsInv
  <2>1. PICK z \in Call : z = calls[k]
      BY CallTyped DEF CohortInv
  <2>2. CallInv(z)
      BY <2>1 DEF CohortInv, CallsInv
  <2>3. PICK y : y = IF k = h THEN Idle
                     ELSE IF z.cohort = c THEN [z EXCEPT !.current = FALSE] ELSE z
      OBVIOUS
  <2>4. calls'[k] = y
      BY <2>1, <2>3 DEF Superseded
  <2>5. CASE k = h
      BY <2>3, <2>4, <2>5 DEF CallInv, Idle
  <2>6. CASE k # h
    <3>1. /\ y.pc = z.pc /\ y.cohort = z.cohort /\ y.upload = z.upload
          /\ y.members = z.members /\ y.pkg = z.pkg
          /\ y.row = z.row /\ y.clean = z.clean /\ y.passes = z.passes /\ y.fresh = z.fresh
          /\ y.current => z.current /\ z.cohort # c
        BY <2>3, <2>6 DEF Call
    <3>2. ASSUME z.pc = "paged"
          PROVE  /\ cohorts'[z.cohort] # Null /\ Before(z.row, cohorts'[z.cohort])
                 /\ z.fresh /\ z.clean /\ Same(z.row, cohorts'[z.cohort])
                      => Gate(z.cohort, Page(z.cohort, z.pkg))'
      <4>1. /\ z.cohort \in Cohorts /\ Open(z.cohort) /\ Before(z.row, cohorts[z.cohort])
            /\ z.row \in CohortRow
            /\ z.fresh /\ z.clean /\ Same(z.row, cohorts[z.cohort])
                 => Gate(z.cohort, Page(z.cohort, z.pkg))
          BY <2>2, <3>2 DEF CallInv
      <4>2. CASE z.cohort = c
        <5>1. cohorts[c] \in CohortRow
            BY <4>1, <4>2, OpenTyped DEF CohortInv
        <5>2. Before(z.row, d) /\ (Same(z.row, d) => Same(z.row, cohorts[c]) /\ Same(cohorts[c], d))
            BY <4>1, <4>2, <5>1, BeforeMoves
        <5> QED BY <1>1, <1>3, <4>1, <4>2, <5>2
      <4>3. CASE z.cohort # c
          BY <1>1, <1>3, <4>1, <4>3 DEF Open
      <4> QED BY <4>2, <4>3
    <3>3. ASSUME z.pc = "phase", y.current
          PROVE  /\ cohorts'[z.cohort] = z.row
                 /\ z.passes /\ ~z.row.chunked /\ z.row.phase \in Late => Settled(z.cohort)'
      <4>1. z.current /\ z.cohort \in Cohorts \ {c}
          BY <2>2, <3>1, <3>3 DEF CallInv
      <4> QED BY <1>1, <1>2, <2>2, <3>3, <4>1 DEF CallInv
    <3>4. z.pc = "seal" =>
            /\ z.upload \in Uploads /\ uploads'[z.upload] # Null
            /\ uploads'[z.upload].cohort = z.cohort
            /\ Cardinality(z.members) = uploads'[z.upload].count
        BY <2>2 DEF CallInv, Kept
    <3>5. CallInv(y)'
        BY <2>2, <3>1, <3>2, <3>3, <3>4 DEF CallInv, Open
    <3> QED BY <2>4, <3>5
  <2> QED BY <2>5, <2>6
<1>7. LedgerInv'
  <2> SUFFICES ASSUME NEW e \in Cohorts, NEW p \in Packages, pages'[e][p] = "clean"
               PROVE  Open(e)' /\ Gate(e, Page(e, p))'
      BY DEF LedgerInv
  <2>1. pages[e][p] = "clean" /\ (e = c => Same(cohorts[c], d))
      BY NullAssumption DEF CohortInv, TypeOK, Cleared
  <2>2. Open(e) /\ Gate(e, Page(e, p))
      BY <2>1 DEF CohortInv, LedgerInv
  <2> QED BY <1>1, <1>3, <2>1, <2>2 DEF Open
<1>8. StagedInv'
  <2> SUFFICES ASSUME NEW e \in Cohorts, Open(e)', cohorts'[e].phase \in {"stage", "approve"}
               PROVE  Settled(e)'
      BY DEF StagedInv
  <2>1. CASE e = c
      BY <1>1, <2>1
  <2>2. CASE e # c
      BY <1>1, <1>2, <2>2 DEF Open, CohortInv, StagedInv
  <2> QED BY <2>1, <2>2
<1> QED BY <1>4, <1>5, <1>6, <1>7, <1>8 DEF CohortInv

(* The members, and with them who owns what, are left alone. *)
LEMMA ScopesKept ==
  ASSUME CohortInv, UNCHANGED <<owner, recipe>>, NEW c \in Cohorts, NEW d \in CohortRow, Open(c),
         cohorts' = [cohorts EXCEPT ![c] = d], d.members = cohorts[c].members
  PROVE  ScopesInv'
<1> SUFFICES ASSUME NEW e \in Cohorts, Open(e)' PROVE ScopeInv(e)'
    BY DEF ScopesInv, ScopeInv
<1>1. Open(e) /\ cohorts'[e].members = cohorts[e].members
    BY DEF CohortInv, TypeOK, Open
<1> QED BY <1>1 DEF CohortInv, ScopesInv, ScopeInv

(* Every page is clean: so is the whole. *)
LEMMA LedgerGate ==
  ASSUME CohortInv, NEW c \in Cohorts, Open(c), LedgerClean(c)
  PROVE  Gate(c, Members(c))
<1>1. Members(c) = cohorts[c].members /\ Members(c) # {} /\ Members(c) \subseteq Member
    BY OpenTyped DEF CohortInv, ScopesInv, ScopeInv
<1>2. ASSUME NEW m \in Members(c) PROVE m \in Page(c, m.pkg) /\ Gate(c, Page(c, m.pkg))
  <2>1. m.pkg \in Listed(c) /\ m.pkg \in Packages
      BY <1>1 DEF Listed, Member
  <2> QED BY <2>1 DEF LedgerClean, CohortInv, LedgerInv, Page
<1>3. \A m \in Members(c) : MemberReady(c, m)
    BY <1>2 DEF Gate
<1>4. ASSUME Index(cohorts[c].phase) >= 3
      PROVE  Findings(Universe(c), Parent) = {} /\ \A m \in Members(c) : QualifiedNow(c, m)
    BY <1>1, <1>2, <1>4 DEF Gate
<1> QED BY <1>3, <1>4 DEF Gate

LEMMA CurrentCall ==
  ASSUME CohortInv, NEW h \in Handlers, Current(h)
  PROVE  /\ calls[h].cohort \in Cohorts /\ Open(calls[h].cohort)
         /\ cohorts[calls[h].cohort] = calls[h].row /\ calls[h].row \in CohortRow
         /\ calls[h].passes /\ ~calls[h].row.chunked /\ calls[h].row.phase \in Late
              => Settled(calls[h].cohort)
BY NullAssumption DEF CohortInv, CallsInv, CallInv, Current, Open

LEMMA StepCondition ==
  ASSUME CohortInv, NEW h \in Handlers, NEW condition \in {"ready", "blocked", "held"},
         Condition(h, condition)
  PROVE  CohortInv'
<1>1. PICK c : c = calls[h].cohort
    OBVIOUS
<1>2. PICK d : d = [cohorts[c] EXCEPT !.condition = condition]
    OBVIOUS
<1>3. c \in Cohorts /\ Open(c) /\ cohorts[c] \in CohortRow
    BY <1>1, CurrentCall DEF Condition
<1>4. /\ d \in CohortRow /\ Same(cohorts[c], d) /\ d.members = cohorts[c].members
      /\ d.phase = cohorts[c].phase
    BY <1>2, <1>3 DEF CohortRow, Same
<1>5. /\ cohorts' = [cohorts EXCEPT ![c] = d] /\ calls' = Superseded(h, c)
      /\ UNCHANGED <<owner, pages, uploads>> /\ UNCHANGED Evidence
    BY <1>1, <1>2 DEF Condition, Evidence
<1>6. ScopesInv'
    BY <1>3, <1>4, <1>5, ScopesKept DEF Evidence
<1>7. ASSUME d.phase \in {"stage", "approve"} PROVE Settled(c)'
  <2>1. Settled(c)
      BY <1>3, <1>4, <1>7 DEF CohortInv, StagedInv
  <2>2. cohorts'[c] = d /\ d # Null
      BY <1>3, <1>4, <1>5, NullAssumption DEF CohortInv, TypeOK
  <2> QED BY <1>3, <1>4, <1>5, <2>1, <2>2, SettledQuiet DEF Evidence, Open
<1>8. owner' \in [Keys -> Cohorts \cup {Null}]
    BY <1>5 DEF CohortInv, TypeOK
<1> QED BY <1>3, <1>4, <1>5, <1>6, <1>7, <1>8, RowChanges, UploadsQuiet

(* A scope that is advanced has passed its gate, and past its builds no       *)
(* change since can have added a finding.                                     *)
LEMMA AdvancePasses ==
  ASSUME CohortInv, NEW h \in Handlers, NEW c \in Cohorts, c = calls[h].cohort, Advance(h)
  PROVE  /\ \A m \in Members(c) : MemberReady(c, m)
         /\ cohorts[c].phase \in Late =>
              Settled(c) /\ Findings(Universe(c), Parent) = {}
<1>1. Open(c) /\ cohorts[c] = calls[h].row /\ cohorts[c] \in CohortRow
    BY CurrentCall DEF Advance
<1>2. cohorts[c].phase \in Late <=> Index(cohorts[c].phase) >= 3
    BY <1>1, PhaseSteps
<1>3. Index(cohorts[c].phase) \in Nat
    BY <1>1, PhaseSteps
<1>4. CASE cohorts[c].chunked
  <2>1. Gate(c, Members(c))
      BY <1>1, <1>4, LedgerGate DEF Advance, AdvanceFences
  <2> QED BY <1>2, <1>3, <2>1, GateSettles DEF Gate
<1>5. CASE ~cohorts[c].chunked
  <2>1. \A m \in Members(c) : MemberReady(c, m)
      BY <1>1, <1>5 DEF Advance, AdvanceFences, Fences
  <2>2. Latest(c)
      BY <2>1, ReadyLatest DEF Latest
  <2>3. cohorts[c].phase \in Late => Settled(c)
      BY <1>1, <1>5, CurrentCall DEF Advance
  <2> QED BY <2>1, <2>2, <2>3 DEF Settled
<1> QED BY <1>4, <1>5

LEMMA StepAdvance ==
  ASSUME CohortInv, NEW h \in Handlers, Advance(h)
  PROVE  CohortInv'
<1>1. PICK c : c = calls[h].cohort
    OBVIOUS
<1>2. PICK d : d = [cohorts[c] EXCEPT !.phase = Next5(cohorts[c].phase), !.condition = "ready"]
    OBVIOUS
<1>3. /\ c \in Cohorts /\ Open(c) /\ cohorts[c] \in CohortRow /\ cohorts[c].phase # "approve"
      /\ cohorts[c] = calls[h].row
    BY <1>1, CurrentCall DEF Advance
<1>4. /\ Next5(cohorts[c].phase) \in {Phases[i] : i \in 1..6}
      /\ Index(Next5(cohorts[c].phase)) = Index(cohorts[c].phase) + 1
      /\ Index(cohorts[c].phase) \in Nat
    BY <1>3, PhaseSteps, PhaseFacts
<1>5. d \in CohortRow
    BY <1>2, <1>3, <1>4 DEF CohortRow
<1>6. /\ d.members = cohorts[c].members /\ d.phase = Next5(cohorts[c].phase)
      /\ d.revision = cohorts[c].revision
    BY <1>2, <1>3 DEF CohortRow
<1>7. Later(cohorts[c], d)
    BY <1>4, <1>6 DEF Later
<1>8. /\ cohorts' = [cohorts EXCEPT ![c] = d] /\ calls' = Superseded(h, c)
      /\ pages' = Cleared(c)
      /\ UNCHANGED <<owner, uploads>> /\ UNCHANGED Evidence
  <2>1. cohorts' = [cohorts EXCEPT ![c].phase = Next5(cohorts[c].phase), ![c].condition = "ready"]
      BY <1>1, <1>3 DEF Advance
  <2>2. cohorts' = [cohorts EXCEPT ![c] = d]
      BY <1>2, <1>3, <2>1 DEF CohortInv, TypeOK
  <2> QED BY <1>1, <2>2 DEF Advance, Evidence, Cleared
<1>9. ScopesInv'
    BY <1>3, <1>5, <1>6, <1>8, ScopesKept DEF Evidence
<1>10. ASSUME d.phase \in {"stage", "approve"} PROVE Settled(c)'
  <2>1. cohorts[c].phase \in Late
      BY <1>3, <1>6, <1>10, PhaseSteps
  <2>2. Settled(c)
      BY <1>1, <1>3, <2>1, AdvancePasses
  <2>3. cohorts'[c] = d /\ d # Null
      BY <1>3, <1>5, <1>8, NullAssumption DEF CohortInv, TypeOK
  <2> QED BY <1>3, <1>6, <1>8, <2>2, <2>3, SettledQuiet DEF Evidence, Open
<1>11. owner' \in [Keys -> Cohorts \cup {Null}]
    BY <1>8 DEF CohortInv, TypeOK
<1>13. Open(c) => Same(cohorts[c], d) \/ Later(cohorts[c], d)
    BY <1>7
<1>14. uploads' \in [Uploads -> Upload \cup {Null}] /\ UploadsInv' /\ Kept(uploads, uploads')
    BY <1>8, UploadsQuiet
<1> QED BY <1>3, <1>5, <1>8, <1>9, <1>10, <1>11, <1>13, <1>14, RowChanges

(* A scope adopted is owned whole; no owner changes. *)
LEMMA AdoptOwns ==
  ASSUME CohortInv, NEW c \in Cohorts, NEW members \in SUBSET Member, NEW chunked,
         Adopt(c, members, chunked), members # {}, UNCHANGED recipe
  PROVE  /\ owner' \in [Keys -> Cohorts \cup {Null}]
         /\ ScopesInv'
<1>1. owner' = Owning(c, members) /\ DOMAIN owner = Keys
    BY DEF Adopt, CohortInv, TypeOK
<1>2. \A k \in Keys : owner'[k] = IF owner[k] = Null /\ \E m \in members : k = <<m.pkg, m.recipe>>
                                  THEN c ELSE owner[k]
    BY <1>1 DEF Owning
<1>3. owner' \in [Keys -> Cohorts \cup {Null}]
    BY <1>1 DEF Owning, CohortInv, TypeOK
<1>4. cohorts'[c].members = members /\ \A e \in Cohorts \ {c} : cohorts'[e] = cohorts[e]
    BY DEF Adopt, Revised, CohortInv, TypeOK
<1>5. ASSUME NEW m \in members
      PROVE  /\ <<m.pkg, m.recipe>> \in Keys /\ owner'[<<m.pkg, m.recipe>>] = c
             /\ m.recipe <= recipe'[m.pkg]
  <2>1. m.pkg \in Packages /\ m.recipe = recipe[m.pkg]
      BY DEF Adopt, ScopeCurrent, Member
  <2>2. recipe[m.pkg] \in 1..Recipes[m.pkg] /\ recipe[m.pkg] \in Nat
      BY <2>1 DEF CohortInv, RecipesInv, TypeOK
  <2>3. <<m.pkg, m.recipe>> \in Keys
      BY <2>1, <2>2 DEF Keys
  <2>4. owner[<<m.pkg, m.recipe>>] \in {Null, c}
      BY DEF Adopt, AllOwned
  <2>5. owner'[<<m.pkg, m.recipe>>] = c
      BY <1>2, <2>3, <2>4
  <2> QED BY <2>1, <2>2, <2>3, <2>5
<1>6. ScopesInv'
  <2> SUFFICES ASSUME NEW e \in Cohorts, Open(e)' PROVE ScopeInv(e)'
      BY DEF ScopesInv, ScopeInv
  <2>1. CASE e = c
      BY <1>4, <1>5, <2>1 DEF ScopeInv
  <2>2. CASE e # c
    <3>1. Open(e) /\ cohorts'[e] = cohorts[e] /\ ScopeInv(e)
        BY <1>4, <2>2 DEF Open, CohortInv, ScopesInv
    <3>2. \A k \in Keys : owner[k] = e => owner'[k] = e
        BY <1>2, NullAssumption
    <3> QED BY <3>1, <3>2 DEF ScopeInv
  <2> QED BY <2>1, <2>2
<1> QED BY <1>3, <1>6

LEMMA RevisedTyped ==
  ASSUME CohortInv, NEW c \in Cohorts, NEW members \in SUBSET Member, NEW chunked \in BOOLEAN
  PROVE  /\ Revised(c, members, chunked) \in CohortRow
         /\ Revised(c, members, chunked).phase = "plan"
         /\ Open(c) => Later(cohorts[c], Revised(c, members, chunked))
<1>1. PICK d : d = Revised(c, members, chunked)
    OBVIOUS
<1>3. Open(c) => cohorts[c] \in CohortRow /\ cohorts[c].revision \in Nat
    BY OpenTyped, PhaseSteps DEF CohortInv
<1>4. PICK r \in Nat : r = IF Open(c) THEN cohorts[c].revision + 1 ELSE 1
    BY <1>3
<1>5. d = [revision |-> r, phase |-> "plan", condition |-> "ready", chunked |-> chunked,
           members |-> members]
    BY <1>1, <1>4 DEF Revised
<1>6. "plan" \in {Phases[i] : i \in 1..6}
    BY PhaseFacts DEF PhaseNames
<1>7. d \in CohortRow
    BY <1>5, <1>6 DEF CohortRow
<1>8. ASSUME Open(c) PROVE Later(cohorts[c], d)
  <2>1. d.revision = cohorts[c].revision + 1
      BY <1>4, <1>5, <1>8 DEF Open
  <2> QED BY <1>3, <1>8, <2>1 DEF Later
<1> QED BY <1>1, <1>5, <1>7, <1>8

LEMMA StepAdopt ==
  ASSUME CohortInv, UNCHANGED Evidence, NEW h \in Handlers, NEW c \in Cohorts,
         NEW members \in SUBSET Member, members # {}, NEW chunked \in BOOLEAN,
         Adopt(c, members, chunked), calls' = Superseded(h, c),
         uploads' \in [Uploads -> Upload \cup {Null}], UploadsInv', Kept(uploads, uploads')
  PROVE  CohortInv'
<1>1. PICK d : d = Revised(c, members, chunked)
    OBVIOUS
<1>2. /\ cohorts' = [cohorts EXCEPT ![c] = d]
      /\ pages' = Cleared(c)
    BY <1>1 DEF Adopt, Cleared
<1>3. d \in CohortRow /\ d.phase = "plan" /\ (Open(c) => Later(cohorts[c], d))
    BY <1>1, RevisedTyped
<1>9. owner' \in [Keys -> Cohorts \cup {Null}] /\ ScopesInv'
    BY AdoptOwns DEF Evidence
<1>10. d.phase \notin {"stage", "approve"}
    BY <1>3
<1>12. Open(c) => Same(cohorts[c], d) \/ Later(cohorts[c], d)
    BY <1>3
<1> QED BY <1>2, <1>3, <1>9, <1>10, <1>12, RowChanges

LEMMA StepProposeCommit ==
  ASSUME CohortInv, NEW h \in Handlers, ProposeCommit(h)
  PROVE  CohortInv'
<1>1. PICK x \in Call : x = calls[h]
    BY CallTyped DEF CohortInv
<1>2. CallInv(x) /\ x.pc = "propose"
    BY <1>1 DEF CohortInv, CallsInv, ProposeCommit
<1>3. x.cohort \in Cohorts /\ x.members # {} /\ x.members \in SUBSET Member
    BY <1>2 DEF CallInv, Call
<1>4. /\ Adopt(x.cohort, x.members, FALSE) /\ calls' = Superseded(h, x.cohort)
      /\ UNCHANGED uploads /\ UNCHANGED Evidence
    BY <1>1 DEF ProposeCommit, Evidence
<1> QED BY <1>3, <1>4, StepAdopt, UploadsQuiet

LEMMA StepSealCommit ==
  ASSUME CohortInv, NEW h \in Handlers, SealCommit(h)
  PROVE  CohortInv'
<1>1. PICK x \in Call : x = calls[h]
    BY CallTyped DEF CohortInv
<1>2. PICK c : c = x.cohort
    OBVIOUS
<1>3. CallInv(x) /\ x.pc = "seal"
    BY <1>1 DEF CohortInv, CallsInv, SealCommit
<1>20. PICK k : k = x.upload
    OBVIOUS
<1>4. /\ c \in Cohorts /\ k \in Uploads /\ uploads[k] # Null /\ uploads[k] \in Upload
      /\ Cardinality(x.members) = uploads[k].count
    BY <1>2, <1>3, <1>20 DEF CallInv, CohortInv, TypeOK
<1>5. x.members # {} /\ x.members \in SUBSET Member
  <2>1. uploads[k].count # 0
      BY <1>4 DEF CohortInv, UploadsInv
  <2> QED BY <1>4, <2>1, FS_EmptySet DEF Call
<1>6. UNCHANGED Evidence
    BY DEF SealCommit, Evidence
<1>8. PICK same \in BOOLEAN : same = (Open(c) /\ x.members = Members(c) /\ cohorts[c].chunked)
  <2>1. (Open(c) /\ x.members = Members(c) /\ cohorts[c].chunked) \in BOOLEAN
    <3>1. CASE Open(c)
      <4>1. cohorts[c].chunked \in BOOLEAN
          BY <1>4, <3>1, OpenTyped DEF CohortInv, CohortRow
      <4> QED BY <4>1
    <3>2. CASE ~Open(c)
        BY <3>2
    <3> QED BY <3>1, <3>2
  <2> QED BY <2>1
<1>9. PICK s : s = IF same THEN Revision(c) ELSE Revision(c) + 1
    OBVIOUS
<1>10. uploads' = [uploads EXCEPT ![k].sealed = s]
    BY <1>1, <1>2, <1>8, <1>9, <1>20 DEF SealCommit
<1>11. s \in Nat
  <2>1. Revision(c) \in Nat
    <3>1. CASE Open(c)
        BY <1>4, <3>1, OpenTyped, PhaseSteps DEF Revision, CohortInv
    <3>2. CASE ~Open(c)
        BY <3>2 DEF Revision
    <3> QED BY <3>1, <3>2
  <2> QED BY <1>9, <2>1
<1>12. /\ uploads'[k] \in Upload /\ uploads'[k].count = uploads[k].count
       /\ uploads'[k].cohort = uploads[k].cohort
    BY <1>4, <1>10, <1>11 DEF Upload, CohortInv, TypeOK
<1>13. uploads'[k] # Null
    BY <1>12, NullAssumption
<1>14. uploads' \in [Uploads -> Upload \cup {Null}] /\ UploadsInv' /\ Kept(uploads, uploads')
  <2>1. \A e \in Uploads : e # k => uploads'[e] = uploads[e]
      BY <1>10 DEF CohortInv, TypeOK
  <2>2. uploads' = [e \in Uploads |-> uploads'[e]]
      BY <1>10 DEF CohortInv, TypeOK
  <2>3. \A e \in Uploads : uploads'[e] \in Upload \cup {Null}
      BY <1>12, <2>1 DEF CohortInv, TypeOK
  <2> QED BY <1>4, <1>12, <1>13, <2>1, <2>2, <2>3 DEF CohortInv, UploadsInv, Kept
<1>15. CASE same
  <2>1. calls' = [calls EXCEPT ![h] = Idle] /\ UNCHANGED <<cohorts, owner, pages>>
      BY <1>1, <1>2, <1>8, <1>15 DEF SealCommit, Answer
  <2>2. PICK y : y = Idle
      OBVIOUS
  <2>3. y.pc = "idle" /\ y \in Call
      BY <2>2, IdleTyped DEF Idle
  <2>4. CallInv(y)'
      BY <2>3 DEF CallInv
  <2> QED BY <1>6, <1>14, <2>1, <2>2, <2>3, <2>4, StepCall
<1>16. CASE ~same
  <2>1. Adopt(c, x.members, TRUE) /\ calls' = Superseded(h, c)
      BY <1>1, <1>2, <1>8, <1>16 DEF SealCommit
  <2> QED BY <1>4, <1>5, <1>6, <1>14, <2>1, StepAdopt
<1> QED BY <1>15, <1>16

LEMMA StepScope ==
  ASSUME CohortInv, Scope
  PROVE  CohortInv'
BY StepBegin, StepProposeRead, StepAppend1, StepSealRead, StepProposeCommit, StepSealCommit,
   StepGiveUp DEF Scope, Handlers

LEMMA StepPhase ==
  ASSUME CohortInv, Phase
  PROVE  CohortInv'
<1>1. \A h \in Handlers : (Hold(h) \/ Resume(h) \/ Recheck(h)) =>
        \E condition \in {"ready", "blocked", "held"} : Condition(h, condition)
    BY DEF Hold, Resume, Recheck, Judged
<1> QED BY <1>1, StepPageRead, StepPageEval, StepPageStore, StepPhaseRead, StepAdvance,
         StepCondition DEF Phase, Handlers

-----------------------------------------------------------------------------
(* The invariant holds *)

LEMMA CohortStep ==
  ASSUME CohortInv, [Next]_vars
  PROVE  CohortInv'
<1>1. CASE UNCHANGED vars
  <2>1. UNCHANGED <<cohorts, owner, pages, calls, uploads>> /\ UNCHANGED Evidence
      BY <1>1 DEF vars, Evidence
  <2> QED BY <2>1, UploadStep, UploadsQuiet
<1>2. CASE Next
    BY <1>2, StepEnvironment, StepScope, StepPhase DEF Next
<1> QED BY <1>1, <1>2

LEMMA CohortInit ==
  ASSUME Init
  PROVE  CohortInv
<1>1. TypeOK
  <2>1. owner \in [Keys -> Cohorts \cup {Null}]
      BY DEF Init
  <2>2. /\ cohorts \in [Cohorts -> CohortRow \cup {Null}]
        /\ uploads \in [Uploads -> Upload \cup {Null}]
        /\ catalog \in [Packages -> [revision : Nat, admitted : BOOLEAN]]
        /\ recipe \in [Packages -> Nat]
        /\ selection \in [Packages -> [revision : Nat, lock : SUBSET AllBytes]]
      BY DEF Init
  <2>3. builds \in [Packages -> Row]
      BY DEF Init, Row
  <2>4. pages \in [Cohorts -> [Packages -> {Null, "clean", "blocked"}]]
    <3>1. [p \in Packages |-> Null] \in [Packages -> {Null, "clean", "blocked"}]
        OBVIOUS
    <3> QED BY <3>1 DEF Init
  <2>5. calls \in [Handlers -> Call]
      BY IdleTyped DEF Init
  <2> QED BY <2>1, <2>2, <2>3, <2>4, <2>5 DEF TypeOK
<1>2. RecipesInv
  <2> SUFFICES ASSUME NEW p \in Packages
               PROVE  /\ recipe[p] \in 1..Recipes[p]
                      /\ builds[p].recipe \in 1..Recipes[p]
                      /\ builds[p].number <= MaxBuilds
                      /\ builds[p].status # "queued" => builds[p].number >= 1
      BY DEF RecipesInv
  <2>1. /\ recipe[p] = 1
        /\ builds[p].recipe = 1 /\ builds[p].number = 0 /\ builds[p].status = "queued"
      BY DEF Init
  <2>2. Recipes[p] \in Nat \ {0} /\ MaxBuilds \in Nat
      BY CohortAssumption
  <2> QED BY <2>1, <2>2
<1>3. (\A c \in Cohorts : ~Open(c)) /\ \A u \in Uploads : uploads[u] = Null
    BY DEF Init, Open
<1>4. CallsInv
  <2>1. \A h \in Handlers : calls[h].pc = "idle"
      BY DEF Init, Idle
  <2> QED BY <2>1 DEF CallsInv, CallInv
<1>5. LedgerInv
    BY NullAssumption DEF LedgerInv, Init
<1> QED BY <1>1, <1>2, <1>3, <1>4, <1>5 DEF CohortInv, ScopesInv, ScopeInv, UploadsInv, StagedInv

(* The invariant of the cohorts: a clean page is clean now, and a scope past  *)
(* its builds keeps its outputs and has no finding while its recipes are the  *)
(* latest (checkCohortPage, changeCohortPhase, proposeCohort).                *)
THEOREM CohortInvariant == Spec => []CohortInv
<1>1. Init => CohortInv
    BY CohortInit
<1>2. CohortInv /\ [Next]_vars => CohortInv'
    BY CohortStep
<1> QED BY <1>1, <1>2, PTL DEF Spec

-----------------------------------------------------------------------------
(* What is staged *)

(* What is staged, with its members unchanged, can be installed: no findings  *)
(* of pages read at different moments add up to less (qualifyCohortUniverse). *)
THEOREM StagedSound == Spec => []StagedIsSound
<1>1. CohortInv => StagedIsSound
  <2> SUFFICES ASSUME CohortInv, NEW c \in Cohorts, Open(c),
                      cohorts[c].phase \in {"stage", "approve"},
                      \A m \in Members(c) : MemberReady(c, m)
               PROVE  Sound(Universe(c))
      BY DEF StagedIsSound
  <2>1. Latest(c)
      BY ReadyLatest DEF Latest
  <2>2. Findings(Universe(c), Parent) = {}
      BY <2>1 DEF CohortInv, StagedInv, Settled
  <2> QED BY <2>2, UniverseSound
<1> QED BY <1>1, CohortInvariant, PTL

-----------------------------------------------------------------------------
(* Every change of a phase, and of a scope *)

Forward(c) ==
  Open(c) /\ cohorts'[c].revision = cohorts[c].revision /\ cohorts'[c].phase # cohorts[c].phase
  => /\ cohorts'[c].phase = Next5(cohorts[c].phase)
     /\ cohorts[c].condition # "held"
     /\ \A m \in Members(c) : MemberReady(c, m)
     /\ Index(cohorts[c].phase) >= 3 => Findings(Universe(c), Parent) = {}

Whole(c) ==
  Members(c)' # Members(c)
  => /\ \A m \in Members(c)' : m = MemberOf(m.pkg)
     /\ cohorts'[c].chunked => Sealing(c)

LEMMA RowKept ==
  ASSUME NEW c, cohorts'[c] = cohorts[c]
  PROVE  Forward(c) /\ Whole(c)
BY DEF Forward, Whole, Members

LEMMA ConditionOnly ==
  ASSUME CohortInv, NEW h \in Handlers, NEW condition \in {"ready", "blocked", "held"},
         Condition(h, condition), NEW c \in Cohorts
  PROVE  Forward(c) /\ Whole(c)
<1>1. PICK d : d = calls[h].cohort
    OBVIOUS
<1>2. d \in Cohorts /\ Open(d) /\ cohorts[d] \in CohortRow
    BY <1>1, CurrentCall DEF Condition
<1>3. cohorts' = [cohorts EXCEPT ![d].condition = condition]
    BY <1>1 DEF Condition
<1>4. CASE c # d
    BY <1>3, <1>4, RowKept DEF CohortInv, TypeOK
<1>5. CASE c = d
  <2>1. /\ cohorts'[c].phase = cohorts[c].phase /\ cohorts'[c].members = cohorts[c].members
        /\ cohorts'[c] = [cohorts[c] EXCEPT !.condition = condition]
      BY <1>2, <1>3, <1>5 DEF CohortInv, TypeOK, CohortRow
  <2>2. cohorts'[c] # Null => Members(c)' = Members(c)
      BY <1>2, <1>5, <2>1 DEF Members, Open
  <2>3. cohorts'[c] # Null
    <3>1. cohorts'[c] \in CohortRow
        BY <1>2, <1>5, <2>1 DEF CohortRow
    <3> QED BY <3>1, NullAssumption
  <2> QED BY <2>1, <2>2, <2>3 DEF Forward, Whole
<1> QED BY <1>4, <1>5

LEMMA AdvanceForward ==
  ASSUME CohortInv, NEW h \in Handlers, Advance(h), NEW c \in Cohorts
  PROVE  Forward(c) /\ Whole(c)
<1>1. PICK d : d = calls[h].cohort
    OBVIOUS
<1>2. d \in Cohorts /\ Open(d) /\ cohorts[d] \in CohortRow /\ cohorts[d] = calls[h].row
    BY <1>1, CurrentCall DEF Advance
<1>3. cohorts' = [cohorts EXCEPT ![d].phase = Next5(cohorts[d].phase), ![d].condition = "ready"]
    BY <1>1, <1>2 DEF Advance
<1>4. CASE c # d
    BY <1>3, <1>4, RowKept DEF CohortInv, TypeOK
<1>5. CASE c = d
  <2>1. /\ cohorts'[c].phase = Next5(cohorts[c].phase)
        /\ cohorts'[c].members = cohorts[c].members
      BY <1>2, <1>3, <1>5 DEF CohortInv, TypeOK, CohortRow
  <2>2. Members(c)' = Members(c)
    <3>1. CohortInv'
        BY StepAdvance
    <3>2. cohorts'[c] = [cohorts[c] EXCEPT !.phase = Next5(cohorts[c].phase), !.condition = "ready"]
        BY <1>2, <1>3, <1>5 DEF CohortInv, TypeOK
    <3>3. Next5(cohorts[c].phase) \in {Phases[i] : i \in 1..6}
        BY <1>1, <1>2, <1>5, PhaseSteps, PhaseFacts DEF Advance
    <3>4. cohorts'[c] \in CohortRow
        BY <1>2, <1>5, <3>2, <3>3 DEF CohortRow
    <3>5. cohorts'[c] # Null
        BY <3>4, NullAssumption
    <3> QED BY <1>2, <1>5, <2>1, <3>5 DEF Members, Open
  <2>3. cohorts[c].condition # "held"
      BY <1>1, <1>2, <1>5 DEF Advance
  <2>4. /\ \A m \in Members(c) : MemberReady(c, m)
        /\ cohorts[c].phase \in Late => Findings(Universe(c), Parent) = {}
      BY <1>1, <1>5, AdvancePasses
  <2>5. cohorts[c].phase \in Late <=> Index(cohorts[c].phase) >= 3
      BY <1>2, <1>5, PhaseSteps
  <2> QED BY <2>1, <2>2, <2>3, <2>4, <2>5 DEF Forward, Whole
<1> QED BY <1>4, <1>5

LEMMA AdoptWhole ==
  ASSUME CohortInv, NEW d \in Cohorts, NEW members \in SUBSET Member,
         NEW chunked \in BOOLEAN, Adopt(d, members, chunked),
         chunked => \E u \in Uploads :
                      /\ uploads[u] # Null /\ uploads[u].cohort = d /\ uploads[u].sealed = 0
                      /\ Cardinality(members) = uploads[u].count,
         NEW c \in Cohorts
  PROVE  Forward(c) /\ Whole(c)
<1>1. cohorts' = [cohorts EXCEPT ![d] = Revised(d, members, chunked)]
    BY DEF Adopt
<1>2. CASE c # d
    BY <1>1, <1>2, RowKept DEF CohortInv, TypeOK
<1>3. CASE c = d
  <2>1. /\ cohorts'[c].members = members /\ cohorts'[c].chunked = chunked
        /\ cohorts'[c].revision = IF Open(c) THEN cohorts[c].revision + 1 ELSE 1
      BY <1>1, <1>3 DEF Revised, CohortInv, TypeOK
  <2>2. Forward(c)
    <3> SUFFICES ASSUME Open(c) PROVE cohorts'[c].revision # cohorts[c].revision
        BY DEF Forward
    <3>1. cohorts[c].revision \in Nat
        BY OpenTyped, PhaseSteps DEF CohortInv
    <3> QED BY <2>1, <3>1
  <2>4. \A m \in members : m = MemberOf(m.pkg)
      BY DEF Adopt, ScopeCurrent, MemberOf, Member
  <2>5. cohorts'[c] # Null
      BY <1>1, <1>3, RevisedTyped, NullAssumption DEF CohortInv, TypeOK
  <2>6. Members(c)' = members
      BY <2>1, <2>5 DEF Members
  <2>7. chunked => Sealing(c)
      BY <1>3, <2>6 DEF Sealing
  <2> QED BY <2>1, <2>2, <2>4, <2>6, <2>7 DEF Whole
<1> QED BY <1>2, <1>3

LEMMA EveryStep ==
  ASSUME CohortInv, [Next]_vars, NEW c \in Cohorts
  PROVE  Forward(c) /\ Whole(c)
<1>1. CASE UNCHANGED cohorts
    BY <1>1, RowKept
<1>2. ASSUME NEW h \in Handlers, ProposeCommit(h)
      PROVE  Forward(c) /\ Whole(c)
  <2>1. PICK x \in Call : x = calls[h]
      BY CallTyped DEF CohortInv
  <2>2. x.cohort \in Cohorts /\ x.members \in SUBSET Member
      BY <1>2, <2>1 DEF CohortInv, CallsInv, CallInv, ProposeCommit, Call
  <2>3. Adopt(x.cohort, x.members, FALSE)
      BY <1>2, <2>1 DEF ProposeCommit
  <2> QED BY <2>2, <2>3, AdoptWhole
<1>3. ASSUME NEW h \in Handlers, SealCommit(h)
      PROVE  Forward(c) /\ Whole(c)
  <2>1. PICK x \in Call : x = calls[h]
      BY CallTyped DEF CohortInv
  <2>2. /\ x.cohort \in Cohorts /\ x.members \in SUBSET Member
        /\ x.upload \in Uploads /\ uploads[x.upload] # Null
        /\ uploads[x.upload].cohort = x.cohort /\ uploads[x.upload].sealed = 0
        /\ Cardinality(x.members) = uploads[x.upload].count
      BY <1>3, <2>1 DEF CohortInv, CallsInv, CallInv, SealCommit, Call
  <2>3. UNCHANGED cohorts \/ Adopt(x.cohort, x.members, TRUE)
      BY <1>3, <2>1 DEF SealCommit
  <2> QED BY <1>1, <2>2, <2>3, AdoptWhole
<1>4. ASSUME NEW h \in Handlers, Hold(h) \/ Resume(h) \/ Recheck(h)
      PROVE  Forward(c) /\ Whole(c)
  <2>1. PICK condition \in {"ready", "blocked", "held"} : Condition(h, condition)
      BY <1>4 DEF Hold, Resume, Recheck, Judged
  <2> QED BY <2>1, ConditionOnly
<1>5. CASE Environment
  <2>1. UNCHANGED cohorts
      BY <1>5 DEF Environment, Revise, Review, NewRecipe, BuildFinish, BuildStart, Report,
                  SelectInput
  <2> QED BY <1>1, <2>1
<1>6. CASE Scope
  <2>1. \/ UNCHANGED cohorts
        \/ \E h \in Handlers : ProposeCommit(h) \/ SealCommit(h)
      BY <1>6 DEF Scope, Begin, ProposeRead, Append1, SealRead, GiveUp
  <2> QED BY <1>1, <1>2, <1>3, <2>1
<1>7. CASE Phase
  <2>1. \/ UNCHANGED cohorts
        \/ \E h \in Handlers : Advance(h) \/ Hold(h) \/ Resume(h) \/ Recheck(h)
      BY <1>7 DEF Phase, PageRead, PageEval, PageStore, PhaseRead, Handlers
  <2> QED BY <1>1, <1>4, <2>1, AdvanceForward
<1>8. CASE UNCHANGED vars
    BY <1>1, <1>8 DEF vars
<1> QED BY <1>5, <1>6, <1>7, <1>8 DEF Next

(* A phase is only left forward, with every member ready and no finding at    *)
(* the commit, whatever changed between the checks of the pages or of the     *)
(* gate and the batch (changeCohortPhase).                                    *)
THEOREM AdvancesOnCurrentEvidence == Spec => AdvancedOnCurrentEvidence
<1>1. ASSUME CohortInv, [Next]_vars
      PROVE  [\A c \in Cohorts :
                Open(c) /\ cohorts'[c].revision = cohorts[c].revision
                  /\ cohorts'[c].phase # cohorts[c].phase
                => /\ cohorts'[c].phase = Next5(cohorts[c].phase)
                   /\ cohorts[c].condition # "held"
                   /\ \A m \in Members(c) : MemberReady(c, m)
                   /\ Index(cohorts[c].phase) >= 3 => Findings(Universe(c), Parent) = {}]_vars
    BY <1>1, EveryStep DEF Forward
<1> QED BY <1>1, CohortInvariant, PTL DEF Spec, AdvancedOnCurrentEvidence

(* A recipe in a scope is owned by its cohort, and a scope is adopted whole   *)
(* and current, though an upload read it chunk by chunk (proposeCohort,       *)
(* sealScopeUpload).                                                          *)
THEOREM ScopesAdopted == Spec => ScopeIsAdopted
<1>1. CohortInv => ScopeOwned
  <2> SUFFICES ASSUME CohortInv, NEW c \in Cohorts, NEW m \in Members(c)
               PROVE  owner[<<m.pkg, m.recipe>>] = c
      BY DEF ScopeOwned
  <2>1. Open(c) /\ Members(c) = cohorts[c].members
      BY DEF Members, Open
  <2> QED BY <2>1 DEF CohortInv, ScopesInv, ScopeInv
<1>2. ASSUME CohortInv, CohortInv', [Next]_vars
      PROVE  [/\ ScopeOwned'
              /\ \A c \in Cohorts :
                   Members(c)' # Members(c)
                   => /\ \A m \in Members(c)' : m = MemberOf(m.pkg)
                      /\ cohorts'[c].chunked => Sealing(c)]_vars
  <2>1. ScopeOwned'
      BY <1>1, <1>2, PTL
  <2>2. \A c \in Cohorts : Whole(c) \/ UNCHANGED vars
      BY <1>2, EveryStep
  <2> QED BY <2>1, <2>2 DEF Whole
<1> QED BY <1>2, CohortInvariant, PTL DEF Spec, ScopeIsAdopted
=============================================================================
