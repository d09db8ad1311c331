-------------------------------- MODULE Cohort --------------------------------
(* Build cohorts: a set of packages that is planned, reviewed, built,         *)
(* verified and staged together.  The scope is revised by a proposal of the   *)
(* whole manifest or by an upload that is begun, appended to chunk by chunk   *)
(* and sealed; a phase is left when every member passes its gate.  The gate   *)
(* of a chunked scope is checked page by page, each page stored in a ledger   *)
(* under the evidence epoch it was read at; the gate of an inline scope is    *)
(* evaluated by the call that advances.                                       *)
(*                                                                            *)
(* Database triggers move the epoch with every change of what a gate reads.   *)
(* An epoch never comes back, so the ledger holds the pages of the current    *)
(* one and a call in flight remembers whether the epoch it read is current.   *)
(* In the same way it remembers whether the cohort had an event since it read.*)
EXTENDS Naturals, FiniteSets, Sequences

CONSTANTS
  Null,
  Cohorts,       \* cohort ids
  Uploads,       \* ids of scope uploads
  Packages,      \* package bases
  Place,         \* their order by name
  Recipes,       \* per package, the number of its newest possible recipe
  Meta,          \* per package and recipe, the relations and symbols of its output
  Parent,        \* the pinned parent universe, package records as below
  Large,         \* package names whose inventory, old or new, outgrows one query
  Checkers,      \* calls in flight that check pages,
  Deciders,      \* that change the phase,
  Authors,       \* that change the scope
  MaxRevision,   \* bound on a cohort's revisions
  MaxBuilds,     \* bound on the builds of a package
  MaxChanges     \* bound on changes that work against a cohort

ASSUME CohortAssumption ==
  /\ Place \in [Packages -> Nat]
  /\ \A p, q \in Packages : Place[p] = Place[q] => p = q
  /\ Recipes \in [Packages -> Nat \ {0}]
  /\ MaxRevision \in Nat /\ MaxBuilds \in Nat /\ MaxChanges \in Nat
  /\ IsFiniteSet(Packages)

VARIABLES
  cohorts,    \* per cohort, Null or revision, phase, condition and scope
  owner,      \* cohort_recipe_ownership, by <<package, recipe>>
  catalog,    \* catalog policy: current revision and whether it is admitted
  recipe,     \* the latest recipe of each package
  approved,   \* packages whose latest recipe holds both sign-offs
  selection,  \* build_input_selections of the latest recipe
  builds,     \* builds of the latest recipe
  native,     \* latest native qualification of each package
  pages,      \* cohort_gate_pages of the current epoch, phase and revision
  uploads,    \* cohort_scope_uploads, sealed (the revision they gave) or open
  calls,      \* calls in flight, by handler
  changes     \* changes spent

vars == <<cohorts, owner, catalog, recipe, approved, selection, builds, native,
          pages, uploads, calls, changes>>

Handlers == Checkers \cup Deciders \cup Authors
Phases == <<"plan", "review", "build", "verify", "stage", "approve">>
Index(phase) == CHOOSE i \in 0..5 : Phases[i + 1] = phase
Next5(phase) == Phases[Index(phase) + 2]
Members(c) == IF cohorts[c] = Null THEN {} ELSE cohorts[c].members
Listed(c) == {m.pkg : m \in Members(c)}
Open(c) == cohorts[c] # Null
Charge == changes < MaxChanges /\ changes' = changes + 1

(* A call in flight: what it read, and whether that is of the current epoch   *)
(* (fresh), the cohort has had no event (current) and its pages are those it  *)
(* read (rows) since.                                                         *)
Idle == [pc |-> "idle", cohort |-> Null, upload |-> Null, members |-> {}, pkg |-> Null,
         row |-> Null, clean |-> FALSE, passes |-> FALSE, fresh |-> FALSE, current |-> FALSE, rows |-> FALSE]
InFlight(h) == calls[h].pc # "idle"

(* A member of a proposed scope: the current catalog policy and latest recipe.*)
MemberOf(p) == [pkg |-> p, policy |-> catalog[p].revision, recipe |-> recipe[p]]

-----------------------------------------------------------------------------
(* The qualification of a candidate universe: the packages a release would    *)
(* serve, those the cohort built ("candidate") over those of the pinned       *)
(* parent ("owned"), compared with the parent's own universe.                 *)
(*                                                                            *)
(* A package is a record: name, bytes, origin, provides and depends (package  *)
(* relations, a version constraint being part of the name), sonames and       *)
(* needed (its ELF files), exports and imports (their dynamic symbols, a      *)
(* version and a type being part of the name), archives (its static ones),    *)
(* rebuildOn, lock (the bytes of the packages it was built from) and abi (its *)
(* ABI inventory is retained; its typeAbi is always 'not-checked').           *)

NamesOf(p) == {p.name} \cup p.provides
CandidatesOf(U) == {p \in U : p.origin = "candidate"}
PreviousOf(B, p) == {b \in B : b.name = p.name}
PreviousBytes(B, p) == {b.bytes : b \in PreviousOf(B, p)}
SuccessorsOf(U, B) == {p \in CandidatesOf(U) : p.bytes \notin PreviousBytes(B, p)}

(* The universe a cohort would serve: the last output of each member replaces *)
(* the package of that name.                                                  *)
UniverseOf(B, outputs) == outputs \cup {b \in B : \A p \in outputs : p.name # b.name}

(* No two packages of one name, a provider for every relation, a provider for *)
(* every needed ELF name.                                                     *)
DuplicateNames(U) == {p.name : p \in {x \in U : \E y \in U : x # y /\ x.name = y.name}}
UnresolvedRelations(U) ==
  {c.name : c \in {x \in U : \E d \in x.depends : \A p \in U : d \notin NamesOf(p)}}
UnresolvedNeeded(U) ==
  {c.name : c \in {x \in U : \E s \in x.needed : \A p \in U : s \notin p.sonames}}
MissingInventories(U) == {p.name : p \in {x \in CandidatesOf(U) : ~x.abi}}

(* Whoever declares a relation with a name the provider has now or had        *)
(* before, links to it, or is declared to be rebuilt on it.  Who links to a   *)
(* name it had before is only looked up for large inventories.                *)
ReverseConsumers(U, B, p) ==
  LET names == NamesOf(p) \cup p.sonames
      before == UNION {NamesOf(b) \cup b.sonames : b \in PreviousOf(B, p)}
      linked == IF p.name \in Large
                THEN names \cup UNION {b.sonames : b \in PreviousOf(B, p)} ELSE names
  IN {c \in U : /\ c.name # p.name
                /\ \/ c.depends \cap (names \cup before) # {}
                   \/ c.needed \cap linked # {}
                   \/ p.name \in c.rebuildOn}

(* A provider whose static archives changed, or with symbols, and no consumer *)
(* anybody knows of.                                                          *)
UnknownClosures(U, B) ==
  {p.name : p \in {x \in SuccessorsOf(U, B) :
     /\ ReverseConsumers(U, B, x) = {}
     /\ x.exports # {} \/ \E b \in PreviousOf(B, x) : b.archives # x.archives}}

(* Mutant: a rebuild is only asked for when a SONAME disappears.              *)
RebuildsRequiredBySoname(U, B) ==
  {<<pc[1].name, pc[2].name>> : pc \in
     {pc \in SuccessorsOf(U, B) \X U : /\ pc[2] \in ReverseConsumers(U, B, pc[1])
                                       /\ pc[2].origin # "candidate"
                                       /\ \E b \in PreviousOf(B, pc[1]) :
                                            b.sonames \ pc[1].sonames # {}}}

(* A consumer of new provider bytes has to be rebuilt, whatever the SONAME.   *)
RebuildsRequired(U, B) ==
  {<<pc[1].name, pc[2].name>> : pc \in
     {pc \in SuccessorsOf(U, B) \X U : /\ pc[2] \in ReverseConsumers(U, B, pc[1])
                                       /\ pc[2].origin # "candidate"}}

(* A consumer links to a provider when one of the provider's SONAMEs, old or  *)
(* new, is reached over the needed names of the ELF files of the universe.    *)
LinkStep(U, S) == S \cup UNION {p.needed : p \in {x \in U : x.sonames \cap S # {}}}
LinkClosure(U, c) ==
  LET f[n \in 0..Cardinality(U)] == IF n = 0 THEN c.needed ELSE LinkStep(U, f[n - 1])
  IN f[Cardinality(U)]
LinksTo(U, B, c, p) ==
  \E v \in {p} \cup PreviousOf(B, p) :
    v.sonames \cap LinkClosure(U \cup PreviousOf(B, p), c) # {}

(* A symbol is attributed to the provider whose previous bytes exported it.   *)
UnresolvedImports(U, B) ==
  {<<pc[1].name, pc[2].name>> : pc \in
     {pc \in SuccessorsOf(U, B) \X CandidatesOf(U) :
        /\ pc[2] \in ReverseConsumers(U, B, pc[1])
        /\ LinksTo(U, B, pc[2], pc[1])
        /\ \E s \in pc[2].imports \ pc[1].exports :
             \A b \in PreviousOf(B, pc[1]) : s \in b.exports}}

(* Every provider of what a candidate depends on, links to or is rebuilt on,  *)
(* is in the lock the candidate was built from, by its final bytes.           *)
ProvidersFor(U, c) ==
  {p \in U : \/ c.depends \cap NamesOf(p) # {}
             \/ c.needed \cap p.sonames # {}
             \/ p.name \in c.rebuildOn}
UnboundProviders(U) ==
  {<<pc[1].name, pc[2].name>> : pc \in
     {pc \in U \X CandidatesOf(U) : /\ pc[1] \in ProvidersFor(U, pc[2])
                                    /\ pc[1].bytes \notin pc[2].lock}}

(* And no package of either universe was built from bytes a candidate has     *)
(* replaced, a static or build-time consumer that no relation shows included. *)
(* The parent's own record of a consumer counts even when the cohort rebuilt  *)
(* that consumer too.                                                         *)
StaleInputs(U, B) ==
  {<<pc[1].name, pc[2].name>> : pc \in
     {pc \in SuccessorsOf(U, B) \X (U \cup B) :
        /\ pc[1].name # pc[2].name
        /\ PreviousBytes(B, pc[1]) \cap pc[2].lock # {}}}

Findings(U, B) ==
  DuplicateNames(U) \cup UnresolvedRelations(U) \cup UnresolvedNeeded(U)
    \cup MissingInventories(U) \cup UnknownClosures(U, B)
    \cup {pc[2] : pc \in RebuildsRequired(U, B) \cup UnresolvedImports(U, B)
                           \cup UnboundProviders(U) \cup StaleInputs(U, B)}

-----------------------------------------------------------------------------
(* What a maintainer reads out of "no findings", said without the algorithm:  *)
(* installing the universe leaves every package with the relations and the    *)
(* libraries it wants, each library from bytes the package was built against. *)
Links(c, p) == c.needed \cap p.sonames # {}
Sound(U) ==
  /\ \A c \in U : \A d \in c.depends : \E p \in U : d \in NamesOf(p)
  /\ \A c \in U : \A s \in c.needed : \E p \in U : s \in p.sonames
  /\ \A c, p \in U : Links(c, p) /\ "candidate" \in {c.origin, p.origin}
                      => p.bytes \in c.lock
  /\ \A p, q \in U : p.name = q.name => p = q

-----------------------------------------------------------------------------
(* The universe and the facts a gate reads *)

Bytes(p) == <<p, builds[p].recipe, builds[p].number>>

(* No build makes the bytes of a package the parent lists.                    *)
ASSUME ParentAssumption ==
  \A b \in Parent :
    /\ b.origin = "owned"
    /\ \A p \in Packages : \A n \in 1..Recipes[p] : \A k \in 1..MaxBuilds : b.bytes # <<p, n, k>>

Member == [pkg : Packages, policy : Nat, recipe : Nat]
CohortRow ==
  [revision : Nat, phase : {Phases[i] : i \in 1..6}, condition : {"ready", "blocked", "held"},
   chunked : BOOLEAN, members : SUBSET Member]
Upload == [cohort : Cohorts, expected : Nat, count : Nat, members : SUBSET Member, sealed : Nat]

ASSUME NullAssumption ==
  /\ Null \notin Cohorts /\ Null \notin CohortRow /\ Null \notin Upload
  /\ Null \notin {"clean", "blocked"}
Output(p) ==
  LET meta == Meta[p][builds[p].recipe] IN
  [name |-> p, bytes |-> Bytes(p), origin |-> "candidate", abi |-> TRUE,
   lock |-> builds[p].lock,
   provides |-> meta.provides, depends |-> meta.depends, rebuildOn |-> meta.rebuildOn,
   sonames |-> meta.sonames, needed |-> meta.needed,
   exports |-> meta.exports, imports |-> meta.imports, archives |-> meta.archives]
Outputs(c) == {Output(m.pkg) : m \in {x \in Members(c) :
                 builds[x.pkg].status = "succeeded" /\ builds[x.pkg].recipe = x.recipe}}
Universe(c) == UniverseOf(Parent, Outputs(c))

(* One member at one phase: its catalog policy is current and admitted, its   *)
(* recipe is the latest; from review on its recipe is approved; from build on *)
(* it is built for this revision of the cohort from the selected lock.        *)
Policied(m) == catalog[m.pkg] = [revision |-> m.policy, admitted |-> TRUE]
BuiltFor(c, m) ==
  LET b == builds[m.pkg] IN
    /\ b.recipe = m.recipe /\ b.status = "succeeded" /\ b.revision = cohorts[c].revision
    /\ selection[m.pkg] = [revision |-> b.revision, lock |-> b.lock]
MemberReady(c, m) ==
  LET i == Index(cohorts[c].phase) IN
    /\ Policied(m) /\ recipe[m.pkg] = m.recipe
    /\ i >= 1 => m.pkg \in approved
    /\ i >= 2 => BuiltFor(c, m)

(* Native qualification: the latest report for this revision passed.  A fence *)
(* repeats it at the commit, and asks for a report on the current output.     *)
QualifiedNow(c, m) ==
  /\ native[m.pkg].revision = cohorts[c].revision /\ native[m.pkg].passed
FenceNative(c, m) ==
  \E r \in native[m.pkg].reports :
    r = [revision |-> cohorts[c].revision, bytes |-> Bytes(m.pkg)]

(* evaluateCohortGate on a set of members.                                    *)
Gate(c, ms) ==
  /\ \A m \in ms : MemberReady(c, m)
  /\ Index(cohorts[c].phase) >= 3 =>
       /\ Findings(Universe(c), Parent) = {}
       /\ \A m \in ms : QualifiedNow(c, m)

(* Its fences, evaluated again inside the batch that commits.                 *)
Fences(c, ms) ==
  /\ \A m \in ms : MemberReady(c, m)
  /\ Index(cohorts[c].phase) >= 3 => \A m \in ms : FenceNative(c, m)

(* A trigger moves the epoch: pages of the old one are never read again.      *)
EpochMoved ==
  /\ pages' = [c \in Cohorts |-> [p \in Packages |-> Null]]
  /\ calls' = [h \in Handlers |-> [calls[h] EXCEPT !.fresh = FALSE]]

(* An event is appended: other calls find another sequence and digest.        *)
Superseded(h, c) ==
  [k \in Handlers |->
     IF k = h THEN Idle
     ELSE IF calls[k].cohort = c THEN [calls[k] EXCEPT !.current = FALSE] ELSE calls[k]]

Answer(h) == calls' = [calls EXCEPT ![h] = Idle]
Revised(c, members, chunked) ==
  [revision |-> IF Open(c) THEN cohorts[c].revision + 1 ELSE 1,
   phase |-> "plan", condition |-> "ready", chunked |-> chunked, members |-> members]
Revision(c) == IF Open(c) THEN cohorts[c].revision ELSE 0

(* cohort_recipe_ownership: first come, kept over later revisions.            *)
Keys == UNION {{p} \X (1..Recipes[p]) : p \in Packages}
Owning(c, members) ==
  [k \in DOMAIN owner |->
     IF owner[k] = Null /\ \E m \in members : k = <<m.pkg, m.recipe>> THEN c ELSE owner[k]]
(* Mutant: the batch does not assert that it owns what it could not insert.   *)
AllOwnedUnasserted(c, members) == TRUE
AllOwned(c, members) == \A m \in members : owner[<<m.pkg, m.recipe>>] \in {Null, c}

(* Mutant: only the recipe is compared, not the catalog revision.             *)
ScopeRecipesCurrent(members) == \A m \in members : m.recipe = recipe[m.pkg]
(* Scope members are still the current catalog and the latest recipes.        *)
ScopeCurrent(members) ==
  \A m \in members : m.policy = catalog[m.pkg].revision /\ m.recipe = recipe[m.pkg]

(* The batch that gives the cohort a new revision.                            *)
Adopt(c, members, chunked) ==
  /\ ScopeCurrent(members) /\ AllOwned(c, members)
  /\ owner' = Owning(c, members)
  /\ cohorts' = [cohorts EXCEPT ![c] = Revised(c, members, chunked)]
  /\ pages' = [pages EXCEPT ![c] = [p \in Packages |-> Null]]

-----------------------------------------------------------------------------
(* Scope: a proposal of the whole manifest *)

ProposeRead(h, c, S) ==
  /\ Charge /\ calls[h] = Idle /\ Revision(c) < MaxRevision
  /\ Open(c) => {MemberOf(p) : p \in S} # Members(c)
  /\ calls' = [calls EXCEPT ![h] =
       [Idle EXCEPT !.pc = "propose", !.cohort = c, !.members = {MemberOf(p) : p \in S},
                    !.current = TRUE]]
  /\ UNCHANGED <<cohorts, owner, catalog, recipe, approved, selection, builds, native,
                 pages, uploads>>

ProposeCommit(h) ==
  LET call == calls[h] IN
    /\ call.pc = "propose" /\ call.current
    /\ Adopt(call.cohort, call.members, FALSE)
    /\ calls' = Superseded(h, call.cohort)
    /\ UNCHANGED <<catalog, recipe, approved, selection, builds, native, uploads, changes>>

(* A call whose batch is refused, or that dies before it.                     *)
GiveUp(h) ==
  /\ InFlight(h) /\ Answer(h)
  /\ UNCHANGED <<cohorts, owner, catalog, recipe, approved, selection, builds, native,
                 pages, uploads, changes>>

(* Scope: an upload that is begun, appended to and sealed.  A cohort may have *)
(* several, one after the other or at once.                                   *)

Begin(u, c, S) ==
  /\ Charge /\ uploads[u] = Null /\ Revision(c) < MaxRevision
  /\ uploads' = [uploads EXCEPT ![u] =
       [cohort |-> c, expected |-> Revision(c), count |-> Cardinality(S), members |-> {},
        sealed |-> 0]]
  /\ UNCHANGED <<cohorts, owner, catalog, recipe, approved, selection, builds, native,
                 pages, calls>>

Append1(u, p) ==
  LET row == uploads[u] IN
    /\ row # Null /\ row.sealed = 0 /\ Cardinality(row.members) < row.count
    /\ \A m \in row.members : Place[m.pkg] < Place[p]
    /\ uploads' = [uploads EXCEPT ![u].members = @ \cup {MemberOf(p)}]
    /\ UNCHANGED <<cohorts, owner, catalog, recipe, approved, selection, builds, native,
                   pages, calls, changes>>

SealRead(h, u) ==
  LET row == uploads[u] IN
    /\ calls[h] = Idle /\ row # Null /\ row.sealed = 0
    /\ Cardinality(row.members) = row.count /\ row.expected = Revision(row.cohort)
    /\ calls' = [calls EXCEPT ![h] =
         [Idle EXCEPT !.pc = "seal", !.cohort = row.cohort, !.upload = u,
                      !.members = row.members, !.current = TRUE]]
    /\ UNCHANGED <<cohorts, owner, catalog, recipe, approved, selection, builds, native,
                   pages, uploads, changes>>

(* An unchanged manifest only closes the upload.                              *)
SealCommit(h) ==
  LET call == calls[h]
      c == call.cohort
      same == Open(c) /\ call.members = Members(c) /\ cohorts[c].chunked
      revision == IF same THEN Revision(c) ELSE Revision(c) + 1
  IN /\ call.pc = "seal" /\ call.current /\ uploads[call.upload].sealed = 0
     /\ uploads' = [uploads EXCEPT ![call.upload].sealed = revision]
     /\ IF same
          THEN /\ Answer(h) /\ UNCHANGED <<cohorts, owner, pages>>
          ELSE /\ Adopt(c, call.members, TRUE) /\ calls' = Superseded(h, c)
     /\ UNCHANGED <<catalog, recipe, approved, selection, builds, native, changes>>

-----------------------------------------------------------------------------
(* Inputs, builds and native reports: what the gates read *)

Needs(p) ==
  {q \in Packages \ {p} : \E b \in Parent \cup {Output(q)} :
     /\ b.name = q
     /\ \/ Meta[p][recipe[p]].depends \cap NamesOf(b) # {}
        \/ Meta[p][recipe[p]].needed \cap b.sonames # {}}
InputOf(q) ==
  PreviousBytes(Parent, [name |-> q])
    \cup {Bytes(x) : x \in {y \in {q} : builds[y].status = "succeeded"}}
Locks(p) == {{f[q] : q \in Needs(p)} : f \in
  {g \in [Needs(p) -> UNION {InputOf(q) : q \in Needs(p)}] : \A q \in Needs(p) : g[q] \in InputOf(q)}}
ScopeLists(c, p, phases) ==
  /\ Open(c) /\ cohorts[c].phase \in phases /\ cohorts[c].condition # "held"
  /\ \E m \in Members(c) : m.pkg = p /\ m.recipe = recipe[p] /\ Policied(m)

(* A reviewed lock is selected for a recipe nobody builds; a build made from  *)
(* another lock is queued again.                                              *)
SelectInput(c, p, lock) ==
  /\ ScopeLists(c, p, {"plan", "review", "build"})
  /\ p \in approved /\ builds[p].status # "leased"
  /\ selection[p] # [revision |-> cohorts[c].revision, lock |-> lock]
  /\ selection' = [selection EXCEPT ![p] = [revision |-> cohorts[c].revision, lock |-> lock]]
  /\ builds' = [builds EXCEPT ![p].status = "queued"]
  /\ EpochMoved
  /\ UNCHANGED <<cohorts, owner, catalog, recipe, approved, native, uploads, changes>>

BuildStart(c, p) ==
  /\ ScopeLists(c, p, {"build"})
  /\ builds[p].status = "queued" /\ builds[p].number < MaxBuilds
  /\ selection[p].revision = cohorts[c].revision
  /\ builds' = [builds EXCEPT ![p] =
       [recipe |-> recipe[p], revision |-> cohorts[c].revision, number |-> @.number + 1,
        status |-> "leased", lock |-> selection[p].lock]]
  /\ EpochMoved
  /\ UNCHANGED <<cohorts, owner, catalog, recipe, approved, selection, native, uploads, changes>>

BuildFinish(p) ==
  /\ builds[p].status = "leased"
  /\ builds' = [builds EXCEPT ![p].status = "succeeded"]
  /\ EpochMoved
  /\ UNCHANGED <<cohorts, owner, catalog, recipe, approved, selection, native, uploads, changes>>

(* recordNativeQualification: bound to the revision and the output it names.  *)
Report(c, p, passed) ==
  LET r == [revision |-> cohorts[c].revision, bytes |-> Bytes(p)] IN
    /\ Open(c) /\ \E m \in Members(c) : m.pkg = p /\ BuiltFor(c, m)
    /\ r \in native[p].reports => passed # native[p].passed
    /\ native' = [native EXCEPT ![p] =
         [revision |-> r.revision, passed |-> passed, reports |-> @.reports \cup {r}]]
    /\ EpochMoved
    /\ IF passed THEN UNCHANGED changes ELSE Charge
    /\ UNCHANGED <<cohorts, owner, catalog, recipe, approved, selection, builds, uploads>>

(* What happens to the packages meanwhile. *)

Revise(p, admitted) ==
  /\ Charge
  /\ catalog' = [catalog EXCEPT ![p] = [revision |-> @.revision + 1, admitted |-> admitted]]
  /\ EpochMoved
  /\ UNCHANGED <<cohorts, owner, recipe, approved, selection, builds, native, uploads>>

NewRecipe(p) ==
  /\ Charge /\ recipe[p] < Recipes[p]
  /\ recipe' = [recipe EXCEPT ![p] = @ + 1]
  /\ approved' = approved \ {p}
  /\ builds' = [builds EXCEPT ![p].status = "queued"]
  /\ EpochMoved
  /\ UNCHANGED <<cohorts, owner, catalog, selection, native, uploads>>

Review(p, yes) ==
  /\ yes = (p \notin approved)
  /\ approved' = IF yes THEN approved \cup {p} ELSE approved \ {p}
  /\ IF yes THEN UNCHANGED changes ELSE Charge
  /\ EpochMoved
  /\ UNCHANGED <<cohorts, owner, catalog, recipe, selection, builds, native, uploads>>

-----------------------------------------------------------------------------
(* Checking a page of a chunked scope: one member in this model *)

PageRead(h, c, p) ==
  /\ calls[h] = Idle /\ Open(c) /\ cohorts[c].chunked /\ p \in Listed(c)
  /\ calls' = [calls EXCEPT ![h] =
       [Idle EXCEPT !.pc = "page", !.cohort = c, !.pkg = p, !.row = cohorts[c], !.fresh = TRUE]]
  /\ UNCHANGED <<cohorts, owner, catalog, recipe, approved, selection, builds, native,
                 pages, uploads, changes>>

Page(c, p) == {m \in Members(c) : m.pkg = p}
(* The gate is evaluated for the row that was read; when that has changed     *)
(* already nothing is stored, whatever it finds.                              *)
PageEval(h) ==
  LET call == calls[h] IN
    /\ call.pc = "page" /\ call.fresh /\ cohorts[call.cohort] = call.row
    /\ calls' = [calls EXCEPT ![h].pc = "paged",
                              ![h].clean = Gate(call.cohort, Page(call.cohort, call.pkg))]
    /\ UNCHANGED <<cohorts, owner, catalog, recipe, approved, selection, builds, native,
                   pages, uploads, changes>>

PageStore(h) ==
  LET call == calls[h]
      c == call.cohort
  IN /\ call.pc = "paged" /\ call.fresh /\ cohorts[c] = call.row
     /\ call.clean => Fences(c, Page(c, call.pkg))
     /\ pages' = [pages EXCEPT ![c][call.pkg] = IF call.clean THEN "clean" ELSE "blocked"]
     /\ calls' = [k \in Handlers |->
          IF k = h THEN Idle
          ELSE IF calls[k].cohort = c THEN [calls[k] EXCEPT !.rows = FALSE] ELSE calls[k]]
     /\ UNCHANGED <<cohorts, owner, catalog, recipe, approved, selection, builds, native,
                    uploads, changes>>

(* Changing the phase or the condition *)

LedgerClean(c) == \A p \in Listed(c) : pages[c][p] = "clean"
Passes(c) == IF cohorts[c].chunked THEN LedgerClean(c) ELSE Gate(c, Members(c))

PhaseRead(h, c) ==
  /\ calls[h] = Idle /\ Open(c)
  /\ calls' = [calls EXCEPT ![h] =
       [Idle EXCEPT !.pc = "phase", !.cohort = c, !.row = cohorts[c], !.passes = Passes(c),
                    !.fresh = TRUE, !.current = TRUE, !.rows = TRUE]]
  /\ UNCHANGED <<cohorts, owner, catalog, recipe, approved, selection, builds, native,
                 pages, uploads, changes>>

(* Mutant: the ledger is not read again in the batch.                         *)
AdvanceFencesRead(c, call) == call.passes
(* The fences of the two kinds of scope.                                      *)
AdvanceFences(c, call) ==
  IF call.row.chunked THEN call.fresh /\ call.rows /\ LedgerClean(c)
                      ELSE Fences(c, Members(c))
Current(h) == calls[h].pc = "phase" /\ calls[h].current

Advance(h) ==
  LET call == calls[h]
      c == call.cohort
  IN /\ Current(h) /\ call.passes /\ call.row.condition # "held"
     /\ call.row.phase # "approve"
     /\ AdvanceFences(c, call)
     /\ cohorts' = [cohorts EXCEPT ![c].phase = Next5(call.row.phase), ![c].condition = "ready"]
     /\ pages' = [pages EXCEPT ![c] = [p \in Packages |-> Null]]
     /\ calls' = Superseded(h, c)
     /\ UNCHANGED <<owner, catalog, recipe, approved, selection, builds, native, uploads, changes>>

Condition(h, condition) ==
  LET c == calls[h].cohort IN
    /\ Current(h)
    /\ cohorts' = [cohorts EXCEPT ![c].condition = condition]
    /\ calls' = Superseded(h, c)
    /\ UNCHANGED <<owner, catalog, recipe, approved, selection, builds, native, pages, uploads>>
Hold(h) == Current(h) /\ calls[h].row.condition # "held" /\ Condition(h, "held") /\ Charge
Judged(h) == IF calls[h].passes THEN "ready" ELSE "blocked"
Resume(h) == Condition(h, Judged(h)) /\ UNCHANGED changes
Recheck(h) ==
  /\ Condition(h, IF calls[h].row.condition = "held" THEN "held" ELSE Judged(h))
  /\ UNCHANGED changes

-----------------------------------------------------------------------------
Environment ==
  \/ \E p \in Packages : \/ \E yes \in BOOLEAN : Revise(p, yes) \/ Review(p, yes)
                         \/ NewRecipe(p) \/ BuildFinish(p)
  \/ \E c \in Cohorts, p \in Packages :
       \/ BuildStart(c, p)
       \/ \E passed \in BOOLEAN : Report(c, p, passed)
       \/ \E lock \in Locks(p) : SelectInput(c, p, lock)

Scope ==
  \/ \E c \in Cohorts, S \in (SUBSET Packages) \ {{}} :
       \/ \E u \in Uploads : Begin(u, c, S)
       \/ \E h \in Authors : ProposeRead(h, c, S)
  \/ \E u \in Uploads : \/ \E p \in Packages : Append1(u, p)
                        \/ \E h \in Authors : SealRead(h, u)
  \/ \E h \in Handlers : ProposeCommit(h) \/ SealCommit(h) \/ GiveUp(h)

Phase ==
  \/ \E h \in Checkers : \/ \E c \in Cohorts, p \in Packages : PageRead(h, c, p)
                         \/ PageEval(h) \/ PageStore(h)
  \/ \E h \in Deciders : \/ \E c \in Cohorts : PhaseRead(h, c)
                         \/ Advance(h) \/ Hold(h) \/ Resume(h) \/ Recheck(h)

Next == Environment \/ Scope \/ Phase

(* No cohort yet.                                                             *)
Init ==
  /\ catalog = [p \in Packages |-> [revision |-> 1, admitted |-> TRUE]]
  /\ recipe = [p \in Packages |-> 1] /\ approved = Packages
  /\ owner = [k \in Keys |-> Null]
  /\ cohorts = [c \in Cohorts |-> Null] /\ uploads = [u \in Uploads |-> Null]
  /\ selection = [p \in Packages |-> [revision |-> 0, lock |-> {}]]
  /\ builds = [p \in Packages |-> [recipe |-> 1, revision |-> 0, number |-> 0,
                                   status |-> "queued", lock |-> {}]]
  /\ native = [p \in Packages |-> [revision |-> 0, passed |-> FALSE, reports |-> {}]]
  /\ pages = [c \in Cohorts |-> [p \in Packages |-> Null]]
  /\ calls = [h \in Handlers |-> Idle] /\ changes = 0

Spec == Init /\ [][Next]_vars

-----------------------------------------------------------------------------
(* Properties *)

(* A phase is only left forward when, at the commit, every member has what    *)
(* the phase asks for and the universe has no finding: no change between the  *)
(* checking of a page or the evaluation of a gate and the batch slips through *)
(* (changeCohortPhase, checkCohortPage).                                      *)
AdvancedOnCurrentEvidence ==
  [][\A c \in Cohorts :
       Open(c) /\ cohorts'[c].revision = cohorts[c].revision
         /\ cohorts'[c].phase # cohorts[c].phase
       => /\ cohorts'[c].phase = Next5(cohorts[c].phase)
          /\ cohorts[c].condition # "held"
          /\ \A m \in Members(c) : MemberReady(c, m)
          /\ Index(cohorts[c].phase) >= 3 => Findings(Universe(c), Parent) = {}]_vars

(* What is staged is sound, as long as its members are unchanged: the gate's  *)
(* findings, collected page by page against different states of the other     *)
(* members, add up to a universe that can be installed.                       *)
StagedIsSound ==
  \A c \in Cohorts :
    Open(c) /\ cohorts[c].phase \in {"stage", "approve"}
      /\ (\A m \in Members(c) : MemberReady(c, m))
    => Sound(Universe(c))

(* A recipe is in the scope of one cohort, its owner, however proposals,      *)
(* uploads and their retries of several cohorts overlap.                      *)
ScopeOwned == \A c \in Cohorts : \A m \in Members(c) : owner[<<m.pkg, m.recipe>>] = c

(* What makes an upload's seal good: it is the cohort's own, not sealed yet,  *)
(* and the scope is as long as it was declared.                               *)
Sealing(c) ==
  \E u \in Uploads :
    /\ uploads[u] # Null /\ uploads[u].cohort = c /\ uploads[u].sealed = 0
    /\ Cardinality(Members(c)') = uploads[u].count

(* A scope holds only members the cohort owns: two cohorts that seal the same *)
(* recipe exclude each other. And it is adopted whole and current: every      *)
(* member by the catalog policy and the latest recipe of the moment, and a    *)
(* chunked scope from an upload that may be sealed, though its members were   *)
(* read chunk by chunk, any time before (proposeCohort, sealScopeUpload).     *)
ScopeIsAdopted ==
  [][/\ ScopeOwned'
     /\ \A c \in Cohorts :
          Members(c)' # Members(c)
          => /\ \A m \in Members(c)' : m = MemberOf(m.pkg)
             /\ cohorts'[c].chunked => Sealing(c)]_vars
=============================================================================
