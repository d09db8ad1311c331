---------------------------- MODULE RebuildDraft ----------------------------
(* From the planner's report to a revision of a cohort's scope                *)
(* (src/lib/server/rebuild-cohort.ts with cohort-scope-uploads.ts).           *)
(*                                                                            *)
(* A call previews the report against the catalog and the current scope, and  *)
(* then feeds the members it found to a scope upload, chunk by chunk, until   *)
(* the upload is sealed as the next revision.  Every step awaits the          *)
(* database: policies, recipes and the scope itself may change in between,    *)
(* another call of the same maintainer may feed the same upload, and a call   *)
(* may die; what it stored stays, and the next call resumes it.               *)
EXTENDS RebuildPlan

CONSTANTS
  Handlers,      \* calls of one maintainer that may be in progress at a time
  Required,      \* Required[p]: the targets the policy of p asks for
  AllTargets,    \* the targets the distribution requires
  MaxCauses,     \* a report lists at most so many causes of a member
  MaxReason,     \* a reason names at most so many causes (2000 characters)
  Collation,     \* the package bases as localeCompare sorts them
  MaxChanges     \* bound on the changes of the environment

ASSUME DraftAssumption == MaxCauses \in Nat /\ MaxReason \in Nat /\ MaxChanges \in Nat

VARIABLES
  catalog,   \* per package base: None or [revision, admitted] of its policy
  recipes,   \* per package base: the latest recipe revision, and its state
  scope,     \* the cohort: revision, members, and whether it was published
  uploads,   \* per expected revision: None or the upload of this report
  calls,     \* the calls in progress
  changes

dbVars == <<catalog, recipes, scope, uploads>>
vars == <<ask, pc, plans, work, catalog, recipes, scope, uploads, calls, changes>>

Idle == [pc |-> "idle"]
Does(h, state) == calls[h].pc = state
Reported == pc = "reported"
Names == Elements(Alphabet)

-----------------------------------------------------------------------------
(* The members of the report: the union of the targets' plans.  A member is   *)
(* changed when it is a seed.                                                 *)
ReportMembers == UNION {plans[t].members : t \in DOMAIN plans}
AffectedBy(p) == {c[2] : c \in {d \in UNION {plans[t].causes : t \in DOMAIN plans} : d[1] = p}}
Cause(p) == IF p \in ask.seeds THEN "source-update" ELSE "rebuild"

(* What the parser accepts: the planner itself bounds no list of causes.      *)
Parsed == \A t \in DOMAIN plans : \A p \in plans[t].members :
  Cardinality({c \in plans[t].causes : c[1] = p}) <= MaxCauses

Scoped(members, p) == CHOOSE m \in members : m.pkg = p
Binds(members, p) == \E m \in members : m.pkg = p

(* One member of the draft: the policy as it was read, the recipe the scope   *)
(* binds, and why it is rebuilt.                                              *)
DraftMember(members, p) ==
  [pkg |-> p, policy |-> catalog[p].revision, recipe |-> Scoped(members, p).recipe,
   cause |-> Cause(p), reason |-> AffectedBy(p)]

PolicyAdmitted(p) == catalog[p] # None /\ catalog[p].admitted

(* The policy the scope binds is the current one, and it was admitted.        *)
CatalogMapped(members, p) ==
  /\ PolicyAdmitted(p)
  /\ Binds(members, p) /\ Scoped(members, p).policy = catalog[p].revision

(* The recipe the scope binds is the latest of a request that goes on, with   *)
(* the sign-offs of area and security.                                        *)
RecipeMapped(members, p) ==
  /\ Binds(members, p) /\ Scoped(members, p).recipe # 0
  /\ recipes[p] = [latest |-> Scoped(members, p).recipe, state |-> "reviewed"]

(* Every target the policy asks for has the package in its plan.              *)
TargetsCovered(p) ==
  \A t \in Elements(Targets) \cap Required[p] : p \in plans[t].members

AllPlanned == AllTargets \subseteq Elements(Targets) /\ \A t \in DOMAIN plans : ~plans[t].missing

-----------------------------------------------------------------------------
(* The preview reads the cohort with its members, then the policies, then the *)
(* recipes of the members, and keeps what it read.                            *)
PreviewScope(h) ==
  /\ Does(h, "idle") /\ Reported /\ Parsed
  /\ calls' = [calls EXCEPT ![h] =
       [pc |-> "scoped", expected |-> scope.revision, bound |-> scope.members]]
  /\ UNCHANGED <<planVars, dbVars, changes>>

PreviewCatalog(h) ==
  LET bound == calls[h].bound
      mapped == \A p \in ReportMembers : CatalogMapped(bound, p)
  IN
  /\ Does(h, "scoped")
  /\ calls' = [calls EXCEPT ![h] =
       IF mapped /\ AllPlanned /\ ReportMembers # {}
       THEN [pc |-> "policies", expected |-> calls[h].expected, bound |-> bound,
             members |-> {DraftMember(bound, p) : p \in ReportMembers}]
       ELSE Idle]
  /\ UNCHANGED <<planVars, dbVars, changes>>

(* With a blocker of the catalog, a recipe or a target, nothing is drafted.   *)
PreviewRecipes(h) ==
  LET bound == calls[h].bound IN
  /\ Does(h, "policies")
  /\ calls' = [calls EXCEPT ![h] =
       IF \A p \in ReportMembers : RecipeMapped(bound, p) /\ TargetsCovered(p)
       THEN [pc |-> "begin", expected |-> @.expected, members |-> @.members] ELSE Idle]
  /\ UNCHANGED <<planVars, dbVars, changes>>

(* The upload is named after the expected revision and the report, so a later *)
(* call finds it again; a new one needs the current, unpublished revision.    *)
Begin(h) ==
  LET call == calls[h]
      known == uploads[call.expected] # None
      current == scope.revision = call.expected /\ ~scope.published
  IN
  /\ Does(h, "begin")
  /\ uploads' = IF known \/ ~current THEN uploads ELSE [uploads EXCEPT ![call.expected] =
                  [members |-> <<>>, count |-> Cardinality(call.members), sealed |-> 0]]
  /\ calls' = [calls EXCEPT ![h] =
       IF known \/ current
       THEN [pc |-> "append", expected |-> @.expected, members |-> @.members, index |-> 1] ELSE Idle]
  /\ UNCHANGED <<planVars, catalog, recipes, scope, changes>>

(* What a chunk stores is read again: the policy must be the current one, the *)
(* recipe the latest.                                                         *)
Bindable(m) ==
  /\ catalog[m.pkg] # None /\ catalog[m.pkg].revision = m.policy
  /\ recipes[m.pkg].latest = m.recipe

(* The draft lists its members as localeCompare sorts them; an upload takes   *)
(* its chunks in the order of the code units, which Alphabet is.              *)
Nth(call) == LET names == SelectSeq(Collation, LAMBDA n : Binds(call.members, n))
             IN Scoped(call.members, names[call.index])
Follows(m, members) ==
  members = <<>> \/ LET last == members[Len(members)].pkg IN Sorted({last, m.pkg}) = <<last, m.pkg>>

(* The next chunk, here of one member, whose reason is not too long: stored   *)
(* again it must be the same; otherwise it follows the chunks that are there. *)
AppendChunk(h) ==
  LET call == calls[h]
      u == uploads[call.expected]
      m == Nth(call)
      valid == Bindable(m) /\ Cardinality(m.reason) <= MaxReason
      same == call.index <= Len(u.members) /\ u.members[call.index] = m
      next == /\ call.index = Len(u.members) + 1 /\ u.sealed = 0 /\ Len(u.members) < u.count
              /\ Follows(m, u.members)
  IN
  /\ Does(h, "append") /\ call.index <= Cardinality(call.members)
  /\ uploads' = IF valid /\ next
                THEN [uploads EXCEPT ![call.expected].members = Append(@, m)] ELSE uploads
  /\ calls' = [calls EXCEPT ![h] =
       IF valid /\ (same \/ next) THEN [@ EXCEPT !.index = @ + 1] ELSE Idle]
  /\ UNCHANGED <<planVars, catalog, recipes, scope, changes>>

(* Mutant: the recipes are not asserted when the upload is sealed.            *)
PolicyOnlyCurrent(members) == \A m \in members : catalog[m.pkg].revision = m.policy

(* Sealing asserts in its batch that every policy is still the current one    *)
(* and every recipe still the latest.  A scope that is the same already only  *)
(* closes the upload.                                                         *)
ScopeCurrent(members) == \A m \in members : Bindable(m)

Seal(h) ==
  LET call == calls[h]
      u == uploads[call.expected]
      members == Elements(u.members)
      current == scope.revision = call.expected /\ ~scope.published /\ Len(u.members) = u.count
      same == members = scope.members
  IN
  /\ Does(h, "append") /\ call.index > Cardinality(call.members)
  /\ calls' = [calls EXCEPT ![h] = Idle]
  /\ IF u.sealed # 0 \/ ~current \/ ~(same \/ ScopeCurrent(members)) THEN UNCHANGED <<uploads, scope>>
     ELSE /\ uploads' = [uploads EXCEPT ![call.expected].sealed =
                           IF same THEN scope.revision ELSE scope.revision + 1]
          /\ scope' = IF same THEN scope
                      ELSE [revision |-> scope.revision + 1, members |-> members, published |-> FALSE]
  /\ UNCHANGED <<planVars, catalog, recipes, changes>>

-----------------------------------------------------------------------------
(* What goes on around the calls, within a budget: a call dies; a policy is   *)
(* revised and admitted; a recipe is revised and signed off, or stopped; the  *)
(* scope is edited by hand, or the cohort is published.                       *)
Charge == changes < MaxChanges /\ changes' = changes + 1

Die(h) ==
  /\ ~Does(h, "idle") /\ Charge
  /\ calls' = [calls EXCEPT ![h] = Idle]
  /\ UNCHANGED <<planVars, dbVars>>

Revise(p) ==
  /\ catalog[p] # None /\ Charge
  /\ catalog' = [catalog EXCEPT ![p] = [revision |-> @.revision + 1, admitted |-> FALSE]]
  /\ UNCHANGED <<planVars, recipes, scope, uploads, calls>>

Admit(p) ==
  /\ catalog[p] # None /\ ~catalog[p].admitted
  /\ catalog' = [catalog EXCEPT ![p].admitted = TRUE]
  /\ UNCHANGED <<planVars, recipes, scope, uploads, calls, changes>>

NewRecipe(p) ==
  /\ Charge
  /\ recipes' = [recipes EXCEPT ![p] = [latest |-> @.latest + 1, state |-> "open"]]
  /\ UNCHANGED <<planVars, catalog, scope, uploads, calls>>

SignOff(p) ==
  /\ recipes[p].state = "open" /\ recipes[p].latest > 0
  /\ recipes' = [recipes EXCEPT ![p].state = "reviewed"]
  /\ UNCHANGED <<planVars, catalog, scope, uploads, calls, changes>>

(* A sign-off is revoked, or the request is blocked.                          *)
Withdraw(p) ==
  /\ recipes[p].state = "reviewed" /\ Charge
  /\ recipes' = [recipes EXCEPT ![p].state = "open"]
  /\ UNCHANGED <<planVars, catalog, scope, uploads, calls>>

(* By hand a maintainer lists any packages, with current policies and recipes.*)
EditScope(S) ==
  LET members == {[pkg |-> p, policy |-> catalog[p].revision, recipe |-> recipes[p].latest,
                   cause |-> "rebuild", reason |-> None] : p \in S} IN
  /\ Charge /\ ~scope.published /\ \A p \in S : catalog[p] # None
  /\ members # scope.members
  /\ scope' = [scope EXCEPT !.revision = @ + 1, !.members = members]
  /\ UNCHANGED <<planVars, catalog, recipes, uploads, calls>>

Publish ==
  /\ Reported /\ Charge /\ ~scope.published
  /\ scope' = [scope EXCEPT !.published = TRUE]
  /\ UNCHANGED <<planVars, catalog, recipes, uploads, calls>>

Environment ==
  /\ Reported
  /\ \/ \E h \in Handlers : Die(h)
     \/ \E p \in ReportMembers : Revise(p) \/ Admit(p) \/ NewRecipe(p)
                                 \/ SignOff(p) \/ Withdraw(p)
     \/ \E S \in (SUBSET ReportMembers) \ {{}} : EditScope(S)
     \/ Publish

Planning == PlanNext /\ UNCHANGED <<dbVars, calls, changes>>

Call(h) ==
  \/ PreviewScope(h) \/ PreviewCatalog(h) \/ PreviewRecipes(h)
  \/ Begin(h) \/ AppendChunk(h) \/ Seal(h)

Next == Planning \/ Environment \/ \E h \in Handlers : Call(h)

(* The scope binds some of the packages when the planner starts.              *)
Init ==
  /\ PlanInit
  /\ catalog = [p \in Names |-> [revision |-> 1, admitted |-> TRUE]]
  /\ recipes = [p \in Names |-> [latest |-> 1, state |-> "reviewed"]]
  /\ scope = [revision |-> 1, published |-> FALSE, members |->
       {[pkg |-> p, policy |-> 1, recipe |-> 1, cause |-> "rebuild", reason |-> None] : p \in Names}]
  /\ uploads = [r \in 1..(2 * MaxChanges + 2) |-> None]
  /\ calls = [h \in Handlers |-> Idle] /\ changes = 0

Spec == Init /\ [][Next]_vars

-----------------------------------------------------------------------------
(* Once a plan is made, its members are the least set that has the changed    *)
(* package bases and, with each one, every consumer of it in either inventory *)
(* or by a rule (planRebuilds): the worklist misses none and adds none.       *)
Finished == pc = "groups" /\ work.queue = <<>>
Closed(S) == \A l \in work.edges : l[2] \in S => l[1] \in S
PlannedScope ==
  Finished =>
    /\ ask.seeds \subseteq work.members /\ Closed(work.members)
    /\ \A S \in SUBSET work.members : ask.seeds \subseteq S /\ Closed(S) => S = work.members

(* The build groups are the cycles of the members that still exist, each      *)
(* member in one group, and no group needs a later one (planRebuilds'         *)
(* Kosaraju): building them in order always finds the providers built.        *)
Between(S, from, to) ==
  \A T \in SUBSET S : from \in T /\ (\A n \in T : ProvidersOf(n) \cap S \subseteq T) => to \in T
ProvidersFirst ==
  Finished =>
    LET groups == work.groups IN
    /\ UNION Elements(groups) = Selected
    /\ \A i \in DOMAIN groups :
         /\ \A m, n \in groups[i] : Between(groups[i], m, n)
         /\ \A j \in DOMAIN groups : j > i =>
              /\ groups[i] \cap groups[j] = {}
              /\ \A m \in groups[i] : ProvidersOf(m) \cap groups[j] = {}

(* A package whose native relation covers the reviewed one                    *)
(* (archRelationCovers, on which every check of a build's dependencies rests) *)
(* is never satisfied where the reviewed relation is not, by any package with *)
(* a full version.                                                            *)
StricterCovers ==
  pc = "target" =>
    \A e, p \in ask.baseline : \A native, reviewed \in e.needs :
      /\ native.name = reviewed.name /\ Covers(native, reviewed)
      /\ native.name = p.name /\ ParseVersion(p.version).release # None
      /\ SatisfiedBy(native, p)
      => SatisfiedBy(reviewed, p)

(* A sealed draft lists the packages of the report and nothing else, with the *)
(* policies and recipes that are current at that moment, and binds none that  *)
(* the scope it replaces did not bind (createRebuildCohortDraft): whatever    *)
(* was revised between the preview and the seal, it never mixes two scopes.   *)
DraftSealsReport ==
  [][uploads' # uploads /\ scope' # scope =>
       /\ {m.pkg : m \in scope'.members} = ReportMembers
       /\ \A m \in scope'.members :
            /\ Bindable(m) /\ m.cause = Cause(m.pkg)
            /\ \E o \in scope.members : [o EXCEPT !.cause = m.cause, !.reason = m.reason] = m]_vars

(* A draft that died part-way can be resumed: what a later preview of the     *)
(* same report wants to append is what the chunks already hold                *)
(* (appendCohortScope refuses a chunk that changed, for good).                *)
DraftResumes ==
  \A h \in Handlers :
    Does(h, "append") /\ calls[h].index <= Len(uploads[calls[h].expected].members)
    => uploads[calls[h].expected].members[calls[h].index] = Nth(calls[h])

(* A finished plan rebuilds what is affected and nothing else, every provider *)
(* before its consumers, and compares native relations with reviewed ones as *)
(* satisfying them does.                                                     *)
PlanIsSound == PlannedScope /\ ProvidersFirst /\ StricterCovers

(* A draft uploaded in pieces is the report when it is sealed, and a piece   *)
(* that is sent again finds what it stored.                                  *)
DraftKeepsReport == []DraftResumes /\ DraftSealsReport
=============================================================================
