---------------------------- MODULE RebuildPlan -----------------------------
(* The planner of a rebuild: scripts/plan-rebuilds.ts reads two captured      *)
(* inventories and asks src/lib/rebuild-plan.ts, for each target in turn,     *)
(* which package bases the changed ones reach and in which groups to build    *)
(* them.  The loops of the planner are the steps of this module.              *)
(*                                                                            *)
(* An entry of an inventory is [name, base, version, target, collection,      *)
(* needs, provides]; what it needs when it is built, tested or run is one     *)
(* set.  The reasons reported for people (shadowed entries, source gaps,      *)
(* unresolved relations) change nothing that follows and are left out.        *)
EXTENDS ArchRelation

CONSTANTS
  Asks,       \* the runs of the script: two inventories, seeds, rules, order
  Targets,    \* the targets, in the order they are planned
  Alphabet    \* every package base, in alphabetical order

VARIABLES
  ask,        \* the arguments: baseline, candidate, seeds, rules, order
  pc,         \* what the planner is about to do
  plans,      \* per target: None, Missing or its plan
  work        \* the plan being made

planVars == <<ask, pc, plans, work>>

Sorted(S) == SelectSeq(Alphabet, LAMBDA n : n \in S)
Reversed(s) == [i \in 1..Len(s) |-> s[Len(s) + 1 - i]]
Elements(s) == {s[i] : i \in DOMAIN s}
Planned(t) == plans[t] # None
At == CHOOSE i \in DOMAIN Targets : ~Planned(Targets[i]) /\ \A j \in 1..(i - 1) : Planned(Targets[j])

-----------------------------------------------------------------------------
(* The records that count: with a repository order, the first repository that *)
(* has the name on the target; without one, every record.                     *)
Place(collection) == CHOOSE i \in DOMAIN ask.order : ask.order[i] = collection

Universe(entries, t) ==
  LET here == {e \in entries : e.target = t} IN
  IF ask.order = <<>> THEN here
  ELSE {e \in here : \A o \in here : o.name = e.name => Place(e.collection) <= Place(o.collection)}

Before(t) == Universe(ask.baseline, t)
After(t) == Universe(ask.candidate, t)
Bases(t) == {e.base : e \in Before(t) \cup After(t)}
CurrentBases(t) == {e.base : e \in After(t)}
Rules(t) == {r \in ask.rules : r.base \in Bases(t)}

(* What a trigger of a rule names: a package base, the bases of an output of  *)
(* that name, or both.                                                        *)
Triggered(t, trigger) ==
  {e.base : e \in {o \in Before(t) \cup After(t) : trigger \in {o.name, o.base}}}

(* One authority for each name, relations that can be read, and rules about   *)
(* packages and triggers that exist; otherwise the script ends, reporting     *)
(* nothing for any target.  Only a target that has every changed package base *)
(* is planned.                                                                *)
Ordered(entries) == ask.order # <<>> => \A e \in entries : e.collection \in Elements(ask.order)
Single(entries) == \A e, o \in entries : e.name = o.name => e = o
Readable(entries) == \A e \in entries : None \notin e.needs /\ \A p \in e.provides : Provided(p)

Selectable(t) ==
  /\ \A entries \in {ask.baseline, ask.candidate} : Ordered(entries)
  /\ ask.order # <<>> => Single(Before(t)) /\ Single(After(t))
  /\ \A r \in ask.rules : \E e \in ask.baseline \cup ask.candidate : e.base = r.base

Plannable(t) ==
  /\ \A entries \in {Before(t), After(t)} : Single(entries) /\ Readable(entries)
  /\ \A r \in Rules(t) : \A trigger \in r.on : Triggered(t, trigger) # {}

Seeded(t) == ask.seeds \subseteq Bases(t)

-----------------------------------------------------------------------------
(* The graph: <<consumer, provider>> when an output of the consumer needs     *)
(* something an output of the provider satisfies, or when a rule says so.     *)
Links(entries) ==
  {<<e.base, p.base>> : <<e, p>> \in {pair \in entries \X entries :
     /\ pair[1].base # pair[2].base
     /\ \E r \in pair[1].needs : SatisfiedBy(r, pair[2])}}

RuleLinks(t) ==
  {l \in Bases(t) \X Bases(t) : l[1] # l[2] /\ \E r \in Rules(t) :
     r.base = l[1] /\ \E trigger \in r.on : l[2] \in Triggered(t, trigger)}

(* A package that is gone still reaches its consumers, but no build waits for *)
(* it: only links of the candidate order the builds.                          *)
Edges(t) == Links(Before(t)) \cup Links(After(t)) \cup RuleLinks(t)
Dependencies(t) == Links(After(t)) \cup (RuleLinks(t) \cap (CurrentBases(t) \X CurrentBases(t)))

Start(t) ==
  [edges |-> Edges(t), dependencies |-> Dependencies(t), members |-> ask.seeds,
   causes |-> {}, queue |-> Sorted(ask.seeds), build |-> <<>>, stack |-> <<>>,
   finished |-> <<>>, seen |-> {}, groups |-> <<>>]

Refuse ==
  /\ pc = "target"
  /\ LET t == Targets[At] IN Selectable(t) => Seeded(t) /\ ~Plannable(t)
  /\ pc' = "refused"
  /\ UNCHANGED <<ask, plans, work>>

Missing == [missing |-> TRUE, members |-> {}, causes |-> {}, groups |-> <<>>]

(* A target without one of the changed packages has no plan at all.           *)
SeedMissing ==
  /\ pc = "target" /\ Selectable(Targets[At]) /\ ~Seeded(Targets[At])
  /\ plans' = [plans EXCEPT ![Targets[At]] = Missing]
  /\ pc' = IF At = Len(Targets) THEN "reported" ELSE "target"
  /\ UNCHANGED <<ask, work>>

Read ==
  /\ pc = "target"
  /\ LET t == Targets[At] IN Selectable(t) /\ Seeded(t) /\ Plannable(t)
  /\ work' = Start(Targets[At]) /\ pc' = "scope"
  /\ UNCHANGED <<ask, plans>>

Consumers(provider) == {l[1] : l \in {e \in work.edges : e[2] = provider}}

(* The next package base that changes: each of its consumers is affected by   *)
(* it, and is looked at in turn when it was not a member before.              *)
Visit ==
  /\ pc = "scope" /\ work.queue # <<>>
  /\ LET provider == Head(work.queue)
         consumers == Consumers(provider)
     IN work' = [work EXCEPT !.queue = Tail(@) \o Sorted(consumers \ work.members),
                   !.members = @ \cup consumers,
                   !.causes = @ \cup {<<c, provider>> : c \in consumers}]
  /\ UNCHANGED <<ask, pc, plans>>

ScopeDone ==
  /\ pc = "scope" /\ work.queue = <<>>
  /\ LET build == Sorted(work.members \cap CurrentBases(Targets[At])) IN
     work' = [work EXCEPT !.build = build, !.queue = build]
  /\ pc' = "order"
  /\ UNCHANGED <<ask, plans>>

-----------------------------------------------------------------------------
(* The build order: Kosaraju's two passes over the links between the members  *)
(* that still exist, with a stack of <<package base, returning>>.             *)
Selected == Elements(work.build)
ProvidersOf(node) == {p \in Selected : <<node, p>> \in work.dependencies}
Entering(names) == [i \in DOMAIN names |-> <<names[i], FALSE>>]

NextRoot ==
  /\ pc = "order" /\ work.stack = <<>> /\ work.queue # <<>>
  /\ work' = [work EXCEPT !.stack = <<<<Head(work.queue), FALSE>>>>, !.queue = Tail(@)]
  /\ UNCHANGED <<ask, pc, plans>>

(* Mutant: a package is finished when it is entered, before its providers.    *)
EarlyStep ==
  /\ pc = "order" /\ work.stack # <<>>
  /\ LET node == Head(work.stack)[1] IN
     work' = IF node \in work.seen THEN [work EXCEPT !.stack = Tail(@)]
             ELSE [work EXCEPT !.seen = @ \cup {node}, !.finished = Append(@, node),
                     !.stack = Entering(Sorted(ProvidersOf(node) \ work.seen)) \o Tail(@)]
  /\ UNCHANGED <<ask, pc, plans>>

(* The top of the stack: a package that returns is finished; one that is      *)
(* entered the first time returns after its unseen providers.                 *)
Step ==
  /\ pc = "order" /\ work.stack # <<>>
  /\ LET node == Head(work.stack)[1]
         returning == Head(work.stack)[2]
     IN work' = IF returning THEN [work EXCEPT !.stack = Tail(@), !.finished = Append(@, node)]
                ELSE IF node \in work.seen THEN [work EXCEPT !.stack = Tail(@)]
                ELSE LET seen == work.seen \cup {node} IN
                     [work EXCEPT !.seen = seen,
                        !.stack = Entering(Sorted(ProvidersOf(node) \ seen))
                                    \o <<<<node, TRUE>>>> \o Tail(@)]
  /\ UNCHANGED <<ask, pc, plans>>

OrderDone ==
  /\ pc = "order" /\ work.stack = <<>> /\ work.queue = <<>>
  /\ work' = [work EXCEPT !.queue = Reversed(work.finished), !.seen = {}]
  /\ pc' = "groups"
  /\ UNCHANGED <<ask, plans>>

(* The unseen package bases that depend on root, directly or not.             *)
Dependents(root) ==
  LET reach[n \in 0..Len(work.build)] ==
        IF n = 0 THEN {root}
        ELSE reach[n - 1] \cup {c \in Selected \ work.seen : ProvidersOf(c) \cap reach[n - 1] # {}}
  IN reach[Len(work.build)]

(* Groups are found last to first: what a group depends on precedes it.       *)
Collect ==
  /\ pc = "groups" /\ work.queue # <<>>
  /\ LET root == Head(work.queue) IN
     work' = IF root \in work.seen THEN [work EXCEPT !.queue = Tail(@)]
             ELSE [work EXCEPT !.queue = Tail(@), !.seen = @ \cup Dependents(root),
                     !.groups = <<Dependents(root)>> \o @]
  /\ UNCHANGED <<ask, pc, plans>>

(* A plan: the members and what each is affected by, and the build groups. A  *)
(* member that is in no group is one that was removed.                        *)
PlanDone ==
  /\ pc = "groups" /\ work.queue = <<>>
  /\ plans' = [plans EXCEPT ![Targets[At]] =
       [missing |-> FALSE, members |-> work.members, causes |-> work.causes, groups |-> work.groups]]
  /\ work' = None
  /\ pc' = IF At = Len(Targets) THEN "reported" ELSE "target"
  /\ UNCHANGED ask

PlanNext ==
  \/ Refuse \/ SeedMissing \/ Read \/ Visit \/ ScopeDone
  \/ NextRoot \/ Step \/ OrderDone \/ Collect \/ PlanDone

PlanInit ==
  /\ ask \in Asks /\ pc = "target" /\ work = None
  /\ plans = [t \in Elements(Targets) |-> None]
=============================================================================
