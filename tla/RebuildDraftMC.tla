--------------------------- MODULE RebuildDraftMC ---------------------------
(* What rests on the relations of packages: runs of the planner over small    *)
(* inventories with the drafts that follow, and dependency plans over a few   *)
(* releases.  The two share no state; a behaviour is one or the other.        *)
EXTENDS RebuildDraft, DependencyPlan

(* Versions, as they are written.                                             *)
V(parts) == [epoch |-> None, parts |-> parts]
One == <<Number(1)>>
V1 == V(<<One>>)
V1r1 == V(<<One, One>>)
V1r2 == V(<<One, <<Number(2)>>>>)
V1r11 == V(<<One, <<Number(1), Number(1)>>>>)
V2r1 == V(<<<<Number(2)>>, One>>)
V1rc == V(<<<<Number(1), Letters(3)>>>>)
V1rcr1 == V(<<<<Number(1), Letters(3)>>, One>>)
V1dashrc == V(<<One, <<Letters(3), Number(1)>>, One>>)
V10r1 == V(<<<<Number(1), Number(0)>>, One>>)
Epoch1 == [epoch |-> 1, parts |-> <<One, One>>]
Versions == {V1, V1r1, V1r2, V1r11, V2r1, V1rc, V1rcr1, V1dashrc, V10r1, Epoch1}

Bare(n) == [name |-> n, op |-> None, version |-> None]
Rel(n, op, v) == [name |-> n, op |-> op, version |-> v]

Entry(n, b, v, t, needs) ==
  [name |-> n, base |-> b, version |-> v, target |-> t, collection |-> "core",
   needs |-> needs, provides |-> {}]

(* Every relation with every version, against packages of every full version. *)
Relations == {Bare("lib")} \cup {Rel("lib", op, v) : op \in Operators, v \in Versions}
RelationAsk ==
  [baseline |-> {Entry("app", "app", V1r1, "x86", Relations)}
                  \cup {Entry("lib", "lib", v, "x86", {}) : v \in Versions},
   candidate |-> {}, seeds |-> {"lib"}, rules |-> {}, order |-> <<>>]

(* Every graph of three packages that each need some of the others, on one    *)
(* target; in the baseline none or all of the links of "app" differ.          *)
Graph(needs, t) == {Entry(n, n, V1r1, t, {Bare(q) : q \in needs[n]}) : n \in DOMAIN needs}
Needs == [{"app", "lib", "tool"} -> SUBSET {"app", "lib", "tool"}]
Graphs3 == {f \in Needs : \A n \in DOMAIN f : n \notin f[n]}
GraphAsks ==
  {[baseline |-> Graph([f EXCEPT !["app"] = first], "x86"), candidate |-> Graph(f, "x86"),
    seeds |-> seeds, rules |-> {}, order |-> <<>>] :
     f \in Graphs3, first \in {{}, {"tool"}}, seeds \in {{"lib"}, {"app", "tool"}}}

(* Both targets: a library that is replaced by a newer one, with consumers.   *)
Pair(v, needs) ==
  UNION {{Entry("lib", "lib", v, t, {}), Entry("app", "app", V1r1, t, needs)} : t \in {"x86", "arm"}}
Virtual(t) ==
  {[Entry("tool", "tool", V1r1, t, {}) EXCEPT !.provides = {Rel("libx", "=", V2r1)}],
   Entry("app", "app", V1r1, t, {Rel("libx", ">=", V1)})}
Split(t) == {Entry("lib-dev", "lib", V1r1, t, {Bare("app")})}
DraftAsks ==
  {[baseline |-> Pair(V1r1, {Rel("lib", ">=", V1)}), candidate |-> Pair(V1r2, {Rel("lib", ">=", V1)}),
    seeds |-> {"lib"}, rules |-> {}, order |-> <<>>],
   [baseline |-> Pair(V1r1, {}), candidate |-> Pair(V1r2, {}) \ {Entry("app", "app", V1r1, "arm", {})},
    seeds |-> {"lib"}, rules |-> {[base |-> "app", on |-> {"lib"}]}, order |-> <<>>],
   [baseline |-> Virtual("x86") \cup Virtual("arm"), candidate |-> Virtual("x86") \cup Virtual("arm"),
    seeds |-> {"tool"}, rules |-> {}, order |-> <<"core">>],
   [baseline |-> Pair(V1r1, {Bare("lib")}) \cup Split("x86") \cup Split("arm"),
    candidate |-> Pair(V2r1, {Bare("lib")}) \cup Split("x86") \cup Split("arm")
      \cup {[Entry("lib", "lib", V1r2, "x86", {}) EXCEPT !.collection = "extra"]},
    seeds |-> {"lib"}, rules |-> {}, order |-> <<"core", "extra">>],
   [baseline |-> Pair(V1r1, {Bare("lib")}), candidate |-> Pair(V1r1, {Bare("lib")}),
    seeds |-> {"lib"}, rules |-> {[base |-> "app", on |-> {"gone"}]}, order |-> <<>>]}

(* Releases: three of lib, two of them builds of one version, a tool on top,  *)
(* and an alternative that conflicts with the tool; a package of the base     *)
(* distribution whose own release has no readable metadata.                   *)
Pkg(n, v, published, depends, provides, conflicts) ==
  [name |-> n, version |-> v, target |-> "x86", depends |-> depends, provides |-> provides,
   conflicts |-> conflicts, published |-> published]
MCPackage ==
  [r1 |-> Pkg("lib", V1r1, 1, <<>>, {}, {}),
   r2 |-> Pkg("lib", V2r1, 2, <<>>, {}, {}),
   r3 |-> Pkg("lib", V2r1, 3, <<>>, {Bare("lib-dev")}, {}),
   r4 |-> Pkg("tool", V1r1, 4, <<Rel("lib", ">=", V1), Bare("base")>>, {}, {Bare("alt")}),
   r5 |-> Pkg("alt", V1r1, 5, <<Bare("lib")>>, {Rel("libx", "=", V2r1)}, {}),
   r6 |-> Pkg("base", V1r1, 6, <<>>, {}, {})]
MCReleases == DOMAIN MCPackage
MCBuilds ==
  {[target |-> "x86", runtime |-> runtime, make |-> make] :
     runtime \in {<<Bare("tool"), Bare("base")>>, <<Rel("libx", ">=", V2r1)>>},
     make \in {<<>>, <<Rel("lib", ">=", V2r1), Bare("lib")>>, <<Bare("tool")>>, <<Bare("alt")>>}}
MCSystem == {Pkg("base", V1r1, 0, <<>>, {}, {}), Pkg("lib", V1r1, 0, <<>>, {}, {})}

(* The last release of lib is published while the job runs.                   *)
MCChannels ==
  {[r1 |-> c1, r2 |-> c2, r3 |-> "none", r4 |-> c4, r5 |-> c5, r6 |-> "none"] :
     c1 \in {"dev", "stable"}, c2 \in {"none", "dev"}, c4 \in {"dev", "stable"}, c5 \in {"none", "stable"}}
    \cup
  {[r1 |-> "stable", r2 |-> c2, r3 |-> "none", r4 |-> c4, r5 |-> "none", r6 |-> c6] :
     c2 \in {"none", "dev"}, c4 \in {"dev", "stable"}, c6 \in {"dev", "stable"}}

MCInit ==
  \/ /\ Init
     /\ channel = [r \in Releases |-> "none"] /\ approved = {} /\ build = None /\ stage = "off"
     /\ resolver = None /\ plan = None /\ fetched = <<>>
     /\ images = [build |-> {}, runtime |-> {}] /\ moves = 0
  \/ /\ ResolverInit /\ channel \in MCChannels
     /\ ask = None /\ pc = "off" /\ plans = None /\ work = None
     /\ catalog = None /\ recipes = None /\ scope = None /\ uploads = None
     /\ calls = [h \in Handlers |-> Idle] /\ changes = 0
MCNext ==
  \/ pc # "off" /\ Next /\ UNCHANGED resolverVars
  \/ stage # "off" /\ ResolverNext /\ UNCHANGED vars
MCSpec == MCInit /\ [][MCNext]_<<vars, resolverVars>>

MCAsks == {RelationAsk} \cup GraphAsks \cup DraftAsks
MCTargets == <<"x86", "arm">>
MCAllTargets == {"x86", "arm"}
MCAlphabet == <<"app", "lib", "tool">>
MCCollation == <<"tool", "app", "lib">>
MCRequired == [p \in {"app", "lib", "tool"} |-> IF p = "app" THEN {"x86"} ELSE MCAllTargets]
=============================================================================
