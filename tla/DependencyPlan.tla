--------------------------- MODULE DependencyPlan ---------------------------
(* The published packages a build depends on: chosen by the server when a job *)
(* is leased (src/lib/server/dependency-plan.ts), fetched and installed by    *)
(* the worker (worker/dependency.go, runner.go, analysis.go).                 *)
(*                                                                            *)
(* The server reads the releases once, resolves the reviewed relations over   *)
(* what it read, and names the files of the result in a plan that the lease   *)
(* stores.  The worker fetches the files later, from the public repository,   *)
(* where releases are promoted, withdrawn, quarantined and published in the   *)
(* meantime.  Two images are prepared from them: one to build in, and one     *)
(* with the runtime packages alone to inspect the result in.                  *)
EXTENDS ArchRelation

CONSTANTS
  Releases,     \* the binary releases, each built once
  Package,      \* Package[r]: [name, version, target, depends, provides, conflicts, published]
  Builds,       \* the jobs: [target, runtime, make], sequences of relations
  System,       \* the packages of the base distribution
  Malformed,    \* the releases whose stored metadata does not parse
  MaxPackages,  \* a plan lists at most so many packages
  MaxMoves      \* bound on the moves of releases

ASSUME PlanAssumption == MaxPackages \in Nat /\ MaxMoves \in Nat

VARIABLES
  channel,    \* per release: none, dev, stable, withdrawn or quarantined
  approved,   \* the releases whose recipe has the sign-offs of area and security
  build,      \* the job
  stage,      \* what is about to be done for it
  resolver,   \* the resolution in progress: rows, todo, selected, runtime
  plan,       \* None or the plan of the lease
  fetched,    \* the worker's files: per place in the plan, the release it got
  images,     \* the packages of the build and of the runtime image
  moves

resolverVars == <<channel, approved, build, stage, resolver, plan, fetched, images, moves>>

Members(s) == {s[i] : i \in DOMAIN s}
File(r) == <<Package[r].name, Package[r].version, Package[r].target>>
Fails == stage' = "failed"

-----------------------------------------------------------------------------
(* The server.  Releases of the stable channel count, and those of the dev    *)
(* channel whose recipe is still approved.                                    *)
Query ==
  /\ stage = "claimed"
  /\ resolver' = [rows |-> {r \in Releases : channel[r] = "stable" \/ (channel[r] = "dev" /\ r \in approved)},
                  of |-> channel, todo |-> build.runtime, selected |-> <<>>, runtime |-> None]
  /\ stage' = "resolve"
  /\ UNCHANGED <<channel, approved, build, plan, fetched, images, moves>>

(* What a release depends on, provides and conflicts with is read from its    *)
(* metadata; one whose metadata does not parse is no candidate.               *)
Published == resolver.rows \ Malformed

(* A name no release has or provides, on any target, belongs to the base      *)
(* distribution.  A release that is no candidate still claims its own name.   *)
Known(name) ==
  \/ \E r \in resolver.rows : Package[r].name = name
  \/ \E r \in Published : \E p \in Package[r].provides : p.name = name

Providers(relation) ==
  {r \in Published : Package[r].target = build.target /\ SatisfiedBy(relation, Package[r])}

(* Stable before dev, then the newer version, then what was published last.   *)
Precedes(a, b) ==
  LET newer == CompareVersions(ParseVersion(Package[a].version), ParseVersion(Package[b].version)) IN
  IF resolver.of[a] # resolver.of[b] THEN resolver.of[a] = "stable"
  ELSE newer > 0 \/ (newer = 0 /\ Package[a].published > Package[b].published)

Candidate(relation) ==
  CHOOSE r \in Providers(relation) : \A o \in Providers(relation) \ {r} : Precedes(r, o)

Conflicting(a, b) ==
  \/ \E c \in Package[a].conflicts : SatisfiedBy(c, Package[b])
  \/ \E c \in Package[b].conflicts : SatisfiedBy(c, Package[a])

(* Mutant: only what the candidate itself declares counts as a conflict.      *)
OneSidedJoins(r) ==
  LET selected == Members(resolver.selected) IN
  /\ Cardinality(selected) < MaxPackages
  /\ \A s \in selected : Package[s].name # Package[r].name
                           /\ ~\E c \in Package[r].conflicts : SatisfiedBy(c, Package[s])

(* A candidate joins the plan when there is room, no other version of it is   *)
(* in, and it conflicts with none that is.                                    *)
Joins(r) ==
  LET selected == Members(resolver.selected) IN
  /\ Cardinality(selected) < MaxPackages
  /\ \A s \in selected : Package[s].name # Package[r].name /\ ~Conflicting(r, s)

Settled(relation) ==
  \/ ~Known(relation.name)
  \/ \E s \in Members(resolver.selected) : SatisfiedBy(relation, Package[s])

(* The next relation: settled, or its best provider is selected and what that *)
(* one depends on comes next.  Otherwise the job is not leased.               *)
Resolve ==
  LET relation == Head(resolver.todo)
      best == Candidate(relation)
  IN
  /\ stage = "resolve" /\ resolver.todo # <<>>
  /\ IF Settled(relation) THEN resolver' = [resolver EXCEPT !.todo = Tail(@)] /\ UNCHANGED stage
     ELSE IF Providers(relation) # {} /\ Joins(best)
     THEN /\ resolver' = [resolver EXCEPT !.selected = Append(@, best),
                                          !.todo = Package[best].depends \o Tail(@)]
          /\ UNCHANGED stage
     ELSE Fails /\ UNCHANGED resolver
  /\ UNCHANGED <<channel, approved, build, plan, fetched, images, moves>>

(* What is selected for the runtime relations is the runtime scope; the build *)
(* relations follow.                                                          *)
RuntimeResolved ==
  /\ stage = "resolve" /\ resolver.todo = <<>> /\ resolver.runtime = None
  /\ resolver' = [resolver EXCEPT !.runtime = Members(resolver.selected), !.todo = build.make]
  /\ UNCHANGED <<channel, approved, build, stage, plan, fetched, images, moves>>

(* The plan names each file at the place of its channel, with its digest; it  *)
(* is stored with the lease.  Without a package there is no plan.             *)
Refer ==
  /\ stage = "resolve" /\ resolver.todo = <<>> /\ resolver.runtime # None
  /\ plan' = IF resolver.selected = <<>> THEN None
             ELSE [packages |-> [i \in DOMAIN resolver.selected |->
                     LET r == resolver.selected[i] IN [release |-> r, at |-> resolver.of[r]]],
                   channel |-> IF \E r \in Members(resolver.selected) : resolver.of[r] = "dev"
                               THEN "dev" ELSE "stable",
                   runtime |-> resolver.runtime]
  /\ stage' = IF resolver.selected = <<>> THEN "build" ELSE "leased"
  /\ UNCHANGED <<channel, approved, build, resolver, fetched, images, moves>>

(* Or the job is not leased: a package or its signature is not in the bucket  *)
(* as its row says, or the packages exceed what a plan may weigh (8 GiB).     *)
ReferFails ==
  /\ stage = "resolve" /\ resolver.todo = <<>> /\ resolver.runtime # None
  /\ resolver.selected # <<>> /\ Fails
  /\ UNCHANGED <<channel, approved, build, resolver, plan, fetched, images, moves>>

-----------------------------------------------------------------------------
(* The worker.  A plan has each release, name and file once, the target of    *)
(* the job, places its channel may name, and a runtime scope inside it.       *)
Listed == {plan.packages[i].release : i \in DOMAIN plan.packages}
Valid ==
  /\ \A i, j \in DOMAIN plan.packages :
       i # j => Package[plan.packages[i].release].name # Package[plan.packages[j].release].name
  /\ \A i \in DOMAIN plan.packages :
       /\ Package[plan.packages[i].release].target = build.target
       /\ plan.packages[i].at \in (IF plan.channel = "dev" THEN {"dev", "stable"} ELSE {"stable"})
  /\ plan.runtime \subseteq Listed

Validate ==
  /\ stage = "leased"
  /\ stage' = IF Valid THEN "fetch" ELSE "failed"
  /\ UNCHANGED <<channel, approved, build, resolver, plan, fetched, images, moves>>

(* What the repository serves for a file: the last published release of that  *)
(* file in the channel; the stable place goes on serving withdrawn releases.  *)
Serving(at, file) ==
  {r \in Releases : File(r) = file /\ channel[r] \in (IF at = "dev" THEN {"dev"} ELSE {"stable", "withdrawn"})}
Served(at, file) ==
  CHOOSE r \in Serving(at, file) : \A o \in Serving(at, file) : Package[r].published >= Package[o].published

(* The next file is fetched, with its signature: it must have the digest of   *)
(* the plan.                                                                  *)
Fetch ==
  LET item == plan.packages[Len(fetched) + 1]
      file == File(item.release)
  IN
  /\ stage = "fetch" /\ Len(fetched) < Len(plan.packages)
  /\ IF Serving(item.at, file) # {} /\ Served(item.at, file) = item.release
     THEN fetched' = Append(fetched, item.release) /\ UNCHANGED stage
     ELSE Fails /\ UNCHANGED fetched
  /\ UNCHANGED <<channel, approved, build, resolver, plan, images, moves>>

FetchDone ==
  /\ stage = "fetch" /\ Len(fetched) = Len(plan.packages)
  /\ stage' = "build"
  /\ UNCHANGED <<channel, approved, build, resolver, plan, fetched, images, moves>>

(* Installing files over the base: they replace packages of the same name and *)
(* pull in from the distribution what they and the relations still need; in   *)
(* the end every file of the plan is installed as it is.                      *)
Answered(relation, packages) == \E p \in packages : SatisfiedBy(relation, p)
Base(files) == {s \in System : \A f \in files : f.name # s.name}
Image(files) == files \cup Base(files)
Installs(files, relations) ==
  /\ \A a, b \in files : a # b => ~\E c \in a.conflicts : SatisfiedBy(c, b)
  /\ \A f \in files : \A i \in DOMAIN f.depends : Answered(f.depends[i], Image(files))
  /\ \A i \in DOMAIN relations : Answered(relations[i], Image(files))

Files(releases) == {Package[r] : r \in releases}

PrepareBuild ==
  LET files == Files(Members(fetched)) IN
  /\ stage = "build"
  /\ IF Installs(files, build.runtime \o build.make)
     THEN stage' = "built" /\ images' = [images EXCEPT !.build = Image(files)]
     ELSE Fails /\ UNCHANGED images
  /\ UNCHANGED <<channel, approved, build, resolver, plan, fetched, moves>>

(* The files of the runtime scope are copied, and installed alone.            *)
RuntimeFiles ==
  IF plan = None THEN {}
  ELSE Files({fetched[i] : i \in {j \in DOMAIN fetched : plan.packages[j].release \in plan.runtime}})

PrepareRuntime ==
  /\ stage = "built"
  /\ IF Installs(RuntimeFiles, build.runtime)
     THEN stage' = "inspect" /\ images' = [images EXCEPT !.runtime = Image(RuntimeFiles)]
     ELSE Fails /\ UNCHANGED images
  /\ UNCHANGED <<channel, approved, build, resolver, plan, fetched, moves>>

(* The inspection follows the declared relations through what is installed    *)
(* (a package's own version and what it provides of that name both count);    *)
(* a relation nothing answers is an error of the package.                     *)
Has(p, relation) ==
  \/ p.name = relation.name /\ Satisfies(relation, p.version)
  \/ \E q \in p.provides : q.name = relation.name /\
       (relation.op = None \/ (q.version # None /\ Satisfies(relation, q.version)))
Reached(image) ==
  LET reach[n \in 0..Cardinality(image)] ==
        IF n = 0 THEN {p \in image : \E i \in DOMAIN build.runtime : Has(p, build.runtime[i])}
        ELSE reach[n - 1] \cup
          {p \in image : \E q \in reach[n - 1] : \E i \in DOMAIN q.depends : Has(p, q.depends[i])}
  IN reach[Cardinality(image)]
Followed(image) ==
  Members(build.runtime) \cup UNION {Members(p.depends) : p \in Reached(image)}
Unanswered(image) == {relation \in Followed(image) : ~\E p \in image : Has(p, relation)}

Inspect ==
  /\ stage = "inspect"
  /\ stage' = IF Unanswered(images.runtime) = {} THEN "succeeded" ELSE "failed"
  /\ UNCHANGED <<channel, approved, build, resolver, plan, fetched, images, moves>>

-----------------------------------------------------------------------------
(* Meanwhile releases are published in dev, promoted (the stable release of   *)
(* that name is withdrawn), quarantined or lose a sign-off.                   *)
Move(r, to) ==
  /\ moves < MaxMoves /\ moves' = moves + 1
  /\ channel' = [q \in Releases |->
       IF q = r THEN to
       ELSE IF to = "stable" /\ channel[q] = "stable" /\ Package[q].name = Package[r].name
               /\ Package[q].target = Package[r].target THEN "withdrawn"
       ELSE channel[q]]
  /\ UNCHANGED <<approved, build, stage, resolver, plan, fetched, images>>

Revoke(r) ==
  /\ r \in approved /\ moves < MaxMoves /\ moves' = moves + 1
  /\ approved' = approved \ {r}
  /\ UNCHANGED <<channel, build, stage, resolver, plan, fetched, images>>

ReleasesMove ==
  \E r \in Releases :
    \/ channel[r] = "none" /\ Move(r, "dev")
    \/ channel[r] = "dev" /\ r \in approved /\ Move(r, "stable")
    \/ channel[r] \in {"dev", "stable"} /\ Move(r, "quarantined")
    \/ Revoke(r)

Plans == Query \/ Resolve \/ RuntimeResolved \/ Refer \/ ReferFails
Works == Validate \/ Fetch \/ FetchDone \/ PrepareBuild \/ PrepareRuntime \/ Inspect

ResolverNext == Plans \/ Works \/ (stage \notin {"succeeded", "failed"} /\ ReleasesMove)

ResolverInit ==
  /\ channel \in [Releases -> {"none", "dev", "stable"}]
  /\ \A a, b \in Releases : channel[a] = "stable" /\ channel[b] = "stable" /\ a # b =>
       <<Package[a].name, Package[a].target>> # <<Package[b].name, Package[b].target>>
  /\ approved = Releases /\ build \in Builds /\ stage = "claimed"
  /\ resolver = None /\ plan = None /\ fetched = <<>>
  /\ images = [build |-> {}, runtime |-> {}] /\ moves = 0

-----------------------------------------------------------------------------
(* A plan is complete and consistent, the runtime scope by itself too: every  *)
(* relation about a published name, of the build or of a listed package, is   *)
(* answered by a listed package, no name is listed twice, and no two listed   *)
(* packages conflict (planDependencies resolves greedily and in order).       *)
Complete(releases, relations) ==
  \A relation \in relations \cup UNION {Members(Package[r].depends) : r \in releases} :
    Known(relation.name) => \E r \in releases : SatisfiedBy(relation, Package[r])
PlanInstallable ==
  plan # None =>
    /\ Complete(Listed, Members(build.runtime) \cup Members(build.make))
    /\ Complete(plan.runtime, Members(build.runtime))
    /\ \A a, b \in Listed : a # b => Package[a].name # Package[b].name /\ ~Conflicting(a, b)

(* Whatever happens to the releases after the lease, the packages in a        *)
(* worker's images are the ones the plan pinned: another release of the same  *)
(* file never takes the place of one (fetchDependencyObject's digest).        *)
InstalledAsPlanned ==
  \A image \in {images.build, images.runtime} :
    image \ System \subseteq (IF plan = None THEN {} ELSE Files(Listed))

(* What a build installs is a complete plan without conflicts, and nothing   *)
(* else than the files that plan lists.                                      *)
PlannedIsInstalled == PlanInstallable /\ InstalledAsPlanned
=============================================================================
