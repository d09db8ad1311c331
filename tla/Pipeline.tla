------------------------------- MODULE Pipeline -------------------------------
(***************************************************************************)
(* The pipeline service around one package: overlapping cron runs          *)
(* (services/pipeline/src/cloudflare.ts), factory workflows, publication   *)
(* jobs and blockers, with what maintainers do to the same requests        *)
(* (src/lib/server/requests.ts) and the integrity check of the recipes on  *)
(* the default branch (services/pipeline/integrity.ts).                    *)
(*                                                                         *)
(* Blocked requests (src/lib/server/dependency-blockers.ts): a missing     *)
(* dependency blocks a request; maintainers link blockers to the requests  *)
(* that will provide them, checked against the whole graph at a version    *)
(* the UPDATE asks for; a published provider resolves them.  A request has *)
(* at most one blocker here.  Others are requests of other packages: only  *)
(* their blockers matter.                                                  *)
(***************************************************************************)
EXTENDS Workflows

CONSTANTS
    Others,             \* requests of other packages
    Linkers,            \* maintainers linking blockers
    MaxLinks,           \* changes of the graph after which no call starts
    MaxDepth,           \* levels of the admission graph (8 in the code)
    Resolvers,          \* calls of resolveDependencyBlockers that may be under way
    Auditors,           \* integrity checks that may be under way
    MaxHuman, MaxEdits

ASSUME PipelineAssumption == MaxDepth \in Nat \ {0}

VARIABLES
    blocker,        \* dependency_blockers of each request
    graphVersion,   \* dependency_graph_state.version
    available,      \* requests of other packages with a matching signed release
    link,           \* state of each linkDependencyRequest call
    resolving,      \* state of each resolveDependencyBlockers call: what it read
    starting,       \* startFactory calls by the generation they claimed
    finalizing,     \* finalization under way of each request
    merged,         \* generations whose pull request is merged
    builds,         \* generation of the revision with queued or finished builds, 0 when none
    main,           \* generation whose recipe the default branch holds, None when edited
    check,          \* state of each integrity check: the branch head and row it read
    humanActs,      \* what maintainers did so far
    edits           \* commits pushed to the recipe by hand

blockerVars == <<blocker, graphVersion, available, link, resolving>>
maintainerVars == <<starting, finalizing, merged, builds, humanActs>>
sourceVars == <<main, check, edits>>
vars == <<watchVars, factoryVars, publicationVars, blockerVars, maintainerVars, sourceVars>>

Nodes == Requests \cup Others
NoBlocker == [status |-> "none", child |-> None, id |-> 0]
NoLink == [pc |-> "idle", parent |-> None, child |-> None, version |-> 0, id |-> 0]
NoResolver == [pc |-> "idle", blockers |-> {}, parents |-> {}]

BlockerInit ==
    /\ blocker = [n \in Nodes |-> NoBlocker]
    /\ graphVersion = 0
    /\ available = {}
    /\ link = [m \in Linkers |-> NoLink]
    /\ resolving = [r \in Resolvers |-> NoResolver]

SameBlockers == UNCHANGED blockerVars
SameRequests == UNCHANGED <<watchVars, factoryVars, publicationVars>>

Open(n) == blocker[n].status = "open"
OpenAs(n, id) == Open(n) /\ blocker[n].id = id
Linked(n) == Open(n) /\ blocker[n].child # None

(* The trigger counts every change of an edge. *)
SetBlocker(n, value) ==
    /\ blocker' = [blocker EXCEPT ![n] = value]
    /\ graphVersion' = graphVersion
         + (IF blocker[n].child # None \/ value.child # None THEN 1 ELSE 0)

Report(n) == SetBlocker(n, [status |-> "open", child |-> None, id |-> blocker[n].id + 1])

-----------------------------------------------------------------------------
(* checkDependencyLinks *)

Edges(replacing, parent, child) ==
    {<<n, blocker[n].child>> : n \in {n \in Nodes \ {replacing} : Linked(n)}} \cup {<<parent, child>>}

(* Nodes of the paths of k edges that start at a node; a cycle has paths of *)
(* every length.                                                             *)
LevelsFrom(edges, n) ==
    LET level[k \in 0 .. MaxDepth] ==
          IF k = 0 THEN {n} ELSE {e[2] : e \in {e \in edges : e[1] \in level[k - 1]}}
    IN level

Admissible(edges) ==
    \A n \in Nodes : LevelsFrom(edges, n)[MaxDepth] = {}

(* report_missing_dependencies of the agent, while its generation is current *)
ReportMissing(g) ==
    /\ Running(g, "prepare") /\ Current(g) /\ Request(g).status = "generating"
    /\ LET q == instance[g].request IN
       /\ ~Open(q)
       /\ SetStatus(q, "blocked")
       /\ Report(q)
    /\ Fault
    /\ SameWatch /\ UNCHANGED <<instance, factoryVars, publicationVars, available, link, resolving>>

(* A failed build of another package reports its missing dependency. *)
BlockOther(n) ==
    /\ blocker[n].status = "none"
    /\ Report(n)
    /\ SameRequests /\ UNCHANGED <<available, link, resolving>>

SetLink(m, state) == link' = [link EXCEPT ![m] = state]
Linking(m, pc) == link[m].pc = pc

StillBlocked(n) == n \in Requests => request[n].status = "blocked"

BeginLink(m, parent, child) ==
    /\ Linking(m, "idle") /\ m \in present /\ graphVersion < MaxLinks
    /\ Open(parent) /\ StillBlocked(parent) /\ parent # child
    /\ child \in Requests => request[child].status # "none"
    /\ SetLink(m, [pc |-> "check", parent |-> parent, child |-> child, version |-> graphVersion,
                   id |-> blocker[parent].id])
    /\ SameRequests /\ UNCHANGED <<blocker, graphVersion, available, resolving>>

CheckGraph(m) ==
    /\ Linking(m, "check")
    /\ LET l == link[m] IN
       SetLink(m, IF Admissible(Edges(l.parent, l.parent, l.child))
                  THEN [l EXCEPT !.pc = "link"] ELSE NoLink)
    /\ SameRequests /\ UNCHANGED <<blocker, graphVersion, available, resolving>>

LinkBlocker(m) ==
    /\ Linking(m, "link")
    /\ LET l == link[m] IN
       IF OpenAs(l.parent, l.id) /\ graphVersion = l.version
       THEN SetBlocker(l.parent, [blocker[l.parent] EXCEPT !.child = l.child])
       ELSE UNCHANGED <<blocker, graphVersion>>
    /\ SetLink(m, NoLink)
    /\ SameRequests /\ UNCHANGED <<available, resolving>>

-----------------------------------------------------------------------------
(* resolveDependencyBlockers, called after a link, on a maintainer's page, by *)
(* each cron run and after each publication: reads the open blockers, then    *)
(* the releases, and writes one blocker and one request after another.        *)

PublishProvider(n) ==
    /\ n \notin available /\ ~Open(n)
    /\ available' = available \cup {n}
    /\ SameRequests /\ UNCHANGED <<blocker, graphVersion, link, resolving>>

Resolving(r, pc) == resolving[r].pc = pc
SetResolver(r, state) == resolving' = [resolving EXCEPT ![r] = state]

(* The blockers of one request or of all. *)
ReadBlockers(r, S) ==
    LET found == {n \in S : Open(n) /\ StillBlocked(n)} IN
    /\ Resolving(r, "idle") /\ r \in present
    /\ found # {}
    /\ SetResolver(r, [pc |-> "releases", parents |-> found,
                      blockers |-> {[node |-> n, id |-> blocker[n].id,
                                     child |-> blocker[n].child] : n \in found}])
    /\ SameRequests /\ UNCHANGED <<blocker, graphVersion, available, link>>

ProviderReleased(child) ==
    IF child = None THEN available # {} ELSE child \in available \cup released

ReadReleases(r) ==
    /\ Resolving(r, "releases")
    /\ SetResolver(r, [resolving[r] EXCEPT !.pc = "resolve",
                      !.blockers = {b \in @ : ProviderReleased(b.child)}])
    /\ SameRequests /\ UNCHANGED <<blocker, graphVersion, available, link>>

ResolveBlocker(r, b) ==
    /\ Resolving(r, "resolve") /\ b \in resolving[r].blockers
    /\ IF OpenAs(b.node, b.id)
       THEN SetBlocker(b.node, [blocker[b.node] EXCEPT !.status = "resolved"])
       ELSE UNCHANGED <<blocker, graphVersion>>
    /\ SetResolver(r, [resolving[r] EXCEPT !.blockers = @ \ {b}])
    /\ SameRequests /\ UNCHANGED <<available, link>>

(* Back to the latest revision, or to its first generation.  A request of     *)
(* another package counts only by its blockers.                                *)
Resume(r, n) ==
    /\ Resolving(r, "resolve") /\ resolving[r].blockers = {} /\ n \in resolving[r].parents
    /\ IF n \in Requests /\ ~Open(n) /\ StillBlocked(n)
       THEN request' = [request EXCEPT
              ![n].status = IF request[n].revision = None THEN "pending" ELSE "review",
              ![n].resumes = @ + 1]
       ELSE UNCHANGED request
    /\ SetResolver(r, IF resolving[r].parents = {n} THEN NoResolver
                      ELSE [resolving[r] EXCEPT !.parents = @ \ {n}])
    /\ SameWatch /\ UNCHANGED <<instance, faults, factoryVars, publicationVars,
                                blocker, graphVersion, available, link>>

ResolverDies(r) ==
    /\ ~Resolving(r, "idle")
    /\ SetResolver(r, NoResolver) /\ Fault
    /\ SameWatch /\ UNCHANGED <<request, instance, factoryVars, publicationVars,
                                blocker, graphVersion, available, link>>

WorkOnBlockers ==
    \/ \E g \in Generations : ReportMissing(g)
    \/ \E n \in Others : BlockOther(n) \/ PublishProvider(n)
    \/ \E r \in Resolvers :
         \/ \E S \in {Nodes} \cup {{n} : n \in Nodes} : ReadBlockers(r, S)
         \/ ReadReleases(r)
         \/ \E b \in resolving[r].blockers : ResolveBlocker(r, b)
         \/ \E n \in resolving[r].parents : Resume(r, n)
         \/ ResolverDies(r)
    \/ \E m \in Linkers :
         \/ \E parent, child \in Nodes : BeginLink(m, parent, child)
         \/ CheckGraph(m)
         \/ LinkBlocker(m)

-----------------------------------------------------------------------------
NoHead == [pc |-> "idle", head |-> 0, request |-> 0, generation |-> 0]
NoStart == [pc |-> "none", request |-> 0]
NoFinalization == [pc |-> "none", generation |-> 0, revision |-> 0]

Init ==
    /\ WatchInit /\ FactoryInit /\ PublicationInit /\ BlockerInit
    /\ present = Crons \cup Callers \cup Linkers \cup Resolvers \cup Auditors
    /\ starting = [g \in Generations |-> NoStart]
    /\ finalizing = [q \in Requests |-> NoFinalization]
    /\ merged = {} /\ builds = [q \in Requests |-> 0]
    /\ main = 0 /\ humanActs = 0 /\ edits = 0
    /\ check = [c \in Auditors |-> NoHead]

ActOnce == humanActs < MaxHuman /\ humanActs' = humanActs + 1
Spend == humanActs' = humanActs

-----------------------------------------------------------------------------
(* Maintainers: requests.ts *)

SubmitRequest ==
    /\ ActOnce
    /\ Insert("maintainer", newest)
    /\ SameWatch /\ UNCHANGED <<instance, faults, factoryVars, publicationVars, blockerVars,
                                starting, finalizing, merged, builds, sourceVars>>

(* startFactory: the batch claims the request for a new generation ... *)
StartFactory(q) ==
    LET g == generations + 1 IN
    /\ request[q].status \in {"pending", "failed", "review", "blocked"}
    /\ Unfinished \subseteq {q}
    /\ g \in Generations /\ ActOnce
    /\ generations' = g
    /\ human' = IF request[q].status = "pending" THEN human ELSE human \cup {g}
    /\ request' = [request EXCEPT ![q].status = "generating", ![q].generation = g]
    /\ starting' = [starting EXCEPT ![g] = [pc |-> "call", request |-> q]]
    /\ IF Open(q) THEN SetBlocker(q, [blocker[q] EXCEPT !.status = "superseded"])
       ELSE UNCHANGED <<blocker, graphVersion>>
    /\ UNCHANGED <<kind, newest, checkpoint, published, instance, cron, ahead, overlaps, present,
                   faults, factoryVars, publicationVars, available, link, resolving,
                   finalizing, merged, builds, sourceVars>>

Started(g, pc) == starting' = [starting EXCEPT ![g].pc = pc]

(* ... and the pipeline is called, which creates the instance or finds it       *)
(* (enqueueFactory); the call may fail before or after that.                     *)
CallPipeline(g) ==
    /\ starting[g].pc = "call"
    /\ \/ Create(g, starting[g].request) /\ Started(g, "none") /\ UNCHANGED faults
       \/ instance[g].status \notin Ended /\ Started(g, "none") /\ UNCHANGED <<instance, faults>>
       \/ instance[g].status \in Ended \ {"none"} /\ Started(g, "failed") /\ UNCHANGED <<instance, faults>>
       \/ (Create(g, starting[g].request) \/ UNCHANGED instance) /\ Started(g, "failed") /\ Fault
    /\ SameWatch /\ UNCHANGED <<request, factoryVars, publicationVars, blockerVars,
                                finalizing, merged, builds, humanActs, sourceVars>>

(* Only the claim of this call is undone. *)
DispatchFails(g) ==
    /\ starting[g].pc = "failed"
    /\ LET q == starting[g].request IN
       IF request[q].status = "generating" /\ request[q].generation = g
       THEN SetStatus(q, "failed")
       ELSE UNCHANGED request
    /\ Started(g, "none")
    /\ SameWatch /\ UNCHANGED <<instance, faults, factoryVars, publicationVars, blockerVars,
                                finalizing, merged, builds, humanActs, sourceVars>>

StartDies(g) ==
    /\ starting[g].pc # "none"
    /\ Started(g, "none") /\ Fault
    /\ SameWatch /\ UNCHANGED <<request, instance, factoryVars, publicationVars, blockerVars,
                                finalizing, merged, builds, humanActs, sourceVars>>

RejectRequest(q) ==
    /\ request[q].status \in {"pending", "failed", "review", "blocked"}
    /\ ActOnce
    /\ SetStatus(q, "rejected")
    /\ SameWatch /\ UNCHANGED <<instance, faults, factoryVars, publicationVars, blockerVars,
                                starting, finalizing, merged, builds, sourceVars>>

-----------------------------------------------------------------------------
(* Finalization: the request is locked, the reviewed commit merged, its builds *)
(* queued.  A failure opens the review again.  The races of two finalizations  *)
(* of one request are those of BuildReview.                                     *)

HasBuilds(q) == request[q].revision # None /\ builds[q] = request[q].revision.generation
LatestOf(q, f) ==
    /\ request[q].generation = f.generation
    /\ request[q].revision # None /\ request[q].revision.generation = f.revision
Finalizing(q, pc) == finalizing[q].pc = pc
Finalized(q, pc) == finalizing' = [finalizing EXCEPT ![q].pc = pc]
SameButFinalization ==
    UNCHANGED <<instance, factoryVars, publicationVars, blockerVars, starting, check, edits>>

(* A request that is queued without builds is finalized again. *)
LockFinalization(q) ==
    /\ Finalizing(q, "none") /\ ActOnce
    /\ request[q].revision # None /\ run[request[q].revision.generation] = "succeeded"
    /\ \/ request[q].status = "review"
       \/ request[q].status = "queued" /\ ~HasBuilds(q)
    /\ SetStatus(q, "queued")
    /\ finalizing' = [finalizing EXCEPT ![q] =
         [pc |-> "merge", generation |-> request[q].generation,
          revision |-> request[q].revision.generation]]
    /\ SameWatch /\ SameButFinalization /\ UNCHANGED <<faults, merged, builds, main>>

(* mergeRecipePR; its answer may be lost after the merge. *)
MergeRecipe(q) ==
    /\ Finalizing(q, "merge")
    /\ LET g == finalizing[q].revision
           Merge == /\ main' = IF g \in merged THEN main ELSE g
                    /\ merged' = merged \cup {g} IN
       \/ Merge /\ Finalized(q, "queue") /\ UNCHANGED faults
       \/ (Merge \/ UNCHANGED <<main, merged>>) /\ Finalized(q, "reopen") /\ Fault
    /\ SameWatch /\ SameButFinalization /\ Spend /\ UNCHANGED <<request, builds>>

(* The batch inserts builds of the revision while it is still the queued one. *)
QueueBuilds(q) ==
    /\ Finalizing(q, "queue")
    /\ \/ /\ builds' = IF request[q].status = "queued" /\ LatestOf(q, finalizing[q])
                       THEN [builds EXCEPT ![q] = finalizing[q].revision] ELSE builds
          /\ finalizing' = [finalizing EXCEPT ![q] = NoFinalization] /\ UNCHANGED faults
       \/ Finalized(q, "reopen") /\ Fault /\ UNCHANGED builds
    /\ SameWatch /\ SameButFinalization /\ Spend /\ UNCHANGED <<request, merged, main>>

ReopenFinalization(q) ==
    /\ Finalizing(q, "reopen")
    /\ IF request[q].status = "queued" /\ LatestOf(q, finalizing[q]) /\ ~HasBuilds(q)
       THEN SetStatus(q, "review") ELSE UNCHANGED request
    /\ finalizing' = [finalizing EXCEPT ![q] = NoFinalization]
    /\ SameWatch /\ SameButFinalization /\ Spend /\ UNCHANGED <<faults, merged, builds, main>>

FinalizationDies(q) ==
    /\ ~Finalizing(q, "none")
    /\ finalizing' = [finalizing EXCEPT ![q] = NoFinalization] /\ Fault
    /\ SameWatch /\ SameButFinalization /\ Spend /\ UNCHANGED <<request, merged, builds, main>>

-----------------------------------------------------------------------------
(* The builds of the reviewed revision *)

Build(q) ==
    /\ request[q].status = "queued" /\ HasBuilds(q)
    /\ SetStatus(q, "building")
    /\ SameWatch /\ UNCHANGED <<instance, faults, factoryVars, publicationVars, blockerVars,
                                maintainerVars, sourceVars>>

(* A build that fails, or reports missing dependencies and blocks the request. *)
BuildFails(q) ==
    /\ request[q].status = "building" /\ job[q] = "none"
    /\ SetStatus(q, "failed")
    /\ builds' = [builds EXCEPT ![q] = 0]
    /\ Fault
    /\ SameWatch /\ UNCHANGED <<instance, factoryVars, publicationVars, blockerVars,
                                starting, finalizing, merged, humanActs, sourceVars>>

BuildReportsMissing(q) ==
    /\ request[q].status = "building" /\ job[q] = "none" /\ ~Open(q)
    /\ SetStatus(q, "blocked")
    /\ builds' = [builds EXCEPT ![q] = 0]
    /\ Report(q)
    /\ Fault
    /\ SameWatch /\ UNCHANGED <<instance, factoryVars, publicationVars, available, link, resolving,
                                starting, finalizing, merged, humanActs, sourceVars>>

-----------------------------------------------------------------------------
(* checkSourceOfTruth at the end of a cron run *)

EditMain ==
    /\ edits < MaxEdits /\ edits' = edits + 1
    /\ main' = None
    /\ UNCHANGED <<watchVars, factoryVars, publicationVars, blockerVars, maintainerVars, check>>

SetCheck(c, state) == check' = [check EXCEPT ![c] = state]

ReadHead(c) ==
    /\ check[c].pc = "idle" /\ c \in present
    /\ SetCheck(c, [NoHead EXCEPT !.pc = "rows", !.head = main])
    /\ UNCHANGED <<watchVars, factoryVars, publicationVars, blockerVars, maintainerVars, main, edits>>

Approved == {q \in Rows : request[q].status \in {"queued", "building", "built"} /\ HasBuilds(q)}
NewestApproved ==
    {q \in Approved : \A p \in Approved :
       request[p].revision.generation <= request[q].revision.generation}

(* The newest approved revision must be what that commit holds; its files are  *)
(* then read from there.                                                         *)
ReadRows(c) ==
    /\ check[c].pc = "rows"
    /\ \/ \E q \in NewestApproved :
            SetCheck(c, IF request[q].revision.generation = check[c].head THEN NoHead
                        ELSE [check[c] EXCEPT !.pc = "freeze", !.request = q,
                                              !.generation = request[q].revision.generation])
       \/ NewestApproved = {} /\ SetCheck(c, NoHead)
    /\ UNCHANGED <<watchVars, factoryVars, publicationVars, blockerVars, maintainerVars, main, edits>>

(* freezeRequest: unfinished builds of that revision are cancelled. *)
FreezeRequest(c) ==
    /\ check[c].pc = "freeze"
    /\ LET q == check[c].request IN
       /\ IF request[q].status \in {"review", "queued", "building"}
          THEN SetStatus(q, "failed") ELSE UNCHANGED request
       /\ builds' = IF builds[q] = check[c].generation /\ job[q] = "none"
                    THEN [builds EXCEPT ![q] = 0] ELSE builds
    /\ SetCheck(c, NoHead)
    /\ SameWatch /\ UNCHANGED <<instance, faults, factoryVars, publicationVars, blockerVars,
                                starting, finalizing, merged, humanActs, main, edits>>

-----------------------------------------------------------------------------

Watch(c) == CheckUpstream(c) \/ DispatchUpstreamFactory(c)
UnchangedByWatch == UNCHANGED <<factoryVars, publicationVars, blockerVars, maintainerVars, sourceVars>>
UnchangedByFactory == UNCHANGED <<publicationVars, blockerVars, maintainerVars, sourceVars>>

MaintainersStep ==
    \/ SubmitRequest
    \/ \E g \in Generations : CallPipeline(g) \/ DispatchFails(g) \/ StartDies(g)
    \/ \E q \in Requests :
         \/ StartFactory(q)
         \/ RejectRequest(q)
         \/ LockFinalization(q)
         \/ MergeRecipe(q)
         \/ QueueBuilds(q)
         \/ ReopenFinalization(q)
         \/ FinalizationDies(q)
         \/ Build(q)
         \/ BuildFails(q)
         \/ BuildReportsMissing(q)

IntegrityStep == EditMain \/ \E c \in Auditors : ReadHead(c) \/ ReadRows(c) \/ FreezeRequest(c)

Next ==
    \/ (NewRelease \/ NeighbourPublished) /\ UnchangedByWatch
    \/ \E c \in Crons : (Watch(c) \/ CronDies(c)) /\ UnchangedByWatch
    \/ \E g \in Generations : (RunFactory(g) \/ Terminate(g)) /\ UnchangedByFactory
    \/ RunPublication /\ UNCHANGED <<blockerVars, maintainerVars, sourceVars>>
    \/ WorkOnBlockers /\ UNCHANGED <<maintainerVars, sourceVars>>
    \/ MaintainersStep
    \/ IntegrityStep

(* Cron runs are started again and again, and visit the package while fewer   *)
(* than CheckLimit others come before it; workflows are durable.               *)
Fairness ==
    /\ \A c \in Crons : WF_vars(Watch(c) /\ UnchangedByWatch)
    /\ \A g \in Generations : WF_vars(RunFactory(g) /\ UnchangedByFactory)

Spec == Init /\ [][Next]_vars /\ Fairness

-----------------------------------------------------------------------------
(* Properties *)

(* A release the checkpoint has moved past is not forgotten: it is published, *)
(* or a request of the package was opened for it and packages it or is still  *)
(* to be packaged (release.ts: "prevents a faster upstream release from being *)
(* forgotten").  Not said of a moving archive, whose URL any active request    *)
(* matches: there a release seen while an older one is in review is forgotten. *)
Packages(q, release) ==
    IF request[q].revision # None /\ request[q].status \in {"review", "queued", "building", "built"}
    THEN request[q].revision.release = release
    ELSE SameSource(q, release)
ReleaseKept ==
    kind # "moving" /\ checkpoint[published] = newest =>
       \/ ReleaseOf(published) = newest
       \/ \E q \in Rows : Packages(q, newest)

(* Every resumption of a blocked request gives it at most one more automatic   *)
(* generation than the budget, however many cron runs count and claim at once: *)
(* a count that was read before the request was blocked and resumed is used     *)
(* after it (release.ts:646 asks only for a pending request).                    *)
GenerationsBounded ==
    \A q \in Requests : request[q].autos <= MAX_AUTOMATIC_GENERATIONS + request[q].resumes

(* A request comes to review with a revision of its current generation, never *)
(* of one that failed, was superseded or outlived a rejection; only a resolved *)
(* blocker or a finalization that failed before it queued a build brings back   *)
(* the revision that was there.                                                  *)
ReviewIsCurrent ==
    [][\A q \in Requests :
         request'[q].status = "review" /\ request[q].status \notin {"review", "blocked"} =>
            \/ /\ request[q].status = "generating"
               /\ request'[q].revision.generation = request'[q].generation
               /\ pulls'[request'[q].generation] = "open"
            \/ /\ request[q].status = "queued" /\ ~HasBuilds(q)
               /\ request'[q] = [request[q] EXCEPT !.status = "review"]]_vars

(* A detected release is not left in the factory: its request comes to review, *)
(* is decided or has used its generations, or an older request that is not over *)
(* waits for a maintainer.                                                       *)
OnPeople(q) ==
    CASE request[q].status \in {"review", "blocked", "queued", "building"} -> TRUE
      [] request[q].owner = "system" ->
           request[q].status = "pending" /\ ~AutomaticGenerationAvailable(q)
      [] OTHER -> request[q].status \in {"pending", "generating"}
Decided(q) ==
    \/ request[q].status \in {"rejected", "built"}
    \/ request[q].status = "failed" /\ (request[q].owner # "system" \/ ~AutomaticGenerationAvailable(q))
OutOfRows == generations = MaxGeneration \/ NewRequest \notin Requests
Handled(r) ==
    \/ newest # r \/ ReleaseOf(published) = r
    \/ OutOfRows /\ \A q \in Rows : request[q].status # "generating"
    \/ \E q \in Rows : OnPeople(q) \/ (SameSource(q, r) /\ Decided(q))
Detectable(r) == newest = r /\ present \cap Crons # {}

(* The checks visit only so many packages (release.ts:507): this one, unless   *)
(* that many others were published longer ago.                                  *)
ReleaseHandled ==
    \A r \in 2 .. MaxRelease : Detectable(r) ~> (Handled(r) \/ ahead >= CheckLimit)

(* Links of blockers never close a cycle or exceed the depth, with two        *)
(* maintainers linking at once (dependency_graph_state).                       *)
LinksAdmissible ==
    Admissible({<<n, blocker[n].child>> : n \in {n \in Nodes : Linked(n)}})

(* The rows of the requests across cron runs, workflows and maintainers: no  *)
(* release is forgotten, automatic generations stay within their budget, the *)
(* links of blockers stay acyclic and short.                                 *)
RequestsAreSound == ReleaseKept /\ GenerationsBounded /\ LinksAdmissible
=============================================================================
