---------------------------- MODULE UpstreamWatch ----------------------------
(***************************************************************************)
(* The scheduled check of upstream releases (services/pipeline/release.ts, *)
(* schedule.ts): each cron run reads the published package, looks at its   *)
(* upstream, compares what it saw with the checkpoint of the last check,   *)
(* opens a request for a new release and starts its factory generation.    *)
(* Cron runs overlap when one takes longer than the interval, and every    *)
(* await between two statements is a step of its own.                      *)
(*                                                                         *)
(* One package.  Request 0 is the first published build, of release 1.     *)
(* Of the other tracked packages only their place before or after this one *)
(* in the order of a cron run is kept.  "git" and "archive" sources name   *)
(* each release apart (a commit, a versioned URL); a "moving" archive      *)
(* serves every release at one URL.                                        *)
(***************************************************************************)
EXTENDS Integers, FiniteSets, FiniteSetsExt

CONSTANTS
    Crons,              \* cron invocations that may overlap
    MaxOverlaps,        \* cron runs that start while another one works
    MaxRequest, MaxRelease, MaxGeneration,
    MAX_AUTOMATIC_GENERATIONS,
    MaxFaults,
    SourceKinds,        \* kinds of source the package may have
    Neighbours,         \* other tracked packages
    CheckLimit,         \* packages a cron run visits (50 in the code)
    None

ASSUME WatchAssumption ==
    /\ {MaxRequest, MaxRelease, MaxGeneration, MaxOverlaps, MaxFaults,
        MAX_AUTOMATIC_GENERATIONS, Neighbours} \subseteq Nat
    /\ CheckLimit \in Nat \ {0}
    /\ SourceKinds \subseteq {"git", "archive", "moving"}

Requests == 1 .. MaxRequest
Generations == 1 .. MaxGeneration

VARIABLES
    kind,           \* source kind of the package
    newest,         \* newest upstream release
    request,        \* rows of requests, with the latest revision of each
    generations,    \* workflow identities handed out
    checkpoint,     \* upstream_checks.last_version per request, 0 when NULL
    published,      \* request whose build is the latest in dev or stable
    instance,       \* FACTORY workflow instances by generation
    human,          \* generations a maintainer asked for after a review
    cron,           \* state of each cron run
    ahead,          \* tracked packages published longer ago than this one
    overlaps,       \* overlapping starts so far
    present,        \* the concurrent calls of this behaviour
    faults          \* lost calls and failed steps so far

watchVars == <<kind, newest, request, generations, checkpoint, published, instance,
               human, cron, ahead, overlaps, present, faults>>

NoRequest == [status |-> "none", release |-> 0, owner |-> None, generation |-> 0,
              autos |-> 0, resumes |-> 0, revision |-> None]
NoInstance == [request |-> 0, pc |-> "begin", status |-> "none", retries |-> 0]
NoCheck == [pc |-> "idle", row |-> 0, release |-> 0, previous |-> 0,
            request |-> 0, generation |-> 0, seen |-> "none", lost |-> {}]

Fault == faults < MaxFaults /\ faults' = faults + 1

-----------------------------------------------------------------------------
(* Requests of the package *)

Rows == {q \in Requests : request[q].status # "none"}
Latest(S) == IF S = {} THEN 0 ELSE Max(S)
NewRequest == Cardinality(Rows) + 1

(* requests_active_name: one request of a name that is not over *)
Unfinished == {q \in Rows : request[q].status \notin {"built", "rejected", "failed"}}

SetStatus(q, status) == request' = [request EXCEPT ![q].status = status]

Insert(owner, release) ==
    /\ NewRequest \in Requests /\ Unfinished = {}
    /\ request' = [request EXCEPT ![NewRequest] =
         [NoRequest EXCEPT !.status = "pending", !.owner = owner, !.release = release]]

ReleaseOf(q) == IF q = 0 THEN 1 ELSE request[q].revision.release

-----------------------------------------------------------------------------
(* What a check sees and how it compares *)

Go(c, state) == cron' = [cron EXCEPT ![c] = state]
At(c, pc) == cron[c].pc = pc
Step(c, pc) == Go(c, [cron[c] EXCEPT !.pc = pc])
Dispatch(c, q) == Go(c, [NoCheck EXCEPT !.pc = "dispatch", !.request = q])
(* recordCheckError keeps last_version; the run goes on to its next package *)
CheckFails(c) == Go(c, NoCheck)

(* The packages published longest ago are visited; a check does not touch the *)
(* order.                                                                      *)
SelectTracked(c) ==
    /\ At(c, "idle") /\ c \in present
    /\ ahead < CheckLimit
    /\ IF \A d \in Crons : At(d, "idle") THEN UNCHANGED overlaps
       ELSE overlaps < MaxOverlaps /\ overlaps' = overlaps + 1
    /\ Go(c, [NoCheck EXCEPT !.pc = "detect", !.row = published])
    /\ UNCHANGED <<ahead, present, kind, newest, request, generations, checkpoint, published, instance,
                   human, faults>>

(* The signal names the newest release: its commit, or its URL and validators. *)
InspectSource(c) ==
    /\ At(c, "detect")
    /\ \/ Go(c, [cron[c] EXCEPT !.pc = "previous", !.release = newest]) /\ UNCHANGED faults
       \/ CheckFails(c) /\ Fault
    /\ UNCHANGED <<ahead, overlaps, present, kind, newest, request, generations, checkpoint, published, instance, human>>

ReadCheckpoint(c) ==
    /\ At(c, "previous")
    /\ Go(c, [cron[c] EXCEPT !.pc = "duplicate", !.previous = checkpoint[cron[c].row]])
    /\ UNCHANGED <<ahead, overlaps, present, kind, newest, request, generations, checkpoint, published, instance,
                   human, faults>>

(* The version of a moving archive is not in its URL. *)
VersionKnown == kind # "moving"

ShouldCreate(check) ==
    LET shipped == ReleaseOf(check.row) IN
    \/ check.previous # 0 /\ check.previous # check.release
    \/ check.previous = 0 /\ VersionKnown /\ check.release # shipped
    \/ kind = "git" /\ check.release # shipped

SameSource(q, release) == kind = "moving" \/ request[q].release = release

Duplicates(release) ==
    {q \in Rows : SameSource(q, release) /\ request[q].status \notin {"built", "rejected"}}
Actives ==
    {q \in Rows : request[q].status \in {"pending", "generating", "review", "queued", "building"}}

Startable(q, statuses) ==
    IF q # 0 /\ request[q].owner = "system" /\ request[q].status \in statuses THEN q ELSE 0

FindDuplicate(c) ==
    /\ At(c, "duplicate")
    /\ LET duplicate == Latest(Duplicates(cron[c].release)) IN
       IF ShouldCreate(cron[c]) /\ duplicate = 0
       THEN Step(c, "active")
       ELSE Go(c, [cron[c] EXCEPT !.pc = "advance",
                     !.request = Startable(duplicate, {"pending", "generating", "failed"})])
    /\ UNCHANGED <<ahead, overlaps, present, kind, newest, request, generations, checkpoint, published, instance,
                   human, faults>>

(* An active request of another release keeps the observed signal pending. *)
FindActive(c) ==
    /\ At(c, "active")
    /\ LET active == Latest(Actives) IN
       Go(c, IF active = 0 THEN [cron[c] EXCEPT !.pc = "create"]
             ELSE [NoCheck EXCEPT !.pc = "dispatch",
                     !.request = Startable(active, {"pending", "generating"})])
    /\ UNCHANGED <<ahead, overlaps, present, kind, newest, request, generations, checkpoint, published, instance,
                   human, faults>>

AdvanceCheckpoint(c) ==
    /\ At(c, "advance")
    /\ checkpoint' = [checkpoint EXCEPT ![cron[c].row] = cron[c].release]
    /\ Dispatch(c, cron[c].request)
    /\ UNCHANGED <<ahead, overlaps, present, kind, newest, request, generations, published, instance, human, faults>>

(* One batch: the request, the checkpoint and the audit event, or neither. *)
CreateRequest(c) ==
    /\ At(c, "create")
    /\ \/ /\ Insert("system", cron[c].release)
          /\ checkpoint' = [checkpoint EXCEPT ![cron[c].row] = cron[c].release]
          /\ Dispatch(c, NewRequest)
       \/ Unfinished # {} /\ CheckFails(c) /\ UNCHANGED <<request, checkpoint>>
    /\ UNCHANGED <<ahead, overlaps, present, kind, newest, generations, published, instance, human, faults>>

-----------------------------------------------------------------------------
(* Starting the generation of a request without a human approval *)

(* The row decides: a new generation for a pending or failed request, the   *)
(* saved one again for a request that is generating.  A claim that another  *)
(* run took is read again; "lost" holds the states already tried.           *)
ReadRequest(c) ==
    /\ At(c, "dispatch")
    /\ LET q == cron[c].request
           row == IF q = 0 THEN NoRequest ELSE request[q] IN
       Go(c, CASE row.owner = "system" /\ row.status \in {"pending", "failed"} \ cron[c].lost ->
                    [cron[c] EXCEPT !.pc = "count", !.seen = row.status,
                                    !.generation = row.generation]
               [] row.owner = "system" /\ row.status = "generating" ->
                    [NoCheck EXCEPT !.pc = "create instance", !.request = q,
                                    !.generation = row.generation]
               [] OTHER -> NoCheck)
    /\ UNCHANGED <<ahead, overlaps, present, kind, newest, request, generations, checkpoint, published, instance,
                   human, faults>>

AutomaticGenerationAvailable(q) == request[q].autos < MAX_AUTOMATIC_GENERATIONS

CountGenerations(c) ==
    /\ At(c, "count")
    /\ IF AutomaticGenerationAvailable(cron[c].request)
       THEN Step(c, "claim")
       ELSE Go(c, NoCheck)
    /\ UNCHANGED <<ahead, overlaps, present, kind, newest, request, generations, checkpoint, published, instance,
                   human, faults>>

(* Mutant: the failed request is claimed whatever generation failed. *)
UnclaimedByStatus(c) == request[cron[c].request].status = cron[c].seen

(* The UPDATE matches the state that was read; the audit event it counts by *)
(* is in the same batch.                                                     *)
Unclaimed(c) ==
    LET q == cron[c].request IN
    /\ request[q].status = cron[c].seen
    /\ cron[c].seen = "failed" => request[q].generation = cron[c].generation

ClaimGeneration(c) ==
    /\ At(c, "claim")
    /\ LET q == cron[c].request
           g == generations + 1 IN
       CASE ~Unclaimed(c) ->
              /\ Go(c, [NoCheck EXCEPT !.pc = "dispatch", !.request = q,
                          !.lost = IF cron[c].seen = "pending" THEN {"pending"}
                                   ELSE {"pending", "failed"}])
              /\ UNCHANGED <<request, generations>>
         [] Unclaimed(c) /\ Unfinished \subseteq {q} ->
              /\ g \in Generations /\ generations' = g
              /\ request' = [request EXCEPT ![q].status = "generating", ![q].generation = g,
                                            ![q].autos = @ + 1]
              /\ Go(c, [NoCheck EXCEPT !.pc = "create instance", !.request = q, !.generation = g])
         [] OTHER -> CheckFails(c) /\ UNCHANGED <<request, generations>>
    /\ UNCHANGED <<ahead, overlaps, present, kind, newest, checkpoint, published, instance, human, faults>>

Create(g, q) ==
    /\ instance[g].status = "none"
    /\ instance' = [instance EXCEPT ![g] = [NoInstance EXCEPT !.request = q, !.status = "running"]]

(* The create may fail, and its answer may be lost after it was done. *)
CreateInstance(c) ==
    /\ At(c, "create instance")
    /\ LET g == cron[c].generation IN
       \/ Create(g, cron[c].request) /\ Go(c, NoCheck) /\ UNCHANGED faults
       \/ Create(g, cron[c].request) /\ Step(c, "confirm") /\ Fault
       \/ instance[g].status = "none" /\ Step(c, "confirm") /\ Fault /\ UNCHANGED instance
       \/ instance[g].status # "none" /\ Step(c, "confirm") /\ UNCHANGED <<instance, faults>>
    /\ UNCHANGED <<ahead, overlaps, present, kind, newest, request, generations, checkpoint, published, human>>

Ended == {"none", "errored", "terminated"}

(* Mutant: an instance that ended counts as one that runs. *)
ConfirmAnyInstance(c) ==
    /\ At(c, "confirm")
    /\ \/ /\ instance[cron[c].generation].status # "none"
          /\ Go(c, NoCheck) /\ UNCHANGED faults
       \/ /\ instance[cron[c].generation].status = "none"
          /\ Step(c, "dispatch failed") /\ UNCHANGED faults
       \/ Step(c, "dispatch failed") /\ Fault
    /\ UNCHANGED <<ahead, overlaps, present, kind, newest, request, generations, checkpoint, published, instance, human>>

ConfirmInstance(c) ==
    /\ At(c, "confirm")
    /\ \/ /\ instance[cron[c].generation].status \notin Ended
          /\ Go(c, NoCheck) /\ UNCHANGED faults
       \/ /\ instance[cron[c].generation].status \in Ended
          /\ Step(c, "dispatch failed") /\ UNCHANGED faults
       \/ Step(c, "dispatch failed") /\ Fault
    /\ UNCHANGED <<ahead, overlaps, present, kind, newest, request, generations, checkpoint, published, instance, human>>

RecordDispatchFailure(c) ==
    /\ At(c, "dispatch failed")
    /\ LET q == cron[c].request IN
       IF request[q].status = "generating" /\ request[q].generation = cron[c].generation
       THEN SetStatus(q, "failed")
       ELSE UNCHANGED request
    /\ CheckFails(c)
    /\ UNCHANGED <<ahead, overlaps, present, kind, newest, generations, checkpoint, published, instance, human, faults>>

(* The invocation is stopped; what its statements wrote stays. *)
CronDies(c) ==
    /\ ~At(c, "idle")
    /\ Go(c, NoCheck) /\ Fault
    /\ UNCHANGED <<ahead, overlaps, present, kind, newest, request, generations, checkpoint, published, instance, human>>

NewRelease ==
    /\ newest < MaxRelease
    /\ newest' = newest + 1
    /\ UNCHANGED <<ahead, overlaps, present, kind, request, generations, checkpoint, published, instance, human, cron, faults>>

(* A package visited before this one is published again, and comes last. *)
NeighbourPublished ==
    /\ ahead > 0
    /\ ahead' = ahead - 1
    /\ UNCHANGED <<overlaps, present, kind, newest, request, generations, checkpoint, published, instance, human, cron, faults>>

CheckUpstream(c) ==
    \/ SelectTracked(c)
    \/ InspectSource(c)
    \/ ReadCheckpoint(c)
    \/ FindDuplicate(c)
    \/ FindActive(c)
    \/ AdvanceCheckpoint(c)
    \/ CreateRequest(c)

DispatchUpstreamFactory(c) ==
    \/ ReadRequest(c)
    \/ CountGenerations(c)
    \/ ClaimGeneration(c)
    \/ CreateInstance(c)
    \/ ConfirmInstance(c)
    \/ RecordDispatchFailure(c)

WatchStart ==
    /\ kind \in SourceKinds
    /\ generations = 0 /\ published = 0 /\ human = {}
    /\ request = [q \in Requests |-> NoRequest]
    /\ checkpoint = [q \in 0 .. MaxRequest |-> 0]
    /\ instance = [g \in Generations |-> NoInstance]
    /\ cron = [c \in Crons |-> NoCheck]

WatchInit == WatchStart /\ newest = 1 /\ overlaps = 0 /\ faults = 0 /\ ahead \in 0 .. Neighbours
=============================================================================
