------------------------------ MODULE Workflows ------------------------------
(***************************************************************************)
(* The durable workflows of the pipeline, a generation of a request and a  *)
(* publication.                                                            *)
(*                                                                         *)
(* A generation: the step that runs the factory and is retried             *)
(* (services/pipeline/src/workflow.ts, workflow-retry.ts), runFactory      *)
(* (src/lib/server/factory.ts), the pull request of its candidate          *)
(* (github-pr.ts) and the revision it persists (revision.ts).  The repair  *)
(* loop's attempts are those of FactoryRun, here only counted; the agent   *)
(* decides whether a candidate is any good.                                *)
(***************************************************************************)
EXTENDS UpstreamWatch

CONSTANTS MaxRetries, MaxAttempts

VARIABLES
    run,            \* status of the factory run of each generation, "none" before it
    attempts,       \* candidates tried in it
    pulls           \* branch of its candidate: none, created, committed, open

factoryVars == <<run, attempts, pulls>>

FactoryInit ==
    /\ run = [g \in Generations |-> "none"]
    /\ attempts = [g \in Generations |-> 0]
    /\ pulls = [g \in Generations |-> "none"]

Request(g) == request[instance[g].request]
Current(g) == Request(g).generation = g

Running(g, pc) == instance[g].status = "running" /\ instance[g].pc = pc
To(g, pc) == instance' = [instance EXCEPT ![g].pc = pc]
End(g, status) == instance' = [instance EXCEPT ![g].status = status]

(* The step is retried from its first statement, then the handler of a     *)
(* terminal failure runs.                                                   *)
Throw(g) ==
    instance' = [instance EXCEPT ![g].pc = IF @ # "stop" /\ instance[g].retries < MaxRetries
                                           THEN "begin" ELSE "stop",
                                 ![g].retries = IF @ < MaxRetries THEN @ + 1 ELSE @]

SameWatch == UNCHANGED <<kind, newest, generations, checkpoint, published, human, cron, ahead, overlaps,
                       present>>

-----------------------------------------------------------------------------
(* runFactory up to its repair loop *)

PriorRun(g) ==
    Latest({h \in Generations : run[h] # "none" /\ instance[h].request = instance[g].request})

(* needs-human-intervention is "stopped": only a maintainer's regeneration  *)
(* continues it, and only from a run that was stopped.                       *)
MayContinue(g) ==
    LET prior == PriorRun(g) IN
    CASE prior = 0 -> TRUE
      [] prior = g -> run[g] = "queued"
      [] OTHER -> run[prior] = "stopped" /\ g \in human

Begin(g) ==
    /\ Running(g, "begin")
    /\ CASE Current(g) /\ Request(g).status = "blocked" -> End(g, "complete") /\ UNCHANGED run
         [] Current(g) /\ Request(g).status = "generating" /\ MayContinue(g) ->
              /\ run' = [run EXCEPT ![g] = "queued"]
              /\ To(g, "prepare")
         [] OTHER ->
              (* an attempt that ran before the restart is ambiguous *)
              /\ run' = IF Current(g) /\ Request(g).status = "generating" /\ run[g] = "running"
                        THEN [run EXCEPT ![g] = "stopped"] ELSE run
              /\ Throw(g)
    /\ SameWatch /\ UNCHANGED <<request, faults, attempts, pulls>>

(* A candidate that cannot be prepared uses an attempt. *)
UseAttempt(g) ==
    /\ attempts' = [attempts EXCEPT ![g] = @ + 1]
    /\ IF attempts[g] + 1 < MaxAttempts
       THEN run' = [run EXCEPT ![g] = "queued"] /\ To(g, "prepare")
       ELSE run' = [run EXCEPT ![g] = "stopped"] /\ Throw(g)

Blocked(g) == Current(g) /\ Request(g).status = "blocked"

Prepare(g) ==
    /\ Running(g, "prepare") /\ run[g] = "queued" /\ ~Blocked(g)
    /\ run' = [run EXCEPT ![g] = "running"]
    /\ pulls' = [pulls EXCEPT ![g] = "none"]
    /\ To(g, "branch")
    /\ SameWatch /\ UNCHANGED <<request, faults, attempts>>

PrepareFails(g) ==
    /\ Running(g, "prepare") /\ run[g] = "queued"
    /\ UseAttempt(g)
    /\ IF Blocked(g) THEN UNCHANGED faults ELSE Fault
    /\ SameWatch /\ UNCHANGED <<request, pulls>>

(* Something else ended the run: its next statement throws. *)
RunLost(g) ==
    /\ \/ Running(g, "prepare") /\ run[g] # "queued"
       \/ Running(g, "wait") /\ run[g] # "running"
    /\ Throw(g)
    /\ SameWatch /\ UNCHANGED <<request, faults, run, attempts, pulls>>

-----------------------------------------------------------------------------
(* createFactoryPullRequest: each revision has a branch of its own *)

NextPull == [branch |-> "commit", commit |-> "pull", pull |-> "persist"]
PullAfter == [branch |-> "created", commit |-> "committed", pull |-> "open"]

PullStep(g, pc) ==
    /\ Running(g, pc)
    /\ \/ To(g, NextPull[pc]) /\ pulls' = [pulls EXCEPT ![g] = PullAfter[pc]] /\ UNCHANGED faults
       \/ Throw(g) /\ Fault /\ pulls' \in {pulls, [pulls EXCEPT ![g] = PullAfter[pc]]}
    /\ SameWatch /\ UNCHANGED <<request, run, attempts>>

CreateBranch(g) == PullStep(g, "branch")
CommitRecipeTree(g) == PullStep(g, "commit")
OpenPull(g) == PullStep(g, "pull")

-----------------------------------------------------------------------------
(* persistFactoryRevision *)

ReadForRevision(g) ==
    /\ Running(g, "persist")
    /\ CASE ~Current(g) -> Throw(g)
         [] Request(g).status = "generating" -> To(g, "review")
         [] Request(g).status = "review" -> To(g, "append")
         [] OTHER -> Throw(g)
    /\ SameWatch /\ UNCHANGED <<request, faults, run, attempts, pulls>>

(* A moving archive holds what is newest when the sources are fetched. *)
Packaged(g) ==
    [release |-> IF kind = "moving" THEN newest ELSE Request(g).release, generation |-> g]

SetRevision(g, status) ==
    request' = [request EXCEPT ![instance[g].request].status = status,
                               ![instance[g].request].revision = Packaged(g)]

(* Mutant: the UPDATE asks only for a request that is generating. *)
EnterReviewOfAny(g) ==
    /\ Running(g, "review")
    /\ IF Request(g).status = "generating"
       THEN SetRevision(g, "review") /\ To(g, "wait")
       ELSE Throw(g) /\ UNCHANGED request
    /\ SameWatch /\ UNCHANGED <<faults, run, attempts, pulls>>

(* The batch asserts that its UPDATE moved the request of this generation. *)
EnterReview(g) ==
    /\ Running(g, "review")
    /\ IF Current(g) /\ Request(g).status = "generating"
       THEN SetRevision(g, "review") /\ To(g, "wait")
       ELSE Throw(g) /\ UNCHANGED request
    /\ SameWatch /\ UNCHANGED <<faults, run, attempts, pulls>>

(* A repair of a request in review is inserted without looking again. *)
AppendRevision(g) ==
    /\ Running(g, "append")
    /\ SetRevision(g, Request(g).status) /\ To(g, "wait")
    /\ SameWatch /\ UNCHANGED <<faults, run, attempts, pulls>>

(* The private builds of the candidate end. *)
BuildsSucceed(g) ==
    /\ Running(g, "wait") /\ run[g] = "running"
    /\ run' = [run EXCEPT ![g] = "succeeded"]
    /\ End(g, "complete")
    /\ SameWatch /\ UNCHANGED <<request, faults, attempts, pulls>>

BuildsFail(g) ==
    /\ Running(g, "wait") /\ run[g] = "running"
    /\ UseAttempt(g) /\ Fault
    /\ SameWatch /\ UNCHANGED <<request, pulls>>

-----------------------------------------------------------------------------
(* The handler of a terminal failure, and the platform *)

StopRun(g) ==
    /\ Running(g, "stop")
    /\ run' = [run EXCEPT ![g] = IF @ \in {"queued", "running"} THEN "stopped" ELSE @]
    /\ To(g, "fail")
    /\ SameWatch /\ UNCHANGED <<request, faults, attempts, pulls>>

FailRequest(g) ==
    /\ Running(g, "fail")
    /\ IF Current(g) /\ Request(g).status = "generating"
       THEN SetStatus(instance[g].request, "failed")
       ELSE UNCHANGED request
    /\ End(g, "errored")
    /\ SameWatch /\ UNCHANGED <<faults, run, attempts, pulls>>

(* The instance is terminated between two steps; no handler runs. *)
Terminate(g) ==
    /\ instance[g].status = "running"
    /\ End(g, "terminated") /\ Fault
    /\ SameWatch /\ UNCHANGED <<request, run, attempts, pulls>>

RunFactory(g) ==
    \/ Begin(g)
    \/ Prepare(g)
    \/ PrepareFails(g)
    \/ RunLost(g)
    \/ CreateBranch(g)
    \/ CommitRecipeTree(g)
    \/ OpenPull(g)
    \/ ReadForRevision(g)
    \/ EnterReview(g)
    \/ AppendRevision(g)
    \/ BuildsSucceed(g)
    \/ BuildsFail(g)
    \/ StopRun(g)
    \/ FailRequest(g)

-----------------------------------------------------------------------------
(***************************************************************************)
(* Publication jobs (services/pipeline/publication.ts and                  *)
(* publication-dispatch.ts): a finished build is enqueued by the call that *)
(* processed its result and again by every cron run until its workflow     *)
(* was created; the workflow releases the build and completes the job.     *)
(***************************************************************************)
CONSTANT Callers        \* calls of enqueuePublication in progress

VARIABLES
    job,            \* publication_jobs.status by request, "none" before its row
    flow,           \* PUBLICATION instance publish-<build>
    released,       \* requests whose build has a release
    call            \* state of each caller

publicationVars == <<job, flow, released, call>>

NoCall == [pc |-> "idle", request |-> 0]

PublicationInit ==
    /\ job = [q \in Requests |-> "none"]
    /\ flow = [q \in Requests |-> "none"]
    /\ released = {}
    /\ call = [e \in Callers |-> NoCall]

Reach(e, pc) == call' = [call EXCEPT ![e].pc = pc]
Return(e) == call' = [call EXCEPT ![e] = NoCall]
Calling(e, pc) == call[e].pc = pc
Job(e) == job[call[e].request]
Flow(e) == flow[call[e].request]

SamePipeline == UNCHANGED <<kind, newest, generations, checkpoint, instance, human, cron,
                          overlaps, present, factoryVars>>

(* mark: a completed job stays completed *)
Mark(q, status) == job' = [job EXCEPT ![q] = IF @ = "completed" THEN @ ELSE status]

Enqueue(e, q) ==
    /\ Calling(e, "idle") /\ e \in present
    /\ \/ job[q] \in {"queued", "failed"}
       \/ job[q] = "none" /\ request[q].status = "building"
    /\ job' = [job EXCEPT ![q] = IF @ = "none" THEN "queued" ELSE @]
    /\ call' = [call EXCEPT ![e] = [pc |-> "read", request |-> q]]
    /\ SamePipeline /\ UNCHANGED <<request, published, ahead, flow, released, faults>>

ReadJob(e) ==
    /\ Calling(e, "read")
    /\ IF Job(e) \in {"dispatched", "completed"} THEN Return(e) ELSE Reach(e, "create")
    /\ SamePipeline /\ UNCHANGED <<request, published, ahead, job, flow, released, faults>>

CreateFlow(e) ==
    /\ Calling(e, "create")
    /\ IF Flow(e) = "none"
       THEN \/ flow' = [flow EXCEPT ![call[e].request] = "running"]
               /\ \/ Reach(e, "mark") /\ UNCHANGED faults
                  \/ Reach(e, "inspect") /\ Fault
            \/ Reach(e, "failed") /\ Fault /\ UNCHANGED flow
       ELSE Reach(e, "inspect") /\ UNCHANGED <<flow, faults>>
    /\ SamePipeline /\ UNCHANGED <<request, published, ahead, job, released>>

InspectFlow(e) ==
    /\ Calling(e, "inspect")
    /\ CASE Flow(e) = "errored" ->
              flow' = [flow EXCEPT ![call[e].request] = "running"] /\ Reach(e, "mark")
         [] Flow(e) = "complete" -> Reach(e, "completed") /\ UNCHANGED flow
         [] OTHER -> Reach(e, "mark") /\ UNCHANGED flow
    /\ SamePipeline /\ UNCHANGED <<request, published, ahead, job, released, faults>>

MarkCall(e) ==
    /\ \/ Calling(e, "mark") /\ Mark(call[e].request, "dispatched")
       \/ Calling(e, "failed") /\ Mark(call[e].request, "failed")
       \/ /\ Calling(e, "completed")
          /\ Mark(call[e].request, IF call[e].request \in released THEN "completed" ELSE "failed")
    /\ Return(e)
    /\ SamePipeline /\ UNCHANGED <<request, published, ahead, flow, released, faults>>

CallDies(e) ==
    /\ ~Calling(e, "idle")
    /\ Return(e) /\ Fault
    /\ SamePipeline /\ UNCHANGED <<request, published, ahead, job, flow, released>>

-----------------------------------------------------------------------------
(* PublicationWorkflow: publishBuild, then the job *)

(* A request that was frozen or rejected meanwhile is not publishable. *)
Publishable(q) == request[q].status \in {"queued", "building", "built"}

(* publishBuild returns the release it finds when the step is retried. *)
PublishBuild(q) ==
    /\ flow[q] = "running" /\ (q \in released \/ Publishable(q))
    /\ released' = released \cup {q}
    /\ IF q \in released THEN UNCHANGED <<published, ahead, request>>
       ELSE published' = q /\ ahead' = Neighbours /\ SetStatus(q, "built")
    /\ flow' = [flow EXCEPT ![q] = "released"]
    /\ SamePipeline /\ UNCHANGED <<job, call, faults>>

CompleteJob(q) ==
    /\ flow[q] = "released"
    /\ Mark(q, "completed")
    /\ flow' = [flow EXCEPT ![q] = "complete"]
    /\ SamePipeline /\ UNCHANGED <<request, published, ahead, released, call, faults>>

(* The step failed after its retries, before or after the release. *)
PublishFails(q) ==
    /\ flow[q] \in {"running", "released"}
    /\ flow' = [flow EXCEPT ![q] = "failing"]
    /\ IF flow[q] = "running" /\ ~Publishable(q) THEN UNCHANGED faults ELSE Fault
    /\ SamePipeline /\ UNCHANGED <<request, published, ahead, job, released, call>>

FailJob(q) ==
    /\ flow[q] = "failing"
    /\ Mark(q, "failed")
    /\ flow' = [flow EXCEPT ![q] = "errored"]
    /\ SamePipeline /\ UNCHANGED <<request, published, ahead, released, call, faults>>

RunPublication ==
    \/ \E q \in Requests : PublishBuild(q) \/ CompleteJob(q) \/ PublishFails(q) \/ FailJob(q)
    \/ \E e \in Callers :
         \/ \E q \in Requests : Enqueue(e, q)
         \/ ReadJob(e)
         \/ CreateFlow(e)
         \/ InspectFlow(e)
         \/ MarkCall(e)
         \/ CallDies(e)
=============================================================================
