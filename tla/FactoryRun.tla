----------------------------- MODULE FactoryRun -----------------------------
(* One private factory run: its budget of attempts (factory-runs.ts), the    *)
(* private builds of each attempt (factory-private-build.ts), the maintainer *)
(* who starts or stops it (factory-entrypoints.ts, the factory run page),    *)
(* the durable workflow that drives the repair loop (workflow.ts) and the    *)
(* polls of workers that reconcile expired builds (claimJob).                *)
(*                                                                           *)
(* An attempt's lease token is drawn when the attempt is reserved and is     *)
(* never renewed into another: the attempt's number stands for it.  Time is  *)
(* abstracted to whether a lease is past its expiry; nothing renews the      *)
(* lease of a unit's attempt, so once lapsed it stays so.  What a handler    *)
(* read before an await is kept in its process record.                       *)
EXTENDS Integers

CONSTANTS
    Targets,        \* architectures of the candidate
    Starters,       \* invocations of startFactoryUnit
    Workflows,      \* executions of the workflow of the run
    Pollers,        \* claim polls of workers
    MaxAttempts,    \* FACTORY_MAX_ATTEMPTS
    MaxIncidents    \* bound: crashes, revocations and human stops

ASSUME BudgetAssumption == MaxAttempts \in Nat \ {0} /\ MaxIncidents \in Nat

VARIABLES
    run,        \* row of factory_runs, and whether the requested revision
                \* had builds of its own
    attempts,   \* attempts[k]: status of row k of factory_run_attempts
    bound,      \* bound[k]: the candidate attempt k was reserved for
    builds,     \* builds[k][t]: status of the private build of attempt k for t
    completing, \* completions of private builds past their lease check
    dispatched, \* the workflow of the run has been created
    procs,      \* starters and workflow executions
    polls,      \* polls[q]: a poll has read the run as to be stopped
    incidents

vars == <<run, attempts, bound, builds, completing, dispatched, procs, polls,
          incidents>>

-----------------------------------------------------------------------------
Attempt == 1..MaxAttempts
Procs == Starters \cup Workflows
AttemptStatus == {"none", "running", "succeeded", "failed"}
RunStatus == {"queued", "running", "succeeded", "needs-human-intervention"}
Live == {"queued", "leased", "expired"}
BuildStatus == Live \cup {"none", "succeeded", "failed", "cancelled"}
Stages == {"off", "entry", "prepare", "reserve", "reserving", "queue",
           "dispatch", "wait", "finish", "record", "stop", "done"}
Outcomes == {"none", "ok", "build", "validation"}
Candidates == {"none", "request", "repair", "failure"}
RunRecords == [status : RunStatus, count : 0..MaxAttempts,
               current : 0..MaxAttempts, token : 0..MaxAttempts,
               live : BOOLEAN, good : 0..MaxAttempts, built : BOOLEAN]
ProcRecords == [at : Stages, attempt : 0..MaxAttempts, seen : 0..MaxAttempts,
                outcome : Outcomes]

Off == [at |-> "off", attempt |-> 0, seen |-> 0, outcome |-> "none"]
Over(p) == IF p \in Starters THEN Off ELSE [Off EXCEPT !.at = "done"]

Become(p, record) == procs' = [procs EXCEPT ![p] = record]
Goto(p, stage) == Become(p, [procs[p] EXCEPT !.at = stage])
At(p, stage) == procs[p].at = stage

Terminal == run.status \in {"succeeded", "needs-human-intervention"}
AllAre(k, status) == \A t \in Targets : builds[k][t] = status
SomeIn(k, statuses) == \E t \in Targets : builds[k][t] \in statuses

(* The lease of attempt k is the run's, and it has not expired. *)
Leased(k) ==
    run.status = "running" /\ run.current = k /\ run.token = k /\ run.live

Init ==
    /\ \E built \in BOOLEAN :
         run = [status |-> "queued", count |-> 0, current |-> 0, token |-> 0,
                live |-> FALSE, good |-> 0, built |-> built]
    /\ attempts = [k \in Attempt |-> "none"]
    /\ bound = [k \in Attempt |-> "none"]
    /\ builds = [k \in Attempt |-> [t \in Targets |-> "none"]]
    /\ completing = {}
    /\ dispatched = FALSE
    /\ procs = [p \in Procs |-> Off]
    /\ polls = [q \in Pollers |-> FALSE]
    /\ incidents = 0

-----------------------------------------------------------------------------
(* stopFactoryRun: one batch on whatever attempt is current when it runs.    *)

(* Faulty variant of CancelBuilds: a build a worker runs is left to it. *)
CancelQueuedBuilds(k) ==
    [builds EXCEPT ![k] = [t \in Targets |->
        IF builds[k][t] = "queued" THEN "cancelled" ELSE builds[k][t]]]

CancelBuilds(k) ==
    [builds EXCEPT ![k] = [t \in Targets |->
        IF builds[k][t] \in Live THEN "cancelled" ELSE builds[k][t]]]

StopRun ==
    IF Terminal
    THEN UNCHANGED <<run, attempts, builds>>
    ELSE /\ run' = [run EXCEPT !.status = "needs-human-intervention",
                               !.token = 0, !.live = FALSE]
         /\ IF run.current = 0
            THEN UNCHANGED <<attempts, builds>>
            ELSE /\ attempts' = [attempts EXCEPT ![run.current] =
                                   IF @ = "running" THEN "failed" ELSE @]
                 /\ builds' = CancelBuilds(run.current)

-----------------------------------------------------------------------------
(* startFactoryUnit *)

(* The maintainer's request joins the active run.  A revision built before   *)
(* is dispatched without builds: the workflow prepares a candidate.          *)
StartUnit(p) ==
    /\ At(p, "off")
    /\ p \in Starters
    /\ \/ ~Terminal /\ Goto(p, "stop")      \* it brings another policy
       \/ /\ run.status = "queued" /\ run.count = 0 /\ run.built
          /\ Goto(p, "dispatch")
       \/ /\ run.status = "queued"
          /\ run.count < MaxAttempts
          /\ run.count = 0 => ~run.built
          /\ Become(p, [Off EXCEPT !.at = "reserve",
                                   !.attempt = run.count + 1])
       \/ /\ run.status = "running"
          /\ attempts[run.current] = "running"
          /\ Become(p, [Off EXCEPT !.at = "queue", !.attempt = run.current])
    /\ UNCHANGED <<run, attempts, bound, builds, completing, dispatched, polls,
                   incidents>>

(* The workflow id is the run's: creating it again changes nothing. *)
DispatchUnit(p) ==
    /\ At(p, "dispatch")
    /\ dispatched' = TRUE
    /\ Become(p, Off)
    /\ UNCHANGED <<run, attempts, bound, builds, completing, polls, incidents>>

-----------------------------------------------------------------------------
(* reserveFactoryAttempt *)

(* What p asks an attempt for: the reviewed revision, the successor prepared *)
(* in its attempt, or the message of a failed preparation.                   *)
Candidate(p) ==
    IF p \in Starters THEN "request"
    ELSE IF procs[p].outcome = "validation" THEN "failure" ELSE "repair"

(* Where a caller goes on that got the row of attempt k back: only a failed  *)
(* preparation is recorded on any unfinished row.                            *)
Obtained(p, status) ==
    IF procs[p].outcome = "validation" /\ status # "succeeded"
    THEN Goto(p, "finish")
    ELSE IF status = "running" THEN Goto(p, "queue")
    ELSE Become(p, Over(p))

(* A row under the reservation key must be for the same candidate; two       *)
(* messages of failed preparations may differ.                               *)
ReserveRead(p) ==
    /\ At(p, "reserve")
    /\ LET k == procs[p].attempt IN
       \/ /\ attempts[k] # "none" /\ bound[k] = Candidate(p)
          /\ Obtained(p, attempts[k])
       \/ /\ attempts[k] # "none"
          /\ bound[k] # Candidate(p) \/ Candidate(p) = "failure"
          /\ Become(p, Over(p))
       \/ /\ attempts[k] = "none" /\ Terminal
          /\ Become(p, Over(p))
       \/ /\ attempts[k] = "none" /\ run.status = "running"
          /\ IF run.live THEN Become(p, Over(p)) ELSE Goto(p, "stop")
       \/ /\ attempts[k] = "none" /\ run.status = "queued"
          /\ Become(p, [procs[p] EXCEPT !.at = "reserving",
                                        !.seen = run.count])
    /\ UNCHANGED <<run, attempts, bound, builds, completing, dispatched, polls,
                   incidents>>

Reservable(p) == run.status = "queued" /\ run.count = procs[p].seen

ReserveWrite(p) ==
    /\ At(p, "reserving")
    /\ Reservable(p)
    /\ LET k == procs[p].seen + 1 IN
       /\ run' = [run EXCEPT !.status = "running", !.count = k, !.current = k,
                             !.token = k, !.live = TRUE]
       /\ attempts' = [attempts EXCEPT ![k] = "running"]
       /\ bound' = [bound EXCEPT ![k] = Candidate(p)]
    /\ Obtained(p, "running")
    /\ UNCHANGED <<builds, completing, dispatched, polls, incidents>>

(* The compare-and-set failed: the row of the raced reservation is returned  *)
(* without a look at its candidate; if there is none, the run is busy.       *)
ReserveRaced(p) ==
    /\ At(p, "reserving")
    /\ ~Reservable(p)
    /\ LET k == procs[p].attempt IN
       IF attempts[k] = "none" THEN Become(p, Over(p))
       ELSE Obtained(p, attempts[k])
    /\ UNCHANGED <<run, attempts, bound, builds, completing, dispatched, polls,
                   incidents>>

-----------------------------------------------------------------------------
(* queuePrivateFactoryBuilds *)

(* The revision p builds is the attempt's candidate: a starter builds the    *)
(* requested one, the workflow the one the attempt names, if any.            *)
Buildable(p, k) ==
    IF p \in Starters THEN bound[k] = "request" ELSE bound[k] # "failure"

(* A revision has at most one build per architecture: the insert for the     *)
(* requested revision conflicts with the builds it has.                      *)
Unbuilt(k) ==
    bound[k] = "request" =>
        /\ ~run.built
        /\ \A j \in Attempt : bound[j] = "request" => AllAre(j, "none")

QueueBuilds(p) ==
    /\ At(p, "queue")
    /\ LET k == procs[p].attempt
           mine == Leased(k) /\ attempts[k] = "running" /\ Buildable(p, k)
           insert == mine /\ AllAre(k, "none") /\ Unbuilt(k)
       IN
       /\ builds' = IF insert
                    THEN [builds EXCEPT ![k] = [t \in Targets |-> "queued"]]
                    ELSE builds
       /\ IF insert \/ (mine /\ ~AllAre(k, "none"))
          THEN Goto(p, IF p \in Starters THEN "dispatch" ELSE "wait")
          ELSE Become(p, Over(p))
    /\ UNCHANGED <<run, attempts, bound, completing, dispatched, polls, incidents>>

-----------------------------------------------------------------------------
(* runFactoryRepairLoop, as the workflow of the unit runs it *)

(* runFactoryUnit reads which attempt was running when it was (re)started;   *)
(* 0 stands for none.                                                        *)
WorkflowStart(p) ==
    /\ p \in Workflows
    /\ dispatched
    /\ At(p, "off")
    /\ Become(p, [Off EXCEPT !.at = "entry",
                   !.seen = IF run.status = "running" THEN run.current ELSE 0])
    /\ UNCHANGED <<run, attempts, bound, builds, completing, dispatched, polls,
                   incidents>>

(* The loop reads the run again. *)
LoopEntry(p) ==
    /\ At(p, "entry")
    /\ \/ Terminal /\ Become(p, Over(p))
       \/ /\ run.status = "running"
          /\ IF attempts[run.current] = "running"
                   /\ procs[p].seen = run.current
             THEN Become(p, [Off EXCEPT !.at = "queue",
                                        !.attempt = run.current])
             ELSE Goto(p, "stop")
       \/ /\ run.status = "queued"
          /\ Become(p, [Off EXCEPT !.at = "prepare",
                                   !.attempt = run.count + 1])
    /\ UNCHANGED <<run, attempts, bound, builds, completing, dispatched, polls,
                   incidents>>

(* prepare yields a candidate, fails, or oversteps the policy. *)
Prepare(p) ==
    /\ At(p, "prepare")
    /\ \/ Goto(p, "reserve")
       \/ Become(p, [procs[p] EXCEPT !.at = "reserve",
                                     !.outcome = "validation"])
       \/ Goto(p, "stop")
    /\ UNCHANGED <<run, attempts, bound, builds, completing, dispatched, polls,
                   incidents>>

(* Faulty variant of ExecuteSettles: one target's success is enough. *)
ExecuteSettlesEarly(p) ==
    /\ At(p, "wait")
    /\ LET k == procs[p].attempt IN
       \/ /\ SomeIn(k, {"failed", "cancelled"})
          /\ Become(p, [procs[p] EXCEPT !.at = "finish",
                                        !.outcome = "build"])
       \/ /\ SomeIn(k, {"succeeded"})
          /\ Become(p, [procs[p] EXCEPT !.at = "finish", !.outcome = "ok"])
    /\ UNCHANGED <<run, attempts, bound, builds, completing, dispatched, polls,
                   incidents>>

(* The status poll shows the attempt's builds settled; what builds that all   *)
(* succeeded have kept may differ from the outputs their contract declares.  *)
ExecuteSettles(p) ==
    /\ At(p, "wait")
    /\ LET k == procs[p].attempt IN
       \/ /\ SomeIn(k, {"failed", "cancelled"}) \/ AllAre(k, "succeeded")
          /\ Become(p, [procs[p] EXCEPT !.at = "finish",
                                        !.outcome = "build"])
       \/ /\ AllAre(k, "succeeded")
          /\ Become(p, [procs[p] EXCEPT !.at = "finish", !.outcome = "ok"])
    /\ UNCHANGED <<run, attempts, bound, builds, completing, dispatched, polls,
                   incidents>>

(* 300 waits of 30 seconds outlast the lease of 30 minutes; the throw leaves *)
(* the run as it is.                                                         *)
ExecuteTimesOut(p) ==
    /\ At(p, "wait")
    /\ LET k == procs[p].attempt IN
       /\ ~SomeIn(k, {"failed", "cancelled"}) /\ ~AllAre(k, "succeeded")
       /\ ~Leased(k)
    /\ Become(p, Over(p))
    /\ UNCHANGED <<run, attempts, bound, builds, completing, dispatched, polls,
                   incidents>>

(* finishFactoryAttempt *)
FailedWith(outcome) == outcome \in {"build", "validation"}
Result(outcome) == IF outcome = "ok" THEN "succeeded" ELSE "failed"
LastChance(k) == k = MaxAttempts

(* Faulty variant of After: a failed attempt is not followed by another. *)
AfterAnyAttempt(p) == Over(p)

(* The loop after a finished attempt. *)
After(p) ==
    LET k == procs[p].attempt
        o == procs[p].outcome IN
    IF o = "ok" \/ LastChance(k)
    THEN Over(p)
    ELSE [Off EXCEPT !.at = "prepare", !.attempt = k + 1]

FinishRead(p) ==
    /\ At(p, "finish")
    /\ LET k == procs[p].attempt IN
       \/ /\ attempts[k] = "running" /\ Leased(k)
          /\ Goto(p, "record")
       \/ /\ attempts[k] = "running" /\ ~Leased(k)
          /\ Become(p, Over(p))
       \/ /\ attempts[k] # "running"
          /\ Become(p, IF attempts[k] = Result(procs[p].outcome)
                       THEN After(p) ELSE Over(p))
    /\ UNCHANGED <<run, attempts, bound, builds, completing, dispatched, polls,
                   incidents>>

(* Faulty variant of Unfenced: the attempt's number is taken for its lease. *)
UnfencedByNumber(k) == run.current = k

(* The guards of the two updates: the expiry they compare is not read again. *)
Unfenced(k) ==
    /\ attempts[k] = "running"
    /\ run.status = "running"
    /\ run.current = k
    /\ run.token = k

(* The batch: the cancellation is not guarded, the two updates are. *)
FinishWrite(p) ==
    /\ At(p, "record")
    /\ LET k == procs[p].attempt
           o == procs[p].outcome
       IN /\ builds' = IF FailedWith(o) THEN CancelBuilds(k) ELSE builds
          /\ IF Unfenced(k)
             THEN /\ attempts' = [attempts EXCEPT ![k] = Result(o)]
                  /\ run' = [run EXCEPT
                       !.status = IF o = "ok" THEN "succeeded"
                                  ELSE IF LastChance(k)
                                       THEN "needs-human-intervention"
                                       ELSE "queued",
                       !.good = IF o = "ok" THEN k ELSE 0,
                       !.token = 0, !.live = FALSE]
                  /\ Become(p, After(p))
             ELSE UNCHANGED <<attempts, run>> /\ Become(p, Over(p))
    /\ UNCHANGED <<bound, completing, dispatched, polls, incidents>>

(* The stop decided by an earlier read. *)
ProcStops(p) ==
    /\ At(p, "stop")
    /\ StopRun
    /\ Become(p, Over(p))
    /\ UNCHANGED <<bound, completing, dispatched, polls, incidents>>

-----------------------------------------------------------------------------
(* reconcileExpiredFactoryBuilds, at the start of every claim *)

ReconcileRead(q) ==
    /\ ~polls[q]
    /\ \E k \in Attempt : SomeIn(k, {"expired"})
    /\ polls' = [polls EXCEPT ![q] = TRUE]
    /\ UNCHANGED <<run, attempts, bound, builds, completing, dispatched, procs,
                   incidents>>

ReconcileStop(q) ==
    /\ polls[q]
    /\ StopRun
    /\ polls' = [polls EXCEPT ![q] = FALSE]
    /\ UNCHANGED <<bound, completing, dispatched, procs, incidents>>

-----------------------------------------------------------------------------
(* Workers on private builds: claimJob, completeJob and revokeWorker, whose  *)
(* steps are split further in BuildLease.                                    *)

(* The factory clause of getBuildForWorker and of the claim. *)
PrivateVisible(k) == Leased(k) /\ attempts[k] = "running"

SetBuild(k, t, status) == builds' = [builds EXCEPT ![k][t] = status]

ClaimPrivate(k, t) ==
    /\ builds[k][t] = "queued"
    /\ PrivateVisible(k)
    /\ SetBuild(k, t, "leased")
    /\ UNCHANGED <<run, attempts, bound, completing, dispatched, procs, polls,
                   incidents>>

CompletePrivateRead(k, t) ==
    /\ builds[k][t] = "leased"
    /\ PrivateVisible(k)
    /\ completing' = completing \cup {<<k, t>>}
    /\ UNCHANGED <<run, attempts, bound, builds, dispatched, procs, polls, incidents>>

(* The UPDATE checks the worker's lease, not the factory's. *)
CompletePrivateWrite(k, t) ==
    /\ <<k, t>> \in completing
    /\ \/ builds[k][t] = "leased"
          /\ \E s \in {"succeeded", "failed"} : SetBuild(k, t, s)
       \/ builds[k][t] # "leased" /\ UNCHANGED builds
    /\ completing' = completing \ {<<k, t>>}
    /\ UNCHANGED <<run, attempts, bound, dispatched, procs, polls, incidents>>

(* The worker stopped renewing its lease. *)
WorkerLeaseLapses(k, t) ==
    /\ builds[k][t] = "leased"
    /\ SetBuild(k, t, "expired")
    /\ UNCHANGED <<run, attempts, bound, completing, dispatched, procs, polls,
                   incidents>>

RunLeaseLapses ==
    /\ run.live
    /\ run' = [run EXCEPT !.live = FALSE]
    /\ UNCHANGED <<attempts, bound, builds, completing, dispatched, procs, polls,
                   incidents>>

Incident == incidents < MaxIncidents /\ incidents' = incidents + 1

(* revokeWorker requeues private builds too; a completion in flight under    *)
(* the old token will match no row.                                          *)
WorkerRevoked(k, t) ==
    /\ Incident
    /\ builds[k][t] \in {"leased", "expired"}
    /\ SetBuild(k, t, "queued")
    /\ completing' = completing \ {<<k, t>>}
    /\ UNCHANGED <<run, attempts, bound, dispatched, procs, polls>>

HumanStop ==
    /\ Incident
    /\ ~Terminal
    /\ StopRun
    /\ UNCHANGED <<bound, completing, dispatched, procs, polls>>

(* The engine restarts a workflow from its first line; a request is lost. *)
CrashProc(p) ==
    /\ Incident
    /\ procs[p].at \notin {"off", "done"}
    /\ Become(p, Off)
    /\ UNCHANGED <<run, attempts, bound, builds, completing, dispatched, polls>>

CrashPoll(q) ==
    /\ Incident
    /\ polls[q]
    /\ polls' = [polls EXCEPT ![q] = FALSE]
    /\ UNCHANGED <<run, attempts, bound, builds, completing, dispatched, procs>>

-----------------------------------------------------------------------------
Drive(p) ==
    \/ DispatchUnit(p)
    \/ ReserveRead(p) \/ ReserveWrite(p) \/ ReserveRaced(p)
    \/ QueueBuilds(p)
    \/ WorkflowStart(p) \/ LoopEntry(p) \/ Prepare(p)
    \/ ExecuteSettles(p) \/ ExecuteTimesOut(p)
    \/ FinishRead(p) \/ FinishWrite(p)
    \/ ProcStops(p)

Reconcile(q) == ReconcileRead(q) \/ ReconcileStop(q)

(* A daemon works on the build it leased, or dies and its lease lapses. *)
Work(k, t) ==
    \/ CompletePrivateRead(k, t) \/ CompletePrivateWrite(k, t)
    \/ WorkerLeaseLapses(k, t)

Next ==
    \/ \E p \in Procs : StartUnit(p) \/ Drive(p) \/ CrashProc(p)
    \/ \E q \in Pollers : Reconcile(q) \/ CrashPoll(q)
    \/ \E k \in Attempt, t \in Targets :
         ClaimPrivate(k, t) \/ Work(k, t) \/ WorkerRevoked(k, t)
    \/ RunLeaseLapses
    \/ HumanStop

Spec == Init /\ [][Next]_vars

(* Daemons poll every few seconds and work on what they lease; the workflow  *)
(* engine runs a created workflow to its end; a lease no one renews lapses.  *)
(* Maintainers owe nothing.                                                  *)
Fairness ==
    /\ WF_vars(RunLeaseLapses)
    /\ \A p \in Procs : WF_vars(Drive(p))
    /\ \A q \in Pollers : WF_vars(Reconcile(q))
    /\ \A k \in Attempt, t \in Targets :
         WF_vars(ClaimPrivate(k, t)) /\ WF_vars(CompletePrivateWrite(k, t))
           /\ WF_vars(CompletePrivateRead(k, t) \/ WorkerLeaseLapses(k, t))

FairSpec == Spec /\ Fairness

-----------------------------------------------------------------------------
(* Rows and process records stay in their types. *)
TypeOK ==
    /\ run \in RunRecords
    /\ attempts \in [Attempt -> AttemptStatus]
    /\ bound \in [Attempt -> Candidates]
    /\ builds \in [Attempt -> [Targets -> BuildStatus]]
    /\ completing \subseteq Attempt \X Targets
    /\ dispatched \in BOOLEAN
    /\ procs \in [Procs -> ProcRecords]
    /\ polls \in [Pollers -> BOOLEAN]
    /\ incidents \in 0..MaxIncidents

(* The run and its attempts agree, through redelivered reservations, stale   *)
(* stops and restarts: attempts 1..count were reserved and no other, only    *)
(* the current attempt of a running run is running, and it holds the token.  *)
RunMatchesAttempts ==
    /\ \A k \in Attempt : attempts[k] = "none" <=> k > run.count
    /\ \A k \in Attempt :
         attempts[k] = "running" <=> run.status = "running" /\ run.current = k
    /\ run.current = run.count
    /\ run.status = "running" => run.token = run.current
    /\ run.status # "running" => run.token = 0

(* No private build is left for a worker to run, or to bring back after a    *)
(* revocation, once its attempt is over: the insert, the cancellations and   *)
(* the requeue of revokeWorker race with each other.                         *)
NoOrphanBuilds ==
    \A k \in Attempt : SomeIn(k, Live) => attempts[k] = "running"

(* A successful run names a successful attempt, all of whose builds          *)
(* succeeded: reuse promotes exactly those artifacts.                        *)
SuccessIsBuilt ==
    /\ run.status = "succeeded" <=> run.good # 0
    /\ run.good # 0 => attempts[run.good] = "succeeded"
    /\ \A k \in Attempt :
         attempts[k] = "succeeded" => run.good = k /\ AllAre(k, "succeeded")

(* factory-runs.ts:504: a failed last attempt "always stops for a human",     *)
(* also when its finish races with a stop or a restarted workflow.           *)
ExhaustedStops ==
    attempts[MaxAttempts] = "failed" => run.status = "needs-human-intervention"

(* The run is one: all of the above, whichever of its processes race.         *)
RunIsSound == TypeOK /\ RunMatchesAttempts /\ SuccessIsBuilt /\ ExhaustedStops

(* What a maintainer was shown as final stays: a late finish, a stale stop   *)
(* or a redelivered reservation changes neither a finished run nor one of    *)
(* its finished attempts.                                                    *)
FinalStays ==
    [][/\ Terminal => run' = run
       /\ \A k \in Attempt : attempts[k] \in {"succeeded", "failed"} =>
            attempts'[k] = attempts[k]]_vars

(* A private build whose worker went away does not stay leased forever: some *)
(* worker's poll stops the run.                                              *)
ExpiredBuildsReconciled ==
    (\E k \in Attempt : SomeIn(k, {"expired"}))
        ~> ~(\E k \in Attempt : SomeIn(k, {"expired"}))

(* A dispatched run settles, however prepare and the builds turn out, unless *)
(* its attempt's lease lapses first.                                         *)
DispatchedRunSettles ==
    dispatched ~> Terminal \/ (run.status = "running" /\ ~run.live)

(* Both: workers and the engine bring a run to its end.                       *)
RunSettles == ExpiredBuildsReconciled /\ DispatchedRunSettles
=============================================================================
