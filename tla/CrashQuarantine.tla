--------------------------- MODULE CrashQuarantine --------------------------
(* The release channels composed with the jobs of the crash policy           *)
(* (crashes.ts): reviewing a crash report may enqueue a quarantine job, and  *)
(* the cron trigger leases due jobs, counts the reports and quarantines.     *)
(*                                                                           *)
(* A lease is identified by its expiry, which two leases of a job never      *)
(* share: the invocation that holds it stands for it.  Time is abstracted: a *)
(* deferred job becomes due and a lease lapses at any time, with             *)
(* LeaseOutlasts only when its holder was dropped.                           *)
EXTENDS ReleaseChannels

CONSTANTS
    Cron,           \* invocations of the cron trigger, among the handlers
    MaxAttempts,    \* MAX_ATTEMPTS
    MaxIncidents    \* bound: invocations dropped, or outlasting their lease

ASSUME CronAssumption ==
    Cron \subseteq Handlers /\ NoRelease \notin Cron /\ MaxAttempts \in Nat \ {0}

VARIABLES
    jobs,       \* rows of crash_quarantines
    runs,       \* what an invocation of the cron trigger is at
    incidents
jobVars == <<vars, jobs, runs, incidents>>

-----------------------------------------------------------------------------
NoHolder == NoRelease
NoJob == [status |-> "none", attempts |-> 0, due |-> FALSE,
          holder |-> NoHolder, lapsed |-> FALSE]
Fresh(job) == [NoJob EXCEPT !.status = "queued", !.due = TRUE]
NoRun == [at |-> "idle", release |-> NoRelease]

(* Faulty variant of Enqueued: every review starts the job over. *)
EnqueuedAlways(r) ==
    [jobs EXCEPT ![r] =
       IF channel[r] = "stable" /\ Confirmed(r)' >= Threshold
       THEN Fresh(@) ELSE @]

(* enqueue, in the batch of the review: a job that is queued or processing   *)
(* stays as it is.                                                           *)
Enqueued(r) ==
    [jobs EXCEPT ![r] =
       IF /\ channel[r] = "stable"
          /\ Confirmed(r)' >= Threshold
          /\ @.status \in {"none", "completed", "failed"}
       THEN Fresh(@) ELSE @]

JobInit ==
    /\ Init
    /\ jobs = [r \in Releases |-> NoJob]
    /\ runs = [h \in Cron |-> NoRun]
    /\ incidents = 0

-----------------------------------------------------------------------------
(* reviewCrash, retryCrashQuarantine *)

ReviewCrash(r) ==
    /\ Confirm(r) \/ Resolve(r)
    /\ jobs' = Enqueued(r)
    /\ UNCHANGED <<runs, incidents>>

RetryQuarantine(r) ==
    /\ jobs[r].status = "failed"
    /\ jobs' = [jobs EXCEPT ![r] = Fresh(@)]
    /\ UNCHANGED <<vars, runs, incidents>>

-----------------------------------------------------------------------------
(* processCrashQuarantines *)

(* Faulty variant of Due: a job left by a dead invocation is not taken over. *)
DueQueued(job) == job.status = "queued" /\ job.due

Due(job) ==
    \/ job.status = "queued" /\ job.due
    \/ job.status = "processing" /\ job.lapsed

ClaimQuarantine(h, r) ==
    /\ runs[h] = NoRun
    /\ Due(jobs[r])
    /\ jobs' = [jobs EXCEPT ![r] =
                  [status |-> "processing", attempts |-> @.attempts + 1,
                   due |-> FALSE, holder |-> h, lapsed |-> FALSE]]
    /\ runs' = [runs EXCEPT ![h] = [at |-> "count", release |-> r]]
    /\ UNCHANGED <<vars, incidents>>

(* The reports are counted; enough of them start quarantineRelease. *)
CountReports(h) ==
    /\ runs[h].at = "count"
    /\ LET r == runs[h].release IN
       \/ /\ Confirmed(r) >= Threshold
          /\ QuarantineCheck(h, r)
          /\ runs' = [runs EXCEPT ![h].at = "publish"]
       \/ /\ Confirmed(r) < Threshold
          /\ runs' = [runs EXCEPT ![h].at = "complete"]
          /\ UNCHANGED vars
    /\ UNCHANGED <<jobs, incidents>>

Settled(h, status) ==
    LET r == runs[h].release IN
    [jobs EXCEPT ![r] =
       IF @.status = "processing" /\ @.holder = h
       THEN [@ EXCEPT !.status = status, !.holder = NoHolder, !.lapsed = FALSE]
       ELSE @]

CompleteJob(h) ==
    /\ \/ runs[h].at = "complete" /\ UNCHANGED vars
       \/ /\ runs[h].at = "publish"
          /\ calls[h].at = "done"
          /\ QuarantineReturn(h)
    /\ jobs' = Settled(h, "completed")
    /\ runs' = [runs EXCEPT ![h] = NoRun]
    /\ UNCHANGED incidents

AfterFailure(job) ==
    IF job.attempts >= MaxAttempts THEN "failed" ELSE "queued"

FailJob(h) ==
    /\ runs[h].at = "publish"
    /\ calls[h].at = "failed"
    /\ QuarantineReturn(h)
    /\ jobs' = Settled(h, AfterFailure(jobs[runs[h].release]))
    /\ runs' = [runs EXCEPT ![h] = NoRun]
    /\ UNCHANGED incidents

-----------------------------------------------------------------------------
BecomesDue(r) ==
    /\ jobs[r].status = "queued" /\ ~jobs[r].due
    /\ jobs' = [jobs EXCEPT ![r].due = TRUE]
    /\ UNCHANGED <<vars, runs, incidents>>

Held(r) == \E h \in Cron : runs[h].release = r /\ jobs[r].holder = h

LeaseLapses(r) ==
    /\ jobs[r].status = "processing" /\ ~jobs[r].lapsed
    /\ IF Held(r)
       THEN /\ ~LeaseOutlasts /\ incidents < MaxIncidents
            /\ incidents' = incidents + 1
       ELSE UNCHANGED incidents
    /\ jobs' = [jobs EXCEPT ![r].lapsed = TRUE]
    /\ UNCHANGED <<vars, runs>>

CronDropped(h) ==
    /\ incidents < MaxIncidents
    /\ runs[h] # NoRun
    /\ incidents' = incidents + 1
    /\ runs' = [runs EXCEPT ![h] = NoRun]
    /\ Set(h, Idle)
    /\ UNCHANGED <<rowVars, Environment, jobs>>

Process(h) ==
    \/ \E r \in Releases : ClaimQuarantine(h, r)
    \/ CountReports(h) \/ CompleteJob(h) \/ FailJob(h)

Publish(h) == Proceed(h) /\ UNCHANGED <<jobs, runs, incidents>>

JobNext ==
    \/ \E h \in Cron : Process(h) \/ CronDropped(h)
    \/ \E h \in Handlers \ Cron :
         Maintain(h) /\ UNCHANGED <<jobs, runs, incidents>>
    \/ \E h \in Handlers : Publish(h)
    \/ \E r \in Releases :
         \/ ReviewCrash(r) \/ RetryQuarantine(r)
         \/ /\ Report(r) \/ ExpireReports(r) \/ Supersede(r)
            /\ UNCHANGED <<jobs, runs, incidents>>
         \/ BecomesDue(r) \/ LeaseLapses(r)

JobSpec == JobInit /\ [][JobNext]_jobVars

(* The cron trigger fires every 15 minutes and an invocation runs to its end *)
(* unless it is dropped; it takes on all jobs that were due when it began,   *)
(* oldest first, so none is passed over for ever.  Time passes.              *)
(* Administrators owe nothing.                                               *)
JobFairSpec ==
    /\ JobSpec
    /\ \A h \in Cron :
         /\ WF_jobVars(Process(h)) /\ WF_jobVars(Publish(h))
         /\ \A r \in Releases : SF_jobVars(ClaimQuarantine(h, r))
    /\ \A r \in Releases : WF_jobVars(BecomesDue(r)) /\ WF_jobVars(LeaseLapses(r))

-----------------------------------------------------------------------------
(* Jobs and runs stay in their types. *)
JobTypeOK ==
    /\ TypeOK
    /\ jobs \in [Releases ->
         [status : {"none", "queued", "processing", "completed", "failed"},
          attempts : Nat, due : BOOLEAN, holder : Cron \cup {NoHolder},
          lapsed : BOOLEAN]]
    /\ runs \in [Cron -> [at : {"idle", "count", "publish", "complete"},
                          release : Releases \cup {NoRelease}]]
    /\ incidents \in 0..MaxIncidents

(* A job that waits has attempts left: also when a lapsed lease was taken    *)
(* over after the last attempt, the next failure asks for an administrator.  *)
WaitingJobHasAttempts ==
    \A r \in Releases : jobs[r].status = "queued" =>
        jobs[r].attempts < MaxAttempts

(* A job that is due is eventually completed or failed, though invocations   *)
(* are dropped at any of their awaits.                                       *)
JobsSettle ==
    \A r \in Releases : jobs[r].status \in {"queued", "processing"}
                          ~> jobs[r].status \in {"completed", "failed"}
=============================================================================
