----------------------------- MODULE BuildReview ----------------------------
(* The worker protocol composed with the finalization of a review            *)
(* (approveRevision, reopenFinalization in requests.ts): the second approval *)
(* locks the request, merges the recipe's pull request at GitHub and queues  *)
(* the builds, while builds run, fail, are retried and are fenced.           *)
(*                                                                           *)
(* One approval handler per kind of approval may be in flight.  Its requests *)
(* for the database, and the merge, are its steps.  The revision has builds  *)
(* already (it was queued before, or a fence cancelled them), so no factory  *)
(* run is started for it and no private artifact is promoted.                *)
EXTENDS BuildLease

VARIABLE approving    \* approving[r]: the stage of the handler of reviewer r
reviewVars == <<vars, approving>>

-----------------------------------------------------------------------------
ApprovalStages == {"idle", "record", "read", "lock", "resume", "merge",
                   "queue", "settle", "reopen"}

Move(r, from, to) ==
    /\ approving[r] = from
    /\ approving' = [approving EXCEPT ![r] = to]

leaseVars == <<now, workers, store, calls, held, acked, issued, uploads>>
Quiet == UNCHANGED leaseVars
Untouched == Quiet /\ UNCHANGED <<builds, request, approvals>>

(* The revision has a public build that is queued, running or done. *)
HasJobs == \E b \in Builds :
             builds[b].status \in {"queued", "leased", "succeeded"}

(* The request awaits review, or its finalization may be resumed. *)
Approvable == request = "review" \/ (request = "queued" /\ ~HasJobs)

ApproveStart(r) ==
    /\ Approvable
    /\ Move(r, "idle", "record")
    /\ Untouched

(* The upsert re-checks; the handler goes on whether or not it matched. *)
ApproveRecord(r) ==
    /\ Move(r, "record", "read")
    /\ approvals' = IF Approvable THEN approvals \cup {r} ELSE approvals
    /\ Quiet
    /\ UNCHANGED <<builds, request>>

(* The state and the approvals are read again; the status seen decides       *)
(* which lock is attempted.                                                  *)
ApproveRead(r) ==
    /\ \/ /\ request = "review" /\ Reviewed
          /\ Move(r, "read", "lock")
       \/ /\ request = "queued" /\ ~HasJobs /\ Reviewed
          /\ Move(r, "read", "resume")
       \/ /\ ~(Approvable /\ Reviewed)
          /\ Move(r, "read", "idle")
    /\ Untouched

Lockable(stage) ==
    \/ stage = "lock" /\ request = "review" /\ Reviewed
    \/ stage = "resume" /\ request = "queued" /\ ~HasJobs /\ Reviewed

LockFinalization(r) ==
    /\ Lockable(approving[r])
    /\ approving' = [approving EXCEPT ![r] = "merge"]
    /\ request' = "queued"
    /\ Quiet
    /\ UNCHANGED <<builds, approvals>>

LockRefused(r) ==
    /\ approving[r] \in {"lock", "resume"}
    /\ ~Lockable(approving[r])
    /\ approving' = [approving EXCEPT ![r] = "idle"]
    /\ Untouched

(* mergeRecipePR: GitHub merges the reviewed commit, or does not answer so. *)
MergeRecipePR(r) ==
    /\ Move(r, "merge", "queue") \/ Move(r, "merge", "reopen")
    /\ Untouched

(* Faulty variant of QueueBuilds: the batch does not look at the request. *)
QueueBuildsUnchecked(r) ==
    /\ Move(r, "queue", "settle")
    /\ builds' = [b \in Builds |->
                    IF builds[b].status \in {"cancelled", "failed"}
                    THEN [Cleared(builds[b], "queued") EXCEPT
                            !.artifact = builds[b].artifact]
                    ELSE builds[b]]
    /\ Quiet
    /\ UNCHANGED <<request, approvals>>

(* The batch requeues cancelled and failed builds of a locked request; the   *)
(* artifact key stays on the row until the next claim.                       *)
QueueBuilds(r) ==
    /\ Move(r, "queue", "settle")
    /\ builds' = IF request = "queued" /\ Reviewed
                 THEN [b \in Builds |->
                         IF builds[b].status \in {"cancelled", "failed"}
                         THEN [Cleared(builds[b], "queued") EXCEPT
                                 !.artifact = builds[b].artifact]
                         ELSE builds[b]]
                 ELSE builds
    /\ Quiet
    /\ UNCHANGED <<request, approvals>>

QueueFails(r) == Move(r, "queue", "reopen") /\ Untouched

SettleFinalization(r) ==
    /\ IF request = "queued" /\ ~HasJobs
       THEN Move(r, "settle", "reopen")
       ELSE Move(r, "settle", "idle")
    /\ Untouched

ReopenFinalization(r) ==
    /\ Move(r, "reopen", "idle")
    /\ request' = IF request = "queued" /\ ~HasJobs THEN "review" ELSE request
    /\ Quiet
    /\ UNCHANGED <<builds, approvals>>

ApprovalDropped(r) ==
    /\ approving[r] # "idle"
    /\ approving' = [approving EXCEPT ![r] = "idle"]
    /\ Untouched

-----------------------------------------------------------------------------
Approval(r) ==
    \/ ApproveStart(r) \/ ApproveRecord(r) \/ ApproveRead(r)
    \/ LockFinalization(r) \/ LockRefused(r) \/ MergeRecipePR(r)
    \/ QueueBuilds(r) \/ QueueFails(r) \/ SettleFinalization(r)
    \/ ReopenFinalization(r) \/ ApprovalDropped(r)

(* An earlier finalization queued the builds; a fence that cancels them      *)
(* sends the request back to review.                                         *)
ReviewInit == Init /\ approving = [r \in Reviewers |-> "idle"]

ReviewNext ==
    \/ Next /\ UNCHANGED approving
    \/ \E r \in Reviewers : Approval(r)

ReviewSpec == ReviewInit /\ [][ReviewNext]_reviewVars

-----------------------------------------------------------------------------
(* The handlers of approveRevision are at one of its awaits. *)
ReviewTypeOK == TypeOK /\ approving \in [Reviewers -> ApprovalStages]

(* A building request with a failed build still has a build to wait for,     *)
(* also when a retry or a fence ran inside the finalization of a review.     *)
BuildingIsGoingOn ==
    request = "building" /\ AnyFailed(builds) => AnyActive(builds)

(* Builds are only ever active on a revision that both reviewers approve of  *)
(* at that time: the fence and the queueing batch may run in either order.   *)
ActiveBuildIsReviewed == AnyActive(builds) => Reviewed

(* A request says what its builds do: stopped means that none is active,     *)
(* building after a failure means that another one is still going.           *)
RequestFollowsBuilds == StoppedRequestHasNoActiveBuild /\ BuildingIsGoingOn
=============================================================================
