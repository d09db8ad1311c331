----------------------------- MODULE BuildLease -----------------------------
(* The worker protocol over the public builds of one reviewed revision:      *)
(* claim, heartbeat, artifact upload and completion (workers.ts,             *)
(* worker-results.ts, worker-protocol.ts) against the administrative         *)
(* operations that fence a lease (revoke, pause, resume, archive, retry, the *)
(* removal of a reviewer).                                                   *)
(*                                                                           *)
(* Every handler is an async function: it reads the row, awaits, and writes  *)
(* with an UPDATE whose WHERE clause checks again.  A handler in flight is a *)
(* record in calls; between two of its steps anything else may run, and the  *)
(* isolate may be dropped (Crash).  A D1 batch is one transaction, so one    *)
(* step.  Lease tokens and upload ids are random and never reused: they are  *)
(* the numbers 1, 2, ...; NULL is 0, NoWorker or NoKey.                      *)
EXTENDS Integers

CONSTANTS
    Workers,        \* enrolled daemons
    Builds,         \* builds of the revision: one per architecture
    ArchOf,         \* ArchOf[w]: the build of worker w's architecture
    Handlers,       \* concurrent invocations of the web worker
    Reviewers,      \* the approvals the revision needs: area and security
    LeaseSeconds,   \* LEASE_SECONDS, in ticks
    MaxTime, MaxClaims, MaxUploads,   \* bounds of the model
    NoWorker, NoKey

ASSUME ArchAssumption == ArchOf \in [Workers -> Builds]
ASSUME LeaseAssumption == LeaseSeconds \in Nat \ {0}
ASSUME NullAssumption ==
    NoWorker \notin Workers /\ NoKey \notin [build : Builds, attempt : Nat, id : Nat]

VARIABLES
    now,        \* the clock, in ticks
    workers,    \* rows of the table workers
    builds,     \* rows of the table builds
    request,    \* requests.status of the revision's request
    approvals,  \* the reviewers whose approval is not revoked
    store,      \* keys present in the R2 bucket
    calls,      \* handlers in flight
    held,       \* leases delivered to a worker
    acked,      \* tokens whose success was acknowledged
    issued,     \* lease tokens drawn so far
    uploads     \* upload ids drawn so far

rowVars == <<workers, builds, request, approvals>>
vars == <<now, workers, builds, request, approvals, store, calls, held,
          acked, issued, uploads>>

-----------------------------------------------------------------------------
RequestStatus == {"queued", "building", "failed", "blocked", "review"}
BuildStatus == {"queued", "leased", "succeeded", "failed", "cancelled"}
Active == {"queued", "leased"}
Keys == [build : Builds, attempt : Nat, id : Nat]
Rows == [status : BuildStatus, worker : Workers \cup {NoWorker},
         token : Nat, expires : Nat, attempt : Nat,
         artifact : Keys \cup {NoKey}]
Leases == [worker : Workers, build : Builds, token : Nat]
Stages == {"claim", "claimed", "heartbeat", "put", "record",
           "recheck", "verify", "finish", "settle"}
Calls == [at : Stages, worker : Workers, build : Builds, token : Nat,
          attempt : Nat, ts : Nat, key : Keys \cup {NoKey},
          status : {"succeeded", "failed"}]

Idle == [at |-> "idle"]
Free(h) == calls[h] = Idle
At(h, stage) == calls[h].at = stage

(* The handler h starts as, moves on to, or ends a call. *)
Set(h, c) == calls' = [calls EXCEPT ![h] = c]
End(h) == Set(h, Idle)

Reviewed == approvals = Reviewers
AnyActive(bs) == \E b \in Builds : bs[b].status \in Active
AnyFailed(bs) == \E b \in Builds : bs[b].status = "failed"

(* The row leaves the worker: lease and evidence are set to NULL. *)
Cleared(row, status) ==
    [row EXCEPT !.status = status, !.worker = NoWorker, !.token = 0,
                !.expires = 0, !.artifact = NoKey]

Init ==
    /\ now = 1
    /\ workers = [w \in Workers |-> [status |-> "active", accepting |-> TRUE]]
    /\ builds = [b \in Builds |->
                   [status |-> "queued", worker |-> NoWorker, token |-> 0,
                    expires |-> 0, attempt |-> 0, artifact |-> NoKey]]
    /\ request = "queued"
    /\ approvals = Reviewers
    /\ store = {}
    /\ calls = [h \in Handlers |-> Idle]
    /\ held = {}
    /\ acked = {}
    /\ issued = 0
    /\ uploads = 0

-----------------------------------------------------------------------------
(* Reads shared by the handlers. *)

(* authenticateWorker accepts the signed request of an active worker. *)
Authentic(w) == workers[w].status = "active"

(* getBuildForWorker returns the row. *)
Visible(w, b) == builds[b].worker = w /\ Reviewed

(* requireLease passes. *)
LiveLease(l) ==
    LET row == builds[l.build] IN
    /\ Visible(l.worker, l.build)
    /\ row.token = l.token
    /\ row.status = "leased"
    /\ row.expires > now

(* The WHERE clause of the UPDATEs made under a lease. *)
OwnedLease(c) ==
    LET row == builds[c.build] IN
    /\ row.worker = c.worker
    /\ row.token = c.token
    /\ row.status = "leased"
    /\ row.expires > c.ts
    /\ workers[c.worker].status = "active"

(* A call made under the lease l, entering the given stage. *)
CallUnder(l, stage) ==
    [at |-> stage, worker |-> l.worker, build |-> l.build, token |-> l.token,
     attempt |-> builds[l.build].attempt, ts |-> now, key |-> NoKey,
     status |-> "failed"]

-----------------------------------------------------------------------------
(* claimJob *)

(* Faulty variant of Takeable: the boundary is off by one. *)
TakeableAtExpiry(row, ts) ==
    \/ row.status = "queued"
    \/ row.status = "leased" /\ row.expires <= ts

Takeable(row, ts) ==
    \/ row.status = "queued"
    \/ row.status = "leased" /\ row.expires < ts

ClaimRead(h, w) ==
    /\ Free(h)
    /\ Authentic(w)
    /\ Takeable(builds[ArchOf[w]], now)
    /\ request \in {"queued", "building"}
    /\ Reviewed
    /\ Set(h, CallUnder([worker |-> w, build |-> ArchOf[w], token |-> 0],
                        "claim"))
    /\ UNCHANGED <<now, rowVars, store, held, acked, issued, uploads>>

(* Faulty variant of Claimable: the worker is not checked again. *)
ClaimableByAnyone(c) ==
    /\ Takeable(builds[c.build], c.ts)
    /\ request \in {"queued", "building"}
    /\ Reviewed

Claimable(c) ==
    /\ Takeable(builds[c.build], c.ts)
    /\ request \in {"queued", "building"}
    /\ Reviewed
    /\ workers[c.worker] = [status |-> "active", accepting |-> TRUE]

ClaimWrite(h) ==
    /\ At(h, "claim")
    /\ issued < MaxClaims
    /\ Claimable(calls[h])
    /\ LET c == calls[h] IN
       /\ builds' = [builds EXCEPT ![c.build] =
                       [status |-> "leased", worker |-> c.worker,
                        token |-> issued + 1, expires |-> c.ts + LeaseSeconds,
                        attempt |-> @.attempt + 1, artifact |-> NoKey]]
       /\ Set(h, [c EXCEPT !.at = "claimed", !.token = issued + 1])
    /\ request' = "building"
    /\ issued' = issued + 1
    /\ UNCHANGED <<now, workers, approvals, store, held, acked, uploads>>

(* The UPDATE matched no row: the re-read cannot show the fresh token. *)
ClaimLost(h) ==
    /\ At(h, "claim")
    /\ ~Claimable(calls[h])
    /\ End(h)
    /\ UNCHANGED <<now, rowVars, store, held, acked, issued, uploads>>

(* The re-read after the batch decides whether the job is delivered. *)
ClaimReply(h) ==
    /\ At(h, "claimed")
    /\ LET c == calls[h]
           row == builds[c.build]
           mine == /\ Visible(c.worker, c.build)
                   /\ row.status = "leased"
                   /\ row.token = c.token
       IN held' = IF mine
                  THEN held \cup {[worker |-> c.worker, build |-> c.build,
                                   token |-> c.token]}
                  ELSE held
    /\ End(h)
    /\ UNCHANGED <<now, rowVars, store, acked, issued, uploads>>

-----------------------------------------------------------------------------
(* heartbeatJob *)

HeartbeatRead(h, l) ==
    /\ Free(h)
    /\ Authentic(l.worker)
    /\ LiveLease(l)
    /\ Set(h, CallUnder(l, "heartbeat"))
    /\ UNCHANGED <<now, rowVars, store, held, acked, issued, uploads>>

(* The answer, a new expiry, is sent whether or not the UPDATE matched; a     *)
(* daemon keeps no account of it.                                            *)
HeartbeatWrite(h) ==
    /\ At(h, "heartbeat")
    /\ LET c == calls[h] IN
       /\ builds' = IF OwnedLease(c)
                    THEN [builds EXCEPT ![c.build].expires =
                                          c.ts + LeaseSeconds]
                    ELSE builds
    /\ End(h)
    /\ UNCHANGED <<now, workers, request, approvals, store, held, acked,
                   issued, uploads>>

-----------------------------------------------------------------------------
(* uploadArtifact, for a build with one artifact *)

UploadRead(h, l) ==
    /\ Free(h)
    /\ Authentic(l.worker)
    /\ LiveLease(l)
    /\ builds[l.build].artifact = NoKey
    /\ Set(h, CallUnder(l, "put"))
    /\ UNCHANGED <<now, rowVars, store, held, acked, issued, uploads>>

UploadPut(h) ==
    /\ At(h, "put")
    /\ uploads < MaxUploads
    /\ LET c == calls[h]
           key == [build |-> c.build, attempt |-> c.attempt,
                   id |-> uploads + 1]
       IN /\ store' = store \cup {key}
          /\ Set(h, [c EXCEPT !.at = "record", !.key = key, !.ts = now])
    /\ uploads' = uploads + 1
    /\ UNCHANGED <<now, rowVars, held, acked, issued>>

UploadWrite(h) ==
    /\ At(h, "record")
    /\ LET c == calls[h] IN
       /\ builds' = IF OwnedLease(c) /\ builds[c.build].artifact = NoKey
                    THEN [builds EXCEPT ![c.build].artifact = c.key]
                    ELSE builds
       /\ Set(h, [c EXCEPT !.at = "recheck"])
    /\ UNCHANGED <<now, workers, request, approvals, store, held, acked,
                   issued, uploads>>

(* Faulty variant of UploadRecheck: only a live lease keeps its bytes. *)
UploadRecheckLive(h) ==
    /\ At(h, "recheck")
    /\ LET c == calls[h] IN
       store' = IF /\ Visible(c.worker, c.build)
                   /\ builds[c.build].artifact = c.key
                   /\ builds[c.build].expires > now
                THEN store
                ELSE store \ {c.key}
    /\ End(h)
    /\ UNCHANGED <<now, rowVars, held, acked, issued, uploads>>

(* The handler deletes its own bytes unless the re-read row names them. *)
UploadRecheck(h) ==
    /\ At(h, "recheck")
    /\ LET c == calls[h] IN
       store' = IF Visible(c.worker, c.build)
                      /\ builds[c.build].artifact = c.key
                THEN store
                ELSE store \ {c.key}
    /\ End(h)
    /\ UNCHANGED <<now, rowVars, held, acked, issued, uploads>>

-----------------------------------------------------------------------------
(* completeJob *)

(* A success names the artifact on the row, a failure names none. *)
CompleteRead(h, l, status) ==
    /\ Free(h)
    /\ Authentic(l.worker)
    /\ LiveLease(l)
    /\ status = "succeeded" => builds[l.build].artifact # NoKey
    /\ Set(h, [CallUnder(l, "verify") EXCEPT
                 !.status = status, !.key = builds[l.build].artifact])
    /\ UNCHANGED <<now, rowVars, store, held, acked, issued, uploads>>

(* verifyStoredArtifact finds the bytes; then the timestamp is taken. *)
CompleteVerify(h) ==
    /\ At(h, "verify")
    /\ LET c == calls[h] IN
       /\ c.status = "succeeded" => c.key \in store
       /\ Set(h, [c EXCEPT !.at = "finish", !.ts = now])
    /\ UNCHANGED <<now, rowVars, store, held, acked, issued, uploads>>

(* The second UPDATE of the batch looks at the revision's builds, not at     *)
(* whether the first one matched.                                            *)
RequestAfterCompletion(bs) ==
    IF /\ request \in {"queued", "building"}
       /\ AnyFailed(bs)
       /\ ~AnyActive(bs)
    THEN "failed"
    ELSE request

(* The rows once the first UPDATE has ended the attempt, if it matched. *)
Completed(c) ==
    IF OwnedLease(c)
    THEN [builds EXCEPT ![c.build].status = c.status,
                        ![c.build].expires = c.ts]
    ELSE builds

CompleteWrite(h) ==
    /\ At(h, "finish")
    /\ LET c == calls[h] IN
       /\ builds' = Completed(c)
       /\ Set(h, [c EXCEPT !.at = "settle"])
    /\ request' = RequestAfterCompletion(builds')
    /\ UNCHANGED <<now, workers, approvals, store, held, acked, issued,
                   uploads>>

(* Lease and artifact stay on the rows that the last UPDATE cancels. *)
CancelActive(bs, ts) ==
    [b \in Builds |-> IF bs[b].status \in Active
                      THEN [bs[b] EXCEPT !.status = "cancelled", !.expires = ts]
                      ELSE bs[b]]

(* Faulty variant of CompleteBlocked: the other builds run on. *)
CompleteBlockedAlone(h) ==
    /\ At(h, "finish")
    /\ calls[h].status = "failed"
    /\ LET c == calls[h] IN
       /\ builds' = Completed(c)
       /\ Set(h, [c EXCEPT !.at = "settle"])
    /\ request' = IF OwnedLease(calls[h]) THEN "blocked" ELSE request
    /\ UNCHANGED <<now, workers, approvals, store, held, acked, issued,
                   uploads>>

(* A failure that names missing dependencies: the batch files the blockers   *)
(* of an attempt it has just ended, blocks the request, whatever the UPDATE  *)
(* before made of it, and cancels the revision's other builds.               *)
CompleteBlocked(h) ==
    /\ At(h, "finish")
    /\ calls[h].status = "failed"
    /\ LET c == calls[h]
           status == RequestAfterCompletion(Completed(c))
       IN /\ request' = IF /\ OwnedLease(c)
                           /\ status \in {"queued", "building", "failed"}
                        THEN "blocked" ELSE status
          /\ builds' = IF request' = "blocked"
                       THEN CancelActive(Completed(c), c.ts)
                       ELSE Completed(c)
          /\ Set(h, [c EXCEPT !.at = "settle"])
    /\ UNCHANGED <<now, workers, approvals, store, held, acked, issued,
                   uploads>>

(* Faulty variant of ShowsSuccess: the success of any attempt will do. *)
ShowsAnySuccess(l) ==
    LET row == builds[l.build] IN
    /\ Visible(l.worker, l.build)
    /\ row.status = "succeeded"

(* The row shows l's attempt ended in success. *)
ShowsSuccess(l) ==
    LET row == builds[l.build] IN
    /\ Visible(l.worker, l.build)
    /\ row.status = "succeeded"
    /\ row.token = l.token

CompleteReply(h) ==
    /\ At(h, "settle")
    /\ LET c == calls[h] IN
       acked' = IF c.status = "succeeded" /\ ShowsSuccess(c)
                THEN acked \cup {c.token}
                ELSE acked
    /\ End(h)
    /\ UNCHANGED <<now, rowVars, store, held, issued, uploads>>

(* A repeated completion of a finished attempt is answered from the row. *)
CompleteReplay(l) ==
    /\ Authentic(l.worker)
    /\ ShowsSuccess(l)
    /\ acked' = acked \cup {l.token}
    /\ UNCHANGED <<now, rowVars, store, calls, held, issued, uploads>>

-----------------------------------------------------------------------------
(* Administration: one transaction each, re-checking what was read before. *)

RevokeWorker(w) ==
    /\ workers[w].status = "active"
    /\ workers' = [workers EXCEPT ![w] = [status |-> "revoked",
                                          accepting |-> FALSE]]
    /\ builds' = [b \in Builds |->
                    IF builds[b].worker = w /\ builds[b].status = "leased"
                    THEN Cleared(builds[b], "queued")
                    ELSE builds[b]]
    /\ UNCHANGED <<now, request, approvals, store, calls, held, acked,
                   issued, uploads>>

Accept(w, from) ==
    /\ workers[w] = [status |-> "active", accepting |-> from]
    /\ workers' = [workers EXCEPT ![w].accepting = ~from]
    /\ UNCHANGED <<now, builds, request, approvals, store, calls, held, acked,
                   issued, uploads>>

PauseWorker(w) == Accept(w, TRUE)
ResumeWorker(w) == Accept(w, FALSE)

ArchiveWorker(w) ==
    /\ workers[w].status = "revoked"
    /\ ~\E b \in Builds : builds[b].worker = w /\ builds[b].status = "leased"
    /\ workers' = [workers EXCEPT ![w].status = "archived"]
    /\ UNCHANGED <<now, builds, request, approvals, store, calls, held, acked,
                   issued, uploads>>

RetryBuild(b) ==
    /\ builds[b].status = "failed"
    /\ request \in {"queued", "building", "failed"}
    /\ Reviewed
    /\ request' = IF \E s \in Builds \ {b} : builds[s].status = "leased"
                  THEN "building" ELSE "queued"
    /\ builds' = [builds EXCEPT ![b] = Cleared(@, "queued")]
    /\ UNCHANGED <<now, workers, approvals, store, calls, held, acked, issued,
                   uploads>>

(* Faulty variant of FenceReviewer: only a queued request is reopened. *)
FenceQueuedReviewer(r) ==
    /\ r \in approvals
    /\ approvals' = approvals \ {r}
    /\ builds' = [b \in Builds |->
                    IF builds[b].status \in Active
                    THEN [Cleared(builds[b], "cancelled") EXCEPT
                            !.artifact = builds[b].artifact]
                    ELSE builds[b]]
    /\ request' = IF request = "queued" THEN "review" ELSE request
    /\ UNCHANGED <<now, workers, store, calls, held, acked, issued, uploads>>

(* Losing the capability revokes the approval, cancels the builds it         *)
(* authorised (the artifact key stays on the row) and reopens the review; no *)
(* build of the revision is released yet, where the code keeps both.         *)
FenceReviewer(r) ==
    /\ r \in approvals
    /\ approvals' = approvals \ {r}
    /\ builds' = [b \in Builds |->
                    IF builds[b].status \in Active
                    THEN [Cleared(builds[b], "cancelled") EXCEPT
                            !.artifact = builds[b].artifact]
                    ELSE builds[b]]
    /\ request' = IF request \in {"queued", "building"} THEN "review"
                  ELSE request
    /\ UNCHANGED <<now, workers, store, calls, held, acked, issued, uploads>>

-----------------------------------------------------------------------------
Tick ==
    /\ now < MaxTime
    /\ now' = now + 1
    /\ UNCHANGED <<rowVars, store, calls, held, acked, issued, uploads>>

(* The invocation is dropped, or a storage call of it fails, between steps. *)
Crash(h) ==
    /\ calls[h] # Idle
    /\ End(h)
    /\ UNCHANGED <<now, rowVars, store, held, acked, issued, uploads>>

Step(h) ==
    \/ ClaimWrite(h) \/ ClaimLost(h) \/ ClaimReply(h)
    \/ HeartbeatWrite(h)
    \/ UploadPut(h) \/ UploadWrite(h) \/ UploadRecheck(h)
    \/ CompleteVerify(h) \/ CompleteWrite(h) \/ CompleteBlocked(h)
    \/ CompleteReply(h)
    \/ Crash(h)

Start(h) ==
    \/ \E w \in Workers : ClaimRead(h, w)
    \/ \E l \in held : \/ HeartbeatRead(h, l)
                       \/ UploadRead(h, l)
                       \/ \E s \in {"succeeded", "failed"} :
                            CompleteRead(h, l, s)

Administer ==
    \/ \E w \in Workers : \/ RevokeWorker(w) \/ PauseWorker(w)
                          \/ ResumeWorker(w) \/ ArchiveWorker(w)
    \/ \E b \in Builds : RetryBuild(b)
    \/ \E r \in Reviewers : FenceReviewer(r)

Next ==
    \/ Tick
    \/ \E h \in Handlers : Start(h) \/ Step(h)
    \/ \E l \in held : CompleteReplay(l)
    \/ Administer

Spec == Init /\ [][Next]_vars

-----------------------------------------------------------------------------
(* Every variable stays in its type: rows keep to the statuses the code      *)
(* writes and handlers to the stages between their awaits.                   *)
TypeOK ==
    /\ now \in Nat
    /\ workers \in [Workers -> [status : {"active", "revoked", "archived"},
                                accepting : BOOLEAN]]
    /\ builds \in [Builds -> Rows]
    /\ request \in RequestStatus
    /\ approvals \subseteq Reviewers
    /\ store \subseteq Keys
    /\ calls \in [Handlers -> Calls \cup {Idle}]
    /\ held \subseteq Leases
    /\ acked \subseteq Nat
    /\ issued \in Nat
    /\ uploads \in Nat

(* A lease is only ever held by an active worker: a claim in flight while    *)
(* the worker is revoked (revokeWorker's requeue has then already run) must  *)
(* not leave a row leased that no one would requeue.                         *)
LeasedByActiveWorker ==
    \A b \in Builds : builds[b].status = "leased" =>
        /\ builds[b].worker \in Workers
        /\ workers[builds[b].worker].status = "active"

(* The bytes on a leased or finished row were uploaded by the attempt the    *)
(* row is in, although uploadArtifact read the attempt before it stored the  *)
(* bytes and the row may have been re-leased in between.                     *)
ArtifactOfItsAttempt ==
    \A b \in Builds :
        LET row == builds[b] IN
        row.status \in {"leased", "succeeded"} /\ row.artifact # NoKey =>
            row.artifact.build = b /\ row.artifact.attempt = row.attempt

(* A live attempt never names bytes that an upload handler has deleted.      *)
LeasedBytesStored ==
    \A b \in Builds :
        builds[b].status = "leased" /\ builds[b].artifact # NoKey =>
            builds[b].artifact \in store

(* A success acknowledged to a worker stays recorded, under the token it was *)
(* acknowledged for and with an artifact, whatever is retried, revoked or    *)
(* fenced afterwards.                                                        *)
AckedSuccessDurable ==
    \A t \in acked : \E b \in Builds :
        /\ builds[b].status = "succeeded"
        /\ builds[b].token = t
        /\ builds[b].artifact # NoKey

(* A request that a reviewer may reject or regenerate, or that waits for a   *)
(* dependency, has no build a worker runs or could claim: completion, its    *)
(* blockers, fence, retry and queueing keep the two tables in step.          *)
StoppedRequestHasNoActiveBuild ==
    request \in {"failed", "blocked", "review"} => ~AnyActive(builds)

(* A build that succeeded is never rewritten.                                *)
SucceededStays ==
    [][\A b \in Builds : builds[b].status = "succeeded" =>
         builds'[b] = builds[b]]_vars

(* A lease passes to another token only after it expired, unless the row     *)
(* was fenced (requeued or cancelled) in between.                            *)
LiveLeaseNotStolen ==
    [][\A b \in Builds :
         /\ builds[b].status = "leased"
         /\ builds'[b].status = "leased"
         /\ builds'[b].token # builds[b].token
         => builds[b].expires < now]_vars

(* The attempt of a leased or finished row: its token, and whether the row    *)
(* names bytes that this attempt uploaded.                                   *)
NoAttempt == [token |-> 0]
Running(b) == builds[b].status \in {"leased", "succeeded"}
AttemptOf(b) ==
    [token |-> builds[b].token,
     deposit |-> /\ builds[b].artifact # NoKey
                 /\ builds[b].artifact.attempt = builds[b].attempt]

Contract == INSTANCE AttemptLease WITH
    Items <- Builds,
    current <- [b \in Builds |-> IF Running(b) THEN AttemptOf(b)
                                 ELSE NoAttempt],
    finished <- {b \in Builds : builds[b].status = "succeeded"},
    drawn <- issued,
    confirmed <- acked

(* Claims, heartbeats, uploads, completions, their repetitions and the       *)
(* administration implement the contract of an attempt, whatever they read   *)
(* and however late they write.                                              *)
ImplementsContract == Contract!Spec

(* What a row names while it is leased, and what it keeps when it succeeded, *)
(* is its own attempt's artifact, and while it is leased the bytes are in    *)
(* the bucket: no cleanup of a late upload takes them away.                  *)
ArtifactIsItsOwn == ArtifactOfItsAttempt /\ LeasedBytesStored
=============================================================================
