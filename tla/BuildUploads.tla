---------------------------- MODULE BuildUploads ----------------------------
(***************************************************************************)
(* The coordinator's side of one build with an output contract: the row of *)
(* the build, the multipart uploads of its packages over object storage    *)
(* and rows (worker-uploads.ts), ABI evidence and the completion           *)
(* (worker-results.ts).  A request is executed in the steps its awaits     *)
(* separate, each may fail, and the worker may stop waiting for the answer *)
(* while the execution goes on.                                            *)
(*                                                                         *)
(* A file's bytes are the record [att, from]: the attempt whose container  *)
(* wrote them and whether everything it was given was what was reviewed.   *)
(***************************************************************************)
EXTENDS Integers, Sequences, FiniteSets

CONSTANTS
    Workers,        \* enrolled workers of the build's architecture
    NFiles,         \* packages in the output contract
    NParts,         \* parts of a package
    MaxAttempt,     \* leases the build may have
    MaxFaults,      \* failures, timeouts and crashes of a behaviour
    None            \* no object, no answer

VARIABLES
    build,          \* row of builds: [status, att, worker, live, mode]
    uploads,        \* rows of worker_uploads, with the state of their object
    artifacts,      \* build_artifacts: attempt -> package -> upload id, 0: none
    abi,            \* packages of attempts whose ABI evidence is stored
    calls,          \* requests being executed
    answer,         \* what a worker was last told, None while it waits
    faults          \* failures so far

coordinatorRows == <<build, uploads, artifacts, abi>>

Files == 1..NFiles
Parts == 1..NParts
Attempts == 1..MaxAttempt
Corrupt == [att |-> 0, from |-> "corrupt"]
Digests == [att : Attempts, from : {"reviewed", "other"}] \cup {Corrupt}

(* A contract names at least one output, an upload has at least one part. *)
ASSUME UploadsAssumption ==
    /\ {NFiles, NParts, MaxAttempt} \subseteq Nat \ {0}
    /\ Workers # {} /\ None \notin Digests

Fault == faults < MaxFaults /\ faults' = faults + 1
FilesOf(att) == {f \in Files : artifacts[att][f] # 0}

(* requireWorkerLease: the lease is this worker's, of this attempt, alive *)
Leased(c) == /\ build.status = "leased"
             /\ build.att = c.att /\ build.worker = c.w /\ build.live

ActiveUploads == {u \in DOMAIN uploads : uploads[u].status = "active"}

-----------------------------------------------------------------------------
(* Answers, and the steps of an execution *)

Answer(c, a) ==
    /\ calls' = calls \ {c}
    /\ answer' = IF c.waits THEN [answer EXCEPT ![c.w] = a] ELSE answer
Refuse(c) == Answer(c, [ok |-> FALSE, up |-> 0, done |-> FALSE])
Accept(c, u, done) == Answer(c, [ok |-> TRUE, up |-> u, done |-> done])
Continue(c, stage) ==
    calls' = (calls \ {c}) \cup {[c EXCEPT !.stage = stage]} /\ UNCHANGED answer

(* abortR2: abort the multipart upload; when storage refuses, because it is *)
(* complete or gone, delete the object under its key                        *)
AbortR2(row) == IF row.mp = "open" THEN [row EXCEPT !.mp = "aborted"]
                ELSE [row EXCEPT !.object = None]
(* markFailed *)
MarkFailed(row) == IF row.status = "active" THEN [row EXCEPT !.status = "failed"]
                   ELSE row

Same(row, c) == /\ row.worker = c.w /\ row.att = c.att
                /\ row.file = c.file /\ row.sha = c.sha

(* startMultipartUpload: what is already stored or under way is returned, *)
(* another worker's or an earlier attempt's upload is taken down           *)
StartRead(c) ==
    /\ c.op = "start" /\ c.stage = "read"
    /\ IF ~Leased(c) THEN Refuse(c)
       ELSE IF c.file \in FilesOf(c.att)
       THEN LET u == artifacts[c.att][c.file] IN
            IF uploads[u].sha = c.sha THEN Accept(c, u, TRUE) ELSE Refuse(c)
       ELSE IF ActiveUploads = {} THEN Continue(c, "insert")
       ELSE LET u == CHOOSE x \in ActiveUploads : TRUE IN
            IF Same(uploads[u], c) THEN Accept(c, u, FALSE)
            ELSE IF uploads[u].worker = c.w /\ uploads[u].att = c.att THEN Refuse(c)
            ELSE /\ calls' = (calls \ {c}) \cup {[c EXCEPT !.stage = "supersede", !.up = u]}
                 /\ UNCHANGED answer
    /\ UNCHANGED <<build, uploads, artifacts, abi, faults>>

StartSupersede(c) ==
    /\ c.op = "start" /\ c.stage = "supersede"
    /\ uploads' = [uploads EXCEPT ![c.up] = AbortR2(@)]
    /\ Continue(c, "superseded")
    /\ UNCHANGED <<build, artifacts, abi, faults>>

StartSuperseded(c) ==
    /\ c.op = "start" /\ c.stage = "superseded"
    /\ uploads' = [uploads EXCEPT ![c.up] = MarkFailed(@)]
    /\ Continue(c, "insert")
    /\ UNCHANGED <<build, artifacts, abi, faults>>

(* createMultipartUpload, then the row, inserted only under the lease; the *)
(* partial unique index allows one active upload of a build.  A row that   *)
(* is not inserted is no error: the upload id of nothing is returned.      *)
StartInsert(c) ==
    /\ c.op = "start" /\ c.stage = "insert"
    /\ IF ActiveUploads # {} /\ Leased(c)
       THEN /\ LET u == CHOOSE x \in ActiveUploads : TRUE IN
               IF Same(uploads[u], c) THEN Accept(c, u, FALSE) ELSE Refuse(c)
            /\ UNCHANGED uploads
       ELSE IF Leased(c)
       THEN /\ uploads' = Append(uploads,
                  [file |-> c.file, att |-> c.att, worker |-> c.w, sha |-> c.sha,
                   status |-> "active", mp |-> "open", object |-> None,
                   staged |-> [p \in Parts |-> None], parts |-> [p \in Parts |-> None]])
            /\ Accept(c, Len(uploads) + 1, FALSE)
       ELSE Accept(c, 0, FALSE) /\ UNCHANGED uploads
    /\ UNCHANGED <<build, artifacts, abi, faults>>

(* assertActiveUpload *)
Usable(c) == /\ c.up # 0 /\ Leased(c)
             /\ uploads[c.up].status = "active"
             /\ uploads[c.up].att = c.att /\ uploads[c.up].worker = c.w

(* uploadMultipartPart: read and compare, store in R2, then the row *)
PartRead(c) ==
    /\ c.op = "part" /\ c.stage = "read"
    /\ IF ~Usable(c) THEN Refuse(c)
       ELSE IF uploads[c.up].parts[c.part] # None
       THEN IF uploads[c.up].parts[c.part] = c.sha THEN Accept(c, c.up, FALSE)
            ELSE Refuse(c)
       ELSE Continue(c, "store")
    /\ UNCHANGED <<build, uploads, artifacts, abi, faults>>

PartStore(c) ==
    /\ c.op = "part" /\ c.stage = "store"
    /\ IF uploads[c.up].mp = "open"
       THEN /\ uploads' = [uploads EXCEPT ![c.up].staged[c.part] = c.sha]
            /\ Continue(c, "record")
       ELSE Refuse(c) /\ UNCHANGED uploads
    /\ UNCHANGED <<build, artifacts, abi, faults>>

(* INSERT OR IGNORE, under the lease; what the row then says is compared:   *)
(* other bytes of a concurrent request take the upload down.                *)
PartRecord(c) ==
    /\ c.op = "part" /\ c.stage = "record"
    /\ LET saved == uploads[c.up].parts[c.part] IN
       IF saved = None /\ Usable(c)
       THEN /\ uploads' = [uploads EXCEPT ![c.up].parts[c.part] = c.sha]
            /\ Accept(c, c.up, FALSE)
       ELSE /\ IF saved = None THEN Refuse(c)
               ELSE IF saved = c.sha THEN Accept(c, c.up, FALSE) ELSE Continue(c, "drop")
            /\ UNCHANGED uploads
    /\ UNCHANGED <<build, artifacts, abi, faults>>

PartsRecorded(row) == \A p \in Parts : row.parts[p] # None

(* completeMultipartUpload *)
CompleteRead(c) ==
    /\ c.op = "complete" /\ c.stage = "read"
    /\ IF c.up = 0 \/ ~Leased(c) THEN Refuse(c)
       ELSE IF uploads[c.up].att # c.att THEN Refuse(c)
       ELSE IF uploads[c.up].status = "completed" THEN Accept(c, c.up, TRUE)
       ELSE IF ~Usable(c) THEN Refuse(c)
       ELSE IF PartsRecorded(uploads[c.up]) THEN Continue(c, "combine")
       ELSE Continue(c, "drop")
    /\ UNCHANGED <<build, uploads, artifacts, abi, faults>>

Combined(row) ==
    IF \A p \in Parts : row.staged[p] = row.sha THEN row.sha ELSE Corrupt

CompleteCombine(c) ==
    /\ c.op = "complete" /\ c.stage = "combine"
    /\ IF uploads[c.up].mp = "open"
       THEN /\ uploads' = [uploads EXCEPT ![c.up].mp = "completed",
                                          ![c.up].object = Combined(uploads[c.up])]
            /\ Continue(c, "hash")
       ELSE Continue(c, "drop") /\ UNCHANGED uploads
    /\ UNCHANGED <<build, artifacts, abi, faults>>

(* hashObject over the stored bytes, compared with the declaration *)
\* Mutant: the parts were hashed, so the object is taken to match.
MatchesAlways(row) == row.object # None
Matches(row) == row.object = row.sha

CompleteHash(c) ==
    /\ c.op = "complete" /\ c.stage = "hash"
    /\ Continue(c, IF Matches(uploads[c.up]) THEN "commit" ELSE "delete")
    /\ UNCHANGED <<build, uploads, artifacts, abi, faults>>

(* artifactInsert under the lease of the build's current attempt (INSERT OR  *)
(* IGNORE), then the upload's row when that insert changed something         *)
\* Mutant: the row is inserted for the attempt the request was made in.
InsertsUnfenced(c) == artifacts[c.att][uploads[c.up].file] = 0
Inserts(c) == Leased(c) /\ artifacts[c.att][uploads[c.up].file] = 0

CommitArtifact(c) ==
    IF Inserts(c)
    THEN /\ artifacts' = [artifacts EXCEPT ![c.att][uploads[c.up].file] = c.up]
         /\ uploads' = [uploads EXCEPT ![c.up].status =
                          IF @ = "active" THEN "completed" ELSE @]
    ELSE UNCHANGED <<artifacts, uploads>>

CompleteCommit(c) ==
    /\ c.op = "complete" /\ c.stage = "commit"
    /\ CommitArtifact(c)
    /\ Continue(c, "reread")
    /\ UNCHANGED <<build, abi, faults>>

CompleteReread(c) ==
    /\ c.op = "complete" /\ c.stage = "reread"
    /\ IF uploads[c.up].status = "completed" THEN Accept(c, c.up, TRUE)
       ELSE Continue(c, "mark")
    /\ UNCHANGED <<build, uploads, artifacts, abi, faults>>

(* The ways an upload is given up: storage first, then the row *)
DropObject(c) ==
    /\ c.op \in {"part", "complete"} /\ c.stage \in {"drop", "delete"}
    /\ uploads' = [uploads EXCEPT ![c.up] =
                     IF c.stage = "drop" THEN AbortR2(@) ELSE [@ EXCEPT !.object = None]]
    /\ Continue(c, "mark")
    /\ UNCHANGED <<build, artifacts, abi, faults>>

MarkUpload(c) ==
    /\ c.op \in {"part", "complete"} /\ c.stage = "mark"
    /\ uploads' = [uploads EXCEPT ![c.up] = MarkFailed(@)]
    /\ Refuse(c)
    /\ UNCHANGED <<build, artifacts, abi, faults>>

(* abortMultipartUpload: a storage failure leaves the row as it is *)
AbortRead(c) ==
    /\ c.op = "abort" /\ c.stage = "read"
    /\ IF Usable(c) THEN Continue(c, "abort") ELSE Refuse(c)
    /\ UNCHANGED <<build, uploads, artifacts, abi, faults>>

AbortStore(c) ==
    /\ c.op = "abort" /\ c.stage = "abort"
    /\ IF uploads[c.up].mp = "open"
       THEN /\ uploads' = [uploads EXCEPT ![c.up].mp = "aborted"]
            /\ Continue(c, "close")
       ELSE Refuse(c) /\ UNCHANGED uploads
    /\ UNCHANGED <<build, artifacts, abi, faults>>

AbortClose(c) ==
    /\ c.op = "abort" /\ c.stage = "close"
    /\ uploads' = [uploads EXCEPT ![c.up].status =
                     IF @ = "active" THEN "aborted" ELSE @]
    /\ Accept(c, c.up, FALSE)
    /\ UNCHANGED <<build, artifacts, abi, faults>>

(* Logs and ABI evidence: kept for the current lease; evidence must be of  *)
(* the bytes of an uploaded package                                        *)
Notes(c) ==
    /\ c.op \in {"log", "abi"}
    /\ IF Leased(c) /\ (c.op = "abi" => c.file \in FilesOf(c.att))
       THEN /\ abi' = IF c.op = "abi" THEN abi \cup {<<c.att, c.file>>} ELSE abi
            /\ Accept(c, 0, FALSE)
       ELSE Refuse(c) /\ UNCHANGED abi
    /\ UNCHANGED <<build, uploads, artifacts, faults>>

(* completeJob: a success names the uploaded set, which is the whole       *)
(* contract, whose objects are still stored and whose evidence is retained *)
SetMatches(c) == /\ FilesOf(c.att) = Files
                 /\ c.list = {artifacts[c.att][f] : f \in Files}
StoredIntact(c) == \A u \in c.list : Matches(uploads[u])
EvidenceRetained(c) == \A f \in Files : <<c.att, f>> \in abi
FinishRead(c) ==
    /\ c.op \in {"succeeded", "failed"} /\ c.stage = "read"
    /\ IF /\ Leased(c)
          /\ c.op = "succeeded" => SetMatches(c) /\ StoredIntact(c) /\ EvidenceRetained(c)
       THEN Continue(c, "commit")
       ELSE Refuse(c)
    /\ UNCHANGED <<build, uploads, artifacts, abi, faults>>

FinishCommit(c) ==
    /\ c.op \in {"succeeded", "failed"} /\ c.stage = "commit"
    /\ IF Leased(c)
       THEN build' = [build EXCEPT !.status = c.op] /\ Accept(c, 0, FALSE)
       ELSE Refuse(c) /\ UNCHANGED build
    /\ UNCHANGED <<uploads, artifacts, abi, faults>>

(* Storage or the database fails under a request.  A batch may have been   *)
(* applied before its answer was lost.                                     *)
StorageFails(c) ==
    /\ c.op \in {"start", "part", "complete", "abort", "log", "abi", "succeeded", "failed"}
    /\ Fault
    /\ \/ c.stage \in {"read", "insert", "store", "abort", "close", "reread"} /\ Refuse(c)
       \/ c.stage \in {"record", "combine"} /\ Continue(c, "drop")
       \/ c.stage = "hash" /\ Continue(c, "delete")
    /\ UNCHANGED coordinatorRows

CommitLost(c) ==
    /\ c.op = "complete" /\ c.stage = "commit" /\ Fault
    /\ CommitArtifact(c)
    /\ Continue(c, "mark")
    /\ UNCHANGED <<build, abi>>

(* An execution is killed where it stands and nothing is answered. *)
Killed(c) ==
    /\ Fault
    /\ calls' = calls \ {c}
    /\ UNCHANGED <<build, uploads, artifacts, abi, answer>>

Serve(c) ==
    \/ StartRead(c) \/ StartSupersede(c) \/ StartSuperseded(c) \/ StartInsert(c)
    \/ PartRead(c) \/ PartStore(c) \/ PartRecord(c)
    \/ CompleteRead(c) \/ CompleteCombine(c) \/ CompleteHash(c)
    \/ CompleteCommit(c) \/ CompleteReread(c)
    \/ DropObject(c) \/ MarkUpload(c)
    \/ AbortRead(c) \/ AbortStore(c) \/ AbortClose(c)
    \/ Notes(c) \/ FinishRead(c) \/ FinishCommit(c)

ServerFault(c) == StorageFails(c) \/ CommitLost(c) \/ Killed(c)

(* The lease passes its expiry: the heartbeats that would have renewed it  *)
(* failed or stopped.                                                      *)
Expire ==
    /\ build.status = "leased" /\ build.live
    /\ Fault
    /\ build' = [build EXCEPT !.live = FALSE]
    /\ UNCHANGED <<uploads, artifacts, abi, calls, answer>>

(* A maintainer or a new revision cancels the build. *)
Cancel ==
    /\ build.status \in {"queued", "leased"}
    /\ Fault
    /\ build' = [build EXCEPT !.status = "cancelled"]
    /\ UNCHANGED <<uploads, artifacts, abi, calls, answer>>

BuildsInit ==
    /\ uploads = <<>> /\ calls = {} /\ abi = {} /\ faults = 0
    /\ artifacts = [a \in Attempts |-> [f \in Files |-> 0]]
    /\ answer = [w \in Workers |-> None]

-----------------------------------------------------------------------------
\* A row of build_artifacts names an upload of its attempt and package whose
\* object is in storage with the declared bytes, and those are what a
\* container made from reviewed input only (completeMultipartUpload, the
\* deletions of abortR2, and the daemon's checks before the build).
ArtifactStored ==
    \A a \in Attempts, f \in Files :
        LET u == artifacts[a][f] IN
        u # 0 => /\ uploads[u].att = a /\ uploads[u].file = f
                 /\ uploads[u].object = [att |-> a, from |-> "reviewed"]
=============================================================================
