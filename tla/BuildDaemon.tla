----------------------------- MODULE BuildDaemon -----------------------------
(***************************************************************************)
(* The worker daemon (src/worker): its loop, the heartbeat beside a job,   *)
(* and the job itself: sources and inputs fetched and verified, images and *)
(* containers made and removed, packages inspected, uploaded and reported. *)
(* Composed with the coordinator's handlers of BuildUploads and            *)
(* FactoryImages.                                                          *)
(*                                                                         *)
(* "held" is what of a job is on the host; "inner" is what the deferred    *)
(* calls of Runner.execute will remove and "outer" those of runJob.  A     *)
(* step that can hang has a deadline in the code: it always ends.          *)
(***************************************************************************)
EXTENDS FactoryImages

VARIABLES
    daemon,         \* state of each daemon
    held,           \* worker -> directories, containers and images of its jobs
    crashed         \* daemons that were killed once

hosts == <<daemon, held, crashed>>
vars == <<coordinatorRows, calls, answer, faults, images, hosts>>

Idle == [pc |-> "idle", kind |-> "none", mode |-> "none", att |-> 0,
         over |-> FALSE, given |-> "reviewed", made |-> None, disk |-> None,
         inner |-> {}, outer |-> {}, file |-> 1, part |-> 1, up |-> 0,
         list |-> {}, op |-> "none"]

Go(w, d) == daemon' = [daemon EXCEPT ![w] = d]
At(w, pc) == daemon[w].pc = pc
Hold(w, add, drop) == held' = [held EXCEPT ![w] = (@ \ drop) \cup add]
Stay(w) == UNCHANGED <<held, crashed, coordinatorRows, calls, answer, faults, images>>
Local == UNCHANGED <<crashed, coordinatorRows, calls, answer, faults, images>>

-----------------------------------------------------------------------------
(* Claiming: an image job first, then what the coordinator's claim returns *)

Serving(w) == At(w, "idle") /\ \A c \in calls : c.w = w => ~c.waits

BuildClaimable ==
    \/ build.status = "queued"
    \/ build.status = "leased" /\ ~build.live /\ build.att < MaxAttempt

Claimed(w, kind, mode, att) ==
    Go(w, [Idle EXCEPT !.pc = "check", !.kind = kind, !.mode = mode, !.att = att])

(* A claim whose answer is lost leaves the job leased. *)
ClaimLost(w) == Go(w, Idle) /\ Fault
ClaimKept(w, kind, mode, att) == Claimed(w, kind, mode, att) /\ UNCHANGED faults

ClaimImage(w) ==
    /\ Serving(w)
    /\ LeaseImage(w)
    /\ ClaimLost(w) \/ ClaimKept(w, "image", "none", 1)
    /\ UNCHANGED <<held, crashed, coordinatorRows, calls, answer, iuploads, inspection>>

ClaimInspection(w) ==
    /\ Serving(w) /\ ~ImageClaimable
    /\ LeaseInspection(w)
    /\ ClaimLost(w) \/ ClaimKept(w, "inspection", "none", inspection.att + 1)
    /\ UNCHANGED <<held, crashed, coordinatorRows, calls, answer, image, iuploads>>

ClaimBuild(w) ==
    /\ Serving(w) /\ ~ImageClaimable /\ ~InspectionClaimable
    /\ BuildClaimable
    /\ build' = [build EXCEPT !.status = "leased", !.att = @ + 1, !.worker = w, !.live = TRUE]
    /\ ClaimLost(w) \/ ClaimKept(w, "build", build.mode, build.att + 1)
    /\ UNCHANGED <<held, crashed, uploads, artifacts, abi, calls, answer, images>>

-----------------------------------------------------------------------------
(* The end of a job *)

(* execute returns an error: its deferred removals run, then the failure is *)
(* reported (reportFailure); nothing is left of "extra" either              *)
Unwind(w, extra) ==
    /\ Go(w, [daemon[w] EXCEPT !.pc = "failing", !.inner = {}])
    /\ Hold(w, {}, daemon[w].inner \cup extra)

(* a step of execute or of the fetch before it: done, unless its context is *)
(* over or it fails                                                         *)
Advance(w, d) == ~daemon[w].over /\ Go(w, d)
Step(w, from, d, add, drop) ==
    /\ At(w, from) /\ daemon[w].kind = "build"
    /\ \/ Advance(w, d) /\ Hold(w, add, drop)
       \/ Unwind(w, drop)
    /\ Local

(* runJob returns: directory of the sources, and the job's after a success *)
Return(w) ==
    /\ At(w, "return")
    /\ Go(w, Idle)
    /\ Hold(w, {}, daemon[w].inner \cup daemon[w].outer)
    /\ Local

(* validateJob: what the job names is refused, and the refusal reported; a  *)
(* lease that has expired by the daemon's clock is left without a report    *)
CheckJob(w) ==
    /\ At(w, "check")
    /\ LET d == daemon[w] IN
       CASE d.kind = "build" ->
              \/ Go(w, [d EXCEPT !.pc = "fetch", !.outer = {"sources"}])
                 /\ Hold(w, {"sources"}, {})
              \/ Go(w, [d EXCEPT !.pc = "failing"]) /\ UNCHANGED held
              \/ Go(w, [d EXCEPT !.pc = "return"]) /\ UNCHANGED held
         [] d.kind = "image" ->
              \/ Go(w, [d EXCEPT !.pc = "iinputs", !.outer = {"root"}])
                 /\ Hold(w, {"root"}, {})
              \/ Go(w, [d EXCEPT !.pc = "failing"]) /\ UNCHANGED held
              \/ Go(w, [d EXCEPT !.pc = "return"]) /\ UNCHANGED held
         [] d.kind = "inspection" ->
              \/ Go(w, [d EXCEPT !.pc = "minputs"]) /\ UNCHANGED held
              \/ Go(w, [d EXCEPT !.pc = "return"]) /\ UNCHANGED held
    /\ Local

-----------------------------------------------------------------------------
(* A build: what the container is given.  What arrives may be other bytes  *)
(* than were reviewed; each check below compares a digest.                 *)

Arrived == {"reviewed", "other"}
Given(d, got) == IF got = "reviewed" THEN d.given ELSE "other"
DigestAgrees(got) == got = "reviewed"

(* fetchSourceWithRequester: hashed while it is written, renamed if equal *)
FetchSources(w) ==
    \E got \in Arrived :
        LET d == daemon[w] IN
        IF DigestAgrees(got)
        THEN Step(w, "fetch", [d EXCEPT !.pc = "inputs", !.inner = {"job"}], {"job"}, {})
        ELSE At(w, "fetch") /\ Unwind(w, {}) /\ Local

(* fetchPrivateInput, for every object of the lock: size and digest *)
\* Mutant: the size of the download is compared, its digest is not.
InputAgreesBySize(got) == got \in Arrived
InputAgrees(got) == got = "reviewed"
MaterializeInputs(w) ==
    /\ daemon[w].mode = "frozen"
    /\ \E got \in Arrived :
        LET d == daemon[w] IN
        IF InputAgrees(got)
        THEN Step(w, "inputs", [d EXCEPT !.pc = "stage", !.given = Given(d, got)], {}, {})
        ELSE At(w, "inputs") /\ Unwind(w, {}) /\ Local

(* materializeDependencyPlan: packages and signatures of the plan, checked *)
(* against it and against the key it pins                                  *)
PackageAgrees(got) == got = "reviewed"
MaterializePlan(w) ==
    /\ daemon[w].mode = "planned"
    /\ \E got \in Arrived :
        LET d == daemon[w] IN
        IF PackageAgrees(got)
        THEN Step(w, "inputs", [d EXCEPT !.pc = "stage", !.given = Given(d, got)], {}, {})
        ELSE At(w, "inputs") /\ Unwind(w, {}) /\ Local

(* the recipe is written and the sources, hashed again, copied beside it *)
StageSources(w) == Step(w, "stage", [daemon[w] EXCEPT !.pc = "image"], {}, {})

(* ensureImageReference: pulled if absent; the digest must be the pinned one *)
ImagePinned(got) == got = "reviewed"
EnsureImage(w) ==
    \E got \in Arrived :
        LET d == daemon[w] IN
        IF ImagePinned(got)
        THEN Step(w, "image", [d EXCEPT !.pc = "shell", !.given = Given(d, got)], {}, {})
        ELSE At(w, "image") /\ Unwind(w, {}) /\ Local

(* checkShell, in a container of its own that is removed with its run *)
CheckShell(w) == Step(w, "shell", [daemon[w] EXCEPT !.pc = "prepare"], {}, {})

(* prepareDependenciesWithPlan: a container of that name is removed first, *)
(* the dependencies are installed in a new one and it is committed         *)
CreatePrep(w) ==
    /\ daemon[w].mode = "planned"
    /\ Step(w, "prepare", [daemon[w] EXCEPT !.pc = "preparing"], {"prep"}, {"prep", "prepared"})

\* Mutant: a failed installation leaves its container.
PrepCleanupForgotten == {"prepared"}
PrepCleanup == {"prep", "prepared"}
FinishPrep(w) ==
    /\ daemon[w].mode = "planned" /\ At(w, "preparing")
    /\ \/ /\ Advance(w, [daemon[w] EXCEPT !.pc = "build", !.inner = @ \cup {"prepared"}])
          /\ Hold(w, {"prepared"}, {"prep"})
       \/ Unwind(w, PrepCleanup)
    /\ Local

(* prepareFrozenEnvironment: no network; a root is installed from the      *)
(* retained inputs, imported and finalized.  The first container is run    *)
(* under its name without removing another of that name.                   *)
CreateFrozen(w) ==
    /\ daemon[w].mode = "frozen" /\ At(w, "prepare")
    /\ \/ /\ "prep" \notin held[w]
          /\ Advance(w, [daemon[w] EXCEPT !.pc = "preparing"])
          /\ Hold(w, {"prep", "frozen-root"}, {})
       \/ Unwind(w, {"prep"})
    /\ Local

FinishFrozen(w) ==
    /\ daemon[w].mode = "frozen" /\ At(w, "preparing")
    /\ \/ /\ Advance(w, [daemon[w] EXCEPT !.pc = "build", !.inner = @ \cup {"prepared"}])
          /\ Hold(w, {"prepared"}, {"prep", "frozen-root"})
       \/ Unwind(w, {"prep", "frozen-root", "prepared"})
    /\ Local

(* build: no network, the job's directories mounted.  A container of that  *)
(* name left by a killed daemon makes the run fail; either way it is then  *)
(* removed (runContainer).                                                 *)
StartBuild(w) ==
    /\ At(w, "build")
    /\ \/ /\ "build" \notin held[w]
          /\ Advance(w, [daemon[w] EXCEPT !.pc = "building"])
          /\ Hold(w, {"build"}, {})
       \/ Unwind(w, {"build"})
    /\ Local

FinishBuild(w) ==
    LET d == daemon[w]
        bytes == [att |-> d.att, from |-> d.given]
    IN Step(w, "building", [d EXCEPT !.pc = "collect", !.made = bytes, !.disk = bytes],
            {}, {"build"})

(* collectOutputs and finishOutputs: every package and nothing else, its   *)
(* identity read from the archive, its digest taken                        *)
CollectOutputs(w) == Step(w, "collect", [daemon[w] EXCEPT !.pc = "install"], {}, {})

(* testOutputGroup: the packages installed together, analysed, then again  *)
(* on the runtime environment where the smoke commands run                 *)
CreateInstall(w) ==
    Step(w, "install", [daemon[w] EXCEPT !.pc = "installing"], {"install"},
         {"install", "installed"})

FinishInstall(w) ==
    /\ At(w, "installing")
    /\ \/ /\ Advance(w, [daemon[w] EXCEPT !.pc = "smoke"])
          /\ Hold(w, {"installed"}, {"install"})
       \/ Unwind(w, {"install", "installed"})
    /\ Local

(* The success of execute keeps the job's directory for the upload. *)
SmokeOutputs(w) ==
    /\ At(w, "smoke")
    /\ \/ /\ Advance(w, [daemon[w] EXCEPT !.pc = "log", !.inner = {},
                                          !.outer = @ \cup {"job"}])
          /\ Hold(w, {}, (daemon[w].inner \ {"job"}) \cup {"installed"})
       \/ Unwind(w, {"installed"})
    /\ Local

(* A file of the job changes on disk before it is sent. *)
DiskCorrupts(w) ==
    /\ daemon[w].made # None /\ daemon[w].disk = daemon[w].made /\ Fault
    /\ Go(w, [daemon[w] EXCEPT !.disk = Corrupt])
    /\ UNCHANGED <<held, crashed, coordinatorRows, calls, answer, images>>

-----------------------------------------------------------------------------
(* Requests: one at a time, each under the client's timeout *)

Call(w, op, u) ==
    LET d == daemon[w] IN
    /\ calls' = calls \cup
          {[w |-> w, op |-> op, stage |-> "read", waits |-> TRUE, att |-> d.att,
            file |-> d.file, part |-> d.part, up |-> u, list |-> d.list,
            sha |-> IF op \in {"part", "ipart"} THEN d.disk ELSE d.made]}
    /\ answer' = [answer EXCEPT ![w] = None]
    /\ Go(w, [d EXCEPT !.pc = "wait", !.op = op])
    /\ UNCHANGED <<held, crashed, coordinatorRows, faults, images>>

(* The coordinator's cancellation is looked at once more when the build is *)
(* done; from here on the job's requests use the daemon's own context.     *)
SendLog(w) ==
    /\ At(w, "log")
    /\ IF daemon[w].over
       THEN Go(w, [daemon[w] EXCEPT !.pc = "failing"]) /\ Stay(w)
       ELSE Call(w, "log", 0)

(* runJob hashes each output again before its upload starts *)
HashOutput(w) ==
    /\ At(w, "hash")
    /\ IF daemon[w].disk = daemon[w].made THEN Call(w, "start", 0)
       ELSE Go(w, [daemon[w] EXCEPT !.pc = "failing"]) /\ Stay(w)

SendPart(w) == At(w, "part") /\ Call(w, "part", daemon[w].up)
SendComplete(w) == At(w, "complete") /\ Call(w, "complete", daemon[w].up)
SendAbort(w) == At(w, "abort") /\ Call(w, "abort", daemon[w].up)
SendABI(w) == At(w, "abi") /\ Call(w, "abi", 0)
SendSuccess(w) == At(w, "succeed") /\ Call(w, "succeeded", 0)

(* reportFailure, completeFactoryImageFailure *)
SendFailure(w) ==
    /\ At(w, "failing")
    /\ Call(w, IF daemon[w].kind = "image" THEN "ifailed" ELSE "failed", 0)

(* what uploadArtifact, uploadABI and runJob do with an answer *)
NextFile(d, u, pc, end) ==
    IF d.file < NFiles THEN [d EXCEPT !.pc = pc, !.file = @ + 1, !.part = 1, !.list = @ \cup u]
    ELSE [d EXCEPT !.pc = end, !.file = 1, !.part = 1, !.list = @ \cup u]
NextPart(d, pc, end) ==
    IF d.part < NParts THEN [d EXCEPT !.pc = pc, !.part = @ + 1] ELSE [d EXCEPT !.pc = end]

After(d, a) ==
    CASE d.op = "log" -> [d EXCEPT !.pc = IF a.ok THEN "hash" ELSE "failing"]
      [] d.op = "start" ->
           IF ~a.ok THEN [d EXCEPT !.pc = "failing"]
           ELSE IF a.done THEN NextFile(d, {a.up}, "hash", "abi")
           ELSE [d EXCEPT !.pc = "part", !.up = a.up]
      [] d.op = "part" ->
           IF a.ok THEN NextPart(d, "part", "complete") ELSE [d EXCEPT !.pc = "abort"]
      [] d.op = "complete" ->
           IF a.ok THEN NextFile(d, {a.up}, "hash", "abi") ELSE [d EXCEPT !.pc = "abort"]
      [] d.op = "abi" ->
           IF a.ok THEN NextFile(d, {}, "abi", "succeed") ELSE [d EXCEPT !.pc = "failing"]
      [] d.op = "abort" -> [d EXCEPT !.pc = "failing"]
      [] d.op = "istart" ->
           IF a.ok THEN [d EXCEPT !.pc = "ipart", !.up = a.up] ELSE [d EXCEPT !.pc = "failing"]
      [] d.op = "ipart" ->
           IF a.ok THEN NextPart(d, "ipart", "icomplete") ELSE [d EXCEPT !.pc = "failing"]
      [] d.op = "icomplete" ->
           [d EXCEPT !.pc = IF a.ok THEN "ievidence" ELSE "failing"]
      [] OTHER -> [d EXCEPT !.pc = "return"]

Heard(w) ==
    /\ At(w, "wait") /\ answer[w] # None
    /\ Go(w, After(daemon[w], answer[w]))
    /\ answer' = [answer EXCEPT ![w] = None]
    /\ UNCHANGED <<held, crashed, coordinatorRows, calls, faults, images>>

(* The HTTP timeout: no answer of that request will be read. *)
Abandoned(w) == {IF c.w = w THEN [c EXCEPT !.waits = FALSE] ELSE c : c \in calls}
Lost(w) == \A c \in calls : c.w = w => ~c.waits
\* Mutant: a request has no timeout; only an answer ends the wait.
UnansweredServed(w) == At(w, "wait") /\ answer[w] = None /\ ~Lost(w)
Unanswered(w) == At(w, "wait") /\ answer[w] = None
GiveUp(w) ==
    /\ Unanswered(w)
    /\ IF Lost(w) THEN UNCHANGED faults ELSE Fault
    /\ calls' = Abandoned(w)
    /\ Go(w, After(daemon[w], [ok |-> FALSE, up |-> 0, done |-> FALSE]))
    /\ UNCHANGED <<held, crashed, coordinatorRows, answer, images>>

-----------------------------------------------------------------------------
(* A private image: inputs fetched and their signatures verified, the       *)
(* builder run in a container, its output uploaded and described            *)

ImageInputAgrees(got) == got = "reviewed"
ImageInputs(w) ==
    /\ At(w, "iinputs")
    /\ \E got \in Arrived :
         IF ImageInputAgrees(got) /\ ~daemon[w].over
         THEN Go(w, [daemon[w] EXCEPT !.pc = "ibuild", !.given = Given(daemon[w], got)])
         ELSE Go(w, [daemon[w] EXCEPT !.pc = "failing"])
    /\ UNCHANGED held /\ Local

StartImage(w) ==
    /\ At(w, "ibuild")
    /\ \/ /\ "builder" \notin held[w] /\ ~daemon[w].over
          /\ Go(w, [daemon[w] EXCEPT !.pc = "ibuilding", !.outer = @ \cup {"builder"}])
          /\ Hold(w, {"builder"}, {})
       \/ /\ Go(w, [daemon[w] EXCEPT !.pc = "failing", !.outer = @ \cup {"builder"}])
          /\ UNCHANGED held
    /\ Local

FinishImage(w) ==
    /\ At(w, "ibuilding")
    /\ LET d == daemon[w]
           bytes == [att |-> d.att, from |-> d.given] IN
       \/ /\ ~d.over
          /\ Go(w, [d EXCEPT !.pc = "ihash", !.made = bytes, !.disk = bytes])
       \/ Go(w, [d EXCEPT !.pc = "failing"])
    /\ Hold(w, {}, {"builder"})
    /\ Local

(* The upload runs under the job's context, which a cancellation ends. *)
SendImage(w) ==
    /\ \E s \in {<<"ihash", "istart">>, <<"ipart", "ipart">>, <<"icomplete", "icomplete">>} :
          /\ At(w, s[1])
          /\ IF daemon[w].over THEN Go(w, [daemon[w] EXCEPT !.pc = "failing"]) /\ Stay(w)
             ELSE Call(w, s[2], daemon[w].up)

SendEvidence(w) == At(w, "ievidence") /\ Call(w, "isucceeded", daemon[w].up)

-----------------------------------------------------------------------------
(* A recipe inspection: any failed heartbeat ends it without a report *)

InspectInputs(w) ==
    /\ At(w, "minputs")
    /\ \E got \in Arrived :
         LET good == InputAgrees(got) /\ ~daemon[w].over IN
         Go(w, [daemon[w] EXCEPT !.pc = IF good THEN "minspect" ELSE "mreport",
                                 !.op = "mfailed",
                                 !.given = IF good THEN Given(daemon[w], got) ELSE @,
                                 !.outer = {"job"}])
    /\ Hold(w, {"job"}, {}) /\ Local

Inspect(w) ==
    /\ At(w, "minspect")
    /\ Hold(w, {"inspecting"}, {})
    /\ Go(w, [daemon[w] EXCEPT !.pc = "mend"]) /\ Local

EndInspection(w) ==
    /\ At(w, "mend")
    /\ \E result \in {"msucceeded", "mfailed"} :
         Go(w, [daemon[w] EXCEPT !.pc = "mreport",
                   !.op = IF daemon[w].over THEN "mfailed" ELSE result])
    /\ Hold(w, {}, {"inspecting"}) /\ Local

SendReport(w) ==
    /\ At(w, "mreport")
    /\ IF daemon[w].over THEN Go(w, [daemon[w] EXCEPT !.pc = "return"]) /\ Stay(w)
       ELSE Call(w, daemon[w].op, 0)

-----------------------------------------------------------------------------
(* heartbeatLoop: an answer that says cancel ends the job's context; an    *)
(* error is logged, except by an inspection                                *)
Cancelled(d, w) ==
    CASE d.kind = "build" ->
           build.status = "cancelled" /\ build.att = d.att /\ build.worker = w
      [] d.kind = "image" -> image.status = "cancelled"
      [] d.kind = "inspection" -> ~InspectionLeased([att |-> d.att, w |-> w])
      [] OTHER -> FALSE

Heartbeat(w) ==
    /\ ~daemon[w].over /\ daemon[w].pc \notin {"idle", "check", "return"}
    /\ Cancelled(daemon[w], w)
    /\ Go(w, [daemon[w] EXCEPT !.over = TRUE])
    /\ Stay(w)

(* The process is told to stop: commands are interrupted, requests cannot  *)
(* be sent any more, the deferred calls still run.                         *)
Containers == {"prep", "frozen-root", "build", "install", "installed", "builder",
               "inspecting", "prepared"}
Stop(w) ==
    /\ ~At(w, "idle") /\ Fault
    /\ Go(w, Idle)
    /\ Hold(w, {}, daemon[w].inner \cup daemon[w].outer
                     \cup (IF At(w, "check") THEN {} ELSE Containers))
    /\ calls' = Abandoned(w) /\ answer' = [answer EXCEPT ![w] = None]
    /\ UNCHANGED <<crashed, coordinatorRows, images>>

(* It is killed: everything it made stays on the host. *)
Crash(w) ==
    /\ ~At(w, "idle") /\ Fault
    /\ Go(w, Idle)
    /\ crashed' = crashed \cup {w}
    /\ calls' = Abandoned(w) /\ answer' = [answer EXCEPT ![w] = None]
    /\ UNCHANGED <<held, coordinatorRows, images>>

-----------------------------------------------------------------------------
Work(w) ==
    \/ CheckJob(w) \/ FetchSources(w) \/ MaterializeInputs(w) \/ MaterializePlan(w)
    \/ StageSources(w) \/ EnsureImage(w) \/ CheckShell(w)
    \/ CreatePrep(w) \/ FinishPrep(w) \/ CreateFrozen(w) \/ FinishFrozen(w)
    \/ StartBuild(w) \/ FinishBuild(w) \/ CollectOutputs(w)
    \/ CreateInstall(w) \/ FinishInstall(w) \/ SmokeOutputs(w)
    \/ SendLog(w) \/ HashOutput(w) \/ SendPart(w) \/ SendComplete(w) \/ SendAbort(w)
    \/ SendABI(w) \/ SendSuccess(w) \/ SendFailure(w) \/ Heard(w)
    \/ ImageInputs(w) \/ StartImage(w) \/ FinishImage(w) \/ SendImage(w) \/ SendEvidence(w)
    \/ InspectInputs(w) \/ Inspect(w) \/ EndInspection(w) \/ SendReport(w)
    \/ Return(w)

Claim(w) == ClaimImage(w) \/ ClaimInspection(w) \/ ClaimBuild(w)

Serves == \E c \in calls :
    \/ Serve(c) /\ UNCHANGED <<images, hosts>>
    \/ ServeImage(c) /\ UNCHANGED hosts
Fails ==
    \/ \E c \in calls : (ServerFault(c) \/ ImageFails(c)) /\ UNCHANGED <<images, hosts>>
    \/ (Expire \/ Cancel) /\ UNCHANGED <<images, hosts>>
    \/ (EndRun \/ Lapse \/ CancelInspection) /\ UNCHANGED hosts
    \/ \E w \in Workers : DiskCorrupts(w) \/ Stop(w) \/ Crash(w)

Next ==
    \/ \E w \in Workers : Claim(w) \/ Work(w) \/ Heartbeat(w) \/ GiveUp(w)
    \/ Serves \/ Fails

(* One job is queued: a build from retained inputs or with a dependency    *)
(* plan, an image or an inspection.                                        *)
Init ==
    /\ BuildsInit
    /\ \E kind \in {"build", "image", "inspection"} :
        LET Status(k) == IF kind = k THEN "queued" ELSE "none"
            nobody == CHOOSE w \in Workers : TRUE IN
        /\ \E mode \in {"frozen", "planned"} :
             build = [status |-> Status("build"), att |-> 0, worker |-> nobody,
                      live |-> FALSE, mode |-> mode]
        /\ image = [status |-> Status("image"), worker |-> nobody, live |-> FALSE,
                    run |-> TRUE, artifact |-> 0]
        /\ inspection = [status |-> Status("inspection"), att |-> 0, worker |-> nobody,
                         live |-> FALSE, report |-> 0]
    /\ iuploads = <<>>
    /\ daemon = [w \in Workers |-> Idle]
    /\ held = [w \in Workers |-> {}]
    /\ crashed = {}

(* Every step of a job has a deadline (contexts of runJob, 30 s for a      *)
(* removal) and every request a timeout: the daemon's own steps are fair,  *)
(* and a request that is not killed is executed to its end.                *)
Fairness == /\ WF_vars(Serves)
            /\ \A w \in Workers : WF_vars(Work(w)) /\ WF_vars(GiveUp(w))
Spec == Init /\ [][Next]_vars /\ Fairness

-----------------------------------------------------------------------------
\* A daemon that is idle and was never killed has left no directory,
\* container or image of a job on the host, whichever step failed or was
\* interrupted (the deferred calls of runJob, execute and the Runner).
NothingLeft ==
    \A w \in Workers : At(w, "idle") /\ w \notin crashed => held[w] = {}

\* A claimed job ends: no failed or lost request, cancellation or expired
\* lease keeps a daemon from claiming again (runLoop, the timeouts).
JobEnds == \A w \in Workers : ~At(w, "idle") ~> At(w, "idle")

(* What the coordinator records as artifact of a build or of an image job is *)
(* the whole object that a reviewed input produced.                          *)
UploadsAreReviewed == ArtifactStored /\ ImageStored
=============================================================================
