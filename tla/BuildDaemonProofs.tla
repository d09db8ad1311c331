-------------------------- MODULE BuildDaemonProofs --------------------------
(* Proofs about BuildDaemon, for any number of workers, packages, parts,     *)
(* leases and failures.                                                      *)
(*                                                                           *)
(* Two questions.  What is left on a host?  HostInv names, for each point of *)
(* a job, what the deferred calls will remove and what the step under way    *)
(* will.  Which objects do artifacts name?  The deletions of                 *)
(* worker-uploads.ts are no transaction with the rows: what keeps an object  *)
(* that is recorded is that a daemon asks at most once for the completion of *)
(* a package of an attempt, with no part of it still being stored            *)
(* (RequestsInv), and that uploads of another attempt are only taken down    *)
(* when the lease has moved on (RowsInv).                                    *)
EXTENDS BuildDaemon, SequenceTheorems, TLAPS

Wrote(att) == [att |-> att, from |-> "reviewed"]

-----------------------------------------------------------------------------
(* Where a daemon is.                                                        *)
EarlyPcs == {"fetch", "inputs", "stage", "image", "shell", "prepare", "preparing",
             "build", "building", "collect", "install", "installing", "smoke", "log"}
UploadPcs == {"hash", "part", "complete"}
BuildPcs == EarlyPcs \cup UploadPcs \cup {"abort", "abi", "succeed"}
ImagePcs == {"iinputs", "ibuild", "ibuilding", "ihash", "ipart", "icomplete", "ievidence"}
InspectPcs == {"minputs", "minspect", "mend", "mreport"}
Pcs == BuildPcs \cup ImagePcs \cup InspectPcs
         \cup {"idle", "check", "wait", "failing", "return"}

BuildOps == {"log", "start", "part", "complete", "abort", "abi", "succeeded"}
ImageOps == {"istart", "ipart", "icomplete", "isucceeded", "ifailed"}
Ops == BuildOps \cup ImageOps \cup {"failed", "msucceeded", "mfailed"}
Kinds == {"build", "image", "inspection"}

Doing(d, pcs, ops) == d.pc \in pcs \/ (d.pc = "wait" /\ d.op \in ops)

(* The container has run. *)
HasMade(d) ==
    Doing(d, {"collect", "install", "installing", "smoke", "log", "ihash"} \cup UploadPcs,
          {"log", "start", "part", "complete"})

-----------------------------------------------------------------------------
(* Types.                                                                    *)
Things == Containers \cup {"sources", "job", "root"}
Bytes == Digests \cup {None}
Stages == {"read", "supersede", "superseded", "insert", "store", "record", "combine",
           "drop", "delete", "hash", "commit", "reread", "mark", "abort", "close"}

DaemonRecords ==
    [pc : Pcs, kind : Kinds \cup {"none"}, mode : {"none", "frozen", "planned"},
     att : 0..MaxAttempt, over : BOOLEAN, given : {"reviewed", "other"}, made : Bytes,
     disk : Bytes, inner : SUBSET Things, outer : SUBSET Things, file : Files,
     part : Parts, up : Nat, list : SUBSET Nat, op : Ops \cup {"none"}]
BuildRecords ==
    [status : {"none", "queued", "leased", "cancelled", "succeeded", "failed"},
     att : 0..MaxAttempt, worker : Workers, live : BOOLEAN, mode : {"frozen", "planned"}]
UploadRows ==
    [file : Files, att : Attempts, worker : Workers, sha : Bytes,
     status : {"active", "failed", "completed", "aborted"},
     mp : {"open", "aborted", "completed"}, object : Bytes,
     staged : [Parts -> Bytes], parts : [Parts -> Bytes]]
CallRecords ==
    [w : Workers, op : Ops, stage : Stages, waits : BOOLEAN, att : Attempts, file : Files,
     part : Parts, up : Nat, list : SUBSET Nat, sha : Bytes]
Answers == [ok : BOOLEAN, up : Nat, done : BOOLEAN] \cup {None}
ImageRecords ==
    [status : {"none", "queued", "leased", "cancelled", "succeeded", "failed"},
     worker : Workers, live : BOOLEAN, run : BOOLEAN, artifact : Nat]
ImageRows ==
    [worker : Workers, sha : Bytes, status : {"active", "completed"},
     mp : {"open", "completed"}, object : Bytes,
     staged : [Parts -> Bytes], parts : [Parts -> Bytes]]
InspectionRecords ==
    [status : {"none", "queued", "leased", "cancelled", "succeeded", "failed"},
     att : 0..MaxAttempt, worker : Workers, live : BOOLEAN, report : 0..MaxAttempt]

(* A row that is queued was never leased. *)
TypeInv ==
    /\ build \in BuildRecords /\ (build.status = "queued" => build.att = 0)
    /\ uploads \in Seq(UploadRows)
    /\ artifacts \in [Attempts -> [Files -> Nat]]
    /\ calls \subseteq CallRecords
    /\ answer \in [Workers -> Answers]
    /\ daemon \in [Workers -> DaemonRecords]
    /\ held \in [Workers -> SUBSET Things]
    /\ image \in ImageRecords
    /\ iuploads \in Seq(ImageRows)
    /\ inspection \in InspectionRecords
    /\ (inspection.status = "queued" => inspection.att = 0)

-----------------------------------------------------------------------------
(* A daemon by itself: all it was given is what was reviewed, and what it    *)
(* made names its attempt.                                                   *)
WorkOf(d) ==
    /\ d.given = "reviewed"
    /\ d.made \in {None, Wrote(d.att)}
    /\ HasMade(d) => d.made # None
    /\ d.pc # "idle" => d.kind # "none" /\ d.att \in Attempts
    /\ Doing(d, BuildPcs, BuildOps) => d.kind = "build"
    /\ Doing(d, ImagePcs, ImageOps) => d.kind = "image"
    /\ d.kind = "image" => d.att = 1
    /\ d.kind # "none" => d.att \in Attempts
    /\ d.pc = "mreport" => d.op \in {"msucceeded", "mfailed"}

(* What of the job the step under way removes, and no deferred call. *)
UnderWay(d) ==
    CASE d.pc = "preparing" -> IF d.mode = "planned" THEN {"prep"} ELSE {"prep", "frozen-root"}
      [] d.pc = "building" -> {"build"}
      [] d.pc = "installing" -> {"install"}
      [] d.pc = "smoke" -> {"installed"}
      [] d.pc = "ibuilding" -> {"builder"}
      [] d.pc = "mend" -> {"inspecting"}
      [] OTHER -> {}

HostOf(d, h) ==
    /\ h \subseteq d.inner \cup d.outer \cup UnderWay(d)
    /\ d.pc \in {"idle", "check", "minputs"} => d.inner = {} /\ d.outer = {}
    /\ d.pc = "fetch" => d.inner = {}

WorkInv == \A w \in Workers : WorkOf(daemon[w])
HostInv == \A w \in Workers \ crashed : HostOf(daemon[w], held[w])

-----------------------------------------------------------------------------
(* Requests.                                                                 *)
Waiting(w) == {c \in calls : c.w = w /\ c.waits}

(* A daemon waits for one request, the one it made last. *)
OneWaits ==
    \A w \in Workers :
        /\ (daemon[w].pc # "wait" \/ answer[w] # None) => Waiting(w) = {}
        /\ answer[w] # None => daemon[w].pc = "wait"
        /\ \A c, e \in Waiting(w) : c = e
        /\ \A c \in Waiting(w) : /\ c.op = daemon[w].op /\ c.att = daemon[w].att
                                 /\ c.file = daemon[w].file

Stores(c) == c.op \in {"part", "complete"}
For(c, a, f) == Stores(c) /\ c.att = a /\ c.file = f
Quiet(a, f) == artifacts[a][f] = 0 /\ \A c \in calls : ~For(c, a, f)

(* The first package no part or completion of which was asked for. *)
From(d) ==
    CASE Doing(d, EarlyPcs \cup UploadPcs \cup {"check"}, {"log", "start"}) -> d.file
      [] d.pc = "wait" /\ d.op \in {"part", "complete"} -> d.file + 1
      [] OTHER -> NFiles + 1

(* Attempts are of one daemon, and none is ahead of the row. *)
AttemptsInv ==
    /\ \A w \in Workers : daemon[w].kind = "build" => daemon[w].att <= build.att
    /\ \A w, v \in Workers : w # v /\ daemon[w].kind = "build" /\ daemon[v].kind = "build"
                                => daemon[w].att # daemon[v].att
    /\ \A c \in calls : c.op \in BuildOps => c.att <= build.att

(* A daemon asks for the completion of a package once, after its parts. *)
AsksOnce ==
    /\ \A w \in Workers : daemon[w].kind = "build" =>
         \A f \in Files : f >= From(daemon[w]) => Quiet(daemon[w].att, f)
    /\ \A w \in Workers : Doing(daemon[w], {}, {"part"}) =>
         /\ artifacts[daemon[w].att][daemon[w].file] = 0
         /\ \A c \in calls : For(c, daemon[w].att, daemon[w].file) => c \in Waiting(w)
    /\ \A c, e \in calls : Stores(c) /\ For(e, c.att, c.file) /\ c.op = "complete" => c = e
    /\ \A c \in calls : Stores(c) /\ (c.op = "complete" => c.stage \notin {"reread", "mark"})
                          => artifacts[c.att][c.file] = 0

RequestsInv == OneWaits /\ AttemptsInv /\ AsksOnce

-----------------------------------------------------------------------------
(* Rows and objects.                                                         *)
Upload(u, a, f) == u \in 1..Len(uploads) /\ uploads[u].att = a /\ uploads[u].file = f
Recorded(u) == \E a \in Attempts, f \in Files : artifacts[a][f] = u

RowOf(row) ==
    /\ row.sha = Wrote(row.att)
    /\ row.mp = "open" => row.object = None
    /\ row.att <= build.att
    /\ row.att = build.att => row.worker = build.worker

ArtifactsInv ==
    \A a \in Attempts, f \in Files :
        LET u == artifacts[a][f] IN
        u # 0 => /\ Upload(u, a, f)
                 /\ uploads[u].status # "active" /\ uploads[u].object = Wrote(a)

(* What a request in flight may rely on. *)
RequestOf(c) ==
    /\ c.op = "start" => c.sha = Wrote(c.att)
    /\ c.stage \in {"supersede", "superseded"} =>
         /\ c.up \in 1..Len(uploads) /\ uploads[c.up].att < build.att
         /\ ~Recorded(c.up)
    /\ c.op \in {"part", "complete", "abort"} =>
         /\ c.up # 0 => Upload(c.up, c.att, c.file)
         /\ c.stage # "read" => c.up # 0
    /\ c.op = "complete" /\ c.stage = "commit" =>
         uploads[c.up].object = Wrote(c.att) \/ c.att < build.att

UploadOf(d, a) ==
    /\ Doing(d, {"part", "complete", "abort"}, {"part", "complete"}) =>
         d.up = 0 \/ Upload(d.up, d.att, d.file)
    /\ Doing(d, {}, {"start"}) /\ a # None /\ a.ok =>
         a.up = 0 \/ Upload(a.up, d.att, d.file)

RowsInv ==
    /\ \A u \in 1..Len(uploads) : RowOf(uploads[u])
    /\ ArtifactsInv
    /\ \A c \in calls : RequestOf(c)
    /\ \A w \in Workers : UploadOf(daemon[w], answer[w])

-----------------------------------------------------------------------------
(* Images.                                                                   *)
Intact(u) == u \in 1..Len(iuploads) /\ iuploads[u].object = Wrote(1)

ImageRowOf(row) == row.sha = Wrote(1) /\ (row.mp = "open" => row.object = None)

JobInv ==
    /\ image.artifact # 0 => Intact(image.artifact)
    /\ image.status = "succeeded" => image.artifact # 0

ImageRequestOf(c) ==
    /\ c.op = "istart" => c.sha = Wrote(1)
    /\ c.op \in {"ipart", "icomplete"} => c.up \in 1..Len(iuploads)
    /\ c.op = "icomplete" /\ c.stage = "commit" => Intact(c.up)
    /\ c.op = "isucceeded" /\ c.stage = "commit" => image.artifact # 0

ImageUploadOf(d, a) ==
    /\ Doing(d, {"ipart", "icomplete"}, {"ipart"}) => d.up \in 1..Len(iuploads)
    /\ Doing(d, {}, {"istart"}) /\ a # None /\ a.ok => a.up \in 1..Len(iuploads)

ImagesInv ==
    /\ \A u \in 1..Len(iuploads) : ImageRowOf(iuploads[u])
    /\ JobInv
    /\ \A c \in calls : ImageRequestOf(c)
    /\ \A w \in Workers : ImageUploadOf(daemon[w], answer[w])

DaemonInv == TypeInv /\ WorkInv /\ HostInv /\ RequestsInv /\ RowsInv /\ ImagesInv

-----------------------------------------------------------------------------
(* Sequences of rows.                                                        *)
LEMMA UpdatedRow ==
    ASSUME NEW R, NEW s \in Seq(R), NEW i \in 1..Len(s), NEW e \in R
    PROVE  /\ [s EXCEPT ![i] = e] \in Seq(R)
           /\ Len([s EXCEPT ![i] = e]) = Len(s)
           /\ \A j \in 1..Len(s) : [s EXCEPT ![i] = e][j] = IF j = i THEN e ELSE s[j]
BY ExceptSeq

LEMMA AddedRow ==
    ASSUME NEW R, NEW s \in Seq(R), NEW e \in R
    PROVE  /\ Append(s, e) \in Seq(R)
           /\ Len(Append(s, e)) = Len(s) + 1
           /\ \A j \in 1..Len(s) : Append(s, e)[j] = s[j]
           /\ Append(s, e)[Len(s) + 1] = e
OBVIOUS

LEMMA BytesDiffer ==
    /\ \A a \in Attempts : Wrote(a) \in Digests /\ Wrote(a) \in Bytes /\ Wrote(a) # None
    /\ \A a, b \in Attempts : Wrote(a) = Wrote(b) => a = b
    /\ None \in Bytes /\ 1 \in Attempts
BY UploadsAssumption DEF Wrote, Digests, Bytes, Attempts

-----------------------------------------------------------------------------
(* A daemon moves on: whatever it waited for, it does no longer.             *)

LEMMA IdleSound == Idle \in DaemonRecords /\ WorkOf(Idle) /\ HostOf(Idle, {})
BY UploadsAssumption
DEF Idle, DaemonRecords, WorkOf, HostOf, Pcs, Kinds, Bytes, Ops, HasMade, Doing,
    EarlyPcs, UploadPcs, BuildPcs, ImagePcs, BuildOps, ImageOps, Files, Parts

(* The daemon w goes to d, which waits for nothing. *)
Moves(w, d) ==
    /\ w \in Workers /\ d \in DaemonRecords /\ d.pc # "wait"
    /\ daemon' = [daemon EXCEPT ![w] = d]
    /\ calls' = Abandoned(w)
    /\ answer' = [answer EXCEPT ![w] = None]

SameLease == build'.att = build.att /\ build'.worker = build.worker

LEMMA MovedDaemons ==
    ASSUME TypeInv, NEW w, NEW d, Moves(w, d)
    PROVE  /\ \A v \in Workers : daemon'[v] = IF v = w THEN d ELSE daemon[v]
           /\ \A v \in Workers : answer'[v] = IF v = w THEN None ELSE answer[v]
           /\ daemon' \in [Workers -> DaemonRecords] /\ answer' \in [Workers -> Answers]
BY DEF TypeInv, Moves, Answers

(* The request c is what e was, but that w does not wait for it. *)
Was(c, e, w) ==
    /\ c.op = e.op /\ c.stage = e.stage /\ c.att = e.att /\ c.file = e.file
    /\ c.up = e.up /\ c.sha = e.sha /\ c.w = e.w
    /\ c.waits => e.waits /\ e.w # w
    /\ c = IF e.w = w THEN [e EXCEPT !.waits = FALSE] ELSE e

LEMMA MovedCalls ==
    ASSUME TypeInv, NEW w, NEW d, Moves(w, d)
    PROVE  /\ calls' \subseteq CallRecords
           /\ \A c \in calls' : \E e \in calls : Was(c, e, w)
<1>1. \A c \in calls' : \E e \in calls : c = IF e.w = w THEN [e EXCEPT !.waits = FALSE] ELSE e
    BY DEF Moves, Abandoned
<1>2. ASSUME NEW e \in calls, NEW c,
             c = IF e.w = w THEN [e EXCEPT !.waits = FALSE] ELSE e
      PROVE  c \in CallRecords /\ Was(c, e, w)
    <2>1. e \in CallRecords
        BY DEF TypeInv
    <2>2. CASE e.w = w
        <3>1. [e EXCEPT !.waits = FALSE] \in CallRecords
            BY <2>1 DEF CallRecords
        <3> QED BY <1>2, <2>1, <2>2, <3>1 DEF CallRecords, Was
    <2>3. CASE e.w # w
        BY <1>2, <2>1, <2>3 DEF CallRecords, Was
    <2> QED BY <2>2, <2>3
<1> QED BY <1>1, <1>2

LEMMA MovedWaiting ==
    ASSUME TypeInv, NEW w, NEW d, Moves(w, d)
    PROVE  /\ Waiting(w)' = {}
           /\ \A v \in Workers \ {w} : Waiting(v)' = Waiting(v)
<1>1. Waiting(w)' = {}
    <2>1. \A c \in calls' : ~(c.w = w /\ c.waits)
        BY MovedCalls DEF Was
    <2> QED BY <2>1 DEF Waiting
<1>2. ASSUME NEW v \in Workers \ {w} PROVE Waiting(v)' = Waiting(v)
    <2>1. \A c \in Waiting(v) : c \in calls'
        BY <1>2 DEF Moves, Abandoned, Waiting
    <2>2. \A c \in Waiting(v)' : c \in calls
        BY <1>2, MovedCalls DEF Waiting, Was
    <2> QED BY <2>1, <2>2 DEF Waiting
<1> QED BY <1>1, <1>2

LEMMA MovedRequests ==
    ASSUME TypeInv, RequestsInv, NEW w, NEW d, Moves(w, d), build'.att = build.att,
           artifacts' = artifacts,
           d.kind = "build" => /\ daemon[w].kind = "build" /\ d.att = daemon[w].att
                               /\ \A f \in Files : f >= From(d) => Quiet(d.att, f)
    PROVE  RequestsInv'
<1>d. /\ \A v \in Workers : daemon'[v] = IF v = w THEN d ELSE daemon[v]
      /\ \A v \in Workers : answer'[v] = IF v = w THEN None ELSE answer[v]
    BY MovedDaemons
<1>c. \A c \in calls' : \E e \in calls : Was(c, e, w)
    BY MovedCalls
<1>w. Waiting(w)' = {} /\ \A v \in Workers \ {w} : Waiting(v)' = Waiting(v)
    BY MovedWaiting
<1>0. d.pc # "wait" /\ w \in Workers
    BY DEF Moves
<1> USE <1>d, <1>c, <1>w
<1>1. OneWaits'
    <2>1. ASSUME NEW v \in Workers
          PROVE  /\ (daemon'[v].pc # "wait" \/ answer'[v] # None) => Waiting(v)' = {}
                 /\ answer'[v] # None => daemon'[v].pc = "wait"
                 /\ \A c, e \in Waiting(v)' : c = e
                 /\ \A c \in Waiting(v)' : /\ c.op = daemon'[v].op /\ c.att = daemon'[v].att
                                           /\ c.file = daemon'[v].file
        <3>1. CASE v = w
            BY <3>1, <1>0
        <3>2. CASE v # w
            BY <3>2, <1>0 DEF RequestsInv, OneWaits
        <3> QED BY <3>1, <3>2
    <2> QED BY <2>1 DEF OneWaits
<1>2. AttemptsInv'
    BY <1>0 DEF RequestsInv, AttemptsInv, Was
<1>3. ASSUME NEW a, NEW f, Quiet(a, f) PROVE Quiet(a, f)'
    <2>1. ASSUME NEW c \in calls' PROVE ~For(c, a, f)
        <3>1. PICK e \in calls : Was(c, e, w)
            OBVIOUS
        <3> QED BY <1>3, <3>1 DEF Quiet, For, Stores, Was
    <2> QED BY <1>3, <2>1 DEF Quiet
<1>4. AsksOnce'
    <2>1. ASSUME NEW v \in Workers, daemon'[v].kind = "build"
          PROVE  \A f \in Files : f >= From(daemon'[v]) => Quiet(daemon[v].att, f)'
        <3>1. CASE v = w
            BY <1>0, <1>3, <2>1, <3>1
        <3>2. CASE v # w
            BY <1>0, <1>3, <2>1, <3>2 DEF RequestsInv, AsksOnce
        <3> QED BY <3>1, <3>2
    <2>2. ASSUME NEW v \in Workers, Doing(daemon'[v], {}, {"part"})
          PROVE  /\ artifacts'[daemon'[v].att][daemon'[v].file] = 0
                 /\ \A c \in calls' : For(c, daemon'[v].att, daemon'[v].file)
                                        => c \in Waiting(v)'
        <3>1. v # w /\ daemon'[v] = daemon[v] /\ Doing(daemon[v], {}, {"part"})
            BY <1>0, <2>2 DEF Doing
        <3>2. /\ artifacts[daemon[v].att][daemon[v].file] = 0
              /\ \A c \in calls : For(c, daemon[v].att, daemon[v].file) => c \in Waiting(v)
            BY <3>1 DEF RequestsInv, AsksOnce
        <3>3. ASSUME NEW c \in calls', For(c, daemon[v].att, daemon[v].file)
              PROVE  c \in Waiting(v)
            <4>1. PICK e \in calls : Was(c, e, w)
                OBVIOUS
            <4>2. e \in Waiting(v)
                BY <3>2, <3>3, <4>1 DEF For, Stores, Was
            <4> QED BY <3>1, <4>1, <4>2 DEF Waiting, Was
        <3> QED BY <3>1, <3>2, <3>3
    <2>3. ASSUME NEW c \in calls', NEW e \in calls',
                 Stores(c), For(e, c.att, c.file), c.op = "complete"
          PROVE  c = e
        <3>1. PICK x \in calls : Was(c, x, w)
            OBVIOUS
        <3>2. PICK y \in calls : Was(e, y, w)
            OBVIOUS
        <3>3. Stores(x) /\ For(y, x.att, x.file) /\ x.op = "complete"
            BY <2>3, <3>1, <3>2 DEF For, Stores, Was
        <3>4. x = y
            BY <3>3 DEF RequestsInv, AsksOnce
        <3> QED BY <3>1, <3>2, <3>4 DEF Was
    <2>4. ASSUME NEW c \in calls', Stores(c),
                 c.op = "complete" => c.stage \notin {"reread", "mark"}
          PROVE  artifacts'[c.att][c.file] = 0
        <3>1. PICK e \in calls : Was(c, e, w)
            OBVIOUS
        <3>2. Stores(e) /\ (e.op = "complete" => e.stage \notin {"reread", "mark"})
            BY <2>4, <3>1 DEF Stores, Was
        <3>3. artifacts[e.att][e.file] = 0
            BY <3>2 DEF RequestsInv, AsksOnce
        <3> QED BY <3>1, <3>3 DEF Was
    <2> QED BY <2>1, <2>2, <2>3, <2>4 DEF AsksOnce
<1> QED BY <1>1, <1>2, <1>4 DEF RequestsInv

LEMMA MovedRows ==
    ASSUME TypeInv, RowsInv, NEW w, NEW d, Moves(w, d), SameLease,
           UNCHANGED <<uploads, artifacts>>, UploadOf(d, None)
    PROVE  RowsInv'
<1> USE MovedDaemons, MovedCalls
<1>1. \A u \in 1..Len(uploads') : RowOf(uploads[u])'
    BY DEF RowsInv, RowOf, SameLease
<1>2. ArtifactsInv'
    BY DEF RowsInv, ArtifactsInv, Upload
<1>3. ASSUME NEW c \in calls' PROVE RequestOf(c)'
    <2>1. PICK e \in calls : Was(c, e, w)
        OBVIOUS
    <2>2. RequestOf(e)
        BY DEF RowsInv
    <2> QED BY <2>1, <2>2 DEF RequestOf, Upload, Recorded, SameLease, Was
<1>4. ASSUME NEW v \in Workers PROVE UploadOf(daemon[v], answer[v])'
    <2>1. CASE v = w
        BY <2>1 DEF UploadOf, Upload
    <2>2. CASE v # w
        BY <2>2 DEF UploadOf, Upload, RowsInv
    <2> QED BY <2>1, <2>2
<1> QED BY <1>1, <1>2, <1>3, <1>4 DEF RowsInv

LEMMA MovedImages ==
    ASSUME TypeInv, ImagesInv, NEW w, NEW d, Moves(w, d), iuploads' = iuploads,
           image'.artifact = image.artifact,
           image'.status = "succeeded" => image.status = "succeeded",
           ImageUploadOf(d, None)
    PROVE  ImagesInv'
<1> USE MovedDaemons, MovedCalls
<1>1. \A u \in 1..Len(iuploads') : ImageRowOf(iuploads[u])'
    BY DEF ImagesInv, ImageRowOf
<1>2. JobInv'
    BY DEF ImagesInv, JobInv, Intact
<1>3. \A c \in calls' : ImageRequestOf(c)'
    BY DEF ImagesInv, ImageRequestOf, Intact, Was
<1>4. \A v \in Workers : ImageUploadOf(daemon[v], answer[v])'
    BY DEF ImagesInv, ImageUploadOf
<1> QED BY <1>1, <1>2, <1>3, <1>4 DEF ImagesInv

Coordinator == <<build, uploads, artifacts, images>>

LEMMA MovesKeep ==
    ASSUME DaemonInv, NEW w \in Workers, NEW d, NEW h \in SUBSET Things, Moves(w, d),
           held' = [held EXCEPT ![w] = h], crashed' = crashed \/ crashed' = crashed \cup {w},
           UNCHANGED Coordinator, WorkOf(d), w \notin crashed' => HostOf(d, h),
           d.kind = "build" => /\ daemon[w].kind = "build" /\ d.att = daemon[w].att
                               /\ \A f \in Files : f >= From(d) => Quiet(d.att, f),
           UploadOf(d, None), ImageUploadOf(d, None)
    PROVE  DaemonInv'
<1> USE DEF DaemonInv
<1>u. UNCHANGED <<build, uploads, artifacts, image, iuploads, inspection>>
    BY DEF Coordinator, images
<1>d. \A v \in Workers : daemon'[v] = IF v = w THEN d ELSE daemon[v]
    BY MovedDaemons
<1>h. \A v \in Workers : held'[v] = IF v = w THEN h ELSE held[v]
    BY DEF TypeInv
<1>1. TypeInv'
    BY <1>u, MovedDaemons, MovedCalls DEF TypeInv
<1>2. WorkInv'
    BY <1>d DEF WorkInv
<1>3. HostInv'
    BY <1>d, <1>h DEF HostInv
<1>4. RequestsInv'
    BY <1>u, MovedRequests
<1>5. RowsInv'
    BY <1>u, MovedRows DEF SameLease
<1>6. ImagesInv'
    BY <1>u, MovedImages
<1> QED BY <1>1, <1>2, <1>3, <1>4, <1>5, <1>6

-----------------------------------------------------------------------------
(* Steps of a daemon by itself.                                              *)
Still == UNCHANGED <<calls, answer, build, uploads, artifacts, images, crashed>>

(* The daemon goes on with its job: no package it asked for is asked for     *)
(* again, and no upload is named that it did not name.                       *)
GoesOn(d, d2) ==
    /\ d.pc # "wait" /\ d2.pc # "wait"
    /\ \/ d2 = Idle
       \/ /\ d2.kind = d.kind /\ d2.att = d.att /\ From(d2) >= From(d)
          /\ ~Doing(d2, {"part", "complete", "abort", "ipart", "icomplete"}, {})

LEMMA NotWaiting ==
    ASSUME TypeInv, OneWaits, NEW w \in Workers, daemon[w].pc # "wait"
    PROVE  Abandoned(w) = calls /\ [answer EXCEPT ![w] = None] = answer /\ answer[w] = None
<1>1. \A c \in calls : c.w = w => ~c.waits
    BY DEF OneWaits, Waiting
<1>2. ASSUME NEW c \in calls, c.w = w PROVE [c EXCEPT !.waits = FALSE] = c
    BY <1>1, <1>2 DEF TypeInv, CallRecords
<1>3. Abandoned(w) = calls
    BY <1>2 DEF Abandoned
<1>4. answer[w] = None
    BY DEF OneWaits
<1> QED BY <1>3, <1>4 DEF TypeInv

LEMMA LocalKeeps ==
    ASSUME DaemonInv, NEW w \in Workers, NEW d \in DaemonRecords, NEW h \in SUBSET Things,
           GoesOn(daemon[w], d), WorkOf(d), w \notin crashed => HostOf(d, h),
           daemon' = [daemon EXCEPT ![w] = d], held' = [held EXCEPT ![w] = h], Still
    PROVE  DaemonInv'
<1>1. TypeInv /\ OneWaits /\ AsksOnce
    BY DEF DaemonInv, RequestsInv
<1>2. Moves(w, d)
    BY <1>1, NotWaiting DEF Moves, GoesOn, Still
<1>3. d.kind = "build" => /\ daemon[w].kind = "build" /\ d.att = daemon[w].att
                          /\ \A f \in Files : f >= From(d) => Quiet(d.att, f)
    <2>1. CASE d = Idle
        BY <2>1 DEF Idle
    <2>2. CASE d # Idle
        <3>1. d.kind = daemon[w].kind /\ d.att = daemon[w].att /\ From(d) >= From(daemon[w])
            BY <2>2 DEF GoesOn
        <3>2. From(d) \in Int /\ From(daemon[w]) \in Int
            <4>1. d.file \in Nat /\ daemon[w].file \in Nat
                BY <1>1 DEF TypeInv, DaemonRecords, Files
            <4>2. NFiles \in Nat
                BY UploadsAssumption
            <4> QED BY <4>1, <4>2 DEF From
        <3>3. ASSUME NEW f \in Files, f >= From(d) PROVE f >= From(daemon[w])
            BY <3>1, <3>2, <3>3 DEF Files
        <3>4. daemon[w].kind = "build" =>
                \A f \in Files : f >= From(daemon[w]) => Quiet(daemon[w].att, f)
            BY <1>1 DEF AsksOnce
        <3> QED BY <3>1, <3>3, <3>4
    <2> QED BY <2>1, <2>2
<1>4. UploadOf(d, None) /\ ImageUploadOf(d, None)
    BY DEF GoesOn, UploadOf, ImageUploadOf, Doing, Idle
<1> QED BY <1>2, <1>3, <1>4, MovesKeep DEF Coordinator, Still

(* The heartbeat and the disk change nothing of where a daemon is. *)
LEMMA TweakKeeps ==
    ASSUME DaemonInv, NEW w \in Workers, NEW d \in DaemonRecords,
           d.pc = daemon[w].pc, d.op = daemon[w].op, d.file = daemon[w].file,
           d.up = daemon[w].up, d.kind = daemon[w].kind, d.att = daemon[w].att,
           WorkOf(d), w \notin crashed => HostOf(d, held[w]),
           daemon' = [daemon EXCEPT ![w] = d], UNCHANGED held, Still
    PROVE  DaemonInv'
<1> USE DEF DaemonInv
<1>u. UNCHANGED <<calls, answer, build, uploads, artifacts, image, iuploads, inspection,
                  held, crashed>>
    BY DEF Still, images
<1>d. \A v \in Workers : daemon'[v] = IF v = w THEN d ELSE daemon[v]
    BY DEF TypeInv
<1>s. \A v \in Workers : /\ daemon'[v].pc = daemon[v].pc /\ daemon'[v].op = daemon[v].op
                         /\ daemon'[v].file = daemon[v].file /\ daemon'[v].up = daemon[v].up
                         /\ daemon'[v].kind = daemon[v].kind
                         /\ daemon'[v].att = daemon[v].att
    BY <1>d
<1>f. \A v \in Workers : From(daemon'[v]) = From(daemon[v])
    BY <1>s DEF From, Doing
<1>1. TypeInv'
    <2>1. daemon' \in [Workers -> DaemonRecords]
        BY DEF TypeInv
    <2> QED BY <1>u, <2>1 DEF TypeInv
<1>2. WorkInv'
    BY <1>d DEF WorkInv
<1>3. HostInv'
    BY <1>d, <1>u DEF HostInv
<1>4. RequestsInv'
    <2>1. OneWaits'
        BY <1>s, <1>u DEF RequestsInv, OneWaits, Waiting
    <2>2. AttemptsInv'
        BY <1>s, <1>u DEF RequestsInv, AttemptsInv
    <2>3. AsksOnce'
        BY <1>s, <1>f, <1>u DEF RequestsInv, AsksOnce, Quiet, For, Waiting, Doing
    <2> QED BY <2>1, <2>2, <2>3 DEF RequestsInv
<1>5. RowsInv'
    <2>1. \A v \in Workers : UploadOf(daemon[v], answer[v])'
        BY <1>s, <1>u DEF RowsInv, UploadOf, Doing, Upload
    <2>2. \A c \in calls : RequestOf(c)'
        BY <1>u DEF RowsInv, RequestOf, Upload, Recorded
    <2>3. ArtifactsInv'
        BY <1>u DEF RowsInv, ArtifactsInv, Upload
    <2> QED BY <1>u, <2>1, <2>2, <2>3 DEF RowsInv, RowOf
<1>6. ImagesInv'
    <2>1. \A v \in Workers : ImageUploadOf(daemon[v], answer[v])'
        BY <1>s, <1>u DEF ImagesInv, ImageUploadOf, Doing
    <2>2. \A c \in calls : ImageRequestOf(c)'
        BY <1>u DEF ImagesInv, ImageRequestOf, Intact
    <2> QED BY <1>u, <2>1, <2>2 DEF ImagesInv, ImageRowOf, JobInv, Intact
<1> QED BY <1>1, <1>2, <1>3, <1>4, <1>5, <1>6

-----------------------------------------------------------------------------
(* The steps of a job, one by one.                                           *)
LEMMA DaemonFacts ==
    ASSUME DaemonInv, NEW w \in Workers
    PROVE  /\ daemon[w] \in DaemonRecords /\ WorkOf(daemon[w])
           /\ w \notin crashed => HostOf(daemon[w], held[w])
           /\ held[w] \in SUBSET Things
BY DEF DaemonInv, TypeInv, WorkInv, HostInv

LEMMA LocalStill ==
    ASSUME Local
    PROVE  Still
BY DEF Local, Still, coordinatorRows

(* The failure of a step of execute: what it made and what was deferred go. *)
LEMMA UnwindKeeps ==
    ASSUME DaemonInv, NEW w \in Workers, NEW extra, Unwind(w, extra), Local,
           daemon[w].pc \notin {"idle", "wait"}, UnderWay(daemon[w]) \subseteq extra
    PROVE  DaemonInv'
<1> DEFINE d == [daemon[w] EXCEPT !.pc = "failing", !.inner = {}]
           h == (held[w] \ (daemon[w].inner \cup extra)) \cup {}
<1>0. /\ daemon[w] \in DaemonRecords /\ WorkOf(daemon[w])
      /\ w \notin crashed => HostOf(daemon[w], held[w])
      /\ held[w] \in SUBSET Things
    BY DaemonFacts
<1> USE <1>0
<1>1. d \in DaemonRecords
    BY DEF DaemonRecords, Pcs
<1>2. /\ d.pc = "failing" /\ d.inner = {} /\ d.outer = daemon[w].outer
      /\ d.kind = daemon[w].kind /\ d.att = daemon[w].att /\ d.file = daemon[w].file
      /\ d.given = daemon[w].given /\ d.made = daemon[w].made
    BY DEF DaemonRecords
<1>3. WorkOf(d)
    BY <1>2 DEF WorkOf, HasMade, Doing, EarlyPcs, UploadPcs, BuildPcs, ImagePcs
<1>4. w \notin crashed => HostOf(d, h)
    BY <1>2 DEF HostOf, UnderWay
<1>5. GoesOn(daemon[w], d)
    <2>1. From(d) >= From(daemon[w])
        BY <1>2, UploadsAssumption
        DEF From, Doing, EarlyPcs, UploadPcs, DaemonRecords, Files
    <2> QED BY <1>2, <2>1 DEF GoesOn, Doing
<1>6. daemon' = [daemon EXCEPT ![w] = d] /\ held' = [held EXCEPT ![w] = h]
    BY DEF Unwind, Go, Hold
<1> HIDE DEF d, h
<1>7. h \in SUBSET Things
    BY DEF h
<1> QED BY <1>1, <1>3, <1>4, <1>5, <1>6, <1>7, LocalKeeps, LocalStill

(* A step of execute. *)
LEMMA AdvanceKeeps ==
    ASSUME DaemonInv, NEW w \in Workers, NEW d \in DaemonRecords, NEW add, NEW drop,
           Advance(w, d), Hold(w, add, drop), Local, add \subseteq Things,
           daemon[w].pc # "wait",
           d.pc \notin {"wait", "part", "complete", "abort", "ipart", "icomplete"},
           d.kind = daemon[w].kind, d.att = daemon[w].att, From(d) >= From(daemon[w]),
           WorkOf(d),
           w \notin crashed => HostOf(d, (held[w] \ drop) \cup add)
    PROVE  DaemonInv'
<1>1. GoesOn(daemon[w], d)
    BY DEF GoesOn, Doing
<1>2. (held[w] \ drop) \cup add \in SUBSET Things
    BY DaemonFacts
<1> QED BY <1>1, <1>2, LocalKeeps, LocalStill DEF Advance, Go, Hold

(* A daemon that only goes on, with other removals deferred. *)
To(d, pc, i, o) == [d EXCEPT !.pc = pc, !.inner = i, !.outer = o]

LEMMA ToFields ==
    ASSUME NEW d \in DaemonRecords, NEW pc \in Pcs, NEW i \in SUBSET Things,
           NEW o \in SUBSET Things
    PROVE  /\ To(d, pc, i, o) \in DaemonRecords
           /\ To(d, pc, i, o).pc = pc /\ To(d, pc, i, o).kind = d.kind
           /\ To(d, pc, i, o).att = d.att /\ To(d, pc, i, o).file = d.file
           /\ To(d, pc, i, o).given = d.given /\ To(d, pc, i, o).made = d.made
           /\ To(d, pc, i, o).mode = d.mode /\ To(d, pc, i, o).op = d.op
           /\ To(d, pc, i, o).up = d.up
           /\ To(d, pc, i, o).inner = i /\ To(d, pc, i, o).outer = o
BY DEF To, DaemonRecords

LEMMA ToSame ==
    ASSUME NEW d \in DaemonRecords, NEW pc \in Pcs, NEW i \in SUBSET Things,
           NEW o \in SUBSET Things
    PROVE  /\ [d EXCEPT !.pc = pc] = To(d, pc, d.inner, d.outer)
           /\ [d EXCEPT !.pc = pc, !.inner = i] = To(d, pc, i, d.outer)
           /\ [d EXCEPT !.pc = pc, !.outer = o] = To(d, pc, d.inner, o)
           /\ [d EXCEPT !.pc = pc, !.inner = i, !.outer = o] = To(d, pc, i, o)
BY DEF To, DaemonRecords

MadePcs == {"collect", "install", "installing", "smoke", "log"}

LEMMA ToKeeps ==
    ASSUME DaemonInv, NEW w \in Workers, NEW pc \in EarlyPcs \ {"fetch"},
           NEW i \in SUBSET Things, NEW o \in SUBSET Things, NEW add, NEW drop,
           Advance(w, To(daemon[w], pc, i, o)), Hold(w, add, drop), Local,
           add \subseteq Things, daemon[w].pc \in EarlyPcs,
           pc \in MadePcs => daemon[w].pc \in MadePcs,
           w \notin crashed =>
             (held[w] \ drop) \cup add \subseteq
               i \cup o \cup UnderWay(To(daemon[w], pc, i, o))
    PROVE  DaemonInv'
<1> DEFINE d == To(daemon[w], pc, i, o)
<1>0. /\ daemon[w] \in DaemonRecords /\ WorkOf(daemon[w])
      /\ w \notin crashed => HostOf(daemon[w], held[w])
    BY DaemonFacts
<1>1. pc \in Pcs
    BY DEF Pcs, BuildPcs
<1>2. /\ d \in DaemonRecords
      /\ d.pc = pc /\ d.kind = daemon[w].kind /\ d.att = daemon[w].att
      /\ d.file = daemon[w].file /\ d.given = daemon[w].given /\ d.made = daemon[w].made
      /\ d.inner = i /\ d.outer = o
    BY <1>0, <1>1, ToFields
<1> HIDE DEF d
<1>3. WorkOf(d)
    BY <1>0, <1>2
    DEF WorkOf, HasMade, Doing, EarlyPcs, UploadPcs, BuildPcs, ImagePcs, MadePcs
<1>4. w \notin crashed => HostOf(d, (held[w] \ drop) \cup add)
    BY <1>0, <1>2 DEF HostOf, d, EarlyPcs
<1>5. From(d) >= From(daemon[w])
    <2>1. \A e : e.pc \in EarlyPcs => From(e) = e.file
        BY DEF From, Doing, EarlyPcs
    <2> QED BY <1>0, <1>2, <2>1 DEF DaemonRecords, Files
<1>6. d.pc \notin {"wait", "part", "complete", "abort", "ipart", "icomplete"}
    BY <1>2 DEF EarlyPcs
<1>7. daemon[w].pc # "wait"
    BY DEF EarlyPcs
<1>8. Advance(w, d)
    BY DEF d
<1> QED BY <1>2, <1>3, <1>4, <1>5, <1>6, <1>7, <1>8, AdvanceKeeps

(* A step of execute that defers nothing new. *)
LEMMA StepKeeps ==
    ASSUME DaemonInv, NEW w \in Workers, NEW from \in EarlyPcs,
           NEW pc \in EarlyPcs \ {"fetch"}, NEW i \in SUBSET Things, NEW add, NEW drop,
           Step(w, from, [daemon[w] EXCEPT !.pc = pc, !.inner = i], add, drop),
           add \subseteq Things, pc \in MadePcs => from \in MadePcs,
           UnderWay(daemon[w]) \subseteq drop,
           w \notin crashed =>
             (held[w] \ drop) \cup add \subseteq
               i \cup daemon[w].outer \cup UnderWay(To(daemon[w], pc, i, daemon[w].outer))
    PROVE  DaemonInv'
<1>1. daemon[w].pc = from /\ Local
    BY DEF Step, At
<1>2. CASE Unwind(w, drop)
    BY <1>1, <1>2, UnwindKeeps DEF EarlyPcs
<1>3. CASE Advance(w, [daemon[w] EXCEPT !.pc = pc, !.inner = i]) /\ Hold(w, add, drop)
    <2>1. daemon[w] \in DaemonRecords
        BY DaemonFacts
    <2>2. daemon[w].outer \in SUBSET Things /\ pc \in Pcs
        BY <2>1 DEF DaemonRecords, Pcs, BuildPcs
    <2>3. Advance(w, To(daemon[w], pc, i, daemon[w].outer))
        BY <1>3, <2>1, <2>2, ToSame
    <2> QED BY <1>1, <1>3, <2>2, <2>3, ToKeeps
<1> QED BY <1>2, <1>3 DEF Step

(* One that defers what it did, and only removes what was under way. *)
LEMMA PlainKeeps ==
    ASSUME DaemonInv, NEW w \in Workers, NEW from \in EarlyPcs \ {"fetch"},
           NEW pc \in EarlyPcs \ {"fetch"}, NEW add, NEW drop,
           Step(w, from, [daemon[w] EXCEPT !.pc = pc], add, drop),
           add \subseteq Things, pc \in MadePcs => from \in MadePcs,
           daemon[w].pc = from => UnderWay(daemon[w]) \subseteq drop,
           add \subseteq UnderWay([daemon[w] EXCEPT !.pc = pc])
    PROVE  DaemonInv'
<1>0. /\ daemon[w] \in DaemonRecords
      /\ w \notin crashed => HostOf(daemon[w], held[w])
      /\ daemon[w].pc = from
    BY DaemonFacts DEF Step, At
<1>1. pc \in Pcs /\ daemon[w].inner \in SUBSET Things /\ daemon[w].outer \in SUBSET Things
    BY <1>0 DEF Pcs, BuildPcs, DaemonRecords
<1>2. /\ [daemon[w] EXCEPT !.pc = pc] = To(daemon[w], pc, daemon[w].inner, daemon[w].outer)
      /\ [daemon[w] EXCEPT !.pc = pc] = [daemon[w] EXCEPT !.pc = pc, !.inner = daemon[w].inner]
    BY <1>0, <1>1, ToSame
<1>3. Step(w, from, [daemon[w] EXCEPT !.pc = pc, !.inner = daemon[w].inner], add, drop)
    BY <1>2
<1>4. w \notin crashed =>
        (held[w] \ drop) \cup add \subseteq
          daemon[w].inner \cup daemon[w].outer
            \cup UnderWay(To(daemon[w], pc, daemon[w].inner, daemon[w].outer))
    BY <1>0, <1>2 DEF HostOf
<1> QED BY <1>0, <1>1, <1>3, <1>4, StepKeeps

-----------------------------------------------------------------------------
(* A build, step by step.                                                    *)
LEMMA InputsKeep ==
    ASSUME DaemonInv, NEW w \in Workers,
           \/ FetchSources(w) \/ MaterializeInputs(w) \/ MaterializePlan(w) \/ EnsureImage(w)
    PROVE  DaemonInv'
<1>p. /\ \A pc \in {"fetch", "inputs", "stage", "image", "shell"} : pc \in EarlyPcs
      /\ \A pc \in {"inputs", "stage", "shell"} : pc \in EarlyPcs \ {"fetch"} /\ pc \notin MadePcs
      /\ {"job"} \in SUBSET Things /\ {} \in SUBSET Things
    BY DEF EarlyPcs, MadePcs, Things
<1>f. daemon[w].pc \in {"fetch", "inputs", "image"} => UnderWay(daemon[w]) = {}
    BY DEF UnderWay
<1>u. ASSUME NEW pc \in {"fetch", "inputs", "image"}, At(w, pc), Unwind(w, {}), Local
      PROVE  DaemonInv'
    BY <1>f, <1>u, UnwindKeeps DEF At
<1>1. CASE FetchSources(w)
    <2>1. PICK got \in Arrived :
            \/ Step(w, "fetch", [daemon[w] EXCEPT !.pc = "inputs", !.inner = {"job"}], {"job"}, {})
            \/ At(w, "fetch") /\ Unwind(w, {}) /\ Local
        BY <1>1 DEF FetchSources
    <2>2. CASE Step(w, "fetch", [daemon[w] EXCEPT !.pc = "inputs", !.inner = {"job"}], {"job"}, {})
        <3>1. daemon[w].pc = "fetch"
            BY <2>2 DEF Step, At
        <3>2. w \notin crashed =>
                (held[w] \ {}) \cup {"job"} \subseteq
                  {"job"} \cup daemon[w].outer
                    \cup UnderWay(To(daemon[w], "inputs", {"job"}, daemon[w].outer))
            BY <1>f, <3>1, DaemonFacts DEF HostOf
        <3>3. /\ "fetch" \in EarlyPcs /\ "inputs" \in EarlyPcs \ {"fetch"}
              /\ "inputs" \notin MadePcs /\ {"job"} \in SUBSET Things
              /\ UnderWay(daemon[w]) \subseteq {}
            BY <1>p, <1>f, <3>1
        <3> QED BY <2>2, <3>2, <3>3, StepKeeps
    <2> QED BY <1>u, <2>1, <2>2
<1>2. ASSUME NEW from \in {"inputs", "image"}, NEW pc \in {"stage", "shell"},
             NEW got \in Arrived,
             IF got = "reviewed"
             THEN Step(w, from, [daemon[w] EXCEPT !.pc = pc, !.given = Given(daemon[w], got)],
                       {}, {})
             ELSE At(w, from) /\ Unwind(w, {}) /\ Local
      PROVE  DaemonInv'
    <2>1. CASE got = "reviewed"
        <3>0. [daemon[w] EXCEPT !.pc = pc, !.given = Given(daemon[w], got)]
                = [daemon[w] EXCEPT !.pc = pc]
            BY <2>1, DaemonFacts DEF Given, DaemonRecords
        <3>1. Step(w, from, [daemon[w] EXCEPT !.pc = pc], {}, {})
            BY <1>2, <2>1, <3>0
        <3>2. from \in EarlyPcs \ {"fetch"} /\ pc \in EarlyPcs \ {"fetch"} /\ pc \notin MadePcs
            BY <1>p
        <3> QED BY <1>p, <1>f, <3>1, <3>2, PlainKeeps
    <2>2. CASE got # "reviewed"
        BY <1>2, <1>u, <2>2
    <2> QED BY <2>1, <2>2
<1>3. CASE MaterializeInputs(w)
    BY <1>2, <1>3 DEF MaterializeInputs, InputAgrees
<1>4. CASE MaterializePlan(w)
    BY <1>2, <1>4 DEF MaterializePlan, PackageAgrees
<1>5. CASE EnsureImage(w)
    BY <1>2, <1>5 DEF EnsureImage, ImagePinned
<1> QED BY <1>1, <1>3, <1>4, <1>5

LEMMA PlainStepsKeep ==
    ASSUME DaemonInv, NEW w \in Workers,
           \/ StageSources(w) \/ CheckShell(w) \/ CreatePrep(w)
           \/ CollectOutputs(w) \/ CreateInstall(w)
    PROVE  DaemonInv'
<1>p. /\ \A pc \in {"stage", "image", "shell", "prepare", "preparing", "collect", "install",
                    "installing"} : pc \in EarlyPcs \ {"fetch"}
      /\ {"image", "prepare", "preparing"} \cap MadePcs = {}
      /\ {"collect", "install", "installing"} \subseteq MadePcs
      /\ {"prep"} \in SUBSET Things /\ {"install"} \in SUBSET Things /\ {} \in SUBSET Things
    BY DEF EarlyPcs, MadePcs, Things, Containers
<1>f. daemon[w].pc \in {"stage", "shell", "prepare", "collect", "install"}
        => UnderWay(daemon[w]) = {}
    BY DEF UnderWay
<1>d. daemon[w] \in DaemonRecords
    BY DaemonFacts
<1>1. CASE StageSources(w)
    BY <1>1, <1>p, <1>f, PlainKeeps DEF StageSources
<1>2. CASE CheckShell(w)
    BY <1>2, <1>p, <1>f, PlainKeeps DEF CheckShell
<1>3. CASE CreatePrep(w)
    <2>1. {"prep"} \subseteq UnderWay([daemon[w] EXCEPT !.pc = "preparing"])
        BY <1>3, <1>d DEF CreatePrep, UnderWay, DaemonRecords
    <2> QED BY <1>3, <1>p, <1>f, <2>1, PlainKeeps DEF CreatePrep
<1>4. CASE CollectOutputs(w)
    BY <1>4, <1>p, <1>f, PlainKeeps DEF CollectOutputs
<1>5. CASE CreateInstall(w)
    <2>1. {"install"} \subseteq UnderWay([daemon[w] EXCEPT !.pc = "installing"])
        BY <1>5, <1>d DEF UnderWay, DaemonRecords
    <2> QED BY <1>5, <1>p, <1>f, <2>1, PlainKeeps DEF CreateInstall
<1> QED BY <1>1, <1>2, <1>3, <1>4, <1>5

(* The steps that create a container under way, or end one. *)
LEMMA ContainersKeep ==
    ASSUME DaemonInv, NEW w \in Workers,
           \/ FinishPrep(w) \/ CreateFrozen(w) \/ FinishFrozen(w) \/ StartBuild(w)
           \/ FinishInstall(w) \/ SmokeOutputs(w)
    PROVE  DaemonInv'
<1> DEFINE D == daemon[w]
<1>d. /\ D \in DaemonRecords /\ D.inner \in SUBSET Things /\ D.outer \in SUBSET Things
      /\ w \notin crashed => held[w] \subseteq D.inner \cup D.outer \cup UnderWay(D)
    BY DaemonFacts DEF DaemonRecords, HostOf
<1>p. /\ \A pc \in {"prepare", "preparing", "build", "building", "installing", "smoke", "log"} :
            pc \in EarlyPcs \ {"fetch"} /\ pc \in Pcs
      /\ {"preparing", "build", "building"} \cap MadePcs = {}
      /\ {"installing", "smoke", "log"} \subseteq MadePcs
      /\ \A x \in {"prep", "frozen-root", "prepared", "build", "installed", "install", "job"} :
            x \in Things
    BY DEF EarlyPcs, MadePcs, Things, Containers, Pcs, BuildPcs
<1>t. ASSUME NEW pc \in Pcs, NEW i \in SUBSET Things, NEW o \in SUBSET Things
      PROVE  /\ [D EXCEPT !.pc = pc] = To(D, pc, D.inner, D.outer)
             /\ [D EXCEPT !.pc = pc, !.inner = i] = To(D, pc, i, D.outer)
             /\ [D EXCEPT !.pc = pc, !.inner = i, !.outer = o] = To(D, pc, i, o)
             /\ To(D, pc, i, o).pc = pc /\ To(D, pc, i, o).mode = D.mode
    <2> HIDE DEF D
    <2>1. /\ [D EXCEPT !.pc = pc] = To(D, pc, D.inner, D.outer)
          /\ [D EXCEPT !.pc = pc, !.inner = i] = To(D, pc, i, D.outer)
          /\ [D EXCEPT !.pc = pc, !.inner = i, !.outer = o] = To(D, pc, i, o)
        BY <1>d DEF To, DaemonRecords
    <2>2. To(D, pc, i, o).pc = pc /\ To(D, pc, i, o).mode = D.mode
        BY <1>d, ToFields
    <2> QED BY <2>1, <2>2
<1>u. ASSUME NEW pc \in Pcs, NEW i \in SUBSET Things, NEW o \in SUBSET Things
      PROVE  /\ (pc = "preparing" /\ D.mode = "frozen") =>
                   UnderWay(To(D, pc, i, o)) = {"prep", "frozen-root"}
             /\ pc = "building" => UnderWay(To(D, pc, i, o)) = {"build"}
             /\ pc = "smoke" => UnderWay(To(D, pc, i, o)) = {"installed"}
    <2>1. To(D, pc, i, o).pc = pc /\ To(D, pc, i, o).mode = D.mode
        BY <1>d, ToFields
    <2> QED BY <2>1 DEF UnderWay
<1> HIDE DEF D
<1>a. ASSUME NEW pc \in EarlyPcs \ {"fetch"}, NEW i \in SUBSET Things,
             NEW o \in SUBSET Things, NEW add \in SUBSET Things, NEW drop,
             Advance(w, To(D, pc, i, o)), Hold(w, add, drop), Local,
             D.pc \in EarlyPcs, pc \in MadePcs => D.pc \in MadePcs,
             w \notin crashed =>
               (held[w] \ drop) \cup add \subseteq i \cup o \cup UnderWay(To(D, pc, i, o))
      PROVE  DaemonInv'
    BY <1>a, ToKeeps DEF D
<1>b. ASSUME NEW extra, Unwind(w, extra), Local, D.pc \notin {"idle", "wait"},
             UnderWay(D) \subseteq extra
      PROVE  DaemonInv'
    BY <1>b, UnwindKeeps DEF D
<1>1. CASE FinishPrep(w)
    <2>1. D.pc = "preparing" /\ UnderWay(D) = {"prep"} /\ Local
        BY <1>1 DEF FinishPrep, At, UnderWay, D
    <2>2. CASE Unwind(w, PrepCleanup)
        BY <1>b, <2>1, <2>2 DEF PrepCleanup
    <2>3. CASE /\ Advance(w, [D EXCEPT !.pc = "build", !.inner = @ \cup {"prepared"}])
               /\ Hold(w, {"prepared"}, {"prep"})
        <3>1. D.inner \cup {"prepared"} \in SUBSET Things /\ {"prepared"} \in SUBSET Things
            BY <1>d, <1>p
        <3>2. Advance(w, To(D, "build", D.inner \cup {"prepared"}, D.outer))
            BY <1>p, <1>t, <2>3, <3>1, <1>d
        <3> QED BY <1>a, <1>d, <1>p, <2>1, <2>3, <3>1, <3>2
    <2> QED BY <1>1, <2>2, <2>3 DEF FinishPrep, D
<1>2. CASE CreateFrozen(w)
    <2>1. D.pc = "prepare" /\ D.mode = "frozen" /\ UnderWay(D) = {} /\ Local
        BY <1>2 DEF CreateFrozen, At, UnderWay, D
    <2>2. CASE Unwind(w, {"prep"})
        BY <1>b, <2>1, <2>2
    <2>3. CASE /\ Advance(w, [D EXCEPT !.pc = "preparing"])
               /\ Hold(w, {"prep", "frozen-root"}, {})
        <3>1. Advance(w, To(D, "preparing", D.inner, D.outer))
            BY <1>p, <1>t, <2>3, <1>d
        <3>2. UnderWay(To(D, "preparing", D.inner, D.outer)) = {"prep", "frozen-root"}
            BY <1>p, <1>u, <1>d, <2>1
        <3>3. "preparing" \in EarlyPcs \ {"fetch"} /\ D.pc \in EarlyPcs
              /\ "preparing" \notin MadePcs /\ {"prep", "frozen-root"} \in SUBSET Things
            BY <1>p, <2>1
        <3> QED BY <1>a, <1>d, <2>1, <2>3, <3>1, <3>2, <3>3
    <2> QED BY <1>2, <2>2, <2>3 DEF CreateFrozen, D
<1>3. CASE FinishFrozen(w)
    <2>1. D.pc = "preparing" /\ UnderWay(D) = {"prep", "frozen-root"} /\ Local
        BY <1>3 DEF FinishFrozen, At, UnderWay, D
    <2>2. CASE Unwind(w, {"prep", "frozen-root", "prepared"})
        BY <1>b, <2>1, <2>2
    <2>3. CASE /\ Advance(w, [D EXCEPT !.pc = "build", !.inner = @ \cup {"prepared"}])
               /\ Hold(w, {"prepared"}, {"prep", "frozen-root"})
        <3>1. D.inner \cup {"prepared"} \in SUBSET Things /\ {"prepared"} \in SUBSET Things
            BY <1>d, <1>p
        <3>2. Advance(w, To(D, "build", D.inner \cup {"prepared"}, D.outer))
            BY <1>p, <1>t, <2>3, <3>1, <1>d
        <3> QED BY <1>a, <1>d, <1>p, <2>1, <2>3, <3>1, <3>2
    <2> QED BY <1>3, <2>2, <2>3 DEF FinishFrozen, D
<1>4. CASE StartBuild(w)
    <2>1. D.pc = "build" /\ UnderWay(D) = {} /\ Local
        BY <1>4 DEF StartBuild, At, UnderWay, D
    <2>2. CASE Unwind(w, {"build"})
        BY <1>b, <2>1, <2>2
    <2>3. CASE Advance(w, [D EXCEPT !.pc = "building"]) /\ Hold(w, {"build"}, {})
        <3>1. Advance(w, To(D, "building", D.inner, D.outer))
            BY <1>p, <1>t, <2>3, <1>d
        <3>2. UnderWay(To(D, "building", D.inner, D.outer)) = {"build"}
            BY <1>p, <1>u, <1>d
        <3> QED BY <1>a, <1>d, <1>p, <2>1, <2>3, <3>1, <3>2
    <2> QED BY <1>4, <2>2, <2>3 DEF StartBuild, D
<1>5. CASE FinishInstall(w)
    <2>1. D.pc = "installing" /\ UnderWay(D) = {"install"} /\ Local
        BY <1>5 DEF FinishInstall, At, UnderWay, D
    <2>2. CASE Unwind(w, {"install", "installed"})
        BY <1>b, <2>1, <2>2
    <2>3. CASE Advance(w, [D EXCEPT !.pc = "smoke"]) /\ Hold(w, {"installed"}, {"install"})
        <3>1. Advance(w, To(D, "smoke", D.inner, D.outer))
            BY <1>p, <1>t, <2>3, <1>d
        <3>2. UnderWay(To(D, "smoke", D.inner, D.outer)) = {"installed"}
            BY <1>p, <1>u, <1>d
        <3> QED BY <1>a, <1>d, <1>p, <2>1, <2>3, <3>1, <3>2
    <2> QED BY <1>5, <2>2, <2>3 DEF FinishInstall, D
<1>6. CASE SmokeOutputs(w)
    <2>1. D.pc = "smoke" /\ UnderWay(D) = {"installed"} /\ Local
        BY <1>6 DEF SmokeOutputs, At, UnderWay, D
    <2>2. CASE Unwind(w, {"installed"})
        BY <1>b, <2>1, <2>2
    <2>3. CASE /\ Advance(w, [D EXCEPT !.pc = "log", !.inner = {}, !.outer = @ \cup {"job"}])
               /\ Hold(w, {}, (D.inner \ {"job"}) \cup {"installed"})
        <3>1. D.outer \cup {"job"} \in SUBSET Things /\ {} \in SUBSET Things
            BY <1>d, <1>p
        <3>2. Advance(w, To(D, "log", {}, D.outer \cup {"job"}))
            <4>1. [D EXCEPT !.pc = "log", !.inner = {}, !.outer = @ \cup {"job"}]
                    = To(D, "log", {}, D.outer \cup {"job"})
                BY <1>d DEF DaemonRecords, To
            <4> QED BY <2>3, <4>1
        <3> QED BY <1>a, <1>d, <1>p, <2>1, <2>3, <3>1, <3>2
    <2> QED BY <1>6, <2>2, <2>3 DEF SmokeOutputs, D
<1> QED BY <1>1, <1>2, <1>3, <1>4, <1>5, <1>6

(* The container of the build has run: what it wrote is what was reviewed. *)
LEMMA FinishBuildKeeps ==
    ASSUME DaemonInv, NEW w \in Workers, FinishBuild(w)
    PROVE  DaemonInv'
<1> DEFINE D == daemon[w]
           bytes == [att |-> D.att, from |-> D.given]
           d == [D EXCEPT !.pc = "collect", !.made = bytes, !.disk = bytes]
<1>0. /\ D \in DaemonRecords /\ WorkOf(D) /\ (w \notin crashed => HostOf(D, held[w]))
    BY DaemonFacts
<1>1. /\ D.pc = "building" /\ Local
      /\ \/ Advance(w, d) /\ Hold(w, {}, {"build"})
         \/ Unwind(w, {"build"})
    BY DEF FinishBuild, Step, At
<1>2. UnderWay(D) = {"build"}
    BY <1>1 DEF UnderWay
<1>3. CASE Unwind(w, {"build"})
    BY <1>1, <1>2, <1>3, UnwindKeeps
<1>4. CASE Advance(w, d) /\ Hold(w, {}, {"build"})
    <2>1. D.att \in Attempts /\ D.kind = "build" /\ D.given = "reviewed"
        BY <1>0, <1>1 DEF WorkOf, Doing, BuildPcs, EarlyPcs
    <2>2. bytes = Wrote(D.att) /\ bytes \in Bytes /\ bytes # None
        BY <2>1, BytesDiffer DEF Wrote
    <2> HIDE DEF bytes
    <2>3. /\ d \in DaemonRecords /\ d.pc = "collect" /\ d.kind = D.kind /\ d.att = D.att
          /\ d.file = D.file /\ d.given = D.given /\ d.made = bytes
          /\ d.inner = D.inner /\ d.outer = D.outer
        <3>1. "collect" \in Pcs
            BY DEF Pcs, BuildPcs, EarlyPcs
        <3>2. d \in DaemonRecords
            BY <1>0, <2>2, <3>1 DEF DaemonRecords
        <3> QED BY <1>0, <3>2 DEF DaemonRecords
    <2> HIDE DEF d
    <2>4. WorkOf(d)
        BY <1>0, <2>1, <2>2, <2>3
        DEF WorkOf, HasMade, Doing, EarlyPcs, UploadPcs, BuildPcs, ImagePcs
    <2>5. w \notin crashed => HostOf(d, (held[w] \ {"build"}) \cup {})
        BY <1>0, <1>1, <1>2, <2>3 DEF HostOf
    <2>6. From(d) >= From(D)
        <3>1. \A e : e.pc \in EarlyPcs => From(e) = e.file
            BY DEF From, Doing, EarlyPcs
        <3>2. From(d) = D.file /\ From(D) = D.file
            BY <1>1, <2>3, <3>1 DEF EarlyPcs
        <3> QED BY <1>0, <3>2 DEF DaemonRecords, Files
    <2> QED BY <1>1, <1>4, <2>3, <2>4, <2>5, <2>6, AdvanceKeeps
<1> QED BY <1>1, <1>3, <1>4

-----------------------------------------------------------------------------
(* Images, inspections and the ends of a job.                                *)
AsidePcs == {"iinputs", "ibuild", "ibuilding", "ihash", "minputs", "minspect", "mend",
             "mreport", "failing", "return"}

LEMMA AsideFrom ==
    ASSUME NEW d \in DaemonRecords, NEW e \in DaemonRecords, e.pc \in AsidePcs, d.pc # "wait"
    PROVE  From(e) >= From(d)
<1>1. From(e) = NFiles + 1
    BY DEF From, Doing, AsidePcs, EarlyPcs, UploadPcs
<1>2. From(d) = d.file \/ From(d) = NFiles + 1
    BY DEF From, Doing, EarlyPcs, UploadPcs
<1> QED BY <1>1, <1>2, UploadsAssumption DEF DaemonRecords, Files

LEMMA AsideKeeps ==
    ASSUME DaemonInv, NEW w \in Workers, NEW d \in DaemonRecords, NEW h \in SUBSET Things,
           daemon[w].pc \notin {"wait", "idle"}, d.pc \in AsidePcs,
           d.kind = daemon[w].kind, d.att = daemon[w].att, d.given = "reviewed",
           d.made \in {None, Wrote(d.att)}, d.pc = "ihash" => d.made # None,
           d.pc \in ImagePcs => d.kind = "image",
           d.pc = "mreport" => d.op \in {"msucceeded", "mfailed"},
           w \notin crashed => HostOf(d, h),
           Go(w, d), held' = [held EXCEPT ![w] = h], Still
    PROVE  DaemonInv'
<1>1. daemon[w] \in DaemonRecords /\ WorkOf(daemon[w])
    BY DaemonFacts
<1>2. WorkOf(d)
    BY <1>1 DEF WorkOf, HasMade, Doing, UploadPcs, BuildPcs, EarlyPcs, AsidePcs
<1>3. From(d) >= From(daemon[w])
    BY <1>1, AsideFrom
<1>4. d.pc # "wait" /\ d.pc \notin {"part", "complete", "abort", "ipart", "icomplete"}
    BY DEF AsidePcs
<1>5. GoesOn(daemon[w], d)
    BY <1>3, <1>4 DEF GoesOn, Doing
<1> QED BY <1>2, <1>5, LocalKeeps DEF Go

LEMMA ReturnKeeps ==
    ASSUME DaemonInv, NEW w \in Workers, Return(w)
    PROVE  DaemonInv'
<1> DEFINE h == (held[w] \ (daemon[w].inner \cup daemon[w].outer)) \cup {}
<1>1. daemon[w].pc = "return" /\ Still
    BY LocalStill DEF Return, At
<1>2. w \notin crashed => h = {}
    BY <1>1, DaemonFacts DEF HostOf, UnderWay
<1>3. w \notin crashed => HostOf(Idle, h)
    BY <1>2, IdleSound
<1>4. h \in SUBSET Things
    BY DaemonFacts
<1>5. GoesOn(daemon[w], Idle)
    BY <1>1 DEF GoesOn, Idle
<1>6. daemon' = [daemon EXCEPT ![w] = Idle] /\ held' = [held EXCEPT ![w] = h]
    BY DEF Return, Go, Hold
<1> HIDE DEF h
<1> QED BY <1>1, <1>3, <1>4, <1>5, <1>6, IdleSound, LocalKeeps

(* A job that fails, or ends, where nothing of it is under way. *)
LEMMA FailsKeep ==
    ASSUME DaemonInv, NEW w \in Workers, NEW pc \in {"failing", "return"},
           daemon[w].pc \notin {"wait", "idle"}, UnderWay(daemon[w]) = {},
           Go(w, [daemon[w] EXCEPT !.pc = pc]), UNCHANGED held, Still
    PROVE  DaemonInv'
<1> DEFINE d == [daemon[w] EXCEPT !.pc = pc]
<1>0. /\ daemon[w] \in DaemonRecords /\ WorkOf(daemon[w]) /\ held[w] \in SUBSET Things
      /\ w \notin crashed => HostOf(daemon[w], held[w])
    BY DaemonFacts
<1>1. /\ d \in DaemonRecords /\ d.pc = pc /\ d.kind = daemon[w].kind
      /\ d.att = daemon[w].att /\ d.given = daemon[w].given /\ d.made = daemon[w].made
      /\ d.inner = daemon[w].inner /\ d.outer = daemon[w].outer
    BY <1>0 DEF DaemonRecords, Pcs
<1>2. Go(w, d)
    OBVIOUS
<1> HIDE DEF d
<1>3. w \notin crashed => HostOf(d, held[w])
    BY <1>0, <1>1 DEF HostOf
<1>4. held' = [held EXCEPT ![w] = held[w]]
    BY DEF DaemonInv, TypeInv
<1>5. d.pc \in AsidePcs /\ d.pc \notin {"ihash", "mreport"} /\ d.pc \notin ImagePcs
    BY <1>1 DEF AsidePcs, ImagePcs
<1>6. d.given = "reviewed" /\ d.made \in {None, Wrote(d.att)}
    BY <1>0, <1>1 DEF WorkOf
<1> QED BY <1>0, <1>1, <1>2, <1>3, <1>4, <1>5, <1>6, AsideKeeps

LEMMA CheckKeeps ==
    ASSUME DaemonInv, NEW w \in Workers, CheckJob(w)
    PROVE  DaemonInv'
<1> DEFINE D == daemon[w]
<1>0. /\ D \in DaemonRecords /\ WorkOf(D) /\ held[w] \in SUBSET Things
      /\ w \notin crashed => HostOf(D, held[w])
    BY DaemonFacts
<1>1. D.pc = "check" /\ Still /\ UnderWay(D) = {}
    BY LocalStill DEF CheckJob, At, UnderWay
<1>2. w \notin crashed => held[w] = {} /\ D.inner = {} /\ D.outer = {}
    BY <1>0, <1>1 DEF HostOf
<1>3. \/ /\ D.kind = "build" /\ Go(w, [D EXCEPT !.pc = "fetch", !.outer = {"sources"}])
         /\ Hold(w, {"sources"}, {})
      \/ /\ D.kind = "image" /\ Go(w, [D EXCEPT !.pc = "iinputs", !.outer = {"root"}])
         /\ Hold(w, {"root"}, {})
      \/ /\ D.kind = "inspection" /\ Go(w, [D EXCEPT !.pc = "minputs"]) /\ UNCHANGED held
      \/ /\ \E pc \in {"failing", "return"} : Go(w, [D EXCEPT !.pc = pc])
         /\ UNCHANGED held
    <2>1. D.kind \in Kinds
        BY <1>0, <1>1 DEF WorkOf, DaemonRecords
    <2> HIDE DEF D
    <2>2. CASE D.kind = "build"
        BY <2>2 DEF CheckJob, D
    <2>3. CASE D.kind = "image"
        BY <2>3 DEF CheckJob, D
    <2>4. CASE D.kind = "inspection"
        BY <2>4 DEF CheckJob, D
    <2> QED BY <2>1, <2>2, <2>3, <2>4 DEF Kinds
<1>4. CASE /\ D.kind = "build" /\ Go(w, [D EXCEPT !.pc = "fetch", !.outer = {"sources"}])
           /\ Hold(w, {"sources"}, {})
    <2> DEFINE d == [D EXCEPT !.pc = "fetch", !.outer = {"sources"}]
               h == (held[w] \ {}) \cup {"sources"}
    <2>1. /\ d \in DaemonRecords /\ d.pc = "fetch" /\ d.kind = D.kind /\ d.att = D.att
          /\ d.given = D.given /\ d.made = D.made /\ d.file = D.file
          /\ d.inner = D.inner /\ d.outer = {"sources"}
        BY <1>0 DEF DaemonRecords, Pcs, BuildPcs, EarlyPcs, Things
    <2>2. daemon' = [daemon EXCEPT ![w] = d] /\ held' = [held EXCEPT ![w] = h]
        BY <1>4 DEF Go, Hold
    <2>3. h \in SUBSET Things
        BY <1>0 DEF Things
    <2> HIDE DEF d
    <2>4. WorkOf(d)
        BY <1>0, <1>1, <1>4, <2>1
        DEF WorkOf, HasMade, Doing, EarlyPcs, UploadPcs, BuildPcs, ImagePcs
    <2>5. w \notin crashed => HostOf(d, h)
        BY <1>2, <2>1 DEF HostOf
    <2>6. From(d) >= From(D)
        BY <1>0, <1>1, <2>1 DEF From, Doing, EarlyPcs, DaemonRecords, Files
    <2>7. GoesOn(D, d)
        BY <1>1, <2>1, <2>6 DEF GoesOn, Doing
    <2> HIDE DEF h
    <2> QED BY <1>1, <2>1, <2>2, <2>3, <2>4, <2>5, <2>7, LocalKeeps
<1>5. CASE /\ D.kind = "image" /\ Go(w, [D EXCEPT !.pc = "iinputs", !.outer = {"root"}])
           /\ Hold(w, {"root"}, {})
    <2> DEFINE d == [D EXCEPT !.pc = "iinputs", !.outer = {"root"}]
               h == (held[w] \ {}) \cup {"root"}
    <2>1. /\ d \in DaemonRecords /\ d.pc = "iinputs" /\ d.kind = D.kind /\ d.att = D.att
          /\ d.given = D.given /\ d.made = D.made
          /\ d.inner = D.inner /\ d.outer = {"root"}
        BY <1>0 DEF DaemonRecords, Pcs, ImagePcs, Things
    <2>2. Go(w, d) /\ held' = [held EXCEPT ![w] = h]
        BY <1>5 DEF Hold
    <2>3. h \in SUBSET Things
        BY <1>0 DEF Things
    <2> HIDE DEF d
    <2>4. w \notin crashed => HostOf(d, h)
        BY <1>2, <2>1 DEF HostOf
    <2>5. d.given = "reviewed" /\ d.made \in {None, Wrote(d.att)} /\ d.pc \in AsidePcs
        BY <1>0, <2>1 DEF WorkOf, AsidePcs
    <2> HIDE DEF h
    <2> QED BY <1>1, <1>5, <2>1, <2>2, <2>3, <2>4, <2>5, AsideKeeps
<1>6. CASE D.kind = "inspection" /\ Go(w, [D EXCEPT !.pc = "minputs"]) /\ UNCHANGED held
    <2> DEFINE d == [D EXCEPT !.pc = "minputs"]
    <2>1. /\ d \in DaemonRecords /\ d.pc = "minputs" /\ d.kind = D.kind /\ d.att = D.att
          /\ d.given = D.given /\ d.made = D.made /\ d.inner = D.inner /\ d.outer = D.outer
        BY <1>0 DEF DaemonRecords, Pcs, InspectPcs
    <2>2. Go(w, d) /\ held' = [held EXCEPT ![w] = held[w]]
        BY <1>6 DEF DaemonInv, TypeInv
    <2> HIDE DEF d
    <2>3. w \notin crashed => HostOf(d, held[w])
        BY <1>2, <2>1 DEF HostOf
    <2>4. /\ d.given = "reviewed" /\ d.made \in {None, Wrote(d.att)} /\ d.pc \in AsidePcs
          /\ d.pc \notin ImagePcs
        BY <1>0, <2>1 DEF WorkOf, AsidePcs, ImagePcs
    <2> QED BY <1>0, <1>1, <2>1, <2>2, <2>3, <2>4, AsideKeeps
<1>7. CASE (\E pc \in {"failing", "return"} : Go(w, [D EXCEPT !.pc = pc])) /\ UNCHANGED held
    BY <1>1, <1>7, FailsKeep
<1> QED BY <1>3, <1>4, <1>5, <1>6, <1>7

LEMMA ImageStepsKeep ==
    ASSUME DaemonInv, NEW w \in Workers, ImageInputs(w) \/ StartImage(w) \/ FinishImage(w)
    PROVE  DaemonInv'
<1> DEFINE D == daemon[w]
<1>0. /\ D \in DaemonRecords /\ WorkOf(D) /\ held[w] \in SUBSET Things
      /\ w \notin crashed => HostOf(D, held[w])
    BY DaemonFacts
<1>1. Still
    BY LocalStill DEF ImageInputs, StartImage, FinishImage
<1>h. held' = [held EXCEPT ![w] = held[w]] \/ held' # held
    BY DEF DaemonInv, TypeInv
<1>2. CASE ImageInputs(w)
    <2>1. D.pc = "iinputs" /\ UNCHANGED held
        BY <1>2 DEF ImageInputs, At
    <2>2. D.kind = "image" /\ D.given = "reviewed" /\ UnderWay(D) = {}
        BY <1>0, <2>1 DEF WorkOf, Doing, ImagePcs, UnderWay
    <2>3. \/ Go(w, [D EXCEPT !.pc = "ibuild", !.given = "reviewed"])
          \/ Go(w, [D EXCEPT !.pc = "failing"])
        BY <1>2, <2>2 DEF ImageInputs, ImageInputAgrees, Given
    <2>4. CASE Go(w, [D EXCEPT !.pc = "failing"])
        BY <1>1, <2>1, <2>2, <2>4, FailsKeep
    <2>5. CASE Go(w, [D EXCEPT !.pc = "ibuild", !.given = "reviewed"])
        <3> DEFINE d == [D EXCEPT !.pc = "ibuild", !.given = "reviewed"]
        <3>1. /\ d \in DaemonRecords /\ d.pc = "ibuild" /\ d.kind = D.kind /\ d.att = D.att
              /\ d.given = "reviewed" /\ d.made = D.made
              /\ d.inner = D.inner /\ d.outer = D.outer
            BY <1>0 DEF DaemonRecords, Pcs, ImagePcs
        <3>2. Go(w, d)
            BY <2>5
        <3> HIDE DEF d
        <3>3. w \notin crashed => HostOf(d, held[w])
            BY <1>0, <2>2, <3>1 DEF HostOf
        <3>4. d.made \in {None, Wrote(d.att)} /\ d.pc \in AsidePcs
            BY <1>0, <3>1 DEF WorkOf, AsidePcs
        <3> QED BY <1>0, <1>1, <1>h, <2>1, <2>2, <3>1, <3>2, <3>3, <3>4, AsideKeeps
    <2> QED BY <2>3, <2>4, <2>5
<1>3. CASE StartImage(w)
    <2>1. D.pc = "ibuild" /\ UnderWay(D) = {}
        BY <1>3 DEF StartImage, At, UnderWay
    <2>2. D.kind = "image" /\ D.given = "reviewed"
        BY <1>0, <2>1 DEF WorkOf, Doing, ImagePcs
    <2>3. PICK pc \in {"ibuilding", "failing"} :
            /\ Go(w, [D EXCEPT !.pc = pc, !.outer = D.outer \cup {"builder"}])
            /\ held' = [held EXCEPT ![w] =
                          IF pc = "ibuilding" THEN held[w] \cup {"builder"} ELSE held[w]]
        <3>1. [D EXCEPT !.pc = "ibuilding", !.outer = @ \cup {"builder"}]
                = [D EXCEPT !.pc = "ibuilding", !.outer = D.outer \cup {"builder"}]
            BY <1>0 DEF DaemonRecords
        <3>2. [D EXCEPT !.pc = "failing", !.outer = @ \cup {"builder"}]
                = [D EXCEPT !.pc = "failing", !.outer = D.outer \cup {"builder"}]
            BY <1>0 DEF DaemonRecords
        <3>3. (held[w] \ {}) \cup {"builder"} = held[w] \cup {"builder"}
            OBVIOUS
        <3>4. CASE /\ Go(w, [D EXCEPT !.pc = "ibuilding", !.outer = @ \cup {"builder"}])
                   /\ Hold(w, {"builder"}, {})
            <4>1. held' = [held EXCEPT ![w] = held[w] \cup {"builder"}]
                BY <3>3, <3>4 DEF Hold
            <4> QED BY <3>1, <3>4, <4>1
        <3>5. CASE /\ Go(w, [D EXCEPT !.pc = "failing", !.outer = @ \cup {"builder"}])
                   /\ UNCHANGED held
            BY <1>h, <3>2, <3>5
        <3> QED BY <1>3, <3>4, <3>5 DEF StartImage
    <2> DEFINE d == [D EXCEPT !.pc = pc, !.outer = D.outer \cup {"builder"}]
               h == IF pc = "ibuilding" THEN held[w] \cup {"builder"} ELSE held[w]
    <2>4. /\ d \in DaemonRecords /\ d.pc = pc /\ d.kind = D.kind /\ d.att = D.att
          /\ d.given = D.given /\ d.made = D.made
          /\ d.inner = D.inner /\ d.outer = D.outer \cup {"builder"}
        <3>1. pc \in Pcs /\ "builder" \in Things
            BY DEF Pcs, ImagePcs, Things, Containers
        <3>2. D.outer \cup {"builder"} \in SUBSET Things
            BY <1>0, <3>1 DEF DaemonRecords
        <3>3. d \in DaemonRecords
            BY <1>0, <3>1, <3>2 DEF DaemonRecords
        <3> QED BY <1>0, <3>3 DEF DaemonRecords
    <2>5. Go(w, d) /\ held' = [held EXCEPT ![w] = h] /\ h \in SUBSET Things
        BY <1>0, <2>3 DEF Things, Containers
    <2>6. h \subseteq held[w] \cup {"builder"}
        OBVIOUS
    <2> HIDE DEF d, h
    <2>7. w \notin crashed => HostOf(d, h)
        BY <1>0, <2>1, <2>4, <2>6 DEF HostOf
    <2>8. d.made \in {None, Wrote(d.att)} /\ d.pc \in AsidePcs /\ d.pc # "ihash"
        BY <1>0, <2>4 DEF WorkOf, AsidePcs
    <2> QED BY <1>1, <2>1, <2>2, <2>4, <2>5, <2>7, <2>8, AsideKeeps
<1>4. CASE FinishImage(w)
    <2> DEFINE bytes == [att |-> D.att, from |-> D.given]
               h == (held[w] \ {"builder"}) \cup {}
    <2>1. D.pc = "ibuilding" /\ UnderWay(D) = {"builder"}
        BY <1>4 DEF FinishImage, At, UnderWay
    <2>2. D.kind = "image" /\ D.given = "reviewed" /\ D.att \in Attempts
        BY <1>0, <2>1 DEF WorkOf, Doing, ImagePcs
    <2>3. bytes = Wrote(D.att) /\ bytes \in Bytes /\ bytes # None
        BY <2>2, BytesDiffer DEF Wrote
    <2>4. held' = [held EXCEPT ![w] = h] /\ h \in SUBSET Things
        BY <1>0, <1>4 DEF FinishImage, Hold
    <2>5. h \subseteq held[w] \ {"builder"}
        OBVIOUS
    <2> HIDE DEF h, bytes
    <2>6. PICK d : /\ d = [D EXCEPT !.pc = "ihash", !.made = bytes, !.disk = bytes]
                        \/ d = [D EXCEPT !.pc = "failing"]
                   /\ Go(w, d)
        BY <1>4 DEF FinishImage, bytes
    <2>7. /\ d \in DaemonRecords /\ d.pc \in {"ihash", "failing"}
          /\ d.kind = D.kind /\ d.att = D.att /\ d.given = D.given
          /\ d.inner = D.inner /\ d.outer = D.outer
          /\ d.made \in {D.made, bytes} /\ (d.pc = "ihash" => d.made = bytes)
        <3>1. CASE d = [D EXCEPT !.pc = "ihash", !.made = bytes, !.disk = bytes]
            BY <1>0, <2>3, <3>1 DEF DaemonRecords, Pcs, ImagePcs
        <3>2. CASE d = [D EXCEPT !.pc = "failing"]
            BY <1>0, <3>2 DEF DaemonRecords, Pcs
        <3> QED BY <2>6, <3>1, <3>2
    <2>8. w \notin crashed => HostOf(d, h)
        BY <1>0, <2>1, <2>5, <2>7 DEF HostOf
    <2>9. /\ d.made \in {None, Wrote(d.att)} /\ d.pc \in AsidePcs
          /\ d.pc = "ihash" => d.made # None
        BY <1>0, <2>3, <2>7 DEF WorkOf, AsidePcs
    <2> QED BY <1>1, <2>1, <2>2, <2>4, <2>6, <2>7, <2>8, <2>9, AsideKeeps
<1> QED BY <1>2, <1>3, <1>4

LEMMA InspectStepsKeep ==
    ASSUME DaemonInv, NEW w \in Workers, InspectInputs(w) \/ Inspect(w) \/ EndInspection(w)
    PROVE  DaemonInv'
<1> DEFINE D == daemon[w]
<1>0. /\ D \in DaemonRecords /\ WorkOf(D) /\ held[w] \in SUBSET Things
      /\ w \notin crashed => HostOf(D, held[w])
    BY DaemonFacts
<1>1. Still /\ D.pc \in {"minputs", "minspect", "mend"}
    BY LocalStill DEF InspectInputs, Inspect, EndInspection, At
(* What each of them does to the daemon and to its host. *)
<1>2. ASSUME NEW d \in DaemonRecords, NEW h \in SUBSET Things, Go(w, d),
             held' = [held EXCEPT ![w] = h],
             d.pc \in {"minspect", "mend", "mreport"}, d.kind = D.kind, d.att = D.att,
             d.pc = "mreport" => d.op \in {"msucceeded", "mfailed"},
             d.given = D.given, d.made = D.made, w \notin crashed => HostOf(d, h)
      PROVE  DaemonInv'
    <2>1. /\ D.pc \notin {"wait", "idle"} /\ d.pc \in AsidePcs /\ d.pc # "ihash"
          /\ d.pc \notin ImagePcs
        BY <1>1, <1>2 DEF AsidePcs, ImagePcs
    <2>2. d.given = "reviewed" /\ d.made \in {None, Wrote(d.att)}
        BY <1>0, <1>2 DEF WorkOf
    <2> HIDE DEF D
    <2> QED BY <1>1, <1>2, <2>1, <2>2, AsideKeeps DEF D
<1>3. CASE InspectInputs(w)
    <2>1. D.pc = "minputs"
        BY <1>3 DEF InspectInputs, At
    <2>2. PICK pc \in {"minspect", "mreport"} :
            Go(w, [D EXCEPT !.pc = pc, !.op = "mfailed", !.given = "reviewed",
                            !.outer = {"job"}])
        <3>1. PICK got \in Arrived :
                LET good == InputAgrees(got) /\ ~D.over IN
                Go(w, [D EXCEPT !.pc = IF good THEN "minspect" ELSE "mreport",
                                !.op = "mfailed",
                                !.given = IF good THEN Given(D, got) ELSE @,
                                !.outer = {"job"}])
            BY <1>3 DEF InspectInputs
        <3>2. D.given = "reviewed"
            BY <1>0 DEF WorkOf
        <3>3. CASE InputAgrees(got) /\ ~D.over
            <4>1. [D EXCEPT !.pc = IF InputAgrees(got) /\ ~D.over THEN "minspect" ELSE "mreport",
                            !.op = "mfailed",
                            !.given = IF InputAgrees(got) /\ ~D.over THEN Given(D, got) ELSE @,
                            !.outer = {"job"}]
                    = [D EXCEPT !.pc = "minspect", !.op = "mfailed", !.given = "reviewed",
                                !.outer = {"job"}]
                BY <1>0, <3>2, <3>3 DEF DaemonRecords, Given, InputAgrees
            <4> QED BY <3>1, <4>1
        <3>4. CASE ~(InputAgrees(got) /\ ~D.over)
            <4>1. [D EXCEPT !.pc = IF InputAgrees(got) /\ ~D.over THEN "minspect" ELSE "mreport",
                            !.op = "mfailed",
                            !.given = IF InputAgrees(got) /\ ~D.over THEN Given(D, got) ELSE @,
                            !.outer = {"job"}]
                    = [D EXCEPT !.pc = "mreport", !.op = "mfailed", !.given = "reviewed",
                                !.outer = {"job"}]
                BY <1>0, <3>2, <3>4 DEF DaemonRecords
            <4> QED BY <3>1, <4>1
        <3> QED BY <3>3, <3>4
    <2> DEFINE d == [D EXCEPT !.pc = pc, !.op = "mfailed", !.given = "reviewed",
                              !.outer = {"job"}]
               h == (held[w] \ {}) \cup {"job"}
    <2>3. /\ d \in DaemonRecords /\ d.pc = pc /\ d.kind = D.kind /\ d.att = D.att
          /\ d.given = "reviewed" /\ d.made = D.made /\ d.op = "mfailed"
          /\ d.inner = D.inner /\ d.outer = {"job"}
        BY <1>0 DEF DaemonRecords, Pcs, InspectPcs, Things, Ops
    <2>4. Go(w, d) /\ held' = [held EXCEPT ![w] = h] /\ h \in SUBSET Things
        BY <1>0, <1>3, <2>2 DEF InspectInputs, Hold, Things
    <2> HIDE DEF d
    <2>5. w \notin crashed => HostOf(d, h)
        BY <1>0, <2>1, <2>3 DEF HostOf, UnderWay
    <2>6. D.given = "reviewed"
        BY <1>0 DEF WorkOf
    <2> HIDE DEF h
    <2> QED BY <1>2, <2>3, <2>4, <2>5, <2>6
<1>4. CASE Inspect(w)
    <2> DEFINE d == [D EXCEPT !.pc = "mend"]
               h == (held[w] \ {}) \cup {"inspecting"}
    <2>1. D.pc = "minspect"
        BY <1>4 DEF Inspect, At
    <2>3. /\ d \in DaemonRecords /\ d.pc = "mend" /\ d.kind = D.kind /\ d.att = D.att
          /\ d.given = D.given /\ d.made = D.made
          /\ d.inner = D.inner /\ d.outer = D.outer
        BY <1>0 DEF DaemonRecords, Pcs, InspectPcs
    <2>4. Go(w, d) /\ held' = [held EXCEPT ![w] = h] /\ h \in SUBSET Things
        BY <1>0, <1>4 DEF Inspect, Hold, Things, Containers
    <2> HIDE DEF d
    <2>5. w \notin crashed => HostOf(d, h)
        BY <1>0, <2>1, <2>3 DEF HostOf, UnderWay
    <2> HIDE DEF h
    <2> QED BY <1>2, <2>3, <2>4, <2>5
<1>5. CASE EndInspection(w)
    <2>1. D.pc = "mend"
        BY <1>5 DEF EndInspection, At
    <2>2. PICK op \in {"msucceeded", "mfailed"} : Go(w, [D EXCEPT !.pc = "mreport", !.op = op])
        BY <1>5 DEF EndInspection
    <2> DEFINE d == [D EXCEPT !.pc = "mreport", !.op = op]
               h == (held[w] \ {"inspecting"}) \cup {}
    <2>3. /\ d \in DaemonRecords /\ d.pc = "mreport" /\ d.op = op /\ d.kind = D.kind /\ d.att = D.att
          /\ d.given = D.given /\ d.made = D.made
          /\ d.inner = D.inner /\ d.outer = D.outer
        BY <1>0 DEF DaemonRecords, Pcs, InspectPcs, Ops
    <2>4. Go(w, d) /\ held' = [held EXCEPT ![w] = h] /\ h \in SUBSET Things
        BY <1>0, <1>5, <2>2 DEF EndInspection, Hold
    <2> HIDE DEF d
    <2>5. w \notin crashed => HostOf(d, h)
        BY <1>0, <2>1, <2>3 DEF HostOf, UnderWay
    <2> HIDE DEF h
    <2> QED BY <1>2, <2>3, <2>4, <2>5
<1> QED BY <1>3, <1>4, <1>5

(* A heartbeat tells of a cancellation; a file changes on disk. *)
LEMMA TweaksKeep ==
    ASSUME DaemonInv, NEW w \in Workers, Heartbeat(w) \/ DiskCorrupts(w)
    PROVE  DaemonInv'
<1> DEFINE D == daemon[w]
<1>0. D \in DaemonRecords /\ WorkOf(D) /\ (w \notin crashed => HostOf(D, held[w]))
    BY DaemonFacts
<1>1. Still /\ UNCHANGED held
    BY DEF Heartbeat, DiskCorrupts, Stay, Still, coordinatorRows
<1>2. PICK d : /\ d = [D EXCEPT !.over = TRUE] \/ d = [D EXCEPT !.disk = Corrupt]
               /\ Go(w, d)
    BY DEF Heartbeat, DiskCorrupts
<1>3. /\ d \in DaemonRecords /\ d.pc = D.pc /\ d.op = D.op /\ d.file = D.file /\ d.up = D.up
      /\ d.kind = D.kind /\ d.att = D.att /\ d.given = D.given /\ d.made = D.made
      /\ d.inner = D.inner /\ d.outer = D.outer /\ d.mode = D.mode
    BY <1>0, <1>2 DEF DaemonRecords, Bytes, Digests
<1>4. WorkOf(d)
    BY <1>0, <1>3 DEF WorkOf, HasMade, Doing
<1>5. w \notin crashed => HostOf(d, held[w])
    BY <1>0, <1>3 DEF HostOf, UnderWay
<1> HIDE DEF D
<1> QED BY <1>1, <1>2, <1>3, <1>4, <1>5, TweakKeeps DEF D, Go

-----------------------------------------------------------------------------
(* Requests are sent.                                                        *)
Sent(w, op, u) ==
    [w |-> w, op |-> op, stage |-> "read", waits |-> TRUE, att |-> daemon[w].att,
     file |-> daemon[w].file, part |-> daemon[w].part, up |-> u, list |-> daemon[w].list,
     sha |-> IF op \in {"part", "ipart"} THEN daemon[w].disk ELSE daemon[w].made]

Asking(w, op) == [daemon[w] EXCEPT !.pc = "wait", !.op = op]

(* When a daemon may ask for op. *)
MayAsk(w, op, u) ==
    /\ op \in BuildOps => daemon[w].kind = "build"
    /\ op \in ImageOps => daemon[w].kind = "image"
    /\ op \in {"log", "start", "part", "complete", "istart"} => daemon[w].made # None
    /\ op \in {"log", "start", "part", "complete"} => From(daemon[w]) = daemon[w].file
    /\ op \in {"part", "complete", "abort"} =>
         /\ u = daemon[w].up
         /\ u = 0 \/ Upload(u, daemon[w].att, daemon[w].file)
    /\ op \in {"ipart", "icomplete"} => u = daemon[w].up /\ u \in 1..Len(iuploads)

LEMMA CallFields ==
    ASSUME DaemonInv, NEW w \in Workers, NEW op \in Ops, NEW u \in Nat, Call(w, op, u),
           daemon[w].pc \notin {"wait", "idle"}
    PROVE  /\ Sent(w, op, u) \in CallRecords /\ calls' = calls \cup {Sent(w, op, u)}
           /\ Sent(w, op, u).w = w /\ Sent(w, op, u).op = op
           /\ Sent(w, op, u).stage = "read" /\ Sent(w, op, u).waits
           /\ Sent(w, op, u).att = daemon[w].att /\ Sent(w, op, u).file = daemon[w].file
           /\ Sent(w, op, u).up = u
           /\ op \notin {"part", "ipart"} => Sent(w, op, u).sha = daemon[w].made
           /\ Asking(w, op) \in DaemonRecords
           /\ Asking(w, op).pc = "wait" /\ Asking(w, op).op = op
           /\ Asking(w, op).kind = daemon[w].kind /\ Asking(w, op).att = daemon[w].att
           /\ Asking(w, op).file = daemon[w].file /\ Asking(w, op).up = daemon[w].up
           /\ Asking(w, op).given = daemon[w].given /\ Asking(w, op).made = daemon[w].made
           /\ Asking(w, op).inner = daemon[w].inner /\ Asking(w, op).outer = daemon[w].outer
           /\ daemon' = [daemon EXCEPT ![w] = Asking(w, op)]
           /\ answer' = [answer EXCEPT ![w] = None]
           /\ UNCHANGED <<held, crashed, build, uploads, artifacts, image, iuploads, inspection>>
<1>0. daemon[w] \in DaemonRecords /\ daemon[w].att \in Attempts
    BY DaemonFacts DEF WorkOf
<1>1. Sent(w, op, u) \in CallRecords
    BY <1>0 DEF Sent, CallRecords, DaemonRecords, Stages
<1>2. /\ Sent(w, op, u).w = w /\ Sent(w, op, u).op = op
      /\ Sent(w, op, u).stage = "read" /\ Sent(w, op, u).waits
      /\ Sent(w, op, u).att = daemon[w].att /\ Sent(w, op, u).file = daemon[w].file
      /\ Sent(w, op, u).up = u
      /\ op \notin {"part", "ipart"} => Sent(w, op, u).sha = daemon[w].made
    BY DEF Sent
<1>3. /\ Asking(w, op) \in DaemonRecords
      /\ Asking(w, op).pc = "wait" /\ Asking(w, op).op = op
      /\ Asking(w, op).kind = daemon[w].kind /\ Asking(w, op).att = daemon[w].att
      /\ Asking(w, op).file = daemon[w].file /\ Asking(w, op).up = daemon[w].up
      /\ Asking(w, op).given = daemon[w].given /\ Asking(w, op).made = daemon[w].made
      /\ Asking(w, op).inner = daemon[w].inner /\ Asking(w, op).outer = daemon[w].outer
    BY <1>0 DEF Asking, DaemonRecords, Pcs
<1>4. /\ calls' = calls \cup {Sent(w, op, u)}
      /\ daemon' = [daemon EXCEPT ![w] = Asking(w, op)]
      /\ answer' = [answer EXCEPT ![w] = None]
      /\ UNCHANGED <<held, crashed, build, uploads, artifacts, image, iuploads, inspection>>
    BY DEF Call, Sent, Asking, Go, coordinatorRows, images
<1> QED BY <1>1, <1>2, <1>3, <1>4

LEMMA CallKeeps ==
    ASSUME DaemonInv, NEW w \in Workers, NEW op \in Ops, NEW u \in Nat, Call(w, op, u),
           daemon[w].pc \notin {"wait", "idle"}, UnderWay(daemon[w]) = {}, MayAsk(w, op, u)
    PROVE  DaemonInv'
<1> DEFINE D == daemon[w]
           d == Asking(w, op)
           new == Sent(w, op, u)
<1>0. TypeInv /\ WorkInv /\ HostInv /\ OneWaits /\ AttemptsInv /\ AsksOnce /\ RowsInv /\ ImagesInv
    BY DEF DaemonInv, RequestsInv
<1>D. D \in DaemonRecords /\ WorkOf(D) /\ D.att \in Attempts /\ D.file \in Files
    BY DaemonFacts DEF WorkOf, DaemonRecords
<1>n. /\ new \in CallRecords /\ calls' = calls \cup {new}
      /\ new.w = w /\ new.op = op /\ new.stage = "read" /\ new.waits
      /\ new.att = D.att /\ new.file = D.file /\ new.up = u
      /\ op \notin {"part", "ipart"} => new.sha = D.made
    BY CallFields
<1>d. /\ d \in DaemonRecords /\ d.pc = "wait" /\ d.op = op
      /\ d.kind = D.kind /\ d.att = D.att /\ d.file = D.file /\ d.up = D.up
      /\ d.given = D.given /\ d.made = D.made /\ d.inner = D.inner /\ d.outer = D.outer
    BY CallFields
<1>u. UNCHANGED <<held, crashed, build, uploads, artifacts, image, iuploads, inspection>>
    BY CallFields
<1>v. /\ daemon' \in [Workers -> DaemonRecords] /\ answer' \in [Workers -> Answers]
      /\ \A v \in Workers : daemon'[v] = IF v = w THEN d ELSE daemon[v]
      /\ \A v \in Workers : answer'[v] = IF v = w THEN None ELSE answer[v]
    <2>1. /\ daemon \in [Workers -> DaemonRecords] /\ answer \in [Workers -> Answers]
          /\ None \in Answers
        BY <1>0 DEF TypeInv, Answers
    <2>2. daemon' = [daemon EXCEPT ![w] = d] /\ answer' = [answer EXCEPT ![w] = None]
        BY CallFields
    <2> HIDE DEF d
    <2> QED BY <1>d, <2>1, <2>2
<1> HIDE DEF d, new
<1>1. TypeInv'
    BY <1>0, <1>n, <1>u, <1>v DEF TypeInv
<1>2. WorkOf(d)
    BY <1>D, <1>d
    DEF MayAsk, WorkOf, HasMade, Doing, EarlyPcs, UploadPcs, BuildPcs, ImagePcs, BuildOps, ImageOps
<1>3. WorkInv'
    BY <1>0, <1>2, <1>v DEF WorkInv
<1>4. HostInv'
    <2>1. w \notin crashed => HostOf(d, held[w])
        BY <1>d, DaemonFacts DEF HostOf
    <2> QED BY <1>0, <1>u, <1>v, <2>1 DEF HostInv
<1>w. Waiting(w)' = {new} /\ \A v \in Workers \ {w} : Waiting(v)' = Waiting(v)
    <2>1. Waiting(w) = {}
        BY <1>0 DEF OneWaits
    <2> QED BY <1>n, <2>1 DEF Waiting
<1>5. OneWaits'
    <2>1. ASSUME NEW v \in Workers
          PROVE  /\ (daemon'[v].pc # "wait" \/ answer'[v] # None) => Waiting(v)' = {}
                 /\ answer'[v] # None => daemon'[v].pc = "wait"
                 /\ \A c, e \in Waiting(v)' : c = e
                 /\ \A c \in Waiting(v)' : /\ c.op = daemon'[v].op /\ c.att = daemon'[v].att
                                           /\ c.file = daemon'[v].file
        <3>1. CASE v = w
            BY <1>d, <1>n, <1>v, <1>w, <3>1
        <3>2. CASE v # w
            BY <1>0, <1>v, <1>w, <3>2 DEF OneWaits
        <3> QED BY <3>1, <3>2
    <2> QED BY <2>1 DEF OneWaits
<1>6. AttemptsInv'
    BY <1>0, <1>d, <1>n, <1>u, <1>v DEF AttemptsInv, MayAsk
<1>7. Stores(new) => D.kind = "build" /\ Quiet(D.att, D.file)
    <2>1. SUFFICES ASSUME op \in {"part", "complete"} PROVE D.kind = "build" /\ Quiet(D.att, D.file)
        BY <1>n DEF Stores
    <2>2. D.kind = "build" /\ From(D) = D.file
        BY <2>1 DEF MayAsk, BuildOps
    <2> QED BY <1>0, <1>D, <2>2 DEF AsksOnce, Files
<1>8. AsksOnce'
    <2>1. ASSUME NEW v \in Workers, daemon'[v].kind = "build", NEW f \in Files,
                 f >= From(daemon'[v])
          PROVE  Quiet(daemon[v].att, f)'
        <3>1. /\ daemon[v].kind = "build" /\ daemon'[v].att = daemon[v].att
              /\ f >= From(daemon[v]) /\ (v = w => ~For(new, D.att, f))
            <4>1. CASE v # w
                BY <1>v, <2>1, <4>1
            <4>2. CASE v = w
                <5>1. From(d) = IF op \in {"log", "start"} THEN D.file
                                ELSE IF op \in {"part", "complete"} THEN D.file + 1
                                ELSE NFiles + 1
                    BY <1>d DEF From, Doing, EarlyPcs, UploadPcs
                <5>2. op \in {"log", "start", "part", "complete"}
                    BY <1>v, <2>1, <4>2, <5>1, UploadsAssumption DEF Files
                <5>3. From(D) = D.file
                    BY <5>2 DEF MayAsk
                <5>4. f >= D.file /\ (op \in {"part", "complete"} => f # D.file)
                    BY <1>v, <1>D, <2>1, <4>2, <5>1, <5>2 DEF Files
                <5> QED BY <1>d, <1>n, <1>v, <2>1, <4>2, <5>2, <5>3, <5>4 DEF For, Stores
            <4> QED BY <4>1, <4>2
        <3>2. Quiet(daemon[v].att, f)
            BY <1>0, <3>1 DEF AsksOnce
        <3>3. v # w => ~For(new, daemon[v].att, f)
            BY <1>0, <1>7, <1>n, <3>1 DEF AttemptsInv, For
        <3> QED BY <1>n, <1>u, <3>1, <3>2, <3>3 DEF Quiet
    <2>2. ASSUME NEW v \in Workers, Doing(daemon'[v], {}, {"part"})
          PROVE  /\ artifacts'[daemon'[v].att][daemon'[v].file] = 0
                 /\ \A c \in calls' : For(c, daemon'[v].att, daemon'[v].file)
                                        => c \in Waiting(v)'
        <3>1. CASE v = w
            <4>1. op = "part"
                BY <1>d, <1>v, <2>2, <3>1 DEF Doing
            <4>2. Quiet(D.att, D.file)
                BY <1>7, <1>n, <4>1 DEF Stores
            <4> QED BY <1>d, <1>n, <1>u, <1>v, <1>w, <3>1, <4>2 DEF Quiet
        <3>2. CASE v # w
            <4>1. daemon'[v] = daemon[v] /\ Doing(daemon[v], {}, {"part"})
                BY <1>v, <2>2, <3>2 DEF Doing
            <4>2. daemon[v].kind = "build"
                BY <1>0, <4>1 DEF WorkInv, WorkOf, Doing, BuildOps
            <4>3. ~For(new, daemon[v].att, daemon[v].file)
                BY <1>0, <1>7, <1>n, <3>2, <4>2 DEF AttemptsInv, For
            <4> QED BY <1>0, <1>n, <1>u, <1>w, <3>2, <4>1, <4>3 DEF AsksOnce
        <3> QED BY <3>1, <3>2
    <2>3. ASSUME NEW c \in calls', NEW e \in calls',
                 Stores(c), For(e, c.att, c.file), c.op = "complete"
          PROVE  c = e
        <3>1. ASSUME NEW x \in calls, Stores(new) PROVE ~For(x, new.att, new.file)
            BY <1>7, <1>n, <3>1 DEF Quiet
        <3>2. CASE c \in calls /\ e \in calls
            BY <1>0, <2>3, <3>2 DEF AsksOnce
        <3>3. CASE c = new /\ e \in calls
            BY <2>3, <3>1, <3>3
        <3>4. CASE e = new /\ c \in calls
            BY <2>3, <3>1, <3>4 DEF For
        <3> QED BY <1>n, <3>2, <3>3, <3>4
    <2>4. ASSUME NEW c \in calls', Stores(c),
                 c.op = "complete" => c.stage \notin {"reread", "mark"}
          PROVE  artifacts'[c.att][c.file] = 0
        <3>1. CASE c \in calls
            BY <1>0, <1>u, <2>4, <3>1 DEF AsksOnce
        <3>2. CASE c = new
            BY <1>7, <1>n, <1>u, <2>4, <3>2 DEF Quiet
        <3> QED BY <1>n, <3>1, <3>2
    <2> QED BY <2>1, <2>2, <2>3, <2>4 DEF AsksOnce
<1>9. RowsInv'
    <2>1. /\ \A v \in 1..Len(uploads') : RowOf(uploads[v])'
          /\ ArtifactsInv'
        BY <1>0, <1>u DEF RowsInv, RowOf, ArtifactsInv, Upload
    <2>2. ASSUME NEW c \in calls' PROVE RequestOf(c)'
        <3>1. CASE c \in calls
            BY <1>0, <1>u, <3>1 DEF RowsInv, RequestOf, Upload, Recorded
        <3>2. CASE c = new
            <4>1. op = "start" => new.sha = Wrote(new.att)
                BY <1>D, <1>n DEF MayAsk, WorkOf
            <4> QED BY <1>n, <1>u, <3>2, <4>1 DEF MayAsk, RequestOf, Upload
        <3> QED BY <1>n, <3>1, <3>2
    <2>3. ASSUME NEW v \in Workers PROVE UploadOf(daemon[v], answer[v])'
        <3>1. CASE v = w
            BY <1>d, <1>u, <1>v, <3>1 DEF MayAsk, UploadOf, Doing, Upload
        <3>2. CASE v # w
            BY <1>0, <1>u, <1>v, <3>2 DEF RowsInv, UploadOf, Upload
        <3> QED BY <3>1, <3>2
    <2> QED BY <2>1, <2>2, <2>3 DEF RowsInv
<1>10. ImagesInv'
    <2>1. JobInv' /\ \A v \in 1..Len(iuploads') : ImageRowOf(iuploads[v])'
        BY <1>0, <1>u DEF ImagesInv, ImageRowOf, JobInv, Intact
    <2>2. ASSUME NEW c \in calls' PROVE ImageRequestOf(c)'
        <3>1. CASE c \in calls
            BY <1>0, <1>u, <3>1 DEF ImagesInv, ImageRequestOf, Intact
        <3>2. CASE c = new
            <4>1. op = "istart" => new.sha = Wrote(1)
                BY <1>D, <1>n DEF MayAsk, WorkOf, ImageOps
            <4> QED BY <1>n, <1>u, <3>2, <4>1 DEF MayAsk, ImageRequestOf
        <3> QED BY <1>n, <3>1, <3>2
    <2>3. ASSUME NEW v \in Workers PROVE ImageUploadOf(daemon[v], answer[v])'
        <3>1. CASE v = w
            BY <1>d, <1>u, <1>v, <3>1 DEF MayAsk, ImageUploadOf, Doing
        <3>2. CASE v # w
            BY <1>0, <1>u, <1>v, <3>2 DEF ImagesInv, ImageUploadOf
        <3> QED BY <3>1, <3>2
    <2> QED BY <2>1, <2>2, <2>3 DEF ImagesInv
<1> QED BY <1>1, <1>3, <1>4, <1>5, <1>6, <1>8, <1>9, <1>10 DEF DaemonInv, RequestsInv

LEMMA SendsKeep ==
    ASSUME DaemonInv, NEW w \in Workers,
           \/ SendLog(w) \/ HashOutput(w) \/ SendPart(w) \/ SendComplete(w) \/ SendAbort(w)
           \/ SendABI(w) \/ SendSuccess(w) \/ SendFailure(w)
           \/ SendImage(w) \/ SendEvidence(w) \/ SendReport(w)
    PROVE  DaemonInv'
<1> DEFINE D == daemon[w]
<1>D. D \in DaemonRecords /\ WorkOf(D) /\ D.up \in Nat
    BY DaemonFacts DEF DaemonRecords
<1>r. UploadOf(D, answer[w]) /\ ImageUploadOf(D, answer[w])
    BY DEF DaemonInv, RowsInv, ImagesInv
<1>p. /\ D.pc \notin {"wait", "idle"} /\ UnderWay(D) = {}
      /\ D.pc \in {"log", "hash", "part", "complete", "abort", "abi", "succeed", "failing",
                   "ihash", "ipart", "icomplete", "ievidence", "mreport"}
    BY DEF SendLog, HashOutput, SendPart, SendComplete, SendAbort, SendABI, SendSuccess,
           SendFailure, SendImage, SendEvidence, SendReport, At, UnderWay
<1>k. /\ D.pc \in {"log", "hash", "part", "complete", "abort", "abi", "succeed"} =>
           D.kind = "build"
      /\ D.pc \in {"ihash", "ipart", "icomplete", "ievidence"} => D.kind = "image"
      /\ D.pc \in {"log", "hash", "part", "complete", "ihash"} => D.made # None
    BY <1>D DEF WorkOf, Doing, HasMade, BuildPcs, EarlyPcs, UploadPcs, ImagePcs
<1>f. D.pc \in {"log", "hash", "part", "complete"} => From(D) = D.file
    BY DEF From, Doing, EarlyPcs, UploadPcs
<1>s. Stay(w) => UNCHANGED held /\ Still
    BY DEF Stay, Still, coordinatorRows
<1> HIDE DEF D
<1>c. ASSUME NEW op \in Ops, NEW u \in Nat, Call(w, op, u), MayAsk(w, op, u) PROVE DaemonInv'
    BY <1>c, <1>p, CallKeeps DEF D
<1>e. ASSUME NEW pc \in {"failing", "return"}, Go(w, [D EXCEPT !.pc = pc]), Stay(w)
      PROVE  DaemonInv'
    BY <1>e, <1>p, <1>s, FailsKeep DEF D
<1>o. /\ BuildOps \subseteq Ops /\ ImageOps \subseteq Ops
      /\ \A op \in {"failed", "msucceeded", "mfailed"} :
           op \in Ops /\ op \notin BuildOps \cup ImageOps
      /\ BuildOps = {"log", "start", "part", "complete", "abort", "abi", "succeeded"}
      /\ ImageOps = {"istart", "ipart", "icomplete", "isucceeded", "ifailed"}
    BY DEF BuildOps, ImageOps, Ops
<1>1. CASE SendLog(w)
    <2>1. D.pc = "log" /\ ((Go(w, [D EXCEPT !.pc = "failing"]) /\ Stay(w)) \/ Call(w, "log", 0))
        BY <1>1 DEF SendLog, At, D
    <2>2. MayAsk(w, "log", 0)
        BY <1>f, <1>k, <1>o, <2>1 DEF MayAsk, D
    <2> QED BY <1>c, <1>e, <1>o, <2>1, <2>2
<1>2. CASE HashOutput(w)
    <2>1. D.pc = "hash" /\ ((Go(w, [D EXCEPT !.pc = "failing"]) /\ Stay(w)) \/ Call(w, "start", 0))
        BY <1>2 DEF HashOutput, At, D
    <2>2. MayAsk(w, "start", 0)
        BY <1>f, <1>k, <1>o, <2>1 DEF MayAsk, D
    <2> QED BY <1>c, <1>e, <1>o, <2>1, <2>2
<1>3. ASSUME NEW op \in {"part", "complete", "abort"}, At(w, op), Call(w, op, D.up)
      PROVE  DaemonInv'
    <2>1. D.pc = op
        BY <1>3 DEF At, D
    <2>2. D.up = 0 \/ Upload(D.up, D.att, D.file)
        BY <1>r, <2>1 DEF UploadOf, Doing
    <2>3. MayAsk(w, op, D.up)
        BY <1>f, <1>k, <1>o, <2>1, <2>2 DEF MayAsk, D
    <2> QED BY <1>c, <1>o, <1>D, <1>3, <2>3
<1>4. CASE SendPart(w) \/ SendComplete(w) \/ SendAbort(w)
    BY <1>3, <1>4 DEF SendPart, SendComplete, SendAbort, D
<1>5. CASE SendABI(w) \/ SendSuccess(w)
    <2>1. PICK op \in {"abi", "succeeded"} : D.pc \in {"abi", "succeed"} /\ Call(w, op, 0)
        BY <1>5 DEF SendABI, SendSuccess, At, D
    <2>2. MayAsk(w, op, 0)
        BY <1>k, <1>o, <2>1 DEF MayAsk, D
    <2> QED BY <1>c, <1>o, <2>1, <2>2
<1>6. CASE SendFailure(w)
    <2>1. Call(w, IF D.kind = "image" THEN "ifailed" ELSE "failed", 0)
        BY <1>6 DEF SendFailure, D
    <2>2. CASE D.kind = "image"
        <3>1. MayAsk(w, "ifailed", 0)
            BY <1>o, <2>2 DEF MayAsk, D
        <3> QED BY <1>c, <1>o, <2>1, <2>2, <3>1
    <2>3. CASE D.kind # "image"
        <3>1. MayAsk(w, "failed", 0)
            BY <1>o DEF MayAsk
        <3> QED BY <1>c, <1>o, <2>1, <2>3, <3>1
    <2> QED BY <2>2, <2>3
<1>7. CASE SendImage(w)
    <2>1. PICK s \in {<<"ihash", "istart">>, <<"ipart", "ipart">>, <<"icomplete", "icomplete">>} :
            /\ D.pc = s[1]
            /\ (Go(w, [D EXCEPT !.pc = "failing"]) /\ Stay(w)) \/ Call(w, s[2], D.up)
        BY <1>7 DEF SendImage, At, D
    <2>2. CASE Go(w, [D EXCEPT !.pc = "failing"]) /\ Stay(w)
        BY <1>e, <2>2
    <2>3. CASE Call(w, s[2], D.up)
        <3>1. D.pc \in {"ipart", "icomplete"} => D.up \in 1..Len(iuploads)
            BY <1>r DEF ImageUploadOf, Doing
        <3>2. MayAsk(w, s[2], D.up)
            BY <1>k, <1>o, <2>1, <3>1 DEF MayAsk, D
        <3> QED BY <1>c, <1>o, <1>D, <2>1, <2>3, <3>2
    <2> QED BY <2>1, <2>2, <2>3
<1>8. CASE SendEvidence(w)
    <2>1. D.pc = "ievidence" /\ Call(w, "isucceeded", D.up)
        BY <1>8 DEF SendEvidence, At, D
    <2>2. MayAsk(w, "isucceeded", D.up)
        BY <1>k, <1>o, <2>1 DEF MayAsk, D
    <2> QED BY <1>c, <1>o, <1>D, <2>1, <2>2
<1>9. CASE SendReport(w)
    <2>1. /\ D.pc = "mreport"
          /\ (Go(w, [D EXCEPT !.pc = "return"]) /\ Stay(w)) \/ Call(w, D.op, 0)
        BY <1>9 DEF SendReport, At, D
    <2>2. D.op \in {"msucceeded", "mfailed"}
        BY <1>D, <2>1 DEF WorkOf
    <2>3. MayAsk(w, D.op, 0)
        BY <1>o, <2>2 DEF MayAsk
    <2> QED BY <1>c, <1>e, <1>o, <2>1, <2>2, <2>3
<1> QED BY <1>1, <1>2, <1>4, <1>5, <1>6, <1>7, <1>8, <1>9

-----------------------------------------------------------------------------
(* Answers are heard, waits given up, daemons stopped or killed.             *)
Refusal == [ok |-> FALSE, up |-> 0, done |-> FALSE]

(* What an answer makes of a daemon. *)
Hears(d, e, a) ==
    CASE d.op = "log" -> e.pc \in {"hash", "failing"} /\ e.file = d.file
      [] d.op = "start" ->
           \/ e.pc = "failing"
           \/ a.ok /\ (e.pc = "abi" \/ (e.pc = "hash" /\ e.file = d.file + 1))
           \/ a.ok /\ e.pc = "part" /\ e.file = d.file /\ e.up = a.up
      [] d.op = "part" ->
           \/ a.ok /\ e.pc \in {"part", "complete"} /\ e.file = d.file /\ e.up = d.up
           \/ e.pc = "abort" /\ e.file = d.file /\ e.up = d.up
      [] d.op = "complete" ->
           \/ a.ok /\ (e.pc = "abi" \/ (e.pc = "hash" /\ e.file = d.file + 1))
           \/ e.pc = "abort" /\ e.file = d.file /\ e.up = d.up
      [] d.op = "abi" -> e.pc \in {"abi", "succeed", "failing"}
      [] d.op = "abort" -> e.pc = "failing"
      [] d.op = "istart" -> e.pc = "failing" \/ (a.ok /\ e.pc = "ipart" /\ e.up = a.up)
      [] d.op = "ipart" ->
           e.pc = "failing" \/ (e.pc \in {"ipart", "icomplete"} /\ e.up = d.up)
      [] d.op = "icomplete" -> e.pc \in {"ievidence", "failing"}
      [] OTHER -> e.pc = "return"

Kept(d, e) ==
    /\ e.kind = d.kind /\ e.att = d.att /\ e.given = d.given /\ e.made = d.made
    /\ e.inner = d.inner /\ e.outer = d.outer /\ e.op = d.op

LEMMA NextFileFields ==
    ASSUME NEW d \in DaemonRecords, NEW pc \in Pcs, NEW end \in Pcs, NEW u \in SUBSET Nat
    PROVE  /\ NextFile(d, u, pc, end) \in DaemonRecords /\ Kept(d, NextFile(d, u, pc, end))
           /\ \/ NextFile(d, u, pc, end).pc = end
              \/ /\ NextFile(d, u, pc, end).pc = pc
                 /\ NextFile(d, u, pc, end).file = d.file + 1
<1>1. d.file \in 1..NFiles /\ 1 \in Files /\ 1 \in Parts
    BY UploadsAssumption DEF DaemonRecords, Files, Parts
<1>2. d.file < NFiles => d.file + 1 \in Files
    BY <1>1, UploadsAssumption DEF Files
<1>3. CASE d.file < NFiles
    <2>1. NextFile(d, u, pc, end) =
            [d EXCEPT !.pc = pc, !.file = @ + 1, !.part = 1, !.list = @ \cup u]
        BY <1>3 DEF NextFile
    <2> DEFINE e == [d EXCEPT !.pc = pc, !.file = @ + 1, !.part = 1, !.list = @ \cup u]
    <2>2. d.list \cup u \in SUBSET Nat
        BY DEF DaemonRecords
    <2>3. e \in DaemonRecords
        BY <1>1, <1>2, <1>3, <2>2 DEF DaemonRecords
    <2>4. Kept(d, e) /\ e.pc = pc /\ e.file = d.file + 1
        BY DEF DaemonRecords, Kept
    <2> QED BY <2>1, <2>3, <2>4
<1>4. CASE ~(d.file < NFiles)
    <2>1. NextFile(d, u, pc, end) =
            [d EXCEPT !.pc = end, !.file = 1, !.part = 1, !.list = @ \cup u]
        BY <1>4 DEF NextFile
    <2> DEFINE e == [d EXCEPT !.pc = end, !.file = 1, !.part = 1, !.list = @ \cup u]
    <2>2. d.list \cup u \in SUBSET Nat
        BY DEF DaemonRecords
    <2>3. e \in DaemonRecords
        BY <1>1, <2>2 DEF DaemonRecords
    <2>4. Kept(d, e) /\ e.pc = end
        BY DEF DaemonRecords, Kept
    <2> QED BY <2>1, <2>3, <2>4
<1> QED BY <1>3, <1>4

LEMMA NextPartFields ==
    ASSUME NEW d \in DaemonRecords, NEW pc \in Pcs, NEW end \in Pcs
    PROVE  /\ NextPart(d, pc, end) \in DaemonRecords /\ Kept(d, NextPart(d, pc, end))
           /\ NextPart(d, pc, end).pc \in {pc, end}
           /\ NextPart(d, pc, end).file = d.file /\ NextPart(d, pc, end).up = d.up
<1>1. d.part \in 1..NParts
    BY DEF DaemonRecords, Parts
<1>2. d.part < NParts => d.part + 1 \in Parts
    BY <1>1, UploadsAssumption DEF Parts
<1>3. CASE d.part < NParts
    <2>1. NextPart(d, pc, end) = [d EXCEPT !.pc = pc, !.part = @ + 1]
        BY <1>3 DEF NextPart
    <2> QED BY <1>2, <1>3, <2>1 DEF DaemonRecords, Kept
<1>4. CASE ~(d.part < NParts)
    <2>1. NextPart(d, pc, end) = [d EXCEPT !.pc = end]
        BY <1>4 DEF NextPart
    <2> QED BY <2>1 DEF DaemonRecords, Kept
<1> QED BY <1>3, <1>4

Turns(d, pc) == [d EXCEPT !.pc = pc]
Takes(d, pc, u) == [d EXCEPT !.pc = pc, !.up = u]

LEMMA TurnFields ==
    ASSUME NEW d \in DaemonRecords, NEW pc \in Pcs
    PROVE  /\ Turns(d, pc) \in DaemonRecords /\ Kept(d, Turns(d, pc))
           /\ Turns(d, pc).pc = pc /\ Turns(d, pc).file = d.file /\ Turns(d, pc).up = d.up
BY DEF Turns, DaemonRecords, Kept

LEMMA TakeFields ==
    ASSUME NEW d \in DaemonRecords, NEW pc \in Pcs, NEW u \in Nat
    PROVE  /\ Takes(d, pc, u) \in DaemonRecords /\ Kept(d, Takes(d, pc, u))
           /\ Takes(d, pc, u).pc = pc /\ Takes(d, pc, u).file = d.file
           /\ Takes(d, pc, u).up = u
BY DEF Takes, DaemonRecords, Kept

LEMMA AfterFields ==
    ASSUME NEW d \in DaemonRecords, NEW a \in [ok : BOOLEAN, up : Nat, done : BOOLEAN]
    PROVE  After(d, a) \in DaemonRecords /\ Kept(d, After(d, a)) /\ Hears(d, After(d, a), a)
<1> SUFFICES ASSUME NEW e, e = After(d, a)
             PROVE  e \in DaemonRecords /\ Kept(d, e) /\ Hears(d, e, a)
    OBVIOUS
<1>q. /\ "hash" \in Pcs /\ "failing" \in Pcs /\ "part" \in Pcs /\ "abi" \in Pcs
      /\ "complete" \in Pcs /\ "abort" \in Pcs /\ "succeed" \in Pcs /\ "ipart" \in Pcs
      /\ "icomplete" \in Pcs /\ "ievidence" \in Pcs /\ "return" \in Pcs
      /\ a.up \in Nat /\ {a.up} \in SUBSET Nat /\ {} \in SUBSET Nat
    BY DEF Pcs, BuildPcs, UploadPcs, ImagePcs
<1>t. ASSUME NEW pc \in Pcs, e = Turns(d, pc)
      PROVE  e \in DaemonRecords /\ Kept(d, e) /\ e.pc = pc /\ e.file = d.file /\ e.up = d.up
    BY <1>t, TurnFields
<1>u. ASSUME NEW pc \in Pcs, e = Takes(d, pc, a.up)
      PROVE  e \in DaemonRecords /\ Kept(d, e) /\ e.pc = pc /\ e.file = d.file /\ e.up = a.up
    <2>1. a.up \in Nat
        OBVIOUS
    <2>2. Takes(d, pc, a.up) \in DaemonRecords /\ Kept(d, Takes(d, pc, a.up))
        BY <2>1, TakeFields
    <2>3. /\ Takes(d, pc, a.up).pc = pc /\ Takes(d, pc, a.up).file = d.file
          /\ Takes(d, pc, a.up).up = a.up
        BY <2>1, TakeFields
    <2> QED BY <1>u, <2>2, <2>3
<1>n. ASSUME NEW pc \in Pcs, NEW end \in Pcs, e = NextPart(d, pc, end)
      PROVE  /\ e \in DaemonRecords /\ Kept(d, e) /\ e.pc \in {pc, end}
             /\ e.file = d.file /\ e.up = d.up
    BY <1>n, NextPartFields
<1>m. ASSUME NEW pc \in Pcs, NEW end \in Pcs, NEW u \in SUBSET Nat, e = NextFile(d, u, pc, end)
      PROVE  /\ e \in DaemonRecords /\ Kept(d, e)
             /\ e.pc = end \/ (e.pc = pc /\ e.file = d.file + 1)
    BY <1>m, NextFileFields
<1>1. CASE d.op = "log"
    <2>1. \/ e = Turns(d, "hash")
          \/ e = Turns(d, "failing")
        BY <1>1 DEF After, Turns, Takes
    <2>2. CASE e = Turns(d, "hash")
        BY <1>q, <1>t, <1>1, <2>2 DEF Hears
    <2>3. CASE e = Turns(d, "failing")
        BY <1>q, <1>t, <1>1, <2>3 DEF Hears
    <2> QED BY <2>1, <2>2, <2>3
<1>2. CASE d.op = "start"
    <2>1. \/ e = Turns(d, "failing")
          \/ a.ok /\ e = NextFile(d, {a.up}, "hash", "abi")
          \/ a.ok /\ e = Takes(d, "part", a.up)
        BY <1>2 DEF After, Turns, Takes
    <2>2. CASE e = Turns(d, "failing")
        BY <1>q, <1>t, <1>2, <2>2 DEF Hears
    <2>3. CASE a.ok /\ e = NextFile(d, {a.up}, "hash", "abi")
        BY <1>q, <1>m, <1>2, <2>3 DEF Hears
    <2>4. CASE a.ok /\ e = Takes(d, "part", a.up)
        BY <1>q, <1>u, <1>2, <2>4 DEF Hears
    <2> QED BY <2>1, <2>2, <2>3, <2>4
<1>3. CASE d.op = "part"
    <2>1. \/ a.ok /\ e = NextPart(d, "part", "complete")
          \/ e = Turns(d, "abort")
        BY <1>3 DEF After, Turns, Takes
    <2>2. CASE a.ok /\ e = NextPart(d, "part", "complete")
        BY <1>q, <1>n, <1>3, <2>2 DEF Hears
    <2>3. CASE e = Turns(d, "abort")
        BY <1>q, <1>t, <1>3, <2>3 DEF Hears
    <2> QED BY <2>1, <2>2, <2>3
<1>4. CASE d.op = "complete"
    <2>1. \/ a.ok /\ e = NextFile(d, {a.up}, "hash", "abi")
          \/ e = Turns(d, "abort")
        BY <1>4 DEF After, Turns, Takes
    <2>2. CASE a.ok /\ e = NextFile(d, {a.up}, "hash", "abi")
        BY <1>q, <1>m, <1>4, <2>2 DEF Hears
    <2>3. CASE e = Turns(d, "abort")
        BY <1>q, <1>t, <1>4, <2>3 DEF Hears
    <2> QED BY <2>1, <2>2, <2>3
<1>5. CASE d.op = "abi"
    <2>1. \/ e = NextFile(d, {}, "abi", "succeed")
          \/ e = Turns(d, "failing")
        BY <1>5 DEF After, Turns, Takes
    <2>2. CASE e = NextFile(d, {}, "abi", "succeed")
        BY <1>q, <1>m, <1>5, <2>2 DEF Hears
    <2>3. CASE e = Turns(d, "failing")
        BY <1>q, <1>t, <1>5, <2>3 DEF Hears
    <2> QED BY <2>1, <2>2, <2>3
<1>6. CASE d.op = "abort"
    <2>1. e = Turns(d, "failing")
        BY <1>6 DEF After, Turns, Takes
    <2>2. CASE e = Turns(d, "failing")
        BY <1>q, <1>t, <1>6, <2>2 DEF Hears
    <2> QED BY <2>1, <2>2
<1>7. CASE d.op = "istart"
    <2>1. \/ e = Turns(d, "failing")
          \/ a.ok /\ e = Takes(d, "ipart", a.up)
        BY <1>7 DEF After, Turns, Takes
    <2>2. CASE e = Turns(d, "failing")
        BY <1>q, <1>t, <1>7, <2>2 DEF Hears
    <2>3. CASE a.ok /\ e = Takes(d, "ipart", a.up)
        BY <1>q, <1>u, <1>7, <2>3 DEF Hears
    <2> QED BY <2>1, <2>2, <2>3
<1>8. CASE d.op = "ipart"
    <2>1. \/ e = NextPart(d, "ipart", "icomplete")
          \/ e = Turns(d, "failing")
        BY <1>8 DEF After, Turns, Takes
    <2>2. CASE e = NextPart(d, "ipart", "icomplete")
        BY <1>q, <1>n, <1>8, <2>2 DEF Hears
    <2>3. CASE e = Turns(d, "failing")
        BY <1>q, <1>t, <1>8, <2>3 DEF Hears
    <2> QED BY <2>1, <2>2, <2>3
<1>9. CASE d.op = "icomplete"
    <2>1. \/ e = Turns(d, "ievidence")
          \/ e = Turns(d, "failing")
        BY <1>9 DEF After, Turns, Takes
    <2>2. CASE e = Turns(d, "ievidence")
        BY <1>q, <1>t, <1>9, <2>2 DEF Hears
    <2>3. CASE e = Turns(d, "failing")
        BY <1>q, <1>t, <1>9, <2>3 DEF Hears
    <2> QED BY <2>1, <2>2, <2>3
<1>10. CASE d.op \notin {"log", "start", "part", "complete", "abi", "abort", "istart", "ipart",
                        "icomplete"}
    <2>1. e = Turns(d, "return")
        BY <1>10 DEF After, Turns, Takes
    <2>2. CASE e = Turns(d, "return")
        BY <1>q, <1>t, <1>10, <2>2 DEF Hears
    <2> QED BY <2>1, <2>2
<1> QED BY <1>1, <1>2, <1>3, <1>4, <1>5, <1>6, <1>7, <1>8, <1>9, <1>10

(* Whatever the answer says, the daemon goes on with what it may ask for.    *)
LEMMA AfterSound ==
    ASSUME DaemonInv, NEW w \in Workers, NEW a \in [ok : BOOLEAN, up : Nat, done : BOOLEAN],
           daemon[w].pc = "wait",
           ~a.ok \/ (answer[w] = a /\ answer[w] # None), NEW h
    PROVE  LET e == After(daemon[w], a) IN
           /\ e \in DaemonRecords /\ e.pc # "wait" /\ WorkOf(e)
           /\ HostOf(daemon[w], h) => HostOf(e, h)
           /\ e.kind = daemon[w].kind /\ e.att = daemon[w].att
           /\ e.kind = "build" => \A f \in Files : f >= From(e) => Quiet(e.att, f)
           /\ UploadOf(e, None) /\ ImageUploadOf(e, None)
<1> DEFINE d == daemon[w]
           e == After(d, a)
<1>0. TypeInv /\ OneWaits /\ AsksOnce /\ d \in DaemonRecords /\ WorkOf(d) /\ d.file \in Files
    BY DaemonFacts DEF DaemonInv, RequestsInv, DaemonRecords
<1>1. e \in DaemonRecords /\ Kept(d, e) /\ Hears(d, e, a)
    BY <1>0, AfterFields
<1>2. UploadOf(d, answer[w]) /\ ImageUploadOf(d, answer[w])
    BY DEF DaemonInv, RowsInv, ImagesInv
<1> HIDE DEF e
<1>3. e.pc \in {"hash", "failing", "part", "abi", "complete", "abort", "succeed", "ipart",
                "icomplete", "ievidence", "return"}
    BY <1>1 DEF Hears
<1>4. WorkOf(e)
    BY <1>0, <1>1, <1>3
    DEF Hears, Kept, WorkOf, HasMade, Doing, EarlyPcs, UploadPcs, BuildPcs, ImagePcs,
        BuildOps, ImageOps
<1>5. HostOf(d, h) => HostOf(e, h)
    BY <1>1, <1>3 DEF HostOf, UnderWay, Kept
<1>6. ASSUME e.kind = "build", NEW f \in Files, f >= From(e) PROVE Quiet(e.att, f)
    <2>1. CASE f >= From(d)
        BY <1>0, <1>1, <1>6, <2>1 DEF AsksOnce, Kept
    <2>2. CASE ~(f >= From(d))
        <3>1. d.op = "part" /\ a.ok /\ f = d.file
            <4>1. From(d) = IF d.op \in {"log", "start"} THEN d.file
                            ELSE IF d.op \in {"part", "complete"} THEN d.file + 1
                            ELSE NFiles + 1
                BY DEF From, Doing, EarlyPcs, UploadPcs
            <4>2. From(e) = IF e.pc \in {"hash", "part", "complete"} THEN e.file ELSE NFiles + 1
                BY <1>3 DEF From, Doing, EarlyPcs, UploadPcs
            <4>3. e.pc \in {"hash", "part", "complete"}
                BY <1>6, <4>2, UploadsAssumption DEF Files
            <4>4. e.file \in Files
                BY <1>1 DEF DaemonRecords
            <4> QED BY <1>0, <1>1, <1>6, <2>2, <4>1, <4>2, <4>3, <4>4 DEF Hears, Files
        <3>2. Waiting(w) = {}
            BY <1>0, <3>1 DEF OneWaits
        <3> QED BY <1>0, <1>1, <3>1, <3>2 DEF AsksOnce, Doing, Quiet, Kept
    <2> QED BY <2>1, <2>2
<1>7. UploadOf(e, None)
    BY <1>1, <1>2, <1>3 DEF UploadOf, Doing, Hears, Kept
<1>8. ImageUploadOf(e, None)
    BY <1>1, <1>2, <1>3 DEF ImageUploadOf, Doing, Hears, Kept
<1> QED BY <1>1, <1>3, <1>4, <1>5, <1>6, <1>7, <1>8 DEF e, Kept

LEMMA HeardKeeps ==
    ASSUME DaemonInv, NEW w \in Workers, Heard(w) \/ GiveUp(w)
    PROVE  DaemonInv'
<1>0. TypeInv /\ OneWaits
    BY DEF DaemonInv, RequestsInv
<1>1. PICK a \in [ok : BOOLEAN, up : Nat, done : BOOLEAN] :
        /\ ~a.ok \/ (answer[w] = a /\ answer[w] # None)
        /\ Go(w, After(daemon[w], a))
        /\ calls' = Abandoned(w) /\ answer' = [answer EXCEPT ![w] = None]
    <2>1. CASE Heard(w)
        <3>1. answer[w] \in [ok : BOOLEAN, up : Nat, done : BOOLEAN] /\ answer[w] # None
            BY <1>0, <2>1 DEF Heard, TypeInv, Answers
        <3>2. \A c \in calls : c.w = w => ~c.waits
            BY <1>0, <3>1 DEF OneWaits, Waiting
        <3>3. ASSUME NEW c \in calls, c.w = w PROVE [c EXCEPT !.waits = FALSE] = c
            BY <1>0, <3>2, <3>3 DEF TypeInv, CallRecords
        <3>4. Abandoned(w) = calls
            BY <3>3 DEF Abandoned
        <3> QED BY <2>1, <3>1, <3>4 DEF Heard
    <2>2. CASE GiveUp(w)
        <3>1. [answer EXCEPT ![w] = None] = answer
            BY <1>0, <2>2 DEF GiveUp, Unanswered, TypeInv
        <3> DEFINE a == [ok |-> FALSE, up |-> 0, done |-> FALSE]
        <3>2. a \in [ok : BOOLEAN, up : Nat, done : BOOLEAN] /\ ~a.ok
            OBVIOUS
        <3> QED BY <2>2, <3>1, <3>2 DEF GiveUp
    <2> QED BY <2>1, <2>2
<1>2. daemon[w].pc = "wait" /\ UNCHANGED <<held, crashed>> /\ UNCHANGED Coordinator
    BY DEF Heard, GiveUp, Unanswered, At, Coordinator, coordinatorRows, images
<1> DEFINE e == After(daemon[w], a)
<1>3. /\ e \in DaemonRecords /\ e.pc # "wait" /\ WorkOf(e)
      /\ HostOf(daemon[w], held[w]) => HostOf(e, held[w])
      /\ e.kind = daemon[w].kind /\ e.att = daemon[w].att
      /\ e.kind = "build" => \A f \in Files : f >= From(e) => Quiet(e.att, f)
      /\ UploadOf(e, None) /\ ImageUploadOf(e, None)
    BY <1>1, <1>2, AfterSound
<1> HIDE DEF e
<1>4. Moves(w, e)
    BY <1>1, <1>3 DEF Moves, Go, e
<1>5. held' = [held EXCEPT ![w] = held[w]] /\ held[w] \in SUBSET Things
    BY <1>0, <1>2 DEF TypeInv
<1>6. w \notin crashed' => HostOf(e, held[w])
    BY <1>2, <1>3, DaemonFacts
<1> QED BY <1>2, <1>3, <1>4, <1>5, <1>6, MovesKeep

(* A daemon that stops removes what was deferred and what was under way; one *)
(* that is killed removes nothing.                                           *)
LEMMA StopsKeep ==
    ASSUME DaemonInv, NEW w \in Workers, Stop(w) \/ Crash(w)
    PROVE  DaemonInv'
<1>0. TypeInv /\ held[w] \in SUBSET Things /\ (w \notin crashed => HostOf(daemon[w], held[w]))
    BY DaemonFacts DEF DaemonInv
<1>1. Moves(w, Idle)
    BY IdleSound DEF Moves, Stop, Crash, Go, Idle
<1>2. Idle.kind # "build" /\ UploadOf(Idle, None) /\ ImageUploadOf(Idle, None)
    BY DEF Idle, UploadOf, ImageUploadOf, Doing
<1>3. UNCHANGED Coordinator
    BY DEF Stop, Crash, Coordinator, coordinatorRows, images
<1>4. CASE Stop(w)
    <2> DEFINE h == (held[w] \ (daemon[w].inner \cup daemon[w].outer
                                 \cup (IF At(w, "check") THEN {} ELSE Containers))) \cup {}
    <2>1. held' = [held EXCEPT ![w] = h] /\ crashed' = crashed /\ h \in SUBSET Things
        BY <1>0, <1>4 DEF Stop, Hold
    <2>2. w \notin crashed => h = {}
        <3>1. UnderWay(daemon[w]) \subseteq Containers
            BY DEF UnderWay, Containers
        <3>2. At(w, "check") => UnderWay(daemon[w]) = {}
            BY DEF UnderWay, At
        <3> QED BY <1>0, <3>1, <3>2 DEF HostOf
    <2> HIDE DEF h
    <2>3. w \notin crashed' => HostOf(Idle, h)
        BY <2>1, <2>2, IdleSound
    <2> QED BY <1>1, <1>2, <1>3, <2>1, <2>3, IdleSound, MovesKeep
<1>5. CASE Crash(w)
    <2>1. held' = [held EXCEPT ![w] = held[w]] /\ crashed' = crashed \cup {w}
        BY <1>0, <1>5 DEF Crash, TypeInv
    <2> QED BY <1>0, <1>1, <1>2, <1>3, <2>1, IdleSound, MovesKeep
<1> QED BY <1>4, <1>5

-----------------------------------------------------------------------------
(* Claims.                                                                   *)
Fresh(kind, mode, att) ==
    [Idle EXCEPT !.pc = "check", !.kind = kind, !.mode = mode, !.att = att]

LEMMA FreshSound ==
    ASSUME NEW kind \in Kinds, NEW mode \in {"none", "frozen", "planned"}, NEW att \in Attempts,
           kind = "image" => att = 1
    PROVE  /\ Fresh(kind, mode, att) \in DaemonRecords /\ WorkOf(Fresh(kind, mode, att))
           /\ Fresh(kind, mode, att).pc = "check" /\ HostOf(Fresh(kind, mode, att), {})
           /\ Fresh(kind, mode, att).kind = kind /\ Fresh(kind, mode, att).att = att
<1> DEFINE d == Fresh(kind, mode, att)
<1>1. /\ d.pc = "check" /\ d.kind = kind /\ d.mode = mode /\ d.att = att
      /\ d.given = "reviewed" /\ d.made = None /\ d.inner = {} /\ d.outer = {}
    BY DEF Fresh, Idle
<1>2. d \in DaemonRecords
    <2>1. att \in 0..MaxAttempt
        BY UploadsAssumption DEF Attempts
    <2>2. Idle \in DaemonRecords /\ "check" \in Pcs
        BY IdleSound DEF Pcs
    <2> QED BY <2>1, <2>2 DEF Fresh, DaemonRecords
<1> HIDE DEF d
<1>3. WorkOf(d)
    BY <1>1 DEF WorkOf, HasMade, Doing, Kinds, EarlyPcs, UploadPcs, BuildPcs, ImagePcs
<1>4. HostOf(d, {})
    BY <1>1 DEF HostOf
<1> QED BY <1>1, <1>2, <1>3, <1>4 DEF d

(* What every claim does to the daemon and to its host. *)
LEMMA ServingMoves ==
    ASSUME DaemonInv, NEW w \in Workers, Serving(w), NEW d \in DaemonRecords,
           d.pc \in {"idle", "check"}, HostOf(d, {}), WorkOf(d), Go(w, d),
           UNCHANGED <<held, crashed, calls, answer>>
    PROVE  /\ Moves(w, d) /\ WorkInv' /\ HostInv'
           /\ calls' \subseteq CallRecords /\ answer' \in [Workers -> Answers]
           /\ daemon' \in [Workers -> DaemonRecords] /\ held' \in [Workers -> SUBSET Things]
           /\ UploadOf(d, None) /\ ImageUploadOf(d, None)
<1>0. TypeInv /\ OneWaits /\ WorkInv /\ HostInv
    BY DEF DaemonInv, RequestsInv
<1>1. daemon[w].pc = "idle"
    BY DEF Serving, At
<1>2. Abandoned(w) = calls /\ [answer EXCEPT ![w] = None] = answer
    BY <1>0, <1>1, NotWaiting
<1>3. Moves(w, d)
    BY <1>2 DEF Moves, Go
<1>4. /\ \A v \in Workers : daemon'[v] = IF v = w THEN d ELSE daemon[v]
      /\ daemon' \in [Workers -> DaemonRecords] /\ answer' \in [Workers -> Answers]
    BY <1>0, <1>3, MovedDaemons
<1>5. WorkInv'
    BY <1>0, <1>4 DEF WorkInv
<1>6. w \notin crashed => held[w] = {}
    BY <1>1, DaemonFacts DEF HostOf, UnderWay
<1>7. HostInv'
    BY <1>0, <1>4, <1>6 DEF HostInv
<1>8. UploadOf(d, None) /\ ImageUploadOf(d, None)
    BY DEF UploadOf, ImageUploadOf, Doing
<1> QED BY <1>0, <1>3, <1>4, <1>5, <1>7, <1>8 DEF TypeInv

LEMMA ClaimImageKeeps ==
    ASSUME DaemonInv, NEW w \in Workers, ClaimImage(w)
    PROVE  DaemonInv'
<1>0. TypeInv /\ RequestsInv /\ RowsInv /\ ImagesInv
    BY DEF DaemonInv
<1>1. PICK d : (d = Idle \/ d = Fresh("image", "none", 1)) /\ Go(w, d)
    BY DEF ClaimImage, ClaimLost, ClaimKept, Claimed, Fresh
<1>2. /\ d \in DaemonRecords /\ WorkOf(d) /\ HostOf(d, {}) /\ d.pc \in {"idle", "check"}
      /\ d.kind # "build"
    <2>1. CASE d = Idle
        BY <2>1, IdleSound DEF Idle
    <2>2. CASE d = Fresh("image", "none", 1)
        <3>1. "image" \in Kinds /\ "none" \in {"none", "frozen", "planned"} /\ 1 \in Attempts
            BY BytesDiffer DEF Kinds
        <3> QED BY <2>2, <3>1, FreshSound
    <2> QED BY <1>1, <2>1, <2>2
<1>3. /\ Serving(w) /\ UNCHANGED <<held, crashed, calls, answer>>
      /\ UNCHANGED <<build, uploads, artifacts, iuploads, inspection>>
      /\ image' = [image EXCEPT !.status = "leased", !.worker = w, !.live = TRUE]
    BY DEF ClaimImage, LeaseImage, coordinatorRows
<1>4. /\ Moves(w, d) /\ WorkInv' /\ HostInv'
      /\ calls' \subseteq CallRecords /\ answer' \in [Workers -> Answers]
      /\ daemon' \in [Workers -> DaemonRecords] /\ held' \in [Workers -> SUBSET Things]
      /\ UploadOf(d, None) /\ ImageUploadOf(d, None)
    BY <1>1, <1>2, <1>3, ServingMoves
<1>5. /\ image' \in ImageRecords /\ image'.artifact = image.artifact /\ image'.status = "leased"
    BY <1>0, <1>3 DEF TypeInv, ImageRecords
<1>6. TypeInv'
    BY <1>0, <1>3, <1>4, <1>5 DEF TypeInv
<1>7. RequestsInv'
    BY <1>0, <1>2, <1>3, <1>4, MovedRequests
<1>8. RowsInv'
    BY <1>0, <1>3, <1>4, MovedRows DEF SameLease
<1>9. ImagesInv'
    BY <1>0, <1>3, <1>4, <1>5, MovedImages
<1> QED BY <1>4, <1>6, <1>7, <1>8, <1>9 DEF DaemonInv

LEMMA ClaimInspectionKeeps ==
    ASSUME DaemonInv, NEW w \in Workers, ClaimInspection(w)
    PROVE  DaemonInv'
<1>0. TypeInv /\ RequestsInv /\ RowsInv /\ ImagesInv
    BY DEF DaemonInv
<1>1. PICK d : (d = Idle \/ d = Fresh("inspection", "none", inspection.att + 1)) /\ Go(w, d)
    BY DEF ClaimInspection, ClaimLost, ClaimKept, Claimed, Fresh
<1>3. /\ Serving(w) /\ UNCHANGED <<held, crashed, calls, answer>>
      /\ UNCHANGED <<build, uploads, artifacts, iuploads, image>> /\ InspectionClaimable
      /\ inspection' = [inspection EXCEPT !.status = "leased", !.att = @ + 1,
                                          !.worker = w, !.live = TRUE]
    BY DEF ClaimInspection, LeaseInspection, coordinatorRows
<1>a. inspection.att + 1 \in Attempts
    <2>1. inspection.att \in 0..MaxAttempt /\ (inspection.status = "queued" => inspection.att = 0)
        BY <1>0 DEF TypeInv, InspectionRecords
    <2> QED BY <1>3, <2>1, UploadsAssumption DEF InspectionClaimable, Attempts
<1>2. /\ d \in DaemonRecords /\ WorkOf(d) /\ HostOf(d, {}) /\ d.pc \in {"idle", "check"}
      /\ d.kind # "build"
    <2>1. CASE d = Idle
        BY <2>1, IdleSound DEF Idle
    <2>2. CASE d = Fresh("inspection", "none", inspection.att + 1)
        <3>1. "inspection" \in Kinds /\ "none" \in {"none", "frozen", "planned"}
            BY DEF Kinds
        <3> QED BY <1>a, <2>2, <3>1, FreshSound
    <2> QED BY <1>1, <2>1, <2>2
<1>4. /\ Moves(w, d) /\ WorkInv' /\ HostInv'
      /\ calls' \subseteq CallRecords /\ answer' \in [Workers -> Answers]
      /\ daemon' \in [Workers -> DaemonRecords] /\ held' \in [Workers -> SUBSET Things]
      /\ UploadOf(d, None) /\ ImageUploadOf(d, None)
    BY <1>1, <1>2, <1>3, ServingMoves
<1>5. inspection' \in InspectionRecords /\ inspection'.status = "leased"
    <2>1. inspection.att + 1 \in 0..MaxAttempt
        BY <1>a, UploadsAssumption DEF Attempts
    <2> QED BY <1>0, <1>3, <2>1 DEF TypeInv, InspectionRecords
<1>6. TypeInv'
    BY <1>0, <1>3, <1>4, <1>5 DEF TypeInv
<1>7. RequestsInv'
    BY <1>0, <1>2, <1>3, <1>4, MovedRequests
<1>8. RowsInv'
    BY <1>0, <1>3, <1>4, MovedRows DEF SameLease
<1>9. ImagesInv'
    BY <1>0, <1>3, <1>4, MovedImages
<1> QED BY <1>4, <1>6, <1>7, <1>8, <1>9 DEF DaemonInv

LEMMA ClaimBuildKeeps ==
    ASSUME DaemonInv, NEW w \in Workers, ClaimBuild(w)
    PROVE  DaemonInv'
<1>0. TypeInv /\ RequestsInv /\ OneWaits /\ AttemptsInv /\ AsksOnce /\ RowsInv /\ ImagesInv
    BY DEF DaemonInv, RequestsInv
<1>1. PICK d : (d = Idle \/ d = Fresh("build", build.mode, build.att + 1)) /\ Go(w, d)
    BY DEF ClaimBuild, ClaimLost, ClaimKept, Claimed, Fresh
<1>3. /\ Serving(w) /\ UNCHANGED <<held, crashed, calls, answer>>
      /\ UNCHANGED <<uploads, artifacts, iuploads, image, inspection>> /\ BuildClaimable
      /\ build' = [build EXCEPT !.status = "leased", !.att = @ + 1, !.worker = w, !.live = TRUE]
    BY DEF ClaimBuild, images
<1>b. build \in BuildRecords /\ build.att \in Nat
    BY <1>0 DEF TypeInv, BuildRecords
<1>a. build.att + 1 \in Attempts
    <2>1. build.att \in 0..MaxAttempt /\ (build.status = "queued" => build.att = 0)
        BY <1>0 DEF TypeInv, BuildRecords
    <2> QED BY <1>3, <2>1, UploadsAssumption DEF BuildClaimable, Attempts
<1>2. /\ d \in DaemonRecords /\ WorkOf(d) /\ HostOf(d, {}) /\ d.pc \in {"idle", "check"}
      /\ d.kind = "build" => d.att = build.att + 1
    <2>1. CASE d = Idle
        BY <2>1, IdleSound DEF Idle
    <2>2. CASE d = Fresh("build", build.mode, build.att + 1)
        <3>1. "build" \in Kinds /\ build.mode \in {"none", "frozen", "planned"}
            BY <1>b DEF Kinds, BuildRecords
        <3> QED BY <1>a, <2>2, <3>1, FreshSound
    <2> QED BY <1>1, <2>1, <2>2
<1>4. /\ Moves(w, d) /\ WorkInv' /\ HostInv'
      /\ calls' \subseteq CallRecords /\ answer' \in [Workers -> Answers]
      /\ daemon' \in [Workers -> DaemonRecords] /\ held' \in [Workers -> SUBSET Things]
      /\ UploadOf(d, None) /\ ImageUploadOf(d, None)
    BY <1>1, <1>2, <1>3, ServingMoves
<1>5. build' \in BuildRecords /\ build'.status = "leased" /\ build'.att = build.att + 1
    <2>1. build.att + 1 \in 0..MaxAttempt
        BY <1>a, UploadsAssumption DEF Attempts
    <2> QED BY <1>0, <1>3, <2>1 DEF TypeInv, BuildRecords
<1>6. TypeInv'
    BY <1>0, <1>3, <1>4, <1>5 DEF TypeInv
<1>d. \A v \in Workers : daemon'[v] = IF v = w THEN d ELSE daemon[v]
    BY <1>0, <1>4, MovedDaemons
<1>r. \A u \in 1..Len(uploads) : uploads[u].att \in Attempts /\ uploads[u].att <= build.att
    <2>1. ASSUME NEW u \in 1..Len(uploads) PROVE uploads[u].att \in Attempts
        <3>1. uploads[u] \in UploadRows
            BY <1>0 DEF TypeInv
        <3> QED BY <3>1 DEF UploadRows
    <2> QED BY <1>0, <2>1 DEF RowsInv, RowOf
<1>q. \A f \in Files : Quiet(build.att + 1, f)
    <2>1. ASSUME NEW f \in Files PROVE artifacts[build.att + 1][f] = 0
        <3>1. SUFFICES ASSUME artifacts[build.att + 1][f] # 0 PROVE FALSE
            OBVIOUS
        <3>2. Upload(artifacts[build.att + 1][f], build.att + 1, f)
            BY <1>0, <1>a, <3>1 DEF RowsInv, ArtifactsInv
        <3> QED BY <1>b, <1>r, <3>2 DEF Upload
    <2>2. ASSUME NEW f \in Files, NEW c \in calls PROVE ~For(c, build.att + 1, f)
        <3>1. c.op \in BuildOps => c.att <= build.att
            BY <1>0 DEF AttemptsInv
        <3> QED BY <1>b, <3>1 DEF For, Stores, BuildOps
    <2> QED BY <2>1, <2>2 DEF Quiet
<1>7. RequestsInv'
    <2>w. Waiting(w)' = Waiting(w) /\ Waiting(w) = {} /\ answer[w] = None
        BY <1>0, <1>3 DEF Serving, At, Waiting, OneWaits
    <2>1. OneWaits'
        <3>1. ASSUME NEW v \in Workers
              PROVE  /\ (daemon'[v].pc # "wait" \/ answer'[v] # None) => Waiting(v)' = {}
                     /\ answer'[v] # None => daemon'[v].pc = "wait"
                     /\ \A c, e \in Waiting(v)' : c = e
                     /\ \A c \in Waiting(v)' : /\ c.op = daemon'[v].op
                                               /\ c.att = daemon'[v].att
                                               /\ c.file = daemon'[v].file
            <4>1. CASE v = w
                BY <1>3, <2>w, <4>1
            <4>2. CASE v # w
                <5>1. Waiting(v)' = Waiting(v)
                    BY <1>3 DEF Waiting
                <5> QED BY <1>0, <1>3, <1>d, <4>2, <5>1 DEF OneWaits
            <4> QED BY <4>1, <4>2
        <3> QED BY <3>1 DEF OneWaits
    <2>2. AttemptsInv'
        <3>1. ASSUME NEW v \in Workers, daemon'[v].kind = "build"
              PROVE  daemon'[v].att <= build'.att /\ (v # w => daemon'[v].att <= build.att)
            <4>1. daemon[v] \in DaemonRecords
                BY <1>0 DEF TypeInv
            <4> QED BY <1>0, <1>2, <1>5, <1>b, <1>d, <3>1, <4>1
                    DEF AttemptsInv, DaemonRecords
        <3>2. ASSUME NEW v \in Workers, NEW x \in Workers, v # x,
                     daemon'[v].kind = "build", daemon'[x].kind = "build"
              PROVE  daemon'[v].att # daemon'[x].att
            <4>1. CASE v # w /\ x # w
                BY <1>0, <1>d, <3>2, <4>1 DEF AttemptsInv
            <4>2. CASE v = w
                <5>1. daemon'[v].att = build.att + 1
                    BY <1>2, <1>d, <3>2, <4>2
                <5>2. daemon'[x].att <= build.att
                    BY <3>1, <3>2, <4>2
                <5> QED BY <1>b, <5>1, <5>2
            <4>3. CASE x = w
                <5>1. daemon'[x].att = build.att + 1
                    BY <1>2, <1>d, <3>2, <4>3
                <5>2. daemon'[v].att <= build.att
                    BY <3>1, <3>2, <4>3
                <5> QED BY <1>b, <5>1, <5>2
            <4> QED BY <4>1, <4>2, <4>3
        <3>3. ASSUME NEW c \in calls, c.op \in BuildOps PROVE c.att <= build'.att
            <4>1. c.att \in Nat
                BY <1>0 DEF TypeInv, CallRecords, Attempts
            <4> QED BY <1>0, <1>5, <1>b, <3>3, <4>1 DEF AttemptsInv
        <3> QED BY <1>3, <3>1, <3>2, <3>3 DEF AttemptsInv
    <2>3. AsksOnce'
        <3>1. ASSUME NEW v \in Workers, daemon'[v].kind = "build", NEW f \in Files,
                     f >= From(daemon'[v])
              PROVE  Quiet(daemon[v].att, f)'
            <4>1. CASE v = w
                BY <1>2, <1>3, <1>d, <1>q, <3>1, <4>1 DEF Quiet
            <4>2. CASE v # w
                BY <1>0, <1>3, <1>d, <3>1, <4>2 DEF Quiet, AsksOnce
            <4> QED BY <4>1, <4>2
        <3>2. ASSUME NEW v \in Workers, Doing(daemon'[v], {}, {"part"})
              PROVE  /\ v # w /\ daemon'[v] = daemon[v] /\ Waiting(v)' = Waiting(v)
            BY <1>2, <1>3, <1>d, <3>2 DEF Doing, Waiting
        <3> QED BY <1>0, <1>3, <3>1, <3>2 DEF AsksOnce
    <2> QED BY <2>1, <2>2, <2>3 DEF RequestsInv
<1>8. RowsInv'
    <2>1. ASSUME NEW u \in 1..Len(uploads) PROVE RowOf(uploads[u])'
        BY <1>0, <1>3, <1>5, <1>b, <1>r DEF RowsInv, RowOf, Attempts
    <2>2. ArtifactsInv'
        BY <1>0, <1>3 DEF RowsInv, ArtifactsInv, Upload
    <2>3. ASSUME NEW c \in calls PROVE RequestOf(c)'
        <3>1. RequestOf(c) /\ c.att \in Nat
            BY <1>0 DEF RowsInv, TypeInv, CallRecords, Attempts
        <3>2. c.stage \in {"supersede", "superseded"} => uploads[c.up].att < build'.att
            BY <1>5, <1>b, <1>r, <3>1 DEF RequestOf, Attempts
        <3>3. c.att < build.att => c.att < build'.att
            BY <1>5, <1>b, <3>1
        <3> QED BY <1>3, <3>1, <3>2, <3>3 DEF RequestOf, Upload, Recorded
    <2>4. ASSUME NEW v \in Workers PROVE UploadOf(daemon[v], answer[v])'
        <3>1. CASE v = w
            BY <1>2, <1>3, <1>d, <3>1 DEF UploadOf, Doing
        <3>2. CASE v # w
            BY <1>0, <1>3, <1>d, <3>2 DEF RowsInv, UploadOf, Upload
        <3> QED BY <3>1, <3>2
    <2> QED BY <1>3, <2>1, <2>2, <2>3, <2>4 DEF RowsInv
<1>9. ImagesInv'
    BY <1>0, <1>3, <1>4, MovedImages
<1> QED BY <1>4, <1>6, <1>7, <1>8, <1>9 DEF DaemonInv

-----------------------------------------------------------------------------
(* Requests being executed.  A step ends the request c, with the answer a if *)
(* its daemon still waits, or leaves it as e with what is left to do.        *)
Follows(c, e) ==
    /\ e \in CallRecords
    /\ e.w = c.w /\ e.op = c.op /\ e.waits = c.waits
    /\ e.att = c.att /\ e.file = c.file /\ e.sha = c.sha
    /\ c.op = "complete" /\ c.stage \in {"reread", "mark"} => e.stage \in {"reread", "mark"}

Served(c, next, a) ==
    /\ c \in calls /\ a \in Answers /\ \A e \in next : Follows(c, e)
    /\ next = {} \/ \E e : next = {e}
    /\ calls' = (calls \ {c}) \cup next
    /\ answer' = IF c.waits /\ next = {} THEN [answer EXCEPT ![c.w] = a] ELSE answer
    /\ UNCHANGED hosts

LEMMA ServedTypes ==
    ASSUME TypeInv, NEW c, NEW next, NEW a, Served(c, next, a)
    PROVE  /\ calls' \subseteq CallRecords /\ answer' \in [Workers -> Answers]
           /\ c \in CallRecords /\ c.w \in Workers
           /\ \A v \in Workers : answer'[v] = IF v = c.w /\ c.waits /\ next = {}
                                              THEN a ELSE answer[v]
           /\ UNCHANGED <<daemon, held, crashed>>
<1>1. c \in CallRecords /\ c.w \in Workers
    BY DEF TypeInv, Served, CallRecords
<1>2. \A e \in next : e \in CallRecords
    BY DEF Served, Follows
<1>3. calls' \subseteq CallRecords
    BY <1>2 DEF TypeInv, Served
<1>4. answer \in [Workers -> Answers] /\ a \in Answers
    BY DEF TypeInv, Served
<1>5. /\ answer' \in [Workers -> Answers]
      /\ \A v \in Workers : answer'[v] = IF v = c.w /\ c.waits /\ next = {}
                                         THEN a ELSE answer[v]
    <2>1. CASE c.waits /\ next = {}
        <3>1. answer' = [answer EXCEPT ![c.w] = a]
            BY <2>1 DEF Served
        <3> QED BY <1>1, <1>4, <2>1, <3>1
    <2>2. CASE ~(c.waits /\ next = {})
        <3>1. answer' = answer
            BY <2>2 DEF Served
        <3> QED BY <1>4, <2>2, <3>1
    <2> QED BY <2>1, <2>2
<1> QED BY <1>1, <1>3, <1>5 DEF Served, hosts

(* Where a request in flight comes from. *)
LEMMA ServedCalls ==
    ASSUME NEW c, NEW next, NEW a, Served(c, next, a), NEW x \in calls'
    PROVE  (x \in calls /\ x # c) \/ (x \in next /\ Follows(c, x))
BY DEF Served

LEMMA ServedRequests ==
    ASSUME TypeInv, WorkInv, RequestsInv, NEW c, NEW next, NEW a, Served(c, next, a),
           build'.att = build.att,
           \/ artifacts' = artifacts
           \/ /\ c.op = "complete" /\ \A e \in next : e.stage \in {"reread", "mark"}
              /\ \A b \in Attempts, f \in Files :
                    b # c.att \/ f # c.file => artifacts'[b][f] = artifacts[b][f]
    PROVE  RequestsInv'
<1>0. /\ c \in calls /\ c.w \in Workers /\ daemon' = daemon
      /\ \A v \in Workers : answer'[v] = IF v = c.w /\ c.waits /\ next = {}
                                         THEN a ELSE answer[v]
    BY ServedTypes DEF Served
<1>t. \A x \in calls : x.att \in Attempts /\ x.file \in Files
    BY DEF TypeInv, CallRecords
<1>d. \A v \in Workers : daemon[v].att \in 0..MaxAttempt /\ daemon[v].file \in Files
    BY DEF TypeInv, DaemonRecords
<1>x. \A x \in calls' : (x \in calls /\ x # c) \/ (x \in next /\ Follows(c, x))
    BY ServedCalls
<1>n. next = {} \/ \E e : next = {e}
    BY DEF Served
<1>s. ASSUME NEW b \in Attempts, NEW f \in Files, artifacts'[b][f] # artifacts[b][f]
      PROVE  c.op = "complete" /\ b = c.att /\ f = c.file
    BY <1>s
<1>e. ASSUME NEW x \in calls', NEW b, NEW f, For(x, b, f) PROVE \E y \in calls : For(y, b, f)
    BY <1>0, <1>x, <1>e DEF For, Stores, Follows
<1>1. OneWaits'
    <2>1. ASSUME NEW v \in Workers
          PROVE  /\ (daemon[v].pc # "wait" \/ answer'[v] # None) => Waiting(v)' = {}
                 /\ answer'[v] # None => daemon[v].pc = "wait"
                 /\ \A x, y \in Waiting(v)' : x = y
                 /\ \A x \in Waiting(v)' : /\ x.op = daemon[v].op /\ x.att = daemon[v].att
                                           /\ x.file = daemon[v].file
        <3>o. /\ (daemon[v].pc # "wait" \/ answer[v] # None) => Waiting(v) = {}
              /\ answer[v] # None => daemon[v].pc = "wait"
              /\ \A x, y \in Waiting(v) : x = y
              /\ \A x \in Waiting(v) : /\ x.op = daemon[v].op /\ x.att = daemon[v].att
                                       /\ x.file = daemon[v].file
            BY DEF RequestsInv, OneWaits
        <3>1. CASE v = c.w /\ c.waits
            <4>1. c \in Waiting(v)
                BY <1>0, <3>1 DEF Waiting
            <4>2. \A x \in Waiting(v)' : x \in next /\ Follows(c, x)
                BY <1>x, <3>o, <4>1 DEF Waiting
            <4>3. answer'[v] # None => next = {}
                BY <1>0, <3>o, <3>1, <4>1
            <4>4. \A x, y \in Waiting(v)' : x = y
                BY <1>n, <4>2
            <4>5. \A x \in Waiting(v)' : /\ x.op = daemon[v].op /\ x.att = daemon[v].att
                                         /\ x.file = daemon[v].file
                BY <3>o, <4>1, <4>2 DEF Follows
            <4>6. daemon[v].pc = "wait"
                BY <3>o, <4>1
            <4> QED BY <4>2, <4>3, <4>4, <4>5, <4>6
        <3>2. CASE ~(v = c.w /\ c.waits)
            <4>1. \A x \in Waiting(v)' : x \in Waiting(v)
                BY <1>x, <3>2 DEF Waiting, Follows
            <4>2. answer'[v] = answer[v]
                BY <1>0, <3>2
            <4> QED BY <3>o, <4>1, <4>2
        <3> QED BY <3>1, <3>2
    <2> QED BY <1>0, <2>1 DEF OneWaits
<1>2. AttemptsInv'
    <2>1. \A x \in calls' : x.op \in BuildOps => x.att <= build.att
        BY <1>0, <1>x DEF RequestsInv, AttemptsInv, Follows
    <2> QED BY <1>0, <2>1 DEF RequestsInv, AttemptsInv
<1>3. AsksOnce'
    <2>1. ASSUME NEW v \in Workers, daemon[v].kind = "build", NEW f \in Files,
                 f >= From(daemon[v])
          PROVE  Quiet(daemon[v].att, f)'
        <3>1. Quiet(daemon[v].att, f)
            BY <2>1 DEF RequestsInv, AsksOnce
        <3>2. artifacts'[daemon[v].att][f] = artifacts[daemon[v].att][f]
            <4>1. c.op = "complete" => ~(c.att = daemon[v].att /\ c.file = f)
                BY <1>0, <3>1 DEF Quiet, For, Stores
            <4>2. CASE artifacts' = artifacts
                BY <4>2
            <4>3. CASE artifacts' # artifacts
                <5>1. daemon[v].att \in Attempts
                    BY <2>1 DEF WorkInv, WorkOf
                <5> QED BY <1>s, <2>1, <4>1, <5>1
            <4> QED BY <4>2, <4>3
        <3>3. \A x \in calls' : ~For(x, daemon[v].att, f)
            BY <1>e, <3>1 DEF Quiet
        <3> QED BY <1>0, <3>1, <3>2, <3>3 DEF Quiet
    <2>2. ASSUME NEW v \in Workers, Doing(daemon[v], {}, {"part"})
          PROVE  /\ artifacts'[daemon[v].att][daemon[v].file] = 0
                 /\ \A x \in calls' : For(x, daemon[v].att, daemon[v].file) => x \in Waiting(v)'
        <3>1. /\ artifacts[daemon[v].att][daemon[v].file] = 0
              /\ \A x \in calls : For(x, daemon[v].att, daemon[v].file) => x \in Waiting(v)
              /\ \A x \in Waiting(v) : x.op = daemon[v].op
            BY <2>2 DEF RequestsInv, AsksOnce, OneWaits
        <3>2. c.op = "complete" => ~(c.att = daemon[v].att /\ c.file = daemon[v].file)
            BY <1>0, <2>2, <3>1 DEF For, Stores, Doing
        <3>3. artifacts'[daemon[v].att][daemon[v].file] = 0
            <4>2. CASE artifacts' = artifacts
                BY <3>1, <4>2
            <4>3. CASE artifacts' # artifacts
                <5>1. daemon[v].att \in Attempts
                    BY <2>2 DEF WorkInv, WorkOf, Doing
                <5> QED BY <1>d, <1>s, <3>1, <3>2, <5>1
            <4> QED BY <4>2, <4>3
        <3>4. ASSUME NEW x \in calls', For(x, daemon[v].att, daemon[v].file)
              PROVE  x \in Waiting(v)'
            <4>1. CASE x \in calls /\ x # c
                BY <3>1, <3>4, <4>1 DEF Waiting
            <4>2. CASE x \in next /\ Follows(c, x)
                <5>1. For(c, daemon[v].att, daemon[v].file)
                    BY <3>4, <4>2 DEF For, Stores, Follows
                <5>2. c \in Waiting(v)
                    BY <1>0, <3>1, <5>1
                <5> QED BY <3>4, <4>2, <5>2 DEF Waiting, Follows
            <4> QED BY <1>x, <4>1, <4>2
        <3> QED BY <3>3, <3>4
    <2>3. ASSUME NEW x \in calls', NEW y \in calls',
                 Stores(x), For(y, x.att, x.file), x.op = "complete"
          PROVE  x = y
        <3>o. \A p, q \in calls : Stores(p) /\ For(q, p.att, p.file) /\ p.op = "complete"
                                     => p = q
            BY DEF RequestsInv, AsksOnce
        <3>1. CASE x \in calls /\ x # c /\ y \in calls /\ y # c
            BY <2>3, <3>o, <3>1
        <3>2. CASE x \in next /\ Follows(c, x) /\ y \in next /\ Follows(c, y)
            BY <1>n, <3>2
        <3>3. CASE x \in next /\ Follows(c, x) /\ y \in calls /\ y # c
            BY <1>0, <2>3, <3>o, <3>3 DEF For, Stores, Follows
        <3>4. CASE x \in calls /\ x # c /\ y \in next /\ Follows(c, y)
            BY <1>0, <2>3, <3>o, <3>4 DEF For, Stores, Follows
        <3> QED BY <1>x, <3>1, <3>2, <3>3, <3>4
    <2>4. ASSUME NEW x \in calls', Stores(x),
                 x.op = "complete" => x.stage \notin {"reread", "mark"}
          PROVE  artifacts'[x.att][x.file] = 0
        <3>o. /\ \A p, q \in calls : Stores(p) /\ For(q, p.att, p.file) /\ p.op = "complete"
                                        => p = q
              /\ \A p \in calls : Stores(p) /\ (p.op = "complete" =>
                                                p.stage \notin {"reread", "mark"})
                                     => artifacts[p.att][p.file] = 0
            BY DEF RequestsInv, AsksOnce
        <3>1. CASE x \in calls /\ x # c
            <4>1. artifacts[x.att][x.file] = 0
                BY <2>4, <3>o, <3>1
            <4>2. c.op = "complete" => ~(x.att = c.att /\ x.file = c.file)
                BY <1>0, <2>4, <3>o, <3>1 DEF For, Stores
            <4> QED BY <1>s, <1>t, <3>1, <4>1, <4>2
        <3>2. CASE x \in next /\ Follows(c, x)
            <4>1. artifacts[c.att][c.file] = 0
                BY <1>0, <2>4, <3>o, <3>2 DEF Stores, Follows
            <4>2. artifacts' = artifacts
                BY <2>4, <3>2 DEF Follows
            <4> QED BY <3>2, <4>1, <4>2 DEF Follows
        <3> QED BY <1>x, <3>1, <3>2
    <2> QED BY <1>0, <2>1, <2>2, <2>3, <2>4 DEF AsksOnce
<1> QED BY <1>1, <1>2, <1>3 DEF RequestsInv

(* What no step of a request does to a row: it goes on to name the package   *)
(* and the attempt it named, and never becomes active again.                 *)
SameUpload(row, row2) ==
    /\ row2.att = row.att /\ row2.file = row.file
    /\ row2.worker = row.worker /\ row2.sha = row.sha
    /\ row2.status = "active" => row.status = "active"

RowsGo ==
    \A u \in 1..Len(uploads) : u \in 1..Len(uploads') /\ SameUpload(uploads[u], uploads'[u])

(* What the other requests rely on. *)
Undisturbed(c) ==
    /\ \A u \in 1..Len(uploads) : uploads[u].att < build.att /\ Recorded(u)' => Recorded(u)
    /\ \A e \in calls \ {c} : e.op = "complete" /\ e.stage = "commit" =>
         \/ uploads'[e.up].object = uploads[e.up].object
         \/ e.att < build.att

LEMMA RequestGoesOn ==
    ASSUME TypeInv, NEW c, NEW e \in calls \ {c}, RequestOf(e), SameLease, RowsGo, Undisturbed(c)
    PROVE  RequestOf(e)'
<1>1. e.stage \in {"supersede", "superseded"} =>
         /\ e.up \in 1..Len(uploads') /\ uploads'[e.up].att < build'.att /\ ~Recorded(e.up)'
    BY DEF RequestOf, SameLease, RowsGo, SameUpload, Undisturbed
<1>2. ASSUME e.op \in {"part", "complete", "abort"}
      PROVE  /\ e.up # 0 => Upload(e.up, e.att, e.file)'
             /\ e.stage # "read" => e.up # 0
    BY <1>2 DEF RequestOf, RowsGo, SameUpload, Upload
<1>3. e.op = "complete" /\ e.stage = "commit" =>
        uploads'[e.up].object = Wrote(e.att) \/ e.att < build'.att
    BY DEF RequestOf, SameLease, Undisturbed
<1>4. e.op = "start" => e.sha = Wrote(e.att)
    BY DEF RequestOf
<1> QED BY <1>1, <1>2, <1>3, <1>4 DEF RequestOf, Upload

LEMMA ServedRows ==
    ASSUME TypeInv, RequestsInv, RowsInv, NEW c, NEW next, NEW a, Served(c, next, a),
           SameLease, RowsGo, Undisturbed(c), ArtifactsInv',
           \A u \in 1..Len(uploads') : RowOf(uploads[u])',
           \A e \in next : RequestOf(e)',
           c.op = "start" /\ a # None /\ a.ok => a.up = 0 \/ Upload(a.up, c.att, c.file)'
    PROVE  RowsInv'
<1>0. /\ c \in calls /\ c.w \in Workers /\ daemon' = daemon
      /\ \A v \in Workers : answer'[v] = IF v = c.w /\ c.waits /\ next = {}
                                         THEN a ELSE answer[v]
    BY ServedTypes DEF Served
<1>1. ASSUME NEW e \in calls' PROVE RequestOf(e)'
    <2>1. CASE e \in calls /\ e # c
        <3>1. RequestOf(e)
            BY <2>1 DEF RowsInv
        <3> QED BY <2>1, <3>1, RequestGoesOn
    <2>2. CASE e \in next
        BY <2>2
    <2> QED BY <2>1, <2>2, ServedCalls
<1>2. ASSUME NEW u, NEW b, NEW f, Upload(u, b, f) PROVE Upload(u, b, f)'
    BY <1>2 DEF Upload, RowsGo, SameUpload
<1>3. ASSUME NEW v \in Workers PROVE UploadOf(daemon[v], answer[v])'
    <2>1. UploadOf(daemon[v], answer[v])
        BY DEF RowsInv
    <2>2. Doing(daemon[v], {"part", "complete", "abort"}, {"part", "complete"}) =>
             daemon[v].up = 0 \/ Upload(daemon[v].up, daemon[v].att, daemon[v].file)'
        BY <1>0, <1>2, <2>1 DEF UploadOf
    <2>3. CASE v = c.w /\ c.waits /\ next = {}
        <3>1. c \in Waiting(v)
            BY <1>0, <2>3 DEF Waiting
        <3>2. c.op = daemon[v].op /\ c.att = daemon[v].att /\ c.file = daemon[v].file
            BY <3>1 DEF RequestsInv, OneWaits
        <3>3. Doing(daemon[v], {}, {"start"}) => c.op = "start"
            BY <3>2 DEF Doing
        <3> QED BY <1>0, <2>2, <2>3, <3>2, <3>3 DEF UploadOf
    <2>4. CASE ~(v = c.w /\ c.waits /\ next = {})
        <3>1. answer'[v] = answer[v]
            BY <1>0, <2>4
        <3> QED BY <1>0, <1>2, <2>1, <2>2, <3>1 DEF UploadOf
    <2> QED BY <2>3, <2>4
<1> QED BY <1>1, <1>3 DEF RowsInv

LEMMA ServedImages ==
    ASSUME TypeInv, RequestsInv, ImagesInv, NEW c, NEW next, NEW a, Served(c, next, a),
           JobInv', Len(iuploads) <= Len(iuploads'), Len(iuploads') \in Nat,
           \A u \in 1..Len(iuploads') : ImageRowOf(iuploads[u])',
           \A u \in 1..Len(iuploads) : Intact(u) => Intact(u)',
           image.artifact # 0 => image'.artifact # 0,
           \A e \in next : ImageRequestOf(e)',
           c.op = "istart" /\ a # None /\ a.ok => a.up \in 1..Len(iuploads')
    PROVE  ImagesInv'
<1>0. /\ c \in calls /\ c.w \in Workers /\ daemon' = daemon
      /\ \A v \in Workers : answer'[v] = IF v = c.w /\ c.waits /\ next = {}
                                         THEN a ELSE answer[v]
    BY ServedTypes DEF Served
<1>i. \A u : u \in 1..Len(iuploads) => u \in 1..Len(iuploads')
    <2>1. Len(iuploads) \in Nat
        BY DEF TypeInv
    <2> QED BY <2>1
<1>1. ASSUME NEW e \in calls' PROVE ImageRequestOf(e)'
    <2>1. CASE e \in calls /\ e # c
        <3>1. ImageRequestOf(e)
            BY <2>1 DEF ImagesInv
        <3>2. e.op = "icomplete" /\ e.stage = "commit" => Intact(e.up)'
            BY <3>1 DEF ImageRequestOf, Intact
        <3> QED BY <1>i, <3>1, <3>2 DEF ImageRequestOf
    <2>2. CASE e \in next
        BY <2>2
    <2> QED BY <2>1, <2>2, ServedCalls
<1>3. ASSUME NEW v \in Workers PROVE ImageUploadOf(daemon[v], answer[v])'
    <2>1. ImageUploadOf(daemon[v], answer[v])
        BY DEF ImagesInv
    <2>2. Doing(daemon[v], {"ipart", "icomplete"}, {"ipart"}) =>
             daemon[v].up \in 1..Len(iuploads')
        BY <1>i, <2>1 DEF ImageUploadOf
    <2>3. CASE v = c.w /\ c.waits /\ next = {}
        <3>1. c \in Waiting(v)
            BY <1>0, <2>3 DEF Waiting
        <3>2. c.op = daemon[v].op
            BY <3>1 DEF RequestsInv, OneWaits
        <3>3. Doing(daemon[v], {}, {"istart"}) => c.op = "istart"
            BY <3>2 DEF Doing
        <3> QED BY <1>0, <2>2, <2>3, <3>3 DEF ImageUploadOf
    <2>4. CASE ~(v = c.w /\ c.waits /\ next = {})
        <3>1. answer'[v] = answer[v]
            BY <1>0, <2>4
        <3> QED BY <1>0, <1>i, <2>1, <2>2, <3>1 DEF ImageUploadOf
    <2> QED BY <2>3, <2>4
<1> QED BY <1>1, <1>3 DEF ImagesInv

-----------------------------------------------------------------------------
(* Steps of the handlers of a build's requests.                              *)
LEMMA BuildServed ==
    ASSUME DaemonInv, NEW c, NEW next, NEW a, Served(c, next, a),
           c.op \in BuildOps \cup {"failed"}, UNCHANGED images,
           SameLease, build' \in BuildRecords, build'.status = "queued" => build.status = "queued",
           uploads' \in Seq(UploadRows), artifacts' \in [Attempts -> [Files -> Nat]],
           \/ artifacts' = artifacts
           \/ /\ c.op = "complete" /\ \A e \in next : e.stage \in {"reread", "mark"}
              /\ \A b \in Attempts, f \in Files :
                    b # c.att \/ f # c.file => artifacts'[b][f] = artifacts[b][f],
           RowsGo, Undisturbed(c), ArtifactsInv',
           \A u \in 1..Len(uploads') : RowOf(uploads[u])',
           \A e \in next : RequestOf(e)',
           c.op = "start" /\ a # None /\ a.ok => a.up = 0 \/ Upload(a.up, c.att, c.file)'
    PROVE  DaemonInv'
<1>0. TypeInv /\ WorkInv /\ HostInv /\ RequestsInv /\ RowsInv /\ ImagesInv
    BY DEF DaemonInv
<1>u. /\ UNCHANGED <<daemon, held, crashed, image, iuploads, inspection>>
      /\ calls' \subseteq CallRecords /\ answer' \in [Workers -> Answers]
    BY <1>0, ServedTypes DEF images
<1>1. TypeInv'
    BY <1>0, <1>u DEF TypeInv, SameLease
<1>2. WorkInv' /\ HostInv'
    BY <1>0, <1>u DEF WorkInv, HostInv
<1>3. RequestsInv'
    BY <1>0, ServedRequests DEF SameLease
<1>4. RowsInv'
    BY <1>0, ServedRows
<1>5. ImagesInv'
    <2>1. JobInv' /\ (\A u \in 1..Len(iuploads') : ImageRowOf(iuploads[u])')
        BY <1>0, <1>u DEF ImagesInv, JobInv, Intact, ImageRowOf
    <2>2. \A u \in 1..Len(iuploads) : Intact(u) => Intact(u)'
        BY <1>u DEF Intact
    <2>3. \A e \in next : e.op = c.op
        BY DEF Served, Follows
    <2>4. \A e \in next : ImageRequestOf(e)'
        BY <2>3 DEF ImageRequestOf, BuildOps
    <2>5. Len(iuploads) <= Len(iuploads') /\ Len(iuploads') \in Nat
        BY <1>0, <1>u DEF TypeInv
    <2>6. c.op # "istart"
        BY DEF BuildOps
    <2> QED BY <1>0, <1>u, <2>1, <2>2, <2>4, <2>5, <2>6, ServedImages
<1> QED BY <1>0, <1>1, <1>2, <1>3, <1>4, <1>5 DEF DaemonInv

(* The rows stay as they are. *)
LEMMA ReadsKeep ==
    ASSUME DaemonInv, NEW c, NEW next, NEW a, Served(c, next, a),
           c.op \in BuildOps \cup {"failed"}, UNCHANGED <<images, uploads, artifacts>>,
           SameLease, build' \in BuildRecords, build'.status = "queued" => build.status = "queued",
           \A e \in next : RequestOf(e),
           c.op = "start" /\ a # None /\ a.ok => a.up = 0 \/ Upload(a.up, c.att, c.file)
    PROVE  DaemonInv'
<1>0. TypeInv /\ RowsInv
    BY DEF DaemonInv
<1>1. RowsGo /\ Undisturbed(c)
    BY DEF RowsGo, SameUpload, Undisturbed, Recorded
<1>2. ArtifactsInv'
    BY <1>0 DEF RowsInv, ArtifactsInv, Upload
<1>3. \A u \in 1..Len(uploads') : RowOf(uploads[u])'
    BY <1>0 DEF RowsInv, RowOf, SameLease
<1>4. \A e \in next : RequestOf(e)'
    BY DEF RequestOf, Upload, Recorded, SameLease
<1>5. uploads' \in Seq(UploadRows) /\ artifacts' \in [Attempts -> [Files -> Nat]]
    BY <1>0 DEF TypeInv
<1>6. c.op = "start" /\ a # None /\ a.ok => a.up = 0 \/ Upload(a.up, c.att, c.file)'
    BY DEF Upload
<1> QED BY <1>1, <1>2, <1>3, <1>4, <1>5, <1>6, BuildServed

(* An upload whose object no artifact names, and no request is about to name. *)
Spare(u, c) ==
    /\ ~Recorded(u)
    /\ \A e \in calls \ {c} : e.op = "complete" /\ e.stage = "commit" /\ e.up = u
                                => e.att < build.att

(* The row of the request's upload becomes row. *)
RowBecomes(c, row) ==
    /\ c.up \in 1..Len(uploads) /\ row \in UploadRows
    /\ uploads' = [uploads EXCEPT ![c.up] = row]
    /\ SameUpload(uploads[c.up], row)
    /\ row.mp = "open" => row.object = None
    /\ row.object = uploads[c.up].object \/ Spare(c.up, c)

LEMMA RowKeeps ==
    ASSUME DaemonInv, NEW c, NEW next, NEW a, Served(c, next, a),
           c.op \in BuildOps \cup {"failed"}, NEW row, RowBecomes(c, row),
           UNCHANGED images, UNCHANGED build, UNCHANGED artifacts,
           \A e \in next : RequestOf(e)',
           c.op = "start" => a = None \/ ~a.ok
    PROVE  DaemonInv'
<1>0. TypeInv /\ RowsInv
    BY DEF DaemonInv
<1>r. /\ uploads' \in Seq(UploadRows) /\ Len(uploads') = Len(uploads)
      /\ \A u \in 1..Len(uploads) : uploads'[u] = IF u = c.up THEN row ELSE uploads[u]
    BY <1>0, UpdatedRow DEF TypeInv, RowBecomes
<1>b. /\ c.up \in 1..Len(uploads) /\ SameUpload(uploads[c.up], row)
      /\ row.mp = "open" => row.object = None
      /\ row.object = uploads[c.up].object \/ Spare(c.up, c)
    BY DEF RowBecomes
<1>1. RowsGo
    BY <1>b, <1>r DEF RowsGo, SameUpload
<1>2. Undisturbed(c)
    <2>1. ASSUME NEW e \in calls \ {c}, e.op = "complete", e.stage = "commit",
                 ~(e.att < build.att)
          PROVE  uploads'[e.up].object = uploads[e.up].object
        <3>1. RequestOf(e)
            BY <1>0 DEF RowsInv
        <3>2. e.up \in 1..Len(uploads)
            BY <2>1, <3>1 DEF RequestOf, Upload
        <3> QED BY <1>b, <1>r, <2>1, <3>2 DEF Spare
    <2>2. \A u : Recorded(u)' => Recorded(u)
        BY DEF Recorded
    <2> QED BY <2>1, <2>2 DEF Undisturbed
<1>3. ArtifactsInv'
    <2>1. ASSUME NEW b \in Attempts, NEW f \in Files, artifacts[b][f] # 0
          PROVE  /\ Upload(artifacts[b][f], b, f)' /\ uploads'[artifacts[b][f]].status # "active"
                 /\ uploads'[artifacts[b][f]].object = Wrote(b)
        <3>1. /\ Upload(artifacts[b][f], b, f) /\ uploads[artifacts[b][f]].status # "active"
              /\ uploads[artifacts[b][f]].object = Wrote(b)
            BY <1>0, <2>1 DEF RowsInv, ArtifactsInv
        <3>2. artifacts[b][f] = c.up => row.object = uploads[c.up].object
            BY <1>b DEF Spare, Recorded
        <3>3. Upload(artifacts[b][f], b, f)'
            BY <1>b, <1>r, <3>1 DEF Upload, SameUpload
        <3> QED BY <1>b, <1>r, <3>1, <3>2, <3>3 DEF Upload, SameUpload
    <2> QED BY <2>1 DEF ArtifactsInv
<1>4. \A u \in 1..Len(uploads') : RowOf(uploads[u])'
    <2>1. ASSUME NEW u \in 1..Len(uploads) PROVE RowOf(uploads[u])'
        <3>1. RowOf(uploads[u])
            BY <1>0 DEF RowsInv
        <3> QED BY <1>b, <1>r, <3>1 DEF RowOf, SameUpload
    <2> QED BY <1>r, <2>1
<1>5. /\ artifacts' \in [Attempts -> [Files -> Nat]] /\ build' \in BuildRecords
      /\ SameLease /\ build'.status = build.status /\ UNCHANGED images /\ artifacts' = artifacts
    BY <1>0 DEF TypeInv, SameLease
<1> QED BY <1>r, <1>1, <1>2, <1>3, <1>4, <1>5, BuildServed

-----------------------------------------------------------------------------
(* The three ways a step of a request ends.                                  *)
LEMMA RefuseServed ==
    ASSUME NEW c \in calls, Refuse(c), UNCHANGED hosts
    PROVE  \E a : Served(c, {}, a) /\ (a # None => ~a.ok)
<1> SUFFICES ASSUME NEW a, a = [ok |-> FALSE, up |-> 0, done |-> FALSE]
             PROVE  Served(c, {}, a) /\ ~a.ok
    OBVIOUS
<1>1. a \in Answers
    BY DEF Answers
<1>2. Answer(c, a)
    BY DEF Refuse
<1> QED BY <1>1, <1>2 DEF Answer, Served

LEMMA AcceptServed ==
    ASSUME NEW c \in calls, NEW u \in Nat, NEW done \in BOOLEAN, Accept(c, u, done),
           UNCHANGED hosts
    PROVE  \E a : Served(c, {}, a) /\ a.up = u
<1> SUFFICES ASSUME NEW a, a = [ok |-> TRUE, up |-> u, done |-> done]
             PROVE  Served(c, {}, a) /\ a.up = u
    OBVIOUS
<1>1. a \in Answers
    BY DEF Answers
<1>2. Answer(c, a)
    BY DEF Accept
<1> QED BY <1>1, <1>2 DEF Answer, Served

(* The request c with the stage s next, for the upload u. *)
Next2(c, e, s, u) ==
    /\ e.op = c.op /\ e.stage = s /\ e.att = c.att /\ e.file = c.file
    /\ e.sha = c.sha /\ e.up = u

LEMMA ContinueServed ==
    ASSUME TypeInv, NEW c \in calls, NEW s \in Stages, Continue(c, s), UNCHANGED hosts,
           c.op = "complete" /\ c.stage \in {"reread", "mark"} => s \in {"reread", "mark"}
    PROVE  \E e : Served(c, {e}, None) /\ Next2(c, e, s, c.up)
<1> SUFFICES ASSUME NEW e, e = [c EXCEPT !.stage = s]
             PROVE  Served(c, {e}, None) /\ Next2(c, e, s, c.up)
    OBVIOUS
<1>1. c \in CallRecords
    BY DEF TypeInv
<1>2. e \in CallRecords
    BY <1>1 DEF CallRecords
<1>3. Follows(c, e) /\ Next2(c, e, s, c.up)
    BY <1>1, <1>2 DEF CallRecords, Follows, Next2
<1>4. calls' = (calls \ {c}) \cup {e} /\ answer' = answer
    BY DEF Continue
<1>5. None \in Answers
    BY DEF Answers
<1> QED BY <1>3, <1>4, <1>5 DEF Served

BuildRequest(c) == c \in calls /\ c.op \in BuildOps \cup {"failed"}
OthersKept == UNCHANGED <<images, hosts>>

LEMMA RefuseKeeps ==
    ASSUME DaemonInv, NEW c, BuildRequest(c), Refuse(c), OthersKept,
           UNCHANGED <<build, uploads, artifacts>>
    PROVE  DaemonInv'
<1>1. PICK a : Served(c, {}, a) /\ (a # None => ~a.ok)
    BY RefuseServed DEF BuildRequest, OthersKept
<1>2. build' \in BuildRecords /\ SameLease
    BY DEF DaemonInv, TypeInv, SameLease
<1> QED BY <1>1, <1>2, ReadsKeep DEF BuildRequest, OthersKept

LEMMA AcceptKeeps ==
    ASSUME DaemonInv, NEW c, BuildRequest(c), NEW u \in Nat, NEW done \in BOOLEAN,
           Accept(c, u, done), OthersKept, UNCHANGED <<build, uploads, artifacts>>,
           c.op = "start" => u = 0 \/ Upload(u, c.att, c.file)
    PROVE  DaemonInv'
<1>1. PICK a : Served(c, {}, a) /\ a.up = u
    BY AcceptServed DEF BuildRequest, OthersKept
<1>2. build' \in BuildRecords /\ SameLease
    BY DEF DaemonInv, TypeInv, SameLease
<1> QED BY <1>1, <1>2, ReadsKeep DEF BuildRequest, OthersKept

(* What the stage s of the request c may rely on. *)
MayGoTo(c, s) ==
    /\ c.op = "complete" /\ c.stage \in {"reread", "mark"} => s \in {"reread", "mark"}
    /\ s # "supersede" /\ (s = "superseded" => c.stage = "supersede")
    /\ c.op \in {"part", "complete", "abort"} => c.up # 0
    /\ s = "commit" /\ c.op = "complete" => uploads[c.up].object = Wrote(c.att)

LEMMA ContinueKeeps ==
    ASSUME DaemonInv, NEW c, BuildRequest(c), NEW s \in Stages, Continue(c, s), MayGoTo(c, s),
           OthersKept, UNCHANGED <<build, uploads, artifacts>>
    PROVE  DaemonInv'
<1>0. TypeInv /\ RequestOf(c)
    BY DEF DaemonInv, RowsInv, BuildRequest
<1>1. PICK e : Served(c, {e}, None) /\ Next2(c, e, s, c.up)
    BY <1>0, ContinueServed DEF BuildRequest, OthersKept, MayGoTo
<1>2. RequestOf(e)
    BY <1>0, <1>1 DEF Next2, MayGoTo, RequestOf
<1>3. build' \in BuildRecords /\ SameLease
    BY <1>0 DEF TypeInv, SameLease
<1> QED BY <1>1, <1>2, <1>3, ReadsKeep DEF BuildRequest, OthersKept

LEMMA RowContinues ==
    ASSUME DaemonInv, NEW c, BuildRequest(c), NEW row, RowBecomes(c, row), NEW s \in Stages,
           Continue(c, s), MayGoTo(c, s), s # "commit",
           OthersKept, UNCHANGED <<build, artifacts>>
    PROVE  DaemonInv'
<1>0. TypeInv /\ RequestOf(c)
    BY DEF DaemonInv, RowsInv, BuildRequest
<1>1. PICK e : Served(c, {e}, None) /\ Next2(c, e, s, c.up)
    BY <1>0, ContinueServed DEF BuildRequest, OthersKept, MayGoTo
<1>r. /\ Len(uploads') = Len(uploads)
      /\ \A u \in 1..Len(uploads) : uploads'[u] = IF u = c.up THEN row ELSE uploads[u]
    BY <1>0, UpdatedRow DEF TypeInv, RowBecomes
<1>2. RequestOf(e)'
    <2>1. e.stage \in {"supersede", "superseded"} =>
            /\ e.up \in 1..Len(uploads') /\ uploads'[e.up].att < build'.att /\ ~Recorded(e.up)'
        BY <1>0, <1>1, <1>r DEF Next2, MayGoTo, RequestOf, RowBecomes, SameUpload, Recorded
    <2>2. e.op \in {"part", "complete", "abort"} =>
            /\ e.up # 0 /\ Upload(e.up, e.att, e.file)'
        BY <1>0, <1>1, <1>r DEF Next2, MayGoTo, RequestOf, RowBecomes, SameUpload, Upload
    <2>3. e.op = "start" => e.sha = Wrote(e.att)
        BY <1>0, <1>1 DEF Next2, RequestOf
    <2>4. e.stage # "commit"
        BY <1>1 DEF Next2
    <2> QED BY <2>1, <2>2, <2>3, <2>4 DEF RequestOf, Upload
<1> QED BY <1>1, <1>2, RowKeeps DEF BuildRequest, OthersKept

LEMMA RowRefuses ==
    ASSUME DaemonInv, NEW c, BuildRequest(c), NEW row, RowBecomes(c, row), Refuse(c),
           OthersKept, UNCHANGED <<build, artifacts>>
    PROVE  DaemonInv'
<1>1. PICK a : Served(c, {}, a) /\ (a # None => ~a.ok)
    BY RefuseServed DEF BuildRequest, OthersKept
<1> QED BY <1>1, RowKeeps DEF BuildRequest, OthersKept

LEMMA RowAccepts ==
    ASSUME DaemonInv, NEW c, BuildRequest(c), NEW row, RowBecomes(c, row),
           Accept(c, c.up, FALSE), c.op # "start", OthersKept, UNCHANGED <<build, artifacts>>
    PROVE  DaemonInv'
<1>1. c.up \in Nat
    BY DEF DaemonInv, TypeInv, BuildRequest, CallRecords
<1>2. PICK a : Served(c, {}, a) /\ a.up = c.up
    BY <1>1, AcceptServed DEF BuildRequest, OthersKept
<1> QED BY <1>2, RowKeeps DEF BuildRequest, OthersKept

(* The objects a request may take down. *)
LEMMA SupersededIsSpare ==
    ASSUME DaemonInv, NEW c \in calls, c.stage = "supersede"
    PROVE  c.up \in 1..Len(uploads) /\ Spare(c.up, c)
<1>1. c.up \in 1..Len(uploads) /\ uploads[c.up].att < build.att /\ ~Recorded(c.up)
    BY DEF DaemonInv, RowsInv, RequestOf
<1>2. ASSUME NEW e \in calls, e.op = "complete", e.up = c.up, e.stage = "commit"
      PROVE  e.att < build.att
    <2>1. Upload(e.up, e.att, e.file)
        BY <1>1, <1>2 DEF DaemonInv, RowsInv, RequestOf
    <2> QED BY <1>1, <1>2, <2>1 DEF Upload
<1> QED BY <1>1, <1>2 DEF Spare

LEMMA AskedForIsSpare ==
    ASSUME DaemonInv, NEW c \in calls, Stores(c), c.up # 0,
           c.op = "complete" => c.stage \notin {"reread", "mark"}
    PROVE  Spare(c.up, c)
<1>0. /\ \A p, q \in calls : Stores(p) /\ For(q, p.att, p.file) /\ p.op = "complete" => p = q
      /\ artifacts[c.att][c.file] = 0
    BY DEF DaemonInv, RequestsInv, AsksOnce
<1>1. Upload(c.up, c.att, c.file)
    BY DEF DaemonInv, RowsInv, RequestOf, Stores
<1>2. ~Recorded(c.up)
    <2>1. ASSUME NEW b \in Attempts, NEW f \in Files, artifacts[b][f] = c.up PROVE FALSE
        <3>1. Upload(c.up, b, f)
            BY <2>1 DEF DaemonInv, RowsInv, ArtifactsInv
        <3> QED BY <1>0, <1>1, <2>1, <3>1 DEF Upload
    <2> QED BY <2>1 DEF Recorded
<1>3. ASSUME NEW e \in calls \ {c}, e.op = "complete", e.up = c.up PROVE FALSE
    <2>1. Upload(e.up, e.att, e.file)
        BY <1>3 DEF DaemonInv, RowsInv, RequestOf
    <2>2. e.att = c.att /\ e.file = c.file
        BY <1>1, <1>3, <2>1 DEF Upload
    <2> QED BY <1>0, <1>3, <2>2 DEF For, Stores
<1> QED BY <1>2, <1>3 DEF Spare

(* Two fields of a row assigned one after the other. *)
LEMMA TwoFields ==
    ASSUME NEW R, NEW s \in Seq(R), NEW i \in 1..Len(s), NEW m, NEW b
    PROVE  [s EXCEPT ![i].mp = m, ![i].object = b]
             = [s EXCEPT ![i] = [s[i] EXCEPT !.mp = m, !.object = b]]
OBVIOUS

LEMMA AbortedRow ==
    ASSUME NEW row \in UploadRows, row.mp = "open" => row.object = None
    PROVE  /\ AbortR2(row) \in UploadRows /\ SameUpload(row, AbortR2(row))
           /\ AbortR2(row).mp # "open"
<1>1. CASE row.mp = "open"
    <2>1. [row EXCEPT !.mp = "aborted"] \in UploadRows
        BY DEF UploadRows
    <2> QED BY <1>1, <2>1 DEF AbortR2, SameUpload, UploadRows
<1>2. CASE row.mp # "open"
    <2>1. [row EXCEPT !.object = None] \in UploadRows
        BY DEF UploadRows, Bytes
    <2> QED BY <1>2, <2>1 DEF AbortR2, SameUpload, UploadRows
<1> QED BY <1>1, <1>2

LEMMA FailedRow ==
    ASSUME NEW row \in UploadRows, row.mp = "open" => row.object = None
    PROVE  /\ MarkFailed(row) \in UploadRows /\ SameUpload(row, MarkFailed(row))
           /\ MarkFailed(row).mp = row.mp /\ MarkFailed(row).object = row.object
<1>1. [row EXCEPT !.status = "failed"] \in UploadRows
    BY DEF UploadRows
<1> QED BY <1>1 DEF MarkFailed, SameUpload, UploadRows

(* What the rows say of a request. *)
LEMMA RequestFacts ==
    ASSUME DaemonInv, NEW c, BuildRequest(c)
    PROVE  /\ c.att \in Attempts /\ c.file \in Files /\ c.up \in Nat /\ c.w \in Workers
           /\ c.part \in Parts /\ c.sha \in Bytes /\ c \in CallRecords /\ RequestOf(c)
           /\ \A u \in 1..Len(uploads) : uploads[u] \in UploadRows /\ RowOf(uploads[u])
           /\ DOMAIN uploads = 1..Len(uploads) /\ Len(uploads) \in Nat
BY DEF DaemonInv, TypeInv, RowsInv, BuildRequest, CallRecords

LEMMA StartReadKeeps ==
    ASSUME DaemonInv, NEW c, BuildRequest(c), StartRead(c), OthersKept
    PROVE  DaemonInv'
<1>0. /\ c.att \in Attempts /\ c.file \in Files /\ c \in CallRecords /\ c \in calls
      /\ RequestOf(c) /\ DOMAIN uploads = 1..Len(uploads)
      /\ c.op = "start" /\ c.stage = "read" /\ UNCHANGED <<build, uploads, artifacts>>
    BY RequestFacts DEF StartRead, BuildRequest
<1>1. CASE Refuse(c)
    BY <1>0, <1>1, RefuseKeeps
<1>2. CASE c.file \in FilesOf(c.att) /\ Accept(c, artifacts[c.att][c.file], TRUE)
    <2>1. artifacts[c.att][c.file] # 0
        BY <1>2 DEF FilesOf
    <2>2. Upload(artifacts[c.att][c.file], c.att, c.file)
        BY <1>0, <2>1 DEF DaemonInv, RowsInv, ArtifactsInv
    <2>3. artifacts[c.att][c.file] \in Nat
        BY <1>0 DEF DaemonInv, TypeInv
    <2> QED BY <1>0, <1>2, <2>2, <2>3, AcceptKeeps
<1>3. CASE Continue(c, "insert")
    BY <1>0, <1>3, ContinueKeeps DEF MayGoTo, Stages
<1>4. CASE \E u \in ActiveUploads : Same(uploads[u], c) /\ Accept(c, u, FALSE)
    <2>1. PICK u \in ActiveUploads : Same(uploads[u], c) /\ Accept(c, u, FALSE)
        BY <1>4
    <2>2. u \in 1..Len(uploads) /\ u \in Nat
        BY <1>0, <2>1 DEF ActiveUploads
    <2>3. Upload(u, c.att, c.file)
        BY <2>1, <2>2 DEF Same, Upload
    <2> QED BY <1>0, <2>1, <2>2, <2>3, AcceptKeeps
<1>5. CASE \E u \in ActiveUploads :
             /\ Leased(c) /\ ~(uploads[u].worker = c.w /\ uploads[u].att = c.att)
             /\ calls' = (calls \ {c}) \cup {[c EXCEPT !.stage = "supersede", !.up = u]}
             /\ UNCHANGED answer
    <2>1. PICK u \in ActiveUploads :
             /\ Leased(c) /\ ~(uploads[u].worker = c.w /\ uploads[u].att = c.att)
             /\ calls' = (calls \ {c}) \cup {[c EXCEPT !.stage = "supersede", !.up = u]}
             /\ UNCHANGED answer
        BY <1>5
    <2>2. u \in 1..Len(uploads) /\ u \in Nat /\ uploads[u].status = "active"
        BY <1>0, <2>1 DEF ActiveUploads
    <2>3. uploads[u].att < build.att
        <3>1. uploads[u] \in UploadRows /\ RowOf(uploads[u])
            BY <2>2 DEF DaemonInv, RowsInv, TypeInv
        <3>2. uploads[u].att \in Nat /\ build.att \in Nat
            BY <3>1 DEF DaemonInv, TypeInv, UploadRows, BuildRecords, Attempts
        <3> QED BY <2>1, <3>1, <3>2 DEF RowOf, Leased
    <2>4. ~Recorded(u)
        BY <2>2 DEF Recorded, DaemonInv, RowsInv, ArtifactsInv
    <2> SUFFICES ASSUME NEW e, e = [c EXCEPT !.stage = "supersede", !.up = u]
                 PROVE  DaemonInv'
        OBVIOUS
    <2>5. /\ e \in CallRecords /\ e.w = c.w /\ e.op = c.op /\ e.waits = c.waits
          /\ e.att = c.att /\ e.file = c.file /\ e.sha = c.sha
          /\ e.stage = "supersede" /\ e.up = u
        <3>1. u \in Nat /\ "supersede" \in Stages
            BY <2>2 DEF Stages
        <3> QED BY <1>0, <3>1 DEF CallRecords
    <2>6. Served(c, {e}, None)
        <3>1. calls' = (calls \ {c}) \cup {e} /\ answer' = answer /\ UNCHANGED hosts
            BY <2>1 DEF OthersKept
        <3>2. Follows(c, e)
            BY <1>0, <2>5 DEF Follows
        <3>3. None \in Answers
            BY DEF Answers
        <3> QED BY <1>0, <3>1, <3>2, <3>3 DEF Served
    <2>7. RequestOf(e)
        BY <1>0, <2>2, <2>3, <2>4, <2>5 DEF RequestOf
    <2>8. build' \in BuildRecords /\ SameLease
        BY <1>0 DEF DaemonInv, TypeInv, SameLease
    <2> QED BY <1>0, <2>6, <2>7, <2>8, ReadsKeep DEF BuildRequest, OthersKept
<1> QED BY <1>1, <1>2, <1>3, <1>4, <1>5 DEF StartRead

LEMMA StartInsertKeeps ==
    ASSUME DaemonInv, NEW c, BuildRequest(c), StartInsert(c), OthersKept
    PROVE  DaemonInv'
<1>0. /\ c.att \in Attempts /\ c.file \in Files /\ c \in CallRecords /\ c \in calls
      /\ c.w \in Workers /\ c.sha \in Bytes
      /\ RequestOf(c) /\ DOMAIN uploads = 1..Len(uploads) /\ Len(uploads) \in Nat
      /\ c.op = "start" /\ c.stage = "insert" /\ UNCHANGED <<build, artifacts>>
    BY RequestFacts DEF StartInsert, BuildRequest
<1>1. CASE Refuse(c) /\ UNCHANGED uploads
    BY <1>0, <1>1, RefuseKeeps
<1>2. CASE Accept(c, 0, FALSE) /\ UNCHANGED uploads
    BY <1>0, <1>2, AcceptKeeps
<1>3. CASE \E u \in ActiveUploads : /\ Same(uploads[u], c) /\ Accept(c, u, FALSE)
                                    /\ UNCHANGED uploads
    <2>1. PICK u \in ActiveUploads : Same(uploads[u], c) /\ Accept(c, u, FALSE)
        BY <1>3
    <2>2. u \in 1..Len(uploads) /\ u \in Nat
        BY <1>0, <2>1 DEF ActiveUploads
    <2>3. Upload(u, c.att, c.file)
        BY <2>1, <2>2 DEF Same, Upload
    <2> QED BY <1>0, <1>3, <2>1, <2>2, <2>3, AcceptKeeps
<1>4. CASE /\ Leased(c) /\ Accept(c, Len(uploads) + 1, FALSE)
           /\ uploads' = Append(uploads,
                  [file |-> c.file, att |-> c.att, worker |-> c.w, sha |-> c.sha,
                   status |-> "active", mp |-> "open", object |-> None,
                   staged |-> [p \in Parts |-> None],
                   parts |-> [p \in Parts |-> None]])
    <2> SUFFICES ASSUME NEW row,
                        row = [file |-> c.file, att |-> c.att, worker |-> c.w, sha |-> c.sha,
                               status |-> "active", mp |-> "open", object |-> None,
                               staged |-> [p \in Parts |-> None],
                   parts |-> [p \in Parts |-> None]]
                 PROVE  DaemonInv'
        OBVIOUS
    <2>1. /\ row \in UploadRows /\ row.att = c.att /\ row.file = c.file /\ row.worker = c.w
          /\ row.sha = c.sha /\ row.object = None
        BY <1>0 DEF UploadRows, Bytes
    <2>2. uploads' = Append(uploads, row)
        BY <1>4
    <2> DEFINE u == Len(uploads) + 1
    <2>3. /\ uploads' \in Seq(UploadRows) /\ Len(uploads') = u /\ uploads'[u] = row
          /\ \A x \in 1..Len(uploads) : uploads'[x] = uploads[x]
          /\ uploads \in Seq(UploadRows)
        BY <2>1, <2>2, AddedRow DEF DaemonInv, TypeInv
    <2>4. \A x \in 1..Len(uploads) : x \in 1..Len(uploads')
        BY <1>0, <2>3
    <2>5. u \in Nat /\ u \in 1..Len(uploads')
        BY <1>0, <2>3
    <2>6. PICK a : Served(c, {}, a) /\ a.up = u
        BY <1>0, <1>4, <2>5, AcceptServed DEF OthersKept
    <2>7. RowsGo
        BY <2>3, <2>4 DEF RowsGo, SameUpload
    <2>8. ASSUME NEW x \in 1..Len(uploads') PROVE RowOf(uploads[x])'
        <3>1. CASE x \in 1..Len(uploads)
            BY <1>0, <2>3, <3>1 DEF DaemonInv, RowsInv, RowOf
        <3>2. CASE x = u
            <4>1. row.sha = Wrote(row.att) /\ row.att = build.att /\ row.worker = build.worker
                BY <1>0, <1>4, <2>1 DEF RequestOf, Leased
            <4>2. build.att <= build.att
                BY DEF DaemonInv, TypeInv, BuildRecords
            <4> QED BY <1>0, <2>1, <2>3, <3>2, <4>1, <4>2 DEF RowOf
        <3> QED BY <1>0, <2>3, <3>1, <3>2
    <2>9. Undisturbed(c)
        <3>1. ASSUME NEW e \in calls \ {c}, e.op = "complete", e.stage = "commit"
              PROVE  uploads'[e.up].object = uploads[e.up].object
            <4>1. e.up \in 1..Len(uploads)
                BY <3>1 DEF DaemonInv, RowsInv, RequestOf, Upload
            <4> QED BY <2>3, <4>1
        <3>2. \A x : Recorded(x)' => Recorded(x)
            BY <1>0 DEF Recorded
        <3> QED BY <3>1, <3>2 DEF Undisturbed
    <2>10. ArtifactsInv'
        BY <1>0, <2>3, <2>4 DEF DaemonInv, RowsInv, ArtifactsInv, Upload
    <2>11. Upload(a.up, c.att, c.file)'
        BY <2>1, <2>3, <2>5, <2>6 DEF Upload
    <2>12. /\ build' \in BuildRecords /\ SameLease
           /\ artifacts' \in [Attempts -> [Files -> Nat]] /\ artifacts' = artifacts
           /\ build'.status = build.status
        BY <1>0 DEF DaemonInv, TypeInv, SameLease
    <2> QED BY <1>0, <2>3, <2>6, <2>7, <2>8, <2>9, <2>10, <2>11, <2>12, BuildServed
            DEF BuildRequest, OthersKept
<1> QED BY <1>1, <1>2, <1>3, <1>4 DEF StartInsert

LEMMA SupersedesKeep ==
    ASSUME DaemonInv, NEW c, BuildRequest(c), StartSupersede(c) \/ StartSuperseded(c), OthersKept
    PROVE  DaemonInv'
<1>0. /\ c.op = "start" /\ c \in calls /\ UNCHANGED <<build, artifacts>>
      /\ c.stage \in {"supersede", "superseded"}
      /\ "superseded" \in Stages /\ "insert" \in Stages
    BY DEF StartSupersede, StartSuperseded, BuildRequest, Stages
<1>1. c.up \in 1..Len(uploads) /\ uploads[c.up] \in UploadRows /\ RowOf(uploads[c.up])
    BY <1>0, RequestFacts DEF RequestOf
<1>2. CASE StartSupersede(c)
    <2>1. /\ Continue(c, "superseded") /\ c.stage = "supersede"
          /\ uploads' = [uploads EXCEPT ![c.up] = AbortR2(uploads[c.up])]
        BY <1>2 DEF StartSupersede
    <2>2. RowBecomes(c, AbortR2(uploads[c.up]))
        BY <1>0, <1>1, <2>1, AbortedRow, SupersededIsSpare DEF RowBecomes, RowOf
    <2>3. MayGoTo(c, "superseded")
        BY <1>0, <2>1 DEF MayGoTo
    <2> QED BY <1>0, <2>1, <2>2, <2>3, RowContinues
<1>3. CASE StartSuperseded(c)
    <2>1. /\ Continue(c, "insert") /\ c.stage = "superseded"
          /\ uploads' = [uploads EXCEPT ![c.up] = MarkFailed(uploads[c.up])]
        BY <1>3 DEF StartSuperseded
    <2>2. RowBecomes(c, MarkFailed(uploads[c.up]))
        BY <1>0, <1>1, <2>1, FailedRow DEF RowBecomes, RowOf
    <2>3. MayGoTo(c, "insert")
        BY <1>0, <2>1 DEF MayGoTo
    <2> QED BY <1>0, <2>1, <2>2, <2>3, RowContinues
<1> QED BY <1>2, <1>3

LEMMA PartsKeep ==
    ASSUME DaemonInv, NEW c, BuildRequest(c), OthersKept,
           PartRead(c) \/ PartStore(c) \/ PartRecord(c)
    PROVE  DaemonInv'
<1>0. /\ c.op = "part" /\ c \in calls /\ UNCHANGED <<build, artifacts>> /\ RequestOf(c)
      /\ c.part \in Parts /\ c.sha \in Bytes /\ c.up \in Nat
      /\ \A u \in 1..Len(uploads) : uploads[u] \in UploadRows /\ RowOf(uploads[u])
    BY RequestFacts DEF PartRead, PartStore, PartRecord, BuildRequest
<1>u. c.up # 0 => c.up \in 1..Len(uploads)
    BY <1>0 DEF RequestOf, Upload
<1>1. CASE PartRead(c)
    <2>1. UNCHANGED uploads
        BY <1>1 DEF PartRead
    <2>2. CASE Refuse(c)
        BY <1>0, <2>1, <2>2, RefuseKeeps
    <2>3. CASE Accept(c, c.up, FALSE)
        BY <1>0, <2>1, <2>3, AcceptKeeps
    <2>4. CASE Usable(c) /\ Continue(c, "store")
        BY <1>0, <2>1, <2>4, ContinueKeeps DEF MayGoTo, Usable, Stages
    <2> QED BY <1>1, <2>2, <2>3, <2>4 DEF PartRead
<1>2. CASE PartStore(c)
    <2>0. c.up \in 1..Len(uploads) /\ c.stage = "store" /\ c.up # 0
        BY <1>0, <1>2, <1>u DEF PartStore, RequestOf
    <2>1. CASE Refuse(c) /\ UNCHANGED uploads
        BY <1>0, <2>1, RefuseKeeps
    <2>2. CASE /\ uploads' = [uploads EXCEPT ![c.up].staged[c.part] = c.sha]
               /\ Continue(c, "record")
        <3> SUFFICES ASSUME NEW row,
                            row = [uploads[c.up] EXCEPT !.staged =
                                     [uploads[c.up].staged EXCEPT ![c.part] = c.sha]]
                     PROVE  DaemonInv'
            OBVIOUS
        <3>1. uploads' = [uploads EXCEPT ![c.up] = row]
            BY <2>2
        <3>2. /\ row \in UploadRows /\ SameUpload(uploads[c.up], row)
              /\ row.mp = uploads[c.up].mp /\ row.object = uploads[c.up].object
            <4>1. uploads[c.up] \in UploadRows
                BY <1>0, <2>0
            <4>2. [uploads[c.up].staged EXCEPT ![c.part] = c.sha] \in [Parts -> Bytes]
                BY <1>0, <4>1 DEF UploadRows
            <4> QED BY <4>1, <4>2 DEF UploadRows, SameUpload
        <3>3. RowBecomes(c, row)
            BY <1>0, <2>0, <3>1, <3>2 DEF RowBecomes, RowOf
        <3>4. MayGoTo(c, "record") /\ "record" \in Stages
            BY <1>0, <2>0 DEF MayGoTo, Stages
        <3> QED BY <1>0, <2>2, <3>3, <3>4, RowContinues
    <2> QED BY <1>2, <2>1, <2>2 DEF PartStore
<1>3. CASE PartRecord(c)
    <2>0. c.up \in 1..Len(uploads) /\ c.stage = "record" /\ c.up # 0
        BY <1>0, <1>3, <1>u DEF PartRecord, RequestOf
    <2>1. CASE Refuse(c) /\ UNCHANGED uploads
        BY <1>0, <2>1, RefuseKeeps
    <2>2. CASE /\ uploads' = [uploads EXCEPT ![c.up].parts[c.part] = c.sha]
               /\ Accept(c, c.up, FALSE)
        <3> SUFFICES ASSUME NEW row,
                            row = [uploads[c.up] EXCEPT !.parts =
                                     [uploads[c.up].parts EXCEPT ![c.part] = c.sha]]
                     PROVE  DaemonInv'
            OBVIOUS
        <3>1. uploads' = [uploads EXCEPT ![c.up] = row]
            BY <2>2
        <3>2. /\ row \in UploadRows /\ SameUpload(uploads[c.up], row)
              /\ row.mp = uploads[c.up].mp /\ row.object = uploads[c.up].object
            <4>1. uploads[c.up] \in UploadRows
                BY <1>0, <2>0
            <4>2. [uploads[c.up].parts EXCEPT ![c.part] = c.sha] \in [Parts -> Bytes]
                BY <1>0, <4>1 DEF UploadRows
            <4> QED BY <4>1, <4>2 DEF UploadRows, SameUpload
        <3>3. RowBecomes(c, row)
            BY <1>0, <2>0, <3>1, <3>2 DEF RowBecomes, RowOf
        <3> QED BY <1>0, <2>2, <3>3, RowAccepts
    <2>3. CASE Accept(c, c.up, FALSE) /\ UNCHANGED uploads
        BY <1>0, <2>0, <2>3, AcceptKeeps
    <2>4. CASE Continue(c, "drop") /\ UNCHANGED uploads
        <3>1. MayGoTo(c, "drop") /\ "drop" \in Stages
            BY <1>0, <2>0 DEF MayGoTo, Stages
        <3> QED BY <1>0, <2>4, <3>1, ContinueKeeps
    <2> QED BY <1>3, <2>1, <2>2, <2>3, <2>4 DEF PartRecord
<1> QED BY <1>1, <1>2, <1>3

LEMMA CommitKeeps ==
    ASSUME DaemonInv, NEW c, BuildRequest(c), c.op = "complete", c.stage = "commit",
           CommitArtifact(c), NEW s \in {"reread", "mark"}, Continue(c, s),
           OthersKept, UNCHANGED build
    PROVE  DaemonInv'
<1>0. /\ c \in calls /\ RequestOf(c) /\ c.att \in Attempts /\ c.file \in Files
      /\ c.up # 0 /\ Upload(c.up, c.att, c.file) /\ s \in Stages /\ c.up \in Nat
      /\ \A u \in 1..Len(uploads) : uploads[u] \in UploadRows /\ RowOf(uploads[u])
      /\ TypeInv
    BY RequestFacts DEF BuildRequest, RequestOf, Stages, DaemonInv
<1>1. CASE ~Inserts(c)
    <2>1. UNCHANGED <<artifacts, uploads>>
        BY <1>1 DEF CommitArtifact
    <2>2. MayGoTo(c, s)
        BY <1>0 DEF MayGoTo
    <2> QED BY <1>0, <2>1, <2>2, ContinueKeeps
<1>2. CASE Inserts(c)
    <2>0. /\ build.att = c.att /\ artifacts[c.att][c.file] = 0
          /\ artifacts' = [artifacts EXCEPT ![c.att][c.file] = c.up]
          /\ c.up \in 1..Len(uploads) /\ uploads[c.up].file = c.file
          /\ uploads[c.up].att = c.att
        BY <1>0, <1>2 DEF Inserts, Leased, CommitArtifact, Upload
    <2>1. uploads[c.up].object = Wrote(c.att)
        <3>1. c.att \in Nat
            BY <1>0 DEF Attempts
        <3> QED BY <1>0, <2>0, <3>1 DEF RequestOf
    <2> SUFFICES ASSUME NEW row,
                        row = [uploads[c.up] EXCEPT !.status =
                                 IF uploads[c.up].status = "active" THEN "completed"
                                 ELSE uploads[c.up].status]
                 PROVE  DaemonInv'
        OBVIOUS
    <2>2. uploads' = [uploads EXCEPT ![c.up] = row]
        BY <1>2 DEF CommitArtifact
    <2>3. /\ row \in UploadRows /\ SameUpload(uploads[c.up], row) /\ row.status # "active"
          /\ row.mp = uploads[c.up].mp /\ row.object = uploads[c.up].object
        BY <1>0, <2>0 DEF UploadRows, SameUpload
    <2>4. /\ uploads' \in Seq(UploadRows) /\ Len(uploads') = Len(uploads)
          /\ \A u \in 1..Len(uploads) : uploads'[u] = IF u = c.up THEN row ELSE uploads[u]
        BY <1>0, <2>0, <2>2, <2>3, UpdatedRow DEF TypeInv
    <2>5. /\ artifacts' \in [Attempts -> [Files -> Nat]]
          /\ \A b \in Attempts, f \in Files :
               artifacts'[b][f] = IF b = c.att /\ f = c.file THEN c.up ELSE artifacts[b][f]
        BY <1>0, <2>0 DEF TypeInv
    <2>6. RowsGo
        BY <2>3, <2>4 DEF RowsGo, SameUpload
    <2>7. Undisturbed(c)
        <3>1. ASSUME NEW e \in calls \ {c}, e.op = "complete", e.stage = "commit"
              PROVE  uploads'[e.up].object = uploads[e.up].object
            <4>1. e.up \in 1..Len(uploads)
                BY <3>1 DEF DaemonInv, RowsInv, RequestOf, Upload
            <4> QED BY <2>3, <2>4, <4>1
        <3>2. ASSUME NEW u \in 1..Len(uploads), uploads[u].att < build.att, Recorded(u)'
              PROVE  Recorded(u)
            <4>1. u # c.up
                BY <1>0, <2>0, <3>2 DEF Attempts
            <4>2. PICK b \in Attempts, f \in Files : artifacts'[b][f] = u
                BY <3>2 DEF Recorded
            <4>3. artifacts[b][f] = u
                BY <2>5, <4>1, <4>2
            <4> QED BY <4>3 DEF Recorded
        <3> QED BY <3>1, <3>2 DEF Undisturbed
    <2>8. ArtifactsInv'
        <3>1. ASSUME NEW b \in Attempts, NEW f \in Files, artifacts'[b][f] # 0
              PROVE  /\ Upload(artifacts[b][f], b, f)'
                     /\ uploads'[artifacts'[b][f]].status # "active"
                     /\ uploads'[artifacts'[b][f]].object = Wrote(b)
            <4>1. CASE b = c.att /\ f = c.file
                <5>1. artifacts'[b][f] = c.up
                    BY <2>5, <4>1
                <5>2. Upload(c.up, b, f)'
                    BY <2>0, <2>3, <2>4, <4>1, <5>1 DEF Upload, SameUpload
                <5>3. uploads'[c.up] = row
                    BY <2>0, <2>4
                <5>4. uploads'[c.up].status # "active" /\ uploads'[c.up].object = Wrote(b)
                    BY <2>1, <2>3, <4>1, <5>3
                <5>5. artifacts[b][f]' = c.up
                    BY <5>1
                <5>6. Upload(artifacts[b][f], b, f)'
                    BY <5>2, <5>5 DEF Upload
                <5> QED BY <5>4, <5>5, <5>6
            <4>2. CASE ~(b = c.att /\ f = c.file)
                <5>1. artifacts'[b][f] = artifacts[b][f]
                    BY <2>5, <4>2
                <5>2. /\ Upload(artifacts[b][f], b, f)
                      /\ uploads[artifacts[b][f]].status # "active"
                      /\ uploads[artifacts[b][f]].object = Wrote(b)
                    BY <3>1, <5>1 DEF DaemonInv, RowsInv, ArtifactsInv
                <5>3. artifacts[b][f] \in 1..Len(uploads)
                    BY <5>2 DEF Upload
                <5>4. SameUpload(uploads[artifacts[b][f]], uploads'[artifacts[b][f]])
                      /\ uploads'[artifacts[b][f]].object = uploads[artifacts[b][f]].object
                    BY <2>3, <2>4, <5>3 DEF SameUpload
                <5>5. /\ uploads'[artifacts[b][f]].status # "active"
                      /\ uploads'[artifacts[b][f]].object = Wrote(b)
                    BY <5>2, <5>4 DEF SameUpload
                <5>6. Upload(artifacts[b][f], b, f)'
                    BY <2>4, <5>1, <5>2, <5>3, <5>4 DEF Upload, SameUpload
                <5> QED BY <5>1, <5>5, <5>6
            <4> QED BY <4>1, <4>2
        <3> QED BY <3>1 DEF ArtifactsInv
    <2>9. \A u \in 1..Len(uploads') : RowOf(uploads[u])'
        <3>1. ASSUME NEW u \in 1..Len(uploads) PROVE RowOf(uploads[u])'
            <4>1. RowOf(uploads[u]) /\ RowOf(uploads[c.up]) /\ UNCHANGED build
                BY <1>0, <2>0
            <4>2. CASE u = c.up
                <5>1. uploads'[u] = row
                    BY <2>4, <4>2
                <5> QED BY <2>3, <4>1, <5>1 DEF RowOf, SameUpload
            <4>3. CASE u # c.up
                <5>1. uploads'[u] = uploads[u]
                    BY <2>4, <4>3
                <5> QED BY <4>1, <5>1 DEF RowOf
            <4> QED BY <4>2, <4>3
        <3> QED BY <2>4, <3>1
    <2>10. PICK e : Served(c, {e}, None) /\ Next2(c, e, s, c.up)
        BY <1>0, ContinueServed DEF OthersKept
    <2>11. RequestOf(e)'
        <3>1. Upload(e.up, e.att, e.file)'
            BY <1>0, <2>0, <2>3, <2>4, <2>10 DEF Next2, Upload, SameUpload
        <3> QED BY <1>0, <2>10, <3>1 DEF Next2, RequestOf, Upload
    <2>12. build' \in BuildRecords /\ SameLease /\ build'.status = build.status
        BY <1>0 DEF TypeInv, SameLease
    <2>13. \A x \in {e} : x.stage \in {"reread", "mark"}
        BY <2>10 DEF Next2
    <2>14. \A b \in Attempts, f \in Files :
             b # c.att \/ f # c.file => artifacts'[b][f] = artifacts[b][f]
        BY <2>5
    <2> QED BY <2>4, <2>5, <2>6, <2>7, <2>8, <2>9, <2>10, <2>11, <2>12, <2>13, <2>14,
               BuildServed DEF BuildRequest, OthersKept
<1> QED BY <1>1, <1>2

LEMMA CompletionsKeep ==
    ASSUME DaemonInv, NEW c, BuildRequest(c), OthersKept,
           \/ CompleteRead(c) \/ CompleteCombine(c) \/ CompleteHash(c)
           \/ CompleteCommit(c) \/ CompleteReread(c)
    PROVE  DaemonInv'
<1>0. /\ c.op = "complete" /\ c \in calls /\ UNCHANGED build /\ RequestOf(c)
      /\ c.up \in Nat /\ c.att \in Attempts
      /\ \A u \in 1..Len(uploads) : uploads[u] \in UploadRows /\ RowOf(uploads[u])
      /\ {"combine", "drop", "hash", "commit", "delete", "mark", "reread"} \subseteq Stages
    BY RequestFacts DEF CompleteRead, CompleteCombine, CompleteHash, CompleteCommit,
                        CompleteReread, BuildRequest, Stages
<1>u. c.up # 0 => Upload(c.up, c.att, c.file)
    BY <1>0 DEF RequestOf
<1>n. c.stage # "read" => c.up # 0
    BY <1>0 DEF RequestOf
<1>1. CASE CompleteRead(c)
    <2>1. UNCHANGED <<uploads, artifacts>> /\ c.stage = "read"
        BY <1>1 DEF CompleteRead
    <2>2. CASE Refuse(c)
        BY <1>0, <2>1, <2>2, RefuseKeeps
    <2>3. CASE Accept(c, c.up, TRUE)
        BY <1>0, <2>1, <2>3, AcceptKeeps
    <2>4. CASE c.up # 0 /\ Continue(c, "combine")
        BY <1>0, <2>1, <2>4, ContinueKeeps DEF MayGoTo
    <2>5. CASE c.up # 0 /\ Continue(c, "drop")
        BY <1>0, <2>1, <2>5, ContinueKeeps DEF MayGoTo
    <2> QED BY <1>1, <2>2, <2>3, <2>4, <2>5 DEF CompleteRead
<1>2. CASE CompleteCombine(c)
    <2>0. /\ c.stage = "combine" /\ c.up # 0 /\ c.up \in 1..Len(uploads)
          /\ UNCHANGED artifacts
        BY <1>2, <1>n, <1>u DEF CompleteCombine, Upload
    <2>1. CASE Continue(c, "drop") /\ UNCHANGED uploads
        BY <1>0, <2>0, <2>1, ContinueKeeps DEF MayGoTo
    <2>2. CASE /\ uploads' = [uploads EXCEPT ![c.up].mp = "completed",
                                            ![c.up].object = Combined(uploads[c.up])]
               /\ Continue(c, "hash")
        <3> SUFFICES ASSUME NEW row,
                            row = [uploads[c.up] EXCEPT !.mp = "completed",
                                                        !.object = Combined(uploads[c.up])]
                     PROVE  DaemonInv'
            OBVIOUS
        <3>1. uploads[c.up] \in UploadRows
            BY <1>0, <2>0
        <3>2. Combined(uploads[c.up]) \in Bytes
            BY <3>1 DEF Combined, UploadRows, Bytes, Digests
        <3>3. row \in UploadRows /\ SameUpload(uploads[c.up], row) /\ row.mp = "completed"
            BY <3>1, <3>2 DEF UploadRows, SameUpload
        <3>4. uploads' = [uploads EXCEPT ![c.up] = row]
            <4>1. uploads \in Seq(UploadRows)
                BY DEF DaemonInv, TypeInv
            <4>2. [uploads EXCEPT ![c.up].mp = "completed",
                                  ![c.up].object = Combined(uploads[c.up])]
                    = [uploads EXCEPT ![c.up] =
                         [uploads[c.up] EXCEPT !.mp = "completed",
                                               !.object = Combined(uploads[c.up])]]
                BY <2>0, <4>1, TwoFields
            <4> QED BY <2>2, <4>2
        <3>5. RowBecomes(c, row)
            BY <1>0, <2>0, <3>3, <3>4, AskedForIsSpare DEF RowBecomes, Stores
        <3>6. MayGoTo(c, "hash")
            BY <1>0, <2>0 DEF MayGoTo
        <3> QED BY <1>0, <2>0, <2>2, <3>5, <3>6, RowContinues
    <2> QED BY <1>2, <2>1, <2>2 DEF CompleteCombine
<1>3. CASE CompleteHash(c)
    <2>0. /\ c.stage = "hash" /\ c.up # 0 /\ c.up \in 1..Len(uploads)
          /\ UNCHANGED <<uploads, artifacts>> /\ uploads[c.up].att = c.att
        BY <1>3, <1>n, <1>u DEF CompleteHash, Upload
    <2>1. CASE Matches(uploads[c.up]) /\ Continue(c, "commit")
        <3>1. uploads[c.up].object = Wrote(c.att)
            BY <1>0, <2>0, <2>1 DEF Matches, RowOf
        <3> QED BY <1>0, <2>0, <2>1, <3>1, ContinueKeeps DEF MayGoTo
    <2>2. CASE Continue(c, "delete")
        BY <1>0, <2>0, <2>2, ContinueKeeps DEF MayGoTo
    <2> QED BY <1>3, <2>1, <2>2 DEF CompleteHash
<1>4. CASE CompleteCommit(c)
    BY <1>0, <1>4, CommitKeeps DEF CompleteCommit
<1>5. CASE CompleteReread(c)
    <2>0. /\ c.stage = "reread" /\ c.up # 0 /\ UNCHANGED <<uploads, artifacts>>
        BY <1>5, <1>n DEF CompleteReread
    <2>1. CASE Accept(c, c.up, TRUE)
        BY <1>0, <2>0, <2>1, AcceptKeeps
    <2>2. CASE Continue(c, "mark")
        BY <1>0, <2>0, <2>2, ContinueKeeps DEF MayGoTo
    <2> QED BY <1>5, <2>1, <2>2 DEF CompleteReread
<1> QED BY <1>1, <1>2, <1>3, <1>4, <1>5

LEMMA GivenUpKeep ==
    ASSUME DaemonInv, NEW c, BuildRequest(c), OthersKept, DropObject(c) \/ MarkUpload(c)
    PROVE  DaemonInv'
<1>0. /\ c.op \in {"part", "complete"} /\ c \in calls /\ UNCHANGED <<build, artifacts>>
      /\ RequestOf(c) /\ c.stage \in {"drop", "delete", "mark"} /\ "mark" \in Stages
    BY RequestFacts DEF DropObject, MarkUpload, BuildRequest, Stages
<1>1. /\ c.up # 0 /\ c.up \in 1..Len(uploads)
      /\ uploads[c.up] \in UploadRows /\ RowOf(uploads[c.up])
    BY <1>0, RequestFacts DEF RequestOf, Upload
<1>2. CASE DropObject(c)
    <2>0. /\ c.stage \in {"drop", "delete"} /\ Continue(c, "mark")
          /\ uploads' = [uploads EXCEPT ![c.up] =
                IF c.stage = "drop" THEN AbortR2(uploads[c.up])
                ELSE [uploads[c.up] EXCEPT !.object = None]]
        BY <1>2 DEF DropObject
    <2>1. Spare(c.up, c)
        BY <1>0, <1>1, <2>0, AskedForIsSpare DEF Stores
    <2>2. MayGoTo(c, "mark")
        BY <1>1 DEF MayGoTo
    <2>3. CASE c.stage = "drop"
        <3>1. RowBecomes(c, AbortR2(uploads[c.up]))
            BY <1>1, <2>0, <2>1, <2>3, AbortedRow DEF RowBecomes, RowOf
        <3> QED BY <1>0, <2>0, <2>2, <3>1, RowContinues
    <2>4. CASE c.stage # "drop"
        <3> SUFFICES ASSUME NEW row, row = [uploads[c.up] EXCEPT !.object = None]
                     PROVE  DaemonInv'
            OBVIOUS
        <3>1. /\ row \in UploadRows /\ SameUpload(uploads[c.up], row) /\ row.object = None
            BY <1>1 DEF UploadRows, SameUpload, Bytes
        <3>2. RowBecomes(c, row)
            BY <1>1, <2>0, <2>1, <2>4, <3>1 DEF RowBecomes
        <3> QED BY <1>0, <2>0, <2>2, <3>2, RowContinues
    <2> QED BY <2>3, <2>4
<1>3. CASE MarkUpload(c)
    <2>0. Refuse(c) /\ uploads' = [uploads EXCEPT ![c.up] = MarkFailed(uploads[c.up])]
        BY <1>3 DEF MarkUpload
    <2>1. RowBecomes(c, MarkFailed(uploads[c.up]))
        BY <1>1, <2>0, FailedRow DEF RowBecomes, RowOf
    <2> QED BY <1>0, <2>0, <2>1, RowRefuses
<1> QED BY <1>2, <1>3

LEMMA AbortsKeep ==
    ASSUME DaemonInv, NEW c, BuildRequest(c), OthersKept,
           AbortRead(c) \/ AbortStore(c) \/ AbortClose(c)
    PROVE  DaemonInv'
<1>0. /\ c.op = "abort" /\ c \in calls /\ UNCHANGED <<build, artifacts>> /\ RequestOf(c)
      /\ \A u \in 1..Len(uploads) : uploads[u] \in UploadRows /\ RowOf(uploads[u])
      /\ {"abort", "close"} \subseteq Stages
    BY RequestFacts DEF AbortRead, AbortStore, AbortClose, BuildRequest, Stages
<1>u. c.up # 0 => c.up \in 1..Len(uploads)
    BY <1>0 DEF RequestOf, Upload
<1>1. CASE AbortRead(c)
    <2>1. CASE Refuse(c)
        BY <1>0, <1>1, <2>1, RefuseKeeps DEF AbortRead
    <2>2. CASE Usable(c) /\ Continue(c, "abort")
        BY <1>0, <1>1, <2>2, ContinueKeeps DEF AbortRead, MayGoTo, Usable
    <2> QED BY <1>1, <2>1, <2>2 DEF AbortRead
<1>2. CASE AbortStore(c)
    <2>0. c.up \in 1..Len(uploads) /\ c.stage = "abort" /\ c.up # 0
        BY <1>0, <1>2, <1>u DEF AbortStore, RequestOf
    <2>1. CASE Refuse(c) /\ UNCHANGED uploads
        BY <1>0, <2>1, RefuseKeeps
    <2>2. CASE /\ uploads' = [uploads EXCEPT ![c.up].mp = "aborted"] /\ Continue(c, "close")
        <3> SUFFICES ASSUME NEW row, row = [uploads[c.up] EXCEPT !.mp = "aborted"]
                     PROVE  DaemonInv'
            OBVIOUS
        <3>1. uploads' = [uploads EXCEPT ![c.up] = row]
            BY <2>2
        <3>2. /\ row \in UploadRows /\ SameUpload(uploads[c.up], row)
              /\ row.mp = "aborted" /\ row.object = uploads[c.up].object
            BY <1>0, <2>0 DEF UploadRows, SameUpload
        <3>3. RowBecomes(c, row) /\ MayGoTo(c, "close")
            BY <1>0, <2>0, <3>1, <3>2 DEF RowBecomes, MayGoTo
        <3> QED BY <1>0, <2>2, <3>3, RowContinues
    <2> QED BY <1>2, <2>1, <2>2 DEF AbortStore
<1>3. CASE AbortClose(c)
    <2>0. c.up \in 1..Len(uploads) /\ c.stage = "close" /\ c.up # 0
        BY <1>0, <1>3, <1>u DEF AbortClose, RequestOf
    <2> SUFFICES ASSUME NEW row,
                        row = [uploads[c.up] EXCEPT !.status =
                                 IF uploads[c.up].status = "active" THEN "aborted"
                                 ELSE uploads[c.up].status]
                 PROVE  DaemonInv'
        OBVIOUS
    <2>1. uploads' = [uploads EXCEPT ![c.up] = row] /\ Accept(c, c.up, FALSE)
        BY <1>3 DEF AbortClose
    <2>2. /\ row \in UploadRows /\ SameUpload(uploads[c.up], row)
          /\ row.mp = uploads[c.up].mp /\ row.object = uploads[c.up].object
        BY <1>0, <2>0 DEF UploadRows, SameUpload
    <2>3. RowBecomes(c, row)
        BY <1>0, <2>0, <2>1, <2>2 DEF RowBecomes, RowOf
    <2> QED BY <1>0, <2>1, <2>3, RowAccepts
<1> QED BY <1>1, <1>2, <1>3

LEMMA FinishesKeep ==
    ASSUME DaemonInv, NEW c, BuildRequest(c), OthersKept,
           Notes(c) \/ FinishRead(c) \/ FinishCommit(c)
    PROVE  DaemonInv'
<1>0. /\ c.op \in {"log", "abi", "succeeded", "failed"} /\ c \in calls
      /\ UNCHANGED <<uploads, artifacts>> /\ RequestOf(c) /\ "commit" \in Stages /\ 0 \in Nat
    BY RequestFacts DEF Notes, FinishRead, FinishCommit, BuildRequest, Stages
<1>1. CASE UNCHANGED build /\ Refuse(c)
    BY <1>0, <1>1, RefuseKeeps
<1>2. CASE UNCHANGED build /\ Accept(c, 0, FALSE)
    BY <1>0, <1>2, AcceptKeeps
<1>3. CASE UNCHANGED build /\ Continue(c, "commit")
    BY <1>0, <1>3, ContinueKeeps DEF MayGoTo
<1>4. CASE /\ build' = [build EXCEPT !.status = c.op] /\ Accept(c, 0, FALSE)
           /\ c.op \in {"succeeded", "failed"}
    <2>1. PICK a : Served(c, {}, a) /\ a.up = 0
        BY <1>0, <1>4, AcceptServed DEF OthersKept
    <2>2. /\ build' \in BuildRecords /\ SameLease /\ build'.status # "queued"
        BY <1>4 DEF DaemonInv, TypeInv, SameLease, BuildRecords
    <2> QED BY <1>0, <1>4, <2>1, <2>2, ReadsKeep DEF BuildRequest, OthersKept
<1> QED BY <1>1, <1>2, <1>3, <1>4 DEF Notes, FinishRead, FinishCommit

LEMMA ServeKeeps ==
    ASSUME DaemonInv, NEW c \in calls, Serve(c), UNCHANGED <<images, hosts>>
    PROVE  DaemonInv'
<1>1. OthersKept
    BY DEF OthersKept
<1>2. BuildRequest(c)
    BY DEF BuildRequest, BuildOps, Serve, StartRead, StartSupersede, StartSuperseded,
           StartInsert, PartRead, PartStore, PartRecord, CompleteRead, CompleteCombine,
           CompleteHash, CompleteCommit, CompleteReread, DropObject, MarkUpload,
           AbortRead, AbortStore, AbortClose, Notes, FinishRead, FinishCommit
<1>3. CASE StartRead(c)
    BY <1>1, <1>2, <1>3, StartReadKeeps
<1>4. CASE StartSupersede(c) \/ StartSuperseded(c)
    BY <1>1, <1>2, <1>4, SupersedesKeep
<1>5. CASE StartInsert(c)
    BY <1>1, <1>2, <1>5, StartInsertKeeps
<1>6. CASE PartRead(c) \/ PartStore(c) \/ PartRecord(c)
    BY <1>1, <1>2, <1>6, PartsKeep
<1>7. CASE \/ CompleteRead(c) \/ CompleteCombine(c) \/ CompleteHash(c)
           \/ CompleteCommit(c) \/ CompleteReread(c)
    BY <1>1, <1>2, <1>7, CompletionsKeep
<1>8. CASE DropObject(c) \/ MarkUpload(c)
    BY <1>1, <1>2, <1>8, GivenUpKeep
<1>9. CASE AbortRead(c) \/ AbortStore(c) \/ AbortClose(c)
    BY <1>1, <1>2, <1>9, AbortsKeep
<1>10. CASE Notes(c) \/ FinishRead(c) \/ FinishCommit(c)
    BY <1>1, <1>2, <1>10, FinishesKeep
<1> QED BY <1>3, <1>4, <1>5, <1>6, <1>7, <1>8, <1>9, <1>10 DEF Serve

LEMMA BuildFaultsKeep ==
    ASSUME DaemonInv, NEW c \in calls, StorageFails(c) \/ CommitLost(c),
           UNCHANGED <<images, hosts>>
    PROVE  DaemonInv'
<1>0. OthersKept /\ BuildRequest(c) /\ UNCHANGED build /\ RequestOf(c)
    BY RequestFacts DEF OthersKept, BuildRequest, BuildOps, StorageFails, CommitLost,
                        coordinatorRows, DaemonInv, RowsInv
<1>1. CASE StorageFails(c)
    <2>0. UNCHANGED <<build, uploads, artifacts>> /\ {"drop", "delete"} \subseteq Stages
        BY <1>1 DEF StorageFails, coordinatorRows, Stages
    <2>1. CASE Refuse(c)
        BY <1>0, <2>0, <2>1, RefuseKeeps
    <2>2. CASE c.stage \in {"record", "combine"} /\ Continue(c, "drop")
        BY <1>0, <2>0, <2>2, ContinueKeeps DEF MayGoTo, RequestOf
    <2>3. CASE c.stage = "hash" /\ Continue(c, "delete")
        BY <1>0, <2>0, <2>3, ContinueKeeps DEF MayGoTo, RequestOf
    <2> QED BY <1>1, <2>1, <2>2, <2>3 DEF StorageFails
<1>2. CASE CommitLost(c)
    BY <1>0, <1>2, CommitKeeps DEF CommitLost
<1> QED BY <1>1, <1>2

-----------------------------------------------------------------------------
(* Steps of the handlers of an image's and an inspection's requests.         *)
ImageRequest(c) == c \in calls /\ c.op \in ImageOps \cup {"msucceeded", "mfailed"}
BuildKept == UNCHANGED <<build, uploads, artifacts, hosts>>

(* Images that are intact stay so, and so do the rows. *)
ImagesGo ==
    /\ iuploads' \in Seq(ImageRows) /\ Len(iuploads) <= Len(iuploads')
    /\ \A u \in 1..Len(iuploads') : ImageRowOf(iuploads[u])'
    /\ \A u \in 1..Len(iuploads) : Intact(u) => Intact(u)'

LEMMA ImageServed ==
    ASSUME DaemonInv, NEW c, NEW next, NEW a, Served(c, next, a), ImageRequest(c), BuildKept,
           ImagesGo, image' \in ImageRecords, JobInv', image.artifact # 0 => image'.artifact # 0,
           inspection' \in InspectionRecords, inspection'.att = inspection.att,
           inspection'.status = "queued" => inspection.status = "queued",
           \A e \in next : ImageRequestOf(e)' /\ e.stage \notin {"supersede", "superseded"},
           c.op = "istart" /\ a # None /\ a.ok => a.up \in 1..Len(iuploads')
    PROVE  DaemonInv'
<1>0. TypeInv /\ WorkInv /\ HostInv /\ RequestsInv /\ RowsInv /\ ImagesInv
    BY DEF DaemonInv
<1>u. /\ UNCHANGED <<daemon, held, crashed, build, uploads, artifacts>>
      /\ calls' \subseteq CallRecords /\ answer' \in [Workers -> Answers]
    BY <1>0, ServedTypes DEF BuildKept
<1>1. TypeInv'
    BY <1>0, <1>u DEF TypeInv, ImagesGo
<1>2. WorkInv' /\ HostInv'
    BY <1>0, <1>u DEF WorkInv, HostInv
<1>3. RequestsInv'
    BY <1>0, <1>u, ServedRequests
<1>4. RowsInv'
    <2>1. RowsGo /\ Undisturbed(c) /\ SameLease
        BY <1>u DEF RowsGo, SameUpload, Undisturbed, Recorded, SameLease
    <2>2. ArtifactsInv'
        BY <1>0, <1>u DEF RowsInv, ArtifactsInv, Upload
    <2>3. \A u \in 1..Len(uploads') : RowOf(uploads[u])'
        BY <1>0, <1>u DEF RowsInv, RowOf
    <2>4. ASSUME NEW e \in next PROVE RequestOf(e)'
        <3>1. e.op = c.op /\ e.stage \notin {"supersede", "superseded"}
            BY DEF Served, Follows
        <3> QED BY <3>1 DEF RequestOf, ImageRequest, ImageOps
    <2>5. c.op # "start"
        BY DEF ImageRequest, ImageOps
    <2> QED BY <1>0, <2>1, <2>2, <2>3, <2>4, <2>5, ServedRows
<1>5. ImagesInv'
    <2>1. Len(iuploads') \in Nat
        BY DEF ImagesGo
    <2> QED BY <1>0, <2>1, ServedImages DEF ImagesGo
<1> QED BY <1>1, <1>2, <1>3, <1>4, <1>5 DEF DaemonInv

LEMMA ImageFacts ==
    ASSUME DaemonInv, NEW c, ImageRequest(c)
    PROVE  /\ c.up \in Nat /\ c.part \in Parts /\ c.sha \in Bytes /\ c.w \in Workers
           /\ c \in calls /\ ImageRequestOf(c) /\ TypeInv /\ JobInv
           /\ \A u \in 1..Len(iuploads) : iuploads[u] \in ImageRows /\ ImageRowOf(iuploads[u])
           /\ DOMAIN iuploads = 1..Len(iuploads) /\ Len(iuploads) \in Nat
           /\ iuploads \in Seq(ImageRows)
           /\ image \in ImageRecords /\ inspection \in InspectionRecords
BY DEF DaemonInv, TypeInv, ImagesInv, ImageRequest, CallRecords

LEMMA ImagesStay ==
    ASSUME DaemonInv, UNCHANGED iuploads
    PROVE  ImagesGo
BY DEF DaemonInv, TypeInv, ImagesInv, ImagesGo, ImageRowOf, Intact

LEMMA ImageRefuses ==
    ASSUME DaemonInv, NEW c, ImageRequest(c), Refuse(c), BuildKept, ImagesGo,
           UNCHANGED <<image, inspection>>
    PROVE  DaemonInv'
<1>1. PICK a : Served(c, {}, a) /\ (a # None => ~a.ok)
    BY RefuseServed DEF ImageRequest, BuildKept
<1>2. JobInv'
    <2>1. image.artifact # 0 => Intact(image.artifact)'
        BY DEF DaemonInv, ImagesInv, JobInv, ImagesGo, Intact
    <2> QED BY <2>1 DEF DaemonInv, ImagesInv, JobInv, Intact
<1>3. image' \in ImageRecords /\ inspection' \in InspectionRecords
    BY DEF DaemonInv, TypeInv
<1> QED BY <1>1, <1>2, <1>3, ImageServed

LEMMA ImageAccepts ==
    ASSUME DaemonInv, NEW c, ImageRequest(c), NEW u \in Nat, NEW done \in BOOLEAN,
           Accept(c, u, done), BuildKept, ImagesGo, UNCHANGED <<image, inspection>>,
           c.op = "istart" => u \in 1..Len(iuploads')
    PROVE  DaemonInv'
<1>1. PICK a : Served(c, {}, a) /\ a.up = u
    BY AcceptServed DEF ImageRequest, BuildKept
<1>2. JobInv'
    <2>1. image.artifact # 0 => Intact(image.artifact)'
        BY DEF DaemonInv, ImagesInv, JobInv, ImagesGo, Intact
    <2> QED BY <2>1 DEF DaemonInv, ImagesInv, JobInv, Intact
<1>3. image' \in ImageRecords /\ inspection' \in InspectionRecords
    BY DEF DaemonInv, TypeInv
<1> QED BY <1>1, <1>2, <1>3, ImageServed

LEMMA ImageContinues ==
    ASSUME DaemonInv, NEW c, ImageRequest(c), NEW s \in {"record", "hash", "commit"},
           Continue(c, s), BuildKept, ImagesGo, UNCHANGED <<image, inspection>>,
           s = "commit" => /\ c.op = "icomplete" => Intact(c.up)
                           /\ c.op = "isucceeded" => image.artifact # 0
    PROVE  DaemonInv'
<1>0. ImageRequestOf(c) /\ TypeInv /\ c \in calls /\ s \in Stages /\ Len(iuploads) \in Nat
    BY ImageFacts DEF Stages
<1>1. PICK e : Served(c, {e}, None) /\ Next2(c, e, s, c.up)
    BY <1>0, ContinueServed DEF BuildKept, ImageRequest, ImageOps
<1>2. JobInv'
    <2>1. image.artifact # 0 => Intact(image.artifact)'
        BY DEF DaemonInv, ImagesInv, JobInv, ImagesGo, Intact
    <2> QED BY <2>1 DEF DaemonInv, ImagesInv, JobInv, Intact
<1>3. ImageRequestOf(e)' /\ e.stage \notin {"supersede", "superseded"}
    <2>1. e.op \in {"ipart", "icomplete"} => e.up \in 1..Len(iuploads')
        <3>1. Len(iuploads') \in Nat /\ Len(iuploads) <= Len(iuploads')
            BY DEF ImagesGo
        <3> QED BY <1>0, <1>1, <3>1 DEF Next2, ImageRequestOf
    <2>2. e.op = "icomplete" /\ e.stage = "commit" => Intact(e.up)'
        <3>1. Intact(c.up) => Intact(c.up)'
            BY DEF ImagesGo, Intact
        <3> QED BY <1>1, <3>1 DEF Next2, Intact
    <2> QED BY <1>0, <1>1, <2>1, <2>2 DEF Next2, ImageRequestOf, Intact
<1>4. image' \in ImageRecords /\ inspection' \in InspectionRecords
    BY DEF DaemonInv, TypeInv
<1> QED BY <1>1, <1>2, <1>3, <1>4, ImageServed

(* The row of an image's upload becomes row. *)
LEMMA ImageRowGoes ==
    ASSUME DaemonInv, NEW u \in 1..Len(iuploads), NEW row \in ImageRows, ImageRowOf(row),
           iuploads' = [iuploads EXCEPT ![u] = row],
           row.object = Wrote(1) \/ iuploads[u].object # Wrote(1)
    PROVE  ImagesGo
<1>1. /\ iuploads' \in Seq(ImageRows) /\ Len(iuploads') = Len(iuploads)
      /\ \A x \in 1..Len(iuploads) : iuploads'[x] = IF x = u THEN row ELSE iuploads[x]
    BY UpdatedRow DEF DaemonInv, TypeInv
<1>2. \A x \in 1..Len(iuploads') : ImageRowOf(iuploads[x])'
    BY <1>1 DEF DaemonInv, ImagesInv, ImageRowOf
<1>3. \A x \in 1..Len(iuploads) : Intact(x) => Intact(x)'
    BY <1>1 DEF Intact
<1>4. Len(iuploads) \in Nat
    BY DEF DaemonInv, TypeInv
<1> QED BY <1>1, <1>2, <1>3, <1>4 DEF ImagesGo

LEMMA ImageStartKeeps ==
    ASSUME DaemonInv, NEW c, ImageRequest(c), ImageStart(c), BuildKept
    PROVE  DaemonInv'
<1>0. /\ c.op = "istart" /\ UNCHANGED <<image, inspection>> /\ c.sha \in Bytes /\ c.w \in Workers
      /\ ImageRequestOf(c) /\ DOMAIN iuploads = 1..Len(iuploads)
      /\ Len(iuploads) \in Nat /\ iuploads \in Seq(ImageRows)
      /\ \A u \in 1..Len(iuploads) : ImageRowOf(iuploads[u])
    BY ImageFacts DEF ImageStart
<1>1. CASE Refuse(c) /\ UNCHANGED iuploads
    BY <1>0, <1>1, ImagesStay, ImageRefuses
<1>2. CASE \E u \in ActiveImageUploads : Accept(c, u, FALSE) /\ UNCHANGED iuploads
    <2>1. PICK u \in ActiveImageUploads : Accept(c, u, FALSE) /\ UNCHANGED iuploads
        BY <1>2
    <2>2. u \in 1..Len(iuploads) /\ u \in Nat
        BY <1>0, <2>1 DEF ActiveImageUploads
    <2>3. u \in 1..Len(iuploads')
        BY <2>1, <2>2
    <2> QED BY <1>0, <2>1, <2>2, <2>3, ImagesStay, ImageAccepts
<1>3. CASE /\ Accept(c, Len(iuploads) + 1, FALSE)
           /\ iuploads' = Append(iuploads,
                  [worker |-> c.w, sha |-> c.sha, status |-> "active", mp |-> "open",
                   object |-> None, staged |-> [p \in Parts |-> None],
                   parts |-> [p \in Parts |-> None]])
    <2> SUFFICES ASSUME NEW row,
                        row = [worker |-> c.w, sha |-> c.sha, status |-> "active",
                               mp |-> "open", object |-> None,
                               staged |-> [p \in Parts |-> None],
                   parts |-> [p \in Parts |-> None]]
                 PROVE  DaemonInv'
        OBVIOUS
    <2>1. row \in ImageRows /\ ImageRowOf(row)
        BY <1>0 DEF ImageRows, Bytes, ImageRowOf, ImageRequestOf
    <2>2. iuploads' = Append(iuploads, row)
        BY <1>3
    <2> DEFINE u == Len(iuploads) + 1
    <2>3. /\ iuploads' \in Seq(ImageRows) /\ Len(iuploads') = u /\ iuploads'[u] = row
          /\ \A x \in 1..Len(iuploads) : iuploads'[x] = iuploads[x]
        BY <1>0, <2>1, <2>2, AddedRow
    <2>4. ImagesGo
        <3>1. \A x \in 1..Len(iuploads') : ImageRowOf(iuploads[x])'
            BY <1>0, <2>1, <2>3 DEF ImageRowOf
        <3>2. \A x \in 1..Len(iuploads) : Intact(x) => Intact(x)'
            BY <1>0, <2>3 DEF Intact
        <3> QED BY <1>0, <2>3, <3>1, <3>2 DEF ImagesGo
    <2>5. u \in Nat /\ u \in 1..Len(iuploads')
        BY <1>0, <2>3
    <2> QED BY <1>0, <1>3, <2>4, <2>5, ImageAccepts
<1> QED BY <1>1, <1>2, <1>3 DEF ImageStart

LEMMA ImagePartsKeep ==
    ASSUME DaemonInv, NEW c, ImageRequest(c), ImagePart(c) \/ ImagePartRecord(c), BuildKept
    PROVE  DaemonInv'
<1>0. /\ c.op = "ipart" /\ UNCHANGED <<image, inspection>> /\ c.sha \in Bytes
      /\ c.part \in Parts /\ c.up \in 1..Len(iuploads) /\ c.up \in Nat
      /\ iuploads[c.up] \in ImageRows /\ ImageRowOf(iuploads[c.up])
    BY ImageFacts DEF ImagePart, ImagePartRecord, ImageRequestOf
<1>1. CASE Refuse(c) /\ UNCHANGED iuploads
    BY <1>0, <1>1, ImagesStay, ImageRefuses
<1>2. CASE /\ iuploads' = [iuploads EXCEPT ![c.up].staged[c.part] = c.sha]
           /\ Continue(c, "record")
    <2> SUFFICES ASSUME NEW row,
                        row = [iuploads[c.up] EXCEPT !.staged =
                                 [iuploads[c.up].staged EXCEPT ![c.part] = c.sha]]
                 PROVE  DaemonInv'
        OBVIOUS
    <2>1. iuploads' = [iuploads EXCEPT ![c.up] = row]
        BY <1>2
    <2>2. row \in ImageRows /\ ImageRowOf(row) /\ row.object = iuploads[c.up].object
        <3>1. [iuploads[c.up].staged EXCEPT ![c.part] = c.sha] \in [Parts -> Bytes]
            BY <1>0 DEF ImageRows
        <3> QED BY <1>0, <3>1 DEF ImageRows, ImageRowOf
    <2>3. ImagesGo
        BY <1>0, <2>1, <2>2, ImageRowGoes
    <2> QED BY <1>0, <1>2, <2>3, ImageContinues
<1>4. CASE Accept(c, c.up, FALSE) /\ UNCHANGED iuploads
    BY <1>0, <1>4, ImagesStay, ImageAccepts
<1>3. CASE /\ iuploads' = [iuploads EXCEPT ![c.up].parts[c.part] = c.sha]
           /\ Accept(c, c.up, FALSE)
    <2> SUFFICES ASSUME NEW row,
                        row = [iuploads[c.up] EXCEPT !.parts =
                                 [iuploads[c.up].parts EXCEPT ![c.part] = c.sha]]
                 PROVE  DaemonInv'
        OBVIOUS
    <2>1. iuploads' = [iuploads EXCEPT ![c.up] = row]
        BY <1>3
    <2>2. row \in ImageRows /\ ImageRowOf(row) /\ row.object = iuploads[c.up].object
        <3>1. [iuploads[c.up].parts EXCEPT ![c.part] = c.sha] \in [Parts -> Bytes]
            BY <1>0 DEF ImageRows
        <3> QED BY <1>0, <3>1 DEF ImageRows, ImageRowOf
    <2>3. ImagesGo
        BY <1>0, <2>1, <2>2, ImageRowGoes
    <2> QED BY <1>0, <1>3, <2>3, ImageAccepts
<1> QED BY <1>1, <1>2, <1>3, <1>4 DEF ImagePart, ImagePartRecord

LEMMA ImageCompletionsKeep ==
    ASSUME DaemonInv, NEW c, ImageRequest(c), BuildKept,
           ImageCombine(c) \/ ImageHash(c) \/ ImageCommit(c)
    PROVE  DaemonInv'
<1>0. /\ c.op = "icomplete" /\ UNCHANGED inspection /\ TypeInv /\ JobInv
      /\ c.up \in 1..Len(iuploads) /\ c.up \in Nat /\ c.up # 0
      /\ iuploads[c.up] \in ImageRows /\ ImageRowOf(iuploads[c.up])
      /\ ImageRequestOf(c) /\ image \in ImageRecords /\ inspection \in InspectionRecords
    <2>1. c.op = "icomplete" /\ UNCHANGED inspection
        BY DEF ImageCombine, ImageHash, ImageCommit
    <2>2. c.up \in 1..Len(iuploads)
        BY <2>1, ImageFacts DEF ImageRequestOf
    <2>3. Len(iuploads) \in Nat
        BY ImageFacts
    <2>4. c.up \in Nat /\ c.up # 0
        BY <2>2, <2>3
    <2> QED BY <2>1, <2>2, <2>4, ImageFacts
<1>1. CASE Refuse(c) /\ UNCHANGED <<iuploads, image>>
    BY <1>0, <1>1, ImagesStay, ImageRefuses
<1>6. CASE Accept(c, c.up, TRUE) /\ UNCHANGED <<iuploads, image>>
    BY <1>0, <1>6, ImagesStay, ImageAccepts
<1>2. CASE /\ iuploads' = [iuploads EXCEPT ![c.up].mp = "completed",
                                           ![c.up].object = Combined(iuploads[c.up])]
           /\ Continue(c, "hash") /\ UNCHANGED image /\ iuploads[c.up].mp = "open"
    <2> SUFFICES ASSUME NEW row,
                        row = [iuploads[c.up] EXCEPT !.mp = "completed",
                                                     !.object = Combined(iuploads[c.up])]
                 PROVE  DaemonInv'
        OBVIOUS
    <2>1. iuploads' = [iuploads EXCEPT ![c.up] = row]
        <3>1. iuploads \in Seq(ImageRows)
            BY <1>0 DEF TypeInv
        <3>2. [iuploads EXCEPT ![c.up].mp = "completed",
                               ![c.up].object = Combined(iuploads[c.up])]
                = [iuploads EXCEPT ![c.up] =
                     [iuploads[c.up] EXCEPT !.mp = "completed",
                                            !.object = Combined(iuploads[c.up])]]
            BY <1>0, <3>1, TwoFields
        <3> QED BY <1>2, <3>2
    <2>2. Combined(iuploads[c.up]) \in Bytes
        BY <1>0 DEF Combined, ImageRows, Bytes, Digests
    <2>3. row \in ImageRows /\ ImageRowOf(row)
        BY <1>0, <2>2 DEF ImageRows, ImageRowOf
    <2>4. iuploads[c.up].object # Wrote(1)
        BY <1>0, <1>2, BytesDiffer DEF ImageRowOf
    <2>5. ImagesGo
        BY <1>0, <2>1, <2>3, <2>4, ImageRowGoes
    <2> QED BY <1>0, <1>2, <2>5, ImageContinues
<1>3. CASE /\ ImageMatches(iuploads[c.up]) /\ Continue(c, "commit")
           /\ UNCHANGED <<iuploads, image>>
    <2>1. Intact(c.up)
        BY <1>0, <1>3 DEF ImageMatches, ImageRowOf, Intact
    <2> QED BY <1>0, <1>3, <2>1, ImagesStay, ImageContinues
<1>4. CASE /\ ~ImageMatches(iuploads[c.up]) /\ Refuse(c) /\ UNCHANGED image
           /\ iuploads' = [iuploads EXCEPT ![c.up].object = None]
    <2> SUFFICES ASSUME NEW row, row = [iuploads[c.up] EXCEPT !.object = None]
                 PROVE  DaemonInv'
        OBVIOUS
    <2>1. iuploads' = [iuploads EXCEPT ![c.up] = row]
        BY <1>4
    <2>2. row \in ImageRows /\ ImageRowOf(row)
        BY <1>0 DEF ImageRows, ImageRowOf, Bytes
    <2>3. iuploads[c.up].object # Wrote(1)
        BY <1>0, <1>4 DEF ImageRowOf, ImageMatches
    <2>4. ImagesGo
        BY <1>0, <2>1, <2>2, <2>3, ImageRowGoes
    <2> QED BY <1>0, <1>4, <2>4, ImageRefuses
<1>5. CASE ImageCommit(c)
    <2> SUFFICES ASSUME NEW row, row = [iuploads[c.up] EXCEPT !.status = "completed"]
                 PROVE  DaemonInv'
        OBVIOUS
    <2>1. iuploads' = [iuploads EXCEPT ![c.up] = row]
        BY <1>5 DEF ImageCommit
    <2>2. row \in ImageRows /\ ImageRowOf(row) /\ row.object = iuploads[c.up].object
        BY <1>0 DEF ImageRows, ImageRowOf
    <2>3. ImagesGo
        BY <1>0, <2>1, <2>2, ImageRowGoes
    <2>4. CASE Refuse(c) /\ UNCHANGED image
        BY <1>0, <2>3, <2>4, ImageRefuses
    <2>5. CASE image' = [image EXCEPT !.artifact = c.up] /\ Accept(c, c.up, TRUE)
        <3>1. PICK a : Served(c, {}, a) /\ a.up = c.up
            BY <1>0, <2>5, AcceptServed DEF BuildKept, ImageRequest
        <3>2. image' \in ImageRecords /\ image'.artifact = c.up
            BY <1>0, <2>5 DEF ImageRecords
        <3>3. Intact(c.up)'
            <4>1. Intact(c.up)
                BY <1>0, <1>5 DEF ImageRequestOf, ImageCommit
            <4>2. c.up' = c.up
                OBVIOUS
            <4> QED BY <1>0, <2>3, <4>1 DEF ImagesGo
        <3>4. JobInv'
            BY <1>0, <3>2, <3>3 DEF JobInv, Intact
        <3>5. inspection' \in InspectionRecords
            BY <1>0
        <3> QED BY <1>0, <2>3, <3>1, <3>2, <3>4, <3>5, ImageServed
    <2> QED BY <1>5, <2>4, <2>5 DEF ImageCommit
<1> QED BY <1>1, <1>2, <1>3, <1>4, <1>5, <1>6 DEF ImageCombine, ImageHash

LEMMA ImageEndsKeep ==
    ASSUME DaemonInv, NEW c, ImageRequest(c), BuildKept,
           ImageFinishRead(c) \/ ImageFinish(c) \/ Report(c)
    PROVE  DaemonInv'
<1>0. /\ UNCHANGED iuploads /\ ImageRequestOf(c) /\ TypeInv /\ JobInv /\ 0 \in Nat
      /\ image \in ImageRecords /\ inspection \in InspectionRecords /\ c.op # "istart"
    BY ImageFacts DEF ImageFinishRead, ImageFinish, Report, images
<1>g. ImagesGo
    BY <1>0, ImagesStay
<1>1. CASE Refuse(c) /\ UNCHANGED <<image, inspection>>
    BY <1>1, <1>g, ImageRefuses
<1>2. CASE Accept(c, 0, TRUE) /\ UNCHANGED <<image, inspection>>
    BY <1>0, <1>2, <1>g, ImageAccepts
<1>3. CASE /\ Continue(c, "commit") /\ UNCHANGED <<image, inspection>>
           /\ c.op \in {"isucceeded", "ifailed"} /\ (c.op = "isucceeded" => Bound(c))
    BY <1>3, <1>g, ImageContinues DEF Bound
<1>4. CASE /\ ImageFinish(c) /\ Accept(c, 0, TRUE)
           /\ image' = [image EXCEPT !.status =
                            IF c.op = "ifailed" THEN "failed" ELSE "succeeded"]
    <2>1. PICK a : Served(c, {}, a) /\ a.up = 0
        BY <1>0, <1>4, AcceptServed DEF BuildKept, ImageRequest
    <2>2. /\ image' \in ImageRecords /\ image'.artifact = image.artifact
          /\ image'.status = "succeeded" => c.op # "ifailed"
        BY <1>0, <1>4 DEF ImageRecords
    <2>3. c.op # "ifailed" => image.artifact # 0
        BY <1>0, <1>4 DEF ImageFinish, ImageRequestOf
    <2>4. JobInv'
        BY <1>0, <2>2, <2>3 DEF JobInv, Intact
    <2>5. inspection' = inspection
        BY <1>4 DEF ImageFinish
    <2> QED BY <1>0, <1>g, <2>1, <2>2, <2>4, <2>5, ImageServed
<1>5. CASE /\ Report(c) /\ Accept(c, 0, TRUE) /\ UNCHANGED image
           /\ inspection' = [inspection EXCEPT !.report = c.att, !.status =
                    IF c.op = "mfailed" THEN "failed" ELSE "succeeded"]
    <2>1. PICK a : Served(c, {}, a) /\ a.up = 0
        BY <1>0, <1>5, AcceptServed DEF BuildKept, ImageRequest
    <2>2. /\ inspection' \in InspectionRecords /\ inspection'.att = inspection.att
          /\ inspection'.status # "queued"
        <3>1. c.att \in 0..MaxAttempt
            BY UploadsAssumption DEF DaemonInv, TypeInv, CallRecords, ImageRequest, Attempts
        <3> QED BY <1>0, <1>5, <3>1 DEF InspectionRecords
    <2>3. JobInv'
        BY <1>0, <1>5 DEF JobInv, Intact
    <2> QED BY <1>0, <1>5, <1>g, <2>1, <2>2, <2>3, ImageServed
<1>6. CASE ImageFinishRead(c)
    BY <1>1, <1>2, <1>3, <1>6 DEF ImageFinishRead, images
<1>7. CASE ImageFinish(c)
    BY <1>1, <1>4, <1>7 DEF ImageFinish
<1>8. CASE Report(c)
    BY <1>1, <1>5, <1>8 DEF Report
<1> QED BY <1>6, <1>7, <1>8

LEMMA ServeImageKeeps ==
    ASSUME DaemonInv, NEW c \in calls, ServeImage(c), UNCHANGED hosts
    PROVE  DaemonInv'
<1>1. BuildKept
    BY DEF BuildKept, ServeImage, ImageStart, ImagePart, ImagePartRecord, ImageCombine,
           ImageHash, ImageCommit, ImageFinishRead, ImageFinish, Report, coordinatorRows
<1>2. ImageRequest(c)
    BY DEF ImageRequest, ImageOps, ServeImage, ImageStart, ImagePart, ImagePartRecord,
           ImageCombine, ImageHash, ImageCommit, ImageFinishRead, ImageFinish, Report
<1>3. CASE ImageStart(c)
    BY <1>1, <1>2, <1>3, ImageStartKeeps
<1>4. CASE ImagePart(c) \/ ImagePartRecord(c)
    BY <1>1, <1>2, <1>4, ImagePartsKeep
<1>5. CASE ImageCombine(c) \/ ImageHash(c) \/ ImageCommit(c)
    BY <1>1, <1>2, <1>5, ImageCompletionsKeep
<1>6. CASE ImageFinishRead(c) \/ ImageFinish(c) \/ Report(c)
    BY <1>1, <1>2, <1>6, ImageEndsKeep
<1> QED BY <1>3, <1>4, <1>5, <1>6 DEF ServeImage

LEMMA ImageFailsKeep ==
    ASSUME DaemonInv, NEW c \in calls, ImageFails(c), UNCHANGED <<images, hosts>>
    PROVE  DaemonInv'
<1>1. ImageRequest(c) /\ BuildKept /\ Refuse(c) /\ UNCHANGED <<image, iuploads, inspection>>
    BY DEF ImageRequest, ImageOps, BuildKept, ImageFails, coordinatorRows, images
<1> QED BY <1>1, ImagesStay, ImageRefuses

LEMMA KilledKeeps ==
    ASSUME DaemonInv, NEW c \in calls, Killed(c), UNCHANGED <<images, hosts>>
    PROVE  DaemonInv'
<1>0. /\ UNCHANGED <<build, uploads, artifacts, answer, image, iuploads, inspection>>
      /\ calls' = calls \ {c} /\ TypeInv /\ JobInv /\ RequestsInv
    BY DEF Killed, images, DaemonInv, ImagesInv
<1>1. Served(c, {}, None)
    <2>1. c.waits => answer[c.w] = None
        <3>1. c.w \in Workers
            BY <1>0 DEF TypeInv, CallRecords
        <3> QED BY <1>0, <3>1 DEF RequestsInv, OneWaits, Waiting
    <2>2. c.waits => answer = [answer EXCEPT ![c.w] = None]
        BY <1>0, <2>1 DEF TypeInv
    <2>3. None \in Answers
        BY DEF Answers
    <2> QED BY <1>0, <2>2, <2>3 DEF Served
<1>2. c.op \in Ops
    BY <1>0 DEF TypeInv, CallRecords
<1>3. CASE c.op \in BuildOps \cup {"failed"}
    <2>1. build' \in BuildRecords /\ SameLease /\ build'.status = build.status
        BY <1>0 DEF TypeInv, SameLease
    <2> QED BY <1>0, <1>1, <1>3, <2>1, ReadsKeep
<1>4. CASE c.op \in ImageOps \cup {"msucceeded", "mfailed"}
    <2>1. ImageRequest(c) /\ BuildKept
        BY <1>0, <1>4 DEF ImageRequest, BuildKept
    <2>2. ImagesGo
        BY <1>0, ImagesStay
    <2>3. image' \in ImageRecords /\ inspection' \in InspectionRecords /\ JobInv'
        BY <1>0 DEF TypeInv, JobInv, Intact
    <2> QED BY <1>0, <1>1, <2>1, <2>2, <2>3, ImageServed
<1> QED BY <1>2, <1>3, <1>4 DEF Ops

-----------------------------------------------------------------------------
(* Leases pass and rows are cancelled while nobody asks.                     *)
LEMMA RowsAloneKeep ==
    ASSUME DaemonInv, UNCHANGED <<uploads, artifacts, calls, answer, iuploads, hosts>>,
           build' \in BuildRecords, SameLease,
           build'.status = "queued" => build.status = "queued",
           image' \in ImageRecords, image'.artifact = image.artifact,
           image'.status = "succeeded" => image.status = "succeeded",
           inspection' \in InspectionRecords, inspection'.att = inspection.att,
           inspection'.status = "queued" => inspection.status = "queued"
    PROVE  DaemonInv'
<1>u. UNCHANGED <<daemon, held, crashed>>
    BY DEF hosts
<1>1. TypeInv'
    BY <1>u DEF DaemonInv, TypeInv, SameLease
<1>2. WorkInv' /\ HostInv'
    BY <1>u DEF DaemonInv, WorkInv, HostInv
<1>3. RequestsInv'
    <2>1. OneWaits'
        BY <1>u DEF DaemonInv, RequestsInv, OneWaits, Waiting
    <2>2. AttemptsInv'
        BY <1>u DEF DaemonInv, RequestsInv, AttemptsInv, SameLease
    <2>3. AsksOnce'
        BY <1>u DEF DaemonInv, RequestsInv, AsksOnce, Quiet, For, Waiting
    <2> QED BY <2>1, <2>2, <2>3 DEF RequestsInv
<1>4. RowsInv'
    <2>1. \A u \in 1..Len(uploads') : RowOf(uploads[u])'
        BY DEF DaemonInv, RowsInv, RowOf, SameLease
    <2>2. ArtifactsInv'
        BY DEF DaemonInv, RowsInv, ArtifactsInv, Upload
    <2>3. \A c \in calls : RequestOf(c)'
        BY DEF DaemonInv, RowsInv, RequestOf, Upload, Recorded, SameLease
    <2>4. \A w \in Workers : UploadOf(daemon[w], answer[w])'
        BY <1>u DEF DaemonInv, RowsInv, UploadOf, Upload
    <2> QED BY <2>1, <2>2, <2>3, <2>4 DEF RowsInv
<1>5. ImagesInv'
    <2>1. JobInv'
        BY DEF DaemonInv, ImagesInv, JobInv, Intact
    <2>2. \A c \in calls : ImageRequestOf(c)'
        BY DEF DaemonInv, ImagesInv, ImageRequestOf, Intact
    <2>3. \A u \in 1..Len(iuploads') : ImageRowOf(iuploads[u])'
        BY DEF DaemonInv, ImagesInv, ImageRowOf
    <2>4. \A w \in Workers : ImageUploadOf(daemon[w], answer[w])'
        BY <1>u DEF DaemonInv, ImagesInv, ImageUploadOf
    <2> QED BY <2>1, <2>2, <2>3, <2>4 DEF ImagesInv
<1> QED BY <1>1, <1>2, <1>3, <1>4, <1>5 DEF DaemonInv

LEMMA LeasesKeep ==
    ASSUME DaemonInv,
           \/ (Expire \/ Cancel) /\ UNCHANGED <<images, hosts>>
           \/ (EndRun \/ Lapse \/ CancelInspection) /\ UNCHANGED hosts
    PROVE  DaemonInv'
<1>0. build \in BuildRecords /\ image \in ImageRecords /\ inspection \in InspectionRecords
    BY DEF DaemonInv, TypeInv
<1>1. CASE (Expire \/ Cancel) /\ UNCHANGED <<images, hosts>>
    <2>1. /\ build' \in BuildRecords /\ SameLease
          /\ build'.status = "queued" => build.status = "queued"
        BY <1>0, <1>1 DEF Expire, Cancel, BuildRecords, SameLease
    <2>2. UNCHANGED <<uploads, artifacts, calls, answer, iuploads, image, inspection>>
        BY <1>1 DEF Expire, Cancel, images
    <2> QED BY <1>0, <1>1, <2>1, <2>2, RowsAloneKeep
<1>2. CASE (EndRun \/ Lapse \/ CancelInspection) /\ UNCHANGED hosts
    <2>1. /\ image' \in ImageRecords /\ image'.artifact = image.artifact
          /\ image'.status = "succeeded" => image.status = "succeeded"
        BY <1>0, <1>2 DEF EndRun, Lapse, CancelInspection, ImageRecords
    <2>2. /\ inspection' \in InspectionRecords /\ inspection'.att = inspection.att
          /\ inspection'.status = "queued" => inspection.status = "queued"
        BY <1>0, <1>2 DEF EndRun, Lapse, CancelInspection, InspectionRecords
    <2>3. UNCHANGED <<uploads, artifacts, calls, answer, iuploads, build>>
        BY <1>2 DEF EndRun, Lapse, CancelInspection, coordinatorRows
    <2> QED BY <1>0, <1>2, <2>1, <2>2, <2>3, RowsAloneKeep DEF SameLease
<1> QED BY <1>1, <1>2

-----------------------------------------------------------------------------
LEMMA InitDaemonInv ==
    ASSUME Init
    PROVE  DaemonInv
<1>0. /\ uploads = <<>> /\ calls = {} /\ iuploads = <<>> /\ crashed = {}
      /\ artifacts = [a \in Attempts |-> [f \in Files |-> 0]]
      /\ answer = [w \in Workers |-> None] /\ daemon = [w \in Workers |-> Idle]
      /\ held = [w \in Workers |-> {}]
    BY DEF Init, BuildsInit
<1>1. PICK nobody \in Workers, kind \in Kinds, mode \in {"frozen", "planned"} :
        /\ build = [status |-> IF kind = "build" THEN "queued" ELSE "none", att |-> 0,
                    worker |-> nobody, live |-> FALSE, mode |-> mode]
        /\ image = [status |-> IF kind = "image" THEN "queued" ELSE "none",
                    worker |-> nobody, live |-> FALSE, run |-> TRUE, artifact |-> 0]
        /\ inspection = [status |-> IF kind = "inspection" THEN "queued" ELSE "none",
                         att |-> 0, worker |-> nobody, live |-> FALSE, report |-> 0]
    <2>1. (CHOOSE w \in Workers : TRUE) \in Workers
        BY UploadsAssumption
    <2> QED BY <2>1 DEF Init, Kinds
<1>2. /\ build \in BuildRecords /\ build.att = 0
      /\ image \in ImageRecords /\ image.artifact = 0 /\ image.status # "succeeded"
      /\ inspection \in InspectionRecords /\ inspection.att = 0
    BY <1>1, UploadsAssumption DEF BuildRecords, ImageRecords, InspectionRecords
<1>3. Idle \in DaemonRecords /\ WorkOf(Idle) /\ HostOf(Idle, {}) /\ Idle.pc = "idle"
      /\ Idle.kind = "none" /\ Len(uploads) = 0 /\ Len(iuploads) = 0
    BY <1>0, IdleSound DEF Idle
<1>4. TypeInv
    <2>1. /\ artifacts \in [Attempts -> [Files -> Nat]] /\ answer \in [Workers -> Answers]
          /\ daemon \in [Workers -> DaemonRecords] /\ held \in [Workers -> SUBSET Things]
        BY <1>0, <1>3 DEF Answers
    <2> QED BY <1>0, <1>2, <2>1 DEF TypeInv
<1>5. WorkInv /\ HostInv
    BY <1>0, <1>3 DEF WorkInv, HostInv
<1>6. RequestsInv
    <2>1. \A w \in Workers : daemon[w] = Idle /\ answer[w] = None
        BY <1>0
    <2> QED BY <1>0, <1>3, <2>1 DEF RequestsInv, OneWaits, AttemptsInv, AsksOnce, Waiting, Doing
<1>7. RowsInv
    <2>1. \A w \in Workers : UploadOf(daemon[w], answer[w])
        BY <1>0, <1>3 DEF UploadOf, Doing
    <2>2. ArtifactsInv
        BY <1>0 DEF ArtifactsInv
    <2> QED BY <1>0, <1>3, <2>1, <2>2 DEF RowsInv
<1>8. ImagesInv
    <2>1. \A w \in Workers : ImageUploadOf(daemon[w], answer[w])
        BY <1>0, <1>3 DEF ImageUploadOf, Doing
    <2> QED BY <1>0, <1>2, <1>3, <2>1 DEF ImagesInv, JobInv
<1> QED BY <1>4, <1>5, <1>6, <1>7, <1>8 DEF DaemonInv

LEMMA WorkKeeps ==
    ASSUME DaemonInv, NEW w \in Workers, Work(w)
    PROVE  DaemonInv'
<1>1. CASE CheckJob(w)
    BY <1>1, CheckKeeps
<1>2. CASE FetchSources(w) \/ MaterializeInputs(w) \/ MaterializePlan(w) \/ EnsureImage(w)
    BY <1>2, InputsKeep
<1>3. CASE \/ StageSources(w) \/ CheckShell(w) \/ CreatePrep(w)
           \/ CollectOutputs(w) \/ CreateInstall(w)
    BY <1>3, PlainStepsKeep
<1>4. CASE \/ FinishPrep(w) \/ CreateFrozen(w) \/ FinishFrozen(w) \/ StartBuild(w)
           \/ FinishInstall(w) \/ SmokeOutputs(w)
    BY <1>4, ContainersKeep
<1>5. CASE FinishBuild(w)
    BY <1>5, FinishBuildKeeps
<1>6. CASE \/ SendLog(w) \/ HashOutput(w) \/ SendPart(w) \/ SendComplete(w) \/ SendAbort(w)
           \/ SendABI(w) \/ SendSuccess(w) \/ SendFailure(w)
           \/ SendImage(w) \/ SendEvidence(w) \/ SendReport(w)
    BY <1>6, SendsKeep
<1>7. CASE Heard(w)
    BY <1>7, HeardKeeps
<1>8. CASE ImageInputs(w) \/ StartImage(w) \/ FinishImage(w)
    BY <1>8, ImageStepsKeep
<1>9. CASE InspectInputs(w) \/ Inspect(w) \/ EndInspection(w)
    BY <1>9, InspectStepsKeep
<1>10. CASE Return(w)
    BY <1>10, ReturnKeeps
<1> QED BY <1>1, <1>2, <1>3, <1>4, <1>5, <1>6, <1>7, <1>8, <1>9, <1>10 DEF Work

LEMMA NextDaemonInv ==
    ASSUME DaemonInv, [Next]_vars
    PROVE  DaemonInv'
<1>1. ASSUME NEW w \in Workers, Claim(w) PROVE DaemonInv'
    BY <1>1, ClaimImageKeeps, ClaimInspectionKeeps, ClaimBuildKeeps DEF Claim
<1>2. ASSUME NEW w \in Workers, Work(w) PROVE DaemonInv'
    BY <1>2, WorkKeeps
<1>3. ASSUME NEW w \in Workers, Heartbeat(w) \/ DiskCorrupts(w) PROVE DaemonInv'
    BY <1>3, TweaksKeep
<1>4. ASSUME NEW w \in Workers, GiveUp(w) PROVE DaemonInv'
    BY <1>4, HeardKeeps
<1>5. ASSUME NEW w \in Workers, Stop(w) \/ Crash(w) PROVE DaemonInv'
    BY <1>5, StopsKeep
<1>6. CASE Serves
    BY <1>6, ServeKeeps, ServeImageKeeps DEF Serves
<1>7. CASE \E c \in calls : (ServerFault(c) \/ ImageFails(c)) /\ UNCHANGED <<images, hosts>>
    <2>1. PICK c \in calls : (ServerFault(c) \/ ImageFails(c)) /\ UNCHANGED <<images, hosts>>
        BY <1>7
    <2>2. CASE StorageFails(c) \/ CommitLost(c)
        BY <2>1, <2>2, BuildFaultsKeep
    <2>3. CASE Killed(c)
        BY <2>1, <2>3, KilledKeeps
    <2>4. CASE ImageFails(c)
        BY <2>1, <2>4, ImageFailsKeep
    <2> QED BY <2>1, <2>2, <2>3, <2>4 DEF ServerFault
<1>8. CASE \/ (Expire \/ Cancel) /\ UNCHANGED <<images, hosts>>
           \/ (EndRun \/ Lapse \/ CancelInspection) /\ UNCHANGED hosts
    BY <1>8, LeasesKeep
<1>9. CASE UNCHANGED vars
    <2>1. /\ UNCHANGED <<uploads, artifacts, calls, answer, iuploads, hosts>>
          /\ UNCHANGED <<build, image, inspection>>
        BY <1>9 DEF vars, coordinatorRows, images
    <2> QED BY <2>1, RowsAloneKeep DEF DaemonInv, TypeInv, SameLease
<1> QED BY <1>1, <1>2, <1>3, <1>4, <1>5, <1>6, <1>7, <1>8, <1>9 DEF Next, Fails

(* The inductive invariant: types, what a daemon works on and what is left   *)
(* on its host, the requests it made and the rows they change.               *)
THEOREM DaemonInvariant == Spec => []DaemonInv
BY InitDaemonInv, NextDaemonInv, PTL DEF Spec

\* A daemon that is idle and was never killed has left nothing on its host,
\* whichever step failed (the deferred calls of runJob and Runner.execute).
THEOREM HostsAreClean == Spec => []NothingLeft
<1>1. ASSUME DaemonInv PROVE NothingLeft
    <2>1. ASSUME NEW w \in Workers, At(w, "idle"), w \notin crashed PROVE held[w] = {}
        <3>1. HostOf(daemon[w], held[w]) /\ daemon[w].pc = "idle"
            BY <1>1, <2>1 DEF DaemonInv, HostInv, At
        <3>2. UnderWay(daemon[w]) = {}
            BY <3>1 DEF UnderWay
        <3> QED BY <3>1, <3>2 DEF HostOf
    <2> QED BY <2>1 DEF NothingLeft
<1> QED BY <1>1, DaemonInvariant, PTL

\* What is recorded as artifact of a build or of an image is stored whole and
\* was made of reviewed input, whatever requests are lost, late or abandoned
\* (completeMultipartUpload, abortR2, completeFactoryImageUpload).
THEOREM UploadsReviewed == Spec => []UploadsAreReviewed
<1>1. ASSUME DaemonInv PROVE UploadsAreReviewed
    <2>1. ArtifactStored
        BY <1>1 DEF DaemonInv, RowsInv, ArtifactsInv, ArtifactStored, Upload, Wrote
    <2>2. ImageStored
        BY <1>1 DEF DaemonInv, ImagesInv, JobInv, Intact, ImageStored, Wrote
    <2> QED BY <2>1, <2>2 DEF UploadsAreReviewed
<1> QED BY <1>1, DaemonInvariant, PTL
=============================================================================
