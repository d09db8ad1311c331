--------------------------- MODULE OwnedRepository ---------------------------
(* The owned package repositories: what one release of a lane contains.       *)
(*                                                                            *)
(* A preparation reads the native outputs of the current cohort, merges them  *)
(* into the packages of the trusted parent release, and stores artifacts,     *)
(* snapshots, a package universe and package chunks, one awaited insert after *)
(* the other.  Nothing ties the inserts together: a call that dies leaves its *)
(* rows behind, and every table refuses a second row for the same release.    *)
(*                                                                            *)
(* A package record is [name, target, coll, any, file, sha, rev]: the package *)
(* on one target architecture, its collection, whether the output is          *)
(* architecture independent, the file and its bytes, and the cohort revision  *)
(* whose native build produced it.                                            *)
EXTENDS Naturals, FiniteSets

CONSTANTS
  Releases,      \* release ids, of both lanes
  OprReleases,   \* those of the OPR lane; the others are system releases
  Handlers,      \* requests that may be in progress at a time
  Targets,       \* the target architectures
  Native,        \* Native[v]: the native outputs of cohort revision v
  MaxFaults,     \* bound on what goes wrong or changes: see Fault
  Null

ASSUME RepositoryAssumption ==
  /\ OprReleases \subseteq Releases
  /\ MaxFaults \in Nat
  /\ \A v \in DOMAIN Native : \A r \in Native[v] :
       /\ DOMAIN r = {"name", "target", "coll", "any", "file", "sha", "rev"}
       /\ r.target \in Targets /\ r.rev = v

VARIABLES
  cohort,      \* the cohort of the releases: revision, condition, scope epoch
  artifacts,   \* owned_repository_artifacts: the stored records
  repo,        \* per release: how far its preparation got, and what it lists
  calls,       \* per handler, the request in progress
  faults       \* how many faults have happened

repoVars == <<cohort, artifacts, repo>>

Idle == [pc |-> "idle"]
Lane(r) == IF r \in OprReleases THEN "opr" ELSE "system"
End(h) == calls' = [calls EXCEPT ![h] = Idle]

(* What disturbs the calls in progress (a call that dies, a signer that fails,*)
(* an expiry, a change of the cohort or of the team) spends a budget.         *)
NoFault == faults' = faults
Fault == faults < MaxFaults /\ faults' = faults + 1

(* The rows a release has: none, a part of its snapshots, all of them, then   *)
(* the universe, then the chunks ("prepared"), then the publication.          *)
Unprepared == [stage |-> "none", parent |-> Null, packages |-> {}]
HasUniverse(r) == repo[r].stage \in {"universe", "prepared", "published"}
Prepared(r) == repo[r].stage \in {"prepared", "published"}

(* The outputs that count are those of the current revision's signed native   *)
(* releases: one output report, its detached signature and one attestation.   *)
NativeOutputs == Native[cohort.rev]

(* The part of them that belongs to a lane.  Only a cohort that is not held   *)
(* is read.                                                                   *)
CurrentRecords(lane) ==
  {r \in NativeOutputs : (r.coll = "omapkg") = (lane = "opr")}

TrustedRecords(parent) == IF parent = Null THEN {} ELSE repo[parent].packages

SameName(r, s) == r.target = s.target /\ r.name = s.name
SameFile(r, s) == r.target = s.target /\ r.file = s.file

(* An architecture independent output stands for every target; any other only *)
(* for its own.  A package may not change its collection and a filename may   *)
(* not get other bytes.                                                       *)
Copies(r) ==
  IF r.any THEN {[r EXCEPT !.target = t] : t \in Targets} ELSE {r}

Mergeable(current, parent) ==
  /\ \A r, s \in current : SameName(r, s) \/ SameFile(r, s) => r = s
  /\ \A r \in current, p \in parent : \A s \in Copies(r) :
       SameName(s, p) => s.coll = p.coll
  /\ \A r \in current, p \in parent : SameFile(r, p) => r.sha = p.sha
  /\ \A r, s \in current : r.any /\ s.any /\ r.name = s.name => r.sha = s.sha

(* Mutant: a rebuilt package drops its record on every target.                *)
MergedByName(current, parent) ==
  LET new == UNION {Copies(r) : r \in current}
  IN  {p \in parent : \A n \in new : n.name # p.name} \cup new

Merged(current, parent) ==
  LET new == UNION {Copies(r) : r \in current}
  IN  {p \in parent : \A n \in new : ~SameName(n, p)}
        \cup {CHOOSE n \in new : SameName(n, m) : m \in new}

OneRecordEach(records) ==
  \A r, s \in records : SameName(r, s) \/ SameFile(r, s) => r = s

(* A handler reads an unprepared release's inputs: the cohort's outputs and   *)
(* the published parent.  The merge may refuse them.                          *)
PrepareRead(h, r, parent) ==
  /\ calls[h] = Idle
  /\ ~HasUniverse(r)
  /\ cohort.condition # "held"
  /\ parent # Null => repo[parent].stage = "published" /\ Lane(parent) = Lane(r)
  /\ LET current == CurrentRecords(Lane(r))
         trusted == TrustedRecords(parent)
         merged == Merged(current, trusted)
     IN  /\ current # {} \/ parent # Null
         /\ Mergeable(current, trusted)
         /\ OneRecordEach(merged)
         /\ calls' = [calls EXCEPT ![h] =
              [pc |-> "artifacts", release |-> r, parent |-> parent,
               records |-> merged]]
  /\ UNCHANGED repoVars /\ NoFault

(* The row of a record: the stored one when the filename is known (with the   *)
(* revision that stored it first), a new row otherwise.                       *)
Stored(rec) == {a \in artifacts : SameFile(a, rec)}
Row(rec) == IF Stored(rec) = {} THEN rec ELSE CHOOSE a \in Stored(rec) : TRUE

SameArtifact(a, rec) ==
  /\ a.sha = rec.sha /\ a.name = rec.name /\ a.coll = rec.coll /\ a.any = rec.any

PersistArtifacts(h) ==
  /\ calls[h].pc = "artifacts"
  /\ LET c == calls[h]
         refused == {r \in c.records : \E a \in Stored(r) : ~SameArtifact(a, r)}
         new == {r \in c.records : Stored(r) = {}}
     IN  \/ /\ refused = {}
            /\ artifacts' = artifacts \cup new
            /\ calls' = [calls EXCEPT ![h] =
                 [c EXCEPT !.pc = "snapshots", !.records = {Row(r) : r \in c.records}]]
            /\ NoFault
         \/ \E some \in SUBSET new :      \* refused, or died, after storing some
              /\ artifacts' = artifacts \cup some
              /\ IF refused = {} THEN some # new /\ Fault ELSE NoFault
              /\ End(h)
  /\ UNCHANGED <<cohort, repo>>

(* The snapshots of the lane, the universe, the chunks: one insert each.  The *)
(* first snapshot refuses a release that has any; a call that dies leaves a   *)
(* part of the snapshots, or a universe without its chunks.                   *)
StoreRepository(h) ==
  /\ calls[h].pc = "snapshots"
  /\ LET c == calls[h] IN
       IF repo[c.release].stage # "none"
       THEN UNCHANGED repo /\ NoFault
       ELSE \E done \in {"partial", "universe", "prepared"} :
              /\ IF done = "prepared" THEN NoFault ELSE Fault
              /\ repo' = [repo EXCEPT ![c.release] =
                   [stage |-> done, parent |-> c.parent, packages |-> c.records]]
  /\ End(h)
  /\ UNCHANGED <<cohort, artifacts>>

(* The cohort is revised or changes its condition.  A trigger moves the scope *)
(* epoch when it is revised, held or released, but not when it is blocked or  *)
(* becomes ready.                                                             *)
Working(condition) == condition \in {"ready", "blocked"}

CohortChange ==
  /\ Fault
  /\ \/ /\ cohort.rev + 1 \in DOMAIN Native
        /\ cohort' = [rev |-> cohort.rev + 1, condition |-> "blocked",
                      epoch |-> cohort.epoch + 1]
     \/ \E s \in {"ready", "blocked", "held"} \ {cohort.condition} :
          cohort' = [cohort EXCEPT !.condition = s,
                       !.epoch = IF Working(s) = Working(cohort.condition)
                                 THEN @ ELSE @ + 1]
  /\ UNCHANGED <<artifacts, repo, calls>>

RepositoryStep(h) ==
  \/ PersistArtifacts(h)
  \/ StoreRepository(h)

(* What a release hands out: its packages once it is published, else nothing. *)
Served(r) == IF repo[r].stage = "published" THEN repo[r].packages ELSE {}

(* Packages are addressed by target and filename: whatever two releases list  *)
(* under the same name has the same bytes, whichever builds, merges and       *)
(* abandoned preparations came between (persistArtifact, the unique index).   *)
FilesNeverChange ==
  \A r, s \in Releases : \A p \in repo[r].packages, q \in repo[s].packages :
    SameFile(p, q) => p.sha = q.sha

(* A prepared release lists each package of its parent, once per target and   *)
(* in the collection the parent had it in: a merge replaces packages, it      *)
(* loses none and leaves no second version (mergeRecords, persistUniverse).   *)
SuccessorKeepsPackages ==
  \A r \in Releases : Prepared(r) =>
    /\ OneRecordEach(repo[r].packages)
    /\ repo[r].parent # Null =>
         \A p \in repo[repo[r].parent].packages : \E q \in repo[r].packages :
           SameName(p, q) /\ p.coll = q.coll

(* The content of repositories across preparations that die, are refused or  *)
(* are repeated: a file name keeps its bytes, a successor its packages.      *)
RepositoriesAreSound == FilesNeverChange /\ SuccessorKeepsPackages
=============================================================================
