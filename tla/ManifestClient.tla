--------------------------- MODULE ManifestClient ---------------------------
(***************************************************************************)
(* omarchy/manifest-client: the program a device runs to move to a signed  *)
(* release.  `stage' resolves a release, renders the pacman configuration  *)
(* and leaves a plan to review; `apply' checks everything again, runs      *)
(* pacman on the staged configuration and commits configuration and state  *)
(* through a marker, which the next run completes if this one dies.        *)
(*                                                                         *)
(* A release names one system and one OPR manifest.  A record stands for   *)
(* its signed bytes: equal records are equal digests.  Verified fetches    *)
(* either return the signed bytes or fail.  Each step is one durable write *)
(* (atomicWrite renames a synced file), so the program may die between any *)
(* two.  One client runs at a time: the program takes no lock.             *)
(***************************************************************************)
EXTENDS SignedRelease

CONSTANTS
  Releases,     \* the published resolved transactions
  Channels,     \* the channels a device may follow, Stable among them
  Answers,      \* what pointers answer with, and what operators type
  Configs,      \* the contents pacman.conf may have
  Locals,       \* what an operator may write outside the owned sections
  Foreign,      \* the members of Locals with an unmanaged repository
  Expiring,     \* the manifests that may expire in the period looked at
  Unserved,     \* the releases whose databases are not the signed ones
  MaxFaults     \* bound: deaths of the client, edits and expiries

ASSUME ClientAssumption ==
  /\ MaxFaults \in Nat
  /\ Stable \in Channels
  /\ Foreign \subseteq Locals
  /\ None \notin Channels /\ None \notin Releases
  /\ \A r \in Releases : r.seq \in Nat /\ r.sys.seq \in Nat /\ r.opr.seq \in Nat
  /\ \A r \in Releases : r.channel \in Channels

VARIABLES
  config,       \* pacman.conf: operator's part, servers and owned sections
  staged,       \* pacman.conf in the stage directory
  plan,         \* transaction-plan.txt: the release shown, and if it previewed
  metadata,     \* metadata.json of the staged transaction
  stored,       \* the local state file
  marker,       \* the state named by the commit marker
  packages,     \* the manifests pacman installed from last
  expired,      \* manifests past their signed expiry
  pc, mode, job, faults

files == <<staged, plan, metadata>>
vars == <<config, files, stored, marker, packages, expired, pc, mode, job, faults>>

(* ---------------------------------------------------------------- data  *)

Lanes(r) == [sys |-> r.sys, opr |-> r.opr]

Names == UNION {Elements(Order(r)) : r \in Releases}

(* An entry of the state file: one channel's release and high-water marks. *)
Entry == [release : Releases, sysHigh : Nat, oprHigh : Nat, config : Configs]

(* A state file without a channel was written before channels were kept.   *)
StateFor(s, c) ==
  IF s = None THEN None
  ELSE IF s.channels[c] # None THEN s.channels[c]
  ELSE IF s.channel = c \/ (s.channel = None /\ c = Stable) THEN s.top
  ELSE None

SaveChannel(s, c, e) ==
  [channel |-> c, top |-> e,
   channels |-> [d \in Channels |->
     IF d = c THEN e ELSE IF s = None THEN None ELSE s.channels[d]]]

(* ---------------------------------------------------- a signed release  *)

(* The databases served are the signed snapshots the release names.        *)
SnapshotsAgree(r) == r.id \notin Unserved

RollbackAllowed(e, r) ==
  /\ r.authorized /\ r.target # None
  /\ e # None
  /\ r.from = e.release.id
  /\ r.seq > e.release.seq

LaneFresh(next, selected, high) ==
  /\ next.seq < high => next = selected
  /\ next.seq = high => next = selected

Fresh(e, r) ==
  e # None =>
    /\ r.seq > e.release.seq
    /\ ~RollbackAllowed(e, r) =>
         /\ LaneFresh(r.sys, e.release.sys, e.sysHigh)
         /\ LaneFresh(r.opr, e.release.opr, e.oprHigh)
         /\ NotBelow(r.sys.version, e.release.sys.version)

(* The owned sections already there must be in the signed order.           *)
Rewritable(c, r) ==
  /\ c.local \notin Foreign
  /\ c.sections = SelectSeq(Order(r), LAMBDA n : n \in Elements(c.sections))

(* They get the release's servers; the missing ones go to the end.         *)
Rewrite(c, r) ==
  [c EXCEPT !.repos = Lanes(r),
            !.sections = @ \o SelectSeq(Order(r), LAMBDA n : n \notin Elements(@))]

\* Mutant: the mark follows the selected manifest, so a recovery lowers it.
MarkedAsSelected(mark, high) == mark.seq

Marked(mark, high) == IF high > mark.seq THEN high ELSE mark.seq

NewEntry(e, r, c) ==
  [release |-> r, config |-> c,
   sysHigh |-> Marked(r.sys, IF e = None THEN 0 ELSE e.sysHigh),
   oprHigh |-> Marked(r.opr, IF e = None THEN 0 ELSE e.oprHigh)]

(* Editing or rewriting a pacman.conf gives a pacman.conf.                 *)
ASSUME ConfigAssumption ==
  \A c \in Configs :
    /\ DOMAIN c = {"local", "sections", "repos"}
    /\ \A l \in Locals : [c EXCEPT !.local = l] \in Configs
    /\ \A r \in Releases : Rewritable(c, r) => Rewrite(c, r) \in Configs

ASSUME NoneAssumption ==
  /\ None \notin Entry
  /\ None \notin [channel : Channels, top : Entry, channels : [Channels -> {None} \cup Entry]]
  /\ None \notin [release : Releases, sysHigh : Nat, oprHigh : Nat]
  /\ None \notin [release : Releases, ok : BOOLEAN]

(* ------------------------------------------------------------- program  *)

At(p) == pc = p
Goto(p) == pc' = p
End == Goto("idle") /\ job' = None

(* A command starts: both commands first complete a pending commit.        *)
Begin(m) ==
  /\ At("idle")
  /\ mode' = m /\ Goto("recover")
  /\ UNCHANGED <<config, files, stored, marker, packages, expired, job, faults>>

After == CASE mode = "stage" -> "resolve" [] mode = "apply" -> "check" [] OTHER -> "idle"

\* Mutant: stage does not complete a pending commit first.
StageWithoutRecovery ==
  /\ At("recover") /\ (mode = "stage" \/ marker = None)
  /\ Goto(After) /\ mode' = "done"
  /\ UNCHANGED <<config, files, stored, marker, packages, expired, job, faults>>

NothingPending ==
  /\ At("recover") /\ marker = None
  /\ Goto(After) /\ mode' = "done"
  /\ UNCHANGED <<config, files, stored, marker, packages, expired, job, faults>>

(* The staged configuration must still be the one the marker names.        *)
RecoverRead ==
  /\ At("recover") /\ marker # None
  /\ IF staged = marker.top.config THEN Goto("config") /\ UNCHANGED job ELSE End
  /\ UNCHANGED <<config, files, stored, marker, packages, expired, mode, faults>>

\* Mutant: recovery puts the configuration in place and forgets the state.
RecoverConfigOnly ==
  /\ At("config")
  /\ config' = marker.top.config
  /\ Goto("unmark")
  /\ UNCHANGED <<files, stored, marker, packages, expired, mode, job, faults>>

RecoverConfig ==
  /\ At("config")
  /\ config' = marker.top.config
  /\ Goto("state")
  /\ UNCHANGED <<files, stored, marker, packages, expired, mode, job, faults>>

RecoverState ==
  /\ At("state")
  /\ stored' = marker
  /\ Goto("unmark")
  /\ UNCHANGED <<config, files, marker, packages, expired, mode, job, faults>>

RecoverDone ==
  /\ At("unmark")
  /\ marker' = None
  /\ Goto(After) /\ mode' = "done"
  /\ job' = IF After = "idle" THEN None ELSE job
  /\ UNCHANGED <<config, files, stored, packages, expired, faults>>

(* A URL an operator types or the channel's pointer, which moves: it may   *)
(* answer with any of Answers.  Only the immutable manifest is used from   *)
(* here on, and it must be of the channel asked for.                       *)
Requested(want, r) ==
  /\ \E a \in Answers : Discovers(a, want) /\ a.url = r.url
  /\ want # None => r.channel = want

StageResolve(want, r) ==
  /\ At("resolve")
  /\ Requested(want, r)
  /\ Resolves(r, Releases, expired)
  /\ Fresh(StateFor(stored, r.channel), r)
  /\ Rewritable(config, r)
  /\ SnapshotsAgree(r)
  /\ job' = [release |-> r, base |-> config]
  /\ Goto("clear")
  /\ UNCHANGED <<config, files, stored, marker, packages, expired, mode, faults>>

StageClear ==
  /\ At("clear")
  /\ metadata' = None
  /\ Goto("unplan")
  /\ UNCHANGED <<config, staged, plan, stored, marker, packages, expired, mode, job, faults>>

StageUnplan ==
  /\ At("unplan")
  /\ plan' = None
  /\ Goto("write")
  /\ UNCHANGED <<config, staged, metadata, stored, marker, packages, expired, mode, job, faults>>

StageWrite ==
  /\ At("write")
  /\ staged' = Rewrite(job.base, job.release)
  /\ Goto("preview")
  /\ UNCHANGED <<config, plan, metadata, stored, marker, packages, expired, mode, job, faults>>

\* Mutant: the exit status of the preview is not looked at.
StagePreviewIgnored(ok) ==
  /\ At("preview")
  /\ plan' = [release |-> job.release, ok |-> ok]
  /\ Goto("record")
  /\ UNCHANGED <<config, staged, metadata, stored, marker, packages, expired, mode, job, faults>>

(* A preview that fails leaves its plan to read, and nothing to apply.     *)
StagePreview(ok) ==
  /\ At("preview")
  /\ plan' = [release |-> job.release, ok |-> ok]
  /\ IF ok THEN Goto("record") /\ UNCHANGED job ELSE End
  /\ UNCHANGED <<config, staged, metadata, stored, marker, packages, expired, mode, faults>>

StageRecord ==
  /\ At("record")
  /\ metadata' = [release |-> job.release, base |-> job.base, plan |-> plan]
  /\ End
  /\ UNCHANGED <<config, staged, plan, stored, marker, packages, expired, mode, faults>>

ApplyCheck ==
  /\ At("check")
  /\ metadata # None
  /\ LET r == metadata.release
         e == StateFor(stored, r.channel) IN
     /\ Resolves(r, Releases, expired)
     /\ Fresh(e, r)
     /\ config = metadata.base
     /\ plan = metadata.plan
     /\ staged # None
     /\ SnapshotsAgree(r)
     /\ job' = [release |-> r, base |-> config]
  /\ Goto("pacman")
  /\ UNCHANGED <<config, files, stored, marker, packages, expired, mode, faults>>

(* A network, signature, digest or freshness error ends the command.       *)
Refused ==
  /\ pc \in {"resolve", "check"}
  /\ End
  /\ UNCHANGED <<config, files, stored, marker, packages, expired, mode, faults>>

Pacman ==
  /\ At("pacman")
  /\ packages' = staged.repos
  /\ Goto("commit")
  /\ UNCHANGED <<config, files, stored, marker, expired, mode, job, faults>>

(* pacman fails; one of the two lanes may have been installed already.     *)
PacmanFails ==
  /\ At("pacman")
  /\ packages' \in {packages, [packages EXCEPT !.sys = staged.repos.sys],
                              [packages EXCEPT !.opr = staged.repos.opr]}
  /\ End
  /\ UNCHANGED <<config, files, stored, marker, expired, mode, faults>>

ApplyCommit ==
  /\ At("commit")
  /\ LET c == job.release.channel IN
     marker' = SaveChannel(stored, c, NewEntry(StateFor(stored, c), job.release, staged))
  /\ Goto("recover") /\ mode' = "done"
  /\ UNCHANGED <<config, files, stored, packages, expired, job, faults>>

(* ---------------------------------------------------------- surroundings *)

Fault == faults < MaxFaults /\ faults' = faults + 1

(* The process dies, or a write fails and the command returns the error.   *)
Die ==
  /\ ~At("idle") /\ Fault /\ End
  /\ UNCHANGED <<config, files, stored, marker, packages, expired, mode>>

Edit(l) ==
  /\ Fault
  /\ config' = [config EXCEPT !.local = l]
  /\ UNCHANGED <<files, stored, marker, packages, expired, pc, mode, job>>

Expire(m) ==
  /\ Fault
  /\ expired' = expired \cup {m}
  /\ UNCHANGED <<config, files, stored, marker, packages, pc, mode, job>>

Work ==
  \/ \E m \in {"stage", "apply"} : Begin(m)
  \/ NothingPending \/ RecoverRead \/ RecoverConfig \/ RecoverState \/ RecoverDone
  \/ \E want \in Channels \cup {None}, r \in Releases : StageResolve(want, r)
  \/ StageClear \/ StageUnplan \/ StageWrite \/ \E ok \in BOOLEAN : StagePreview(ok)
  \/ StageRecord
  \/ ApplyCheck \/ Refused \/ Pacman \/ PacmanFails \/ ApplyCommit

Next ==
  \/ Work
  \/ Die
  \/ \E l \in Locals \ {config.local} : Edit(l)
  \/ \E m \in Expiring \ expired : Expire(m)

(* A device that runs the client for the first time on an image installed  *)
(* from a release, with whatever the image's pacman.conf holds.            *)
Init ==
  /\ \E r \in Releases, present \in SUBSET Names :
       /\ packages = Lanes(r)
       /\ config \in Configs /\ config.repos = None
       /\ config.sections = SelectSeq(Order(r), LAMBDA n : n \in present)
  /\ staged = None /\ plan = None /\ metadata = None
  /\ stored = None /\ marker = None
  /\ expired = {}
  /\ pc = "idle" /\ mode = "done" /\ job = None /\ faults \in 0..MaxFaults

Spec == Init /\ [][Next]_vars

(* Operators keep running the client, and every command ends.              *)
FairSpec == Spec /\ WF_vars(Work)

(* ---------------------------------------------------------- properties  *)

(* What each channel accepted, as DeviceHistory sees it.                   *)
Accepted == [c \in Channels |->
  LET e == StateFor(stored, c) IN
  IF e = None THEN None
  ELSE [release |-> e.release, sysHigh |-> e.sysHigh, oprHigh |-> e.oprHigh]]

Device == INSTANCE DeviceHistory WITH accepted <- Accepted

(* The state file changes only as DeviceHistory promises, whatever was     *)
(* staged against an older state, applied twice or cut short: a channel's  *)
(* sequence rises, its marks never fall, a lane goes back only by a signed *)
(* recovery from the release in force, and channels do not disturb each    *)
(* other (transaction.go Stage, Apply, recoverPending).                    *)
AcceptsInOrder == Device!Spec

(* With no commit pending, pacman.conf serves exactly the release the      *)
(* state file names, whichever write a crash cut short (recoverPending).   *)
ConfigMatchesState ==
  marker = None =>
    config.repos = IF stored = None THEN None ELSE Lanes(stored.top.release)

(* pacman only ever installs from the release whose previewed plan is on   *)
(* disk to be read and is the one staged (Apply runs pacman on the staged  *)
(* configuration file, whose own digest it does not check).                *)
InstalledAsReviewed ==
  [][packages' # packages =>
       /\ plan # None /\ plan.ok
       /\ metadata # None /\ metadata.release = plan.release
       /\ packages'.sys \in {packages.sys, plan.release.sys}
       /\ packages'.opr \in {packages.opr, plan.release.opr}]_vars

(* A commit that was begun is finished by a later run of the client, even  *)
(* if that run stages something else (recoverPending comes first).         *)
CommitCompletes ==
  /\ marker # None ~> marker = None
  /\ [][marker # None => marker' = None /\ stored = marker]_marker
=============================================================================
