------------------------- MODULE ManifestClientProofs -------------------------
(* Proofs about ManifestClient, for any releases, channels, configurations,   *)
(* answers of the pointers and number of faults.                              *)
(*                                                                            *)
(* The program may die between any two writes and a later run reads what it   *)
(* left.  So the invariant says of the files alone, whatever the program is   *)
(* doing, what they may hold together: metadata.json only exists beside the   *)
(* plan and the configuration it was written for, and a commit marker only    *)
(* beside the state it was made from, or that state's replacement.            *)
EXTENDS ManifestClient, TLAPS

-----------------------------------------------------------------------------
(* The inductive invariant *)

(* A state file written by this client. *)
States ==
  {s \in [channel : Channels, top : Entry, channels : [Channels -> {None} \cup Entry]] :
     s.top = s.channels[s.channel]}

(* A recovery names a release that was retained, with its lanes. *)
TargetKept(r) ==
  r.target # None =>
    \E t \in Releases : t.id = r.target /\ t.sys = r.sys /\ t.opr = r.opr

(* A release the client may move to from a state. *)
Admitted(s, r) == r \in Releases /\ Fresh(StateFor(s, r.channel), r) /\ TargetKept(r)

Replacement(s, r, c) ==
  SaveChannel(s, r.channel, NewEntry(StateFor(s, r.channel), r, c))

Serves(c, r) == c \in Configs /\ c.repos = Lanes(r)
Approved(r) == [release |-> r, ok |-> TRUE]

Committing == {"config", "state", "unmark"}
Staging == {"clear", "unplan", "write", "preview", "record"}
Applying == {"pacman", "commit"}

TypeOK ==
  /\ config \in Configs
  /\ stored \in {None} \cup States
  /\ marker \in {None} \cup States
  /\ DOMAIN packages = {"sys", "opr"}

(* metadata.json is about the plan it holds and the configuration beside it.  *)
MetadataInv ==
  metadata # None =>
    /\ metadata.release \in Releases
    /\ metadata.plan = Approved(metadata.release)
    /\ Serves(staged, metadata.release)

(* A marker replaces the state file as one accepted release changes it.       *)
MarkerInv ==
  marker # None =>
    /\ marker.top.config \in Configs
    /\ marker.top.config.repos = Lanes(marker.top.release)
    /\ \/ stored = marker
       \/ \E r \in Releases, c \in Configs : Admitted(stored, r) /\ marker = Replacement(stored, r, c)

StageInv ==
  /\ pc \in Staging =>
       /\ job.release \in Releases
       /\ job.base \in Configs /\ Rewritable(job.base, job.release)
  /\ pc \in {"unplan", "write", "preview", "record"} => metadata = None
  /\ pc \in {"preview", "record"} => Serves(staged, job.release)
  /\ pc = "record" => plan = Approved(job.release)

ApplyInv ==
  pc \in Applying =>
    /\ metadata # None /\ job.release = metadata.release
    /\ plan = metadata.plan
    /\ Admitted(stored, job.release)

CommitInv ==
  /\ pc \in Committing => marker # None
  /\ pc \in {"resolve", "check"} \cup Staging \cup Applying => marker = None
  /\ pc \in {"state", "unmark"} => config.repos = marker.top.config.repos
  /\ pc = "unmark" => stored = marker

ClientInv ==
  /\ TypeOK
  /\ MetadataInv
  /\ MarkerInv
  /\ StageInv
  /\ ApplyInv
  /\ CommitInv
  /\ ConfigMatchesState

-----------------------------------------------------------------------------
(* The data *)

LEMMA RewriteServes ==
  ASSUME NEW c \in Configs, NEW r \in Releases, Rewritable(c, r)
  PROVE  Serves(Rewrite(c, r), r)
<1>1. Rewrite(c, r) \in Configs
    BY ConfigAssumption
<1>2. {"local", "sections", "repos"} = DOMAIN c
    BY ConfigAssumption
<1>3. Rewrite(c, r).repos = Lanes(r)
    BY <1>2 DEF Rewrite
<1> QED BY <1>1, <1>3 DEF Serves

LEMMA EditKeeps ==
  ASSUME NEW c \in Configs, NEW l \in Locals
  PROVE  [c EXCEPT !.local = l] \in Configs /\ [c EXCEPT !.local = l].repos = c.repos
BY ConfigAssumption

LEMMA ReleaseFacts ==
  ASSUME NEW r \in Releases
  PROVE  /\ r.channel \in Channels
         /\ r.seq \in Nat /\ r.sys.seq \in Nat /\ r.opr.seq \in Nat
BY ClientAssumption

(* What a state file says of a channel is what it keeps under its name.       *)
LEMMA StateForIs ==
  ASSUME NEW s \in {None} \cup States, NEW c \in Channels
  PROVE  /\ StateFor(s, c) = IF s = None THEN None ELSE s.channels[c]
         /\ StateFor(s, c) \in {None} \cup Entry
<1>1. CASE s = None
    BY <1>1 DEF StateFor
<1>2. CASE s # None
    <2>1. /\ s \in States /\ s.channel \in Channels /\ s.top = s.channels[s.channel]
          /\ s.channels[c] \in {None} \cup Entry /\ s.top \in Entry
        BY <1>2 DEF States
    <2>2. s.channel # None
        BY <2>1, ClientAssumption
    <2>3. s.top # None
        BY <2>1, NoneAssumption
    <2> QED BY <1>2, <2>1, <2>2, <2>3 DEF StateFor
<1> QED BY <1>1, <1>2

LEMMA NewEntryFacts ==
  ASSUME NEW s \in {None} \cup States, NEW r \in Releases, NEW c \in Configs,
         NEW e, e = StateFor(s, r.channel)
  PROVE  /\ NewEntry(e, r, c) \in Entry
         /\ NewEntry(e, r, c).release = r /\ NewEntry(e, r, c).config = c
         /\ NewEntry(e, r, c).sysHigh =
              IF e = None THEN r.sys.seq ELSE IF e.sysHigh > r.sys.seq THEN e.sysHigh ELSE r.sys.seq
         /\ NewEntry(e, r, c).oprHigh =
              IF e = None THEN r.opr.seq ELSE IF e.oprHigh > r.opr.seq THEN e.oprHigh ELSE r.opr.seq
<1>1. r.channel \in Channels /\ r.sys.seq \in Nat /\ r.opr.seq \in Nat
    BY ReleaseFacts
<1>2. e \in {None} \cup Entry
    BY <1>1, StateForIs
<1>3. e # None => e.sysHigh \in Nat /\ e.oprHigh \in Nat
    BY <1>2 DEF Entry
<1> QED BY <1>1, <1>3 DEF NewEntry, Marked, Entry

LEMMA ReplacementFacts ==
  ASSUME NEW s \in {None} \cup States, NEW r \in Releases, NEW c \in Configs,
         NEW e, e = NewEntry(StateFor(s, r.channel), r, c)
  PROVE  /\ Replacement(s, r, c) \in States
         /\ Replacement(s, r, c).top = e
         /\ \A d \in Channels : Replacement(s, r, c).channels[d] =
              IF d = r.channel THEN e ELSE StateFor(s, d)
<1>1. r.channel \in Channels /\ e \in Entry
    BY ReleaseFacts, NewEntryFacts
<1>2. \A d \in Channels :
        /\ StateFor(s, d) = IF s = None THEN None ELSE s.channels[d]
        /\ StateFor(s, d) \in {None} \cup Entry
    BY StateForIs
<1>3. Replacement(s, r, c) =
        [channel |-> r.channel, top |-> e,
         channels |-> [d \in Channels |-> IF d = r.channel THEN e ELSE StateFor(s, d)]]
    BY <1>2 DEF Replacement, SaveChannel
<1> QED BY <1>1, <1>2, <1>3 DEF States

LEMMA StatesAreFiles ==
  ASSUME NEW s \in States
  PROVE  s # None /\ s.top \in Entry /\ s.top # None /\ s.top.config \in Configs
BY NoneAssumption DEF States, Entry

-----------------------------------------------------------------------------
(* The steps *)

LEMMA InitClient == Init => ClientInv
<1> SUFFICES ASSUME Init PROVE ClientInv
    OBVIOUS
<1>1. TypeOK
    BY DEF Init, TypeOK, Lanes
<1> QED BY <1>1 DEF Init, ClientInv, MetadataInv, MarkerInv, StageInv, ApplyInv,
    CommitInv, Staging, Applying, Committing, ConfigMatchesState

LEMMA FilesKept ==
  ASSUME ClientInv, UNCHANGED <<config, files, stored, marker, packages>>
  PROVE  TypeOK' /\ MetadataInv' /\ MarkerInv' /\ ConfigMatchesState'
BY DEF ClientInv, files, TypeOK, MetadataInv, MarkerInv, ConfigMatchesState

LEMMA CommandEnds ==
  ASSUME End
  PROVE  StageInv' /\ ApplyInv' /\ CommitInv'
BY DEF End, Goto, StageInv, ApplyInv, CommitInv, Staging, Applying, Committing

LEMMA AfterIs == After \in {"resolve", "check", "idle"}
BY DEF After

LEMMA StepBegin ==
  ASSUME ClientInv, NEW m, Begin(m)
  PROVE  ClientInv'
<1>1. UNCHANGED <<config, files, stored, marker, packages>> /\ pc' = "recover"
    BY DEF Begin, Goto
<1>2. StageInv' /\ ApplyInv' /\ CommitInv'
    BY <1>1 DEF StageInv, ApplyInv, CommitInv, Staging, Applying, Committing
<1> QED BY <1>1, <1>2, FilesKept DEF ClientInv

LEMMA StepNothingPending ==
  ASSUME ClientInv, NothingPending
  PROVE  ClientInv'
<1>1. /\ UNCHANGED <<config, files, stored, marker, packages>> /\ marker = None
      /\ pc' \in {"resolve", "check", "idle"}
    BY AfterIs DEF NothingPending, Goto
<1>2. StageInv' /\ ApplyInv' /\ CommitInv'
    BY <1>1 DEF StageInv, ApplyInv, CommitInv, Staging, Applying, Committing
<1> QED BY <1>1, <1>2, FilesKept DEF ClientInv

LEMMA StepRecoverRead ==
  ASSUME ClientInv, RecoverRead
  PROVE  ClientInv'
<1>1. UNCHANGED <<config, files, stored, marker, packages>> /\ marker # None
    BY DEF RecoverRead
<1>2. StageInv' /\ ApplyInv' /\ CommitInv'
  <2>1. CASE pc' = "config"
      BY <1>1, <2>1 DEF StageInv, ApplyInv, CommitInv, Staging, Applying, Committing
  <2>2. CASE End
      BY <2>2, CommandEnds
  <2> QED BY <2>1, <2>2 DEF RecoverRead, Goto
<1> QED BY <1>1, <1>2, FilesKept DEF ClientInv

LEMMA StepRecoverConfig ==
  ASSUME ClientInv, RecoverConfig
  PROVE  ClientInv'
<1>1. /\ marker # None /\ config' = marker.top.config /\ pc' = "state"
      /\ UNCHANGED <<files, stored, marker, packages>>
    BY DEF RecoverConfig, At, Goto, ClientInv, CommitInv, Committing
<1>2. TypeOK'
    BY <1>1 DEF ClientInv, TypeOK, MarkerInv
<1>3. MetadataInv' /\ MarkerInv' /\ ConfigMatchesState'
    BY <1>1 DEF ClientInv, files, MetadataInv, MarkerInv, ConfigMatchesState
<1>4. StageInv' /\ ApplyInv' /\ CommitInv'
    BY <1>1 DEF StageInv, ApplyInv, CommitInv, Staging, Applying, Committing
<1> QED BY <1>2, <1>3, <1>4 DEF ClientInv

LEMMA StepRecoverState ==
  ASSUME ClientInv, RecoverState
  PROVE  ClientInv'
<1>1. /\ marker # None /\ stored' = marker /\ pc' = "unmark"
      /\ config.repos = marker.top.config.repos
      /\ UNCHANGED <<config, files, marker, packages>>
    BY DEF RecoverState, At, Goto, ClientInv, CommitInv, Committing
<1>2. TypeOK' /\ MetadataInv' /\ MarkerInv' /\ ConfigMatchesState'
    BY <1>1 DEF ClientInv, files, TypeOK, MetadataInv, MarkerInv, ConfigMatchesState
<1>3. StageInv' /\ ApplyInv' /\ CommitInv'
    BY <1>1 DEF StageInv, ApplyInv, CommitInv, Staging, Applying, Committing
<1> QED BY <1>2, <1>3 DEF ClientInv

(* The marker is only taken away when both files it stands for are written.   *)
LEMMA StepRecoverDone ==
  ASSUME ClientInv, RecoverDone
  PROVE  ClientInv'
<1>1. /\ marker # None /\ stored = marker /\ config.repos = marker.top.config.repos
      /\ marker.top.config.repos = Lanes(marker.top.release)
      /\ marker' = None /\ pc' \in {"resolve", "check", "idle"}
      /\ UNCHANGED <<config, files, stored, packages>>
    BY AfterIs DEF RecoverDone, At, Goto, ClientInv, CommitInv, Committing, MarkerInv
<1>2. ConfigMatchesState'
    BY <1>1 DEF ConfigMatchesState
<1>3. TypeOK' /\ MetadataInv' /\ MarkerInv'
    BY <1>1 DEF ClientInv, files, TypeOK, MetadataInv, MarkerInv
<1>4. StageInv' /\ ApplyInv' /\ CommitInv'
    BY <1>1 DEF StageInv, ApplyInv, CommitInv, Staging, Applying, Committing
<1> QED BY <1>2, <1>3, <1>4 DEF ClientInv

LEMMA StepStageResolve ==
  ASSUME ClientInv, NEW want, NEW r \in Releases, StageResolve(want, r)
  PROVE  ClientInv'
<1>1. /\ UNCHANGED <<config, files, stored, marker, packages>>
      /\ marker = None /\ pc' = "clear"
      /\ job'.release = r /\ job'.base = config /\ Rewritable(config, r)
    BY DEF StageResolve, At, Goto, ClientInv, CommitInv
<1>2. StageInv'
    BY <1>1 DEF ClientInv, TypeOK, StageInv, Staging
<1>3. ApplyInv' /\ CommitInv'
    BY <1>1 DEF ApplyInv, CommitInv, Staging, Applying, Committing
<1> QED BY <1>1, <1>2, <1>3, FilesKept DEF ClientInv

LEMMA StepStageClear ==
  ASSUME ClientInv, StageClear
  PROVE  ClientInv'
<1>1. /\ pc = "clear" /\ pc' = "unplan" /\ metadata' = None
      /\ UNCHANGED <<config, staged, plan, stored, marker, packages, job>>
    BY DEF StageClear, At, Goto
<1>2. TypeOK' /\ MetadataInv' /\ MarkerInv' /\ ConfigMatchesState'
    BY <1>1 DEF ClientInv, TypeOK, MetadataInv, MarkerInv, ConfigMatchesState
<1>3. StageInv' /\ ApplyInv' /\ CommitInv'
    BY <1>1 DEF ClientInv, StageInv, ApplyInv, CommitInv, Staging, Applying, Committing
<1> QED BY <1>2, <1>3 DEF ClientInv

LEMMA StepStageUnplan ==
  ASSUME ClientInv, StageUnplan
  PROVE  ClientInv'
<1>1. /\ pc = "unplan" /\ pc' = "write" /\ metadata = None
      /\ UNCHANGED <<config, staged, metadata, stored, marker, packages, job>>
    BY DEF StageUnplan, At, Goto, ClientInv, StageInv
<1>2. TypeOK' /\ MetadataInv' /\ MarkerInv' /\ ConfigMatchesState'
    BY <1>1 DEF ClientInv, TypeOK, MetadataInv, MarkerInv, ConfigMatchesState
<1>3. StageInv' /\ ApplyInv' /\ CommitInv'
    BY <1>1 DEF ClientInv, StageInv, ApplyInv, CommitInv, Staging, Applying, Committing
<1> QED BY <1>2, <1>3 DEF ClientInv

LEMMA StepStageWrite ==
  ASSUME ClientInv, StageWrite
  PROVE  ClientInv'
<1>1. /\ pc = "write" /\ pc' = "preview" /\ metadata = None
      /\ staged' = Rewrite(job.base, job.release)
      /\ UNCHANGED <<config, plan, metadata, stored, marker, packages, job>>
    BY DEF StageWrite, At, Goto, ClientInv, StageInv
<1>2. Serves(staged', job'.release)
  <2>1. /\ job.release \in Releases /\ job.base \in Configs
        /\ Rewritable(job.base, job.release)
      BY <1>1 DEF ClientInv, StageInv, Staging
  <2> QED BY <1>1, <2>1, RewriteServes
<1>3. TypeOK' /\ MetadataInv' /\ MarkerInv' /\ ConfigMatchesState'
    BY <1>1 DEF ClientInv, TypeOK, MetadataInv, MarkerInv, ConfigMatchesState
<1>4. StageInv' /\ ApplyInv' /\ CommitInv'
    BY <1>1, <1>2 DEF ClientInv, StageInv, ApplyInv, CommitInv, Staging, Applying, Committing
<1> QED BY <1>3, <1>4 DEF ClientInv

LEMMA StepStagePreview ==
  ASSUME ClientInv, NEW ok \in BOOLEAN, StagePreview(ok)
  PROVE  ClientInv'
<1>1. /\ pc = "preview" /\ metadata = None
      /\ plan' = [release |-> job.release, ok |-> ok]
      /\ UNCHANGED <<config, staged, metadata, stored, marker, packages>>
    BY DEF StagePreview, At, ClientInv, StageInv
<1>2. TypeOK' /\ MetadataInv' /\ MarkerInv' /\ ConfigMatchesState'
    BY <1>1 DEF ClientInv, TypeOK, MetadataInv, MarkerInv, ConfigMatchesState
<1>3. CASE ok
  <2>1. pc' = "record" /\ job' = job /\ plan' = Approved(job.release)
      BY <1>1, <1>3 DEF StagePreview, Goto, Approved
  <2>2. StageInv' /\ ApplyInv' /\ CommitInv'
      BY <1>1, <2>1 DEF ClientInv, StageInv, ApplyInv, CommitInv, Staging, Applying, Committing
  <2> QED BY <1>2, <2>2 DEF ClientInv
<1>4. CASE ~ok
    BY <1>2, <1>4, CommandEnds DEF StagePreview, ClientInv
<1> QED BY <1>3, <1>4

LEMMA StepStageRecord ==
  ASSUME ClientInv, StageRecord
  PROVE  ClientInv'
<1>1. /\ metadata' = [release |-> job.release, base |-> job.base, plan |-> plan]
      /\ End
      /\ UNCHANGED <<config, staged, plan, stored, marker, packages>>
    BY DEF StageRecord
<1>2. job.release \in Releases /\ plan = Approved(job.release) /\ Serves(staged, job.release)
    BY DEF StageRecord, At, ClientInv, StageInv, Staging
<1>3. MetadataInv'
    BY <1>1, <1>2 DEF MetadataInv
<1>4. TypeOK' /\ MarkerInv' /\ ConfigMatchesState'
    BY <1>1 DEF ClientInv, TypeOK, MarkerInv, ConfigMatchesState
<1> QED BY <1>1, <1>3, <1>4, CommandEnds DEF ClientInv

LEMMA StepApplyCheck ==
  ASSUME ClientInv, ApplyCheck
  PROVE  ClientInv'
<1>1. /\ UNCHANGED <<config, files, stored, marker, packages>>
      /\ marker = None /\ pc' = "pacman"
      /\ metadata # None /\ job'.release = metadata.release
      /\ plan = metadata.plan
      /\ Fresh(StateFor(stored, metadata.release.channel), metadata.release)
      /\ Resolves(metadata.release, Releases, expired)
    BY DEF ApplyCheck, At, Goto, ClientInv, CommitInv
<1>2. Admitted(stored, metadata.release)
  <2>1. metadata.release \in Releases
      BY <1>1 DEF ClientInv, MetadataInv
  <2>2. TargetKept(metadata.release)
      BY <1>1 DEF Resolves, RecoveryAgrees, TargetKept
  <2> QED BY <1>1, <2>1, <2>2 DEF Admitted
<1>3. ApplyInv'
  <2>1. Admitted(stored', job'.release)
      BY <1>1, <1>2
  <2> QED BY <1>1, <2>1 DEF ApplyInv, files
<1>4. StageInv' /\ CommitInv'
    BY <1>1 DEF StageInv, CommitInv, Staging, Applying, Committing
<1> QED BY <1>1, <1>3, <1>4, FilesKept DEF ClientInv

LEMMA StepRefused ==
  ASSUME ClientInv, Refused
  PROVE  ClientInv'
BY FilesKept, CommandEnds DEF Refused, ClientInv

(* What pacman has to install from is what the plan shows.                    *)
LEMMA PacmanReady ==
  ASSUME ClientInv, pc = "pacman"
  PROVE  /\ plan # None /\ plan.ok
         /\ metadata # None /\ metadata.release = plan.release
         /\ staged.repos = Lanes(plan.release)
<1>1. /\ metadata # None /\ plan = metadata.plan
      /\ metadata.release \in Releases /\ metadata.plan = Approved(metadata.release)
      /\ Serves(staged, metadata.release)
    BY DEF ClientInv, ApplyInv, Applying, MetadataInv
<1>2. Approved(metadata.release) # None
  <2>1. \A r \in Releases : Approved(r) \in [release : Releases, ok : BOOLEAN]
      BY DEF Approved
  <2> QED BY <1>1, <2>1, NoneAssumption
<1> QED BY <1>1, <1>2 DEF Approved, Serves

LEMMA PacmanSteps ==
  ASSUME ClientInv, Pacman \/ PacmanFails
  PROVE  /\ DOMAIN packages' = {"sys", "opr"}
         /\ packages'.sys \in {packages.sys, plan.release.sys}
         /\ packages'.opr \in {packages.opr, plan.release.opr}
<1>1. staged.repos = Lanes(plan.release) /\ DOMAIN packages = {"sys", "opr"}
    BY PacmanReady DEF Pacman, PacmanFails, At, ClientInv, TypeOK
<1>2. CASE Pacman
    BY <1>1, <1>2 DEF Pacman, Lanes
<1>3. CASE PacmanFails
    BY <1>1, <1>3 DEF PacmanFails, Lanes
<1> QED BY <1>2, <1>3

LEMMA StepPacman ==
  ASSUME ClientInv, Pacman \/ PacmanFails
  PROVE  ClientInv'
<1>1. UNCHANGED <<config, files, stored, marker>> /\ pc = "pacman"
    BY DEF Pacman, PacmanFails, At
<1>2. TypeOK' /\ MetadataInv' /\ MarkerInv' /\ ConfigMatchesState'
    BY <1>1, PacmanSteps DEF ClientInv, files, TypeOK, MetadataInv, MarkerInv, ConfigMatchesState
<1>3. CASE Pacman
  <2>1. pc' = "commit" /\ job' = job
      BY <1>3 DEF Pacman, Goto
  <2>2. ApplyInv'
    <3>1. Admitted(stored', job'.release)
        BY <1>1, <2>1 DEF ClientInv, ApplyInv, Applying
    <3> QED BY <1>1, <2>1, <3>1 DEF ClientInv, ApplyInv, Applying, files
  <2>3. StageInv' /\ CommitInv'
      BY <1>1, <2>1 DEF ClientInv, StageInv, CommitInv, Staging, Applying, Committing
  <2> QED BY <1>2, <2>2, <2>3 DEF ClientInv
<1>4. CASE PacmanFails
    BY <1>2, <1>4, CommandEnds DEF PacmanFails, ClientInv
<1> QED BY <1>3, <1>4

LEMMA StepApplyCommit ==
  ASSUME ClientInv, ApplyCommit
  PROVE  ClientInv'
<1>1. /\ pc = "commit" /\ pc' = "recover"
      /\ marker' = Replacement(stored, job.release, staged)
      /\ UNCHANGED <<config, files, stored, packages, job>>
    BY DEF ApplyCommit, At, Goto, Replacement
<1>2. /\ Admitted(stored, job.release) /\ job.release \in Releases
      /\ Serves(staged, job.release)
    BY <1>1 DEF ClientInv, ApplyInv, Applying, MetadataInv, Admitted
<1>3. stored \in {None} \cup States /\ staged \in Configs
    BY <1>2 DEF ClientInv, TypeOK, Serves
<1>4. PICK e : e = NewEntry(StateFor(stored, job.release.channel), job.release, staged)
    OBVIOUS
<1>5. e.config = staged /\ e.release = job.release
  <2>1. \A s \in {None} \cup States, r \in Releases, c \in Configs :
          /\ NewEntry(StateFor(s, r.channel), r, c).config = c
          /\ NewEntry(StateFor(s, r.channel), r, c).release = r
      BY NewEntryFacts
  <2> QED BY <1>2, <1>3, <1>4, <2>1
<1>6. marker' \in States /\ marker'.top = e
  <2>1. \A s \in {None} \cup States, r \in Releases, c \in Configs :
          /\ Replacement(s, r, c) \in States
          /\ Replacement(s, r, c).top = NewEntry(StateFor(s, r.channel), r, c)
      BY ReplacementFacts
  <2> QED BY <1>1, <1>2, <1>3, <1>4, <2>1
<1>7. marker' # None
    BY <1>6, NoneAssumption DEF States
<1>8. MarkerInv'
  <2>1. marker'.top.config \in Configs /\ marker'.top.config.repos = Lanes(marker'.top.release)
      BY <1>2, <1>3, <1>5, <1>6 DEF Serves
  <2>2. \E r \in Releases, c \in Configs :
          Admitted(stored', r) /\ marker' = Replacement(stored', r, c)
      BY <1>1, <1>2, <1>3
  <2> QED BY <2>1, <2>2 DEF MarkerInv
<1>9. TypeOK' /\ MetadataInv' /\ ConfigMatchesState'
    BY <1>1, <1>6, <1>7 DEF ClientInv, files, TypeOK, MetadataInv, ConfigMatchesState
<1>10. StageInv' /\ ApplyInv' /\ CommitInv'
    BY <1>1 DEF StageInv, ApplyInv, CommitInv, Staging, Applying, Committing
<1> QED BY <1>8, <1>9, <1>10 DEF ClientInv

LEMMA StepDie ==
  ASSUME ClientInv, Die
  PROVE  ClientInv'
BY FilesKept, CommandEnds DEF Die, ClientInv

(* An operator's edit leaves the servers of the owned sections alone.         *)
LEMMA StepEdit ==
  ASSUME ClientInv, NEW l \in Locals, Edit(l)
  PROVE  ClientInv'
<1>1. /\ config' \in Configs /\ config'.repos = config.repos
      /\ UNCHANGED <<files, stored, marker, packages, pc, job>>
    BY EditKeeps DEF Edit, ClientInv, TypeOK
<1>2. TypeOK' /\ MetadataInv' /\ MarkerInv' /\ ConfigMatchesState'
    BY <1>1 DEF ClientInv, files, TypeOK, MetadataInv, MarkerInv, ConfigMatchesState
<1>3. StageInv' /\ CommitInv'
    BY <1>1 DEF ClientInv, files, StageInv, CommitInv
<1>4. ApplyInv'
    BY <1>1 DEF ClientInv, files, ApplyInv, Admitted
<1> QED BY <1>2, <1>3, <1>4 DEF ClientInv

LEMMA StepExpire ==
  ASSUME ClientInv, NEW m, Expire(m)
  PROVE  ClientInv'
<1>1. UNCHANGED <<config, files, stored, marker, packages, pc, job>>
    BY DEF Expire
<1>2. StageInv' /\ ApplyInv' /\ CommitInv'
    BY <1>1 DEF ClientInv, files, StageInv, ApplyInv, CommitInv, Admitted
<1> QED BY <1>1, <1>2, FilesKept DEF ClientInv

LEMMA StepClient ==
  ASSUME ClientInv, [Next]_vars
  PROVE  ClientInv'
<1>1. CASE Work
    BY <1>1, StepBegin, StepNothingPending, StepRecoverRead, StepRecoverConfig,
       StepRecoverState, StepRecoverDone, StepStageResolve, StepStageClear, StepStageUnplan,
       StepStageWrite, StepStagePreview, StepStageRecord, StepApplyCheck, StepRefused,
       StepPacman, StepApplyCommit DEF Work
<1>2. CASE Die
    BY <1>2, StepDie
<1>3. ASSUME NEW l \in Locals \ {config.local}, Edit(l) PROVE ClientInv'
    BY <1>3, StepEdit
<1>4. ASSUME NEW m \in Expiring \ expired, Expire(m) PROVE ClientInv'
    BY <1>4, StepExpire
<1>5. CASE UNCHANGED vars
  <2>1. UNCHANGED <<config, files, stored, marker, packages, pc, job>>
      BY <1>5 DEF vars
  <2>2. StageInv' /\ ApplyInv' /\ CommitInv'
      BY <2>1 DEF ClientInv, files, StageInv, ApplyInv, CommitInv, Admitted
  <2> QED BY <2>1, <2>2, FilesKept DEF ClientInv
<1> QED BY <1>1, <1>2, <1>3, <1>4, <1>5 DEF Next

-----------------------------------------------------------------------------
(* The results *)

(* Whenever the program dies, the files it leaves fit together.               *)
THEOREM ClientInvariant == Spec => []ClientInv
<1>1. Init => ClientInv
    BY InitClient
<1>2. ClientInv /\ [Next]_vars => ClientInv'
    BY StepClient
<1> QED BY <1>1, <1>2, PTL DEF Spec

(* With no commit pending, pacman.conf serves the release the state file      *)
(* names (transaction.go recoverPending writes both before the marker goes).  *)
THEOREM ServesItsState == Spec => []ConfigMatchesState
<1>1. ClientInv => ConfigMatchesState
    BY DEF ClientInv
<1> QED BY <1>1, ClientInvariant, PTL

(* pacman only installs from the release whose previewed plan is on disk      *)
(* (transaction.go Stage removes metadata.json before it writes the others).  *)
THEOREM InstallsAsReviewed == Spec => InstalledAsReviewed
<1> DEFINE Step == packages' # packages =>
       /\ plan # None /\ plan.ok
       /\ metadata # None /\ metadata.release = plan.release
       /\ packages'.sys \in {packages.sys, plan.release.sys}
       /\ packages'.opr \in {packages.opr, plan.release.opr}
<1>1. ClientInv /\ [Next]_vars => [Step]_vars
  <2> SUFFICES ASSUME ClientInv, [Next]_vars, packages' # packages PROVE Step
      OBVIOUS
  <2>1. Pacman \/ PacmanFails
      BY DEF Next, Work, vars, Begin, NothingPending, RecoverRead, RecoverConfig, RecoverState,
         RecoverDone, StageResolve, StageClear, StageUnplan, StageWrite, StagePreview,
         StageRecord, ApplyCheck, Refused, ApplyCommit, Die, Edit, Expire
  <2>2. pc = "pacman"
      BY <2>1 DEF Pacman, PacmanFails, At
  <2> QED BY <2>1, <2>2, PacmanReady, PacmanSteps
<1> QED BY <1>1, ClientInvariant, PTL DEF Spec, InstalledAsReviewed

-----------------------------------------------------------------------------
(* The refinement of DeviceHistory *)

(* What DeviceHistory keeps of an entry of the state file.                    *)
Kept(e) ==
  IF e = None THEN None
  ELSE [release |-> e.release, sysHigh |-> e.sysHigh, oprHigh |-> e.oprHigh]

LEMMA AcceptedIs ==
  ASSUME ClientInv
  PROVE  /\ Accepted = [c \in Channels |-> Kept(StateFor(stored, c))]
         /\ \A c \in Channels : StateFor(stored, c) \in {None} \cup Entry
         /\ Accepted \in [Channels -> {None} \cup [release : Releases, sysHigh : Nat, oprHigh : Nat]]
<1>1. Accepted = [c \in Channels |-> Kept(StateFor(stored, c))]
    BY DEF Accepted, Kept
<1>2. \A c \in Channels : StateFor(stored, c) \in {None} \cup Entry
    BY StateForIs DEF ClientInv, TypeOK
<1>3. \A e \in {None} \cup Entry :
        Kept(e) \in {None} \cup [release : Releases, sysHigh : Nat, oprHigh : Nat]
    BY DEF Kept, Entry
<1> QED BY <1>1, <1>2, <1>3

LEMMA FreshMoves ==
  ASSUME NEW r \in Releases, NEW e \in Entry, Fresh(e, r), TargetKept(r)
  PROVE  /\ r.seq > e.release.seq
         /\ \/ Device!Recovers(e, r)
            \/ /\ Device!Forward(r.sys, e.release.sys, e.sysHigh)
               /\ Device!Forward(r.opr, e.release.opr, e.oprHigh)
               /\ NotBelow(r.sys.version, e.release.sys.version)
<1>1. e # None
    BY NoneAssumption
<1>2. r.seq > e.release.seq
    BY <1>1 DEF Fresh
<1>3. CASE RollbackAllowed(e, r)
    BY <1>2, <1>3 DEF RollbackAllowed, TargetKept, Device!Recovers
<1>4. CASE ~RollbackAllowed(e, r)
  <2>1. /\ LaneFresh(r.sys, e.release.sys, e.sysHigh)
        /\ LaneFresh(r.opr, e.release.opr, e.oprHigh)
        /\ NotBelow(r.sys.version, e.release.sys.version)
      BY <1>1, <1>4 DEF Fresh
  <2>2. r.sys.seq \in Nat /\ r.opr.seq \in Nat /\ e.sysHigh \in Nat /\ e.oprHigh \in Nat
      BY ReleaseFacts DEF Entry
  <2> QED BY <1>2, <2>1, <2>2 DEF LaneFresh, Device!Forward
<1> QED BY <1>3, <1>4

(* Replacing the state file by a marker is one step of the device's history.  *)
LEMMA ReplacementAccepts ==
  ASSUME ClientInv, NEW r \in Releases, NEW c \in Configs,
         Admitted(stored, r), stored' = Replacement(stored, r, c)
  PROVE  Device!Accept(r.channel, r)
<1> DEFINE e == StateFor(stored, r.channel)
           n == NewEntry(e, r, c)
<1>1. r.channel \in Channels /\ stored \in {None} \cup States
    BY ReleaseFacts DEF ClientInv, TypeOK
<1>2. e \in {None} \cup Entry /\ None \notin Entry
    BY <1>1, StateForIs, NoneAssumption
<1>3. Accepted[r.channel] = Kept(e)
    BY <1>1, AcceptedIs
<1>4. /\ n \in Entry /\ n.release = r
      /\ n.sysHigh = IF e = None THEN r.sys.seq ELSE Device!Higher(e.sysHigh, r.sys.seq)
      /\ n.oprHigh = IF e = None THEN r.opr.seq ELSE Device!Higher(e.oprHigh, r.opr.seq)
    BY <1>1, NewEntryFacts DEF Device!Higher
<1>5. /\ stored' \in States /\ stored' # None
      /\ \A d \in Channels : stored'.channels[d] = IF d = r.channel THEN n ELSE StateFor(stored, d)
    BY <1>1, ReplacementFacts, StatesAreFiles
<1>6. \A d \in Channels : StateFor(stored', d) = stored'.channels[d]
    BY <1>5, StateForIs
<1>7. Accepted' = [d \in Channels |-> Kept(StateFor(stored', d))]
    BY DEF Accepted, Kept, StateFor
<1>8. Accepted' = [Accepted EXCEPT ![r.channel] = Kept(n)]
  <2>1. \A d \in Channels : StateFor(stored', d) = IF d = r.channel THEN n ELSE StateFor(stored, d)
      BY <1>5, <1>6
  <2>2. Accepted = [d \in Channels |-> Kept(StateFor(stored, d))]
      BY AcceptedIs
  <2> HIDE DEF e, n
  <2> QED BY <1>7, <2>1, <2>2
<1>9. Kept(n) = [release |-> r,
        sysHigh |-> IF Kept(e) = None THEN r.sys.seq ELSE Device!Higher(Kept(e).sysHigh, r.sys.seq),
        oprHigh |-> IF Kept(e) = None THEN r.opr.seq ELSE Device!Higher(Kept(e).oprHigh, r.opr.seq)]
  <2>1. n # None
      BY <1>2, <1>4
  <2>2. CASE e = None
      BY <1>4, <2>1, <2>2 DEF Kept
  <2>3. CASE e # None
    <3>1. Kept(e) # None /\ Kept(e).sysHigh = e.sysHigh /\ Kept(e).oprHigh = e.oprHigh
        BY <1>2, <2>3, NoneAssumption DEF Kept, Entry
    <3> QED BY <1>4, <2>1, <2>3, <3>1 DEF Kept
  <2> QED BY <2>2, <2>3
<1>10. Kept(e) # None =>
        /\ r.seq > Kept(e).release.seq
        /\ \/ Device!Recovers(Kept(e), r)
           \/ /\ Device!Forward(r.sys, Kept(e).release.sys, Kept(e).sysHigh)
              /\ Device!Forward(r.opr, Kept(e).release.opr, Kept(e).oprHigh)
              /\ NotBelow(r.sys.version, Kept(e).release.sys.version)
  <2> SUFFICES ASSUME Kept(e) # None
               PROVE  /\ r.seq > Kept(e).release.seq
                      /\ \/ Device!Recovers(Kept(e), r)
                         \/ /\ Device!Forward(r.sys, Kept(e).release.sys, Kept(e).sysHigh)
                            /\ Device!Forward(r.opr, Kept(e).release.opr, Kept(e).oprHigh)
                            /\ NotBelow(r.sys.version, Kept(e).release.sys.version)
      OBVIOUS
  <2>1. e # None /\ e \in Entry
      BY <1>2 DEF Kept
  <2>2. Fresh(e, r) /\ TargetKept(r)
      BY DEF Admitted
  <2>3. /\ Kept(e).release = e.release /\ Kept(e).sysHigh = e.sysHigh
        /\ Kept(e).oprHigh = e.oprHigh
      BY <2>1 DEF Kept
  <2>4. Device!Recovers(e, r) => Device!Recovers(Kept(e), r)
      BY <2>3 DEF Device!Recovers
  <2> QED BY <2>1, <2>2, <2>3, <2>4, FreshMoves
<1> HIDE DEF e, n
<1> QED BY <1>1, <1>3, <1>8, <1>9, <1>10 DEF Device!Accept

LEMMA StepDevice ==
  ASSUME ClientInv, [Next]_vars
  PROVE  [Device!Next]_Accepted
<1>1. CASE stored' = stored
    BY <1>1 DEF Accepted
<1>2. CASE stored' # stored
  <2>1. RecoverState
      BY <1>2 DEF Next, Work, vars, Begin, NothingPending, RecoverRead, RecoverConfig,
         RecoverDone, StageResolve, StageClear, StageUnplan, StageWrite, StagePreview,
         StageRecord, ApplyCheck, Refused, Pacman, PacmanFails, ApplyCommit, Die, Edit, Expire
  <2>2. stored' = marker /\ marker # None
      BY <2>1 DEF RecoverState, At, ClientInv, CommitInv, Committing
  <2>3. PICK r \in Releases, c \in Configs :
          Admitted(stored, r) /\ stored' = Replacement(stored, r, c)
      BY <1>2, <2>2 DEF ClientInv, MarkerInv
  <2>4. Device!Accept(r.channel, r)
      BY <2>3, ReplacementAccepts
  <2> QED BY <2>4, ReleaseFacts DEF Device!Next
<1> QED BY <1>1, <1>2

(* The state file changes only as DeviceHistory promises: a channel's         *)
(* sequence rises, its marks never fall, a lane goes back only by a signed    *)
(* recovery from the release in force, and channels do not disturb each       *)
(* other (transaction.go Stage, Apply, recoverPending).                       *)
THEOREM KeepsHistory == Spec => AcceptsInOrder
<1>1. ClientInv => Device!Init
    BY AcceptedIs DEF Device!Init
<1>2. Init => ClientInv
    BY InitClient
<1>3. ClientInv /\ [Next]_vars => [Device!Next]_Accepted
    BY StepDevice
<1> QED BY <1>1, <1>2, <1>3, ClientInvariant, PTL DEF Spec, AcceptsInOrder, Device!Spec
=============================================================================
