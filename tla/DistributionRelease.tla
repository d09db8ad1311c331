------------------------- MODULE DistributionRelease -------------------------
(* Distribution releases: a candidate is prepared over an owned repository,   *)
(* approved by the release team, signed, and activated.  What a channel       *)
(* serves is a resolved transaction, a manifest that names one system and one *)
(* OPR manifest; activation moves the pointers of the lanes and of the        *)
(* transaction in one database batch, after many awaited reads and writes.    *)
(*                                                                            *)
(* A manifest is content addressed.  The content of a candidate is fixed by   *)
(* its release id except for the release team written into it when it is      *)
(* finalized, so a digest is [id, team]; the draft has the empty team.  Owner *)
(* area approvals are checked as release approvals are and are not told apart.*)
EXTENDS OwnedRepository, Sequences

CONSTANTS
  Actors,     \* maintainers
  Channels,   \* channels of the system lane
  OprChannels, \* channels of the OPR lane
  Stable,     \* the one whose system releases take a stable OPR release only
  Channel,    \* the channel a release is prepared for
  Target,     \* the system release an OPR release is prepared against
  First,      \* the pair <<system, opr>> published at the start
  FirstTeam,  \* and the team that had approved it
  Ready,      \* releases whose repository was prepared before the start
  MaxRenew    \* bound on the sequence of a channel's transactions

ASSUME ReleaseAssumption ==
  /\ Channel \in [Releases -> Channels \cup OprChannels]
  /\ \A r \in Releases :
       Channel[r] \in IF r \in OprReleases THEN OprChannels ELSE Channels
  /\ Target \in [OprReleases -> Releases \ OprReleases]
  /\ MaxRenew \in Nat

ASSUME NullAssumption ==
  LET digests == [id : Releases, team : SUBSET (Actors \cup FirstTeam)]
  IN  /\ Null \notin Releases \cup digests \cup (Releases \X Releases \X Nat)
      /\ Null \notin [system : digests, opr : digests, lane : OprChannels, sequence : Nat]

VARIABLES
  drafts,      \* per prepared release id, what its manifest says
  rows,        \* status of every candidate row, by digest
  mapped,      \* rows whose object mappings were stored too
  approvals,   \* release approvals of a row, by digest
  members,     \* the release team
  txns,        \* resolved transactions, by release id
  files,       \* manifest objects in the store, by release id
  pointers,    \* distribution_activation_pointers
  expired      \* release ids whose manifest is past its expiry

releaseVars == <<drafts, rows, mapped, approvals, members, txns, files,
                 pointers, expired>>
vars == <<cohort, artifacts, repo, calls, faults, drafts, rows, mapped, approvals,
          members, txns, files, pointers, expired>>

Digest(id, team) == [id |-> id, team |-> team]
Draft(id) == Digest(id, {})
LaneOf(r) == <<Lane(r), Channel[r]>>
TxnLane(c) == <<"transaction", c>>
Lanes == {LaneOf(r) : r \in Releases} \cup {TxnLane(c) : c \in Channels}
SequenceOf(id) == IF id = Null THEN 0 ELSE drafts[id.id].sequence
TxnSequence(t) == IF t = Null THEN 0 ELSE txns[t].sequence
Signed(d) == d \in DOMAIN rows /\ rows[d] \in {"signed", "active"}
Put(f, k, v) == [x \in DOMAIN f \cup {k} |-> IF x = k THEN v ELSE f[x]]
Goto(h, pc) == calls' = [calls EXCEPT ![h].pc = pc]

(* A request that signs, activates or renews: where it is, the rows it still  *)
(* has to finalize, the row it is signing and the status it read it with; the *)
(* pair to activate, the rows whose pointer moves, the pointers it expects,   *)
(* the cohort scope its gates passed for, and its transaction.                *)
Request ==
  [pc |-> "idle", op |-> "none", todo |-> <<>>, final |-> Null, was |-> "candidate",
   system |-> Null, opr |-> Null, moves |-> {}, expected |-> [l \in {} |-> Null],
   scope |-> Null, txn |-> Null]

-----------------------------------------------------------------------------
(* Preparing a candidate *)

(* What the lane of a release serves on its channel, and what it serves on    *)
(* the stable channel.                                                        *)
ActiveIn(r) == pointers[LaneOf(r)]
StableIn(r) ==
  LET lane == <<Lane(r), Stable>> IN
  IF lane \in Lanes THEN pointers[lane] ELSE Null

(* A maintainer selects the cohort for a release; its repository is prepared  *)
(* on top of what its channel serves, or the stable one if it serves nothing. *)
ParentOf(r) ==
  LET active == IF ActiveIn(r) # Null THEN ActiveIn(r) ELSE StableIn(r)
  IN  IF active = Null THEN Null ELSE active.id

PrepareSelection(h, r) ==
  /\ PrepareRead(h, r, ParentOf(r))
  /\ UNCHANGED releaseVars

(* Every package of a prepared release belongs to the current cohort's lane   *)
(* slice and its stored row; the release lists something of this revision.    *)
OwnedPackages(r) ==
  /\ Prepared(r)
  /\ \E p \in repo[r].packages : p.rev = cohort.rev
  /\ repo[r].packages \subseteq artifacts

(* The gates a cohort passes: an approved phase, a ready condition, and the   *)
(* native qualification a change of the cohort would invalidate.              *)
CohortQualified == cohort.condition = "ready"

(* A stored candidate is valid again: its mappings are complete, its          *)
(* changelog is that of the current revision, and the gates still pass.       *)
Revalidated(d) ==
  /\ d \in mapped
  /\ drafts[d.id].revision = cohort.rev
  /\ CohortQualified
  /\ repo[d.id].packages \subseteq artifacts

(* The later batches compare the cohort's revision, condition and epoch with  *)
(* what they were.  Mutant: the epoch alone.                                  *)
FenceByEpoch(scope) == cohort.epoch = scope.epoch
FenceHolds(scope) == cohort = scope

ManifestOf(r, binds) ==
  [parent |-> pointers[LaneOf(r)],
   sequence |-> SequenceOf(pointers[LaneOf(r)]) + 1,
   binds |-> binds, revision |-> cohort.rev]

(* An OPR manifest names the digest of a signed system manifest.              *)
DraftRead(h, r, binds) ==
  /\ calls[h] = Idle
  /\ IF Lane(r) = "opr"
     THEN binds \in {d \in DOMAIN rows : d.id = Target[r] /\ Signed(d)}
     ELSE binds = Null
  /\ OwnedPackages(r)
  /\ CohortQualified
  /\ calls' = [calls EXCEPT ![h] =
       [pc |-> "store", release |-> r, manifest |-> ManifestOf(r, binds)]]
  /\ UNCHANGED <<repoVars, releaseVars, faults>>

(* The manifest object is stored before its row, and its key is the release   *)
(* id's: whoever comes second, or a retry, has another creation time and so   *)
(* other bytes, and is refused.  The call may die after any of the three.     *)
StoreDraft(h) ==
  /\ calls[h].pc = "store"
  /\ LET r == calls[h].release IN
       /\ End(h)
       /\ IF r \in files
          THEN /\ UNCHANGED <<files, drafts, rows, mapped, approvals>>
               /\ NoFault
          ELSE /\ files' = files \cup {r}
               /\ \E done \in {"object", "row", "mapping"} :
                    /\ IF done = "mapping" THEN NoFault ELSE Fault
                    /\ IF done = "object" THEN UNCHANGED <<drafts, rows, approvals>>
                       ELSE /\ drafts' = Put(drafts, r, calls[h].manifest)
                            /\ rows' = Put(rows, Draft(r), "candidate")
                            /\ approvals' = Put(approvals, Draft(r), {})
                    /\ mapped' = IF done = "mapping" THEN mapped \cup {Draft(r)}
                                 ELSE mapped
  /\ UNCHANGED <<repoVars, members, txns, pointers, expired>>

Approve(a, d) ==
  /\ a \in members
  /\ a \notin approvals[d]
  /\ approvals' = [approvals EXCEPT ![d] = @ \cup {a}]
  /\ IF approvals[d] = {} THEN NoFault ELSE Fault
  /\ UNCHANGED <<repoVars, calls, drafts, rows, mapped, members, txns,
                 files, pointers, expired>>

(* A release team approval that counts: somebody approved this very digest,   *)
(* and everybody who did is still a member.                                   *)
Approved(d) == approvals[d] # {} /\ approvals[d] \subseteq members

-----------------------------------------------------------------------------
(* Signing *)

SignRead(h, d) ==
  /\ calls[h] = Idle
  /\ rows[d] = "candidate"
  /\ pointers[LaneOf(d.id)] = drafts[d.id].parent
  /\ Revalidated(d)
  /\ calls' = [calls EXCEPT ![h] =
       [Request EXCEPT !.pc = "fence", !.op = "sign", !.todo = <<d>>,
                       !.scope = cohort]]
  /\ UNCHANGED <<repoVars, releaseVars, faults>>

SignFence(h) ==
  /\ calls[h].pc = "fence"
  /\ IF FenceHolds(calls[h].scope)
     THEN Goto(h, "finalize")
     ELSE End(h)
  /\ UNCHANGED <<repoVars, releaseVars, faults>>

(* finalizeManifest writes the approving team into the manifest.  A row that  *)
(* has it already is used as it is; otherwise a successor row takes its place.*)
Finalize(h) ==
  /\ calls[h].pc = "finalize"
  /\ LET d == Head(calls[h].todo)
         final == Digest(d.id, approvals[d])
     IN  IF ~Approved(d) THEN End(h)
         ELSE calls' = [calls EXCEPT ![h] =
                [@ EXCEPT !.pc = IF final \in DOMAIN rows THEN "sign" ELSE "succeed",
                          !.final = final,
                          !.was = IF final \in DOMAIN rows THEN rows[final]
                                  ELSE "candidate"]]
  /\ UNCHANGED <<repoVars, releaseVars, faults>>

(* The successor: its row, then its approvals, then its object mappings, then *)
(* the old row is superseded.  Its object key is unique, so of two handlers   *)
(* that write the same successor the later one fails.                         *)
Succeed(h) ==
  /\ calls[h].pc = "succeed"
  /\ LET d == Head(calls[h].todo)
         final == calls[h].final
         steps == {"row", "approvals", "mapping", "all"}
     IN  IF final \in DOMAIN rows
         THEN End(h) /\ NoFault /\ UNCHANGED <<rows, approvals, mapped>>
         ELSE \E done \in steps :
                /\ IF done = "all" THEN NoFault ELSE Fault
                /\ rows' = [Put(rows, final, "candidate") EXCEPT
                     ![d] = IF done = "all" /\ @ = "candidate" THEN "superseded" ELSE @]
                /\ approvals' = Put(approvals, final,
                     IF done = "row" THEN {} ELSE approvals[d])
                /\ mapped' = IF done \in {"mapping", "all"} /\ d \in mapped
                             THEN mapped \cup {final} ELSE mapped
                /\ IF done = "all" THEN Goto(h, "sign") ELSE End(h)
  /\ UNCHANGED <<repoVars, drafts, members, txns, files, pointers, expired>>

(* What a handler does once the row it had to finalize is signed.             *)
Finalized(h) ==
  LET c == calls[h] IN
  IF c.op = "sign" THEN Idle
  ELSE IF Len(c.todo) > 1 THEN [c EXCEPT !.pc = "finalize", !.todo = Tail(@)]
  ELSE [c EXCEPT !.pc = "resolve"]

(* The signer answers, or does not.  One row of a release id may be signed    *)
(* (unique index), and only a row that is still a candidate becomes so.       *)
SignManifest(h) ==
  /\ calls[h].pc = "sign"
  /\ LET d == calls[h].final
         other == \E e \in DOMAIN rows \ {d} : e.id = d.id /\ Signed(e)
     IN  \/ /\ calls[h].was = "signed"
            /\ calls' = [calls EXCEPT ![h] = Finalized(h)]
            /\ UNCHANGED rows /\ NoFault
         \/ /\ calls[h].was # "signed" /\ rows[d] = "candidate" /\ ~other
            /\ rows' = [rows EXCEPT ![d] = "signed"]
            /\ calls' = [calls EXCEPT ![h] = Finalized(h)]
            /\ NoFault
         \/ /\ calls[h].was # "signed" /\ rows[d] = "signed"
            /\ calls' = [calls EXCEPT ![h] = Finalized(h)]
            /\ UNCHANGED rows /\ NoFault
         \/ /\ calls[h].was # "signed"
            /\ IF other \/ rows[d] \notin {"candidate", "signed"} THEN NoFault ELSE Fault
            /\ End(h) /\ UNCHANGED rows
  /\ UNCHANGED <<repoVars, drafts, mapped, approvals, members, txns, files,
                 pointers, expired>>

-----------------------------------------------------------------------------
(* Activation *)

(* The OPR manifest signed for a system manifest; more than one is refused.   *)
LinkedOpr(s) == {d \in DOMAIN rows : d.id \in OprReleases /\ Signed(d)
                                     /\ drafts[d.id].binds = s}

(* The counterpart of a signed row: for an OPR release the active system      *)
(* manifest it names, for a system release the one OPR manifest signed for it,*)
(* which is activated together with it unless it is active.  (A system        *)
(* release that itself names an OPR digest cannot be resolved: the OPR would  *)
(* have to name its digest too.)                                              *)
ActivateRead(h, d) ==
  /\ calls[h] = Idle
  /\ rows[d] = "signed"
  /\ pointers[LaneOf(d.id)] = drafts[d.id].parent
  /\ d.id \notin expired
  /\ Approved(d)
  /\ \E s, o \in DOMAIN rows :
       /\ IF Lane(d.id) = "opr"
          THEN /\ o = d /\ s = drafts[d.id].binds
               /\ rows[s] = "active"
               /\ pointers[LaneOf(s.id)] = s
          ELSE /\ s = d /\ LinkedOpr(d) = {o}
               /\ IF rows[o] = "active" THEN pointers[LaneOf(o.id)] = o
                  ELSE drafts[o.id].parent = pointers[LaneOf(o.id)]
       /\ Channel[s.id] = Stable => Channel[o.id] = Stable
       /\ calls' = [calls EXCEPT ![h] =
            [Request EXCEPT !.pc = "validate", !.op = "activate",
               !.system = s, !.opr = o,
               !.todo = IF s = d /\ rows[o] # "active" THEN <<s, o>> ELSE <<d>>,
               !.moves = IF s = d /\ rows[o] # "active" THEN {s, o} ELSE {d},
               !.expected = [l \in {LaneOf(s.id), LaneOf(o.id)} |-> pointers[l]]]]
  /\ UNCHANGED <<repoVars, releaseVars, faults>>

ActivateValidate(h) ==
  /\ calls[h].pc = "validate"
  /\ IF \A d \in calls[h].moves : Revalidated(d)
     THEN calls' = [calls EXCEPT ![h] =
            [@ EXCEPT !.pc = "finalize", !.scope = cohort]]
     ELSE End(h)
  /\ UNCHANGED <<repoVars, releaseVars, faults>>

(* The transaction for the pair on top of the current one.  The first for a   *)
(* pair has the pair's release id, a later one carries its sequence number.   *)
(* A stored one is used again only under the pair's own id, and only when it  *)
(* still extends the current transaction.  The object is stored before the    *)
(* row, with a creation time, so a key is written once.                       *)
TxnId(s, o, parent) ==
  IF <<s.id, o.id, 0>> \in DOMAIN txns
  THEN <<s.id, o.id, TxnSequence(parent) + 1>> ELSE <<s.id, o.id, 0>>

Reusable(t, parent) ==
  t \in DOMAIN txns /\ t \notin expired /\ txns[t].parent = parent

Resolve(h) ==
  /\ calls[h].pc = "resolve"
  /\ LET c == calls[h]
         lane == TxnLane(Channel[c.system.id])
         parent == pointers[lane]
         base == <<c.system.id, c.opr.id, 0>>
         usable == Reusable(base, parent)
         t == IF usable THEN base ELSE TxnId(c.system, c.opr, parent)
         current == c.op = "renew" /\ parent \notin expired
         refused == current \/ (~usable /\ {c.system.id, c.opr.id} \cap expired # {})
         next == [c EXCEPT !.pc = "signTxn", !.txn = t,
                           !.expected = Put(@, lane, parent)]
     IN  \/ /\ ~refused /\ usable
            /\ drafts[c.opr.id].binds = c.system
            /\ calls' = [calls EXCEPT ![h] = next]
            /\ UNCHANGED <<txns, files>> /\ NoFault
         \/ /\ ~refused /\ ~usable
            /\ drafts[c.opr.id].binds = c.system
            /\ t \notin files
            /\ TxnSequence(parent) < MaxRenew
            /\ files' = files \cup {t}
            /\ txns' = Put(txns, t, [status |-> "candidate", parent |-> parent,
                 sequence |-> TxnSequence(parent) + 1,
                 system |-> c.system, opr |-> c.opr])
            /\ calls' = [calls EXCEPT ![h] = next]
            /\ NoFault
         \/ /\ ~refused /\ ~usable         \* died between the object and the row
            /\ t \notin files
            /\ files' = files \cup {t}
            /\ UNCHANGED txns
            /\ End(h) /\ Fault
         \/ /\ refused \/ (~usable /\ t \in files)
            /\ End(h)
            /\ UNCHANGED <<txns, files>> /\ NoFault
  /\ UNCHANGED <<repoVars, drafts, rows, mapped, approvals, members, pointers,
                 expired>>

SignTransaction(h) ==
  /\ calls[h].pc = "signTxn"
  /\ LET t == calls[h].txn IN
       \/ /\ txns[t].status \in {"candidate", "signed"}
          /\ txns' = [txns EXCEPT ![t].status = "signed"]
          /\ Goto(h, "commit") /\ NoFault
       \/ /\ txns[t].status # "signed"
          /\ IF txns[t].status = "candidate" THEN Fault ELSE NoFault
          /\ End(h) /\ UNCHANGED txns
  /\ UNCHANGED <<repoVars, drafts, rows, mapped, approvals, members, files,
                 pointers, expired>>

(* Mutants: a batch that compares the pointers it moves but not the           *)
(* counterpart's, and two that leave out one of the pointers it moves.        *)
Moved(h, l) == l[1] = "transaction" \/ \E d \in calls[h].moves : LaneOf(d.id) = l

UnchangedOf(h, lanes) ==
  /\ \A l \in lanes : pointers[l] = calls[h].expected[l]
  /\ \A d \in calls[h].moves : rows[d] = "signed"
  /\ txns[calls[h].txn].status = "signed"

UnchangedMoved(h) == UnchangedOf(h, {l \in DOMAIN calls[h].expected : Moved(h, l)})
UnchangedLeaf(h) == UnchangedOf(h, {l \in DOMAIN calls[h].expected : l[1] # "transaction"})

(* The batch: it commits when the cohort scope, every pointer the call read   *)
(* and the statuses are as they were, and does nothing otherwise.             *)
Unchanged(h) ==
  /\ \A l \in DOMAIN calls[h].expected : pointers[l] = calls[h].expected[l]
  /\ \A d \in calls[h].moves : rows[d] = "signed"
  /\ txns[calls[h].txn].status = "signed"

ActivateCommit(h) ==
  /\ calls[h].pc = "commit" /\ calls[h].op = "activate"
  /\ LET c == calls[h]
         lane == TxnLane(Channel[c.system.id])
     IN  IF FenceHolds(c.scope) /\ Unchanged(h) /\ \A d \in c.moves : Prepared(d.id)
         THEN /\ pointers' = [l \in Lanes |->
                   IF l = lane THEN c.txn
                   ELSE IF \E d \in c.moves : LaneOf(d.id) = l
                   THEN CHOOSE d \in c.moves : LaneOf(d.id) = l
                   ELSE pointers[l]]
              /\ rows' = [d \in DOMAIN rows |->
                   IF d \in c.moves THEN "active" ELSE rows[d]]
              /\ txns' = [txns EXCEPT ![c.txn].status = "active"]
              /\ repo' = [r \in Releases |->
                   IF \E d \in c.moves : d.id = r
                   THEN [repo[r] EXCEPT !.stage = "published"] ELSE repo[r]]
         ELSE UNCHANGED <<pointers, rows, txns, repo>>
  /\ End(h)
  /\ UNCHANGED <<cohort, artifacts, faults, drafts, mapped, approvals, members,
                 files, expired>>

-----------------------------------------------------------------------------
(* Renewal: a new transaction for the pair a channel serves.  The transaction *)
(* to extend is read once more before it is built, and one that has not       *)
(* expired is left alone (Resolve).                                           *)
RenewRead(h, c) ==
  /\ calls[h] = Idle
  /\ LET t == pointers[TxnLane(c)] IN
       /\ t # Null
       /\ pointers[<<"system", c>>] = txns[t].system
       /\ rows[txns[t].opr] = "active"
       /\ pointers[LaneOf(txns[t].opr.id)] = txns[t].opr
       /\ calls' = [calls EXCEPT ![h] =
            [Request EXCEPT !.pc = "resolve", !.op = "renew",
               !.system = txns[t].system, !.opr = txns[t].opr,
               !.expected = [l \in {<<"system", c>>, LaneOf(txns[t].opr.id)} |->
                               pointers[l]]]]
  /\ UNCHANGED <<repoVars, releaseVars, faults>>

RenewCommit(h) ==
  /\ calls[h].pc = "commit" /\ calls[h].op = "renew"
  /\ LET c == calls[h] IN
       IF Unchanged(h)
       THEN /\ pointers' = [pointers EXCEPT ![TxnLane(Channel[c.system.id])] = c.txn]
            /\ txns' = [txns EXCEPT ![c.txn].status = "active"]
       ELSE UNCHANGED <<pointers, txns>>
  /\ End(h)
  /\ UNCHANGED <<repoVars, faults, drafts, rows, mapped, approvals, members,
                 files, expired>>

-----------------------------------------------------------------------------
(* The environment: time passes, teams change, a request is abandoned.        *)

(* A transaction expires no later than the manifests it names.                *)
Expire(x) ==
  /\ Fault
  /\ x \in (DOMAIN drafts \cup DOMAIN txns) \ expired
  /\ expired' = expired \cup {x} \cup
       {t \in DOMAIN txns : x \in {txns[t].system.id, txns[t].opr.id}}
  /\ UNCHANGED <<repoVars, calls, drafts, rows, mapped, approvals, members,
                 txns, files, pointers>>

MembersChange(a) ==
  /\ Fault
  /\ members' = IF a \in members THEN members \ {a} ELSE members \cup {a}
  /\ UNCHANGED <<repoVars, calls, drafts, rows, mapped, approvals, txns, files,
                 pointers, expired>>

Crash(h) ==
  /\ calls[h] # Idle
  /\ End(h) /\ Fault
  /\ UNCHANGED <<repoVars, releaseVars>>

RequestStep(h) ==
  \/ \E r \in Releases : PrepareSelection(h, r)
  \/ RepositoryStep(h) /\ UNCHANGED releaseVars
  \/ \E r \in Releases, b \in DOMAIN rows \cup {Null} : DraftRead(h, r, b)
  \/ StoreDraft(h)
  \/ \E d \in DOMAIN rows : SignRead(h, d)
  \/ SignFence(h)
  \/ Finalize(h)
  \/ Succeed(h)
  \/ SignManifest(h)
  \/ \E d \in DOMAIN rows : ActivateRead(h, d)
  \/ ActivateValidate(h)
  \/ Resolve(h)
  \/ SignTransaction(h)
  \/ ActivateCommit(h)
  \/ \E c \in Channels : RenewRead(h, c)
  \/ RenewCommit(h)
  \/ Crash(h)

Next ==
  \/ \E h \in Handlers : RequestStep(h)
  \/ CohortChange /\ UNCHANGED releaseVars
  \/ \E a \in Actors, d \in DOMAIN rows : Approve(a, d)
  \/ \E a \in Actors : MembersChange(a)
  \/ \E x \in DOMAIN drafts \cup DOMAIN txns : Expire(x)

(* A channel starts out with a published pair, prepared from the cohort's     *)
(* first revision; the cohort has moved on to its second and is ready, and    *)
(* the repositories of some releases were prepared from it.                   *)
LaneRecords(v, lane) == {n \in Native[v] : (n.coll = "omapkg") = (lane = "opr")}
FirstPackages(lane) == Merged(LaneRecords(1, lane), {})
ReadyPackages(lane) == Merged(LaneRecords(2, lane), FirstPackages(lane))
FirstSystem == Digest(First[1], FirstTeam)
FirstOpr == Digest(First[2], FirstTeam)
FirstTxn == <<First[1], First[2], 0>>
FirstIn(r) == First[IF Lane(r) = "opr" THEN 2 ELSE 1]

(* The start is one that preparations could leave: both merges are accepted,  *)
(* and what they list under one filename is one stored row.                   *)
ASSUME FirstAssumption ==
  /\ First \in (Releases \ OprReleases) \X OprReleases
  /\ Channel[First[1]] = Stable => Channel[First[2]] = Stable
  /\ \A r \in Ready : Channel[r] # Channel[FirstIn(r)] => Channel[FirstIn(r)] = Stable
  /\ {1, 2} \subseteq DOMAIN Native
  /\ \A lane \in {"system", "opr"} :
       /\ FirstPackages(lane) # {}
       /\ Mergeable(LaneRecords(2, lane), FirstPackages(lane))
       /\ OneRecordEach(FirstPackages(lane)) /\ OneRecordEach(ReadyPackages(lane))
  /\ \A p, q \in UNION {FirstPackages(lane) \cup ReadyPackages(lane) : lane \in {"system", "opr"}} :
       SameFile(p, q) => p = q

Init ==
  /\ cohort = [rev |-> 2, condition |-> "ready", epoch |-> 0]
  /\ repo = [r \in Releases |->
       IF r \in {First[1], First[2]}
       THEN [stage |-> "published", parent |-> Null, packages |-> FirstPackages(Lane(r))]
       ELSE IF r \in Ready
       THEN [stage |-> "prepared", parent |-> FirstIn(r),
             packages |-> ReadyPackages(Lane(r))]
       ELSE Unprepared]
  /\ artifacts = UNION {repo[r].packages : r \in Releases}
  /\ calls = [h \in Handlers |-> Idle]
  /\ faults = 0
  /\ drafts = [r \in {First[1], First[2]} |->
       [parent |-> Null, sequence |-> 1, revision |-> 1,
        binds |-> IF r = First[1] THEN Null ELSE FirstSystem]]
  /\ rows = [d \in {FirstSystem, FirstOpr} |-> "active"]
  /\ mapped = {FirstSystem, FirstOpr}
  /\ approvals = [d \in {FirstSystem, FirstOpr} |-> FirstTeam]
  /\ members = Actors
  /\ txns = [t \in {FirstTxn} |-> [status |-> "active", parent |-> Null,
                sequence |-> 1, system |-> FirstSystem, opr |-> FirstOpr]]
  /\ files = {First[1], First[2], FirstTxn}
  /\ pointers = [l \in Lanes |->
       IF l = LaneOf(First[1]) THEN FirstSystem
       ELSE IF l = LaneOf(First[2]) THEN FirstOpr
       ELSE IF l = TxnLane(Channel[First[1]]) THEN FirstTxn ELSE Null]
  /\ expired = {}

Spec == Init /\ [][Next]_vars

-----------------------------------------------------------------------------
(* Properties *)

(* What a channel serves hangs together: the transaction names the system     *)
(* manifest the channel's system pointer names and an OPR manifest made for   *)
(* it, both active, and every repository behind them is published.            *)
ServedPairIsPublished ==
  \A c \in Channels : pointers[TxnLane(c)] # Null =>
    LET t == txns[pointers[TxnLane(c)]] IN
      /\ t.status = "active"
      /\ t.system = pointers[<<"system", c>>]
      /\ drafts[t.opr.id].binds = t.system
      /\ \A d \in {t.system, t.opr} :
           rows[d] = "active" /\ Served(d.id) # {}

(* The releases a lane ever activated form one chain: no two of them replace  *)
(* the same parent, however many were signed on top of it (the pointer is     *)
(* compared and set in the batch).                                            *)
OneSuccessor ==
  /\ \A d, e \in {x \in DOMAIN rows : rows[x] = "active"} :
       LaneOf(d.id) = LaneOf(e.id) /\ drafts[d.id].parent = drafts[e.id].parent
         => d = e
  /\ \A t, u \in {x \in DOMAIN txns : txns[x].status = "active"} :
       /\ Channel[txns[t].system.id] = Channel[txns[u].system.id]
       /\ txns[t].parent = txns[u].parent
       => t = u

(* A release goes live only while the cohort scope it was qualified for is    *)
(* the current one and ready: a change that lands between the gates and the   *)
(* batch stops the activation (cohortScopeFenceStatements), also one that     *)
(* leaves the scope epoch as it is.                                           *)
ActivatedInScope ==
  [][\A d \in DOMAIN rows' : rows'[d] = "active" /\ (d \in DOMAIN rows => rows[d] # "active") =>
       /\ cohort.condition = "ready"
       /\ drafts[d.id].revision = cohort.rev
       /\ \E p \in repo[d.id].packages : p.rev = cohort.rev]_vars

(* Each channel behaves as one atomic switch between pairs.                   *)
PublishedPair(c) ==
  IF pointers[TxnLane(c)] = Null THEN Null
  ELSE [system |-> txns[pointers[TxnLane(c)]].system,
        opr |-> txns[pointers[TxnLane(c)]].opr,
        lane |-> Channel[txns[pointers[TxnLane(c)]].opr.id],
        sequence |-> txns[pointers[TxnLane(c)]].sequence]

SelectedPairs ==
  {<<drafts[d.id].binds, d>> : d \in {e \in DOMAIN rows : e.id \in OprReleases
                                                          /\ rows[e] = "active"}}

Switch == INSTANCE ChannelSwitch WITH
  published <- [c \in Channels |-> PublishedPair(c)],
  selected <- SelectedPairs

ImplementsSwitch == Switch!Spec

(* What the channel pointers serve is published whole, and each parent has   *)
(* one successor in its lane, however activations interleave.                *)
PublishedIsSound == ServedPairIsPublished /\ OneSuccessor
=============================================================================
