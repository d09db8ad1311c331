---------------------- MODULE DistributionReleaseProofs ----------------------
(* Proofs about DistributionRelease, for any releases, channels, native       *)
(* outputs, handlers and maintainers, and any budget of faults.               *)
(*                                                                            *)
(* Requests act on rows and pointers they read many awaits ago.  What makes   *)
(* that sound is that almost nothing of what they read can change: a draft, a *)
(* prepared repository and a transaction are written once, a signed row stays *)
(* signed, an active one active.  The one thing that moves, the pointer of a  *)
(* lane, is compared in the batch, and moves only to a row made for what it   *)
(* pointed at: the sequence numbers of a lane's releases tell them apart.     *)
EXTENDS DistributionRelease, TLAPS

-----------------------------------------------------------------------------
(* Types *)

OrNull(S) == S \cup {Null}
People == Actors \cup FirstTeam
Digests == [id : Releases, team : SUBSET People]
TxnIds == Releases \X Releases \X Nat
Heads == OrNull(Digests \cup TxnIds)
Statuses == {"candidate", "signed", "active", "superseded"}
Stages == {"none", "partial", "universe", "prepared", "published"}
Packages == UNION {Copies(n) : n \in UNION {Native[v] : v \in DOMAIN Native}}
Repositories ==
  [stage : Stages, parent : OrNull(Releases), packages : SUBSET Packages]
Manifests ==
  [parent : OrNull(Digests), sequence : Nat, binds : OrNull(Digests),
   revision : DOMAIN Native]
Transactions ==
  [status : {"candidate", "signed", "active"}, parent : OrNull(TxnIds),
   sequence : Nat, system : Digests, opr : Digests]

Preparations ==
  [pc : {"artifacts", "snapshots"}, release : Releases,
   parent : OrNull(Releases), records : SUBSET Packages]
Scopes == [rev : DOMAIN Native, condition : {"ready", "blocked", "held"}, epoch : Nat]
Stores == [pc : {"store"}, release : Releases, manifest : Manifests]
Finalizing == {"finalize", "succeed", "sign"}
Expectations == UNION {[S -> Heads] : S \in SUBSET Lanes}
Requests ==
  [pc : {"fence", "validate", "resolve", "signTxn", "commit"} \cup Finalizing,
   op : {"sign", "activate", "renew"},
   todo : Seq(Digests), final : OrNull(Digests), was : Statuses,
   system : OrNull(Digests), opr : OrNull(Digests), moves : SUBSET Digests,
   expected : Expectations,
   scope : OrNull(Scopes), txn : OrNull(TxnIds)]
Calls == {Idle} \cup Preparations \cup Stores \cup Requests

TypeOK ==
  /\ cohort \in Scopes
  /\ artifacts \subseteq Packages
  /\ repo \in [Releases -> Repositories]
  /\ calls \in [Handlers -> Calls]
  /\ DOMAIN drafts \subseteq Releases /\ \A r \in DOMAIN drafts : drafts[r] \in Manifests
  /\ DOMAIN rows \subseteq Digests /\ \A d \in DOMAIN rows : rows[d] \in Statuses
  /\ DOMAIN approvals = DOMAIN rows /\ \A d \in DOMAIN rows : approvals[d] \subseteq People
  /\ DOMAIN txns \subseteq TxnIds /\ \A t \in DOMAIN txns : txns[t] \in Transactions
  /\ pointers \in [Lanes -> Heads]

-----------------------------------------------------------------------------
(* The inductive invariant *)

(* A list that replaces another loses no package and moves none to another    *)
(* collection.                                                                *)
Keeps(new, old) == \A p \in old : \E q \in new : SameName(p, q) /\ p.coll = q.coll

(* What is stored is stored once, and a repository lists stored rows.         *)
RepoInv ==
  /\ \A p, q \in artifacts : SameFile(p, q) => p = q
  /\ \A r \in Releases :
       /\ repo[r].packages \subseteq artifacts
       /\ repo[r].stage # "none" => repo[r].packages # {}
       /\ repo[r].stage # "none" => OneRecordEach(repo[r].packages)
       /\ repo[r].stage # "none" /\ repo[r].parent # Null =>
            /\ repo[repo[r].parent].stage = "published"
            /\ Keeps(repo[r].packages, repo[repo[r].parent].packages)

IsActive(d) == d \in DOMAIN rows /\ rows[d] = "active"

(* A manifest written for release r: its repository is prepared, its parent   *)
(* was live in its lane, and an OPR manifest names a signed system manifest.  *)
SoundDraft(r, m) ==
  /\ Prepared(r)
  /\ \E p \in repo[r].packages : p.rev = m.revision
  /\ m.parent # Null => IsActive(m.parent) /\ LaneOf(m.parent.id) = LaneOf(r)
  /\ m.sequence = SequenceOf(m.parent) + 1
  /\ r \in OprReleases => Signed(m.binds) /\ m.binds.id \notin OprReleases

DraftsInv ==
  /\ DOMAIN drafts \subseteq files
  /\ \A r \in DOMAIN drafts : SoundDraft(r, drafts[r])

(* One row of a release is signed; an active one has its repository           *)
(* published and, if it is an OPR release, its system manifest active.        *)
RowsInv ==
  /\ \A d \in DOMAIN rows : d.id \in DOMAIN drafts
  /\ \A d, e \in DOMAIN rows : Signed(d) /\ Signed(e) /\ d.id = e.id => d = e
  /\ \A d \in DOMAIN rows : rows[d] = "active" =>
       /\ repo[d.id].stage = "published"
       /\ d.id \in OprReleases => IsActive(drafts[d.id].binds)

(* The pointer of a lane names its last active manifest, and no number was    *)
(* used twice.                                                                *)
LanesInv ==
  /\ \A r \in Releases : pointers[LaneOf(r)] # Null =>
       /\ IsActive(pointers[LaneOf(r)])
       /\ LaneOf(pointers[LaneOf(r)].id) = LaneOf(r)
  /\ \A d \in DOMAIN rows : rows[d] = "active" =>
       /\ pointers[LaneOf(d.id)] # Null
       /\ drafts[d.id].sequence <= SequenceOf(pointers[LaneOf(d.id)])
  /\ \A d, e \in DOMAIN rows :
       /\ rows[d] = "active" /\ rows[e] = "active"
       /\ LaneOf(d.id) = LaneOf(e.id)
       /\ drafts[d.id].sequence = drafts[e.id].sequence
       => d = e

ChannelOf(t) == Channel[txns[t].system.id]
IsLive(t) == t \in DOMAIN txns /\ txns[t].status = "active"

SoundTransaction(t) ==
  LET x == txns[t] IN
  /\ Signed(x.system) /\ x.system.id = t[1] /\ x.system.id \notin OprReleases
  /\ Signed(x.opr) /\ x.opr.id = t[2] /\ x.opr.id \in OprReleases
  /\ drafts[x.opr.id].binds = x.system
  /\ x.parent # Null => IsLive(x.parent) /\ ChannelOf(x.parent) = ChannelOf(t)
  /\ x.sequence = TxnSequence(x.parent) + 1
  /\ x.status = "active" => IsActive(x.opr)

TxnsInv ==
  /\ DOMAIN txns \subseteq files
  /\ \A t \in DOMAIN txns : SoundTransaction(t)

(* The pointer of a channel names its last transaction, for the system        *)
(* manifest its system pointer names.                                         *)
ServedInv ==
  /\ \A c \in Channels : pointers[TxnLane(c)] # Null =>
       LET t == pointers[TxnLane(c)] IN
         /\ IsLive(t) /\ ChannelOf(t) = c
         /\ pointers[LaneOf(txns[t].system.id)] = txns[t].system
  /\ \A r \in Releases \ OprReleases :
       pointers[LaneOf(r)] # Null => pointers[TxnLane(Channel[r])] # Null
  /\ \A t \in DOMAIN txns : txns[t].status = "active" =>
       /\ pointers[TxnLane(ChannelOf(t))] # Null
       /\ txns[t].sequence <= TxnSequence(pointers[TxnLane(ChannelOf(t))])
  /\ \A t, u \in DOMAIN txns :
       /\ txns[t].status = "active" /\ txns[u].status = "active"
       /\ ChannelOf(t) = ChannelOf(u)
       /\ txns[t].sequence = txns[u].sequence
       => t = u

-----------------------------------------------------------------------------
(* What the requests in progress have established. *)

PreparationBound(c) ==
  c.pc \in {"artifacts", "snapshots"} =>
    /\ c.records # {} /\ OneRecordEach(c.records)
    /\ c.parent # Null => /\ repo[c.parent].stage = "published"
                          /\ Keeps(c.records, repo[c.parent].packages)
    /\ c.pc = "snapshots" => c.records \subseteq artifacts

StoreBound(c) == c.pc = "store" => SoundDraft(c.release, c.manifest)

TodoBound(c) ==
  /\ c.pc = "fence" => c.op = "sign"
  /\ c.pc = "validate" => c.op = "activate"
  /\ c.pc \in Finalizing => c.op \in {"sign", "activate"}
  /\ c.pc \in {"resolve", "signTxn", "commit"} => c.op \in {"activate", "renew"}
  /\ c.pc \in {"fence", "validate"} \cup Finalizing =>
       /\ c.todo # <<>>
       /\ \A i \in 1..Len(c.todo) : c.todo[i] \in DOMAIN rows
  /\ c.pc \in {"succeed", "sign"} => c.final # Null /\ c.final.id = c.todo[1].id
  /\ c.pc = "sign" => c.final \in DOMAIN rows

HasPair(c) ==
  /\ c.pc \in {"validate", "resolve", "signTxn", "commit"} \cup Finalizing
  /\ c.op \in {"activate", "renew"}

(* The pair hangs together, and what the batch will compare makes each row    *)
(* that becomes active the successor of the one its lane points at.           *)
PairBound(c) ==
  HasPair(c) =>
    /\ Signed(c.system) /\ c.system.id \notin OprReleases
    /\ Signed(c.opr) /\ c.opr.id \in OprReleases
    /\ drafts[c.opr.id].binds = c.system
    /\ {LaneOf(c.system.id), LaneOf(c.opr.id)} \subseteq DOMAIN c.expected
    /\ c.expected[LaneOf(c.opr.id)] =
         IF c.op = "renew" THEN c.opr ELSE drafts[c.opr.id].parent
    /\ c.op = "renew" => c.moves = {} /\ IsActive(c.opr)
    /\ c.op = "activate" => c.moves = {c.opr} \/ c.moves = {c.system, c.opr}
    /\ c.expected[LaneOf(c.system.id)] =
         IF c.system \in c.moves THEN drafts[c.system.id].parent ELSE c.system
    /\ c.system \notin c.moves => IsActive(c.system)

TransactionBound(c) ==
  c.pc \in {"signTxn", "commit"} =>
    /\ c.txn \in DOMAIN txns
    /\ txns[c.txn].system = c.system /\ txns[c.txn].opr = c.opr
    /\ TxnLane(Channel[c.system.id]) \in DOMAIN c.expected
    /\ c.expected[TxnLane(Channel[c.system.id])] = txns[c.txn].parent

(* The scope the batch compares is one the gates pass.                        *)
ScopeBound(c) ==
  HasPair(c) /\ c.op = "activate" /\ c.pc # "validate" =>
    /\ c.scope.condition = "ready"
    /\ \A d \in c.moves : drafts[d.id].revision = c.scope.rev

CallBound(c) ==
  /\ PreparationBound(c) /\ StoreBound(c) /\ TodoBound(c) /\ PairBound(c)
  /\ TransactionBound(c) /\ ScopeBound(c)

CallsBound == \A h \in Handlers : CallBound(calls[h])

ReleaseInv ==
  /\ TypeOK
  /\ RepoInv
  /\ DraftsInv
  /\ RowsInv
  /\ LanesInv
  /\ TxnsInv
  /\ ServedInv
  /\ CallsBound

-----------------------------------------------------------------------------
(* Lanes *)

LEMMA LaneFacts ==
  /\ \A r \in Releases : LaneOf(r) \in Lanes
  /\ \A c \in Channels : TxnLane(c) \in Lanes
  /\ \A r \in Releases, c \in Channels : LaneOf(r) # TxnLane(c)
  /\ \A c, d \in Channels : TxnLane(c) = TxnLane(d) => c = d
  /\ \A r \in Releases \ OprReleases, o \in OprReleases : LaneOf(r) # LaneOf(o)
  /\ \A r, s \in Releases : LaneOf(r) = LaneOf(s) => Channel[r] = Channel[s]
  /\ \A r \in Releases \ OprReleases : Channel[r] \in Channels
  /\ \A r, s \in Releases : LaneOf(r) = LaneOf(s) => (r \in OprReleases <=> s \in OprReleases)
  /\ \A r, s \in Releases \ OprReleases : Channel[r] = Channel[s] => LaneOf(r) = LaneOf(s)
BY ReleaseAssumption, RepositoryAssumption DEF LaneOf, TxnLane, Lanes, Lane

LEMMA NullFacts ==
  /\ Null \notin Releases /\ Null \notin Digests /\ Null \notin TxnIds
  /\ Null \notin [system : Digests, opr : Digests, lane : OprChannels, sequence : Nat]
BY NullAssumption DEF Digests, TxnIds, People

LEMMA DigestFacts ==
  ASSUME NEW r \in Releases, NEW team \in SUBSET People
  PROVE  Digest(r, team) \in Digests /\ Digest(r, team).id = r
BY DEF Digest, Digests

-----------------------------------------------------------------------------
(* What no step undoes. *)

RepoGrows ==
  /\ artifacts \subseteq artifacts'
  /\ \A r \in Releases : repo[r].stage # "none" =>
       /\ repo'[r].packages = repo[r].packages
       /\ repo[r].stage = "published" => repo'[r].stage = "published"
       /\ Prepared(r) => repo'[r].stage \in {"prepared", "published"}

RowsGrow ==
  /\ \A r \in DOMAIN drafts : r \in DOMAIN drafts' /\ drafts'[r] = drafts[r]
  /\ \A d \in DOMAIN rows :
       /\ d \in DOMAIN rows'
       /\ rows[d] = "active" => rows'[d] = "active"
       /\ rows[d] = "signed" => rows'[d] \in {"signed", "active"}

TxnsGrow ==
  \A t \in DOMAIN txns :
    /\ t \in DOMAIN txns'
    /\ txns[t].status = "active" => txns'[t].status = "active"
    /\ txns'[t].parent = txns[t].parent /\ txns'[t].sequence = txns[t].sequence
    /\ txns'[t].system = txns[t].system /\ txns'[t].opr = txns[t].opr

Grows == RepoGrows /\ RowsGrow /\ TxnsGrow

LEMMA SignedStays ==
  ASSUME RowsGrow
  PROVE  /\ \A d : Signed(d) => Signed(d)'
         /\ \A d : IsActive(d) => IsActive(d)'
BY DEF RowsGrow, Signed, IsActive

LEMMA SequenceStays ==
  ASSUME RowsInv, RowsGrow
  PROVE  \A d : d = Null \/ d \in DOMAIN rows => SequenceOf(d)' = SequenceOf(d)
BY DEF RowsInv, RowsGrow, SequenceOf

LEMMA TxnSequenceStays ==
  ASSUME TxnsGrow
  PROVE  \A t : t = Null \/ t \in DOMAIN txns => TxnSequence(t)' = TxnSequence(t)
BY DEF TxnsGrow, TxnSequence

LEMMA DraftStays ==
  ASSUME RowsInv, RepoGrows, RowsGrow
  PROVE  \A r \in Releases : \A m : SoundDraft(r, m) => SoundDraft(r, m)'
<1> SUFFICES ASSUME NEW r \in Releases, NEW m, SoundDraft(r, m)
             PROVE  SoundDraft(r, m)'
    OBVIOUS
<1>1. Prepared(r)' /\ repo'[r].packages = repo[r].packages
    BY DEF SoundDraft, Prepared, RepoGrows
<1>2. m.parent # Null => IsActive(m.parent)' /\ LaneOf(m.parent.id) = LaneOf(r)
    BY SignedStays DEF SoundDraft
<1>3. SequenceOf(m.parent)' = SequenceOf(m.parent)
    BY SequenceStays DEF SoundDraft, IsActive
<1>4. r \in OprReleases => Signed(m.binds)' /\ m.binds.id \notin OprReleases
    BY SignedStays DEF SoundDraft
<1> QED BY <1>1, <1>2, <1>3, <1>4 DEF SoundDraft

LEMMA DraftAt ==
  ASSUME RowsInv, RepoGrows, RowsGrow, NEW r \in Releases, SoundDraft(r, drafts'[r])
  PROVE  SoundDraft(r, drafts[r])'
<1>1. \A m : SoundDraft(r, m) => SoundDraft(r, m)'
    BY DraftStays
<1>2. PICK m : m = drafts'[r]
    OBVIOUS
<1>3. SoundDraft(r, m)'
    BY <1>1, <1>2
<1> QED BY <1>2, <1>3 DEF SoundDraft

LEMMA TransactionStays ==
  ASSUME RowsInv, RowsGrow, TxnsGrow, NEW t \in DOMAIN txns, SoundTransaction(t),
         txns[t].parent # Null => txns[t].parent \in DOMAIN txns,
         txns'[t].status = "active" => IsActive(txns[t].opr)'
  PROVE  SoundTransaction(t)'
<1>1. /\ txns'[t].parent = txns[t].parent /\ txns'[t].sequence = txns[t].sequence
      /\ txns'[t].system = txns[t].system /\ txns'[t].opr = txns[t].opr
    BY DEF TxnsGrow
<1>2. Signed(txns[t].system) /\ Signed(txns[t].opr)
    BY DEF SoundTransaction
<1>3. Signed(txns[t].system)' /\ Signed(txns[t].opr)'
    BY <1>1, <1>2, SignedStays
<1>4. drafts'[txns[t].opr.id] = drafts[txns[t].opr.id]
    BY <1>2 DEF RowsInv, RowsGrow, Signed
<1>5. txns[t].parent # Null =>
        IsLive(txns[t].parent)' /\ ChannelOf(txns[t].parent)' = ChannelOf(txns[t].parent)
    BY DEF SoundTransaction, IsLive, ChannelOf, TxnsGrow
<1>6. ChannelOf(t)' = ChannelOf(t)
    BY <1>1 DEF ChannelOf
<1>7. TxnSequence(txns[t].parent)' = TxnSequence(txns[t].parent)
    BY <1>1, TxnSequenceStays
<1> QED BY <1>1, <1>3, <1>4, <1>5, <1>6, <1>7 DEF SoundTransaction

(* A request that waits keeps what it has established.                        *)
LEMMA CallTyped ==
  ASSUME TypeOK, NEW g \in Handlers
  PROVE  /\ calls[g].pc \in {"artifacts", "snapshots"} => calls[g] \in Preparations
         /\ calls[g].pc = "store" => calls[g] \in Stores
         /\ calls[g].pc \in {"fence", "validate", "resolve", "signTxn", "commit"} \cup Finalizing
              => calls[g] \in Requests
<1>1. calls[g] \in Calls
    BY DEF TypeOK
<1> QED BY <1>1 DEF Calls, Preparations, Stores, Requests, Finalizing, Idle

LEMMA TodoStays ==
  ASSUME Grows, NEW c, TodoBound(c)
  PROVE  TodoBound(c)'
<1>1. \A d \in DOMAIN rows : d \in DOMAIN rows'
    BY DEF Grows, RowsGrow
<1> QED BY <1>1 DEF TodoBound

LEMMA PairStays ==
  ASSUME RowsInv, Grows, cohort' = cohort, NEW c, PairBound(c), ScopeBound(c)
  PROVE  PairBound(c)' /\ ScopeBound(c)'
<1> SUFFICES ASSUME HasPair(c) PROVE PairBound(c)' /\ ScopeBound(c)'
    BY DEF PairBound, ScopeBound, HasPair
<1>1. Signed(c.system)' /\ Signed(c.opr)'
    BY SignedStays DEF PairBound, Grows
<1>2. drafts'[c.opr.id] = drafts[c.opr.id] /\ drafts'[c.system.id] = drafts[c.system.id]
    BY DEF PairBound, RowsInv, Grows, RowsGrow, Signed
<1>3. /\ IsActive(c.opr) => IsActive(c.opr)'
      /\ IsActive(c.system) => IsActive(c.system)'
    BY SignedStays DEF Grows
<1>4. PairBound(c)'
    BY <1>1, <1>2, <1>3 DEF PairBound
<1>5. c.op = "activate" => \A d \in c.moves : drafts'[d.id] = drafts[d.id]
    BY <1>2 DEF PairBound
<1>6. ScopeBound(c)'
    BY <1>5 DEF ScopeBound, HasPair
<1> QED BY <1>4, <1>6

LEMMA TransactionBoundStays ==
  ASSUME Grows, NEW c, TransactionBound(c)
  PROVE  TransactionBound(c)'
BY DEF TransactionBound, Grows, TxnsGrow

LEMMA BoundStays ==
  ASSUME ReleaseInv, Grows, cohort' = cohort, NEW g \in Handlers, calls'[g] = calls[g]
  PROVE  CallBound(calls[g])'
<1>1. PICK c : c = calls[g]
    OBVIOUS
<1>2. CallBound(c)
    BY <1>1 DEF ReleaseInv, CallsBound
<1>3. PreparationBound(c)'
    <2> SUFFICES ASSUME c.pc \in {"artifacts", "snapshots"} PROVE PreparationBound(c)'
        BY DEF PreparationBound
    <2>1. c \in Preparations
        BY <1>1, CallTyped DEF ReleaseInv
    <2>2. c.parent # Null => c.parent \in Releases
        BY <2>1 DEF Preparations, OrNull
    <2>3. PreparationBound(c)
        BY <1>2 DEF CallBound
    <2> QED BY <2>2, <2>3 DEF PreparationBound, Grows, RepoGrows
<1>4. StoreBound(c)'
    <2> SUFFICES ASSUME c.pc = "store" PROVE StoreBound(c)'
        BY DEF StoreBound
    <2>1. c.release \in Releases
        BY <1>1, CallTyped DEF ReleaseInv, Stores
    <2>2. SoundDraft(c.release, c.manifest)
        BY <1>2 DEF CallBound, StoreBound
    <2> QED BY <2>1, <2>2, DraftStays DEF StoreBound, Grows, ReleaseInv
<1>5. TodoBound(c)' /\ PairBound(c)' /\ ScopeBound(c)' /\ TransactionBound(c)'
    BY <1>2, TodoStays, PairStays, TransactionBoundStays DEF CallBound, ReleaseInv
<1>6. CallBound(c)'
    BY <1>3, <1>4, <1>5 DEF CallBound
<1>7. calls'[g] = c
    BY <1>1
<1> QED BY <1>6, <1>7 DEF CallBound, PreparationBound, StoreBound, TodoBound, PairBound,
           TransactionBound, ScopeBound

(* A step of one request, with what it brings about for that request.         *)
LEMMA CallMoves ==
  ASSUME ReleaseInv, Grows, cohort' = cohort, NEW h \in Handlers, NEW c \in Calls,
         calls' = [calls EXCEPT ![h] = c], CallBound(calls[h])'
  PROVE  calls' \in [Handlers -> Calls] /\ CallsBound'
<1>1. calls' \in [Handlers -> Calls] /\ \A g \in Handlers \ {h} : calls'[g] = calls[g]
    BY DEF ReleaseInv, TypeOK
<1>2. ASSUME NEW g \in Handlers PROVE CallBound(calls[g])'
    <2>1. CASE g = h
        BY <2>1
    <2>2. CASE g # h
        BY <1>1, <2>2, BoundStays
    <2> QED BY <2>1, <2>2
<1> QED BY <1>1, <1>2 DEF CallsBound

-----------------------------------------------------------------------------
(* Steps that write nothing but the record of a request. *)

data == <<cohort, artifacts, repo, drafts, rows, approvals, txns, files, pointers>>
StateInv == RepoInv /\ DraftsInv /\ RowsInv /\ LanesInv /\ TxnsInv /\ ServedInv

LEMMA SameData ==
  ASSUME UNCHANGED data
  PROVE  /\ \A d : Signed(d)' <=> Signed(d)
         /\ \A d : IsActive(d)' <=> IsActive(d)
         /\ \A r : Prepared(r)' <=> Prepared(r)
         /\ \A d : SequenceOf(d)' = SequenceOf(d)
         /\ \A t : TxnSequence(t)' = TxnSequence(t)
         /\ \A t : ChannelOf(t)' = ChannelOf(t)
         /\ \A t : IsLive(t)' <=> IsLive(t)
         /\ \A r, m : SoundDraft(r, m)' <=> SoundDraft(r, m)
BY DEF data, Signed, IsActive, Prepared, SequenceOf, TxnSequence, ChannelOf, IsLive, SoundDraft

LEMMA StateKept ==
  ASSUME StateInv, UNCHANGED data
  PROVE  StateInv'
<1>1. RepoInv' /\ DraftsInv'
    BY SameData DEF StateInv, RepoInv, DraftsInv, data
<1>2. RowsInv' /\ LanesInv'
    BY SameData DEF StateInv, RowsInv, LanesInv, data
<1>3. TxnsInv'
    BY SameData DEF StateInv, TxnsInv, SoundTransaction, data
<1>4. ServedInv'
    BY SameData DEF StateInv, ServedInv, data
<1> QED BY <1>1, <1>2, <1>3, <1>4 DEF StateInv

LEMMA BoundKept ==
  ASSUME UNCHANGED data
  PROVE  \A c : CallBound(c)' <=> CallBound(c)
<1> SUFFICES ASSUME NEW c PROVE CallBound(c)' <=> CallBound(c)
    OBVIOUS
<1>1. PreparationBound(c)' <=> PreparationBound(c)
    BY DEF PreparationBound, data
<1>2. (StoreBound(c)' <=> StoreBound(c)) /\ (TodoBound(c)' <=> TodoBound(c))
    BY SameData DEF StoreBound, TodoBound, data
<1>3. PairBound(c)' <=> PairBound(c)
    BY SameData DEF PairBound, data
<1>4. (TransactionBound(c)' <=> TransactionBound(c)) /\ (ScopeBound(c)' <=> ScopeBound(c))
    BY DEF TransactionBound, ScopeBound, data
<1> QED BY <1>1, <1>2, <1>3, <1>4 DEF CallBound

LEMMA SameGrows ==
  ASSUME UNCHANGED data, TypeOK
  PROVE  Grows
BY DEF data, Grows, RepoGrows, RowsGrow, TxnsGrow, Prepared

LEMMA CallsOnly ==
  ASSUME ReleaseInv, UNCHANGED data, NEW h \in Handlers, NEW c \in Calls,
         calls' = [calls EXCEPT ![h] = c], CallBound(c)
  PROVE  ReleaseInv'
<1>1. StateInv'
    BY StateKept DEF ReleaseInv, StateInv
<1>2. calls'[h] = c
    BY DEF ReleaseInv, TypeOK
<1>3. CallBound(calls[h])'
    <2>1. CallBound(c)'
        BY BoundKept
    <2>2. /\ PreparationBound(calls[h])' /\ StoreBound(calls[h])'
          /\ TodoBound(calls[h])'
        BY <1>2, <2>1 DEF CallBound, PreparationBound, StoreBound, TodoBound
    <2>3. HasPair(calls[h])' <=> HasPair(c)'
        BY <1>2 DEF HasPair
    <2>4. PairBound(calls[h])'
        BY <1>2, <2>1, <2>3 DEF CallBound, PairBound
    <2>5. TransactionBound(calls[h])'
        BY <1>2, <2>1 DEF CallBound, TransactionBound
    <2>6. ScopeBound(calls[h])'
        BY <1>2, <2>1, <2>3 DEF CallBound, ScopeBound
    <2> QED BY <2>2, <2>4, <2>5, <2>6 DEF CallBound
<1>4. calls' \in [Handlers -> Calls] /\ CallsBound'
    BY <1>3, SameGrows, CallMoves DEF data, ReleaseInv
<1>5. TypeOK'
    BY <1>4 DEF ReleaseInv, TypeOK, data
<1> QED BY <1>1, <1>4, <1>5 DEF ReleaseInv, StateInv

LEMMA IdleBound == Idle \in Calls /\ CallBound(Idle)
BY DEF Idle, Calls, CallBound, PreparationBound, StoreBound, TodoBound, PairBound,
       TransactionBound, ScopeBound, HasPair, Finalizing

LEMMA CallEnds ==
  ASSUME ReleaseInv, UNCHANGED data, NEW h \in Handlers, End(h)
  PROVE  ReleaseInv'
BY IdleBound, CallsOnly DEF End

(* Bounds of a record that signs, activates or renews. *)
LEMMA RequestBound ==
  ASSUME NEW c \in Requests, TodoBound(c), PairBound(c), TransactionBound(c),
         ScopeBound(c)
  PROVE  CallBound(c)
BY DEF CallBound, PreparationBound, StoreBound, Requests, Finalizing

LEMMA EmptyExpectation == [l \in {} |-> Null] \in Expectations
<1>1. [l \in {} |-> Null] \in [{} -> Heads]
    OBVIOUS
<1> QED BY <1>1 DEF Expectations

LEMMA SignReadKeeps ==
  ASSUME ReleaseInv, NEW h \in Handlers, NEW d \in DOMAIN rows, SignRead(h, d)
  PROVE  ReleaseInv'
<1> DEFINE c == [Request EXCEPT !.pc = "fence", !.op = "sign", !.todo = <<d>>,
                                !.scope = cohort]
<1>1. d \in Digests /\ cohort \in Scopes
    BY DEF ReleaseInv, TypeOK
<1>2. <<d>> \in Seq(Digests)
    BY <1>1
<1>3. /\ c \in Requests /\ c.pc = "fence" /\ c.op = "sign" /\ c.todo = <<d>>
    BY <1>1, <1>2, EmptyExpectation DEF Request, Requests, OrNull, Statuses, Finalizing
<1> HIDE DEF c
<1>4. CallBound(c)
    <2>1. ~HasPair(c)
        BY <1>3 DEF HasPair, Finalizing
    <2>2. TodoBound(c)
        BY <1>3 DEF TodoBound, Finalizing
    <2>3. PairBound(c) /\ TransactionBound(c) /\ ScopeBound(c)
        BY <1>3, <2>1 DEF PairBound, TransactionBound, ScopeBound
    <2> QED BY <1>3, <2>2, <2>3, RequestBound
<1>5. UNCHANGED data /\ calls' = [calls EXCEPT ![h] = c]
    BY DEF SignRead, data, repoVars, releaseVars, c
<1> QED BY <1>3, <1>4, <1>5, CallsOnly DEF Calls

(* The facts about the record a request has, in its own terms. *)
LEMMA CallFacts ==
  ASSUME ReleaseInv, NEW h \in Handlers
  PROVE  /\ CallBound(calls[h])
         /\ calls[h].pc \in {"fence", "validate", "resolve", "signTxn", "commit"} \cup Finalizing
              => calls[h] \in Requests
BY CallTyped DEF ReleaseInv, CallsBound

LEMMA SignFenceKeeps ==
  ASSUME ReleaseInv, NEW h \in Handlers, SignFence(h)
  PROVE  ReleaseInv'
<1>1. UNCHANGED data
    BY DEF SignFence, data, repoVars, releaseVars
<1>2. CASE FenceHolds(calls[h].scope)
    <2> DEFINE c == [calls[h] EXCEPT !.pc = "finalize"]
    <2>1. calls[h] \in Requests /\ TodoBound(calls[h]) /\ calls[h].pc = "fence"
        BY CallFacts DEF SignFence, CallBound
    <2>2. /\ c \in Requests /\ c.pc = "finalize" /\ c.op = "sign"
          /\ c.todo = calls[h].todo
        BY <2>1 DEF Requests, Finalizing, TodoBound
    <2>3. calls' = [calls EXCEPT ![h] = c]
        BY <1>2 DEF SignFence, Goto
    <2> HIDE DEF c
    <2>4. CallBound(c)
        BY <2>1, <2>2, RequestBound DEF TodoBound, PairBound, HasPair, TransactionBound,
           ScopeBound, Finalizing
    <2> QED BY <1>1, <2>2, <2>3, <2>4, CallsOnly DEF Calls
<1>3. CASE ~FenceHolds(calls[h].scope)
    BY <1>1, <1>3, CallEnds DEF SignFence
<1> QED BY <1>2, <1>3

LEMMA FinalizeKeeps ==
  ASSUME ReleaseInv, NEW h \in Handlers, Finalize(h)
  PROVE  ReleaseInv'
<1> DEFINE b == calls[h]
           d == Head(b.todo)
           final == Digest(d.id, approvals[d])
           pc == IF final \in DOMAIN rows THEN "sign" ELSE "succeed"
           was == IF final \in DOMAIN rows THEN rows[final] ELSE "candidate"
           c == [b EXCEPT !.pc = pc, !.final = final, !.was = was]
<1>1. UNCHANGED data
    BY DEF Finalize, data, repoVars, releaseVars
<1>2. CASE ~Approved(d)
    BY <1>1, <1>2, CallEnds DEF Finalize
<1>3. CASE Approved(d)
    <2>1. b \in Requests /\ CallBound(b) /\ b.pc = "finalize"
        BY CallFacts DEF Finalize, Finalizing
    <2>2. TodoBound(b) /\ PairBound(b) /\ ScopeBound(b)
        BY <2>1 DEF CallBound
    <2>3. d = b.todo[1] /\ d \in DOMAIN rows
        BY <2>1, <2>2 DEF TodoBound, Requests, Finalizing
    <2>4. d.id \in Releases /\ approvals[d] \in SUBSET People
        BY <2>3 DEF ReleaseInv, TypeOK, Digests
    <2>5. final \in Digests /\ final.id = d.id
        BY <2>4, DigestFacts
    <2>6. was \in Statuses
        BY DEF ReleaseInv, TypeOK, Statuses
    <2>7. calls' = [calls EXCEPT ![h] = c]
        BY <1>3 DEF Finalize
    <2>8. final # Null
        BY <2>5, NullFacts
    <2>9. pc \in {"sign", "succeed"} /\ (pc = "sign" => final \in DOMAIN rows)
        OBVIOUS
    <2> HIDE DEF final, was, pc
    <2>10. /\ c \in Requests /\ c.pc = pc /\ c.final = final /\ c.op = b.op
           /\ c.todo = b.todo /\ c.system = b.system /\ c.opr = b.opr
           /\ c.moves = b.moves /\ c.expected = b.expected /\ c.scope = b.scope
        BY <2>1, <2>5, <2>6, <2>9 DEF Requests, Finalizing, OrNull
    <2> HIDE DEF c, d, b
    <2>11. TodoBound(c)
        BY <2>1, <2>2, <2>3, <2>5, <2>8, <2>9, <2>10 DEF TodoBound, Finalizing
    <2>12. PairBound(c) /\ TransactionBound(c) /\ ScopeBound(c)
        BY <2>1, <2>2, <2>9, <2>10 DEF PairBound, HasPair, TransactionBound, ScopeBound, Finalizing
    <2>13. CallBound(c)
        BY <2>10, <2>11, <2>12, RequestBound
    <2> QED BY <1>1, <2>7, <2>10, <2>13, CallsOnly DEF Calls
<1> QED BY <1>2, <1>3

LEMMA ActivateValidateKeeps ==
  ASSUME ReleaseInv, NEW h \in Handlers, ActivateValidate(h)
  PROVE  ReleaseInv'
<1> DEFINE b == calls[h]
           c == [b EXCEPT !.pc = "finalize", !.scope = cohort]
<1>1. UNCHANGED data
    BY DEF ActivateValidate, data, repoVars, releaseVars
<1>2. CASE ~\A d \in b.moves : Revalidated(d)
    BY <1>1, <1>2, CallEnds DEF ActivateValidate
<1>3. CASE \A d \in b.moves : Revalidated(d)
    <2>1. b \in Requests /\ TodoBound(b) /\ PairBound(b) /\ b.pc = "validate"
        BY CallFacts DEF ActivateValidate, CallBound
    <2>2. cohort \in Scopes
        BY DEF ReleaseInv, TypeOK
    <2>3. /\ c \in Requests /\ c.pc = "finalize" /\ c.op = "activate" /\ b.op = "activate"
          /\ c.todo = b.todo /\ c.system = b.system /\ c.opr = b.opr
          /\ c.moves = b.moves /\ c.expected = b.expected /\ c.scope = cohort
        BY <2>1, <2>2 DEF Requests, OrNull, Finalizing, TodoBound
    <2>4. calls' = [calls EXCEPT ![h] = c]
        BY <1>3 DEF ActivateValidate
    <2> HIDE DEF c
    <2>5. TodoBound(c) /\ TransactionBound(c)
        BY <2>1, <2>3 DEF TodoBound, TransactionBound, Finalizing
    <2>6. PairBound(c)
        BY <2>1, <2>3 DEF PairBound, HasPair, Finalizing
    <2>7. c.moves # {}
        BY <2>3, <2>6 DEF PairBound, HasPair, Finalizing
    <2>8. ScopeBound(c)
        BY <1>3, <2>2, <2>3, <2>7 DEF ScopeBound, Revalidated, CohortQualified
    <2>9. CallBound(c)
        BY <2>3, <2>5, <2>6, <2>8, RequestBound
    <2> QED BY <1>1, <2>3, <2>4, <2>9, CallsOnly DEF Calls
<1> QED BY <1>2, <1>3

LEMMA LaneHead ==
  ASSUME ReleaseInv, NEW r \in Releases
  PROVE  /\ pointers[LaneOf(r)] \in OrNull(DOMAIN rows)
         /\ pointers[LaneOf(r)] \in OrNull(Digests)
         /\ SequenceOf(pointers[LaneOf(r)]) \in Nat
<1>1. pointers[LaneOf(r)] \in OrNull(DOMAIN rows)
    BY DEF ReleaseInv, LanesInv, IsActive, OrNull
<1>2. pointers[LaneOf(r)] # Null => drafts[pointers[LaneOf(r)].id].sequence \in Nat
    BY <1>1 DEF ReleaseInv, RowsInv, TypeOK, Manifests, OrNull
<1> QED BY <1>1, <1>2 DEF ReleaseInv, TypeOK, OrNull, SequenceOf

LEMMA DraftReadKeeps ==
  ASSUME ReleaseInv, NEW h \in Handlers, NEW r \in Releases,
         NEW binds \in DOMAIN rows \cup {Null}, DraftRead(h, r, binds)
  PROVE  ReleaseInv'
<1> DEFINE m == ManifestOf(r, binds)
           c == [pc |-> "store", release |-> r, manifest |-> m]
<1>1. UNCHANGED data /\ calls' = [calls EXCEPT ![h] = c]
    BY DEF DraftRead, data, repoVars, releaseVars
<1>2. binds \in OrNull(Digests) /\ cohort.rev \in DOMAIN Native
    BY DEF ReleaseInv, TypeOK, Scopes, OrNull
<1>3. m \in Manifests
    BY <1>2, LaneHead DEF ManifestOf, Manifests
<1>4. /\ m.parent = pointers[LaneOf(r)] /\ m.sequence = SequenceOf(pointers[LaneOf(r)]) + 1
      /\ m.binds = binds /\ m.revision = cohort.rev
    BY DEF ManifestOf
<1> HIDE DEF m
<1>5. m.parent # Null => IsActive(m.parent) /\ LaneOf(m.parent.id) = LaneOf(r)
    BY <1>4 DEF ReleaseInv, LanesInv
<1>6. r \in OprReleases => Signed(binds) /\ binds.id \notin OprReleases
    BY ReleaseAssumption DEF DraftRead, Lane
<1>7. SoundDraft(r, m)
    BY <1>4, <1>5, <1>6 DEF SoundDraft, DraftRead, OwnedPackages
<1>8. c \in Calls /\ c.pc = "store" /\ c.release = r /\ c.manifest = m
    BY <1>3 DEF Calls, Stores
<1> HIDE DEF c
<1>9. CallBound(c)
    BY <1>7, <1>8 DEF CallBound, PreparationBound, StoreBound, TodoBound, PairBound,
       HasPair, TransactionBound, ScopeBound, Finalizing
<1> QED BY <1>1, <1>8, <1>9, CallsOnly

LEMMA PointerTyped ==
  ASSUME TypeOK, NEW S \in SUBSET Lanes
  PROVE  [l \in S |-> pointers[l]] \in Expectations
BY DEF TypeOK, Expectations

(* Of a signed system manifest no OPR manifest is active yet.                 *)
LEMMA ActivateReadKeeps ==
  ASSUME ReleaseInv, NEW h \in Handlers, NEW d \in DOMAIN rows, ActivateRead(h, d)
  PROVE  ReleaseInv'
<1>1. PICK s \in DOMAIN rows, o \in DOMAIN rows :
        /\ IF Lane(d.id) = "opr"
           THEN /\ o = d /\ s = drafts[d.id].binds
                /\ rows[s] = "active"
                /\ pointers[LaneOf(s.id)] = s
           ELSE /\ s = d /\ LinkedOpr(d) = {o}
                /\ IF rows[o] = "active" THEN pointers[LaneOf(o.id)] = o
                   ELSE drafts[o.id].parent = pointers[LaneOf(o.id)]
        /\ calls' = [calls EXCEPT ![h] =
             [Request EXCEPT !.pc = "validate", !.op = "activate",
                !.system = s, !.opr = o,
                !.todo = IF s = d /\ rows[o] # "active" THEN <<s, o>> ELSE <<d>>,
                !.moves = IF s = d /\ rows[o] # "active" THEN {s, o} ELSE {d},
                !.expected = [l \in {LaneOf(s.id), LaneOf(o.id)} |-> pointers[l]]]]
    BY DEF ActivateRead
<1>2. /\ UNCHANGED data /\ rows[d] = "signed"
      /\ pointers[LaneOf(d.id)] = drafts[d.id].parent
    BY DEF ActivateRead, data, repoVars, releaseVars
<1> DEFINE both == s = d /\ rows[o] # "active"
           todo == IF both THEN <<s, o>> ELSE <<d>>
           moves == IF both THEN {s, o} ELSE {d}
           expected == [l \in {LaneOf(s.id), LaneOf(o.id)} |-> pointers[l]]
           c == [Request EXCEPT !.pc = "validate", !.op = "activate", !.system = s,
                   !.opr = o, !.todo = todo, !.moves = moves, !.expected = expected]
<1>3. {s, o, d} \subseteq Digests /\ {s.id, o.id, d.id} \subseteq Releases
    BY DEF ReleaseInv, TypeOK, Digests
<1>4. /\ expected \in Expectations
      /\ DOMAIN expected = {LaneOf(s.id), LaneOf(o.id)}
      /\ expected[LaneOf(s.id)] = pointers[LaneOf(s.id)]
      /\ expected[LaneOf(o.id)] = pointers[LaneOf(o.id)]
    BY <1>3, LaneFacts, PointerTyped DEF ReleaseInv
<1>5. todo \in Seq(Digests) /\ todo # <<>> /\ \A i \in 1..Len(todo) : todo[i] \in DOMAIN rows
    BY <1>3
<1>6. /\ Signed(s) /\ s.id \notin OprReleases
      /\ Signed(o) /\ o.id \in OprReleases
      /\ drafts[o.id].binds = s
    <2>1. CASE Lane(d.id) = "opr"
        <3>1. d.id \in OprReleases /\ d.id \in DOMAIN drafts
            BY <2>1 DEF Lane, ReleaseInv, RowsInv
        <3>2. SoundDraft(d.id, drafts[d.id])
            BY <3>1 DEF ReleaseInv, DraftsInv
        <3> QED BY <1>1, <1>2, <2>1, <3>1, <3>2 DEF SoundDraft, Signed
    <2>2. CASE Lane(d.id) # "opr"
        <3>1. d.id \notin OprReleases /\ s = d /\ o \in LinkedOpr(d)
            BY <1>1, <2>2 DEF Lane
        <3> QED BY <1>2, <3>1 DEF LinkedOpr, Signed
    <2> QED BY <2>1, <2>2
<1>7. s # d => o = d /\ rows[s] = "active" /\ pointers[LaneOf(s.id)] = s
    BY <1>1
<1>8. s = d => both /\ drafts[o.id].parent = pointers[LaneOf(o.id)]
    <2> SUFFICES ASSUME s = d PROVE both /\ drafts[o.id].parent = pointers[LaneOf(o.id)]
        OBVIOUS
    <2>1. rows[o] # "active"
        BY <1>2, <1>6 DEF ReleaseInv, RowsInv, IsActive
    <2>2. Lane(d.id) # "opr"
        BY <1>6 DEF Lane
    <2> QED BY <1>1, <2>1, <2>2
<1> HIDE DEF expected, todo
<1>9. /\ c \in Requests /\ c.pc = "validate" /\ c.op = "activate" /\ c.system = s
      /\ c.opr = o /\ c.todo = todo /\ c.moves = moves /\ c.expected = expected
    BY <1>3, <1>4, <1>5 DEF Request, Requests, OrNull, Statuses
<1>10. calls' = [calls EXCEPT ![h] = c]
    BY <1>1 DEF todo, expected
<1> HIDE DEF c
<1>11. TodoBound(c) /\ TransactionBound(c) /\ ScopeBound(c)
    BY <1>5, <1>9 DEF TodoBound, TransactionBound, ScopeBound, Finalizing
<1>12. PairBound(c)
    <2>1. CASE s = d
        <3>1. c.moves = {s, o} /\ s # o
            BY <1>6, <1>8, <1>9, <2>1
        <3> QED BY <1>2, <1>4, <1>6, <1>8, <1>9, <2>1, <3>1 DEF PairBound
    <2>2. CASE s # d
        <3>1. c.moves = {o} /\ o = d
            BY <1>7, <1>9, <2>2
        <3> QED BY <1>2, <1>4, <1>6, <1>7, <1>9, <2>2, <3>1 DEF PairBound, IsActive
    <2> QED BY <2>1, <2>2
<1>13. CallBound(c)
    BY <1>9, <1>11, <1>12, RequestBound
<1> QED BY <1>2, <1>9, <1>10, <1>13, CallsOnly DEF Calls

LEMMA RenewReadKeeps ==
  ASSUME ReleaseInv, NEW h \in Handlers, NEW ch \in Channels, RenewRead(h, ch)
  PROVE  ReleaseInv'
<1> DEFINE t == pointers[TxnLane(ch)]
           s == txns[t].system
           o == txns[t].opr
           expected == [l \in {<<"system", ch>>, LaneOf(o.id)} |-> pointers[l]]
           c == [Request EXCEPT !.pc = "resolve", !.op = "renew", !.system = s,
                   !.opr = o, !.expected = expected]
<1>1. /\ UNCHANGED data /\ t # Null
      /\ pointers[<<"system", ch>>] = s
      /\ rows[o] = "active" /\ pointers[LaneOf(o.id)] = o
      /\ calls' = [calls EXCEPT ![h] = c]
    BY DEF RenewRead, data, repoVars, releaseVars
<1>2. IsLive(t) /\ ChannelOf(t) = ch
    BY <1>1 DEF ReleaseInv, ServedInv
<1>3. SoundTransaction(t)
    BY <1>2 DEF ReleaseInv, TxnsInv, IsLive
<1>4. s \in Digests /\ o \in Digests /\ s.id \in Releases /\ o.id \in Releases
    BY <1>2 DEF IsLive, ReleaseInv, TypeOK, Transactions, Digests
<1>5. /\ Signed(s) /\ s.id \notin OprReleases /\ Signed(o) /\ o.id \in OprReleases
      /\ drafts[o.id].binds = s /\ IsActive(o)
    BY <1>2, <1>3 DEF SoundTransaction, IsLive
<1>6. <<"system", ch>> = LaneOf(s.id)
    BY <1>2, <1>5 DEF ChannelOf, LaneOf, Lane
<1>7. IsActive(s)
    BY <1>1, <1>4, <1>6, NullFacts DEF ReleaseInv, LanesInv
<1>8. /\ expected \in Expectations
      /\ DOMAIN expected = {LaneOf(s.id), LaneOf(o.id)}
      /\ expected[LaneOf(s.id)] = s
      /\ expected[LaneOf(o.id)] = o
    <2> DEFINE served == {LaneOf(s.id), LaneOf(o.id)}
    <2>1. served \subseteq Lanes
        BY <1>4, LaneFacts
    <2>2. expected = [l \in served |-> pointers[l]]
        BY <1>6
    <2>3. pointers[LaneOf(s.id)] = s /\ pointers[LaneOf(o.id)] = o
        BY <1>1, <1>6
    <2> HIDE DEF expected, s, o, t
    <2>4. /\ DOMAIN expected = served
          /\ expected[LaneOf(s.id)] = s /\ expected[LaneOf(o.id)] = o
        BY <2>2, <2>3
    <2>5. expected \in Expectations
        BY <1>4, <2>1, <2>2, PointerTyped DEF ReleaseInv
    <2> QED BY <2>4, <2>5
<1> HIDE DEF expected, s, o, t
<1>9. /\ c \in Requests /\ c.pc = "resolve" /\ c.op = "renew" /\ c.system = s
      /\ c.opr = o /\ c.moves = {} /\ c.expected = expected
    <2>1. <<>> \in Seq(Digests)
        OBVIOUS
    <2> QED BY <1>4, <1>8, <2>1 DEF Request, Requests, OrNull, Statuses
<1> HIDE DEF c
<1>10. TodoBound(c) /\ TransactionBound(c) /\ ScopeBound(c)
    BY <1>9 DEF TodoBound, TransactionBound, ScopeBound, Finalizing
<1>11. PairBound(c)
    BY <1>5, <1>7, <1>8, <1>9 DEF PairBound
<1>12. CallBound(c)
    BY <1>9, <1>10, <1>11, RequestBound
<1> QED BY <1>1, <1>9, <1>12, CallsOnly DEF Calls

(* A step that ends its request, whatever it writes.                          *)
LEMMA EndStep ==
  ASSUME ReleaseInv, Grows, cohort' = cohort, NEW h \in Handlers, End(h)
  PROVE  calls' \in [Handlers -> Calls] /\ CallsBound'
<1>1. CallBound(calls[h])'
    BY DEF End, ReleaseInv, TypeOK, CallBound, PreparationBound, StoreBound, TodoBound,
       PairBound, HasPair, TransactionBound, ScopeBound, Finalizing, Idle
<1> QED BY <1>1, IdleBound, CallMoves DEF End

-----------------------------------------------------------------------------
(* Steps that write: what they leave alone. *)

(* No manifest and no transaction becomes active, and no pointer moves.       *)
LEMMA QuietStep ==
  ASSUME ReleaseInv, Grows, pointers' = pointers,
         \A d : IsActive(d)' => IsActive(d),
         \A t : IsLive(t)' => IsLive(t)
  PROVE  LanesInv' /\ ServedInv'
<1>1. \A d \in DOMAIN rows : d.id \in DOMAIN drafts /\ drafts'[d.id] = drafts[d.id]
    BY DEF ReleaseInv, RowsInv, Grows, RowsGrow
<1>2. \A d : IsActive(d)' <=> IsActive(d)
    BY SignedStays DEF Grows
<1>3. \A r \in Releases : SequenceOf(pointers[LaneOf(r)])' = SequenceOf(pointers[LaneOf(r)])
    BY LaneHead, SequenceStays DEF ReleaseInv, Grows, OrNull
<1>4. LanesInv'
    BY <1>1, <1>2, <1>3 DEF ReleaseInv, LanesInv, IsActive, TypeOK, Digests
<1>5. \A t : IsLive(t)' <=> IsLive(t)
    BY DEF Grows, TxnsGrow, IsLive
<1>6. \A t \in DOMAIN txns :
        /\ txns'[t].system = txns[t].system /\ txns'[t].sequence = txns[t].sequence
        /\ ChannelOf(t)' = ChannelOf(t)
    BY DEF Grows, TxnsGrow, ChannelOf
<1>7. \A c \in Channels : TxnSequence(pointers[TxnLane(c)])' = TxnSequence(pointers[TxnLane(c)])
    BY TxnSequenceStays DEF ReleaseInv, ServedInv, IsLive, Grows
<1>8. \A t \in DOMAIN txns : txns[t].status = "active" => ChannelOf(t) \in Channels
    <2> SUFFICES ASSUME NEW t \in DOMAIN txns PROVE ChannelOf(t) \in Channels
        OBVIOUS
    <2>1. txns[t].system \in Digests /\ txns[t].system.id \notin OprReleases
        BY DEF ReleaseInv, TypeOK, TxnsInv, SoundTransaction, Transactions
    <2> QED BY <2>1, LaneFacts DEF ChannelOf, Digests
<1>9. ServedInv'
    <2>1. \A c \in Channels : pointers[TxnLane(c)] # Null =>
            LET t == pointers[TxnLane(c)] IN
              /\ IsLive(t)' /\ ChannelOf(t)' = c
              /\ pointers[LaneOf(txns'[t].system.id)] = txns'[t].system
        BY <1>5, <1>6 DEF ReleaseInv, ServedInv, IsLive
    <2>2. \A t \in DOMAIN txns' : txns'[t].status = "active" =>
            /\ t \in DOMAIN txns /\ txns[t].status = "active"
            /\ txns'[t].sequence = txns[t].sequence /\ ChannelOf(t)' = ChannelOf(t)
            /\ TxnSequence(pointers[TxnLane(ChannelOf(t))])' = TxnSequence(pointers[TxnLane(ChannelOf(t))])
        BY <1>5, <1>6, <1>7, <1>8 DEF IsLive
    <2> QED BY <2>1, <2>2 DEF ReleaseInv, ServedInv
<1> QED BY <1>4, <1>9

LEMMA DraftsKept ==
  ASSUME ReleaseInv, Grows, files \subseteq files', DOMAIN drafts' = DOMAIN drafts
  PROVE  DraftsInv'
<1>1. \A r \in DOMAIN drafts : r \in Releases /\ drafts'[r] = drafts[r]
    BY DEF ReleaseInv, TypeOK, Grows, RowsGrow
<1>2. \A r \in DOMAIN drafts : SoundDraft(r, drafts[r])'
    BY <1>1, DraftStays DEF ReleaseInv, DraftsInv, Grows
<1> QED BY <1>1, <1>2 DEF DraftsInv, ReleaseInv

LEMMA TxnsKept ==
  ASSUME ReleaseInv, Grows, files \subseteq files', DOMAIN txns' = DOMAIN txns,
         \A t : IsLive(t)' => IsLive(t)
  PROVE  TxnsInv'
<1> SUFFICES ASSUME NEW t \in DOMAIN txns PROVE SoundTransaction(t)'
    BY DEF TxnsInv, ReleaseInv
<1>1. SoundTransaction(t)
    BY DEF ReleaseInv, TxnsInv
<1>2. txns[t].parent # Null => txns[t].parent \in DOMAIN txns
    BY <1>1 DEF SoundTransaction, IsLive
<1>3. txns'[t].status = "active" => IsActive(txns[t].opr)
    BY <1>1 DEF SoundTransaction, IsLive
<1>4. txns'[t].status = "active" => IsActive(txns[t].opr)'
    <2>1. txns'[t].opr = txns[t].opr
        BY DEF Grows, TxnsGrow
    <2> QED BY <1>3, <2>1, SignedStays DEF Grows
<1> QED BY <1>1, <1>2, <1>4, TransactionStays DEF ReleaseInv, Grows

LEMMA LiveSame ==
  ASSUME txns' = txns
  PROVE  (\A t : IsLive(t)' => IsLive(t)) /\ TxnsGrow
BY DEF IsLive, TxnsGrow

LEMMA RowsSame ==
  ASSUME rows' = rows, drafts' = drafts
  PROVE  (\A d : IsActive(d)' => IsActive(d)) /\ RowsGrow
BY DEF IsActive, RowsGrow

(* The rows are as they were, and what is published stays so.                 *)
LEMMA RowsKept ==
  ASSUME ReleaseInv, Grows, rows' = rows, drafts' = drafts
  PROVE  RowsInv'
<1>1. \A d \in DOMAIN rows : d.id \in Releases /\ d.id \in DOMAIN drafts
    BY DEF ReleaseInv, TypeOK, RowsInv, Digests
<1>2. \A d \in DOMAIN rows : repo[d.id].stage = "published" => repo'[d.id].stage = "published"
    BY <1>1 DEF Grows, RepoGrows
<1>3. \A d : IsActive(d)' <=> IsActive(d)
    BY DEF IsActive
<1>4. \A d : Signed(d)' <=> Signed(d)
    BY DEF Signed
<1> QED BY <1>1, <1>2, <1>3, <1>4 DEF ReleaseInv, RowsInv

-----------------------------------------------------------------------------
(* Preparation *)

LEMMA MergedFacts ==
  ASSUME NEW current \in SUBSET UNION {Native[v] : v \in DOMAIN Native},
         NEW trusted \in SUBSET Packages, Mergeable(current, trusted)
  PROVE  /\ Merged(current, trusted) \subseteq Packages
         /\ Keeps(Merged(current, trusted), trusted)
         /\ current # {} => Merged(current, trusted) # {}
<1> DEFINE new == UNION {Copies(r) : r \in current}
           pick(m) == CHOOSE n \in new : SameName(n, m)
           merged == {p \in trusted : \A n \in new : ~SameName(n, p)}
                       \cup {pick(m) : m \in new}
<1>1. Merged(current, trusted) = merged
    BY DEF Merged
<1>2. new \subseteq Packages
    BY DEF Packages
<1>3. \A m \in new : pick(m) \in new /\ SameName(pick(m), m)
    BY DEF SameName
<1>4. \A n \in new, p \in trusted : SameName(n, p) => n.coll = p.coll
    BY DEF Mergeable
<1>5. Keeps(merged, trusted)
    <2> SUFFICES ASSUME NEW p \in trusted
                 PROVE  \E q \in merged : SameName(p, q) /\ p.coll = q.coll
        BY DEF Keeps
    <2>1. CASE \A n \in new : ~SameName(n, p)
        BY <2>1 DEF SameName
    <2>2. CASE \E n \in new : SameName(n, p)
        <3>1. PICK n \in new : SameName(n, p)
            BY <2>2
        <3>2. pick(n) \in merged /\ pick(n) \in new /\ SameName(pick(n), n)
            BY <1>3
        <3>3. SameName(pick(n), p)
            BY <3>1, <3>2 DEF SameName
        <3>4. SameName(p, pick(n)) /\ p.coll = pick(n).coll
            BY <1>4, <3>2, <3>3 DEF SameName
        <3> QED BY <3>2, <3>4
    <2> QED BY <2>1, <2>2
<1>6. current # {} => new # {}
    <2> SUFFICES ASSUME NEW r \in current PROVE \E n : n \in Copies(r)
        OBVIOUS
    <2>1. r.target \in Targets
        BY RepositoryAssumption
    <2>2. CASE r.any
        <3>1. [r EXCEPT !.target = r.target] \in Copies(r)
            BY <2>1, <2>2 DEF Copies
        <3> QED BY <3>1
    <2>3. CASE ~r.any
        <3>1. r \in Copies(r)
            BY <2>3 DEF Copies
        <3> QED BY <3>1
    <2> QED BY <2>2, <2>3
<1>7. new # {} => merged # {}
    <2> SUFFICES ASSUME NEW m \in new PROVE pick(m) \in merged
        OBVIOUS
    <2> QED OBVIOUS
<1> QED BY <1>1, <1>2, <1>3, <1>5, <1>6, <1>7

LEMMA PrepareSelectionKeeps ==
  ASSUME ReleaseInv, NEW h \in Handlers, NEW r \in Releases, PrepareSelection(h, r)
  PROVE  ReleaseInv'
<1> DEFINE parent == ParentOf(r)
           current == CurrentRecords(Lane(r))
           trusted == TrustedRecords(parent)
           merged == Merged(current, trusted)
           c == [pc |-> "artifacts", release |-> r, parent |-> parent, records |-> merged]
<1>1. /\ UNCHANGED data /\ calls' = [calls EXCEPT ![h] = c]
      /\ current # {} \/ parent # Null
      /\ parent # Null => repo[parent].stage = "published"
      /\ Mergeable(current, trusted) /\ OneRecordEach(merged)
    BY DEF PrepareSelection, PrepareRead, data, repoVars, releaseVars
<1>2. parent \in OrNull(Releases)
    <2>1. \A l \in Lanes : l[1] # "transaction" => pointers[l] \in OrNull(Digests)
        BY LaneHead, LaneFacts DEF Lanes, TxnLane
    <2>2. ActiveIn(r) \in OrNull(Digests)
        BY LaneHead DEF ActiveIn
    <2>3. StableIn(r) \in OrNull(Digests)
        <3>1. CASE <<Lane(r), Stable>> \in Lanes
            BY <2>1, <3>1 DEF StableIn, Lane
        <3>2. CASE <<Lane(r), Stable>> \notin Lanes
            BY <3>2 DEF StableIn, OrNull
        <3> QED BY <3>1, <3>2
    <2> QED BY <2>2, <2>3 DEF ParentOf, OrNull, Digests
<1>3. cohort.rev \in DOMAIN Native
    BY DEF ReleaseInv, TypeOK, Scopes
<1>4. current \in SUBSET UNION {Native[v] : v \in DOMAIN Native}
    BY <1>3 DEF CurrentRecords, NativeOutputs
<1>5. parent # Null => repo[parent].packages \subseteq Packages /\ repo[parent].packages # {}
    BY <1>1, <1>2 DEF ReleaseInv, TypeOK, RepoInv, OrNull
<1>6. trusted = IF parent = Null THEN {} ELSE repo[parent].packages
    BY DEF TrustedRecords
<1> HIDE DEF parent, current, trusted, merged
<1>7. trusted \in SUBSET Packages
    BY <1>5, <1>6
<1>8. merged \subseteq Packages /\ Keeps(merged, trusted) /\ (current # {} => merged # {})
    BY <1>1, <1>4, <1>7, MergedFacts DEF merged
<1>9. merged # {}
    BY <1>1, <1>5, <1>6, <1>8 DEF Keeps
<1>10. /\ c \in Calls /\ c.pc = "artifacts" /\ c.parent = parent /\ c.records = merged
    BY <1>2, <1>8 DEF Calls, Preparations
<1> HIDE DEF c
<1>11. PreparationBound(c)
    BY <1>1, <1>6, <1>8, <1>9, <1>10 DEF PreparationBound
<1>12. CallBound(c)
    BY <1>10, <1>11 DEF CallBound, StoreBound, TodoBound, PairBound, HasPair,
       TransactionBound, ScopeBound, Finalizing
<1> QED BY <1>1, <1>10, <1>12, CallsOnly

LEMMA PreparationCall ==
  ASSUME ReleaseInv, NEW h \in Handlers, calls[h].pc \in {"artifacts", "snapshots"}
  PROVE  /\ calls[h] \in Preparations /\ PreparationBound(calls[h])
         /\ calls[h].release \in Releases /\ calls[h].records \subseteq Packages
BY CallTyped, CallFacts DEF ReleaseInv, CallBound, Preparations

(* The stored row of a record has its name, its file and its collection.      *)
LEMMA RowFacts ==
  ASSUME NEW rec, \A a \in Stored(rec) : SameArtifact(a, rec)
  PROVE  /\ SameName(Row(rec), rec) /\ SameFile(Row(rec), rec) /\ Row(rec).coll = rec.coll
         /\ Stored(rec) = {} => Row(rec) = rec
         /\ Stored(rec) # {} => Row(rec) \in artifacts
<1>1. CASE Stored(rec) = {}
    BY <1>1 DEF Row, SameName, SameFile
<1>2. CASE Stored(rec) # {}
    <2>1. Row(rec) \in Stored(rec)
        BY <1>2 DEF Row
    <2> QED BY <1>2, <2>1 DEF Stored, SameArtifact, SameName, SameFile
<1> QED BY <1>1, <1>2

(* Whatever part of the new records is stored, a file is stored once.         *)
LEMMA ArtifactsGrow ==
  ASSUME ReleaseInv, NEW records \in SUBSET Packages, OneRecordEach(records),
         NEW some \in SUBSET {r \in records : Stored(r) = {}},
         artifacts' = artifacts \cup some, UNCHANGED <<cohort, repo, releaseVars>>
  PROVE  /\ Grows /\ StateInv' /\ artifacts' \subseteq Packages
<1>1. Grows
    BY DEF Grows, RepoGrows, RowsGrow, TxnsGrow, Prepared, releaseVars
<1>2. RepoInv'
    <2>1. \A p \in artifacts, q \in some : ~SameFile(p, q)
        BY DEF Stored
    <2>2. \A p \in artifacts, q \in some : ~SameFile(q, p)
        BY <2>1 DEF SameFile
    <2>3. \A p, q \in some : SameFile(p, q) => p = q
        BY DEF OneRecordEach
    <2> QED BY <2>1, <2>2, <2>3 DEF ReleaseInv, RepoInv
<1>3. DraftsInv' /\ RowsInv' /\ TxnsInv' /\ LanesInv' /\ ServedInv'
    BY <1>1, DraftsKept, RowsKept, TxnsKept, QuietStep, LiveSame, RowsSame DEF releaseVars
<1> QED BY <1>1, <1>2, <1>3 DEF StateInv, ReleaseInv, TypeOK

LEMMA PersistArtifactsKeeps ==
  ASSUME ReleaseInv, NEW h \in Handlers, PersistArtifacts(h), UNCHANGED releaseVars
  PROVE  ReleaseInv'
<1> DEFINE b == calls[h]
           refused == {r \in b.records : \E a \in Stored(r) : ~SameArtifact(a, r)}
           new == {r \in b.records : Stored(r) = {}}
           list == {Row(r) : r \in b.records}
           c == [b EXCEPT !.pc = "snapshots", !.records = list]
<1>1. /\ b \in Preparations /\ PreparationBound(b) /\ b.records \subseteq Packages
      /\ b.pc = "artifacts" /\ UNCHANGED <<cohort, repo>>
    BY PreparationCall DEF PersistArtifacts
<1>2. b.records # {} /\ OneRecordEach(b.records)
    BY <1>1 DEF PreparationBound
<1>3. CASE /\ refused = {} /\ artifacts' = artifacts \cup new
           /\ calls' = [calls EXCEPT ![h] = c]
    <2>1. Grows /\ StateInv' /\ artifacts' \subseteq Packages
        BY <1>1, <1>2, <1>3, ArtifactsGrow
    <2>2. \A r \in b.records : \A a \in Stored(r) : SameArtifact(a, r)
        BY <1>3
    <2>3. \A r \in b.records :
            SameName(Row(r), r) /\ SameFile(Row(r), r) /\ Row(r).coll = r.coll
        BY <2>2, RowFacts
    <2>4. \A r \in b.records : Row(r) \in artifacts'
        BY <1>3, <2>2, RowFacts
    <2>5. list # {} /\ list \subseteq artifacts'
        BY <1>2, <2>4
    <2>6. OneRecordEach(list)
        <3> SUFFICES ASSUME NEW r \in b.records, NEW s \in b.records,
                            SameName(Row(r), Row(s)) \/ SameFile(Row(r), Row(s))
                     PROVE  Row(r) = Row(s)
            BY DEF OneRecordEach
        <3>1. SameName(r, s) \/ SameFile(r, s)
            BY <2>3 DEF SameName, SameFile
        <3> QED BY <1>2, <3>1 DEF OneRecordEach
    <2>7. b.parent # Null => /\ repo'[b.parent].stage = "published"
                             /\ Keeps(list, repo'[b.parent].packages)
        <3> SUFFICES ASSUME b.parent # Null
                     PROVE  /\ repo'[b.parent].stage = "published"
                            /\ Keeps(list, repo'[b.parent].packages)
            OBVIOUS
        <3>1. /\ repo[b.parent].stage = "published"
              /\ Keeps(b.records, repo[b.parent].packages)
            BY <1>1 DEF PreparationBound
        <3>2. \A p \in repo[b.parent].packages : \E q \in b.records :
                SameName(p, Row(q)) /\ p.coll = Row(q).coll
            BY <2>3, <3>1 DEF Keeps, SameName
        <3> QED BY <1>1, <3>1, <3>2 DEF Keeps
    <2> HIDE DEF list
    <2>8. /\ c \in Calls /\ c.pc = "snapshots" /\ c.parent = b.parent /\ c.records = list
        BY <1>1, <2>1, <2>5 DEF Preparations, Calls
    <2> HIDE DEF c, b
    <2>9. calls'[h] = c
        BY <1>3 DEF ReleaseInv, TypeOK
    <2>10. PreparationBound(calls[h])'
        BY <2>5, <2>6, <2>7, <2>8, <2>9 DEF PreparationBound
    <2>11. CallBound(calls[h])'
        BY <2>8, <2>9, <2>10 DEF CallBound, StoreBound, TodoBound, PairBound, HasPair,
           TransactionBound, ScopeBound, Finalizing
    <2>12. calls' \in [Handlers -> Calls] /\ CallsBound'
        BY <1>1, <1>3, <2>1, <2>8, <2>9, <2>11, CallMoves
    <2>13. TypeOK'
        BY <1>1, <2>1, <2>12 DEF ReleaseInv, TypeOK, releaseVars
    <2> QED BY <2>1, <2>12, <2>13 DEF ReleaseInv, StateInv
<1>4. ASSUME NEW some \in SUBSET new, artifacts' = artifacts \cup some, End(h)
      PROVE  ReleaseInv'
    <2>1. Grows /\ StateInv' /\ artifacts' \subseteq Packages
        BY <1>1, <1>2, <1>4, ArtifactsGrow
    <2>2. calls' \in [Handlers -> Calls] /\ CallsBound'
        BY <1>1, <1>4, <2>1, EndStep
    <2>3. TypeOK'
        BY <1>1, <2>1, <2>2 DEF ReleaseInv, TypeOK, releaseVars
    <2> QED BY <2>1, <2>2, <2>3 DEF ReleaseInv, StateInv
<1> QED BY <1>1, <1>3, <1>4 DEF PersistArtifacts

LEMMA StoreRepositoryKeeps ==
  ASSUME ReleaseInv, NEW h \in Handlers, StoreRepository(h), UNCHANGED releaseVars
  PROVE  ReleaseInv'
<1> DEFINE b == calls[h]
           r == b.release
<1>1. /\ b \in Preparations /\ PreparationBound(b) /\ b.records \subseteq Packages
      /\ r \in Releases /\ b.pc = "snapshots" /\ UNCHANGED <<cohort, artifacts>> /\ End(h)
    BY PreparationCall DEF StoreRepository
<1>2. CASE repo[r].stage # "none"
    <2>1. UNCHANGED data
        BY <1>1, <1>2 DEF StoreRepository, data, releaseVars
    <2> QED BY <1>1, <2>1, CallEnds
<1>3. CASE repo[r].stage = "none"
    <2>1. PICK done \in {"partial", "universe", "prepared"} :
            repo' = [repo EXCEPT ![r] =
              [stage |-> done, parent |-> b.parent, packages |-> b.records]]
        BY <1>3 DEF StoreRepository
    <2>2. /\ repo'[r].stage = done /\ repo'[r].parent = b.parent
          /\ repo'[r].packages = b.records
          /\ \A s \in Releases \ {r} : repo'[s] = repo[s]
        BY <1>1, <2>1 DEF ReleaseInv, TypeOK
    <2>3. b.parent \in OrNull(Releases)
        BY <1>1 DEF Preparations
    <2>4. repo' \in [Releases -> Repositories]
        BY <1>1, <2>1, <2>3 DEF ReleaseInv, TypeOK, Repositories, Stages
    <2>5. Grows
        BY <1>1, <1>3, <2>2 DEF Grows, RepoGrows, RowsGrow, TxnsGrow, Prepared, releaseVars
    <2>6. \A s \in Releases : repo[s].stage = "published" => repo'[s] = repo[s]
        BY <1>3, <2>2
    <2>7. RepoInv'
        <3>1. \A p, q \in artifacts' : SameFile(p, q) => p = q
            BY <1>1 DEF ReleaseInv, RepoInv
        <3>2. ASSUME NEW s \in Releases, s # r
              PROVE  /\ repo'[s].packages \subseteq artifacts'
                     /\ repo'[s].stage # "none" => repo'[s].packages # {}
                     /\ repo'[s].stage # "none" => OneRecordEach(repo'[s].packages)
                     /\ repo'[s].stage # "none" /\ repo'[s].parent # Null =>
                          /\ repo'[repo'[s].parent].stage = "published"
                          /\ Keeps(repo'[s].packages, repo'[repo'[s].parent].packages)
            <4>1. repo'[s] = repo[s]
                BY <2>2, <3>2
            <4>2. repo[s].parent # Null => repo[s].parent \in Releases
                BY DEF ReleaseInv, TypeOK, Repositories, OrNull
            <4> QED BY <1>1, <2>6, <4>1, <4>2 DEF ReleaseInv, RepoInv
        <3>3. /\ repo'[r].packages \subseteq artifacts'
              /\ repo'[r].packages # {} /\ OneRecordEach(repo'[r].packages)
              /\ repo'[r].parent # Null =>
                   /\ repo'[repo'[r].parent].stage = "published"
                   /\ Keeps(repo'[r].packages, repo'[repo'[r].parent].packages)
            BY <1>1, <2>2, <2>3, <2>6 DEF PreparationBound, OrNull
        <3> QED BY <3>1, <3>2, <3>3 DEF RepoInv
    <2>8. DraftsInv' /\ RowsInv' /\ TxnsInv' /\ LanesInv' /\ ServedInv'
        BY <2>5, DraftsKept, RowsKept, TxnsKept, QuietStep, LiveSame, RowsSame DEF releaseVars
    <2>9. calls' \in [Handlers -> Calls] /\ CallsBound'
        BY <1>1, <2>5, EndStep
    <2>10. TypeOK'
        BY <1>1, <2>4, <2>9 DEF ReleaseInv, TypeOK, releaseVars
    <2> QED BY <2>7, <2>8, <2>9, <2>10 DEF ReleaseInv
<1> QED BY <1>2, <1>3

-----------------------------------------------------------------------------
(* Storing a manifest *)

LEMMA StoreDraftKeeps ==
  ASSUME ReleaseInv, NEW h \in Handlers, StoreDraft(h)
  PROVE  ReleaseInv'
<1> DEFINE r == calls[h].release
           m == calls[h].manifest
<1>1. /\ calls[h] \in Stores /\ r \in Releases /\ m \in Manifests
      /\ SoundDraft(r, m)
    BY CallTyped, CallFacts DEF StoreDraft, ReleaseInv, Stores, CallBound, StoreBound
<1>2. /\ End(h) /\ UNCHANGED <<cohort, artifacts, repo, members, txns, pointers, expired>>
    BY DEF StoreDraft, repoVars
<1>3. CASE UNCHANGED <<drafts, rows, approvals>> /\ files' = files
    BY <1>2, <1>3, CallEnds DEF data
<1>4. CASE UNCHANGED <<drafts, rows, approvals>> /\ files' = files \cup {r}
    <2>1. Grows
        BY <1>2, <1>4 DEF Grows, RepoGrows, RowsGrow, TxnsGrow, Prepared
    <2>2. RepoInv'
        BY <1>2 DEF ReleaseInv, RepoInv
    <2>3. DraftsInv' /\ RowsInv' /\ TxnsInv' /\ LanesInv' /\ ServedInv'
        BY <1>2, <1>4, <2>1, DraftsKept, RowsKept, TxnsKept, QuietStep, LiveSame, RowsSame
    <2>4. calls' \in [Handlers -> Calls] /\ CallsBound'
        BY <1>2, <2>1, EndStep
    <2>5. TypeOK'
        BY <1>2, <1>4, <2>4 DEF ReleaseInv, TypeOK
    <2> QED BY <2>2, <2>3, <2>4, <2>5 DEF ReleaseInv
<1>5. CASE /\ r \notin files /\ files' = files \cup {r}
           /\ drafts' = Put(drafts, r, m)
           /\ rows' = Put(rows, Draft(r), "candidate")
           /\ approvals' = Put(approvals, Draft(r), {})
    <2>1. r \notin DOMAIN drafts
        BY <1>5 DEF ReleaseInv, DraftsInv
    <2>2. Draft(r) \in Digests /\ Draft(r).id = r
        BY <1>1, DigestFacts DEF Draft
    <2>3. \A d \in DOMAIN rows : d.id \in DOMAIN drafts /\ d.id # r /\ d # Draft(r)
        BY <2>1, <2>2 DEF ReleaseInv, RowsInv
    <2>4. /\ DOMAIN drafts' = DOMAIN drafts \cup {r} /\ drafts'[r] = m
          /\ \A s \in DOMAIN drafts : drafts'[s] = drafts[s]
        BY <1>5, <2>1 DEF Put
    <2>5. /\ DOMAIN rows' = DOMAIN rows \cup {Draft(r)} /\ rows'[Draft(r)] = "candidate"
          /\ \A d \in DOMAIN rows : rows'[d] = rows[d]
        BY <1>5, <2>3 DEF Put
    <2>6. Grows
        BY <1>2, <2>4, <2>5 DEF Grows, RepoGrows, RowsGrow, TxnsGrow, Prepared
    <2>7. (\A d : IsActive(d)' => IsActive(d)) /\ (\A d : Signed(d)' => Signed(d) /\ d \in DOMAIN rows)
        BY <2>5 DEF IsActive, Signed
    <2>8. RepoInv'
        BY <1>2 DEF ReleaseInv, RepoInv
    <2>9. DraftsInv'
        <3>1. \A s \in DOMAIN drafts : SoundDraft(s, drafts[s])
            BY DEF ReleaseInv, DraftsInv
        <3>2. \A s \in DOMAIN drafts : s \in Releases
            BY DEF ReleaseInv, TypeOK
        <3>3. \A s \in DOMAIN drafts' : SoundDraft(s, drafts[s])'
            <4> SUFFICES ASSUME NEW s \in DOMAIN drafts' PROVE SoundDraft(s, drafts[s])'
                OBVIOUS
            <4>1. CASE s = r
                <5>1. s \in Releases /\ SoundDraft(s, drafts'[s])
                    BY <1>1, <2>4, <4>1
                <5> QED BY <2>6, <5>1, DraftAt DEF ReleaseInv, Grows
            <4>2. CASE s # r
                <5>1. s \in DOMAIN drafts /\ drafts'[s] = drafts[s] /\ s \in Releases
                    BY <2>4, <3>2, <4>2
                <5>2. SoundDraft(s, drafts'[s])
                    BY <3>1, <5>1
                <5> QED BY <2>6, <5>1, <5>2, DraftAt DEF ReleaseInv, Grows
            <4> QED BY <4>1, <4>2
        <3>4. DOMAIN drafts' \subseteq files'
            BY <1>5, <2>4 DEF ReleaseInv, DraftsInv
        <3> QED BY <3>3, <3>4 DEF DraftsInv
    <2>10. RowsInv'
        <3>1. \A d \in DOMAIN rows : d.id \in DOMAIN drafts /\ drafts'[d.id] = drafts[d.id]
            BY <2>3, <2>4
        <3>2. \A d : IsActive(d) => IsActive(d)'
            BY <2>6, SignedStays DEF Grows
        <3>3. \A d \in DOMAIN rows' : d.id \in DOMAIN drafts'
            BY <2>2, <2>4, <2>5, <3>1
        <3>4. \A d, e \in DOMAIN rows' : Signed(d)' /\ Signed(e)' /\ d.id = e.id => d = e
            BY <2>7 DEF ReleaseInv, RowsInv
        <3>5. \A d \in DOMAIN rows' : rows'[d] = "active" =>
                d \in DOMAIN rows /\ rows[d] = "active"
            BY <2>5
        <3> QED BY <1>2, <3>1, <3>2, <3>3, <3>4, <3>5 DEF ReleaseInv, RowsInv
    <2>11. TxnsInv' /\ LanesInv' /\ ServedInv'
        BY <1>2, <1>5, <2>6, <2>7, TxnsKept, QuietStep, LiveSame
    <2>12. calls' \in [Handlers -> Calls] /\ CallsBound'
        BY <1>2, <2>6, EndStep
    <2>13. TypeOK'
        <3>1. DOMAIN drafts' \subseteq Releases /\ \A s \in DOMAIN drafts' : drafts'[s] \in Manifests
            BY <1>1, <2>4 DEF ReleaseInv, TypeOK
        <3>2. DOMAIN rows' \subseteq Digests /\ \A d \in DOMAIN rows' : rows'[d] \in Statuses
            BY <2>2, <2>5 DEF ReleaseInv, TypeOK, Statuses
        <3>3. DOMAIN approvals' = DOMAIN rows' /\ \A d \in DOMAIN rows' : approvals'[d] \subseteq People
            BY <1>5 DEF ReleaseInv, TypeOK, Put
        <3> QED BY <1>2, <2>12, <3>1, <3>2, <3>3 DEF ReleaseInv, TypeOK
    <2> QED BY <2>8, <2>9, <2>10, <2>11, <2>12, <2>13 DEF ReleaseInv
<1> QED BY <1>3, <1>4, <1>5 DEF StoreDraft

-----------------------------------------------------------------------------
(* Changes around the requests *)

LEMMA StateSame ==
  ASSUME ReleaseInv, UNCHANGED <<artifacts, repo, drafts, rows, txns, files, pointers>>
  PROVE  StateInv' /\ Grows
<1>1. Grows
    BY DEF Grows, RepoGrows, RowsGrow, TxnsGrow, Prepared
<1>2. RepoInv'
    BY DEF ReleaseInv, RepoInv
<1>3. DraftsInv' /\ RowsInv' /\ TxnsInv' /\ LanesInv' /\ ServedInv'
    BY <1>1, DraftsKept, RowsKept, TxnsKept, QuietStep, LiveSame, RowsSame
<1> QED BY <1>1, <1>2, <1>3 DEF StateInv

LEMMA CohortChangeKeeps ==
  ASSUME ReleaseInv, CohortChange, UNCHANGED releaseVars
  PROVE  ReleaseInv'
<1>1. /\ UNCHANGED <<artifacts, repo, calls>> /\ UNCHANGED releaseVars
      /\ cohort' \in Scopes
    <2>1. cohort \in Scopes
        BY DEF ReleaseInv, TypeOK
    <2>2. cohort.epoch + 1 \in Nat
        BY <2>1 DEF Scopes
    <2>3. ASSUME NEW s \in {"ready", "blocked", "held"}, NEW e \in Nat,
                 cohort' = [cohort EXCEPT !.condition = s, !.epoch = e]
          PROVE  cohort' \in Scopes
        BY <2>1, <2>3 DEF Scopes
    <2>4. ASSUME cohort.rev + 1 \in DOMAIN Native,
                 cohort' = [rev |-> cohort.rev + 1, condition |-> "blocked",
                            epoch |-> cohort.epoch + 1]
          PROVE  cohort' \in Scopes
        BY <2>2, <2>4 DEF Scopes
    <2>5. \/ /\ cohort.rev + 1 \in DOMAIN Native
             /\ cohort' = [rev |-> cohort.rev + 1, condition |-> "blocked",
                            epoch |-> cohort.epoch + 1]
          \/ \E s \in {"ready", "blocked", "held"}, e \in Nat :
               cohort' = [cohort EXCEPT !.condition = s, !.epoch = e]
        <3>1. cohort.epoch \in Nat
            BY <2>1 DEF Scopes
        <3> QED BY <2>2, <3>1 DEF CohortChange
    <2>6. UNCHANGED <<artifacts, repo, calls>>
        BY DEF CohortChange
    <2> QED BY <2>3, <2>4, <2>5, <2>6
<1>2. StateInv'
    BY <1>1, StateSame DEF releaseVars
<1>3. CallsBound'
    <2> SUFFICES ASSUME NEW g \in Handlers PROVE CallBound(calls[g])'
        BY DEF CallsBound
    <2>1. CallBound(calls[g])
        BY DEF ReleaseInv, CallsBound
    <2>2. PreparationBound(calls[g])' /\ TodoBound(calls[g])'
        BY <1>1, <2>1 DEF CallBound, PreparationBound, TodoBound, releaseVars
    <2>3. StoreBound(calls[g])'
        BY <1>1, <2>1 DEF CallBound, StoreBound, SoundDraft, Prepared, Signed, IsActive,
           SequenceOf, releaseVars
    <2>4. PairBound(calls[g])'
        BY <1>1, <2>1 DEF CallBound, PairBound, HasPair, Signed, IsActive, releaseVars
    <2>5. TransactionBound(calls[g])'
        BY <1>1, <2>1 DEF CallBound, TransactionBound, releaseVars
    <2>6. ScopeBound(calls[g])'
        BY <1>1, <2>1 DEF CallBound, ScopeBound, HasPair, releaseVars
    <2> QED BY <2>2, <2>3, <2>4, <2>5, <2>6 DEF CallBound
<1>4. TypeOK'
    BY <1>1 DEF ReleaseInv, TypeOK, releaseVars
<1> QED BY <1>2, <1>3, <1>4 DEF ReleaseInv, StateInv

LEMMA ApproveKeeps ==
  ASSUME ReleaseInv, NEW a \in Actors, NEW d \in DOMAIN rows, Approve(a, d)
  PROVE  ReleaseInv'
<1>1. /\ UNCHANGED <<cohort, artifacts, repo, calls, drafts, rows, txns, files, pointers>>
      /\ approvals' = [approvals EXCEPT ![d] = @ \cup {a}]
    BY DEF Approve, repoVars
<1>2. StateInv' /\ Grows
    BY <1>1, StateSame
<1>3. CallsBound'
    BY <1>1, <1>2, BoundStays DEF CallsBound
<1>4. /\ DOMAIN approvals' = DOMAIN rows
      /\ \A e \in DOMAIN rows : approvals'[e] \subseteq People
    BY <1>1 DEF ReleaseInv, TypeOK, People
<1>5. TypeOK'
    BY <1>1, <1>4 DEF ReleaseInv, TypeOK
<1> QED BY <1>2, <1>3, <1>5 DEF ReleaseInv, StateInv

LEMMA SurroundingsKeep ==
  ASSUME ReleaseInv, UNCHANGED data, UNCHANGED calls
  PROVE  ReleaseInv'
<1>1. StateInv' /\ Grows
    BY StateSame DEF data
<1>2. CallsBound'
    BY <1>1, BoundStays DEF CallsBound, data
<1>3. TypeOK'
    BY DEF ReleaseInv, TypeOK, data
<1> QED BY <1>1, <1>2, <1>3 DEF ReleaseInv, StateInv
-----------------------------------------------------------------------------
(* Signing *)

(* A request that goes on, with what it established in this step.             *)
LEMMA RequestMoves ==
  ASSUME ReleaseInv, Grows, cohort' = cohort, NEW h \in Handlers, NEW c \in Requests,
         calls' = [calls EXCEPT ![h] = c],
         PairBound(c), ScopeBound(c), TodoBound(c)', TransactionBound(c)'
  PROVE  calls' \in [Handlers -> Calls] /\ CallsBound'
<1>1. PairBound(c)' /\ ScopeBound(c)'
    BY PairStays DEF ReleaseInv
<1>2. PreparationBound(c)' /\ StoreBound(c)'
    BY DEF PreparationBound, StoreBound, Requests, Finalizing
<1>3. calls'[h] = c
    BY DEF ReleaseInv, TypeOK
<1>4. CallBound(c)'
    BY <1>1, <1>2 DEF CallBound
<1>5. CallBound(calls[h])'
    BY <1>3, <1>4 DEF CallBound, PreparationBound, StoreBound, TodoBound, PairBound,
       TransactionBound, ScopeBound
<1> QED BY <1>5, CallMoves DEF Calls

(* A row is added or superseded, and none is signed.                          *)
LEMMA Succession ==
  ASSUME ReleaseInv, UNCHANGED <<cohort, artifacts, repo, drafts, txns, files, pointers>>,
         \A d \in DOMAIN rows' : d \in Digests /\ d.id \in DOMAIN drafts
                                /\ rows'[d] \in Statuses,
         \A d \in DOMAIN rows : d \in DOMAIN rows',
         \A d \in DOMAIN rows : rows'[d] = rows[d]
                                \/ (rows[d] = "candidate" /\ rows'[d] = "superseded"),
         \A d \in DOMAIN rows' \ DOMAIN rows : rows'[d] = "candidate"
  PROVE  StateInv' /\ Grows
<1>1. Grows
    BY DEF Grows, RepoGrows, RowsGrow, TxnsGrow, Prepared
<1>2. \A d : (IsActive(d)' <=> IsActive(d)) /\ (Signed(d)' <=> Signed(d))
    BY DEF IsActive, Signed
<1>3. RepoInv'
    BY DEF ReleaseInv, RepoInv
<1>4. RowsInv'
    <2>1. \A d \in DOMAIN rows' : rows'[d] = "active" => d \in DOMAIN rows /\ rows[d] = "active"
        BY <1>2 DEF IsActive
    <2>2. \A d, e \in DOMAIN rows' : Signed(d)' /\ Signed(e)' /\ d.id = e.id => d = e
        BY <1>2 DEF ReleaseInv, RowsInv, Signed
    <2> QED BY <1>2, <2>1, <2>2 DEF ReleaseInv, RowsInv
<1>5. DraftsInv' /\ TxnsInv' /\ LanesInv' /\ ServedInv'
    BY <1>1, <1>2, DraftsKept, TxnsKept, QuietStep, LiveSame
<1> QED BY <1>1, <1>3, <1>4, <1>5 DEF StateInv

LEMMA SucceedKeeps ==
  ASSUME ReleaseInv, NEW h \in Handlers, Succeed(h)
  PROVE  ReleaseInv'
<1> DEFINE b == calls[h]
           d == Head(b.todo)
           final == b.final
<1>1. /\ b \in Requests /\ b.pc = "succeed" /\ TodoBound(b) /\ PairBound(b) /\ ScopeBound(b)
    BY CallFacts DEF Succeed, CallBound, Finalizing
<1>2. /\ d = b.todo[1] /\ d \in DOMAIN rows
      /\ final # Null /\ final \in Digests /\ final.id = d.id
    BY <1>1 DEF TodoBound, Requests, Finalizing, OrNull
<1>3. UNCHANGED <<cohort, artifacts, repo, drafts, txns, files, pointers>>
    BY DEF Succeed, repoVars
<1>4. CASE final \in DOMAIN rows
    <2>1. UNCHANGED data /\ End(h)
        BY <1>3, <1>4 DEF Succeed, data
    <2> QED BY <2>1, CallEnds
<1>5. CASE final \notin DOMAIN rows
    <2>1. PICK done \in {"row", "approvals", "mapping", "all"} :
            /\ rows' = [Put(rows, final, "candidate") EXCEPT
                 ![d] = IF done = "all" /\ @ = "candidate" THEN "superseded" ELSE @]
            /\ approvals' = Put(approvals, final,
                 IF done = "row" THEN {} ELSE approvals[d])
            /\ IF done = "all" THEN Goto(h, "sign") ELSE End(h)
        BY <1>5 DEF Succeed
    <2>2. /\ DOMAIN rows' = DOMAIN rows \cup {final}
          /\ rows'[final] = "candidate"
          /\ \A e \in DOMAIN rows : rows'[e] = rows[e]
                \/ (rows[e] = "candidate" /\ rows'[e] = "superseded")
        BY <1>2, <1>5, <2>1 DEF Put
    <2>3. /\ DOMAIN approvals' = DOMAIN rows'
          /\ \A e \in DOMAIN rows' : approvals'[e] \subseteq People
        BY <1>2, <2>1, <2>2 DEF Put, ReleaseInv, TypeOK
    <2>4. \A e \in DOMAIN rows' : e \in Digests /\ e.id \in DOMAIN drafts /\ rows'[e] \in Statuses
        BY <1>2, <2>2 DEF ReleaseInv, RowsInv, TypeOK, Statuses
    <2>5. StateInv' /\ Grows
        BY <1>3, <2>2, <2>4, Succession
    <2>6. calls' \in [Handlers -> Calls] /\ CallsBound'
        <3>1. CASE done # "all"
            BY <1>3, <2>1, <2>5, <3>1, EndStep
        <3>2. CASE done = "all"
            <4> DEFINE e == [b EXCEPT !.pc = "sign"]
            <4>1. /\ e \in Requests /\ e.pc = "sign" /\ e.op = b.op /\ e.todo = b.todo
                  /\ e.final = b.final /\ e.system = b.system /\ e.opr = b.opr
                  /\ e.moves = b.moves /\ e.expected = b.expected /\ e.scope = b.scope
                BY <1>1 DEF Requests, Finalizing
            <4>2. calls' = [calls EXCEPT ![h] = e]
                BY <2>1, <3>2 DEF Goto
            <4> HIDE DEF e, b
            <4>3. PICK c \in Requests : c = e
                BY <4>1
            <4>4. PairBound(c) /\ ScopeBound(c)
                BY <1>1, <4>1, <4>3 DEF PairBound, ScopeBound, HasPair, Finalizing
            <4>5. TodoBound(c)'
                BY <1>1, <2>2, <4>1, <4>3 DEF TodoBound, Finalizing
            <4>6. TransactionBound(c)'
                BY <4>1, <4>3 DEF TransactionBound
            <4> QED BY <1>3, <2>5, <4>2, <4>3, <4>4, <4>5, <4>6, RequestMoves
        <3> QED BY <3>1, <3>2
    <2>7. TypeOK'
        BY <1>3, <2>2, <2>3, <2>4, <2>6 DEF ReleaseInv, TypeOK
    <2> QED BY <2>5, <2>6, <2>7 DEF ReleaseInv, StateInv
<1> QED BY <1>4, <1>5

LEMMA FinalizedMoves ==
  ASSUME ReleaseInv, Grows, cohort' = cohort, NEW h \in Handlers, calls[h].pc = "sign",
         calls' = [calls EXCEPT ![h] = Finalized(h)]
  PROVE  calls' \in [Handlers -> Calls] /\ CallsBound'
<1> DEFINE b == calls[h]
<1>1. /\ b \in Requests /\ b.pc = "sign" /\ TodoBound(b) /\ PairBound(b) /\ ScopeBound(b)
    BY CallFacts DEF CallBound, Finalizing
<1>2. CASE b.op = "sign"
    BY <1>2, EndStep DEF Finalized, End
<1>3. CASE b.op # "sign" /\ Len(b.todo) > 1
    <2> DEFINE e == [b EXCEPT !.pc = "finalize", !.todo = Tail(b.todo)]
    <2>1. b.todo \in Seq(Digests) /\ b.todo # <<>> /\ \A i \in 1..Len(b.todo) : b.todo[i] \in DOMAIN rows
        BY <1>1 DEF Requests, TodoBound, Finalizing
    <2>2. /\ Tail(b.todo) \in Seq(Digests) /\ Tail(b.todo) # <<>>
          /\ \A i \in 1..Len(Tail(b.todo)) : Tail(b.todo)[i] \in DOMAIN rows
        <3> DEFINE q == b.todo
        <3>1. q \in Seq(Digests) /\ q # <<>> /\ Len(q) > 1 /\ \A i \in 1..Len(q) : q[i] \in DOMAIN rows
            BY <1>3, <2>1
        <3> HIDE DEF q
        <3>2. Tail(q) \in Seq(Digests) /\ Len(Tail(q)) = Len(q) - 1 /\ Len(q) \in Nat
            BY <3>1
        <3>3. \A i \in 1..Len(Tail(q)) : Tail(q)[i] = q[i + 1] /\ i + 1 \in 1..Len(q)
            BY <3>1, <3>2
        <3>4. Tail(q) # <<>>
            <4>1. PICK t : t = Tail(q)
                OBVIOUS
            <4>2. Len(t) > 0
                BY <3>1, <3>2, <4>1
            <4>3. t # <<>>
                BY <4>2
            <4> QED BY <4>1, <4>3
        <3> QED BY <3>1, <3>2, <3>3, <3>4 DEF q
    <2>3. /\ e \in Requests /\ e.pc = "finalize" /\ e.op = b.op /\ e.todo = Tail(b.todo)
          /\ e.system = b.system /\ e.opr = b.opr
          /\ e.moves = b.moves /\ e.expected = b.expected /\ e.scope = b.scope
        BY <1>1, <2>2 DEF Requests, Finalizing
    <2>4. calls' = [calls EXCEPT ![h] = e]
        BY <1>3 DEF Finalized
    <2> HIDE DEF e, b
    <2>5. PICK c \in Requests : c = e
        BY <2>3
    <2>6. PairBound(c) /\ ScopeBound(c)
        BY <1>1, <2>3, <2>5 DEF PairBound, ScopeBound, HasPair, Finalizing
    <2>7. TodoBound(c) /\ TransactionBound(c)
        BY <1>1, <2>2, <2>3, <2>5 DEF TodoBound, TransactionBound, Finalizing
    <2> QED BY <2>4, <2>5, <2>6, <2>7, TodoStays, TransactionBoundStays, RequestMoves
<1>4. CASE b.op # "sign" /\ ~(Len(b.todo) > 1)
    <2> DEFINE e == [b EXCEPT !.pc = "resolve"]
    <2>1. /\ e \in Requests /\ e.pc = "resolve" /\ e.op = b.op
          /\ e.system = b.system /\ e.opr = b.opr
          /\ e.moves = b.moves /\ e.expected = b.expected /\ e.scope = b.scope
        BY <1>1 DEF Requests, Finalizing
    <2>2. calls' = [calls EXCEPT ![h] = e]
        BY <1>4 DEF Finalized
    <2> HIDE DEF e, b
    <2>3. PICK c \in Requests : c = e
        BY <2>1
    <2>4. PairBound(c) /\ ScopeBound(c)
        BY <1>1, <2>1, <2>3 DEF PairBound, ScopeBound, HasPair, Finalizing
    <2>5. TodoBound(c) /\ TransactionBound(c)
        BY <1>1, <1>4, <2>1, <2>3 DEF TodoBound, TransactionBound, Finalizing
    <2> QED BY <2>2, <2>3, <2>4, <2>5, TodoStays, TransactionBoundStays, RequestMoves
<1> QED BY <1>2, <1>3, <1>4

LEMMA SignManifestKeeps ==
  ASSUME ReleaseInv, NEW h \in Handlers, SignManifest(h)
  PROVE  ReleaseInv'
<1> DEFINE d == calls[h].final
<1>1. /\ UNCHANGED <<cohort, artifacts, repo, drafts, approvals, txns, files, pointers>>
      /\ calls[h].pc = "sign"
    BY DEF SignManifest, repoVars
<1>2. d \in DOMAIN rows
    BY <1>1, CallFacts DEF CallBound, TodoBound
<1>3. CASE rows' = rows
    <2>1. StateInv' /\ Grows
        BY <1>1, <1>3, StateSame
    <2>2. End(h) \/ calls' = [calls EXCEPT ![h] = Finalized(h)]
        BY DEF SignManifest
    <2>3. calls' \in [Handlers -> Calls] /\ CallsBound'
        BY <1>1, <2>1, <2>2, EndStep, FinalizedMoves
    <2>4. TypeOK'
        BY <1>1, <1>3, <2>3 DEF ReleaseInv, TypeOK
    <2> QED BY <2>1, <2>3, <2>4 DEF ReleaseInv, StateInv
<1>4. CASE /\ rows[d] = "candidate"
           /\ ~\E e \in DOMAIN rows \ {d} : e.id = d.id /\ Signed(e)
           /\ rows' = [rows EXCEPT ![d] = "signed"]
           /\ calls' = [calls EXCEPT ![h] = Finalized(h)]
    <2>1. /\ DOMAIN rows' = DOMAIN rows /\ rows'[d] = "signed"
          /\ \A e \in DOMAIN rows \ {d} : rows'[e] = rows[e]
        BY <1>2, <1>4
    <2>2. Grows
        BY <1>1, <1>4, <2>1 DEF Grows, RepoGrows, RowsGrow, TxnsGrow, Prepared
    <2>3. \A e : (IsActive(e)' <=> IsActive(e)) /\ (Signed(e)' => Signed(e) \/ e = d)
        BY <1>4, <2>1 DEF IsActive, Signed
    <2>4. RepoInv'
        BY <1>1 DEF ReleaseInv, RepoInv
    <2>5. RowsInv'
        <3>1. \A e \in DOMAIN rows' : rows'[e] = "active" => rows[e] = "active"
            BY <1>4, <2>1
        <3>2. \A e, f \in DOMAIN rows' : Signed(e)' /\ Signed(f)' /\ e.id = f.id => e = f
            <4> SUFFICES ASSUME NEW e \in DOMAIN rows, NEW f \in DOMAIN rows,
                                Signed(e)', Signed(f)', e.id = f.id, e # f
                         PROVE  FALSE
                BY <2>1
            <4>1. CASE e # d /\ f # d
                BY <2>3, <4>1 DEF ReleaseInv, RowsInv
            <4>2. CASE e = d \/ f = d
                BY <1>4, <2>3, <4>2
            <4> QED BY <4>1, <4>2
        <3> QED BY <1>1, <2>1, <2>3, <3>1, <3>2 DEF ReleaseInv, RowsInv
    <2>6. DraftsInv' /\ TxnsInv' /\ LanesInv' /\ ServedInv'
        BY <1>1, <2>2, <2>3, DraftsKept, TxnsKept, QuietStep, LiveSame
    <2>7. calls' \in [Handlers -> Calls] /\ CallsBound'
        BY <1>1, <1>4, <2>2, FinalizedMoves
    <2>8. TypeOK'
        BY <1>1, <2>1, <2>7 DEF ReleaseInv, TypeOK, Statuses
    <2> QED BY <2>4, <2>5, <2>6, <2>7, <2>8 DEF ReleaseInv
<1> QED BY <1>3, <1>4 DEF SignManifest

-----------------------------------------------------------------------------
(* Transactions *)

LEMMA PutFacts ==
  ASSUME NEW f, NEW k, NEW v
  PROVE  /\ DOMAIN Put(f, k, v) = DOMAIN f \cup {k} /\ Put(f, k, v)[k] = v
         /\ \A x \in DOMAIN f \ {k} : Put(f, k, v)[x] = f[x]
BY DEF Put

LEMMA PutTyped ==
  ASSUME NEW f \in Expectations, NEW l \in Lanes, NEW v \in Heads
  PROVE  Put(f, l, v) \in Expectations
<1>1. PICK S \in SUBSET Lanes : f \in [S -> Heads]
    BY DEF Expectations
<1>2. Put(f, l, v) \in [S \cup {l} -> Heads]
    BY <1>1 DEF Put
<1> QED BY <1>1, <1>2 DEF Expectations

(* What a channel's pointer gives a transaction that is to extend it.         *)
LEMMA ChannelHead ==
  ASSUME ReleaseInv, NEW ch \in Channels
  PROVE  /\ TxnLane(ch) \in Lanes
         /\ pointers[TxnLane(ch)] \in Heads
         /\ pointers[TxnLane(ch)] \in OrNull(DOMAIN txns)
         /\ pointers[TxnLane(ch)] \in OrNull(TxnIds)
         /\ TxnSequence(pointers[TxnLane(ch)]) \in Nat
         /\ pointers[TxnLane(ch)] # Null =>
              IsLive(pointers[TxnLane(ch)]) /\ ChannelOf(pointers[TxnLane(ch)]) = ch
<1>1. pointers[TxnLane(ch)] # Null =>
        IsLive(pointers[TxnLane(ch)]) /\ ChannelOf(pointers[TxnLane(ch)]) = ch
    BY DEF ReleaseInv, ServedInv
<1>2. pointers[TxnLane(ch)] \in OrNull(DOMAIN txns)
    BY <1>1 DEF IsLive, OrNull
<1>3. TxnSequence(pointers[TxnLane(ch)]) \in Nat
    BY <1>2 DEF ReleaseInv, TypeOK, Transactions, TxnSequence, OrNull
<1> QED BY <1>1, <1>2, <1>3, LaneFacts DEF ReleaseInv, TypeOK, OrNull

(* The record of a request that has its transaction.                          *)
Resolved(b, t, lane) ==
  [b EXCEPT !.pc = "signTxn", !.txn = t, !.expected = Put(b.expected, lane, pointers[lane])]

LEMMA ResolvedCall ==
  ASSUME ReleaseInv, NEW b \in Requests, b.pc = "resolve", TodoBound(b), PairBound(b),
         ScopeBound(b), NEW ch, ch = Channel[b.system.id], NEW t \in TxnIds,
         NEW c, c = Resolved(b, t, TxnLane(ch))
  PROVE  /\ ch \in Channels /\ b.system.id \in Releases /\ b.opr.id \in Releases
         /\ b.system \in Digests /\ b.opr \in Digests
         /\ c \in Requests /\ c.pc = "signTxn" /\ c.txn = t
         /\ c.system = b.system /\ c.opr = b.opr /\ c.op = b.op
         /\ TxnLane(ch) \in DOMAIN c.expected
         /\ c.expected[TxnLane(ch)] = pointers[TxnLane(ch)]
         /\ TodoBound(c) /\ PairBound(c) /\ ScopeBound(c)
<1>1. b.op \in {"activate", "renew"} /\ HasPair(b)
    BY DEF TodoBound, HasPair
<1>2. Signed(b.system) /\ Signed(b.opr) /\ b.system.id \notin OprReleases
    BY <1>1 DEF PairBound
<1>3. /\ b.system \in Digests /\ b.opr \in Digests
      /\ b.system.id \in Releases /\ b.opr.id \in Releases
    BY <1>2 DEF Signed, ReleaseInv, TypeOK, Digests
<1>4. ch \in Channels
    BY <1>2, <1>3, LaneFacts
<1> DEFINE lane == TxnLane(ch)
           expected == Put(b.expected, lane, pointers[lane])
<1>5. lane \in Lanes /\ pointers[lane] \in Heads
    BY <1>4, ChannelHead
<1>6. b.expected \in Expectations
    BY DEF Requests
<1>7. expected \in Expectations
    BY <1>5, <1>6, PutTyped
<1>8. /\ lane \in DOMAIN expected /\ expected[lane] = pointers[lane]
      /\ {LaneOf(b.system.id), LaneOf(b.opr.id)} \subseteq DOMAIN expected
      /\ expected[LaneOf(b.system.id)] = b.expected[LaneOf(b.system.id)]
      /\ expected[LaneOf(b.opr.id)] = b.expected[LaneOf(b.opr.id)]
    <2>1. LaneOf(b.system.id) # lane /\ LaneOf(b.opr.id) # lane
        BY <1>3, <1>4, LaneFacts
    <2>2. {LaneOf(b.system.id), LaneOf(b.opr.id)} \subseteq DOMAIN b.expected
        BY <1>1 DEF PairBound
    <2> HIDE DEF lane
    <2> QED BY <2>1, <2>2 DEF Put
<1> HIDE DEF expected
<1>9. /\ c \in Requests /\ c.pc = "signTxn" /\ c.txn = t /\ c.op = b.op
      /\ c.system = b.system /\ c.opr = b.opr /\ c.moves = b.moves
      /\ c.expected = expected /\ c.scope = b.scope
    BY <1>7 DEF Requests, Finalizing, OrNull, expected, Resolved
<1>10. PairBound(c)
    BY <1>1, <1>8, <1>9 DEF PairBound
<1>11. ScopeBound(c)
    BY <1>1, <1>9 DEF ScopeBound, HasPair
<1>12. TodoBound(c)
    BY <1>1, <1>9 DEF TodoBound, Finalizing
<1> QED BY <1>3, <1>4, <1>8, <1>9, <1>10, <1>11, <1>12

(* A transaction is used again only for the pair it was made for: its id      *)
(* fixes the releases, and one row of a release is signed.                    *)
LEMMA SamePair ==
  ASSUME ReleaseInv, NEW t \in DOMAIN txns, NEW s, NEW o, Signed(s), Signed(o),
         t[1] = s.id, t[2] = o.id
  PROVE  txns[t].system = s /\ txns[t].opr = o
<1>1. /\ Signed(txns[t].system) /\ txns[t].system.id = t[1]
      /\ Signed(txns[t].opr) /\ txns[t].opr.id = t[2]
    BY DEF ReleaseInv, TxnsInv, SoundTransaction
<1>2. s \in DOMAIN rows /\ o \in DOMAIN rows /\ txns[t].system \in DOMAIN rows
      /\ txns[t].opr \in DOMAIN rows
    BY <1>1 DEF Signed
<1> QED BY <1>1, <1>2 DEF ReleaseInv, RowsInv

(* A transaction x of the pair s, o is written under the unused name t. *)
AddsTransaction(t, s, o, ch, x) ==
  /\ t \in TxnIds /\ t \notin files /\ files' = files \cup {t}
  /\ s \in Digests /\ o \in Digests /\ ch \in Channels /\ ch = Channel[s.id]
  /\ Signed(s) /\ s.id \notin OprReleases /\ t[1] = s.id
  /\ Signed(o) /\ o.id \in OprReleases /\ t[2] = o.id /\ drafts[o.id].binds = s
  /\ x = [status |-> "candidate", parent |-> pointers[TxnLane(ch)],
           sequence |-> TxnSequence(pointers[TxnLane(ch)]) + 1,
           system |-> s, opr |-> o]
  /\ txns' = Put(txns, t, x)
  /\ UNCHANGED <<cohort, artifacts, repo, drafts, rows, pointers>>

LEMMA TransactionAdded ==
  ASSUME ReleaseInv, NEW t, NEW s, NEW o, NEW ch, NEW x, AddsTransaction(t, s, o, ch, x)
  PROVE  /\ StateInv' /\ Grows
         /\ DOMAIN txns' \subseteq TxnIds /\ \A u \in DOMAIN txns' : txns'[u] \in Transactions
         /\ t \in DOMAIN txns' /\ txns'[t].system = s /\ txns'[t].opr = o
         /\ txns'[t].parent = pointers[TxnLane(ch)]
<1> USE DEF AddsTransaction
<1> DEFINE parent == pointers[TxnLane(ch)]
<1>1. t \notin DOMAIN txns
    BY DEF ReleaseInv, TxnsInv
<1>2. /\ parent \in OrNull(TxnIds) /\ parent \in OrNull(DOMAIN txns)
      /\ TxnSequence(parent) \in Nat
      /\ parent # Null => IsLive(parent) /\ ChannelOf(parent) = ch
    BY ChannelHead
<1>3. x \in Transactions
    BY <1>2 DEF Transactions
<1>4. /\ DOMAIN txns' = DOMAIN txns \cup {t} /\ txns'[t] = x
      /\ \A u \in DOMAIN txns : txns'[u] = txns[u]
    BY <1>1 DEF Put
<1>5. DOMAIN txns' \subseteq TxnIds /\ \A u \in DOMAIN txns' : txns'[u] \in Transactions
    BY <1>3, <1>4 DEF ReleaseInv, TypeOK
<1>6. /\ txns'[t].status = "candidate" /\ txns'[t].parent = parent
      /\ txns'[t].sequence = TxnSequence(parent) + 1
      /\ txns'[t].system = s /\ txns'[t].opr = o
    BY <1>4
<1>7. Grows
    BY <1>4 DEF Grows, RepoGrows, RowsGrow, TxnsGrow, Prepared
<1>8. \A u : IsLive(u)' => IsLive(u)
    BY <1>4, <1>6 DEF IsLive
<1>9. RepoInv' /\ DraftsInv' /\ RowsInv' /\ LanesInv' /\ ServedInv'
    BY <1>7, <1>8, DraftsKept, RowsKept, QuietStep, RowsSame DEF ReleaseInv, RepoInv
<1>10. TxnsInv'
    <2>1. DOMAIN txns' \subseteq files'
        BY <1>4 DEF ReleaseInv, TxnsInv
    <2>2. SoundTransaction(t)'
        <3>1. Signed(txns[t].system)' /\ Signed(txns[t].opr)'
            <4>1. Signed(txns'[t].system) /\ Signed(txns'[t].opr) /\ rows' = rows
                BY <1>6
            <4> QED BY <4>1 DEF Signed
        <3>2. parent # Null => IsLive(txns[t].parent)' /\ ChannelOf(txns[t].parent)' = ch
            <4> SUFFICES ASSUME parent # Null
                         PROVE  IsLive(txns[t].parent)' /\ ChannelOf(txns[t].parent)' = ch
                OBVIOUS
            <4>1. /\ txns'[t].parent = parent /\ parent \in DOMAIN txns'
                  /\ txns'[parent] = txns[parent]
                BY <1>2, <1>4, <1>6 DEF OrNull
            <4>2. txns[parent].status = "active" /\ Channel[txns[parent].system.id] = ch
                BY <1>2 DEF IsLive, ChannelOf
            <4> HIDE DEF parent
            <4> QED BY <4>1, <4>2 DEF IsLive, ChannelOf
        <3>3. TxnSequence(txns[t].parent)' = TxnSequence(parent)
            <4>1. txns'[t].parent = parent
                BY <1>6
            <4>2. parent # Null => txns'[parent] = txns[parent]
                BY <1>2, <1>4 DEF OrNull
            <4> HIDE DEF parent
            <4> QED BY <4>1, <4>2 DEF TxnSequence
        <3>4. ChannelOf(t)' = ch
            BY <1>6 DEF ChannelOf
        <3> QED BY <1>6, <3>1, <3>2, <3>3, <3>4 DEF SoundTransaction
    <2>3. ASSUME NEW u \in DOMAIN txns PROVE SoundTransaction(u)'
        <3>1. SoundTransaction(u)
            BY DEF ReleaseInv, TxnsInv
        <3>2. txns[u].parent # Null => txns[u].parent \in DOMAIN txns
            BY <3>1 DEF SoundTransaction, IsLive
        <3>3. txns'[u].status = "active" => IsActive(txns[u].opr)'
            BY <1>4, <3>1 DEF SoundTransaction, IsActive
        <3> QED BY <1>7, <3>1, <3>2, <3>3, TransactionStays DEF ReleaseInv, Grows
    <2> QED BY <1>4, <2>1, <2>2, <2>3 DEF TxnsInv
<1> QED BY <1>4, <1>5, <1>6, <1>7, <1>9, <1>10 DEF StateInv

LEMMA ResolveKeeps ==
  ASSUME ReleaseInv, NEW h \in Handlers, Resolve(h)
  PROVE  ReleaseInv'
<1>1. PICK b : b = calls[h]
    OBVIOUS
<1>2. /\ b \in Requests /\ b.pc = "resolve" /\ CallBound(b)
      /\ TodoBound(b) /\ PairBound(b) /\ ScopeBound(b)
    BY <1>1, CallFacts DEF Resolve, CallBound
<1>3. PICK ch : ch = Channel[b.system.id]
    OBVIOUS
<1> DEFINE parent == pointers[TxnLane(ch)]
           base == <<b.system.id, b.opr.id, 0>>
           usable == Reusable(base, parent)
           id == IF usable THEN base ELSE TxnId(b.system, b.opr, parent)
           next(t) == [b EXCEPT !.pc = "signTxn", !.txn = t,
                         !.expected = Put(b.expected, TxnLane(ch), parent)]
<1>4. /\ UNCHANGED <<cohort, artifacts, repo, drafts, rows, approvals, pointers>>
      /\ \/ /\ usable /\ drafts[b.opr.id].binds = b.system
            /\ calls' = [calls EXCEPT ![h] = next(id)]
            /\ UNCHANGED <<txns, files>>
         \/ /\ ~usable /\ drafts[b.opr.id].binds = b.system /\ id \notin files
            /\ files' = files \cup {id}
            /\ txns' = Put(txns, id, [status |-> "candidate", parent |-> parent,
                 sequence |-> TxnSequence(parent) + 1,
                 system |-> b.system, opr |-> b.opr])
            /\ calls' = [calls EXCEPT ![h] = next(id)]
         \/ /\ files' = files \cup {id} /\ UNCHANGED txns /\ End(h)
         \/ End(h) /\ UNCHANGED <<txns, files>>
    BY <1>1, <1>3 DEF Resolve, repoVars
<1>5. HasPair(b) /\ Signed(b.system) /\ Signed(b.opr)
      /\ b.system.id \notin OprReleases /\ b.opr.id \in OprReleases
    BY <1>2 DEF PairBound, TodoBound, HasPair
<1>6. /\ b.system \in Digests /\ b.opr \in Digests
      /\ b.system.id \in Releases /\ b.opr.id \in Releases
    BY <1>5 DEF Signed, ReleaseInv, TypeOK, Digests
<1>7. ch \in Channels
    BY <1>3, <1>5, <1>6, LaneFacts
<1>8. id \in TxnIds /\ id[1] = b.system.id /\ id[2] = b.opr.id
    <2>1. TxnSequence(parent) + 1 \in Nat
        BY <1>7, ChannelHead
    <2> QED BY <1>6, <2>1 DEF TxnId, TxnIds
<1>9. PICK t \in TxnIds : t = id
    BY <1>8
<1>10. PICK c : c = next(t)
    OBVIOUS
<1>11. /\ c \in Requests /\ c.pc = "signTxn" /\ c.txn = t
       /\ c.system = b.system /\ c.opr = b.opr
       /\ TxnLane(ch) \in DOMAIN c.expected
       /\ c.expected[TxnLane(ch)] = parent
       /\ TodoBound(c) /\ PairBound(c) /\ ScopeBound(c)
    <2>1. c = Resolved(b, t, TxnLane(ch))
        BY <1>10 DEF Resolved
    <2> HIDE DEF next
    <2> QED BY <1>2, <1>3, <2>1, ResolvedCall
<1>12. CASE /\ usable
            /\ calls' = [calls EXCEPT ![h] = next(id)] /\ UNCHANGED <<txns, files>>
    <2>1. t \in DOMAIN txns /\ txns[t].parent = parent
        BY <1>9, <1>12 DEF Reusable
    <2>2. txns[t].system = b.system /\ txns[t].opr = b.opr
        BY <1>5, <1>8, <1>9, <2>1, SamePair
    <2>3. TransactionBound(c)
        BY <1>3, <1>11, <2>1, <2>2 DEF TransactionBound
    <2>4. CallBound(c)
        BY <1>11, <2>3, RequestBound
    <2>5. UNCHANGED data /\ calls' = [calls EXCEPT ![h] = c]
        BY <1>4, <1>9, <1>10, <1>12 DEF data
    <2> QED BY <1>11, <2>4, <2>5, CallsOnly DEF Calls
<1>13. CASE /\ drafts[b.opr.id].binds = b.system /\ id \notin files
            /\ files' = files \cup {id}
            /\ txns' = Put(txns, id, [status |-> "candidate", parent |-> parent,
                 sequence |-> TxnSequence(parent) + 1,
                 system |-> b.system, opr |-> b.opr])
            /\ calls' = [calls EXCEPT ![h] = next(id)]
    <2>1. /\ StateInv' /\ Grows
          /\ DOMAIN txns' \subseteq TxnIds /\ \A u \in DOMAIN txns' : txns'[u] \in Transactions
          /\ t \in DOMAIN txns' /\ txns'[t].system = b.system /\ txns'[t].opr = b.opr
          /\ txns'[t].parent = parent
        <3>1. /\ t \notin files /\ files' = files \cup {t}
              /\ t[1] = b.system.id /\ t[2] = b.opr.id
            BY <1>8, <1>9, <1>13
        <3>2. UNCHANGED <<cohort, artifacts, repo, drafts, rows, pointers>>
            BY <1>4
        <3>3. drafts[b.opr.id].binds = b.system
            BY <1>13
        <3> HIDE DEF id, next
        <3>4. /\ Signed(b.system) /\ b.system.id \notin OprReleases /\ b.system \in Digests
              /\ Signed(b.opr) /\ b.opr.id \in OprReleases /\ b.opr \in Digests
            BY <1>5, <1>6
        <3>5. PICK x : x = [status |-> "candidate", parent |-> pointers[TxnLane(ch)],
                            sequence |-> TxnSequence(pointers[TxnLane(ch)]) + 1,
                            system |-> b.system, opr |-> b.opr]
            OBVIOUS
        <3>6. txns' = Put(txns, t, x)
            BY <1>9, <1>13, <3>5
        <3>7. AddsTransaction(t, b.system, b.opr, ch, x)
            BY <1>3, <1>7, <3>1, <3>2, <3>3, <3>4, <3>5, <3>6 DEF AddsTransaction
        <3> QED BY <3>7, TransactionAdded
    <2>2. TransactionBound(c)'
        BY <1>3, <1>11, <2>1 DEF TransactionBound
    <2>3. TodoBound(c)'
        BY <1>11, <2>1, TodoStays
    <2>4. calls' = [calls EXCEPT ![h] = c]
        BY <1>9, <1>10, <1>13
    <2>5. calls' \in [Handlers -> Calls] /\ CallsBound'
        BY <1>4, <1>11, <2>1, <2>2, <2>3, <2>4, RequestMoves
    <2>6. TypeOK'
        BY <1>4, <2>1, <2>5 DEF ReleaseInv, TypeOK
    <2> QED BY <2>1, <2>5, <2>6 DEF ReleaseInv, StateInv
<1>14. CASE files' = files \cup {id} /\ UNCHANGED txns /\ End(h)
    <2> HIDE DEF id
    <2>1. Grows
        BY <1>4, <1>14 DEF Grows, RepoGrows, RowsGrow, TxnsGrow, Prepared
    <2>2. RepoInv' /\ DraftsInv' /\ RowsInv' /\ TxnsInv' /\ LanesInv' /\ ServedInv'
        BY <1>4, <1>14, <2>1, DraftsKept, RowsKept, TxnsKept, QuietStep, LiveSame, RowsSame
           DEF ReleaseInv, RepoInv
    <2>3. calls' \in [Handlers -> Calls] /\ CallsBound'
        BY <1>4, <1>14, <2>1, EndStep
    <2>4. TypeOK'
        BY <1>4, <1>14, <2>3 DEF ReleaseInv, TypeOK
    <2> QED BY <2>2, <2>3, <2>4 DEF ReleaseInv
<1>15. CASE End(h) /\ UNCHANGED <<txns, files>>
    BY <1>4, <1>15, CallEnds DEF data
<1> QED BY <1>4, <1>12, <1>13, <1>14, <1>15

LEMMA SignTransactionKeeps ==
  ASSUME ReleaseInv, NEW h \in Handlers, SignTransaction(h)
  PROVE  ReleaseInv'
<1>1. PICK b : b = calls[h]
    OBVIOUS
<1>2. /\ b \in Requests /\ b.pc = "signTxn" /\ TodoBound(b) /\ PairBound(b)
      /\ ScopeBound(b) /\ TransactionBound(b)
    BY <1>1, CallFacts DEF SignTransaction, CallBound
<1>3. UNCHANGED <<cohort, artifacts, repo, drafts, rows, approvals, files, pointers>>
    BY DEF SignTransaction, repoVars
<1>4. CASE UNCHANGED txns /\ End(h)
    BY <1>3, <1>4, CallEnds DEF data
<1>5. CASE /\ txns[b.txn].status \in {"candidate", "signed"}
           /\ txns' = [txns EXCEPT ![b.txn].status = "signed"]
           /\ Goto(h, "commit")
    <2>1. b.txn \in DOMAIN txns /\ txns[b.txn] \in Transactions
        BY <1>2 DEF TransactionBound, ReleaseInv, TypeOK
    <2>2. /\ DOMAIN txns' = DOMAIN txns
          /\ \A u \in DOMAIN txns \ {b.txn} : txns'[u] = txns[u]
          /\ txns'[b.txn] \in Transactions /\ txns'[b.txn].status = "signed"
          /\ txns'[b.txn].parent = txns[b.txn].parent
          /\ txns'[b.txn].sequence = txns[b.txn].sequence
          /\ txns'[b.txn].system = txns[b.txn].system /\ txns'[b.txn].opr = txns[b.txn].opr
        BY <1>5, <2>1 DEF Transactions
    <2>3. Grows
        BY <1>3, <1>5, <2>1, <2>2 DEF Grows, RepoGrows, RowsGrow, TxnsGrow, Prepared
    <2>4. \A u : IsLive(u)' => IsLive(u)
        BY <2>2 DEF IsLive
    <2>5. RepoInv' /\ DraftsInv' /\ RowsInv' /\ TxnsInv' /\ LanesInv' /\ ServedInv'
        BY <1>3, <2>2, <2>3, <2>4, DraftsKept, RowsKept, TxnsKept, QuietStep, RowsSame
           DEF ReleaseInv, RepoInv
    <2> DEFINE e == [b EXCEPT !.pc = "commit"]
    <2>6. /\ e \in Requests /\ e.pc = "commit" /\ e.op = b.op
          /\ e.system = b.system /\ e.opr = b.opr /\ e.txn = b.txn
          /\ e.moves = b.moves /\ e.expected = b.expected /\ e.scope = b.scope
        BY <1>2 DEF Requests, Finalizing
    <2>7. calls' = [calls EXCEPT ![h] = e]
        BY <1>1, <1>5 DEF Goto
    <2> HIDE DEF e
    <2>8. TodoBound(e) /\ TransactionBound(e) /\ PairBound(e) /\ ScopeBound(e)
        BY <1>2, <2>6 DEF TodoBound, TransactionBound, PairBound, ScopeBound, HasPair, Finalizing
    <2>9. TodoBound(e)' /\ TransactionBound(e)'
        BY <2>3, <2>8, TodoStays, TransactionBoundStays
    <2>10. calls' \in [Handlers -> Calls] /\ CallsBound'
        BY <1>3, <2>3, <2>6, <2>7, <2>8, <2>9, RequestMoves
    <2>11. TypeOK'
        BY <1>3, <2>2, <2>10 DEF ReleaseInv, TypeOK
    <2> QED BY <2>5, <2>10, <2>11 DEF ReleaseInv
<1> QED BY <1>1, <1>4, <1>5 DEF SignTransaction

-----------------------------------------------------------------------------
(* The batch *)

(* What a batch that commits does, of an activation or of a renewal.          *)
Commits(h, b) ==
  /\ b = calls[h] /\ b.pc = "commit" /\ End(h)
  /\ \A l \in DOMAIN b.expected : pointers[l] = b.expected[l]
  /\ \A d \in b.moves : rows[d] = "signed" /\ Prepared(d.id)
  /\ txns[b.txn].status = "signed"
  /\ pointers' = [l \in Lanes |->
       IF l = TxnLane(Channel[b.system.id]) THEN b.txn
       ELSE IF \E d \in b.moves : LaneOf(d.id) = l
       THEN CHOOSE d \in b.moves : LaneOf(d.id) = l
       ELSE pointers[l]]
  /\ DOMAIN rows' = DOMAIN rows
  /\ \A d \in DOMAIN rows : rows'[d] = IF d \in b.moves THEN "active" ELSE rows[d]
  /\ txns' = [txns EXCEPT ![b.txn].status = "active"]
  /\ repo' = [r \in Releases |->
       IF \E d \in b.moves : d.id = r
       THEN [repo[r] EXCEPT !.stage = "published"] ELSE repo[r]]
  /\ UNCHANGED <<cohort, artifacts, drafts, approvals, files>>

LEMMA CommitCases ==
  ASSUME ReleaseInv, NEW h \in Handlers, ActivateCommit(h) \/ RenewCommit(h)
  PROVE  \/ UNCHANGED data /\ End(h)
         \/ \E b : Commits(h, b)
<1>1. CASE ActivateCommit(h)
    <2>1. PICK b : b = calls[h]
        OBVIOUS
    <2>2. /\ b.pc = "commit" /\ End(h)
          /\ UNCHANGED <<cohort, artifacts, drafts, approvals, files>>
        BY <1>1, <2>1 DEF ActivateCommit
    <2>3. CASE UNCHANGED <<pointers, rows, txns, repo>>
        BY <2>2, <2>3 DEF data
    <2>4. CASE ~UNCHANGED <<pointers, rows, txns, repo>>
        <3>1. /\ Unchanged(h) /\ \A d \in b.moves : Prepared(d.id)
              /\ pointers' = [l \in Lanes |->
                   IF l = TxnLane(Channel[b.system.id]) THEN b.txn
                   ELSE IF \E d \in b.moves : LaneOf(d.id) = l
                   THEN CHOOSE d \in b.moves : LaneOf(d.id) = l
                   ELSE pointers[l]]
              /\ rows' = [d \in DOMAIN rows |-> IF d \in b.moves THEN "active" ELSE rows[d]]
              /\ txns' = [txns EXCEPT ![b.txn].status = "active"]
              /\ repo' = [r \in Releases |->
                   IF \E d \in b.moves : d.id = r
                   THEN [repo[r] EXCEPT !.stage = "published"] ELSE repo[r]]
            BY <1>1, <2>1, <2>4 DEF ActivateCommit
        <3>2. /\ DOMAIN rows' = DOMAIN rows
              /\ \A d \in DOMAIN rows : rows'[d] = IF d \in b.moves THEN "active" ELSE rows[d]
            BY <3>1
        <3>3. /\ \A l \in DOMAIN b.expected : pointers[l] = b.expected[l]
              /\ \A d \in b.moves : rows[d] = "signed"
              /\ txns[b.txn].status = "signed"
            BY <2>1, <3>1 DEF Unchanged
        <3>4. Commits(h, b)
            BY <2>1, <2>2, <3>1, <3>2, <3>3 DEF Commits
        <3> QED BY <3>4
    <2> QED BY <2>3, <2>4
<1>2. CASE RenewCommit(h)
    <2>1. PICK b : b = calls[h]
        OBVIOUS
    <2>2. b \in Requests /\ b.pc = "commit" /\ b.op = "renew" /\ PairBound(b)
        BY <1>2, <2>1, CallFacts DEF RenewCommit, CallBound
    <2>3. b.moves = {}
        BY <2>2 DEF PairBound, HasPair
    <2>4. CASE Unchanged(h)
        <3>1. pointers' = [pointers EXCEPT ![TxnLane(Channel[b.system.id])] = b.txn]
            BY <1>2, <2>1, <2>4 DEF RenewCommit
        <3>2. pointers' = [l \in Lanes |->
                IF l = TxnLane(Channel[b.system.id]) THEN b.txn ELSE pointers[l]]
            BY <3>1 DEF ReleaseInv, TypeOK
        <3>3. pointers' = [l \in Lanes |->
                IF l = TxnLane(Channel[b.system.id]) THEN b.txn
                ELSE IF \E d \in b.moves : LaneOf(d.id) = l
                THEN CHOOSE d \in b.moves : LaneOf(d.id) = l
                ELSE pointers[l]]
            BY <2>3, <3>2
        <3>4. /\ DOMAIN rows' = DOMAIN rows
              /\ \A d \in DOMAIN rows : rows'[d] = IF d \in b.moves THEN "active" ELSE rows[d]
            BY <1>2, <2>3 DEF RenewCommit
        <3>5. repo' = [r \in Releases |->
                IF \E d \in b.moves : d.id = r
                THEN [repo[r] EXCEPT !.stage = "published"] ELSE repo[r]]
            BY <1>2, <2>3 DEF RenewCommit, repoVars, ReleaseInv, TypeOK
        <3>6. Commits(h, b)
            BY <1>2, <2>1, <2>2, <2>3, <2>4, <3>3, <3>4, <3>5 DEF RenewCommit, Unchanged, Commits, repoVars
        <3> QED BY <3>6
    <2>5. CASE ~Unchanged(h)
        BY <1>2, <2>5 DEF RenewCommit, data, repoVars
    <2> QED BY <2>4, <2>5
<1> QED BY <1>1, <1>2

(* The pair it makes live: afterwards both manifests are active and their     *)
(* lanes point at them.                                                       *)
Pair(b, ch) ==
  /\ ch = Channel[b.system.id] /\ ch \in Channels
  /\ b.system \in Digests /\ b.system.id \in Releases \ OprReleases /\ Signed(b.system)
  /\ b.opr \in Digests /\ b.opr.id \in OprReleases /\ Signed(b.opr)
  /\ drafts[b.opr.id].binds = b.system
  /\ b.moves \subseteq {b.system, b.opr}
  /\ \A d \in b.moves : /\ rows[d] = "signed" /\ Prepared(d.id)
                        /\ pointers[LaneOf(d.id)] = drafts[d.id].parent
  /\ \A d \in {b.system, b.opr} \ b.moves :
       /\ rows[d] = "active" /\ pointers[LaneOf(d.id)] = d
  /\ b.txn \in DOMAIN txns /\ txns[b.txn].status = "signed"
  /\ txns[b.txn].system = b.system /\ txns[b.txn].opr = b.opr
  /\ txns[b.txn].parent = pointers[TxnLane(ch)]

LEMMA CommitPair ==
  ASSUME ReleaseInv, NEW h \in Handlers, NEW b, Commits(h, b)
  PROVE  Pair(b, Channel[b.system.id])
<1> DEFINE ch == Channel[b.system.id]
<1>1. /\ b \in Requests /\ b.pc = "commit" /\ TodoBound(b) /\ PairBound(b) /\ TransactionBound(b)
    BY CallFacts DEF Commits, CallBound
<1>2. HasPair(b)
    BY <1>1 DEF TodoBound, HasPair
<1>3. /\ Signed(b.system) /\ b.system.id \notin OprReleases
      /\ Signed(b.opr) /\ b.opr.id \in OprReleases
      /\ drafts[b.opr.id].binds = b.system
      /\ LaneOf(b.system.id) \in DOMAIN b.expected /\ LaneOf(b.opr.id) \in DOMAIN b.expected
    BY <1>1, <1>2 DEF PairBound
<1>4. /\ b.system \in Digests /\ b.opr \in Digests
      /\ b.system.id \in Releases /\ b.opr.id \in Releases
    BY <1>3 DEF Signed, ReleaseInv, TypeOK, Digests
<1>5. ch \in Channels
    BY <1>3, <1>4, LaneFacts
<1>6. /\ b.txn \in DOMAIN txns /\ txns[b.txn].status = "signed"
      /\ txns[b.txn].system = b.system /\ txns[b.txn].opr = b.opr
      /\ txns[b.txn].parent = pointers[TxnLane(ch)]
    BY <1>1 DEF TransactionBound, Commits
<1>7. /\ pointers[LaneOf(b.opr.id)] =
           IF b.op = "renew" THEN b.opr ELSE drafts[b.opr.id].parent
      /\ pointers[LaneOf(b.system.id)] =
           IF b.system \in b.moves THEN drafts[b.system.id].parent ELSE b.system
      /\ b.op = "renew" => b.moves = {} /\ IsActive(b.opr)
      /\ b.op = "activate" => b.moves = {b.opr} \/ b.moves = {b.system, b.opr}
      /\ b.system \notin b.moves => IsActive(b.system)
      /\ b.op \in {"activate", "renew"}
    BY <1>1, <1>2, <1>3 DEF PairBound, HasPair, Commits
<1>8. \A d \in b.moves : rows[d] = "signed" /\ Prepared(d.id)
    BY DEF Commits
<1> QED BY <1>3, <1>4, <1>5, <1>6, <1>7, <1>8 DEF Pair, IsActive

MadeLive(b, ch) ==
  /\ pointers' \in [Lanes -> Heads]
  /\ pointers'[TxnLane(ch)] = b.txn
  /\ pointers'[LaneOf(b.system.id)] = b.system
  /\ pointers'[LaneOf(b.opr.id)] = b.opr
  /\ \A l \in Lanes \ {TxnLane(ch), LaneOf(b.system.id), LaneOf(b.opr.id)} :
       pointers'[l] = pointers[l]
  /\ DOMAIN rows' = DOMAIN rows /\ rows'[b.system] = "active" /\ rows'[b.opr] = "active"
  /\ \A d \in DOMAIN rows \ {b.system, b.opr} : rows'[d] = rows[d]
  /\ DOMAIN txns' = DOMAIN txns /\ txns'[b.txn] = [txns[b.txn] EXCEPT !.status = "active"]
  /\ \A t \in DOMAIN txns \ {b.txn} : txns'[t] = txns[t]
  /\ repo' \in [Releases -> Repositories]
  /\ \A r \in Releases :
       /\ repo'[r].parent = repo[r].parent /\ repo'[r].packages = repo[r].packages
       /\ repo'[r].stage = IF r \in {b.system.id, b.opr.id} THEN "published"
                           ELSE repo[r].stage
  /\ UNCHANGED <<cohort, artifacts, drafts, approvals, files>>

LEMMA CommitEffect ==
  ASSUME ReleaseInv, NEW h \in Handlers, NEW b, Commits(h, b), NEW ch, Pair(b, ch)
  PROVE  MadeLive(b, ch)
<1>1. /\ LaneOf(b.system.id) # LaneOf(b.opr.id) /\ LaneOf(b.system.id) # TxnLane(ch)
      /\ LaneOf(b.opr.id) # TxnLane(ch)
      /\ LaneOf(b.system.id) \in Lanes /\ LaneOf(b.opr.id) \in Lanes /\ TxnLane(ch) \in Lanes
      /\ b.opr.id \in Releases
    BY LaneFacts, RepositoryAssumption DEF Pair
<1>2. pointers' = [l \in Lanes |->
        IF l = TxnLane(ch) THEN b.txn
        ELSE IF \E d \in b.moves : LaneOf(d.id) = l
        THEN CHOOSE d \in b.moves : LaneOf(d.id) = l
        ELSE pointers[l]]
    BY DEF Commits, Pair
<1>3. \A d \in {b.system, b.opr} : d \in b.moves =>
        (CHOOSE e \in b.moves : LaneOf(e.id) = LaneOf(d.id)) = d
    BY <1>1 DEF Pair
<1>4. /\ pointers'[TxnLane(ch)] = b.txn
      /\ pointers'[LaneOf(b.system.id)] = b.system
      /\ pointers'[LaneOf(b.opr.id)] = b.opr
    <2>1. pointers'[TxnLane(ch)] = b.txn
        BY <1>1, <1>2
    <2>2. ASSUME NEW d \in {b.system, b.opr} PROVE pointers'[LaneOf(d.id)] = d
        <3>1. LaneOf(d.id) \in Lanes /\ LaneOf(d.id) # TxnLane(ch)
            BY <1>1
        <3>2. CASE d \in b.moves
            BY <1>2, <1>3, <3>1, <3>2
        <3>3. CASE d \notin b.moves
            <4>1. ~\E e \in b.moves : LaneOf(e.id) = LaneOf(d.id)
                BY <1>1, <3>3 DEF Pair
            <4>2. pointers[LaneOf(d.id)] = d
                BY <3>3 DEF Pair
            <4> QED BY <1>2, <3>1, <4>1, <4>2
        <3> QED BY <3>2, <3>3
    <2> QED BY <2>1, <2>2
<1>5. \A l \in Lanes \ {TxnLane(ch), LaneOf(b.system.id), LaneOf(b.opr.id)} :
        pointers'[l] = pointers[l]
    BY <1>2 DEF Pair
<1>6. pointers' \in [Lanes -> Heads]
    <2>1. b.txn \in Heads /\ b.system \in Heads /\ b.opr \in Heads
        BY DEF Pair, Heads, OrNull, ReleaseInv, TypeOK
    <2>2. \A l \in Lanes : pointers'[l] \in Heads
        BY <1>4, <1>5, <2>1 DEF ReleaseInv, TypeOK
    <2>3. pointers' = [l \in Lanes |-> pointers'[l]]
        BY <1>2
    <2> QED BY <2>2, <2>3
<1>7. /\ DOMAIN rows' = DOMAIN rows /\ rows'[b.system] = "active" /\ rows'[b.opr] = "active"
      /\ \A d \in DOMAIN rows \ {b.system, b.opr} : rows'[d] = rows[d]
    BY DEF Commits, Pair, Signed
<1>8. /\ DOMAIN txns' = DOMAIN txns /\ txns'[b.txn] = [txns[b.txn] EXCEPT !.status = "active"]
      /\ \A t \in DOMAIN txns \ {b.txn} : txns'[t] = txns[t]
    BY DEF Commits, Pair
<1>9. repo' \in [Releases -> Repositories]
      /\ \A r \in Releases :
           /\ repo'[r].parent = repo[r].parent /\ repo'[r].packages = repo[r].packages
           /\ repo'[r].stage = IF \E d \in b.moves : d.id = r THEN "published" ELSE repo[r].stage
    <2>1. repo \in [Releases -> Repositories]
        BY DEF ReleaseInv, TypeOK
    <2>2. repo' = [r \in Releases |->
            IF \E d \in b.moves : d.id = r
            THEN [repo[r] EXCEPT !.stage = "published"] ELSE repo[r]]
        BY DEF Commits
    <2> QED BY <2>1, <2>2 DEF Repositories, Stages
<1>10. \A d \in {b.system, b.opr} \ b.moves : repo[d.id].stage = "published"
    BY DEF ReleaseInv, RowsInv, Pair, Signed
<1>11. \A r \in Releases :
         repo'[r].stage = IF r \in {b.system.id, b.opr.id} THEN "published" ELSE repo[r].stage
    BY <1>9, <1>10 DEF Pair
<1>12. UNCHANGED <<cohort, artifacts, drafts, approvals, files>>
    BY DEF Commits
<1> QED BY <1>4, <1>5, <1>6, <1>7, <1>8, <1>9, <1>11, <1>12 DEF MadeLive

LEMMA LiveFacts ==
  ASSUME ReleaseInv, NEW b, NEW ch, Pair(b, ch), MadeLive(b, ch)
  PROVE  /\ Grows
         /\ \A d : IsActive(d)' <=> IsActive(d) \/ d \in {b.system, b.opr}
         /\ \A d : Signed(d)' <=> Signed(d)
         /\ \A t : IsLive(t)' <=> IsLive(t) \/ t = b.txn
         /\ \A t \in DOMAIN txns :
              /\ txns'[t].parent = txns[t].parent /\ txns'[t].sequence = txns[t].sequence
              /\ txns'[t].system = txns[t].system /\ txns'[t].opr = txns[t].opr
              /\ txns'[t].status = IF t = b.txn THEN "active" ELSE txns[t].status
<1>1. txns[b.txn] \in Transactions /\ b.txn \in DOMAIN txns
    BY DEF Pair, ReleaseInv, TypeOK
<1>2. /\ txns'[b.txn].parent = txns[b.txn].parent
      /\ txns'[b.txn].sequence = txns[b.txn].sequence
      /\ txns'[b.txn].system = txns[b.txn].system /\ txns'[b.txn].opr = txns[b.txn].opr
      /\ txns'[b.txn].status = "active"
    BY <1>1 DEF MadeLive, Transactions
<1>3. \A t \in DOMAIN txns :
        /\ txns'[t].parent = txns[t].parent /\ txns'[t].sequence = txns[t].sequence
        /\ txns'[t].system = txns[t].system /\ txns'[t].opr = txns[t].opr
        /\ txns'[t].status = IF t = b.txn THEN "active" ELSE txns[t].status
    BY <1>2 DEF MadeLive
<1>4. \A d : Signed(d)' <=> Signed(d)
    BY DEF Pair, MadeLive, Signed
<1>5. \A d : IsActive(d)' <=> IsActive(d) \/ d \in {b.system, b.opr}
    BY DEF Pair, MadeLive, Signed, IsActive
<1>6. \A t : IsLive(t)' <=> IsLive(t) \/ t = b.txn
    BY <1>1, <1>3 DEF MadeLive, IsLive
<1>7. RepoGrows
    BY DEF MadeLive, RepoGrows, Prepared
<1>8. RowsGrow
    BY DEF Pair, MadeLive, RowsGrow
<1>9. TxnsGrow
    BY <1>3 DEF MadeLive, TxnsGrow
<1> QED BY <1>3, <1>4, <1>5, <1>6, <1>7, <1>8, <1>9 DEF Grows

(* A manifest that becomes active has a number no active one of its lane has: *)
(* it is the successor of the one the lane points at.                         *)
LEMMA NewNumber ==
  ASSUME ReleaseInv, NEW b, NEW ch, Pair(b, ch), NEW d \in b.moves
  PROVE  /\ d.id \in Releases /\ d \in DOMAIN rows /\ drafts[d.id].sequence \in Nat
         /\ \A e \in DOMAIN rows : rows[e] = "active" /\ LaneOf(e.id) = LaneOf(d.id) =>
              drafts[e.id].sequence < drafts[d.id].sequence
<1>1. /\ d \in DOMAIN rows /\ d.id \in Releases /\ d.id \in DOMAIN drafts
      /\ pointers[LaneOf(d.id)] = drafts[d.id].parent
    BY RepositoryAssumption DEF Pair, Signed, ReleaseInv, RowsInv
<1>2. drafts[d.id].sequence = SequenceOf(pointers[LaneOf(d.id)]) + 1
    BY <1>1 DEF ReleaseInv, DraftsInv, SoundDraft
<1>3. SequenceOf(pointers[LaneOf(d.id)]) \in Nat
    BY <1>1, LaneHead
<1>4. \A e \in DOMAIN rows : rows[e] = "active" /\ LaneOf(e.id) = LaneOf(d.id) =>
        /\ drafts[e.id].sequence <= SequenceOf(pointers[LaneOf(d.id)])
        /\ drafts[e.id].sequence \in Nat
    BY DEF ReleaseInv, LanesInv, RowsInv, TypeOK, Manifests
<1> QED BY <1>1, <1>2, <1>3, <1>4

LEMMA CommitRows ==
  ASSUME ReleaseInv, NEW b, NEW ch, Pair(b, ch), MadeLive(b, ch)
  PROVE  RepoInv' /\ DraftsInv' /\ RowsInv'
<1>1. RepoInv'
    <2>1. \A r \in Releases :
            /\ repo'[r].packages = repo[r].packages /\ repo'[r].parent = repo[r].parent
            /\ repo[r].stage = "published" => repo'[r].stage = "published"
            /\ repo'[r].stage # "none" => repo[r].stage # "none"
        <3>1. \A d \in {b.system, b.opr} : repo[d.id].stage # "none"
            BY DEF Pair, Prepared, ReleaseInv, RowsInv, Signed
        <3> QED BY <3>1 DEF MadeLive
    <2>2. \A r \in Releases : repo[r].parent # Null => repo[r].parent \in Releases
        BY DEF ReleaseInv, TypeOK, Repositories, OrNull
    <2>3. artifacts' = artifacts
        BY DEF MadeLive
    <2> QED BY <2>1, <2>2, <2>3 DEF ReleaseInv, RepoInv
<1>2. DraftsInv'
    BY LiveFacts, DraftsKept DEF MadeLive
<1>3. RowsInv'
    <2>1. drafts' = drafts /\ DOMAIN rows' = DOMAIN rows
        BY DEF MadeLive
    <2>2. \A d, e \in DOMAIN rows' : Signed(d)' /\ Signed(e)' /\ d.id = e.id => d = e
        BY <2>1, LiveFacts DEF ReleaseInv, RowsInv
    <2>3. ASSUME NEW d \in DOMAIN rows, IsActive(d)'
          PROVE  /\ repo'[d.id].stage = "published"
                 /\ d.id \in OprReleases => IsActive(drafts[d.id].binds)'
        <3>1. d.id \in Releases
            BY DEF ReleaseInv, TypeOK, Digests
        <3>2. CASE d \in {b.system, b.opr}
            <4>1. repo'[d.id].stage = "published"
                BY <3>1, <3>2 DEF MadeLive
            <4>2. d.id \in OprReleases => d = b.opr /\ drafts'[d.id].binds = b.system
                BY <2>1, <3>2 DEF Pair
            <4>3. b.system \in DOMAIN rows' /\ rows'[b.system] = "active"
                BY DEF Pair, MadeLive, Signed
            <4> QED BY <4>1, <4>2, <4>3 DEF IsActive
        <3>3. CASE IsActive(d)
            <4>1. repo[d.id].stage = "published" /\ (d.id \in OprReleases => IsActive(drafts[d.id].binds))
                BY <3>3 DEF ReleaseInv, RowsInv, IsActive
            <4>2. repo'[d.id].stage = "published"
                BY <3>1, <4>1 DEF MadeLive
            <4>3. d.id \in OprReleases => IsActive(drafts[d.id].binds)'
                BY <2>1, <4>1, LiveFacts
            <4> QED BY <4>2, <4>3
        <3> QED BY <2>3, <3>2, <3>3, LiveFacts
    <2>4. \A d \in DOMAIN rows' : rows'[d] = "active" => IsActive(d)'
        BY DEF IsActive
    <2> QED BY <2>1, <2>2, <2>3, <2>4 DEF ReleaseInv, RowsInv
<1> QED BY <1>1, <1>2, <1>3

LEMMA CommitLanes ==
  ASSUME ReleaseInv, NEW b, NEW ch, Pair(b, ch), MadeLive(b, ch)
  PROVE  LanesInv'
<1>1. /\ LaneOf(b.system.id) # LaneOf(b.opr.id)
      /\ b.system.id \in Releases /\ b.opr.id \in Releases
      /\ b.system \in DOMAIN rows /\ b.opr \in DOMAIN rows
    BY LaneFacts, RepositoryAssumption DEF Pair, Signed
<1>2. \A r \in Releases : LaneOf(r) \in Lanes /\ LaneOf(r) # TxnLane(ch)
    BY LaneFacts DEF Pair
<1>3. \A d \in {b.system, b.opr} : pointers'[LaneOf(d.id)] = d /\ IsActive(d)'
    BY LiveFacts DEF MadeLive
<1>4. \A r \in Releases : LaneOf(r) \notin {LaneOf(b.system.id), LaneOf(b.opr.id)} =>
        pointers'[LaneOf(r)] = pointers[LaneOf(r)]
    BY <1>2 DEF MadeLive
<1>5. \A d \in DOMAIN rows : d.id \in Releases /\ drafts'[d.id] = drafts[d.id]
    BY DEF MadeLive, ReleaseInv, TypeOK, Digests
<1>6. \A d : d = Null \/ d \in DOMAIN rows => SequenceOf(d)' = SequenceOf(d)
    BY LiveFacts, SequenceStays DEF ReleaseInv, Grows
<1>7. ASSUME NEW r \in Releases, pointers'[LaneOf(r)] # Null
      PROVE  IsActive(pointers[LaneOf(r)])' /\ LaneOf(pointers'[LaneOf(r)].id) = LaneOf(r)
    <2>1. CASE \E d \in {b.system, b.opr} : LaneOf(r) = LaneOf(d.id)
        <3>1. PICK d \in {b.system, b.opr} : LaneOf(r) = LaneOf(d.id)
            BY <2>1
        <3>2. pointers'[LaneOf(r)] = d /\ d \in DOMAIN rows' /\ rows'[d] = "active"
            BY <1>3, <3>1 DEF IsActive
        <3> QED BY <3>1, <3>2 DEF IsActive
    <2>2. CASE ~\E d \in {b.system, b.opr} : LaneOf(r) = LaneOf(d.id)
        <3>1. PICK d : d = pointers[LaneOf(r)]
            OBVIOUS
        <3>2. pointers'[LaneOf(r)] = d
            BY <1>4, <2>2, <3>1
        <3>3. IsActive(d) /\ LaneOf(d.id) = LaneOf(r)
            BY <1>7, <3>1, <3>2 DEF ReleaseInv, LanesInv
        <3>4. d \in DOMAIN rows' /\ rows'[d] = "active"
            BY <3>3, LiveFacts DEF IsActive
        <3> QED BY <3>2, <3>3, <3>4 DEF IsActive
    <2> QED BY <2>1, <2>2
<1>8. ASSUME NEW d \in DOMAIN rows, rows'[d] = "active"
      PROVE  /\ pointers'[LaneOf(d.id)] # Null
             /\ drafts'[d.id].sequence <= SequenceOf(pointers[LaneOf(d.id)])'
    <2>1. \A e \in DOMAIN rows : drafts[e.id].sequence \in Nat
        BY DEF ReleaseInv, RowsInv, TypeOK, Manifests
    <2>2. \A e \in DOMAIN rows : e # Null /\ SequenceOf(e) = drafts[e.id].sequence
        BY NullFacts DEF SequenceOf, ReleaseInv, TypeOK
    <2>3. CASE \E e \in {b.system, b.opr} : LaneOf(d.id) = LaneOf(e.id)
        <3>1. PICK e \in {b.system, b.opr} : LaneOf(d.id) = LaneOf(e.id)
            BY <2>3
        <3>2. pointers'[LaneOf(d.id)] = e /\ e \in DOMAIN rows
            BY <1>1, <1>3, <3>1
        <3>3. SequenceOf(pointers[LaneOf(d.id)])' = drafts[e.id].sequence
            BY <1>5, <2>2, <3>2 DEF SequenceOf
        <3>4. drafts[d.id].sequence <= drafts[e.id].sequence
            <4>1. CASE d = e
                BY <2>1, <4>1
            <4>2. CASE d # e
                <5>1. rows[d] = "active"
                    <6>1. d \notin {b.system, b.opr}
                        BY <1>1, <3>1, <4>2
                    <6> QED BY <1>8, <6>1 DEF MadeLive
                <5>2. CASE e \in b.moves
                    BY <2>1, <3>1, <3>2, <5>1, <5>2, NewNumber
                <5>3. CASE e \notin b.moves
                    <6>1. pointers[LaneOf(e.id)] = e
                        BY <5>3 DEF Pair
                    <6>2. drafts[d.id].sequence <= SequenceOf(pointers[LaneOf(d.id)])
                        BY <5>1 DEF ReleaseInv, LanesInv
                    <6> QED BY <2>2, <3>1, <3>2, <6>1, <6>2
                <5> QED BY <5>2, <5>3
            <4> QED BY <4>1, <4>2
        <3> QED BY <1>5, <2>2, <3>2, <3>3, <3>4
    <2>4. CASE ~\E e \in {b.system, b.opr} : LaneOf(d.id) = LaneOf(e.id)
        <3>1. rows[d] = "active"
            BY <1>8, <2>4 DEF MadeLive
        <3>2. /\ pointers[LaneOf(d.id)] # Null
              /\ drafts[d.id].sequence <= SequenceOf(pointers[LaneOf(d.id)])
            BY <3>1 DEF ReleaseInv, LanesInv
        <3>3. pointers'[LaneOf(d.id)] = pointers[LaneOf(d.id)]
            BY <1>4, <1>5, <2>4
        <3>4. pointers[LaneOf(d.id)] \in DOMAIN rows
            BY <1>5, <3>2, LaneHead DEF OrNull
        <3>5. SequenceOf(pointers[LaneOf(d.id)])' = SequenceOf(pointers[LaneOf(d.id)])
            BY <1>5, <3>3, <3>4 DEF SequenceOf
        <3> QED BY <1>5, <3>2, <3>3, <3>5
    <2> QED BY <2>3, <2>4
<1>9. ASSUME NEW d \in DOMAIN rows, NEW e \in DOMAIN rows,
             rows'[d] = "active", rows'[e] = "active",
             LaneOf(d.id) = LaneOf(e.id), drafts[d.id].sequence = drafts[e.id].sequence
      PROVE  d = e
    <2>1. \A x \in DOMAIN rows : drafts[x.id].sequence \in Nat
        BY DEF ReleaseInv, RowsInv, TypeOK, Manifests
    <2>2. \A x \in DOMAIN rows : rows'[x] = "active" => rows[x] = "active" \/ x \in b.moves
        BY DEF MadeLive, Pair
    <2>3. \A x, y \in b.moves : LaneOf(x.id) = LaneOf(y.id) => x = y
        BY <1>1 DEF Pair
    <2>4. CASE rows[d] = "active" /\ rows[e] = "active"
        BY <1>9, <2>4 DEF ReleaseInv, LanesInv
    <2>5. CASE rows[d] = "active" /\ e \in b.moves
        BY <1>9, <2>1, <2>5, NewNumber
    <2>6. CASE d \in b.moves /\ rows[e] = "active"
        BY <1>9, <2>1, <2>6, NewNumber
    <2>7. CASE d \in b.moves /\ e \in b.moves
        BY <1>9, <2>3, <2>7
    <2> QED BY <1>9, <2>2, <2>4, <2>5, <2>6, <2>7
<1>10. DOMAIN rows' = DOMAIN rows
    BY DEF MadeLive
<1> QED BY <1>5, <1>7, <1>8, <1>9, <1>10 DEF LanesInv

LEMMA CommitTxns ==
  ASSUME ReleaseInv, NEW b, NEW ch, Pair(b, ch), MadeLive(b, ch)
  PROVE  TxnsInv'
<1>1. DOMAIN txns' = DOMAIN txns /\ files' = files /\ Grows
    BY LiveFacts DEF MadeLive
<1>2. ASSUME NEW t \in DOMAIN txns PROVE SoundTransaction(t)'
    <2>1. SoundTransaction(t)
        BY DEF ReleaseInv, TxnsInv
    <2>2. txns[t].parent # Null => txns[t].parent \in DOMAIN txns
        BY <2>1 DEF SoundTransaction, IsLive
    <2>3. txns'[t].opr = txns[t].opr
        BY LiveFacts
    <2>4. txns'[t].status = "active" => txns[t].status = "active" \/ txns[t].opr = b.opr
        BY LiveFacts DEF Pair
    <2>5. txns'[t].status = "active" => IsActive(txns[t].opr) \/ txns[t].opr = b.opr
        BY <2>1, <2>4 DEF SoundTransaction
    <2>6. PICK o : o = txns[t].opr
        OBVIOUS
    <2>7. txns'[t].status = "active" => o \in DOMAIN rows' /\ rows'[o] = "active"
        BY <2>5, <2>6, LiveFacts DEF IsActive
    <2>8. txns'[t].status = "active" => IsActive(txns[t].opr)'
        BY <2>3, <2>6, <2>7 DEF IsActive
    <2> QED BY <1>1, <2>1, <2>2, <2>8, TransactionStays DEF ReleaseInv, Grows
<1> QED BY <1>1, <1>2 DEF ReleaseInv, TxnsInv

(* The transaction that becomes current extends the one that was: its number  *)
(* is above that of every transaction of the channel.                         *)
LEMMA NewTransaction ==
  ASSUME ReleaseInv, NEW b, NEW ch, Pair(b, ch)
  PROVE  /\ ChannelOf(b.txn) = ch /\ txns[b.txn].sequence \in Nat
         /\ \A t \in DOMAIN txns : txns[t].sequence \in Nat
         /\ \A t \in DOMAIN txns : txns[t].status = "active" /\ ChannelOf(t) = ch =>
              txns[t].sequence < txns[b.txn].sequence
<1>1. \A t \in DOMAIN txns : txns[t].sequence \in Nat
    BY DEF ReleaseInv, TypeOK, Transactions
<1>2. b.txn \in DOMAIN txns /\ ChannelOf(b.txn) = ch
    BY DEF Pair, ChannelOf
<1>3. txns[b.txn].sequence = TxnSequence(pointers[TxnLane(ch)]) + 1
    BY <1>2 DEF Pair, ReleaseInv, TxnsInv, SoundTransaction
<1>4. TxnSequence(pointers[TxnLane(ch)]) \in Nat
    BY ChannelHead DEF Pair
<1>5. \A t \in DOMAIN txns : txns[t].status = "active" /\ ChannelOf(t) = ch =>
        txns[t].sequence <= TxnSequence(pointers[TxnLane(ch)])
    BY DEF ReleaseInv, ServedInv
<1> QED BY <1>1, <1>2, <1>3, <1>4, <1>5

LEMMA CommitServed ==
  ASSUME ReleaseInv, NEW b, NEW ch, Pair(b, ch), MadeLive(b, ch)
  PROVE  ServedInv'
<1>1. /\ b.system.id \in Releases /\ b.opr.id \in Releases /\ ch \in Channels
      /\ b.txn \in DOMAIN txns /\ DOMAIN txns' = DOMAIN txns
    BY RepositoryAssumption DEF Pair, MadeLive
<1>2. \A c \in Channels : c # ch => pointers'[TxnLane(c)] = pointers[TxnLane(c)]
    BY <1>1, LaneFacts DEF MadeLive
<1>3. \A r \in Releases \ OprReleases : Channel[r] # ch =>
        pointers'[LaneOf(r)] = pointers[LaneOf(r)]
    <2> SUFFICES ASSUME NEW r \in Releases \ OprReleases, Channel[r] # ch
                 PROVE  pointers'[LaneOf(r)] = pointers[LaneOf(r)]
        OBVIOUS
    <2>1. /\ LaneOf(r) \in Lanes /\ LaneOf(r) # TxnLane(ch)
          /\ LaneOf(r) # LaneOf(b.system.id) /\ LaneOf(r) # LaneOf(b.opr.id)
        BY <1>1, LaneFacts DEF Pair
    <2> QED BY <2>1 DEF MadeLive
<1>4. \A t \in DOMAIN txns :
        /\ txns'[t].sequence = txns[t].sequence /\ ChannelOf(t)' = ChannelOf(t)
        /\ txns'[t].system = txns[t].system
        /\ txns'[t].status = IF t = b.txn THEN "active" ELSE txns[t].status
    BY LiveFacts DEF ChannelOf
<1>5. \A t \in DOMAIN txns : txns[t].system.id \in Releases \ OprReleases
    BY DEF ReleaseInv, TypeOK, TxnsInv, SoundTransaction, Transactions, Digests
<1>6. \A t : t = Null \/ t \in DOMAIN txns => TxnSequence(t)' = TxnSequence(t)
    BY LiveFacts, TxnSequenceStays DEF Grows
<1>7. \A t \in DOMAIN txns : t # Null /\ TxnSequence(t) = txns[t].sequence
    BY NullFacts DEF ReleaseInv, TypeOK, TxnSequence
<1>8. pointers'[TxnLane(ch)] = b.txn /\ pointers'[LaneOf(b.system.id)] = b.system
    BY DEF MadeLive
<1>9. ASSUME NEW c \in Channels, pointers'[TxnLane(c)] # Null
      PROVE  /\ IsLive(pointers[TxnLane(c)])' /\ ChannelOf(pointers[TxnLane(c)])' = c
             /\ pointers'[LaneOf(txns'[pointers'[TxnLane(c)]].system.id)]
                  = txns'[pointers'[TxnLane(c)]].system
    <2>1. PICK t : t = pointers'[TxnLane(c)]
        OBVIOUS
    <2>2. CASE c = ch
        <3>1. t = b.txn /\ txns'[t].system = b.system /\ txns'[t].status = "active"
            BY <1>1, <1>4, <1>8, <2>1, <2>2 DEF Pair
        <3>2. /\ t \in DOMAIN txns' /\ ch = Channel[txns'[t].system.id]
              /\ pointers'[LaneOf(txns'[t].system.id)] = txns'[t].system
            BY <1>1, <1>8, <3>1 DEF Pair
        <3>3. t = pointers'[TxnLane(c)]
            BY <2>1
        <3> QED BY <2>2, <3>1, <3>2, <3>3 DEF IsLive, ChannelOf
    <2>3. CASE c # ch
        <3>1. t = pointers[TxnLane(c)]
            BY <1>2, <2>1, <2>3
        <3>2. IsLive(t) /\ ChannelOf(t) = c
              /\ pointers[LaneOf(txns[t].system.id)] = txns[t].system
            BY <1>9, <2>1, <3>1 DEF ReleaseInv, ServedInv
        <3>3. t \in DOMAIN txns /\ txns[t].status = "active" /\ Channel[txns[t].system.id] = c
            BY <3>2 DEF IsLive, ChannelOf
        <3>4. pointers'[LaneOf(txns[t].system.id)] = txns[t].system
            BY <1>3, <1>5, <2>3, <3>2, <3>3
        <3>5. txns'[t].status = "active" /\ txns'[t].system = txns[t].system
            BY <1>4, <3>3
        <3> QED BY <1>1, <2>1, <3>3, <3>4, <3>5 DEF IsLive, ChannelOf
    <2> QED BY <2>2, <2>3
<1>10. ASSUME NEW r \in Releases \ OprReleases, pointers'[LaneOf(r)] # Null
       PROVE  pointers'[TxnLane(Channel[r])] # Null
    <2>1. CASE Channel[r] = ch
        BY <1>1, <1>7, <1>8, <2>1
    <2>2. CASE Channel[r] # ch
        BY <1>2, <1>3, <1>10, <2>2, LaneFacts DEF ReleaseInv, ServedInv
    <2> QED BY <2>1, <2>2
<1>11. ASSUME NEW t \in DOMAIN txns, txns'[t].status = "active"
       PROVE  /\ pointers'[TxnLane(ChannelOf(t))] # Null
              /\ txns[t].sequence <= TxnSequence(pointers'[TxnLane(ChannelOf(t))])
    <2>1. ChannelOf(t) \in Channels
        BY <1>5, LaneFacts DEF ChannelOf
    <2>2. CASE ChannelOf(t) = ch
        <3>1. txns[t].sequence <= txns[b.txn].sequence
            BY <1>4, <1>11, <2>2, NewTransaction
        <3> QED BY <1>1, <1>7, <1>8, <2>2, <3>1
    <2>3. CASE ChannelOf(t) # ch
        <3>1. txns[t].status = "active"
            BY <1>4, <1>11, <2>3, NewTransaction
        <3> QED BY <1>2, <2>1, <2>3, <3>1 DEF ReleaseInv, ServedInv
    <2> QED BY <2>2, <2>3
<1>12. ASSUME NEW t \in DOMAIN txns, NEW u \in DOMAIN txns,
              txns'[t].status = "active", txns'[u].status = "active",
              ChannelOf(t) = ChannelOf(u), txns[t].sequence = txns[u].sequence
       PROVE  t = u
    <2>1. CASE t # b.txn /\ u # b.txn
        BY <1>4, <1>12, <2>1 DEF ReleaseInv, ServedInv
    <2>2. CASE t = b.txn /\ u # b.txn
        BY <1>4, <1>12, <2>2, NewTransaction
    <2>3. CASE t # b.txn /\ u = b.txn
        BY <1>4, <1>12, <2>3, NewTransaction
    <2> QED BY <2>1, <2>2, <2>3
<1>13. ASSUME NEW t \in DOMAIN txns, txns'[t].status = "active"
       PROVE  /\ pointers'[TxnLane(ChannelOf(t)')] # Null
              /\ txns'[t].sequence <= TxnSequence(pointers[TxnLane(ChannelOf(t))])'
    <2>1. PICK c : c = ChannelOf(t)
        OBVIOUS
    <2>2. ChannelOf(t)' = c /\ c \in Channels
        BY <1>4, <1>5, <2>1, LaneFacts DEF ChannelOf
    <2>3. PICK p : p = pointers'[TxnLane(c)]
        OBVIOUS
    <2>4. p # Null /\ txns[t].sequence <= TxnSequence(p)
        BY <1>11, <1>13, <2>1, <2>3
    <2>5. p \in DOMAIN txns
        BY <1>1, <1>9, <2>2, <2>3, <2>4 DEF IsLive
    <2>6. TxnSequence(p)' = TxnSequence(p)
        BY <1>6, <2>5
    <2> QED BY <1>4, <2>2, <2>3, <2>4, <2>6 DEF TxnSequence
<1> QED BY <1>1, <1>4, <1>9, <1>10, <1>12, <1>13 DEF ServedInv

LEMMA CommitKeeps ==
  ASSUME ReleaseInv, NEW h \in Handlers, ActivateCommit(h) \/ RenewCommit(h)
  PROVE  ReleaseInv'
<1>1. CASE UNCHANGED data /\ End(h)
    BY <1>1, CallEnds
<1>2. ASSUME NEW b, Commits(h, b) PROVE ReleaseInv'
    <2>1. PICK ch : ch = Channel[b.system.id]
        OBVIOUS
    <2>2. Pair(b, ch) /\ MadeLive(b, ch)
        BY <1>2, <2>1, CommitPair, CommitEffect
    <2>3. /\ RepoInv' /\ DraftsInv' /\ RowsInv' /\ LanesInv' /\ TxnsInv' /\ ServedInv'
          /\ Grows
        BY <2>2, CommitRows, CommitLanes, CommitTxns, CommitServed, LiveFacts
    <2>4. End(h) /\ cohort' = cohort
        BY <1>2 DEF Commits
    <2>5. calls' \in [Handlers -> Calls] /\ CallsBound'
        BY <2>3, <2>4, EndStep
    <2>6. TypeOK'
        <3>1. DOMAIN rows' \subseteq Digests /\ \A d \in DOMAIN rows' : rows'[d] \in Statuses
            BY <2>2 DEF MadeLive, ReleaseInv, TypeOK, Statuses
        <3>2. \A t \in DOMAIN txns : txns'[t] \in Transactions
            <4>1. txns'[b.txn] \in Transactions
                BY <2>2 DEF Pair, MadeLive, ReleaseInv, TypeOK, Transactions
            <4> QED BY <2>2, <4>1 DEF MadeLive, ReleaseInv, TypeOK
        <3> QED BY <2>2, <2>5, <3>1, <3>2 DEF MadeLive, ReleaseInv, TypeOK
    <2> QED BY <2>3, <2>5, <2>6 DEF ReleaseInv
<1> QED BY <1>1, <1>2, CommitCases

-----------------------------------------------------------------------------
(* The start *)

LEMMA MergedTyped ==
  ASSUME NEW v \in DOMAIN Native, NEW lane, NEW trusted \in SUBSET Packages
  PROVE  /\ Merged(LaneRecords(v, lane), trusted) \subseteq Packages
         /\ \A p \in Merged(LaneRecords(v, lane), trusted) : p \in trusted \/ p.rev = v
         /\ LaneRecords(v, lane) \in SUBSET UNION {Native[w] : w \in DOMAIN Native}
<1> DEFINE new == UNION {Copies(r) : r \in LaneRecords(v, lane)}
<1>1. LaneRecords(v, lane) \subseteq Native[v]
    BY DEF LaneRecords
<1>2. \A m \in new : (CHOOSE n \in new : SameName(n, m)) \in new
    BY DEF SameName
<1>3. \A p \in Merged(LaneRecords(v, lane), trusted) : p \in trusted \/ p \in new
    BY <1>2 DEF Merged
<1>4. new \subseteq Packages
    BY <1>1 DEF Packages
<1>5. \A m \in new : m.rev = v
    <2> SUFFICES ASSUME NEW r \in LaneRecords(v, lane), NEW m \in Copies(r) PROVE m.rev = v
        OBVIOUS
    <2>1. "rev" \in DOMAIN r /\ r.rev = v
        BY <1>1, RepositoryAssumption
    <2> QED BY <2>1 DEF Copies
<1> QED BY <1>1, <1>3, <1>4, <1>5

LEMMA InitRepository ==
  ASSUME Init
  PROVE  /\ RepoInv /\ artifacts \subseteq Packages /\ repo \in [Releases -> Repositories]
         /\ \A i \in {1, 2} : /\ repo[First[i]].stage = "published"
                              /\ \E p \in repo[First[i]].packages : p.rev = 1
<1>1. /\ First[1] \in Releases \ OprReleases /\ First[2] \in OprReleases
      /\ First[2] \in Releases /\ 1 \in DOMAIN Native /\ 2 \in DOMAIN Native
    BY FirstAssumption, RepositoryAssumption
<1>2. Lane(First[1]) = "system" /\ Lane(First[2]) = "opr"
    BY <1>1 DEF Lane
<1>3. ASSUME NEW lane \in {"system", "opr"}
      PROVE  /\ FirstPackages(lane) \subseteq Packages /\ FirstPackages(lane) # {}
             /\ \A p \in FirstPackages(lane) : p.rev = 1
             /\ OneRecordEach(FirstPackages(lane))
             /\ ReadyPackages(lane) \subseteq Packages /\ ReadyPackages(lane) # {}
             /\ OneRecordEach(ReadyPackages(lane))
             /\ Keeps(ReadyPackages(lane), FirstPackages(lane))
    <2>1. FirstPackages(lane) # {} /\ OneRecordEach(FirstPackages(lane))
          /\ OneRecordEach(ReadyPackages(lane))
          /\ Mergeable(LaneRecords(2, lane), FirstPackages(lane))
        BY FirstAssumption
    <2>2. FirstPackages(lane) \subseteq Packages /\ \A p \in FirstPackages(lane) : p.rev = 1
        BY <1>1, MergedTyped DEF FirstPackages
    <2>3. /\ ReadyPackages(lane) \subseteq Packages
          /\ LaneRecords(2, lane) \in SUBSET UNION {Native[w] : w \in DOMAIN Native}
        BY <1>1, <2>2, MergedTyped DEF ReadyPackages
    <2>4. Keeps(ReadyPackages(lane), FirstPackages(lane))
        BY <2>1, <2>2, <2>3, MergedFacts DEF ReadyPackages
    <2>5. ReadyPackages(lane) # {}
        BY <2>1, <2>4 DEF Keeps
    <2> QED BY <2>1, <2>2, <2>3, <2>4, <2>5
<1> DEFINE parentOf(r) == First[IF Lane(r) = "opr" THEN 2 ELSE 1]
<1>4. ASSUME NEW r \in Releases
      PROVE  \/ /\ r \in {First[1], First[2]}
                /\ repo[r] = [stage |-> "published", parent |-> Null,
                              packages |-> FirstPackages(Lane(r))]
             \/ /\ r \notin {First[1], First[2]}
                /\ repo[r] = [stage |-> "prepared", parent |-> parentOf(r),
                              packages |-> ReadyPackages(Lane(r))]
             \/ r \notin {First[1], First[2]} /\ repo[r] = Unprepared
    BY DEF Init, FirstIn
<1>5. \A r \in Releases : Lane(r) \in {"system", "opr"}
    BY DEF Lane
<1>6. \A r \in Releases : /\ parentOf(r) \in {First[1], First[2]} /\ parentOf(r) \in Releases
                          /\ Lane(parentOf(r)) = Lane(r)
    BY <1>1, <1>2 DEF Lane
<1> HIDE DEF parentOf
<1>7. \A i \in {1, 2} : repo[First[i]] = [stage |-> "published", parent |-> Null,
                                          packages |-> FirstPackages(Lane(First[i]))]
    BY <1>1, <1>4
<1>8. repo \in [Releases -> Repositories]
    <2>1. ASSUME NEW r \in Releases PROVE repo[r] \in Repositories
        <3>1. PICK lane \in {"system", "opr"} : lane = Lane(r)
            BY <1>5
        <3>2. CASE repo[r] = [stage |-> "published", parent |-> Null,
                              packages |-> FirstPackages(Lane(r))]
            BY <1>3, <3>1, <3>2 DEF Repositories, Stages, OrNull
        <3>3. CASE repo[r] = [stage |-> "prepared", parent |-> parentOf(r),
                              packages |-> ReadyPackages(Lane(r))]
            BY <1>3, <1>6, <3>1, <3>3 DEF Repositories, Stages, OrNull
        <3>4. CASE repo[r] = Unprepared
            BY <3>4 DEF Repositories, Stages, OrNull, Unprepared
        <3> QED BY <1>4, <3>2, <3>3, <3>4
    <2>2. repo = [r \in Releases |-> repo[r]]
        BY DEF Init
    <2> QED BY <2>1, <2>2
<1>9. artifacts = UNION {repo[r].packages : r \in Releases}
    BY DEF Init
<1>10. artifacts \subseteq Packages
    BY <1>8, <1>9 DEF Repositories
<1>11. \A p, q \in artifacts : SameFile(p, q) => p = q
    <2> DEFINE all == UNION {FirstPackages(lane) \cup ReadyPackages(lane) : lane \in {"system", "opr"}}
    <2>1. \A r \in Releases : repo[r].packages \subseteq all
        <3> SUFFICES ASSUME NEW r \in Releases PROVE repo[r].packages \subseteq all
            OBVIOUS
        <3>1. \/ repo[r].packages = FirstPackages(Lane(r))
              \/ repo[r].packages = ReadyPackages(Lane(r))
              \/ repo[r].packages = {}
            <4> HIDE DEF all
            <4>1. CASE repo[r] = [stage |-> "published", parent |-> Null,
                                  packages |-> FirstPackages(Lane(r))]
                BY <4>1
            <4>2. CASE repo[r] = [stage |-> "prepared", parent |-> parentOf(r),
                                  packages |-> ReadyPackages(Lane(r))]
                BY <4>2
            <4>3. CASE repo[r] = Unprepared
                BY <4>3 DEF Unprepared
            <4> QED BY <1>4, <4>1, <4>2, <4>3
        <3>2. PICK lane \in {"system", "opr"} : lane = Lane(r)
            BY <1>5
        <3>3. FirstPackages(lane) \subseteq all /\ ReadyPackages(lane) \subseteq all
            OBVIOUS
        <3> HIDE DEF all
        <3> QED BY <3>1, <3>2, <3>3
    <2>2. artifacts \subseteq all
        BY <1>9, <2>1
    <2>3. \A p, q \in all : SameFile(p, q) => p = q
        BY FirstAssumption
    <2> QED BY <2>2, <2>3
<1>12. ASSUME NEW r \in Releases
       PROVE  /\ repo[r].stage # "none" => repo[r].packages # {}
              /\ repo[r].stage # "none" => OneRecordEach(repo[r].packages)
              /\ repo[r].stage # "none" /\ repo[r].parent # Null =>
                   /\ repo[repo[r].parent].stage = "published"
                   /\ Keeps(repo[r].packages, repo[repo[r].parent].packages)
    <2>1. CASE repo[r] = [stage |-> "published", parent |-> Null,
                          packages |-> FirstPackages(Lane(r))]
        BY <1>3, <1>5, <2>1
    <2>2. CASE repo[r] = [stage |-> "prepared", parent |-> parentOf(r),
                          packages |-> ReadyPackages(Lane(r))]
        <3>1. /\ repo[parentOf(r)].stage = "published"
              /\ repo[parentOf(r)].packages = FirstPackages(Lane(r))
            BY <1>6, <1>7
        <3> QED BY <1>3, <1>5, <2>2, <3>1
    <2>3. CASE repo[r] = Unprepared
        BY <2>3 DEF Unprepared
    <2> QED BY <1>4, <2>1, <2>2, <2>3
<1>13. RepoInv
    BY <1>9, <1>11, <1>12 DEF RepoInv
<1>14. \A i \in {1, 2} : /\ repo[First[i]].stage = "published"
                         /\ \E p \in repo[First[i]].packages : p.rev = 1
    BY <1>2, <1>3, <1>7
<1> QED BY <1>8, <1>10, <1>13, <1>14

LEMMA InitReleaseInv ==
  ASSUME Init
  PROVE  ReleaseInv
<1>1. /\ First[1] \in Releases \ OprReleases /\ First[2] \in OprReleases
      /\ First[2] \in Releases /\ 1 \in DOMAIN Native /\ 2 \in DOMAIN Native
      /\ First[1] # First[2]
    BY FirstAssumption, RepositoryAssumption
<1>2. /\ FirstSystem \in Digests /\ FirstSystem.id = First[1]
      /\ FirstOpr \in Digests /\ FirstOpr.id = First[2]
      /\ FirstTeam \subseteq People
    BY <1>1, DigestFacts DEF FirstSystem, FirstOpr, People
<1>3. /\ FirstTxn \in TxnIds /\ FirstTxn[1] = First[1] /\ FirstTxn[2] = First[2]
      /\ FirstTxn # Null /\ FirstSystem # Null /\ FirstOpr # Null
    BY <1>1, <1>2, NullFacts DEF FirstTxn, TxnIds
<1>4. PICK ch \in Channels : ch = Channel[First[1]]
    BY <1>1, LaneFacts
<1>5. /\ LaneOf(First[1]) \in Lanes /\ LaneOf(First[2]) \in Lanes
      /\ LaneOf(First[1]) # LaneOf(First[2])
      /\ \A r \in Releases, c \in Channels : LaneOf(r) # TxnLane(c)
      /\ \A r \in Releases : LaneOf(r) \in Lanes
      /\ \A c \in Channels : TxnLane(c) \in Lanes
    BY <1>1, LaneFacts
<1>6. /\ cohort = [rev |-> 2, condition |-> "ready", epoch |-> 0]
      /\ DOMAIN rows = {FirstSystem, FirstOpr} /\ \A d \in DOMAIN rows : rows[d] = "active"
      /\ DOMAIN approvals = DOMAIN rows /\ \A d \in DOMAIN rows : approvals[d] = FirstTeam
      /\ DOMAIN drafts = {First[1], First[2]}
      /\ files = {First[1], First[2], FirstTxn}
      /\ DOMAIN txns = {FirstTxn}
      /\ txns[FirstTxn] = [status |-> "active", parent |-> Null, sequence |-> 1,
                           system |-> FirstSystem, opr |-> FirstOpr]
      /\ calls = [h \in Handlers |-> Idle]
    BY DEF Init
<1>7. /\ drafts[First[1]] = [parent |-> Null, sequence |-> 1, revision |-> 1, binds |-> Null]
      /\ drafts[First[2]] = [parent |-> Null, sequence |-> 1, revision |-> 1,
                             binds |-> FirstSystem]
    BY <1>1 DEF Init
<1>8. /\ pointers \in [Lanes -> Heads]
      /\ pointers[LaneOf(First[1])] = FirstSystem /\ pointers[LaneOf(First[2])] = FirstOpr
      /\ pointers[TxnLane(ch)] = FirstTxn
      /\ \A l \in Lanes \ {LaneOf(First[1]), LaneOf(First[2]), TxnLane(ch)} : pointers[l] = Null
    <2>1. pointers = [l \in Lanes |->
            IF l = LaneOf(First[1]) THEN FirstSystem
            ELSE IF l = LaneOf(First[2]) THEN FirstOpr
            ELSE IF l = TxnLane(ch) THEN FirstTxn ELSE Null]
        BY <1>4 DEF Init
    <2>2. {FirstSystem, FirstOpr, FirstTxn, Null} \subseteq Heads
        BY <1>2, <1>3 DEF Heads, OrNull
    <2> QED BY <1>1, <1>5, <2>1, <2>2
<1>9. /\ RepoInv /\ artifacts \subseteq Packages /\ repo \in [Releases -> Repositories]
      /\ \A i \in {1, 2} : /\ repo[First[i]].stage = "published"
                           /\ \E p \in repo[First[i]].packages : p.rev = 1
    BY InitRepository
<1>10. /\ \A d : IsActive(d) <=> d \in {FirstSystem, FirstOpr}
       /\ \A d \in {FirstSystem, FirstOpr} : Signed(d)
       /\ IsLive(FirstTxn) /\ ChannelOf(FirstTxn) = ch
    BY <1>2, <1>4, <1>6 DEF IsActive, Signed, IsLive, ChannelOf
<1>11. SequenceOf(Null) = 0 /\ TxnSequence(Null) = 0
       /\ SequenceOf(FirstSystem) = 1 /\ SequenceOf(FirstOpr) = 1 /\ TxnSequence(FirstTxn) = 1
    BY <1>2, <1>3, <1>6, <1>7 DEF SequenceOf, TxnSequence
<1>12. DraftsInv
    <2>1. SoundDraft(First[1], drafts[First[1]])
        BY <1>1, <1>7, <1>9, <1>11 DEF SoundDraft, Prepared
    <2>2. SoundDraft(First[2], drafts[First[2]])
        BY <1>1, <1>2, <1>7, <1>9, <1>10, <1>11 DEF SoundDraft, Prepared
    <2> QED BY <1>6, <2>1, <2>2 DEF DraftsInv
<1>13. RowsInv
    BY <1>1, <1>2, <1>6, <1>7, <1>9, <1>10 DEF RowsInv
<1>14. LanesInv
    <2>1. ASSUME NEW r \in Releases, pointers[LaneOf(r)] # Null
          PROVE  IsActive(pointers[LaneOf(r)]) /\ LaneOf(pointers[LaneOf(r)].id) = LaneOf(r)
        <3>1. LaneOf(r) \in {LaneOf(First[1]), LaneOf(First[2])}
            BY <1>5, <1>8, <2>1
        <3> QED BY <1>2, <1>8, <1>10, <3>1
    <2>2. \A d \in DOMAIN rows : /\ pointers[LaneOf(d.id)] = d /\ d # Null
                                 /\ drafts[d.id].sequence = 1 /\ SequenceOf(d) = 1
        BY <1>2, <1>3, <1>6, <1>7, <1>8, <1>11
    <2>3. \A d, e \in DOMAIN rows : LaneOf(d.id) = LaneOf(e.id) => d = e
        BY <1>2, <1>5, <1>6
    <2> QED BY <2>1, <2>2, <2>3 DEF LanesInv
<1>15. TxnsInv
    BY <1>1, <1>2, <1>3, <1>6, <1>7, <1>10, <1>11 DEF TxnsInv, SoundTransaction
<1>16. ServedInv
    <2>1. \A c \in Channels : pointers[TxnLane(c)] # Null => c = ch
        <3> SUFFICES ASSUME NEW c \in Channels, c # ch PROVE pointers[TxnLane(c)] = Null
            OBVIOUS
        <3>1. TxnLane(c) # TxnLane(ch)
            BY LaneFacts
        <3> QED BY <1>1, <1>5, <1>8, <3>1
    <2>2. ASSUME NEW r \in Releases \ OprReleases, pointers[LaneOf(r)] # Null
          PROVE  pointers[TxnLane(Channel[r])] # Null
        <3>1. LaneOf(r) = LaneOf(First[1])
            BY <1>1, <1>5, <1>8, <2>2, LaneFacts
        <3>2. Channel[r] = ch
            BY <1>1, <1>4, <3>1, LaneFacts
        <3> QED BY <1>3, <1>8, <3>2
    <2>3. pointers[LaneOf(txns[FirstTxn].system.id)] = txns[FirstTxn].system
        BY <1>2, <1>6, <1>8
    <2>4. txns[FirstTxn].sequence = 1
        BY <1>6
    <2> QED BY <1>3, <1>6, <1>8, <1>10, <1>11, <2>1, <2>2, <2>3, <2>4 DEF ServedInv
<1>17. calls \in [Handlers -> Calls] /\ CallsBound
    BY <1>6, IdleBound DEF CallsBound
<1>18. TypeOK
    <2>1. \A r \in DOMAIN drafts : drafts[r] \in Manifests
        BY <1>1, <1>2, <1>6, <1>7 DEF Manifests, OrNull
    <2>2. txns[FirstTxn] \in Transactions
        BY <1>2, <1>6 DEF Transactions, OrNull
    <2>3. cohort \in Scopes
        BY <1>1, <1>6 DEF Scopes
    <2> QED BY <1>1, <1>2, <1>3, <1>6, <1>8, <1>9, <1>17, <2>1, <2>2, <2>3 DEF TypeOK, Statuses
<1> QED BY <1>9, <1>12, <1>13, <1>14, <1>15, <1>16, <1>17, <1>18 DEF ReleaseInv

-----------------------------------------------------------------------------
(* Every step *)

LEMMA RequestKeeps ==
  ASSUME ReleaseInv, NEW h \in Handlers, RequestStep(h)
  PROVE  ReleaseInv'
<1>1. ASSUME NEW r \in Releases, PrepareSelection(h, r) PROVE ReleaseInv'
    BY <1>1, PrepareSelectionKeeps
<1>2. CASE RepositoryStep(h) /\ UNCHANGED releaseVars
    BY <1>2, PersistArtifactsKeeps, StoreRepositoryKeeps DEF RepositoryStep
<1>3. ASSUME NEW r \in Releases, NEW b \in DOMAIN rows \cup {Null}, DraftRead(h, r, b)
      PROVE  ReleaseInv'
    BY <1>3, DraftReadKeeps
<1>4. CASE StoreDraft(h)
    BY <1>4, StoreDraftKeeps
<1>5. ASSUME NEW d \in DOMAIN rows, SignRead(h, d) PROVE ReleaseInv'
    BY <1>5, SignReadKeeps
<1>6. CASE SignFence(h) \/ Finalize(h) \/ Succeed(h) \/ SignManifest(h)
    BY <1>6, SignFenceKeeps, FinalizeKeeps, SucceedKeeps, SignManifestKeeps
<1>7. ASSUME NEW d \in DOMAIN rows, ActivateRead(h, d) PROVE ReleaseInv'
    BY <1>7, ActivateReadKeeps
<1>8. CASE ActivateValidate(h) \/ Resolve(h) \/ SignTransaction(h)
    BY <1>8, ActivateValidateKeeps, ResolveKeeps, SignTransactionKeeps
<1>9. CASE ActivateCommit(h) \/ RenewCommit(h)
    BY <1>9, CommitKeeps
<1>10. ASSUME NEW c \in Channels, RenewRead(h, c) PROVE ReleaseInv'
    BY <1>10, RenewReadKeeps
<1>11. CASE Crash(h)
    BY <1>11, CallEnds DEF Crash, data, repoVars, releaseVars
<1> QED BY <1>1, <1>2, <1>3, <1>4, <1>5, <1>6, <1>7, <1>8, <1>9, <1>10, <1>11 DEF RequestStep

LEMMA ReleaseInvKept ==
  ASSUME ReleaseInv, [Next]_vars
  PROVE  ReleaseInv'
<1>1. ASSUME NEW h \in Handlers, RequestStep(h) PROVE ReleaseInv'
    BY <1>1, RequestKeeps
<1>2. CASE CohortChange /\ UNCHANGED releaseVars
    BY <1>2, CohortChangeKeeps
<1>3. ASSUME NEW a \in Actors, NEW d \in DOMAIN rows, Approve(a, d) PROVE ReleaseInv'
    BY <1>3, ApproveKeeps
<1>4. ASSUME NEW a \in Actors, MembersChange(a) PROVE ReleaseInv'
    BY <1>4, SurroundingsKeep DEF MembersChange, data, repoVars
<1>5. ASSUME NEW x, Expire(x) PROVE ReleaseInv'
    BY <1>5, SurroundingsKeep DEF Expire, data, repoVars
<1>6. CASE UNCHANGED vars
    BY <1>6, SurroundingsKeep DEF vars, data
<1> QED BY <1>1, <1>2, <1>3, <1>4, <1>5, <1>6 DEF Next

(* What the requests rely on holds in every reachable state.                  *)
THEOREM ReleaseInvariant == Spec => []ReleaseInv
<1>1. Init => ReleaseInv
    BY InitReleaseInv
<1>2. ReleaseInv /\ [Next]_vars => ReleaseInv'
    BY ReleaseInvKept
<1> QED BY <1>1, <1>2, PTL DEF Spec

(* A published repository has packages. *)
LEMMA ActiveIsServed ==
  ASSUME ReleaseInv, NEW d, IsActive(d)
  PROVE  Served(d.id) # {}
<1>1. d.id \in Releases /\ repo[d.id].stage = "published"
    BY DEF ReleaseInv, TypeOK, Digests, RowsInv, IsActive
<1> QED BY <1>1 DEF ReleaseInv, RepoInv, Served

LEMMA ServedFromInv ==
  ASSUME ReleaseInv
  PROVE  ServedPairIsPublished
<1> SUFFICES ASSUME NEW c \in Channels, pointers[TxnLane(c)] # Null
             PROVE  LET t == txns[pointers[TxnLane(c)]] IN
                      /\ t.status = "active"
                      /\ t.system = pointers[<<"system", c>>]
                      /\ drafts[t.opr.id].binds = t.system
                      /\ \A d \in {t.system, t.opr} : rows[d] = "active" /\ Served(d.id) # {}
    BY DEF ServedPairIsPublished
<1>1. PICK t : t = pointers[TxnLane(c)]
    OBVIOUS
<1>2. IsLive(t) /\ ChannelOf(t) = c /\ pointers[LaneOf(txns[t].system.id)] = txns[t].system
    BY <1>1 DEF ReleaseInv, ServedInv
<1>3. t \in DOMAIN txns /\ txns[t].status = "active" /\ SoundTransaction(t)
    BY <1>2 DEF IsLive, ReleaseInv, TxnsInv
<1>4. txns[t].system \in Digests /\ txns[t].system.id \in Releases
    BY <1>3 DEF ReleaseInv, TypeOK, Transactions, Digests
<1>5. LaneOf(txns[t].system.id) = <<"system", c>>
    BY <1>2, <1>3 DEF SoundTransaction, ChannelOf, LaneOf, Lane
<1>6. IsActive(txns[t].system)
    BY <1>2, <1>4, NullFacts DEF ReleaseInv, LanesInv
<1>7. IsActive(txns[t].opr) /\ drafts[txns[t].opr.id].binds = txns[t].system
    BY <1>3 DEF SoundTransaction
<1>8. \A d \in {txns[t].system, txns[t].opr} : rows[d] = "active" /\ Served(d.id) # {}
    BY <1>6, <1>7, ActiveIsServed DEF IsActive
<1> QED BY <1>1, <1>2, <1>3, <1>5, <1>7, <1>8

LEMMA SuccessorFromInv ==
  ASSUME ReleaseInv
  PROVE  OneSuccessor
<1>1. ASSUME NEW d \in DOMAIN rows, NEW e \in DOMAIN rows, rows[d] = "active", rows[e] = "active",
             LaneOf(d.id) = LaneOf(e.id), drafts[d.id].parent = drafts[e.id].parent
      PROVE  d = e
    <2>1. SoundDraft(d.id, drafts[d.id]) /\ SoundDraft(e.id, drafts[e.id])
        BY DEF ReleaseInv, RowsInv, DraftsInv
    <2>2. drafts[d.id].sequence = drafts[e.id].sequence
        BY <1>1, <2>1 DEF SoundDraft
    <2> QED BY <1>1, <2>2 DEF ReleaseInv, LanesInv
<1>2. ASSUME NEW t \in DOMAIN txns, NEW u \in DOMAIN txns,
             txns[t].status = "active", txns[u].status = "active",
             Channel[txns[t].system.id] = Channel[txns[u].system.id],
             txns[t].parent = txns[u].parent
      PROVE  t = u
    <2>1. SoundTransaction(t) /\ SoundTransaction(u)
        BY DEF ReleaseInv, TxnsInv
    <2>2. txns[t].sequence = txns[u].sequence
        BY <1>2, <2>1 DEF SoundTransaction
    <2> QED BY <1>2, <2>2 DEF ReleaseInv, ServedInv, ChannelOf
<1> QED BY <1>1, <1>2 DEF OneSuccessor

(* However activations and renewals interleave, and wherever calls die, what  *)
(* a channel serves is published whole, and each release has one successor.   *)
THEOREM PublishedSound == Spec => []PublishedIsSound
<1>1. ReleaseInv => PublishedIsSound
    BY ServedFromInv, SuccessorFromInv DEF PublishedIsSound
<1> QED BY <1>1, ReleaseInvariant, PTL

(* Whatever preparations die, are refused or repeated, a file name keeps its  *)
(* bytes, and a prepared release keeps the packages of its parent.            *)
THEOREM RepositoriesSound == Spec => []RepositoriesAreSound
<1>1. ReleaseInv => RepositoriesAreSound
    <2> SUFFICES ASSUME ReleaseInv PROVE RepositoriesAreSound
        OBVIOUS
    <2>1. FilesNeverChange
        BY DEF ReleaseInv, RepoInv, FilesNeverChange
    <2>2. SuccessorKeepsPackages
        BY DEF ReleaseInv, RepoInv, SuccessorKeepsPackages, Prepared, Keeps
    <2> QED BY <2>1, <2>2 DEF RepositoriesAreSound
<1> QED BY <1>1, ReleaseInvariant, PTL

-----------------------------------------------------------------------------
(* What changes a pointer or makes a manifest active *)

Quiet ==
  /\ pointers' = pointers
  /\ \A d : IsActive(d)' <=> IsActive(d)
  /\ \A r \in DOMAIN drafts : drafts'[r] = drafts[r]
  /\ \A t \in DOMAIN txns :
       /\ txns'[t].system = txns[t].system /\ txns'[t].opr = txns[t].opr
       /\ txns'[t].sequence = txns[t].sequence

LEMMA SameQuiet ==
  ASSUME pointers' = pointers, rows' = rows, drafts' = drafts, txns' = txns
  PROVE  Quiet
BY DEF Quiet, IsActive

LEMMA StoreDraftQuiet ==
  ASSUME ReleaseInv, NEW h \in Handlers, StoreDraft(h)
  PROVE  Quiet
<1>1. PICK r : r = calls[h].release
    OBVIOUS
<1>2. r \in Releases
    BY <1>1, CallTyped DEF StoreDraft, ReleaseInv, Stores
<1>3. CASE UNCHANGED <<drafts, rows>>
    BY <1>3, SameQuiet DEF StoreDraft
<1>4. CASE /\ r \notin files /\ rows' = Put(rows, Draft(r), "candidate")
           /\ \E m : drafts' = Put(drafts, r, m)
    <2>1. r \notin DOMAIN drafts
        BY <1>4 DEF ReleaseInv, DraftsInv
    <2>2. Draft(r).id = r
        BY <1>2, DigestFacts DEF Draft
    <2>3. \A d \in DOMAIN rows : d # Draft(r)
        BY <2>1, <2>2 DEF ReleaseInv, RowsInv
    <2>4. /\ DOMAIN rows' = DOMAIN rows \cup {Draft(r)} /\ rows'[Draft(r)] = "candidate"
          /\ \A d \in DOMAIN rows : rows'[d] = rows[d]
        BY <1>4, <2>3 DEF Put
    <2>5. \A d : IsActive(d)' <=> IsActive(d)
        BY <2>3, <2>4 DEF IsActive
    <2>6. \A s \in DOMAIN drafts : drafts'[s] = drafts[s]
        BY <1>4, <2>1 DEF Put
    <2>7. pointers' = pointers /\ txns' = txns
        BY DEF StoreDraft
    <2> QED BY <2>5, <2>6, <2>7 DEF Quiet
<1> QED BY <1>1, <1>3, <1>4 DEF StoreDraft

LEMMA SigningQuiet ==
  ASSUME ReleaseInv, NEW h \in Handlers, Succeed(h) \/ SignManifest(h)
  PROVE  Quiet
<1>1. pointers' = pointers /\ drafts' = drafts /\ txns' = txns
    BY DEF Succeed, SignManifest
<1>2. \A d : IsActive(d)' <=> IsActive(d)
    <2>1. CASE rows' = rows
        BY <2>1 DEF IsActive
    <2>2. CASE SignManifest(h) /\ rows' # rows
        <3>1. /\ rows[calls[h].final] = "candidate"
              /\ rows' = [rows EXCEPT ![calls[h].final] = "signed"]
            BY <2>2 DEF SignManifest
        <3> QED BY <3>1 DEF IsActive
    <2>3. CASE Succeed(h) /\ rows' # rows
        <3>1. PICK d, final : d = Head(calls[h].todo) /\ final = calls[h].final
            OBVIOUS
        <3>2. PICK done : /\ final \notin DOMAIN rows
                          /\ rows' = [Put(rows, final, "candidate") EXCEPT
                               ![d] = IF done = "all" /\ @ = "candidate"
                                      THEN "superseded" ELSE @]
            BY <2>3, <3>1 DEF Succeed
        <3>3. /\ DOMAIN rows' = DOMAIN rows \cup {final}
              /\ rows'[final] # "active"
              /\ \A e \in DOMAIN rows : rows'[e] = "active" <=> rows[e] = "active"
            BY <3>2 DEF Put
        <3> QED BY <3>2, <3>3 DEF IsActive
    <2> QED BY <2>1, <2>2, <2>3
<1> QED BY <1>1, <1>2 DEF Quiet

LEMMA TransactionsQuiet ==
  ASSUME ReleaseInv, NEW h \in Handlers, Resolve(h) \/ SignTransaction(h)
  PROVE  Quiet
<1>1. pointers' = pointers /\ drafts' = drafts /\ rows' = rows
    BY DEF Resolve, SignTransaction
<1>2. \A t \in DOMAIN txns :
        /\ txns'[t].system = txns[t].system /\ txns'[t].opr = txns[t].opr
        /\ txns'[t].sequence = txns[t].sequence
    <2>1. CASE txns' = txns
        BY <2>1
    <2>2. CASE Resolve(h) /\ txns' # txns
        <3>1. PICK u, x : u \notin files /\ txns' = Put(txns, u, x)
            BY <2>2 DEF Resolve
        <3>2. u \notin DOMAIN txns
            BY <3>1 DEF ReleaseInv, TxnsInv
        <3> QED BY <3>1, <3>2 DEF Put
    <2>3. CASE SignTransaction(h) /\ txns' # txns
        <3>1. PICK u : txns' = [txns EXCEPT ![u].status = "signed"]
            BY <2>3 DEF SignTransaction
        <3>2. \A t \in DOMAIN txns : txns[t] \in Transactions
            BY DEF ReleaseInv, TypeOK
        <3> QED BY <3>1, <3>2 DEF Transactions
    <2> QED BY <2>1, <2>2, <2>3
<1> QED BY <1>1, <1>2 DEF Quiet, IsActive

LEMMA OnlyCommits ==
  ASSUME ReleaseInv, [Next]_vars
  PROVE  Quiet \/ \E h \in Handlers : ActivateCommit(h) \/ RenewCommit(h)
<1>1. ASSUME NEW h \in Handlers, RequestStep(h)
      PROVE  Quiet \/ ActivateCommit(h) \/ RenewCommit(h)
    <2>1. CASE StoreDraft(h) \/ Succeed(h) \/ SignManifest(h)
        BY <2>1, StoreDraftQuiet, SigningQuiet
    <2>2. CASE Resolve(h) \/ SignTransaction(h)
        BY <2>2, TransactionsQuiet
    <2>3. CASE RepositoryStep(h) /\ UNCHANGED releaseVars
        BY <2>3, SameQuiet DEF releaseVars
    <2>4. CASE \/ \E r \in Releases : PrepareSelection(h, r)
               \/ \E r \in Releases, b \in DOMAIN rows \cup {Null} : DraftRead(h, r, b)
               \/ \E d \in DOMAIN rows : SignRead(h, d)
               \/ \E d \in DOMAIN rows : ActivateRead(h, d)
               \/ \E c \in Channels : RenewRead(h, c)
               \/ SignFence(h) \/ Finalize(h) \/ ActivateValidate(h) \/ Crash(h)
        <3>1. UNCHANGED releaseVars
            BY <2>4 DEF PrepareSelection, DraftRead, SignRead, ActivateRead, RenewRead,
               SignFence, Finalize, ActivateValidate, Crash
        <3> QED BY <3>1, SameQuiet DEF releaseVars
    <2> QED BY <1>1, <2>1, <2>2, <2>3, <2>4 DEF RequestStep
<1>2. CASE CohortChange /\ UNCHANGED releaseVars
    BY <1>2, SameQuiet DEF releaseVars
<1>3. ASSUME NEW a \in Actors, NEW d \in DOMAIN rows, Approve(a, d) PROVE Quiet
    BY <1>3, SameQuiet DEF Approve
<1>4. ASSUME NEW a \in Actors, MembersChange(a) PROVE Quiet
    BY <1>4, SameQuiet DEF MembersChange
<1>5. ASSUME NEW x, Expire(x) PROVE Quiet
    BY <1>5, SameQuiet DEF Expire
<1>6. CASE UNCHANGED vars
    BY <1>6, SameQuiet DEF vars
<1> QED BY <1>1, <1>2, <1>3, <1>4, <1>5, <1>6 DEF Next

(* A release goes live only in the scope it was qualified for: the one the    *)
(* batch compares passed the gates, and it is the scope of the step.          *)
THEOREM ActivatesInScope == Spec => ActivatedInScope
<1> DEFINE InScope ==
      \A d \in DOMAIN rows' : rows'[d] = "active" /\ (d \in DOMAIN rows => rows[d] # "active") =>
        /\ cohort.condition = "ready"
        /\ drafts[d.id].revision = cohort.rev
        /\ \E p \in repo[d.id].packages : p.rev = cohort.rev
<1>1. ASSUME ReleaseInv, [Next]_vars PROVE InScope
    <2>1. CASE Quiet
        BY <2>1 DEF Quiet, IsActive
    <2>2. ASSUME NEW h \in Handlers, RenewCommit(h) PROVE InScope
        BY <2>2 DEF RenewCommit
    <2>3. ASSUME NEW h \in Handlers, ActivateCommit(h), rows' # rows PROVE InScope
        <3>1. PICK b : b = calls[h]
            OBVIOUS
        <3>2. /\ b.pc = "commit" /\ b.op = "activate" /\ FenceHolds(b.scope)
              /\ rows' = [d \in DOMAIN rows |-> IF d \in b.moves THEN "active" ELSE rows[d]]
            BY <2>3, <3>1 DEF ActivateCommit
        <3>3. ScopeBound(b) /\ PairBound(b) /\ HasPair(b)
            BY <1>1, <3>1, <3>2, CallFacts DEF CallBound, HasPair
        <3>4. cohort.condition = "ready" /\ \A d \in b.moves : drafts[d.id].revision = cohort.rev
            BY <3>2, <3>3 DEF ScopeBound, FenceHolds
        <3>5. ASSUME NEW d \in DOMAIN rows, rows'[d] = "active", rows[d] # "active"
              PROVE  drafts[d.id].revision = cohort.rev
                     /\ \E p \in repo[d.id].packages : p.rev = cohort.rev
            <4>1. d \in b.moves
                BY <3>2, <3>5
            <4>2. SoundDraft(d.id, drafts[d.id])
                BY <1>1 DEF ReleaseInv, RowsInv, DraftsInv
            <4> QED BY <3>4, <4>1, <4>2 DEF SoundDraft
        <3>6. DOMAIN rows' = DOMAIN rows
            BY <3>2
        <3> QED BY <3>4, <3>5, <3>6
    <2>4. CASE rows' = rows
        BY <2>4
    <2> QED BY <1>1, <2>1, <2>2, <2>3, <2>4, OnlyCommits
<1>2. ReleaseInv /\ [Next]_vars => [InScope]_vars
    BY <1>1
<1> QED BY <1>2, ReleaseInvariant, PTL DEF Spec, ActivatedInScope

-----------------------------------------------------------------------------
(* Each channel is one atomic switch *)

(* What a channel's transaction says, in the terms of the abstract channel.   *)
PairOf(t) ==
  [system |-> txns[t].system, opr |-> txns[t].opr,
   lane |-> Channel[txns[t].opr.id], sequence |-> txns[t].sequence]

LEMMA ServedPair ==
  ASSUME ReleaseInv, NEW c \in Channels, NEW t, t = pointers[TxnLane(c)], t # Null
  PROVE  /\ t \in DOMAIN txns /\ ChannelOf(t) = c
         /\ PairOf(t) \in [system : Digests, opr : Digests, lane : OprChannels, sequence : Nat]
         /\ PairOf(t) # Null
         /\ IsActive(txns[t].system) /\ IsActive(txns[t].opr)
         /\ txns[t].system.id \in Releases \ OprReleases
         /\ txns[t].opr.id \in OprReleases
         /\ pointers[LaneOf(txns[t].system.id)] = txns[t].system
<1>1. IsLive(t) /\ ChannelOf(t) = c /\ pointers[LaneOf(txns[t].system.id)] = txns[t].system
    BY DEF ReleaseInv, ServedInv
<1>2. t \in DOMAIN txns /\ txns[t].status = "active" /\ SoundTransaction(t)
    BY <1>1 DEF IsLive, ReleaseInv, TxnsInv
<1>3. /\ txns[t].system \in Digests /\ txns[t].opr \in Digests /\ txns[t].sequence \in Nat
      /\ txns[t].system.id \in Releases
    BY <1>2 DEF ReleaseInv, TypeOK, Transactions, Digests
<1>4. PairOf(t) \in [system : Digests, opr : Digests, lane : OprChannels, sequence : Nat]
    <2>1. Channel[txns[t].opr.id] \in OprChannels
        BY <1>2, RepositoryAssumption, ReleaseAssumption DEF SoundTransaction
    <2> QED BY <1>3, <2>1 DEF PairOf
<1>5. IsActive(txns[t].system)
    BY <1>1, <1>3, NullFacts DEF ReleaseInv, LanesInv
<1>6. /\ IsActive(txns[t].opr) /\ txns[t].opr.id \in OprReleases
      /\ txns[t].system.id \notin OprReleases
    BY <1>2 DEF SoundTransaction
<1> QED BY <1>1, <1>2, <1>3, <1>4, <1>5, <1>6, NullFacts

LEMMA PublishedAs ==
  ASSUME NEW c \in Channels
  PROVE  PublishedPair(c) = IF pointers[TxnLane(c)] = Null THEN Null
                            ELSE PairOf(pointers[TxnLane(c)])
BY DEF PublishedPair, PairOf

(* A pair a channel has selected is one whose OPR manifest is active.          *)
LEMMA SelectedFacts ==
  ASSUME NEW system, NEW opr
  PROVE  <<system, opr>> \in SelectedPairs
           <=> opr \in DOMAIN rows /\ rows[opr] = "active" /\ opr.id \in OprReleases
                 /\ drafts[opr.id].binds = system
BY DEF SelectedPairs

LEMMA SelectedIn ==
  ASSUME NEW p \in SelectedPairs
  PROVE  /\ p = <<p[1], p[2]>> /\ p[2] \in DOMAIN rows /\ rows[p[2]] = "active"
         /\ p[2].id \in OprReleases /\ drafts[p[2].id].binds = p[1]
BY DEF SelectedPairs

LEMMA InitSwitch ==
  ASSUME ReleaseInv
  PROVE  Switch!Init
<1> SUFFICES ASSUME NEW c \in Channels, PublishedPair(c) # Null
             PROVE  <<PublishedPair(c).system, PublishedPair(c).opr>> \in SelectedPairs
    BY DEF Switch!Init, Switch!Pair
<1>1. PICK t : t = pointers[TxnLane(c)]
    OBVIOUS
<1>2. t # Null /\ PublishedPair(c) = PairOf(t)
    BY <1>1, PublishedAs
<1>3. t \in DOMAIN txns /\ IsActive(txns[t].opr) /\ txns[t].opr.id \in OprReleases
    BY <1>1, <1>2, ServedPair
<1>4. drafts[txns[t].opr.id].binds = txns[t].system
    BY <1>3 DEF ReleaseInv, TxnsInv, SoundTransaction
<1> QED BY <1>2, <1>3, <1>4, SelectedFacts DEF PairOf, IsActive

LEMMA QuietSwitch ==
  ASSUME ReleaseInv, Quiet
  PROVE  /\ \A c \in Channels : PublishedPair(c)' = PublishedPair(c)
         /\ SelectedPairs' = SelectedPairs
<1>1. ASSUME NEW c \in Channels PROVE PublishedPair(c)' = PublishedPair(c)
    <2>1. PICK t : t = pointers[TxnLane(c)]
        OBVIOUS
    <2>2. pointers'[TxnLane(c)] = t
        BY <2>1 DEF Quiet
    <2>3. CASE t = Null
        BY <2>1, <2>2, <2>3 DEF PublishedPair
    <2>4. CASE t # Null
        <3>1. t \in DOMAIN txns
            BY <2>1, <2>4, ServedPair
        <3>2. /\ txns'[t].system = txns[t].system /\ txns'[t].opr = txns[t].opr
              /\ txns'[t].sequence = txns[t].sequence
            BY <3>1 DEF Quiet
        <3> QED BY <2>1, <2>2, <3>2 DEF PublishedPair
    <2> QED BY <2>3, <2>4
<1>2. SelectedPairs' = SelectedPairs
    <2>1. {e \in DOMAIN rows : e.id \in OprReleases /\ rows[e] = "active"}'
            = {e \in DOMAIN rows : e.id \in OprReleases /\ rows[e] = "active"}
        BY DEF Quiet, IsActive
    <2>2. \A d : IsActive(d) => d.id \in DOMAIN drafts
        BY DEF ReleaseInv, RowsInv, IsActive
    <2>3. \A d : IsActive(d) => drafts'[d.id].binds = drafts[d.id].binds
        BY <2>2 DEF Quiet
    <2> QED BY <2>1, <2>3 DEF SelectedPairs, IsActive
<1> QED BY <1>1, <1>2

(* The OPR manifest a channel serves is the one its lane points at, unless    *)
(* another channel has moved that lane to a manifest for its own system.      *)
CurrentInv ==
  \A c \in Channels : pointers[TxnLane(c)] # Null =>
    LET t == pointers[TxnLane(c)]
        head == pointers[LaneOf(txns[t].opr.id)]
    IN  head = txns[t].opr \/ drafts[head.id].binds # txns[t].system

LEMMA InitCurrent ==
  ASSUME Init PROVE CurrentInv
<1> SUFFICES ASSUME NEW c \in Channels, pointers[TxnLane(c)] # Null
             PROVE  LET t == pointers[TxnLane(c)]
                    IN  pointers[LaneOf(txns[t].opr.id)] = txns[t].opr
    BY DEF CurrentInv
<1>1. /\ First[1] \in Releases \ OprReleases /\ First[2] \in OprReleases
      /\ First[2] \in Releases
    BY FirstAssumption, RepositoryAssumption
<1>2. /\ TxnLane(c) \in Lanes /\ LaneOf(First[2]) \in Lanes
      /\ LaneOf(First[1]) # TxnLane(c) /\ LaneOf(First[2]) # TxnLane(c)
      /\ LaneOf(First[1]) # LaneOf(First[2])
    BY <1>1, LaneFacts
<1>3. pointers[TxnLane(c)] = FirstTxn
    BY <1>2 DEF Init
<1>4. txns[FirstTxn].opr = FirstOpr /\ FirstOpr.id = First[2]
    BY DEF Init, FirstOpr, Digest
<1>5. pointers[LaneOf(First[2])] = FirstOpr
    BY <1>2 DEF Init
<1> QED BY <1>3, <1>4, <1>5

LEMMA QuietCurrent ==
  ASSUME ReleaseInv, CurrentInv, Quiet PROVE CurrentInv'
<1> SUFFICES ASSUME NEW c \in Channels, NEW t, t = pointers[TxnLane(c)], t # Null,
                    NEW head, head = pointers[LaneOf(txns[t].opr.id)]
             PROVE  \/ head = txns'[t].opr
                    \/ drafts'[head.id].binds # txns'[t].system
    <2>1. \A t \in DOMAIN txns : txns'[t].opr = txns[t].opr
        BY DEF Quiet
    <2> QED BY <2>1, ServedPair DEF Quiet, CurrentInv
<1>1. t \in DOMAIN txns /\ IsActive(txns[t].opr)
    BY ServedPair
<1>2. head.id \in DOMAIN drafts
    BY <1>1, RepositoryAssumption, ServedPair DEF ReleaseInv, LanesInv, RowsInv, IsActive
<1>3. /\ txns'[t].opr = txns[t].opr /\ txns'[t].system = txns[t].system
      /\ drafts'[head.id] = drafts[head.id]
    BY <1>1, <1>2 DEF Quiet
<1> QED BY <1>3 DEF CurrentInv

LEMMA CommitCurrent ==
  ASSUME ReleaseInv, CurrentInv, NEW b, NEW ch, Pair(b, ch), MadeLive(b, ch)
  PROVE  CurrentInv'
<1> SUFFICES ASSUME NEW c \in Channels, NEW t, t = pointers'[TxnLane(c)], t # Null,
                    NEW head, head = pointers'[LaneOf(txns'[t].opr.id)]
             PROVE  \/ head = txns'[t].opr
                    \/ drafts[head.id].binds # txns'[t].system
    BY DEF CurrentInv, MadeLive
<1>1. /\ ch \in Channels /\ b.txn \in DOMAIN txns
      /\ b.system.id \in Releases \ OprReleases /\ b.opr.id \in OprReleases
      /\ b.opr.id \in Releases /\ ch = Channel[b.system.id]
    BY RepositoryAssumption DEF Pair
<1>2. CASE c = ch
    <2>1. t = b.txn /\ txns'[t].opr = b.opr
        BY <1>1, <1>2, LiveFacts DEF MadeLive, Pair
    <2> QED BY <2>1 DEF MadeLive
<1>3. CASE c # ch
    <2>1. TxnLane(c) \in Lanes \ {TxnLane(ch), LaneOf(b.system.id), LaneOf(b.opr.id)}
        BY <1>1, <1>3, LaneFacts
    <2>2. t = pointers[TxnLane(c)]
        BY <2>1 DEF MadeLive
    <2>3. /\ t \in DOMAIN txns /\ ChannelOf(t) = c
          /\ txns[t].opr.id \in OprReleases
        BY <2>2, ServedPair
    <2>4. txns'[t].opr = txns[t].opr /\ txns'[t].system = txns[t].system
        BY <2>3, LiveFacts
    <2>5. CASE LaneOf(txns[t].opr.id) = LaneOf(b.opr.id)
        <3>1. head = b.opr
            BY <2>4, <2>5 DEF MadeLive
        <3>2. drafts[b.opr.id].binds = b.system
            BY DEF Pair
        <3>3. b.system # txns[t].system
            BY <1>1, <1>3, <2>3 DEF ChannelOf
        <3> QED BY <2>4, <3>1, <3>2, <3>3
    <2>6. CASE LaneOf(txns[t].opr.id) # LaneOf(b.opr.id)
        <3>1. txns[t].opr.id \in Releases
            BY <2>3, RepositoryAssumption
        <3>2. LaneOf(txns[t].opr.id) \in
                Lanes \ {TxnLane(ch), LaneOf(b.system.id), LaneOf(b.opr.id)}
            BY <1>1, <2>3, <2>6, <3>1, LaneFacts
        <3>3. head = pointers[LaneOf(txns[t].opr.id)]
            BY <2>4, <3>2 DEF MadeLive
        <3> QED BY <2>2, <2>4, <3>3 DEF CurrentInv
    <2> QED BY <2>5, <2>6
<1> QED BY <1>2, <1>3

(* The new selection of a channel, and why it brings nothing back: a manifest *)
(* that becomes active never was, and the rest of the pair is what the        *)
(* channel has.                                                               *)
LEMMA CommitSelection ==
  ASSUME ReleaseInv, NEW b, NEW ch, Pair(b, ch), MadeLive(b, ch)
  PROVE  /\ \A c \in Channels \ {ch} : PublishedPair(c)' = PublishedPair(c)
         /\ PublishedPair(ch)' =
              [system |-> b.system, opr |-> b.opr, lane |-> Channel[b.opr.id],
               sequence |-> TxnSequence(pointers[TxnLane(ch)]) + 1]
         /\ SelectedPairs' = SelectedPairs \cup {<<b.system, b.opr>>}
<1>1. ASSUME NEW c \in Channels \ {ch} PROVE PublishedPair(c)' = PublishedPair(c)
    <2>1. /\ b.system.id \in Releases /\ b.opr.id \in Releases /\ ch \in Channels
        BY RepositoryAssumption DEF Pair
    <2>2. TxnLane(c) \in Lanes \ {TxnLane(ch), LaneOf(b.system.id), LaneOf(b.opr.id)}
        BY <2>1, LaneFacts
    <2>3. PICK t : t = pointers[TxnLane(c)]
        OBVIOUS
    <2>4. pointers'[TxnLane(c)] = t
        BY <2>2, <2>3 DEF MadeLive
    <2>5. CASE t = Null
        BY <2>3, <2>4, <2>5 DEF PublishedPair
    <2>6. CASE t # Null
        <3>1. t \in DOMAIN txns
            BY <2>3, <2>6, ServedPair
        <3>2. /\ txns'[t].system = txns[t].system /\ txns'[t].opr = txns[t].opr
              /\ txns'[t].sequence = txns[t].sequence
            BY <3>1, LiveFacts
        <3> QED BY <2>3, <2>4, <3>2 DEF PublishedPair
    <2> QED BY <2>5, <2>6
<1>2. PublishedPair(ch)' = [system |-> b.system, opr |-> b.opr, lane |-> Channel[b.opr.id],
                            sequence |-> TxnSequence(pointers[TxnLane(ch)]) + 1]
    <2>1. b.txn \in DOMAIN txns /\ b.txn # Null
        BY NullFacts DEF Pair, ReleaseInv, TypeOK
    <2>2. pointers'[TxnLane(ch)] = b.txn
        BY DEF MadeLive
    <2>3. txns[b.txn].sequence = TxnSequence(pointers[TxnLane(ch)]) + 1
        BY <2>1 DEF Pair, ReleaseInv, TxnsInv, SoundTransaction
    <2>4. /\ txns'[b.txn].system = b.system /\ txns'[b.txn].opr = b.opr
          /\ txns'[b.txn].sequence = txns[b.txn].sequence
        BY <2>1, LiveFacts DEF Pair
    <2> QED BY <2>1, <2>2, <2>3, <2>4 DEF PublishedPair
<1>3. SelectedPairs' = SelectedPairs \cup {<<b.system, b.opr>>}
    <2>1. \A d : IsActive(d)' <=> IsActive(d) \/ d \in {b.system, b.opr}
        BY LiveFacts
    <2>2. /\ b.system.id \notin OprReleases /\ b.opr.id \in OprReleases
          /\ drafts[b.opr.id].binds = b.system
        BY DEF Pair
    <2>3. drafts' = drafts
        BY DEF MadeLive
    <2>4. ASSUME NEW p \in SelectedPairs PROVE p \in SelectedPairs'
        <3>1. IsActive(p[2])'
            BY <2>1, SelectedIn DEF IsActive
        <3> QED BY <2>3, <3>1, SelectedIn DEF SelectedPairs, IsActive
    <2>5. <<b.system, b.opr>> \in SelectedPairs'
        <3>1. IsActive(b.opr)'
            BY <2>1
        <3> QED BY <2>2, <2>3, <3>1 DEF SelectedPairs, IsActive
    <2>6. ASSUME NEW p \in SelectedPairs', p # <<b.system, b.opr>>
          PROVE  p \in SelectedPairs
        <3>1. /\ p = <<p[1], p[2]>> /\ IsActive(p[2])' /\ p[2].id \in OprReleases
              /\ drafts[p[2].id].binds = p[1]
            BY <2>3 DEF SelectedPairs, IsActive
        <3>2. p[2] # b.opr /\ p[2] # b.system
            BY <2>2, <2>6, <3>1
        <3>3. IsActive(p[2])
            BY <2>1, <3>1, <3>2
        <3> QED BY <3>1, <3>3, SelectedFacts DEF IsActive
    <2> QED BY <2>4, <2>5, <2>6
<1> QED BY <1>1, <1>2, <1>3

(* A manifest that becomes active was in no pair: an active OPR manifest      *)
(* names an active system manifest.                                           *)
LEMMA CommitBringsNothingBack ==
  ASSUME ReleaseInv, CurrentInv, NEW b, NEW ch, Pair(b, ch), MadeLive(b, ch),
         NEW t, t = pointers[TxnLane(ch)]
  PROVE  \/ /\ \A p \in SelectedPairs : p[1] # b.system
            /\ \A p \in SelectedPairs : p[2] # b.opr
         \/ /\ t # Null /\ txns[t].system = b.system
            /\ \A p \in SelectedPairs : p[2] # b.opr
         \/ /\ t # Null /\ txns[t].system = b.system
            /\ <<b.system, b.opr>> \in SelectedPairs
            /\ b.opr = txns[t].opr \/ Channel[b.opr.id] # Channel[txns[t].opr.id]
<1>1. \A d \in b.moves : ~IsActive(d)
    BY DEF Pair, IsActive
<1>2. \A p \in SelectedPairs : IsActive(p[1]) /\ IsActive(p[2])
    BY SelectedIn DEF ReleaseInv, RowsInv, IsActive
<1>3. CASE b.system \in b.moves
    <2>1. ~IsActive(b.system)
        BY <1>1, <1>3
    <2>2. ~IsActive(b.opr)
        <3>1. ~IsActive(drafts[b.opr.id].binds)
            BY <2>1 DEF Pair
        <3> QED BY <3>1 DEF Pair, ReleaseInv, RowsInv, IsActive
    <2> QED BY <1>2, <2>1, <2>2
<1>4. CASE b.system \notin b.moves
    <2>1. rows[b.system] = "active" /\ pointers[LaneOf(b.system.id)] = b.system
        BY <1>4 DEF Pair
    <2>2. b.system # Null
        BY NullFacts DEF Pair
    <2>3. t # Null
        BY <2>1, <2>2 DEF Pair, ReleaseInv, ServedInv
    <2>4. /\ t \in DOMAIN txns /\ ChannelOf(t) = ch
          /\ txns[t].system.id \in Releases \ OprReleases
          /\ pointers[LaneOf(txns[t].system.id)] = txns[t].system
        <3>1. ch \in Channels
            BY DEF Pair
        <3> QED BY <2>3, <3>1, ServedPair
    <2>5. LaneOf(txns[t].system.id) = LaneOf(b.system.id)
        <3>1. b.system.id \in Releases \ OprReleases /\ ch = Channel[b.system.id]
            BY DEF Pair
        <3>2. Channel[txns[t].system.id] = Channel[b.system.id]
            BY <2>4, <3>1 DEF ChannelOf
        <3>3. \A r, s \in Releases \ OprReleases : Channel[r] = Channel[s] => LaneOf(r) = LaneOf(s)
            BY LaneFacts
        <3> QED BY <2>4, <3>1, <3>2, <3>3
    <2>6. txns[t].system = b.system
        BY <2>1, <2>4, <2>5
    <2>7. CASE b.opr \in b.moves
        BY <1>1, <1>2, <2>3, <2>6, <2>7
    <2>8. CASE b.opr \notin b.moves
        <3>1. /\ b.opr \in DOMAIN rows /\ rows[b.opr] = "active" /\ b.opr.id \in OprReleases
              /\ drafts[b.opr.id].binds = b.system
            BY <2>8 DEF Pair, Signed
        <3>2. <<b.system, b.opr>> \in SelectedPairs
            BY <3>1, SelectedFacts
        <3>3. ASSUME Channel[b.opr.id] = Channel[txns[t].opr.id]
              PROVE  b.opr = txns[t].opr
            <4>1. b.opr.id \in OprReleases /\ txns[t].opr.id \in OprReleases /\ ch \in Channels
                BY <2>3, ServedPair DEF Pair
            <4>2. LaneOf(b.opr.id) = LaneOf(txns[t].opr.id)
                BY <3>3, <4>1 DEF LaneOf, Lane
            <4>3. pointers[LaneOf(b.opr.id)] = b.opr
                BY <2>8 DEF Pair
            <4> QED BY <2>3, <2>6, <3>1, <4>1, <4>2, <4>3 DEF CurrentInv
        <3> QED BY <2>3, <2>6, <3>2, <3>3
    <2> QED BY <2>7, <2>8
<1> QED BY <1>3, <1>4

LEMMA CommitSwitches ==
  ASSUME ReleaseInv, CurrentInv, NEW b, NEW ch, Pair(b, ch), MadeLive(b, ch)
  PROVE  Switch!Move(ch)
<1>1. ch \in Channels
    BY DEF Pair
<1>2. PICK t : t = pointers[TxnLane(ch)]
    OBVIOUS
<1>3. PICK new : new = [system |-> b.system, opr |-> b.opr,
                         lane |-> Channel[b.opr.id], sequence |-> TxnSequence(t) + 1]
    OBVIOUS
<1>4. PICK before : before = [c \in Channels |-> PublishedPair(c)]
    OBVIOUS
<1>5. PICK after : after = [c \in Channels |-> PublishedPair(c)']
    OBVIOUS
<1>6. after = [before EXCEPT ![ch] = after[ch]] /\ after[ch] = new
    BY <1>1, <1>2, <1>3, <1>4, <1>5, CommitSelection
<1>7. SelectedPairs' = SelectedPairs \cup {<<b.system, b.opr>>}
    BY CommitSelection
<1>8. /\ before[ch] = Null <=> t = Null
      /\ t # Null => before[ch] = PairOf(t)
    BY <1>1, <1>2, <1>4, PublishedAs, ServedPair
<1>9. /\ (IF before[ch] = Null THEN 0 ELSE before[ch].sequence) = TxnSequence(t)
      /\ t # Null /\ txns[t].system = b.system =>
           /\ before[ch] # Null /\ before[ch].system = b.system
           /\ before[ch].opr = txns[t].opr /\ before[ch].lane = Channel[txns[t].opr.id]
    BY <1>8 DEF TxnSequence, PairOf
<1>10. \/ /\ \A p \in SelectedPairs : p[1] # b.system
          /\ \A p \in SelectedPairs : p[2] # b.opr
       \/ /\ before[ch] # Null /\ before[ch].system = b.system
          /\ \A p \in SelectedPairs : p[2] # b.opr
       \/ /\ before[ch] # Null /\ before[ch].system = b.system
          /\ <<b.system, b.opr>> \in SelectedPairs
          /\ b.opr = before[ch].opr \/ Channel[b.opr.id] # before[ch].lane
    BY <1>2, <1>9, CommitBringsNothingBack
<1>11. /\ new.system = b.system /\ new.opr = b.opr /\ new.lane = Channel[b.opr.id]
       /\ new.sequence = TxnSequence(t) + 1
    BY <1>3
<1> QED BY <1>1, <1>4, <1>5, <1>6, <1>7, <1>9, <1>10, <1>11
    DEF Switch!Move, Switch!Pair, Switch!Sequence, Switch!Keeps, Switch!NewSystem,
        Switch!NewOpr, Switch!Within

(* Every step moves at most one channel: to a new pair, to a new OPR release  *)
(* of the system it has, to the pair it has, or to a pair of that system      *)
(* selected before whose OPR release is of another OPR channel                *)
(* (activateDistributionRelease, renewResolvedTransaction).                   *)
THEOREM SwitchImplemented == Spec => ImplementsSwitch
<1>1. Init => Switch!Init /\ CurrentInv
    BY InitReleaseInv, InitSwitch, InitCurrent
<1>2. ReleaseInv /\ CurrentInv /\ [Next]_vars =>
        /\ CurrentInv'
        /\ [Switch!Next]_<<[c \in Channels |-> PublishedPair(c)], SelectedPairs>>
    <2> SUFFICES ASSUME ReleaseInv, CurrentInv, [Next]_vars
                 PROVE  /\ CurrentInv'
                        /\ \/ Switch!Next
                           \/ /\ [c \in Channels |-> PublishedPair(c)]' = [c \in Channels |-> PublishedPair(c)]
                              /\ SelectedPairs' = SelectedPairs
        OBVIOUS
    <2>1. ASSUME Quiet
          PROVE  /\ CurrentInv'
                 /\ [c \in Channels |-> PublishedPair(c)]' = [c \in Channels |-> PublishedPair(c)]
                 /\ SelectedPairs' = SelectedPairs
        BY <2>1, QuietSwitch, QuietCurrent
    <2>2. ASSUME NEW h \in Handlers, NEW b, Commits(h, b) PROVE CurrentInv' /\ Switch!Next
        <3>1. Pair(b, Channel[b.system.id]) /\ MadeLive(b, Channel[b.system.id])
            BY <2>2, CommitPair, CommitEffect
        <3>2. Channel[b.system.id] \in Channels /\ Switch!Move(Channel[b.system.id])
            BY <3>1, CommitSwitches DEF Pair
        <3>3. CurrentInv'
            BY <3>1, CommitCurrent
        <3> QED BY <3>2, <3>3 DEF Switch!Next
    <2>3. ASSUME UNCHANGED data PROVE Quiet
        BY <2>3, SameQuiet DEF data
    <2> QED BY <2>1, <2>2, <2>3, OnlyCommits, CommitCases
<1> QED BY <1>1, <1>2, ReleaseInvariant, PTL
    DEF Spec, ImplementsSwitch, Switch!Spec
=============================================================================
