----------------------------- MODULE SignedRelease -----------------------------
(***************************************************************************)
(* What omarchy/manifest-client demands of a signed release before a       *)
(* device or an image build uses anything of it.  A release is a record:   *)
(*   url, signature            where its document and signature are        *)
(*   id, seq, channel, archs, cohorts                                      *)
(*   repos                     repositories in order of precedence, each   *)
(*                             with name, arch, db, sig and base           *)
(*   chunks, count             the package lists and what they hold        *)
(*   sys, opr                  the manifests of the two lanes, records     *)
(*                             with url, signature, lane, id, seq,         *)
(*                             version, channel, archs and cohorts         *)
(*   authorized, from, target  a recovery: the release it is for and the   *)
(*                             release it goes back to                     *)
(* A URL is a scheme, a host and a sequence of path components; a version  *)
(* is its three numbers and the rank of its text among the versions.       *)
(***************************************************************************)
EXTENDS Integers, Sequences, FiniteSets, SequencesExt

CONSTANTS
  Arch,         \* the architecture of the device or image
  Stable, Quarantine,
  PinnedKey,    \* the fingerprint the operator configured
  None

Elements(q) == {q[i] : i \in 1..Len(q)}

(* ----------------------------------------------------------------- URLs *)

MovingWords == {"latest", "current", "channels", "channel", "dev", "quarantine"}
Pointers == {"manifest.json", "transaction.json"}
ReleaseChannels == {"stable", "rc", "edge"}
Trees == {"transactions", "releases", "opr"}

(* A channel directory holds pointers; below it, a release id does not.    *)
Mutable(u) ==
  LET p == u.path IN
  \/ Elements(p) \cap MovingWords # {}
  \/ \E i \in 1..(Len(p) - 1) :
       /\ p[i] \in Trees /\ p[i + 1] \in ReleaseChannels \cup {"quarantine"}
       /\ i + 2 >= Len(p) \/ p[i + 2] \in Pointers
  \/ \E i \in 1..Len(p) :
       p[i] \in ReleaseChannels /\ (i = 1 \/ p[i - 1] \notin Trees)

WellFormedURL(u) ==
  u.scheme = "https" /\ Elements(u.path) \cap {"", ".", "..", "$arch"} = {}
Immutable(u) == WellFormedURL(u) /\ Elements(u.path) \cap MovingWords = {}

SameOrigin(u, v) == u.scheme = v.scheme /\ u.host = v.host

(* ----------------------------------------------------------- signatures *)

(* What gpg reports of a signature: no bad or spent key, and one valid     *)
(* signature, by the pinned key.                                           *)
Verified(s) ==
  /\ s.status \cap {"REVKEYSIG", "EXPKEYSIG", "EXPSIG", "BADSIG"} = {}
  /\ s.keys = <<PinnedKey>>

(* The signature is next to the document, or where the document says.      *)
SignaturePlaced(m) ==
  Immutable(m.signature.url) /\ SameOrigin(m.url, m.signature.url)

Authentic(m) ==
  /\ ~Mutable(m.url) /\ Immutable(m.url)
  /\ SignaturePlaced(m)
  /\ Verified(m.signature)

(* ------------------------------------------------------ a release's own *)

(* Each cohort of the changelog is named once, at a revision it has had.   *)
CohortsListed(m) ==
  /\ \A i, j \in 1..Len(m.cohorts) : m.cohorts[i].id = m.cohorts[j].id => i = j
  /\ \A c \in Elements(m.cohorts) : c.revision >= 1

FieldsHold(r) ==
  /\ r.archs # {} /\ r.archs \subseteq {"x86_64", "aarch64"}
  /\ r.seq > 0 /\ r.sys.seq > 0 /\ r.opr.seq > 0
  /\ r.channel \in ReleaseChannels
  /\ \A i \in 1..Len(r.chunks) : r.chunks[i].index \in 0..(r.chunks[i].count - 1)

(* No two repositories of one name, whatever their architectures.          *)
NamedOnce(r) == Cardinality({p.name : p \in Elements(r.repos)}) = Len(r.repos)

WellFormed(r) ==
  /\ r.repos # <<>> /\ NamedOnce(r)
  /\ CohortsListed(r) /\ FieldsHold(r)

(* The repositories of this architecture, in the signed order.             *)
Served(r) == SelectSeq(r.repos, LAMBDA p : p.arch = Arch)
Order(r) == [i \in 1..Len(Served(r)) |-> Served(r)[i].name]
Selected(r) == Arch \in r.archs /\ Served(r) # <<>>

(* A repository's database, its signature and its packages: one directory. *)
RepositoryPlaced(r, p) ==
  /\ p.arch = Arch
  /\ \A u \in {p.db, p.sig, p.base} : ~Mutable(u) /\ Immutable(u) /\ SameOrigin(r.url, u)
  /\ p.sig.path = Front(p.db.path) \o <<Last(p.db.path) \o ".sig">>
  /\ p.base.path = Front(p.db.path)

Placed(r) ==
  /\ Immutable(r.url)
  /\ \A m \in {r.sys, r.opr} : SameOrigin(r.url, m.url) /\ SameOrigin(r.url, m.signature.url)
  /\ \A p \in Elements(Served(r)) : RepositoryPlaced(r, p)
  /\ \A c \in Elements(r.chunks) :
       ~Mutable(c.url) /\ Immutable(c.url) /\ SameOrigin(r.url, c.url)

(* ---------------------------------------------------- what it refers to *)

(* Each child is of its lane and serves this device too.                   *)
ChildFits(m, lane) ==
  /\ m.lane = lane /\ Arch \in m.archs
  /\ m.channel \in IF lane = "system" THEN ReleaseChannels ELSE {Stable, Quarantine}
  /\ CohortsListed(m)

InDate(m, expired) == m.id \notin expired

(* A manifest a release refers to by its digest.                           *)
Reference(m, lane, expired) ==
  Authentic(m) /\ InDate(m, expired) /\ ChildFits(m, lane)

(* The children belong to the release's channel; a quarantined OPR lane is *)
(* never offered to the stable channel.                                    *)
ChildrenAgree(r) ==
  /\ r.sys.channel = r.channel
  /\ \/ r.opr.channel = Stable
     \/ r.opr.channel = Quarantine /\ r.channel # Stable

(* The retained release a recovery goes back to.                           *)
TargetFetched(t, expired) == Authentic(t) /\ InDate(t, expired)

(* It has the same lanes, repositories and packages.                       *)
RecoveryAgrees(r, t) ==
  /\ r.authorized
  /\ WellFormed(t) /\ Selected(t)
  /\ t.sys = r.sys /\ t.opr = r.opr
  /\ Served(t) = Served(r) /\ t.chunks = r.chunks

(* A release read at its own URL; Rs are the releases it may refer to.     *)
Resolves(r, Rs, expired) ==
  /\ Authentic(r) /\ WellFormed(r) /\ Selected(r) /\ Placed(r)
  /\ Reference(r.sys, "system", expired) /\ Reference(r.opr, "opr", expired)
  /\ ChildrenAgree(r)
  /\ r.target # None =>
       \E t \in Rs : t.id = r.target /\ TargetFetched(t, expired) /\ RecoveryAgrees(r, t)
  /\ InDate(r, expired)

(* --------------------------------------------------------- the versions *)

(* The numbers decide; between equal numbers, the text: "4.0.3-rc2" comes  *)
(* after "4.0.3".                                                          *)
NotBelow(v, w) ==
  LET Differ == {i \in 1..3 : v.numbers[i] # w.numbers[i]} IN
  IF Differ = {} THEN v.text >= w.text
  ELSE LET i == CHOOSE i \in Differ : \A j \in Differ : i <= j
       IN v.numbers[i] > w.numbers[i]

(* ------------------------------------------------------------ discovery *)

(* What a channel's moving pointer answers with: a redirect, a manifest's  *)
(* URL, or a release id to derive the URL from.  Only the last two are     *)
(* asked for their channel; the URL must be immutable.                     *)
Discovers(answer, want) ==
  /\ ~Mutable(answer.url)
  /\ SameOrigin(answer.at, answer.url)
  /\ answer.kind # "redirect" /\ want # None => answer.channel = want
=============================================================================
