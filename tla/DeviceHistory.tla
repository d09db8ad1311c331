--------------------------- MODULE DeviceHistory ---------------------------
(***************************************************************************)
(* What the manifest client promises about one device: which signed        *)
(* release it has accepted in each channel, and how that may change.       *)
(* `accepted[c]' is None, or the release in force with the highest system  *)
(* and OPR sequences the channel has ever accepted.  ManifestClient is     *)
(* checked to implement this specification.                                *)
(***************************************************************************)
EXTENDS Integers

CONSTANTS Releases, Channels, None,
  NotBelow(_, _)    \* a system version is not below another

VARIABLE accepted

Higher(m, n) == IF m > n THEN m ELSE n

(* A lane moves forward, or keeps exactly the bytes already selected.      *)
Forward(next, selected, high) == next = selected \/ next.seq > high

(* The release names the one in force, and a retained one with its lanes.  *)
Recovers(e, r) ==
  /\ r.authorized
  /\ r.from = e.release.id
  /\ \E t \in Releases : t.id = r.target /\ t.sys = r.sys /\ t.opr = r.opr

Accept(c, r) ==
  LET e == accepted[c] IN
  /\ r.channel = c
  /\ e # None =>
       /\ r.seq > e.release.seq
       /\ \/ Recovers(e, r)
          \/ /\ Forward(r.sys, e.release.sys, e.sysHigh)
             /\ Forward(r.opr, e.release.opr, e.oprHigh)
             /\ NotBelow(r.sys.version, e.release.sys.version)
  /\ accepted' = [accepted EXCEPT ![c] =
       [release |-> r,
        sysHigh |-> IF e = None THEN r.sys.seq ELSE Higher(e.sysHigh, r.sys.seq),
        oprHigh |-> IF e = None THEN r.opr.seq ELSE Higher(e.oprHigh, r.opr.seq)]]

Next == \E c \in Channels, r \in Releases : Accept(c, r)

(* A device starts with whatever it accepted before.                       *)
Init == accepted \in [Channels -> {None} \cup
          [release : Releases, sysHigh : Nat, oprHigh : Nat]]

Spec == Init /\ [][Next]_accepted
=============================================================================
