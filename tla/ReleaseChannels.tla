--------------------------- MODULE ReleaseChannels --------------------------
(* The channels of releases and the package indexes derived from them        *)
(* (releases.ts, repository.ts): publication to dev, promotion of a batch to *)
(* stable, rollback to the previous version, quarantine after crashes.       *)
(*                                                                           *)
(* A handler reads the rows of the channels one query after the other, signs *)
(* new index snapshots, and commits one D1 batch.  The batch holds assertion *)
(* rows: if the channels are not as read, a CHECK fails and the batch is     *)
(* rolled back.  A call in flight is a record in calls; between its reads    *)
(* and its batch other handlers commit.  Signing fails like a crash.         *)
(*                                                                           *)
(* The approvals of a released revision are never revoked; that a newer      *)
(* revision superseded it is in superseded.  Package conflicts, and provides *)
(* other than a package's name, are left out of the dependency graph.        *)
EXTENDS FiniteSets, Integers

CONSTANTS
    Releases,       \* releases that may be published
    NameOf, ArchOf, \* package name and architecture of a release
    Binary,         \* releases of surface A; the others are recipes
    At,             \* published_at, with ties broken by id
    Requires,       \* Requires[r]: the requirements [name, by] of a release
    Threshold,      \* CRASH_THRESHOLD
    Handlers,       \* concurrent invocations
    MaxReports,     \* bound: unresolved crash reports of a release
    Crashing, Aging, \* bounds: releases with crash reports, with successors
    LeaseOutlasts,  \* the lease of a quarantine job outlasts its run
    NoRelease

ASSUME ReleaseAssumption ==
    /\ IsFiniteSet(Releases)
    /\ Binary \subseteq Releases
    /\ At \in [Releases -> Nat]
    /\ \A r, s \in Releases : At[r] = At[s] => r = s
    /\ NoRelease \notin Releases
ASSUME ThresholdAssumption == Threshold \in Nat \ {0}

VARIABLES
    channel,    \* releases.channel
    previous,   \* releases.previous_release_id
    index,      \* packages of the active snapshot per channel, architecture
    reports,    \* unresolved crash reports of a release, new and confirmed
    superseded, \* releases whose revision is not its request's latest
    calls       \* handlers in flight

rowVars == <<channel, previous, index>>
vars == <<channel, previous, index, reports, superseded, calls>>

-----------------------------------------------------------------------------
Channels == {"none", "dev", "stable", "withdrawn"}
Arches == {ArchOf[r] : r \in Releases}
Key(r) == <<NameOf[r], ArchOf[r]>>
Keys(rs) == {Key(r) : r \in rs}
SameKey(rs, r) == {s \in rs : Key(s) = Key(r)}

(* currentStable, currentDev *)
In(ch) == {r \in Releases : channel[r] = ch}

(* binaryReleases, of one architecture *)
Entries(rs, a) == {r \in rs \cap Binary : ArchOf[r] = a}
ArchesOf(rs) == {ArchOf[r] : r \in rs \cap Binary}

FinalStable(current, candidates) ==
    {r \in current : Key(r) \notin Keys(candidates)} \cup candidates

LatestPerPackage(rs) ==
    {r \in rs : \A s \in SameKey(rs, r) : At[s] <= At[r]}

Open(r) == reports[r].new + reports[r].confirmed > 0
Confirmed(r) == reports[r].confirmed

(* Faulty variant of GraphHolds: only the batch's own requirements count. *)
GraphHoldsForBatch(candidates, current, final) ==
    \A r \in candidates \cap final \cap Binary : \A q \in Requires[r] :
        \/ q.by \cap Entries(final, ArchOf[r]) # {}
        \/ q.name \notin {NameOf[s] : s \in (current \cup candidates) \cap Binary}

(* assertDependencyGraph: a requirement no release of the final set meets is *)
(* Arch's to meet, unless the repository carried a package of that name.     *)
GraphHolds(candidates, current, final) ==
    \A r \in final \cap Binary : \A q \in Requires[r] :
        \/ q.by \cap Entries(final, ArchOf[r]) # {}
        \/ q.name \notin {NameOf[s] : s \in (current \cup candidates) \cap Binary}

Call(op, at, r, ids) ==
    [op |-> op, at |-> at, release |-> r, ids |-> ids, previous |-> NoRelease,
     stable |-> {}, dev |-> {}]
Idle == Call("none", "idle", NoRelease, {})

CallRecords ==
    [op : {"none", "publish", "promote", "rollback", "quarantine"},
     at : {"idle", "stable", "dev", "commit", "done", "failed"},
     release : Releases \cup {NoRelease}, ids : SUBSET Releases,
     previous : Releases \cup {NoRelease},
     stable : SUBSET Releases, dev : SUBSET Releases]

Set(h, c) == calls' = [calls EXCEPT ![h] = c]
Reading(h, op, at) == calls[h].op = op /\ calls[h].at = at

(* How a handler ends: a quarantine's caller still looks at its outcome. *)
EndWith(h, outcome) ==
    Set(h, IF calls[h].op = "quarantine"
           THEN [Idle EXCEPT !.op = "quarantine", !.at = outcome,
                             !.release = calls[h].release]
           ELSE Idle)
Done(h) == EndWith(h, "done")
Refused(h) == EndWith(h, "failed") /\ UNCHANGED rowVars

Environment == <<reports, superseded>>

Init ==
    /\ channel = [r \in Releases |-> "none"]
    /\ previous = [r \in Releases |-> NoRelease]
    /\ index = [ch \in {"stable", "dev"} |-> [a \in Arches |-> {}]]
    /\ reports = [r \in Releases |-> [new |-> 0, confirmed |-> 0]]
    /\ superseded = {}
    /\ calls = [h \in Handlers |-> Idle]

(* Snapshots of the given architectures take the place of the active ones. *)
Rebuilt(ch, rs, arches) ==
    [a \in Arches |-> IF a \in arches THEN Entries(rs, a) ELSE index[ch][a]]

-----------------------------------------------------------------------------
(* publishBuild *)

PublishRead(h, r) ==
    /\ calls[h] = Idle
    /\ channel[r] = "none"
    /\ r \notin superseded
    /\ Set(h, [Call("publish", "commit", r, {r}) EXCEPT !.dev = In("dev")])
    /\ UNCHANGED <<rowVars, Environment>>

(* The dev snapshot is rebuilt if the architecture has a binary; only then   *)
(* are the rows asserted, those of the package by their number.              *)
PublishHolds(c, rebuilds) ==
    /\ channel[c.release] = "none"
    /\ c.release \notin superseded
    /\ rebuilds =>
         /\ c.dev \ SameKey(c.dev, c.release) \subseteq In("dev")
         /\ Cardinality(SameKey(In("dev"), c.release))
              = Cardinality(SameKey(c.dev, c.release))
         /\ Cardinality(In("dev")) = Cardinality(c.dev)

PublishCommit(h) ==
    /\ Reading(h, "publish", "commit")
    /\ LET c == calls[h]
           listed == c.dev \cup {c.release}
           arches == ArchesOf(listed) \cap {ArchOf[c.release]}
       IN IF PublishHolds(c, arches # {})
          THEN /\ channel' = [channel EXCEPT ![c.release] = "dev"]
               /\ index' = [index EXCEPT !["dev"] =
                              Rebuilt("dev", LatestPerPackage(listed), arches)]
               /\ Done(h)
               /\ UNCHANGED previous
          ELSE Refused(h)
    /\ UNCHANGED Environment

-----------------------------------------------------------------------------
(* promoteBatch *)

Promotable(r) == channel[r] = "dev" /\ r \notin superseded /\ ~Open(r)

PromoteCheck(h, ids) ==
    /\ calls[h] = Idle
    /\ ids # {}
    /\ \A r \in ids : Promotable(r) /\ SameKey(ids, r) = {r}
    /\ Set(h, Call("promote", "stable", NoRelease, ids))
    /\ UNCHANGED <<rowVars, Environment>>

PromoteReadStable(h) ==
    /\ Reading(h, "promote", "stable")
    /\ LET c == calls[h]
           current == In("stable")
       IN IF GraphHolds(c.ids, current, FinalStable(current, c.ids))
          THEN Set(h, [c EXCEPT !.at = "dev", !.stable = current])
          ELSE Done(h)
    /\ UNCHANGED <<rowVars, Environment>>

PromoteReadDev(h) ==
    /\ Reading(h, "promote", "dev")
    /\ Set(h, [calls[h] EXCEPT !.at = "commit", !.dev = In("dev")])
    /\ UNCHANGED <<rowVars, Environment>>

(* Faulty variant of PromoteHolds: what was checked at the start is trusted. *)
PromoteHoldsUnchecked(c, final) ==
    /\ \A r \in c.ids : channel[r] = "dev"
    /\ c.stable \subseteq In("stable")
    /\ Cardinality(In("stable")) = Cardinality(c.stable)
    /\ c.dev \ c.ids \subseteq In("dev")
    /\ Cardinality(In("dev")) = Cardinality(c.dev)

(* The assertions of the batch: the rows it moves and the rows read as       *)
(* current, then the numbers of rows there are afterwards.                   *)
PromoteHolds(c, final) ==
    /\ \A r \in c.ids : Promotable(r)
    /\ c.stable \subseteq In("stable")
    /\ Cardinality((In("stable") \ c.stable) \cup final) = Cardinality(final)
    /\ c.dev \ c.ids \subseteq In("dev")
    /\ Cardinality(In("dev") \ c.ids) = Cardinality(c.dev) - Cardinality(c.ids)

PromoteCommit(h) ==
    /\ Reading(h, "promote", "commit")
    /\ LET c == calls[h]
           final == FinalStable(c.stable, c.ids)
           replaced == {r \in c.stable : Key(r) \in Keys(c.ids)}
           arches == ArchesOf(c.ids \cup replaced)
           devArches == ArchesOf({r \in c.dev \cup c.ids \cup replaced :
                                    Key(r) \in Keys(c.ids)})
       IN IF PromoteHolds(c, final)
          THEN /\ channel' = [r \in Releases |->
                                IF r \in c.ids THEN "stable"
                                ELSE IF r \in replaced THEN "withdrawn"
                                ELSE channel[r]]
               /\ previous' = [r \in Releases |->
                    IF r \notin c.ids THEN previous[r]
                    ELSE IF SameKey(replaced, r) = {} THEN NoRelease
                    ELSE CHOOSE p \in LatestPerPackage(SameKey(replaced, r)) :
                           TRUE]
               /\ index' = [index EXCEPT
                     !["stable"] = Rebuilt("stable", final, arches),
                     !["dev"] = Rebuilt("dev", LatestPerPackage(c.dev \ c.ids),
                                        devArches)]
               /\ Done(h)
          ELSE Refused(h)
    /\ UNCHANGED Environment

-----------------------------------------------------------------------------
(* rollbackRelease *)

(* The release promotion recorded, or else the last one withdrawn before. *)
Predecessor(r) ==
    IF previous[r] # NoRelease THEN {previous[r]}
    ELSE LatestPerPackage({s \in SameKey(In("withdrawn"), r) : At[s] < At[r]})

RollbackCheck(h, r) ==
    /\ calls[h] = Idle
    /\ channel[r] = "stable"
    /\ \E p \in Predecessor(r) :
         /\ channel[p] = "withdrawn"
         /\ p \in Binary <=> r \in Binary
         /\ Set(h, [Call("rollback", "stable", r, {r}) EXCEPT !.previous = p])
    /\ UNCHANGED <<rowVars, Environment>>

RollbackReadStable(h) ==
    /\ Reading(h, "rollback", "stable")
    /\ LET c == calls[h]
           current == In("stable")
       IN IF c.release \in Binary =>
               GraphHolds({}, current, FinalStable(current, {c.previous}))
          THEN Set(h, [c EXCEPT !.at = "commit", !.stable = current])
          ELSE Done(h)
    /\ UNCHANGED <<rowVars, Environment>>

(* Faulty variant of RollbackHolds: the other stable rows are not asserted. *)
RollbackHoldsAlone(c) ==
    channel[c.release] = "stable" /\ channel[c.previous] = "withdrawn"

RollbackHolds(c) ==
    /\ channel[c.release] = "stable"
    /\ channel[c.previous] = "withdrawn"
    /\ c.stable \ {c.release} \subseteq In("stable")
    /\ Cardinality(In("stable")) = Cardinality(c.stable)

RollbackCommit(h) ==
    /\ Reading(h, "rollback", "commit")
    /\ LET c == calls[h]
           final == FinalStable(c.stable, {c.previous})
       IN IF RollbackHolds(c)
          THEN /\ channel' = [channel EXCEPT ![c.release] = "withdrawn",
                                             ![c.previous] = "stable"]
               /\ index' = [index EXCEPT !["stable"] =
                              Rebuilt("stable", final, ArchesOf({c.release}))]
               /\ Done(h)
               /\ UNCHANGED previous
          ELSE Refused(h)
    /\ UNCHANGED Environment

-----------------------------------------------------------------------------
(* quarantineRelease, called once the confirmed crashes reach the threshold. *)
(* A release that is not stable any more needs nothing.                      *)

QuarantineCheck(h, r) ==
    /\ calls[h] = Idle
    /\ Set(h, [Call("quarantine", "stable", r, {r}) EXCEPT
                 !.at = IF channel[r] = "stable" THEN "stable" ELSE "done"])
    /\ UNCHANGED <<rowVars, Environment>>

QuarantineReadStable(h) ==
    /\ Reading(h, "quarantine", "stable")
    /\ LET c == calls[h]
           current == In("stable")
       IN IF c.release \in Binary =>
               GraphHolds({}, current, current \ {c.release})
          THEN Set(h, [c EXCEPT !.at = "dev", !.stable = current])
          ELSE EndWith(h, "failed")
    /\ UNCHANGED <<rowVars, Environment>>

QuarantineReadDev(h) ==
    /\ Reading(h, "quarantine", "dev")
    /\ Set(h, [calls[h] EXCEPT !.at = "commit", !.dev = In("dev")])
    /\ UNCHANGED <<rowVars, Environment>>

(* The assertions follow the update: a row that was dev when it was read may *)
(* be the release that just returned there.                                  *)
QuarantineHolds(c) ==
    /\ channel[c.release] = "stable"
    /\ Confirmed(c.release) >= Threshold
    /\ c.stable \ {c.release} \subseteq In("stable")
    /\ Cardinality(In("stable") \ {c.release})
         = Cardinality(c.stable \ {c.release})
    /\ c.dev \subseteq In("dev") \cup {c.release}
    /\ Cardinality(In("dev")) = Cardinality(c.dev)

QuarantineCommit(h) ==
    /\ Reading(h, "quarantine", "commit")
    /\ LET c == calls[h]
           arches == ArchesOf({c.release})
       IN IF QuarantineHolds(c)
          THEN /\ channel' = [channel EXCEPT ![c.release] = "dev"]
               /\ index' = [index EXCEPT
                     !["stable"] = Rebuilt("stable", c.stable \ {c.release},
                                           arches),
                     !["dev"] = Rebuilt("dev",
                                  LatestPerPackage(c.dev \cup {c.release}),
                                  arches)]
               /\ Done(h)
               /\ UNCHANGED previous
          ELSE Refused(h)
    /\ UNCHANGED Environment

(* The caller has seen the outcome. *)
QuarantineReturn(h) ==
    /\ calls[h].op = "quarantine"
    /\ calls[h].at \in {"done", "failed"}
    /\ Set(h, Idle)
    /\ UNCHANGED <<rowVars, Environment>>

-----------------------------------------------------------------------------
(* Crash reports: anonymous ones on any published release; an administrator  *)
(* confirms or resolves them; retention resolves the unconfirmed ones.       *)

Report(r) ==
    /\ r \in Crashing
    /\ channel[r] # "none"
    /\ reports[r].new + reports[r].confirmed < MaxReports
    /\ reports' = [reports EXCEPT ![r].new = @ + 1]
    /\ UNCHANGED <<rowVars, superseded, calls>>

Confirm(r) ==
    /\ reports[r].new > 0
    /\ reports' = [reports EXCEPT ![r].new = @ - 1, ![r].confirmed = @ + 1]
    /\ UNCHANGED <<rowVars, superseded, calls>>

Resolve(r) ==
    /\ \/ /\ reports[r].new > 0
          /\ reports' = [reports EXCEPT ![r].new = @ - 1]
       \/ /\ reports[r].confirmed > 0
          /\ reports' = [reports EXCEPT ![r].confirmed = @ - 1]
    /\ UNCHANGED <<rowVars, superseded, calls>>

ExpireReports(r) ==
    /\ reports[r].new > 0
    /\ reports' = [reports EXCEPT ![r].new = 0]
    /\ UNCHANGED <<rowVars, superseded, calls>>

(* A newer revision of the release's request is submitted. *)
Supersede(r) ==
    /\ r \in Aging \ superseded
    /\ superseded' = superseded \cup {r}
    /\ UNCHANGED <<rowVars, reports, calls>>

(* The invocation is dropped, or a snapshot cannot be stored or signed. *)
HandlerFails(h) ==
    /\ calls[h].at \in {"stable", "dev", "commit"}
    /\ EndWith(h, "failed")
    /\ UNCHANGED <<rowVars, Environment>>

(* processCrashQuarantines: only the holder of the job's lease runs it. *)
Quarantine(h, r) ==
    /\ Confirmed(r) >= Threshold
    /\ LeaseOutlasts => \A g \in Handlers :
         ~(calls[g].op = "quarantine" /\ calls[g].release = r)
    /\ QuarantineCheck(h, r)

Maintain(h) ==
    \/ \E r \in Releases : PublishRead(h, r) \/ RollbackCheck(h, r)
    \/ \E ids \in SUBSET Releases : PromoteCheck(h, ids)

Proceed(h) ==
    \/ PublishCommit(h)
    \/ PromoteReadStable(h) \/ PromoteReadDev(h) \/ PromoteCommit(h)
    \/ RollbackReadStable(h) \/ RollbackCommit(h)
    \/ QuarantineReadStable(h) \/ QuarantineReadDev(h) \/ QuarantineCommit(h)
    \/ HandlerFails(h)

Next ==
    \/ \E h \in Handlers :
         \/ Maintain(h) \/ Proceed(h) \/ QuarantineReturn(h)
         \/ \E r \in Releases : Quarantine(h, r)
    \/ \E r \in Releases :
         \/ Report(r) \/ Confirm(r) \/ Resolve(r) \/ ExpireReports(r)
         \/ Supersede(r)

Spec == Init /\ [][Next]_vars

-----------------------------------------------------------------------------
(* Rows, snapshots and calls stay in their types. *)
TypeOK ==
    /\ channel \in [Releases -> Channels]
    /\ previous \in [Releases -> Releases \cup {NoRelease}]
    /\ index \in [{"stable", "dev"} -> [Arches -> SUBSET Releases]]
    /\ reports \in [Releases -> [new : Nat, confirmed : Nat]]
    /\ superseded \subseteq Releases
    /\ calls \in [Handlers -> CallRecords]

(* What pacman sees in stable is what the channel says: two batches prepared *)
(* from different reads never both commit.                                   *)
StableIndexMatchesChannel ==
    \A a \in Arches : index["stable"][a] = Entries(In("stable"), a)

(* Stable carries one version of a package, also when two versions are       *)
(* promoted, rolled back or brought back from quarantine at the same time.   *)
OneStablePerPackage ==
    \A r \in In("stable") : SameKey(In("stable"), r) = {r}

(* Releases a quarantine is about to withdraw that it had not seen in stable: *)
(* replaced when it read the channel, brought back by a rollback since.      *)
Unseen ==
    {calls[h].release : h \in {g \in Handlers :
        /\ Reading(g, "quarantine", "commit")
        /\ calls[g].release \notin calls[g].stable}}

(* A stable release never loses a package it requires and that the           *)
(* repository carried: checked on a read, it still holds after the batch     *)
(* (of a quarantine: if what it withdraws was in stable when it read).       *)
DependenciesKept ==
    [][\A r \in In("stable")' \cap Binary : \A q \in Requires[r] :
         (\E s \in (In("stable") \cap Binary) \ Unseen : NameOf[s] = q.name) =>
           q.by \cap Entries(In("stable"), ArchOf[r])' # {}]_vars

(* A package leaves stable without a successor only for as many confirmed,   *)
(* unresolved crashes as the policy wants, counted when it leaves.           *)
StableLeftByPolicyOnly ==
    [][\A r \in In("stable") :
         Key(r) \notin Keys(In("stable")') => Confirmed(r) >= Threshold]_vars

(* docs/review-resolution.md:16: "The final transaction rechecks crashes,    *)
(* approvals, current revision": a crash or a new revision that arrives      *)
(* while snapshots are signed keeps the release in dev.                      *)
PromotedClean ==
    [][\A r \in In("dev") :
         channel'[r] = "stable" => ~Open(r) /\ r \notin superseded]_vars

(* The stable channel holds one version of a package and architecture, and   *)
(* the signed stable index in force lists exactly the channel: no batch      *)
(* activates a snapshot of a channel that has moved on.                      *)
StableIsIndexed == StableIndexMatchesChannel /\ OneStablePerPackage

(* A package enters stable clean and is missing from it only by policy,      *)
(* whatever two handlers read before their batches ran.                      *)
MovesAreDecided == PromotedClean /\ StableLeftByPolicyOnly
=============================================================================
