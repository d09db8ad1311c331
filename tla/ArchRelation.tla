---------------------------- MODULE ArchRelation ----------------------------
(* The versions and relations of Arch packages, as src/lib/server/arch.ts     *)
(* reads and compares them.                                                   *)
(*                                                                            *)
(* A written version is [epoch, parts]: the epoch (None when there is none)   *)
(* and the texts between its dashes.  A text is the sequence of its runs of   *)
(* digits and of letters, which is all the comparison sees of it: each is     *)
(* [digits, rank], the number of a run of digits or the alphabetical rank of  *)
(* a run of letters.  A relation is [name, op, version]; op is None for a     *)
(* bare name, and a written relation that is malformed is None.               *)
EXTENDS Integers, Sequences, FiniteSets

CONSTANTS
  Sonames,   \* pairs <<written, family>>: lib:libx.so.1 belongs to libx.so
  None

ASSUME SonamesAssumption == \A s \in Sonames : s \in Seq(STRING) /\ Len(s) = 2

Operators == {"=", ">", ">=", "<", "<="}

Number(n) == [digits |-> TRUE, rank |-> n]
Letters(n) == [digits |-> FALSE, rank |-> n]

(* The last dash separates a release of one or two numbers; any other text    *)
(* after a dash still belongs to the version.                                 *)
IsRelease(text) == Len(text) \in {1, 2} /\ \A i \in DOMAIN text : text[i].digits
Flat(parts) ==
  LET Joined[n \in 0..Len(parts)] == IF n = 0 THEN <<>> ELSE Joined[n - 1] \o parts[n]
  IN Joined[Len(parts)]

ParseVersion(written) ==
  LET n == Len(written.parts)
      released == n > 1 /\ IsRelease(written.parts[n])
  IN [epoch |-> IF written.epoch = None THEN 0 ELSE written.epoch,
      text |-> Flat(IF released THEN SubSeq(written.parts, 1, n - 1) ELSE written.parts),
      release |-> IF released THEN written.parts[n] ELSE None]

Order(a, b) == IF a < b THEN -1 ELSE IF a > b THEN 1 ELSE 0

CompareRun(l, r) ==
  IF l.digits # r.digits THEN (IF l.digits THEN 1 ELSE -1) ELSE Order(l.rank, r.rank)

(* The first run that differs decides.  When one text is the other's prefix,  *)
(* what follows decides: a number makes it newer, letters make it older.      *)
CompareText(l, r) ==
  LET shared == 1..(IF Len(l) < Len(r) THEN Len(l) ELSE Len(r))
      differs == {i \in shared : l[i] # r[i]}
      next == Cardinality(shared) + 1
  IN IF differs # {}
     THEN LET i == CHOOSE i \in differs : \A j \in differs : i <= j IN CompareRun(l[i], r[i])
     ELSE IF Len(l) > Len(r) THEN (IF l[next].digits THEN 1 ELSE -1)
     ELSE IF Len(l) < Len(r) THEN (IF r[next].digits THEN -1 ELSE 1)
     ELSE 0

CompareBase(l, r) ==
  IF l.epoch # r.epoch THEN Order(l.epoch, r.epoch) ELSE CompareText(l.text, r.text)

(* Releases are compared only when both versions have one.                    *)
CompareVersions(l, r) ==
  LET base == CompareBase(l, r) IN
  IF base # 0 \/ None \in {l.release, r.release} THEN base
  ELSE CompareText(l.release, r.release)

Compares(op, order) ==
  CASE op = "=" -> order = 0 [] op = ">" -> order > 0 [] op = ">=" -> order >= 0
    [] op = "<" -> order < 0 [] op = "<=" -> order <= 0

Satisfies(relation, version) ==
  \/ relation.op = None \/ relation.version = None
  \/ Compares(relation.op, CompareVersions(ParseVersion(version), ParseVersion(relation.version)))

(* What is provided has a name and at most an exact version; a package's own  *)
(* name is answered by its own version, whatever else it provides.            *)
Provided(relation) == relation # None /\ relation.op \in {None, "="}

SatisfiedBy(relation, package) ==
  IF relation.name = package.name THEN Satisfies(relation, package.version)
  ELSE \E p \in package.provides :
         /\ p # None /\ p.name = relation.name
         /\ \/ relation.op = None
            \/ p.op = "=" /\ p.version # None /\ Satisfies(relation, p.version)

SameCapability(native, reviewed) ==
  \/ native.name = reviewed.name
  \/ native.op = None /\ reviewed.op = None /\ <<native.name, reviewed.name>> \in Sonames

(* A relation as a range of positions.  A version without a release stands    *)
(* for all of its releases: it starts before the first and ends after the     *)
(* last of them.                                                              *)
EdgeOrder == [start |-> 0, point |-> 1, end |-> 2]

ComparePosition(l, r) ==
  LET base == CompareBase(l.version, r.version) IN
  IF base # 0 THEN base
  ELSE IF l.edge # r.edge THEN EdgeOrder[l.edge] - EdgeOrder[r.edge]
  ELSE IF l.edge # "point" \/ None \in {l.version.release, r.version.release} THEN 0
  ELSE CompareText(l.version.release, r.version.release)

Bound(relation, edge, inclusive) ==
  LET version == ParseVersion(relation.version) IN
  [version |-> version, inclusive |-> inclusive,
   edge |-> IF version.release # None THEN "point" ELSE edge]

LowerBound(relation) ==
  CASE relation.op \in {"=", ">="} -> Bound(relation, "start", TRUE)
    [] relation.op = ">" -> Bound(relation, "end", FALSE)
    [] OTHER -> None

UpperBound(relation) ==
  CASE relation.op \in {"=", "<="} -> Bound(relation, "end", TRUE)
    [] relation.op = "<" -> Bound(relation, "start", FALSE)
    [] OTHER -> None

LowerCovers(native, reviewed) ==
  \/ reviewed = None
  \/ /\ native # None
     /\ LET order == ComparePosition(native, reviewed) IN
        order > 0 \/ (order = 0 /\ (native.inclusive => reviewed.inclusive))

UpperCovers(native, reviewed) ==
  \/ reviewed = None
  \/ /\ native # None
     /\ LET order == ComparePosition(native, reviewed) IN
        order < 0 \/ (order = 0 /\ (native.inclusive => reviewed.inclusive))

(* The native relation is the reviewed one, or stricter.                      *)
Covers(native, reviewed) ==
  /\ None \notin {native, reviewed} /\ SameCapability(native, reviewed)
  /\ \/ reviewed.op = None
     \/ /\ native.op # None /\ native.version # None /\ reviewed.version # None
        /\ LowerCovers(LowerBound(native), LowerBound(reviewed))
        /\ UpperCovers(UpperBound(native), UpperBound(reviewed))
=============================================================================
