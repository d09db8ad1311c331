--------------------------- MODULE FactoryDossier ---------------------------
(* The dossier of a factory run (factory-dossier.ts): a report rendered from  *)
(* the rows of a revision, its run and the run's other candidates, stored     *)
(* under a name that never changes its contents.                              *)
(*                                                                            *)
(* The rows are read by one query after the other while the run goes on, so   *)
(* the parts of a dossier are of different moments.  Of what is read, the     *)
(* attempts and the builds are kept; texts, logs, digests and the reviews of  *)
(* the time are left out, and so are builds a revision had before the run.    *)
EXTENDS FactoryRun

CONSTANT Makers    \* requests for a dossier

VARIABLE
    makers  \* per request: at, the revision asked for, and what it has read

dossierVars == <<vars, makers>>

-----------------------------------------------------------------------------
(* Revisions: the requested one is 0, that of a repair has its attempt's      *)
(* number; the attempt of a failed preparation has none.                      *)
Revised(candidate) == candidate \in {"request", "repair"}
RevisionOf(k, candidate) == IF candidate = "request" THEN 0 ELSE k

NoBuilds == [k \in Attempt |-> [t \in Targets |-> "none"]]
NoRows ==
    [at |-> "off", revision |-> 0, builds |-> NoBuilds,
     attempts |-> [k \in Attempt |-> "none"],
     candidates |-> [k \in Attempt |-> "none"]]

(* A lease past its expiry is still a row that says it is leased.             *)
Row(status) == IF status = "expired" THEN "leased" ELSE status
BuildRows(k) == [t \in Targets |-> Row(builds[k][t])]

(* Mutant: the other candidates' builds are read before the run's attempts.   *)
AttemptsLast == [own |-> "extra", extra |-> "run", run |-> "stored"]

(* The order of the reads.                                                    *)
Following == [own |-> "run", run |-> "extra", extra |-> "stored"]

(* loadDossierRows: a dossier of revision r is asked for, and its builds read.*)
ReadOwn(m) ==
    /\ makers[m].at = "off"
    /\ \E r \in {0} \cup {k \in Attempt : bound[k] = "repair"} :
         makers' = [makers EXCEPT ![m] =
           [NoRows EXCEPT
              !.at = Following["own"], !.revision = r,
              !.builds = [k \in Attempt |->
                 IF Revised(bound[k]) /\ RevisionOf(k, bound[k]) = r
                 THEN BuildRows(k) ELSE @[k]]]]
    /\ UNCHANGED vars

(* The run is found by the revision; its attempts are read with what they     *)
(* were reserved for.                                                         *)
ReadAttempts(m) ==
    /\ makers[m].at = "run"
    /\ makers' = [makers EXCEPT ![m].attempts = attempts,
                                ![m].candidates = bound,
                                ![m].at = Following[@]]
    /\ UNCHANGED vars

(* The builds of the other candidates those attempts name; what is rendered   *)
(* is stored.  Its name is the digest of what it says: a dossier that is      *)
(* there already says the same, and no row is ever updated.                   *)
ReadExtra(m) ==
    LET other(k) ==
          /\ Revised(makers[m].candidates[k])
          /\ RevisionOf(k, makers[m].candidates[k]) # makers[m].revision
    IN
    /\ makers[m].at = "extra"
    /\ makers' = [makers EXCEPT
         ![m].builds = [k \in Attempt |-> IF other(k) THEN BuildRows(k) ELSE @[k]],
         ![m].at = Following[@]]
    /\ UNCHANGED vars

-----------------------------------------------------------------------------
(* What a dossier says, from the rows d.                                      *)
ListedAttempts(d) ==
    {k \in Attempt : d.attempts[k] # "none" \/ \E t \in Targets : d.builds[k][t] # "none"}

(* What its builds say of an attempt; what the run says of it overrides that. *)
ResultStatus(status) == IF status \in {"queued", "leased"} THEN "in-progress" ELSE status
ShownResults(d, k) ==
    IF d.attempts[k] # "none"
    THEN {IF d.attempts[k] = "running" THEN "in-progress" ELSE d.attempts[k]}
    ELSE {ResultStatus(d.builds[k][t]) : t \in {u \in Targets : d.builds[k][u] # "none"}}

(* The check "build" of a build; a target without any build is missing.  The  *)
(* other checks are of the worker's evidence, which is left out.              *)
BuildCheck(d, k, t) ==
    CASE d.builds[k][t] = "succeeded" -> "passed"
      [] d.builds[k][t] \in {"failed", "cancelled"} -> "failed"
      [] OTHER -> "missing"

Stored == {makers[m] : m \in {q \in Makers : makers[q].at = "stored"}}

MakeDossier(m) == ReadOwn(m) \/ ReadAttempts(m) \/ ReadExtra(m)

DossierInit == Init /\ makers = [m \in Makers |-> NoRows]
DossierNext ==
    \/ Next /\ UNCHANGED makers
    \/ \E m \in Makers : MakeDossier(m)
DossierSpec == DossierInit /\ [][DossierNext]_dossierVars

-----------------------------------------------------------------------------
(* A dossier stays true although its rows were read one after the other while *)
(* the run went on: it lists every attempt up to its last; a result or a      *)
(* check it shows as final is and stays that of the run; and when it shows    *)
(* the success of a repair other than the revision asked for, it shows all    *)
(* of its builds succeeded (they are read after the attempt).                 *)
DossierAgrees ==
    \A d \in Stored :
        /\ \E n \in 0..MaxAttempts : ListedAttempts(d) = 1..n
        /\ \A k \in ListedAttempts(d) :
             /\ \A s \in ShownResults(d, k) : d.attempts[k] # "none" =>
                  (s = "in-progress" \/ attempts[k] = s)
             /\ \A t \in Targets :
                  /\ BuildCheck(d, k, t) = "passed" => builds[k][t] = "succeeded"
                  /\ BuildCheck(d, k, t) = "failed" => builds[k][t] \in {"failed", "cancelled"}
        /\ \A k \in Attempt :
             /\ d.attempts[k] = "succeeded" /\ k # d.revision
             /\ d.candidates[k] = "repair"
             => \A t \in Targets : BuildCheck(d, k, t) = "passed"
=============================================================================
