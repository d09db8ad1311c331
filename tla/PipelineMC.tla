------------------------------ MODULE PipelineMC ------------------------------
(* The starts: the first check of the published package; a detected release  *)
(* in review or with its build finished; blockers of three other packages that *)
(* two maintainers link at once.                                               *)
EXTENDS Pipeline

CONSTANTS c1, c2, e1, e2, a1, m1, m2, d1, d2, d3, r1, Starts, Sets

NoLinks ==
  /\ blocker = [n \in Nodes |-> IF n \in Others THEN [NoBlocker EXCEPT !.status = "resolved"]
                                ELSE NoBlocker]
  /\ graphVersion = 0 /\ available = Others
  /\ link = [m \in Linkers |-> NoLink]
  /\ resolving = [r \in Resolvers |-> NoResolver]

NoMaintainers ==
  /\ starting = [g \in Generations |-> NoStart]
  /\ finalizing = [q \in Requests |-> NoFinalization]
  /\ check = [c \in Auditors |-> NoHead]

Unreviewed ==
  /\ NoMaintainers /\ merged = {} /\ builds = [q \in Requests |-> 0]
  /\ main = 0 /\ humanActs = MaxHuman /\ edits = MaxEdits

Fresh ==
  /\ \/ overlaps = 0 /\ faults = MaxFaults - 1 /\ newest = MaxRelease
     \/ overlaps = MaxOverlaps /\ faults = MaxFaults - 1 /\ newest = 1
     \/ overlaps = MaxOverlaps /\ faults = 0 /\ newest = MaxRelease
  /\ WatchStart /\ FactoryInit /\ PublicationInit /\ NoLinks
  /\ Unreviewed /\ ahead \in 0 .. Neighbours
  /\ present = Crons \cup Resolvers

Reviewed(status) ==
  /\ kind \in SourceKinds \cap {"git"}
  /\ newest = MaxRelease - 1 /\ generations = 1 /\ published = 0 /\ human = {}
  /\ overlaps = MaxOverlaps /\ faults = MaxFaults - 1
  /\ request = [q \in Requests |-> IF q > 1 THEN NoRequest ELSE
       [status |-> status, release |-> 2, owner |-> "system", generation |-> 1, autos |-> 1,
        resumes |-> 0, revision |-> [release |-> 2, generation |-> 1]]]
  /\ checkpoint = [q \in 0 .. MaxRequest |-> IF q = 0 THEN 2 ELSE 0]
  /\ instance = [g \in Generations |-> IF g > 1 THEN NoInstance ELSE
       [NoInstance EXCEPT !.request = 1, !.pc = "wait", !.status = "complete"]]
  /\ cron = [c \in Crons |-> NoCheck]
  /\ run = [g \in Generations |-> IF g > 1 THEN "none" ELSE "succeeded"]
  /\ attempts = [g \in Generations |-> IF g > 1 THEN 0 ELSE 1]
  /\ pulls = [g \in Generations |-> IF g > 1 THEN "none" ELSE "open"]
  /\ PublicationInit /\ NoLinks /\ NoMaintainers
  /\ ahead = 0 /\ edits = 0

InReview ==
  /\ Reviewed("review") /\ present \in Sets /\ humanActs = 0
  /\ main = 0 /\ merged = {} /\ builds = [q \in Requests |-> 0]
Built ==
  /\ Reviewed("building") /\ present = {e1, e2} /\ humanActs = MaxHuman
  /\ main = 1 /\ merged = {1} /\ builds = [q \in Requests |-> IF q = 1 THEN 1 ELSE 0]

LinksOnly ==
  /\ kind \in SourceKinds \cap {"git"}
  /\ WatchStart /\ newest = MaxRelease /\ overlaps = 0 /\ faults = 0 /\ FactoryInit /\ PublicationInit
  /\ blocker = [n \in Nodes |-> IF n \in Others THEN [NoBlocker EXCEPT !.status = "open"]
                                ELSE NoBlocker]
  /\ graphVersion = 0 /\ available = {} /\ link = [m \in Linkers |-> NoLink]
  /\ resolving = [r \in Resolvers |-> NoResolver]
  /\ Unreviewed /\ ahead = 0 /\ present \in {Linkers, {m1} \cup Resolvers}

MCInit ==
  \/ "fresh" \in Starts /\ Fresh
  \/ "review" \in Starts /\ InReview
  \/ "built" \in Starts /\ Built
  \/ "links" \in Starts /\ LinksOnly
MCSpec == MCInit /\ [][Next]_vars /\ Fairness
=============================================================================
