---------------------------- MODULE BuildDaemonMC ----------------------------
(* Two daemons of one architecture.  A build or an inspection starts as the   *)
(* first claim of w1 left it, an image job queued.                            *)
EXTENDS BuildDaemon

CONSTANTS w1, w2

MCInit ==
  /\ BuildsInit
  /\ \E kind \in {"build", "image", "inspection"}, mode \in {"frozen", "planned"} :
      LET Status(k, s) == IF kind = k THEN s ELSE "none"
          Live(k) == kind = k
          Att(k) == IF kind = k THEN 1 ELSE 0
          used == IF kind = "build" THEN mode ELSE "none" IN
      /\ kind # "build" => mode = "frozen"
      /\ build = [status |-> Status("build", "leased"), att |-> Att("build"), worker |-> w1,
                  live |-> Live("build"), mode |-> mode]
      /\ image = [status |-> Status("image", "queued"), worker |-> w1, live |-> FALSE,
                  run |-> TRUE, artifact |-> 0]
      /\ inspection = [status |-> Status("inspection", "leased"), att |-> Att("inspection"),
                       worker |-> w1, live |-> Live("inspection"), report |-> 0]
      /\ daemon = [w \in Workers |->
           IF kind = "image" \/ w # w1 THEN Idle
           ELSE [Idle EXCEPT !.pc = "check", !.kind = kind, !.mode = used, !.att = 1]]
  /\ iuploads = <<>>
  /\ held = [w \in Workers |-> {}]
  /\ crashed = {}
MCSpec == MCInit /\ [][Next]_vars /\ Fairness
=============================================================================
