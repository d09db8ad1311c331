---------------------------- MODULE FactoryRunMC ----------------------------
(* A small instance of FactoryRun.  A behaviour has an incident and leases    *)
(* that lapse, or a dossier, made of a requested revision without builds of   *)
(* its own.                                                                   *)
EXTENDS FactoryDossier, TLC

CONSTANTS x86, arm, s1, s2, wf1, wf2, q1, d1

MCInit ==
    \/ Init /\ makers = [m \in Makers |-> [NoRows EXCEPT !.at = "none"]]
    \/ DossierInit /\ ~run.built

(* What happens only in behaviours without a dossier.                         *)
Lapse ==
    \/ incidents' # incidents
    \/ run' = [run EXCEPT !.live = FALSE] /\ run' # run
    \/ \E k \in Attempt : \E t \in Targets : builds'[k][t] = "expired"

MCNext ==
    \/ Next /\ UNCHANGED makers /\ (Lapse => \A m \in Makers : makers[m].at = "none")
    \/ \E m \in Makers : MakeDossier(m)

MCSpec == MCInit /\ [][MCNext]_dossierVars /\ Fairness
=============================================================================
