---------------------------- MODULE BuildReviewMC ---------------------------
(* A small instance of BuildReview: two architectures, one daemon each, and  *)
(* the two reviewers of the revision.                                        *)
EXTENDS BuildReview, TLC

CONSTANTS w1, w2, x86, arm, h1, h2, area, security

OwnArch == (w1 :> x86) @@ (w2 :> arm)
ReviewerSymmetry == Permutations({area, security})

(* Bound of the instance: the daemons stay enrolled and accepting; what      *)
(* their administration does to builds is checked in BuildLeaseMC.           *)
WorkersStay ==
    \A w \in Workers : workers[w] = [status |-> "active", accepting |-> TRUE]
=============================================================================
