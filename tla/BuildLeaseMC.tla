---------------------------- MODULE BuildLeaseMC ----------------------------
(* A small instance of BuildLease: two daemons that share the one build.     *)
EXTENDS BuildLease, TLC

CONSTANTS w1, w2, x86, h1, h2, area

SharedArch == (w1 :> x86) @@ (w2 :> x86)
SharedSymmetry == Permutations({h1, h2}) \cup Permutations({w1, w2})
=============================================================================
