--------------------------- MODULE SigningIntentMC ---------------------------
(* Two requests for one package object, one for a manifest. *)
EXTENDS SigningIntent, TLC

CONSTANTS i1, i2, m1, package, manifest

ObjectOfIntents == (i1 :> package) @@ (i2 :> package) @@ (m1 :> manifest)
=============================================================================
