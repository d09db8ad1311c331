------------------------ MODULE DistributionReleaseMC ------------------------
(* A channel edge that serves <<s1, o1>>, and two OPR channels.  The cohort's first revision    *)
(* built them; its second brings a new version of the system package and,     *)
(* of the OPR package on one target, its third rebuilds both versions with    *)
(* other bytes.                                                               *)
EXTENDS DistributionRelease, TLC

CONSTANTS h1, h2, s1, s2, o1, o2, o3, a0, a1, stable, edge, quarantine

Rec(n, t, c, any, f, v, k) ==
  [name |-> n, target |-> t, coll |-> c, any |-> any, file |-> f, sha |-> v, rev |-> k]

MCNative ==
  << {Rec("lib", "x", "core", TRUE, "lib-1", "b1", 1),
      Rec("app", "x", "omapkg", FALSE, "app-1", "b1", 1),
      Rec("app", "a", "omapkg", FALSE, "app-1", "b1", 1)},
     {Rec("lib", "x", "core", TRUE, "lib-2", "b2", 2),
      Rec("app", "x", "omapkg", FALSE, "app-2", "b2", 2)},
     {Rec("lib", "x", "core", TRUE, "lib-2", "b3", 3),
      Rec("app", "x", "omapkg", FALSE, "app-2", "b3", 3)} >>

MCChannel ==
  [r \in Releases |-> IF r = o2 THEN quarantine ELSE IF r \in {o1, o3} THEN stable ELSE edge]
MCTarget == [o \in OprReleases |-> IF o = o3 THEN s2 ELSE s1]
MCFirst == <<s1, o1>>

Symmetric == Permutations(Handlers)
=============================================================================
