-------------------------- MODULE CrashQuarantineMC -------------------------
(* Small instances of CrashQuarantine: one or two packages, one maintainer   *)
(* and one or two invocations of the cron trigger.                           *)
EXTENDS CrashQuarantine, TLC

CONSTANTS lib2, app1, h1, c1, c2

Name == [r \in Releases |-> IF r = app1 THEN "app" ELSE "lib"]
OneArch == [r \in Releases |-> "x86_64"]
AtOf == [r \in Releases |-> IF r = app1 THEN 1 ELSE 2]
NeedsLib == [r \in Releases |->
               IF r = app1 THEN {[name |-> "lib", by |-> {lib2}]} ELSE {}]
CronSymmetry == Permutations(Cron)
=============================================================================
