-------------------------- MODULE FactoryRunProofs --------------------------
(* Proofs about FactoryRun, for any number of starters, workflows, polls and *)
(* targets, any budget of attempts and any number of incidents.              *)
(*                                                                           *)
(* Starters, workflow executions and polls act on what they read earlier.    *)
(* What makes this sound is how far ahead of the run a process can be: one   *)
(* that reserves is at most one attempt ahead, one that builds or finishes   *)
(* is never ahead, and one that finishes an attempt well has seen all of its *)
(* builds succeeded, which no later step undoes.  FactoryInv says so.        *)
(* A dossier is read while the run goes on: DossierInv says that what it has *)
(* read is still so where it was final, and what its reads imply together.   *)
EXTENDS FactoryDossier, TLAPS

Reserving == {"prepare", "reserve", "reserving"}
Building == {"queue", "wait", "finish", "record"}
Finishing == {"finish", "record"}

(* What the record of a process in flight says about the run. *)
ProcBound(c) ==
    /\ c.at \in Reserving => c.attempt \in Attempt /\ c.attempt <= run.count + 1
    /\ c.at \in Building => c.attempt \in Attempt /\ c.attempt <= run.count
    /\ c.at = "reserving" => c.attempt = c.seen + 1
    /\ c.at \in Finishing => c.outcome # "none"
    /\ c.at \in Finishing /\ c.outcome = "ok" => AllAre(c.attempt, "succeeded")

ProcsBound == \A p \in Procs : ProcBound(procs[p])

(* A queued run may still reserve; only a running one has a live lease. *)
BudgetLeft == run.status = "queued" => run.count < MaxAttempts
LeaseIsRunning ==
    /\ run.live => run.status = "running"
    /\ run.status = "running" => run.current \in Attempt

RowsInv ==
    /\ RunMatchesAttempts
    /\ BudgetLeft
    /\ LeaseIsRunning
    /\ NoOrphanBuilds
    /\ SuccessIsBuilt
    /\ ExhaustedStops

FactoryInv == TypeOK /\ ProcsBound /\ RowsInv

-----------------------------------------------------------------------------
(* The initial state satisfies the invariant. *)
LEMMA InitFactoryInv == Init => FactoryInv
<1> SUFFICES ASSUME Init PROVE FactoryInv
    OBVIOUS
<1> USE BudgetAssumption DEF Init, Attempt
<1>1. TypeOK
    <2>1. run \in RunRecords
        BY DEF RunRecords, RunStatus
    <2>2. procs \in [Procs -> ProcRecords]
        <3>1. Off \in ProcRecords
            BY DEF ProcRecords, Off, Stages, Outcomes
        <3> QED BY <3>1
    <2>3. /\ attempts \in [Attempt -> AttemptStatus]
          /\ bound \in [Attempt -> Candidates]
          /\ builds \in [Attempt -> [Targets -> BuildStatus]]
        BY DEF Candidates, BuildStatus, AttemptStatus
    <2>4. polls \in [Pollers -> BOOLEAN] /\ incidents \in 0..MaxIncidents
        OBVIOUS
    <2> QED BY <2>1, <2>2, <2>3, <2>4 DEF TypeOK
<1>2. ProcsBound
    BY DEF ProcsBound, ProcBound, Off, Reserving, Building, Finishing
<1>3. RowsInv
    BY DEF RowsInv, RunMatchesAttempts, BudgetLeft, LeaseIsRunning,
           NoOrphanBuilds, SuccessIsBuilt, ExhaustedStops, SomeIn, AllAre, Live
<1> QED BY <1>1, <1>2, <1>3 DEF FactoryInv

(* A process takes a record that is bound, or stays as it was; the others    *)
(* are bound still when the count has not gone back and no success was       *)
(* undone.                                                                   *)
LEMMA ProcsStayBound ==
    ASSUME TypeOK, ProcsBound,
           run'.count \in Int, run.count <= run'.count,
           \A k \in Attempt : AllAre(k, "succeeded") => AllAre(k, "succeeded")',
           \A p \in Procs : procs'[p] = procs[p] \/ ProcBound(procs[p])'
    PROVE  ProcsBound'
<1> SUFFICES ASSUME NEW p \in Procs
             PROVE  ProcBound(procs[p])'
    BY DEF ProcsBound
<1>1. CASE procs'[p] # procs[p]
    BY <1>1
<1>2. CASE procs'[p] = procs[p]
    <2>1. ProcBound(procs[p])
        BY DEF ProcsBound
    <2>2. procs[p] \in ProcRecords /\ run.count \in Int
        BY DEF TypeOK, RunRecords
    <2>3. procs[p].attempt \in Int
        BY <2>2, BudgetAssumption DEF ProcRecords
    <2> QED BY <1>2, <2>1, <2>2, <2>3
        DEF ProcBound, Reserving, Building, Finishing
<1> QED BY <1>1, <1>2

(* A step of a process that leaves the rows alone keeps the invariant when   *)
(* the record it takes is bound.                                             *)
LEMMA ProcStep ==
    ASSUME FactoryInv, NEW p \in Procs, NEW c \in ProcRecords, ProcBound(c),
           Become(p, c), dispatched' \in BOOLEAN, incidents' \in 0..MaxIncidents,
           UNCHANGED <<run, attempts, bound, builds, completing, polls>>
    PROVE  FactoryInv'
<1> USE DEF FactoryInv, Become
<1>1. TypeOK'
    BY DEF TypeOK
<1>2. ProcsBound'
    <2>1. \A q \in Procs : procs'[q] = procs[q] \/ ProcBound(procs[q])'
        BY DEF TypeOK, ProcBound, AllAre
    <2> QED BY <2>1, ProcsStayBound DEF TypeOK, RunRecords, AllAre
<1>3. RowsInv'
    BY DEF RowsInv, RunMatchesAttempts, BudgetLeft, LeaseIsRunning,
           NoOrphanBuilds, SuccessIsBuilt, ExhaustedStops, SomeIn, AllAre, Live
<1> QED BY <1>1, <1>2, <1>3

-----------------------------------------------------------------------------
(* Records processes take, with what they may know.                          *)

(* What the type invariant and the rows say about a process and the run. *)
LEMMA ProcFacts ==
    ASSUME FactoryInv, NEW p \in Procs
    PROVE  /\ procs[p] \in ProcRecords
           /\ procs[p].attempt \in 0..MaxAttempts
           /\ ProcBound(procs[p])
           /\ run.count \in 0..MaxAttempts
           /\ run.current = run.count
           /\ run.status \in RunStatus
           /\ run.status = "running" => run.current \in Attempt
           /\ run.status = "queued" => run.count < MaxAttempts
           /\ \A k \in Attempt : attempts[k] = "none" <=> k > run.count
BY DEF FactoryInv, TypeOK, ProcRecords, RunRecords, ProcsBound, RowsInv,
       RunMatchesAttempts, LeaseIsRunning, BudgetLeft

(* At rest a process knows nothing it could rely on. *)
LEMMA RestIsBound ==
    ASSUME NEW p \in Procs
    PROVE  /\ Off \in ProcRecords /\ ProcBound(Off)
           /\ Over(p) \in ProcRecords /\ ProcBound(Over(p))
BY BudgetAssumption DEF Over, Off, ProcRecords, Stages, Outcomes, ProcBound, Reserving,
       Building, Finishing

(* A process that turns to the attempt of the run, or to the next one. *)
LEMMA FreshStep ==
    ASSUME FactoryInv, NEW p \in Procs, NEW k \in Attempt,
           NEW stage \in {"prepare", "reserve", "queue"},
           k <= run.count \/ (stage # "queue" /\ k = run.count + 1),
           Become(p, [Off EXCEPT !.at = stage, !.attempt = k]),
           UNCHANGED <<run, attempts, bound, builds, completing, dispatched,
                       polls, incidents>>
    PROVE  FactoryInv'
<1> DEFINE c == [Off EXCEPT !.at = stage, !.attempt = k]
<1>1. stage \in Stages /\ k \in 0..MaxAttempts
    BY BudgetAssumption DEF Stages, Attempt
<1>2. Become(p, c)
    OBVIOUS
<1>3. c \in ProcRecords /\ c.at = stage /\ c.attempt = k /\ c.outcome = "none"
    BY <1>1, RestIsBound DEF ProcRecords, Off
<1> HIDE DEF c
<1>4. run.count \in Int
    BY ProcFacts
<1>5. ProcBound(c)
    BY <1>3, <1>4 DEF ProcBound, Reserving, Building, Finishing, Attempt
<1> QED BY <1>2, <1>3, <1>5, ProcStep DEF FactoryInv, TypeOK

(* A process that goes to a stage and keeps its record. *)
LEMMA GotoStep ==
    ASSUME FactoryInv, NEW p \in Procs, NEW stage \in Stages, Goto(p, stage),
           ProcBound([procs[p] EXCEPT !.at = stage]),
           dispatched' \in BOOLEAN, incidents' \in 0..MaxIncidents,
           UNCHANGED <<run, attempts, bound, builds, completing, polls>>
    PROVE  FactoryInv'
<1>1. [procs[p] EXCEPT !.at = stage] \in ProcRecords
    BY DEF FactoryInv, TypeOK, ProcRecords
<1> QED BY <1>1, ProcStep DEF Goto

(* The row of an attempt that is not ahead of the run was obtained. *)
LEMMA ObtainedStep ==
    ASSUME FactoryInv, NEW p \in Procs, procs[p].attempt \in Attempt,
           procs[p].attempt <= run.count, NEW status, Obtained(p, status),
           UNCHANGED <<run, attempts, bound, builds, completing, dispatched,
                       polls, incidents>>
    PROVE  FactoryInv'
<1> USE DEF FactoryInv, TypeOK
<1>1. ASSUME NEW stage \in {"finish", "queue"}, Goto(p, stage),
             stage = "finish" => procs[p].outcome = "validation"
      PROVE  FactoryInv'
    <2>1. stage \in Stages /\ procs[p] \in ProcRecords
        BY DEF Stages
    <2>2. ProcBound([procs[p] EXCEPT !.at = stage])
        BY <1>1, <2>1
        DEF ProcBound, ProcRecords, Reserving, Building, Finishing
    <2> QED BY <1>1, <2>1, <2>2, GotoStep
<1>2. CASE Become(p, Over(p))
    BY <1>2, RestIsBound, ProcStep
<1> QED BY <1>1, <1>2 DEF Obtained

LEMMA StartUnitKeeps ==
    ASSUME FactoryInv, NEW p \in Procs, StartUnit(p)
    PROVE  FactoryInv'
<1> USE BudgetAssumption DEF StartUnit, FactoryInv, TypeOK
<1>1. ASSUME NEW stage \in {"stop", "dispatch"}, Goto(p, stage)
      PROVE  FactoryInv'
    <2>1. stage \in Stages /\ procs[p] \in ProcRecords
        BY DEF Stages
    <2>2. ProcBound([procs[p] EXCEPT !.at = stage])
        BY <2>1 DEF ProcBound, ProcRecords, Reserving, Building, Finishing
    <2> QED BY <1>1, <2>1, <2>2, GotoStep
<1>2. ASSUME Become(p, [Off EXCEPT !.at = "reserve", !.attempt = run.count + 1]),
             run.count < MaxAttempts
      PROVE  FactoryInv'
    <2>1. run.count + 1 \in Attempt
        BY <1>2, ProcFacts DEF Attempt
    <2> QED BY <1>2, <2>1, FreshStep
<1>3. ASSUME Become(p, [Off EXCEPT !.at = "queue", !.attempt = run.current]),
             run.status = "running"
      PROVE  FactoryInv'
    <2>1. run.current \in Attempt /\ run.current <= run.count
        BY <1>3, ProcFacts DEF Attempt
    <2> QED BY <1>3, <2>1, FreshStep
<1> QED BY <1>1, <1>2, <1>3

LEMMA DispatchUnitKeeps ==
    ASSUME FactoryInv, NEW p \in Procs, DispatchUnit(p)
    PROVE  FactoryInv'
BY RestIsBound, ProcStep DEF DispatchUnit, FactoryInv, TypeOK

(* What is reserved for is at most the next attempt; a queued run whose row  *)
(* it finds missing is at the count it read.                                 *)
LEMMA ReserveReadKeeps ==
    ASSUME FactoryInv, NEW p \in Procs, ReserveRead(p)
    PROVE  FactoryInv'
<1> DEFINE k == procs[p].attempt
<1> USE DEF ReserveRead, At, FactoryInv, TypeOK
<1>1. k \in Attempt /\ k <= run.count + 1
    BY ProcFacts DEF ProcBound, Reserving
<1>2. CASE attempts[k] # "none" /\ Obtained(p, attempts[k])
    <2>1. k <= run.count
        BY <1>1, <1>2, ProcFacts DEF Attempt
    <2> QED BY <1>1, <1>2, <2>1, ObtainedStep
<1>3. CASE Become(p, Over(p))
    BY <1>3, RestIsBound, ProcStep
<1>4. CASE Goto(p, "stop")
    <2>1. ProcBound([procs[p] EXCEPT !.at = "stop"])
        BY ProcFacts DEF ProcBound, ProcRecords, Reserving, Building, Finishing
    <2> QED BY <1>4, <2>1, GotoStep DEF Stages
<1>5. CASE /\ attempts[k] = "none" /\ run.status = "queued"
           /\ Become(p, [procs[p] EXCEPT !.at = "reserving", !.seen = run.count])
    <2> DEFINE c == [procs[p] EXCEPT !.at = "reserving", !.seen = run.count]
    <2>1. c \in ProcRecords
        BY ProcFacts DEF ProcRecords, Stages
    <2>2. k = run.count + 1
        BY <1>1, <1>5, ProcFacts DEF Attempt
    <2>3. ProcBound(c)
        BY <1>1, <2>2, ProcFacts
        DEF ProcBound, ProcRecords, Reserving, Building, Finishing
    <2> QED BY <1>5, <2>1, <2>3, ProcStep
<1> QED BY <1>2, <1>3, <1>4, <1>5

LEMMA ReserveRacedKeeps ==
    ASSUME FactoryInv, NEW p \in Procs, ReserveRaced(p)
    PROVE  FactoryInv'
<1> DEFINE k == procs[p].attempt
<1> USE DEF ReserveRaced, At, FactoryInv, TypeOK
<1>1. k \in Attempt
    BY ProcFacts DEF ProcBound, Reserving
<1>2. CASE attempts[k] = "none"
    BY <1>2, RestIsBound, ProcStep
<1>3. CASE attempts[k] # "none"
    <2>1. k <= run.count
        BY <1>1, <1>3, ProcFacts DEF Attempt
    <2> QED BY <1>1, <1>3, <2>1, ObtainedStep
<1> QED BY <1>2, <1>3

-----------------------------------------------------------------------------
(* The workflow's steps that leave the rows alone.                           *)
LEMMA WorkflowStartKeeps ==
    ASSUME FactoryInv, NEW p \in Procs, WorkflowStart(p)
    PROVE  FactoryInv'
<1> DEFINE n == IF run.status = "running" THEN run.current ELSE 0
           c == [Off EXCEPT !.at = "entry", !.seen = n]
<1>1. n \in 0..MaxAttempts
    BY ProcFacts, BudgetAssumption DEF Attempt
<1> HIDE DEF n
<1>2. c \in ProcRecords /\ c.at = "entry"
    BY <1>1, RestIsBound DEF ProcRecords, Off, Stages
<1>3. Become(p, c)
    BY DEF WorkflowStart, n
<1> HIDE DEF c
<1>4. ProcBound(c)
    BY <1>2 DEF ProcBound, Reserving, Building, Finishing
<1> QED BY <1>2, <1>3, <1>4, ProcStep DEF WorkflowStart, FactoryInv, TypeOK

(* Leaving for the stop or for the record of a stage without knowledge.      *)
LEMMA StopStageKeeps ==
    ASSUME FactoryInv, NEW p \in Procs, Goto(p, "stop"),
           UNCHANGED <<run, attempts, bound, builds, completing, dispatched,
                       polls, incidents>>
    PROVE  FactoryInv'
<1>1. ProcBound([procs[p] EXCEPT !.at = "stop"])
    BY ProcFacts DEF ProcBound, ProcRecords, Reserving, Building, Finishing
<1> QED BY <1>1, GotoStep DEF Stages, FactoryInv, TypeOK

LEMMA LoopEntryKeeps ==
    ASSUME FactoryInv, NEW p \in Procs, LoopEntry(p)
    PROVE  FactoryInv'
<1>1. UNCHANGED <<run, attempts, bound, builds, completing, dispatched, polls,
                  incidents>>
    BY DEF LoopEntry
<1>2. CASE Become(p, Over(p))
    BY <1>1, <1>2, RestIsBound, ProcStep DEF FactoryInv, TypeOK
<1>3. CASE Goto(p, "stop")
    BY <1>1, <1>3, StopStageKeeps
<1>4. CASE /\ run.status = "running"
           /\ Become(p, [Off EXCEPT !.at = "queue", !.attempt = run.current])
    <2>1. run.current \in Attempt /\ run.current <= run.count
        BY <1>4, ProcFacts DEF Attempt
    <2> QED BY <1>1, <1>4, <2>1, FreshStep
<1>5. CASE /\ run.status = "queued"
           /\ Become(p, [Off EXCEPT !.at = "prepare", !.attempt = run.count + 1])
    <2>1. run.count + 1 \in Attempt
        BY <1>5, ProcFacts, BudgetAssumption DEF Attempt
    <2> HIDE DEF Become
    <2>2. \A k \in Attempt : k = run.count + 1 /\
            Become(p, [Off EXCEPT !.at = "prepare", !.attempt = k]) => FactoryInv'
        BY <1>1, FreshStep
    <2> QED BY <1>5, <2>1, <2>2
<1> QED BY <1>2, <1>3, <1>4, <1>5 DEF LoopEntry

LEMMA PrepareKeeps ==
    ASSUME FactoryInv, NEW p \in Procs, Prepare(p)
    PROVE  FactoryInv'
<1>1. UNCHANGED <<run, attempts, bound, builds, completing, dispatched, polls,
                  incidents>>
    BY DEF Prepare
<1>2. ASSUME NEW o \in Outcomes,
             Become(p, [procs[p] EXCEPT !.at = "reserve", !.outcome = o])
      PROVE  FactoryInv'
    <2> DEFINE c == [procs[p] EXCEPT !.at = "reserve", !.outcome = o]
    <2>1. c \in ProcRecords /\ c.at = "reserve" /\ c.attempt = procs[p].attempt
        BY ProcFacts DEF ProcRecords, Stages
    <2>2. ProcBound(c)
        BY <2>1, ProcFacts DEF Prepare, At, ProcBound, Reserving, Building, Finishing
    <2> QED BY <1>1, <1>2, <2>1, <2>2, ProcStep DEF FactoryInv, TypeOK
<1>3. CASE Goto(p, "reserve")
    <2>1. procs[p].outcome \in Outcomes
        BY ProcFacts DEF ProcRecords
    <2>2. [procs[p] EXCEPT !.at = "reserve", !.outcome = procs[p].outcome]
            = [procs[p] EXCEPT !.at = "reserve"]
        BY ProcFacts DEF ProcRecords
    <2> QED BY <1>2, <1>3, <2>1, <2>2 DEF Goto
<1>4. CASE Goto(p, "stop")
    BY <1>1, <1>4, StopStageKeeps
<1>5. CASE Become(p, [procs[p] EXCEPT !.at = "reserve", !.outcome = "validation"])
    BY <1>2, <1>5 DEF Outcomes
<1> QED BY <1>3, <1>4, <1>5 DEF Prepare

(* The poll saw a failed build, or every build succeeded, with the declared  *)
(* outputs or not.                                                           *)
LEMMA ExecuteKeeps ==
    ASSUME FactoryInv, NEW p \in Procs, ExecuteSettles(p) \/ ExecuteTimesOut(p)
    PROVE  FactoryInv'
<1>1. /\ At(p, "wait")
      /\ UNCHANGED <<run, attempts, bound, builds, completing, dispatched, polls,
                     incidents>>
    BY DEF ExecuteSettles, ExecuteTimesOut
<1>2. ASSUME NEW o \in {"ok", "build"},
             o = "ok" => AllAre(procs[p].attempt, "succeeded"),
             Become(p, [procs[p] EXCEPT !.at = "finish", !.outcome = o])
      PROVE  FactoryInv'
    <2> DEFINE c == [procs[p] EXCEPT !.at = "finish", !.outcome = o]
    <2>1. /\ c \in ProcRecords
          /\ c.at = "finish" /\ c.outcome = o /\ c.attempt = procs[p].attempt
        BY ProcFacts DEF ProcRecords, Stages, Outcomes
    <2> HIDE DEF c
    <2>2. procs[p].attempt \in Attempt /\ procs[p].attempt <= run.count
        BY <1>1, ProcFacts DEF At, ProcBound, Building
    <2>3. ProcBound(c)
        BY <1>2, <2>1, <2>2 DEF ProcBound, Reserving, Building, Finishing
    <2> QED BY <1>1, <1>2, <2>1, <2>3, ProcStep DEF FactoryInv, TypeOK, c
<1>3. CASE Become(p, Over(p))
    BY <1>1, <1>3, RestIsBound, ProcStep DEF FactoryInv, TypeOK
<1> QED BY <1>2, <1>3 DEF ExecuteSettles, ExecuteTimesOut

(* What follows an attempt that is not ahead of the run, in the state after  *)
(* it was recorded or read.                                                  *)
LEMMA AfterIsBound ==
    ASSUME FactoryInv, NEW p \in Procs, procs[p].attempt \in Attempt,
           procs[p].attempt <= run.count
    PROVE  /\ After(p) \in ProcRecords
           /\ After(p).at \in {"off", "done", "prepare"}
           /\ After(p).at = "prepare" =>
                After(p).attempt \in Attempt /\ After(p).attempt <= run.count + 1
<1> DEFINE k == procs[p].attempt
           c == [Off EXCEPT !.at = "prepare", !.attempt = k + 1]
<1>1. CASE After(p) = Over(p)
    BY <1>1, RestIsBound DEF Over, Off
<1>2. CASE ~LastChance(k) /\ After(p) = c
    <2>1. k + 1 \in Attempt /\ k + 1 <= run.count + 1
        BY <1>2, ProcFacts, BudgetAssumption DEF Attempt, LastChance
    <2>2. k + 1 \in 0..MaxAttempts
        BY <2>1, BudgetAssumption DEF Attempt
    <2>3. c \in ProcRecords /\ c.at = "prepare" /\ c.attempt = k + 1
        BY <2>2, RestIsBound DEF ProcRecords, Off, Stages
    <2> QED BY <1>2, <2>1, <2>3
<1> QED BY <1>1, <1>2 DEF After

LEMMA FinishReadKeeps ==
    ASSUME FactoryInv, NEW p \in Procs, FinishRead(p)
    PROVE  FactoryInv'
<1>1. /\ At(p, "finish")
      /\ UNCHANGED <<run, attempts, bound, builds, completing, dispatched, polls,
                     incidents>>
    BY DEF FinishRead
<1>2. procs[p].attempt \in Attempt /\ procs[p].attempt <= run.count
    BY <1>1, ProcFacts DEF At, ProcBound, Building
<1>3. CASE Become(p, Over(p))
    BY <1>1, <1>3, RestIsBound, ProcStep DEF FactoryInv, TypeOK
<1>4. CASE Become(p, After(p))
    <2>1. ProcBound(After(p))
        BY <1>2, AfterIsBound DEF ProcBound, Reserving, Building, Finishing
    <2> QED BY <1>1, <1>2, <1>4, <2>1, AfterIsBound, ProcStep
        DEF FactoryInv, TypeOK
<1>5. CASE Goto(p, "record")
    <2>1. ProcBound([procs[p] EXCEPT !.at = "record"])
        BY <1>1, ProcFacts
        DEF At, ProcBound, ProcRecords, Reserving, Building, Finishing
    <2> QED BY <1>1, <1>5, <2>1, GotoStep DEF Stages, FactoryInv, TypeOK
<1> QED BY <1>3, <1>4, <1>5 DEF FinishRead

LEMMA CrashProcKeeps ==
    ASSUME FactoryInv, NEW p \in Procs, CrashProc(p)
    PROVE  FactoryInv'
<1>1. incidents' \in 0..MaxIncidents
    BY BudgetAssumption DEF CrashProc, Incident, FactoryInv, TypeOK
<1> QED BY <1>1, RestIsBound, ProcStep DEF CrashProc, FactoryInv, TypeOK

-----------------------------------------------------------------------------
(* Steps that change rows.                                                   *)

LEMMA StoppedTyped ==
    ASSUME NEW r \in RunRecords
    PROVE  [r EXCEPT !.status = "needs-human-intervention",
                     !.token = 0, !.live = FALSE] \in RunRecords
<1>1. 0 \in 0..MaxAttempts /\ "needs-human-intervention" \in RunStatus
    BY BudgetAssumption DEF RunStatus
<1> QED BY <1>1 DEF RunRecords

(* CancelBuilds ends the builds of one attempt that are not settled. *)
LEMMA CancelKeeps ==
    ASSUME TypeOK, NEW n \in Attempt, builds' = CancelBuilds(n)
    PROVE  /\ builds' \in [Attempt -> [Targets -> BuildStatus]]
           /\ \A k \in Attempt, t \in Targets : builds'[k][t] =
                IF k = n /\ builds[k][t] \in Live THEN "cancelled" ELSE builds[k][t]
<1> DEFINE row == [t \in Targets |->
                     IF builds[n][t] \in Live THEN "cancelled" ELSE builds[n][t]]
<1>1. builds \in [Attempt -> [Targets -> BuildStatus]]
    BY DEF TypeOK
<1>2. row \in [Targets -> BuildStatus]
    BY <1>1 DEF BuildStatus
<1>3. builds' = [builds EXCEPT ![n] = row]
    BY DEF CancelBuilds
<1> QED BY <1>1, <1>2, <1>3

(* A stop fails the attempt that runs, cancels what it has left to build and *)
(* touches nothing of a finished run; it succeeds nothing and undoes no      *)
(* success.                                                                  *)
LEMMA StopKeepsRows ==
    ASSUME FactoryInv, StopRun
    PROVE  /\ run' \in RunRecords
           /\ attempts' \in [Attempt -> AttemptStatus]
           /\ builds' \in [Attempt -> [Targets -> BuildStatus]]
           /\ run'.count = run.count
           /\ \A k \in Attempt : AllAre(k, "succeeded") => AllAre(k, "succeeded")'
           /\ RowsInv'
<1> USE DEF FactoryInv
<1>1. CASE Terminal
    BY <1>1 DEF StopRun, TypeOK, AllAre, RowsInv, RunMatchesAttempts, BudgetLeft,
       LeaseIsRunning, NoOrphanBuilds, SomeIn, Live, SuccessIsBuilt,
       ExhaustedStops
<1>2. CASE ~Terminal
    <2> DEFINE n == run.current
    <2>1. n = run.count /\ n \in 0..MaxAttempts /\ run.status \in {"queued", "running"}
        BY <1>2 DEF TypeOK, RunRecords, RowsInv, RunMatchesAttempts, Terminal, RunStatus
    <2>2. /\ run' = [run EXCEPT !.status = "needs-human-intervention",
                                !.token = 0, !.live = FALSE]
          /\ run' \in RunRecords
        <3>1. run' = [run EXCEPT !.status = "needs-human-intervention",
                                 !.token = 0, !.live = FALSE]
            BY <1>2 DEF StopRun
        <3>2. run \in RunRecords
            BY DEF TypeOK
        <3> QED BY <3>1, <3>2, StoppedTyped
    <2>3. /\ attempts' \in [Attempt -> AttemptStatus]
          /\ \A k \in Attempt : attempts'[k] =
               IF k = n /\ attempts[k] = "running" THEN "failed" ELSE attempts[k]
        <3>1. CASE n = 0
            BY <1>2, <3>1 DEF StopRun, TypeOK, Attempt
        <3>2. CASE n # 0
            BY <1>2, <2>1, <3>2 DEF StopRun, TypeOK, Attempt, AttemptStatus
        <3> QED BY <3>1, <3>2
    <2>4. /\ builds' \in [Attempt -> [Targets -> BuildStatus]]
          /\ \A k \in Attempt, t \in Targets : builds'[k][t] =
               IF k = n /\ builds[k][t] \in Live THEN "cancelled" ELSE builds[k][t]
        <3>1. CASE n = 0
            BY <1>2, <3>1 DEF StopRun, TypeOK, Attempt
        <3>2. CASE n # 0
            <4>1. n \in Attempt
                BY <2>1, <3>2, BudgetAssumption DEF Attempt
            <4> QED BY <1>2, <3>2, <4>1, CancelKeeps DEF StopRun
        <3> QED BY <3>1, <3>2
    <2>5. \A k \in Attempt : AllAre(k, "succeeded") => AllAre(k, "succeeded")'
        BY <2>4 DEF AllAre, Live
    <2>6. run.good = 0 /\ \A k \in Attempt : attempts[k] # "succeeded"
        BY <1>2 DEF RowsInv, SuccessIsBuilt, Terminal, Attempt
    <2>7. RunMatchesAttempts'
        BY <2>1, <2>2, <2>3 DEF TypeOK, RunRecords, RowsInv, RunMatchesAttempts
    <2>8. NoOrphanBuilds'
        <3> SUFFICES ASSUME NEW k \in Attempt, NEW t \in Targets,
                            builds'[k][t] \in Live
                     PROVE  attempts'[k] = "running"
            BY DEF NoOrphanBuilds, SomeIn, Live
        <3>1. builds[k][t] \in Live /\ k # n
            BY <2>4 DEF Live
        <3>2. attempts[k] = "running"
            BY <3>1 DEF RowsInv, NoOrphanBuilds, SomeIn
        <3> QED BY <2>3, <3>1, <3>2
    <2>9. SuccessIsBuilt'
        BY <2>2, <2>3, <2>6 DEF SuccessIsBuilt, TypeOK, RunRecords
    <2>10. BudgetLeft' /\ LeaseIsRunning' /\ ExhaustedStops'
        BY <2>2 DEF BudgetLeft, LeaseIsRunning, ExhaustedStops, TypeOK, RunRecords
    <2>11. run'.count = run.count
        BY <2>2 DEF TypeOK, RunRecords
    <2> QED BY <2>2, <2>3, <2>4, <2>5, <2>7, <2>8, <2>9, <2>10, <2>11 DEF RowsInv
<1> QED BY <1>1, <1>2

(* A stop by a process that ends, by a poll or by a human.                   *)
LEMMA StopStep ==
    ASSUME FactoryInv, StopRun, procs' \in [Procs -> ProcRecords],
           \A p \in Procs : procs'[p] = procs[p] \/ ProcBound(procs[p])',
           polls' \in [Pollers -> BOOLEAN], incidents' \in 0..MaxIncidents,
           UNCHANGED <<bound, completing, dispatched>>
    PROVE  FactoryInv'
<1>1. TypeOK'
    BY StopKeepsRows DEF FactoryInv, TypeOK
<1>2. ProcsBound'
    <2>1. run'.count \in Int /\ run.count <= run'.count
        BY StopKeepsRows DEF FactoryInv, TypeOK, RunRecords
    <2> QED BY <2>1, StopKeepsRows, ProcsStayBound DEF FactoryInv
<1> QED BY <1>1, <1>2, StopKeepsRows DEF FactoryInv

LEMMA StopsKeep ==
    ASSUME FactoryInv,
           \/ \E p \in Procs : ProcStops(p)
           \/ \E q \in Pollers : ReconcileStop(q)
           \/ HumanStop
    PROVE  FactoryInv'
<1>1. ASSUME NEW p \in Procs, ProcStops(p) PROVE FactoryInv'
    <2>1. Over(p) \in ProcRecords /\ Over(p).at \in {"off", "done"}
        BY RestIsBound DEF Over, Off
    <2>2. procs' \in [Procs -> ProcRecords]
        BY <1>1, <2>1 DEF ProcStops, Become, FactoryInv, TypeOK
    <2>3. \A q \in Procs : procs'[q] = procs[q] \/ ProcBound(procs[q])'
        BY <1>1, <2>1
        DEF ProcStops, Become, FactoryInv, TypeOK, ProcBound, Reserving, Building,
            Finishing
    <2> QED BY <1>1, <2>2, <2>3, StopStep DEF ProcStops, FactoryInv, TypeOK
<1>2. ASSUME NEW q \in Pollers, ReconcileStop(q) PROVE FactoryInv'
    BY <1>2, StopStep DEF ReconcileStop, FactoryInv, TypeOK
<1>3. CASE HumanStop
    BY <1>3, StopStep, BudgetAssumption DEF HumanStop, Incident, FactoryInv, TypeOK
<1> QED BY <1>1, <1>2, <1>3

(* Builds change, run and attempts do not: no success is undone, and what is *)
(* live belongs to an attempt that runs.                                     *)
LEMMA BuildsStep ==
    ASSUME FactoryInv, builds' \in [Attempt -> [Targets -> BuildStatus]],
           \A k \in Attempt : AllAre(k, "succeeded") => AllAre(k, "succeeded")',
           \A k \in Attempt, t \in Targets :
             builds'[k][t] \in Live => attempts[k] = "running",
           procs' \in [Procs -> ProcRecords],
           \A p \in Procs : procs'[p] = procs[p] \/ ProcBound(procs[p])',
           completing' \subseteq Attempt \X Targets, incidents' \in 0..MaxIncidents,
           UNCHANGED <<run, attempts, bound, dispatched, polls>>
    PROVE  FactoryInv'
<1> USE DEF FactoryInv
<1>1. TypeOK'
    BY DEF TypeOK
<1>2. ProcsBound'
    <2>1. run'.count \in Int /\ run.count <= run'.count
        BY DEF TypeOK, RunRecords
    <2> QED BY <2>1, ProcsStayBound
<1>3. NoOrphanBuilds'
    BY DEF NoOrphanBuilds, SomeIn, Live
<1>4. SuccessIsBuilt'
    BY DEF RowsInv, SuccessIsBuilt
<1>5. /\ RunMatchesAttempts' /\ BudgetLeft' /\ LeaseIsRunning'
      /\ ExhaustedStops'
    BY DEF RowsInv, RunMatchesAttempts, BudgetLeft, LeaseIsRunning, ExhaustedStops
<1> QED BY <1>1, <1>2, <1>3, <1>4, <1>5 DEF RowsInv

LEMMA QueueBuildsKeeps ==
    ASSUME FactoryInv, NEW p \in Procs, QueueBuilds(p)
    PROVE  FactoryInv'
<1> DEFINE k == procs[p].attempt
<1>1. k \in Attempt /\ k <= run.count
    BY ProcFacts DEF QueueBuilds, At, ProcBound, Building
<1>2. /\ procs' \in [Procs -> ProcRecords]
      /\ \A q \in Procs : procs'[q] = procs[q] \/ ProcBound(procs[q])'
    <2>1. ASSUME NEW stage \in {"dispatch", "wait"}, Goto(p, stage)
          PROVE  /\ procs' \in [Procs -> ProcRecords]
                 /\ \A q \in Procs : procs'[q] = procs[q] \/ ProcBound(procs[q])'
        <3> DEFINE c == [procs[p] EXCEPT !.at = stage]
        <3>1. c \in ProcRecords /\ c.at = stage /\ c.attempt = k
            BY ProcFacts DEF ProcRecords, Stages
        <3>2. procs' = [procs EXCEPT ![p] = c]
            BY <2>1 DEF Goto, Become
        <3> HIDE DEF c
        <3>3. procs' \in [Procs -> ProcRecords] /\ procs'[p] = c
              /\ \A q \in Procs : q # p => procs'[q] = procs[q]
            BY <3>1, <3>2 DEF FactoryInv, TypeOK
        <3>4. run' = run
            BY DEF QueueBuilds
        <3>5. ProcBound(procs[p])'
            BY <1>1, <3>1, <3>3, <3>4 DEF ProcBound, Reserving, Building, Finishing
        <3> QED BY <3>3, <3>5
    <2>2. ASSUME Become(p, Over(p))
          PROVE  /\ procs' \in [Procs -> ProcRecords]
                 /\ \A q \in Procs : procs'[q] = procs[q] \/ ProcBound(procs[q])'
        <3>1. Over(p) \in ProcRecords /\ Over(p).at \in {"off", "done"}
            BY RestIsBound DEF Over, Off
        <3> QED BY <2>2, <3>1
            DEF Become, FactoryInv, TypeOK, ProcBound, Reserving, Building, Finishing
    <2> QED BY <2>1, <2>2 DEF QueueBuilds
<1>3. CASE builds' = builds
    BY <1>2, <1>3, BuildsStep
    DEF QueueBuilds, FactoryInv, TypeOK, AllAre, RowsInv, NoOrphanBuilds, SomeIn
<1>4. CASE /\ attempts[k] = "running" /\ AllAre(k, "none")
           /\ builds' = [builds EXCEPT ![k] = [t \in Targets |-> "queued"]]
    <2>1. \A j \in Attempt, t \in Targets :
            builds'[j][t] = IF j = k THEN "queued" ELSE builds[j][t]
        BY <1>1, <1>4 DEF FactoryInv, TypeOK
    <2>2. builds' \in [Attempt -> [Targets -> BuildStatus]]
        BY <1>1, <1>4 DEF FactoryInv, TypeOK, BuildStatus, Live
    <2>3. ASSUME NEW j \in Attempt, AllAre(j, "succeeded")
          PROVE  AllAre(j, "succeeded")'
        BY <1>4, <2>1, <2>3 DEF AllAre
    <2>4. \A j \in Attempt, t \in Targets :
            builds'[j][t] \in Live => attempts[j] = "running"
        BY <1>4, <2>1 DEF FactoryInv, RowsInv, NoOrphanBuilds, SomeIn
    <2> QED BY <1>2, <2>2, <2>3, <2>4, BuildsStep DEF QueueBuilds, FactoryInv, TypeOK
<1> QED BY <1>3, <1>4 DEF QueueBuilds

(* One build moves on; only a live one can be live afterwards.               *)
LEMMA SetBuildStep ==
    ASSUME FactoryInv, NEW k \in Attempt, NEW t \in Targets,
           NEW status \in BuildStatus, SetBuild(k, t, status),
           builds[k][t] \in Live,
           completing' \subseteq Attempt \X Targets, incidents' \in 0..MaxIncidents,
           UNCHANGED <<run, attempts, bound, dispatched, procs, polls>>
    PROVE  FactoryInv'
<1>1. \A j \in Attempt, u \in Targets :
        builds'[j][u] = IF j = k /\ u = t THEN status ELSE builds[j][u]
    BY DEF SetBuild, FactoryInv, TypeOK
<1>2. builds' \in [Attempt -> [Targets -> BuildStatus]]
    BY DEF SetBuild, FactoryInv, TypeOK
<1>3. ASSUME NEW j \in Attempt, AllAre(j, "succeeded")
      PROVE  AllAre(j, "succeeded")'
    BY <1>1, <1>3 DEF AllAre, Live
<1>4. \A j \in Attempt, u \in Targets :
        builds'[j][u] \in Live => attempts[j] = "running"
    BY <1>1 DEF FactoryInv, RowsInv, NoOrphanBuilds, SomeIn
<1> QED BY <1>2, <1>3, <1>4, BuildsStep DEF FactoryInv, TypeOK

(* Workers, whatever becomes of the builds they hold.                        *)
LEMMA WorkersKeep ==
    ASSUME FactoryInv, NEW k \in Attempt, NEW t \in Targets,
           ClaimPrivate(k, t) \/ Work(k, t) \/ WorkerRevoked(k, t)
    PROVE  FactoryInv'
<1> USE DEF Live, BuildStatus
<1>0. /\ completing \subseteq Attempt \X Targets
      /\ incidents \in 0..MaxIncidents
      /\ \A j \in Attempt, u \in Targets :
           builds[j][u] \in Live => attempts[j] = "running"
    BY DEF FactoryInv, TypeOK, RowsInv, NoOrphanBuilds, SomeIn
<1>1. CASE ClaimPrivate(k, t)
    BY <1>0, <1>1, SetBuildStep DEF ClaimPrivate
<1>2. CASE CompletePrivateRead(k, t)
    BY <1>0, <1>2, BuildsStep DEF CompletePrivateRead, FactoryInv, TypeOK, AllAre
<1>3. CASE CompletePrivateWrite(k, t) /\ builds' = builds
    BY <1>0, <1>3, BuildsStep DEF CompletePrivateWrite, FactoryInv, TypeOK, AllAre
<1>4. CASE /\ CompletePrivateWrite(k, t) /\ builds[k][t] = "leased"
           /\ \E s \in {"succeeded", "failed"} : SetBuild(k, t, s)
    BY <1>0, <1>4, SetBuildStep DEF CompletePrivateWrite
<1>5. CASE WorkerLeaseLapses(k, t)
    BY <1>0, <1>5, SetBuildStep DEF WorkerLeaseLapses
<1>6. CASE WorkerRevoked(k, t)
    <2>1. incidents' \in 0..MaxIncidents
        BY <1>0, <1>6, BudgetAssumption DEF WorkerRevoked, Incident
    <2> QED BY <1>0, <1>6, <2>1, SetBuildStep DEF WorkerRevoked
<1> QED BY <1>1, <1>2, <1>3, <1>4, <1>5, <1>6
    DEF Work, CompletePrivateWrite

(* The reservation: the attempt it creates is the one the process asked for, *)
(* since the count was compared again.                                       *)
LEMMA ReserveWriteKeeps ==
    ASSUME FactoryInv, NEW p \in Procs, ReserveWrite(p)
    PROVE  FactoryInv'
<1> DEFINE k == procs[p].attempt
<1>1. /\ k \in Attempt /\ k = run.count + 1
      /\ run.status = "queued" /\ attempts[k] = "none"
    BY ProcFacts DEF ReserveWrite, Reservable, At, ProcBound, Reserving
<1>2. /\ run' = [run EXCEPT !.status = "running", !.count = k, !.current = k,
                            !.token = k, !.live = TRUE]
      /\ attempts' = [attempts EXCEPT ![k] = "running"]
      /\ bound' = [bound EXCEPT ![k] = Candidate(p)]
      /\ Obtained(p, "running")
      /\ UNCHANGED <<builds, completing, dispatched, polls, incidents>>
    <2>1. procs[p].seen + 1 = k
        BY <1>1, ProcFacts DEF ReserveWrite, Reservable, At
    <2> QED BY <2>1 DEF ReserveWrite
<1>3. /\ run' \in RunRecords
      /\ run'.status = "running" /\ run'.count = k /\ run'.current = k
      /\ run'.token = k /\ run'.good = run.good
    <2>1. k \in 0..MaxAttempts /\ "running" \in RunStatus
        BY <1>1, BudgetAssumption DEF Attempt, RunStatus
    <2>2. run \in RunRecords
        BY DEF FactoryInv, TypeOK
    <2> HIDE DEF k
    <2> QED BY <1>2, <2>1, <2>2 DEF RunRecords
<1>4. /\ attempts' \in [Attempt -> AttemptStatus]
      /\ \A j \in Attempt :
           attempts'[j] = IF j = k THEN "running" ELSE attempts[j]
    BY <1>1, <1>2 DEF FactoryInv, TypeOK, AttemptStatus
<1>5. bound' \in [Attempt -> Candidates]
    BY <1>1, <1>2 DEF FactoryInv, TypeOK, Candidate, Candidates
<1>6. /\ procs' \in [Procs -> ProcRecords]
      /\ \A q \in Procs : procs'[q] = procs[q] \/ ProcBound(procs[q])'
    <2>1. ASSUME NEW stage \in {"finish", "queue"}, Goto(p, stage),
                 stage = "finish" => procs[p].outcome = "validation"
          PROVE  /\ procs' \in [Procs -> ProcRecords]
                 /\ \A q \in Procs : procs'[q] = procs[q] \/ ProcBound(procs[q])'
        <3> DEFINE c == [procs[p] EXCEPT !.at = stage]
        <3>1. /\ c \in ProcRecords /\ c.at = stage /\ c.attempt = k
              /\ c.outcome = procs[p].outcome
            BY ProcFacts DEF ProcRecords, Stages
        <3>2. procs' = [procs EXCEPT ![p] = c]
            BY <2>1 DEF Goto, Become
        <3> HIDE DEF c
        <3>3. procs' \in [Procs -> ProcRecords] /\ procs'[p] = c
              /\ \A q \in Procs : q # p => procs'[q] = procs[q]
            BY <3>1, <3>2 DEF FactoryInv, TypeOK
        <3>4. ProcBound(procs[p])'
            BY <1>1, <1>3, <2>1, <3>1, <3>3
            DEF ProcBound, Reserving, Building, Finishing, Attempt
        <3> QED BY <3>3, <3>4
    <2> QED BY <1>2, <2>1 DEF Obtained
<1>7. TypeOK'
    BY <1>2, <1>3, <1>4, <1>5, <1>6 DEF FactoryInv, TypeOK
<1>8. ProcsBound'
    <2>1. run'.count \in Int /\ run.count <= run'.count
        BY <1>1, <1>3, ProcFacts DEF Attempt
    <2> QED BY <1>2, <1>6, <2>1, ProcsStayBound DEF FactoryInv, AllAre
<1>9. RunMatchesAttempts'
    <2>1. \A j \in Attempt : attempts[j] = "none" <=> j >= k
        BY <1>1, ProcFacts DEF Attempt
    <2>2. \A j \in Attempt : attempts[j] # "running"
        BY <1>1 DEF FactoryInv, RowsInv, RunMatchesAttempts
    <2> QED BY <1>1, <1>3, <1>4, <2>1, <2>2 DEF RunMatchesAttempts, Attempt
<1>10. NoOrphanBuilds'
    BY <1>2, <1>4 DEF FactoryInv, RowsInv, NoOrphanBuilds, SomeIn
<1>11. SuccessIsBuilt'
    <2>1. run.good = 0 /\ \A j \in Attempt : attempts[j] # "succeeded"
        BY <1>1 DEF FactoryInv, RowsInv, SuccessIsBuilt, Attempt
    <2> QED BY <1>3, <1>4, <2>1 DEF SuccessIsBuilt
<1>12. BudgetLeft' /\ LeaseIsRunning' /\ ExhaustedStops'
    BY <1>1, <1>3, <1>4, BudgetAssumption
    DEF BudgetLeft, LeaseIsRunning, ExhaustedStops, FactoryInv, RowsInv, Attempt
<1> QED BY <1>7, <1>8, <1>9, <1>10, <1>11, <1>12 DEF FactoryInv, RowsInv

(* The finish: the cancellation is not guarded, so it must not hurt when the *)
(* updates match nothing.                                                    *)
LEMMA FinishWriteKeeps ==
    ASSUME FactoryInv, NEW p \in Procs, FinishWrite(p)
    PROVE  FactoryInv'
<1> DEFINE k == procs[p].attempt
           o == procs[p].outcome
<1>1. /\ k \in Attempt /\ k <= run.count /\ o \in {"ok", "build", "validation"}
      /\ o = "ok" => AllAre(k, "succeeded")
    BY ProcFacts
    DEF FinishWrite, At, ProcBound, Building, Finishing, ProcRecords, Outcomes
<1>2. UNCHANGED <<bound, completing, dispatched, polls, incidents>>
    BY DEF FinishWrite
<1>3. /\ builds' \in [Attempt -> [Targets -> BuildStatus]]
      /\ \A j \in Attempt, t \in Targets : builds'[j][t] =
           IF j = k /\ FailedWith(o) /\ builds[j][t] \in Live
           THEN "cancelled" ELSE builds[j][t]
    <2>1. CASE FailedWith(o)
        BY <1>1, <2>1, CancelKeeps DEF FinishWrite, FactoryInv
    <2>2. CASE ~FailedWith(o)
        BY <2>2 DEF FinishWrite, FactoryInv, TypeOK
    <2> QED BY <2>1, <2>2
<1>4. \A j \in Attempt : AllAre(j, "succeeded") => AllAre(j, "succeeded")'
    BY <1>3 DEF AllAre, Live
<1>5. ASSUME NEW c \in ProcRecords, Become(p, c), ProcBound(c),
             c.at \in {"off", "done", "prepare"}, run'.count = run.count
      PROVE  /\ procs' \in [Procs -> ProcRecords]
             /\ \A q \in Procs : procs'[q] = procs[q] \/ ProcBound(procs[q])'
    BY <1>5
    DEF Become, FactoryInv, TypeOK, ProcBound, Reserving, Building, Finishing
<1>6. CASE ~Unfenced(k)
    <2>1. Become(p, Over(p)) /\ UNCHANGED <<run, attempts>>
        BY <1>6 DEF FinishWrite
    <2>2. Over(p).at \in {"off", "done", "prepare"}
        BY DEF Over, Off
    <2>3. \A j \in Attempt, t \in Targets :
            builds'[j][t] \in Live => attempts[j] = "running"
        BY <1>3 DEF FactoryInv, RowsInv, NoOrphanBuilds, SomeIn, Live
    <2> QED BY <1>2, <1>3, <1>4, <1>5, <2>1, <2>2, <2>3, RestIsBound, BuildsStep
        DEF FactoryInv, TypeOK
<1>7. CASE Unfenced(k)
    <2> DEFINE status == IF o = "ok" THEN "succeeded"
                         ELSE IF LastChance(k) THEN "needs-human-intervention"
                         ELSE "queued"
               good == IF o = "ok" THEN k ELSE 0
    <2>1. /\ run' = [run EXCEPT !.status = status, !.good = good,
                                !.token = 0, !.live = FALSE]
          /\ attempts' = [attempts EXCEPT ![k] = Result(o)]
          /\ Become(p, After(p))
        BY <1>7 DEF FinishWrite
    <2>2. /\ attempts[k] = "running" /\ run.status = "running" /\ run.current = k
          /\ run.count = k
          /\ \A j \in Attempt : attempts[j] # "succeeded"
          /\ \A j \in Attempt : j # k => attempts[j] # "running"
        BY <1>1, <1>7, ProcFacts
        DEF Unfenced, FactoryInv, RowsInv, RunMatchesAttempts, SuccessIsBuilt, Attempt
    <2>3. /\ run' \in RunRecords
          /\ run'.status = status /\ run'.good = good /\ run'.token = 0
          /\ run'.live = FALSE /\ run'.count = k /\ run'.current = k
        <3>1. /\ good \in 0..MaxAttempts /\ status \in RunStatus /\ 0 \in 0..MaxAttempts
            BY <1>1, BudgetAssumption DEF RunStatus, Attempt
        <3>2. run \in RunRecords
            BY DEF FactoryInv, TypeOK
        <3> HIDE DEF status, good, k
        <3> QED BY <2>1, <2>2, <3>1, <3>2 DEF RunRecords
    <2>4. /\ attempts' \in [Attempt -> AttemptStatus]
          /\ \A j \in Attempt : attempts'[j] = IF j = k THEN Result(o) ELSE attempts[j]
        BY <1>1, <2>1 DEF FactoryInv, TypeOK, AttemptStatus, Result
    <2>5. /\ procs' \in [Procs -> ProcRecords]
          /\ \A q \in Procs : procs'[q] = procs[q] \/ ProcBound(procs[q])'
        <3>1. ProcBound(After(p))
            BY <1>1, AfterIsBound DEF ProcBound, Reserving, Building, Finishing
        <3> QED BY <1>1, <1>5, <2>1, <2>2, <2>3, <3>1, AfterIsBound
    <2>6. TypeOK'
        BY <1>2, <1>3, <2>3, <2>4, <2>5 DEF FactoryInv, TypeOK
    <2>7. ProcsBound'
        BY <1>4, <2>2, <2>3, <2>5, ProcFacts, ProcsStayBound DEF FactoryInv
    <2>8. RunMatchesAttempts'
        BY <1>1, <2>2, <2>3, <2>4, ProcFacts DEF RunMatchesAttempts, Result
    <2>9. NoOrphanBuilds'
        <3> SUFFICES ASSUME NEW j \in Attempt, NEW t \in Targets,
                            builds'[j][t] \in Live
                     PROVE  FALSE
            BY DEF NoOrphanBuilds, SomeIn
        <3>1. builds[j][t] \in Live /\ (j = k => o = "ok")
            BY <1>1, <1>3 DEF Live, FailedWith
        <3>2. j = k
            BY <2>2, <3>1 DEF FactoryInv, RowsInv, NoOrphanBuilds, SomeIn
        <3> QED BY <1>1, <3>1, <3>2 DEF AllAre, Live
    <2>10. SuccessIsBuilt'
        BY <1>1, <1>4, <2>2, <2>3, <2>4 DEF SuccessIsBuilt, Result, Attempt
    <2>11. BudgetLeft' /\ LeaseIsRunning'
        BY <1>1, <2>3, BudgetAssumption DEF BudgetLeft, LeaseIsRunning, LastChance, Attempt
    <2>12. ExhaustedStops'
        <3>1. run.status = "running" => attempts[MaxAttempts] # "failed"
            BY DEF FactoryInv, RowsInv, ExhaustedStops
        <3> QED BY <2>2, <2>3, <2>4, <3>1, BudgetAssumption
            DEF ExhaustedStops, Result, LastChance, Attempt
    <2> QED BY <2>6, <2>7, <2>8, <2>9, <2>10, <2>11, <2>12 DEF FactoryInv, RowsInv
<1> QED BY <1>6, <1>7

LEMMA RunLeaseLapsesKeeps ==
    ASSUME FactoryInv, RunLeaseLapses
    PROVE  FactoryInv'
<1> USE DEF FactoryInv, RunLeaseLapses
<1>1. /\ run' \in RunRecords /\ run'.status = run.status /\ run'.count = run.count
      /\ run'.current = run.current /\ run'.token = run.token
      /\ run'.good = run.good /\ run'.live = FALSE
    BY DEF TypeOK, RunRecords
<1>2. TypeOK'
    BY <1>1 DEF TypeOK
<1>3. ProcsBound'
    BY <1>1, ProcsStayBound DEF TypeOK, RunRecords, AllAre
<1>4. RowsInv'
    BY <1>1 DEF RowsInv, RunMatchesAttempts, BudgetLeft, LeaseIsRunning,
                NoOrphanBuilds, SuccessIsBuilt, ExhaustedStops, SomeIn, AllAre
<1> QED BY <1>2, <1>3, <1>4

LEMMA PollsKeep ==
    ASSUME FactoryInv, NEW q \in Pollers, ReconcileRead(q) \/ CrashPoll(q)
    PROVE  FactoryInv'
<1> USE DEF FactoryInv, ReconcileRead, CrashPoll, Incident
<1>1. UNCHANGED <<run, attempts, bound, builds, completing, dispatched, procs>>
    OBVIOUS
<1>2. polls' \in [Pollers -> BOOLEAN] /\ incidents' \in 0..MaxIncidents
    <2>1. CASE ReconcileRead(q)
        BY <2>1 DEF TypeOK
    <2>2. CASE CrashPoll(q)
        <3>1. polls' \in [Pollers -> BOOLEAN]
            BY <2>2 DEF TypeOK
        <3>2. incidents' \in 0..MaxIncidents
            BY <2>2, BudgetAssumption DEF TypeOK
        <3> QED BY <3>1, <3>2
    <2> QED BY <2>1, <2>2
<1>3. TypeOK'
    BY <1>1, <1>2 DEF TypeOK
<1>4. ProcsBound'
    BY <1>1, ProcsStayBound DEF TypeOK, RunRecords, AllAre
<1>5. RowsInv'
    BY <1>1 DEF RowsInv, RunMatchesAttempts, BudgetLeft, LeaseIsRunning,
                NoOrphanBuilds, SuccessIsBuilt, ExhaustedStops, SomeIn, AllAre
<1> QED BY <1>3, <1>4, <1>5

LEMMA StutterKeeps ==
    ASSUME FactoryInv, UNCHANGED vars
    PROVE  FactoryInv'
BY DEF FactoryInv, vars, TypeOK, ProcsBound, ProcBound, AllAre, RowsInv,
       RunMatchesAttempts, BudgetLeft, LeaseIsRunning, NoOrphanBuilds,
       SuccessIsBuilt, ExhaustedStops, SomeIn

-----------------------------------------------------------------------------
(* Starters, the workflow and its restarts, polls, workers and incidents     *)
(* keep the invariant.                                                       *)
LEMMA FactoryStep ==
    ASSUME FactoryInv, [Next]_vars
    PROVE  FactoryInv'
<1>1. ASSUME NEW p \in Procs, StartUnit(p) \/ Drive(p) \/ CrashProc(p)
      PROVE  FactoryInv'
    BY <1>1, StartUnitKeeps, DispatchUnitKeeps, ReserveReadKeeps,
       ReserveWriteKeeps, ReserveRacedKeeps, QueueBuildsKeeps,
       WorkflowStartKeeps, LoopEntryKeeps, PrepareKeeps, ExecuteKeeps,
       FinishReadKeeps, FinishWriteKeeps, StopsKeep, CrashProcKeeps DEF Drive
<1>2. ASSUME NEW q \in Pollers, Reconcile(q) \/ CrashPoll(q)
      PROVE  FactoryInv'
    BY <1>2, PollsKeep, StopsKeep DEF Reconcile
<1>3. ASSUME NEW k \in Attempt, NEW t \in Targets,
             ClaimPrivate(k, t) \/ Work(k, t) \/ WorkerRevoked(k, t)
      PROVE  FactoryInv'
    BY <1>3, WorkersKeep
<1> QED BY <1>1, <1>2, <1>3, RunLeaseLapsesKeeps, StopsKeep, StutterKeeps DEF Next

(* Every reachable state satisfies the inductive invariant.                  *)
THEOREM FactoryInvariant == Spec => []FactoryInv
<1>1. FactoryInv /\ [Next]_vars => FactoryInv'
    BY FactoryStep
<1> QED BY <1>1, InitFactoryInv, PTL DEF Spec

(* The run and its attempts agree, a success was built and a spent budget    *)
(* stops for a human, whatever races in factory-runs.ts.                     *)
THEOREM RunSound == Spec => []RunIsSound
<1>1. FactoryInv => RunIsSound
    BY DEF FactoryInv, RowsInv, RunIsSound
<1> QED BY <1>1, FactoryInvariant, PTL

(* No private build outlives its attempt: the insert of                      *)
(* queuePrivateFactoryBuilds, the cancellations of stopFactoryRun and        *)
(* finishFactoryAttempt and the requeue of revokeWorker race with each other.*)
THEOREM NoBuildIsOrphaned == Spec => []NoOrphanBuilds
<1>1. FactoryInv => NoOrphanBuilds
    BY DEF FactoryInv, RowsInv
<1> QED BY <1>1, FactoryInvariant, PTL

(* A stop and a finish change nothing of a finished run or attempt.          *)
LEMMA StopKeepsFinal ==
    ASSUME FactoryInv, StopRun
    PROVE  /\ Terminal => run' = run
           /\ \A k \in Attempt : attempts[k] \in {"succeeded", "failed"} =>
                attempts'[k] = attempts[k]
BY DEF StopRun, FactoryInv, TypeOK

LEMMA FinalStep ==
    ASSUME FactoryInv, [Next]_vars
    PROVE  /\ Terminal => run' = run
           /\ \A k \in Attempt : attempts[k] \in {"succeeded", "failed"} =>
                attempts'[k] = attempts[k]
<1> DEFINE Final == /\ Terminal => run' = run
                    /\ \A k \in Attempt : attempts[k] \in {"succeeded", "failed"} =>
                         attempts'[k] = attempts[k]
<1>1. CASE UNCHANGED <<run, attempts>>
    BY <1>1
<1>2. CASE StopRun
    BY <1>2, StopKeepsFinal
<1>3. ASSUME NEW p \in Procs, ReserveWrite(p) PROVE Final
    <2> DEFINE k == procs[p].seen + 1
    <2>1. run.status = "queued" /\ k = run.count + 1
        BY <1>3 DEF ReserveWrite, Reservable
    <2>2. \A j \in Attempt : attempts[j] # "none" => j # k
        BY <2>1, ProcFacts DEF Attempt
    <2>3. attempts' = [attempts EXCEPT ![k] = "running"]
        BY <1>3 DEF ReserveWrite
    <2> QED BY <2>1, <2>2, <2>3 DEF FactoryInv, TypeOK, Terminal
<1>4. ASSUME NEW p \in Procs, FinishWrite(p) PROVE Final
    BY <1>4 DEF FinishWrite, Unfenced, FactoryInv, TypeOK, Terminal
<1>5. CASE RunLeaseLapses
    BY <1>5 DEF RunLeaseLapses, FactoryInv, RowsInv, LeaseIsRunning, Terminal
<1> QED BY <1>1, <1>2, <1>3, <1>4, <1>5
    DEF Next, Drive, Reconcile, Work, vars, StartUnit, DispatchUnit, ReserveRead,
        ReserveRaced, QueueBuilds, WorkflowStart, LoopEntry, Prepare, ExecuteSettles,
        ExecuteTimesOut, FinishRead, ProcStops, CrashProc, ReconcileRead,
        ReconcileStop, CrashPoll, ClaimPrivate, CompletePrivateRead,
        CompletePrivateWrite, WorkerLeaseLapses, WorkerRevoked, HumanStop

(* What was shown as final stays: no late finish, stale stop or redelivered  *)
(* reservation changes a finished run or attempt.                            *)
THEOREM FinalRunStays == Spec => FinalStays
<1>1. FactoryInv /\ [Next]_vars =>
        [/\ Terminal => run' = run
         /\ \A k \in Attempt : attempts[k] \in {"succeeded", "failed"} =>
              attempts'[k] = attempts[k]]_vars
    BY FinalStep
<1> QED BY <1>1, FactoryInvariant, PTL DEF Spec, FinalStays

-----------------------------------------------------------------------------
(* Dossiers: what is read stays true while the run goes on.                  *)

Ended == {"succeeded", "failed", "cancelled"}

(* Only a reserved attempt has a candidate or builds. *)
RowsReserved ==
    \A k \in Attempt :
        /\ bound[k] # "none" => attempts[k] # "none"
        /\ \A t \in Targets : builds[k][t] # "none" => attempts[k] # "none"

Agreeing(d) ==
    \A k \in Attempt :
        /\ d.attempts[k] \in {"succeeded", "failed"} => attempts[k] = d.attempts[k]
        /\ \A t \in Targets :
             /\ d.builds[k][t] # "none" => attempts[k] # "none"
             /\ d.builds[k][t] \in Ended => builds[k][t] = d.builds[k][t]

(* What was read of the attempts says what was read of all else.             *)
Whole(d) ==
    /\ \E n \in 0..MaxAttempts : \A k \in Attempt : d.attempts[k] # "none" <=> k <= n
    /\ \A k \in Attempt :
         /\ d.candidates[k] # "none" => d.attempts[k] # "none"
         /\ \A t \in Targets : d.builds[k][t] # "none" => d.attempts[k] # "none"

RepairBuilt(d) ==
    \A k \in Attempt :
        d.attempts[k] = "succeeded" /\ k # d.revision /\ d.candidates[k] = "repair"
        => \A t \in Targets : d.builds[k][t] = "succeeded"

MakerRecords ==
    [at : {"off", "run", "extra", "stored"}, revision : 0..MaxAttempts,
     builds : [Attempt -> [Targets -> BuildStatus]],
     attempts : [Attempt -> AttemptStatus], candidates : [Attempt -> Candidates]]

MakerInv(d) ==
    /\ Agreeing(d)
    /\ d.at \in {"extra", "stored"} => Whole(d)
    /\ d.at = "stored" => RepairBuilt(d)

DossierInv ==
    /\ FactoryInv
    /\ RowsReserved
    /\ makers \in [Makers -> MakerRecords]
    /\ \A m \in Makers : MakerInv(makers[m])

(* What a step does to the rows a dossier is made from.                      *)
BuildsMove ==
    \A k \in Attempt, t \in Targets :
        /\ builds[k][t] \in Ended => builds'[k][t] = builds[k][t]
        /\ builds'[k][t] # "none" => builds[k][t] # "none" \/ attempts[k] # "none"
AttemptsMove ==
    \A k \in Attempt :
        /\ attempts[k] # "none" => attempts'[k] # "none"
        /\ bound'[k] # "none" => bound[k] # "none" \/ attempts'[k] # "none"

LEMMA CancelMoves ==
    ASSUME FactoryInv, NEW n \in Attempt, builds' = CancelBuilds(n)
    PROVE  BuildsMove
<1>1. \A k \in Attempt, t \in Targets : builds'[k][t] =
        IF k = n /\ builds[k][t] \in Live THEN "cancelled" ELSE builds[k][t]
    BY CancelKeeps DEF FactoryInv
<1> QED BY <1>1 DEF BuildsMove, Ended, Live

LEMMA StopMoves ==
    ASSUME FactoryInv, StopRun, UNCHANGED bound
    PROVE  BuildsMove /\ AttemptsMove
<1>1. AttemptsMove
    BY DEF StopRun, FactoryInv, TypeOK, AttemptsMove
<1>2. BuildsMove
    <2>1. CASE UNCHANGED builds
        BY <2>1 DEF BuildsMove
    <2>2. CASE ~Terminal /\ run.current # 0
        <3>1. run.current \in 0..MaxAttempts
            BY DEF FactoryInv, TypeOK, RunRecords
        <3>2. run.current \in Attempt /\ builds' = CancelBuilds(run.current)
            BY <2>2, <3>1, BudgetAssumption DEF StopRun, Attempt
        <3> QED BY <3>2, CancelMoves
    <2> QED BY <2>1, <2>2 DEF StopRun
<1> QED BY <1>1, <1>2

LEMMA SetBuildMoves ==
    ASSUME FactoryInv, NEW k \in Attempt, NEW t \in Targets, NEW status,
           SetBuild(k, t, status), builds[k][t] \in Live
    PROVE  BuildsMove
<1>1. \A j \in Attempt, u \in Targets :
        builds'[j][u] = IF j = k /\ u = t THEN status ELSE builds[j][u]
    BY DEF SetBuild, FactoryInv, TypeOK
<1> QED BY <1>1 DEF BuildsMove, Ended, Live

LEMMA QueueMoves ==
    ASSUME FactoryInv, NEW p \in Procs, QueueBuilds(p)
    PROVE  BuildsMove
<1> DEFINE k == procs[p].attempt
<1>1. CASE UNCHANGED builds
    BY <1>1 DEF BuildsMove
<1>2. CASE /\ builds' = [builds EXCEPT ![k] = [t \in Targets |-> "queued"]]
           /\ attempts[k] = "running" /\ AllAre(k, "none")
    <2>1. \A j \in Attempt, t \in Targets :
            builds'[j][t] = IF j = k THEN "queued" ELSE builds[j][t]
        BY <1>2 DEF FactoryInv, TypeOK
    <2>2. \A t \in Targets : builds[k][t] = "none"
        BY <1>2 DEF AllAre
    <2> QED BY <1>2, <2>1, <2>2 DEF BuildsMove, Ended
<1> QED BY <1>1, <1>2 DEF QueueBuilds

LEMMA RowsMove ==
    ASSUME FactoryInv, [Next]_vars
    PROVE  BuildsMove /\ AttemptsMove
<1>1. CASE UNCHANGED <<attempts, bound, builds>>
    BY <1>1 DEF BuildsMove, AttemptsMove
<1>2. CASE StopRun /\ UNCHANGED bound
    BY <1>2, StopMoves
<1>3. ASSUME NEW p \in Procs, QueueBuilds(p) PROVE BuildsMove /\ AttemptsMove
    BY <1>3, QueueMoves DEF QueueBuilds, AttemptsMove
<1>4. ASSUME NEW p \in Procs, ReserveWrite(p) PROVE BuildsMove /\ AttemptsMove
    <2> DEFINE k == procs[p].seen + 1
    <2>1. /\ attempts' = [attempts EXCEPT ![k] = "running"]
          /\ bound' = [bound EXCEPT ![k] = Candidate(p)]
          /\ UNCHANGED builds
        BY <1>4 DEF ReserveWrite
    <2> QED BY <2>1 DEF BuildsMove, AttemptsMove, FactoryInv, TypeOK
<1>5. ASSUME NEW p \in Procs, FinishWrite(p) PROVE BuildsMove /\ AttemptsMove
    <2> DEFINE k == procs[p].attempt
    <2>1. k \in Attempt
        BY <1>5, ProcFacts DEF FinishWrite, At, ProcBound, Building
    <2>2. BuildsMove
        <3>1. builds' = CancelBuilds(k) \/ UNCHANGED builds
            BY <1>5 DEF FinishWrite
        <3> QED BY <2>1, <3>1, CancelMoves DEF BuildsMove
    <2>3. AttemptsMove
        <3>1. UNCHANGED bound
            BY <1>5 DEF FinishWrite
        <3>2. UNCHANGED attempts \/ attempts' = [attempts EXCEPT ![k] = Result(procs[p].outcome)]
            BY <1>5 DEF FinishWrite
        <3> QED BY <3>1, <3>2 DEF AttemptsMove, Result, FactoryInv, TypeOK
    <2> QED BY <2>2, <2>3
<1>6. ASSUME NEW k \in Attempt, NEW t \in Targets,
             ClaimPrivate(k, t) \/ Work(k, t) \/ WorkerRevoked(k, t)
      PROVE  BuildsMove /\ AttemptsMove
    <2>1. AttemptsMove
        BY <1>6 DEF AttemptsMove, ClaimPrivate, Work, WorkerRevoked, CompletePrivateRead,
           CompletePrivateWrite, WorkerLeaseLapses
    <2>2. \/ UNCHANGED builds
          \/ builds[k][t] \in Live /\ \E status : SetBuild(k, t, status)
        BY <1>6 DEF ClaimPrivate, Work, WorkerRevoked, CompletePrivateRead,
           CompletePrivateWrite, WorkerLeaseLapses, Live
    <2>3. BuildsMove
        BY <2>2, SetBuildMoves DEF BuildsMove
    <2> QED BY <2>1, <2>3
<1> QED BY <1>1, <1>2, <1>3, <1>4, <1>5, <1>6
    DEF Next, Drive, Reconcile, vars, StartUnit, DispatchUnit, ReserveRead,
        ReserveRaced, WorkflowStart, LoopEntry, Prepare, ExecuteSettles,
        ExecuteTimesOut, FinishRead, ProcStops, CrashProc, ReconcileRead,
        ReconcileStop, CrashPoll, HumanStop, RunLeaseLapses

LEMMA ReservedStep ==
    ASSUME FactoryInv, RowsReserved, [Next]_vars
    PROVE  RowsReserved'
BY RowsMove DEF RowsReserved, BuildsMove, AttemptsMove

(* What a dossier has read stays true in a step of the run.                  *)
LEMMA RunKeepsDossiers ==
    ASSUME DossierInv, [Next]_vars, UNCHANGED makers
    PROVE  DossierInv'
<1> USE DEF DossierInv
<1>1. FactoryInv' /\ RowsReserved'
    BY FactoryStep, ReservedStep
<1>2. (makers \in [Makers -> MakerRecords])'
    BY DEF MakerRecords, BuildStatus, Live, AttemptStatus, Candidates, Attempt
<1>3. ASSUME NEW m \in Makers PROVE MakerInv(makers[m])'
    <2>1. MakerInv(makers[m]) /\ makers'[m] = makers[m]
        OBVIOUS
    <2>2. makers[m] \in MakerRecords
        OBVIOUS
    <2>3. Agreeing(makers[m])'
        <3>1. PICK d \in MakerRecords : d = makers[m]
            BY <2>2
        <3>2. Agreeing(d)
            BY <2>1, <3>1 DEF MakerInv
        <3>3. \A k \in Attempt : d.attempts[k] \in {"succeeded", "failed"} =>
                attempts'[k] = d.attempts[k]
            BY <3>2, FinalStep DEF Agreeing
        <3>4. \A k \in Attempt, t \in Targets :
                /\ d.builds[k][t] # "none" => attempts'[k] # "none"
                /\ d.builds[k][t] \in Ended => builds'[k][t] = d.builds[k][t]
            BY <3>2, RowsMove DEF Agreeing, BuildsMove, AttemptsMove
        <3> QED BY <2>1, <3>1, <3>3, <3>4 DEF Agreeing
    <2>4. (makers[m].at \in {"extra", "stored"} => Whole(makers[m]))'
        BY <2>1 DEF MakerInv, Whole
    <2>5. (makers[m].at = "stored" => RepairBuilt(makers[m]))'
        BY <2>1 DEF MakerInv, RepairBuilt
    <2> QED BY <2>3, <2>4, <2>5 DEF MakerInv
<1> QED BY <1>1, <1>2, <1>3

(* A read of one maker leaves the run and the other makers alone.            *)
LEMMA ReadStep ==
    ASSUME DossierInv, NEW m \in Makers, NEW d \in MakerRecords,
           Agreeing(d), d.at \in {"extra", "stored"} => Whole(d),
           d.at = "stored" => RepairBuilt(d),
           makers' = [makers EXCEPT ![m] = d], UNCHANGED vars
    PROVE  DossierInv'
<1> USE DEF DossierInv
<1>1. FactoryInv' /\ RowsReserved'
    BY FactoryStep, ReservedStep
<1>2. (makers \in [Makers -> MakerRecords])'
    BY DEF MakerRecords, BuildStatus, Live, AttemptStatus, Candidates, Attempt
<1>3. UNCHANGED <<attempts, builds>>
    BY DEF vars
<1>4. ASSUME NEW q \in Makers PROVE MakerInv(makers[q])'
    <2>1. MakerInv(makers[q]) /\ MakerInv(d)
        BY DEF MakerInv
    <2>2. CASE q = m
        <3>1. makers'[q] = d
            BY <2>2
        <3> QED BY <1>3, <2>1, <3>1 DEF MakerInv, Agreeing, Whole, RepairBuilt
    <2>3. CASE q # m
        <3>1. makers'[q] = makers[q]
            BY <2>3
        <3> QED BY <1>3, <2>1, <3>1 DEF MakerInv, Agreeing, Whole, RepairBuilt
    <2> QED BY <2>2, <2>3
<1> QED BY <1>1, <1>2, <1>4

LEMMA BuildRowsFacts ==
    ASSUME FactoryInv, NEW k \in Attempt
    PROVE  /\ BuildRows(k) \in [Targets -> BuildStatus]
           /\ \A t \in Targets :
                /\ BuildRows(k)[t] # "none" => builds[k][t] # "none"
                /\ BuildRows(k)[t] \in Ended => builds[k][t] = BuildRows(k)[t]
                /\ builds[k][t] = "succeeded" => BuildRows(k)[t] = "succeeded"
<1>1. builds[k] \in [Targets -> BuildStatus]
    BY DEF FactoryInv, TypeOK
<1> QED BY <1>1 DEF BuildRows, Row, BuildStatus, Live, Ended

LEMMA NoRowsFacts ==
    /\ NoRows \in MakerRecords
    /\ \A k \in Attempt, t \in Targets : NoRows.builds[k][t] = "none"
    /\ \A k \in Attempt : NoRows.attempts[k] = "none" /\ NoRows.candidates[k] = "none"
<1>1. NoBuilds \in [Attempt -> [Targets -> BuildStatus]]
    BY DEF NoBuilds, BuildStatus
<1> QED BY <1>1, BudgetAssumption
    DEF NoRows, NoBuilds, MakerRecords, BuildStatus, AttemptStatus, Candidates

(* The builds of the revision asked for are rows of reserved attempts.       *)
LEMMA ReadOwnKeeps ==
    ASSUME DossierInv, NEW m \in Makers, ReadOwn(m)
    PROVE  DossierInv'
<1>1. PICK r \in {0} \cup {k \in Attempt : bound[k] = "repair"} :
         makers' = [makers EXCEPT ![m] =
           [NoRows EXCEPT
              !.at = Following["own"], !.revision = r,
              !.builds = [k \in Attempt |->
                 IF Revised(bound[k]) /\ RevisionOf(k, bound[k]) = r
                 THEN BuildRows(k) ELSE @[k]]]]
    BY DEF ReadOwn
<1> DEFINE b == [k \in Attempt |->
                   IF Revised(bound[k]) /\ RevisionOf(k, bound[k]) = r
                   THEN BuildRows(k) ELSE NoRows.builds[k]]
           d == [NoRows EXCEPT !.at = "run", !.revision = r, !.builds = b]
<1>2. makers' = [makers EXCEPT ![m] = d]
    BY <1>1 DEF Following
<1>3. b \in [Attempt -> [Targets -> BuildStatus]]
    <2>1. NoRows.builds \in [Attempt -> [Targets -> BuildStatus]]
        BY NoRowsFacts DEF MakerRecords
    <2> QED BY <2>1, BuildRowsFacts DEF DossierInv
<1>4. r \in 0..MaxAttempts
    BY BudgetAssumption DEF Attempt
<1>5. /\ d.at = "run" /\ d.builds = b
      /\ d.attempts = NoRows.attempts
    BY DEF NoRows
<1>6. d \in MakerRecords
    <2> HIDE DEF b
    <2> QED BY <1>3, <1>4, NoRowsFacts DEF MakerRecords
<1>7. Agreeing(d)
    <2>1. ASSUME NEW k \in Attempt, NEW t \in Targets
          PROVE  /\ b[k][t] # "none" => attempts[k] # "none"
                 /\ b[k][t] \in Ended => builds[k][t] = b[k][t]
        <3>1. b[k] = BuildRows(k) \/ b[k][t] = "none"
            BY NoRowsFacts
        <3> HIDE DEF b
        <3> QED BY <3>1, BuildRowsFacts DEF DossierInv, RowsReserved, Ended
    <2> HIDE DEF b, d
    <2> QED BY <1>5, <2>1, NoRowsFacts DEF Agreeing
<1> HIDE DEF d
<1> QED BY <1>2, <1>5, <1>6, <1>7, ReadStep DEF ReadOwn

(* The attempts of the run: reserved ones, up to its last.                   *)
LEMMA ReadAttemptsKeeps ==
    ASSUME DossierInv, NEW m \in Makers, ReadAttempts(m)
    PROVE  DossierInv'
<1> DEFINE d == [makers[m] EXCEPT !.attempts = attempts, !.candidates = bound,
                                  !.at = "extra"]
<1>1. makers[m] \in MakerRecords /\ makers[m].at = "run"
    BY DEF DossierInv, ReadAttempts
<1>2. makers' = [makers EXCEPT ![m] = d]
    BY <1>1 DEF ReadAttempts, Following, DossierInv, MakerRecords
<1>3. /\ d.at = "extra" /\ d.builds = makers[m].builds
      /\ d.attempts = attempts /\ d.candidates = bound
    BY <1>1 DEF MakerRecords
<1>4. d \in MakerRecords
    BY <1>1 DEF MakerRecords, DossierInv, FactoryInv, TypeOK
<1>5. Agreeing(makers[m])
    BY DEF DossierInv, MakerInv
<1>6. Agreeing(d)
    <2> HIDE DEF d
    <2> QED BY <1>3, <1>5 DEF Agreeing
<1>7. Whole(d)
    <2>1. \E n \in 0..MaxAttempts : \A k \in Attempt : attempts[k] # "none" <=> k <= n
        <3>1. run.count \in 0..MaxAttempts
            BY DEF DossierInv, FactoryInv, TypeOK, RunRecords
        <3>2. \A k \in Attempt : attempts[k] # "none" <=> k <= run.count
            BY <3>1, BudgetAssumption
            DEF DossierInv, FactoryInv, RowsInv, RunMatchesAttempts, Attempt
        <3> QED BY <3>1, <3>2
    <2> HIDE DEF d
    <2> QED BY <1>3, <1>5, <2>1 DEF Whole, Agreeing, DossierInv, RowsReserved
<1> HIDE DEF d
<1> QED BY <1>2, <1>3, <1>4, <1>6, <1>7, ReadStep DEF ReadAttempts

(* The other candidates' builds are read after the attempts: a repair that   *)
(* was read as succeeded has all of its builds succeeded.                    *)
LEMMA ReadExtraKeeps ==
    ASSUME DossierInv, NEW m \in Makers, ReadExtra(m)
    PROVE  DossierInv'
<1> DEFINE c == makers[m]
           other(k) == /\ Revised(c.candidates[k])
                       /\ RevisionOf(k, c.candidates[k]) # c.revision
           b == [k \in Attempt |-> IF other(k) THEN BuildRows(k) ELSE c.builds[k]]
           d == [c EXCEPT !.builds = b, !.at = "stored"]
<1>1. c \in MakerRecords /\ c.at = "extra"
    BY DEF DossierInv, ReadExtra
<1>2. makers' = [makers EXCEPT ![m] = d]
    <2>1. makers' = [makers EXCEPT ![m].builds =
                       [k \in Attempt |-> IF other(k) THEN BuildRows(k) ELSE @[k]],
                     ![m].at = Following[@]]
        BY DEF ReadExtra
    <2>2. Following["extra"] = "stored"
        BY DEF Following
    <2>3. makers \in [Makers -> MakerRecords] /\ makers[m].at = "extra"
        BY <1>1 DEF DossierInv
    <2> HIDE DEF other
    <2> QED BY <2>1, <2>2, <2>3 DEF MakerRecords
<1>3. /\ d.at = "stored" /\ d.builds = b /\ d.revision = c.revision
      /\ d.attempts = c.attempts /\ d.candidates = c.candidates
    BY <1>1 DEF MakerRecords
<1>4. d \in MakerRecords
    <2>1. b \in [Attempt -> [Targets -> BuildStatus]]
        BY <1>1, BuildRowsFacts DEF MakerRecords, DossierInv
    <2> HIDE DEF b
    <2> QED BY <1>1, <2>1 DEF MakerRecords
<1>5. Agreeing(c) /\ Whole(c)
    BY <1>1 DEF DossierInv, MakerInv
<1>6. ASSUME NEW k \in Attempt
      PROVE  \/ b[k] = BuildRows(k) /\ c.attempts[k] # "none"
             \/ b[k] = c.builds[k]
    BY <1>5 DEF Whole, Revised
<1>7. Agreeing(d)
    <2>1. ASSUME NEW k \in Attempt, NEW t \in Targets
          PROVE  /\ b[k][t] # "none" => attempts[k] # "none"
                 /\ b[k][t] \in Ended => builds[k][t] = b[k][t]
        <3> HIDE DEF b
        <3> QED BY <1>5, <1>6, BuildRowsFacts DEF Agreeing, DossierInv, RowsReserved
    <2> HIDE DEF b, c, d
    <2> QED BY <1>3, <1>5, <2>1 DEF Agreeing
<1>8. Whole(d)
    <2>1. ASSUME NEW k \in Attempt, NEW t \in Targets, b[k][t] # "none"
          PROVE  c.attempts[k] # "none"
        <3> HIDE DEF b
        <3> QED BY <1>5, <1>6, <2>1 DEF Whole
    <2> HIDE DEF b, c, d
    <2> QED BY <1>3, <1>5, <2>1 DEF Whole
<1>9. RepairBuilt(d)
    <2> SUFFICES ASSUME NEW k \in Attempt, c.attempts[k] = "succeeded",
                        k # c.revision, c.candidates[k] = "repair",
                        NEW t \in Targets
                 PROVE  b[k][t] = "succeeded"
        <3> HIDE DEF b, c, d
        <3> QED BY <1>3 DEF RepairBuilt
    <2>1. attempts[k] = "succeeded"
        BY <1>5 DEF Agreeing
    <2>2. builds[k][t] = "succeeded"
        BY <2>1 DEF DossierInv, FactoryInv, RowsInv, SuccessIsBuilt, AllAre
    <2>3. b[k] = BuildRows(k)
        BY DEF Revised, RevisionOf
    <2> QED BY <2>2, <2>3, BuildRowsFacts DEF DossierInv
<1> HIDE DEF d
<1> QED BY <1>2, <1>3, <1>4, <1>7, <1>8, <1>9, ReadStep DEF ReadExtra

LEMMA InitDossierInv == DossierInit => DossierInv
<1> SUFFICES ASSUME DossierInit PROVE DossierInv
    OBVIOUS
<1>1. FactoryInv
    BY InitFactoryInv DEF DossierInit
<1>2. RowsReserved
    BY DEF DossierInit, Init, RowsReserved
<1>3. makers \in [Makers -> MakerRecords]
    BY NoRowsFacts DEF DossierInit
<1>4. MakerInv(NoRows)
    BY NoRowsFacts DEF MakerInv, Agreeing, NoRows, Ended
<1> QED BY <1>1, <1>2, <1>3, <1>4 DEF DossierInv, DossierInit

(* Whatever was read for a dossier is still so of the rows: what was final    *)
(* stays, and what was reserved is not unreserved.                            *)
THEOREM DossierInvariant == DossierSpec => []DossierInv
<1>1. DossierInv /\ [DossierNext]_dossierVars => DossierInv'
    <2> SUFFICES ASSUME DossierInv, [DossierNext]_dossierVars PROVE DossierInv'
        OBVIOUS
    <2>1. CASE Next /\ UNCHANGED makers
        BY <2>1, RunKeepsDossiers
    <2>2. CASE UNCHANGED dossierVars
        BY <2>2, RunKeepsDossiers DEF dossierVars
    <2>3. ASSUME NEW m \in Makers, MakeDossier(m) PROVE DossierInv'
        BY <2>3, ReadOwnKeeps, ReadAttemptsKeeps, ReadExtraKeeps DEF MakeDossier
    <2> QED BY <2>1, <2>2, <2>3 DEF DossierNext
<1> QED BY <1>1, InitDossierInv, PTL DEF DossierSpec

LEMMA InvDossierAgrees == DossierInv => DossierAgrees
<1> SUFFICES ASSUME DossierInv, NEW d \in Stored
             PROVE
        /\ \E n \in 0..MaxAttempts : ListedAttempts(d) = 1..n
        /\ \A k \in ListedAttempts(d) :
             /\ \A s \in ShownResults(d, k) : d.attempts[k] # "none" =>
                  (s = "in-progress" \/ attempts[k] = s)
             /\ \A t \in Targets :
                  /\ BuildCheck(d, k, t) = "passed" => builds[k][t] = "succeeded"
                  /\ BuildCheck(d, k, t) = "failed" => builds[k][t] \in {"failed", "cancelled"}
        /\ \A k \in Attempt :
             /\ d.attempts[k] = "succeeded" /\ k # d.revision
             /\ d.candidates[k] = "repair"
             => \A t \in Targets : BuildCheck(d, k, t) = "passed"
    BY DEF DossierAgrees
<1>1. d \in MakerRecords /\ Agreeing(d) /\ Whole(d) /\ RepairBuilt(d)
    BY DEF Stored, DossierInv, MakerInv
<1>2. \E n \in 0..MaxAttempts : ListedAttempts(d) = 1..n
    <2>1. PICK n \in 0..MaxAttempts : \A k \in Attempt : d.attempts[k] # "none" <=> k <= n
        BY <1>1 DEF Whole
    <2>2. ListedAttempts(d) = {k \in Attempt : d.attempts[k] # "none"}
        BY <1>1 DEF ListedAttempts, Whole
    <2>3. ListedAttempts(d) = 1..n
        BY <2>1, <2>2, BudgetAssumption DEF Attempt
    <2> QED BY <2>3
<1>3. ASSUME NEW k \in ListedAttempts(d), NEW s \in ShownResults(d, k),
             d.attempts[k] # "none"
      PROVE  s = "in-progress" \/ attempts[k] = s
    <2>1. k \in Attempt
        BY DEF ListedAttempts
    <2>2. d.attempts[k] \in {"running", "succeeded", "failed"}
        BY <1>1, <1>3, <2>1 DEF MakerRecords, AttemptStatus
    <2>3. s = IF d.attempts[k] = "running" THEN "in-progress" ELSE d.attempts[k]
        BY <1>3 DEF ShownResults
    <2> QED BY <1>1, <2>1, <2>2, <2>3 DEF Agreeing
<1>4. ASSUME NEW k \in Attempt, NEW t \in Targets
      PROVE  /\ BuildCheck(d, k, t) = "passed" <=> d.builds[k][t] = "succeeded"
             /\ BuildCheck(d, k, t) = "failed" <=> d.builds[k][t] \in {"failed", "cancelled"}
    BY DEF BuildCheck
<1>5. ASSUME NEW k \in ListedAttempts(d), NEW t \in Targets
      PROVE  /\ BuildCheck(d, k, t) = "passed" => builds[k][t] = "succeeded"
             /\ BuildCheck(d, k, t) = "failed" => builds[k][t] \in {"failed", "cancelled"}
    <2>1. k \in Attempt
        BY DEF ListedAttempts
    <2> QED BY <1>1, <1>4, <2>1 DEF Agreeing, Ended
<1>6. ASSUME NEW k \in Attempt, d.attempts[k] = "succeeded", k # d.revision,
             d.candidates[k] = "repair", NEW t \in Targets
      PROVE  BuildCheck(d, k, t) = "passed"
    BY <1>1, <1>4, <1>6 DEF RepairBuilt
<1> QED BY <1>2, <1>3, <1>5, <1>6

(* A stored dossier stays true although factory-dossier.ts reads its rows by  *)
(* one query after the other while the run goes on.                           *)
THEOREM DossiersAgree == DossierSpec => []DossierAgrees
BY DossierInvariant, InvDossierAgrees, PTL
=============================================================================
