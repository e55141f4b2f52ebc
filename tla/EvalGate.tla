------------------------------ MODULE EvalGate ------------------------------
(***************************************************************************)
(* The evaluation gate: evals/classification/run.py, evals/compare.py,     *)
(* evals/upload.py, evals/gate.py and evals/promote.py in the order in     *)
(* which the jobs evals and promote_baseline of .github/workflows/ci.yml   *)
(* run them, over one object store.                                        *)
(*                                                                         *)
(* A pipeline is one workflow run.  Each of its commands is a step, so the *)
(* pipelines of several commits, or two of one commit, interleave between  *)
(* reading the baseline, uploading a report and promoting it.              *)
(***************************************************************************)
EXTENDS Integers

CONSTANTS
    Pipelines,  \* workflow runs on main
    Shas,       \* commits
    Metrics,    \* what a report may hold
    Required,   \* metrics every finished evaluation has; the others come and go
    MaxScore,   \* bound: scores are 0..MaxScore
    Floor,      \* eval_thresholds.yaml: floor of each metric
    Margin,     \* eval_thresholds.yaml: regression_margin of each metric
    MaxReruns,  \* bound: how often workflows are run again
    None        \* no report

Score  == 0..MaxScore
Absent == -1
Scores == {f \in [Metrics -> Score \cup {Absent}] : \A m \in Required : f[m] # Absent}
\* What a report says: its metrics, the baseline's, and its verdict.
Report == [sha : Shas, metrics : Scores, base : Scores \cup {None}, passed : BOOLEAN]

ASSUME GateAssumption ==
    /\ Required \subseteq Metrics
    /\ MaxScore \in Nat
    /\ Floor  \in [Metrics -> 0..MaxScore]
    /\ Margin \in [Metrics -> 0..MaxScore]
    /\ MaxReruns \in Nat
    /\ None \notin Shas \cup Scores \cup Report

VARIABLES
    sha,      \* sha[p]: the commit p runs on
    push,     \* pipelines started by a push; the others by workflow_dispatch
    stage,    \* stage[p]: the command p runs next
    report,   \* report[p]: reports/eval_report.json on the runner of p's job
    reruns,   \* workflows run again so far
    runs,     \* runs[s]: object runs/<s>.json
    latest,   \* object main/latest.json
    history,  \* history[s]: object main/sha=<s>.json
    was,      \* reports main/latest.json has held
    byHand    \* commits an operator promoted

event    == <<sha, push>>
pipeline == <<stage, report, reruns>>
store    == <<runs, latest, history>>
ghosts   == <<was, byHand>>
vars     == <<event, pipeline, store, ghosts>>

Stages == {"measure", "compare", "upload", "gate", "copy_latest", "copy_sha",
           "green", "red", "evals_broke", "promote_broke"}

TypeOK ==
    /\ sha     \in [Pipelines -> Shas]
    /\ push    \subseteq Pipelines
    /\ stage   \in [Pipelines -> Stages]
    /\ report  \in [Pipelines -> Report \cup {None}]
    /\ reruns  \in 0..MaxReruns
    /\ runs    \in [Shas -> Report \cup {None}]
    /\ latest  \in Report \cup {None}
    /\ history \in [Shas -> Report \cup {None}]
    /\ was     \subseteq Report
    /\ byHand  \subseteq Shas

Init ==
    /\ sha     \in [Pipelines -> Shas]
    /\ push    \in SUBSET Pipelines
    /\ stage   = [p \in Pipelines |-> "measure"]
    /\ report  = [p \in Pipelines |-> None]
    /\ reruns  = 0
    /\ runs    = [s \in Shas |-> None]
    /\ latest  = None
    /\ history = [s \in Shas |-> None]
    /\ was     = {}
    /\ byHand  = {}

-----------------------------------------------------------------------------
(* The dual gate of one report (compare._diff).  A metric the report lacks *)
(* has no row; one the baseline lacks has no regression to fail.           *)

\* Mutant of FloorOk: the margin is granted to the floor as well.
LenientFloor(f, m) == f[m] >= Floor[m] - Margin[m]
FloorOk(f, m) == f[m] >= Floor[m]

\* Mutant of RegressionOk: the margin is added on the wrong side.
DoubleMargin(f, base, m) ==
    base # None => (base[m] # Absent => f[m] >= base[m] - 2 * Margin[m])
RegressionOk(f, base, m) ==
    base # None => (base[m] # Absent => f[m] >= base[m] - Margin[m])

Passed(f, base) ==
    \A m \in Metrics : f[m] # Absent => FloorOk(f, m) /\ RegressionOk(f, base, m)

-----------------------------------------------------------------------------
(* The job evals.                                                          *)

Go(p, s) == stage' = [stage EXCEPT ![p] = s]

\* The runner of a job goes with the job.
Discard(p) == report' = [report EXCEPT ![p] = None]

\* The classification and retrieval reports.  When every model raised, the
\* command exits 1; otherwise the best model's scores are gated.
Measure(p, f) ==
    /\ stage[p] = "measure"
    /\ report' = [report EXCEPT ![p] =
                    [sha |-> sha[p], metrics |-> f, base |-> None, passed |-> FALSE]]
    /\ Go(p, "compare")
    /\ UNCHANGED <<event, reruns, store, ghosts>>

\* A baseline that cannot be fetched counts as one that does not exist.
Compare(p, fetched) ==
    LET f    == report[p].metrics
        base == IF fetched /\ latest # None THEN latest.metrics ELSE None
    IN
    /\ stage[p] = "compare"
    /\ report' = [report EXCEPT ![p].base = base, ![p].passed = Passed(f, base)]
    /\ Go(p, "upload")
    /\ UNCHANGED <<event, reruns, store, ghosts>>

\* Every report is uploaded, before the gate has looked at it.
Upload(p) ==
    /\ stage[p] = "upload"
    /\ runs' = [runs EXCEPT ![sha[p]] = report[p]]
    /\ Go(p, "gate")
    /\ UNCHANGED <<event, report, reruns, latest, history, ghosts>>

\* Only the push of a passing report goes on to promote_baseline.
Gate(p) ==
    /\ stage[p] = "gate"
    /\ Go(p, IF ~report[p].passed THEN "red"
             ELSE IF p \in push THEN "copy_latest" ELSE "green")
    /\ Discard(p)
    /\ UNCHANGED <<event, reruns, store, ghosts>>

-----------------------------------------------------------------------------
(* The job promote_baseline: two copies inside the store, of whatever      *)
(* runs/<sha>.json holds by then.                                          *)

\* Mutant of CopyLatest: the history is written first.
CopySource(p) ==
    /\ stage[p] = "copy_latest"
    /\ runs[sha[p]] # None
    /\ history' = [history EXCEPT ![sha[p]] = runs[sha[p]]]
    /\ Go(p, "copy_sha")
    /\ UNCHANGED <<event, report, reruns, runs, latest, ghosts>>

CopyLatest(p) ==
    /\ stage[p] = "copy_latest"
    /\ runs[sha[p]] # None
    /\ latest' = runs[sha[p]]
    /\ was' = was \cup {runs[sha[p]]}
    /\ Go(p, "copy_sha")
    /\ UNCHANGED <<event, report, reruns, runs, history, byHand>>

CopySha(p) ==
    /\ stage[p] = "copy_sha"
    /\ history' = [history EXCEPT ![sha[p]] = runs[sha[p]]]
    /\ Go(p, "green")
    /\ UNCHANGED <<event, report, reruns, runs, latest, ghosts>>

\* A command raises (the store does not answer, a model server is down) or the
\* runner dies; the rest of its job is skipped.
Break(p) ==
    /\ \/ stage[p] \in {"measure", "compare", "upload", "gate"} /\ Go(p, "evals_broke")
       \/ stage[p] \in {"copy_latest", "copy_sha"} /\ Go(p, "promote_broke")
    /\ Discard(p)
    /\ UNCHANGED <<event, reruns, store, ghosts>>

\* Run again: all jobs of a workflow that ended, or only the one that broke.
Rerun(p) ==
    /\ reruns < MaxReruns
    /\ \/ stage[p] \in {"red", "green", "evals_broke", "promote_broke"} /\ Go(p, "measure")
       \/ stage[p] = "promote_broke" /\ Go(p, "copy_latest")
    /\ reruns' = reruns + 1
    /\ UNCHANGED <<event, report, store, ghosts>>

\* RUNBOOK: after an intentional regression an operator runs evals.promote by
\* hand for a commit whose report was uploaded, whatever its verdict.
PromoteByHand(s) ==
    /\ runs[s] # None
    /\ s \notin byHand
    /\ latest'  = runs[s]
    /\ history' = [history EXCEPT ![s] = runs[s]]
    /\ was'     = was \cup {runs[s]}
    /\ byHand'  = byHand \cup {s}
    /\ UNCHANGED <<event, pipeline, runs>>

Step(p) ==
    \/ \E f \in Scores : Measure(p, f)
    \/ \E fetched \in BOOLEAN : Compare(p, fetched)
    \/ Upload(p) \/ Gate(p) \/ CopyLatest(p) \/ CopySha(p)

Next ==
    \/ \E p \in Pipelines : Step(p) \/ Break(p) \/ Rerun(p)
    \/ \E s \in Shas : PromoteByHand(s)

Spec == Init /\ [][Next]_vars

-----------------------------------------------------------------------------
(* What the gate is for.                                                   *)

\* Commits the gate does not answer for: those promoted by hand, and those
\* with two pipelines, whose reports are one object.
Unguarded(s) ==
    \/ s \in byHand
    \/ \E p, q \in Pipelines : p # q /\ sha[p] = s /\ sha[q] = s

\* Whatever pipelines overlap, break, and run again, a report becomes the
\* baseline only if it passed the gate itself and meets every floor; only a
\* promotion by hand, or a second pipeline of the same commit that replaces
\* runs/<sha>.json after the gate, can get around it (upload before gate, two
\* jobs, promote.py copying by name).
BaselineMeetsFloors ==
    latest # None /\ ~Unguarded(latest.sha) =>
        /\ latest.passed
        /\ \A m \in Metrics : latest.metrics[m] # Absent => latest.metrics[m] >= Floor[m]

\* A baseline that replaces the one it was compared with is nowhere worse by
\* more than the margin.  (One that was compared with an older baseline, or with
\* none because the fetch failed, may be.)
DropsAreWithinMargin ==
    [][(latest # None /\ latest' # latest /\ ~Unguarded(latest.sha)'
          /\ latest'.base = latest.metrics) =>
        \A m \in Metrics :
            latest.metrics[m] # Absent /\ latest'.metrics[m] # Absent =>
                latest'.metrics[m] >= latest.metrics[m] - Margin[m]]_vars

\* The copies under main/sha= are baselines that were in force, never a report
\* that was only on its way: a job may break between the two copies (promote.py
\* promises a recoverable history).
HistoryWasInForce ==
    \A s \in Shas :
        history[s] # None /\ ~Unguarded(s) => history[s] \in was

=============================================================================
