--------------------------- MODULE DeliveryProofs ---------------------------
(***************************************************************************)
(* Proofs about EvalGate, RagasBudget and Boot, for any pipelines, commits, *)
(* metrics, floors and margins, any cap and any judges, any trainings and   *)
(* restarts.                                                                *)
(*                                                                         *)
(* The gate: a commit that was never promoted by hand and has a single      *)
(* pipeline owns its object runs/<sha>.json.  Between its gate and its last *)
(* copy the pipeline does not upload, so the object that is copied is the   *)
(* report whose verdict the gate read (Settled), and a verdict is true to   *)
(* the numbers it stands next to (Honest).                                  *)
(*                                                                         *)
(* The budget: what was paid is what the meter says and what the judges     *)
(* that passed the test hold in their hands (Metered); a judge passes it    *)
(* below the cap only, so the cap is exceeded by the hands of the others.   *)
(*                                                                         *)
(* The boot: what a file is from follows it from the training through the   *)
(* bucket and the volume into memory (Uploaded, Bucket, Volume, Loaded),    *)
(* and what the checks have seen stays so while the server lives (Booted).  *)
(***************************************************************************)
EXTENDS MCDelivery, FiniteSetTheorems, TLAPS

Guarded(s) == ~Unguarded(s)

\* A report's verdict follows from what it says.
Honest(r) == r.passed => Passed(r.metrics, r.base)

\* A job that measured has a report.
HasReport ==
    \A p \in Pipelines :
        stage[p] \in {"compare", "upload", "gate"} => report[p] # None

TypeInv == TypeOK /\ HasReport

\* Reports are filed under their commit and say the truth.
Reports ==
    /\ \A p \in Pipelines : report[p] # None => report[p].sha = sha[p] /\ Honest(report[p])
    /\ \A s \in Shas : runs[s] # None => runs[s].sha = s /\ Honest(runs[s])
    /\ \A s \in Shas : history[s] # None => history[s].sha = s
    /\ latest # None => Honest(latest)

\* What a guarded pipeline relies on at each command of the two jobs.
SettledAt(p) ==
    Guarded(sha[p]) =>
        /\ stage[p] = "gate" => runs[sha[p]] = report[p]
        /\ stage[p] \in {"copy_latest", "copy_sha", "promote_broke"} =>
             runs[sha[p]] # None /\ runs[sha[p]].passed
        /\ stage[p] = "copy_sha" => runs[sha[p]] \in was

Settled == \A p \in Pipelines : SettledAt(p)

InForce ==
    /\ latest # None /\ Guarded(latest.sha) => latest.passed
    /\ \A s \in Shas : history[s] # None /\ Guarded(s) => history[s] \in was

GateInv == TypeInv /\ Reports /\ Settled /\ InForce

-----------------------------------------------------------------------------
(* Types.                                                                  *)

LEMMA TypeInit == Init => TypeInv
  BY GateAssumption DEF Init, TypeInv, TypeOK, HasReport, Stages

LEMMA TypeStep == ASSUME TypeInv, [Next]_vars PROVE TypeInv'
<1> USE GateAssumption DEF TypeInv, TypeOK, HasReport, event, pipeline, store, ghosts, Go,
                           Discard, Stages
<1>1. ASSUME NEW p \in Pipelines, NEW f \in Scores, Measure(p, f) PROVE TypeInv'
  <2> DEFINE new == [sha |-> sha[p], metrics |-> f, base |-> None, passed |-> FALSE]
  <2>1. new \in Report
    BY <1>1 DEF Report
  <2>2. report' = [report EXCEPT ![p] = new]
    BY <1>1 DEF Measure
  <2> HIDE DEF new
  <2>3. TypeOK'
    BY ZenonT(40), <1>1, <2>1, <2>2 DEF Measure
  <2>4. HasReport'
    <3>1. \A q \in Pipelines : q # p => report'[q] = report[q] /\ stage'[q] = stage[q]
      BY <1>1, <2>2 DEF Measure
    <3>2. report'[p] # None
      BY <2>1, <2>2
    <3>3. QED
      BY <3>1, <3>2
  <2>5. QED
    BY <2>3, <2>4
<1>2. ASSUME NEW p \in Pipelines, NEW x \in BOOLEAN, Compare(p, x) PROVE TypeInv'
  <2> DEFINE f    == report[p].metrics
             base == IF x /\ latest # None THEN latest.metrics ELSE None
             new  == [report[p] EXCEPT !.base = base, !.passed = Passed(f, base)]
  <2>1. report[p] \in Report
    BY <1>2 DEF Compare
  <2>2. f \in Scores /\ base \in Scores \cup {None} /\ Passed(f, base) \in BOOLEAN
    BY <2>1 DEF Report, Passed
  <2>3. report' = [report EXCEPT ![p] = new]
    BY <1>2 DEF Compare
  <2> HIDE DEF f, base
  <2>4. new \in Report /\ new # None
    BY ZenonT(40), <2>1, <2>2 DEF Report
  <2> HIDE DEF new
  <2>5. TypeOK'
    <3>1. /\ stage' = [stage EXCEPT ![p] = "upload"]
          /\ UNCHANGED <<sha, push, reruns, runs, latest, history, was, byHand>>
      BY <1>2 DEF Compare
    <3>2. QED
      BY <2>3, <2>4, <3>1
  <2>6. HasReport'
    <3>1. \A q \in Pipelines : q # p => report'[q] = report[q] /\ stage'[q] = stage[q]
      BY <1>2, <2>3 DEF Compare
    <3>2. report'[p] # None
      BY <2>3, <2>4
    <3>3. QED
      BY <3>1, <3>2
  <2>7. QED
    BY <2>5, <2>6
<1>3. ASSUME NEW p \in Pipelines, Upload(p) PROVE TypeInv'
  BY <1>3 DEF Upload
<1>4. ASSUME NEW p \in Pipelines, Gate(p) PROVE TypeInv'
  BY <1>4 DEF Gate
<1>5. ASSUME NEW p \in Pipelines, CopyLatest(p) PROVE TypeInv'
  BY <1>5 DEF CopyLatest
<1>6. ASSUME NEW p \in Pipelines, CopySha(p) PROVE TypeInv'
  BY <1>6 DEF CopySha
<1>7. ASSUME NEW p \in Pipelines, Break(p) PROVE TypeInv'
  BY <1>7 DEF Break
<1>8. ASSUME NEW p \in Pipelines, Rerun(p) PROVE TypeInv'
  BY <1>8 DEF Rerun
<1>9. ASSUME NEW s \in Shas, PromoteByHand(s) PROVE TypeInv'
  BY <1>9 DEF PromoteByHand
<1>10. QED
  BY <1>1, <1>2, <1>3, <1>4, <1>5, <1>6, <1>7, <1>8, <1>9 DEF Next, Step, vars

\* Every report in the store and on a runner is one, and every command after the
\* measurement finds its report (run.py, compare.py, gate.py).
THEOREM TypesHold == Spec => []TypeOK
<1>1. TypeInv => TypeOK
  BY DEF TypeInv
<1>2. QED
  BY <1>1, TypeInit, TypeStep, PTL DEF Spec

-----------------------------------------------------------------------------
(* Reports say the truth wherever they are kept.                           *)

LEMMA ReportsStep ==
    ASSUME TypeInv, Reports, [Next]_vars
    PROVE  Reports'
<1> USE GateAssumption DEF TypeInv, TypeOK, Reports, event, pipeline, store, ghosts, Discard
<1>1. ASSUME NEW p \in Pipelines, NEW f \in Scores, Measure(p, f) PROVE Reports'
  <2> DEFINE new == [sha |-> sha[p], metrics |-> f, base |-> None, passed |-> FALSE]
  <2>1. new.sha = sha[p] /\ Honest(new)
    BY DEF Honest
  <2>2. report' = [report EXCEPT ![p] = new] /\ UNCHANGED <<sha, runs, history, latest>>
    BY <1>1 DEF Measure
  <2> HIDE DEF new
  <2>3. report'[p] = new /\ \A q \in Pipelines : q # p => report'[q] = report[q]
    BY <2>2
  <2>4. QED
    BY <2>1, <2>2, <2>3
<1>2. ASSUME NEW p \in Pipelines, NEW x \in BOOLEAN, Compare(p, x) PROVE Reports'
  <2> DEFINE f    == report[p].metrics
             base == IF x /\ latest # None THEN latest.metrics ELSE None
             new  == [report[p] EXCEPT !.base = base, !.passed = Passed(f, base)]
  <2>1. report[p] \in Report
    BY <1>2 DEF Compare, HasReport
  <2>2. report' = [report EXCEPT ![p] = new] /\ UNCHANGED <<sha, runs, history, latest>>
    BY <1>2 DEF Compare
  <2>3. report'[p] = new /\ \A q \in Pipelines : q # p => report'[q] = report[q]
    BY <2>2
  <2> HIDE DEF base
  <2>4. /\ new.sha = report[p].sha /\ new.metrics = f
        /\ new.base = base /\ new.passed = Passed(f, base)
    BY <2>1 DEF Report
  <2> HIDE DEF new, f
  <2>5. Honest(new)
    BY <2>4 DEF Honest
  <2>6. new.sha = sha[p]
    BY <2>1, <2>4
  <2>7. QED
    BY <2>2, <2>3, <2>5, <2>6
<1>3. ASSUME NEW p \in Pipelines, Upload(p) PROVE Reports'
  BY <1>3 DEF Upload, HasReport
<1>4. ASSUME NEW p \in Pipelines, Gate(p) PROVE Reports'
  BY <1>4 DEF Gate
<1>5. ASSUME NEW p \in Pipelines, CopyLatest(p) PROVE Reports'
  BY <1>5 DEF CopyLatest
<1>6. ASSUME NEW p \in Pipelines, CopySha(p) PROVE Reports'
  BY <1>6 DEF CopySha
<1>7. ASSUME NEW p \in Pipelines, Break(p) PROVE Reports'
  BY <1>7 DEF Break
<1>8. ASSUME NEW p \in Pipelines, Rerun(p) PROVE Reports'
  BY <1>8 DEF Rerun
<1>9. ASSUME NEW s \in Shas, PromoteByHand(s) PROVE Reports'
  BY <1>9 DEF PromoteByHand
<1>10. QED
  BY <1>1, <1>2, <1>3, <1>4, <1>5, <1>6, <1>7, <1>8, <1>9 DEF Next, Step, vars

-----------------------------------------------------------------------------
(* A guarded pipeline is alone with its object.                            *)

LEMMA GuardedBefore ==
    ASSUME UNCHANGED event, byHand \subseteq byHand'
    PROVE  \A s : Guarded(s)' => Guarded(s)
  BY DEF Guarded, Unguarded, event

LEMMA GuardedAlone ==
    ASSUME NEW p \in Pipelines, NEW q \in Pipelines, p # q, Guarded(sha[q])
    PROVE  sha[p] # sha[q]
  BY DEF Guarded, Unguarded

LEMMA EventsStay ==
    ASSUME [Next]_vars
    PROVE  UNCHANGED event /\ byHand \subseteq byHand' /\ was \subseteq was'
<1> USE DEF event, store, ghosts, vars
<1>1. ASSUME NEW p \in Pipelines, Step(p) PROVE UNCHANGED event /\ byHand' = byHand /\ was \subseteq was'
  BY <1>1 DEF Step, Measure, Compare, Upload, Gate, CopyLatest, CopySha
<1>2. ASSUME NEW p \in Pipelines, Break(p) \/ Rerun(p) PROVE UNCHANGED <<event, byHand, was>>
  BY <1>2 DEF Break, Rerun
<1>3. ASSUME NEW s \in Shas, PromoteByHand(s)
      PROVE  UNCHANGED event /\ byHand \subseteq byHand' /\ was \subseteq was'
  BY <1>3 DEF PromoteByHand
<1>4. QED
  BY <1>1, <1>2, <1>3 DEF Next

\* A step of pipeline p that touches no object but its own.
LEMMA OthersSettled ==
    ASSUME Settled, NEW p \in Pipelines,
           UNCHANGED event, byHand \subseteq byHand', was \subseteq was',
           \A q \in Pipelines \ {p} : stage'[q] = stage[q] /\ report'[q] = report[q],
           \A s : s # sha[p] => runs'[s] = runs[s],
           SettledAt(p)'
    PROVE  Settled'
<1>1. ASSUME NEW q \in Pipelines, q # p PROVE SettledAt(q)'
  <2>1. SUFFICES ASSUME Guarded(sha[q])' PROVE SettledAt(q)'
    BY DEF SettledAt
  <2>2. sha' = sha
    BY DEF event
  <2>3. \A s : Guarded(s)' => Guarded(s)
    BY GuardedBefore
  <2>4. \A s : s = sha'[q] => Guarded(s)'
    BY <2>1
  <2>5. Guarded(sha[q])
    BY <2>2, <2>3, <2>4
  <2>6. runs'[sha'[q]] = runs[sha[q]]
    BY <1>1, <2>2, <2>5, GuardedAlone
  <2>7. SettledAt(q)
    BY DEF Settled
  <2>8. stage'[q] = stage[q] /\ report'[q] = report[q]
    BY <1>1
  <2>9. QED
    BY <2>5, <2>6, <2>7, <2>8 DEF SettledAt
<1>2. QED
  BY <1>1 DEF Settled

LEMMA SettledStep ==
    ASSUME TypeInv, Reports, Settled, [Next]_vars
    PROVE  Settled'
<1> USE GateAssumption DEF TypeInv, TypeOK, Go, Discard
<1>0. UNCHANGED event /\ byHand \subseteq byHand' /\ was \subseteq was'
  BY EventsStay
<1>1. \A s : Guarded(s)' => Guarded(s)
  BY <1>0, GuardedBefore
<1>2. ASSUME NEW p \in Pipelines, SettledAt(p)', runs' = runs,
             \A q \in Pipelines \ {p} : stage'[q] = stage[q] /\ report'[q] = report[q]
      PROVE  Settled'
  BY <1>0, <1>2, OthersSettled
<1>3. ASSUME NEW p \in Pipelines, NEW f \in Scores, Measure(p, f) PROVE Settled'
  <2>1. SettledAt(p)'
    BY <1>3 DEF Measure, SettledAt
  <2>2. QED
    BY <1>2, <1>3, <2>1 DEF Measure, store
<1>4. ASSUME NEW p \in Pipelines, NEW x \in BOOLEAN, Compare(p, x) PROVE Settled'
  <2>1. stage'[p] = "upload"
    BY <1>4 DEF Compare
  <2>2. SettledAt(p)'
    BY <2>1 DEF SettledAt
  <2>3. QED
    BY <1>2, <1>4, <2>2 DEF Compare, store
<1>5. ASSUME NEW p \in Pipelines, Upload(p) PROVE Settled'
  <2>1. stage'[p] = "gate" /\ UNCHANGED <<sha, report>>
    BY <1>5 DEF Upload, event
  <2>2. sha[p] \in Shas /\ runs' = [runs EXCEPT ![sha[p]] = report[p]]
    BY <1>5 DEF Upload
  <2>3. SettledAt(p)'
    BY <2>1, <2>2 DEF SettledAt
  <2>4. \A s : s # sha[p] => runs'[s] = runs[s]
    BY <2>2
  <2>5. QED
    BY <1>0, <1>5, <2>1, <2>3, <2>4, OthersSettled DEF Upload
<1>6. ASSUME NEW p \in Pipelines, Gate(p) PROVE Settled'
  <2>1. SettledAt(p)'
    <3>1. SUFFICES ASSUME Guarded(sha[p])' PROVE SettledAt(p)'
      BY DEF SettledAt
    <3>2. \A s : s = sha'[p] => Guarded(s)'
      BY <3>1
    <3>3. Guarded(sha[p])
      BY <1>0, <1>1, <3>2 DEF event
    <3>4. runs[sha[p]] = report[p] /\ report[p] # None
      BY <1>6, <3>3 DEF Gate, Settled, SettledAt, HasReport
    <3>5. runs' = runs /\ sha' = sha /\ stage'[p] \in {"red", "green", "copy_latest"}
            /\ (stage'[p] = "copy_latest" => report[p].passed)
      BY <1>6 DEF Gate, event, store
    <3>6. QED
      BY <3>4, <3>5 DEF SettledAt
  <2>2. QED
    BY <1>2, <1>6, <2>1 DEF Gate, store
<1>7. ASSUME NEW p \in Pipelines, CopyLatest(p) PROVE Settled'
  <2>1. /\ stage[p] = "copy_latest" /\ stage'[p] = "copy_sha"
        /\ UNCHANGED <<sha, runs>> /\ runs[sha[p]] \in was'
    BY <1>7 DEF CopyLatest, event
  <2>2. SettledAt(p)'
    <3>1. SUFFICES ASSUME Guarded(sha[p])' PROVE SettledAt(p)'
      BY DEF SettledAt
    <3>2. \A s : s = sha'[p] => Guarded(s)'
      BY <3>1
    <3>3. runs[sha[p]] # None /\ runs[sha[p]].passed
      BY <1>1, <2>1, <3>2 DEF Settled, SettledAt
    <3>4. QED
      BY <2>1, <3>3 DEF SettledAt
  <2>3. QED
    BY <1>2, <1>7, <2>2 DEF CopyLatest
<1>8. ASSUME NEW p \in Pipelines, CopySha(p) PROVE Settled'
  <2>1. SettledAt(p)'
    BY <1>8 DEF CopySha, SettledAt
  <2>2. QED
    BY <1>2, <1>8, <2>1 DEF CopySha
<1>9. ASSUME NEW p \in Pipelines, Break(p) \/ Rerun(p) PROVE Settled'
  <2>1. /\ stage'[p] \in {"evals_broke", "measure", "promote_broke", "copy_latest"}
        /\ stage'[p] \in {"promote_broke", "copy_latest"} =>
             stage[p] \in {"copy_latest", "copy_sha", "promote_broke"}
        /\ UNCHANGED <<sha, runs>>
    BY <1>9 DEF Break, Rerun, event, store
  <2>2. SettledAt(p)'
    <3>1. SUFFICES ASSUME Guarded(sha[p])' PROVE SettledAt(p)'
      BY DEF SettledAt
    <3>2. \A s : s = sha'[p] => Guarded(s)'
      BY <3>1
    <3>3. stage'[p] \in {"promote_broke", "copy_latest"} =>
            runs[sha[p]] # None /\ runs[sha[p]].passed
      BY <1>1, <2>1, <3>2 DEF Settled, SettledAt
    <3>4. QED
      BY <2>1, <3>3 DEF SettledAt
  <2>3. QED
    BY <1>2, <1>9, <2>1, <2>2 DEF Break, Rerun
<1>10. ASSUME UNCHANGED <<stage, report, runs>> PROVE Settled'
  <2>1. ASSUME NEW p \in Pipelines PROVE SettledAt(p)'
    <3>1. SUFFICES ASSUME Guarded(sha[p])' PROVE SettledAt(p)'
      BY DEF SettledAt
    <3>2. \A s : s = sha'[p] => Guarded(s)'
      BY <3>1
    <3>3. Guarded(sha[p]) /\ sha' = sha
      BY <1>0, <1>1, <3>2 DEF event
    <3>4. QED
      BY <1>0, <1>10, <3>3 DEF Settled, SettledAt
  <2>2. QED
    BY <2>1 DEF Settled
<1>11. (UNCHANGED vars \/ \E s \in Shas : PromoteByHand(s)) => UNCHANGED <<stage, report, runs>>
  BY DEF vars, pipeline, store, PromoteByHand
<1>12. QED
  BY <1>3, <1>4, <1>5, <1>6, <1>7, <1>8, <1>9, <1>10, <1>11 DEF Next, Step

LEMMA InForceStep ==
    ASSUME TypeInv, Reports, Settled, InForce, [Next]_vars
    PROVE  InForce'
<1> USE GateAssumption DEF TypeInv, TypeOK
<1>0. UNCHANGED event /\ byHand \subseteq byHand' /\ was \subseteq was'
  BY EventsStay
<1>1. \A s : Guarded(s)' => Guarded(s)
  BY <1>0, GuardedBefore
<1>2. ASSUME latest' = latest PROVE (latest # None /\ Guarded(latest.sha) => latest.passed)'
  <2>1. SUFFICES ASSUME latest # None, Guarded(latest.sha)' PROVE latest.passed
    BY <1>2
  <2>2. \A s : s = latest'.sha => Guarded(s)'
    BY <2>1
  <2>3. QED
    BY <1>1, <1>2, <2>1, <2>2 DEF InForce
<1>3. ASSUME NEW s \in Shas, history'[s] = history[s]
      PROVE  history'[s] # None /\ Guarded(s)' => history'[s] \in was'
  BY <1>0, <1>1, <1>3 DEF InForce
<1>4. ASSUME UNCHANGED <<latest, history>> PROVE InForce'
  BY <1>2, <1>3, <1>4 DEF InForce
<1>5. ASSUME NEW p \in Pipelines, CopyLatest(p) PROVE InForce'
  <2>1. /\ latest' = runs[sha[p]] /\ runs[sha[p]] # None /\ stage[p] = "copy_latest"
        /\ history' = history
    BY <1>5 DEF CopyLatest
  <2>2. latest'.sha = sha[p]
    BY <2>1 DEF Reports
  <2>3. Guarded(latest.sha)' => latest'.passed
    <3>1. SUFFICES ASSUME Guarded(latest.sha)' PROVE latest'.passed
      OBVIOUS
    <3>2. \A s : s = latest'.sha => Guarded(s)'
      BY <3>1
    <3>3. QED
      BY <1>1, <2>1, <2>2, <3>2 DEF Settled, SettledAt
  <2>4. QED
    BY <1>3, <2>1, <2>3 DEF InForce
<1>6. ASSUME NEW p \in Pipelines, CopySha(p) PROVE InForce'
  <2>1. /\ history' = [history EXCEPT ![sha[p]] = runs[sha[p]]] /\ latest' = latest
        /\ stage[p] = "copy_sha" /\ sha[p] \in Shas
    BY <1>6 DEF CopySha
  <2>2. Guarded(sha[p]) => runs[sha[p]] \in was
    BY <2>1 DEF Settled, SettledAt
  <2>3. ASSUME NEW s \in Shas, history'[s] # None, Guarded(s)' PROVE history'[s] \in was'
    <3>1. CASE s = sha[p]
      BY <1>0, <1>1, <2>1, <2>2, <2>3, <3>1
    <3>2. CASE s # sha[p]
      BY <1>3, <2>1, <2>3, <3>2
    <3>3. QED
      BY <3>1, <3>2
  <2>4. QED
    BY <1>2, <2>1, <2>3 DEF InForce
<1>7. ASSUME NEW h \in Shas, PromoteByHand(h) PROVE InForce'
  <2>1. /\ latest' = runs[h] /\ runs[h] # None /\ history' = [history EXCEPT ![h] = runs[h]]
        /\ h \in byHand'
    BY <1>7 DEF PromoteByHand
  <2>2. ~Guarded(h)' /\ latest'.sha = h
    BY <2>1 DEF Guarded, Unguarded, Reports
  <2>3. ASSUME NEW s \in Shas, s # h PROVE history'[s] = history[s]
    BY <2>1, <2>3
  <2>4. \A s \in Shas : history'[s] # None /\ Guarded(s)' => history'[s] \in was'
    <3>1. ASSUME NEW s \in Shas, s # h
          PROVE  history'[s] # None /\ Guarded(s)' => history'[s] \in was'
      BY <1>3, <2>3, <3>1
    <3>2. \A s : s = h => ~Guarded(s)'
      BY <2>2
    <3>3. QED
      BY <3>1, <3>2
  <2>5. ~Guarded(latest.sha)'
    <3>1. \A s : s = h => ~Guarded(s)'
      BY <2>2
    <3>2. QED
      BY <2>2, <3>1
  <2>6. QED
    BY <2>4, <2>5 DEF InForce
<1>8. ASSUME NEW p \in Pipelines,
             \/ \E f \in Scores : Measure(p, f)
             \/ \E x \in BOOLEAN : Compare(p, x)
             \/ Upload(p) \/ Gate(p) \/ Break(p) \/ Rerun(p)
      PROVE  UNCHANGED <<latest, history>>
  BY <1>8 DEF Measure, Compare, Upload, Gate, Break, Rerun, store
<1>9. UNCHANGED vars => UNCHANGED <<latest, history>>
  BY DEF vars, store
<1>10. QED
  BY <1>4, <1>5, <1>6, <1>7, <1>8, <1>9 DEF Next, Step

-----------------------------------------------------------------------------
(* The theorems.                                                           *)

LEMMA GateInit == Init => GateInv
<1> SUFFICES ASSUME Init PROVE GateInv
  OBVIOUS
<1>1. TypeInv
  BY TypeInit
<1>2. Reports /\ Settled /\ InForce
  BY DEF Init, Reports, Settled, SettledAt, InForce
<1>3. QED
  BY <1>1, <1>2 DEF GateInv

LEMMA GateStep == GateInv /\ [Next]_vars => GateInv'
  BY TypeStep, ReportsStep, SettledStep, InForceStep DEF GateInv

LEMMA GateHolds == Spec => []GateInv
  BY GateInit, GateStep, PTL DEF Spec

\* A commit with one pipeline that nobody promoted by hand becomes the baseline
\* only with a report that meets every floor, however pipelines overlap, break
\* and run again (gate.py, promote.py).
THEOREM BaselinesAreGated == Spec => []BaselineMeetsFloors
<1>1. GateInv => BaselineMeetsFloors
  <2> SUFFICES ASSUME GateInv PROVE BaselineMeetsFloors
    OBVIOUS
  <2>1. latest # None /\ ~Unguarded(latest.sha) =>
          latest.passed /\ Passed(latest.metrics, latest.base)
    BY DEF GateInv, InForce, Reports, Honest, Guarded
  <2>2. QED
    BY <2>1 DEF BaselineMeetsFloors, Passed, FloorOk
<1>2. QED
  BY <1>1, GateHolds, PTL

\* What main/sha= keeps of such a commit was in force before, wherever a job
\* breaks between the two copies (promote.py).
THEOREM HistoryIsTrue == Spec => []HistoryWasInForce
<1>1. GateInv => HistoryWasInForce
  BY DEF GateInv, InForce, HistoryWasInForce, Guarded
<1>2. QED
  BY <1>1, GateHolds, PTL

LEMMA PromotionsKeepTheMargin ==
    ASSUME GateInv, [Next]_vars,
           latest # None, latest' # latest, Guarded(latest.sha)',
           latest'.base = latest.metrics
    PROVE  \A m \in Metrics :
             latest.metrics[m] # Absent /\ latest'.metrics[m] # Absent =>
               latest'.metrics[m] >= latest.metrics[m] - Margin[m]
<1> USE GateAssumption DEF GateInv, TypeInv
<1>1. PICK p \in Pipelines : CopyLatest(p)
  <2>1. ASSUME NEW p \in Pipelines,
               \/ \E f \in Scores : Measure(p, f)
               \/ \E x \in BOOLEAN : Compare(p, x)
               \/ Upload(p) \/ Gate(p) \/ CopySha(p) \/ Break(p) \/ Rerun(p)
        PROVE  latest' = latest
    BY <2>1 DEF Measure, Compare, Upload, Gate, CopySha, Break, Rerun, store
  <2>2. ASSUME NEW h \in Shas, PromoteByHand(h) PROVE FALSE
    <3>1. latest'.sha = h /\ h \in byHand'
      BY <2>2 DEF PromoteByHand, Reports
    <3>2. \A s : s \in byHand' => ~Guarded(s)'
      BY DEF Guarded, Unguarded
    <3>3. \A s : s = latest'.sha => Guarded(s)'
      OBVIOUS
    <3>4. QED
      BY <3>1, <3>2, <3>3
  <2>3. UNCHANGED vars => latest' = latest
    BY DEF vars, store
  <2>4. QED
    BY <2>1, <2>2, <2>3 DEF Next, Step
<1>2. GateInv'
  BY GateStep
<1>3. latest' \in Report /\ latest' # None
  BY <1>1 DEF CopyLatest, TypeOK
<1>4. latest \in Report
  BY DEF TypeOK
<1>5. latest'.passed /\ (latest'.passed => Passed(latest'.metrics, latest'.base))
  BY <1>2, <1>3 DEF InForce, Reports, Honest
<1>6. latest.metrics \in Scores /\ latest.metrics # None
  BY <1>4 DEF Report
<1>7. QED
  BY <1>5, <1>6 DEF Passed, RegressionOk

\* A promoted baseline that was compared with the one it replaces is nowhere
\* worse by more than the margin (compare._diff, promote.py).
THEOREM DropsKeepTheMargin == Spec => DropsAreWithinMargin
<1>1. GateInv /\ [Next]_vars =>
        [(latest # None /\ latest' # latest /\ ~Unguarded(latest.sha)'
            /\ latest'.base = latest.metrics) =>
          \A m \in Metrics :
              latest.metrics[m] # Absent /\ latest'.metrics[m] # Absent =>
                  latest'.metrics[m] >= latest.metrics[m] - Margin[m]]_vars
  BY PromotionsKeepTheMargin DEF Guarded
<1>2. QED
  BY <1>1, GateHolds, PTL DEF Spec, DropsAreWithinMargin

-----------------------------------------------------------------------------
(* The request budget of the RAG evaluation.                               *)

\* Generation sends one request at a time, and only below the limit; while
\* scoring, requests under way count as if they had been answered.
Metered ==
    /\ phase = "generate" =>
         /\ sending \subseteq {Main}
         /\ ok <= limit
         /\ sending # {} => ok < limit /\ rows < Questions
    /\ phase \in {"score", "reported"} =>
         ok + Cardinality(sending) <= limit + Cardinality(Workers) - 1
    /\ phase \in {"idle", "died"} => ok <= limit /\ sending = {}

BudgetInv == Budget!TypeOK /\ Metered

LEMMA WorkersCount == Cardinality(Workers) \in Nat /\ Cardinality(Workers) >= 1
<1>1. Cardinality(Workers) \in Nat /\ Cardinality(Workers) # 0
  BY BudgetAssumption, FS_CardinalityType, FS_EmptySet
<1>2. QED
  BY <1>1

\* The instance counts the way this module does.
LEMMA SameCount == Budget!Cardinality(Workers) = Cardinality(Workers)
  BY DEF Budget!Cardinality, Cardinality

\* Who is waiting for an answer is a subset of the workers.
LEMMA SendingCount ==
    ASSUME NEW S \in SUBSET Workers
    PROVE  /\ IsFiniteSet(S) /\ Cardinality(S) \in Nat /\ Cardinality(S) <= Cardinality(Workers)
           /\ Cardinality(S) = Cardinality(Workers) => S = Workers
  BY BudgetAssumption, FS_Subset, FS_CardinalityType

LEMMA BudgetInit == Budget!Init => BudgetInv
  BY BudgetAssumption, FS_EmptySet DEF Budget!Init, BudgetInv, Budget!TypeOK, Metered

LEMMA CheckStays ==
    ASSUME BudgetInv, NEW w \in Workers, Budget!Check(w)
    PROVE  BudgetInv'
<1>1. /\ w \in Budget!Active /\ w \notin sending /\ ok < limit
      /\ sending' = sending \cup {w} /\ UNCHANGED <<phase, rows, kept, limit, ok>>
  BY DEF Budget!Check
<1>2. Budget!TypeOK'
  BY <1>1 DEF BudgetInv, Budget!TypeOK
<1>3. CASE phase = "generate"
  <2>1. w = Main /\ rows < Questions
    BY <1>1, <1>3 DEF Budget!Active
  <2>2. QED
    BY <1>1, <1>2, <1>3, <2>1 DEF BudgetInv, Metered
<1>4. CASE phase = "score"
  <2>1. /\ IsFiniteSet(sending) /\ Cardinality(sending) \in Nat
        /\ Cardinality(sending') = Cardinality(sending) + 1
    BY <1>1, SendingCount, FS_AddElement DEF BudgetInv, Budget!TypeOK
  <2>2. Cardinality(sending') <= Cardinality(Workers)
    BY <1>2, SendingCount DEF Budget!TypeOK
  <2>3. ok + Cardinality(sending') <= limit + Cardinality(Workers) - 1
    BY <1>1, <2>1, <2>2, WorkersCount, BudgetAssumption DEF BudgetInv, Budget!TypeOK
  <2>4. QED
    BY <1>1, <1>2, <1>4, <2>3 DEF BudgetInv, Metered
<1>5. CASE phase \in {"idle", "reported", "died"}
  BY <1>1, <1>5 DEF Budget!Active
<1>6. QED
  BY <1>3, <1>4, <1>5 DEF BudgetInv, Budget!TypeOK

LEMMA ResponseStays ==
    ASSUME BudgetInv, NEW w \in Workers, Budget!Succeed(w) \/ Budget!TryAgain(w)
    PROVE  BudgetInv'
<1> USE BudgetAssumption
<1>1. /\ w \in sending /\ sending' = sending \ {w} /\ UNCHANGED <<phase, kept, limit>>
      /\ \/ ok' = ok + 1 /\ rows' = IF phase = "generate" THEN rows + 1 ELSE rows
         \/ ok' = ok /\ rows' = rows
  BY DEF Budget!Succeed, Budget!TryAgain
<1>2. /\ IsFiniteSet(sending) /\ Cardinality(sending) \in Nat
      /\ Cardinality(sending') = Cardinality(sending) - 1
  BY <1>1, SendingCount, FS_RemoveElement DEF BudgetInv, Budget!TypeOK
<1>3. Budget!TypeOK'
  BY <1>1 DEF BudgetInv, Budget!TypeOK, Metered
<1>4. CASE phase = "generate"
  BY <1>1, <1>3, <1>4 DEF BudgetInv, Budget!TypeOK, Metered
<1>5. CASE phase # "generate"
  BY <1>1, <1>2, <1>3, <1>5, WorkersCount DEF BudgetInv, Budget!TypeOK, Metered
<1>6. QED
  BY <1>4, <1>5

LEMMA BudgetStep == BudgetInv /\ [Budget!Next]_(Budget!vars) => BudgetInv'
<1> SUFFICES ASSUME BudgetInv, [Budget!Next]_(Budget!vars) PROVE BudgetInv'
  OBVIOUS
<1>1. CASE Budget!Checkpoint
  BY <1>1, BudgetAssumption, WorkersCount, FS_EmptySet
     DEF Budget!Checkpoint, BudgetInv, Budget!TypeOK, Metered
<1>2. CASE Budget!Die
  BY <1>2, BudgetAssumption DEF Budget!Die, BudgetInv, Budget!TypeOK, Metered
<1>3. CASE Budget!Report
  BY <1>3 DEF Budget!Report, BudgetInv, Budget!TypeOK, Metered
<1>4. CASE UNCHANGED Budget!vars
  BY <1>4 DEF Budget!vars, BudgetInv, Budget!TypeOK, Metered
<1>5. ASSUME NEW n \in Limits, NEW skipGen \in BOOLEAN, Budget!Start(n, skipGen)
      PROVE  BudgetInv'
  BY <1>5, BudgetAssumption, WorkersCount, FS_EmptySet
     DEF Budget!Start, BudgetInv, Budget!TypeOK, Metered
<1>6. QED
  BY <1>1, <1>2, <1>3, <1>4, <1>5, CheckStays, ResponseStays DEF Budget!Next

LEMMA BudgetHolds == Budget!Spec => []BudgetInv
  BY BudgetInit, BudgetStep, PTL DEF Budget!Spec

\* The cap on requests is overshot by less than the number of workers, and not
\* at all by the generation of answers, whatever fails, is tried again or dies
\* (_RequestBudget).
THEOREM TheCapHolds == Budget!Spec => []SpendIsBounded
<1>1. BudgetInv => SpendIsBounded
  <2> SUFFICES ASSUME BudgetInv PROVE SpendIsBounded
    OBVIOUS
  <2>1. Cardinality(sending) \in Nat /\ Cardinality(Workers) \in Nat /\ ok \in Nat
    BY SendingCount, WorkersCount DEF BudgetInv, Budget!TypeOK
  <2>2. QED
    BY <2>1, SameCount, BudgetAssumption DEF BudgetInv, Budget!TypeOK, Metered, SpendIsBounded, Budget!SpendIsBounded
<1>2. QED
  BY <1>1, BudgetHolds, PTL

-----------------------------------------------------------------------------
(* From training to an API that serves.                                    *)

Files == Boot!Files

\* The training host has the files of its last training, and what an upload has
\* put so far is theirs.
Uploaded ==
    /\ \A f \in Files : out[f] = trained
    /\ trainer = "upload" => \A f \in Files : f <= sent => objects[f] = trained
    /\ trainer # "upload" => sent = 0

\* A bucket whose last upload was finished holds one training.
Bucket == ~partial => \A f, g \in Files : objects[f] = objects[g]

\* A volume that met no upload holds files of one training and, while some are
\* missing, the ones the bucket has now.
Volume ==
    ~crossed =>
        /\ \A f, g \in Files : cache[f] # 0 /\ cache[g] # 0 => cache[f] = cache[g]
        /\ \A f, g \in Files : cache[f] # 0 /\ cache[g] = 0 => cache[f] = objects[f]

\* A classifier is loaded by a server that runs, whole.
Loaded ==
    /\ server # "serve" => model = Boot!Empty
    /\ model = Boot!Empty \/ \A f \in Files : model[f] # 0

\* What is misconfigured stops the API at its check, and the answer to the fifth
\* question describes the server for as long as it lives.
Booted ==
    /\ api # Boot!Down /\ fault # NoFault => api <= Boot!CheckOf[fault]
    /\ asked => /\ api > 5
                /\ server = "serve"
                /\ built # 0 /\ model[Boot!Weights] = built

BootInv == Boot!TypeOK /\ Uploaded /\ Bucket /\ Volume /\ Loaded /\ Booted /\ OneTraining

LEMMA Numbering ==
    /\ Files = {1, 2, 3} /\ Boot!Files = {1, 2, 3} /\ Boot!Weights = 2
    /\ Boot!Down = 0 /\ Boot!Serves = 9
    /\ Boot!Empty = [f \in {1, 2, 3} |-> 0]
    /\ Boot!Versions \subseteq Nat /\ 0 \in Boot!Versions
    /\ \A x \in Boot!Faults : Boot!CheckOf[x] \in {1, 2, 3, 6, 7, 8}
    /\ NoFault \notin Boot!Faults
  BY BootAssumption DEF Files, Boot!Files, Boot!Weights, Boot!Down, Boot!Serves, Boot!Empty,
     Boot!Versions, Boot!CheckOf, Boot!Faults

LEMMA BootInit == Boot!Init => BootInv
<1> SUFFICES ASSUME Boot!Init PROVE BootInv
  OBVIOUS
<1> USE Numbering DEF Boot!Init
<1>1. Boot!TypeOK
  <2>1. partial \in BOOLEAN /\ crossed \in BOOLEAN /\ skip \in BOOLEAN /\ asked \in BOOLEAN
    BY DEF Boot!Init
  <2>2. api \in Boot!Down..Boot!Serves /\ sent \in 0..2
    OBVIOUS
  <2>3. QED
    BY <2>1, <2>2 DEF Boot!TypeOK, Boot!Artifact
<1>2. Uploaded /\ Bucket
  BY DEF Uploaded, Bucket
<1>3. Volume /\ Loaded
  BY DEF Volume, Loaded
<1>4. Booted
  BY DEF Booted
<1>5. OneTraining
  BY DEF OneTraining, Boot!OneTraining
<1>6. QED
  BY <1>1, <1>2, <1>3, <1>4, <1>5 DEF BootInv

LEMMA BootTypes == Boot!TypeOK /\ [Boot!Next]_(Boot!vars) => Boot!TypeOK'
<1> SUFFICES ASSUME Boot!TypeOK, [Boot!Next]_(Boot!vars) PROVE Boot!TypeOK'
  OBVIOUS
<1> USE DEF Boot!TypeOK, Boot!Artifact, Boot!training, Boot!serving, Boot!booting, Boot!bucket
<1>1. CASE Boot!Train
  BY <1>1, Numbering, BootAssumption DEF Boot!Train, Boot!Versions
<1>2. CASE Boot!Pin
  BY <1>2, Numbering DEF Boot!Pin
<1>3. CASE Boot!BeginUpload
  BY <1>3, Numbering DEF Boot!BeginUpload
<1>4. CASE Boot!Upload
  BY <1>4, Numbering DEF Boot!Upload, Boot!Downloading
<1>5. CASE Boot!TrainerEnds
  BY <1>5, Numbering DEF Boot!TrainerEnds
<1>6. CASE Boot!StartServer
  BY <1>6, Numbering DEF Boot!StartServer
<1>7. CASE Boot!Fetch
  BY <1>7, Numbering DEF Boot!Fetch
<1>8. CASE Boot!Load
  BY <1>8, Numbering DEF Boot!Load
<1>9. CASE Boot!LoadFails
  BY <1>9, Numbering DEF Boot!LoadFails
<1>10. CASE Boot!StopServer
  BY <1>10, Numbering DEF Boot!StopServer
<1>11. CASE Boot!RemoveVolume
  BY <1>11, Numbering DEF Boot!RemoveVolume
<1>12. CASE Boot!StopApi
  <2>1. api' \in Boot!Down..Boot!Serves
    BY <1>12, Numbering DEF Boot!StopApi
  <2>2. skip' \in BOOLEAN /\ asked' \in BOOLEAN
    BY <1>12 DEF Boot!StopApi
  <2>3. QED
    BY <1>12, <2>1, <2>2 DEF Boot!StopApi
<1>13. CASE Boot!Check
  BY <1>13, Numbering DEF Boot!Check, Boot!Pass
<1>14. CASE Boot!CheckLoaded
  BY <1>14, Numbering DEF Boot!CheckLoaded, Boot!Pass
<1>15. CASE Boot!CheckWeights
  <2>1. api' \in Boot!Down..Boot!Serves
    BY <1>15, Numbering DEF Boot!CheckWeights, Boot!Pass
  <2>2. asked' \in BOOLEAN
    BY <1>15 DEF Boot!CheckWeights
  <2>3. QED
    BY <1>15, <2>1, <2>2 DEF Boot!CheckWeights
<1>16. ASSUME NEW b \in BOOLEAN, NEW s \in BOOLEAN, NEW x \in Boot!Faults \cup {NoFault},
             Boot!StartApi(b, s, x)
      PROVE  Boot!TypeOK'
  BY <1>16, Numbering DEF Boot!StartApi
<1>17. CASE UNCHANGED Boot!vars
  BY <1>17 DEF Boot!vars
<1>18. QED
  BY <1>1, <1>2, <1>3, <1>4, <1>5, <1>6, <1>7, <1>8, <1>9, <1>10, <1>11, <1>12, <1>13, <1>14, <1>15, <1>16, <1>17 DEF Boot!Next

\* What the training, the serving and the booting side rely on of one another.
TrainSide == Uploaded /\ Bucket
ServeSide == Volume /\ Loaded /\ OneTraining

LEMMA TrainSideRests ==
    ASSUME TrainSide, UNCHANGED <<trained, out, trainer, sent, objects, partial>>
    PROVE  TrainSide'
  BY DEF TrainSide, Uploaded, Bucket

LEMMA ServeSideRests ==
    ASSUME ServeSide, UNCHANGED <<objects, crossed, cache, server, model>>
    PROVE  ServeSide'
  BY DEF ServeSide, Volume, Loaded, OneTraining, Boot!OneTraining

LEMMA BootedRests ==
    ASSUME Booted, UNCHANGED <<api, built, fault, asked, server, model>>
    PROVE  Booted'
  BY DEF Booted

LEMMA BootParts == BootInv <=> Boot!TypeOK /\ TrainSide /\ ServeSide /\ Booted
  BY DEF BootInv, TrainSide, ServeSide

\* Training, pinning and the upload of a file.
LEMMA TrainingStays ==
    ASSUME BootInv, Boot!TypeOK',
           Boot!Train \/ Boot!Pin \/ Boot!BeginUpload \/ Boot!TrainerEnds \/ Boot!Upload
    PROVE  BootInv'
<1> USE DEF Boot!training, Boot!serving, Boot!booting, Boot!bucket
<1>1. UNCHANGED <<cache, server, model, api, built, fault, asked>>
  BY DEF Boot!Train, Boot!Pin, Boot!BeginUpload, Boot!TrainerEnds, Boot!Upload
<1>2. Booted'
  BY <1>1, BootParts, BootedRests
<1>3. CASE Boot!Train
  <2>1. UNCHANGED <<objects, partial, crossed, sent>> /\ trained' = trained + 1
        /\ trainer = "idle" /\ trainer' = "saved" /\ out' = [f \in Files |-> trained']
    BY <1>3 DEF Boot!Train, Files
  <2>2. TrainSide'
    BY <2>1 DEF BootInv, TrainSide, Uploaded, Bucket
  <2>3. ServeSide'
    BY <1>1, <2>1, BootParts, ServeSideRests
  <2>4. QED
    BY <1>2, <2>2, <2>3 DEF BootInv, TrainSide, ServeSide
<1>4. CASE Boot!Pin \/ Boot!BeginUpload \/ Boot!TrainerEnds
  <2>1. /\ UNCHANGED <<objects, partial, crossed, out, trained>>
        /\ sent' = 0 \/ (sent' = sent /\ trainer # "upload")
    BY <1>4 DEF Boot!Pin, Boot!BeginUpload, Boot!TrainerEnds
  <2>2. sent' = 0
    BY <2>1 DEF BootInv, Uploaded
  <2>3. TrainSide'
    <3>1. \A f \in Files : ~(f <= sent')
      BY <2>2, Numbering
    <3>2. UNCHANGED <<out, trained, objects, partial>>
      BY <2>1
    <3>3. Uploaded'
      BY <2>2, <3>1, <3>2 DEF BootInv, Uploaded
    <3>4. Bucket'
      BY <3>2 DEF BootInv, Bucket
    <3>5. QED
      BY <3>3, <3>4 DEF TrainSide
  <2>4. ServeSide'
    <3>1. UNCHANGED <<objects, crossed, cache, server, model>>
      BY <1>1, <2>1
    <3>2. QED
      BY <3>1, ServeSideRests DEF BootInv, ServeSide
  <2>5. QED
    BY <1>2, <2>3, <2>4 DEF BootInv, TrainSide, ServeSide
<1>5. CASE Boot!Upload
  <2>1. /\ trainer = "upload" /\ sent \in {0, 1, 2} /\ UNCHANGED <<trained, out>>
        /\ objects' = [objects EXCEPT ![sent + 1] = out[sent + 1]]
        /\ partial' = (sent < 2) /\ crossed' = (crossed \/ Boot!Downloading)
        /\ IF sent < 2 THEN trainer' = "upload" /\ sent' = sent + 1
                       ELSE trainer' = "idle" /\ sent' = 0
    BY <1>5 DEF Boot!Upload, BootInv, Boot!TypeOK
  <2>2. sent + 1 \in Files /\ objects \in [Files -> Boot!Versions] /\ Files = {1, 2, 3}
    BY <2>1, Numbering DEF BootInv, Boot!TypeOK, Boot!Artifact
  <2>3. /\ objects'[sent + 1] = trained
        /\ \A f \in Files : f <= sent + 1 => objects'[f] = trained
    BY <2>1, <2>2 DEF BootInv, Uploaded
  <2>4. Uploaded'
    <3>1. CASE sent < 2
      BY <2>1, <2>3, <3>1 DEF BootInv, Uploaded
    <3>2. CASE ~(sent < 2)
      BY <2>1, <3>2 DEF BootInv, Uploaded
    <3>3. QED
      BY <3>1, <3>2
  <2>5. Bucket'
    <3>1. CASE sent < 2
      BY <2>1, <3>1 DEF Bucket
    <3>2. CASE ~(sent < 2)
      <4>1. \A f \in Files : objects'[f] = trained
        BY <2>1, <2>2, <2>3, <3>2
      <4>2. QED
        BY <4>1 DEF Bucket
    <3>3. QED
      BY <3>1, <3>2
  <2>6. ~crossed' => ~crossed /\ ~Boot!Downloading
    BY <2>1
  <2>7. ServeSide'
    <3>1. Volume'
      BY <1>1, <2>6 DEF BootInv, Volume, Boot!Downloading, Files
    <3>2. Loaded' /\ OneTraining'
      BY <1>1, <2>6 DEF BootInv, Loaded, OneTraining, Boot!OneTraining
    <3>3. QED
      BY <3>1, <3>2 DEF ServeSide
  <2>8. QED
    BY <1>2, <2>4, <2>5, <2>7 DEF BootInv, ServeSide
<1>6. QED
  BY <1>3, <1>4, <1>5

\* A file fetched into an incomplete volume is the bucket's.
LEMMA FetchStays ==
    ASSUME BootInv, Boot!TypeOK', Boot!Fetch
    PROVE  BootInv'
<1>1. /\ UNCHANGED <<trained, out, trainer, sent, objects, partial>>
      /\ UNCHANGED <<server, model, api, built, fault, asked>>
  BY DEF Boot!Fetch, Boot!training, Boot!bucket, Boot!booting
<1>2. TrainSide'
  BY <1>1, TrainSideRests DEF BootInv, TrainSide
<1>3. Booted'
  BY <1>1, BootedRests DEF BootInv
<1>4. PICK f \in Files :
        /\ cache' = IF cache[f] = 0 THEN [cache EXCEPT ![f] = objects[f]] ELSE cache
        /\ crossed' = (crossed \/ (cache[f] = 0 /\ partial))
  BY DEF Boot!Fetch, BootInv, Boot!TypeOK, Files
<1>5. ~crossed' => ~crossed
  BY <1>4
<1>6. Loaded' /\ OneTraining'
  BY <1>1, <1>5 DEF BootInv, Loaded, OneTraining, Boot!OneTraining
<1>7. Volume'
  <2>1. CASE cache[f] # 0
    <3>1. UNCHANGED <<cache, objects>>
      BY <1>1, <1>4, <2>1
    <3>2. QED
      BY <1>5, <3>1 DEF BootInv, Volume
  <2>2. CASE cache[f] = 0
    <3> SUFFICES ASSUME ~crossed' PROVE Volume'
      BY DEF Volume
    <3>1. ~crossed /\ ~partial
      BY <1>4, <2>2
    <3>2. cache' = [cache EXCEPT ![f] = objects[f]] /\ cache \in [Files -> Boot!Versions]
      BY <1>4, <2>2 DEF BootInv, Boot!TypeOK, Boot!Artifact, Files
    <3>3. \A g, h \in Files : objects[g] = objects[h]
      BY <3>1 DEF BootInv, Bucket
    <3>4. \A g \in Files : cache[g] # 0 => cache[g] = objects[g]
      BY <2>2, <3>1 DEF BootInv, Volume
    <3>5. \A g \in Files : cache'[g] # 0 => cache'[g] = objects'[g]
      BY <1>1, <3>2, <3>4
    <3>6. QED
      BY <1>1, <3>3, <3>5 DEF Volume
  <2>3. QED
    BY <2>1, <2>2
<1>8. QED
  BY <1>2, <1>3, <1>6, <1>7 DEF BootInv, TrainSide

\* The rest of the model server, and its volume.
LEMMA ServingStays ==
    ASSUME BootInv, Boot!TypeOK',
           Boot!StartServer \/ Boot!Load \/ Boot!LoadFails \/ Boot!StopServer \/ Boot!RemoveVolume
    PROVE  BootInv'
<1> USE DEF Boot!training, Boot!bucket, Boot!booting
<1>1. UNCHANGED <<trained, out, trainer, sent, objects, partial>> /\ UNCHANGED <<api, built, fault>>
  BY DEF Boot!StartServer, Boot!Load, Boot!LoadFails, Boot!StopServer, Boot!RemoveVolume
<1>2. TrainSide'
  BY <1>1, TrainSideRests DEF BootInv, TrainSide
<1>3. CASE Boot!StartServer \/ Boot!LoadFails
  <2>1. UNCHANGED <<crossed, cache, model, asked>> /\ server # "serve"
    BY <1>3 DEF Boot!StartServer, Boot!LoadFails
  <2>2. ServeSide'
    BY <1>1, <2>1 DEF BootInv, ServeSide, Volume, Loaded, OneTraining, Boot!OneTraining
  <2>3. Booted'
    BY <1>1, <2>1 DEF BootInv, Booted
  <2>4. QED
    BY <1>2, <2>2, <2>3 DEF BootInv, TrainSide, ServeSide
<1>4. CASE Boot!Load
  <2>1. /\ UNCHANGED <<crossed, cache, asked>> /\ server = "fetch" /\ server' = "serve"
        /\ model' = cache /\ \A f \in Files : cache[f] # 0
    BY <1>4 DEF Boot!Load, Files
  <2>2. Volume' /\ Loaded'
    BY <1>1, <2>1 DEF BootInv, Volume, Loaded
  <2>3. OneTraining'
    BY <2>1 DEF BootInv, Volume, OneTraining, Boot!OneTraining, Files
  <2>4. Booted'
    BY <1>1, <2>1 DEF BootInv, Booted
  <2>5. QED
    BY <1>2, <2>2, <2>3, <2>4 DEF BootInv, TrainSide
<1>5. CASE Boot!StopServer
  <2>1. UNCHANGED <<crossed, cache>> /\ model' = Boot!Empty /\ asked' = FALSE
    BY <1>5 DEF Boot!StopServer
  <2>2. ServeSide'
    BY <1>1, <2>1, Numbering
       DEF BootInv, ServeSide, Volume, Loaded, OneTraining, Boot!OneTraining
  <2>3. Booted'
    BY <1>1, <2>1 DEF BootInv, Booted
  <2>4. QED
    BY <1>2, <2>2, <2>3 DEF BootInv, TrainSide, ServeSide
<1>6. CASE Boot!RemoveVolume
  <2>1. /\ UNCHANGED <<server, model, asked>> /\ server = "down"
        /\ cache' = Boot!Empty
    BY <1>6 DEF Boot!RemoveVolume
  <2>2. Volume' /\ Loaded'
    BY <2>1, Numbering DEF BootInv, Volume, Loaded
  <2>3. OneTraining'
    BY <2>1, Numbering DEF BootInv, Loaded, OneTraining, Boot!OneTraining
  <2>4. Booted'
    BY <1>1, <2>1, BootedRests DEF BootInv
  <2>5. QED
    BY <1>2, <2>2, <2>3, <2>4 DEF BootInv, TrainSide
<1>7. QED
  BY <1>3, <1>4, <1>5, <1>6

\* The checks: a fault is met at its number, and the fifth asks about the pin.
LEMMA BootingStays ==
    ASSUME BootInv, Boot!TypeOK',
           \/ \E b, s \in BOOLEAN, x \in Boot!Faults \cup {NoFault} : Boot!StartApi(b, s, x)
           \/ Boot!StopApi \/ Boot!Check \/ Boot!CheckLoaded \/ Boot!CheckWeights
    PROVE  BootInv'
<1> USE DEF Boot!training, Boot!bucket, Boot!serving
<1>1. /\ UNCHANGED <<trained, out, trainer, sent, objects, partial>>
      /\ UNCHANGED <<crossed, cache, server, model>>
  BY DEF Boot!StartApi, Boot!StopApi, Boot!Check, Boot!CheckLoaded, Boot!CheckWeights
<1>2. TrainSide' /\ ServeSide'
  BY <1>1, TrainSideRests, ServeSideRests DEF BootInv, TrainSide, ServeSide
<1>3. fault # NoFault => Boot!CheckOf[fault] \in {1, 2, 3, 6, 7, 8}
  BY Numbering DEF BootInv, Boot!TypeOK
<1>4. api \in 0..9
  BY Numbering DEF BootInv, Boot!TypeOK
<1>5. Booted'
  <2>1. ASSUME NEW b \in BOOLEAN, NEW s \in BOOLEAN, NEW x \in Boot!Faults \cup {NoFault},
               Boot!StartApi(b, s, x)
        PROVE  Booted'
    <3>1. api = 0 /\ api' = 1 /\ fault' = x /\ asked' = asked
      BY <2>1, Numbering DEF Boot!StartApi
    <3>2. ~asked
      BY <3>1 DEF BootInv, Booted
    <3>3. x # NoFault => 1 <= Boot!CheckOf[x]
      <4>1. x # NoFault => Boot!CheckOf[x] \in {1, 2, 3, 6, 7, 8}
        BY Numbering
      <4>2. QED
        BY <4>1
    <3>4. QED
      BY <3>1, <3>2, <3>3 DEF Booted
  <2>2. CASE Boot!StopApi
    BY <2>2 DEF Boot!StopApi, Booted
  <2>3. CASE Boot!Check
    <3>1. /\ api \in {1, 2, 3, 6, 7, 8} /\ api' = api + 1 /\ UNCHANGED <<built, fault, asked>>
          /\ fault # NoFault => Boot!CheckOf[fault] # api
      BY <2>3 DEF Boot!Check, Boot!Pass
    <3>2. fault # NoFault => api <= Boot!CheckOf[fault]
      BY <3>1, Numbering DEF BootInv, Booted
    <3>3. fault' # NoFault => api' <= Boot!CheckOf[fault']
      BY <1>3, <3>1, <3>2
    <3>4. asked' => /\ api' > 5 /\ server' = "serve"
                    /\ built' # 0 /\ model'[Boot!Weights] = built'
      BY <1>1, <3>1 DEF BootInv, Booted
    <3>5. QED
      BY <3>3, <3>4 DEF Booted
  <2>4. CASE Boot!CheckLoaded
    <3>1. api = 4 /\ api' = 5 /\ UNCHANGED <<built, fault, asked>>
      BY <2>4 DEF Boot!CheckLoaded, Boot!Pass
    <3>2. fault # NoFault => 5 <= Boot!CheckOf[fault]
      BY <1>3, <3>1, Numbering DEF BootInv, Booted
    <3>3. ~asked'
      BY <3>1 DEF BootInv, Booted
    <3>4. QED
      BY <3>1, <3>2, <3>3 DEF Booted
  <2>5. CASE Boot!CheckWeights
    <3>1. api = 5 /\ api' = 6 /\ UNCHANGED <<built, fault>>
      BY <2>5 DEF Boot!CheckWeights, Boot!Pass
    <3>2. fault # NoFault => 6 <= Boot!CheckOf[fault]
      BY <1>3, <3>1, Numbering DEF BootInv, Booted
    <3>3. asked' => /\ server' = "serve"
                    /\ built' # 0 /\ model'[Boot!Weights] = built'
      BY <1>1, <2>5, <3>1 DEF Boot!CheckWeights
    <3>4. QED
      BY <3>1, <3>2, <3>3 DEF Booted
  <2>6. QED
    BY <2>1, <2>2, <2>3, <2>4, <2>5
<1>6. QED
  BY <1>2, <1>5 DEF BootInv, TrainSide, ServeSide

LEMMA BootStep == BootInv /\ [Boot!Next]_(Boot!vars) => BootInv'
<1> SUFFICES ASSUME BootInv, [Boot!Next]_(Boot!vars) PROVE BootInv'
  OBVIOUS
<1>1. Boot!TypeOK'
  BY BootTypes DEF BootInv
<1>2. CASE Boot!Next
  BY <1>1, <1>2, TrainingStays, FetchStays, ServingStays, BootingStays DEF Boot!Next
<1>3. CASE UNCHANGED Boot!vars
  <2>1. UNCHANGED <<trained, out, trainer, sent, objects, partial>>
        /\ UNCHANGED <<crossed, cache, server, model>> /\ UNCHANGED <<api, built, fault, asked>>
    BY <1>3 DEF Boot!vars, Boot!training, Boot!bucket, Boot!serving, Boot!booting
  <2>2. TrainSide' /\ ServeSide' /\ Booted'
    BY <2>1, TrainSideRests, ServeSideRests, BootedRests DEF BootInv, TrainSide, ServeSide
  <2>3. QED
    BY <1>1, <2>2 DEF BootInv, TrainSide, ServeSide
<1>4. QED
  BY <1>2, <1>3

LEMMA BootHolds == Boot!Spec => []BootInv
  BY BootInit, BootStep, PTL DEF Boot!Spec

\* An API that serves has passed all eight checks with nothing misconfigured,
\* and the model server that answered the fifth still runs the pinned weights,
\* however the two restart, train or upload in between (BootValidator).
THEOREM TheApiServesWhatWasPinned == Boot!Spec => []ServesConfigured
<1>1. BootInv => ServesConfigured
  <2> SUFFICES ASSUME BootInv, api = 9 PROVE ServesConfigured
    BY Numbering DEF ServesConfigured, Boot!ServesConfigured
  <2>1. fault = NoFault
    <3> SUFFICES ASSUME fault # NoFault PROVE FALSE
      OBVIOUS
    <3>1. Boot!CheckOf[fault] \in {1, 2, 3, 6, 7, 8}
      BY Numbering DEF BootInv, Boot!TypeOK
    <3>2. 9 <= Boot!CheckOf[fault]
      BY Numbering DEF BootInv, Booted
    <3>3. QED
      BY <3>1, <3>2
  <2>2. asked => model[Boot!Weights] = built /\ \A f \in Boot!Files : model[f] # 0
    BY Numbering DEF BootInv, Booted, Loaded
  <2>3. QED
    BY <2>1, <2>2 DEF ServesConfigured, Boot!ServesConfigured
<1>2. QED
  BY <1>1, BootHolds, PTL

\* A classifier has its weights, its tokenizer and its configuration from one
\* training unless an upload met the download of its volume, which no digest
\* would tell (_download_artifact, upload_artifact).
THEOREM AnArtifactIsOneTraining == Boot!Spec => []OneTraining
<1>1. BootInv => OneTraining
  BY DEF BootInv
<1>2. QED
  BY <1>1, BootHolds, PTL

\* Types hold in every reachable state of the gate, the budget and the boot.
THEOREM DeliveryTypes == Spec /\ Budget!Spec /\ Boot!Spec => []TypesOK
<1>1. GateInv /\ BudgetInv /\ BootInv => TypesOK
  BY DEF GateInv, TypeInv, BudgetInv, BootInv, TypesOK
<1>2. QED
  BY <1>1, GateHolds, BudgetHolds, BootHolds, PTL

=============================================================================
