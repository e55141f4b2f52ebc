---------------------------- MODULE RagasBudget -----------------------------
(***************************************************************************)
(* The request budget of evals/rag/ragas_eval.py: answers are generated one *)
(* after the other, then scored by several workers; all of them share one   *)
(* meter of successful calls, read before a request goes out and advanced   *)
(* when its response is in.  The script may be run again, with another      *)
(* budget, and with --skip-gen on the answers an earlier run has left.      *)
(***************************************************************************)
EXTENDS Integers, FiniteSets

CONSTANTS
    Workers,   \* RAGAS_MAX_WORKERS of them score
    Main,      \* the one of them that generates
    Questions, \* number of golden questions
    Limits     \* values of --request-budget

VARIABLES
    phase,  \* what the script does
    rows,   \* answers in memory
    kept,   \* answers in the checkpoint file, 0 without one
    limit,  \* _RequestBudget.limit
    ok,     \* _RequestBudget.ok
    sent    \* workers whose request is on its way

vars == <<phase, rows, kept, limit, ok, sent>>

TypeOK ==
    /\ phase \in {"idle", "generate", "score", "reported", "died"}
    /\ rows  \in 0..Questions
    /\ kept  \in 0..Questions
    /\ limit \in Limits \cup {0}
    /\ ok    \in Nat
    /\ sent  \subseteq Workers

Init ==
    /\ phase = "idle"
    /\ rows  = 0
    /\ kept  = 0
    /\ limit = 0
    /\ ok    = 0
    /\ sent  = {}

\* A run of the script begins, with a meter of its own.
Start(n, skipGen) ==
    /\ phase \in {"idle", "reported", "died"}
    /\ limit' = n
    /\ ok'    = 0
    /\ sent'  = {}
    /\ IF skipGen THEN kept > 0 /\ phase' = "score" /\ rows' = kept
                  ELSE phase' = "generate" /\ rows' = 0
    /\ kept'  = kept

\* Mutant of Active: one question too many.
OneMore == CASE phase = "generate" -> IF rows <= Questions THEN {Main} ELSE {}
             [] phase = "score"    -> Workers
             [] OTHER              -> {}

\* Who may have a request to send.
Active == CASE phase = "generate" -> IF rows < Questions THEN {Main} ELSE {}
            [] phase = "score"    -> Workers
            [] OTHER              -> {}

\* Mutant of Check: each worker has a meter of its own.
CheckNothing(w) ==
    /\ w \in Active \ sent
    /\ sent' = sent \cup {w}
    /\ UNCHANGED <<phase, rows, kept, limit, ok>>

\* The request hook lets a request go while the meter is below the limit.
Check(w) ==
    /\ w \in Active \ sent
    /\ ok < limit
    /\ sent' = sent \cup {w}
    /\ UNCHANGED <<phase, rows, kept, limit, ok>>

\* A 2xx is counted by the response hook and brings an answer.
Succeed(w) ==
    /\ w \in sent
    /\ sent' = sent \ {w}
    /\ ok'   = ok + 1
    /\ rows' = IF phase = "generate" THEN rows + 1 ELSE rows
    /\ UNCHANGED <<phase, kept, limit>>

\* A 429, or no response at all: nothing is counted, and the client tries
\* again; while scoring the row may also be given up.
TryAgain(w) ==
    /\ w \in sent
    /\ sent' = sent \ {w}
    /\ UNCHANGED <<phase, rows, kept, limit, ok>>

\* Generation is through, or the budget stopped it: the answers are written to
\* the checkpoint and scoring begins.
Checkpoint ==
    /\ phase = "generate" /\ sent = {}
    /\ rows = Questions \/ ok >= limit
    /\ phase' = "score"
    /\ kept'  = rows
    /\ UNCHANGED <<rows, limit, ok, sent>>

\* Any other exception during generation ends the script without a checkpoint,
\* the budget's own when the client library wraps it.
Die ==
    /\ phase = "generate"
    /\ phase' = "died"
    /\ rows'  = 0
    /\ sent'  = {}
    /\ UNCHANGED <<kept, limit, ok>>

\* Every row is scored or given up; a row the budget blocks becomes NaN.
Report ==
    /\ phase = "score" /\ sent = {}
    /\ phase' = "reported"
    /\ UNCHANGED <<rows, kept, limit, ok, sent>>

Next ==
    \/ \E n \in Limits, skipGen \in BOOLEAN : Start(n, skipGen)
    \/ \E w \in Workers : Check(w) \/ Succeed(w) \/ TryAgain(w)
    \/ Checkpoint \/ Die \/ Report

Spec == Init /\ [][Next]_vars

-----------------------------------------------------------------------------

\* The meter is read before a request and advanced after its response, so
\* concurrent judges spend beyond the cap; but by less than their number, and
\* the sequential generation not at all (_RequestBudget).
SpendIsBounded ==
    ok <= limit + (IF phase \in {"score", "reported"} THEN Cardinality(Workers) - 1 ELSE 0)

\* "a hard request-budget guard ... aborts once the cap is reached" (EVALS.md);
\* "Calls past the cap abort without spending more quota" (--request-budget).
CapIsHard == ok <= limit

=============================================================================
