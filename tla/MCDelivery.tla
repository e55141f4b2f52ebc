----------------------------- MODULE MCDelivery -----------------------------
(* What comes before a deployment serves: EvalGate on a small instance, with *)
(* one metric that a report may lack, RagasBudget and Boot beside it.  The   *)
(* three share nothing, so the order of their steps does not matter: each is *)
(* explored while the other two have not begun.                              *)
EXTENDS EvalGate, FiniteSets, TLC

CONSTANTS Workers, Main, Questions, Limits, MaxTrainings, NoFault

ASSUME BudgetAssumption ==
    /\ IsFiniteSet(Workers) /\ Main \in Workers
    /\ Questions \in Nat
    /\ Limits \subseteq Nat

ASSUME BootAssumption ==
    /\ MaxTrainings \in Nat
    /\ NoFault \notin {"vault", "secrets", "db", "langfuse", "thresholds", "prompts"}

VARIABLES phase, rows, kept, limit, ok, sending,
          trained, out, trainer, sent, pin, objects, partial, crossed, cache,
          server, todo, model, api, built, fault, skip, asked

budget == <<phase, rows, kept, limit, ok, sending>>
Budget == INSTANCE RagasBudget WITH sent <- sending

boot == <<trained, out, trainer, sent, pin, objects, partial, crossed, cache,
          server, todo, model, api, built, fault, skip, asked>>
Boot == INSTANCE Boot WITH store <- objects

MCFloor  == [m \in Metrics |-> 1]
MCMargin == [m \in Metrics |-> 1]

Symmetry == Permutations(Pipelines) \cup Permutations(Shas)

MCInit == Init /\ Budget!Init /\ Boot!Init

Untouched == push = Pipelines /\ (\A p, q \in Pipelines : sha[p] = sha[q]) /\ Init

MCNext ==
    \/ Budget!Init /\ Boot!Init /\ Next /\ UNCHANGED <<budget, boot>>
    \/ Untouched /\ Boot!Init /\ Budget!Next /\ UNCHANGED <<vars, boot>>
    \/ Untouched /\ Budget!Init /\ Boot!Next /\ UNCHANGED <<vars, budget>>

MCSpec == MCInit /\ [][MCNext]_<<vars, budget, boot>>

TypesOK          == TypeOK /\ Budget!TypeOK /\ Boot!TypeOK
SpendIsBounded   == Budget!SpendIsBounded
CapIsHard        == Budget!CapIsHard
ServesConfigured == Boot!ServesConfigured
OneTraining      == Boot!OneTraining

=============================================================================
