-------------------------- MODULE BoundedStaleStore --------------------------
(***************************************************************************)
(* What callers of WidgetConfigService are promised, without a cache: a    *)
(* table of configurations whose reads may lag behind by at most Window    *)
(* ticks.                                                                  *)
(***************************************************************************)
EXTENDS Integers

CONSTANTS Widgets, Procs, MaxVersion, Window

VARIABLES
    row,    \* row[w]: the configuration in force, None when there is none
    last,   \* last[w]: configurations w has had
    gone,   \* gone[w][v]: ticks since v was superseded (up to Window + 1)
    answer  \* answer[p]: what request p was answered and has not consumed

vars == <<row, last, gone, answer>>

None     == 0
Version  == 1..MaxVersion
NoAnswer == [op |-> "none"]
Answer   == [op  : {"get", "create", "update", "delete"},
             ret : {"ok", "not_found", "error"},
             w   : Widgets,
             v   : Version \cup {None}]

Init ==
    /\ row    = [w \in Widgets |-> None]
    /\ last   = [w \in Widgets |-> None]
    /\ gone   = [w \in Widgets |-> [v \in Version |-> 0]]
    /\ answer = [p \in Procs |-> NoAnswer]

\* w may still be reported to be at version v.
Servable(w, v) ==
    /\ v \in 1..last[w]
    /\ v = row[w] \/ gone[w][v] <= Window

\* An exception promises nothing; "not found" and a finished delete are exact;
\* any other answer is a configuration of that widget, in force now or until
\* at most Window ticks ago.
Justified(a) ==
    \/ a.ret = "error"
    \/ a.ret = "not_found" /\ row[a.w] = None
    \/ a.ret = "ok" /\ IF a.op = "delete" THEN row[a.w] = None ELSE Servable(a.w, a.v)

\* A widget is created once, and a deleted one does not come back.
Commit(w) ==
    /\ \/ /\ last[w] < MaxVersion
          /\ row[w] # None \/ last[w] = None
          /\ row'  = [row EXCEPT ![w] = last[w] + 1]
          /\ last' = [last EXCEPT ![w] = last[w] + 1]
       \/ /\ row[w] # None
          /\ row' = [row EXCEPT ![w] = None]
          /\ last' = last
    /\ gone' = gone

Reply(p) ==
    \E a \in Answer :
        /\ answer' = [answer EXCEPT ![p] = a]
        /\ Justified(a)'

Forget(S) == answer' = [p \in Procs |-> IF p \in S THEN NoAnswer ELSE answer[p]]

Tick ==
    /\ gone' = [w \in Widgets |-> [v \in Version |->
                  IF v = row[w] \/ v > last[w] THEN 0
                  ELSE IF gone[w][v] > Window THEN gone[w][v]
                  ELSE gone[w][v] + 1]]
    /\ UNCHANGED <<row, last, answer>>

Next ==
    \/ /\ UNCHANGED <<row, last, gone>> \/ \E w \in Widgets : Commit(w)
       /\ UNCHANGED answer \/ \E p \in Procs : Reply(p)
    \/ \E S \in SUBSET Procs : Forget(S) /\ UNCHANGED <<row, last, gone>>
    \/ Tick

Spec == Init /\ [][Next]_vars

=============================================================================
