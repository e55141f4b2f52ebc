----------------------------- MODULE MCServices -----------------------------
(* The two services over Postgres on small instances: WidgetConfig with its *)
(* Redis key, and EpisodicMemory with its pool, where two calls can hold    *)
(* every connection.  They share no state, so the order of their steps does *)
(* not matter: each is explored while the other is as it began.             *)
EXTENDS WidgetConfig, EpisodicMemory

MCInit == Init /\ MemoryInit

ConfigAlone(A) == MemoryInit /\ UNCHANGED memoryVars /\ A
MemoryAlone(A) == Init /\ UNCHANGED vars /\ A

MCNext == ConfigAlone(Next) \/ MemoryAlone(MemoryNext)

MCSpec ==
    /\ MCInit /\ [][MCNext]_<<vars, memoryVars>>
    /\ WF_<<vars, memoryVars>>(ConfigAlone(Tick))
    /\ \A p \in Procs : WF_<<vars, memoryVars>>(ConfigAlone(Step(p)))
    /\ \A c \in Calls : WF_<<vars, memoryVars>>(MemoryAlone(Advance(c)))

=============================================================================
