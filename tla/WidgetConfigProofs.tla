-------------------------- MODULE WidgetConfigProofs --------------------------
(***************************************************************************)
(* For every number of widgets, requests and versions, every TTL and every *)
(* latency bound: WidgetConfig keeps its types, no key of the cache is     *)
(* ever staler than its own age plus the latency of the request that wrote *)
(* it, and the service as a whole is the bounded-stale store of            *)
(* BoundedStaleStore.                                                      *)
(***************************************************************************)
EXTENDS WidgetConfig, TLAPS

\* Only a superseded version ages.
CurrentIsAgeless ==
    \A w \in Widgets, v \in Version :
        v = row[w] \/ v > last[w] => gone[w][v] = 0

\* A row holds a version its widget has had.
RowWasCounted == \A w \in Widgets : row[w] <= last[w]

\* What a request is about to write to Redis was in force when its SQL
\* statement ran, lag[p] ticks ago.
HeldIsRecent ==
    \A p \in Procs :
        pc[p] = "cache_put" /\ val[p] # None => gone[wid[p]][val[p]] <= lag[p]

Ages == CurrentIsAgeless /\ RowWasCounted /\ HeldIsRecent /\ StaleEntriesAge
IInv == TypeOK /\ Ages

\* Every action but those of the SQL statements, the Redis write and time leaves the table, the cache and the
\* versions about to be written alone.
Quiet ==
    /\ UNCHANGED <<row, last, gone, cached, ttl>>
    /\ \A p \in Procs : pc'[p] = "cache_put" =>
          /\ pc[p] = "cache_put"
          /\ wid'[p] = wid[p] /\ val'[p] = val[p] /\ lag'[p] = lag[p]

LEMMA WindowFacts ==
    /\ Window \in Nat
    /\ CacheTTL \in Nat /\ MaxLag \in Nat /\ MaxVersion \in Nat
    /\ None = 0
  BY BoundsAssumption DEF Window, None

-----------------------------------------------------------------------------
LEMMA ReturnTypes ==
    ASSUME TypeOK, NEW p \in Procs, NEW r \in Answers, NEW v \in Version \cup {None},
           Return(p, r, v)
    PROVE  /\ pc'  \in [Procs -> Points]
           /\ ret' \in [Procs -> Answers]
           /\ val' \in [Procs -> Version \cup {None}]
           /\ lag' \in [Procs -> 0..MaxLag]
  BY WindowFacts DEF TypeOK, Return, Points

LEMMA ProceedTypes ==
    ASSUME TypeOK, NEW p \in Procs, NEW v \in Version \cup {None}, Proceed(p, v)
    PROVE  /\ pc'  \in [Procs -> Points]
           /\ ret' \in [Procs -> Answers]
           /\ val' \in [Procs -> Version \cup {None}]
           /\ lag' \in [Procs -> 0..MaxLag]
  BY WindowFacts DEF TypeOK, Proceed, Points

\* Every variable keeps its type, whatever requests interleave.
LEMMA TypeInvariance == TypeOK /\ [Next]_vars => TypeOK'
<1> SUFFICES ASSUME TypeOK, [Next]_vars PROVE TypeOK'
  OBVIOUS
<1> USE BoundsAssumption, WindowFacts DEF TypeOK
<1>1. ASSUME NEW p \in Procs, NEW o \in Ops, NEW w \in Widgets, Call(p, o, w)
      PROVE  TypeOK'
  BY <1>1 DEF Call, Enter, Points, Answers
<1>2. ASSUME NEW p \in Procs, CacheHit(p) PROVE TypeOK'
  BY <1>2 DEF CacheHit, Return, Points, Answers
<1>3. ASSUME NEW p \in Procs, CacheMiss(p) PROVE TypeOK'
  BY <1>3 DEF CacheMiss, Points
<1>4. ASSUME NEW p \in Procs, Select(p) PROVE TypeOK'
  <2>1. row[wid[p]] \in Version \cup {None} /\ "not_found" \in Answers
    BY DEF Answers
  <2>2. CASE Return(p, "not_found", None)
    BY <1>4, <2>1, <2>2, ReturnTypes DEF Select
  <2>3. CASE Proceed(p, row[wid[p]])
    BY <1>4, <2>1, <2>3, ProceedTypes DEF Select
  <2>4. QED
    BY <1>4, <2>2, <2>3 DEF Select
<1>5. ASSUME NEW p \in Procs, NEW w \in Widgets, NEW a \in AckLost, Insert(p, w, a)
      PROVE  TypeOK'
  <2>1. 1 \in Version /\ "error" \in Answers /\ "reread" \in Points
    BY DEF Version, Answers, Points
  <2>2. CASE Return(p, "error", None)
    BY <1>5, <2>1, <2>2, ReturnTypes DEF Insert
  <2>3. CASE pc' = [pc EXCEPT ![p] = "reread"] /\ UNCHANGED <<val, ret, lag>>
    BY <1>5, <2>1, <2>3 DEF Insert
  <2>4. QED
    BY <1>5, <2>2, <2>3 DEF Insert
<1>6. ASSUME NEW p \in Procs, NEW a \in AckLost, Update(p, a) PROVE TypeOK'
  <2>1. last[wid[p]] \in Version \cup {None} /\ last[wid[p]] < MaxVersion
    BY <1>6 DEF Update
  <2>2. last[wid[p]] + 1 \in Version /\ "error" \in Answers
    BY <2>1 DEF Version, Answers
  <2>3. CASE Return(p, "error", None)
    BY <1>6, <2>2, <2>3, ReturnTypes DEF Update
  <2>4. CASE Proceed(p, last[wid[p]] + 1)
    BY <1>6, <2>2, <2>4, ProceedTypes DEF Update
  <2>5. QED
    BY <1>6, <2>3, <2>4 DEF Update
<1>7. ASSUME NEW p \in Procs, NEW a \in AckLost, Delete(p, a) PROVE TypeOK'
  <2>1. CASE Return(p, "not_found", None)
    BY <1>7, <2>1 DEF Delete, Return, Points, Answers
  <2>2. CASE Return(p, "error", None)
    BY <1>7, <2>2 DEF Delete, Return, Points, Answers
  <2>3. CASE Proceed(p, None)
    BY <1>7, <2>3 DEF Delete, Proceed, Points, Answers
  <2>4. QED
    BY <1>7, <2>1, <2>2, <2>3 DEF Delete
<1>8. ASSUME NEW p \in Procs, Fails(p) PROVE TypeOK'
  BY <1>8 DEF Fails, Return, Points, Answers
<1>9. ASSUME NEW p \in Procs, CachePut(p) PROVE TypeOK'
  <2>1. val[p] \in Version \cup {None} /\ "ok" \in Answers
    BY DEF Answers
  <2>2. cached' \in [Widgets -> Version \cup {None}] /\ ttl' \in [Widgets -> 0..CacheTTL]
    <3>1. CASE Put(p)
      BY <2>1, <3>1 DEF Put
    <3>2. CASE UNCHANGED redis
      BY <3>2 DEF redis
    <3>3. QED
      BY <1>9, <3>1, <3>2 DEF CachePut
  <2>3. QED
    BY <1>9, <2>1, <2>2, ReturnTypes DEF CachePut
<1>10. ASSUME NEW p \in Procs, Leave(p) PROVE TypeOK'
  BY <1>10 DEF Leave, Points, Answers, Ops
<1>11. CASE Tick
  <2>1. gone' \in [Widgets -> [Version -> 0..(Window + 1)]]
    BY <1>11 DEF Tick, Older
  <2>2. lag' \in [Procs -> 0..MaxLag]
    BY <1>11 DEF Tick, TimeMayPass
  <2>3. cached' \in [Widgets -> Version \cup {None}] /\ ttl' \in [Widgets -> 0..CacheTTL]
    BY <1>11 DEF Tick
  <2>4. QED
    BY <1>11, <2>1, <2>2, <2>3 DEF Tick
<1>12. CASE Crash
  BY <1>12 DEF Crash, Points, Answers, Ops
<1>13. CASE UNCHANGED vars
  BY <1>13 DEF vars
<1>14. QED
  BY <1>1, <1>2, <1>3, <1>4, <1>5, <1>6, <1>7, <1>8, <1>9, <1>10, <1>11, <1>12, <1>13
     DEF Next, Step

-----------------------------------------------------------------------------
\* A step that touches neither the table nor the cache nor a version on its
\* way to Redis disturbs nothing.
LEMMA QuietStep == IInv /\ Quiet => Ages'
  BY DEF IInv, Ages, Quiet, CurrentIsAgeless, RowWasCounted, HeldIsRecent,
         StaleEntriesAge, TypeOK

\* The SELECT hands on the version in force.
LEMMA SelectStep ==
    ASSUME IInv, NEW p \in Procs, Select(p)
    PROVE  Ages'
<1>1. CASE Return(p, "not_found", None)
  <2>1. Quiet
    BY <1>1 DEF Select, Return, Quiet, IInv, TypeOK
  <2>2. QED
    BY <2>1, QuietStep
<1>2. CASE Proceed(p, row[wid[p]])
  <2>1. UNCHANGED <<row, last, gone, cached, ttl, wid>>
    BY DEF Select
  <2>2. wid[p] \in Widgets /\ row[wid[p]] # None => gone[wid[p]][row[wid[p]]] = 0
    BY DEF IInv, TypeOK, Ages, CurrentIsAgeless
  <2>3. HeldIsRecent'
    <3> SUFFICES ASSUME NEW q \in Procs, pc'[q] = "cache_put", val'[q] # None
                 PROVE  gone[wid[q]][val'[q]] <= lag'[q]
      BY <2>1 DEF HeldIsRecent
    <3>1. CASE q = p
      BY <1>2, <2>2, <3>1 DEF Proceed, IInv, TypeOK
    <3>2. CASE q # p
      BY <1>2, <3>2 DEF Proceed, IInv, TypeOK, Ages, HeldIsRecent
    <3>3. QED
      BY <3>1, <3>2
  <2>4. QED
    BY <2>1, <2>3 DEF IInv, Ages, CurrentIsAgeless, RowWasCounted, StaleEntriesAge
<1>3. QED
  BY <1>1, <1>2 DEF Select

\* A commit gives the row a version that has not aged yet.
LEMMA CommitStep ==
    ASSUME IInv, NEW w \in Widgets, last[w] < MaxVersion,
           row'  = [row EXCEPT ![w] = last[w] + 1],
           last' = [last EXCEPT ![w] = last[w] + 1],
           UNCHANGED <<gone, cached, ttl>>
    PROVE  CurrentIsAgeless' /\ RowWasCounted' /\ StaleEntriesAge'
<1> USE WindowFacts DEF IInv, TypeOK, Ages
<1>1. \A x \in Widgets : last[x] \in Nat /\ row[x] \in Nat
  BY DEF Version
<1>2. CurrentIsAgeless'
  <2> SUFFICES ASSUME NEW x \in Widgets, NEW v \in Version, v = row'[x] \/ v > last'[x]
               PROVE  gone[x][v] = 0
    BY DEF CurrentIsAgeless
  <2>1. v \in Nat
    BY DEF Version
  <2>2. CASE x = w
    <3>1. v > last[w]
      BY <1>1, <2>1, <2>2
    <3>2. QED
      BY <2>2, <3>1 DEF CurrentIsAgeless
  <2>3. CASE x # w
    BY <2>3 DEF CurrentIsAgeless
  <2>4. QED
    BY <2>2, <2>3
<1>3. RowWasCounted'
  BY <1>1 DEF RowWasCounted
<1>4. StaleEntriesAge'
  BY DEF StaleEntriesAge
<1>5. QED
  BY <1>2, <1>3, <1>4

LEMMA InsertStep ==
    ASSUME IInv, NEW p \in Procs, NEW w \in Widgets, NEW a \in AckLost, Insert(p, w, a)
    PROVE  Ages'
<1>1. last[w] = 0 /\ 0 < MaxVersion
  BY BoundsAssumption DEF Insert, None
<1>2. /\ row'  = [row EXCEPT ![w] = last[w] + 1]
      /\ last' = [last EXCEPT ![w] = last[w] + 1]
      /\ UNCHANGED <<gone, cached, ttl>>
  BY <1>1 DEF Insert
<1>3. CurrentIsAgeless' /\ RowWasCounted' /\ StaleEntriesAge'
  BY <1>1, <1>2, CommitStep
<1>4. \A q \in Procs : pc'[q] = "cache_put" =>
         /\ pc[q] = "cache_put"
         /\ wid'[q] = wid[q] /\ val'[q] = val[q] /\ lag'[q] = lag[q]
  <2>1. CASE Return(p, "error", None)
    BY <2>1 DEF Insert, Return, IInv, TypeOK
  <2>2. CASE pc' = [pc EXCEPT ![p] = "reread"] /\ UNCHANGED <<val, ret, lag>>
    BY <2>2 DEF Insert, IInv, TypeOK
  <2>3. QED
    BY <2>1, <2>2 DEF Insert
<1>5. HeldIsRecent'
  BY <1>2, <1>4 DEF HeldIsRecent, IInv, Ages
<1>6. QED
  BY <1>3, <1>5 DEF Ages

LEMMA UpdateStep ==
    ASSUME IInv, NEW p \in Procs, NEW a \in AckLost, Update(p, a)
    PROVE  Ages'
<1> DEFINE w == wid[p]
<1>1. w \in Widgets /\ last[w] < MaxVersion
  BY DEF Update, IInv, TypeOK
<1>2. /\ row'  = [row EXCEPT ![w] = last[w] + 1]
      /\ last' = [last EXCEPT ![w] = last[w] + 1]
      /\ UNCHANGED <<gone, cached, ttl, wid>>
  BY DEF Update
<1>3. CurrentIsAgeless' /\ RowWasCounted' /\ StaleEntriesAge'
  BY <1>1, <1>2, CommitStep
<1>4. gone[w][last[w] + 1] = 0
  <2>1. last[w] \in Version \cup {None} /\ MaxVersion \in Nat
    BY <1>1, WindowFacts DEF IInv, TypeOK
  <2>2. last[w] + 1 \in Version /\ last[w] + 1 > last[w]
    BY <1>1, <2>1 DEF Version, None
  <2>3. QED
    BY <1>1, <2>2 DEF IInv, Ages, CurrentIsAgeless
<1>5. HeldIsRecent'
  <2> SUFFICES ASSUME NEW q \in Procs, pc'[q] = "cache_put", val'[q] # None
               PROVE  gone[wid[q]][val'[q]] <= lag'[q]
    BY <1>2 DEF HeldIsRecent
  <2>1. CASE Return(p, "error", None)
    BY <2>1 DEF Return, IInv, TypeOK, Ages, HeldIsRecent
  <2>2. CASE Proceed(p, last[w] + 1)
    <3>1. CASE q = p
      BY <1>4, <2>2, <3>1 DEF Proceed, IInv, TypeOK
    <3>2. CASE q # p
      BY <2>2, <3>2 DEF Proceed, IInv, TypeOK, Ages, HeldIsRecent
    <3>3. QED
      BY <3>1, <3>2
  <2>3. QED
    BY <2>1, <2>2 DEF Update
<1>6. QED
  BY <1>3, <1>5 DEF Ages

LEMMA DeleteStep ==
    ASSUME IInv, NEW p \in Procs, NEW a \in AckLost, Delete(p, a)
    PROVE  Ages'
<1>1. wid[p] \in Widgets
  BY DEF IInv, TypeOK
<1>2. /\ row' = [row EXCEPT ![wid[p]] = None]
      /\ UNCHANGED <<last, gone, cached, ttl, wid>>
  BY DEF Delete
<1>3. \A w \in Widgets : last[w] \in Nat
  BY WindowFacts DEF IInv, TypeOK, Version
<1>4. CurrentIsAgeless'
  BY <1>2, WindowFacts DEF IInv, TypeOK, Ages, CurrentIsAgeless, Version
<1>5. RowWasCounted' /\ StaleEntriesAge'
  BY <1>2, <1>3, WindowFacts DEF IInv, TypeOK, Ages, RowWasCounted, StaleEntriesAge
<1>6. HeldIsRecent'
  <2> SUFFICES ASSUME NEW q \in Procs, pc'[q] = "cache_put", val'[q] # None
               PROVE  gone[wid[q]][val'[q]] <= lag'[q]
    BY <1>2 DEF HeldIsRecent
  <2>1. q # p /\ pc[q] = "cache_put" /\ val'[q] = val[q] /\ lag'[q] = lag[q]
    <3>1. CASE Return(p, "not_found", None)
      BY <3>1 DEF Return, IInv, TypeOK
    <3>2. CASE Return(p, "error", None)
      BY <3>2 DEF Return, IInv, TypeOK
    <3>3. CASE Proceed(p, None)
      BY <3>3 DEF Proceed, IInv, TypeOK
    <3>4. QED
      BY <3>1, <3>2, <3>3 DEF Delete
  <2>2. QED
    BY <2>1 DEF IInv, Ages, HeldIsRecent
<1>7. QED
  BY <1>4, <1>5, <1>6 DEF Ages

\* The Redis write stores a version that is at most MaxLag ticks old, under a
\* key with its whole life before it.
LEMMA CachePutStep ==
    ASSUME IInv, NEW p \in Procs, CachePut(p)
    PROVE  Ages'
<1>1. UNCHANGED <<row, last, gone, wid>> /\ wid[p] \in Widgets
  BY DEF CachePut, IInv, TypeOK
<1>2. CurrentIsAgeless' /\ RowWasCounted'
  BY <1>1 DEF IInv, Ages, CurrentIsAgeless, RowWasCounted
<1>3. HeldIsRecent'
  BY DEF CachePut, Return, IInv, TypeOK, Ages, HeldIsRecent
<1>4. StaleEntriesAge'
  <2>1. CASE Put(p)
    <3> SUFFICES ASSUME NEW w \in Widgets, cached'[w] # None
                 PROVE  gone[w][cached'[w]] <= (CacheTTL - ttl'[w]) + MaxLag
      BY <1>1 DEF StaleEntriesAge
    <3>1. CASE w = wid[p]
      <4>1. cached'[w] = val[p] /\ val[p] # None /\ ttl'[w] = CacheTTL
        BY <2>1, <3>1 DEF Put, IInv, TypeOK
      <4>2. gone[w][val[p]] <= lag[p] /\ lag[p] \in 0..MaxLag /\ val[p] \in Version
        BY <3>1, <4>1 DEF CachePut, IInv, TypeOK, Ages, HeldIsRecent
      <4>3. gone[w][val[p]] \in 0..(Window + 1)
        BY <3>1, <4>2 DEF IInv, TypeOK
      <4>4. QED
        BY <4>1, <4>2, <4>3, WindowFacts
    <3>2. CASE w # wid[p]
      BY <2>1, <3>2 DEF Put, IInv, TypeOK, Ages, StaleEntriesAge
    <3>3. QED
      BY <3>1, <3>2
  <2>2. CASE UNCHANGED redis
    BY <1>1, <2>2 DEF redis, IInv, Ages, StaleEntriesAge
  <2>3. QED
    BY <2>1, <2>2 DEF CachePut
<1>5. QED
  BY <1>2, <1>3, <1>4 DEF Ages

\* A tick ages a superseded version and the key or request that holds it alike.
LEMMA TickStep ==
    ASSUME IInv, Tick
    PROVE  Ages'
<1> USE WindowFacts
<1>1. UNCHANGED <<row, last, pc, wid, val>>
  BY DEF Tick
<1>2. \A w \in Widgets, v \in Version :
         /\ gone[w][v] \in Nat /\ gone'[w][v] \in Nat
         /\ gone'[w][v] = IF v = row[w] \/ v > last[w] THEN 0 ELSE Older(gone[w][v])
         /\ gone'[w][v] <= gone[w][v] + 1
  BY DEF Tick, Older, IInv, TypeOK
<1>3. CurrentIsAgeless' /\ RowWasCounted'
  BY <1>1, <1>2 DEF IInv, Ages, CurrentIsAgeless, RowWasCounted
<1>4. HeldIsRecent'
  <2> SUFFICES ASSUME NEW p \in Procs, pc[p] = "cache_put", val[p] # None
               PROVE  gone'[wid[p]][val[p]] <= lag'[p]
    BY <1>1 DEF HeldIsRecent
  <2>1. wid[p] \in Widgets /\ val[p] \in Version /\ lag[p] \in Nat
    BY DEF IInv, TypeOK
  <2>2. lag'[p] = lag[p] + 1 /\ gone[wid[p]][val[p]] <= lag[p]
    BY DEF Tick, IInv, Ages, HeldIsRecent
  <2>3. /\ gone[wid[p]][val[p]] \in Nat /\ gone'[wid[p]][val[p]] \in Nat
        /\ gone'[wid[p]][val[p]] <= gone[wid[p]][val[p]] + 1
    BY <1>2, <2>1
  <2> DEFINE older == gone[wid[p]][val[p]]
             newer == gone'[wid[p]][val[p]]
  <2>4. older \in Nat /\ newer \in Nat /\ newer <= older + 1 /\ older <= lag[p]
    BY <2>2, <2>3
  <2> HIDE DEF older, newer
  <2>5. newer <= lag'[p]
    BY <2>1, <2>2, <2>4
  <2>6. QED
    BY <2>5 DEF newer
<1>5. StaleEntriesAge'
  <2> SUFFICES ASSUME NEW w \in Widgets, cached'[w] # None
               PROVE  gone'[w][cached'[w]] <= (CacheTTL - ttl'[w]) + MaxLag
    BY DEF StaleEntriesAge
  <2>1. ttl[w] > 1 /\ cached'[w] = cached[w] /\ ttl'[w] = ttl[w] - 1
    BY DEF Tick
  <2>2. cached[w] \in Version /\ ttl[w] \in Nat
    BY <2>1 DEF IInv, TypeOK
  <2>3. gone[w][cached[w]] <= (CacheTTL - ttl[w]) + MaxLag
    BY <2>1 DEF IInv, Ages, StaleEntriesAge
  <2>4. /\ gone[w][cached[w]] \in Nat /\ gone'[w][cached[w]] \in Nat
        /\ gone'[w][cached[w]] <= gone[w][cached[w]] + 1
    BY <1>2, <2>2
  <2> DEFINE older == gone[w][cached[w]]
             newer == gone'[w][cached[w]]
  <2>5. older \in Nat /\ newer \in Nat /\ newer <= older + 1
    BY <2>4
  <2>6. older <= (CacheTTL - ttl[w]) + MaxLag
    BY <2>3
  <2> HIDE DEF older, newer
  <2>7. newer <= (CacheTTL - (ttl[w] - 1)) + MaxLag
    BY <2>2, <2>5, <2>6
  <2>8. gone'[w][cached'[w]] = newer
    BY <2>1 DEF newer
  <2>9. QED
    BY <2>1, <2>7, <2>8
<1>6. QED
  BY <1>3, <1>4, <1>5 DEF Ages

-----------------------------------------------------------------------------
LEMMA InitInv == Init => IInv
<1> SUFFICES ASSUME Init PROVE IInv
  OBVIOUS
<1>1. TypeOK
  BY WindowFacts DEF Init, TypeOK, Points, Ops, Answers
<1>2. Ages
  BY WindowFacts DEF Init, Ages, CurrentIsAgeless, RowWasCounted, HeldIsRecent, StaleEntriesAge
<1>3. QED
  BY <1>1, <1>2 DEF IInv

LEMMA Invariance == IInv /\ [Next]_vars => IInv'
<1> SUFFICES ASSUME IInv, [Next]_vars PROVE Ages'
  BY TypeInvariance DEF IInv
<1> USE DEF IInv, TypeOK, Quiet
<1>1. ASSUME NEW p \in Procs, NEW o \in Ops, NEW w \in Widgets, Call(p, o, w) PROVE Quiet
  BY <1>1 DEF Call, Enter
<1>2. ASSUME NEW p \in Procs, CacheHit(p) PROVE Quiet
  BY <1>2 DEF CacheHit, Return
<1>3. ASSUME NEW p \in Procs, CacheMiss(p) PROVE Quiet
  BY <1>3 DEF CacheMiss
<1>4. ASSUME NEW p \in Procs, Fails(p) PROVE Quiet
  BY <1>4 DEF Fails, Return
<1>5. ASSUME NEW p \in Procs, Leave(p) PROVE Quiet
  BY <1>5 DEF Leave
<1>6. CASE Crash
  <2>1. Quiet
    BY <1>6 DEF Crash
  <2>2. QED
    BY <2>1, QuietStep
<1>7. CASE UNCHANGED vars
  <2>1. Quiet
    BY <1>7 DEF vars
  <2>2. QED
    BY <2>1, QuietStep
<1>8. CASE Tick
  BY <1>8, TickStep
<1>9. ASSUME NEW p \in Procs, Step(p) PROVE Ages'
  BY <1>2, <1>3, <1>4, <1>9, QuietStep, SelectStep, InsertStep, UpdateStep, DeleteStep,
     CachePutStep DEF Step
<1>10. QED
  BY <1>1, <1>5, <1>6, <1>7, <1>8, <1>9, QuietStep DEF Next

\* Types hold in every reachable state.
THEOREM TypeCorrect == Spec => []TypeOK
<1>1. Init => TypeOK
  BY InitInv DEF IInv
<1>2. QED
  BY <1>1, TypeInvariance, PTL DEF Spec

\* Bounded staleness of the cache, whatever races, fails or crashes: a key that
\* differs from the table was superseded at most (its age + MaxLag) ticks ago.
THEOREM BoundedStaleness == Spec => []StaleEntriesAge
<1>1. IInv => StaleEntriesAge
  BY DEF IInv, Ages
<1>2. QED
  BY <1>1, InitInv, Invariance, PTL DEF Spec

-----------------------------------------------------------------------------
(* The service implements the bounded-stale store.                         *)

\* A version of Redis is one the widget has had.
CachedWasCounted == \A w \in Widgets : cached[w] <= last[w]

\* What a request has read of the table, and still has to put into Redis: a
\* version its widget has had or, after a delete, the end of that widget.
HeldBy(p) ==
    IF op[p] = "delete"
      THEN val[p] = None /\ row[wid[p]] = None /\ last[wid[p]] # None
      ELSE val[p] # None /\ val[p] <= last[wid[p]]
HeldIsReal == \A p \in Procs : pc[p] = "cache_put" => HeldBy(p)

\* Only a read starts at Redis.
ReadsStartThere == \A p \in Procs :
    /\ pc[p] = "cache_get" => op[p] = "get"
    /\ pc[p] = "reread" => op[p] = "create"

Backed == CachedWasCounted /\ HeldIsReal /\ ReadsStartThere
SInv   == IInv /\ Backed

\* The table only moves forward: versions are added, and a row that is gone stays gone.
Onward ==
    \A w \in Widgets : /\ last[w] <= last'[w]
                       /\ row[w] = None /\ last[w] # None => row'[w] = None

\* A step after which the requests but one stand where they stood.
Others(p) ==
    \A q \in Procs \ {p} : /\ pc'[q] = pc[q] /\ op'[q] = op[q]
                           /\ wid'[q] = wid[q] /\ val'[q] = val[q] /\ ret'[q] = ret[q]

\* Versions are numbers.
LEMMA VersionsCount == Version \cup {None} \subseteq Nat
  BY WindowFacts DEF Version

LEMMA Numbers ==
    ASSUME TypeOK
    PROVE  /\ \A w \in Widgets : row[w] \in Nat /\ last[w] \in Nat /\ cached[w] \in Nat
           /\ \A q \in Procs : val[q] \in Nat
  BY VersionsCount DEF TypeOK

LEMMA NumbersNext ==
    ASSUME TypeOK'
    PROVE  /\ \A w \in Widgets : row'[w] \in Nat /\ last'[w] \in Nat /\ cached'[w] \in Nat
           /\ \A q \in Procs : val'[q] \in Nat
  BY VersionsCount DEF TypeOK

\* What holds of all requests need only be seen of the one that moves.
LEMMA OneMoves ==
    ASSUME SInv, TypeOK', NEW p \in Procs, Others(p), Onward, CachedWasCounted',
           pc'[p] = "cache_put" => HeldBy(p)',
           pc'[p] = "cache_get" => op'[p] = "get",
           pc'[p] = "reread" => op'[p] = "create"
    PROVE  Backed'
<1>1. HeldIsReal'
  <2> SUFFICES ASSUME NEW q \in Procs, pc'[q] = "cache_put", q # p PROVE HeldBy(q)'
    BY DEF HeldIsReal
  <2>1. /\ HeldBy(q) /\ wid[q] \in Widgets
        /\ wid'[q] = wid[q] /\ op'[q] = op[q] /\ val'[q] = val[q]
    BY DEF SInv, Backed, HeldIsReal, Others, IInv, TypeOK
  <2>2. /\ last[wid[q]] <= last'[wid[q]]
        /\ row[wid[q]] = None /\ last[wid[q]] # None => row'[wid[q]] = None
    BY <2>1 DEF Onward
  <2>3. last[wid[q]] \in Nat /\ last'[wid[q]] \in Nat /\ val[q] \in Nat
    BY <2>1, Numbers, NumbersNext DEF SInv, IInv
  <2>4. CASE op[q] = "delete"
    <3>1. val[q] = None /\ row[wid[q]] = None /\ last[wid[q]] # None
      BY <2>1, <2>4 DEF HeldBy
    <3>2. row'[wid[q]] = None /\ last'[wid[q]] # None
      BY <2>2, <2>3, <3>1, WindowFacts
    <3>3. QED
      BY <2>1, <2>4, <3>1, <3>2 DEF HeldBy
  <2>5. CASE op[q] # "delete"
    <3>1. val[q] # None /\ val[q] <= last[wid[q]]
      BY <2>1, <2>5 DEF HeldBy
    <3>2. val[q] <= last'[wid[q]]
      BY <2>2, <2>3, <3>1
    <3>3. QED
      BY <2>1, <2>5, <3>1, <3>2 DEF HeldBy
  <2>6. QED
    BY <2>4, <2>5
<1>2. ReadsStartThere'
  BY DEF SInv, Backed, ReadsStartThere, Others
<1>3. QED
  BY <1>1, <1>2 DEF Backed

\* Nobody was answered, or one request was, or has taken its answer away.
LEMMA AnswerStays ==
    ASSUME TypeOK, NEW p \in Procs, Others(p),
           pc[p] # "returned", pc'[p] # "returned"
    PROVE  answer' = answer
  BY DEF answer, Others

LEMMA AnswerGiven ==
    ASSUME TypeOK, TypeOK', NEW p \in Procs, Others(p), pc'[p] = "returned",
           NEW a, a = [op |-> op'[p], ret |-> ret'[p], w |-> wid'[p], v |-> val'[p]],
           Store!Justified(a)'
    PROVE  Store!Reply(p)
<1>1. a \in Store!Answer
  BY DEF TypeOK, Store!Answer, Ops, Answers, Store!Version, Version, Store!None, None
<1>2. answer' = [answer EXCEPT ![p] = a]
  BY DEF answer, Others
<1>3. QED
  BY <1>1, <1>2 DEF Store!Reply

\* Request p returns, and what it says is true of the store as it is then.
LEMMA Returning ==
    ASSUME SInv, TypeOK', NEW p \in Procs, NEW r, NEW v, Return(p, r, v), op' = op, wid' = wid,
           Onward, CachedWasCounted',
           \/ r = "error"
           \/ r = "not_found" /\ row'[wid[p]] = None
           \/ r = "ok" /\ op[p] = "delete" /\ row'[wid[p]] = None
           \/ r = "ok" /\ op[p] # "delete" /\ Store!Servable(wid[p], v)'
    PROVE  Backed' /\ Store!Reply(p)
<1>1. /\ Others(p) /\ pc'[p] = "returned"
      /\ op'[p] = op[p] /\ ret'[p] = r /\ wid'[p] = wid[p] /\ val'[p] = v
  BY DEF Others, Return, SInv, IInv, TypeOK
<1>2. Backed'
  BY <1>1, OneMoves
<1>3. PICK a : a = [op |-> op[p], ret |-> r, w |-> wid[p], v |-> v]
  OBVIOUS
<1>4. Store!Justified(a)'
  BY <1>3 DEF Store!Justified, Store!None, None
<1>5. Store!Reply(p)
  BY <1>1, <1>3, <1>4, AnswerGiven DEF SInv, IInv
<1>6. QED
  BY <1>2, <1>5

\* A step of the service is one of the store, or none.
Kept == Backed' /\ [Store!Next]_(Store!vars)

LEMMA StandStill == SInv /\ UNCHANGED <<row, last, cached>> => Onward /\ CachedWasCounted'
  BY Numbers DEF SInv, IInv, Onward, Backed, CachedWasCounted

LEMMA CallKeeps ==
    ASSUME SInv, TypeOK', NEW p \in Procs, NEW o \in Ops, NEW w \in Widgets, Call(p, o, w)
    PROVE  Kept
<1> USE DEF Call, Enter
<1>1. Others(p) /\ pc'[p] # "cache_put" /\ pc'[p] # "reread" /\ pc'[p] # "returned"
      /\ (pc'[p] = "cache_get" => op'[p] = "get")
  BY DEF Others, SInv, IInv, TypeOK
<1>2. Onward /\ CachedWasCounted' /\ UNCHANGED <<row, last, gone>>
  BY StandStill
<1>3. Backed'
  BY <1>1, <1>2, OneMoves
<1>4. answer' = answer
  BY <1>1, AnswerStays DEF SInv, IInv
<1>5. QED
  BY <1>2, <1>3, <1>4 DEF Kept, Store!vars

\* What Redis has is a version superseded less than Window ticks ago.
LEMMA CacheHitKeeps ==
    ASSUME SInv, TypeOK', NEW p \in Procs, CacheHit(p)
    PROVE  Kept
<1> DEFINE w == wid[p]
           v == cached[w]
<1>1. /\ UNCHANGED <<row, last, gone, cached, op, wid>> /\ v # None /\ Return(p, "ok", v)
      /\ pc[p] = "cache_get" /\ w \in Widgets
  BY DEF CacheHit, SInv, IInv, TypeOK
<1>2. Onward /\ CachedWasCounted'
  BY <1>1, StandStill
<1>3. op[p] = "get"
  BY <1>1 DEF SInv, Backed, ReadsStartThere
<1>4. v \in 1..last[w]
  BY <1>1, Numbers, WindowFacts DEF SInv, IInv, Backed, CachedWasCounted
<1>5. gone[w][v] <= Window
  <2>1. gone[w][v] <= (CacheTTL - ttl[w]) + MaxLag
    BY <1>1 DEF SInv, IInv, Ages, StaleEntriesAge
  <2>2. ttl[w] \in 0..CacheTTL /\ v \in Version
    BY <1>1 DEF SInv, IInv, TypeOK
  <2>3. gone[w][v] \in 0..(Window + 1)
    BY <1>1, <2>2 DEF SInv, IInv, TypeOK
  <2>4. QED
    BY <2>1, <2>2, <2>3, WindowFacts DEF Window
<1>6. Store!Servable(w, v)'
  BY <1>1, <1>4, <1>5 DEF Store!Servable
<1>7. Backed' /\ Store!Reply(p)
  BY <1>1, <1>2, <1>3, <1>6, Returning
<1>8. QED
  BY <1>1, <1>7 DEF Kept, Store!Next

LEMMA CacheMissKeeps ==
    ASSUME SInv, TypeOK', NEW p \in Procs, CacheMiss(p)
    PROVE  Kept
<1> USE DEF CacheMiss
<1>1. Others(p) /\ pc[p] # "returned" /\ pc'[p] = "db"
  BY DEF Others, SInv, IInv, TypeOK
<1>2. Onward /\ CachedWasCounted' /\ UNCHANGED <<row, last, gone>>
  BY StandStill
<1>3. Backed'
  BY <1>1, <1>2, OneMoves
<1>4. answer' = answer
  BY <1>1, AnswerStays DEF SInv, IInv
<1>5. QED
  BY <1>2, <1>3, <1>4 DEF Kept, Store!vars

LEMMA FailsKeeps ==
    ASSUME SInv, TypeOK', NEW p \in Procs, Fails(p)
    PROVE  Kept
<1>1. UNCHANGED <<row, last, gone, cached, op, wid>> /\ Return(p, "error", None)
  BY DEF Fails
<1>2. Backed' /\ Store!Reply(p)
  BY <1>1, StandStill, Returning
<1>3. QED
  BY <1>1, <1>2 DEF Kept, Store!Next

\* The statement was answered: what the request now holds is real.
LEMMA Proceeding ==
    ASSUME SInv, TypeOK', NEW p \in Procs, NEW v, Proceed(p, v), UNCHANGED <<op, wid>>,
           pc[p] # "returned", Onward, CachedWasCounted',
           IF op[p] = "delete" THEN v = None /\ row'[wid[p]] = None /\ last'[wid[p]] # None
                               ELSE v # None /\ v <= last'[wid[p]]
    PROVE  Backed' /\ answer' = answer
<1>1. /\ Others(p) /\ pc'[p] = "cache_put" /\ val'[p] = v
      /\ op'[p] = op[p] /\ wid'[p] = wid[p]
  BY DEF Others, Proceed, SInv, IInv, TypeOK
<1>2. HeldBy(p)'
  BY <1>1 DEF HeldBy
<1>3. Backed'
  BY <1>1, <1>2, OneMoves
<1>4. answer' = answer
  BY <1>1, AnswerStays DEF SInv, IInv
<1>5. QED
  BY <1>3, <1>4

LEMMA SelectKeeps ==
    ASSUME SInv, TypeOK', NEW p \in Procs, Select(p)
    PROVE  Kept
<1>1. /\ UNCHANGED <<row, last, gone, cached, op, wid>> /\ wid[p] \in Widgets
      /\ pc[p] # "returned" /\ op[p] # "delete"
  BY DEF Select, SInv, IInv, TypeOK, Backed, ReadsStartThere
<1>2. Onward /\ CachedWasCounted'
  BY <1>1, StandStill
<1>3. CASE row[wid[p]] = None
  <2>1. Return(p, "not_found", None)
    BY <1>3 DEF Select
  <2>2. Backed' /\ Store!Reply(p)
    BY <1>1, <1>2, <1>3, <2>1, Returning
  <2>3. QED
    BY <1>1, <2>2 DEF Kept, Store!Next
<1>4. CASE row[wid[p]] # None
  <2>1. Proceed(p, row[wid[p]])
    BY <1>4 DEF Select
  <2>2. row[wid[p]] <= last'[wid[p]]
    BY <1>1 DEF SInv, IInv, Ages, RowWasCounted
  <2>3. Backed' /\ answer' = answer
    BY <1>1, <1>2, <1>4, <2>1, <2>2, Proceeding
  <2>4. QED
    BY <1>1, <2>3 DEF Kept, Store!vars
<1>5. QED
  BY <1>3, <1>4

LEMMA NewVersion ==
    ASSUME SInv, NEW w \in Widgets, last[w] < MaxVersion,
           row[w] # None \/ last[w] = None,
           row'  = [row EXCEPT ![w] = last[w] + 1],
           last' = [last EXCEPT ![w] = last[w] + 1],
           UNCHANGED <<gone, cached>>
    PROVE  Onward /\ CachedWasCounted' /\ Store!Commit(w)
<1> USE Numbers DEF SInv, IInv, TypeOK
<1>1. Onward
  BY DEF Onward
<1>2. CachedWasCounted'
  <2> SUFFICES ASSUME NEW x \in Widgets PROVE cached[x] <= last'[x]
    BY DEF CachedWasCounted
  <2>1. cached[x] <= last[x] /\ last[x] <= last'[x]
    BY <1>1 DEF Backed, CachedWasCounted, Onward
  <2>2. last'[x] \in Nat
    OBVIOUS
  <2>3. QED
    BY <2>1, <2>2
<1>3. Store!Commit(w)
  BY DEF Store!Commit, Store!None, None
<1>4. QED
  BY <1>1, <1>2, <1>3

LEMMA InsertKeeps ==
    ASSUME SInv, TypeOK', NEW p \in Procs, NEW w \in Widgets, NEW a \in AckLost, Insert(p, w, a)
    PROVE  Kept
<1>1. last[w] = 0 /\ 0 < MaxVersion
  BY BoundsAssumption DEF Insert, None
<1>2. /\ row'  = [row EXCEPT ![w] = last[w] + 1]
      /\ last' = [last EXCEPT ![w] = last[w] + 1]
      /\ UNCHANGED <<gone, cached>>
  BY <1>1 DEF Insert
<1>3. Onward /\ CachedWasCounted' /\ Store!Commit(w)
  BY <1>1, <1>2, NewVersion DEF None
<1>4. pc[p] # "returned" /\ op[p] = "create" /\ op' = op /\ wid' = [wid EXCEPT ![p] = w]
  BY DEF Insert
<1>5. CASE Return(p, "error", None)
  <2>1. Others(p) /\ pc'[p] = "returned" /\ ret'[p] = "error"
    BY <1>4, <1>5 DEF Others, Return, SInv, IInv, TypeOK
  <2>2. Backed'
    BY <1>3, <2>1, OneMoves
  <2>3. PICK x : x = [op |-> op'[p], ret |-> ret'[p], w |-> wid'[p], v |-> val'[p]]
    OBVIOUS
  <2>4. Store!Justified(x)'
    BY <2>1, <2>3 DEF Store!Justified
  <2>5. Store!Reply(p)
    BY <2>1, <2>3, <2>4, AnswerGiven DEF SInv, IInv
  <2>6. QED
    BY <1>3, <2>2, <2>5 DEF Kept, Store!Next
<1>6. CASE pc' = [pc EXCEPT ![p] = "reread"] /\ UNCHANGED <<val, ret, lag>>
  <2>1. Others(p) /\ pc'[p] = "reread" /\ op'[p] = "create"
    BY <1>4, <1>6 DEF Others, SInv, IInv, TypeOK
  <2>2. Backed'
    BY <1>3, <2>1, OneMoves
  <2>3. answer' = answer
    BY <1>4, <2>1, AnswerStays DEF SInv, IInv
  <2>4. QED
    BY <1>3, <2>2, <2>3 DEF Kept, Store!Next
<1>7. QED
  BY <1>5, <1>6 DEF Insert

LEMMA UpdateKeeps ==
    ASSUME SInv, TypeOK', NEW p \in Procs, NEW a \in AckLost, Update(p, a)
    PROVE  Kept
<1> DEFINE w == wid[p]
<1>1. w \in Widgets /\ last[w] \in Nat /\ last[w] < MaxVersion /\ row[w] # None
  BY Numbers DEF Update, SInv, IInv, TypeOK
<1>2. /\ row'  = [row EXCEPT ![w] = last[w] + 1]
      /\ last' = [last EXCEPT ![w] = last[w] + 1]
      /\ UNCHANGED <<gone, cached, op, wid>>
  BY DEF Update
<1>3. Onward /\ CachedWasCounted' /\ Store!Commit(w)
  BY <1>1, <1>2, NewVersion
<1>4. pc[p] # "returned" /\ op[p] = "update"
  BY DEF Update
<1>5. CASE Return(p, "error", None)
  <2>1. Backed' /\ Store!Reply(p)
    BY <1>2, <1>3, <1>5, Returning
  <2>2. QED
    BY <1>1, <1>3, <2>1 DEF Kept, Store!Next
<1>6. CASE Proceed(p, last[w] + 1)
  <2>1. last'[w] = last[w] + 1
    BY <1>1, <1>2 DEF SInv, IInv, TypeOK
  <2>2. last[w] + 1 # None /\ last[w] + 1 <= last'[w]
    BY <1>1, <2>1, WindowFacts
  <2>3. Backed' /\ answer' = answer
    BY <1>2, <1>3, <1>4, <1>6, <2>2, Proceeding
  <2>4. QED
    BY <1>1, <1>3, <2>3 DEF Kept, Store!Next
<1>7. QED
  BY <1>5, <1>6 DEF Update

LEMMA DeleteKeeps ==
    ASSUME SInv, TypeOK', NEW p \in Procs, NEW a \in AckLost, Delete(p, a)
    PROVE  Kept
<1> DEFINE w == wid[p]
<1>1. w \in Widgets
  BY DEF SInv, IInv, TypeOK
<1>2. /\ row' = [row EXCEPT ![w] = None] /\ row'[w] = None
      /\ UNCHANGED <<last, gone, cached, op, wid>>
  BY <1>1 DEF Delete, SInv, IInv, TypeOK
<1>3. Onward /\ CachedWasCounted'
  BY <1>2, Numbers DEF SInv, IInv, TypeOK, Onward, Backed, CachedWasCounted
<1>4. pc[p] # "returned" /\ op[p] = "delete"
  BY DEF Delete
<1>5. CASE row[w] = None
  <2>1. Return(p, "not_found", None)
    BY <1>5 DEF Delete
  <2>2. Backed' /\ Store!Reply(p)
    BY <1>2, <1>3, <2>1, Returning
  <2>3. row' = row
    BY <1>1, <1>2, <1>5 DEF SInv, IInv, TypeOK
  <2>4. QED
    BY <1>2, <2>2, <2>3 DEF Kept, Store!Next
<1>6. CASE row[w] # None
  <2>1. Store!Commit(w)
    BY <1>2, <1>6 DEF Store!Commit, Store!None, None
  <2>2. CASE Return(p, "error", None)
    <3>1. Backed' /\ Store!Reply(p)
      BY <1>2, <1>3, <2>2, Returning
    <3>2. QED
      BY <1>1, <2>1, <3>1 DEF Kept, Store!Next
  <2>3. CASE Proceed(p, None)
    <3>1. last[w] # None
      BY <1>1, <1>6, Numbers, WindowFacts DEF SInv, IInv, Ages, RowWasCounted
    <3>2. Backed' /\ answer' = answer
      BY <1>2, <1>3, <1>4, <2>3, <3>1, Proceeding
    <3>3. QED
      BY <1>1, <2>1, <3>2 DEF Kept, Store!Next
  <2>4. QED
    BY <1>6, <2>2, <2>3 DEF Delete
<1>7. QED
  BY <1>5, <1>6

\* The answer that follows the Redis write is what the statement said at most
\* MaxLag ticks before.
LEMMA CachePutKeeps ==
    ASSUME SInv, TypeOK', NEW p \in Procs, CachePut(p)
    PROVE  Kept
<1> DEFINE w == wid[p]
           v == val[p]
<1>1. /\ UNCHANGED <<row, last, gone, op, wid>> /\ Return(p, "ok", v)
      /\ pc[p] = "cache_put" /\ w \in Widgets /\ val'[p] = v
  BY DEF CachePut, Return, SInv, IInv, TypeOK
<1>2. HeldBy(p) /\ v \in Nat /\ last[w] \in Nat
  BY <1>1, Numbers DEF SInv, IInv, Backed, HeldIsReal
<1>3. Onward
  BY <1>1, Numbers DEF SInv, IInv, Onward
<1>4. v <= last[w]
  BY <1>2, WindowFacts DEF HeldBy
<1>5. CachedWasCounted'
  <2> SUFFICES ASSUME NEW x \in Widgets PROVE cached'[x] <= last[x]
    BY <1>1 DEF CachedWasCounted
  <2>1. cached[x] <= last[x]
    BY DEF SInv, Backed, CachedWasCounted
  <2>2. CASE Put(p)
    <3>1. CASE x = w
      <4>1. cached'[x] = v
        BY <2>2, <3>1 DEF Put, SInv, IInv, TypeOK
      <4>2. QED
        BY <1>4, <3>1, <4>1
    <3>2. CASE x # w
      <4>1. cached'[x] = cached[x]
        BY <2>2, <3>2 DEF Put, SInv, IInv, TypeOK
      <4>2. QED
        BY <2>1, <4>1
    <3>3. QED
      BY <3>1, <3>2
  <2>3. CASE UNCHANGED redis
    <3>1. cached' = cached
      BY <2>3 DEF redis
    <3>2. QED
      BY <2>1, <3>1
  <2>4. QED
    BY <2>2, <2>3 DEF CachePut
<1>6. CASE op[p] = "delete"
  <2>1. row'[w] = None
    BY <1>1, <1>2, <1>6 DEF HeldBy
  <2>2. Backed' /\ Store!Reply(p)
    BY <1>1, <1>3, <1>5, <1>6, <2>1, Returning
  <2>3. QED
    BY <1>1, <2>2 DEF Kept, Store!Next
<1>7. CASE op[p] # "delete"
  <2>1. v # None /\ v \in 1..last[w]
    BY <1>2, <1>4, <1>7, WindowFacts DEF HeldBy
  <2>2. gone[w][v] <= Window
    <3>1. gone[w][v] <= lag[p]
      BY <1>1, <2>1 DEF SInv, IInv, Ages, HeldIsRecent
    <3>2. lag[p] \in 0..MaxLag /\ v \in Version
      BY <2>1 DEF SInv, IInv, TypeOK
    <3>3. gone[w][v] \in 0..(Window + 1)
      BY <1>1, <3>2 DEF SInv, IInv, TypeOK
    <3> DEFINE age == gone[w][v]
    <3> HIDE DEF w, v, age
    <3>4. age <= Window
      BY <3>1, <3>2, <3>3, WindowFacts DEF Window, age
    <3>5. QED
      BY <3>4 DEF age
  <2>3. Store!Servable(w, v)'
    BY <1>1, <2>1, <2>2 DEF Store!Servable
  <2>4. Backed' /\ Store!Reply(p)
    BY <1>1, <1>3, <1>5, <1>7, <2>3, Returning
  <2>5. QED
    BY <1>1, <2>4 DEF Kept, Store!Next
<1>8. QED
  BY <1>6, <1>7

LEMMA LeaveKeeps ==
    ASSUME SInv, TypeOK', NEW p \in Procs, Leave(p)
    PROVE  Kept
<1>1. Others(p) /\ pc'[p] = "idle" /\ UNCHANGED <<row, last, gone, cached>>
  BY DEF Leave, Others, SInv, IInv, TypeOK
<1>2. Backed'
  BY <1>1, StandStill, OneMoves
<1>3. Store!Forget({p})
  BY <1>1 DEF Store!Forget, Store!NoAnswer, answer, Others
<1>4. QED
  BY <1>1, <1>2, <1>3 DEF Kept, Store!Next

LEMMA TickKeeps ==
    ASSUME SInv, TypeOK', Tick
    PROVE  Kept
<1>1. UNCHANGED <<row, last, pc, op, wid, val, ret>>
  BY DEF Tick
<1>2. CachedWasCounted'
  <2> SUFFICES ASSUME NEW w \in Widgets PROVE cached'[w] <= last[w]
    BY <1>1 DEF CachedWasCounted
  <2>1. cached[w] <= last[w] /\ last[w] \in Nat
    BY Numbers DEF SInv, IInv, Backed, CachedWasCounted
  <2>2. cached'[w] \in {cached[w], None}
    BY DEF Tick
  <2>3. QED
    BY <2>1, <2>2, WindowFacts
<1>3. HeldIsReal' /\ ReadsStartThere'
  BY <1>1 DEF SInv, Backed, HeldIsReal, HeldBy, ReadsStartThere
<1>4. answer' = answer
  BY <1>1 DEF answer
<1>5. Store!Tick
  BY <1>1, <1>4 DEF Tick, Older, Store!Tick, Store!Version, Version
<1>6. QED
  BY <1>2, <1>3, <1>5 DEF Kept, Backed, Store!Next

LEMMA CrashKeeps ==
    ASSUME SInv, TypeOK', Crash
    PROVE  Kept
<1>1. UNCHANGED <<row, last, gone, cached>> /\ \A p \in Procs : pc'[p] = "idle"
  BY DEF Crash
<1>2. Backed'
  BY <1>1 DEF SInv, Backed, CachedWasCounted, HeldIsReal, ReadsStartThere
<1>3. Store!Forget(Procs)
  BY <1>1 DEF Store!Forget, Store!NoAnswer, answer
<1>4. QED
  BY <1>1, <1>2, <1>3 DEF Kept, Store!Next

LEMMA StoreStep == SInv /\ TypeOK' /\ [Next]_vars => Kept
<1> SUFFICES ASSUME SInv, TypeOK', [Next]_vars PROVE Kept
  OBVIOUS
<1>1. CASE UNCHANGED vars
  <2>1. UNCHANGED <<row, last, gone, cached, pc, op, wid, val, ret>>
    BY <1>1 DEF vars
  <2>2. answer' = answer
    BY <2>1 DEF answer
  <2>3. Backed'
    BY <2>1 DEF SInv, Backed, CachedWasCounted, HeldIsReal, HeldBy, ReadsStartThere
  <2>4. QED
    BY <2>1, <2>2, <2>3 DEF Kept, Store!vars
<1>2. ASSUME NEW p \in Procs, Step(p) PROVE Kept
  BY <1>2, CacheHitKeeps, CacheMissKeeps, SelectKeeps, FailsKeeps, InsertKeeps, UpdateKeeps,
     DeleteKeeps, CachePutKeeps DEF Step
<1>3. QED
  BY <1>1, <1>2, CallKeeps, LeaveKeeps, TickKeeps, CrashKeeps DEF Next

\* The service is a bounded-stale store: its answers are exact where they say
\* "not found" or "deleted", and otherwise a version in force at most
\* CACHE_TTL_SECONDS plus the latency of a request ago, whatever Redis loses,
\* whatever races and wherever the process dies (get, create, update, delete).
THEOREM ServiceIsBoundedStale == Spec => RefinesStore
<1>1. Init => SInv /\ Store!Init
  <2> SUFFICES ASSUME Init PROVE SInv /\ Store!Init
    OBVIOUS
  <2>1. IInv
    BY InitInv
  <2>2. Backed
    BY WindowFacts DEF Init, Backed, CachedWasCounted, HeldIsReal, ReadsStartThere
  <2>3. answer = [p \in Procs |-> Store!NoAnswer]
    BY DEF Init, answer, Store!NoAnswer
  <2>4. QED
    BY <2>1, <2>2, <2>3 DEF SInv, Init, Store!Init, Store!None, None, Store!Version, Version
<1>2. SInv /\ [Next]_vars => SInv' /\ [Store!Next]_(Store!vars)
  <2>1. IInv => TypeOK
    BY DEF IInv
  <2>2. IInv' => TypeOK'
    BY DEF IInv
  <2>3. QED
    BY <2>1, <2>2, Invariance, StoreStep DEF SInv, Kept
<1>3. QED
  BY <1>1, <1>2, PTL DEF Spec, RefinesStore, Store!Spec

=============================================================================
