--------------------------- MODULE WidgetApiProofs ---------------------------
(***************************************************************************)
(* Proofs about WidgetApi, for any number of widgets, requests, versions    *)
(* and origins, any TTL and any bound on the latency.                       *)
(*                                                                         *)
(* The argument: what the cache service proves of itself carries over,     *)
(* because every step of a route is a step of the service or disturbs       *)
(* nothing there.  A request therefore gets a configuration that was in     *)
(* force a Window ago (Fresh), and as it acts on it before anything else    *)
(* runs (Settled), it still was when it acts.  A request that audits holds  *)
(* a change that took effect and cannot be undone (Took): versions are not  *)
(* taken back and a deleted widget does not return.                         *)
(***************************************************************************)
EXTENDS WidgetApi, TLAPS

P == INSTANCE WidgetConfigProofs

\* The change of w to v, or its deletion, has taken effect.
Took(w, v) == IF v = None THEN last[w] # None /\ row[w] = None ELSE v \in 1..last[w]

\* It has when the step is done.
TookThen(w, v) == IF v = None THEN last'[w] # None /\ row'[w] = None ELSE v \in 1..last'[w]

TookStays == \A w \in Widgets, v \in Version \cup {None} : Took(w, v) => TookThen(w, v)

CachedIsReal == \A w \in Widgets : cached[w] # None => cached[w] \in 1..last[w]

Answered(p) == pc[p] = "returned" /\ ret[p] = "ok"

\* What a request holds after its statement took effect; nothing, if it deleted.
Real(p) ==
    pc[p] = "cache_put" \/ Answered(p) =>
        Took(wid[p], val[p]) /\ (val[p] = None => op[p] = "delete")

\* A request that has just been answered runs on before anything changes.
Fresh(p) ==
    Answered(p) /\ stage[p] # "audit" /\ val[p] # None => Recent(wid[p], val[p])

\* A request is in the service call of its route.
Routed(p) ==
    /\ stage[p] = "cors" => op[p] = "get" /\ kind[p] \in Public
    /\ stage[p] = "handler" => op[p] = MethodOf(kind[p])
    /\ stage[p] = "audit" => Answered(p)

ServiceInv == P!IInv /\ CachedIsReal /\ \A p \in Procs : Real(p)
RouteInv   == \A p \in Procs : Routed(p) /\ Fresh(p)
ApiInv     == TypeOK /\ ServiceInv /\ RouteInv /\ AuditIsTrue

LEMMA Bounds ==
    /\ P!BoundsAssumption
    /\ CacheTTL \in Nat /\ MaxLag \in Nat /\ MaxVersion \in Nat \ {0}
    /\ None = 0 /\ P!None = 0 /\ Version = 1..MaxVersion /\ P!Version = Version
    /\ S!Window = CacheTTL + MaxLag
  BY BoundsAssumption
     DEF P!BoundsAssumption, None, P!None, S!None, Version, S!Version, P!Version, S!Window

-----------------------------------------------------------------------------
(* The service of WidgetApi is the one WidgetConfigProofs is about.         *)

LEMMA SameTypes == S!TypeOK <=> P!TypeOK
  BY DEF S!TypeOK, P!TypeOK, S!Version, P!Version, S!None, P!None, S!Window, P!Window,
         S!Points, P!Points, S!Ops, P!Ops, S!Answers, P!Answers

LEMMA SameInit == S!Init <=> P!Init
  BY DEF S!Init, P!Init, S!None, P!None, S!Version, P!Version

LEMMA SameCall ==
    \A p, o, w : (S!Call(p, o, w) <=> P!Call(p, o, w)) /\ (S!Leave(p) <=> P!Leave(p))
  BY DEF S!Call, P!Call, S!Enter, P!Enter, S!Leave, P!Leave, S!None, P!None

LEMMA SameTime == (S!Tick <=> P!Tick) /\ (S!Crash <=> P!Crash)
  BY DEF S!Tick, P!Tick, S!TimeMayPass, P!TimeMayPass, S!Older, P!Older, S!Window,
         P!Window, S!Version, P!Version, S!None, P!None, S!Crash, P!Crash

LEMMA SameStep == \A p : S!Step(p) <=> P!Step(p)
<1> TAKE p
<1> USE DEF S!None, P!None, S!Return, P!Return, S!Proceed, P!Proceed
<1>1. (S!CacheHit(p) <=> P!CacheHit(p)) /\ (S!CacheMiss(p) <=> P!CacheMiss(p))
  BY DEF S!CacheHit, P!CacheHit, S!CacheMiss, P!CacheMiss
<1>2. (S!Select(p) <=> P!Select(p)) /\ (S!Fails(p) <=> P!Fails(p))
  BY DEF S!Select, P!Select, S!Fails, P!Fails
<1>3. S!AckLost = P!AckLost
  BY DEF S!AckLost, P!AckLost
<1>4. \A w, a : S!Insert(p, w, a) <=> P!Insert(p, w, a)
  BY DEF S!Insert, P!Insert
<1>5. \A a : S!Update(p, a) <=> P!Update(p, a)
  BY DEF S!Update, P!Update
<1>6. \A a : S!Delete(p, a) <=> P!Delete(p, a)
  BY DEF S!Delete, P!Delete
<1>7. S!CachePut(p) <=> P!CachePut(p)
  BY DEF S!CachePut, P!CachePut, S!Put, P!Put, S!redis, P!redis
<1>8. QED
  BY <1>1, <1>2, <1>3, <1>4, <1>5, <1>6, <1>7 DEF S!Step, P!Step

-----------------------------------------------------------------------------
(* What one step of the service does to changes and to requests.            *)

\* The other requests stay where they are in the service.
Alone(p) ==
    \A q \in Procs \ {p} : /\ pc'[q] = pc[q] /\ op'[q] = op[q] /\ wid'[q] = wid[q]
                             /\ val'[q] = val[q] /\ ret'[q] = ret[q]

LEMMA TableStays ==
    ASSUME UNCHANGED <<row, last>>
    PROVE  TookStays
  BY DEF TookStays, Took, TookThen

LEMMA CacheStays ==
    ASSUME UNCHANGED <<last, cached>>, CachedIsReal
    PROVE  CachedIsReal'
  BY DEF CachedIsReal

\* An answer that a request brings home.
Brings(p) ==
    /\ Real(p)'
    /\ Answered(p)' /\ val'[p] # None => Recent(wid[p], val[p])' /\ wid'[p] = wid[p]

Effect(p) ==
    /\ pc[p] # "returned" /\ op' = op
    /\ Alone(p) /\ TookStays /\ CachedIsReal' /\ Brings(p)

LEMMA Types ==
    ASSUME P!TypeOK, NEW p \in Procs
    PROVE  /\ pc[p] \in P!Points /\ op[p] \in P!Ops /\ wid[p] \in Widgets
           /\ val[p] \in Version \cup {None} /\ ret[p] \in P!Answers
           /\ lag[p] \in 0..MaxLag
           /\ row[wid[p]] \in Version \cup {None} /\ last[wid[p]] \in Version \cup {None}
           /\ cached[wid[p]] \in Version \cup {None} /\ ttl[wid[p]] \in 0..CacheTTL
  BY Bounds DEF P!TypeOK

\* A statement or a lookup that was not answered with a configuration.
LEMMA NothingBrought ==
    ASSUME P!TypeOK, NEW p \in Procs, wid'[p] \in Widgets,
           \/ pc'[p] \in {"db", "reread"}
           \/ pc'[p] = "returned" /\ ret'[p] # "ok"
    PROVE  Brings(p)
  BY DEF Brings, Real, Answered

\* The cache answers with a version that is no older than a Window.
LEMMA HitEffect ==
    ASSUME ServiceInv, NEW p \in Procs, P!CacheHit(p)
    PROVE  Effect(p)
<1> DEFINE v == cached[wid[p]]
<1> USE DEF ServiceInv, P!IInv
<1>1. /\ UNCHANGED <<row, last, gone, cached, ttl, op, wid>>
      /\ pc[p] = "cache_get" /\ v # None
      /\ pc'[p] = "returned" /\ ret'[p] = "ok" /\ val'[p] = v
  BY Bounds DEF P!CacheHit, P!Return, P!TypeOK
<1>2. wid[p] \in Widgets /\ ttl[wid[p]] \in 0..CacheTTL /\ v \in Version
  BY <1>1, Types
<1>3. v \in 1..last[wid[p]]
  BY <1>1, <1>2 DEF CachedIsReal
<1>4. gone[wid[p]][v] <= (CacheTTL - ttl[wid[p]]) + MaxLag
  BY <1>1, <1>2, Bounds DEF P!Ages, P!StaleEntriesAge
<1>5. gone[wid[p]][v] \in 0..(S!Window + 1)
  BY <1>2, Bounds DEF P!TypeOK, P!Window, S!Window
<1> HIDE DEF v
<1>6. Recent(wid[p], v)
  <2>1. CacheTTL - ttl[wid[p]] <= CacheTTL
    BY <1>2, Bounds
  <2>2. gone[wid[p]][v] <= CacheTTL + MaxLag
    BY <1>2, <1>4, <1>5, <2>1, Bounds DEF S!Window
  <2>3. QED
    BY <1>3, <2>2 DEF Recent, S!Window
<1>7. Took(wid[p], v)
  BY <1>1, <1>3 DEF Took
<1>8. Brings(p)
  BY <1>1, <1>6, <1>7 DEF Brings, Real, Answered, Recent, Took
<1>9. Alone(p)
  BY DEF P!CacheHit, P!Return, P!TypeOK, Alone
<1>10. QED
  BY <1>1, <1>8, <1>9, TableStays, CacheStays DEF Effect

LEMMA MissEffect ==
    ASSUME ServiceInv, NEW p \in Procs, P!CacheMiss(p) \/ P!Fails(p)
    PROVE  Effect(p)
<1> USE DEF ServiceInv, P!IInv
<1>1. /\ UNCHANGED <<row, last, gone, cached, ttl, op, wid>> /\ wid[p] \in Widgets
      /\ pc[p] # "returned" /\ Alone(p)
      /\ pc'[p] = "db" \/ (pc'[p] = "returned" /\ ret'[p] # "ok")
  BY DEF P!CacheMiss, P!Fails, P!Return, P!TypeOK, Alone
<1>2. Brings(p)
  BY <1>1, NothingBrought
<1>3. QED
  BY <1>1, <1>2, TableStays, CacheStays DEF Effect

\* Select, Insert, Update and Delete leave a real holding, or nothing.
Holds(p, v) ==
    \/ P!Proceed(p, v) /\ TookThen(wid[p], v)
    \/ P!Return(p, "not_found", P!None) \/ P!Return(p, "error", P!None)

LEMMA StatementBrings ==
    ASSUME P!TypeOK, NEW p \in Procs, NEW v \in Version \cup {None},
           op' = op, wid' = wid, Holds(p, v), v = None => op[p] = "delete"
    PROVE  Brings(p) /\ Alone(p)
<1>1. CASE P!Proceed(p, v) /\ TookThen(wid[p], v)
  <2>1. pc'[p] = "cache_put" /\ val'[p] = v /\ wid'[p] = wid[p]
    BY <1>1 DEF P!Proceed, P!TypeOK
  <2>2. Real(p)' /\ ~Answered(p)'
    BY <1>1, <2>1 DEF Real, Took, TookThen, Answered
  <2>3. Alone(p)
    BY <1>1 DEF P!Proceed, P!TypeOK, Alone
  <2>4. QED
    BY <2>2, <2>3 DEF Brings
<1>2. CASE P!Return(p, "not_found", P!None) \/ P!Return(p, "error", P!None)
  <2>1. pc'[p] = "returned" /\ ret'[p] # "ok" /\ wid'[p] \in Widgets /\ Alone(p)
    BY <1>2 DEF P!Return, P!TypeOK, Alone
  <2>2. QED
    BY <2>1, NothingBrought
<1>3. QED
  BY <1>1, <1>2 DEF Holds

LEMMA SelectEffect ==
    ASSUME ServiceInv, NEW p \in Procs, P!Select(p)
    PROVE  Effect(p)
<1> USE DEF ServiceInv, P!IInv
<1>1. /\ UNCHANGED <<row, last, gone, cached, ttl, op, wid>>
      /\ wid[p] \in Widgets /\ row[wid[p]] \in Version \cup {None}
      /\ pc[p] # "returned" /\ last[wid[p]] \in Version \cup {None}
  BY Types DEF P!Select
<1>2. row[wid[p]] # None => Took(wid[p], row[wid[p]])
  BY <1>1, Bounds DEF Took, P!Ages, P!RowWasCounted
<1>3. CASE row[wid[p]] = None
  <2>1. Holds(p, 1)
    BY <1>3, Bounds DEF P!Select, Holds
  <2>2. 1 \in Version /\ 1 # None
    BY Bounds
  <2>3. Brings(p) /\ Alone(p)
    BY <1>1, <2>1, <2>2, StatementBrings
  <2>4. QED
    BY <1>1, <2>3, TableStays, CacheStays DEF Effect
<1>4. CASE row[wid[p]] # None
  <2>1. Holds(p, row[wid[p]])
    BY <1>1, <1>2, <1>4, Bounds DEF P!Select, Holds, Took, TookThen
  <2>2. Brings(p) /\ Alone(p)
    BY <1>1, <1>4, <2>1, StatementBrings
  <2>3. QED
    BY <1>1, <2>2, TableStays, CacheStays DEF Effect
<1>5. QED
  BY <1>3, <1>4

\* A new version of w makes nothing untrue that was done before.
LEMMA CommitStays ==
    ASSUME ServiceInv, NEW w \in Widgets, last[w] < MaxVersion,
           last[w] = None \/ row[w] # None,
           row'  = [row EXCEPT ![w] = last[w] + 1],
           last' = [last EXCEPT ![w] = last[w] + 1],
           cached' = cached
    PROVE  TookStays /\ CachedIsReal' /\ TookThen(w, last[w] + 1)
<1> USE Bounds DEF ServiceInv, P!IInv
<1>1. last \in [Widgets -> Version \cup {None}] /\ row \in [Widgets -> Version \cup {None}]
  BY DEF P!TypeOK
<1>2. last[w] \in Nat /\ last'[w] = last[w] + 1 /\ row'[w] = last[w] + 1
  BY <1>1
<1>3. \A x \in Widgets : x # w => last'[x] = last[x] /\ row'[x] = row[x]
  BY <1>1
<1>4. TookStays
  <2> SUFFICES ASSUME NEW x \in Widgets, NEW v \in Version \cup {None}, Took(x, v)
               PROVE  TookThen(x, v)
    BY DEF TookStays
  <2>1. CASE x # w
    BY <1>3, <2>1 DEF Took, TookThen
  <2>2. CASE x = w
    <3>1. v # None
      BY <2>2 DEF Took, TookThen
    <3>2. v \in 1..last[w]
      BY <2>2, <3>1 DEF Took, TookThen
    <3>3. v \in 1..last'[w]
      BY <1>2, <3>2
    <3>4. QED
      BY <2>2, <3>1, <3>3 DEF Took, TookThen
  <2>3. QED
    BY <2>1, <2>2
<1>5. CachedIsReal'
  <2> SUFFICES ASSUME NEW x \in Widgets, cached[x] # None PROVE cached[x] \in 1..last'[x]
    BY DEF CachedIsReal
  <2>1. cached[x] \in 1..last[x]
    BY DEF CachedIsReal
  <2>2. CASE x # w
    BY <1>3, <2>1, <2>2
  <2>3. CASE x = w
    BY <1>2, <2>1, <2>3
  <2>4. QED
    BY <2>2, <2>3
<1>6. TookThen(w, last[w] + 1)
  BY <1>2 DEF TookThen
<1>7. QED
  BY <1>4, <1>5, <1>6

LEMMA InsertEffect ==
    ASSUME ServiceInv, NEW p \in Procs, NEW w \in Widgets, NEW a \in P!AckLost,
           P!Insert(p, w, a)
    PROVE  Effect(p)
<1>1. /\ last[w] = None /\ last[w] < MaxVersion
      /\ row'  = [row EXCEPT ![w] = last[w] + 1]
      /\ last' = [last EXCEPT ![w] = last[w] + 1]
      /\ cached' = cached /\ op' = op /\ pc[p] # "returned"
  BY Bounds DEF P!Insert
<1>2. TookStays /\ CachedIsReal'
  BY <1>1, CommitStays
<1>3. CASE P!Return(p, "error", P!None)
  <2>1. /\ wid'[p] \in Widgets /\ pc'[p] = "returned" /\ ret'[p] # "ok" /\ Alone(p)
    BY <1>3 DEF P!Insert, P!Return, ServiceInv, P!IInv, P!TypeOK, Alone
  <2>2. QED
    BY <1>1, <1>2, <2>1, NothingBrought DEF Effect, ServiceInv, P!IInv
<1>4. CASE pc' = [pc EXCEPT ![p] = "reread"] /\ UNCHANGED <<val, ret, lag>>
  <2>1. wid'[p] \in Widgets /\ pc'[p] = "reread" /\ Alone(p)
    BY <1>4 DEF P!Insert, ServiceInv, P!IInv, P!TypeOK, Alone
  <2>2. QED
    BY <1>1, <1>2, <2>1, NothingBrought DEF Effect, ServiceInv, P!IInv
<1>5. QED
  BY <1>3, <1>4 DEF P!Insert

LEMMA UpdateEffect ==
    ASSUME ServiceInv, NEW p \in Procs, NEW a \in P!AckLost, P!Update(p, a)
    PROVE  Effect(p)
<1> DEFINE w == wid[p]
           v == last[w] + 1
<1>1. /\ w \in Widgets /\ row[w] # None /\ last[w] < MaxVersion
      /\ row'  = [row EXCEPT ![w] = v] /\ last' = [last EXCEPT ![w] = v]
      /\ cached' = cached /\ op' = op /\ wid' = wid /\ pc[p] # "returned"
      /\ P!Return(p, "error", P!None) \/ P!Proceed(p, v)
  BY Types, Bounds DEF P!Update, ServiceInv, P!IInv
<1>2. last[w] \in Version \cup {None}
  BY Types DEF ServiceInv, P!IInv
<1>3. v \in Version /\ v # None
  BY <1>1, <1>2, Bounds
<1> HIDE DEF w
<1>4. TookStays /\ CachedIsReal' /\ TookThen(w, v)
  BY <1>1, CommitStays
<1>5. Holds(p, v)
  BY <1>1, <1>4 DEF Holds, w
<1> HIDE DEF v
<1>6. Brings(p) /\ Alone(p)
  BY <1>1, <1>3, <1>5, StatementBrings DEF ServiceInv, P!IInv
<1>7. QED
  BY <1>1, <1>4, <1>6 DEF Effect

LEMMA DeleteEffect ==
    ASSUME ServiceInv, NEW p \in Procs, NEW a \in P!AckLost, P!Delete(p, a)
    PROVE  Effect(p)
<1> DEFINE w == wid[p]
<1>1. /\ w \in Widgets /\ op[p] = "delete" /\ row' = [row EXCEPT ![w] = None]
      /\ last' = last /\ cached' = cached /\ op' = op /\ wid' = wid /\ pc[p] # "returned"
      /\ \/ P!Return(p, "not_found", P!None) \/ P!Return(p, "error", P!None)
         \/ P!Proceed(p, None) /\ row[w] # None
  BY Types, Bounds DEF P!Delete, ServiceInv, P!IInv
<1>2. /\ row \in [Widgets -> Version \cup {None}]
      /\ row[w] \in Version \cup {None} /\ last[w] \in Version \cup {None}
      /\ row[w] <= last[w]
  BY <1>1, Bounds DEF ServiceInv, P!IInv, P!TypeOK, P!Ages, P!RowWasCounted
<1>3. row[w] # None => last[w] # None
  BY <1>2, Bounds
<1>4. TookStays
  BY <1>1, <1>2 DEF TookStays, Took, TookThen
<1>5. Holds(p, None)
  BY <1>1, <1>2, <1>3 DEF Holds, TookThen
<1>6. Brings(p) /\ Alone(p)
  BY <1>1, <1>5, StatementBrings DEF ServiceInv, P!IInv
<1>7. CachedIsReal'
  BY <1>1, CacheStays DEF ServiceInv
<1>8. QED
  BY <1>1, <1>4, <1>6, <1>7 DEF Effect

\* The Redis write brings home what the statement found at most MaxLag ago.
LEMMA PutEffect ==
    ASSUME ServiceInv, NEW p \in Procs, P!CachePut(p)
    PROVE  Effect(p)
<1> DEFINE w == wid[p]
<1> USE DEF ServiceInv, P!IInv
<1>1. /\ UNCHANGED <<row, last, gone, op, wid>> /\ pc[p] = "cache_put"
      /\ pc'[p] = "returned" /\ val'[p] = val[p] /\ Alone(p)
  BY DEF P!CachePut, P!Return, P!TypeOK, Alone
<1>2. /\ w \in Widgets /\ val[p] \in Version \cup {None} /\ lag[p] \in 0..MaxLag
      /\ last[w] \in Version \cup {None}
  BY Types
<1>3. Took(w, val[p]) /\ (val[p] = None => op[p] = "delete")
  BY <1>1 DEF Real
<1>4. Real(p)'
  BY <1>1, <1>3 DEF Real, Took
<1>5. val[p] # None => Recent(w, val[p])
  <2> SUFFICES ASSUME val[p] # None PROVE Recent(w, val[p])
    OBVIOUS
  <2>1. val[p] \in 1..last[w]
    BY <1>3 DEF Took
  <2>2. gone[w][val[p]] <= lag[p]
    BY <1>1, Bounds DEF P!Ages, P!HeldIsRecent
  <2>3. gone[w][val[p]] \in 0..(S!Window + 1)
    BY <1>2, Bounds DEF P!TypeOK, P!Window, S!Window
  <2>4. QED
    BY <1>2, <2>1, <2>2, <2>3, Bounds DEF Recent
<1>6. Brings(p)
  BY <1>1, <1>4, <1>5 DEF Brings, Recent
<1>7. TookStays
  BY <1>1, TableStays
<1>8. CachedIsReal'
  <2> SUFFICES ASSUME NEW x \in Widgets, cached'[x] # None PROVE cached'[x] \in 1..last[x]
    BY <1>1 DEF CachedIsReal
  <2>1. CASE P!Put(p)
    <3>1. CASE x = w
      BY <1>3, <2>1, <3>1 DEF P!Put, P!TypeOK, Took
    <3>2. CASE x # w
      BY <2>1, <3>2 DEF P!Put, P!TypeOK, CachedIsReal
    <3>3. QED
      BY <3>1, <3>2
  <2>2. CASE cached' = cached
    BY <2>2 DEF CachedIsReal
  <2>3. QED
    BY <2>1, <2>2 DEF P!CachePut, P!redis
<1>9. QED
  BY <1>1, <1>6, <1>7, <1>8 DEF Effect

LEMMA StepEffect ==
    ASSUME ServiceInv, NEW p \in Procs, P!Step(p)
    PROVE  Effect(p)
  BY HitEffect, MissEffect, SelectEffect, InsertEffect, UpdateEffect, DeleteEffect, PutEffect
     DEF P!Step

-----------------------------------------------------------------------------
(* Steps of the routes as steps of the service.                             *)

\* The middleware's lookup is followed by the handler's call in one piece.
LEMMA EnterKeeps ==
    ASSUME P!IInv, NEW p \in Procs, NEW o \in P!Ops, NEW w \in Widgets,
           S!Enter(p, o, w)
    PROVE  P!IInv'
<1>1. P!TypeOK'
  BY DEF S!Enter, P!IInv, P!TypeOK, P!Points, P!Answers, S!None, P!None
<1>2. P!Quiet
  BY DEF S!Enter, P!IInv, P!TypeOK, P!Quiet
<1>3. QED
  BY <1>1, <1>2, Bounds, P!QuietStep DEF P!IInv

LEMMA MethodIsOp == \A k \in Public \cup Admin : MethodOf(k) \in P!Ops
  BY DEF MethodOf, Public, Admin, P!Ops

LEMMA ArriveCalls ==
    ASSUME NEW p \in Procs, NEW k \in Public \cup Admin, NEW w \in Widgets,
           NEW o \in Origins \cup {NoOrigin}, Arrive(p, k, w, o)
    PROVE  \E m \in P!Ops : P!Call(p, m, w) /\ m = IF o = NoOrigin THEN MethodOf(k) ELSE "get"
  BY MethodIsOp, SameCall DEF Arrive, P!Ops

LEMMA ServiceNext ==
    ASSUME P!IInv, Next
    PROVE  P!IInv'
<1>1. P!Next => P!IInv'
  BY Bounds, P!Invariance
<1>2. ASSUME NEW p \in Procs, NEW k \in Public \cup Admin, NEW w \in Widgets,
             NEW o \in Origins \cup {NoOrigin}, Arrive(p, k, w, o)
      PROVE  P!IInv'
  <2>1. PICK m \in P!Ops : P!Call(p, m, w)
    BY <1>2, ArriveCalls
  <2>2. QED
    BY <1>1, <2>1 DEF P!Next
<1>3. ASSUME NEW p \in Procs, Serve(p) PROVE P!IInv'
  BY <1>1, <1>3, SameStep DEF Serve, P!Next
<1>4. ASSUME NEW p \in Procs, CorsDecide(p) PROVE P!IInv'
  <2>1. wid[p] \in Widgets /\ "get" \in P!Ops
    BY DEF P!IInv, P!TypeOK, P!Ops
  <2>2. QED
    BY <1>4, <2>1, EnterKeeps DEF CorsDecide
<1>5. ASSUME NEW p \in Procs, Respond(p) PROVE P!IInv'
  BY <1>1, <1>5, SameCall DEF Respond, P!Next
<1>6. ASSUME NEW p \in Procs, Changed(p) PROVE P!IInv'
  <2>1. UNCHANGED P!vars
    BY <1>6 DEF Changed, service, P!vars
  <2>2. QED
    BY <2>1, Bounds, P!Invariance
<1>7. CASE Time \/ Crash
  BY <1>1, <1>7, SameTime DEF Time, Crash, P!Next
<1>8. QED
  BY <1>2, <1>3, <1>4, <1>5, <1>6, <1>7
     DEF Next, Preflight, Refuse, Show, Mint, WriteAudit, AuditFails

-----------------------------------------------------------------------------
(* Types of what the routes keep.                                           *)

RouteTypes ==
    /\ stage    \in [Procs -> {"free", "cors", "handler", "audit"}]
    /\ kind     \in [Procs -> Public \cup Admin]
    /\ origin   \in [Procs -> Origins \cup {NoOrigin}]
    /\ matched  \in [Procs -> BOOLEAN]
    /\ tooLate  \in [Procs -> BOOLEAN]
    /\ audit    \subseteq Change
    /\ acked    \subseteq Change

LEMMA TypeParts == TypeOK <=> P!TypeOK /\ RouteTypes
  BY SameTypes DEF TypeOK, RouteTypes

LEMMA RespondTypes ==
    ASSUME RouteTypes, NEW p \in Procs, Respond(p)
    PROVE  /\ stage'   \in [Procs -> {"free", "cors", "handler", "audit"}]
           /\ kind'    \in [Procs -> Public \cup Admin]
           /\ origin'  \in [Procs -> Origins \cup {NoOrigin}]
           /\ matched' \in [Procs -> BOOLEAN]
           /\ tooLate' \in [Procs -> BOOLEAN]
  BY DEF RouteTypes, Respond, Goto, Public, Admin

LEMMA ChangeTypes ==
    ASSUME P!TypeOK, NEW p \in Procs
    PROVE  ChangeOf(p) \in Change
  BY Types DEF ChangeOf, Change

LEMMA RouteStep ==
    ASSUME P!TypeOK, RouteTypes, [Next]_vars
    PROVE  RouteTypes'
<1> USE DEF RouteTypes
<1>1. ASSUME NEW p \in Procs, NEW k \in Public \cup Admin, NEW w \in Widgets,
             NEW o \in Origins \cup {NoOrigin}, Arrive(p, k, w, o)
      PROVE  RouteTypes'
  BY <1>1 DEF Arrive, Goto, records
<1>2. ASSUME NEW p \in Procs, Serve(p) \/ Time PROVE RouteTypes'
  BY <1>2 DEF Serve, Time, request, records
<1>3. ASSUME NEW p \in Procs, CorsDecide(p) PROVE RouteTypes'
  BY <1>3 DEF CorsDecide, CorsMatch, Goto, records
<1>4. ASSUME NEW p \in Procs, Respond(p), UNCHANGED records PROVE RouteTypes'
  BY <1>4, RespondTypes DEF records
<1>5. ASSUME NEW p \in Procs, Changed(p) PROVE RouteTypes'
  BY <1>5 DEF Changed, Goto, records
<1>6. ASSUME NEW p \in Procs, WriteAudit(p) \/ AuditFails(p) PROVE RouteTypes'
  <2>1. Respond(p) /\ ChangeOf(p) \in Change
    BY <1>6, ChangeTypes DEF WriteAudit, AuditFails
  <2>2. audit' \subseteq Change /\ acked' \subseteq Change
    BY <1>6, <2>1 DEF WriteAudit, AuditFails
  <2>3. QED
    BY <2>1, <2>2, RespondTypes
<1>7. CASE Crash
  BY <1>7 DEF Crash, records, Public
<1>8. CASE Time
  BY <1>8 DEF Time, request, records
<1>9. CASE UNCHANGED vars
  BY <1>9 DEF vars, request, records
<1>10. QED
  BY <1>1, <1>2, <1>3, <1>4, <1>5, <1>6, <1>7, <1>8, <1>9
     DEF Next, Preflight, Refuse, Show, Mint

-----------------------------------------------------------------------------
(* What requests hold and where they are.                                   *)

\* Request q is not the one that moves.
Same(q) ==
    /\ pc'[q] = pc[q] /\ op'[q] = op[q] /\ wid'[q] = wid[q]
    /\ val'[q] = val[q] /\ ret'[q] = ret[q]
    /\ stage'[q] = stage[q] /\ kind'[q] = kind[q]

Sound(q) == Real(q) /\ Routed(q) /\ Fresh(q)

\* Nothing ages or changes under a request that is about to act on its answer.
LEMMA BystanderKeeps ==
    ASSUME P!TypeOK, NEW q \in Procs, Sound(q), Same(q), TookStays,
           Settled \/ UNCHANGED <<row, last, gone>>
    PROVE  Sound(q)'
<1>1. wid[q] \in Widgets /\ val[q] \in Version \cup {None}
  BY Types
<1>2. Real(q)'
  BY <1>1 DEF Sound, Real, Answered, Same, TookStays, Took, TookThen
<1>3. Routed(q)'
  BY DEF Sound, Routed, Answered, Same, MethodOf
<1>4. Fresh(q)'
  BY DEF Sound, Fresh, Answered, Same, Settled, Recent
<1>5. QED
  BY <1>2, <1>3, <1>4 DEF Sound

\* A request that is not served, or only enters a call, holds nothing.
LEMMA IdleIsSound ==
    ASSUME NEW p \in Procs, pc'[p] \in {"idle", "cache_get", "db"},
           \/ stage'[p] = "free"
           \/ stage'[p] = "cors" /\ op'[p] = "get" /\ kind'[p] \in Public
           \/ stage'[p] = "handler" /\ op'[p] = MethodOf(kind[p])'
    PROVE  Sound(p)'
  BY DEF Sound, Real, Routed, Fresh, Answered

\* Everything but the SQL statements of a service step leaves this alone.
Still == UNCHANGED <<row, last, gone, cached>>

Kept == TookStays /\ CachedIsReal' /\ \A q \in Procs : Sound(q)'

\* A step that moves one request and no configuration.
LEMMA MoverKeeps ==
    ASSUME P!TypeOK, CachedIsReal, \A q \in Procs : Sound(q), NEW p \in Procs,
           Still, Sound(p)', \A q \in Procs \ {p} : Same(q)
    PROVE  Kept
<1>1. TookStays /\ CachedIsReal'
  BY TableStays, CacheStays DEF Still
<1>2. ASSUME NEW q \in Procs, q # p PROVE Sound(q)'
  BY <1>1, <1>2, BystanderKeeps DEF Still
<1>3. QED
  BY <1>1, <1>2 DEF Kept

LEMMA RespondKeeps ==
    ASSUME P!TypeOK, RouteTypes, CachedIsReal, \A q \in Procs : Sound(q),
           NEW p \in Procs, Respond(p)
    PROVE  Kept
<1>1. /\ Still /\ pc'[p] = "idle" /\ stage'[p] = "free"
      /\ \A q \in Procs \ {p} : Same(q)
  <2>1. P!Leave(p)
    BY SameCall DEF Respond
  <2>2. /\ Still /\ pc'[p] = "idle"
        /\ \A q \in Procs \ {p} : /\ pc'[q] = pc[q] /\ op'[q] = op[q] /\ wid'[q] = wid[q]
                                  /\ val'[q] = val[q] /\ ret'[q] = ret[q]
    BY <2>1 DEF P!Leave, P!TypeOK, Still
  <2>3. stage'[p] = "free" /\ \A q \in Procs \ {p} : stage'[q] = stage[q] /\ kind'[q] = kind[q]
    BY DEF Respond, Goto, RouteTypes
  <2>4. QED
    BY <2>2, <2>3 DEF Same
<1>2. Sound(p)'
  BY <1>1, IdleIsSound
<1>3. QED
  BY <1>1, <1>2, MoverKeeps

\* A call begins: a route's own, or the lookup of the middleware.
LEMMA EnterIsSound ==
    ASSUME P!TypeOK, RouteTypes, CachedIsReal, \A q \in Procs : Sound(q),
           NEW p \in Procs, NEW m \in P!Ops, NEW w \in Widgets,
           P!Enter(p, m, w),
           \A q \in Procs \ {p} : stage'[q] = stage[q] /\ kind'[q] = kind[q],
           \/ stage'[p] = "cors" /\ m = "get" /\ kind'[p] \in Public
           \/ stage'[p] = "handler" /\ m = MethodOf(kind'[p])
    PROVE  Kept
<1>1. /\ Still /\ pc'[p] \in {"cache_get", "db"} /\ op'[p] = m
      /\ \A q \in Procs \ {p} : Same(q)
  BY DEF P!Enter, P!TypeOK, Still, Same
<1>2. Sound(p)'
  BY <1>1, IdleIsSound DEF MethodOf
<1>3. QED
  BY <1>1, <1>2, MoverKeeps

LEMMA ServeKeeps ==
    ASSUME P!TypeOK, ServiceInv, \A q \in Procs : Sound(q), NEW p \in Procs, Serve(p)
    PROVE  Kept
<1>1. Effect(p) /\ Settled /\ UNCHANGED <<stage, kind>>
  BY SameStep, StepEffect DEF Serve, request
<1>2. ASSUME NEW q \in Procs, q # p PROVE Sound(q)'
  <2>1. Same(q)
    BY <1>1, <1>2 DEF Effect, Alone, Same
  <2>2. QED
    BY <1>1, <2>1, BystanderKeeps DEF Effect
<1>3. Sound(p)'
  <2>1. Real(p)'
    BY <1>1 DEF Effect, Brings
  <2>2. Fresh(p)'
    BY <1>1 DEF Effect, Brings, Fresh
  <2>3. stage[p] # "audit"
    BY <1>1 DEF Effect, Sound, Routed, Answered
  <2>4. Routed(p)'
    BY <1>1, <2>3 DEF Effect, Sound, Routed, MethodOf
  <2>5. QED
    BY <2>1, <2>2, <2>4 DEF Sound
<1>4. QED
  BY <1>1, <1>2, <1>3 DEF Kept, Effect

LEMMA TimeKeeps ==
    ASSUME P!TypeOK, CachedIsReal, \A q \in Procs : Sound(q), Time
    PROVE  Kept
<1>1. /\ Settled /\ UNCHANGED <<row, last, pc, op, wid, val, ret, stage, kind>>
      /\ cached' = [w \in Widgets |-> IF ttl[w] > 1 THEN cached[w] ELSE None]
  BY SameTime, Bounds DEF Time, P!Tick, request
<1>2. TookStays /\ CachedIsReal'
  BY <1>1, TableStays DEF CachedIsReal
<1>3. ASSUME NEW q \in Procs PROVE Sound(q)'
  BY <1>1, <1>2, BystanderKeeps DEF Same
<1>4. QED
  BY <1>2, <1>3 DEF Kept

LEMMA Step ==
    ASSUME P!TypeOK, RouteTypes, ServiceInv, \A q \in Procs : Sound(q), [Next]_vars
    PROVE  Kept
<1>1. CachedIsReal
  BY DEF ServiceInv
<1>2. ASSUME NEW p \in Procs, NEW k \in Public \cup Admin, NEW w \in Widgets,
             NEW o \in Origins \cup {NoOrigin}, Arrive(p, k, w, o)
      PROVE  Kept
  <2>1. PICK m \in P!Ops :
          P!Call(p, m, w) /\ m = IF o = NoOrigin THEN MethodOf(k) ELSE "get"
    BY <1>2, ArriveCalls
  <2>2. /\ stage'[p] = (IF o = NoOrigin THEN "handler" ELSE "cors") /\ kind'[p] = k
        /\ \A q \in Procs \ {p} : stage'[q] = stage[q] /\ kind'[q] = kind[q]
        /\ o # NoOrigin => k \in Public
    BY <1>2 DEF Arrive, Goto, RouteTypes
  <2>3. QED
    BY <1>1, <2>1, <2>2, EnterIsSound DEF P!Call
<1>3. ASSUME NEW p \in Procs, CorsDecide(p) PROVE Kept
  <2>1. P!Enter(p, "get", wid[p])
    BY <1>3, Bounds DEF CorsDecide, S!Enter, P!Enter, S!None, P!None
  <2>2. /\ stage'[p] = "handler" /\ kind' = kind /\ stage[p] = "cors"
        /\ \A q \in Procs \ {p} : stage'[q] = stage[q]
    BY <1>3 DEF CorsDecide, Goto, RouteTypes
  <2>3. kind[p] \in Public
    BY <2>2 DEF Sound, Routed
  <2>4. MethodOf(kind'[p]) = "get"
    BY <2>2, <2>3 DEF MethodOf, Public, Admin
  <2>5. "get" \in P!Ops /\ wid[p] \in Widgets
    BY Types DEF P!Ops
  <2>6. QED
    BY <1>1, <2>1, <2>2, <2>4, <2>5, EnterIsSound
<1>4. ASSUME NEW p \in Procs, Respond(p) PROVE Kept
  BY <1>1, <1>4, RespondKeeps
<1>5. ASSUME NEW p \in Procs, Changed(p) PROVE Kept
  <2>1. /\ UNCHANGED <<service, kind>> /\ stage'[p] = "audit" /\ Answered(p)
        /\ \A q \in Procs \ {p} : stage'[q] = stage[q]
    BY <1>5 DEF Changed, Goto, RouteTypes, Answered
  <2>2. Sound(p)'
    BY <2>1 DEF service, Sound, Real, Routed, Fresh, Answered, Took
  <2>3. Still /\ \A q \in Procs \ {p} : Same(q)
    BY <2>1 DEF service, Still, Same
  <2>4. QED
    BY <1>1, <2>2, <2>3, MoverKeeps
<1>6. CASE Crash
  <2>1. /\ Still /\ \A q \in Procs : pc'[q] = "idle" /\ stage'[q] = "free"
    BY <1>6, SameTime DEF Crash, P!Crash, Still
  <2>2. TookStays /\ CachedIsReal'
    BY <1>1, <2>1, TableStays, CacheStays DEF Still
  <2>3. QED
    BY <2>1, <2>2, IdleIsSound DEF Kept
<1>7. CASE UNCHANGED vars
  <2>1. Still /\ \A q \in Procs : Same(q)
    BY <1>7 DEF vars, service, request, Still, Same
  <2>2. TookStays /\ CachedIsReal'
    BY <1>1, <2>1, TableStays, CacheStays DEF Still
  <2>3. ASSUME NEW q \in Procs PROVE Sound(q)'
    BY <2>1, <2>2, BystanderKeeps DEF Still
  <2>4. QED
    BY <2>2, <2>3 DEF Kept
<1>8. QED
  BY <1>1, <1>2, <1>3, <1>4, <1>5, <1>6, <1>7, ServeKeeps, TimeKeeps
     DEF Next, Preflight, Refuse, Show, Mint, WriteAudit, AuditFails

-----------------------------------------------------------------------------
(* The trail.                                                               *)

TrailOf(t) == \A a \in t : Took(a.w, a.v)

LEMMA TrailSays == audit \subseteq Change => (AuditIsTrue <=> TrailOf(audit))
  BY DEF AuditIsTrue, TrailOf, Took, Change

LEMMA TrailGrows ==
    ASSUME audit \subseteq Change, AuditIsTrue, TookStays,
           \A a \in audit' : a \in audit \/ (a \in Change /\ Took(a.w, a.v))
    PROVE  AuditIsTrue'
<1>1. ASSUME NEW a \in audit' PROVE TookThen(a.w, a.v)
  <2>1. a \in Change /\ Took(a.w, a.v)
    BY <1>1, TrailSays DEF TrailOf
  <2>2. a.w \in Widgets /\ a.v \in Version \cup {None}
    BY <2>1 DEF Change
  <2>3. QED
    BY <2>1, <2>2 DEF TookStays
<1>2. QED
  BY <1>1 DEF AuditIsTrue, TookThen

\* What one request may do in a step.
HandlerOf(p) ==
    \/ \E k \in Public \cup Admin, w \in Widgets, o \in Origins \cup {NoOrigin} :
          Arrive(p, k, w, o)
    \/ Serve(p)
    \/ CorsDecide(p) \/ Preflight(p) \/ Refuse(p) \/ Show(p) \/ Mint(p)
    \/ Changed(p) \/ WriteAudit(p) \/ AuditFails(p)

LEMMA StepCases ==
    [Next]_vars => \/ \E p \in Procs : HandlerOf(p)
                   \/ Time \/ Crash \/ UNCHANGED vars
BY DEF Next, HandlerOf

LEMMA TrailStep ==
    ASSUME P!TypeOK, RouteTypes, \A q \in Procs : Sound(q), AuditIsTrue, TookStays, [Next]_vars
    PROVE  AuditIsTrue'
<1>1. ASSUME NEW p \in Procs, WriteAudit(p) \/ AuditFails(p) PROVE AuditIsTrue'
  <2>1. stage[p] = "audit" /\ audit' \subseteq audit \cup {ChangeOf(p)}
    BY <1>1 DEF WriteAudit, AuditFails
  <2>2. Took(wid[p], val[p])
    BY <2>1 DEF Sound, Routed, Real
  <2>3. ChangeOf(p) \in Change /\ ChangeOf(p).w = wid[p] /\ ChangeOf(p).v = val[p]
    BY ChangeTypes DEF ChangeOf
  <2>4. QED
    BY <2>1, <2>2, <2>3, TrailGrows DEF RouteTypes
<1>2. CASE audit' = audit
  BY <1>2, TrailGrows, TrailSays DEF RouteTypes, TrailOf
<1>3. ASSUME NEW p \in Procs, NEW k \in Public \cup Admin, NEW w \in Widgets,
             NEW o \in Origins \cup {NoOrigin}, Arrive(p, k, w, o)
      PROVE  audit' = audit
  BY <1>3 DEF Arrive, records
<1>4. ASSUME NEW p \in Procs, Serve(p) \/ CorsDecide(p) \/ Preflight(p) \/ Refuse(p) \/ Show(p)
             \/ Mint(p) \/ Changed(p)
      PROVE  audit' = audit
  BY <1>4 DEF Serve, CorsDecide, Preflight, Refuse, Show, Mint, Changed, records
<1>5. Time \/ Crash \/ UNCHANGED vars => audit' = audit
  BY DEF Time, Crash, vars, records
<1>6. ASSUME NEW p \in Procs, HandlerOf(p) PROVE AuditIsTrue'
  BY <1>1, <1>2, <1>3, <1>4, <1>6 DEF HandlerOf
<1>7. QED
  BY <1>2, <1>5, <1>6, StepCases

-----------------------------------------------------------------------------
(* The theorems.                                                            *)

LEMMA ApiInit == Init => ApiInv /\ AckedChangeAudited
<1> SUFFICES ASSUME Init PROVE ApiInv /\ AckedChangeAudited
  OBVIOUS
<1>1. P!IInv
  BY SameInit, Bounds, P!InitInv DEF Init
<1>2. RouteTypes
  BY DEF Init, RouteTypes, Public
<1>3. CachedIsReal /\ \A p \in Procs : pc[p] = "idle" /\ stage[p] = "free"
  BY Bounds DEF Init, S!Init, CachedIsReal, None
<1>4. \A p \in Procs : Real(p) /\ Routed(p) /\ Fresh(p)
  BY <1>3 DEF Real, Routed, Fresh, Answered
<1>5. AuditIsTrue /\ AckedChangeAudited
  BY DEF Init, AuditIsTrue, AckedChangeAudited
<1>6. QED
  BY <1>1, <1>2, <1>3, <1>4, <1>5, TypeParts DEF ApiInv, ServiceInv, RouteInv, P!IInv

LEMMA ApiStep == ApiInv /\ [Next]_vars => ApiInv'
<1> SUFFICES ASSUME ApiInv, [Next]_vars PROVE ApiInv'
  OBVIOUS
<1>1. P!TypeOK /\ RouteTypes /\ ServiceInv /\ P!IInv /\ AuditIsTrue
  BY TypeParts DEF ApiInv, ServiceInv
<1>2. \A q \in Procs : Sound(q)
  BY DEF ApiInv, ServiceInv, RouteInv, Sound
<1>3. P!IInv'
  <2>1. CASE Next
    BY <1>1, <2>1, ServiceNext
  <2>2. CASE UNCHANGED vars
    <3>1. UNCHANGED P!vars
      BY <2>2 DEF vars, service, P!vars
    <3>2. QED
      BY <1>1, <3>1, Bounds, P!Invariance
  <2>3. QED
    BY <2>1, <2>2
<1>4. RouteTypes'
  BY <1>1, RouteStep
<1>5. Kept
  BY <1>1, <1>2, Step
<1>6. AuditIsTrue'
  BY <1>1, <1>2, <1>5, TrailStep DEF Kept
<1>7. P!TypeOK'
  BY <1>3 DEF P!IInv
<1>8. TypeOK'
  BY <1>4, <1>7, TypeParts, PTL
<1>9. ServiceInv' /\ RouteInv'
  BY <1>3, <1>5 DEF ServiceInv, RouteInv, Kept, Sound
<1>10. QED
  BY <1>6, <1>8, <1>9 DEF ApiInv

LEMMA ApiHolds == Spec => []ApiInv
<1>1. Init => ApiInv
  BY ApiInit
<1>2. QED
  BY <1>1, ApiStep, PTL DEF Spec

\* Every variable of the routes and of the service under them keeps its type
\* (admin.py, widget.py, dynamic_cors.py).
THEOREM TypesHold == Spec => []TypeOK
<1>1. ApiInv => TypeOK
  BY DEF ApiInv
<1>2. QED
  BY <1>1, ApiHolds, PTL

\* An admin's 2xx comes after its audit row (create_widget, patch_widget,
\* delete_widget).
THEOREM ChangesAreAudited == Spec => []AckedChangeAudited
<1>1. AckedChangeAudited /\ [Next]_vars => AckedChangeAudited'
  <2> USE DEF AckedChangeAudited
  <2>1. ASSUME NEW p \in Procs, NEW k \in Public \cup Admin, NEW w \in Widgets,
               NEW o \in Origins \cup {NoOrigin}, Arrive(p, k, w, o)
        PROVE  UNCHANGED records
    BY <2>1 DEF Arrive, records
  <2>2. ASSUME NEW p \in Procs, Serve(p) \/ CorsDecide(p) \/ Preflight(p) \/ Refuse(p) \/ Show(p)
               \/ Mint(p) \/ Changed(p)
        PROVE  UNCHANGED records
    BY <2>2 DEF Serve, CorsDecide, Preflight, Refuse, Show, Mint, Changed, records
  <2>3. ASSUME NEW p \in Procs, AckedChangeAudited, WriteAudit(p) \/ AuditFails(p)
        PROVE  AckedChangeAudited'
    BY <2>3 DEF WriteAudit, AuditFails
  <2>4. Time \/ Crash \/ UNCHANGED vars => UNCHANGED records
    BY DEF Time, Crash, vars, records
  <2>5. AckedChangeAudited /\ UNCHANGED records => AckedChangeAudited'
    BY DEF records
  <2>6. ASSUME NEW p \in Procs, AckedChangeAudited, HandlerOf(p) PROVE AckedChangeAudited'
    BY <2>1, <2>2, <2>3, <2>5, <2>6 DEF HandlerOf
  <2>7. QED
    BY <2>4, <2>5, <2>6, StepCases
<1>2. Init => AckedChangeAudited
  BY ApiInit
<1>3. QED
  BY <1>1, <1>2, PTL DEF Spec

\* The audit rows that are written after their change, on a connection of their
\* own, are true whatever other admins did in between (write_audit).
THEOREM TrailHoldsTrue == Spec => []AuditIsTrue
<1>1. ApiInv => AuditIsTrue
  BY DEF ApiInv
<1>2. QED
  BY <1>1, ApiHolds, PTL

\* No session is minted from a configuration that went out of force more than
\* CacheTTL and the latency of a request ago (mint_session).
THEOREM MintsRestOnRecent == Spec => MintsAreRecent
<1>1. ApiInv /\ [Next]_vars => [\A p \in Procs : Mint(p) => Recent(wid[p], val[p])]_vars
  <2> SUFFICES ASSUME ApiInv, NEW p \in Procs, Mint(p) PROVE Recent(wid[p], val[p])
    OBVIOUS
  <2>1. stage[p] = "handler" /\ Answered(p) /\ kind[p] = "mint"
    BY DEF Mint, Answered
  <2>2. op[p] = "get" /\ Real(p) /\ Fresh(p)
    BY <2>1 DEF ApiInv, ServiceInv, RouteInv, Routed, MethodOf, Admin
  <2>3. QED
    BY <2>1, <2>2 DEF Real, Fresh
<1>2. QED
  BY <1>1, ApiHolds, PTL DEF Spec, MintsAreRecent

\* No origin is let through by a list that did not hold it that recently, and
\* none when the list could not be read (dispatch, allowed_origins).
THEOREM GrantsRestOnRecent == Spec => GrantsAreRecent
<1>1. ApiInv /\ [Next]_vars =>
        [\A p \in Procs :
          (CorsDecide(p) \/ Preflight(p)) /\ CorsMatch(p) =>
              \E v \in Version : Recent(wid[p], v) /\ origin[p] \in Allow[v]]_vars
  <2> SUFFICES ASSUME ApiInv, NEW p \in Procs, CorsDecide(p) \/ Preflight(p), CorsMatch(p)
               PROVE  \E v \in Version : Recent(wid[p], v) /\ origin[p] \in Allow[v]
    OBVIOUS
  <2>1. stage[p] = "cors" /\ Answered(p) /\ origin[p] \in Allow[val[p]]
    BY DEF CorsDecide, Preflight, CorsMatch, Answered
  <2>2. op[p] = "get" /\ Real(p) /\ Fresh(p)
    BY <2>1 DEF ApiInv, ServiceInv, RouteInv, Routed
  <2>3. val[p] \in Version \cup {None}
    BY Types DEF ApiInv, ServiceInv, P!IInv
  <2>4. QED
    BY <2>1, <2>2, <2>3 DEF Real, Fresh
<1>2. QED
  BY <1>1, ApiHolds, PTL DEF Spec, GrantsAreRecent

=============================================================================
