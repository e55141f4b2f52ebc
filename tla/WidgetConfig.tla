---------------------------- MODULE WidgetConfig ----------------------------
(***************************************************************************)
(* WidgetConfigService (app/services/widget_config.py) over its table      *)
(* (app/repositories/widget_configs.py) and its Redis key per widget.      *)
(*                                                                         *)
(* A configuration is known by its version: the n-th content the row of a  *)
(* widget has had.  Every await of the service ends a step, so requests    *)
(* interleave between the Redis read, the SQL statement and the Redis      *)
(* write.  Time is counted in ticks; a cache key lives CacheTTL of them.   *)
(***************************************************************************)
EXTENDS Integers

CONSTANTS
    Widgets,     \* widget ids the database can hand out
    Procs,       \* requests being served by the API process
    MaxVersion,  \* bound: versions a row can have
    CacheTTL,    \* CACHE_TTL_SECONDS, in ticks
    MaxLag,      \* ticks a request takes at most from its SQL statement to
                 \* its Redis write (a bound on latency, not in the code)
    Faults       \* "redis": Redis commands may raise; "ack": a committed
                 \* statement may still raise, its answer being lost

ASSUME BoundsAssumption ==
    /\ MaxVersion \in Nat \ {0}
    /\ CacheTTL \in Nat \ {0}
    /\ MaxLag \in Nat
    /\ Faults \subseteq {"redis", "ack"}

VARIABLES
    row,     \* row[w]: version in the table, None when there is no row
    last,    \* last[w]: versions w has had so far
    gone,    \* gone[w][v]: ticks since v stopped being the row of w
    cached,  \* cached[w]: version under widget_config:<w>, None on a miss
    ttl,     \* ttl[w]: ticks the key has left
    pc,      \* pc[p]: where request p stands in the service
    op,      \* op[p]: the method it called
    wid,     \* wid[p]: the widget it is about
    val,     \* val[p]: the configuration it holds
    ret,     \* ret[p]: how the call ended, once pc[p] = "returned"
    lag      \* lag[p]: ticks since its SQL statement, while "cache_put"

redis == <<cached, ttl>>
vars  == <<row, last, gone, cached, ttl, pc, op, wid, val, ret, lag>>

None    == 0
Version == 1..MaxVersion
Ops     == {"get", "create", "update", "delete"}
Points  == {"idle", "cache_get", "db", "reread", "cache_put", "returned"}
Answers == {"ok", "not_found", "error"}

\* Longest time a superseded configuration may still be served.
Window  == CacheTTL + MaxLag

TypeOK ==
    /\ row    \in [Widgets -> Version \cup {None}]
    /\ last   \in [Widgets -> Version \cup {None}]
    /\ gone   \in [Widgets -> [Version -> 0..(Window + 1)]]
    /\ cached \in [Widgets -> Version \cup {None}]
    /\ ttl    \in [Widgets -> 0..CacheTTL]
    /\ pc     \in [Procs -> Points]
    /\ op     \in [Procs -> Ops]
    /\ wid    \in [Procs -> Widgets]
    /\ val    \in [Procs -> Version \cup {None}]
    /\ ret    \in [Procs -> Answers]
    /\ lag    \in [Procs -> 0..MaxLag]

Init ==
    /\ row    = [w \in Widgets |-> None]
    /\ last   = [w \in Widgets |-> None]
    /\ gone   = [w \in Widgets |-> [v \in Version |-> 0]]
    /\ cached = [w \in Widgets |-> None]
    /\ ttl    = [w \in Widgets |-> 0]
    /\ pc     = [p \in Procs |-> "idle"]
    /\ op     = [p \in Procs |-> "get"]
    /\ wid    \in [Procs -> Widgets]
    /\ val    = [p \in Procs |-> None]
    /\ ret    = [p \in Procs |-> "ok"]
    /\ lag    = [p \in Procs |-> 0]

-----------------------------------------------------------------------------
(* Calling the service and returning from it.                              *)

\* Request p enters method o.  A read goes to Redis first, a write to SQL.
Enter(p, o, w) ==
    /\ op'  = [op EXCEPT ![p] = o]
    /\ wid' = [wid EXCEPT ![p] = w]
    /\ pc'  = [pc EXCEPT ![p] = IF o = "get" THEN "cache_get" ELSE "db"]
    /\ val' = [val EXCEPT ![p] = None]
    /\ ret' = [ret EXCEPT ![p] = "ok"]
    /\ UNCHANGED <<row, last, gone, cached, ttl, lag>>

Call(p, o, w) == pc[p] = "idle" /\ Enter(p, o, w)

Return(p, r, v) ==
    /\ pc'  = [pc EXCEPT ![p] = "returned"]
    /\ ret' = [ret EXCEPT ![p] = r]
    /\ val' = [val EXCEPT ![p] = v]
    /\ lag' = [lag EXCEPT ![p] = 0]

\* The statement answered with version v: the Redis write comes next.
Proceed(p, v) ==
    /\ pc'  = [pc EXCEPT ![p] = "cache_put"]
    /\ val' = [val EXCEPT ![p] = v]
    /\ lag' = [lag EXCEPT ![p] = 0]
    /\ ret' = ret

Leave(p) ==
    /\ pc[p] = "returned"
    /\ pc'  = [pc EXCEPT ![p] = "idle"]
    /\ op'  = [op EXCEPT ![p] = "get"]
    /\ val' = [val EXCEPT ![p] = None]
    /\ ret' = [ret EXCEPT ![p] = "ok"]
    /\ UNCHANGED <<row, last, gone, cached, ttl, wid, lag>>

-----------------------------------------------------------------------------
(* The read path.                                                          *)

\* Mutant of CacheHit: reading a key renews it.
SlidingHit(p) ==
    /\ pc[p] = "cache_get"
    /\ cached[wid[p]] # None
    /\ Return(p, "ok", cached[wid[p]])
    /\ ttl' = [ttl EXCEPT ![wid[p]] = CacheTTL]
    /\ UNCHANGED <<row, last, gone, cached, op, wid>>

CacheHit(p) ==
    /\ pc[p] = "cache_get"
    /\ cached[wid[p]] # None
    /\ Return(p, "ok", cached[wid[p]])
    /\ UNCHANGED <<row, last, gone, cached, ttl, op, wid>>

\* Mutant of CacheMiss: what Redis cannot answer is not found.
CacheDecides(p) ==
    /\ pc[p] = "cache_get"
    /\ cached[wid[p]] = None \/ "redis" \in Faults
    /\ Return(p, "not_found", None)
    /\ UNCHANGED <<row, last, gone, cached, ttl, op, wid>>

\* A miss, or any exception of the Redis read: fall through to the table.
CacheMiss(p) ==
    /\ pc[p] = "cache_get"
    /\ cached[wid[p]] = None \/ "redis" \in Faults
    /\ pc' = [pc EXCEPT ![p] = "db"]
    /\ UNCHANGED <<row, last, gone, cached, ttl, op, wid, val, ret, lag>>

\* The SELECT of get, of an empty patch and of create's second statement.
Select(p) ==
    /\ \/ pc[p] = "db" /\ op[p] \in {"get", "update"}
       \/ pc[p] = "reread"
    /\ IF row[wid[p]] = None
         THEN Return(p, "not_found", None)
         ELSE Proceed(p, row[wid[p]])
    /\ UNCHANGED <<row, last, gone, cached, ttl, op, wid>>

-----------------------------------------------------------------------------
(* The write paths: one autocommitted SQL statement each.  The connection  *)
(* may break before the statement runs (Fails) or once it has committed,   *)
(* in which case the caller sees the same exception (ackLost).             *)

AckLost == IF "ack" \in Faults THEN BOOLEAN ELSE {FALSE}

Insert(p, w, ackLost) ==
    /\ pc[p] = "db" /\ op[p] = "create"
    /\ last[w] = None
    /\ row'  = [row EXCEPT ![w] = 1]
    /\ last' = [last EXCEPT ![w] = 1]
    /\ wid'  = [wid EXCEPT ![p] = w]
    /\ IF ackLost
         THEN Return(p, "error", None)
         ELSE /\ pc' = [pc EXCEPT ![p] = "reread"]
              /\ UNCHANGED <<val, ret, lag>>
    /\ UNCHANGED <<gone, cached, ttl, op>>

Update(p, ackLost) ==
    LET w == wid[p] IN
    /\ pc[p] = "db" /\ op[p] = "update"
    /\ row[w] # None
    /\ last[w] < MaxVersion
    /\ row'  = [row EXCEPT ![w] = last[w] + 1]
    /\ last' = [last EXCEPT ![w] = last[w] + 1]
    /\ IF ackLost THEN Return(p, "error", None) ELSE Proceed(p, last[w] + 1)
    /\ UNCHANGED <<gone, cached, ttl, op, wid>>

Delete(p, ackLost) ==
    LET w == wid[p] IN
    /\ pc[p] = "db" /\ op[p] = "delete"
    /\ row' = [row EXCEPT ![w] = None]
    /\ CASE row[w] = None -> Return(p, "not_found", None)
         [] row[w] # None /\ ackLost -> Return(p, "error", None)
         [] OTHER -> Proceed(p, None)
    /\ UNCHANGED <<last, gone, cached, ttl, op, wid>>

Fails(p) ==
    /\ pc[p] \in {"db", "reread"}
    /\ Return(p, "error", None)
    /\ UNCHANGED <<row, last, gone, cached, ttl, op, wid>>

-----------------------------------------------------------------------------
(* The Redis write that ends every successful path: SET with an expiry, or *)
(* DEL after a delete.  Its exceptions are swallowed.                      *)

\* Mutant of Put: the expiry is added to what the key had left.
PutExtends(p) ==
    /\ cached' = [cached EXCEPT ![wid[p]] = val[p]]
    /\ ttl' = [ttl EXCEPT ![wid[p]] = IF val[p] = None THEN 0 ELSE @ + CacheTTL]

Put(p) ==
    /\ cached' = [cached EXCEPT ![wid[p]] = val[p]]
    /\ ttl' = [ttl EXCEPT ![wid[p]] = IF val[p] = None THEN 0 ELSE CacheTTL]

CachePut(p) ==
    /\ pc[p] = "cache_put"
    /\ Put(p) \/ ("redis" \in Faults /\ UNCHANGED redis)
    /\ Return(p, "ok", val[p])
    /\ UNCHANGED <<row, last, gone, op, wid>>

-----------------------------------------------------------------------------
(* The environment: time, and the end of the API process.                  *)

Older(n) == IF n > Window THEN n ELSE n + 1

\* No SQL statement is followed by its Redis write later than MaxLag.
TimeMayPass == \A p \in Procs : pc[p] = "cache_put" => lag[p] < MaxLag

\* Mutant of Tick: the key was set without ex=.
ImmortalTick ==
    /\ TimeMayPass
    /\ gone' = [w \in Widgets |-> [v \in Version |->
                  IF v = row[w] \/ v > last[w] THEN 0 ELSE Older(gone[w][v])]]
    /\ lag'  = [p \in Procs |-> IF pc[p] = "cache_put" THEN lag[p] + 1 ELSE 0]
    /\ UNCHANGED <<cached, ttl, row, last, pc, op, wid, val, ret>>

Tick ==
    /\ TimeMayPass
    /\ cached' = [w \in Widgets |-> IF ttl[w] > 1 THEN cached[w] ELSE None]
    /\ ttl'    = [w \in Widgets |-> IF ttl[w] > 1 THEN ttl[w] - 1 ELSE 0]
    /\ gone'   = [w \in Widgets |-> [v \in Version |->
                    IF v = row[w] \/ v > last[w] THEN 0 ELSE Older(gone[w][v])]]
    /\ lag'    = [p \in Procs |-> IF pc[p] = "cache_put" THEN lag[p] + 1 ELSE 0]
    /\ UNCHANGED <<row, last, pc, op, wid, val, ret>>

\* The process dies with every request in it; the table and Redis stay.
Crash ==
    /\ pc'  = [p \in Procs |-> "idle"]
    /\ op'  = [p \in Procs |-> "get"]
    /\ val' = [p \in Procs |-> None]
    /\ ret' = [p \in Procs |-> "ok"]
    /\ lag' = [p \in Procs |-> 0]
    /\ UNCHANGED <<row, last, gone, cached, ttl, wid>>

-----------------------------------------------------------------------------
(* The specification.                                                      *)

Step(p) ==
    \/ CacheHit(p) \/ CacheMiss(p)
    \/ Select(p) \/ Fails(p)
    \/ \E ackLost \in AckLost :
          \/ \E w \in Widgets : Insert(p, w, ackLost)
          \/ Update(p, ackLost)
          \/ Delete(p, ackLost)
    \/ CachePut(p)

Next ==
    \/ \E p \in Procs :
          \/ \E o \in Ops, w \in Widgets : Call(p, o, w)
          \/ Step(p)
          \/ Leave(p)
    \/ Tick
    \/ Crash

\* The event loop runs every request on, and time passes.  Nobody has to call,
\* and Redis need never work.
Fairness ==
    /\ WF_vars(Tick)
    /\ \A p \in Procs : WF_vars(Step(p))

Spec == Init /\ [][Next]_vars /\ Fairness

-----------------------------------------------------------------------------
(* What the cache promises.                                                *)

\* A key that no longer matches the table was superseded no longer ago than
\* the time the key has been alive plus the latency of the request that wrote
\* it: neither a late fill after an update or delete, nor two updates whose
\* Redis writes swap, nor a lost Redis write can make it older.
StaleEntriesAge ==
    \A w \in Widgets :
        cached[w] # None =>
            gone[w][cached[w]] <= (CacheTTL - ttl[w]) + MaxLag

\* Once nobody writes any more (versions run out), every key ends up absent or
\* equal to the row, however the last writes and fills raced and whatever
\* Redis lost (get, update, delete and the ex= of their SET).
Fresh == \A w \in Widgets : cached[w] \in {None, row[w]}
EventuallyFresh == <>[]Fresh

\* Every answer of the service is one a bounded-stale register may give.
answer == [p \in Procs |->
             IF pc[p] = "returned"
               THEN [op |-> op[p], ret |-> ret[p], w |-> wid[p], v |-> val[p]]
               ELSE [op |-> "none"]]

Store == INSTANCE BoundedStaleStore
RefinesStore == Store!Spec

=============================================================================
