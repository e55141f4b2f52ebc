--------------------------- MODULE EpisodicMemory ---------------------------
(***************************************************************************)
(* MemoryService (app/services/memory.py), GET /memory (app/api/memory.py) *)
(* and their SQL (app/repositories/memory.py, app/repositories/audit.py)   *)
(* over the connection pool of the process (app/infra/db.py).              *)
(*                                                                         *)
(* A call runs without interruption until it needs the database: the       *)
(* embedding is a blocking HTTP call.  From there on every await (waiting  *)
(* for a connection, a statement, the COMMIT and its answer) is a step.    *)
(* A memory is known by its id and the principal it belongs to; which of   *)
(* its owner's memories are similar to a query is left open.               *)
(***************************************************************************)
EXTENDS Integers, FiniteSets

CONSTANTS
    Calls,     \* coroutines that call the service
    Users,     \* user ids
    Sessions,  \* anonymous widget sessions
    Nobody,    \* an absent user_id or widget_session_id
    PoolSize,  \* max_size of the pool
    MaxRows    \* bound: memories the table can hold

ASSUME MemoryAssumption ==
    /\ Users \cap Sessions = {} /\ Nobody \notin Users \cup Sessions
    /\ PoolSize \in Nat \ {0}
    /\ MaxRows \in Nat

VARIABLES
    memories,  \* committed rows of episodic_memories
    audit,     \* committed rows of audit_log
    touched,   \* ids whose last_recalled_at is set
    at,        \* at[p]: where call p stands
    method,    \* method[p]: the method called
    owner,     \* owner[p]: the user_id / widget_session_id pair it was given
    conn,      \* conn[p]: it holds a connection of the pool
    draft,     \* draft[p]: id its transaction inserted, 0 before that
    hits,      \* hits[p]: ids it has read
    outcome    \* outcome[p]: how it ended, once at[p] = "returned"

tables     == <<memories, audit, touched>>
memoryVars == <<memories, audit, touched, at, method, owner, conn, draft, hits, outcome>>

Id       == 1..MaxRows
Actor    == Users \cup Sessions
Owner    == [user : Users \cup {Nobody}, widget : Sessions \cup {Nobody}]
NoOwner  == [user |-> Nobody, widget |-> Nobody]
Methods  == {"write", "recall", "list"}
Places   == {"idle", "tx_memory", "tx_audit", "tx_commit", "committed",
             "find", "touch", "trail", "list", "returned"}
Outcomes == {"ok", "failed"}

\* Mutant of Discriminated: only both at once is refused.
NotBoth(w) == w.user = Nobody \/ w.widget = Nobody

\* Exactly one discriminator is set.
Discriminated(w) == (w.user = Nobody) # (w.widget = Nobody)
ActorOf(w)       == IF w.user # Nobody THEN w.user ELSE w.widget

Row(id, w)        == [id |-> id, user |-> w.user, widget |-> w.widget]
Entry(w, act, id) == [actor |-> ActorOf(w), action |-> act, target |-> id]
Own(w)            == {m.id : m \in {m \in memories : m = Row(m.id, w)}}

MemoryTypeOK ==
    /\ memories \subseteq [id : Id, user : Users \cup {Nobody}, widget : Sessions \cup {Nobody}]
    /\ audit    \subseteq [actor  : Actor,
                           action : {"memory_write", "memory_recall"},
                           target : Id \cup {0}]
    /\ touched  \subseteq Id
    /\ at      \in [Calls -> Places]
    /\ method  \in [Calls -> Methods]
    /\ owner   \in [Calls -> Owner]
    /\ conn    \in [Calls -> BOOLEAN]
    /\ draft   \in [Calls -> Id \cup {0}]
    /\ hits    \in [Calls -> SUBSET Id]
    /\ outcome \in [Calls -> Outcomes]

MemoryInit ==
    /\ memories = {} /\ audit = {} /\ touched = {}
    /\ at      = [p \in Calls |-> "idle"]
    /\ method  = [p \in Calls |-> "list"]
    /\ owner   = [p \in Calls |-> NoOwner]
    /\ conn    = [p \in Calls |-> FALSE]
    /\ draft   = [p \in Calls |-> 0]
    /\ hits    = [p \in Calls |-> {}]
    /\ outcome = [p \in Calls |-> "ok"]

-----------------------------------------------------------------------------
(* Calling the service and returning from it.                              *)

Start(p, o, w, point, r) ==
    /\ method'  = [method EXCEPT ![p] = o]
    /\ owner'   = [owner EXCEPT ![p] = w]
    /\ at'      = [at EXCEPT ![p] = point]
    /\ outcome' = [outcome EXCEPT ![p] = r]
    /\ UNCHANGED <<memories, audit, touched, conn, draft, hits>>

FirstStatement(o) == [write |-> "tx_memory", recall |-> "find", list |-> "list"][o]

\* The checks passed and the model server returned an embedding.
Accept(p, o, w) ==
    /\ Discriminated(w)
    /\ Start(p, o, w, FirstStatement(o), "ok")

\* A bad discriminator, an empty text, or no usable embedding: write raises,
\* recall raises or returns nothing (a search that finds nothing does too).
\* list has only its discriminator to fail.
Refuse(p, o, w) ==
    /\ o = "list" => ~Discriminated(w)
    /\ Start(p, o, w, "returned", "failed")

Receive(p, o, w) == Accept(p, o, w) \/ Refuse(p, o, w)

Begin(p, o, w) == at[p] = "idle" /\ Receive(p, o, w)

Finish(p, r, ids) ==
    /\ at'      = [at EXCEPT ![p] = "returned"]
    /\ outcome' = [outcome EXCEPT ![p] = r]
    /\ hits'    = [hits EXCEPT ![p] = ids]

\* The coroutine is over: what it held and had not committed is gone.
Forget(S) ==
    /\ at'      = [p \in Calls |-> IF p \in S THEN "idle" ELSE at[p]]
    /\ method'  = [p \in Calls |-> IF p \in S THEN "list" ELSE method[p]]
    /\ owner'   = [p \in Calls |-> IF p \in S THEN NoOwner ELSE owner[p]]
    /\ conn'    = [p \in Calls |-> IF p \in S THEN FALSE ELSE conn[p]]
    /\ draft'   = [p \in Calls |-> IF p \in S THEN 0 ELSE draft[p]]
    /\ hits'    = [p \in Calls |-> IF p \in S THEN {} ELSE hits[p]]
    /\ outcome' = [p \in Calls |-> IF p \in S THEN "ok" ELSE outcome[p]]
    /\ UNCHANGED tables

Depart(p) == at[p] = "returned" /\ Forget({p})

\* Cancelled at an await (the client went away).
Cancel(p) == at[p] \notin {"idle", "returned"} /\ Forget({p})

-----------------------------------------------------------------------------
(* The pool.                                                               *)

NeedsConn == {"tx_memory", "find", "touch", "trail", "list"}
Exhausted == Cardinality({p \in Calls : conn[p]}) >= PoolSize

Acquire(p) ==
    /\ at[p] \in NeedsConn /\ ~conn[p]
    /\ ~Exhausted
    /\ conn' = [conn EXCEPT ![p] = TRUE]
    /\ UNCHANGED <<memories, audit, touched, at, method, owner, draft, hits, outcome>>

Release(p) == conn' = [conn EXCEPT ![p] = FALSE]

-----------------------------------------------------------------------------
(* write: both INSERTs on one connection, in one transaction.              *)

Taken == {m.id : m \in memories} \cup {draft[q] : q \in Calls}

InsertMemory(p) ==
    /\ at[p] = "tx_memory" /\ conn[p]
    /\ \E id \in Id \ Taken :
          /\ \A n \in Id \ Taken : id <= n
          /\ draft' = [draft EXCEPT ![p] = id]
    /\ at'    = [at EXCEPT ![p] = "tx_audit"]
    /\ UNCHANGED <<memories, audit, touched, method, owner, conn, hits, outcome>>

\* Mutant of InsertAudit: write_audit is not given the transaction's
\* connection, takes one of its own and commits there.
InsertAuditApart(p) ==
    /\ at[p] = "tx_audit"
    /\ ~Exhausted
    /\ audit' = audit \cup {Entry(owner[p], "memory_write", draft[p])}
    /\ at'    = [at EXCEPT ![p] = "tx_commit"]
    /\ UNCHANGED <<memories, touched, method, owner, conn, draft, hits, outcome>>

\* Mutant of InsertAudit: the id is returned without leaving the transaction.
InsertAuditReturns(p) ==
    /\ at[p] = "tx_audit"
    /\ Finish(p, "ok", {})
    /\ Release(p)
    /\ UNCHANGED <<memories, audit, touched, method, owner, draft>>

InsertAudit(p) ==
    /\ at[p] = "tx_audit"
    /\ at' = [at EXCEPT ![p] = "tx_commit"]
    /\ UNCHANGED <<memories, audit, touched, method, owner, conn, draft, hits, outcome>>

Commit(p) ==
    /\ at[p] = "tx_commit"
    /\ memories' = memories \cup {Row(draft[p], owner[p])}
    /\ audit'    = audit \cup {Entry(owner[p], "memory_write", draft[p])}
    /\ at'       = [at EXCEPT ![p] = "committed"]
    /\ UNCHANGED <<touched, method, owner, conn, draft, hits, outcome>>

\* The answer to the COMMIT arrives, or is lost with the connection.
Committed(p) ==
    /\ at[p] = "committed"
    /\ \E r \in Outcomes : Finish(p, r, {})
    /\ Release(p)
    /\ UNCHANGED <<memories, audit, touched, method, owner, draft>>

-----------------------------------------------------------------------------
(* recall: the search, then two side effects whose failures are swallowed. *)

Find(p) ==
    /\ at[p] = "find" /\ conn[p]
    /\ \E ids \in SUBSET Own(owner[p]) :
          /\ hits' = [hits EXCEPT ![p] = ids]
          /\ at'   = [at EXCEPT ![p] = IF ids = {} THEN "returned" ELSE "touch"]
    /\ Release(p)
    /\ UNCHANGED <<memories, audit, touched, method, owner, draft, outcome>>

Touch(p) ==
    /\ at[p] = "touch" /\ conn[p]
    /\ touched' = touched \cup hits[p]
    /\ at'      = [at EXCEPT ![p] = "trail"]
    /\ Release(p)
    /\ UNCHANGED <<memories, audit, method, owner, draft, hits, outcome>>

Trail(p) ==
    /\ at[p] = "trail" /\ conn[p]
    /\ audit' = audit \cup {Entry(owner[p], "memory_recall", 0)}
    /\ Finish(p, "ok", hits[p])
    /\ Release(p)
    /\ UNCHANGED <<memories, touched, method, owner, draft>>

\* GET /memory: the newest rows of the principal, up to the limit asked for.
List(p) ==
    /\ at[p] = "list" /\ conn[p]
    /\ \E ids \in SUBSET Own(owner[p]) : Finish(p, "ok", ids)
    /\ Release(p)
    /\ UNCHANGED <<memories, audit, touched, method, owner, draft>>

\* A connection that cannot be had, a statement that raises.
StatementFails(p) ==
    /\ \/ /\ at[p] \in {"tx_memory", "tx_audit", "tx_commit", "find", "list"}
          /\ Finish(p, "failed", {})
       \/ /\ at[p] = "touch"
          /\ at' = [at EXCEPT ![p] = "trail"]
          /\ UNCHANGED <<outcome, hits>>
       \/ /\ at[p] = "trail"
          /\ Finish(p, "ok", hits[p])
    /\ Release(p)
    /\ UNCHANGED <<memories, audit, touched, method, owner, draft>>

-----------------------------------------------------------------------------
(* The specification.                                                      *)

\* No id is left below the bound: the INSERT can only fail.
Full(p) == at[p] = "tx_memory" /\ conn[p] /\ Id \subseteq Taken

Advance(p) ==
    \/ Acquire(p)
    \/ InsertMemory(p) \/ InsertAudit(p) \/ Commit(p) \/ Committed(p)
    \/ Find(p) \/ Touch(p) \/ Trail(p) \/ List(p)
    \/ Full(p) /\ StatementFails(p)

CallStep(p) == Advance(p) \/ StatementFails(p)

MemoryNext ==
    \/ \E p \in Calls :
          \/ \E o \in Methods, w \in Owner : Begin(p, o, w)
          \/ CallStep(p)
          \/ Depart(p)
          \/ Cancel(p)
    \/ Forget(Calls)

\* Statements are answered.  A call that waits for a connection has no timeout:
\* nothing makes it fail, and nobody promises it the next free one.
MemoryFairness == \A p \in Calls : WF_memoryVars(Advance(p))

MemorySpec == MemoryInit /\ [][MemoryNext]_memoryVars /\ MemoryFairness

-----------------------------------------------------------------------------
(* What the memory promises.                                               *)

\* At every moment the rows of episodic_memories and the memory_write rows of
\* audit_log match one to one, each with one owner who is its actor, however
\* transactions interleave, roll back or lose their answer.
RowsAndAuditAgree ==
    /\ \A m \in memories :
          /\ Discriminated(m)
          /\ Entry(m, "memory_write", m.id) \in audit
    /\ \A m, n \in memories : m.id = n.id => m = n
    /\ \A a \in audit : a.action = "memory_write" =>
          \E m \in memories : a = Entry(m, "memory_write", m.id)

\* write returns an id only for a row that is committed and the caller's.
AckedWritesStored ==
    \A p \in Calls :
        at[p] = "returned" /\ method[p] = "write" /\ outcome[p] = "ok" =>
            Row(draft[p], owner[p]) \in memories

\* The pool is never exhausted for good: no call waits for a second
\* connection while it holds one (write_audit runs on its caller's).
PoolRecovers == Exhausted ~> ~Exhausted

=============================================================================
