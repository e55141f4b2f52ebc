------------------------- MODULE EpisodicMemoryProofs -------------------------
(***************************************************************************)
(* For every number of calls, principals and rows and every size of the    *)
(* pool: EpisodicMemory keeps its types, memory rows and their audit rows  *)
(* are one, and an id is only returned for a committed row.                *)
(***************************************************************************)
EXTENDS EpisodicMemory, TLAPS

Tx == {"tx_memory", "tx_audit", "tx_commit", "committed"}

\* A call stands at a statement of its own method.
AtItsMethod ==
    \A p \in Calls :
        /\ at[p] \in Tx => method[p] = "write"
        /\ at[p] \in {"find", "touch", "trail"} => method[p] = "recall"
        /\ at[p] = "list" => method[p] = "list"

\* Only a call with exactly one principal reaches the database.
OwnerResolved ==
    \A p \in Calls : at[p] \notin {"idle", "returned"} => Discriminated(owner[p])

\* No two calls hold the same new id, and what a transaction has not yet
\* committed is in no table.
DraftsApart ==
    /\ \A p, q \in Calls : p # q /\ draft[p] # 0 => draft[p] # draft[q]
    /\ \A p \in Calls : at[p] \in {"tx_audit", "tx_commit"} =>
          /\ draft[p] \in Id
          /\ \A m \in memories : m.id # draft[p]

\* A transaction that is over has left its row.
CommittedStored ==
    \A p \in Calls : at[p] = "committed" => Row(draft[p], owner[p]) \in memories

Control == AtItsMethod /\ OwnerResolved
Stored  == DraftsApart /\ CommittedStored /\ AckedWritesStored
IInv    == MemoryTypeOK /\ Control /\ Stored /\ RowsAndAuditAgree

\* Everything but the COMMIT and the audit row of a recall.
Quiet == UNCHANGED <<memories, audit>>

-----------------------------------------------------------------------------
LEMMA ConstantFacts ==
    /\ Id \subseteq Nat \ {0}
    /\ Users \cap Sessions = {} /\ Nobody \notin Users /\ Nobody \notin Sessions
  BY MemoryAssumption DEF Id

\* A resolved principal is a user or a session.
LEMMA ActorKnown ==
    ASSUME NEW w \in Owner, Discriminated(w)
    PROVE  ActorOf(w) \in Actor
  BY DEF Owner, Discriminated, ActorOf, Actor

\* A call keeps its types and its place when it starts.
LEMMA EnterStep ==
    ASSUME IInv, NEW p \in Calls, NEW o \in Methods, NEW w \in Owner, Begin(p, o, w)
    PROVE  MemoryTypeOK' /\ Control' /\ Stored' /\ Quiet
<1> USE DEF IInv
<1>1. PICK point \in Places, r \in Outcomes :
        /\ Start(p, o, w, point, r)
        /\ \/ point = FirstStatement(o) /\ Discriminated(w)
           \/ point = "returned" /\ r = "failed"
  BY DEF Begin, Receive, Accept, Refuse, FirstStatement, Methods, Places, Outcomes
<1>2. MemoryTypeOK' /\ Quiet
  BY <1>1 DEF MemoryTypeOK, Start, Quiet
<1>3. Control'
  BY <1>1 DEF MemoryTypeOK, Control, AtItsMethod, OwnerResolved, Start, FirstStatement, Methods, Tx
<1>4. at'[p] \notin {"tx_audit", "tx_commit", "committed"} /\ (at'[p] = "returned" => outcome'[p] = "failed")
  BY <1>1 DEF MemoryTypeOK, Start, FirstStatement, Methods
<1>5. /\ draft' = draft /\ memories' = memories
      /\ \A q \in Calls : q # p => at'[q] = at[q] /\ owner'[q] = owner[q] /\ outcome'[q] = outcome[q] /\ method'[q] = method[q]
  BY <1>1 DEF MemoryTypeOK, Start
<1>6. Stored'
  BY <1>4, <1>5 DEF Stored, DraftsApart, CommittedStored, AckedWritesStored, Row
<1>7. QED
  BY <1>2, <1>3, <1>6

\* Ending calls (their return, a cancellation, the end of the process) leaves
\* nothing behind.
LEMMA ForgetStep ==
    ASSUME IInv, NEW S \in SUBSET Calls, Forget(S)
    PROVE  MemoryTypeOK' /\ Control' /\ Stored' /\ Quiet
<1> USE DEF IInv
<1>1. MemoryTypeOK' /\ Quiet
  BY DEF MemoryTypeOK, Forget, Quiet, tables, Places, Methods, Outcomes, NoOwner, Owner
<1>2. Control'
  BY DEF MemoryTypeOK, Control, AtItsMethod, OwnerResolved, Forget, Tx
<1>3. Stored'
  BY DEF MemoryTypeOK, Stored, DraftsApart, CommittedStored, AckedWritesStored, Row, Forget, tables
<1>4. QED
  BY <1>1, <1>2, <1>3

LEMMA AcquireStep ==
    ASSUME IInv, NEW p \in Calls, Acquire(p)
    PROVE  MemoryTypeOK' /\ Control' /\ Stored' /\ Quiet
  BY DEF IInv, Acquire, MemoryTypeOK, Control, AtItsMethod, OwnerResolved, Stored, DraftsApart,
         CommittedStored, AckedWritesStored, Row, Quiet

-----------------------------------------------------------------------------
\* The new id is in no table and in no other transaction.
LEMMA InsertMemoryStep ==
    ASSUME IInv, NEW p \in Calls, InsertMemory(p)
    PROVE  MemoryTypeOK' /\ Control' /\ Stored' /\ Quiet
<1> USE DEF IInv
<1>1. PICK id \in Id \ Taken : draft' = [draft EXCEPT ![p] = id]
  BY DEF InsertMemory
<1>2. /\ \A m \in memories : m.id # id
      /\ \A q \in Calls : draft[q] # id
  BY <1>1 DEF Taken
<1>3. /\ at' = [at EXCEPT ![p] = "tx_audit"] /\ at[p] = "tx_memory"
      /\ UNCHANGED <<memories, audit, touched, method, owner, conn, hits, outcome>>
  BY DEF InsertMemory
<1>4. MemoryTypeOK' /\ Quiet
  BY <1>1, <1>3 DEF MemoryTypeOK, Quiet, Places
<1>5. Control'
  BY <1>3 DEF MemoryTypeOK, Control, AtItsMethod, OwnerResolved, Tx
<1>6. DraftsApart'
  BY <1>1, <1>2, <1>3 DEF MemoryTypeOK, Stored, DraftsApart
<1>7. CommittedStored' /\ AckedWritesStored'
  BY <1>1, <1>3 DEF MemoryTypeOK, Stored, CommittedStored, AckedWritesStored, Row
<1>8. QED
  BY <1>4, <1>5, <1>6, <1>7 DEF Stored

LEMMA InsertAuditStep ==
    ASSUME IInv, NEW p \in Calls, InsertAudit(p)
    PROVE  MemoryTypeOK' /\ Control' /\ Stored' /\ Quiet
<1> USE DEF IInv, InsertAudit
<1>1. MemoryTypeOK' /\ Quiet
  BY DEF MemoryTypeOK, Quiet, Places
<1>2. Control'
  BY DEF MemoryTypeOK, Control, AtItsMethod, OwnerResolved, Tx
<1>3. Stored'
  BY DEF MemoryTypeOK, Stored, DraftsApart, CommittedStored, AckedWritesStored, Row
<1>4. QED
  BY <1>1, <1>2, <1>3

LEMMA CommittedStep ==
    ASSUME IInv, NEW p \in Calls, Committed(p)
    PROVE  MemoryTypeOK' /\ Control' /\ Stored' /\ Quiet
<1> USE DEF IInv, Committed, Finish, Release
<1>1. MemoryTypeOK' /\ Quiet
  BY DEF MemoryTypeOK, Quiet, Places
<1>2. Control'
  BY DEF MemoryTypeOK, Control, AtItsMethod, OwnerResolved, Tx
<1>3. Stored'
  BY DEF MemoryTypeOK, Stored, DraftsApart, CommittedStored, AckedWritesStored, Row
<1>4. QED
  BY <1>1, <1>2, <1>3

\* A statement of recall or list, or a failure, ends or moves a call on and
\* gives its connection back.
LEMMA ReadStep ==
    ASSUME IInv, NEW p \in Calls, Find(p) \/ Touch(p) \/ List(p)
    PROVE  MemoryTypeOK' /\ Control' /\ Stored' /\ Quiet
<1> USE DEF IInv, Finish, Release
<1>1. Own(owner[p]) \subseteq Id
  BY DEF MemoryTypeOK, Own
<1>2. MemoryTypeOK' /\ Quiet
  <2>1. CASE Find(p)
    BY <1>1, <2>1 DEF MemoryTypeOK, Quiet, Places, Find
  <2>2. CASE Touch(p)
    BY <2>2 DEF MemoryTypeOK, Quiet, Places, Touch
  <2>3. CASE List(p)
    BY <1>1, <2>3 DEF MemoryTypeOK, Quiet, Places, Outcomes, List
  <2>4. QED
    BY <2>1, <2>2, <2>3
<1>3. Control'
  BY DEF MemoryTypeOK, Control, AtItsMethod, OwnerResolved, Tx, Find, Touch, List
<1>4. method[p] # "write"
  BY DEF Control, AtItsMethod, Find, Touch, List
<1>5. Stored'
  BY <1>4 DEF MemoryTypeOK, Stored, DraftsApart, CommittedStored, AckedWritesStored, Row,
              Find, Touch, List
<1>6. QED
  BY <1>2, <1>3, <1>5

LEMMA FailsStep ==
    ASSUME IInv, NEW p \in Calls, StatementFails(p)
    PROVE  MemoryTypeOK' /\ Control' /\ Stored' /\ Quiet
<1> USE DEF IInv, StatementFails, Finish, Release
<1>1. MemoryTypeOK' /\ Quiet
  BY DEF MemoryTypeOK, Quiet, Places, Outcomes
<1>2. Control'
  BY DEF MemoryTypeOK, Control, AtItsMethod, OwnerResolved, Tx
<1>3. at[p] = "trail" => method[p] # "write"
  BY DEF Control, AtItsMethod
<1>4. Stored'
  BY <1>3 DEF MemoryTypeOK, Stored, DraftsApart, CommittedStored, AckedWritesStored, Row
<1>5. QED
  BY <1>1, <1>2, <1>4

-----------------------------------------------------------------------------
(* The two steps that change what RowsAndAuditAgree speaks of.             *)

LEMMA TrailStep ==
    ASSUME IInv, NEW p \in Calls, Trail(p)
    PROVE  IInv'
<1> USE DEF Trail, Finish, Release
<1>1. owner[p] \in Owner /\ Discriminated(owner[p]) /\ method[p] # "write"
  BY DEF IInv, MemoryTypeOK, Control, AtItsMethod, OwnerResolved
<1>2. ActorOf(owner[p]) \in Actor
  BY <1>1, ActorKnown
<1>3. MemoryTypeOK'
  BY <1>2 DEF IInv, MemoryTypeOK, Places, Outcomes, Entry
<1>4. Control'
  BY DEF IInv, MemoryTypeOK, Control, AtItsMethod, OwnerResolved, Tx
<1>5. Stored'
  BY <1>1 DEF IInv, MemoryTypeOK, Stored, DraftsApart, CommittedStored, AckedWritesStored, Row
<1>6. Entry(owner[p], "memory_recall", 0).action # "memory_write"
  BY DEF Entry
<1>7. RowsAndAuditAgree'
  BY <1>6 DEF IInv, RowsAndAuditAgree
<1>8. QED
  BY <1>3, <1>4, <1>5, <1>7 DEF IInv

\* The COMMIT adds a row with an id of its own and exactly its audit row.
LEMMA CommitStep ==
    ASSUME IInv, NEW p \in Calls, Commit(p)
    PROVE  IInv'
<1> DEFINE new == Row(draft[p], owner[p])
<1>1. /\ owner[p] \in Owner /\ Discriminated(owner[p])
      /\ draft[p] \in Id /\ \A m \in memories : m.id # draft[p]
      /\ method[p] = "write"
  BY DEF IInv, MemoryTypeOK, Control, AtItsMethod, OwnerResolved, Stored, DraftsApart, Commit, Tx
<1>2. /\ new.id = draft[p] /\ Discriminated(new)
      /\ Entry(new, "memory_write", new.id) = Entry(owner[p], "memory_write", draft[p])
  BY <1>1 DEF Row, Discriminated, Entry, ActorOf
<1>3. /\ memories' = memories \cup {new}
      /\ audit' = audit \cup {Entry(new, "memory_write", new.id)}
      /\ at' = [at EXCEPT ![p] = "committed"] /\ at[p] = "tx_commit"
      /\ UNCHANGED <<touched, method, owner, conn, draft, hits, outcome>>
  BY <1>2 DEF Commit
<1>4. MemoryTypeOK'
  <2>1. ActorOf(owner[p]) \in Actor
    BY <1>1, ActorKnown
  <2>2. Entry(owner[p], "memory_write", draft[p])
           \in [actor : Actor, action : {"memory_write", "memory_recall"}, target : Id \cup {0}]
    BY <1>1, <2>1 DEF Entry
  <2>3. new \in [id : Id, user : Users \cup {Nobody}, widget : Sessions \cup {Nobody}]
    BY <1>1 DEF Owner, Row
  <2>4. QED
    BY <1>2, <1>3, <2>2, <2>3 DEF IInv, MemoryTypeOK, Places
<1>5. Control'
  BY <1>3 DEF IInv, MemoryTypeOK, Control, AtItsMethod, OwnerResolved, Tx
<1>6. DraftsApart'
  <2>1. \A q \in Calls : q # p => draft[q] # draft[p]
    BY <1>1, ConstantFacts DEF IInv, Stored, DraftsApart
  <2>2. QED
    BY <1>2, <1>3, <2>1 DEF IInv, MemoryTypeOK, Stored, DraftsApart
<1>7. CommittedStored' /\ AckedWritesStored'
  BY <1>3 DEF IInv, MemoryTypeOK, Stored, CommittedStored, AckedWritesStored, Row
<1>8. RowsAndAuditAgree'
  <2> HIDE DEF new
  <2>1. \A m \in memories' : Discriminated(m) /\ Entry(m, "memory_write", m.id) \in audit'
    BY <1>2, <1>3 DEF IInv, RowsAndAuditAgree
  <2>2. \A m, n \in memories' : m.id = n.id => m = n
    BY <1>1, <1>2, <1>3 DEF IInv, RowsAndAuditAgree
  <2>3. \A a \in audit' : a.action = "memory_write" =>
           \E m \in memories' : a = Entry(m, "memory_write", m.id)
    BY <1>3 DEF IInv, RowsAndAuditAgree
  <2>4. QED
    BY <2>1, <2>2, <2>3 DEF RowsAndAuditAgree
<1>9. QED
  BY <1>4, <1>5, <1>6, <1>7, <1>8 DEF IInv, Stored

-----------------------------------------------------------------------------
LEMMA InitInv == MemoryInit => IInv
  BY DEF MemoryInit, IInv, MemoryTypeOK, Control, AtItsMethod, OwnerResolved, Stored, DraftsApart,
         CommittedStored, AckedWritesStored, RowsAndAuditAgree, Places, Methods, Outcomes,
         Owner, NoOwner, Tx

\* A quiet step that keeps the rest of the invariant keeps all of it.
LEMMA QuietStep ==
    ASSUME IInv, MemoryTypeOK' /\ Control' /\ Stored' /\ Quiet
    PROVE  IInv'
  BY DEF IInv, Quiet, RowsAndAuditAgree

LEMMA Invariance == IInv /\ [MemoryNext]_memoryVars => IInv'
<1> SUFFICES ASSUME IInv, [MemoryNext]_memoryVars PROVE IInv'
  OBVIOUS
<1>1. ASSUME NEW p \in Calls, NEW o \in Methods, NEW w \in Owner, Begin(p, o, w) PROVE IInv'
  BY <1>1, EnterStep, QuietStep
<1>2. ASSUME NEW p \in Calls, CallStep(p) PROVE IInv'
  BY <1>2, AcquireStep, InsertMemoryStep, InsertAuditStep, CommitStep, CommittedStep,
     ReadStep, TrailStep, FailsStep, QuietStep DEF CallStep, Advance
<1>3. ASSUME NEW S \in SUBSET Calls, Forget(S) PROVE IInv'
  BY <1>3, ForgetStep, QuietStep
<1>4. CASE UNCHANGED memoryVars
  BY <1>4 DEF memoryVars, IInv, MemoryTypeOK, Control, AtItsMethod, OwnerResolved, Stored, DraftsApart,
              CommittedStored, AckedWritesStored, RowsAndAuditAgree
<1>5. QED
  BY <1>1, <1>2, <1>3, <1>4 DEF MemoryNext, Depart, Cancel

\* Types hold in every reachable state.
THEOREM TypeCorrect == MemorySpec => []MemoryTypeOK
<1>1. IInv => MemoryTypeOK
  BY DEF IInv
<1>2. QED
  BY <1>1, InitInv, Invariance, PTL DEF MemorySpec

\* The memory rows and the memory_write rows of the audit log match one to one,
\* whatever interleaves, fails, is cancelled or loses its answer
\* (insert_memory_with_audit).
THEOREM OneTransaction == MemorySpec => []RowsAndAuditAgree
<1>1. IInv => RowsAndAuditAgree
  BY DEF IInv
<1>2. QED
  BY <1>1, InitInv, Invariance, PTL DEF MemorySpec

\* MemoryService.write returns an id only for a committed row of its caller.
THEOREM WritesAreStored == MemorySpec => []AckedWritesStored
<1>1. IInv => AckedWritesStored
  BY DEF IInv, Stored
<1>2. QED
  BY <1>1, InitInv, Invariance, PTL DEF MemorySpec

=============================================================================
