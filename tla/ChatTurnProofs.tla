--------------------------- MODULE ChatTurnProofs ---------------------------
(***************************************************************************)
(* Proofs about ChatTurn, for any number of turns, principals, rows and    *)
(* iterations and every size of the pool.                                  *)
(*                                                                         *)
(* The argument: a call to the memory is under way only while its turn     *)
(* waits for it, for the principal in the turn's own context, and has read *)
(* only rows of that principal (PrivateAt).  Each tool call of the history *)
(* is answered or still to be run, in order (OwedAt), so none is open when *)
(* nothing is left to run.  The last event on the wire says where the turn *)
(* stands (OnWireAt), which is what its client may conclude from it.       *)
(***************************************************************************)
EXTENDS ChatTurn, TLAPS, FiniteSetTheorems

P == INSTANCE EpisodicMemoryProofs WITH
       Calls <- Turns, at <- mpc, method <- mop, outcome <- ret

LEMMA Constants ==
    /\ P!MemoryAssumption
    /\ MaxIter \in Nat \ {0}
    /\ Users \cap Sessions = {} /\ Nobody \notin Users \cup Sessions
  BY ChatAssumption DEF P!MemoryAssumption

-----------------------------------------------------------------------------
(* The memory of ChatTurn is the one EpisodicMemoryProofs is about.        *)

LEMMA SameData ==
    /\ M!Owner = P!Owner /\ M!NoOwner = P!NoOwner /\ M!Id = P!Id
    /\ \A w : M!Own(w) = P!Own(w) /\ (M!Discriminated(w) <=> P!Discriminated(w))
  BY DEF M!Owner, P!Owner, M!NoOwner, P!NoOwner, M!Id, P!Id, M!Own, P!Own, M!Row, P!Row,
         M!Discriminated, P!Discriminated

LEMMA SameTypes == M!MemoryTypeOK <=> P!MemoryTypeOK
  BY DEF M!MemoryTypeOK, P!MemoryTypeOK, M!Owner, P!Owner, M!Id, P!Id, M!Actor, P!Actor, M!Methods, P!Methods,
         M!Places, P!Places, M!Outcomes, P!Outcomes

LEMMA SameInit == M!MemoryInit <=> P!MemoryInit
  BY DEF M!MemoryInit, P!MemoryInit, M!NoOwner, P!NoOwner

LEMMA SameEnter == \A t, o, w : M!Receive(t, o, w) <=> P!Receive(t, o, w)
  BY DEF M!Receive, P!Receive, M!Accept, P!Accept, M!Refuse, P!Refuse, M!Start, P!Start,
         M!FirstStatement, P!FirstStatement, M!Discriminated, P!Discriminated

LEMMA SameForget == \A T : M!Forget(T) <=> P!Forget(T)
  BY DEF M!Forget, P!Forget, M!tables, P!tables, M!NoOwner, P!NoOwner

LEMMA SameStep == \A t : M!CallStep(t) <=> P!CallStep(t)
<1> TAKE t
<1> USE DEF M!Finish, P!Finish, M!Release, P!Release
<1>1. M!Acquire(t) <=> P!Acquire(t)
  BY DEF M!Acquire, P!Acquire, M!NeedsConn, P!NeedsConn, M!Exhausted, P!Exhausted,
         M!Cardinality, P!Cardinality
<1>2. M!InsertMemory(t) <=> P!InsertMemory(t)
  BY DEF M!InsertMemory, P!InsertMemory, M!Taken, P!Taken, M!Id, P!Id
<1>3. (M!InsertAudit(t) <=> P!InsertAudit(t)) /\ (M!Commit(t) <=> P!Commit(t))
  BY DEF M!InsertAudit, P!InsertAudit, M!Commit, P!Commit, M!Row, P!Row, M!Entry, P!Entry,
         M!ActorOf, P!ActorOf
<1>4. M!Committed(t) <=> P!Committed(t)
  BY DEF M!Committed, P!Committed, M!Outcomes, P!Outcomes
<1>5. (M!Find(t) <=> P!Find(t)) /\ (M!List(t) <=> P!List(t))
  BY SameData DEF M!Find, P!Find, M!List, P!List
<1>6. (M!Touch(t) <=> P!Touch(t)) /\ (M!Trail(t) <=> P!Trail(t))
  BY DEF M!Touch, P!Touch, M!Trail, P!Trail, M!Entry, P!Entry, M!ActorOf, P!ActorOf
<1>7. M!StatementFails(t) <=> P!StatementFails(t)
  BY DEF M!StatementFails, P!StatementFails
<1>8. M!Full(t) <=> P!Full(t)
  BY DEF M!Full, P!Full, M!Taken, P!Taken, M!Id, P!Id
<1>9. QED
  BY <1>1, <1>2, <1>3, <1>4, <1>5, <1>6, <1>7, <1>8 DEF M!CallStep, P!CallStep, M!Advance, P!Advance

-----------------------------------------------------------------------------
(* The invariant.                                                          *)

\* A call to the memory runs only while its turn waits for it, for the
\* principal of the turn's context, and holds only what is that principal's.
PrivateAt(t) ==
    /\ ctx[t] = who[t]
    /\ pc[t] \notin {"recall", "saving"} => mpc[t] = "idle"
    /\ mpc[t] = "idle" => hits[t] = {}
    /\ pc[t] \in {"idle", "recall"} => prompt[t] = {}
    /\ mpc[t] # "idle" => owner[t] = who[t]
    /\ hits[t] \subseteq M!Own(who[t])
    /\ prompt[t] \subseteq M!Own(who[t])

\* The message that answers call n.
AnswerTo(n) == [role |-> "tool", ids |-> <<n>>]

\* In history ms, with the tool calls cs still to be run, the k-th call of the
\* i-th message is answered or to be run.
OwedIn(ms, cs) ==
    \A i \in 1..Len(ms) :
        ms[i].role = "assistant" =>
            \A k \in 1..Len(ms[i].ids) :
                IF i + k <= Len(ms) THEN ms[i + k] = AnswerTo(ms[i].ids[k])
                ELSE /\ i + k - Len(ms) \in 1..Len(cs)
                     /\ cs[i + k - Len(ms)].id = ms[i].ids[k]

OwedAt(t) ==
    /\ pc[t] \in {"llm", "tools", "run", "saving"} => OwedIn(messages[t], calls[t])
    /\ pc[t] \in {"idle", "recall", "llm"} => calls[t] = <<>>
    /\ pc[t] \in {"run", "saving"} => calls[t] # <<>>

Started(t) == S!About("tool_call_start", Head(calls[t]).name)

\* What the client was sent last.
OnWireAt(t) ==
    /\ pc[t] \in {"idle", "recall"} => wire[t] = S!Nothing
    /\ pc[t] \in {"llm", "tools"} => S!Open(wire[t])
    /\ pc[t] \in {"run", "saving"} => wire[t] = Started(t)
    /\ pc[t] = "over" => S!Open(wire[t]) \/ wire[t] = S!Error
    /\ pc[t] = "close" => wire[t] = S!Done
    /\ pc[t] = "ended" => wire[t] = S!Terminator
    /\ pc[t] = "gone" => wire[t] = S!Cut

Wired == wire = [t \in Turns |-> wire[t]]

TurnTypes ==
    /\ pc       \in [Turns -> Points]
    /\ who      \in [Turns -> M!Owner]
    /\ ctx      \in [Turns -> M!Owner]
    /\ iter     \in [Turns -> 0..MaxIter]
    /\ calls    \in [Turns -> Seq(ToolCall)]
    /\ messages \in [Turns -> Seq(Message)]
    /\ prompt   \in [Turns -> SUBSET M!Id]

At(t)   == PrivateAt(t) /\ OwedAt(t) /\ OnWireAt(t)
ChatInv == P!IInv /\ TurnTypes /\ Wired /\ \A t \in Turns : At(t)

LEMMA TypeParts == TypeOK <=> P!MemoryTypeOK /\ TurnTypes
  BY SameTypes DEF TypeOK, TurnTypes

-----------------------------------------------------------------------------
(* The histories of a turn.                                                *)

LEMMA AskingOwes ==
    ASSUME NEW ms \in Seq(Message), OwedIn(ms, <<>>), NEW cs \in Seq(ToolCall)
    PROVE  OwedIn(Append(ms, [role |-> "assistant", ids |-> [i \in 1..Len(cs) |-> cs[i].id]]), cs)
<1> DEFINE m   == [role |-> "assistant", ids |-> [i \in 1..Len(cs) |-> cs[i].id]]
           new == Append(ms, m)
<1>1. Len(cs) \in Nat /\ Len(ms) \in Nat
  OBVIOUS
<1>2. Len(new) = Len(ms) + 1 /\ new[Len(ms) + 1] = m /\ \A i \in 1..Len(ms) : new[i] = ms[i]
  OBVIOUS
<1>3. m.ids = [i \in 1..Len(cs) |-> cs[i].id]
  OBVIOUS
<1>4. Len(m.ids) = Len(cs) /\ \A k \in 1..Len(cs) : m.ids[k] = cs[k].id
  BY <1>1, <1>3
<1> SUFFICES OwedIn(new, cs)
  OBVIOUS
<1> HIDE DEF new, m
<1>5. SUFFICES ASSUME NEW i \in 1..Len(new), new[i].role = "assistant",
                      NEW k \in 1..Len(new[i].ids)
               PROVE  IF i + k <= Len(new) THEN new[i + k] = AnswerTo(new[i].ids[k])
                      ELSE /\ i + k - Len(new) \in 1..Len(cs)
                           /\ cs[i + k - Len(new)].id = new[i].ids[k]
  BY DEF OwedIn
<1>6. CASE i = Len(ms) + 1
  <2>1. new[i].ids = m.ids /\ k \in 1..Len(cs) /\ i + k - Len(new) = k /\ ~(i + k <= Len(new))
    BY <1>1, <1>2, <1>4, <1>6
  <2>2. QED
    BY <1>4, <2>1
<1>7. CASE i \in 1..Len(ms)
  <2>1. new[i] = ms[i]
    BY <1>2, <1>7
  <2>2. k \in Nat /\ i + k <= Len(ms) /\ ms[i + k] = AnswerTo(ms[i].ids[k])
    <3>1. k \in 1..Len(ms[i].ids) /\ ms[i].role = "assistant"
      BY <1>5, <2>1
    <3>2. Len(<<>>) = 0 /\ k \in Nat
      BY <3>1
    <3>3. IF i + k <= Len(ms) THEN ms[i + k] = AnswerTo(ms[i].ids[k])
          ELSE i + k - Len(ms) \in 1..Len(<<>>)
      BY <1>7, <3>1 DEF OwedIn
    <3>4. QED
      BY <1>1, <1>7, <3>2, <3>3
  <2>3. i + k \in 1..Len(ms)
    BY <1>1, <1>7, <2>2
  <2>4. QED
    BY <1>1, <1>2, <2>1, <2>2, <2>3
<1>8. QED
  BY <1>1, <1>2, <1>6, <1>7

LEMMA AnsweringPays ==
    ASSUME NEW ms \in Seq(Message), NEW cs \in Seq(ToolCall), cs # <<>>, OwedIn(ms, cs)
    PROVE  OwedIn(Append(ms, AnswerTo(Head(cs).id)), Tail(cs))
<1> DEFINE m    == AnswerTo(Head(cs).id)
           new  == Append(ms, m)
           rest == Tail(cs)
<1>1. Len(cs) \in Nat /\ Len(cs) > 0 /\ Len(ms) \in Nat
  OBVIOUS
<1>2. Len(new) = Len(ms) + 1 /\ new[Len(ms) + 1] = m /\ \A i \in 1..Len(ms) : new[i] = ms[i]
  OBVIOUS
<1>3. Len(rest) = Len(cs) - 1 /\ \A k \in 1..Len(rest) : rest[k] = cs[k + 1]
  OBVIOUS
<1>4. m = AnswerTo(cs[1].id) /\ m.role = "tool"
  BY DEF AnswerTo
<1> HIDE DEF new, rest, m
<1>5. SUFFICES ASSUME NEW i \in 1..Len(new), new[i].role = "assistant",
                      NEW k \in 1..Len(new[i].ids)
               PROVE  IF i + k <= Len(new) THEN new[i + k] = AnswerTo(new[i].ids[k])
                      ELSE /\ i + k - Len(new) \in 1..Len(rest)
                           /\ rest[i + k - Len(new)].id = new[i].ids[k]
  BY DEF OwedIn, new, rest, m
<1>6. i \in 1..Len(ms) /\ new[i] = ms[i]
  <2>1. i # Len(ms) + 1
    BY <1>2, <1>4, <1>5
  <2>2. QED
    BY <1>1, <1>2, <2>1
<1>7. /\ k \in 1..Len(ms[i].ids) /\ k \in Nat
      /\ IF i + k <= Len(ms) THEN ms[i + k] = AnswerTo(ms[i].ids[k])
         ELSE /\ i + k - Len(ms) \in 1..Len(cs)
              /\ cs[i + k - Len(ms)].id = ms[i].ids[k]
  <2>1. ms[i].role = "assistant" /\ k \in 1..Len(ms[i].ids)
    BY <1>5, <1>6
  <2>2. k \in Nat
    BY <2>1
  <2>3. QED
    BY <1>6, <2>1, <2>2 DEF OwedIn
<1>8. CASE i + k <= Len(ms)
  <2>1. i + k \in 1..Len(ms) /\ i + k <= Len(new)
    BY <1>1, <1>2, <1>6, <1>7, <1>8
  <2>2. QED
    BY <1>2, <1>6, <1>7, <1>8, <2>1
<1>9. CASE i + k = Len(ms) + 1
  <2>1. i + k <= Len(new) /\ new[i + k] = m /\ i + k - Len(ms) = 1 /\ ~(i + k <= Len(ms))
    BY <1>1, <1>2, <1>9
  <2>2. cs[1].id = ms[i].ids[k]
    BY <1>7, <2>1
  <2>3. QED
    BY <1>4, <1>6, <2>1, <2>2
<1>10. CASE i + k > Len(ms) + 1
  <2> DEFINE n == i + k - Len(new)
  <2>1. n \in Nat /\ n >= 1 /\ i + k - Len(ms) = n + 1 /\ ~(i + k <= Len(ms)) /\ ~(i + k <= Len(new))
    <3>1. i \in Nat /\ k \in Nat /\ Len(ms) \in Nat /\ Len(new) = Len(ms) + 1
      BY <1>1, <1>2, <1>6, <1>7
    <3>2. QED
      BY <1>10, <3>1
  <2>2. n + 1 \in 1..Len(cs) /\ cs[n + 1].id = ms[i].ids[k]
    BY <1>7, <2>1
  <2>3. n \in 1..Len(rest)
    BY <1>1, <1>3, <2>1, <2>2
  <2>4. QED
    BY <1>3, <1>6, <2>1, <2>2, <2>3
<1>11. i \in Nat /\ k \in Nat /\ Len(ms) \in Nat
  BY <1>1, <1>6, <1>7
<1>12. i + k <= Len(ms) \/ i + k = Len(ms) + 1 \/ i + k > Len(ms) + 1
  BY <1>11
<1>13. QED
  BY <1>8, <1>9, <1>10, <1>12

-----------------------------------------------------------------------------
(* The memory under a turn.                                                *)

\* What is kept of a turn that a step is not about.
Rests(u) ==
    /\ pc'[u] = pc[u] /\ who'[u] = who[u] /\ ctx'[u] = ctx[u]
    /\ mpc'[u] = mpc[u] /\ owner'[u] = owner[u] /\ hits'[u] = hits[u]
    /\ calls'[u] = calls[u] /\ messages'[u] = messages[u]
    /\ prompt'[u] = prompt[u] /\ wire'[u] = wire[u]

OthersRest(t) == \A u \in Turns \ {t} : Rests(u)
Grows         == memories \subseteq memories'

LEMMA Resting ==
    ASSUME NEW u \in Turns, At(u), Grows, Rests(u)
    PROVE  At(u)'
<1> USE DEF Rests, At
<1>1. \A w : M!Own(w) \subseteq {m.id : m \in {m \in memories' : m = M!Row(m.id, w)}}
  BY DEF M!Own, Grows
<1>2. PrivateAt(u)'
  BY <1>1 DEF PrivateAt, M!Own
<1>3. OwedAt(u)'
  <2>1. OwedIn(messages'[u], calls'[u]) <=> OwedIn(messages[u], calls[u])
    OBVIOUS
  <2>2. QED
    BY <2>1 DEF OwedAt
<1>4. OnWireAt(u)'
  BY DEF OnWireAt, Started
<1>5. QED
  BY <1>2, <1>3, <1>4

LEMMA MemoryRests ==
    ASSUME P!IInv, UNCHANGED memory
    PROVE  P!IInv' /\ Grows /\ \A u \in Turns : /\ mpc'[u] = mpc[u]
                                               /\ owner'[u] = owner[u]
                                               /\ hits'[u] = hits[u]
<1>1. UNCHANGED P!memoryVars
  BY DEF memory, P!memoryVars
<1>2. QED
  BY <1>1, Constants, P!Invariance DEF memory, Grows

LEMMA MemoryCalled ==
    ASSUME P!IInv, NEW t \in Turns, NEW o \in P!Methods, NEW w \in P!Owner,
           mpc[t] = "idle", M!Receive(t, o, w)
    PROVE  /\ P!IInv' /\ Grows
           /\ mpc'[t] # "idle" /\ owner'[t] = w /\ hits' = hits
           /\ \A u \in Turns \ {t} : mpc'[u] = mpc[u] /\ owner'[u] = owner[u]
<1>1. P!Receive(t, o, w)
  BY SameEnter
<1>2. P!Begin(t, o, w)
  BY <1>1 DEF P!Begin
<1>3. P!IInv' /\ UNCHANGED memories
  BY <1>2, Constants, P!EnterStep, P!QuietStep DEF P!Quiet
<1>4. P!MemoryTypeOK
  BY DEF P!IInv
<1>5. QED
  BY <1>1, <1>3, <1>4 DEF Grows, P!Receive, P!Accept, P!Refuse, P!Start, P!FirstStatement,
     P!MemoryTypeOK, P!Methods

LEMMA MemoryForgets ==
    ASSUME P!IInv, NEW T \in SUBSET Turns, M!Forget(T)
    PROVE  /\ P!IInv' /\ Grows
           /\ \A u \in T : mpc'[u] = "idle" /\ hits'[u] = {}
           /\ \A u \in Turns \ T : /\ mpc'[u] = mpc[u] /\ owner'[u] = owner[u]
                                   /\ hits'[u] = hits[u]
<1>1. P!Forget(T)
  BY SameForget
<1>2. P!IInv'
  BY <1>1, Constants, P!ForgetStep, P!QuietStep
<1>3. QED
  BY <1>1, <1>2 DEF Grows, P!Forget, P!tables

LEMMA MemorySteps ==
    ASSUME P!IInv, NEW t \in Turns, M!CallStep(t)
    PROVE  /\ P!IInv' /\ Grows
           /\ mpc[t] # "idle" /\ mpc'[t] # "idle" /\ owner' = owner
           /\ hits'[t] \subseteq hits[t] \cup M!Own(owner[t])
           /\ \A u \in Turns \ {t} : mpc'[u] = mpc[u] /\ hits'[u] = hits[u]
<1>1. P!CallStep(t)
  BY SameStep
<1>2. P!IInv'
  BY <1>1, Constants, P!Invariance DEF P!MemoryNext
<1>3. P!MemoryTypeOK
  BY DEF P!IInv
<1> DEFINE Ids == hits[t] \cup P!Own(owner[t])
           Effect == /\ mpc[t] # "idle" /\ mpc'[t] # "idle" /\ owner' = owner
                     /\ memories \subseteq memories' /\ hits'[t] \subseteq Ids
                     /\ \A u \in Turns \ {t} : mpc'[u] = mpc[u] /\ hits'[u] = hits[u]
<1> USE DEF P!Finish, P!Release
<1>4. P!Acquire(t) => Effect
  BY <1>3 DEF P!MemoryTypeOK, P!Acquire, P!NeedsConn
<1>5. P!InsertMemory(t) \/ P!InsertAudit(t) \/ P!Commit(t) => Effect
  BY <1>3 DEF P!MemoryTypeOK, P!InsertMemory, P!InsertAudit, P!Commit
<1>6. P!Committed(t) \/ P!Touch(t) \/ P!Trail(t) => Effect
  BY <1>3 DEF P!MemoryTypeOK, P!Committed, P!Touch, P!Trail
<1>7. P!Find(t) \/ P!List(t) => Effect
  BY <1>3 DEF P!MemoryTypeOK, P!Find, P!List
<1>8. P!StatementFails(t) => Effect
  BY <1>3 DEF P!MemoryTypeOK, P!StatementFails
<1>9. Effect
  BY <1>1, <1>4, <1>5, <1>6, <1>7, <1>8 DEF P!CallStep, P!Advance
<1>10. QED
  BY <1>2, <1>9, SameData DEF Grows

-----------------------------------------------------------------------------
(* One event on the wire.                                                  *)

LEMMA Speaks ==
    ASSUME Wired, NEW t \in Turns, NEW f \in S!Events, S!Follows(wire[t], f), Say(t, f)
    PROVE  S!Next /\ Wired' /\ wire'[t] = f /\ \A u \in Turns \ {t} : wire'[u] = wire[u]
<1>1. wire' = [wire EXCEPT ![t] = f]
  BY DEF Say
<1>2. S!Next
  BY <1>1 DEF S!Next
<1>3. QED
  BY <1>1, <1>2 DEF Wired

-----------------------------------------------------------------------------
(* What a step of turn t has to show.                                      *)

Moved(t) ==
    /\ P!IInv' /\ Grows
    /\ TurnTypes' /\ Wired'
    /\ PrivateAt(t)' /\ OwedAt(t)' /\ OnWireAt(t)'
    /\ OthersRest(t)
    /\ [S!Next]_wire

LEMMA MovedKeeps ==
    ASSUME ChatInv, NEW t \in Turns, Moved(t)
    PROVE  ChatInv' /\ [S!Next]_wire
<1>1. At(t)'
  BY DEF Moved, At
<1>2. ASSUME NEW u \in Turns \ {t} PROVE At(u)'
  BY Resting DEF Moved, OthersRest, ChatInv
<1>3. QED
  BY <1>1, <1>2 DEF Moved, ChatInv

\* A request has an owner, and what is dropped has none.
LEMMA PrincipalFacts == Principals \subseteq M!Owner /\ M!NoOwner \in M!Owner
  BY DEF Principals, M!NoOwner, M!Owner

LEMMA RequestMoves ==
    ASSUME ChatInv, NEW t \in Turns, Request(t)
    PROVE  Moved(t)
<1> USE DEF ChatInv, At
<1>1. PICK w \in Principals : /\ who' = [who EXCEPT ![t] = w]
                              /\ ctx' = [ctx EXCEPT ![t] = w]
                              /\ M!Receive(t, "recall", w)
  BY DEF Request, Context
<1>2. /\ pc[t] = "idle" /\ pc' = [pc EXCEPT ![t] = "recall"]
      /\ UNCHANGED <<iter, calls, messages, prompt, wire>>
  BY DEF Request, Goto
<1>3. w \in M!Owner
  BY PrincipalFacts
<1>4. mpc[t] = "idle" /\ hits[t] = {} /\ prompt[t] = {} /\ calls[t] = <<>> /\ wire[t] = S!Nothing
  BY <1>2 DEF PrivateAt, OwedAt, OnWireAt
<1>5. /\ P!IInv' /\ Grows
      /\ mpc'[t] # "idle" /\ owner'[t] = w /\ hits' = hits
      /\ \A u \in Turns \ {t} : mpc'[u] = mpc[u] /\ owner'[u] = owner[u]
  <2>1. "recall" \in P!Methods /\ w \in P!Owner
    BY <1>3, SameData DEF P!Methods
  <2>2. QED
    BY <1>1, <1>4, <2>1, MemoryCalled
<1>6. TurnTypes'
  BY <1>1, <1>2, <1>3 DEF TurnTypes, Points
<1>7. pc'[t] = "recall" /\ who'[t] = w /\ ctx'[t] = w
  BY <1>1, <1>2 DEF TurnTypes
<1>8. PrivateAt(t)'
  BY <1>2, <1>4, <1>5, <1>7 DEF PrivateAt
<1>9. OwedAt(t)' /\ OnWireAt(t)'
  BY <1>2, <1>4, <1>7 DEF OwedAt, OnWireAt
<1>10. OthersRest(t)
  BY <1>1, <1>2, <1>5 DEF OthersRest, Rests, TurnTypes
<1>11. Wired' /\ UNCHANGED wire
  BY <1>2 DEF Wired
<1>12. QED
  BY <1>5, <1>6, <1>8, <1>9, <1>10, <1>11 DEF Moved

LEMMA RecalledMoves ==
    ASSUME ChatInv, NEW t \in Turns, Recalled(t)
    PROVE  Moved(t)
<1> USE DEF ChatInv, At
<1> DEFINE first == <<[role |-> "user", ids |-> <<>>]>>
<1>1. /\ pc[t] = "recall" /\ pc' = [pc EXCEPT ![t] = "llm"]
      /\ prompt' = [prompt EXCEPT ![t] = hits[t]]
      /\ messages' = [messages EXCEPT ![t] = first]
      /\ iter' = [iter EXCEPT ![t] = 1]
      /\ UNCHANGED <<who, ctx, calls, wire>>
      /\ M!Forget({t})
  BY DEF Recalled, Goto, M!Depart
<1>2. first \in Seq(Message) /\ OwedIn(first, <<>>)
  BY DEF Message, OwedIn
<1> HIDE DEF first
<1>3. /\ P!IInv' /\ Grows
      /\ mpc'[t] = "idle" /\ hits'[t] = {}
      /\ \A u \in Turns \ {t} : mpc'[u] = mpc[u] /\ owner'[u] = owner[u] /\ hits'[u] = hits[u]
  BY <1>1, MemoryForgets
<1>4. hits[t] \in SUBSET M!Id /\ hits[t] \subseteq M!Own(who[t]) /\ ctx[t] = who[t]
  BY SameData DEF P!IInv, P!MemoryTypeOK, PrivateAt
<1>5. TurnTypes'
  BY <1>1, <1>2, <1>4, ChatAssumption DEF TurnTypes, Points
<1>6. /\ pc'[t] = "llm" /\ prompt'[t] = hits[t] /\ messages'[t] = first
      /\ who'[t] = who[t] /\ ctx'[t] = who[t]
  BY <1>1, <1>4 DEF TurnTypes
<1>7. PrivateAt(t)'
  <2>1. prompt'[t] \subseteq M!Own(who'[t])
    BY <1>4, <1>6
  <2>2. prompt'[t] \subseteq {m.id : m \in {m \in memories' : m = M!Row(m.id, who'[t])}}
    BY <1>3, <2>1 DEF M!Own, Grows
  <2>3. QED
    BY <1>3, <1>6, <2>2 DEF PrivateAt, M!Own
<1>8. OwedAt(t)'
  BY <1>1, <1>2, <1>6 DEF OwedAt
<1>9. OnWireAt(t)'
  BY <1>1, <1>6 DEF OnWireAt, S!Open
<1>10. OthersRest(t)
  BY <1>1, <1>3 DEF OthersRest, Rests, TurnTypes
<1>11. Wired' /\ UNCHANGED wire
  BY <1>1 DEF Wired
<1>12. QED
  BY <1>3, <1>5, <1>7, <1>8, <1>9, <1>10, <1>11 DEF Moved

-----------------------------------------------------------------------------
(* Steps that leave the memory, the context and the history alone.         *)

LEMMA Proceeds ==
    ASSUME ChatInv, NEW t \in Turns, NEW point \in {"llm", "tools", "run", "over", "close"},
           pc[t] \in {"llm", "tools", "run", "over"}, Goto(t, point),
           UNCHANGED <<memory, who, ctx, calls, messages, prompt>>,
           iter' \in [Turns -> 0..MaxIter],
           point \in {"llm", "tools", "run"} => pc[t] \in {"llm", "tools", "run"},
           point = "llm" => calls[t] = <<>>,
           point = "run" => calls[t] # <<>>,
           Wired', [S!Next]_wire, \A u \in Turns \ {t} : wire'[u] = wire[u],
           OnWireAt(t)'
    PROVE  Moved(t)
<1> USE DEF ChatInv, At, Goto
<1>1. P!IInv' /\ Grows /\ \A u \in Turns : /\ mpc'[u] = mpc[u] /\ owner'[u] = owner[u]
                                            /\ hits'[u] = hits[u]
  BY MemoryRests
<1>2. TurnTypes'
  BY DEF TurnTypes, Points
<1>3. pc'[t] = point
  BY DEF TurnTypes
<1>4. PrivateAt(t)'
  <2>1. memories' = memories /\ who' = who /\ ctx' = ctx /\ prompt' = prompt
    BY DEF memory
  <2>2. pc[t] \notin {"idle", "recall", "saving"} /\ pc'[t] \notin {"idle", "recall", "saving"}
    BY <1>3
  <2>3. PrivateAt(t)
    OBVIOUS
  <2>4. QED
    BY <1>1, <2>1, <2>2, <2>3 DEF PrivateAt, M!Own
<1>5. OwedAt(t)'
  <2>1. point \in {"llm", "tools", "run"} => OwedIn(messages[t], calls[t])
    BY DEF OwedAt
  <2>2. OwedIn(messages'[t], calls'[t]) <=> OwedIn(messages[t], calls[t])
    OBVIOUS
  <2>3. QED
    BY <1>3, <2>1, <2>2 DEF OwedAt
<1>6. OthersRest(t)
  BY <1>1 DEF OthersRest, Rests, TurnTypes
<1>7. QED
  BY <1>1, <1>2, <1>4, <1>5, <1>6 DEF Moved

\* The same when nothing is said.
LEMMA ProceedsSilently ==
    ASSUME ChatInv, NEW t \in Turns, NEW point \in {"llm", "over"},
           pc[t] \in {"llm", "tools"}, Goto(t, point),
           UNCHANGED <<memory, who, ctx, calls, messages, prompt, wire>>,
           iter' \in [Turns -> 0..MaxIter],
           point = "llm" => calls[t] = <<>>
    PROVE  Moved(t)
<1>1. Wired' /\ [S!Next]_wire
  BY DEF ChatInv, Wired
<1>2. OnWireAt(t)'
  BY DEF ChatInv, At, OnWireAt, Goto, TurnTypes
<1>3. QED
  BY <1>1, <1>2, Proceeds

\* The same when event f is said.
LEMMA ProceedsAloud ==
    ASSUME ChatInv, NEW t \in Turns, NEW point \in {"llm", "run", "over", "close"},
           pc[t] \in {"llm", "tools", "run", "over"}, pc' = [pc EXCEPT ![t] = point],
           UNCHANGED <<memory, who, ctx, iter, calls, messages, prompt>>,
           point = "llm" => pc[t] = "llm",
           point = "run" => pc[t] = "tools" /\ calls[t] # <<>>,
           NEW f \in S!Events, Say(t, f), S!Follows(wire[t], f),
           point = "llm" => f = S!Token,
           point = "run" => f = Started(t),
           point = "over" => f = S!Error,
           point = "close" => f = S!Done
    PROVE  Moved(t)
<1>1. Wired' /\ S!Next /\ wire'[t] = f /\ \A u \in Turns \ {t} : wire'[u] = wire[u]
  BY Speaks DEF ChatInv
<1>2. pc'[t] = point
  BY DEF ChatInv, TurnTypes
<1>3. OnWireAt(t)'
  BY <1>1, <1>2 DEF OnWireAt, Started, S!Open
<1>4. point = "llm" => calls[t] = <<>>
  BY DEF ChatInv, At, OwedAt
<1>5. iter' \in [Turns -> 0..MaxIter]
  BY DEF ChatInv, TurnTypes
<1>6. QED
  BY <1>1, <1>3, <1>4, <1>5, Proceeds DEF Goto

LEMMA ModelMoves ==
    ASSUME ChatInv, NEW t \in Turns, Token(t) \/ Answered(t) \/ StreamFails(t)
    PROVE  Moved(t)
<1>1. pc[t] = "llm" /\ S!Open(wire[t])
  BY DEF Token, Answered, StreamFails, ChatInv, At, OnWireAt
<1>2. pc \in [Turns -> Points] /\ iter \in [Turns -> 0..MaxIter]
  BY DEF ChatInv, TurnTypes
<1>3. CASE Token(t)
  <2>1. pc' = [pc EXCEPT ![t] = "llm"]
    BY <1>1, <1>2, <1>3 DEF Token
  <2>2. S!Token \in S!Events /\ S!Follows(wire[t], S!Token)
    BY <1>1 DEF S!Events, S!Follows
  <2>3. QED
    BY <1>1, <1>3, <2>1, <2>2, ProceedsAloud DEF Token
<1>4. CASE Answered(t)
  BY <1>1, <1>2, <1>4, ProceedsSilently DEF Answered
<1>5. CASE StreamFails(t)
  <2>1. S!Error \in S!Events /\ S!Follows(wire[t], S!Error)
    BY <1>1 DEF S!Events, S!Follows
  <2>2. QED
    BY <1>1, <1>5, <2>1, ProceedsAloud DEF StreamFails, Abort, Goto
<1>6. QED
  BY <1>3, <1>4, <1>5

LEMMA ToolRaisesMoves ==
    ASSUME ChatInv, NEW t \in Turns, ToolRaises(t)
    PROVE  Moved(t)
<1>1. pc[t] = "run" /\ wire[t].type = "tool_call_start"
  <2>1. pc[t] = "run" /\ wire[t] = Started(t)
    BY DEF ToolRaises, ChatInv, At, OnWireAt
  <2>2. Started(t).type = "tool_call_start"
    BY DEF Started, S!About
  <2>3. QED
    BY <2>1, <2>2
<1>2. S!Error \in S!Events /\ S!Follows(wire[t], S!Error)
  BY <1>1 DEF S!Events, S!Follows
<1>3. QED
  BY <1>1, <1>2, ProceedsAloud DEF ToolRaises, Abort, Goto

LEMMA StartToolMoves ==
    ASSUME ChatInv, NEW t \in Turns, StartTool(t)
    PROVE  Moved(t)
<1>1. pc[t] = "tools" /\ calls[t] # <<>> /\ S!Open(wire[t])
  BY DEF StartTool, ChatInv, At, OnWireAt
<1>2. Head(calls[t]).name \in Tools
  <2>1. calls[t] \in Seq(ToolCall)
    BY DEF ChatInv, TurnTypes
  <2>2. Head(calls[t]) \in ToolCall
    BY <1>1, <2>1
  <2>3. QED
    BY <2>2 DEF ToolCall
<1>3. Started(t) \in S!Events /\ S!Follows(wire[t], Started(t))
  BY <1>1, <1>2 DEF S!Events, S!Follows, Started
<1>4. QED
  BY <1>1, <1>3, ProceedsAloud DEF StartTool, Started, Current, Goto

LEMMA NextIterationMoves ==
    ASSUME ChatInv, NEW t \in Turns, NextIteration(t)
    PROVE  Moved(t)
<1>1. pc[t] = "tools" /\ calls[t] = <<>> /\ S!Open(wire[t])
  BY DEF NextIteration, ChatInv, At, OnWireAt
<1>2. iter \in [Turns -> 0..MaxIter] /\ MaxIter \in Nat
  BY Constants DEF ChatInv, TurnTypes
<1>3. CASE iter[t] < MaxIter
  <2>1. iter' = [iter EXCEPT ![t] = @ + 1] /\ wire' = wire /\ Goto(t, "llm")
    BY <1>3 DEF NextIteration
  <2>2. iter' \in [Turns -> 0..MaxIter]
    BY <1>2, <1>3, <2>1
  <2>3. QED
    BY <1>1, <2>1, <2>2, ProceedsSilently DEF NextIteration
<1>4. CASE ~(iter[t] < MaxIter)
  <2>1. iter' = iter /\ Say(t, S!Error) /\ pc' = [pc EXCEPT ![t] = "over"]
    BY <1>4 DEF NextIteration, Abort, Goto
  <2>2. S!Error \in S!Events /\ S!Follows(wire[t], S!Error)
    BY <1>1 DEF S!Events, S!Follows
  <2>3. QED
    BY <1>1, <2>1, <2>2, ProceedsAloud DEF NextIteration
<1>5. QED
  BY <1>3, <1>4

LEMMA SayDoneMoves ==
    ASSUME ChatInv, NEW t \in Turns, SayDone(t)
    PROVE  Moved(t)
<1>1. pc[t] = "over" /\ (S!Open(wire[t]) \/ wire[t] = S!Error)
  BY DEF SayDone, ChatInv, At, OnWireAt
<1>2. S!Done \in S!Events /\ S!Follows(wire[t], S!Done)
  BY <1>1 DEF S!Events, S!Follows
<1>3. QED
  BY <1>1, <1>2, ProceedsAloud DEF SayDone, Goto

-----------------------------------------------------------------------------
(* Tool calls: the model asks, one is run, its result is told.             *)

LEMMA AskedIsNat ==
    ASSUME NEW t \in Turns, messages[t] \in Seq(Message)
    PROVE  Asked(t) \in Nat
<1> DEFINE answers == {i \in DOMAIN messages[t] : messages[t][i].role = "tool"}
<1>1. answers \subseteq 1..Len(messages[t]) /\ Len(messages[t]) \in Nat
  OBVIOUS
<1>2. IsFiniteSet(1..Len(messages[t]))
  BY <1>1, FS_Interval
<1>3. IsFiniteSet(answers)
  BY <1>1, <1>2, FS_Subset
<1>4. QED
  BY <1>3, FS_CardinalityType DEF Asked

LEMMA WantsToolsMoves ==
    ASSUME ChatInv, NEW t \in Turns, WantsTools(t)
    PROVE  Moved(t)
<1> USE DEF ChatInv, At
<1> DEFINE next(asked) == Append(messages[t], [role |-> "assistant",
                                   ids |-> [i \in 1..Len(asked) |-> asked[i].id]])
<1>1. /\ pc[t] = "llm" /\ pc' = [pc EXCEPT ![t] = "tools"]
      /\ UNCHANGED <<memory, who, ctx, iter, prompt, wire>>
  BY DEF WantsTools, Goto
<1>2. messages[t] \in Seq(Message) /\ calls[t] = <<>> /\ S!Open(wire[t])
  BY <1>1 DEF TurnTypes, OwedAt, OnWireAt
<1>3. Asked(t) \in Nat
  BY <1>2, AskedIsNat
<1>4. PICK asked \in Seq(ToolCall) :
        /\ calls'    = [calls EXCEPT ![t] = asked]
        /\ messages' = [messages EXCEPT ![t] = next(asked)]
  <2>0. PICK n \in 1..(MaxCalls - Asked(t)) : \E names \in [1..n -> Tools] :
          LET asked == [i \in 1..n |-> [id |-> Asked(t) + i, name |-> names[i]]] IN
          /\ calls'    = [calls EXCEPT ![t] = asked]
          /\ messages' = [messages EXCEPT ![t] =
                            Append(@, [role |-> "assistant",
                                       ids  |-> [i \in 1..n |-> asked[i].id]])]
    BY DEF WantsTools
  <2>1. PICK names \in [1..n -> Tools] :
          LET asked == [i \in 1..n |-> [id |-> Asked(t) + i, name |-> names[i]]] IN
          /\ calls'    = [calls EXCEPT ![t] = asked]
          /\ messages' = [messages EXCEPT ![t] =
                            Append(@, [role |-> "assistant",
                                       ids  |-> [i \in 1..n |-> asked[i].id]])]
    BY <2>0
  <2> DEFINE asked == [i \in 1..n |-> [id |-> Asked(t) + i, name |-> names[i]]]
  <2>2. n \in Nat /\ MaxCalls \in Nat
    BY <1>3, <2>1, ChatAssumption
  <2>3. \A i \in 1..n : [id |-> Asked(t) + i, name |-> names[i]] \in ToolCall
    BY <1>3, <2>1, <2>2 DEF ToolCall
  <2>4. asked \in Seq(ToolCall) /\ Len(asked) = n
    BY <2>2, <2>3
  <2>5. calls' = [calls EXCEPT ![t] = asked]
    BY <2>1
  <2>6. messages' = [messages EXCEPT ![t] = Append(messages[t],
                       [role |-> "assistant", ids |-> [i \in 1..n |-> asked[i].id]])]
    BY <2>1
  <2> HIDE DEF asked
  <2>7. messages' = [messages EXCEPT ![t] = next(asked)]
    BY <2>4, <2>6
  <2>8. QED
    BY <2>4, <2>5, <2>7
<1>5. next(asked) \in Seq(Message)
  <2>1. [i \in 1..Len(asked) |-> asked[i].id] \in Seq(Nat)
    <3>1. \A c \in ToolCall : c.id \in Nat
      BY DEF ToolCall
    <3>2. Len(asked) \in Nat /\ \A i \in 1..Len(asked) : asked[i] \in ToolCall
      OBVIOUS
    <3>3. \A i \in 1..Len(asked) : asked[i].id \in Nat
      BY <3>1, <3>2
    <3>4. QED
      BY <3>2, <3>3
  <2>2. [role |-> "assistant", ids |-> [i \in 1..Len(asked) |-> asked[i].id]] \in Message
    BY <2>1 DEF Message
  <2>3. QED
    BY <1>2, <2>2
<1>6. OwedIn(next(asked), asked)
  <2>1. OwedIn(messages[t], <<>>)
    BY <1>1, <1>2 DEF OwedAt
  <2>2. QED
    BY <1>2, <2>1, AskingOwes
<1> HIDE DEF next
<1>7. TurnTypes'
  BY <1>1, <1>4, <1>5 DEF TurnTypes, Points
<1>8. pc'[t] = "tools" /\ calls'[t] = asked /\ messages'[t] = next(asked)
  BY <1>1, <1>4 DEF TurnTypes
<1>9. P!IInv' /\ Grows /\ \A u \in Turns : /\ mpc'[u] = mpc[u] /\ owner'[u] = owner[u]
                                            /\ hits'[u] = hits[u]
  BY <1>1, MemoryRests
<1>10. PrivateAt(t)'
  <2>1. memories' = memories /\ who' = who /\ ctx' = ctx /\ prompt' = prompt
    BY <1>1 DEF memory
  <2>2. PrivateAt(t) /\ pc[t] \notin {"idle", "recall", "saving"}
    BY <1>1
  <2>3. QED
    BY <1>8, <1>9, <2>1, <2>2 DEF PrivateAt, M!Own
<1>11. OwedAt(t)'
  BY <1>6, <1>8 DEF OwedAt
<1>12. OnWireAt(t)'
  BY <1>1, <1>2, <1>8 DEF OnWireAt, S!Open
<1>13. OthersRest(t)
  BY <1>1, <1>4, <1>9 DEF OthersRest, Rests, TurnTypes
<1>14. Wired' /\ UNCHANGED wire
  BY <1>1 DEF Wired
<1>15. QED
  BY <1>7, <1>9, <1>10, <1>11, <1>12, <1>13, <1>14 DEF Moved

LEMMA ResultMoves ==
    ASSUME ChatInv, NEW t \in Turns, NEW ok \in BOOLEAN,
           pc[t] \in {"run", "saving"}, Result(t, ok),
           P!IInv', Grows, mpc'[t] = "idle", hits'[t] = {},
           \A u \in Turns \ {t} : /\ mpc'[u] = mpc[u] /\ owner'[u] = owner[u]
                                  /\ hits'[u] = hits[u]
    PROVE  Moved(t)
<1> USE DEF ChatInv, At
<1> DEFINE f    == S!About("tool_call_result", Head(calls[t]).name)
           next == Append(messages[t], AnswerTo(Head(calls[t]).id))
<1>1. /\ Say(t, f) /\ pc' = [pc EXCEPT ![t] = "tools"]
      /\ messages' = [messages EXCEPT ![t] = next]
      /\ calls' = [calls EXCEPT ![t] = Tail(calls[t])]
      /\ UNCHANGED <<who, ctx, iter, prompt>>
  BY DEF Result, Goto, Current, AnswerTo
<1>2. /\ messages[t] \in Seq(Message) /\ calls[t] \in Seq(ToolCall) /\ calls[t] # <<>>
      /\ wire[t] = Started(t) /\ OwedIn(messages[t], calls[t])
  BY DEF TurnTypes, OwedAt, OnWireAt
<1>3. Head(calls[t]) \in ToolCall
  BY <1>2
<1>4. Head(calls[t]).id \in Nat /\ Head(calls[t]).name \in Tools
  BY <1>3 DEF ToolCall
<1>5. f \in S!Events /\ S!Follows(wire[t], f)
  BY <1>2, <1>4 DEF S!Events, S!Follows, Started
<1>6. Wired' /\ S!Next /\ wire'[t] = f /\ \A u \in Turns \ {t} : wire'[u] = wire[u]
  BY <1>1, <1>5, Speaks
<1>7. S!Open(f)
  BY DEF S!Open, S!About
<1>8. next \in Seq(Message) /\ Tail(calls[t]) \in Seq(ToolCall)
  <2>1. AnswerTo(Head(calls[t]).id) \in Message
    BY <1>4 DEF AnswerTo, Message
  <2>2. QED
    BY <1>2, <2>1
<1>9. OwedIn(next, Tail(calls[t]))
  BY <1>2, AnsweringPays
<1> HIDE DEF f, next
<1>10. TurnTypes'
  BY <1>1, <1>8 DEF TurnTypes, Points
<1>11. pc'[t] = "tools" /\ calls'[t] = Tail(calls[t]) /\ messages'[t] = next
  BY <1>1 DEF TurnTypes
<1>12. PrivateAt(t)'
  <2>1. PrivateAt(t) /\ pc[t] \notin {"idle", "recall"}
    OBVIOUS
  <2>2. prompt'[t] \subseteq {m.id : m \in {m \in memories' : m = M!Row(m.id, who'[t])}}
    BY <1>1, <2>1 DEF PrivateAt, M!Own, Grows
  <2>3. QED
    BY <1>1, <1>11, <2>1, <2>2 DEF PrivateAt, M!Own
<1>13. OwedAt(t)' /\ OnWireAt(t)'
  BY <1>6, <1>7, <1>9, <1>11 DEF OwedAt, OnWireAt
<1>14. OthersRest(t)
  BY <1>1, <1>6 DEF OthersRest, Rests, TurnTypes
<1>15. QED
  BY <1>6, <1>10, <1>12, <1>13, <1>14 DEF Moved

LEMMA LookupMoves ==
    ASSUME ChatInv, NEW t \in Turns, Lookup(t)
    PROVE  Moved(t)
<1>1. PICK ok \in BOOLEAN : Result(t, ok)
  BY DEF Lookup
<1>2. pc[t] = "run" /\ UNCHANGED memory
  BY DEF Lookup
<1>3. mpc[t] = "idle" /\ hits[t] = {}
  BY <1>2 DEF ChatInv, At, PrivateAt
<1>4. P!IInv' /\ Grows /\ \A u \in Turns : /\ mpc'[u] = mpc[u] /\ owner'[u] = owner[u]
                                            /\ hits'[u] = hits[u]
  BY <1>2, MemoryRests DEF ChatInv
<1>5. QED
  BY <1>1, <1>2, <1>3, <1>4, ResultMoves

LEMMA MemoryWrittenMoves ==
    ASSUME ChatInv, NEW t \in Turns, MemoryWritten(t)
    PROVE  Moved(t)
<1>1. pc[t] = "saving" /\ Result(t, ret[t] = "ok") /\ M!Forget({t})
  BY DEF MemoryWritten, M!Depart
<1>2. /\ P!IInv' /\ Grows /\ mpc'[t] = "idle" /\ hits'[t] = {}
      /\ \A u \in Turns \ {t} : mpc'[u] = mpc[u] /\ owner'[u] = owner[u] /\ hits'[u] = hits[u]
  BY <1>1, MemoryForgets DEF ChatInv
<1>3. (ret[t] = "ok") \in BOOLEAN
  OBVIOUS
<1>4. QED
  BY <1>1, <1>2, <1>3, ResultMoves

LEMMA WriteMemoryMoves ==
    ASSUME ChatInv, NEW t \in Turns, WriteMemory(t)
    PROVE  Moved(t)
<1> USE DEF ChatInv, At
<1>1. /\ pc[t] = "run" /\ pc' = [pc EXCEPT ![t] = "saving"]
      /\ M!Receive(t, "write", ctx[t])
      /\ UNCHANGED <<who, ctx, iter, calls, messages, prompt, wire>>
  BY DEF WriteMemory, Goto, Context
<1>2. /\ PrivateAt(t) /\ mpc[t] = "idle" /\ hits[t] = {} /\ ctx[t] = who[t]
      /\ who[t] \in M!Owner
  BY <1>1 DEF PrivateAt, TurnTypes
<1>3. /\ P!IInv' /\ Grows
      /\ mpc'[t] # "idle" /\ owner'[t] = who[t] /\ hits' = hits
      /\ \A u \in Turns \ {t} : mpc'[u] = mpc[u] /\ owner'[u] = owner[u]
  <2>1. "write" \in P!Methods /\ ctx[t] \in P!Owner
    BY <1>2, SameData DEF P!Methods
  <2>2. QED
    BY <1>1, <1>2, <2>1, MemoryCalled
<1>4. TurnTypes'
  BY <1>1 DEF TurnTypes, Points
<1>5. pc'[t] = "saving"
  BY <1>1 DEF TurnTypes
<1>6. PrivateAt(t)'
  <2>1. prompt'[t] \subseteq {m.id : m \in {m \in memories' : m = M!Row(m.id, who'[t])}}
    BY <1>1, <1>2, <1>3 DEF PrivateAt, M!Own, Grows
  <2>2. QED
    BY <1>1, <1>2, <1>3, <1>5, <2>1 DEF PrivateAt, M!Own
<1>7. OwedAt(t)' /\ OnWireAt(t)'
  BY <1>1, <1>5 DEF OwedAt, OwedIn, OnWireAt, Started
<1>8. OthersRest(t)
  BY <1>1, <1>3 DEF OthersRest, Rests, TurnTypes
<1>9. Wired' /\ UNCHANGED wire
  BY <1>1 DEF Wired
<1>10. QED
  BY <1>3, <1>4, <1>6, <1>7, <1>8, <1>9 DEF Moved

LEMMA MemoryStepMoves ==
    ASSUME ChatInv, NEW t \in Turns, MemoryStep(t)
    PROVE  Moved(t)
<1> USE DEF ChatInv, At
<1>1. M!CallStep(t) /\ UNCHANGED <<pc, who, ctx, iter, calls, messages, prompt, wire>>
  BY DEF MemoryStep, Elsewhere
<1>2. /\ P!IInv' /\ Grows
      /\ mpc[t] # "idle" /\ mpc'[t] # "idle" /\ owner' = owner
      /\ hits'[t] \subseteq hits[t] \cup M!Own(owner[t])
      /\ \A u \in Turns \ {t} : mpc'[u] = mpc[u] /\ hits'[u] = hits[u]
  BY <1>1, MemorySteps
<1>3. TurnTypes'
  BY <1>1 DEF TurnTypes
<1>4. PrivateAt(t)'
  <2>1. /\ PrivateAt(t) /\ owner[t] = who[t]
        /\ hits'[t] \subseteq M!Own(who[t]) /\ prompt[t] \subseteq M!Own(who[t])
    BY <1>2 DEF PrivateAt
  <2>2. M!Own(who[t]) \subseteq {m.id : m \in {m \in memories' : m = M!Row(m.id, who[t])}}
    BY <1>2 DEF M!Own, Grows
  <2>3. QED
    BY <1>1, <1>2, <2>1, <2>2 DEF PrivateAt, M!Own
<1>5. OwedAt(t)' /\ OnWireAt(t)'
  BY <1>1 DEF OwedAt, OwedIn, OnWireAt, Started
<1>6. OthersRest(t)
  BY <1>1, <1>2 DEF OthersRest, Rests
<1>7. Wired' /\ UNCHANGED wire
  BY <1>1 DEF Wired
<1>8. QED
  BY <1>2, <1>3, <1>4, <1>5, <1>6, <1>7 DEF Moved

-----------------------------------------------------------------------------
(* The end of turns.                                                       *)

\* Dropped turns keep nothing; the others keep what they had.
LEMMA DropEffect ==
    ASSUME TurnTypes, NEW T \in SUBSET Turns, Drop(T)
    PROVE  /\ who' \in [Turns -> M!Owner] /\ ctx' \in [Turns -> M!Owner]
           /\ iter' \in [Turns -> 0..MaxIter] /\ calls' \in [Turns -> Seq(ToolCall)]
           /\ messages' \in [Turns -> Seq(Message)] /\ prompt' \in [Turns -> SUBSET M!Id]
           /\ \A u \in T : who'[u] = M!NoOwner /\ ctx'[u] = M!NoOwner /\ prompt'[u] = {}
           /\ \A u \in Turns \ T : /\ who'[u] = who[u] /\ ctx'[u] = ctx[u]
                                   /\ calls'[u] = calls[u] /\ messages'[u] = messages[u]
                                   /\ prompt'[u] = prompt[u]
<1> USE DEF TurnTypes, Drop, Context
<1>1. who' \in [Turns -> M!Owner] /\ ctx' \in [Turns -> M!Owner]
  BY PrincipalFacts
<1>2. iter' \in [Turns -> 0..MaxIter] /\ prompt' \in [Turns -> SUBSET M!Id]
  BY Constants
<1>3. calls' \in [Turns -> Seq(ToolCall)] /\ messages' \in [Turns -> Seq(Message)]
  <2>1. <<>> \in Seq(ToolCall) /\ <<>> \in Seq(Message)
    OBVIOUS
  <2>2. QED
    BY <2>1
<1>4. QED
  BY <1>1, <1>2, <1>3

LEMMA OverAt ==
    ASSUME NEW u \in Turns, pc'[u] \in {"ended", "gone"},
           who'[u] = M!NoOwner, ctx'[u] = M!NoOwner, prompt'[u] = {},
           mpc'[u] = "idle", hits'[u] = {},
           wire'[u] = IF pc'[u] = "ended" THEN S!Terminator ELSE S!Cut
    PROVE  At(u)'
<1>1. PrivateAt(u)'
  BY DEF PrivateAt
<1>2. OwedAt(u)' /\ OnWireAt(u)'
  BY DEF OwedAt, OnWireAt
<1>3. QED
  BY <1>1, <1>2 DEF At

LEMMA CutFollows ==
    ASSUME ChatInv, NEW t \in Turns, pc[t] \notin {"idle", "ended", "gone"}
    PROVE  S!Follows(wire[t], S!Cut)
<1> USE DEF S!Nothing, S!Token, S!Error, S!Done, S!Terminator, S!Cut, S!Said
<1>1. pc[t] \in {"recall", "llm", "tools", "run", "saving", "over", "close"} /\ OnWireAt(t)
  BY DEF ChatInv, At, TurnTypes, Points
<1>2. \A e : S!Open(e) => e.type \in {"nothing", "token", "tool_call_result"}
  BY DEF S!Open
<1>3. wire[t].type \in {"nothing", "token", "tool_call_result", "tool_call_start", "error", "done"}
  <2>1. CASE pc[t] \in {"run", "saving"}
    <3>1. wire[t] = Started(t)
      BY <1>1, <2>1 DEF OnWireAt
    <3>2. Started(t).type = "tool_call_start"
      BY DEF Started, S!About
    <3>3. QED
      BY <3>1, <3>2
  <2>2. CASE pc[t] \in {"recall", "llm", "tools", "over", "close"}
    BY <1>1, <1>2, <2>2 DEF OnWireAt
  <2>3. QED
    BY <1>1, <2>1, <2>2
<1>4. S!Cut.type = "cut" /\ S!Terminator.type = "[DONE]"
  OBVIOUS
<1>5. wire[t] \notin {S!Terminator, S!Cut}
  BY <1>3, <1>4
<1>6. QED
  BY <1>5 DEF S!Follows

LEMMA CloseMoves ==
    ASSUME ChatInv, NEW t \in Turns, Close(t)
    PROVE  Moved(t)
<1> USE DEF ChatInv
<1>1. /\ pc[t] = "close" /\ pc' = [pc EXCEPT ![t] = "ended"]
      /\ Say(t, S!Terminator) /\ Drop({t}) /\ UNCHANGED memory
  BY DEF Close, Goto
<1>2. wire[t] = S!Done /\ mpc[t] = "idle" /\ hits[t] = {}
  BY <1>1 DEF At, OnWireAt, PrivateAt
<1>3. S!Terminator \in S!Events /\ S!Follows(wire[t], S!Terminator)
  BY <1>2 DEF S!Events, S!Follows
<1>4. Wired' /\ S!Next /\ wire'[t] = S!Terminator /\ \A u \in Turns \ {t} : wire'[u] = wire[u]
  BY <1>1, <1>3, Speaks
<1>5. P!IInv' /\ Grows /\ \A u \in Turns : /\ mpc'[u] = mpc[u] /\ owner'[u] = owner[u]
                                            /\ hits'[u] = hits[u]
  BY <1>1, MemoryRests
<1>6. {t} \in SUBSET Turns
  OBVIOUS
<1>7. TurnTypes'
  BY <1>1, <1>6, DropEffect DEF TurnTypes, Points
<1>8. pc'[t] = "ended" /\ \A u \in Turns \ {t} : pc'[u] = pc[u]
  BY <1>1 DEF TurnTypes
<1>9. At(t)'
  BY <1>1, <1>2, <1>4, <1>5, <1>6, <1>8, DropEffect, OverAt
<1>10. OthersRest(t)
  BY <1>1, <1>4, <1>5, <1>6, <1>8, DropEffect DEF OthersRest, Rests
<1>11. QED
  BY <1>4, <1>5, <1>7, <1>9, <1>10 DEF Moved, At

LEMMA DisconnectMoves ==
    ASSUME ChatInv, NEW t \in Turns, Disconnect(t)
    PROVE  Moved(t)
<1> USE DEF ChatInv
<1>1. /\ pc[t] \notin {"idle", "ended", "gone"} /\ pc' = [pc EXCEPT ![t] = "gone"]
      /\ Say(t, S!Cut) /\ Drop({t}) /\ M!Forget({t})
  BY DEF Disconnect, Goto
<1>2. S!Cut \in S!Events /\ S!Follows(wire[t], S!Cut)
  BY <1>1, CutFollows DEF S!Events
<1>3. Wired' /\ S!Next /\ wire'[t] = S!Cut /\ \A u \in Turns \ {t} : wire'[u] = wire[u]
  BY <1>1, <1>2, Speaks
<1>4. {t} \in SUBSET Turns
  OBVIOUS
<1>5. /\ P!IInv' /\ Grows /\ mpc'[t] = "idle" /\ hits'[t] = {}
      /\ \A u \in Turns \ {t} : mpc'[u] = mpc[u] /\ owner'[u] = owner[u] /\ hits'[u] = hits[u]
  BY <1>1, <1>4, MemoryForgets
<1>6. TurnTypes'
  BY <1>1, <1>4, DropEffect DEF TurnTypes, Points
<1>7. pc'[t] = "gone" /\ \A u \in Turns \ {t} : pc'[u] = pc[u]
  BY <1>1 DEF TurnTypes
<1>8. At(t)'
  BY <1>1, <1>3, <1>4, <1>5, <1>7, DropEffect, OverAt
<1>9. OthersRest(t)
  BY <1>1, <1>3, <1>4, <1>5, <1>7, DropEffect DEF OthersRest, Rests
<1>10. QED
  BY <1>3, <1>5, <1>6, <1>8, <1>9 DEF Moved, At

\* A crash cuts every stream that is open and leaves the committed rows.
LEMMA CrashKeeps ==
    ASSUME ChatInv, Crash
    PROVE  ChatInv' /\ [S!Next]_wire
<1>1. /\ wire' = [t \in Turns |-> IF t \in Live THEN S!Cut ELSE wire[t]]
      /\ pc'   = [t \in Turns |-> IF t \in Live THEN "gone" ELSE pc[t]]
      /\ Drop(Live) /\ M!Forget(Live)
  BY DEF Crash
<1>2. Live \in SUBSET Turns /\ \A t \in Live : S!Follows(wire[t], S!Cut)
  BY CutFollows DEF Live
<1>3. S!Next
  BY <1>1, <1>2 DEF S!Next
<1>4. /\ P!IInv' /\ Grows
      /\ \A u \in Live : mpc'[u] = "idle" /\ hits'[u] = {}
      /\ \A u \in Turns \ Live : /\ mpc'[u] = mpc[u] /\ owner'[u] = owner[u]
                                 /\ hits'[u] = hits[u]
  BY <1>1, <1>2, MemoryForgets DEF ChatInv
<1>5. pc \in [Turns -> Points] /\ TurnTypes
  BY DEF ChatInv, TurnTypes
<1>6. TurnTypes'
  BY <1>1, <1>2, <1>5, DropEffect DEF TurnTypes, Points
<1>7. Wired'
  BY <1>1 DEF Wired
<1>8. ASSUME NEW u \in Live PROVE At(u)'
  <2>1. u \in Turns /\ pc'[u] = "gone" /\ wire'[u] = S!Cut
    BY <1>1, <1>2
  <2>2. who'[u] = M!NoOwner /\ ctx'[u] = M!NoOwner /\ prompt'[u] = {}
    BY <1>1, <1>2, <1>5, DropEffect
  <2>3. QED
    BY <1>4, <2>1, <2>2, OverAt
<1>9. ASSUME NEW u \in Turns \ Live PROVE At(u)'
  <2>1. pc'[u] = pc[u] /\ wire'[u] = wire[u]
    BY <1>1
  <2>2. Rests(u)
    BY <1>1, <1>2, <1>4, <1>5, <2>1, DropEffect DEF Rests
  <2>3. QED
    BY <1>4, <2>2, Resting DEF ChatInv
<1>10. QED
  BY <1>3, <1>4, <1>6, <1>7, <1>8, <1>9 DEF ChatInv

-----------------------------------------------------------------------------
(* The invariant holds, and with it what the properties say.               *)

LEMMA InitInv == Init => ChatInv /\ S!Init
<1> SUFFICES ASSUME Init PROVE ChatInv /\ S!Init
  OBVIOUS
<1>1. P!IInv
  BY SameInit, Constants, P!InitInv DEF Init
<1>2. TurnTypes
  <2>1. <<>> \in Seq(ToolCall) /\ <<>> \in Seq(Message)
    OBVIOUS
  <2>2. QED
    BY <2>1, PrincipalFacts, Constants DEF Init, TurnTypes, Points
<1>3. wire = [t \in Turns |-> S!Nothing] /\ Wired
  BY DEF Init, S!Init, Wired
<1>4. ASSUME NEW t \in Turns PROVE At(t)
  <2>1. mpc[t] = "idle" /\ hits[t] = {}
    BY DEF Init, M!MemoryInit
  <2>2. /\ pc[t] = "idle" /\ who[t] = ctx[t] /\ calls[t] = <<>> /\ prompt[t] = {}
        /\ wire[t] = S!Nothing
    BY <1>3 DEF Init
  <2>3. PrivateAt(t)
    BY <2>1, <2>2 DEF PrivateAt
  <2>4. OwedAt(t) /\ OnWireAt(t)
    BY <2>2 DEF OwedAt, OnWireAt
  <2>5. QED
    BY <2>3, <2>4 DEF At
<1>5. QED
  BY <1>1, <1>2, <1>3, <1>4 DEF ChatInv, Init

LEMMA StepKeeps == ChatInv /\ [Next]_vars => ChatInv' /\ [S!Next]_wire
<1> SUFFICES ASSUME ChatInv, [Next]_vars PROVE ChatInv' /\ [S!Next]_wire
  OBVIOUS
<1>1. ASSUME NEW t \in Turns, Request(t) \/ TurnStep(t) \/ MemoryStep(t) \/ Disconnect(t)
      PROVE  Moved(t)
  BY <1>1, RequestMoves, RecalledMoves, ModelMoves, WantsToolsMoves, StartToolMoves, LookupMoves,
     ToolRaisesMoves, WriteMemoryMoves, MemoryWrittenMoves, NextIterationMoves, SayDoneMoves,
     CloseMoves, MemoryStepMoves, DisconnectMoves DEF TurnStep
<1>2. CASE Next
  BY <1>1, <1>2, MovedKeeps, CrashKeeps DEF Next
<1>3. CASE UNCHANGED vars
  <2>1. UNCHANGED memory /\ UNCHANGED <<pc, who, ctx, iter, calls, messages, prompt, wire>>
    BY <1>3 DEF vars, memory
  <2>2. P!IInv' /\ Grows /\ \A u \in Turns : /\ mpc'[u] = mpc[u] /\ owner'[u] = owner[u]
                                              /\ hits'[u] = hits[u]
    BY <2>1, MemoryRests DEF ChatInv
  <2>3. ASSUME NEW u \in Turns PROVE At(u)'
    BY <2>1, <2>2, Resting DEF Rests, ChatInv
  <2>4. TurnTypes' /\ Wired'
    BY <2>1 DEF ChatInv, TurnTypes, Wired
  <2>5. QED
    BY <2>1, <2>2, <2>3, <2>4 DEF ChatInv
<1>4. QED
  BY <1>2, <1>3

\* Types hold in every reachable state.
THEOREM TypesHold == Spec => []TypeOK
<1>1. ChatInv => TypeOK
  BY TypeParts DEF ChatInv, P!IInv
<1>2. QED
  BY <1>1, InitInv, StepKeeps, PTL DEF Spec

\* Every call of the model gets a history in which each tool call is answered,
\* failed tools included (run_turn, _wrap).
THEOREM HistoriesAreComplete == Spec => []HistoryComplete
<1>1. ChatInv => HistoryComplete
  <2> SUFFICES ASSUME ChatInv, NEW t \in Turns, pc[t] = "llm",
                      NEW i \in 1..Len(messages[t]), messages[t][i].role = "assistant",
                      NEW k \in 1..Len(messages[t][i].ids)
               PROVE  /\ i + k <= Len(messages[t])
                      /\ messages[t][i + k] = AnswerTo(messages[t][i].ids[k])
    BY DEF HistoryComplete, AnswerTo
  <2>1. /\ OwedIn(messages[t], <<>>)
        /\ messages[t] \in Seq(Message)
    BY DEF ChatInv, At, OwedAt, TurnTypes
  <2>2. IF i + k <= Len(messages[t]) THEN messages[t][i + k] = AnswerTo(messages[t][i].ids[k])
        ELSE i + k - Len(messages[t]) \in 1..Len(<<>>)
    BY <2>1 DEF OwedIn
  <2>3. Len(messages[t]) \in Nat /\ k \in Nat /\ Len(<<>>) = 0
    BY <2>1
  <2>4. QED
    BY <2>2, <2>3
<1>2. QED
  BY <1>1, InitInv, StepKeeps, PTL DEF Spec

\* However turns interleave, are cancelled or die, a turn sees the memories of
\* its principal only and stores for nobody else (the ContextVars of tools.py).
THEOREM MemoriesStayTheirs == Spec => []MemoriesAreTheirs
<1>1. ChatInv => MemoriesAreTheirs
  BY DEF ChatInv, At, PrivateAt, MemoriesAreTheirs
<1>2. QED
  BY <1>1, InitInv, StepKeeps, PTL DEF Spec

\* What run_turn, its caller and the framework send on a stream is what
\* ChatStream allows, step by step.
THEOREM TurnsKeepTheContract == Spec => RefinesStream
<1>1. Init => S!Init
  BY InitInv
<1>2. ChatInv /\ [Next]_vars => [S!Next]_wire
  BY StepKeeps
<1>3. QED
  BY <1>1, <1>2, InitInv, StepKeeps, PTL DEF Spec, RefinesStream, S!Spec

=============================================================================
