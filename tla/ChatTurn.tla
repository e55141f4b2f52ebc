------------------------------ MODULE ChatTurn ------------------------------
(***************************************************************************)
(* POST /chat: the event stream (app/api/chat.py), the agent loop          *)
(* (app/services/chatbot.py) and the dispatch of its tools                 *)
(* (app/domain/tools.py), over the episodic memory of EpisodicMemory.      *)
(*                                                                         *)
(* Turns run as coroutines of one process and interleave at every await    *)
(* and every yield.  What the language model says is left open: how much   *)
(* text, which tools, with which arguments.  The tools that do not touch   *)
(* the tables modelled here are one tool, "lookup".  A turn serves one     *)
(* request; texts, arguments and the conversation id are left out.         *)
(***************************************************************************)
EXTENDS Integers, Sequences, FiniteSets

CONSTANTS
    Turns,     \* requests to /chat
    Users, Sessions, Nobody, PoolSize, MaxRows,   \* see EpisodicMemory
    MaxIter,   \* MAX_AGENT_ITERATIONS
    MaxCalls   \* bound: tool calls in one turn

ASSUME ChatAssumption ==
    /\ MaxIter \in Nat \ {0} /\ MaxCalls \in Nat \ {0}
    /\ Users \cap Sessions = {} /\ Nobody \notin Users \cup Sessions
    /\ PoolSize \in Nat \ {0} /\ MaxRows \in Nat

VARIABLES
    memories, audit, touched,                       \* the tables
    mpc, mop, owner, conn, draft, hits, ret,        \* calls to MemoryService
    pc,        \* pc[t]: where run_turn stands
    who,       \* who[t]: the principal of the request
    ctx,       \* ctx[c]: current_user_id and current_widget_session_id in c
    iter,      \* iter[t]: calls made to the model
    calls,     \* calls[t]: tool calls of the model's answer still to be run
    messages,  \* messages[t]: what the model is sent
    prompt,    \* prompt[t]: ids of the memories in its system prompt
    wire       \* wire[t]: the last event sent to the client

memory == <<memories, audit, touched, mpc, mop, owner, conn, draft, hits, ret>>
vars   == <<memories, audit, touched, mpc, mop, owner, conn, draft, hits, ret,
            pc, who, ctx, iter, calls, messages, prompt, wire>>

M == INSTANCE EpisodicMemory WITH
       Calls <- Turns, at <- mpc, method <- mop, outcome <- ret

Tools == {"write_memory", "lookup"}

S == INSTANCE ChatStream

Principals == {w \in M!Owner : M!Discriminated(w)}
Points     == {"idle", "recall", "llm", "tools", "run", "saving", "over", "close",
               "ended", "gone"}

\* An assistant message that asks for tool calls, or the answer to one call.
Message == [role : {"user"}, ids : {<<>>}]
           \cup [role : {"assistant", "tool"}, ids : Seq(Nat)]
ToolCall == [id : Nat, name : Tools]

TypeOK ==
    /\ M!MemoryTypeOK
    /\ pc       \in [Turns -> Points]
    /\ who      \in [Turns -> M!Owner]
    /\ ctx      \in [Turns -> M!Owner]
    /\ iter     \in [Turns -> 0..MaxIter]
    /\ calls    \in [Turns -> Seq(ToolCall)]
    /\ messages \in [Turns -> Seq(Message)]
    /\ prompt   \in [Turns -> SUBSET M!Id]

Init ==
    /\ M!MemoryInit
    /\ S!Init
    /\ pc       = [t \in Turns |-> "idle"]
    /\ who      = [t \in Turns |-> M!NoOwner]
    /\ ctx      = [t \in Turns |-> M!NoOwner]
    /\ iter     = [t \in Turns |-> 0]
    /\ calls    = [t \in Turns |-> <<>>]
    /\ messages = [t \in Turns |-> <<>>]
    /\ prompt   = [t \in Turns |-> {}]

Goto(t, point) == pc' = [pc EXCEPT ![t] = point]
Say(t, event)  == wire' = [wire EXCEPT ![t] = event]

-----------------------------------------------------------------------------
(* The request, and the recall that precedes the first call of the model.  *)

\* Mutant of Context: a global variable instead of a ContextVar.
OneContext(t) == CHOOSE c \in Turns : TRUE

\* ContextVars: each request is a task, with a context of its own.
Context(t) == t

Request(t) ==
    /\ pc[t] = "idle"
    /\ \E w \in Principals :
          /\ who' = [who EXCEPT ![t] = w]
          /\ ctx' = [ctx EXCEPT ![Context(t)] = w]
          /\ M!Receive(t, "recall", w)
    /\ Goto(t, "recall")
    /\ UNCHANGED <<iter, calls, messages, prompt, wire>>

\* Whatever recall raises counts as nothing recalled.
Recalled(t) ==
    /\ pc[t] = "recall"
    /\ prompt'   = [prompt EXCEPT ![t] = hits[t]]
    /\ messages' = [messages EXCEPT ![t] = <<[role |-> "user", ids |-> <<>>]>>]
    /\ iter'     = [iter EXCEPT ![t] = 1]
    /\ M!Depart(t)
    /\ Goto(t, "llm")
    /\ UNCHANGED <<who, ctx, calls, wire>>

-----------------------------------------------------------------------------
(* One call of the model: text, then an answer or tool calls, or a failure.*)

Token(t) ==
    /\ pc[t] = "llm"
    /\ Say(t, S!Token)
    /\ UNCHANGED <<memory, pc, who, ctx, iter, calls, messages, prompt>>

Answered(t) ==
    /\ pc[t] = "llm"
    /\ Goto(t, "over")
    /\ UNCHANGED <<memory, who, ctx, iter, calls, messages, prompt, wire>>

\* The tool calls of the turn so far: when the model is called, all are answered.
Asked(t) == Cardinality({i \in DOMAIN messages[t] : messages[t][i].role = "tool"})

WantsTools(t) ==
    /\ pc[t] = "llm"
    /\ \E n \in 1..(MaxCalls - Asked(t)) : \E names \in [1..n -> Tools] :
          LET asked == [i \in 1..n |-> [id |-> Asked(t) + i, name |-> names[i]]] IN
          /\ calls'    = [calls EXCEPT ![t] = asked]
          /\ messages' = [messages EXCEPT ![t] =
                            Append(@, [role |-> "assistant",
                                       ids  |-> [i \in 1..n |-> asked[i].id]])]
    /\ Goto(t, "tools")
    /\ UNCHANGED <<memory, who, ctx, iter, prompt, wire>>

\* The turn fails: an error event, then the way out of every turn.
Abort(t) == Say(t, S!Error) /\ Goto(t, "over")

StreamFails(t) ==
    /\ pc[t] = "llm"
    /\ Abort(t)
    /\ UNCHANGED <<memory, who, ctx, iter, calls, messages, prompt>>

-----------------------------------------------------------------------------
(* The tool calls of one answer, in order.                                 *)

Current(t) == Head(calls[t])

StartTool(t) ==
    /\ pc[t] = "tools" /\ calls[t] # <<>>
    /\ Say(t, S!About("tool_call_start", Current(t).name))
    /\ Goto(t, "run")
    /\ UNCHANGED <<memory, who, ctx, iter, calls, messages, prompt>>

\* Mutant of Result: only a tool that succeeded is reported to the model.
ResultIfOk(t, ok) ==
    /\ Say(t, S!About("tool_call_result", Current(t).name))
    /\ messages' = [messages EXCEPT ![t] =
                      IF ok THEN Append(@, [role |-> "tool", ids |-> <<Current(t).id>>]) ELSE @]
    /\ calls'    = [calls EXCEPT ![t] = Tail(@)]
    /\ Goto(t, "tools")
    /\ UNCHANGED <<who, ctx, iter, prompt>>

\* The result, or the {ok: false} of a ToolFailure, goes to the client and
\* to the model.
Result(t, ok) ==
    /\ Say(t, S!About("tool_call_result", Current(t).name))
    /\ messages' = [messages EXCEPT ![t] = Append(@, [role |-> "tool", ids |-> <<Current(t).id>>])]
    /\ calls'    = [calls EXCEPT ![t] = Tail(@)]
    /\ Goto(t, "tools")
    /\ UNCHANGED <<who, ctx, iter, prompt>>

\* A tool other than write_memory answers, fails, or is not registered; a
\* write_memory without a principal fails.
Lookup(t) ==
    /\ pc[t] = "run"
    /\ Current(t).name = "lookup" \/ ctx[Context(t)] = M!NoOwner
    /\ \E ok \in BOOLEAN : Result(t, ok)
    /\ UNCHANGED memory

\* Arguments that do not fit the handler's signature, a database error of the
\* search: any exception that is not a ToolFailure ends the turn.
ToolRaises(t) ==
    /\ pc[t] = "run"
    /\ Abort(t)
    /\ UNCHANGED <<memory, who, ctx, iter, calls, messages, prompt>>

\* write_memory stores for the principal it finds in the context.
WriteMemory(t) ==
    /\ pc[t] = "run" /\ Current(t).name = "write_memory"
    /\ ctx[Context(t)] # M!NoOwner
    /\ M!Receive(t, "write", ctx[Context(t)])
    /\ Goto(t, "saving")
    /\ UNCHANGED <<who, ctx, iter, calls, messages, prompt, wire>>

MemoryWritten(t) ==
    /\ pc[t] = "saving"
    /\ Result(t, ret[t] = "ok")
    /\ M!Depart(t)

\* Mutant of NextIteration: the loop has no cap.
NextIterationUncapped(t) ==
    /\ pc[t] = "tools" /\ calls[t] = <<>>
    /\ Goto(t, "llm")
    /\ messages' = [messages EXCEPT ![t] = SubSeq(@, 1, 1)]
    /\ UNCHANGED <<memory, who, ctx, iter, calls, prompt, wire>>

\* Mutant of NextIteration: one iteration too many.
NextIterationOneMore(t) ==
    /\ pc[t] = "tools" /\ calls[t] = <<>>
    /\ IF iter[t] <= MaxIter
         THEN /\ Goto(t, "llm")
              /\ iter' = [iter EXCEPT ![t] = @ + 1]
              /\ wire' = wire
         ELSE Abort(t) /\ iter' = iter
    /\ UNCHANGED <<memory, who, ctx, calls, messages, prompt>>

NextIteration(t) ==
    /\ pc[t] = "tools" /\ calls[t] = <<>>
    /\ IF iter[t] < MaxIter
         THEN /\ Goto(t, "llm")
              /\ iter' = [iter EXCEPT ![t] = @ + 1]
              /\ wire' = wire
         ELSE Abort(t) /\ iter' = iter
    /\ UNCHANGED <<memory, who, ctx, calls, messages, prompt>>

-----------------------------------------------------------------------------
(* The end of a turn.                                                      *)

\* What a coroutine holds is gone with it.
Drop(T) ==
    /\ iter'     = [t \in Turns |-> IF t \in T THEN 0 ELSE iter[t]]
    /\ calls'    = [t \in Turns |-> IF t \in T THEN <<>> ELSE calls[t]]
    /\ messages' = [t \in Turns |-> IF t \in T THEN <<>> ELSE messages[t]]
    /\ prompt'   = [t \in Turns |-> IF t \in T THEN {} ELSE prompt[t]]
    /\ who'      = [t \in Turns |-> IF t \in T THEN M!NoOwner ELSE who[t]]
    /\ ctx'      = [c \in Turns |-> IF \E t \in T : c = Context(t) THEN M!NoOwner ELSE ctx[c]]

\* Mutant of SayDone: done is only said by turns that did not fail.
SayDoneUnlessFailed(t) ==
    /\ pc[t] = "over"
    /\ IF wire[t] = S!Error THEN wire' = wire ELSE Say(t, S!Done)
    /\ Goto(t, "close")
    /\ UNCHANGED <<memory, who, ctx, iter, calls, messages, prompt>>

SayDone(t) ==
    /\ pc[t] = "over"
    /\ Say(t, S!Done)
    /\ Goto(t, "close")
    /\ UNCHANGED <<memory, who, ctx, iter, calls, messages, prompt>>

\* The ContextVars are reset, the generator ends, and the terminator is sent.
Close(t) ==
    /\ pc[t] = "close"
    /\ Say(t, S!Terminator)
    /\ Goto(t, "ended")
    /\ Drop({t})
    /\ UNCHANGED memory

\* The client goes away, which cancels the task at its next await.
Disconnect(t) ==
    /\ pc[t] \notin {"idle", "ended", "gone"}
    /\ Say(t, S!Cut)
    /\ Goto(t, "gone")
    /\ Drop({t})
    /\ M!Forget({t})

Live == {t \in Turns : pc[t] \notin {"idle", "ended", "gone"}}

\* The process dies; connections are cut, open transactions roll back.
Crash ==
    /\ wire' = [t \in Turns |-> IF t \in Live THEN S!Cut ELSE wire[t]]
    /\ pc'   = [t \in Turns |-> IF t \in Live THEN "gone" ELSE pc[t]]
    /\ Drop(Live)
    /\ M!Forget(Live)

-----------------------------------------------------------------------------
(* The specification.                                                      *)

Elsewhere == UNCHANGED <<pc, who, ctx, iter, calls, messages, prompt, wire>>

MemoryStep(t)    == M!CallStep(t) /\ Elsewhere
MemoryAdvance(t) == M!Advance(t) /\ Elsewhere

TurnStep(t) ==
    \/ Recalled(t)
    \/ Token(t) \/ Answered(t) \/ WantsTools(t) \/ StreamFails(t)
    \/ StartTool(t) \/ Lookup(t) \/ ToolRaises(t)
    \/ WriteMemory(t) \/ MemoryWritten(t)
    \/ NextIteration(t)
    \/ SayDone(t) \/ Close(t)

Next ==
    \/ \E t \in Turns : Request(t) \/ TurnStep(t) \/ MemoryStep(t) \/ Disconnect(t)
    \/ Crash

\* The upstreams answer or time out, a model's text is finite, statements are
\* answered, and the event loop runs every coroutine on.
Fairness == \A t \in Turns : WF_vars(TurnStep(t) \/ MemoryAdvance(t))

Spec == Init /\ [][Next]_vars /\ Fairness

-----------------------------------------------------------------------------
(* What a turn promises.                                                   *)

\* Every call of the model gets a history in which each tool call it made is
\* answered, once and in order, by the messages that follow: a failed tool
\* included (run_turn, _wrap).
HistoryComplete ==
    \A t \in Turns : pc[t] = "llm" =>
        \A i \in 1..Len(messages[t]) :
            LET m == messages[t][i] IN
            m.role = "assistant" =>
                \A k \in 1..Len(m.ids) :
                    /\ i + k <= Len(messages[t])
                    /\ messages[t][i + k] = [role |-> "tool", ids |-> <<m.ids[k]>>]

\* However turns of different principals interleave, a turn is shown only the
\* memories of its own principal and stores only for it (the ContextVars).
MemoriesAreTheirs ==
    \A t \in Turns :
        /\ prompt[t] \subseteq M!Own(who[t])
        /\ mpc[t] # "idle" => owner[t] = who[t]

\* The stream of every turn obeys the contract of ChatStream.
RefinesStream == S!Spec

\* Every turn ends, with its terminator unless the client or the process went
\* away: the cap on iterations and the way out of every error see to it.
TurnsEnd == \A t \in Turns : pc[t] = "recall" ~> pc[t] \in {"ended", "gone"}

\* "a validation error is reflected back as a tool_failure so the LLM can
\* retry with corrected arguments" (PRD.md:139): a tool call that was started
\* is answered by its result, not by the end of the turn (_dispatch_tool).
ToolErrorsReachTheModel ==
    [][\A t \in Turns :
          wire[t].type = "tool_call_start" /\ wire'[t] # wire[t] =>
              wire'[t].type \in {"tool_call_result", "cut"}]_vars

=============================================================================
