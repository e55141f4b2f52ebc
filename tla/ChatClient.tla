----------------------------- MODULE ChatClient -----------------------------
(***************************************************************************)
(* The chat panel of the widget as the reader of POST /chat: useChat.ts     *)
(* with the ChatPanel that holds its state and the InputBox that it         *)
(* disables.  What the API sends is any behaviour of ChatStream, the        *)
(* contract that ChatTurn implements; a connection that is cut there is an  *)
(* error here, and so is a response that is no event stream.                *)
(***************************************************************************)
EXTENDS Naturals, FiniteSets, SequencesExt

CONSTANTS
    MaxTurns,  \* bound: messages sent
    MaxEvents, \* bound: events of a turn before it has to end
    Tools      \* tool names

Turns == 1..MaxTurns

VARIABLES
    sent,    \* sent[t]: the events of turn t that onmessage or onerror has seen
    conn,    \* conn[t]: the request of turn t
    open,    \* the panel is mounted
    bubbles, \* its assistant messages
    pending, \* its pending flag
    late     \* a connection of this panel broke after its terminator

vars == <<sent, conn, open, bubbles, pending, late>>

\* The last thing the client of turn t was sent.
LastSent(t) == IF sent[t] = <<>> THEN [type |-> "nothing", name |-> "none"]
                                 ELSE Last(sent[t]).ev

Stream == INSTANCE ChatStream WITH wire <- [t \in Turns |-> LastSent(t)]

Outcomes == {"unknown", "ok", "failed"}
Event    == [ev : [type : {"token", "error", "done", "[DONE]", "cut",
                            "tool_call_start", "tool_call_result"},
                   name : Tools \cup {"none"}],
             n  : Nat,          \* its place in the turn
             ok : Outcomes]     \* how the tool fared
Bubble   == [turn : Turns, content : Seq(Nat), tools : Seq([name : Tools, ok : Outcomes])]

TypeOK ==
    /\ sent \in [Turns -> Seq(Event)]
    /\ conn    \in [Turns -> {"none", "open", "settled"}]
    /\ open    \in BOOLEAN
    /\ bubbles \in Seq(Bubble)
    /\ pending \in BOOLEAN
    /\ late    \in BOOLEAN

Init ==
    /\ sent = [t \in Turns |-> <<>>]
    /\ conn = [t \in Turns |-> "none"]
    /\ open = FALSE /\ bubbles = <<>> /\ pending = FALSE /\ late = FALSE

-----------------------------------------------------------------------------
(* The user.                                                               *)

\* A panel is mounted with a new conversation and no messages.
OpenPanel ==
    /\ ~open
    /\ open' = TRUE
    /\ UNCHANGED <<sent, conn, bubbles, pending, late>>

\* Unmounting forgets the messages and the flag; no stream is aborted.  (What
\* a settled turn was sent is dropped with the last bubble that shows it.)
ClosePanel ==
    /\ open
    /\ open' = FALSE /\ bubbles' = <<>> /\ pending' = FALSE /\ late' = FALSE
    /\ sent' = [t \in Turns |-> IF conn[t] = "settled" THEN <<>> ELSE sent[t]]
    /\ conn' = conn

\* Mutant of Submit: the form does not look at disabled.
SubmitAnyway(t) ==
    /\ open
    /\ conn[t] = "none" /\ \A u \in 1..(t - 1) : conn[u] # "none"
    /\ conn'    = [conn EXCEPT ![t] = "open"]
    /\ bubbles' = Append(bubbles, [turn |-> t, content |-> <<>>, tools |-> <<>>])
    /\ pending' = TRUE
    /\ UNCHANGED <<sent, open, late>>

Submit(t) ==
    /\ open /\ ~pending
    /\ conn[t] = "none" /\ \A u \in 1..(t - 1) : conn[u] # "none"
    /\ conn'    = [conn EXCEPT ![t] = "open"]
    /\ bubbles' = Append(bubbles, [turn |-> t, content |-> <<>>, tools |-> <<>>])
    /\ pending' = TRUE
    /\ UNCHANGED <<sent, open, late>>

-----------------------------------------------------------------------------
(* The stream.  An event matters when it is handled; events that are under  *)
(* way stay in order and are nobody's state.                                *)

\* What turn t may be sent next.  MaxEvents stands for the iterations it has.
Coming(t) ==
    {f \in Stream!Events :
        /\ Stream!Follows(LastSent(t), f)
        /\ Len(sent[t]) >= MaxEvents => f.type \notin {"token", "tool_call_start"}}

OutcomeOf(f) == IF f.type = "tool_call_result" THEN {"ok", "failed"} ELSE {"unknown"}

Record(t, f, ok) == [sent EXCEPT ![t] = Append(@, [ev |-> f, n |-> Len(@), ok |-> ok])]

Shown(t) == \E i \in DOMAIN bubbles : bubbles[i].turn = t

Forget(t) == [sent EXCEPT ![t] = <<>>]

\* Mutant of CallOf: the first call of that name.
FirstCallOf(tools, name) == SelectInSeq(tools, LAMBDA c : c.name = name)

\* The call a result belongs to: the last of that name.
CallOf(tools, name) == SelectLastInSeq(tools, LAMBDA c : c.name = name)

\* What setMessages makes of a bubble; parsed.result.ok counts as true unless
\* it is false.
Updated(b, f, n, ok) ==
    LET k == CallOf(b.tools, f.name) IN
    CASE f.type \in {"token", "error"} -> [b EXCEPT !.content = Append(@, n)]
      [] f.type = "tool_call_start" ->
            [b EXCEPT !.tools = Append(@, [name |-> f.name, ok |-> "unknown"])]
      [] f.type = "tool_call_result" /\ k # 0 -> [b EXCEPT !.tools[k].ok = ok]
      [] OTHER -> b

\* onmessage; the state of a panel that was unmounted is gone.
Handle(t) ==
    /\ conn[t] = "open"
    /\ \E f \in Coming(t) \ {Stream!Cut} : \E ok \in OutcomeOf(f) :
         /\ sent' = Record(t, f, ok)
         /\ bubbles' = [i \in DOMAIN bubbles |->
                          IF bubbles[i].turn = t
                            THEN Updated(bubbles[i], f, Len(sent[t]), ok)
                            ELSE bubbles[i]]
         /\ pending' = (pending /\ ~(Shown(t) /\ f = Stream!Terminator))
    /\ UNCHANGED <<conn, open, late>>

\* Mutant of Fail: neither onerror nor the catch resets the flag.
FailSilently(t) ==
    /\ conn[t] = "open" /\ Stream!Cut \in Coming(t)
    /\ sent' = IF Shown(t) THEN Record(t, Stream!Cut, "unknown") ELSE Forget(t)
    /\ conn' = [conn EXCEPT ![t] = "settled"]
    /\ UNCHANGED <<open, bubbles, pending, late>>

\* onerror throws, so the request is not tried again.
Fail(t) ==
    /\ conn[t] = "open" /\ Stream!Cut \in Coming(t)
    /\ sent' = IF Shown(t) THEN Record(t, Stream!Cut, "unknown") ELSE Forget(t)
    /\ conn'    = [conn EXCEPT ![t] = "settled"]
    /\ pending' = (pending /\ ~Shown(t))
    /\ UNCHANGED <<open, bubbles, late>>

\* After the terminator the response ends, which changes nothing, or breaks,
\* which is an error like any other.
Finish(t) ==
    /\ conn[t] = "open" /\ LastSent(t) = Stream!Terminator
    /\ conn' = [conn EXCEPT ![t] = "settled"]
    /\ \/ UNCHANGED <<pending, late>>
       \/ pending' = (pending /\ ~Shown(t)) /\ late' = (late \/ Shown(t))
    /\ sent' = IF Shown(t) THEN sent ELSE Forget(t)
    /\ UNCHANGED <<open, bubbles>>

Next ==
    \/ OpenPanel \/ ClosePanel
    \/ \E t \in Turns : Submit(t) \/ Handle(t) \/ Fail(t) \/ Finish(t)

\* The API goes on with every turn until its terminator (TurnsEnd of ChatTurn),
\* unless the connection is cut; nobody has to cut it.
Fairness == \A t \in Turns : WF_vars(Handle(t))

Spec == Init /\ [][Next]_vars /\ Fairness

-----------------------------------------------------------------------------

Text   == {"token", "error"}
Call   == {"tool_call_start"}
Result == {"tool_call_result"}

\* How many of the first m events of turn t are of these types.
Count(t, types, m) == Cardinality({k \in 1..m : sent[t][k].ev.type \in types})

\* Every answer on the screen is what the API sent for its own question, to the
\* last handled event, however many turns are under way: its text and its
\* error in order, and for every tool it names the outcome of that very call,
\* the j-th result for the j-th call as calls are answered one at a time,
\* though results are matched by name (useChat: assistantId, findIndex on the
\* reversed list).
AnswersAreTheirs ==
    \A i \in DOMAIN bubbles :
        LET b == bubbles[i]
            t == b.turn
            all == Len(sent[t])
            Are(types) == {m \in 1..all : sent[t][m].ev.type \in types}
        IN
        /\ Len(b.content) = Count(t, Text, all)
        /\ \A m \in Are(Text) : b.content[Count(t, Text, m)] = sent[t][m].n
        /\ Len(b.tools) = Count(t, Call, all)
        /\ \A m \in Are(Call) : b.tools[Count(t, Call, m)].name = sent[t][m].ev.name
        /\ \A m \in Are(Result) : b.tools[Count(t, Result, m)].ok = sent[t][m].ok
        /\ \A j \in DOMAIN b.tools : j > Count(t, Result, all) => b.tools[j].ok = "unknown"

\* While a turn of this panel waits for its terminator the input is disabled, so
\* a panel runs one turn at a time; only a connection that breaks between its
\* terminator and its end can clear the flag of the turn after it (onerror and
\* the catch do not look which turn is pending).
OneTurnAtATime ==
    ~late /\ ~pending =>
        \A i \in DOMAIN bubbles :
            LET t == bubbles[i].turn IN
            conn[t] = "open" => LastSent(t) = Stream!Terminator

\* However a turn ends, the input box comes back (or the panel was closed).
InputComesBack == pending ~> ~pending

=============================================================================
