----------------------------- MODULE ChatStream -----------------------------
(***************************************************************************)
(* What a client of POST /chat may rely on: the order of the server-sent   *)
(* events of one turn, whatever the language model, the tools and the      *)
(* database do.  A turn is known by the last thing its client was sent.    *)
(***************************************************************************)
CONSTANTS Turns, Tools

VARIABLE wire   \* wire[t]: the last event of turn t

Said(type)       == [type |-> type, name |-> "none"]
About(type, n)   == [type |-> type, name |-> n]
Nothing          == Said("nothing")
Token            == Said("token")
Error            == Said("error")
Done             == Said("done")
Terminator       == Said("[DONE]")
Cut              == Said("cut")

Init == wire = [t \in Turns |-> Nothing]

Open(e) == e \in {Nothing, Token} \/ e.type = "tool_call_result"

\* e may be followed by f.  Text and tool calls alternate freely; a call that
\* was announced is answered, by its result or by the error that ends the
\* turn; the error, if any, is the last event but "done", which precedes the
\* terminator.  The connection may be cut anywhere.
Follows(e, f) ==
    \/ Open(e) /\ f = Token
    \/ Open(e) /\ \E n \in Tools : f = About("tool_call_start", n)
    \/ \E n \in Tools :
          e = About("tool_call_start", n) /\ f = About("tool_call_result", n)
    \/ (Open(e) \/ e.type = "tool_call_start") /\ f = Error
    \/ (Open(e) \/ e = Error) /\ f = Done
    \/ e = Done /\ f = Terminator
    \/ e \notin {Terminator, Cut} /\ f = Cut

Events == {Token, Error, Done, Terminator, Cut}
          \cup {About("tool_call_start", n)  : n \in Tools}
          \cup {About("tool_call_result", n) : n \in Tools}

\* One event for one client, or every connection cut at once.
Next ==
    \/ \E t \in Turns : \E f \in Events :
          Follows(wire[t], f) /\ wire' = [wire EXCEPT ![t] = f]
    \/ \E S \in SUBSET Turns :
          /\ \A t \in S : Follows(wire[t], Cut)
          /\ wire' = [t \in Turns |-> IF t \in S THEN Cut ELSE wire[t]]

Spec == Init /\ [][Next]_wire

=============================================================================
