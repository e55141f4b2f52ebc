---------------------------- MODULE WidgetProofs ----------------------------
(***************************************************************************)
(* Proofs about the widget: Embed, for any bound on the messages under way, *)
(* and ChatClient, for any number of turns, events and tools.               *)
(*                                                                         *)
(* The frame: only Render posts mc:ready, so wherever that message is under *)
(* way, or has been delivered, both fetches had been answered and the page  *)
(* had injected the iframe; and none of these is ever taken back.  A page   *)
(* with a second widget is excepted.                                        *)
(*                                                                         *)
(* The panel: an answer is compared with the events of its turn by counting *)
(* them (Mirrors), which every event preserves (NextEvent).  A result is    *)
(* matched by name, with the last call of that name; that it is the right   *)
(* call rests on the stream, where calls and results alternate (Balanced),  *)
(* so that the call is the event before.  The input is guarded by one flag  *)
(* for all turns; that it is set while a turn waits rests on there being at *)
(* most one such turn (OneWaits), or else another's end would clear it.     *)
(***************************************************************************)
EXTENDS MCAnswers, FiniteSetTheorems, SequenceTheorems, TLAPS

\* What is there once App has rendered.
Ready == app # "none" /\ host = "injected" /\ \A f \in Frame!Fetches : fetched[f] = "ok"

ReadyInv ==
    /\ host # "injected" => doc = "none"
    /\ doc \in {"none", "loading"} => \A f \in Frame!Fetches : fetched[f] = "none"
    /\ \A f \in Frame!Fetches : fetched[f] # "none" => host = "injected"
    /\ app # "none" => Ready
    /\ \A i \in DOMAIN toHost : toHost[i] = "mc:ready" => Ready \/ beside
    /\ visible => Ready \/ beside

LEMMA FrameTypeInit == Frame!Init => Frame!TypeOK
<1> SUFFICES ASSUME Frame!Init PROVE Frame!TypeOK
  OBVIOUS
<1>1. toHost \in Seq({"mc:ready"} \cup Frame!Sizes) /\ toFrame \in Seq({"mc:theme"})
  BY DEF Frame!Init
<1>2. fetched \in [Frame!Fetches -> {"none", "asked", "ok", "failed"}]
  BY DEF Frame!Init
<1>3. QED
  BY <1>1, <1>2 DEF Frame!Init, Frame!TypeOK, Frame!Sizes

LEMMA FrameTypeStep == ASSUME Frame!TypeOK, [Frame!Next]_(Frame!vars) PROVE Frame!TypeOK'
<1> USE DEF Frame!TypeOK, Frame!Sizes
<1>1. ASSUME NEW ok \in BOOLEAN, Frame!ConfigAnswers(ok) PROVE Frame!TypeOK'
  BY <1>1 DEF Frame!ConfigAnswers
<1>2. ASSUME Frame!Refuse \/ Frame!Bootstrap PROVE Frame!TypeOK'
  BY <1>2 DEF Frame!Refuse, Frame!Bootstrap
<1>3. ASSUME Frame!Loaded PROVE Frame!TypeOK'
  BY <1>3 DEF Frame!Loaded
<1>4. ASSUME NEW f \in Frame!Fetches, NEW ok \in BOOLEAN, Frame!FetchAnswers(f, ok) PROVE Frame!TypeOK'
  BY <1>4 DEF Frame!FetchAnswers
<1>5. ASSUME Frame!Render PROVE Frame!TypeOK'
  BY <1>5 DEF Frame!Render
<1>6. ASSUME Frame!Listen \/ Frame!Toggle PROVE Frame!TypeOK'
  BY <1>6 DEF Frame!Listen, Frame!Toggle
<1>7. ASSUME Frame!Observe PROVE Frame!TypeOK'
  BY <1>7 DEF Frame!Observe, Frame!Content
<1>8. ASSUME Frame!HostReceives PROVE Frame!TypeOK'
  <2>1. toHost # <<>> /\ toHost \in Seq({"mc:ready"} \cup Frame!Sizes)
    BY <1>8 DEF Frame!HostReceives
  <2>2. Head(toHost) \in {"mc:ready"} \cup Frame!Sizes /\ Tail(toHost) \in Seq({"mc:ready"} \cup Frame!Sizes)
    BY <2>1 DEF Frame!Sizes
  <2>3. size' \in Frame!Sizes /\ visible' \in BOOLEAN
    BY <1>8, <2>2 DEF Frame!HostReceives
  <2>4. QED
    BY <1>8, <2>2, <2>3 DEF Frame!HostReceives
<1>9. ASSUME Frame!FrameReceives PROVE Frame!TypeOK'
  BY <1>9 DEF Frame!FrameReceives
<1>11. ASSUME NEW m \in {"mc:ready", "launcher", "panel"}, Frame!NeighbourPosts(m)
       PROVE  Frame!TypeOK'
  BY <1>11 DEF Frame!NeighbourPosts
<1>10. QED
  BY <1>1, <1>2, <1>3, <1>4, <1>5, <1>6, <1>7, <1>8, <1>9, <1>11 DEF Frame!Next, Frame!vars

LEMMA ReadyInit == Frame!Init => ReadyInv
  BY DEF Frame!Init, ReadyInv, Frame!Fetches

LEMMA ReadyStep == ASSUME Frame!TypeOK, ReadyInv, [Frame!Next]_(Frame!vars) PROVE ReadyInv'
<1> USE DEF Frame!TypeOK, ReadyInv, Ready, Frame!Sizes
<1>1. ASSUME NEW ok \in BOOLEAN, Frame!ConfigAnswers(ok) PROVE ReadyInv'
  BY <1>1 DEF Frame!ConfigAnswers, Frame!Fetches
<1>2. ASSUME Frame!Refuse PROVE ReadyInv'
  BY <1>2 DEF Frame!Refuse
<1>3. ASSUME Frame!Bootstrap PROVE ReadyInv'
  BY <1>3 DEF Frame!Bootstrap, Frame!Fetches
<1>4. ASSUME Frame!Loaded PROVE ReadyInv'
  BY <1>4 DEF Frame!Loaded
<1>5. ASSUME NEW f \in Frame!Fetches, NEW ok \in BOOLEAN, Frame!FetchAnswers(f, ok) PROVE ReadyInv'
  <2>1. ~Ready
    BY <1>5 DEF Frame!FetchAnswers
  <2>2. QED
    BY <1>5, <2>1 DEF Frame!FetchAnswers
<1>6. ASSUME Frame!Render PROVE ReadyInv'
  <2>1. Ready'
    BY <1>6 DEF Frame!Render, Frame!Fetches
  <2>2. QED
    BY <1>6, <2>1 DEF Frame!Render
<1>7. ASSUME Frame!Listen \/ Frame!Toggle \/ Frame!FrameReceives \/ UNCHANGED Frame!vars PROVE ReadyInv'
  BY <1>7 DEF Frame!Listen, Frame!Toggle, Frame!FrameReceives, Frame!vars
<1>8. ASSUME Frame!Observe PROVE ReadyInv'
  <2>1. \A i \in DOMAIN toHost' : toHost'[i] = "mc:ready" => i \in DOMAIN toHost
                                                             /\ toHost'[i] = toHost[i]
    BY <1>8 DEF Frame!Observe, Frame!Content
  <2>2. QED
    BY <1>8, <2>1 DEF Frame!Observe
<1>9. ASSUME Frame!HostReceives PROVE ReadyInv'
  <2>1. \A i \in DOMAIN toHost' : i + 1 \in DOMAIN toHost /\ toHost'[i] = toHost[i + 1]
    BY <1>9 DEF Frame!HostReceives
  <2>2. visible' => visible \/ Ready \/ beside
    <3>1. toHost # <<>> /\ (visible' => visible \/ Head(toHost) = "mc:ready")
      BY <1>9 DEF Frame!HostReceives
    <3>2. 1 \in DOMAIN toHost /\ Head(toHost) = toHost[1]
      BY <3>1
    <3>3. QED
      BY <3>1, <3>2
  <2>3. QED
    BY <1>9, <2>1, <2>2 DEF Frame!HostReceives
<1>11. ASSUME NEW m \in {"mc:ready", "launcher", "panel"}, Frame!NeighbourPosts(m)
       PROVE  ReadyInv'
  BY <1>11 DEF Frame!NeighbourPosts
<1>10. QED
  BY <1>1, <1>2, <1>3, <1>4, <1>5, <1>6, <1>7, <1>8, <1>9, <1>11 DEF Frame!Next

LEMMA FrameHolds == Frame!Spec => [](Frame!TypeOK /\ ReadyInv)
  BY FrameTypeInit, FrameTypeStep, ReadyInit, ReadyStep, PTL DEF Frame!Spec

\* An iframe that can be seen has its config and its session and has rendered,
\* in whichever order fetches, load event and messages came, on a page with one
\* widget (bootstrap).
THEOREM FadesInWhenReady == Frame!Spec => []VisibleIsReady
<1>1. Frame!TypeOK /\ ReadyInv => VisibleIsReady
  BY DEF ReadyInv, Ready, VisibleIsReady, Frame!VisibleIsReady
<1>2. QED
  BY <1>1, FrameHolds, PTL

-----------------------------------------------------------------------------
(* The panel.  An answer mirrors the events of its turn; and calls and      *)
(* results alternate, so a result finds its own call: it is the last one,   *)
(* and it is named like the event that came just before the result.         *)

Events == Seq(Client!Event)

\* Count, of any sequence of events.
Num(s, types, m) == Cardinality({k \in 1..m : s[k].ev.type \in types})

Are(s, types) == {m \in 1..Len(s) : s[m].ev.type \in types}

\* Bubble b shows what the events s say.
Mirrors(b, s) ==
    /\ Len(b.content) = Num(s, Client!Text, Len(s))
    /\ \A m \in Are(s, Client!Text) : b.content[Num(s, Client!Text, m)] = s[m].n
    /\ Len(b.tools) = Num(s, Client!Call, Len(s))
    /\ \A m \in Are(s, Client!Call) : b.tools[Num(s, Client!Call, m)].name = s[m].ev.name
    /\ \A m \in Are(s, Client!Result) : b.tools[Num(s, Client!Result, m)].ok = s[m].ok
    /\ \A j \in DOMAIN b.tools :
          j > Num(s, Client!Result, Len(s)) => b.tools[j].ok = "unknown"

LastOf(s) == IF s = <<>> THEN Client!Stream!Nothing ELSE s[Len(s)].ev

\* While a turn goes on, its last call is the only one that may be unanswered.
Balanced(s) ==
    /\ LastOf(s).type = "tool_call_start" =>
         Num(s, Client!Call, Len(s)) = Num(s, Client!Result, Len(s)) + 1
    /\ LastOf(s).type \in {"nothing", "token", "tool_call_result"} =>
         Num(s, Client!Call, Len(s)) = Num(s, Client!Result, Len(s))

LEMMA CountIsNum ==
    ASSUME NEW t, NEW types, NEW m
    PROVE  Client!Count(t, types, m) = Num(sent[t], types, m)
  BY DEF Client!Count, Num, Client!Cardinality, Cardinality

LEMMA NumType ==
    ASSUME NEW s \in Events, NEW types, NEW m \in 0..Len(s)
    PROVE  Num(s, types, m) \in Nat
<1>1. IsFiniteSet(1..m) /\ {k \in 1..m : s[k].ev.type \in types} \in SUBSET (1..m)
  BY FS_Interval
<1>2. QED
  BY <1>1, FS_Subset, FS_CardinalityType DEF Num

LEMMA NumGrows ==
    ASSUME NEW s \in Events, NEW types, NEW m \in 0..Len(s), NEW n \in 0..m
    PROVE  Num(s, types, n) <= Num(s, types, m)
<1> DEFINE A == {k \in 1..n : s[k].ev.type \in types}
           B == {k \in 1..m : s[k].ev.type \in types}
<1>1. IsFiniteSet(1..m) /\ B \in SUBSET (1..m) /\ A \in SUBSET B
  BY FS_Interval
<1>2. IsFiniteSet(B)
  BY <1>1, FS_Subset
<1>3. Cardinality(A) <= Cardinality(B)
  BY <1>1, <1>2, FS_Subset
<1>4. QED
  BY <1>3 DEF Num

\* An event of these types counts itself.
LEMMA NumHas ==
    ASSUME NEW s \in Events, NEW types, NEW m \in Are(s, types)
    PROVE  Num(s, types, m) \in 1..Num(s, types, Len(s))
<1> DEFINE A == {k \in 1..m : s[k].ev.type \in types}
<1>1. m \in 1..Len(s) /\ m \in 0..Len(s) /\ Len(s) \in 0..Len(s) /\ m \in 0..Len(s)
      /\ s[m].ev.type \in types
  BY DEF Are, Events
<1>2. IsFiniteSet(1..m) /\ A \in SUBSET (1..m) /\ m \in A
  BY <1>1, FS_Interval
<1>3. IsFiniteSet(A) /\ A # {}
  BY <1>2, FS_Subset
<1>4. Cardinality(A) # 0
  BY <1>3, FS_EmptySet
<1>5. Num(s, types, m) \in Nat /\ Num(s, types, m) # 0
  BY <1>1, <1>4, NumType DEF Num
<1>6. Num(s, types, m) <= Num(s, types, Len(s)) /\ Num(s, types, Len(s)) \in Nat
  BY <1>1, NumGrows, NumType DEF Events
<1>7. QED
  BY <1>5, <1>6

LEMMA NumNone == ASSUME NEW s, NEW types PROVE Num(s, types, 0) = 0
<1>1. {k \in 1..0 : s[k].ev.type \in types} = {}
  OBVIOUS
<1>2. QED
  BY <1>1, FS_EmptySet DEF Num

\* One more event.
LEMMA NumAppend ==
    ASSUME NEW s \in Events, NEW e, NEW types
    PROVE  /\ \A m \in 0..Len(s) : Num(Append(s, e), types, m) = Num(s, types, m)
           /\ Len(Append(s, e)) = Len(s) + 1
           /\ Num(Append(s, e), types, Len(s) + 1) =
                 Num(s, types, Len(s)) + (IF e.ev.type \in types THEN 1 ELSE 0)
<1> DEFINE t == Append(s, e)
           n == Len(s)
           A == {k \in 1..n : s[k].ev.type \in types}
           B == {k \in 1..(n + 1) : t[k].ev.type \in types}
<1>1. n \in Nat /\ Len(t) = n + 1 /\ t[n + 1] = e /\ \A k \in 1..n : t[k] = s[k]
  BY DEF Events
<1>2. \A m \in 0..n : Num(t, types, m) = Num(s, types, m)
  <2> SUFFICES ASSUME NEW m \in 0..n PROVE Num(t, types, m) = Num(s, types, m)
    OBVIOUS
  <2>1. {k \in 1..m : t[k].ev.type \in types} = {k \in 1..m : s[k].ev.type \in types}
    <3>1. \A k \in 1..m : t[k] = s[k]
      BY <1>1
    <3> HIDE DEF t
    <3>2. QED
      BY <3>1
  <2>2. QED
    BY <2>1 DEF Num
<1>3. IsFiniteSet(A)
  <2>1. IsFiniteSet(1..n) /\ A \in SUBSET (1..n)
    BY <1>1, FS_Interval
  <2>2. QED
    BY <2>1, FS_Subset
<1>4. B = IF e.ev.type \in types THEN A \cup {n + 1} ELSE A
  <2> HIDE DEF t, n
  <2>1. QED
    BY <1>1
<1>5. n + 1 \notin A
  BY <1>1
<1>6. Cardinality(B) = Cardinality(A) + (IF e.ev.type \in types THEN 1 ELSE 0)
  <2>1. Cardinality(A) \in Nat
    BY <1>3, FS_CardinalityType
  <2> HIDE DEF A, B, n, t
  <2>2. CASE e.ev.type \in types
    BY <1>3, <1>4, <1>5, <2>1, <2>2, FS_AddElement
  <2>3. CASE e.ev.type \notin types
    BY <1>4, <2>1, <2>3
  <2>4. QED
    BY <2>2, <2>3
<1>7. QED
  BY <1>1, <1>2, <1>6 DEF Num

\* The last call of that name, when the last call has it, is the last call.
LEMMA LastCall ==
    ASSUME NEW tools, NEW name, Len(tools) \in Nat \ {0}, tools[Len(tools)].name = name
    PROVE  Client!CallOf(tools, name) = Len(tools)
<1> DEFINE I == {i \in 1..Len(tools) : tools[i].name = name}
<1>1. Len(tools) \in I /\ \A i \in I : i \in Nat /\ Len(tools) >= i
  OBVIOUS
<1>2. Client!CallOf(tools, name) = CHOOSE x \in I : \A y \in I : x >= y
  BY <1>1 DEF Client!CallOf, Client!SelectLastInSeq, Client!Max
<1>3. PICK x \in I : x = Client!CallOf(tools, name) /\ \A y \in I : x >= y
  BY <1>1, <1>2
<1>4. x >= Len(tools) /\ Len(tools) >= x /\ x \in Nat
  BY <1>1, <1>3
<1>5. QED
  BY <1>3, <1>4

EventOf(f, n, ok) == [ev |-> f, n |-> n, ok |-> ok]

\* What one more event f changes in the counts: s becomes t.
Extends(s, t, f, ok) ==
    LET n == Len(s) IN
    /\ n \in Nat /\ Len(t) = n + 1
    /\ t[n + 1].ev = f /\ t[n + 1].n = n /\ t[n + 1].ok = ok
    /\ \A types :
         /\ Num(s, types, n) \in Nat
         /\ Num(t, types, n + 1) = Num(s, types, n) + (IF f.type \in types THEN 1 ELSE 0)
         /\ Are(t, types) = Are(s, types) \cup (IF f.type \in types THEN {n + 1} ELSE {})
         /\ \A m \in Are(s, types) :
               /\ t[m] = s[m]
               /\ Num(t, types, m) = Num(s, types, m)
               /\ Num(s, types, m) \in 1..Num(s, types, n)

LEMMA Appended ==
    ASSUME NEW s \in Events, NEW f, NEW ok,
           NEW t, t = Append(s, EventOf(f, Len(s), ok))
    PROVE  Extends(s, t, f, ok)
<1> DEFINE n == Len(s)
           e == EventOf(f, n, ok)
<1>1. /\ n \in Nat /\ Len(t) = n + 1 /\ t[n + 1] = e /\ \A k \in 1..n : t[k] = s[k]
      /\ e.ev = f /\ e.n = n /\ e.ok = ok /\ t = Append(s, e)
  BY DEF Events, EventOf
<1> HIDE DEF e
<1>2. ASSUME NEW types
      PROVE  /\ Num(t, types, n + 1) = Num(s, types, n) + (IF f.type \in types THEN 1 ELSE 0)
             /\ \A m \in 0..n : Num(t, types, m) = Num(s, types, m)
             /\ Num(s, types, n) \in Nat
  <2>1. n \in 0..n
    BY <1>1
  <2>2. Num(s, types, n) \in Nat
    BY <2>1, NumType
  <2>3. QED
    BY <1>1, <2>2, NumAppend
<1>3. ASSUME NEW types
      PROVE  Are(t, types) = Are(s, types) \cup (IF f.type \in types THEN {n + 1} ELSE {})
  BY <1>1 DEF Are
<1>4. ASSUME NEW types, NEW m \in Are(s, types)
      PROVE  m \in 1..n /\ m \in 0..n /\ Num(s, types, m) \in 1..Num(s, types, n)
  BY NumHas DEF Are, Events
<1>5. ASSUME NEW types, NEW m \in Are(s, types)
      PROVE  t[m] = s[m] /\ Num(t, types, m) = Num(s, types, m)
  BY <1>1, <1>2, <1>4
<1> HIDE DEF n
<1>6. QED
  BY <1>1, <1>2, <1>3, <1>4, <1>5 DEF Extends, n

LEMMA Kinds ==
    /\ "token" \in Client!Text /\ "error" \in Client!Text
    /\ \A x \in Client!Text   : x \notin Client!Call /\ x \notin Client!Result
    /\ \A x \in Client!Call   : x \notin Client!Text /\ x \notin Client!Result
    /\ \A x \in Client!Result : x \notin Client!Text /\ x \notin Client!Call
  BY DEF Client!Text, Client!Call, Client!Result

\* Only the text of the model and its error add to what is read.
LEMMA TextMirrored ==
    ASSUME NEW s \in Events, NEW b \in Client!Bubble, Mirrors(b, s), NEW ok,
           NEW f, f.type \in Client!Text,
           NEW t, t = Append(s, EventOf(f, Len(s), ok))
    PROVE  Mirrors(Client!Updated(b, f, Len(s), ok), t)
<1> DEFINE n == Len(s)
           c == Client!Updated(b, f, n, ok)
<1>0. Extends(s, t, f, ok)
  BY Appended
<1>1. /\ c.content = Append(b.content, n) /\ c.tools = b.tools /\ b.content \in Seq(Nat)
  BY DEF Client!Updated, Client!Text, Client!Bubble
<1>2. f.type \notin Client!Call /\ f.type \notin Client!Result
  BY Kinds
<1>3. /\ n \in Nat /\ Len(t) = n + 1 /\ t[n + 1].n = n
      /\ Num(t, Client!Text, n + 1) = Num(s, Client!Text, n) + 1
      /\ Are(t, Client!Text) = Are(s, Client!Text) \cup {n + 1}
      /\ Are(t, Client!Call) = Are(s, Client!Call) /\ Are(t, Client!Result) = Are(s, Client!Result)
  BY <1>0, <1>2 DEF Extends
<1>4. \A types : \A m \in Are(s, types) :
         /\ t[m] = s[m] /\ Num(t, types, m) = Num(s, types, m)
         /\ Num(s, types, m) \in 1..Num(s, types, n)
  BY <1>0 DEF Extends
<1>5. Num(s, Client!Call, n) \in Nat /\ Num(s, Client!Result, n) \in Nat
  BY <1>0 DEF Extends
<1>6. /\ Num(t, Client!Call, n + 1) = Num(s, Client!Call, n)
      /\ Num(t, Client!Result, n + 1) = Num(s, Client!Result, n)
  BY <1>0, <1>2, <1>5 DEF Extends
<1> HIDE DEF c, n
<1>7. Len(c.content) = Num(t, Client!Text, n + 1)
  BY <1>1, <1>3 DEF Mirrors, n
<1>8. ASSUME NEW m \in Are(t, Client!Text)
      PROVE  c.content[Num(t, Client!Text, m)] = t[m].n
  <2>1. CASE m = n + 1
    <3>1. Len(b.content) = Num(s, Client!Text, n)
      BY DEF Mirrors, n
    <3>2. Num(t, Client!Text, m) = Len(b.content) + 1
      BY <1>3, <2>1, <3>1
    <3>3. c.content[Len(b.content) + 1] = n
      BY <1>1
    <3>4. QED
      BY <1>3, <2>1, <3>2, <3>3
  <2>2. CASE m \in Are(s, Client!Text)
    <3>1. Num(s, Client!Text, m) \in 1..Len(b.content)
      BY <1>4, <2>2 DEF Mirrors, n
    <3>2. c.content[Num(s, Client!Text, m)] = b.content[Num(s, Client!Text, m)]
      BY <1>1, <3>1
    <3>3. QED
      BY <1>4, <2>2, <3>2 DEF Mirrors
  <2>3. QED
    BY <1>3, <2>1, <2>2
<1>9. ASSUME NEW m \in Are(t, Client!Call)
      PROVE  c.tools[Num(t, Client!Call, m)].name = t[m].ev.name
  <2>1. b.tools[Num(s, Client!Call, m)].name = s[m].ev.name
    BY <1>3 DEF Mirrors
  <2>2. t[m] = s[m] /\ Num(t, Client!Call, m) = Num(s, Client!Call, m)
    BY <1>3, <1>4
  <2>3. QED
    BY <1>1, <2>1, <2>2
<1>10. ASSUME NEW m \in Are(t, Client!Result)
       PROVE  c.tools[Num(t, Client!Result, m)].ok = t[m].ok
  <2>1. b.tools[Num(s, Client!Result, m)].ok = s[m].ok
    BY <1>3 DEF Mirrors
  <2>2. t[m] = s[m] /\ Num(t, Client!Result, m) = Num(s, Client!Result, m)
    BY <1>3, <1>4
  <2>3. QED
    BY <1>1, <2>1, <2>2
<1>11. QED
  BY <1>1, <1>3, <1>6, <1>7, <1>8, <1>9, <1>10 DEF Mirrors, c, n

\* A call that starts is shown last, and nothing is known of it.
LEMMA CallMirrored ==
    ASSUME NEW s \in Events, NEW b \in Client!Bubble, Mirrors(b, s), NEW ok,
           NEW f, f.type \in Client!Call,
           Num(s, Client!Result, Len(s)) <= Num(s, Client!Call, Len(s)),
           NEW t, t = Append(s, EventOf(f, Len(s), ok))
    PROVE  Mirrors(Client!Updated(b, f, Len(s), ok), t)
<1> DEFINE n == Len(s)
           c == Client!Updated(b, f, n, ok)
           call == [name |-> f.name, ok |-> "unknown"]
<1>0. Extends(s, t, f, ok)
  BY Appended
<1>1. /\ c.content = b.content /\ c.tools = Append(b.tools, call)
      /\ b.tools \in Seq([name : Tools, ok : Client!Outcomes])
      /\ Len(b.tools) \in Nat /\ Len(c.tools) = Len(b.tools) + 1
      /\ \A j \in 1..Len(b.tools) : c.tools[j] = b.tools[j]
      /\ c.tools[Len(b.tools) + 1] = call
  BY DEF Client!Updated, Client!Call, Client!Bubble
<1>2. f.type \notin Client!Text /\ f.type \notin Client!Result
  BY Kinds
<1>3. /\ n \in Nat /\ Len(t) = n + 1 /\ t[n + 1].ev = f
      /\ Num(t, Client!Call, n + 1) = Num(s, Client!Call, n) + 1
      /\ Are(t, Client!Call) = Are(s, Client!Call) \cup {n + 1}
      /\ Are(t, Client!Text) = Are(s, Client!Text) /\ Are(t, Client!Result) = Are(s, Client!Result)
  BY <1>0, <1>2 DEF Extends
<1>4. \A types : \A m \in Are(s, types) :
         /\ t[m] = s[m] /\ Num(t, types, m) = Num(s, types, m)
         /\ Num(s, types, m) \in 1..Num(s, types, n)
  BY <1>0 DEF Extends
<1>5. Num(s, Client!Text, n) \in Nat /\ Num(s, Client!Result, n) \in Nat
  BY <1>0 DEF Extends
<1>6. /\ Num(t, Client!Text, n + 1) = Num(s, Client!Text, n)
      /\ Num(t, Client!Result, n + 1) = Num(s, Client!Result, n)
  BY <1>0, <1>2, <1>5 DEF Extends
<1> HIDE DEF c, n, call
<1>7. Len(b.tools) = Num(s, Client!Call, n)
  BY DEF Mirrors, n
<1>8. ASSUME NEW m \in Are(t, Client!Call)
      PROVE  c.tools[Num(t, Client!Call, m)].name = t[m].ev.name
  <2>1. CASE m = n + 1
    BY <1>1, <1>3, <1>7, <2>1 DEF call
  <2>2. CASE m \in Are(s, Client!Call)
    <3>1. Num(s, Client!Call, m) \in 1..Len(b.tools)
      BY <1>4, <1>7, <2>2
    <3>2. c.tools[Num(s, Client!Call, m)] = b.tools[Num(s, Client!Call, m)]
      BY <1>1, <3>1
    <3>3. QED
      BY <1>4, <2>2, <3>2 DEF Mirrors
  <2>3. QED
    BY <1>3, <2>1, <2>2
<1>9. ASSUME NEW m \in Are(t, Client!Result)
      PROVE  c.tools[Num(t, Client!Result, m)].ok = t[m].ok
  <2>1. m \in Are(s, Client!Result) /\ Num(s, Client!Result, m) \in 1..Num(s, Client!Result, n)
    BY <1>3, <1>4
  <2>2. Num(s, Client!Result, m) \in 1..Len(b.tools)
    BY <1>1, <1>5, <1>7, <2>1 DEF n
  <2>3. c.tools[Num(s, Client!Result, m)] = b.tools[Num(s, Client!Result, m)]
    BY <1>1, <2>2
  <2>4. QED
    BY <1>4, <2>1, <2>3 DEF Mirrors
<1>10. ASSUME NEW j \in DOMAIN c.tools, j > Num(t, Client!Result, n + 1)
       PROVE  c.tools[j].ok = "unknown"
  <2>1. j \in 1..(Len(b.tools) + 1)
    BY <1>1
  <2>2. CASE j = Len(b.tools) + 1
    BY <1>1, <2>2 DEF call
  <2>3. CASE j \in 1..Len(b.tools)
    <3>1. j \in DOMAIN b.tools /\ c.tools[j] = b.tools[j] /\ j > Num(s, Client!Result, n)
      BY <1>1, <1>6, <1>10, <2>3
    <3>2. QED
      BY <3>1 DEF Mirrors, n
  <2>4. QED
    BY <1>1, <2>1, <2>2, <2>3
<1>11. ASSUME NEW m \in Are(t, Client!Text)
       PROVE  c.content[Num(t, Client!Text, m)] = t[m].n
  <2>1. b.content[Num(s, Client!Text, m)] = s[m].n
    BY <1>3 DEF Mirrors
  <2>2. t[m] = s[m] /\ Num(t, Client!Text, m) = Num(s, Client!Text, m)
    BY <1>3, <1>4
  <2>3. QED
    BY <1>1, <2>1, <2>2
<1>12. Len(c.content) = Num(t, Client!Text, n + 1) /\ Len(c.tools) = Num(t, Client!Call, n + 1)
  BY <1>1, <1>3, <1>6, <1>7 DEF Mirrors, n
<1>13. QED
  BY <1>3, <1>8, <1>9, <1>10, <1>11, <1>12 DEF Mirrors, c, n

\* A result comes right after its call, which is the last one and has its name.
LEMMA ResultMirrored ==
    ASSUME NEW s \in Events, NEW b \in Client!Bubble, Mirrors(b, s), NEW ok,
           NEW f, f.type \in Client!Result, LastOf(s).type = "tool_call_start",
           LastOf(s).name = f.name, Balanced(s),
           NEW t, t = Append(s, EventOf(f, Len(s), ok))
    PROVE  Mirrors(Client!Updated(b, f, Len(s), ok), t)
<1> DEFINE n == Len(s)
           c == Client!Updated(b, f, n, ok)
           k == Len(b.tools)
<1>0. Extends(s, t, f, ok)
  BY Appended
<1>1. f.type \notin Client!Text /\ f.type \notin Client!Call
  BY Kinds
<1>2. /\ n \in Nat /\ Len(t) = n + 1 /\ t[n + 1].ok = ok
      /\ Num(t, Client!Result, n + 1) = Num(s, Client!Result, n) + 1
      /\ Are(t, Client!Result) = Are(s, Client!Result) \cup {n + 1}
      /\ Are(t, Client!Text) = Are(s, Client!Text) /\ Are(t, Client!Call) = Are(s, Client!Call)
  BY <1>0, <1>1 DEF Extends
<1>3. \A types : \A m \in Are(s, types) :
         /\ t[m] = s[m] /\ Num(t, types, m) = Num(s, types, m)
         /\ Num(s, types, m) \in 1..Num(s, types, n)
  BY <1>0 DEF Extends
<1>4. Num(s, Client!Text, n) \in Nat /\ Num(s, Client!Call, n) \in Nat
      /\ Num(s, Client!Result, n) \in Nat
  BY <1>0 DEF Extends
<1>5. /\ Num(t, Client!Text, n + 1) = Num(s, Client!Text, n)
      /\ Num(t, Client!Call, n + 1) = Num(s, Client!Call, n)
  BY <1>0, <1>1, <1>4 DEF Extends
<1>6. /\ s # <<>> /\ s[n].ev.type = "tool_call_start" /\ s[n].ev.name = f.name
  BY DEF LastOf, Client!Stream!Nothing, Client!Stream!Said
<1>7. n \in Are(s, Client!Call)
  BY <1>2, <1>6 DEF Are, Events, Client!Call
<1>8. k = Num(s, Client!Call, n) /\ k = Num(s, Client!Result, n) + 1
  BY DEF Mirrors, Balanced
<1>9. b.tools[k].name = f.name
  BY <1>6, <1>7, <1>8 DEF Mirrors
<1>10. Client!CallOf(b.tools, f.name) = k /\ k # 0 /\ k \in Nat
  <2>1. k \in Nat \ {0}
    BY <1>4, <1>8
  <2>2. QED
    BY <1>9, <2>1, LastCall
<1>11. /\ c.content = b.content /\ c.tools = [b.tools EXCEPT ![k].ok = ok]
       /\ b.tools \in Seq([name : Tools, ok : Client!Outcomes])
  BY <1>10 DEF Client!Updated, Client!Result, Client!Bubble
<1>12. /\ Len(c.tools) = k /\ DOMAIN c.tools = DOMAIN b.tools /\ DOMAIN b.tools = 1..k
       /\ \A j \in 1..k : c.tools[j].name = b.tools[j].name
       /\ \A j \in 1..k : j # k => c.tools[j] = b.tools[j]
       /\ c.tools[k].ok = ok
  BY <1>10, <1>11
<1> HIDE DEF c, n, k
<1>13. ASSUME NEW m \in Are(t, Client!Call)
       PROVE  c.tools[Num(t, Client!Call, m)].name = t[m].ev.name
  <2>1. m \in Are(s, Client!Call) /\ Num(s, Client!Call, m) \in 1..k
    BY <1>2, <1>3, <1>8
  <2>2. b.tools[Num(s, Client!Call, m)].name = s[m].ev.name
    BY <2>1 DEF Mirrors
  <2>3. t[m] = s[m] /\ Num(t, Client!Call, m) = Num(s, Client!Call, m)
    BY <1>3, <2>1
  <2>4. QED
    BY <1>12, <2>1, <2>2, <2>3
<1>14. ASSUME NEW m \in Are(t, Client!Result)
       PROVE  c.tools[Num(t, Client!Result, m)].ok = t[m].ok
  <2>1. CASE m = n + 1
    BY <1>2, <1>8, <1>12, <2>1
  <2>2. CASE m \in Are(s, Client!Result)
    <3>1. Num(s, Client!Result, m) \in 1..k /\ Num(s, Client!Result, m) # k
      BY <1>3, <1>4, <1>8, <2>2
    <3>2. b.tools[Num(s, Client!Result, m)].ok = s[m].ok
      BY <2>2 DEF Mirrors
    <3>3. t[m] = s[m] /\ Num(t, Client!Result, m) = Num(s, Client!Result, m)
      BY <1>3, <2>2
    <3>4. QED
      BY <1>12, <3>1, <3>2, <3>3
  <2>3. QED
    BY <1>2, <2>1, <2>2
<1>15. ASSUME NEW j \in DOMAIN c.tools, j > Num(t, Client!Result, n + 1)
       PROVE  FALSE
  BY <1>2, <1>4, <1>8, <1>12, <1>15
<1>16. ASSUME NEW m \in Are(t, Client!Text)
       PROVE  c.content[Num(t, Client!Text, m)] = t[m].n
  <2>1. b.content[Num(s, Client!Text, m)] = s[m].n
    BY <1>2 DEF Mirrors
  <2>2. t[m] = s[m] /\ Num(t, Client!Text, m) = Num(s, Client!Text, m)
    BY <1>2, <1>3
  <2>3. QED
    BY <1>11, <2>1, <2>2
<1>17. Len(c.content) = Num(t, Client!Text, n + 1) /\ Len(c.tools) = Num(t, Client!Call, n + 1)
  BY <1>2, <1>5, <1>8, <1>11, <1>12 DEF Mirrors, n
<1>18. QED
  BY <1>2, <1>13, <1>14, <1>15, <1>16, <1>17 DEF Mirrors, c, n

LEMMA OtherMirrored ==
    ASSUME NEW s \in Events, NEW b, Mirrors(b, s), NEW ok, NEW f,
           f.type \notin Client!Text \cup Client!Call \cup Client!Result,
           NEW t, t = Append(s, EventOf(f, Len(s), ok))
    PROVE  Mirrors(Client!Updated(b, f, Len(s), ok), t)
<1> DEFINE n == Len(s)
<1>1. Client!Updated(b, f, n, ok) = b
  BY DEF Client!Updated, Client!Text, Client!Call, Client!Result
<1>2. Extends(s, t, f, ok)
  BY Appended
<1>3. ASSUME NEW types, f.type \notin types
      PROVE  /\ Num(t, types, Len(t)) = Num(s, types, n) /\ Are(t, types) = Are(s, types)
             /\ \A m \in Are(s, types) : t[m] = s[m] /\ Num(t, types, m) = Num(s, types, m)
  <2>1. Len(t) = n + 1 /\ Num(s, types, n) \in Nat
    BY <1>2 DEF Extends
  <2>2. Num(t, types, n + 1) = Num(s, types, n) + 0
    BY <1>2, <1>3 DEF Extends
  <2>3. Are(t, types) = Are(s, types)
    BY <1>2, <1>3 DEF Extends
  <2>4. \A m \in Are(s, types) : t[m] = s[m] /\ Num(t, types, m) = Num(s, types, m)
    BY <1>2 DEF Extends
  <2>5. Num(t, types, Len(t)) = Num(s, types, n)
    BY <2>1, <2>2
  <2>6. QED
    BY <2>3, <2>4, <2>5
<1>4. f.type \notin Client!Text /\ f.type \notin Client!Call /\ f.type \notin Client!Result
  OBVIOUS
<1>5. /\ Num(t, Client!Text, Len(t)) = Num(s, Client!Text, n)
      /\ Are(t, Client!Text) = Are(s, Client!Text)
      /\ \A m \in Are(s, Client!Text) :
            t[m] = s[m] /\ Num(t, Client!Text, m) = Num(s, Client!Text, m)
  BY <1>3, <1>4
<1>6. /\ Num(t, Client!Call, Len(t)) = Num(s, Client!Call, n)
      /\ Are(t, Client!Call) = Are(s, Client!Call)
      /\ \A m \in Are(s, Client!Call) :
            t[m] = s[m] /\ Num(t, Client!Call, m) = Num(s, Client!Call, m)
  BY <1>3, <1>4
<1>7. /\ Num(t, Client!Result, Len(t)) = Num(s, Client!Result, n)
      /\ Are(t, Client!Result) = Are(s, Client!Result)
      /\ \A m \in Are(s, Client!Result) :
            t[m] = s[m] /\ Num(t, Client!Result, m) = Num(s, Client!Result, m)
  BY <1>3, <1>4
<1>8. Mirrors(b, t)
  BY <1>5, <1>6, <1>7 DEF Mirrors
<1>9. QED
  BY <1>1, <1>8

\* The contract of the stream, as far as the tools go.
LEMMA ToolsAlternate ==
    ASSUME NEW e, NEW f \in Client!Stream!Events, Client!Stream!Follows(e, f)
    PROVE  /\ f.type \in {"token", "error", "done", "[DONE]", "cut", "tool_call_start",
                          "tool_call_result"}
           /\ f.name \in Tools \cup {"none"}
           /\ f.type \in {"token", "tool_call_start"} =>
                e.type \in {"nothing", "token", "tool_call_result"}
           /\ f.type = "tool_call_result" => e.type = "tool_call_start" /\ e.name = f.name
           /\ f.type \in {"tool_call_start", "tool_call_result"} => f.name \in Tools
           /\ e \notin {Client!Stream!Terminator, Client!Stream!Cut}
  BY DEF Client!Stream!Events, Client!Stream!Follows, Client!Stream!Open, Client!Stream!Nothing,
         Client!Stream!Token, Client!Stream!Error, Client!Stream!Done, Client!Stream!Terminator,
         Client!Stream!Cut, Client!Stream!Said, Client!Stream!About

\* What the next event makes of a bubble and of the alternation.
LEMMA NextEvent ==
    ASSUME NEW s \in Events, Balanced(s), NEW f \in Client!Stream!Events, NEW ok,
           Client!Stream!Follows(LastOf(s), f),
           NEW t, t = Append(s, EventOf(f, Len(s), ok))
    PROVE  /\ Balanced(t) /\ LastOf(t) = f
           /\ \A b \in Client!Bubble :
                 Mirrors(b, s) => Mirrors(Client!Updated(b, f, Len(s), ok), t)
<1> DEFINE e == LastOf(s)
           n == Len(s)
<1>1. Extends(s, t, f, ok)
  BY Appended
<1>2. /\ n \in Nat /\ Len(t) = n + 1 /\ t[n + 1].ev = f
      /\ \A types : /\ Num(s, types, n) \in Nat
                    /\ Num(t, types, n + 1) = Num(s, types, n) + (IF f.type \in types THEN 1 ELSE 0)
  BY <1>1 DEF Extends
<1>3. LastOf(t) = f
  BY <1>2 DEF LastOf
<1>4. /\ f.type \in {"token", "tool_call_start"} => e.type \in {"nothing", "token", "tool_call_result"}
      /\ f.type = "tool_call_result" => e.type = "tool_call_start" /\ e.name = f.name
  BY ToolsAlternate
<1>5. /\ e.type = "tool_call_start" => Num(s, Client!Call, n) = Num(s, Client!Result, n) + 1
      /\ e.type \in {"nothing", "token", "tool_call_result"} =>
           Num(s, Client!Call, n) = Num(s, Client!Result, n)
  BY DEF Balanced
<1>6. /\ Num(s, Client!Call, n) \in Nat /\ Num(s, Client!Result, n) \in Nat
      /\ Num(t, Client!Call, n + 1) =
           Num(s, Client!Call, n) + (IF f.type = "tool_call_start" THEN 1 ELSE 0)
      /\ Num(t, Client!Result, n + 1) =
           Num(s, Client!Result, n) + (IF f.type = "tool_call_result" THEN 1 ELSE 0)
  BY <1>2 DEF Client!Call, Client!Result
<1>7. Balanced(t)
  <2>1. CASE f.type = "tool_call_start"
    <3>1. Num(t, Client!Call, n + 1) = Num(t, Client!Result, n + 1) + 1
      BY <1>4, <1>5, <1>6, <2>1
    <3>2. QED
      BY <1>2, <1>3, <2>1, <3>1 DEF Balanced
  <2>2. CASE f.type \in {"nothing", "token", "tool_call_result"}
    <3>1. f.type # "nothing"
      BY ToolsAlternate
    <3>2. Num(t, Client!Call, n + 1) = Num(t, Client!Result, n + 1)
      BY <1>4, <1>5, <1>6, <2>2, <3>1
    <3>3. QED
      BY <1>2, <1>3, <2>2, <3>2 DEF Balanced
  <2>3. CASE f.type \notin {"nothing", "token", "tool_call_result", "tool_call_start"}
    BY <1>3, <2>3 DEF Balanced
  <2>4. QED
    BY <2>1, <2>2, <2>3
<1>8. ASSUME NEW b \in Client!Bubble, Mirrors(b, s)
      PROVE  Mirrors(Client!Updated(b, f, n, ok), t)
  <2>1. CASE f.type \in Client!Text
    BY <1>8, <2>1, TextMirrored
  <2>2. CASE f.type \in Client!Call
    <3>1. Num(s, Client!Result, n) <= Num(s, Client!Call, n)
      BY <1>4, <1>5, <1>6, <2>2 DEF Client!Call
    <3>2. QED
      BY <1>8, <2>2, <3>1, CallMirrored
  <2>3. CASE f.type \in Client!Result
    <3>1. e.type = "tool_call_start" /\ e.name = f.name
      BY <1>4, <2>3 DEF Client!Result
    <3>2. QED
      BY <1>8, <2>3, <3>1, ResultMirrored
  <2>4. CASE f.type \notin Client!Text \cup Client!Call \cup Client!Result
    BY <1>8, <2>4, OtherMirrored
  <2>5. QED
    BY <2>1, <2>2, <2>3, <2>4
<1>9. QED
  BY <1>3, <1>7, <1>8

-----------------------------------------------------------------------------
(* The state of the panel.                                                 *)

Mirrored == \A i \in DOMAIN bubbles : Mirrors(bubbles[i], sent[bubbles[i].turn])

\* Streams alternate, and a turn that has not begun was sent nothing.
Streams == \A t \in Client!Turns : /\ Balanced(sent[t])
                                   /\ conn[t] = "none" => sent[t] = <<>>

\* Turn t of this panel still waits for its terminator.
Waits(t) == Client!Shown(t) /\ conn[t] = "open" /\ LastOf(sent[t]) # Client!Stream!Terminator

\* Unless a connection broke late, at most one turn waits, and the flag is set.
OneWaits ==
    ~late => /\ \A t \in Client!Turns : Waits(t) => pending
             /\ \A t, u \in Client!Turns : Waits(t) /\ Waits(u) => t = u

ClientInv == Client!TypeOK /\ Mirrored /\ Streams /\ OneWaits

LEMMA LastIs == \A t : Client!LastSent(t) = LastOf(sent[t])
  BY DEF Client!LastSent, LastOf, Client!Last, Client!Stream!Nothing, Client!Stream!Said

LEMMA ClientInit == Client!Init => ClientInv
<1> SUFFICES ASSUME Client!Init PROVE ClientInv
  OBVIOUS
<1>1. \A t \in Client!Turns : sent[t] = <<>> /\ conn[t] = "none"
  BY DEF Client!Init
<1>2. Client!TypeOK
  <2>1. sent \in [Client!Turns -> Seq(Client!Event)] /\ bubbles \in Seq(Client!Bubble)
    BY DEF Client!Init
  <2>2. conn \in [Client!Turns -> {"none", "open", "settled"}]
    BY DEF Client!Init
  <2>3. QED
    BY <2>1, <2>2 DEF Client!Init, Client!TypeOK
<1>3. Mirrored
  BY DEF Client!Init, Mirrored
<1>4. Streams
  <2>1. Balanced(<<>>)
    <3>1. Len(<<>>) = 0 /\ LastOf(<<>>).type = "nothing"
      BY DEF LastOf, Client!Stream!Nothing, Client!Stream!Said
    <3>2. QED
      BY <3>1, NumNone DEF Balanced
  <2>2. QED
    BY <1>1, <2>1 DEF Streams
<1>5. OneWaits
  BY <1>1 DEF OneWaits, Waits
<1>6. QED
  BY <1>2, <1>3, <1>4, <1>5 DEF ClientInv

LEMMA IsSeq == ASSUME NEW S, NEW n \in Nat, NEW f \in [1..n -> S] PROVE f \in Seq(S)
  OBVIOUS

LEMMA EventsAre ==
    ASSUME NEW f \in Client!Stream!Events
    PROVE  /\ f = [type |-> f.type, name |-> f.name]
           /\ f.type \in {"token", "error", "done", "[DONE]", "cut", "tool_call_start",
                          "tool_call_result"}
           /\ f.name \in Tools \cup {"none"}
           /\ f.type = "tool_call_start" => f.name \in Tools
  BY DEF Client!Stream!Events, Client!Stream!Token, Client!Stream!Error, Client!Stream!Done,
         Client!Stream!Terminator, Client!Stream!Cut, Client!Stream!Said, Client!Stream!About

LEMMA EventType ==
    ASSUME NEW f \in Client!Stream!Events, NEW n \in Nat, NEW ok \in Client!Outcomes
    PROVE  EventOf(f, n, ok) \in Client!Event
  BY EventsAre DEF EventOf, Client!Event

LEMMA UpdatedType ==
    ASSUME NEW b \in Client!Bubble, NEW f \in Client!Stream!Events, NEW n \in Nat,
           NEW ok \in Client!Outcomes
    PROVE  Client!Updated(b, f, n, ok) \in Client!Bubble /\ Client!Updated(b, f, n, ok).turn = b.turn
<1> DEFINE S == [name : Tools, ok : Client!Outcomes]
           k == Client!CallOf(b.tools, f.name)
<1>1. /\ b = [turn |-> b.turn, content |-> b.content, tools |-> b.tools]
      /\ b.turn \in Client!Turns /\ b.content \in Seq(Nat) /\ b.tools \in Seq(S)
  BY DEF Client!Bubble
<1>2. CASE f.type \in {"token", "error"}
  <2>1. Client!Updated(b, f, n, ok) = [b EXCEPT !.content = Append(@, n)]
    BY <1>2 DEF Client!Updated
  <2>2. Append(b.content, n) \in Seq(Nat)
    BY <1>1
  <2>3. QED
    BY <2>1, <2>2 DEF Client!Bubble
<1>3. CASE f.type = "tool_call_start"
  <2>1. Client!Updated(b, f, n, ok) =
           [b EXCEPT !.tools = Append(@, [name |-> f.name, ok |-> "unknown"])]
    BY <1>3 DEF Client!Updated
  <2>2. Append(b.tools, [name |-> f.name, ok |-> "unknown"]) \in Seq(S)
    BY <1>1, <1>3, EventsAre DEF Client!Outcomes
  <2>3. QED
    BY <2>1, <2>2 DEF Client!Bubble
<1>4. CASE f.type = "tool_call_result" /\ k # 0
  <2>1. Client!Updated(b, f, n, ok) = [b EXCEPT !.tools[k].ok = ok]
    BY <1>4 DEF Client!Updated
  <2>2. [b.tools EXCEPT ![k].ok = ok] \in Seq(S)
    <3> HIDE DEF k
    <3>1. PICK m \in Nat : b.tools \in [1..m -> S]
      BY <1>1, LenProperties
    <3>2. ASSUME NEW c \in S PROVE [c EXCEPT !.ok = ok] \in S
      OBVIOUS
    <3>3. [b.tools EXCEPT ![k].ok = ok] \in [1..m -> S]
      BY <3>1, <3>2
    <3>4. QED
      BY <3>3, IsSeq
  <2>3. QED
    BY <2>1, <2>2 DEF Client!Bubble
<1>5. CASE f.type \notin {"token", "error", "tool_call_start"} /\ ~(f.type = "tool_call_result" /\ k # 0)
  BY <1>5 DEF Client!Updated
<1>6. QED
  BY <1>2, <1>3, <1>4, <1>5

\* What a handled event makes of the messages.
Redrawn(t, f, ok) ==
    [i \in DOMAIN bubbles |-> IF bubbles[i].turn = t
                                THEN Client!Updated(bubbles[i], f, Len(sent[t]), ok)
                                ELSE bubbles[i]]

LEMMA RedrawnType ==
    ASSUME Client!TypeOK, NEW t \in Client!Turns, NEW f \in Client!Stream!Events,
           NEW ok \in Client!Outcomes
    PROVE  /\ Redrawn(t, f, ok) \in Seq(Client!Bubble)
           /\ DOMAIN Redrawn(t, f, ok) = DOMAIN bubbles
           /\ \A i \in DOMAIN bubbles : Redrawn(t, f, ok)[i].turn = bubbles[i].turn
           /\ Client!Record(t, f, ok) \in [Client!Turns -> Seq(Client!Event)]
<1>1. /\ bubbles \in Seq(Client!Bubble) /\ sent \in [Client!Turns -> Seq(Client!Event)]
      /\ Len(bubbles) \in Nat /\ DOMAIN bubbles = 1..Len(bubbles)
      /\ \A i \in DOMAIN bubbles : bubbles[i] \in Client!Bubble
  BY DEF Client!TypeOK
<1>2. sent[t] \in Seq(Client!Event) /\ Len(sent[t]) \in Nat
  BY <1>1
<1>3. \A i \in DOMAIN bubbles : /\ Redrawn(t, f, ok)[i] \in Client!Bubble
                                /\ Redrawn(t, f, ok)[i].turn = bubbles[i].turn
  BY <1>1, <1>2, UpdatedType DEF Redrawn
<1>4. Redrawn(t, f, ok) \in [1..Len(bubbles) -> Client!Bubble]
  BY <1>1, <1>3 DEF Redrawn
<1>5. Redrawn(t, f, ok) \in Seq(Client!Bubble)
  BY <1>1, <1>4, IsSeq
<1>6. EventOf(f, Len(sent[t]), ok) \in Client!Event
  BY <1>2, EventType
<1>7. Client!Record(t, f, ok) \in [Client!Turns -> Seq(Client!Event)]
  BY <1>1, <1>2, <1>6 DEF Client!Record, EventOf
<1>8. QED
  BY <1>3, <1>5, <1>7 DEF Redrawn

LEMMA RecordIs ==
    ASSUME Client!TypeOK, NEW t \in Client!Turns, NEW f, NEW ok
    PROVE  /\ Client!Record(t, f, ok)[t] = Append(sent[t], EventOf(f, Len(sent[t]), ok))
           /\ \A u \in Client!Turns \ {t} : Client!Record(t, f, ok)[u] = sent[u]
           /\ Client!Forget(t)[t] = <<>>
           /\ \A u \in Client!Turns \ {t} : Client!Forget(t)[u] = sent[u]
           /\ Client!Forget(t) \in [Client!Turns -> Seq(Client!Event)]
<1>1. sent \in [Client!Turns -> Seq(Client!Event)]
  BY DEF Client!TypeOK
<1>2. QED
  BY <1>1 DEF Client!Record, Client!Forget, EventOf

\* The outcome and the event of a step are of their types.
LEMMA ComingType ==
    ASSUME NEW t \in Client!Turns, NEW f \in Client!Coming(t), NEW ok \in Client!OutcomeOf(f)
    PROVE  /\ f \in Client!Stream!Events /\ ok \in Client!Outcomes
           /\ Client!Stream!Follows(LastOf(sent[t]), f)
  BY LastIs DEF Client!Coming, Client!OutcomeOf, Client!Outcomes

LEMMA ClientTypeStep == ASSUME Client!TypeOK, [Client!Next]_(Client!vars) PROVE Client!TypeOK'
<1> DEFINE Conns == [Client!Turns -> {"none", "open", "settled"}]
           Sents == [Client!Turns -> Seq(Client!Event)]
<1>0. /\ sent \in Sents /\ conn \in Conns /\ bubbles \in Seq(Client!Bubble)
      /\ open \in BOOLEAN /\ pending \in BOOLEAN /\ late \in BOOLEAN
  BY DEF Client!TypeOK
<1>1. ASSUME Client!OpenPanel PROVE Client!TypeOK'
  BY <1>0, <1>1 DEF Client!OpenPanel, Client!TypeOK
<1>2. ASSUME Client!ClosePanel PROVE Client!TypeOK'
  <2>1. bubbles' \in Seq(Client!Bubble) /\ sent' \in Sents
    BY <1>0, <1>2 DEF Client!ClosePanel
  <2>2. QED
    BY <1>0, <1>2, <2>1 DEF Client!ClosePanel, Client!TypeOK
<1>3. ASSUME NEW t \in Client!Turns, Client!Submit(t) PROVE Client!TypeOK'
  <2>1. [turn |-> t, content |-> <<>>, tools |-> <<>>] \in Client!Bubble
    BY DEF Client!Bubble
  <2>2. bubbles' \in Seq(Client!Bubble) /\ conn' \in Conns
    BY <1>0, <1>3, <2>1 DEF Client!Submit
  <2>3. QED
    BY <1>0, <1>3, <2>2 DEF Client!Submit, Client!TypeOK
<1>4. ASSUME NEW t \in Client!Turns, Client!Handle(t) PROVE Client!TypeOK'
  <2>0. PICK f \in Client!Coming(t) : \E ok \in Client!OutcomeOf(f) :
           sent' = Client!Record(t, f, ok) /\ bubbles' = Redrawn(t, f, ok)
    BY <1>4 DEF Client!Handle, Redrawn
  <2>1. PICK ok \in Client!OutcomeOf(f) :
           sent' = Client!Record(t, f, ok) /\ bubbles' = Redrawn(t, f, ok)
    BY <2>0
  <2>2. sent' \in Sents /\ bubbles' \in Seq(Client!Bubble)
    BY <2>1, ComingType, RedrawnType
  <2>3. pending' \in BOOLEAN
    BY <1>4 DEF Client!Handle
  <2>4. QED
    BY <1>0, <1>4, <2>2, <2>3 DEF Client!Handle, Client!TypeOK
<1>5. ASSUME NEW t \in Client!Turns, Client!Fail(t) PROVE Client!TypeOK'
  <2>1. "unknown" \in Client!OutcomeOf(Client!Stream!Cut) /\ Client!Stream!Cut \in Client!Coming(t)
    BY <1>5 DEF Client!Fail, Client!OutcomeOf, Client!Stream!Cut, Client!Stream!Said
  <2>2. sent' \in Sents
    BY <1>5, <2>1, ComingType, RedrawnType, RecordIs DEF Client!Fail
  <2>3. conn' \in Conns
    BY <1>0, <1>5 DEF Client!Fail
  <2>4. pending' \in BOOLEAN
    BY <1>5 DEF Client!Fail
  <2>5. QED
    BY <1>0, <1>5, <2>2, <2>3, <2>4 DEF Client!Fail, Client!TypeOK
<1>6. ASSUME NEW t \in Client!Turns, Client!Finish(t) PROVE Client!TypeOK'
  <2>1. sent' \in Sents
    BY <1>0, <1>6, RecordIs DEF Client!Finish
  <2>2. conn' \in Conns
    BY <1>0, <1>6 DEF Client!Finish
  <2>3. pending' \in BOOLEAN /\ late' \in BOOLEAN
    BY <1>0, <1>6 DEF Client!Finish
  <2>4. QED
    BY <1>0, <1>6, <2>1, <2>2, <2>3 DEF Client!Finish, Client!TypeOK
<1>7. CASE UNCHANGED Client!vars
  BY <1>0, <1>7 DEF Client!vars, Client!TypeOK
<1>8. QED
  BY <1>1, <1>2, <1>3, <1>4, <1>5, <1>6, <1>7 DEF Client!Next

LEMMA EmptyBalanced == Balanced(<<>>)
<1>1. Len(<<>>) = 0 /\ LastOf(<<>>).type = "nothing"
  BY DEF LastOf, Client!Stream!Nothing, Client!Stream!Said
<1>2. QED
  BY <1>1, NumNone DEF Balanced

\* What handling an event of turn t changes.
LEMMA Handled ==
    ASSUME ClientInv, NEW t \in Client!Turns, Client!Handle(t)
    PROVE  \E f \in Client!Stream!Events : \E ok \in Client!Outcomes :
              /\ Client!Stream!Follows(LastOf(sent[t]), f)
              /\ sent'[t] = Append(sent[t], EventOf(f, Len(sent[t]), ok))
              /\ \A u \in Client!Turns \ {t} : sent'[u] = sent[u]
              /\ bubbles' = Redrawn(t, f, ok)
              /\ pending' = (pending /\ ~(Client!Shown(t) /\ f = Client!Stream!Terminator))
              /\ conn[t] = "open" /\ conn' = conn /\ late' = late
              /\ DOMAIN bubbles' = DOMAIN bubbles
              /\ \A i \in DOMAIN bubbles : bubbles'[i].turn = bubbles[i].turn
<1>0. Client!TypeOK
  BY DEF ClientInv
<1>1. PICK f \in Client!Coming(t) : \E ok \in Client!OutcomeOf(f) :
         /\ sent' = Client!Record(t, f, ok) /\ bubbles' = Redrawn(t, f, ok)
         /\ pending' = (pending /\ ~(Client!Shown(t) /\ f = Client!Stream!Terminator))
  BY DEF Client!Handle, Redrawn
<1>2. PICK ok \in Client!OutcomeOf(f) :
         /\ sent' = Client!Record(t, f, ok) /\ bubbles' = Redrawn(t, f, ok)
         /\ pending' = (pending /\ ~(Client!Shown(t) /\ f = Client!Stream!Terminator))
  BY <1>1
<1>3. /\ f \in Client!Stream!Events /\ ok \in Client!Outcomes
      /\ Client!Stream!Follows(LastOf(sent[t]), f)
  BY ComingType
<1>4. /\ sent'[t] = Append(sent[t], EventOf(f, Len(sent[t]), ok))
      /\ \A u \in Client!Turns \ {t} : sent'[u] = sent[u]
  BY <1>0, <1>2, RecordIs
<1>5. /\ DOMAIN bubbles' = DOMAIN bubbles
      /\ \A i \in DOMAIN bubbles : bubbles'[i].turn = bubbles[i].turn
  BY <1>0, <1>2, <1>3, RedrawnType
<1>6. conn[t] = "open" /\ conn' = conn /\ late' = late
  BY DEF Client!Handle
<1>7. QED
  BY <1>2, <1>3, <1>4, <1>5, <1>6

\* A cut connection adds an event that no answer shows, when there is an answer.
LEMMA Failed ==
    ASSUME ClientInv, NEW t \in Client!Turns, Client!Fail(t)
    PROVE  /\ Client!Stream!Cut \in Client!Stream!Events
           /\ Client!Stream!Follows(LastOf(sent[t]), Client!Stream!Cut)
           /\ Client!Shown(t) =>
                sent'[t] = Append(sent[t], EventOf(Client!Stream!Cut, Len(sent[t]), "unknown"))
           /\ ~Client!Shown(t) => sent'[t] = <<>>
           /\ \A u \in Client!Turns \ {t} : sent'[u] = sent[u]
           /\ conn[t] = "open" /\ conn'[t] = "settled"
           /\ \A u \in Client!Turns \ {t} : conn'[u] = conn[u]
           /\ bubbles' = bubbles /\ late' = late
           /\ pending' = (pending /\ ~Client!Shown(t))
<1>0. Client!TypeOK
  BY DEF ClientInv
<1>1. "unknown" \in Client!OutcomeOf(Client!Stream!Cut) /\ Client!Stream!Cut \in Client!Coming(t)
  BY DEF Client!Fail, Client!OutcomeOf, Client!Stream!Cut, Client!Stream!Said
<1>2. /\ Client!Stream!Cut \in Client!Stream!Events
      /\ Client!Stream!Follows(LastOf(sent[t]), Client!Stream!Cut)
  BY <1>1, ComingType
<1>3. /\ Client!Shown(t) =>
           sent'[t] = Append(sent[t], EventOf(Client!Stream!Cut, Len(sent[t]), "unknown"))
      /\ ~Client!Shown(t) => sent'[t] = <<>>
      /\ \A u \in Client!Turns \ {t} : sent'[u] = sent[u]
  BY <1>0, RecordIs DEF Client!Fail
<1>4. conn \in [Client!Turns -> {"none", "open", "settled"}]
  BY <1>0 DEF Client!TypeOK
<1>5. /\ conn[t] = "open" /\ conn'[t] = "settled"
      /\ \A u \in Client!Turns \ {t} : conn'[u] = conn[u]
      /\ bubbles' = bubbles /\ late' = late
      /\ pending' = (pending /\ ~Client!Shown(t))
  BY <1>4 DEF Client!Fail
<1>6. QED
  BY <1>2, <1>3, <1>5

\* A response that is over leaves the answers alone.
LEMMA Finished ==
    ASSUME ClientInv, NEW t \in Client!Turns, Client!Finish(t)
    PROVE  /\ LastOf(sent[t]) = Client!Stream!Terminator
           /\ sent'[t] = IF Client!Shown(t) THEN sent[t] ELSE <<>>
           /\ \A u \in Client!Turns \ {t} : sent'[u] = sent[u]
           /\ conn[t] = "open" /\ conn'[t] = "settled"
           /\ \A u \in Client!Turns \ {t} : conn'[u] = conn[u]
           /\ bubbles' = bubbles
           /\ late' = FALSE => late = FALSE /\ pending' = pending
<1>0. Client!TypeOK
  BY DEF ClientInv
<1>1. sent'[t] = IF Client!Shown(t) THEN sent[t] ELSE <<>>
  BY <1>0, RecordIs DEF Client!Finish
<1>2. \A u \in Client!Turns \ {t} : sent'[u] = sent[u]
  BY <1>0, RecordIs DEF Client!Finish
<1>3. LastOf(sent[t]) = Client!Stream!Terminator
  BY LastIs DEF Client!Finish
<1>4. conn \in [Client!Turns -> {"none", "open", "settled"}]
  BY <1>0 DEF Client!TypeOK
<1>5. /\ conn[t] = "open" /\ conn'[t] = "settled" /\ bubbles' = bubbles
      /\ \A u \in Client!Turns \ {t} : conn'[u] = conn[u]
  BY <1>4 DEF Client!Finish
<1>6. late' = FALSE => late = FALSE /\ pending' = pending
  <2>1. pending \in BOOLEAN /\ late \in BOOLEAN
    BY <1>0 DEF Client!TypeOK
  <2>2. QED
    BY <2>1 DEF Client!Finish
<1>7. QED
  BY <1>1, <1>2, <1>3, <1>5, <1>6

LEMMA SentBubbles ==
    ASSUME Client!TypeOK
    PROVE  /\ \A t \in Client!Turns : sent[t] \in Events
           /\ \A i \in DOMAIN bubbles : bubbles[i] \in Client!Bubble /\ bubbles[i].turn \in Client!Turns
           /\ DOMAIN bubbles = 1..Len(bubbles) /\ Len(bubbles) \in Nat
           /\ conn \in [Client!Turns -> {"none", "open", "settled"}]
           /\ pending \in BOOLEAN /\ late \in BOOLEAN
<1>1. sent \in [Client!Turns -> Seq(Client!Event)] /\ bubbles \in Seq(Client!Bubble)
      /\ conn \in [Client!Turns -> {"none", "open", "settled"}]
  BY DEF Client!TypeOK
<1>2. \A t \in Client!Turns : sent[t] \in Events
  BY <1>1 DEF Events
<1>3. DOMAIN bubbles = 1..Len(bubbles) /\ Len(bubbles) \in Nat
      /\ \A i \in DOMAIN bubbles : bubbles[i] \in Client!Bubble
  BY <1>1
<1>4. \A b \in Client!Bubble : b.turn \in Client!Turns
  BY DEF Client!Bubble
<1>5. pending \in BOOLEAN /\ late \in BOOLEAN
  BY DEF Client!TypeOK
<1>6. QED
  BY <1>1, <1>2, <1>3, <1>4, <1>5

LEMMA MirroredStep == ASSUME ClientInv, [Client!Next]_(Client!vars) PROVE Mirrored'
<1>0. /\ Client!TypeOK /\ Mirrored /\ Streams
      /\ \A t \in Client!Turns : sent[t] \in Events
      /\ \A i \in DOMAIN bubbles : bubbles[i] \in Client!Bubble /\ bubbles[i].turn \in Client!Turns
  BY SentBubbles DEF ClientInv
<1>1. ASSUME Client!OpenPanel \/ UNCHANGED Client!vars PROVE Mirrored'
  BY <1>0, <1>1 DEF Client!OpenPanel, Client!vars, Mirrored
<1>2. ASSUME Client!ClosePanel PROVE Mirrored'
  BY <1>2 DEF Client!ClosePanel, Mirrored
<1>3. ASSUME NEW t \in Client!Turns, Client!Submit(t) PROVE Mirrored'
  <2> DEFINE b == [turn |-> t, content |-> <<>>, tools |-> <<>>]
  <2>1. sent[t] = <<>> /\ sent' = sent /\ bubbles' = Append(bubbles, b)
    BY <1>0, <1>3 DEF Client!Submit, Streams
  <2>2. Mirrors(b, <<>>)
    BY NumNone DEF Mirrors, Are
  <2>3. \A i \in DOMAIN bubbles' : (i \in DOMAIN bubbles /\ bubbles'[i] = bubbles[i]) \/ bubbles'[i] = b
    BY <1>0, <2>1, SentBubbles
  <2>4. b.turn = t
    OBVIOUS
  <2> HIDE DEF b
  <2>5. QED
    BY <1>0, <2>1, <2>2, <2>3, <2>4 DEF Mirrored
<1>4. ASSUME NEW t \in Client!Turns, Client!Handle(t) PROVE Mirrored'
  <2>1. PICK f \in Client!Stream!Events : \E ok \in Client!Outcomes :
              /\ Client!Stream!Follows(LastOf(sent[t]), f)
              /\ sent'[t] = Append(sent[t], EventOf(f, Len(sent[t]), ok))
              /\ \A u \in Client!Turns \ {t} : sent'[u] = sent[u]
              /\ bubbles' = Redrawn(t, f, ok)
    BY <1>4, Handled
  <2>2. PICK ok \in Client!Outcomes :
              /\ Client!Stream!Follows(LastOf(sent[t]), f)
              /\ sent'[t] = Append(sent[t], EventOf(f, Len(sent[t]), ok))
              /\ \A u \in Client!Turns \ {t} : sent'[u] = sent[u]
              /\ bubbles' = Redrawn(t, f, ok)
    BY <2>1
  <2>3. sent[t] \in Events /\ Balanced(sent[t])
    BY <1>0 DEF Streams
  <2>4. \A b \in Client!Bubble :
           Mirrors(b, sent[t]) => Mirrors(Client!Updated(b, f, Len(sent[t]), ok), sent'[t])
    BY <2>2, <2>3, NextEvent
  <2> SUFFICES ASSUME NEW i \in DOMAIN bubbles' PROVE Mirrors(bubbles'[i], sent'[bubbles'[i].turn])
    BY DEF Mirrored
  <2>5. i \in DOMAIN bubbles /\ bubbles'[i].turn = bubbles[i].turn
    BY <1>0, <2>2, RedrawnType
  <2>6. CASE bubbles[i].turn = t
    <3>1. bubbles'[i] = Client!Updated(bubbles[i], f, Len(sent[t]), ok)
      BY <2>2, <2>5, <2>6 DEF Redrawn
    <3>2. Mirrors(bubbles[i], sent[t])
      BY <1>0, <2>5, <2>6 DEF Mirrored
    <3>3. QED
      BY <1>0, <2>4, <2>5, <2>6, <3>1, <3>2
  <2>7. CASE bubbles[i].turn # t
    <3>1. bubbles'[i] = bubbles[i]
      BY <2>2, <2>5, <2>7 DEF Redrawn
    <3>2. Mirrors(bubbles[i], sent[bubbles[i].turn]) /\ sent'[bubbles[i].turn] = sent[bubbles[i].turn]
      BY <1>0, <2>2, <2>5, <2>7 DEF Mirrored
    <3>3. QED
      BY <3>1, <3>2
  <2>8. QED
    BY <2>6, <2>7
<1>5. ASSUME NEW t \in Client!Turns, Client!Fail(t) PROVE Mirrored'
  <2> DEFINE f == Client!Stream!Cut
  <2>1. bubbles' = bubbles /\ \A u \in Client!Turns \ {t} : sent'[u] = sent[u]
    BY <1>5, Failed
  <2>2. ASSUME NEW i \in DOMAIN bubbles, bubbles[i].turn = t PROVE Mirrors(bubbles[i], sent'[t])
    <3>1. Client!Shown(t)
      BY <2>2 DEF Client!Shown
    <3>2. /\ f \in Client!Stream!Events /\ Client!Stream!Follows(LastOf(sent[t]), f)
          /\ sent'[t] = Append(sent[t], EventOf(f, Len(sent[t]), "unknown"))
      BY <1>5, <3>1, Failed
    <3>3. Client!Updated(bubbles[i], f, Len(sent[t]), "unknown") = bubbles[i]
      BY DEF Client!Updated, Client!Stream!Cut, Client!Stream!Said
    <3>4. Mirrors(bubbles[i], sent[t]) /\ sent[t] \in Events /\ Balanced(sent[t])
      BY <1>0, <2>2 DEF Mirrored, Streams
    <3> HIDE DEF f
    <3>5. \A b \in Client!Bubble :
             Mirrors(b, sent[t]) => Mirrors(Client!Updated(b, f, Len(sent[t]), "unknown"), sent'[t])
      BY <3>2, <3>4, NextEvent
    <3>6. QED
      BY <1>0, <3>3, <3>4, <3>5
  <2>3. QED
    BY <1>0, <2>1, <2>2 DEF Mirrored
<1>6. ASSUME NEW t \in Client!Turns, Client!Finish(t) PROVE Mirrored'
  <2>1. /\ bubbles' = bubbles /\ \A u \in Client!Turns \ {t} : sent'[u] = sent[u]
        /\ Client!Shown(t) => sent'[t] = sent[t]
    BY <1>6, Finished
  <2>2. \A i \in DOMAIN bubbles : bubbles[i].turn = t => Client!Shown(t)
    BY DEF Client!Shown
  <2>3. QED
    BY <1>0, <2>1, <2>2 DEF Mirrored
<1>7. QED
  BY <1>1, <1>2, <1>3, <1>4, <1>5, <1>6 DEF Client!Next

LEMMA StreamsStep == ASSUME ClientInv, [Client!Next]_(Client!vars) PROVE Streams'
<1>0. /\ Client!TypeOK /\ Streams
      /\ \A u \in Client!Turns : sent[u] \in Events
      /\ conn \in [Client!Turns -> {"none", "open", "settled"}]
  BY SentBubbles DEF ClientInv
<1>1. ASSUME Client!OpenPanel \/ UNCHANGED Client!vars PROVE Streams'
  BY <1>0, <1>1 DEF Client!OpenPanel, Client!vars, Streams
<1>2. ASSUME Client!ClosePanel PROVE Streams'
  <2>1. \A u \in Client!Turns : conn'[u] = conn[u] /\ sent'[u] \in {sent[u], <<>>}
    BY <1>0, <1>2 DEF Client!ClosePanel
  <2>2. QED
    BY <1>0, <2>1, EmptyBalanced DEF Streams
<1>3. ASSUME NEW t \in Client!Turns, Client!Submit(t) PROVE Streams'
  <2>1. sent' = sent /\ \A u \in Client!Turns : conn'[u] = "none" => conn[u] = "none"
    BY <1>0, <1>3 DEF Client!Submit
  <2>2. QED
    BY <1>0, <2>1 DEF Streams
<1>4. ASSUME NEW t \in Client!Turns, Client!Handle(t) PROVE Streams'
  <2>1. PICK f \in Client!Stream!Events : \E ok \in Client!Outcomes :
              /\ Client!Stream!Follows(LastOf(sent[t]), f)
              /\ sent'[t] = Append(sent[t], EventOf(f, Len(sent[t]), ok))
    BY <1>4, Handled
  <2>2. sent[t] \in Events /\ Balanced(sent[t])
    BY <1>0 DEF Streams
  <2>3. Balanced(sent'[t])
    BY <2>1, <2>2, NextEvent
  <2>4. conn[t] = "open" /\ conn' = conn /\ \A u \in Client!Turns \ {t} : sent'[u] = sent[u]
    BY <1>4, Handled
  <2>5. QED
    BY <1>0, <2>3, <2>4 DEF Streams
<1>5. ASSUME NEW t \in Client!Turns, Client!Fail(t) PROVE Streams'
  <2>1. sent[t] \in Events /\ Balanced(sent[t])
    BY <1>0 DEF Streams
  <2>4. Balanced(sent'[t])
    <3>1. CASE Client!Shown(t)
      BY <1>5, <2>1, <3>1, Failed, NextEvent
    <3>2. CASE ~Client!Shown(t)
      BY <1>5, <3>2, Failed, EmptyBalanced
    <3>3. QED
      BY <3>1, <3>2
  <2>5. conn'[t] = "settled" /\ \A u \in Client!Turns \ {t} : sent'[u] = sent[u] /\ conn'[u] = conn[u]
    BY <1>5, Failed
  <2>6. QED
    BY <1>0, <2>4, <2>5 DEF Streams
<1>6. ASSUME NEW t \in Client!Turns, Client!Finish(t) PROVE Streams'
  <2>1. conn'[t] = "settled" /\ sent'[t] \in {sent[t], <<>>}
        /\ \A u \in Client!Turns \ {t} : sent'[u] = sent[u] /\ conn'[u] = conn[u]
    BY <1>6, Finished
  <2>2. QED
    BY <1>0, <2>1, EmptyBalanced DEF Streams
<1>7. QED
  BY <1>1, <1>2, <1>3, <1>4, <1>5, <1>6 DEF Client!Next

\* The flag is cleared by the turn that waits, or late.
LEMMA OneWaitsStep == ASSUME ClientInv, [Client!Next]_(Client!vars) PROVE OneWaits'
<1>0. /\ Client!TypeOK /\ OneWaits /\ Streams
      /\ conn \in [Client!Turns -> {"none", "open", "settled"}]
      /\ pending \in BOOLEAN /\ late \in BOOLEAN
  BY SentBubbles DEF ClientInv
<1> SUFFICES ASSUME ~late'
             PROVE  /\ \A t \in Client!Turns : Waits(t)' => pending'
                    /\ \A t, u \in Client!Turns : Waits(t)' /\ Waits(u)' => t = u
  BY DEF OneWaits
<1>1. ASSUME ~late, pending' = pending, \A t \in Client!Turns : Waits(t)' => Waits(t)
      PROVE  /\ \A t \in Client!Turns : Waits(t)' => pending'
             /\ \A t, u \in Client!Turns : Waits(t)' /\ Waits(u)' => t = u
  BY <1>0, <1>1 DEF OneWaits
<1>2. ASSUME Client!OpenPanel \/ UNCHANGED Client!vars
      PROVE  ~late /\ pending' = pending /\ \A t \in Client!Turns : Waits(t)' => Waits(t)
  BY <1>2 DEF Client!OpenPanel, Client!vars, Waits, Client!Shown
<1>3. ASSUME Client!ClosePanel PROVE \A t \in Client!Turns : ~Waits(t)'
  BY <1>3 DEF Client!ClosePanel, Waits, Client!Shown
<1>4. ASSUME NEW t \in Client!Turns, Client!Submit(t)
      PROVE  pending' /\ \A u \in Client!Turns : Waits(u)' => u = t
  <2>1. ~late /\ ~pending /\ pending' /\ sent' = sent
        /\ \A u \in Client!Turns \ {t} : conn'[u] = conn[u]
    BY <1>0, <1>4 DEF Client!Submit
  <2>2. \A i \in DOMAIN bubbles' : \/ i \in DOMAIN bubbles /\ bubbles'[i] = bubbles[i]
                                 \/ bubbles'[i].turn = t
    BY <1>0, <1>4, SentBubbles DEF Client!Submit
  <2>3. ASSUME NEW u \in Client!Turns, Waits(u)', u # t PROVE Waits(u)
    BY <2>1, <2>2, <2>3 DEF Waits, Client!Shown
  <2>4. QED
    BY <1>0, <2>1, <2>3 DEF OneWaits
<1>5. ASSUME NEW t \in Client!Turns, Client!Handle(t)
      PROVE  /\ \A u \in Client!Turns : Waits(u)' => pending'
             /\ \A u, v \in Client!Turns : Waits(u)' /\ Waits(v)' => u = v
  <2>1. PICK f \in Client!Stream!Events : \E ok \in Client!Outcomes :
              /\ Client!Stream!Follows(LastOf(sent[t]), f)
              /\ sent'[t] = Append(sent[t], EventOf(f, Len(sent[t]), ok))
              /\ pending' = (pending /\ ~(Client!Shown(t) /\ f = Client!Stream!Terminator))
    BY <1>5, Handled
  <2>2. /\ conn[t] = "open" /\ conn' = conn /\ late' = late
        /\ \A u \in Client!Turns \ {t} : sent'[u] = sent[u]
        /\ DOMAIN bubbles' = DOMAIN bubbles
        /\ \A i \in DOMAIN bubbles : bubbles'[i].turn = bubbles[i].turn
    BY <1>5, Handled
  <2>3. LastOf(sent'[t]) = f
    <3>1. sent[t] \in Events /\ Balanced(sent[t])
      BY <1>0, SentBubbles DEF Streams
    <3>2. QED
      BY <2>1, <3>1, NextEvent
  <2>4. LastOf(sent[t]) # Client!Stream!Terminator
    BY <2>1, ToolsAlternate
  <2>5. \A u \in Client!Turns : Client!Shown(u)' <=> Client!Shown(u)
    BY <2>2 DEF Client!Shown
  <2>6. \A u \in Client!Turns : Waits(u)' => Waits(u)
    BY <2>2, <2>4, <2>5 DEF Waits
  <2>7. CASE Client!Shown(t) /\ f = Client!Stream!Terminator
    <3>1. Waits(t) /\ ~Waits(t)'
      BY <2>2, <2>3, <2>4, <2>7 DEF Waits
    <3>2. \A u \in Client!Turns : ~Waits(u)'
      BY <1>0, <2>2, <2>6, <3>1 DEF OneWaits
    <3>3. QED
      BY <3>2
  <2>8. CASE ~(Client!Shown(t) /\ f = Client!Stream!Terminator)
    <3>1. pending' = pending
      BY <1>0, <2>1, <2>8
    <3>2. QED
      BY <1>1, <2>2, <2>6, <3>1
  <2>9. QED
    BY <2>7, <2>8
<1>6. ASSUME NEW t \in Client!Turns, Client!Fail(t)
      PROVE  /\ \A u \in Client!Turns : Waits(u)' => pending'
             /\ \A u, v \in Client!Turns : Waits(u)' /\ Waits(v)' => u = v
  <2>1. /\ Client!Stream!Follows(LastOf(sent[t]), Client!Stream!Cut)
        /\ Client!Stream!Cut \in Client!Stream!Events
        /\ \A u \in Client!Turns \ {t} : sent'[u] = sent[u]
        /\ conn[t] = "open" /\ conn'[t] = "settled"
        /\ \A u \in Client!Turns \ {t} : conn'[u] = conn[u]
        /\ bubbles' = bubbles /\ late' = late
        /\ pending' = (pending /\ ~Client!Shown(t))
    BY <1>6, Failed
  <2>2. LastOf(sent[t]) # Client!Stream!Terminator
    BY <2>1, ToolsAlternate
  <2>3. ~Waits(t)' /\ \A u \in Client!Turns : Waits(u)' => Waits(u)
    BY <2>1 DEF Waits, Client!Shown
  <2>4. CASE Client!Shown(t)
    <3>1. Waits(t)
      BY <2>1, <2>2, <2>4 DEF Waits
    <3>2. \A u \in Client!Turns : ~Waits(u)'
      BY <1>0, <2>1, <2>3, <3>1 DEF OneWaits
    <3>3. QED
      BY <3>2
  <2>5. CASE ~Client!Shown(t)
    <3>1. pending' = pending
      BY <1>0, <2>1, <2>5
    <3>2. QED
      BY <1>1, <2>1, <2>3, <3>1
  <2>6. QED
    BY <2>4, <2>5
<1>7. ASSUME NEW t \in Client!Turns, Client!Finish(t)
      PROVE  ~late /\ pending' = pending /\ \A u \in Client!Turns : Waits(u)' => Waits(u)
  <2>1. /\ \A u \in Client!Turns \ {t} : sent'[u] = sent[u]
        /\ conn'[t] = "settled" /\ \A u \in Client!Turns \ {t} : conn'[u] = conn[u]
        /\ bubbles' = bubbles
    BY <1>7, Finished
  <2>2. \A u \in Client!Turns : Waits(u)' => Waits(u)
    BY <2>1 DEF Waits, Client!Shown
  <2>3. ~late /\ pending' = pending
    <3>1. late' \in BOOLEAN
      BY <1>0, ClientTypeStep DEF Client!TypeOK, Client!Next
    <3>2. QED
      BY <1>7, <3>1, Finished
  <2>4. QED
    BY <2>2, <2>3
<1>8. QED
  BY <1>1, <1>2, <1>3, <1>4, <1>5, <1>6, <1>7 DEF Client!Next

LEMMA ClientHolds == Client!Spec => []ClientInv
<1>1. ClientInv /\ [Client!Next]_(Client!vars) => ClientInv'
  BY ClientTypeStep, MirroredStep, StreamsStep, OneWaitsStep DEF ClientInv
<1>2. QED
  BY <1>1, ClientInit, PTL DEF Client!Spec

\* However many turns are under way, each answer on the screen is what its own
\* turn was sent, to the last event, and every tool has its own outcome (useChat).
THEOREM AnswersStayWithTheirTurn == Client!Spec => []AnswersAreTheirs
<1>1. ClientInv => AnswersAreTheirs
  <2> SUFFICES ASSUME Mirrored PROVE AnswersAreTheirs
    BY DEF ClientInv
  <2>1. \A i \in DOMAIN bubbles : Mirrors(bubbles[i], sent[bubbles[i].turn])
    BY DEF Mirrored
  <2>2. QED
    BY <2>1, CountIsNum DEF AnswersAreTheirs, Client!AnswersAreTheirs, Mirrors, Are
<1>2. QED
  BY <1>1, ClientHolds, PTL

\* The input is only enabled when no turn of the panel waits for its terminator,
\* unless a connection broke after one (pending in ChatPanel and InputBox).
THEOREM TurnsTakeTurns == Client!Spec => []OneTurnAtATime
<1>1. ClientInv => OneTurnAtATime
  <2> SUFFICES ASSUME ClientInv, ~late, ~pending, NEW i \in DOMAIN bubbles,
                      conn[bubbles[i].turn] = "open"
               PROVE  Client!LastSent(bubbles[i].turn) = Client!Stream!Terminator
    BY DEF OneTurnAtATime, Client!OneTurnAtATime
  <2>1. bubbles[i].turn \in Client!Turns /\ Client!Shown(bubbles[i].turn)
    BY SentBubbles DEF ClientInv, Client!Shown
  <2>2. ~Waits(bubbles[i].turn)
    BY <2>1 DEF ClientInv, OneWaits
  <2>3. QED
    BY <2>1, <2>2, LastIs DEF Waits
<1>2. QED
  BY <1>1, ClientHolds, PTL

=============================================================================
