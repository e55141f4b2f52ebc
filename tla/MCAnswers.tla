----------------------------- MODULE MCAnswers -----------------------------
(* How an answer is found and how it is shown: Retrieval on a small corpus,  *)
(* and beside it the widget, which is embedded first (Embed) and then chats  *)
(* (ChatClient).  Retrieval and the widget share nothing, so the order of    *)
(* their steps does not matter: each is explored while the other rests, and  *)
(* the panel is used once the frame has settled.                             *)
EXTENDS Retrieval

CONSTANTS MaxTurns, MaxEvents, Tools, MaxQueue

VARIABLES sent, conn, open, bubbles, pending, late,
          beside, theme, host, doc, fetched, app, launched, seen, toHost, toFrame,
          visible, size, themed

client == <<sent, conn, open, bubbles, pending, late>>
Client == INSTANCE ChatClient

frame == <<beside, theme, host, doc, fetched, app, launched, seen, toHost, toFrame,
           visible, size, themed>>
Frame == INSTANCE Embed

Part(t, n, m) == [title |-> t, size |-> n, maintainer |-> m]

Guides ==
    {<<Part("a", n, FALSE)>> : n \in {2, 8, 9, 10}} \cup
    {<<Part("a", 5, FALSE), Part(t, n, FALSE)>> : t \in {"a", "b"}, n \in {1, 3, 6}}

Threads ==
    {<<Part("", 3, FALSE), Part("", 1, TRUE)>>,
     <<Part("", 1, FALSE), Part("", 0, TRUE), Part("", 2, FALSE)>>}

MCContents == [s \in Sources |-> IF s \in DocsSources THEN Guides ELSE Threads]

\* HyDE says what is embedded, which decides nothing about what is found: it is
\* explored before there is anything to ingest.
PlainOnce ==
    (\E s \in Sources : contents'[s] # <<>>)
                => /\ broken' = {} /\ cache' = [q \in Queries |-> NoFile]
                   /\ other' = [q \in Queries |-> "away"]
                   /\ \A r \in Requests : query'[r] = CHOOSE q \in Queries : TRUE

Settled == doc = "loaded" /\ app = "listening" /\ size = "launcher" /\ ~launched
             /\ toHost = <<>> /\ toFrame = <<>> /\ ~theme /\ ~beside

MCInit == Init /\ Client!Init /\ Frame!Init

ClientStep(A) == Init /\ Settled /\ A /\ UNCHANGED <<vars, frame>>

MCNext ==
    \/ Client!Init /\ host = "config" /\ ~theme /\ ~beside /\ Next /\ PlainOnce
         /\ UNCHANGED <<client, frame>>
    \/ Init /\ Client!Init /\ Frame!Next /\ UNCHANGED <<vars, client>>
    \/ ClientStep(Client!Next)

MCSpec ==
    /\ MCInit /\ [][MCNext]_<<vars, client, frame>>
    /\ \A t \in 1..MaxTurns :
         WF_<<vars, client, frame>>(ClientStep(Client!Handle(t)))

TypesOK          == SearchTypeOK /\ Client!TypeOK /\ Frame!TypeOK
AnswersAreTheirs == Client!AnswersAreTheirs
OneTurnAtATime   == Client!OneTurnAtATime
InputComesBack   == Client!InputComesBack
VisibleIsReady   == Frame!VisibleIsReady

=============================================================================
