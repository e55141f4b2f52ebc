------------------------------- MODULE Embed -------------------------------
(***************************************************************************)
(* How the widget gets onto a host page: the loader script that             *)
(* app/api/loader.py serves, the iframe it injects (widget.tsx, App.tsx)    *)
(* and the mc:* messages between the two windows.  A message that is posted *)
(* is delivered to the listeners its window has then, in the order of the   *)
(* posts; the browser runs a script to its end before it delivers one.  The *)
(* page may hold a second widget of the same API, which is seen here by     *)
(* what its iframe posts.                                                   *)
(***************************************************************************)
EXTENDS Sequences, Naturals

CONSTANT MaxQueue  \* bound: messages under way to a window

VARIABLES
    beside,   \* another widget is on the page
    theme,    \* the script tag has data-theme
    host,     \* the loader: "config" until its fetch is answered
    doc,      \* the document in the iframe
    fetched,  \* what the two fetches of bootstrap came to
    app,      \* the Preact tree in the iframe
    launched, \* the panel is open rather than the launcher
    seen,     \* what of launched the ResizeObserver reported last
    toHost,   \* messages under way to the page
    toFrame,  \* messages under way to the iframe
    visible,  \* the iframe's opacity is 1
    size,     \* the size the page gave the iframe
    themed    \* themeOverride is the page's colour

vars == <<beside, theme, host, doc, fetched, app, launched, seen, toHost, toFrame,
          visible, size, themed>>

Sizes   == {"initial", "launcher", "panel"}
Fetches == {"config", "session"}

TypeOK ==
    /\ beside   \in BOOLEAN
    /\ theme    \in BOOLEAN
    /\ host     \in {"config", "failed", "injected"}
    /\ doc      \in {"none", "loading", "refused", "running", "loaded"}
    /\ fetched  \in [Fetches -> {"none", "asked", "ok", "failed"}]
    /\ app      \in {"none", "rendered", "listening"}
    /\ launched \in BOOLEAN
    /\ seen     \in Sizes
    /\ toHost   \in Seq({"mc:ready"} \cup Sizes)
    /\ toFrame  \in Seq({"mc:theme"})
    /\ visible  \in BOOLEAN
    /\ size     \in Sizes
    /\ themed   \in BOOLEAN

Init ==
    /\ beside   \in BOOLEAN
    /\ theme    \in BOOLEAN
    /\ host     = "config"
    /\ doc      = "none"
    /\ fetched  = [f \in Fetches |-> "none"]
    /\ app      = "none"
    /\ launched = FALSE
    /\ seen     = "initial"
    /\ toHost   = <<>> /\ toFrame = <<>>
    /\ visible  = FALSE /\ size = "initial" /\ themed = FALSE

-----------------------------------------------------------------------------
(* The page.                                                               *)

\* The config fetch: without it nothing is injected.
ConfigAnswers(ok) ==
    /\ host = "config"
    /\ host' = IF ok THEN "injected" ELSE "failed"
    /\ doc'  = IF ok THEN "loading" ELSE doc
    /\ UNCHANGED <<beside, theme, fetched, app, launched, seen, toHost, toFrame, visible,
                   size, themed>>

\* The iframe has loaded, whatever it shows.  Its load listener posts the theme.
Loaded ==
    /\ doc \in {"running", "refused"}
    /\ doc' = "loaded"
    /\ toFrame' = IF theme THEN Append(toFrame, "mc:theme") ELSE toFrame
    /\ UNCHANGED <<beside, theme, host, fetched, app, launched, seen, toHost, visible, size,
                   themed>>

\* The other iframe has the same origin and its messages reach every listener of
\* the page; before this loader has one they are lost on it.
NeighbourPosts(m) ==
    /\ beside /\ host = "injected" /\ Len(toHost) < MaxQueue
    /\ toHost' = Append(toHost, m)
    /\ UNCHANGED <<beside, theme, host, doc, fetched, app, launched, seen, toFrame,
                   visible, size, themed>>

\* The message listener that injectIframe registered: it asks for the origin of
\* a message, not for its source.
HostReceives ==
    /\ toHost # <<>>
    /\ toHost' = Tail(toHost)
    /\ IF Head(toHost) = "mc:ready" THEN visible' = TRUE /\ size' = size
                                    ELSE visible' = visible /\ size' = Head(toHost)
    /\ UNCHANGED <<beside, theme, host, doc, fetched, app, launched, seen, toFrame, themed>>

-----------------------------------------------------------------------------
(* The iframe.                                                             *)

\* frame-ancestors or a deleted widget: the browser shows a page of its own.
Refuse ==
    /\ doc = "loading"
    /\ doc' = "refused"
    /\ UNCHANGED <<beside, theme, host, fetched, app, launched, seen, toHost, toFrame, visible,
                   size, themed>>

\* Mutant of Bootstrap: the bundle says that it is alive when it starts.
BootstrapReady ==
    /\ doc = "loading"
    /\ doc'     = "running"
    /\ fetched' = [f \in Fetches |-> "asked"]
    /\ toHost'  = Append(toHost, "mc:ready")
    /\ UNCHANGED <<beside, theme, host, app, launched, seen, toFrame, visible, size, themed>>

\* The bundle, the last thing in the document, starts both fetches.
Bootstrap ==
    /\ doc = "loading"
    /\ doc'     = "running"
    /\ fetched' = [f \in Fetches |-> "asked"]
    /\ UNCHANGED <<beside, theme, host, app, launched, seen, toHost, toFrame, visible, size,
                   themed>>

FetchAnswers(f, ok) ==
    /\ fetched[f] = "asked"
    /\ fetched' = [fetched EXCEPT ![f] = IF ok THEN "ok" ELSE "failed"]
    /\ UNCHANGED <<beside, theme, host, doc, app, launched, seen, toHost, toFrame, visible,
                   size, themed>>

\* Promise.all is done: render, then mc:ready.
Render ==
    /\ app = "none" /\ \A f \in Fetches : fetched[f] = "ok"
    /\ app'    = "rendered"
    /\ toHost' = Append(toHost, "mc:ready")
    /\ UNCHANGED <<beside, theme, host, doc, fetched, launched, seen, toFrame, visible, size,
                   themed>>

\* The effects of App run after the first paint.
Listen ==
    /\ app = "rendered"
    /\ app' = "listening"
    /\ UNCHANGED <<beside, theme, host, doc, fetched, launched, seen, toHost, toFrame, visible,
                   size, themed>>

\* A message nobody listens for is lost.
FrameReceives ==
    /\ toFrame # <<>>
    /\ toFrame' = Tail(toFrame)
    /\ themed'  = (themed \/ app = "listening")
    /\ UNCHANGED <<beside, theme, host, doc, fetched, app, launched, seen, toHost, visible, size>>

Content == IF launched THEN "panel" ELSE "launcher"

\* The ResizeObserver: it reports once for every change it finds.
Observe ==
    /\ app = "listening" /\ seen # Content /\ Len(toHost) < MaxQueue
    /\ seen'   = Content
    /\ toHost' = Append(toHost, Content)
    /\ UNCHANGED <<beside, theme, host, doc, fetched, app, launched, toFrame, visible, size,
                   themed>>

\* The user opens or closes the panel.
Toggle ==
    /\ visible /\ app # "none"
    /\ launched' = ~launched
    /\ UNCHANGED <<beside, theme, host, doc, fetched, app, seen, toHost, toFrame, visible, size,
                   themed>>

Next ==
    \/ \E ok \in BOOLEAN : ConfigAnswers(ok)
    \/ Refuse \/ Bootstrap \/ Loaded
    \/ \E f \in Fetches, ok \in BOOLEAN : FetchAnswers(f, ok)
    \/ Render \/ Listen \/ Observe \/ Toggle
    \/ \E m \in {"mc:ready", "launcher", "panel"} : NeighbourPosts(m)
    \/ HostReceives \/ FrameReceives

\* A browser delivers what was posted and runs the effects of what it rendered;
\* no answer of the network is owed.
Fairness ==
    /\ WF_vars(Loaded) /\ WF_vars(Render) /\ WF_vars(Listen) /\ WF_vars(Observe)
    /\ WF_vars(HostReceives) /\ WF_vars(FrameReceives)

Spec == Init /\ [][Next]_vars /\ Fairness

-----------------------------------------------------------------------------

\* mc:ready comes "on auth bootstrap complete" (PRD.md): on a page with one
\* widget an iframe that can be seen has its config and its session and has
\* rendered, in whichever order the two fetches, the load event and the messages
\* came; nothing is faded in that was refused by frame-ancestors or could not get
\* a session (bootstrap, injectIframe).
VisibleIsReady ==
    (visible /\ ~beside) =>
        /\ \A f \in Fetches : fetched[f] = "ok"
        /\ app # "none" /\ host = "injected"

\* "mc:theme (host->iframe) lets the host override the color at runtime": a page
\* that has set data-theme sees its colour once the widget is there.
HostThemeApplies == (theme /\ visible) ~> themed

=============================================================================
