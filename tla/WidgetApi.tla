----------------------------- MODULE WidgetApi -----------------------------
(***************************************************************************)
(* The HTTP requests served on top of WidgetConfigService: the dynamic     *)
(* CORS middleware, the public widget routes with the anonymous session    *)
(* mint, and the admin routes with their audit rows.  A request runs       *)
(*    [CORS: allowed_origins] -> handler: one service call -> [audit row]  *)
(* and every await lets the other requests in.  A session is not kept      *)
(* here: nothing reads a token again before it comes back with a chat.     *)
(***************************************************************************)
EXTENDS Integers

CONSTANTS
    Widgets, Procs, MaxVersion, CacheTTL, MaxLag, Faults,
    Origins,   \* origins web pages embed the widget from
    NoOrigin,  \* a request without an Origin header
    Allow      \* Allow[v]: allowed_origins of version v, normalised

ASSUME BoundsAssumption ==
    /\ MaxVersion \in Nat \ {0}
    /\ CacheTTL \in Nat \ {0}
    /\ MaxLag \in Nat
    /\ Faults \subseteq {"redis", "ack"}

ASSUME AllowAssumption ==
    /\ Allow \in [1..MaxVersion -> SUBSET Origins]
    /\ NoOrigin \notin Origins

VARIABLES
    row, last, gone, cached, ttl, pc, op, wid, val, ret, lag,  \* WidgetConfig
    stage,    \* stage[p]: which part of the request p is in
    kind,     \* kind[p]: the route
    origin,   \* origin[p]: its Origin header
    matched,  \* matched[p]: the middleware will allow that origin
    tooLate,  \* tooLate[p]: p arrived after the widget's DELETE was answered
    audit,    \* audit_log: the changes it records
    acked     \* the changes an admin was answered 2xx for

S == INSTANCE WidgetConfig

service == <<row, last, gone, cached, ttl, pc, op, wid, val, ret, lag>>
request == <<stage, kind, origin, matched, tooLate>>
records == <<audit, acked>>
vars    == <<service, request, records>>

None    == S!None
Version == S!Version
Public  == {"show", "mint", "preflight"}  \* show: config and embed
Admin   == {"create", "update", "delete"}

\* A change is known by the version it answered with, None for a deletion.
Change  == [w : Widgets, v : Version \cup {None}]

TypeOK ==
    /\ S!TypeOK
    /\ stage    \in [Procs -> {"free", "cors", "handler", "audit"}]
    /\ kind     \in [Procs -> Public \cup Admin]
    /\ origin   \in [Procs -> Origins \cup {NoOrigin}]
    /\ matched  \in [Procs -> BOOLEAN]
    /\ tooLate  \in [Procs -> BOOLEAN]
    /\ audit    \subseteq Change
    /\ acked    \subseteq Change

Init ==
    /\ S!Init
    /\ stage    = [p \in Procs |-> "free"]
    /\ kind     = [p \in Procs |-> "show"]
    /\ origin   = [p \in Procs |-> NoOrigin]
    /\ matched  = [p \in Procs |-> FALSE]
    /\ tooLate  = [p \in Procs |-> FALSE]
    /\ audit    = {}
    /\ acked    = {}

Goto(p, s) == stage' = [stage EXCEPT ![p] = s]

\* The service method behind a route.
MethodOf(k) == IF k \in Admin THEN k ELSE "get"

\* The response goes out (with CORS headers when matched[p], unless it is 500).
Respond(p) ==
    /\ S!Leave(p)
    /\ Goto(p, "free")
    /\ kind'    = [kind EXCEPT ![p] = "show"]
    /\ origin'  = [origin EXCEPT ![p] = NoOrigin]
    /\ matched' = [matched EXCEPT ![p] = FALSE]
    /\ tooLate' = [tooLate EXCEPT ![p] = FALSE]

\* A coroutine whose await has returned runs on at once: until it waits again
\* nothing else runs.
Settled == \A p \in Procs : pc[p] = "returned" => stage[p] = "audit"

-----------------------------------------------------------------------------
(* Arrival and the CORS middleware.                                        *)

Arrive(p, k, w, o) ==
    /\ Settled /\ stage[p] = "free"
    /\ k \in Admin => o = NoOrigin
    /\ k = "preflight" => o # NoOrigin
    /\ S!Call(p, IF o = NoOrigin THEN MethodOf(k) ELSE "get", w)
    /\ Goto(p, IF o = NoOrigin THEN "handler" ELSE "cors")
    /\ kind'    = [kind EXCEPT ![p] = k]
    /\ origin'  = [origin EXCEPT ![p] = o]
    /\ tooLate' = [tooLate EXCEPT ![p] = k = "mint" /\
                      [w |-> w, v |-> None] \in acked]
    /\ UNCHANGED <<matched, records>>

\* Mutant of CorsMatch: an allowlist that cannot be read allows everyone.
CorsMatchOpen(p) == ret[p] = "ok" => origin[p] \in Allow[val[p]]

\* An unknown widget and a failed lookup both read as an empty allowlist.
CorsMatch(p) == ret[p] = "ok" /\ origin[p] \in Allow[val[p]]

\* The list read here decides about a response that is built later.
CorsDecide(p) ==
    /\ stage[p] = "cors" /\ pc[p] = "returned" /\ kind[p] # "preflight"
    /\ matched' = [matched EXCEPT ![p] = CorsMatch(p)]
    /\ Goto(p, "handler")
    /\ S!Enter(p, "get", wid[p])
    /\ UNCHANGED <<kind, origin, tooLate, records>>

\* The middleware answers a matched preflight itself; for an unmatched one no
\* route exists, and it ends as a 405 without CORS headers.
Preflight(p) ==
    /\ stage[p] = "cors" /\ pc[p] = "returned" /\ kind[p] = "preflight"
    /\ Respond(p)
    /\ UNCHANGED records

-----------------------------------------------------------------------------
(* The handlers, once their service call has returned.                     *)

\* 404 for NotFoundError (delete: for FALSE), 500 for any other exception.
Refuse(p) ==
    /\ stage[p] = "handler" /\ pc[p] = "returned" /\ ret[p] # "ok"
    /\ Respond(p)
    /\ UNCHANGED records

\* GET config and embed.
Show(p) ==
    /\ stage[p] = "handler" /\ pc[p] = "returned" /\ ret[p] = "ok"
    /\ kind[p] = "show"
    /\ Respond(p)
    /\ UNCHANGED records

\* POST session: the token carries the tools of the configuration just read.
Mint(p) ==
    /\ stage[p] = "handler" /\ pc[p] = "returned" /\ ret[p] = "ok"
    /\ kind[p] = "mint"
    /\ Respond(p)
    /\ UNCHANGED records

ChangeOf(p) == [w |-> wid[p], v |-> val[p]]

\* Mutant of Changed: the outcome of the service call is not looked at.
ChangedRegardless(p) ==
    /\ stage[p] = "handler" /\ pc[p] = "returned"
    /\ kind[p] \in Admin
    /\ Goto(p, "audit")
    /\ UNCHANGED <<service, kind, origin, matched, tooLate, records>>

\* The change is committed; its audit row is a transaction of its own.
Changed(p) ==
    /\ stage[p] = "handler" /\ pc[p] = "returned" /\ ret[p] = "ok"
    /\ kind[p] \in Admin
    /\ Goto(p, "audit")
    /\ UNCHANGED <<service, kind, origin, matched, tooLate, records>>

WriteAudit(p) ==
    /\ Settled /\ stage[p] = "audit"
    /\ audit' = audit \cup {ChangeOf(p)}
    /\ acked' = acked \cup {ChangeOf(p)}
    /\ Respond(p)

\* Mutant of AuditFails: the exception is swallowed, the admin sees a 2xx.
AuditSwallowed(p) ==
    /\ Settled /\ stage[p] = "audit"
    /\ acked' = acked \cup {ChangeOf(p)}
    /\ Respond(p)
    /\ audit' = audit

\* The audit INSERT raises, before or after it commits: 500.
AuditFails(p) ==
    /\ Settled /\ stage[p] = "audit"
    /\ audit' = audit \/ audit' = audit \cup {ChangeOf(p)}
    /\ Respond(p)
    /\ acked' = acked

-----------------------------------------------------------------------------
(* The specification.                                                      *)

Serve(p) == Settled /\ S!Step(p) /\ UNCHANGED <<request, records>>
Time     == Settled /\ S!Tick /\ UNCHANGED <<request, records>>

Crash ==
    /\ Settled
    /\ S!Crash
    /\ stage'   = [p \in Procs |-> "free"]
    /\ kind'    = [p \in Procs |-> "show"]
    /\ origin'  = [p \in Procs |-> NoOrigin]
    /\ matched' = [p \in Procs |-> FALSE]
    /\ tooLate' = [p \in Procs |-> FALSE]
    /\ UNCHANGED records

Next ==
    \/ \E p \in Procs :
          \/ \E k \in Public \cup Admin, w \in Widgets, o \in Origins \cup {NoOrigin} :
                Arrive(p, k, w, o)
          \/ Serve(p)
          \/ CorsDecide(p) \/ Preflight(p)
          \/ Refuse(p) \/ Show(p) \/ Mint(p)
          \/ Changed(p) \/ WriteAudit(p) \/ AuditFails(p)
    \/ Time
    \/ Crash

Spec == Init /\ [][Next]_vars

-----------------------------------------------------------------------------
(* Properties.                                                             *)

\* w was configured as v within the last Window ticks.
Recent(w, v) == v \in 1..last[w] /\ (v = row[w] \/ gone[w][v] <= S!Window)

\* A session is only minted from a configuration of its widget that is in
\* force or was until Window ticks ago, deleted widgets included: the cache
\* cannot keep handing out tool grants that an admin has withdrawn.
MintsAreRecent == [][\A p \in Procs : Mint(p) => Recent(wid[p], val[p])]_vars

\* The middleware decides for an origin only on a list that contained it
\* within the last Window ticks, whatever fails on the way to that list.
GrantsAreRecent ==
    [][\A p \in Procs :
          (CorsDecide(p) \/ Preflight(p)) /\ CorsMatch(p) =>
              \E v \in Version : Recent(wid[p], v) /\ origin[p] \in Allow[v]]_vars

\* An admin who got a 2xx finds the change in audit_log.
AckedChangeAudited == acked \subseteq audit

\* The trail never claims a change that did not take effect: an audited
\* version exists, and an audited delete is for good.
AuditIsTrue ==
    \A a \in audit : IF a.v = None THEN last[a.w] # None /\ row[a.w] = None
                                   ELSE a.v \in 1..last[a.w]

\* RUNBOOK.md:274-276: once a widget is deleted, new /session mints return
\* 404.  (Here: mints that arrive after the DELETE was answered.)
NoMintAfterDelete == [][\A p \in Procs : Mint(p) => ~ tooLate[p]]_vars

\* RUNBOOK.md:280-282: every CRUD operation writes a row to audit_log.
EveryChangeAudited ==
    (\A p \in Procs : stage[p] = "free") =>
        \A w \in Widgets :
            /\ \A v \in 1..last[w] : [w |-> w, v |-> v] \in audit
            /\ last[w] # None /\ row[w] = None => [w |-> w, v |-> None] \in audit

=============================================================================
