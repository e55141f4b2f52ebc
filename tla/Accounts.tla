------------------------------ MODULE Accounts ------------------------------
(***************************************************************************)
(* Accounts, bearer tokens and the revocation list: app/api/auth.py with   *)
(* the invite of app/api/admin.py, over the users table, audit_log and one *)
(* Redis key per revoked token.  A row of users is known by its id, which  *)
(* tokens and audit rows carry; its address may change.                    *)
(*                                                                         *)
(* Time is counted in ticks, Sec of them to a second, because exp and the  *)
(* life of a revocation are whole seconds and the clock is not.  A token   *)
(* is known by the ticks it has left, a Redis key likewise.                *)
(***************************************************************************)
EXTENDS Integers

CONSTANTS
    Procs,         \* requests being served
    Users,         \* ids an account can draw
    Emails,        \* addresses an account can have
    Root,          \* the account made admin by hand (RUNBOOK)
    RootEmail,     \* its address
    Passwords,     \* what secrets.token_urlsafe can draw
    UserTokens,    \* login tokens that can be issued (no jti)
    WidgetTokens,  \* anonymous session tokens that can be issued (jti)
    Nothing,       \* no account, no holder, no password
    Sec,           \* ticks in a second
    Life           \* JWT_LIFETIME_SECONDS

Tokens == UserTokens \cup WidgetTokens

Roles   == {"user", "admin"}
Letter  == [email : Emails, pw : Passwords]
Account == [email : Emails, pw : Passwords \cup {"own"}, role : Roles]

ASSUME AccountsAssumption ==
    /\ Root \in Users /\ RootEmail \in Emails
    /\ UserTokens \cap WidgetTokens = {}
    /\ Nothing \notin Users \cup Emails \cup Passwords \cup Tokens \cup Account \cup Letter
    /\ "own" \notin Passwords
    /\ "widget" \notin Users
    /\ "widget" # Nothing
    /\ Sec \in Nat \ {0}
    /\ Life \in Nat \ {0}

VARIABLES
    phase,    \* ticks into the current second
    holder,   \* holder[t]: whose token t is, Nothing before it is issued
    left,     \* left[t]: ticks until t expires
    keep,     \* keep[t]: ticks session:revoked:<jti of t> has left, 0 without
    redisUp,  \* Redis answers
    acked,    \* tokens whose revocation was answered {revoked: true} and that
              \* Redis has not been restarted since
    account,  \* account[u]: the row of users with that id
    audit,    \* rows of audit_log about accounts
    drawn,    \* passwords generated so far
    handed,   \* handed[u]: address and password told by the invite that made u
    welcomed, \* accounts whose registration was answered 201
    changed,  \* accounts that took another address or password themselves
    stage,    \* stage[p]: what request p waits for
    job,      \* job[p]: its route
    tok,      \* tok[p]: its bearer token
    email,    \* email[p]: the address it was sent
    pw,       \* pw[p]: the password of the account it creates
    made,     \* made[p]: the account it has created
    ttl       \* ttl[p]: seconds its revocation will be kept

tokens   == <<phase, holder, left>>
redis    == <<keep, redisUp, acked>>
database == <<account, audit>>
told     == <<drawn, handed, welcomed, changed>>
request  == <<stage, job, tok, email, pw, made, ttl>>
vars     == <<tokens, redis, database, told, request>>

Row     == [action : {"user_register", "invite_user"}, actor : Users, target : Users]
Jobs    == {"me", "login", "register", "invite", "update", "revoke"}
Stages  == {"idle", "list", "account", "accepted", "login", "lookup",
            "insert", "audit_register", "audit_invite", "taken", "change", "set"}

TypeOK ==
    /\ phase    \in 0..(Sec - 1)
    /\ holder   \in [Tokens -> Users \cup {"widget", Nothing}]
    /\ left     \in [Tokens -> 0..(Life * Sec)]
    /\ keep     \in [Tokens -> 0..(Life * Sec)]
    /\ redisUp  \in BOOLEAN
    /\ acked    \subseteq Tokens
    /\ account  \in [Users -> Account \cup {Nothing}]
    /\ audit    \subseteq Row
    /\ drawn    \subseteq Passwords
    /\ handed   \in [Users -> Letter \cup {Nothing}]
    /\ welcomed \subseteq Users
    /\ changed  \subseteq Users
    /\ stage    \in [Procs -> Stages]
    /\ job      \in [Procs -> Jobs]
    /\ tok      \in [Procs -> Tokens \cup {Nothing}]
    /\ email    \in [Procs -> Emails \cup {Nothing}]
    /\ pw       \in [Procs -> Passwords \cup {"own"}]
    /\ made     \in [Procs -> Users \cup {Nothing}]
    /\ ttl      \in [Procs -> 1..Life]

Init ==
    /\ phase    = 0
    /\ holder   = [t \in Tokens |-> Nothing]
    /\ left     = [t \in Tokens |-> 0]
    /\ keep     = [t \in Tokens |-> 0]
    /\ redisUp  = TRUE
    /\ acked    = {}
    /\ account  = [u \in Users |->
                    IF u = Root THEN [email |-> RootEmail, pw |-> "own", role |-> "admin"]
                                ELSE Nothing]
    /\ audit    = {[action |-> "user_register", actor |-> Root, target |-> Root]}
    /\ drawn    = {}
    /\ handed   = [u \in Users |-> Nothing]
    /\ welcomed = {}
    /\ changed  = {}
    /\ stage    = [p \in Procs |-> "idle"]
    /\ job      = [p \in Procs |-> "me"]
    /\ tok      = [p \in Procs |-> Nothing]
    /\ email    = [p \in Procs |-> Nothing]
    /\ pw       = [p \in Procs |-> "own"]
    /\ made     = [p \in Procs |-> Nothing]
    /\ ttl      = [p \in Procs |-> 1]

-----------------------------------------------------------------------------
(* Routing.  A request that is refused before its first await changes      *)
(* nothing and has no action: a missing, foreign or expired token at       *)
(* current_principal and current_user, a token without jti at revoke.      *)

Begin(p, j, t, e, w) ==
    /\ stage[p] = "idle"
    /\ job'   = [job EXCEPT ![p] = j]
    /\ tok'   = [tok EXCEPT ![p] = t]
    /\ email' = [email EXCEPT ![p] = e]
    /\ pw'    = [pw EXCEPT ![p] = w]
    /\ made'  = made

Go(p, s) == stage' = [stage EXCEPT ![p] = s]

\* Whatever p answers, nothing is left of it.
End(p) ==
    /\ Go(p, "idle")
    /\ job'   = [job EXCEPT ![p] = "me"]
    /\ tok'   = [tok EXCEPT ![p] = Nothing]
    /\ email' = [email EXCEPT ![p] = Nothing]
    /\ pw'    = [pw EXCEPT ![p] = "own"]
    /\ made'  = [made EXCEPT ![p] = Nothing]
    /\ ttl'   = [ttl EXCEPT ![p] = 1]

\* current_principal: a token with a jti is looked up in the revocation list,
\* a login token in the users table.
Me(p, t) ==
    /\ left[t] > 0
    /\ Begin(p, "me", t, Nothing, "own")
    /\ Go(p, IF holder[t] = "widget" THEN "list" ELSE "account")
    /\ UNCHANGED <<tokens, redis, database, told, ttl>>

\* A route behind current_user, which finds no account for a widget token.
Own(p, t, j, e) ==
    /\ left[t] > 0 /\ holder[t] \in Users
    /\ j \in {"invite", "update"}
    /\ Begin(p, j, t, e, "own")
    /\ Go(p, "account")
    /\ UNCHANGED <<tokens, redis, database, told, ttl>>

\* The public forms.
Form(p, j, e) ==
    /\ j \in {"login", "register"}
    /\ Begin(p, j, Nothing, e, "own")
    /\ Go(p, IF j = "login" THEN "login" ELSE "lookup")
    /\ UNCHANGED <<tokens, redis, database, told, ttl>>

\* Mutant of RevokeTtl: no lower bound.
PlainTtl(n) == n \div Sec

\* Seconds to keep the revocation of a token with n ticks to live.
RevokeTtl(n) == IF n >= Sec THEN n \div Sec ELSE 1

\* revoke takes expired tokens too.
Revoke(p, t) ==
    /\ holder[t] = "widget"
    /\ Begin(p, "revoke", t, Nothing, "own")
    /\ ttl' = [ttl EXCEPT ![p] = RevokeTtl(left[t])]
    /\ Go(p, "set")
    /\ UNCHANGED <<tokens, redis, database, told>>

-----------------------------------------------------------------------------
(* Tokens.                                                                 *)

\* exp is the whole second of the issue plus the lifetime.
Issue(t, h) ==
    /\ holder[t] = Nothing
    /\ holder' = [holder EXCEPT ![t] = h]
    /\ left'   = [left EXCEPT ![t] = Life * Sec - phase]
    /\ phase'  = phase

MintSession(t) ==
    /\ t \in WidgetTokens
    /\ Issue(t, "widget")
    /\ UNCHANGED <<redis, database, told, request>>

\* The accounts with address e: at most one, the column is UNIQUE.
Holders(e) == {u \in Users : account[u] # Nothing /\ account[u].email = e}

LogIn(p, t) ==
    /\ stage[p] = "login"
    /\ t \in UserTokens
    /\ \E u \in Holders(email[p]) : Issue(t, u)
    /\ End(p)
    /\ UNCHANGED <<redis, database, told>>

\* A wrong password, or no such account.
BadLogin(p) ==
    /\ stage[p] = "login"
    /\ End(p)
    /\ UNCHANGED <<tokens, redis, database, told>>

\* Mutant of Revoked: the key is built from a claim the revocation did not use.
RevokedElsewhere(t) == \E u \in Tokens \ {t} : keep[u] > 0

Revoked(t) == keep[t] > 0

\* Redis is asked; when it does not answer, the token counts as not revoked.
ReadList(p) ==
    /\ stage[p] = "list"
    /\ IF redisUp /\ Revoked(tok[p])
         THEN End(p)
         ELSE Go(p, "accepted") /\ UNCHANGED <<job, tok, email, pw, made, ttl>>
    /\ UNCHANGED <<tokens, redis, database, told>>

WriteList(p) ==
    /\ stage[p] = "set" /\ redisUp
    /\ keep'  = [keep EXCEPT ![tok[p]] = ttl[p] * Sec]
    /\ acked' = acked \cup {tok[p]}
    /\ End(p)
    /\ UNCHANGED <<tokens, redisUp, database, told>>

\* {revoked: false}: the SET did not reach Redis, or its answer was lost.
WriteListFails(p) ==
    /\ stage[p] = "set"
    /\ \/ keep' = keep
       \/ redisUp /\ keep' = [keep EXCEPT ![tok[p]] = ttl[p] * Sec]
    /\ End(p)
    /\ UNCHANGED <<tokens, redisUp, acked, database, told>>

\* The handler behind the principal is done.
Leave(p) ==
    /\ stage[p] = "accepted" /\ job[p] = "me"
    /\ End(p)
    /\ UNCHANGED <<tokens, redis, database, told>>

-----------------------------------------------------------------------------
(* Accounts.                                                               *)

\* The SELECT of current_user or current_principal.  An update that names the
\* address the account has leaves the column alone.
ReadAccount(p) ==
    LET row == account[holder[tok[p]]] IN
    /\ stage[p] = "account"
    /\ \/ /\ job[p] = "me"
          /\ Go(p, "accepted")
          /\ UNCHANGED <<job, tok, email, pw, made, ttl, drawn>>
       \/ /\ job[p] = "update"
          /\ email' = IF email[p] = row.email THEN [email EXCEPT ![p] = Nothing] ELSE email
          /\ Go(p, IF email'[p] = Nothing THEN "change" ELSE "taken")
          /\ UNCHANGED <<job, tok, pw, made, ttl, drawn>>
       \/ /\ job[p] = "invite" /\ row.role = "admin"
          /\ \E w \in Passwords \ drawn :
                pw' = [pw EXCEPT ![p] = w] /\ drawn' = drawn \cup {w}
          /\ Go(p, "lookup")
          /\ UNCHANGED <<job, tok, email, made, ttl>>
       \/ /\ job[p] = "invite" /\ row.role # "admin"
          /\ End(p)
          /\ drawn' = drawn
    /\ UNCHANGED <<tokens, redis, database, handed, welcomed, changed>>

\* BaseUserManager looks an address up before it uses it, in create and for the
\* new address of an update.
AddressIsFree(p, from, to) ==
    /\ stage[p] = from
    /\ IF Holders(email[p]) = {}
         THEN Go(p, to) /\ UNCHANGED <<job, tok, email, pw, made, ttl>>
         ELSE End(p)
    /\ UNCHANGED <<tokens, redis, database, told>>

\* PATCH /users/me: UserUpdate admits an address, a password and a role.  The
\* UPDATE writes the columns that were sent and differ, and COMMITs.
UpdateMe(p, r, w) ==
    LET u   == holder[tok[p]]
        new == [email |-> IF email[p] = Nothing THEN account[u].email ELSE email[p],
                pw |-> w, role |-> r]
    IN
    /\ stage[p] = "change"
    /\ w \in {account[u].pw, "own"}
    /\ Holders(new.email) \subseteq {u}
    /\ account' = [account EXCEPT ![u] = new]
    /\ changed' = IF new.email = account[u].email /\ w = account[u].pw
                    THEN changed ELSE changed \cup {u}
    /\ End(p)
    /\ UNCHANGED <<tokens, redis, audit, drawn, handed, welcomed>>

\* Mutant of LookUp: the audit row is written before the account.
AuditFirst(p) ==
    /\ stage[p] = "lookup" /\ Holders(email[p]) = {}
    /\ \E u \in Users : account[u] = Nothing /\ made' = [made EXCEPT ![p] = u]
    /\ Go(p, "audit_register")
    /\ UNCHANGED <<job, tok, email, pw, ttl, tokens, redis, database, told>>

LookUp(p) == AddressIsFree(p, "lookup", "insert")

Taken(p) == AddressIsFree(p, "taken", "change")

\* Mutant of Unused: the table has no UNIQUE on email.
AnyAddress(u, e) == account[u] = Nothing

\* The row u with address e violates no constraint.
Unused(u, e) == account[u] = Nothing /\ Holders(e) = {}

\* The INSERT and its COMMIT.  Only an invite chooses the role.
Insert(p, u, r, ackLost) ==
    /\ stage[p] = "insert"
    /\ Unused(u, email[p])
    /\ job[p] = "register" => r = "user"
    /\ account' = [account EXCEPT ![u] = [email |-> email[p], pw |-> pw[p], role |-> r]]
    /\ IF ackLost
         THEN End(p)
         ELSE /\ Go(p, "audit_register")
              /\ made' = [made EXCEPT ![p] = u]
              /\ UNCHANGED <<job, tok, email, pw, ttl>>
    /\ UNCHANGED <<tokens, redis, audit, told>>

\* The audit row of a registration.
Registration(u) == [action |-> "user_register", actor |-> u, target |-> u]

\* Mutant of AuditRegister: an audit row that cannot be written is passed over.
QuietAudit(p, ackLost) ==
    /\ stage[p] = "audit_register"
    /\ audit' = IF ackLost THEN audit ELSE audit \cup {Registration(made[p])}
    /\ welcomed' = IF job[p] # "register" THEN welcomed ELSE welcomed \cup {made[p]}
    /\ IF job[p] = "invite"
         THEN Go(p, "audit_invite") /\ UNCHANGED <<job, tok, email, pw, made, ttl>>
         ELSE End(p)
    /\ UNCHANGED <<tokens, redis, account, drawn, handed, changed>>

\* on_after_register, for both routes.  A registration is answered then.
AuditRegister(p, ackLost) ==
    /\ stage[p] = "audit_register"
    /\ audit' = audit \cup {Registration(made[p])}
    /\ welcomed' = IF ackLost \/ job[p] # "register" THEN welcomed
                                                     ELSE welcomed \cup {made[p]}
    /\ IF job[p] = "invite" /\ ~ackLost
         THEN Go(p, "audit_invite") /\ UNCHANGED <<job, tok, email, pw, made, ttl>>
         ELSE End(p)
    /\ UNCHANGED <<tokens, redis, account, drawn, handed, changed>>

\* The second audit row of an invite; the answer tells address and password.
AuditInvite(p, ackLost) ==
    /\ stage[p] = "audit_invite"
    /\ audit' = audit \cup {[action |-> "invite_user", actor |-> holder[tok[p]],
                             target |-> made[p]]}
    /\ handed' = IF ackLost THEN handed
                 ELSE [handed EXCEPT ![made[p]] = [email |-> email[p], pw |-> pw[p]]]
    /\ End(p)
    /\ UNCHANGED <<tokens, redis, account, drawn, welcomed, changed>>

\* A statement raises before it had any effect, or meets a constraint: 500.
Raises(p) ==
    /\ stage[p] \in {"account", "login", "lookup", "insert", "audit_register",
                     "audit_invite", "taken", "change"}
    /\ End(p)
    /\ UNCHANGED <<tokens, redis, database, told>>

-----------------------------------------------------------------------------
(* The environment.                                                        *)

Less(n) == IF n > 0 THEN n - 1 ELSE 0

Tick ==
    /\ phase' = IF phase = Sec - 1 THEN 0 ELSE phase + 1
    /\ left'  = [t \in Tokens |-> Less(left[t])]
    /\ keep'  = [t \in Tokens |-> Less(keep[t])]
    /\ UNCHANGED <<holder, redisUp, acked, database, told, request>>

\* Redis cannot be reached, or can again.
RedisTurns ==
    /\ redisUp' = ~redisUp
    /\ UNCHANGED <<tokens, keep, acked, database, told, request>>

\* Redis ends and starts from what it had saved: it has no volume and no
\* append-only file, so any of its keys may be gone.
RedisRestarts ==
    /\ \E lost \in SUBSET {t \in Tokens : keep[t] > 0} :
         keep' = [t \in Tokens |-> IF t \in lost THEN 0 ELSE keep[t]]
    /\ acked' = {}
    /\ UNCHANGED <<tokens, redisUp, database, told, request>>

\* The API process ends with every request in it.
Crash ==
    /\ stage' = [p \in Procs |-> "idle"]
    /\ job'   = [p \in Procs |-> "me"]
    /\ tok'   = [p \in Procs |-> Nothing]
    /\ email' = [p \in Procs |-> Nothing]
    /\ pw'    = [p \in Procs |-> "own"]
    /\ made'  = [p \in Procs |-> Nothing]
    /\ ttl'   = [p \in Procs |-> 1]
    /\ UNCHANGED <<tokens, redis, database, told>>

Arrive(p) ==
    \/ \E t \in Tokens : Me(p, t) \/ Revoke(p, t)
    \/ \E t \in UserTokens, e \in Emails : Own(p, t, "invite", e)
    \/ \E t \in UserTokens, e \in Emails \cup {Nothing} : Own(p, t, "update", e)
    \/ \E e \in Emails : Form(p, "login", e) \/ Form(p, "register", e)

Step(p) ==
    \/ \E t \in UserTokens : LogIn(p, t)
    \/ BadLogin(p)
    \/ ReadList(p) \/ WriteList(p) \/ WriteListFails(p)
    \/ ReadAccount(p) \/ LookUp(p) \/ Taken(p) \/ Raises(p) \/ Leave(p)
    \/ \E r \in Roles, w \in Passwords \cup {"own"} : UpdateMe(p, r, w)
    \/ \E u \in Users, r \in Roles, ackLost \in BOOLEAN : Insert(p, u, r, ackLost)
    \/ \E ackLost \in BOOLEAN : AuditRegister(p, ackLost) \/ AuditInvite(p, ackLost)

Next ==
    \/ \E p \in Procs : Arrive(p) \/ Step(p)
    \/ \E t \in WidgetTokens : MintSession(t)
    \/ Tick \/ RedisTurns \/ RedisRestarts \/ Crash

Spec == Init /\ [][Next]_vars

-----------------------------------------------------------------------------
(* What authentication promises.                                           *)

\* A token whose revocation was answered {revoked: true} is refused for the
\* rest of its life but the last fraction of a second, whatever revocations
\* overlap, however late their SETs reach Redis and whenever Redis could not be
\* reached in between; while it cannot be the token works, and after a restart
\* of Redis it may work again (revoke, _is_revoked, docker-compose.yml).
RevokedStaysOut ==
    [][\A p \in Procs :
         (stage[p] = "list" /\ stage'[p] = "accepted" /\ redisUp /\ tok[p] \in acked)
            => left[tok[p]] < Sec]_vars

\* The state behind it: an acknowledged revocation is kept until less than a
\* second before the token expires (ttl = max(1, int(exp - now))).
RevocationOutlivesToken ==
    \A t \in acked : left[t] < keep[t] + Sec

Registered(u) == \E r \in audit : r.action = "user_register" /\ r.target = u
InvitedBy(u)  == \E r \in audit : r.action = "invite_user" /\ r.target = u

\* What was answered was recorded before: a 201 of the registration, and the
\* password of an invite with both its rows (on_after_register, invite_user).
AnswersAreAudited ==
    /\ \A u \in welcomed : Registered(u)
    /\ \A u \in Users : handed[u] # Nothing => Registered(u) /\ InvitedBy(u)

\* The trail names accounts that exist, and records an invitation only of an
\* account whose registration it records, although the three statements are
\* three transactions.
TrailIsTrue ==
    \A r \in audit :
        /\ account[r.target] # Nothing
        /\ r.action = "invite_user" => Registered(r.target)

\* The address and the password an invite handed out are those of the account it
\* made, and of no other, until its owner changes one of them: of the invites,
\* registrations and changes of address that race for an address one wins, and
\* only a winner's password is told (invite_user, users.email UNIQUE).
HandedPasswordWorks ==
    \A u \in Users :
        handed[u] # Nothing /\ u \notin changed =>
            Holders(handed[u].email) = {u} /\ account[u].pw = handed[u].pw

=============================================================================
