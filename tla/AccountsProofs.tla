--------------------------- MODULE AccountsProofs ---------------------------
(***************************************************************************)
(* For every number of requests, accounts, addresses, tokens and           *)
(* passwords, every resolution of the clock and every lifetime: Accounts   *)
(* keeps its types, an acknowledged revocation holds, the audit trail is   *)
(* true, and what an invite told opens its account.                        *)
(***************************************************************************)
EXTENDS Accounts, TLAPS

Auditing == {"audit_register", "audit_invite"}
Creating == {"lookup", "insert"} \cup Auditing

\* What a request carries in each of its stages.
WellFormed(p) ==
    /\ stage[p] # "idle" /\ job[p] \in {"invite", "update"} =>
         tok[p] \in Tokens /\ holder[tok[p]] \in Users
    /\ stage[p] # "idle" /\ job[p] \in {"login", "register", "invite"} =>
         email[p] \in Emails
    /\ stage[p] = "set" => tok[p] \in Tokens /\ holder[tok[p]] = "widget"
    /\ stage[p] = "login" => job[p] = "login"
    /\ stage[p] \in Creating => job[p] \in {"register", "invite"}
    /\ stage[p] \in Auditing => made[p] \in Users
    /\ stage[p] = "audit_invite" => job[p] = "invite"
    /\ stage[p] \in Creating /\ job[p] = "invite" => pw[p] \in Passwords
    /\ stage[p] \in {"taken", "change"} => job[p] = "update"
    /\ stage[p] = "taken" => email[p] \in Emails

RequestsWellFormed == \A p \in Procs : WellFormed(p)

\* A revocation that is about to be written is long enough.
RevokingSuffices ==
    \A p \in Procs : stage[p] = "set" => left[tok[p]] < ttl[p] * Sec + Sec

AckedAreIssued == \A t \in acked : holder[t] = "widget"

\* A login token is somebody's: accounts are not deleted.
HoldersExist == \A t \in Tokens : holder[t] \in Users => account[holder[t]] # Nothing

Typed    == TypeOK /\ RequestsWellFormed
TypeInv  == Typed /\ HoldersExist
TokenInv == RevocationOutlivesToken /\ RevokingSuffices /\ AckedAreIssued

-----------------------------------------------------------------------------
(* Arithmetic.                                                             *)

LEMMA Division ==
    ASSUME NEW n \in Nat, NEW s \in Nat \ {0}
    PROVE  /\ n \div s \in Nat
           /\ (n \div s) * s <= n
           /\ n < (n \div s) * s + s
  OBVIOUS

LEMMA Monotone ==
    ASSUME NEW a \in Nat, NEW b \in Nat, NEW s \in Nat \ {0}
    PROVE  /\ a <= b => a * s <= b * s
           /\ a * s <= b * s => a <= b
  OBVIOUS

LEMMA TtlFacts ==
    ASSUME NEW n \in 0..(Life * Sec)
    PROVE  /\ RevokeTtl(n) \in 1..Life
           /\ n < RevokeTtl(n) * Sec + Sec
<1> USE AccountsAssumption
<1>1. Life * Sec \in Nat /\ n \in Nat
  OBVIOUS
<1>2. CASE n >= Sec
  <2>1. DEFINE q == n \div Sec
  <2>2. q \in Nat /\ q * Sec <= n /\ n < q * Sec + Sec
    BY <1>1, Division
  <2>3. q # 0
    BY <2>2, <1>2, <1>1
  <2>4. q <= Life
    <3>1. q * Sec <= Life * Sec
      BY <2>2, <1>1
    <3>2. QED
      BY <3>1, <2>2, Monotone
  <2>5. QED
    BY <1>2, <2>2, <2>3, <2>4 DEF RevokeTtl
<1>3. CASE ~ (n >= Sec)
  BY <1>1, <1>3 DEF RevokeTtl
<1>4. QED
  BY <1>2, <1>3

LEMMA KeepFacts ==
    ASSUME NEW n \in 1..Life
    PROVE  n * Sec \in 0..(Life * Sec)
<1> USE AccountsAssumption
<1>1. n * Sec \in Nat /\ Life * Sec \in Nat
  OBVIOUS
<1>2. n * Sec <= Life * Sec
  BY Monotone
<1>3. QED
  BY <1>1, <1>2

-----------------------------------------------------------------------------
(* Types.                                                                  *)

LEMMA EndTypes ==
    ASSUME TypeInv, NEW p \in Procs, End(p)
    PROVE  /\ stage' \in [Procs -> Stages] /\ job' \in [Procs -> Jobs]
           /\ tok' \in [Procs -> Tokens \cup {Nothing}]
           /\ email' \in [Procs -> Emails \cup {Nothing}]
           /\ pw' \in [Procs -> Passwords \cup {"own"}]
           /\ made' \in [Procs -> Users \cup {Nothing}]
           /\ ttl' \in [Procs -> 1..Life]
           /\ stage'[p] = "idle"
           /\ \A q \in Procs \ {p} :
                /\ stage'[q] = stage[q] /\ job'[q] = job[q] /\ tok'[q] = tok[q]
                /\ email'[q] = email[q] /\ pw'[q] = pw[q] /\ made'[q] = made[q]
                /\ ttl'[q] = ttl[q]
  BY AccountsAssumption DEF TypeInv, Typed, TypeOK, End, Go, Stages, Jobs

\* Requests that are not touched stay well formed: a token keeps its holder.
LEMMA OthersWellFormed ==
    ASSUME TypeInv, NEW q \in Procs,
           stage'[q] = stage[q] /\ job'[q] = job[q] /\ tok'[q] = tok[q]
             /\ email'[q] = email[q] /\ pw'[q] = pw[q] /\ made'[q] = made[q],
           \A t \in Tokens : holder[t] # Nothing => holder'[t] = holder[t]
    PROVE  WellFormed(q)'
  BY AccountsAssumption DEF TypeInv, Typed, RequestsWellFormed, WellFormed

\* A request that ends leaves everything well typed and well formed.
LEMMA EndKeeps ==
    ASSUME TypeInv, NEW p \in Procs, End(p),
           \A t \in Tokens : holder[t] # Nothing => holder'[t] = holder[t]
    PROVE  RequestsWellFormed'
<1>1. ASSUME NEW q \in Procs PROVE WellFormed(q)'
  <2>1. CASE q = p
    BY <2>1, EndTypes DEF WellFormed, Creating, Auditing
  <2>2. CASE q # p
    BY <2>2, EndTypes, OthersWellFormed
  <2>3. QED
    BY <2>1, <2>2
<1>2. QED
  BY <1>1 DEF RequestsWellFormed

\* A request that goes on with nothing but its stage changed.
LEMMA GoTypes ==
    ASSUME TypeInv, NEW p \in Procs, NEW s \in Stages, Go(p, s),
           UNCHANGED <<job, tok, email, pw, made, ttl, holder>>
    PROVE  /\ stage' \in [Procs -> Stages]
           /\ stage'[p] = s
           /\ \A q \in Procs \ {p} : stage'[q] = stage[q]
           /\ (WellFormed(p)' => RequestsWellFormed')
<1>1. stage' \in [Procs -> Stages] /\ stage'[p] = s
        /\ \A q \in Procs \ {p} : stage'[q] = stage[q]
  BY DEF TypeInv, Typed, TypeOK, Go
<1>2. ASSUME NEW q \in Procs, q # p PROVE WellFormed(q)'
  BY <1>1, <1>2, OthersWellFormed
<1>3. QED
  BY <1>1, <1>2 DEF RequestsWellFormed

\* A request that begins; holder is not changed then.
LEMMA BeginTypes ==
    ASSUME TypeInv, NEW p \in Procs, NEW j \in Jobs, NEW t \in Tokens \cup {Nothing},
           NEW e \in Emails \cup {Nothing}, NEW s \in Stages,
           Begin(p, j, t, e, "own"), Go(p, s), UNCHANGED holder,
           WellFormed(p)'
    PROVE  /\ stage' \in [Procs -> Stages] /\ job' \in [Procs -> Jobs]
           /\ tok' \in [Procs -> Tokens \cup {Nothing}]
           /\ email' \in [Procs -> Emails \cup {Nothing}]
           /\ pw' \in [Procs -> Passwords \cup {"own"}]
           /\ made' \in [Procs -> Users \cup {Nothing}]
           /\ RequestsWellFormed'
<1>1. /\ stage' \in [Procs -> Stages] /\ job' \in [Procs -> Jobs]
      /\ tok' \in [Procs -> Tokens \cup {Nothing}]
      /\ email' \in [Procs -> Emails \cup {Nothing}]
      /\ pw' \in [Procs -> Passwords \cup {"own"}]
      /\ made' \in [Procs -> Users \cup {Nothing}]
  BY DEF TypeInv, Typed, TypeOK, Begin, Go
<1>2. ASSUME NEW q \in Procs, q # p PROVE WellFormed(q)'
  <2>1. /\ stage'[q] = stage[q] /\ job'[q] = job[q] /\ tok'[q] = tok[q]
        /\ email'[q] = email[q] /\ pw'[q] = pw[q] /\ made'[q] = made[q]
    BY <1>2 DEF TypeInv, Typed, TypeOK, Begin, Go
  <2>2. QED
    BY <2>1, OthersWellFormed
<1>3. QED
  BY <1>1, <1>2 DEF RequestsWellFormed

LEMMA TypeInit == Init => TypeInv
<1> SUFFICES ASSUME Init PROVE TypeInv
  OBVIOUS
<1>1. 1 \in 1..Life /\ 0 \in 0..(Life * Sec) /\ 0 \in 0..(Sec - 1)
  <2>1. Life * Sec \in Nat
    BY AccountsAssumption
  <2>2. QED
    BY <2>1, AccountsAssumption
<1>2. TypeOK
  BY <1>1, AccountsAssumption DEF Init, TypeOK, Stages, Jobs, Account, Roles, Row
<1>3. RequestsWellFormed
  BY DEF Init, RequestsWellFormed, WellFormed, Creating, Auditing
<1>4. HoldersExist
  BY AccountsAssumption DEF Init, HoldersExist
<1>5. QED
  BY <1>2, <1>3, <1>4 DEF TypeInv, Typed

\* What PATCH /users/me does to the table.
LEMMA UpdateFacts ==
    ASSUME TypeInv, NEW p \in Procs, NEW r \in Roles, NEW w \in Passwords \cup {"own"},
           UpdateMe(p, r, w)
    PROVE  \E u \in Users, n \in Account :
             /\ account[u] # Nothing
             /\ Holders(n.email) \subseteq {u}
             /\ account' = [account EXCEPT ![u] = n]
             /\ changed' = IF n.email = account[u].email /\ n.pw = account[u].pw
                             THEN changed ELSE changed \cup {u}
             /\ End(p)
             /\ UNCHANGED <<tokens, redis, audit, drawn, handed, welcomed>>
<1> DEFINE u == holder[tok[p]]
           e == IF email[p] = Nothing THEN account[u].email ELSE email[p]
           n == [email |-> e, pw |-> w, role |-> r]
<1>1. u \in Users /\ account[u] # Nothing
  BY DEF UpdateMe, RequestsWellFormed, WellFormed, TypeInv, Typed, HoldersExist
<1>2. account[u] \in Account
  BY <1>1 DEF TypeInv, Typed, TypeOK
<1>3. e \in Emails
  BY <1>2 DEF TypeInv, Typed, TypeOK, Account
<1>4. n \in Account
  BY <1>3 DEF Account
<1>5. /\ Holders(n.email) \subseteq {u}
      /\ account' = [account EXCEPT ![u] = n]
      /\ changed' = IF n.email = account[u].email /\ n.pw = account[u].pw
                      THEN changed ELSE changed \cup {u}
      /\ End(p)
      /\ UNCHANGED <<tokens, redis, audit, drawn, handed, welcomed>>
  BY DEF UpdateMe
<1>6. QED
  BY <1>1, <1>4, <1>5

\* Every variable keeps its type, and every request what it carries.
LEMMA TypedStep == TypeInv /\ [Next]_vars => Typed'
<1> SUFFICES ASSUME TypeInv, [Next]_vars PROVE Typed'
  OBVIOUS
<1> USE AccountsAssumption DEF tokens, redis, database, told, request, Typed
<1>0. TypeOK /\ RequestsWellFormed
  BY DEF TypeInv
<1>1. ASSUME NEW p \in Procs, NEW t \in Tokens, Me(p, t) PROVE Typed'
  <2>1. "list" \in Stages /\ "account" \in Stages /\ "me" \in Jobs
    BY DEF Stages, Jobs
  <2>2. WellFormed(p)'
    BY <1>0, <1>1 DEF Me, Begin, Go, TypeOK, WellFormed, Creating, Auditing
  <2>3. QED
    BY <1>0, <1>1, <2>1, <2>2, BeginTypes DEF Me, TypeInv, TypeOK
<1>2. ASSUME NEW p \in Procs, NEW t \in Tokens, Revoke(p, t) PROVE Typed'
  <2>1. "set" \in Stages /\ "revoke" \in Jobs
    BY DEF Stages, Jobs
  <2>2. WellFormed(p)'
    BY <1>0, <1>2 DEF Revoke, Begin, Go, TypeOK, WellFormed, Creating, Auditing
  <2>3. ttl' \in [Procs -> 1..Life]
    BY <1>0, <1>2, TtlFacts DEF Revoke, TypeOK
  <2>4. QED
    BY <1>0, <1>2, <2>1, <2>2, <2>3, BeginTypes DEF Revoke, TypeInv, TypeOK
<1>3. ASSUME NEW p \in Procs, NEW t \in UserTokens, NEW j \in Jobs,
             NEW e \in Emails \cup {Nothing}, Own(p, t, j, e),
             j = "invite" => e \in Emails
      PROVE  Typed'
  <2>1. "account" \in Stages /\ t \in Tokens
    BY DEF Stages, Tokens
  <2>2. WellFormed(p)'
    BY <1>0, <1>3, <2>1 DEF Own, Begin, Go, TypeOK, WellFormed, Creating, Auditing
  <2>3. QED
    BY <1>0, <1>3, <2>1, <2>2, BeginTypes DEF Own, TypeInv, TypeOK
<1>4. ASSUME NEW p \in Procs, NEW j \in Jobs, NEW e \in Emails, Form(p, j, e)
      PROVE  Typed'
  <2>1. "login" \in Stages /\ "lookup" \in Stages
    BY DEF Stages
  <2>2. WellFormed(p)'
    BY <1>0, <1>4 DEF Form, Begin, Go, TypeOK, WellFormed, Creating, Auditing
  <2>3. QED
    BY <1>0, <1>4, <2>1, <2>2, BeginTypes DEF Form, TypeInv, TypeOK
<1>5. ASSUME NEW t \in Tokens, NEW h \in Users \cup {"widget"}, Issue(t, h)
      PROVE  /\ phase' \in 0..(Sec - 1)
             /\ holder' \in [Tokens -> Users \cup {"widget", Nothing}]
             /\ left' \in [Tokens -> 0..(Life * Sec)]
             /\ \A u \in Tokens : holder[u] # Nothing => holder'[u] = holder[u]
  <2>1. Life * Sec - phase \in 0..(Life * Sec)
    <3>1. 1 * Sec <= Life * Sec /\ Life * Sec \in Nat
      BY Monotone
    <3>2. phase \in 0..(Sec - 1)
      BY <1>0 DEF TypeOK
    <3>3. QED
      BY <3>1, <3>2
  <2>2. QED
    BY <1>0, <1>5, <2>1 DEF Issue, TypeOK
<1>6. ASSUME NEW t \in WidgetTokens, MintSession(t) PROVE Typed'
  <2>1. t \in Tokens
    BY DEF Tokens
  <2>2. TypeOK'
    BY <1>0, <1>5, <1>6, <2>1 DEF MintSession, TypeOK
  <2>3. RequestsWellFormed'
    BY <1>0, <1>5, <1>6, <2>1, OthersWellFormed DEF MintSession, RequestsWellFormed
  <2>4. QED
    BY <2>2, <2>3 DEF TypeInv
<1>7. ASSUME NEW p \in Procs, NEW t \in UserTokens, LogIn(p, t) PROVE Typed'
  <2>1. PICK u \in Users : t \in Tokens /\ Issue(t, u)
    BY <1>7 DEF Tokens, LogIn, Holders
  <2>2. TypeOK'
    BY <1>0, <1>5, <1>7, <2>1, EndTypes DEF LogIn, TypeOK
  <2>3. RequestsWellFormed'
    BY <1>5, <1>7, <2>1, EndKeeps DEF LogIn
  <2>4. QED
    BY <2>2, <2>3 DEF TypeInv
<1>8. ASSUME NEW p \in Procs, BadLogin(p) \/ Leave(p) \/ Raises(p) PROVE Typed'
  <2>1. End(p) /\ UNCHANGED <<tokens, redis, database, told>>
    BY <1>8 DEF BadLogin, Leave, Raises
  <2>2. QED
    BY <1>0, <2>1, EndTypes, EndKeeps DEF TypeInv, TypeOK
<1>9. ASSUME NEW p \in Procs, ReadList(p) PROVE Typed'
  <2>1. CASE End(p)
    BY <1>0, <1>9, <2>1, EndTypes, EndKeeps DEF ReadList, TypeInv, TypeOK
  <2>2. CASE Go(p, "accepted") /\ UNCHANGED <<job, tok, email, pw, made, ttl>>
    <3>1. "accepted" \in Stages
      BY DEF Stages
    <3>2. WellFormed(p)'
      BY <1>0, <1>9, <2>2 DEF ReadList, Go, TypeOK, RequestsWellFormed, WellFormed, Creating, Auditing
    <3>3. QED
      BY <1>0, <1>9, <2>2, <3>1, <3>2, GoTypes DEF ReadList, TypeInv, TypeOK
  <2>3. QED
    BY <1>9, <2>1, <2>2 DEF ReadList
<1>10. ASSUME NEW p \in Procs, WriteList(p) \/ WriteListFails(p) PROVE Typed'
  <2>1. ttl[p] * Sec \in 0..(Life * Sec)
    BY <1>0, KeepFacts DEF TypeOK
  <2>2. keep' \in [Tokens -> 0..(Life * Sec)]
    BY <1>0, <1>10, <2>1 DEF WriteList, WriteListFails, TypeOK
  <2>3. acked' \subseteq Tokens
    BY <1>0, <1>10 DEF WriteList, WriteListFails, TypeOK, RequestsWellFormed, WellFormed
  <2>4. End(p) /\ UNCHANGED <<tokens, redisUp, database, told>>
    BY <1>10 DEF WriteList, WriteListFails
  <2>5. TypeOK'
    BY <1>0, <2>2, <2>3, <2>4, EndTypes DEF TypeOK
  <2>6. QED
    BY <2>4, <2>5, EndKeeps DEF TypeInv
<1>11. ASSUME NEW p \in Procs, ReadAccount(p) PROVE Typed'
  <2>1. CASE job[p] = "me" /\ Go(p, "accepted")
               /\ UNCHANGED <<job, tok, email, pw, made, ttl, drawn>>
    <3>1. "accepted" \in Stages
      BY DEF Stages
    <3>2. WellFormed(p)'
      BY <1>0, <1>11, <2>1
         DEF ReadAccount, Go, TypeOK, RequestsWellFormed, WellFormed, Creating, Auditing
    <3>3. QED
      BY <1>0, <1>11, <2>1, <3>1, <3>2, GoTypes DEF ReadAccount, TypeInv, TypeOK
  <2>2. ASSUME NEW w \in Passwords, pw' = [pw EXCEPT ![p] = w], drawn' = drawn \cup {w},
               Go(p, "lookup"), UNCHANGED <<job, tok, email, made, ttl>>, job[p] = "invite"
        PROVE  Typed'
    <3>1. /\ stage' \in [Procs -> Stages] /\ pw' \in [Procs -> Passwords \cup {"own"}]
          /\ stage'[p] = "lookup" /\ pw'[p] = w
          /\ \A q \in Procs \ {p} : stage'[q] = stage[q] /\ pw'[q] = pw[q]
      BY <1>0, <2>2 DEF TypeOK, Go, Stages
    <3>2. TypeOK'
      BY <1>0, <1>11, <2>2, <3>1 DEF ReadAccount, TypeOK
    <3>3. WellFormed(p)'
      BY <1>0, <1>11, <2>2, <3>1
         DEF ReadAccount, RequestsWellFormed, WellFormed, Creating, Auditing
    <3>4. ASSUME NEW q \in Procs, q # p PROVE WellFormed(q)'
      BY <1>11, <2>2, <3>1, <3>4, OthersWellFormed DEF ReadAccount
    <3>5. QED
      BY <3>2, <3>3, <3>4 DEF RequestsWellFormed
  <2>3. CASE End(p) /\ drawn' = drawn
    BY <1>0, <1>11, <2>3, EndTypes, EndKeeps DEF ReadAccount, TypeInv, TypeOK
  <2>4. ASSUME NEW e \in {email[p], Nothing}, email' = [email EXCEPT ![p] = e],
               job[p] = "update", Go(p, IF email'[p] = Nothing THEN "change" ELSE "taken"),
               UNCHANGED <<job, tok, pw, made, ttl, drawn>>
        PROVE  Typed'
    <3> DEFINE s == IF e = Nothing THEN "change" ELSE "taken"
    <3>1. /\ stage' \in [Procs -> Stages] /\ email' \in [Procs -> Emails \cup {Nothing}]
          /\ stage'[p] = s /\ email'[p] = e
          /\ \A q \in Procs \ {p} : stage'[q] = stage[q] /\ email'[q] = email[q]
      BY <1>0, <2>4 DEF TypeOK, Go, Stages
    <3>2. TypeOK'
      BY <1>0, <1>11, <2>4, <3>1 DEF ReadAccount, TypeOK
    <3>3. e # Nothing => e \in Emails
      BY <1>0 DEF TypeOK
    <3>4. WellFormed(p)'
      BY <1>0, <1>11, <2>4, <3>1, <3>3
         DEF ReadAccount, RequestsWellFormed, WellFormed, Creating, Auditing
    <3>5. ASSUME NEW q \in Procs, q # p PROVE WellFormed(q)'
      BY <1>11, <2>4, <3>1, <3>5, OthersWellFormed DEF ReadAccount
    <3>6. QED
      BY <3>2, <3>4, <3>5 DEF RequestsWellFormed
  <2>5. email = [email EXCEPT ![p] = email[p]]
    BY <1>0 DEF TypeOK
  <2>6. CASE job[p] = "update"
    BY <1>11, <2>4, <2>5, <2>6 DEF ReadAccount
  <2>7. QED
    BY <1>11, <2>1, <2>2, <2>3, <2>6 DEF ReadAccount
<1>12. ASSUME NEW p \in Procs, NEW r \in Roles, NEW w \in Passwords \cup {"own"},
              UpdateMe(p, r, w)
       PROVE  Typed'
  <2>1. account' \in [Users -> Account \cup {Nothing}] /\ changed' \subseteq Users
    BY <1>0, <1>12, UpdateFacts DEF TypeOK
  <2>2. End(p) /\ UNCHANGED <<tokens, redis, audit, drawn, handed, welcomed>>
    BY <1>12 DEF UpdateMe
  <2>3. QED
    BY <1>0, <2>1, <2>2, EndTypes, EndKeeps DEF TypeInv, TypeOK
<1>13. ASSUME NEW p \in Procs, LookUp(p) \/ Taken(p) PROVE Typed'
  <2>1. PICK from \in {"lookup", "taken"}, to \in {"insert", "change"} :
          /\ from = "lookup" <=> to = "insert"
          /\ AddressIsFree(p, from, to)
    BY <1>13 DEF LookUp, Taken
  <2>2. CASE Go(p, to) /\ UNCHANGED <<job, tok, email, pw, made, ttl>>
    <3>1. to \in Stages
      BY DEF Stages
    <3>2. WellFormed(p)'
      BY <1>0, <2>1, <2>2
         DEF AddressIsFree, Go, TypeOK, RequestsWellFormed, WellFormed, Creating, Auditing
    <3>3. QED
      BY <1>0, <2>1, <2>2, <3>1, <3>2, GoTypes DEF AddressIsFree, TypeInv, TypeOK
  <2>3. CASE End(p)
    BY <1>0, <2>1, <2>3, EndTypes, EndKeeps DEF AddressIsFree, TypeInv, TypeOK
  <2>4. QED
    BY <2>1, <2>2, <2>3 DEF AddressIsFree
<1>14. ASSUME NEW p \in Procs, NEW u \in Users, NEW r \in Roles, NEW a \in BOOLEAN,
              Insert(p, u, r, a)
       PROVE  Typed'
  <2>1. [email |-> email[p], pw |-> pw[p], role |-> r] \in Account
    BY <1>0, <1>14 DEF Account, TypeOK, Insert, RequestsWellFormed, WellFormed, Creating
  <2>2. account' \in [Users -> Account \cup {Nothing}]
    BY <1>0, <1>14, <2>1 DEF Insert, TypeOK
  <2>3. CASE End(p)
    BY <1>0, <1>14, <2>2, <2>3, EndTypes, EndKeeps DEF Insert, TypeInv, TypeOK
  <2>4. CASE Go(p, "audit_register") /\ made' = [made EXCEPT ![p] = u]
               /\ UNCHANGED <<job, tok, email, pw, ttl>>
    <3>1. /\ stage' \in [Procs -> Stages] /\ made' \in [Procs -> Users \cup {Nothing}]
          /\ stage'[p] = "audit_register" /\ made'[p] = u
          /\ \A q \in Procs \ {p} : stage'[q] = stage[q] /\ made'[q] = made[q]
      BY <1>0, <2>4 DEF TypeOK, Go, Stages
    <3>2. TypeOK'
      BY <1>0, <1>14, <2>2, <2>4, <3>1 DEF Insert, TypeOK
    <3>3. WellFormed(p)'
      BY <1>0, <1>14, <2>4, <3>1
         DEF Insert, RequestsWellFormed, WellFormed, Creating, Auditing
    <3>4. ASSUME NEW q \in Procs, q # p PROVE WellFormed(q)'
      BY <1>14, <2>4, <3>1, <3>4, OthersWellFormed DEF Insert
    <3>5. QED
      BY <3>2, <3>3, <3>4 DEF RequestsWellFormed
  <2>5. QED
    BY <1>14, <2>3, <2>4 DEF Insert
<1>15. ASSUME NEW p \in Procs, NEW a \in BOOLEAN, AuditRegister(p, a) PROVE Typed'
  <2>1. made[p] \in Users
    BY <1>0, <1>15 DEF AuditRegister, RequestsWellFormed, WellFormed, Auditing
  <2>2. audit' \subseteq Row /\ welcomed' \subseteq Users
    BY <1>0, <1>15, <2>1 DEF AuditRegister, Registration, TypeOK, Row
  <2>3. CASE End(p)
    BY <1>0, <1>15, <2>2, <2>3, EndTypes, EndKeeps DEF AuditRegister, TypeInv, TypeOK
  <2>4. CASE Go(p, "audit_invite") /\ UNCHANGED <<job, tok, email, pw, made, ttl>>
               /\ job[p] = "invite"
    <3>1. "audit_invite" \in Stages
      BY DEF Stages
    <3>2. WellFormed(p)'
      BY <1>0, <1>15, <2>4
         DEF AuditRegister, Go, TypeOK, RequestsWellFormed, WellFormed, Creating, Auditing
    <3>3. QED
      BY <1>0, <1>15, <2>2, <2>4, <3>1, <3>2, GoTypes DEF AuditRegister, TypeInv, TypeOK
  <2>5. QED
    BY <1>15, <2>3, <2>4 DEF AuditRegister
<1>16. ASSUME NEW p \in Procs, NEW a \in BOOLEAN, AuditInvite(p, a) PROVE Typed'
  <2>1. /\ email[p] \in Emails /\ pw[p] \in Passwords
        /\ holder[tok[p]] \in Users /\ made[p] \in Users
    BY <1>0, <1>16 DEF AuditInvite, RequestsWellFormed, WellFormed, Creating, Auditing
  <2>2. audit' \subseteq Row /\ handed' \in [Users -> Letter \cup {Nothing}]
    BY <1>0, <1>16, <2>1 DEF AuditInvite, TypeOK, Row, Letter
  <2>3. QED
    BY <1>0, <1>16, <2>2, EndTypes, EndKeeps DEF AuditInvite, TypeInv, TypeOK
<1>17. CASE Tick
  <2>1. ASSUME NEW n \in 0..(Life * Sec) PROVE Less(n) \in 0..(Life * Sec)
    BY DEF Less
  <2>2. phase' \in 0..(Sec - 1)
    BY <1>0, <1>17 DEF Tick, TypeOK
  <2>3. TypeOK'
    BY <1>0, <1>17, <2>1, <2>2 DEF Tick, TypeOK
  <2>4. RequestsWellFormed'
    BY <1>17, OthersWellFormed DEF Tick, RequestsWellFormed
  <2>5. QED
    BY <2>3, <2>4 DEF TypeInv
<1>18. CASE RedisTurns
  <2>1. RequestsWellFormed'
    BY <1>18, OthersWellFormed DEF RedisTurns, RequestsWellFormed
  <2>2. QED
    BY <1>0, <1>18, <2>1 DEF RedisTurns, TypeInv, TypeOK
<1>24. CASE RedisRestarts
  <2>1. RequestsWellFormed'
    BY <1>24, OthersWellFormed DEF RedisRestarts, RequestsWellFormed
  <2>2. 0 \in 0..(Life * Sec)
    BY Monotone
  <2>3. keep' \in [Tokens -> 0..(Life * Sec)] /\ acked' \subseteq Tokens
    BY <1>0, <1>24, <2>2 DEF RedisRestarts, TypeOK
  <2>4. QED
    BY <1>0, <1>24, <2>1, <2>3 DEF RedisRestarts, TypeOK
<1>19. CASE Crash
  <2>1. 1 \in 1..Life /\ "idle" \in Stages /\ "me" \in Jobs
    BY DEF Stages, Jobs
  <2>2. RequestsWellFormed'
    BY <1>19 DEF Crash, RequestsWellFormed, WellFormed, Creating, Auditing
  <2>3. QED
    BY <1>0, <1>19, <2>1, <2>2 DEF Crash, TypeInv, TypeOK
<1>20. CASE UNCHANGED vars
  <2>1. RequestsWellFormed'
    BY <1>20, OthersWellFormed DEF vars, RequestsWellFormed
  <2>2. QED
    BY <1>0, <1>20, <2>1 DEF vars, TypeInv, TypeOK
<1>21. ASSUME NEW p \in Procs, Arrive(p) PROVE Typed'
  <2>1. "invite" \in Jobs /\ "update" \in Jobs /\ "login" \in Jobs /\ "register" \in Jobs
    BY DEF Jobs
  <2>2. QED
    BY <1>1, <1>2, <1>3, <1>4, <1>21, <2>1 DEF Arrive
<1>22. ASSUME NEW p \in Procs, Step(p) PROVE Typed'
  BY <1>7, <1>8, <1>9, <1>10, <1>11, <1>12, <1>13, <1>14, <1>15, <1>16, <1>22 DEF Step
<1>23. QED
  BY <1>6, <1>17, <1>18, <1>19, <1>20, <1>21, <1>22, <1>24 DEF Next


\* Accounts stay, and a token is issued to one.
LEMMA HoldersStep == TypeInv /\ [Next]_vars => HoldersExist'
<1> SUFFICES ASSUME TypeInv, [Next]_vars PROVE HoldersExist'
  OBVIOUS
<1> USE AccountsAssumption DEF tokens, redis, database, told, request
<1>0. TypeOK /\ RequestsWellFormed /\ HoldersExist
  BY DEF TypeInv, Typed
<1>1. ASSUME \A u \in Users : account[u] # Nothing => account'[u] # Nothing,
             \A t \in Tokens : \/ holder'[t] = holder[t]
                               \/ holder'[t] \in Users => account[holder'[t]] # Nothing
      PROVE  HoldersExist'
  BY <1>0, <1>1 DEF HoldersExist
<1>2. ASSUME NEW p \in Procs, NEW t \in UserTokens, LogIn(p, t) PROVE HoldersExist'
  <2>1. PICK u \in Users : account[u] # Nothing /\ Issue(t, u)
    BY <1>2 DEF LogIn, Holders
  <2>2. QED
    BY <1>0, <1>1, <1>2, <2>1 DEF LogIn, Issue, TypeOK
<1>3. ASSUME NEW t \in WidgetTokens, MintSession(t) PROVE HoldersExist'
  BY <1>0, <1>1, <1>3 DEF MintSession, Issue, TypeOK
<1>4. ASSUME NEW p \in Procs, NEW r \in Roles, NEW w \in Passwords \cup {"own"},
             UpdateMe(p, r, w)
      PROVE  HoldersExist'
  <2>1. \A u \in Users : account[u] # Nothing => account'[u] # Nothing
    BY <1>0, <1>4, UpdateFacts DEF TypeOK
  <2>2. holder' = holder
    BY <1>4 DEF UpdateMe
  <2>3. QED
    BY <1>1, <2>1, <2>2
<1>5. ASSUME NEW p \in Procs, NEW u \in Users, NEW r \in Roles, NEW a \in BOOLEAN,
             Insert(p, u, r, a)
      PROVE  HoldersExist'
  <2>1. \A v \in Users : account[v] # Nothing => account'[v] = account[v]
    BY <1>0, <1>5 DEF Insert, Unused, TypeOK
  <2>2. QED
    BY <1>1, <1>5, <2>1 DEF Insert
<1>6. ASSUME UNCHANGED <<account, holder>> PROVE HoldersExist'
  BY <1>1, <1>6
<1>7. ASSUME NEW p \in Procs, Arrive(p) PROVE HoldersExist'
  BY <1>6, <1>7 DEF Arrive, Me, Revoke, Own, Form
<1>8. ASSUME NEW p \in Procs,
             \/ BadLogin(p) \/ ReadList(p) \/ WriteList(p) \/ WriteListFails(p)
             \/ ReadAccount(p) \/ LookUp(p) \/ Taken(p) \/ Raises(p) \/ Leave(p)
             \/ \E a \in BOOLEAN : AuditRegister(p, a) \/ AuditInvite(p, a)
      PROVE  HoldersExist'
  BY <1>6, <1>8 DEF BadLogin, ReadList, WriteList, WriteListFails, ReadAccount, LookUp,
                    Taken, AddressIsFree, Raises, Leave, AuditRegister, AuditInvite
<1>9. CASE Tick \/ RedisTurns \/ RedisRestarts \/ Crash \/ UNCHANGED vars
  BY <1>6, <1>9 DEF Tick, RedisTurns, RedisRestarts, Crash, vars
<1>10. ASSUME NEW p \in Procs, Step(p) PROVE HoldersExist'
  BY <1>2, <1>4, <1>5, <1>8, <1>10 DEF Step
<1>11. QED
  BY <1>3, <1>7, <1>9, <1>10 DEF Next

LEMMA TypeStep == TypeInv /\ [Next]_vars => TypeInv'
  BY TypedStep, HoldersStep DEF TypeInv

\* Every variable keeps its type, and every request knows at each await what
\* its next statement reads (current_principal, revoke, invite_user).
THEOREM TypesHold == Spec => [](TypeOK /\ RequestsWellFormed)
<1>1. TypeInv => TypeOK /\ RequestsWellFormed
  BY DEF TypeInv, Typed
<1>2. QED
  BY <1>1, TypeInit, TypeStep, PTL DEF Spec

-----------------------------------------------------------------------------
(* Revocation.                                                             *)

\* A step that neither writes the list nor lets time pass.
SameList ==
    /\ UNCHANGED <<keep, acked>>
    /\ \A t \in Tokens : holder[t] # Nothing => holder'[t] = holder[t] /\ left'[t] = left[t]
    /\ \A p \in Procs : stage'[p] = "set" =>
         \/ stage[p] = "set" /\ tok'[p] = tok[p] /\ ttl'[p] = ttl[p]
         \/ /\ tok'[p] \in Tokens /\ holder[tok'[p]] = "widget"
            /\ left[tok'[p]] < ttl'[p] * Sec + Sec

LEMMA SameListKeeps ==
    ASSUME TypeInv, TokenInv, SameList PROVE TokenInv'
<1> USE AccountsAssumption
<1>1. \A t \in acked : t \in Tokens /\ holder[t] = "widget" /\ holder'[t] = "widget"
                        /\ left'[t] = left[t]
  BY DEF TypeInv, Typed, TypeOK, TokenInv, AckedAreIssued, SameList
<1>2. RevocationOutlivesToken' /\ AckedAreIssued'
  BY <1>1 DEF TokenInv, SameList, RevocationOutlivesToken, AckedAreIssued
<1>3. RevokingSuffices'
  BY DEF TypeInv, Typed, RequestsWellFormed, WellFormed, TokenInv, SameList, RevokingSuffices
<1>4. QED
  BY <1>2, <1>3 DEF TokenInv

LEMMA TokenStep == TypeInv /\ TokenInv /\ [Next]_vars => TokenInv'
<1> SUFFICES ASSUME TypeInv, TokenInv, [Next]_vars PROVE TokenInv'
  OBVIOUS
<1> USE AccountsAssumption DEF tokens, redis, database, told, request
<1>0. TypeOK /\ RequestsWellFormed
  BY DEF TypeInv, Typed
<1>1. ASSUME NEW p \in Procs, Arrive(p) PROVE TokenInv'
  <2>1. ASSUME NEW t \in Tokens, Revoke(p, t) PROVE SameList
    <3>1. left[t] < RevokeTtl(left[t]) * Sec + Sec
      BY <1>0, TtlFacts DEF TypeOK
    <3>2. QED
      BY <1>0, <2>1, <3>1 DEF Revoke, Begin, Go, SameList, TypeOK
  <2>2. ASSUME NEW t \in Tokens, Me(p, t) PROVE SameList
    BY <1>0, <2>2 DEF Me, Begin, Go, SameList, TypeOK
  <2>3. ASSUME NEW t \in UserTokens, NEW j \in {"invite", "update"},
               NEW e \in Emails \cup {Nothing}, Own(p, t, j, e)
        PROVE  SameList
    BY <1>0, <2>3 DEF Own, Begin, Go, SameList, TypeOK
  <2>4. ASSUME NEW j \in {"login", "register"}, NEW e \in Emails, Form(p, j, e)
        PROVE  SameList
    BY <1>0, <2>4 DEF Form, Begin, Go, SameList, TypeOK
  <2>5. SameList
    BY <1>1, <2>1, <2>2, <2>3, <2>4 DEF Arrive
  <2>6. QED
    BY <2>5, SameListKeeps
<1>2. ASSUME NEW t \in Tokens, NEW h \in Users \cup {"widget"}, Issue(t, h)
      PROVE  \A u \in Tokens : holder[u] # Nothing =>
                holder'[u] = holder[u] /\ left'[u] = left[u]
  BY <1>0, <1>2 DEF Issue, TypeOK
<1>3. ASSUME NEW t \in WidgetTokens, MintSession(t) PROVE TokenInv'
  <2>1. t \in Tokens
    BY DEF Tokens
  <2>2. SameList
    BY <1>2, <1>3, <2>1 DEF MintSession, SameList
  <2>3. QED
    BY <2>2, SameListKeeps
<1>4. ASSUME NEW p \in Procs, NEW t \in UserTokens, LogIn(p, t) PROVE TokenInv'
  <2>1. PICK u \in Users : t \in Tokens /\ Issue(t, u)
    BY <1>4 DEF Tokens, LogIn, Holders
  <2>2. SameList
    BY <1>0, <1>2, <1>4, <2>1 DEF LogIn, End, Go, SameList, TypeOK
  <2>3. QED
    BY <2>2, SameListKeeps
<1>5. ASSUME NEW p \in Procs, WriteList(p) \/ WriteListFails(p) PROVE TokenInv'
  <2> DEFINE t == tok[p]
  <2>1. t \in Tokens /\ holder[t] = "widget" /\ left[t] < ttl[p] * Sec + Sec
    BY <1>0, <1>5 DEF WriteList, WriteListFails, RequestsWellFormed, WellFormed,
                      TokenInv, RevokingSuffices
  <2>2. /\ keep' = keep \/ keep' = [keep EXCEPT ![t] = ttl[p] * Sec]
        /\ acked' = acked \/ (acked' = acked \cup {t}
                               /\ keep' = [keep EXCEPT ![t] = ttl[p] * Sec])
        /\ End(p) /\ UNCHANGED <<holder, left>>
    BY <1>5 DEF WriteList, WriteListFails
  <2>3. AckedAreIssued'
    BY <2>1, <2>2 DEF TokenInv, AckedAreIssued
  <2>4. RevocationOutlivesToken'
    BY <1>0, <2>1, <2>2 DEF TokenInv, RevocationOutlivesToken, TypeOK
  <2>5. RevokingSuffices'
    BY <2>2, EndTypes DEF TokenInv, RevokingSuffices
  <2>6. QED
    BY <2>3, <2>4, <2>5 DEF TokenInv
<1>6. ASSUME NEW p \in Procs,
             \/ BadLogin(p) \/ Leave(p) \/ Raises(p) \/ ReadList(p) \/ ReadAccount(p)
             \/ LookUp(p) \/ Taken(p)
             \/ \E r \in Roles, w \in Passwords \cup {"own"} : UpdateMe(p, r, w)
             \/ \E u \in Users, r \in Roles, a \in BOOLEAN : Insert(p, u, r, a)
             \/ \E a \in BOOLEAN : AuditRegister(p, a) \/ AuditInvite(p, a)
      PROVE  TokenInv'
  <2>1. UNCHANGED <<keep, acked, holder, left>>
    BY <1>6 DEF BadLogin, Leave, Raises, ReadList, ReadAccount, LookUp, Taken,
                AddressIsFree, UpdateMe, Insert, AuditRegister, AuditInvite
  <2>2. \E s \in Stages \ {"set"} : Go(p, s) /\ (End(p) \/ UNCHANGED <<tok, ttl>>)
    BY <1>6 DEF BadLogin, Leave, Raises, ReadList, ReadAccount, LookUp, Taken,
                AddressIsFree, UpdateMe, Insert, AuditRegister, AuditInvite, End, Stages
  <2>3. SameList
    BY <1>0, <2>1, <2>2 DEF Go, End, SameList, TypeOK
  <2>4. QED
    BY <2>3, SameListKeeps
<1>7. CASE Tick
  <2>1. \A t \in Tokens : /\ left[t] \in Nat /\ keep[t] \in Nat
                          /\ left'[t] = Less(left[t]) /\ keep'[t] = Less(keep[t])
    BY <1>0, <1>7 DEF Tick, TypeOK
  <2>2. acked \subseteq Tokens /\ acked' = acked /\ holder' = holder
    BY <1>0, <1>7 DEF Tick, TypeOK
  <2>3. RevocationOutlivesToken'
    <3>1. ASSUME NEW t \in acked PROVE left'[t] < keep'[t] + Sec
      <4>1. left[t] < keep[t] + Sec
        BY <3>1 DEF TokenInv, RevocationOutlivesToken
      <4>2. QED
        BY <2>1, <2>2, <3>1, <4>1 DEF Less
    <3>2. QED
      BY <2>2, <3>1 DEF RevocationOutlivesToken
  <2>4. RevokingSuffices'
    <3>1. ASSUME NEW p \in Procs, stage[p] = "set" PROVE left'[tok[p]] < ttl[p] * Sec + Sec
      <4>1. tok[p] \in Tokens /\ left[tok[p]] < ttl[p] * Sec + Sec /\ ttl[p] * Sec \in Nat
        BY <1>0, <3>1, KeepFacts
           DEF TypeOK, RequestsWellFormed, WellFormed, TokenInv, RevokingSuffices
      <4>2. QED
        BY <2>1, <4>1 DEF Less
    <3>2. QED
      BY <1>7, <3>1 DEF Tick, RevokingSuffices
  <2>5. QED
    BY <2>2, <2>3, <2>4 DEF TokenInv, AckedAreIssued
<1>8. CASE RedisTurns \/ UNCHANGED vars
  <2>1. UNCHANGED <<keep, acked, holder, left, stage, tok, ttl>>
    BY <1>8 DEF RedisTurns, vars
  <2>2. QED
    BY <2>1, SameListKeeps DEF SameList
<1>9. CASE Crash
  BY <1>9, SameListKeeps DEF Crash, SameList
<1>12. CASE RedisRestarts
  BY <1>12 DEF RedisRestarts, TokenInv, RevocationOutlivesToken, RevokingSuffices, AckedAreIssued
<1>10. ASSUME NEW p \in Procs, Step(p) PROVE TokenInv'
  BY <1>4, <1>5, <1>6, <1>10 DEF Step
<1>11. QED
  BY <1>1, <1>3, <1>7, <1>8, <1>9, <1>10, <1>12 DEF Next

LEMMA TokenInit == Init => TokenInv
  BY DEF Init, TokenInv, RevocationOutlivesToken, RevokingSuffices, AckedAreIssued

\* An acknowledged revocation is kept until less than a second before its token
\* expires (_revoke, RevokeTtl), for every clock, lifetime and overlap.
THEOREM RevocationHolds == Spec => [](TypeInv /\ RevocationOutlivesToken)
<1>1. TypeInv /\ TokenInv => TypeInv /\ RevocationOutlivesToken
  BY DEF TokenInv
<1>2. QED
  BY <1>1, TypeInit, TypeStep, TokenInit, TokenStep, PTL DEF Spec

\* The action behind RevokedStaysOut: the list refuses what it holds.
LEMMA AcceptedIsAlmostExpired ==
    ASSUME TypeInv, RevocationOutlivesToken, [Next]_vars, NEW p \in Procs,
           stage[p] = "list", stage'[p] = "accepted", redisUp, tok[p] \in acked
    PROVE  left[tok[p]] < Sec
<1> USE DEF TypeInv, Typed, TypeOK
<1>1. keep[tok[p]] \in Nat /\ left[tok[p]] < keep[tok[p]] + Sec /\ tok[p] \in Tokens
  BY AccountsAssumption DEF RevocationOutlivesToken
<1>2. ReadList(p)
  <2>1. \A q \in Procs : Arrive(q) => stage[q] = "idle" /\ \E s \in Stages : Go(q, s)
    BY DEF Arrive, Me, Revoke, Own, Form, Begin, Stages
  <2>2. ASSUME NEW q \in Procs, Step(q), ~ReadList(q)
        PROVE  stage[q] # "list" /\ \E s \in Stages : Go(q, s)
    <3>1. CASE (\E t \in UserTokens : LogIn(q, t)) \/ BadLogin(q) \/ WriteList(q)
                 \/ WriteListFails(q) \/ Raises(q) \/ Leave(q)
      BY <3>1 DEF LogIn, BadLogin, WriteList, WriteListFails, Raises, Leave, End, Stages
    <3>2. CASE ReadAccount(q) \/ LookUp(q) \/ Taken(q)
      BY <3>2 DEF ReadAccount, LookUp, Taken, AddressIsFree, End, Stages
    <3>3. CASE \E r \in Roles, w \in Passwords \cup {"own"} : UpdateMe(q, r, w)
      BY <3>3 DEF UpdateMe, End, Stages
    <3>4. CASE \E u \in Users, r \in Roles, a \in BOOLEAN : Insert(q, u, r, a)
      BY <3>4 DEF Insert, End, Stages
    <3>5. CASE \E a \in BOOLEAN : AuditRegister(q, a) \/ AuditInvite(q, a)
      BY <3>5 DEF AuditRegister, AuditInvite, End, Stages
    <3>6. QED
      BY <2>2, <3>1, <3>2, <3>3, <3>4, <3>5 DEF Step
  <2>3. \A q \in Procs : ReadList(q) => \E s \in Stages : Go(q, s)
    BY DEF ReadList, End, Stages
  <2>4. \A t \in WidgetTokens : MintSession(t) => stage' = stage
    BY DEF MintSession, request
  <2>5. (Tick \/ RedisTurns \/ RedisRestarts \/ UNCHANGED vars) => stage' = stage
    BY DEF Tick, RedisTurns, RedisRestarts, vars, request
  <2>6. Crash => stage'[p] = "idle"
    BY DEF Crash
  <2>7. \A q \in Procs, s \in Stages : Go(q, s) /\ q # p => stage'[p] = stage[p]
    BY DEF Go
  <2>8. stage'[p] # stage[p] /\ stage'[p] # "idle"
    OBVIOUS
  <2>9. PICK q \in Procs : Arrive(q) \/ Step(q)
    BY <2>4, <2>5, <2>6, <2>8 DEF Next
  <2>10. q = p
    BY <2>1, <2>2, <2>3, <2>7, <2>8, <2>9
  <2>11. QED
    BY <2>1, <2>2, <2>9, <2>10
<1>3. ~Revoked(tok[p])
  BY <1>2 DEF ReadList, End, Go
<1>4. keep[tok[p]] = 0
  BY <1>1, <1>3 DEF Revoked
<1>5. QED
  BY <1>1, <1>4, AccountsAssumption

\* Whatever was answered {revoked: true} is refused from then on, while Redis
\* answers, until the last fraction of a second of its life (_is_revoked).
THEOREM RevokedTokensStayOut == Spec => RevokedStaysOut
<1>1. TypeInv /\ RevocationOutlivesToken /\ [Next]_vars =>
        [\A p \in Procs :
          (stage[p] = "list" /\ stage'[p] = "accepted" /\ redisUp /\ tok[p] \in acked)
            => left[tok[p]] < Sec]_vars
  BY AcceptedIsAlmostExpired
<1>2. QED
  BY <1>1, RevocationHolds, PTL DEF Spec, RevokedStaysOut

-----------------------------------------------------------------------------
(* The trail and the passwords.                                            *)

\* users.email is UNIQUE.
AddressesApart ==
    \A u, v \in Users :
        account[u] # Nothing /\ account[v] # Nothing /\ account[u].email = account[v].email
            => u = v

\* What the audit stages found or did: the account exists, and is the invite's as
\* long as its owner left it alone.
Created(p) ==
    /\ stage[p] \in Auditing =>
         /\ account[made[p]] # Nothing
         /\ job[p] = "invite" /\ made[p] \notin changed =>
              account[made[p]].email = email[p] /\ account[made[p]].pw = pw[p]
    /\ stage[p] = "audit_invite" => Registered(made[p])

AllCreated == \A p \in Procs : Created(p)

HandedIsKept ==
    \A u \in Users :
        handed[u] # Nothing /\ u \notin changed =>
            /\ account[u] # Nothing
            /\ account[u].email = handed[u].email /\ account[u].pw = handed[u].pw

TrailInv == AddressesApart /\ AllCreated /\ HandedIsKept /\ AnswersAreAudited /\ TrailIsTrue

\* Accounts that stay, and stay as they were unless their owner changed them.
AccountsStay ==
    /\ changed \subseteq changed'
    /\ \A u \in Users : account[u] # Nothing =>
         /\ account'[u] # Nothing
         /\ u \notin changed' =>
              account'[u].email = account[u].email /\ account'[u].pw = account[u].pw

\* A step at which accounts stay or come, the trail only grows by true rows, and
\* no password is told.
SameTrail ==
    /\ audit \subseteq audit' /\ handed' = handed
    /\ AccountsStay /\ AddressesApart' /\ AllCreated'

LEMMA SameTrailKeeps ==
    ASSUME TypeInv, TrailInv, SameTrail,
           \A u \in welcomed' \ welcomed : Registered(u)',
           \A r \in audit' \ audit : r.action = "user_register" /\ r \in Row
                                       /\ account[r.target] # Nothing
    PROVE  TrailInv'
<1> USE AccountsAssumption DEF TypeInv, Typed, TypeOK, TrailInv
<1>1. AllCreated' /\ AddressesApart' /\ AccountsStay
  BY DEF SameTrail
<1>2. \A u \in Users : /\ Registered(u) => Registered(u)'
                       /\ InvitedBy(u) => InvitedBy(u)'
  BY DEF SameTrail, Registered, InvitedBy
<1>3. AnswersAreAudited'
  BY <1>2 DEF SameTrail, AnswersAreAudited
<1>4. TrailIsTrue'
  <2>1. ASSUME NEW r \in audit'
        PROVE  account'[r.target] # Nothing
                 /\ (r.action = "invite_user" => Registered(r.target)')
    <3>1. CASE r \in audit
      <4>1. r.target \in Users /\ account[r.target] # Nothing
              /\ (r.action = "invite_user" => Registered(r.target))
        BY <3>1 DEF TrailIsTrue, Row
      <4>2. QED
        BY <4>1, <1>1, <1>2 DEF AccountsStay
    <3>2. CASE r \notin audit
      BY <1>1, <2>1, <3>2 DEF AccountsStay, Row
    <3>3. QED
      BY <3>1, <3>2
  <2>2. QED
    BY <2>1 DEF TrailIsTrue
<1>5. HandedIsKept'
  BY <1>1 DEF SameTrail, AccountsStay, HandedIsKept
<1>6. QED
  BY <1>1, <1>3, <1>4, <1>5

\* A request that already audits is not disturbed by a step at which accounts and
\* trail only grow.
LEMMA OthersCreated ==
    ASSUME TypeInv, TrailInv, NEW q \in Procs, AccountsStay, audit \subseteq audit',
           stage'[q] = stage[q] /\ job'[q] = job[q] /\ email'[q] = email[q]
             /\ pw'[q] = pw[q] /\ made'[q] = made[q]
    PROVE  Created(q)'
<1>1. stage[q] \in Auditing => made[q] \in Users
  BY DEF TypeInv, Typed, RequestsWellFormed, WellFormed
<1>2. Created(q)
  BY DEF TrailInv, AllCreated
<1>3. Registered(made[q]) => Registered(made[q])'
  BY DEF Registered
<1>4. QED
  BY <1>1, <1>2, <1>3 DEF Created, AccountsStay, Auditing

\* A step of p that leaves accounts and trail alone, and p at no audit stage.
LEMMA ElsewhereKeeps ==
    ASSUME TypeInv, TrailInv, NEW p \in Procs,
           UNCHANGED <<account, audit, handed, welcomed, changed>>,
           stage'[p] \notin Auditing,
           \A q \in Procs \ {p} :
             stage'[q] = stage[q] /\ job'[q] = job[q] /\ email'[q] = email[q]
               /\ pw'[q] = pw[q] /\ made'[q] = made[q]
    PROVE  TrailInv'
<1>1. AccountsStay
  BY DEF AccountsStay
<1>2. Created(p)'
  BY DEF Created, Auditing
<1>3. \A q \in Procs : Created(q)'
  BY <1>1, <1>2, OthersCreated
<1>4. AddressesApart'
  BY DEF TrailInv, AddressesApart
<1>5. SameTrail
  BY <1>1, <1>3, <1>4 DEF SameTrail, AllCreated
<1>6. QED
  BY <1>5, SameTrailKeeps

LEMMA TrailStep == TypeInv /\ TrailInv /\ [Next]_vars => TrailInv'
<1> SUFFICES ASSUME TypeInv, TrailInv, [Next]_vars PROVE TrailInv'
  OBVIOUS
<1> USE AccountsAssumption DEF tokens, redis, database, told, request
<1>0. TypeOK /\ RequestsWellFormed
  BY DEF TypeInv, Typed
<1>1. ASSUME NEW p \in Procs, Arrive(p) PROVE TrailInv'
  <2>1. \E j \in Jobs, t \in Tokens \cup {Nothing}, e \in Emails \cup {Nothing} :
          Begin(p, j, t, e, "own")
    BY <1>1 DEF Arrive, Me, Revoke, Own, Form, Jobs, Tokens
  <2>2. \E s \in Stages \ Auditing : Go(p, s)
    BY <1>1 DEF Arrive, Me, Revoke, Own, Form, Stages, Auditing
  <2>3. UNCHANGED <<account, audit, handed, welcomed, changed>>
    BY <1>1 DEF Arrive, Me, Revoke, Own, Form
  <2>4. QED
    BY <1>0, <2>1, <2>2, <2>3, ElsewhereKeeps DEF Begin, Go, TypeOK
<1>2. ASSUME NEW p \in Procs, End(p),
             UNCHANGED <<account, audit, handed, welcomed, changed>>
      PROVE  TrailInv'
  BY <1>2, EndTypes, ElsewhereKeeps DEF Auditing
<1>3. ASSUME NEW p \in Procs,
             \/ BadLogin(p) \/ Leave(p) \/ Raises(p) \/ WriteList(p) \/ WriteListFails(p)
             \/ \E t \in UserTokens : LogIn(p, t)
      PROVE  TrailInv'
  <2>1. End(p) /\ UNCHANGED <<account, audit, handed, welcomed, changed>>
    BY <1>3 DEF BadLogin, Leave, Raises, WriteList, WriteListFails, LogIn
  <2>2. QED
    BY <1>2, <2>1
<1>4. ASSUME NEW p \in Procs, ReadList(p) \/ ReadAccount(p) \/ LookUp(p) \/ Taken(p)
      PROVE  TrailInv'
  <2>1. UNCHANGED <<account, audit, handed, welcomed, changed>>
    BY <1>4 DEF ReadList, ReadAccount, LookUp, Taken, AddressIsFree
  <2>2. \/ End(p)
        \/ /\ \E s \in Stages \ Auditing : Go(p, s)
           /\ UNCHANGED <<job, made>>
           /\ email' = email \/ email' = [email EXCEPT ![p] = Nothing]
           /\ pw' = pw \/ \E w \in Passwords : pw' = [pw EXCEPT ![p] = w]
    BY <1>4 DEF ReadList, ReadAccount, LookUp, Taken, AddressIsFree, Stages, Auditing
  <2>3. CASE End(p)
    BY <1>2, <2>1, <2>3
  <2>4. CASE ~End(p)
    BY <1>0, <2>1, <2>2, <2>4, ElsewhereKeeps DEF Go, TypeOK
  <2>5. QED
    BY <2>3, <2>4
<1>5. ASSUME NEW p \in Procs, NEW r \in Roles, NEW w \in Passwords \cup {"own"},
             UpdateMe(p, r, w)
      PROVE  TrailInv'
  <2>1. PICK u \in Users, n \in Account :
          /\ account[u] # Nothing
          /\ Holders(n.email) \subseteq {u}
          /\ account' = [account EXCEPT ![u] = n]
          /\ changed' = IF n.email = account[u].email /\ n.pw = account[u].pw
                          THEN changed ELSE changed \cup {u}
          /\ End(p)
          /\ UNCHANGED <<audit, handed, welcomed>>
    BY <1>5, UpdateFacts
  <2>2. account'[u] = n /\ n # Nothing /\ \A v \in Users \ {u} : account'[v] = account[v]
    BY <1>0, <2>1 DEF TypeOK
  <2>3. AccountsStay
    BY <2>1, <2>2 DEF AccountsStay
  <2>4. AddressesApart'
    BY <2>1, <2>2 DEF TrailInv, AddressesApart, Holders
  <2>5. \A q \in Procs : Created(q)'
    <3>1. Created(p)'
      BY <2>1, EndTypes DEF Created, Auditing
    <3>2. QED
      BY <2>1, <2>3, <3>1, EndTypes, OthersCreated
  <2>6. SameTrail
    BY <2>1, <2>3, <2>4, <2>5 DEF SameTrail, AllCreated
  <2>7. QED
    BY <2>1, <2>6, SameTrailKeeps
<1>6. ASSUME NEW p \in Procs, NEW u \in Users, NEW r \in Roles, NEW a \in BOOLEAN,
             Insert(p, u, r, a)
      PROVE  TrailInv'
  <2> DEFINE n == [email |-> email[p], pw |-> pw[p], role |-> r]
  <2>1. n # Nothing /\ email[p] \in Emails
    BY <1>0, <1>6 DEF Account, TypeOK, Insert, RequestsWellFormed, WellFormed, Creating
  <2>2. /\ account[u] = Nothing /\ Holders(email[p]) = {}
        /\ account' = [account EXCEPT ![u] = n]
        /\ UNCHANGED <<audit, handed, welcomed, changed>>
    BY <1>6 DEF Insert, Unused
  <2>3. account'[u] = n /\ \A v \in Users \ {u} : account'[v] = account[v]
    BY <1>0, <2>2 DEF TypeOK
  <2>4. AccountsStay
    BY <2>2, <2>3 DEF AccountsStay
  <2>5. AddressesApart'
    BY <2>2, <2>3 DEF TrailInv, AddressesApart, Holders
  <2>6. Created(p)'
    <3>1. CASE End(p)
      BY <3>1, EndTypes DEF Created, Auditing
    <3>2. CASE Go(p, "audit_register") /\ made' = [made EXCEPT ![p] = u]
                 /\ UNCHANGED <<job, tok, email, pw, ttl>>
      BY <1>0, <2>1, <2>3, <3>2 DEF Created, Auditing, Go, TypeOK
    <3>3. QED
      BY <1>6, <3>1, <3>2 DEF Insert
  <2>7. \A q \in Procs \ {p} :
          stage'[q] = stage[q] /\ job'[q] = job[q] /\ email'[q] = email[q]
            /\ pw'[q] = pw[q] /\ made'[q] = made[q]
    BY <1>0, <1>6, EndTypes DEF Insert, Go, TypeOK
  <2>8. \A q \in Procs : Created(q)'
    BY <2>2, <2>4, <2>6, <2>7, OthersCreated
  <2>9. SameTrail
    BY <2>2, <2>4, <2>5, <2>8 DEF SameTrail, AllCreated
  <2>10. QED
    BY <2>2, <2>9, SameTrailKeeps
<1>7. ASSUME NEW p \in Procs, NEW a \in BOOLEAN, AuditRegister(p, a) PROVE TrailInv'
  <2> DEFINE row == Registration(made[p])
  <2>1. made[p] \in Users
    BY <1>0, <1>7 DEF AuditRegister, RequestsWellFormed, WellFormed, Auditing
  <2>2. row \in Row /\ row.action = "user_register" /\ row.target = made[p]
    BY <2>1 DEF Registration, Row
  <2>3. /\ audit' = audit \cup {row} /\ UNCHANGED <<account, handed, changed>>
        /\ stage[p] = "audit_register"
    BY <1>7 DEF AuditRegister
  <2> HIDE DEF row
  <2>4. \A u \in Users : u = made[p] => Registered(u)'
    BY <2>2, <2>3 DEF Registered
  <2>5. Created(p)
    BY DEF TrailInv, AllCreated
  <2>6. account[made[p]] # Nothing
    BY <2>3, <2>5 DEF Created, Auditing
  <2>7. welcomed' \subseteq welcomed \cup {made[p]}
    BY <1>7 DEF AuditRegister
  <2>8. Created(p)'
    <3>1. CASE End(p)
      BY <3>1, EndTypes DEF Created, Auditing
    <3>2. CASE Go(p, "audit_invite") /\ UNCHANGED <<job, tok, email, pw, made, ttl>>
      <4>1. stage'[p] = "audit_invite"
        BY <1>0, <3>2 DEF Go, TypeOK
      <4>2. made' = made /\ Registered(made[p])'
        BY <2>1, <2>4, <3>2
      <4>3. QED
        BY <2>3, <2>5, <3>2, <4>1, <4>2 DEF Created, Auditing
    <3>3. QED
      BY <1>7, <3>1, <3>2 DEF AuditRegister
  <2>9. \A q \in Procs \ {p} :
          stage'[q] = stage[q] /\ job'[q] = job[q] /\ email'[q] = email[q]
            /\ pw'[q] = pw[q] /\ made'[q] = made[q]
    BY <1>0, <1>7, EndTypes DEF AuditRegister, Go, TypeOK
  <2>10. AccountsStay /\ AddressesApart'
    BY <2>3 DEF AccountsStay, TrailInv, AddressesApart
  <2>11. \A q \in Procs : Created(q)'
    BY <2>3, <2>8, <2>9, <2>10, OthersCreated
  <2>12. SameTrail
    BY <2>3, <2>10, <2>11 DEF SameTrail, AllCreated
  <2>13. \A u \in welcomed' \ welcomed : u = made[p]
    BY <2>7
  <2>14. \A u \in welcomed' \ welcomed : Registered(u)'
    BY <2>2, <2>3, <2>13 DEF Registered
  <2>15. QED
    BY <2>2, <2>3, <2>6, <2>12, <2>14, SameTrailKeeps
<1>8. ASSUME NEW p \in Procs, NEW a \in BOOLEAN, AuditInvite(p, a) PROVE TrailInv'
  <2> DEFINE row == [action |-> "invite_user", actor |-> holder[tok[p]],
                     target |-> made[p]]
             letter == [email |-> email[p], pw |-> pw[p]]
  <2>1. made[p] \in Users /\ email[p] \in Emails /\ pw[p] \in Passwords /\ job[p] = "invite"
    BY <1>0, <1>8 DEF AuditInvite, RequestsWellFormed, WellFormed, Creating, Auditing
  <2>2. /\ audit' = audit \cup {row} /\ UNCHANGED <<account, welcomed, changed>>
        /\ End(p) /\ stage[p] = "audit_invite"
        /\ handed' = handed \/ handed' = [handed EXCEPT ![made[p]] = letter]
    BY <1>8 DEF AuditInvite
  <2>3. /\ account[made[p]] # Nothing
        /\ made[p] \notin changed =>
             account[made[p]].email = letter.email /\ account[made[p]].pw = letter.pw
        /\ Registered(made[p])
    BY <2>1, <2>2 DEF TrailInv, AllCreated, Created, Auditing
  <2>4. \A u \in Users : /\ Registered(u) => Registered(u)'
                         /\ InvitedBy(u) => InvitedBy(u)'
                         /\ u = made[p] => InvitedBy(u)'
    <3>1. audit \subseteq audit' /\ row \in audit'
      BY <2>2
    <3>2. row.action = "invite_user" /\ row.target = made[p]
      OBVIOUS
    <3> HIDE DEF row
    <3>3. ASSUME NEW u \in Users
          PROVE  /\ Registered(u) => Registered(u)'
                 /\ InvitedBy(u) => InvitedBy(u)'
      BY <3>1 DEF Registered, InvitedBy
    <3>4. ASSUME NEW u \in Users, u = made[p]
          PROVE  InvitedBy(u)'
      BY <3>1, <3>2, <3>4 DEF InvitedBy
    <3>5. QED
      BY <3>3, <3>4
  <2>5. AccountsStay /\ AddressesApart'
    BY <2>2 DEF AccountsStay, TrailInv, AddressesApart
  <2>6. AllCreated'
    <3>1. Created(p)'
      BY <2>2, EndTypes DEF Created, Auditing
    <3>2. QED
      BY <2>2, <2>5, <3>1, EndTypes, OthersCreated DEF AllCreated
  <2>7. AnswersAreAudited'
    <3>1. ASSUME NEW u \in Users, handed'[u] # Nothing
          PROVE  Registered(u)' /\ InvitedBy(u)'
      <4>1. CASE u = made[p]
        BY <2>3, <2>4, <4>1
      <4>2. CASE u # made[p]
        <5>1. handed[u] # Nothing
          BY <1>0, <2>2, <3>1, <4>2 DEF TypeOK
        <5>2. QED
          BY <2>4, <5>1 DEF TrailInv, AnswersAreAudited
      <4>3. QED
        BY <4>1, <4>2
    <3>2. \A u \in welcomed' : Registered(u)'
      BY <1>0, <2>2, <2>4 DEF TypeOK, TrailInv, AnswersAreAudited
    <3>3. QED
      BY <3>1, <3>2 DEF AnswersAreAudited
  <2>8. TrailIsTrue'
    <3>1. ASSUME NEW r \in audit'
          PROVE  account'[r.target] # Nothing
                   /\ (r.action = "invite_user" => Registered(r.target)')
      <4>1. CASE r \in audit
        <5>1. r.target \in Users /\ account[r.target] # Nothing
                /\ (r.action = "invite_user" => Registered(r.target))
          BY <1>0, <4>1 DEF TypeOK, Row, TrailInv, TrailIsTrue
        <5>2. QED
          BY <2>2, <2>4, <5>1
      <4>2. CASE r = row
        BY <2>1, <2>2, <2>3, <2>4, <4>2
      <4>3. QED
        BY <2>2, <3>1, <4>1, <4>2
    <3>2. QED
      BY <3>1 DEF TrailIsTrue
  <2>9. HandedIsKept'
    <3>1. ASSUME NEW u \in Users, handed'[u] # Nothing, u \notin changed
          PROVE  /\ account[u] # Nothing
                 /\ account[u].email = handed'[u].email /\ account[u].pw = handed'[u].pw
      <4>1. CASE handed'[u] = handed[u]
        BY <3>1, <4>1 DEF TrailInv, HandedIsKept
      <4>2. CASE u = made[p] /\ handed'[u] = letter
        BY <2>3, <3>1, <4>2
      <4>3. QED
        BY <1>0, <2>1, <2>2, <4>1, <4>2 DEF TypeOK
    <3>2. QED
      BY <2>2, <3>1 DEF HandedIsKept
  <2>10. QED
    BY <2>5, <2>6, <2>7, <2>8, <2>9 DEF TrailInv
<1>9. ASSUME UNCHANGED <<account, audit, handed, welcomed, changed,
                         stage, job, email, pw, made>>
      PROVE  TrailInv'
  <2>1. AccountsStay /\ AddressesApart'
    BY <1>9 DEF AccountsStay, TrailInv, AddressesApart
  <2>2. \A q \in Procs : Created(q)'
    BY <1>9, <2>1, OthersCreated
  <2>3. QED
    BY <1>9, <2>1, <2>2, SameTrailKeeps DEF SameTrail, AllCreated
<1>10. CASE \/ Tick \/ RedisTurns \/ RedisRestarts \/ UNCHANGED vars
            \/ \E t \in WidgetTokens : MintSession(t)
  <2>1. UNCHANGED <<account, audit, handed, welcomed, changed, stage, job, email, pw, made>>
    BY <1>10 DEF Tick, RedisTurns, RedisRestarts, vars, MintSession
  <2>2. QED
    BY <1>9, <2>1
<1>11. CASE Crash
  <2>1. UNCHANGED <<account, audit, handed, welcomed, changed>>
    BY <1>11 DEF Crash
  <2>2. AccountsStay /\ AddressesApart'
    BY <2>1 DEF AccountsStay, TrailInv, AddressesApart
  <2>3. \A q \in Procs : Created(q)'
    BY <1>11 DEF Crash, Created, Auditing
  <2>4. QED
    BY <2>1, <2>2, <2>3, SameTrailKeeps DEF SameTrail, AllCreated
<1>12. ASSUME NEW p \in Procs, Step(p) PROVE TrailInv'
  BY <1>3, <1>4, <1>5, <1>6, <1>7, <1>8, <1>12 DEF Step
<1>13. QED
  BY <1>1, <1>10, <1>11, <1>12 DEF Next

LEMMA TrailInit == Init => TrailInv
<1> SUFFICES ASSUME Init PROVE TrailInv
  OBVIOUS
<1> USE AccountsAssumption DEF Init
<1>1. AllCreated /\ AddressesApart
  BY DEF AllCreated, Created, Auditing, AddressesApart
<1>2. AnswersAreAudited /\ HandedIsKept
  BY DEF AnswersAreAudited, HandedIsKept
<1>3. [email |-> RootEmail, pw |-> "own", role |-> "admin"] # Nothing
  BY DEF Account, Roles
<1>4. TrailIsTrue
  BY <1>3 DEF TrailIsTrue, Registered
<1>5. QED
  BY <1>1, <1>2, <1>4 DEF TrailInv

LEMMA TrailHolds == Spec => []TrailInv
  BY TypeInit, TypeStep, TrailInit, TrailStep, PTL DEF Spec

\* A 201 and a told password have their audit rows, whatever requests race, fail
\* or die with the process (on_after_register, invite_user).
THEOREM AnswersHaveRows == Spec => []AnswersAreAudited
<1>1. TrailInv => AnswersAreAudited
  BY DEF TrailInv
<1>2. QED
  BY <1>1, TrailHolds, PTL

\* The trail names accounts that exist, an invitation after its registration,
\* although each row is a transaction of its own (write_audit).
THEOREM TrailHoldsTrue == Spec => []TrailIsTrue
<1>1. TrailInv => TrailIsTrue
  BY DEF TrailInv
<1>2. QED
  BY <1>1, TrailHolds, PTL

\* The address and the password an answered invite told open the account it made,
\* and that one only, until its owner changes one of them, also when accounts move
\* to addresses and away from them (invite_user, PATCH /users/me, UNIQUE email).
THEOREM InvitesCanLogIn == Spec => []HandedPasswordWorks
<1>1. TrailInv => HandedPasswordWorks
  BY DEF TrailInv, AddressesApart, HandedIsKept, HandedPasswordWorks, Holders
<1>2. QED
  BY <1>1, TrailHolds, PTL

=============================================================================
