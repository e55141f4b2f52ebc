----------------------------- MODULE MCAccounts -----------------------------
(* Accounts on a small instance.  A widget session and its revocation never  *)
(* meet an account, so they are explored beside the administrator's alone.   *)
(* Without a session Redis has no say, time can only end a login token, and  *)
(* /api/me decides nothing: the first two rest, the third is called alone.   *)
(* Roles stay as they are, and one account changes its address or password.  *)
EXTENDS Accounts, FiniteSets, TLC

Symmetry == Permutations(Procs) \cup Permutations(Passwords) \cup Permutations(UserTokens)
              \cup Permutations(Users \ {Root}) \cup Permutations(Emails \ {RootEmail})

Anonymous == \E t \in WidgetTokens : holder'[t] # Nothing

MCNext ==
    /\ Next
    /\ IF Anonymous
         THEN /\ \A p \in Procs : job'[p] \in {"me", "revoke"}
              /\ account' = [u \in Users |-> IF u = Root THEN account[Root] ELSE Nothing]
              /\ changed' = {} /\ drawn' = {}
              /\ \A t \in UserTokens : holder'[t] = Nothing
         ELSE /\ \A p, q \in Procs :
                   stage'[p] # "idle" /\ job'[p] = "me" /\ q # p => stage'[q] = "idle"
              /\ \A u \in Users : account'[u] # Nothing =>
                   (account'[u].role = "admin" <=> u = Root)
              /\ Cardinality(changed') <= 1
              /\ UNCHANGED <<phase, redis>>

MCSpec == Init /\ [][MCNext]_vars

=============================================================================
