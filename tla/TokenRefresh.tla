---------------------------- MODULE TokenRefresh ----------------------------
(***************************************************************************)
(* The OAuth tokens of one account and the goroutines that refresh them: a  *)
(* chat request, the recovery worker's probe, a model sync.  Each reads the *)
(* account's row, and works with that copy: RefreshAndStore (upstream/      *)
(* jwt.go) asks the token endpoint when the access token has run out, and   *)
(* stores the pair it gets over whatever the row holds by then.             *)
(*                                                                         *)
(* The account begins with an import: a script posts token 1, as often as   *)
(* it sees no success, and the handler (server/admin.go) refreshes it and   *)
(* inserts a row.  Only the first row is followed; others are counted.      *)
(*                                                                         *)
(* The token endpoint is external.  It knows which refresh tokens are live; *)
(* one that is not is refused with invalid_grant.  Its policy is to replace *)
(* a refresh token whenever it is used, to send the same one again, or to   *)
(* leave it out of the reply.  Access tokens only count as still good or    *)
(* run out (the five minute buffer included).                              *)
(***************************************************************************)
EXTENDS Naturals, FiniteSets

CONSTANTS
    Users,          \* goroutines that use the account at once
    Syncs,          \* those of them that are model syncs
    Importers,      \* imports of the same token at once
    MaxRows,        \* bound: rows the imports insert
    MaxTokens       \* bound: refresh tokens the endpoint ever issues

ASSUME TokenAssumption ==
    /\ Syncs \subseteq Users
    /\ {MaxTokens, MaxRows} \subseteq Nat \ {0}

VARIABLES
    row,            \* the account: its token pair and auth_status
    rows,           \* rows inserted with the imported token's successors
    import,         \* what each import handler holds
    user,           \* what each goroutine holds
    live,           \* refresh tokens the endpoint accepts
    policy,         \* what the endpoint does about refresh tokens
    issued,         \* refresh tokens issued so far
    lost            \* history: a granted pair got lost, the session was ended, or a
                    \* reauthentication came without a refresh token

tokenVars == <<row, rows, import, user, live, policy, issued, lost>>

-----------------------------------------------------------------------------
\* 0 is the empty string.
Token == 0..MaxTokens

TokenTypeOK ==
    /\ row \in [fresh : BOOLEAN, refresh : Token, auth : {"none", "active", "reauthRequired"}]
    /\ rows \in 0..MaxRows
    /\ import \in [Importers -> [pc : {"idle", "insert"}, refresh : Token]]
    /\ user \in [Users -> [pc : {"idle", "read", "store", "denied"},
                           fresh : BOOLEAN, refresh : Token]]
    /\ live \subseteq 1..issued
    /\ issued \in Token
    /\ policy \in {"rotates", "repeats", "omits"}
    /\ lost \in BOOLEAN

Idle == [pc |-> "idle", fresh |-> FALSE, refresh |-> 1]

NoImport == [pc |-> "idle", refresh |-> 0]

TokenInit ==
    /\ row = [fresh |-> FALSE, refresh |-> 0, auth |-> "none"]
    /\ rows = 0
    /\ import = [i \in Importers |-> NoImport]
    /\ user = [u \in Users |-> Idle]
    /\ live = {1}
    /\ issued = 1
    /\ policy \in {"rotates", "repeats", "omits"}
    /\ lost = FALSE

-----------------------------------------------------------------------------
Return(u) == user' = [user EXCEPT ![u] = Idle]

\* GetHealthyAccountForModel, GetAccount or ListActiveAccounts.
ReadAccount(u) ==
    /\ user[u].pc = "idle"
    /\ row.auth = "active"
    /\ user' = [user EXCEPT ![u] = [pc |-> "read", fresh |-> row.fresh, refresh |-> row.refresh]]
    /\ UNCHANGED <<row, rows, import, live, issued, lost, policy>>

\* IsTokenExpired is false: nobody is asked.
UseAccess(u) ==
    /\ user[u].pc = "read"
    /\ user[u].fresh
    /\ Return(u)
    /\ UNCHANGED <<row, rows, import, live, issued, lost, policy>>

\* The endpoint grants a pair: under rotation the old token dies.
Grant(token, new) ==
    /\ token \in live
    /\ \/ policy = "rotates" /\ new = issued + 1 /\ live' = (live \ {token}) \cup {new}
       \/ policy = "repeats" /\ new = token /\ UNCHANGED live
       \/ policy = "omits" /\ new = 0 /\ UNCHANGED live
    /\ issued' = IF policy = "rotates" THEN new ELSE issued

RefreshGranted(u) ==
    /\ user[u].pc = "read"
    /\ ~user[u].fresh
    /\ \E new \in Token :
         /\ Grant(user[u].refresh, new)
         /\ \/ /\ user' = [user EXCEPT ![u] = [pc |-> "store", fresh |-> TRUE, refresh |-> new]]
               /\ UNCHANGED lost
            \/ Return(u) /\ lost' = TRUE      \* the reply never comes
    /\ UNCHANGED <<row, rows, import, policy>>

RefreshDenied(u) ==
    /\ user[u].pc = "read"
    /\ ~user[u].fresh
    /\ user[u].refresh \notin live
    /\ IF u \in Syncs THEN Return(u) ELSE user' = [user EXCEPT ![u].pc = "denied"]
    /\ UNCHANGED <<row, rows, import, live, issued, lost, policy>>

\* A variation: the refresh token that was sent is kept.
StoreTokens_kept(u) ==
    /\ user[u].pc = "store"
    /\ row' = [row EXCEPT !.fresh = TRUE, !.auth = "active"]
    /\ Return(u)
    /\ UNCHANGED <<rows, import, live, issued, lost, policy>>

\* UpdateAccountTokens; a failed write drops the pair.
StoreTokens(u) ==
    /\ user[u].pc = "store"
    /\ \/ /\ row' = [fresh |-> TRUE, refresh |-> user[u].refresh, auth |-> "active"]
          /\ UNCHANGED lost
       \/ UNCHANGED row /\ lost' = TRUE
    /\ Return(u)
    /\ UNCHANGED <<rows, import, live, issued, policy>>

\* SetAccountStatus(id, true, "reauthRequired"), for whatever the row now holds; an
\* error of the statement is dropped.
FlagAccount(u) ==
    /\ user[u].pc = "denied"
    /\ row' \in {row, [row EXCEPT !.auth = "reauthRequired"]}
    /\ Return(u)
    /\ UNCHANGED <<rows, import, live, issued, lost, policy>>

\* A variation: a refresh that failed in any way counts as denied.
RefreshFailed_flagged(u) ==
    /\ user[u].pc = "read"
    /\ ~user[u].fresh
    /\ IF u \in Syncs THEN Return(u) ELSE user' = [user EXCEPT ![u].pc = "denied"]
    /\ UNCHANGED <<row, rows, import, live, issued, lost, policy>>

\* Any other error: no reply, or one that is no JSON.
RefreshFailed(u) ==
    /\ user[u].pc = "read"
    /\ ~user[u].fresh
    /\ Return(u)
    /\ UNCHANGED <<row, rows, import, live, issued, lost, policy>>

-----------------------------------------------------------------------------
\* A variation: the token is taken as it was sent, the endpoint is not asked.
ImportGranted_unasked(i) ==
    /\ import[i].pc = "idle"
    /\ rows < MaxRows
    /\ import' = [import EXCEPT ![i] = [pc |-> "insert", refresh |-> 1]]
    /\ UNCHANGED <<row, rows, user, live, issued, lost, policy>>

\* POST /api/admin/accounts/import: the token is refreshed first.  A refusal is
\* answered 400, and changes nothing.
ImportGranted(i) ==
    /\ import[i].pc = "idle"
    /\ rows < MaxRows
    /\ \E new \in Token :
         /\ Grant(1, new)
         /\ \/ /\ import' = [import EXCEPT ![i] = [pc |-> "insert", refresh |-> new]]
               /\ UNCHANGED lost
            \/ UNCHANGED import /\ lost' = TRUE      \* the reply never comes
    /\ UNCHANGED <<row, rows, user, policy>>

\* The row is inserted, whoever else has an account with that token; a statement that
\* fails is answered 500, and the new pair is gone.
InsertAccount(i) ==
    /\ import[i].pc = "insert"
    /\ import' = [import EXCEPT ![i] = NoImport]
    /\ \/ /\ rows < MaxRows
          /\ rows' = rows + 1
          /\ row' = IF rows = 0
                    THEN [fresh |-> TRUE, refresh |-> import[i].refresh, auth |-> "active"]
                    ELSE row
          /\ UNCHANGED lost
       \/ UNCHANGED <<row, rows>> /\ lost' = TRUE
    /\ UNCHANGED <<user, live, issued, policy>>

-----------------------------------------------------------------------------
\* POST /api/admin/reauth stores the pair of a new device grant.  Only the access token
\* is required: where the body has no refresh token, the empty string takes the place
\* of the stored one, live or not.  A statement that fails is answered 500.
Reauth ==
    /\ rows > 0
    /\ issued < MaxTokens
    /\ issued' = issued + 1
    /\ live' = live \cup {issued'}
    /\ \/ /\ row' = [fresh |-> TRUE, refresh |-> issued', auth |-> "active"]
          /\ UNCHANGED lost
       \/ /\ row' = [fresh |-> TRUE, refresh |-> 0, auth |-> "active"]
          /\ lost' = TRUE
       \/ UNCHANGED <<row, lost>>
    /\ UNCHANGED <<rows, import, user, policy>>

AccessRunsOut ==
    /\ row.fresh
    /\ row' = [row EXCEPT !.fresh = FALSE]
    /\ UNCHANGED <<rows, import, user, live, issued, lost, policy>>

\* The account's owner ends the session.
Revoke ==
    /\ live # {}
    /\ live' = {}
    /\ lost' = TRUE
    /\ UNCHANGED <<row, rows, import, user, issued, policy>>

CrashUsers ==
    /\ user' = [u \in Users |-> Idle]
    /\ import' = [i \in Importers |-> NoImport]
    /\ lost' = \/ lost
               \/ \E u \in Users : user[u].pc = "store"
               \/ \E i \in Importers : import[i].pc = "insert"
    /\ UNCHANGED <<row, rows, live, issued, policy>>

TokenNext ==
    \/ \E u \in Users :
         \/ ReadAccount(u) \/ UseAccess(u) \/ RefreshGranted(u) \/ RefreshDenied(u)
         \/ RefreshFailed(u) \/ StoreTokens(u) \/ FlagAccount(u)
    \/ \E i \in Importers : ImportGranted(i) \/ InsertAccount(i)
    \/ Reauth \/ AccessRunsOut \/ Revoke \/ CrashUsers

TokenSpec == TokenInit /\ [][TokenNext]_tokenVars

-----------------------------------------------------------------------------
\* However many goroutines import and refresh the account, a usable refresh token is
\* only lost with a reply, a write, a crash, or a reauthentication that brings none
\* (admin.go:275): the row holds a live one, or somebody is about to store one, or the
\* script still has the one it imports.  Of several goroutines that send the same token
\* only one is granted a new one, and no other overwrites it.  (An endpoint that leaves the token out of its reply does have it
\* overwritten, with the empty string: jwt.go:114.)
LiveTokenKept ==
    ~lost /\ policy # "omits" =>
        \/ row.refresh \in live
        \/ \E u \in Users : user[u].pc = "store" /\ user[u].refresh \in live
        \/ rows = 0 /\ 1 \in live
        \/ rows = 0 /\ \E i \in Importers :
                         import[i].pc = "insert" /\ import[i].refresh \in live

\* However often a script repeats an import, because the reply was late or the insert
\* failed, a token that can be used once makes one account at most.  (One that can be
\* used again makes an account each time: nothing compares it with those in the table.)
ImportedOnce == policy = "rotates" => rows =< 1

\* As long as one goroutine at a time works with the account, and no token is
\* replaced under it, an account is flagged only if its stored token is dead,
\* whatever replies and writes are lost.
Overlap ==
    \E u \in Users :
        /\ user[u].pc # "idle"
        /\ \/ \E v \in Users \ {u} : user[v].pc # "idle"
           \/ user[u].pc # "store" /\ user[u].refresh # row.refresh

FlaggedMeansDead ==
    []~Overlap => [](row.auth = "reauthRequired" => row.refresh \notin live)

\* server.go:166 "Check if this is a permanent refresh failure (invalid_grant
\* etc)": an account that was flagged could not be refreshed any more, even if
\* nothing was lost.
FlaggedIsPermanent ==
    ~lost /\ policy # "omits" /\ row.auth = "reauthRequired" => row.refresh \notin live
=============================================================================
