------------------------------- MODULE Access -------------------------------
(***************************************************************************)
(* Who is let in: administrators with a session (server/admin.go) and       *)
(* clients with an API key (authMiddleware in server/server.go).  Sessions  *)
(* live in a map of the process; nobody purges expired ones.  The password  *)
(* is read from data/admin_auth.json at each login.  Keys are rows of the   *)
(* database, listed, generated and deleted by id; an administrator deletes  *)
(* from a listing that may be old by then.                                 *)
(*                                                                         *)
(* A password is its version, 0 standing for a missing file; session tokens *)
(* and key secrets are random and never repeat.  Each handler here makes a  *)
(* single access to the map or the database, so it is one step.            *)
(***************************************************************************)
EXTENDS Naturals, FiniteSets

CONSTANTS
    Admins,         \* administrators, by what they have listed
    SessionTTL,     \* 24 hours
    MaxClock,       \* bound: the clock stops there
    MaxLogins,      \* bound: successful logins
    MaxKeys,        \* bound: keys ever generated
    MaxPasswords    \* bound: versions of the password

ASSUME AccessAssumption ==
    /\ {SessionTTL, MaxClock, MaxLogins, MaxKeys} \subseteq Nat
    /\ MaxPasswords \in Nat \ {0}

VARIABLES
    clock,
    password,       \* version of the password in the file, 0 without a file
    sessions,       \* sessions: token to expiry, 0 for no entry
    logins,         \* history: what became of each login
    keys,           \* client_keys: id to secret, 0 for no row
    lastKey,        \* secrets generated so far
    listed,         \* the rows each administrator has last listed
    revoked         \* history: secrets of the rows administrators meant to delete

accessVars == <<clock, password, sessions, logins, keys, lastKey, listed, revoked>>

-----------------------------------------------------------------------------
SessionToken == 1..MaxLogins
Secret == 1..MaxKeys
Row == [id : Secret, secret : Secret]

AccessTypeOK ==
    /\ clock \in 0..MaxClock
    /\ password \in 0..MaxPasswords
    /\ sessions \in [SessionToken -> 0..(MaxClock + SessionTTL)]
    /\ logins \in [SessionToken -> [at : 0..MaxClock, version : 0..MaxPasswords,
                                    state : {"none", "open", "ended"}]]
    /\ keys \in [Secret -> 0..MaxKeys]
    /\ lastKey \in 0..MaxKeys
    /\ listed \in [Admins -> SUBSET Row]
    /\ revoked \subseteq Secret

NoLogin == [at |-> 0, version |-> 0, state |-> "none"]

AccessInit ==
    /\ clock = 0 /\ password = 1
    /\ sessions = [t \in SessionToken |-> 0]
    /\ logins = [t \in SessionToken |-> NoLogin]
    /\ keys = [k \in Secret |-> 0] /\ lastKey = 0
    /\ listed = [a \in Admins |-> {}]
    /\ revoked = {}

-----------------------------------------------------------------------------
(* Sessions. *)

\* A variation: a session is taken for as long as it is in the map.
Admitted_listed(token) == sessions[token] # 0

\* adminAuthMiddleware, with the token in the cookie or in the Authorization header.
Admitted(token) == sessions[token] # 0 /\ clock < sessions[token]

\* A password other than the one in the file, or no file, is answered 401 or 503.
Login(version) ==
    /\ version = password /\ password # 0
    /\ \E token \in SessionToken :
         /\ logins[token].state = "none"
         /\ \A t \in SessionToken : t < token => logins[t].state # "none"
         /\ sessions' = [sessions EXCEPT ![token] = clock + SessionTTL]
         /\ logins' = [logins EXCEPT ![token] = [at |-> clock, version |-> version, state |-> "open"]]
    /\ UNCHANGED <<clock, password, keys, lastKey, listed, revoked>>

\* Only a token in the cookie is logged out.
Logout(token) ==
    /\ logins[token].state # "none"
    /\ sessions' = [sessions EXCEPT ![token] = 0]
    /\ logins' = [logins EXCEPT ![token].state = "ended"]
    /\ UNCHANGED <<clock, password, keys, lastKey, listed, revoked>>

Restart ==
    /\ sessions' = [t \in SessionToken |-> 0]
    /\ logins' = [t \in SessionToken |->
                    IF logins[t].state = "open" THEN [logins[t] EXCEPT !.state = "ended"] ELSE logins[t]]
    /\ UNCHANGED <<clock, password, keys, lastKey, listed, revoked>>

\* Somebody edits or removes the file.
EditPassword ==
    /\ \/ password = 0 /\ password' \in 1..MaxPasswords
       \/ password # 0 /\ password' \in {0, password + 1} \cap (0..MaxPasswords)
    /\ UNCHANGED <<clock, sessions, logins, keys, lastKey, listed, revoked>>

TimePasses ==
    /\ clock < MaxClock
    /\ clock' = clock + 1
    /\ UNCHANGED <<password, sessions, logins, keys, lastKey, listed, revoked>>

-----------------------------------------------------------------------------
(* Client keys. *)

\* A variation: without AUTOINCREMENT the id is one more than the largest in the table.
NextId_reused == CHOOSE id \in 1..(lastKey + 1) :
    /\ keys[id] = 0
    /\ \A other \in Secret : other >= id => keys[other] = 0
    /\ id > 1 => keys[id - 1] # 0

\* AUTOINCREMENT: an id is never given out again.
NextId == lastKey + 1

GenerateKey ==
    /\ \E token \in SessionToken : Admitted(token)
    /\ lastKey < MaxKeys
    /\ lastKey' = lastKey + 1
    /\ keys' = [keys EXCEPT ![NextId] = lastKey']
    /\ UNCHANGED <<clock, password, sessions, logins, listed, revoked>>

ListKeys(admin) ==
    /\ \E token \in SessionToken : Admitted(token)
    /\ listed' = [listed EXCEPT ![admin] =
                    {[id |-> id, secret |-> keys[id]] : id \in {k \in Secret : keys[k] # 0}}]
    /\ UNCHANGED <<clock, password, sessions, logins, keys, lastKey, revoked>>

\* DELETE by the id of a listed row; an error of the statement is answered as success.
DeleteKey(admin) ==
    /\ \E token \in SessionToken : Admitted(token)
    /\ \E row \in listed[admin] :
         /\ keys' \in {keys, [keys EXCEPT ![row.id] = 0]}
         /\ revoked' = revoked \cup {row.secret}
    /\ UNCHANGED <<clock, password, sessions, logins, lastKey, listed>>

\* A client's call, with a secret: without keys 500, with an unknown one 401.
Authorized(secret) == \E id \in Secret : keys[id] = secret

AccessNext ==
    \/ \E version \in 1..MaxPasswords : Login(version)
    \/ \E token \in SessionToken : Logout(token)
    \/ Restart \/ EditPassword \/ TimePasses
    \/ GenerateKey
    \/ \E admin \in Admins : ListKeys(admin) \/ DeleteKey(admin)

AccessSpec == AccessInit /\ [][AccessNext]_accessVars

-----------------------------------------------------------------------------
\* A token is let in exactly while its login is less than SessionTTL old, was not
\* logged out of, and was to this run of the process, whatever has happened to the
\* file since: no entry left in the map outlives its login, and none vanishes early.
AdmittedIsLogin ==
    \A token \in SessionToken :
        Admitted(token) <=>
            logins[token].state = "open" /\ clock < logins[token].at + SessionTTL

\* A key that was handed out opens the API until somebody deletes the row he saw it
\* in: however old the listing an id comes from, no other key goes in its place.
KeysLastUntilRevoked ==
    \A secret \in 1..lastKey : secret \notin revoked => Authorized(secret)
=============================================================================
