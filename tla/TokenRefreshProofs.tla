------------------------- MODULE TokenRefreshProofs -------------------------
(***************************************************************************)
(* Proofs about TokenRefresh, for any number of goroutines and imports.     *)
(*                                                                         *)
(* The safety properties follow from one inductive invariant.  Under        *)
(* rotation it says that a token in flight, granted but not stored yet, is  *)
(* in one hand only: nobody else is about to send it, for sending it would  *)
(* kill it, and the row does not hold it, for it would be read from there.  *)
(***************************************************************************)
EXTENDS TokenRefresh, TLAPS

\* The hands a granted token can be in.
Storing(u) == user[u].pc = "store"
Inserting(i) == import[i].pc = "insert"

\* Every token anywhere has been issued, and the first one was from the start.
Issued ==
    /\ 1 =< issued
    /\ row.refresh =< issued
    /\ \A u \in Users : user[u].refresh =< issued
    /\ \A i \in Importers : import[i].refresh =< issued

\* The imported token is spent by the first import that is granted.
SpentOnce ==
    /\ rows =< 1
    /\ 1 \in live => rows = 0 /\ \A i \in Importers : ~Inserting(i)
    /\ \A i \in Importers : Inserting(i) => rows = 0
    /\ \A i, j \in Importers : Inserting(i) /\ Inserting(j) => i = j

\* A token in flight is new, no empty string, and in one hand.
InFlight ==
    /\ \A u \in Users : Storing(u) =>
         /\ user[u].refresh > 1
         /\ user[u].refresh # row.refresh
         /\ \A v \in Users \ {u} :
              user[v].pc \in {"read", "store"} => user[v].refresh # user[u].refresh
    /\ \A i \in Importers : Inserting(i) =>
         /\ import[i].refresh > 1
         /\ import[i].refresh # row.refresh
         /\ \A v \in Users :
              user[v].pc \in {"read", "store"} => user[v].refresh # import[i].refresh

\* A token in flight is live, as long as nobody ended the session.
FlightIsLive ==
    /\ \A u \in Users : Storing(u) => user[u].refresh \in live
    /\ \A i \in Importers : Inserting(i) => import[i].refresh \in live

TokenInv ==
    /\ TokenTypeOK
    /\ Issued
    /\ policy = "rotates" => SpentOnce /\ InFlight
    /\ policy # "omits" /\ ~lost => FlightIsLive
    /\ LiveTokenKept

-----------------------------------------------------------------------------

\* Idle is a state of a goroutine.
LEMMA ReturnTyped ==
    ASSUME TokenTypeOK, NEW u \in Users, Return(u)
    PROVE  user' \in [Users -> [pc : {"idle", "read", "store", "denied"}, fresh : BOOLEAN, refresh : Token]]
<1>1. Idle \in [pc : {"idle", "read", "store", "denied"}, fresh : BOOLEAN, refresh : Token]
  BY TokenAssumption DEF Idle, Token
<1>. QED  BY <1>1 DEF TokenTypeOK, Return

\* The endpoint issues what it makes live.
LEMMA GrantTyped ==
    ASSUME TokenTypeOK, NEW token, NEW new \in Token, Grant(token, new)
    PROVE  live' \subseteq 1..issued' /\ issued' \in Token
<1>1. MaxTokens \in Nat /\ issued \in Nat /\ new \in Nat
  BY TokenAssumption DEF TokenTypeOK, Token
<1>2. CASE issued' = issued /\ live' = live
  BY <1>2 DEF TokenTypeOK
<1>3. CASE new = issued + 1 /\ live' = (live \ {token}) \cup {new} /\ issued' = new
  <2>1. \A n \in live : n \in Nat /\ 1 =< n /\ n =< issued
    BY <1>1 DEF TokenTypeOK
  <2>. QED  BY <1>1, <1>3, <2>1
<1>. QED  BY <1>2, <1>3 DEF Grant, TokenTypeOK

\* What is written to the row, and kept by those who are about to write it.
LEMMA PairTyped ==
    ASSUME NEW t \in Token
    PROVE  /\ [fresh |-> TRUE, refresh |-> t, auth |-> "active"]
                \in [fresh : BOOLEAN, refresh : Token, auth : {"none", "active", "reauthRequired"}]
           /\ [pc |-> "store", fresh |-> TRUE, refresh |-> t]
                \in [pc : {"idle", "read", "store", "denied"}, fresh : BOOLEAN, refresh : Token]
  BY Zenon

\* What every step leaves of the types.
LEMMA TypeNext ==
    ASSUME TokenTypeOK, [TokenNext]_tokenVars
    PROVE  TokenTypeOK'
<1>. USE DEF TokenTypeOK
<1>1. ASSUME NEW u \in Users, ReadAccount(u) PROVE TokenTypeOK'
  BY <1>1 DEF ReadAccount
<1>2. ASSUME NEW u \in Users, UseAccess(u) PROVE TokenTypeOK'
  BY <1>2, ReturnTyped DEF UseAccess
<1>3. ASSUME NEW u \in Users, RefreshGranted(u) PROVE TokenTypeOK'
  <2>1. PICK new \in Token :
            /\ Grant(user[u].refresh, new)
            /\ \/ /\ user' = [user EXCEPT ![u] = [pc |-> "store", fresh |-> TRUE, refresh |-> new]]
                  /\ UNCHANGED lost
               \/ Return(u) /\ lost' = TRUE
    BY <1>3 DEF RefreshGranted
  <2>2. live' \subseteq 1..issued' /\ issued' \in Token
    BY <2>1, GrantTyped
  <2>3. user' \in [Users -> [pc : {"idle", "read", "store", "denied"}, fresh : BOOLEAN, refresh : Token]]
    BY <2>1, ReturnTyped, PairTyped
  <2>. QED  BY <1>3, <2>1, <2>2, <2>3 DEF RefreshGranted
<1>4. ASSUME NEW u \in Users, RefreshDenied(u) PROVE TokenTypeOK'
  <2>1. user' \in [Users -> [pc : {"idle", "read", "store", "denied"}, fresh : BOOLEAN, refresh : Token]]
    <3>1. CASE Return(u)
      BY <3>1, ReturnTyped
    <3>2. CASE user' = [user EXCEPT ![u].pc = "denied"]
      BY <3>2
    <3>. QED  BY <1>4, <3>1, <3>2 DEF RefreshDenied
  <2>. QED  BY <1>4, <2>1 DEF RefreshDenied
<1>5. ASSUME NEW u \in Users, RefreshFailed(u) PROVE TokenTypeOK'
  BY <1>5, ReturnTyped DEF RefreshFailed
<1>6. ASSUME NEW u \in Users, StoreTokens(u) PROVE TokenTypeOK'
  <2>1. user[u].refresh \in Token
    OBVIOUS
  <2>2. row' \in [fresh : BOOLEAN, refresh : Token, auth : {"none", "active", "reauthRequired"}]
    BY <1>6, <2>1, PairTyped DEF StoreTokens
  <2>. QED  BY <1>6, <2>2, ReturnTyped DEF StoreTokens
<1>7. ASSUME NEW u \in Users, FlagAccount(u) PROVE TokenTypeOK'
  BY <1>7, ReturnTyped DEF FlagAccount
<1>8. ASSUME NEW i \in Importers, ImportGranted(i) PROVE TokenTypeOK'
  <2>1. PICK new \in Token :
            /\ Grant(1, new)
            /\ \/ /\ import' = [import EXCEPT ![i] = [pc |-> "insert", refresh |-> new]]
                  /\ UNCHANGED lost
               \/ UNCHANGED import /\ lost' = TRUE
    BY <1>8 DEF ImportGranted
  <2>2. live' \subseteq 1..issued' /\ issued' \in Token
    BY <2>1, GrantTyped
  <2>3. import' \in [Importers -> [pc : {"idle", "insert"}, refresh : Token]]
    BY <2>1
  <2>. QED  BY <1>8, <2>1, <2>2, <2>3 DEF ImportGranted
<1>9. ASSUME NEW i \in Importers, InsertAccount(i) PROVE TokenTypeOK'
  <2>1. import' \in [Importers -> [pc : {"idle", "insert"}, refresh : Token]]
    <3>1. NoImport \in [pc : {"idle", "insert"}, refresh : Token]
      BY TokenAssumption DEF NoImport, Token
    <3>. QED  BY <1>9, <3>1 DEF InsertAccount
  <2>2. import[i].refresh \in Token
    OBVIOUS
  <2>3. row' \in [fresh : BOOLEAN, refresh : Token, auth : {"none", "active", "reauthRequired"}]
    BY <1>9, <2>2, PairTyped DEF InsertAccount
  <2>4. rows' \in 0..MaxRows
    BY TokenAssumption, <1>9 DEF InsertAccount
  <2>. QED  BY <1>9, <2>1, <2>3, <2>4 DEF InsertAccount
<1>10. CASE Reauth
  <2>1. issued' \in Token /\ 0 \in Token /\ live' \subseteq 1..issued'
    BY TokenAssumption, <1>10 DEF Reauth, Token
  <2>2. row' \in [fresh : BOOLEAN, refresh : Token, auth : {"none", "active", "reauthRequired"}]
    BY <1>10, <2>1, PairTyped DEF Reauth
  <2>. QED  BY <1>10, <2>1, <2>2 DEF Reauth
<1>11. CASE AccessRunsOut
  BY <1>11 DEF AccessRunsOut
<1>12. CASE Revoke
  BY <1>12 DEF Revoke
<1>13. CASE CrashUsers
  BY TokenAssumption, <1>13 DEF CrashUsers, Idle, NoImport, Token
<1>14. CASE UNCHANGED tokenVars
  BY <1>14 DEF tokenVars
<1>. QED
  BY <1>1, <1>2, <1>3, <1>4, <1>5, <1>6, <1>7, <1>8, <1>9, <1>10, <1>11, <1>12, <1>13, <1>14 DEF TokenNext

\* No step makes up a token.
LEMMA IssuedNext ==
    ASSUME TokenTypeOK, Issued, [TokenNext]_tokenVars
    PROVE  Issued'
<1>. USE TokenAssumption DEF TokenTypeOK, Issued, Token, Idle, NoImport
<1>1. ASSUME NEW u \in Users, ReadAccount(u) PROVE Issued'
  BY <1>1 DEF ReadAccount
<1>2. ASSUME NEW u \in Users, UseAccess(u) PROVE Issued'
  BY <1>2 DEF UseAccess, Return
<1>3. ASSUME NEW u \in Users, RefreshGranted(u) PROVE Issued'
  BY <1>3 DEF RefreshGranted, Grant, Return
<1>4. ASSUME NEW u \in Users, RefreshDenied(u) PROVE Issued'
  BY <1>4 DEF RefreshDenied, Return
<1>5. ASSUME NEW u \in Users, RefreshFailed(u) PROVE Issued'
  BY <1>5 DEF RefreshFailed, Return
<1>6. ASSUME NEW u \in Users, StoreTokens(u) PROVE Issued'
  BY <1>6 DEF StoreTokens, Return
<1>7. ASSUME NEW u \in Users, FlagAccount(u) PROVE Issued'
  BY <1>7 DEF FlagAccount, Return
<1>8. ASSUME NEW i \in Importers, ImportGranted(i) PROVE Issued'
  <2>1. PICK new \in Token : /\ Grant(1, new)
                            /\ \/ import' = [import EXCEPT ![i] = [pc |-> "insert", refresh |-> new]]
                               \/ UNCHANGED import
    BY <1>8 DEF ImportGranted
  <2>2. new =< issued' /\ issued =< issued' /\ issued' \in Nat
    BY <2>1 DEF Grant
  <2>3. import'[i].refresh =< issued'
    BY <2>1, <2>2
  <2>. QED  BY <1>8, <2>1, <2>2, <2>3 DEF ImportGranted
<1>9. ASSUME NEW i \in Importers, InsertAccount(i) PROVE Issued'
  BY <1>9 DEF InsertAccount
<1>10. CASE Reauth
  BY <1>10 DEF Reauth
<1>11. CASE AccessRunsOut
  BY <1>11 DEF AccessRunsOut
<1>12. CASE Revoke
  BY <1>12 DEF Revoke
<1>13. CASE CrashUsers
  BY <1>13 DEF CrashUsers
<1>14. CASE UNCHANGED tokenVars
  BY <1>14 DEF tokenVars
<1>. QED
  BY <1>1, <1>2, <1>3, <1>4, <1>5, <1>6, <1>7, <1>8, <1>9, <1>10, <1>11, <1>12, <1>13, <1>14 DEF TokenNext

\* Only the first granted import gets past the endpoint.
LEMMA SpentNext ==
    ASSUME TokenTypeOK, Issued, policy = "rotates", SpentOnce, [TokenNext]_tokenVars
    PROVE  SpentOnce'
<1>. USE TokenAssumption DEF TokenTypeOK, Issued, SpentOnce, Inserting, Token, Idle, NoImport
<1>1. ASSUME NEW u \in Users, ReadAccount(u) PROVE SpentOnce'
  BY <1>1 DEF ReadAccount
<1>2. ASSUME NEW u \in Users, UseAccess(u) PROVE SpentOnce'
  BY <1>2 DEF UseAccess, Return
<1>3. ASSUME NEW u \in Users, RefreshGranted(u) PROVE SpentOnce'
  BY <1>3 DEF RefreshGranted, Grant, Return
<1>4. ASSUME NEW u \in Users, RefreshDenied(u) PROVE SpentOnce'
  BY <1>4 DEF RefreshDenied, Return
<1>5. ASSUME NEW u \in Users, RefreshFailed(u) PROVE SpentOnce'
  BY <1>5 DEF RefreshFailed, Return
<1>6. ASSUME NEW u \in Users, StoreTokens(u) PROVE SpentOnce'
  BY <1>6 DEF StoreTokens, Return
<1>7. ASSUME NEW u \in Users, FlagAccount(u) PROVE SpentOnce'
  BY <1>7 DEF FlagAccount, Return
<1>8. ASSUME NEW i \in Importers, ImportGranted(i) PROVE SpentOnce'
  BY <1>8 DEF ImportGranted, Grant
<1>9. ASSUME NEW i \in Importers, InsertAccount(i) PROVE SpentOnce'
  BY <1>9 DEF InsertAccount
<1>10. CASE Reauth
  BY <1>10 DEF Reauth
<1>11. CASE AccessRunsOut
  BY <1>11 DEF AccessRunsOut
<1>12. CASE Revoke
  BY <1>12 DEF Revoke
<1>13. CASE CrashUsers
  BY <1>13 DEF CrashUsers
<1>14. CASE UNCHANGED tokenVars
  BY <1>14 DEF tokenVars
<1>. QED
  BY <1>1, <1>2, <1>3, <1>4, <1>5, <1>6, <1>7, <1>8, <1>9, <1>10, <1>11, <1>12, <1>13, <1>14 DEF TokenNext

\* A token that is granted is new, and the row takes one that nobody else holds.
LEMMA InFlightNext ==
    ASSUME TokenTypeOK, TokenTypeOK', Issued, policy = "rotates", SpentOnce, InFlight, [TokenNext]_tokenVars
    PROVE  InFlight'
<1>. USE TokenAssumption DEF TokenTypeOK, Issued, SpentOnce, InFlight, Inserting, Storing, Token, Idle, NoImport
<1>1. ASSUME NEW u \in Users, ReadAccount(u) PROVE InFlight'
  BY <1>1 DEF ReadAccount
<1>2. ASSUME NEW u \in Users, UseAccess(u) PROVE InFlight'
  BY <1>2 DEF UseAccess, Return
<1>3. ASSUME NEW u \in Users, RefreshGranted(u) PROVE InFlight'
  BY <1>3 DEF RefreshGranted, Grant, Return
<1>4. ASSUME NEW u \in Users, RefreshDenied(u) PROVE InFlight'
  BY <1>4 DEF RefreshDenied, Return
<1>5. ASSUME NEW u \in Users, RefreshFailed(u) PROVE InFlight'
  BY <1>5 DEF RefreshFailed, Return
<1>6. ASSUME NEW u \in Users, StoreTokens(u) PROVE InFlight'
  BY <1>6 DEF StoreTokens, Return
<1>7. ASSUME NEW u \in Users, FlagAccount(u) PROVE InFlight'
  BY <1>7 DEF FlagAccount, Return
<1>8. ASSUME NEW i \in Importers, ImportGranted(i) PROVE InFlight'
  BY <1>8 DEF ImportGranted, Grant
<1>9. ASSUME NEW i \in Importers, InsertAccount(i) PROVE InFlight'
  BY <1>9 DEF InsertAccount
<1>10. CASE Reauth
  BY <1>10 DEF Reauth
<1>11. CASE AccessRunsOut
  BY <1>11 DEF AccessRunsOut
<1>12. CASE Revoke
  BY <1>12 DEF Revoke
<1>13. CASE CrashUsers
  BY <1>13 DEF CrashUsers
<1>14. CASE UNCHANGED tokenVars
  BY <1>14 DEF tokenVars
<1>. QED
  BY <1>1, <1>2, <1>3, <1>4, <1>5, <1>6, <1>7, <1>8, <1>9, <1>10, <1>11, <1>12, <1>13, <1>14 DEF TokenNext

\* Nothing but the end of the session kills a token in flight.
LEMMA FlightIsLiveNext ==
    ASSUME TokenTypeOK, TokenTypeOK', Issued, policy # "omits", ~lost', ~lost, FlightIsLive,
           policy = "rotates" => SpentOnce /\ InFlight, [TokenNext]_tokenVars
    PROVE  FlightIsLive'
<1>. USE TokenAssumption DEF TokenTypeOK, Issued, SpentOnce, InFlight, FlightIsLive, Inserting, Storing, Token, Idle, NoImport
<1>1. ASSUME NEW u \in Users, ReadAccount(u) PROVE FlightIsLive'
  BY <1>1 DEF ReadAccount
<1>2. ASSUME NEW u \in Users, UseAccess(u) PROVE FlightIsLive'
  BY <1>2 DEF UseAccess, Return
<1>3. ASSUME NEW u \in Users, RefreshGranted(u) PROVE FlightIsLive'
  BY <1>3 DEF RefreshGranted, Grant, Return
<1>4. ASSUME NEW u \in Users, RefreshDenied(u) PROVE FlightIsLive'
  BY <1>4 DEF RefreshDenied, Return
<1>5. ASSUME NEW u \in Users, RefreshFailed(u) PROVE FlightIsLive'
  BY <1>5 DEF RefreshFailed, Return
<1>6. ASSUME NEW u \in Users, StoreTokens(u) PROVE FlightIsLive'
  BY <1>6 DEF StoreTokens, Return
<1>7. ASSUME NEW u \in Users, FlagAccount(u) PROVE FlightIsLive'
  BY <1>7 DEF FlagAccount, Return
<1>8. ASSUME NEW i \in Importers, ImportGranted(i) PROVE FlightIsLive'
  BY <1>8 DEF ImportGranted, Grant
<1>9. ASSUME NEW i \in Importers, InsertAccount(i) PROVE FlightIsLive'
  BY <1>9 DEF InsertAccount
<1>10. CASE Reauth
  BY <1>10 DEF Reauth
<1>11. CASE AccessRunsOut
  BY <1>11 DEF AccessRunsOut
<1>12. CASE Revoke
  BY <1>12 DEF Revoke
<1>13. CASE CrashUsers
  BY <1>13 DEF CrashUsers
<1>14. CASE UNCHANGED tokenVars
  BY <1>14 DEF tokenVars
<1>. QED
  BY <1>1, <1>2, <1>3, <1>4, <1>5, <1>6, <1>7, <1>8, <1>9, <1>10, <1>11, <1>12, <1>13, <1>14 DEF TokenNext

\* Whoever kills the token in the row holds its successor.
LEMMA LiveTokenKeptNext ==
    ASSUME TokenTypeOK, TokenTypeOK', Issued, policy # "omits", ~lost', ~lost, FlightIsLive,
           policy = "rotates" => SpentOnce /\ InFlight, LiveTokenKept, [TokenNext]_tokenVars
    PROVE  LiveTokenKept'
<1>. USE TokenAssumption DEF TokenTypeOK, Issued, SpentOnce, InFlight, FlightIsLive, Inserting, Storing, LiveTokenKept, Token, Idle, NoImport
<1>1. ASSUME NEW u \in Users, ReadAccount(u) PROVE LiveTokenKept'
  BY <1>1 DEF ReadAccount
<1>2. ASSUME NEW u \in Users, UseAccess(u) PROVE LiveTokenKept'
  BY <1>2 DEF UseAccess, Return
<1>3. ASSUME NEW u \in Users, RefreshGranted(u) PROVE LiveTokenKept'
  BY <1>3 DEF RefreshGranted, Grant, Return
<1>4. ASSUME NEW u \in Users, RefreshDenied(u) PROVE LiveTokenKept'
  BY <1>4 DEF RefreshDenied, Return
<1>5. ASSUME NEW u \in Users, RefreshFailed(u) PROVE LiveTokenKept'
  BY <1>5 DEF RefreshFailed, Return
<1>6. ASSUME NEW u \in Users, StoreTokens(u) PROVE LiveTokenKept'
  BY <1>6 DEF StoreTokens, Return
<1>7. ASSUME NEW u \in Users, FlagAccount(u) PROVE LiveTokenKept'
  BY <1>7 DEF FlagAccount, Return
<1>8. ASSUME NEW i \in Importers, ImportGranted(i) PROVE LiveTokenKept'
  BY <1>8 DEF ImportGranted, Grant
<1>9. ASSUME NEW i \in Importers, InsertAccount(i) PROVE LiveTokenKept'
  BY <1>9 DEF InsertAccount
<1>10. CASE Reauth
  BY <1>10 DEF Reauth
<1>11. CASE AccessRunsOut
  BY <1>11 DEF AccessRunsOut
<1>12. CASE Revoke
  BY <1>12 DEF Revoke
<1>13. CASE CrashUsers
  BY <1>13 DEF CrashUsers
<1>14. CASE UNCHANGED tokenVars
  BY <1>14 DEF tokenVars
<1>. QED
  BY <1>1, <1>2, <1>3, <1>4, <1>5, <1>6, <1>7, <1>8, <1>9, <1>10, <1>11, <1>12, <1>13, <1>14 DEF TokenNext

\* The endpoint keeps its policy, and what is lost stays lost.
LEMMA LostStays ==
    ASSUME TokenTypeOK, [TokenNext]_tokenVars
    PROVE  policy' = policy /\ (lost => lost')
BY DEF TokenTypeOK, TokenNext, ReadAccount, UseAccess, RefreshGranted, RefreshDenied, RefreshFailed,
       StoreTokens, FlagAccount, ImportGranted, InsertAccount, Reauth, AccessRunsOut, Revoke,
       CrashUsers, tokenVars

LEMMA TokenInvInit == TokenInit => TokenInv
<1>. SUFFICES ASSUME TokenInit PROVE TokenInv
  OBVIOUS
<1>1. TokenTypeOK
  <2>1. 0 \in Token /\ 1 \in Token
    BY TokenAssumption DEF Token
  <2>2. /\ [fresh |-> FALSE, refresh |-> 0, auth |-> "none"]
              \in [fresh : BOOLEAN, refresh : Token, auth : {"none", "active", "reauthRequired"}]
        /\ Idle \in [pc : {"idle", "read", "store", "denied"}, fresh : BOOLEAN, refresh : Token]
        /\ NoImport \in [pc : {"idle", "insert"}, refresh : Token]
    BY <2>1, Zenon DEF Idle, NoImport
  <2>3. rows \in 0..MaxRows /\ live \subseteq 1..issued
    BY TokenAssumption DEF TokenInit
  <2>. QED  BY <2>1, <2>2, <2>3 DEF TokenTypeOK, TokenInit
<1>. USE TokenAssumption DEF TokenInit, Idle, NoImport, Token
<1>2. Issued
  BY DEF Issued
<1>3. SpentOnce /\ InFlight
  BY DEF SpentOnce, InFlight, Inserting, Storing
<1>4. FlightIsLive
  BY DEF FlightIsLive, Inserting, Storing
<1>5. LiveTokenKept
  BY DEF LiveTokenKept
<1>. QED  BY <1>1, <1>2, <1>3, <1>4, <1>5 DEF TokenInv

LEMMA TokenInvNext == TokenInv /\ [TokenNext]_tokenVars => TokenInv'
<1>. SUFFICES ASSUME TokenInv, [TokenNext]_tokenVars PROVE TokenInv'
  OBVIOUS
<1>1. TokenTypeOK /\ Issued
  BY DEF TokenInv
<1>2. TokenTypeOK' /\ Issued'
  BY <1>1, TypeNext, IssuedNext
<1>3. policy' = policy /\ (lost => lost')
  BY <1>1, LostStays
<1>4. policy' = "rotates" => SpentOnce' /\ InFlight'
  BY <1>1, <1>2, <1>3, SpentNext, InFlightNext DEF TokenInv
<1>5. policy' # "omits" /\ ~lost' => FlightIsLive' /\ LiveTokenKept'
  BY <1>1, <1>2, <1>3, FlightIsLiveNext, LiveTokenKeptNext DEF TokenInv
<1>6. LiveTokenKept'
  BY <1>5 DEF LiveTokenKept
<1>. QED  BY <1>2, <1>4, <1>5, <1>6 DEF TokenInv

LEMMA TokenInvariant == TokenSpec => []TokenInv
  BY TokenInvInit, TokenInvNext, PTL DEF TokenSpec

\* Every state of the model is well typed.
THEOREM TokenTypes == TokenSpec => []TokenTypeOK
<1>1. TokenInv => TokenTypeOK
  BY DEF TokenInv
<1>. QED  BY <1>1, TokenInvariant, PTL

\* However many goroutines and imports there are, a usable refresh token is lost only
\* with a reply, a write, a crash, the session itself, or a reauthentication that brings
\* no refresh token.
THEOREM TokenSurvives == TokenSpec => []LiveTokenKept
<1>1. TokenInv => LiveTokenKept
  BY DEF TokenInv
<1>. QED  BY <1>1, TokenInvariant, PTL

\* However often it is imported, a token that can be used once makes one account.
THEOREM OneAccountPerToken == TokenSpec => []ImportedOnce
<1>1. TokenInv => ImportedOnce
  BY DEF TokenInv, SpentOnce, ImportedOnce
<1>. QED  BY <1>1, TokenInvariant, PTL

-----------------------------------------------------------------------------
(* Without overlap, only a dead token is flagged. *)

\* What was denied is dead: it was never accepted again, and no other has taken its
\* place in the row, or that would be an overlap.
DeniedIsDead ==
    /\ row.auth = "reauthRequired" => row.refresh \notin live
    /\ \A u \in Users : user[u].pc = "denied" => user[u].refresh \notin live

LEMMA DeniedIsDeadNext ==
    ASSUME TokenTypeOK, Issued, ~Overlap, ~Overlap', DeniedIsDead, [TokenNext]_tokenVars
    PROVE  DeniedIsDead'
<1>. USE TokenAssumption DEF TokenTypeOK, Issued, Overlap, DeniedIsDead, Token, Idle, NoImport
<1>1. ASSUME NEW u \in Users, ReadAccount(u) PROVE DeniedIsDead'
  BY <1>1 DEF ReadAccount
<1>2. ASSUME NEW u \in Users, UseAccess(u) PROVE DeniedIsDead'
  BY <1>2 DEF UseAccess, Return
<1>3. ASSUME NEW u \in Users, RefreshGranted(u) PROVE DeniedIsDead'
  BY <1>3 DEF RefreshGranted, Grant, Return
<1>4. ASSUME NEW u \in Users, RefreshDenied(u) PROVE DeniedIsDead'
  BY <1>4 DEF RefreshDenied, Return
<1>5. ASSUME NEW u \in Users, RefreshFailed(u) PROVE DeniedIsDead'
  BY <1>5 DEF RefreshFailed, Return
<1>6. ASSUME NEW u \in Users, StoreTokens(u) PROVE DeniedIsDead'
  BY <1>6 DEF StoreTokens, Return
<1>7. ASSUME NEW u \in Users, FlagAccount(u) PROVE DeniedIsDead'
  BY <1>7 DEF FlagAccount, Return
<1>8. ASSUME NEW i \in Importers, ImportGranted(i) PROVE DeniedIsDead'
  BY <1>8 DEF ImportGranted, Grant
<1>9. ASSUME NEW i \in Importers, InsertAccount(i) PROVE DeniedIsDead'
  BY <1>9 DEF InsertAccount
<1>10. CASE Reauth
  BY <1>10 DEF Reauth
<1>11. CASE AccessRunsOut
  BY <1>11 DEF AccessRunsOut
<1>12. CASE Revoke
  BY <1>12 DEF Revoke
<1>13. CASE CrashUsers
  BY <1>13 DEF CrashUsers
<1>14. CASE UNCHANGED tokenVars
  BY <1>14 DEF tokenVars
<1>. QED
  BY <1>1, <1>2, <1>3, <1>4, <1>5, <1>6, <1>7, <1>8, <1>9, <1>10, <1>11, <1>12, <1>13, <1>14 DEF TokenNext

\* As long as one goroutine at a time works with the account, and no token is replaced
\* under it, an account is flagged only if its token is dead, whatever else goes wrong.
THEOREM DeadWhenFlagged == TokenSpec => FlaggedMeansDead
<1>1. TokenInit => DeniedIsDead
  BY DEF TokenInit, DeniedIsDead, Idle
<1>2. TokenInv /\ ~Overlap /\ ~Overlap' /\ DeniedIsDead /\ [TokenNext]_tokenVars => DeniedIsDead'
  BY DeniedIsDeadNext DEF TokenInv
<1>3. DeniedIsDead => (row.auth = "reauthRequired" => row.refresh \notin live)
  BY DEF DeniedIsDead
<1>. QED  BY <1>1, <1>2, <1>3, TokenInvariant, PTL DEF TokenSpec, FlaggedMeansDead
=============================================================================
