---------------------------- MODULE AccountStore ----------------------------
(***************************************************************************)
(* The SQLite tables that every part of the gateway shares, and the        *)
(* statements of internal/db/db.go that read and write them.               *)
(*                                                                         *)
(* The pool holds one connection (SetMaxOpenConns(1)), so a statement, or a *)
(* transaction, is one atomic step and statements of different goroutines  *)
(* interleave only between them.  Each write below is one such step.       *)
(*                                                                         *)
(* Abstractions.  One model name and one quota mode ("build", the only one *)
(* the code writes) are followed.  Tokens, names and the failure counter,  *)
(* which nothing reads back but the admin page, are left out.  A time is a *)
(* tick count; 0 stands for NULL, as nilIfZero makes it.                   *)
(***************************************************************************)
EXTENDS Integers, FiniteSets

CONSTANTS
    MaxAccount,     \* bound: ids the accounts table may ever hand out
    InitAccounts,   \* accounts imported and synced before the process starts
    MaxTime,        \* bound: the clock stops counting here
    DbMayFail       \* TRUE when a write may fail, an error the callers drop

ASSUME StoreAssumption ==
    /\ MaxAccount \in Nat \ {0}
    /\ InitAccounts \in 0..MaxAccount
    /\ MaxTime \in Nat \ {0}
    /\ DbMayFail \in BOOLEAN

VARIABLES
    now,            \* unixepoch() and time.Now().Unix()
    rows,           \* ids present in the accounts table
    nextId,         \* the AUTOINCREMENT sequence: an id is never reused
    accounts,       \* accounts, the columns the control flow reads
    windows,        \* account_quota_windows
    queue,          \* quota_recovery_queue
    caps            \* account_model_capabilities: may serve the model

tables == <<rows, nextId, accounts, windows, queue, caps>>
store == <<now, tables>>

-----------------------------------------------------------------------------
(* Types. *)

Account == 1..MaxAccount
Time == 1..MaxTime
AuthStatus == {"active", "reauthRequired"}

AccountRow == [enabled : BOOLEAN, auth : AuthStatus,
               cooldown : Nat, lastUsed : Nat]
QuotaWindow == [known : BOOLEAN, remaining : Nat, resetAt : Nat]
QueueRow == [queued : BOOLEAN, attempts : Nat, due : Nat]

\* What the INSERT of InsertAccount and the column defaults make of a row.
NewAccount == [enabled |-> TRUE, auth |-> "active",
               cooldown |-> 0, lastUsed |-> 0]
NoWindow == [known |-> FALSE, remaining |-> 0, resetAt |-> 0]
NoEvent == [queued |-> FALSE, attempts |-> 0, due |-> 0]

TablesTypeOK ==
    /\ rows \subseteq Account
    /\ nextId \in 1..(MaxAccount + 1)
    /\ accounts \in [Account -> AccountRow]
    /\ windows \in [Account -> QuotaWindow]
    /\ queue \in [Account -> QueueRow]
    /\ caps \in [Account -> BOOLEAN]

StoreTypeOK == now \in Time /\ TablesTypeOK

\* A database into which accounts were imported and synced, none used yet.
StoreInit ==
    /\ now = 1
    /\ rows = 1..InitAccounts
    /\ nextId = InitAccounts + 1
    /\ accounts = [a \in Account |-> NewAccount]
    /\ windows = [a \in Account |-> NoWindow]
    /\ queue = [a \in Account |-> NoEvent]
    /\ caps = [a \in Account |-> a \in rows]

-----------------------------------------------------------------------------
(* Reads. *)

Serving(a) == a \in rows /\ accounts[a].enabled /\ accounts[a].auth = "active"

Healthy(a) == Serving(a) /\ accounts[a].cooldown <= now /\ caps[a]

\* ORDER BY last_used_at ASC, id ASC LIMIT 1.
GetHealthyAccountForModel(a) ==
    /\ Healthy(a)
    /\ \A b \in Account :
         Healthy(b) => \/ accounts[a].lastUsed < accounts[b].lastUsed
                       \/ accounts[a].lastUsed = accounts[b].lastUsed /\ a <= b

Exhausted(a) == windows[a].known /\ windows[a].remaining <= 0

IsFirst(S, T, key, limit) ==
    /\ Cardinality(T) = IF Cardinality(S) <= limit THEN Cardinality(S) ELSE limit
    /\ \A x \in T, y \in S \ T : key[x] <= key[y]

\* A variation: zero remaining does not count as exhausted.
ListDueQuotaWindows_strict(T, t, limit) ==
    LET due == {a \in Account : windows[a].known /\ windows[a].remaining < 0
                                  /\ windows[a].resetAt <= t}
    IN  T \subseteq due /\ IsFirst(due, T, [a \in Account |-> windows[a].resetAt], limit)

\* T is what "WHERE remaining <= 0 AND (reset_at IS NULL OR reset_at <= t)
\* ORDER BY reset_at LIMIT limit" returns.
ListDueQuotaWindows(T, t, limit) ==
    LET due == {a \in Account : Exhausted(a) /\ windows[a].resetAt <= t}
    IN  T \subseteq due /\ IsFirst(due, T, [a \in Account |-> windows[a].resetAt], limit)

-----------------------------------------------------------------------------
(* Writes.  Where the callers drop the error of a statement, its failure is *)
(* a step that changes nothing.                                            *)

WriteLost == DbMayFail /\ UNCHANGED tables

\* UPDATE accounts SET ... WHERE id = a: no row, no effect.
UpdateAccount(a, row) ==
    /\ accounts' = IF a \in rows THEN [accounts EXCEPT ![a] = row] ELSE accounts
    /\ UNCHANGED <<rows, nextId, windows, queue, caps>>

\* Reauthentication and token rotation both end here.  Its error is returned.
UpdateAccountTokens(a) == UpdateAccount(a, [accounts[a] EXCEPT !.auth = "active"])

SetAccountStatus(a, enabled, auth) ==
    \/ UpdateAccount(a, [accounts[a] EXCEPT !.enabled = enabled, !.auth = auth])
    \/ WriteLost

\* A variation: the sign of the offset is wrong.
MarkAccountFailed_past(a, seconds) ==
    \/ UpdateAccount(a, [accounts[a] EXCEPT !.cooldown = now - seconds])
    \/ WriteLost

\* Every caller passes a positive number of seconds.
MarkAccountFailed(a, seconds) ==
    \/ UpdateAccount(a, [accounts[a] EXCEPT !.cooldown = now + seconds])
    \/ WriteLost

MarkAccountSuccess(a) ==
    \/ UpdateAccount(a, [accounts[a] EXCEPT !.cooldown = 0, !.lastUsed = now])
    \/ WriteLost

\* The UPDATE of ClearAccountCooldownIfQuotaRecovered, after its SELECT.
ClearCooldown(a) ==
    \/ UpdateAccount(a, [accounts[a] EXCEPT !.cooldown = 0])
    \/ WriteLost

InsertAccount ==
    /\ nextId <= MaxAccount
    /\ rows' = rows \cup {nextId}
    /\ nextId' = nextId + 1
    /\ UNCHANGED <<accounts, windows, queue, caps>>

\* A variation: the id of the last account is given out again, as an INTEGER
\* PRIMARY KEY without AUTOINCREMENT does.
DeleteAccount_reused(a) ==
    /\ rows' = rows \ {a}
    /\ accounts' = [accounts EXCEPT ![a] = NewAccount]
    /\ nextId' = IF a = nextId - 1 THEN a ELSE nextId
    /\ UNCHANGED <<windows, queue, caps>>

\* The row goes; its window, its event and its capabilities stay behind.
DeleteAccount(a) ==
    /\ rows' = rows \ {a}
    /\ accounts' = [accounts EXCEPT ![a] = NewAccount]
    /\ UNCHANGED <<nextId, windows, queue, caps>>

ReplaceAccountCapabilities(a, listed) ==
    /\ caps' = [caps EXCEPT ![a] = listed]
    /\ UNCHANGED <<rows, nextId, accounts, windows, queue>>

UpsertQuotaWindow(a, remaining, resetAt) ==
    \/ /\ windows' = [windows EXCEPT ![a] =
                        [known |-> TRUE, remaining |-> remaining, resetAt |-> resetAt]]
       /\ UNCHANGED <<rows, nextId, accounts, queue, caps>>
    \/ WriteLost

SetQueueRow(a, row) ==
    /\ queue' = [queue EXCEPT ![a] = row]
    /\ UNCHANGED <<rows, nextId, accounts, windows, caps>>

\* INSERT ... ON CONFLICT DO UPDATE: an event already queued is overwritten.
EnsureQuotaRecovery(a, attempts, due) ==
    \/ SetQueueRow(a, [queued |-> TRUE, attempts |-> attempts, due |-> due])
    \/ WriteLost

\* UPDATE ... WHERE account_id = a: an event acknowledged meanwhile stays gone.
RescheduleQuotaRecovery(a, attempts, due) ==
    \/ SetQueueRow(a, [queued |-> queue[a].queued,
                       attempts |-> IF queue[a].queued THEN attempts ELSE 0,
                       due |-> IF queue[a].queued THEN due ELSE 0])
    \/ WriteLost

\* DELETE, whatever the row holds by now.
AckQuotaRecovery(a) == SetQueueRow(a, NoEvent) \/ WriteLost

\* A variation: the events are taken out of the table.
ClaimDueRecoveries_popped(T, t, limit, lease) ==
    LET due == {a \in Account : queue[a].queued /\ queue[a].due <= t}
    IN  /\ T \subseteq due
        /\ IsFirst(due, T, [a \in Account |-> queue[a].due], limit)
        /\ queue' = [a \in Account |-> IF a \in T THEN NoEvent ELSE queue[a]]
        /\ UNCHANGED <<rows, nextId, accounts, windows, caps>>

\* One transaction: the first events due by t, pushed back by the lease; an UPDATE
\* that fails in it is passed over.
ClaimDueRecoveries(T, t, limit, lease) ==
    LET due == {a \in Account : queue[a].queued /\ queue[a].due <= t}
    IN  /\ T \subseteq due
        /\ IsFirst(due, T, [a \in Account |-> queue[a].due], limit)
        /\ \E leased \in SUBSET T :
             /\ leased = T \/ DbMayFail
             /\ queue' = [a \in Account |->
                            IF a \in leased THEN [queue[a] EXCEPT !.due = t + lease]
                            ELSE queue[a]]
        /\ UNCHANGED <<rows, nextId, accounts, windows, caps>>

-----------------------------------------------------------------------------
\* The clock of the process.  It saturates at the bound.
AdvanceClock == now' = IF now < MaxTime THEN now + 1 ELSE now
=============================================================================
