----------------------------- MODULE ModelSync -----------------------------
(***************************************************************************)
(* Discovery of models (sync.go): SyncAll takes the active accounts, starts *)
(* one goroutine for each and lets Slots of them work at a time.  A         *)
(* goroutine lists the account's models upstream, replaces the account's    *)
(* capability rows in one transaction and then gives each model without a   *)
(* route one: a count and an insert, two statements another goroutine's can *)
(* come between.  SyncAll runs at start-up and once more for every POST of  *)
(* an administrator, without waiting for the one before it.                 *)
(*                                                                         *)
(* Refreshing the account's token before the listing is TokenRefresh.tla's  *)
(* subject; here it is one more way for the listing to fail.                *)
(***************************************************************************)
EXTENDS Naturals, FiniteSets

CONSTANTS
    Accounts,
    Models,
    Retained,       \* data/retained_models.json
    Runs,           \* bound: executions of SyncAll that overlap
    Slots,          \* capacity of the semaphore of one SyncAll
    MaxRows         \* bound: rows of one model in model_routes

ASSUME SyncAssumption ==
    /\ Retained \subseteq Models
    /\ IsFiniteSet(Runs)
    /\ {Slots, MaxRows} \subseteq Nat \ {0}

VARIABLES
    active,         \* accounts that are enabled and whose auth_status is active
    caps,           \* account_model_capabilities
    routes,         \* number of model_routes rows of each model
    faulty,         \* history: a statement failed or the process crashed
    run,            \* "idle" or "running", for each SyncAll
    taken,          \* slots taken of each SyncAll's semaphore
    task            \* the goroutine of each SyncAll for each account

syncVars == <<active, caps, routes, faulty, run, taken, task>>

-----------------------------------------------------------------------------
\* models: still to be gone through; adding: the model about to get a row, if any.
NoTask == [pc |-> "none", models |-> {}, adding |-> {}]

SyncTypeOK ==
    /\ active \subseteq Accounts
    /\ caps \in [Accounts -> SUBSET Models]
    /\ routes \in [Models -> Nat]
    /\ faulty \in BOOLEAN
    /\ run \in [Runs -> {"idle", "running"}]
    /\ taken \in [Runs -> 0..Slots]
    /\ task \in [Runs \X Accounts ->
                   [pc : {"none", "waiting", "list", "replace", "route"},
                    models : SUBSET Models, adding : SUBSET Models]]

SyncInit ==
    /\ active \in SUBSET Accounts
    /\ caps = [a \in Accounts |-> {}]
    /\ routes = [m \in Models |-> 0]
    /\ faulty = FALSE
    /\ run = [r \in Runs |-> "idle"]
    /\ taken = [r \in Runs |-> 0]
    /\ task = [t \in Runs \X Accounts |-> NoTask]

-----------------------------------------------------------------------------
\* SyncAll: the accounts are read once; whoever becomes active later waits
\* for the next run.
SyncAll(r) ==
    /\ run[r] = "idle"
    /\ run' = [run EXCEPT ![r] = "running"]
    /\ task' = [t \in Runs \X Accounts |->
                  IF t[1] = r /\ t[2] \in active THEN [NoTask EXCEPT !.pc = "waiting"]
                  ELSE task[t]]
    /\ UNCHANGED <<active, caps, routes, faulty, taken>>

\* A variation: the goroutines do not wait for a slot.
TakeSlot_unbounded(r, a) ==
    /\ task[<<r, a>>].pc = "waiting"
    /\ task' = [task EXCEPT ![<<r, a>>].pc = "list"]
    /\ UNCHANGED <<active, caps, routes, faulty, run, taken>>

TakeSlot(r, a) ==
    /\ task[<<r, a>>].pc = "waiting"
    /\ taken[r] < Slots
    /\ taken' = [taken EXCEPT ![r] = @ + 1]
    /\ task' = [task EXCEPT ![<<r, a>>].pc = "list"]
    /\ UNCHANGED <<active, caps, routes, faulty, run>>

\* The deferred calls of the goroutine: the slot is returned however it ends.
EndTask(r, a) ==
    /\ task' = [task EXCEPT ![<<r, a>>] = NoTask]
    /\ taken' = [taken EXCEPT ![r] = @ - 1]

ListModels(r, a) ==
    /\ task[<<r, a>>].pc = "list"
    /\ \E offered \in SUBSET Models, extras \in {Retained, {}} :
         task' = [task EXCEPT ![<<r, a>>].pc = "replace", ![<<r, a>>].models = offered \cup extras]
    /\ UNCHANGED <<active, caps, routes, faulty, run, taken>>

\* A variation: the early return forgets the slot.
ListFails_leaked(r, a) ==
    /\ task[<<r, a>>].pc = "list"
    /\ task' = [task EXCEPT ![<<r, a>>] = NoTask]
    /\ UNCHANGED <<active, caps, routes, faulty, run, taken>>

\* No usable token, an error, or 30 seconds without an answer.
ListFails(r, a) ==
    /\ task[<<r, a>>].pc = "list"
    /\ EndTask(r, a)
    /\ UNCHANGED <<active, caps, routes, faulty, run>>

ReplaceCapabilities(r, a) ==
    /\ task[<<r, a>>].pc = "replace"
    /\ caps' = [caps EXCEPT ![a] = task[<<r, a>>].models]
    /\ task' = [task EXCEPT ![<<r, a>>].pc = "route"]
    /\ UNCHANGED <<active, routes, faulty, run, taken>>

\* The transaction is rolled back, and the goroutine returns the error.
ReplaceFails(r, a) ==
    /\ task[<<r, a>>].pc = "replace"
    /\ EndTask(r, a)
    /\ UNCHANGED <<active, caps, routes, faulty, run>>

\* A variation: a model another account has a capability for is taken as routed.
CountRoutes_byCapability(r, a) ==
    /\ task[<<r, a>>].pc = "route"
    /\ task[<<r, a>>].adding = {}
    /\ \E m \in task[<<r, a>>].models :
         task' = [task EXCEPT ![<<r, a>>].models = @ \ {m},
                              ![<<r, a>>].adding =
                                {n \in {m} : \A b \in Accounts \ {a} : n \notin caps[b]}]
    /\ UNCHANGED <<active, caps, routes, faulty, run, taken>>

\* UpsertDiscoveredRoutes, one model; a count that fails reads as zero.
CountRoutes(r, a) ==
    /\ task[<<r, a>>].pc = "route"
    /\ task[<<r, a>>].adding = {}
    /\ \E m \in task[<<r, a>>].models : \E counted \in {0, routes[m]} :
         /\ faulty' = (faulty \/ counted # routes[m])
         /\ task' = [task EXCEPT ![<<r, a>>].models = @ \ {m},
                                 ![<<r, a>>].adding = {n \in {m} : counted = 0}]
    /\ UNCHANGED <<active, caps, routes, run, taken>>

InsertRoute(r, a) ==
    /\ task[<<r, a>>].pc = "route"
    /\ \E m \in task[<<r, a>>].adding :
         \/ /\ routes[m] < MaxRows
            /\ routes' = [routes EXCEPT ![m] = @ + 1]
            /\ UNCHANGED faulty
         \/ UNCHANGED routes /\ faulty' = TRUE
    /\ task' = [task EXCEPT ![<<r, a>>].adding = {}]
    /\ UNCHANGED <<active, caps, run, taken>>

\* The list is done.
SyncSucceeds(r, a) ==
    /\ task[<<r, a>>].pc = "route"
    /\ task[<<r, a>>].models = {} /\ task[<<r, a>>].adding = {}
    /\ EndTask(r, a)
    /\ UNCHANGED <<active, caps, routes, faulty, run>>

\* wg.Wait returns.
Return(r) ==
    /\ run[r] = "running"
    /\ \A a \in Accounts : task[<<r, a>>].pc = "none"
    /\ run' = [run EXCEPT ![r] = "idle"]
    /\ UNCHANGED <<active, caps, routes, faulty, taken, task>>

-----------------------------------------------------------------------------
\* Administrators, refused refreshes and reauthentication change who is active.
Activate(a) ==
    /\ active' = active \cup {a}
    /\ UNCHANGED <<caps, routes, faulty, run, taken, task>>

Deactivate(a) ==
    /\ active' = active \ {a}
    /\ UNCHANGED <<caps, routes, faulty, run, taken, task>>

\* The process dies; what is in the database stays.
Crash ==
    /\ faulty' = TRUE
    /\ run' = [r \in Runs |-> "idle"]
    /\ taken' = [r \in Runs |-> 0]
    /\ task' = [t \in Runs \X Accounts |-> NoTask]
    /\ UNCHANGED <<active, caps, routes>>

Work(r, a) ==
    \/ TakeSlot(r, a) \/ ListModels(r, a) \/ ListFails(r, a)
    \/ ReplaceCapabilities(r, a) \/ ReplaceFails(r, a)
    \/ CountRoutes(r, a) \/ InsertRoute(r, a) \/ SyncSucceeds(r, a)

SyncNext ==
    \/ \E r \in Runs : SyncAll(r) \/ Return(r) \/ \E a \in Accounts : Work(r, a)
    \/ \E a \in Accounts : Activate(a) \/ Deactivate(a)
    \/ Crash

\* A listing ends after 30 seconds at the latest, the Go scheduler runs every
\* goroutine that can run, and a waiting sender on the semaphore's channel gets
\* its turn: senders queue in order.
SyncFairness ==
    \A r \in Runs :
        /\ WF_syncVars(Return(r))
        /\ \A a \in Accounts : SF_syncVars(TakeSlot(r, a)) /\ WF_syncVars(Work(r, a))

SyncSpec == SyncInit /\ [][SyncNext]_syncVars /\ SyncFairness

-----------------------------------------------------------------------------
\* GET /v1/models (ListEnabledRoutes): models with a route that some active account
\* has a capability for, or that no account at all has one for.
Listed ==
    {m \in Models :
        /\ routes[m] > 0
        /\ \E a \in active : m \in caps[a] \/ \A b \in Accounts : m \notin caps[b]}

\* The count and the insert race, but only goroutines that hold a slot can have
\* counted zero: a model has no more rows than slots in all.
DuplicatesBounded ==
    ~faulty => \A m \in Models : routes[m] =< Slots * Cardinality(Runs)

\* What an active account can serve is on offer, unless a statement failed: a model
\* it has the capability for is listed, or some goroutine is about to give it a
\* route, although capabilities and routes are written in different statements.
CapabilityListed ==
    ~faulty =>
        \A a \in active : \A m \in caps[a] :
            \/ m \in Listed
            \/ \E t \in DOMAIN task :
                 task[t].pc = "route" /\ m \in task[t].models \cup task[t].adding

\* Every SyncAll returns, however many of its listings fail.
SyncAllReturns == \A r \in Runs : run[r] = "running" ~> run[r] = "idle"
=============================================================================
