-------------------------- MODULE ModelSyncProofs --------------------------
(***************************************************************************)
(* Proofs about the safety of ModelSync, for any number of accounts, models,*)
(* overlapping runs and slots.                                             *)
(*                                                                         *)
(* The slots taken are the goroutines at work, so there are never more of   *)
(* those than slots; and only a goroutine at work can have counted no row.  *)
(***************************************************************************)
EXTENDS ModelSync, FiniteSetTheorems, FunctionTheorems, TLAPS

\* The goroutines of one run that hold a slot, and all of them.
Holders(r) == {a \in Accounts : task[<<r, a>>].pc \in {"list", "replace", "route"}}
AllHolders == {t \in Runs \X Accounts : t[2] \in Holders(t[1])}

\* The goroutines about to insert a row for a model.
Adders(m) == {t \in Runs \X Accounts : m \in task[t].adding}

TasksTyped ==
    task \in [Runs \X Accounts ->
                [pc : {"none", "waiting", "list", "replace", "route"},
                 models : SUBSET Models, adding : SUBSET Models]]

SlotsInv ==
    /\ \A r \in Runs : IsFiniteSet(Holders(r)) /\ taken[r] = Cardinality(Holders(r))
    /\ taken \in [Runs -> 0..Slots]

\* A run that is idle has no goroutine; a model is added by a goroutine that holds a
\* slot, one at a time.
TasksInv ==
    /\ \A r \in Runs, a \in Accounts : run[r] = "idle" => task[<<r, a>>].pc = "none"
    /\ \A t \in Runs \X Accounts :
         /\ task[t].pc # "route" => task[t].adding = {}
         /\ \A m, n \in task[t].adding : m = n

\* What an account has a capability for has a row, or is on its way to one.
Routed ==
    \A a \in Accounts : \A m \in caps[a] :
        \/ routes[m] > 0
        \/ \E t \in Runs \X Accounts :
             task[t].pc = "route" /\ m \in task[t].models \cup task[t].adding

RoutesInv ==
    \A m \in Models : routes[m] + Cardinality(Adders(m)) =< Slots * Cardinality(Runs)

SyncInv ==
    /\ SyncTypeOK
    /\ SlotsInv
    /\ TasksInv
    /\ ~faulty => Routed /\ RoutesInv

-----------------------------------------------------------------------------
LEMMA TaskTyped ==
    /\ NoTask \in [pc : {"none", "waiting", "list", "replace", "route"},
                   models : SUBSET Models, adding : SUBSET Models]
    /\ [NoTask EXCEPT !.pc = "waiting"]
            \in [pc : {"none", "waiting", "list", "replace", "route"},
                 models : SUBSET Models, adding : SUBSET Models]
BY DEF NoTask

LEMMA TasksTypedNext ==
    ASSUME TasksTyped, SyncTypeOK, [SyncNext]_syncVars
    PROVE  TasksTyped'
<1>. USE SyncAssumption DEF TasksTyped
<1>1. ASSUME NEW r \in Runs, SyncAll(r) PROVE TasksTyped'
  BY <1>1, TaskTyped DEF SyncAll
<1>2. ASSUME NEW r \in Runs, NEW a \in Accounts, TakeSlot(r, a) PROVE TasksTyped'
  BY <1>2 DEF TakeSlot
<1>3. ASSUME NEW r \in Runs, NEW a \in Accounts, ListModels(r, a) PROVE TasksTyped'
  <2>1. PICK offered \in SUBSET Models, extras \in {Retained, {}} :
            task' = [task EXCEPT ![<<r, a>>].pc = "replace", ![<<r, a>>].models = offered \cup extras]
    BY <1>3 DEF ListModels
  <2>2. offered \cup extras \in SUBSET Models
    OBVIOUS
  <2>. QED  BY <2>1, <2>2
<1>4. ASSUME NEW r \in Runs, NEW a \in Accounts, EndTask(r, a) PROVE TasksTyped'
  BY <1>4, TaskTyped DEF EndTask
<1>5. ASSUME NEW r \in Runs, NEW a \in Accounts, ReplaceCapabilities(r, a) PROVE TasksTyped'
  BY <1>5 DEF ReplaceCapabilities
<1>6. ASSUME NEW r \in Runs, NEW a \in Accounts, CountRoutes(r, a) PROVE TasksTyped'
  BY <1>6 DEF CountRoutes
<1>7. ASSUME NEW r \in Runs, NEW a \in Accounts, InsertRoute(r, a) PROVE TasksTyped'
  BY <1>7 DEF InsertRoute
<1>8. CASE Crash
  BY <1>8, TaskTyped DEF Crash
<1>9. CASE task' = task
  BY <1>9
<1>. QED
  BY <1>1, <1>2, <1>3, <1>4, <1>5, <1>6, <1>7, <1>8, <1>9
     DEF SyncNext, Work, Return, Activate, Deactivate, ListFails, ReplaceFails, SyncSucceeds, syncVars

\* What follows if one goroutine at work goes on, and adds one model at most.
LEMMA OneTask ==
    ASSUME SyncTypeOK, TasksInv, NEW r \in Runs, NEW a \in Accounts, run' = run,
           task[<<r, a>>].pc # "none",
           \A t \in Runs \X Accounts : t # <<r, a>> => task'[t] = task[t],
           task'[<<r, a>>].pc # "route" => task'[<<r, a>>].adding = {},
           \A m, n \in task'[<<r, a>>].adding : m = n
    PROVE  TasksInv'
BY DEF TasksInv

\* A run that is idle has no goroutine, and a model is added by one that has a slot.
LEMMA TasksInvNext ==
    ASSUME SyncTypeOK, TasksInv, [SyncNext]_syncVars
    PROVE  TasksInv'
<1>1. ASSUME NEW r \in Runs, SyncAll(r) PROVE TasksInv'
  BY <1>1 DEF SyncAll, TasksInv, SyncTypeOK, NoTask
<1>2. ASSUME NEW r \in Runs, NEW a \in Accounts, TakeSlot(r, a) PROVE TasksInv'
  <2>1. \A t \in Runs \X Accounts : t # <<r, a>> => task'[t] = task[t]
    BY <1>2 DEF TakeSlot, TasksInv, SyncTypeOK, NoTask
  <2>2. task'[<<r, a>>].adding = {}
    BY <1>2 DEF TakeSlot, TasksInv, SyncTypeOK, NoTask
  <2>. QED  BY <1>2, <2>1, <2>2, OneTask DEF TakeSlot
<1>3. ASSUME NEW r \in Runs, NEW a \in Accounts, ListModels(r, a) PROVE TasksInv'
  <2>1. \A t \in Runs \X Accounts : t # <<r, a>> => task'[t] = task[t]
    BY <1>3 DEF ListModels, TasksInv, SyncTypeOK, NoTask
  <2>2. task'[<<r, a>>].adding = {}
    BY <1>3 DEF ListModels, TasksInv, SyncTypeOK, NoTask
  <2>. QED  BY <1>3, <2>1, <2>2, OneTask DEF ListModels
<1>4. ASSUME NEW r \in Runs, NEW a \in Accounts, EndTask(r, a), run' = run PROVE TasksInv'
  BY <1>4 DEF EndTask, TasksInv, SyncTypeOK, NoTask
<1>5. ASSUME NEW r \in Runs, NEW a \in Accounts, ReplaceCapabilities(r, a) PROVE TasksInv'
  <2>1. \A t \in Runs \X Accounts : t # <<r, a>> => task'[t] = task[t]
    BY <1>5 DEF ReplaceCapabilities, TasksInv, SyncTypeOK, NoTask
  <2>2. task'[<<r, a>>].adding = {}
    BY <1>5 DEF ReplaceCapabilities, TasksInv, SyncTypeOK, NoTask
  <2>. QED  BY <1>5, <2>1, <2>2, OneTask DEF ReplaceCapabilities
<1>6. ASSUME NEW r \in Runs, NEW a \in Accounts, CountRoutes(r, a) PROVE TasksInv'
  <2>1. \A t \in Runs \X Accounts : t # <<r, a>> => task'[t] = task[t]
    BY <1>6 DEF CountRoutes, TasksInv, SyncTypeOK, NoTask
  <2>2. task'[<<r, a>>].pc = "route" /\ \A m, n \in task'[<<r, a>>].adding : m = n
    BY <1>6 DEF CountRoutes, TasksInv, SyncTypeOK, NoTask
  <2>. QED  BY <1>6, <2>1, <2>2, OneTask DEF CountRoutes
<1>7. ASSUME NEW r \in Runs, NEW a \in Accounts, InsertRoute(r, a) PROVE TasksInv'
  <2>1. \A t \in Runs \X Accounts : t # <<r, a>> => task'[t] = task[t]
    BY <1>7 DEF InsertRoute, TasksInv, SyncTypeOK, NoTask
  <2>2. task'[<<r, a>>].adding = {}
    BY <1>7 DEF InsertRoute, TasksInv, SyncTypeOK, NoTask
  <2>. QED  BY <1>7, <2>1, <2>2, OneTask DEF InsertRoute
<1>8. CASE Crash
  BY <1>8 DEF Crash, TasksInv, SyncTypeOK, NoTask
<1>9. ASSUME NEW r \in Runs, Return(r) PROVE TasksInv'
  BY <1>9 DEF Return, TasksInv, SyncTypeOK, NoTask
<1>10. CASE UNCHANGED <<task, run>>
  BY <1>10 DEF TasksInv
<1>. QED
  BY <1>1, <1>2, <1>3, <1>4, <1>5, <1>6, <1>7, <1>8, <1>9, <1>10
     DEF SyncNext, Work, Activate, Deactivate, ListFails, ReplaceFails, SyncSucceeds, syncVars

-----------------------------------------------------------------------------
(* Slots. *)

\* A slot is taken by a goroutine that had none, and returned by one that had it.
LEMMA SlotsInvNext ==
    ASSUME SyncTypeOK, SlotsInv, TasksInv, [SyncNext]_syncVars
    PROVE  SlotsInv'
<1>. USE SyncAssumption
<1>1. \A r \in Runs : IsFiniteSet(Holders(r)) /\ taken[r] = Cardinality(Holders(r))
                        /\ taken[r] \in 0..Slots
  BY DEF SlotsInv
<1>2. ASSUME taken' = taken, \A s \in Runs : Holders(s)' = Holders(s) PROVE SlotsInv'
  BY <1>2 DEF SlotsInv
<1>3. ASSUME NEW r \in Runs, SyncAll(r) PROVE SlotsInv'
  <2>1. ASSUME NEW s \in Runs PROVE Holders(s)' = Holders(s)
    BY <1>3, <2>1 DEF SyncAll, Holders, TasksInv, NoTask
  <2>. QED  BY <1>2, <1>3, <2>1 DEF SyncAll
<1>4. ASSUME NEW r \in Runs, NEW a \in Accounts, TakeSlot(r, a) PROVE SlotsInv'
  <2>1. Holders(r)' = Holders(r) \cup {a} /\ a \notin Holders(r)
    BY <1>4 DEF TakeSlot, Holders, SyncTypeOK
  <2>2. ASSUME NEW s \in Runs, s # r PROVE Holders(s)' = Holders(s)
    BY <1>4, <2>2 DEF TakeSlot, Holders, SyncTypeOK
  <2>3. IsFiniteSet(Holders(r)') /\ Cardinality(Holders(r)') = Cardinality(Holders(r)) + 1
    BY <1>1, <2>1, FS_AddElement
  <2>. QED  BY <1>1, <1>4, <2>2, <2>3 DEF TakeSlot, SlotsInv
<1>5. ASSUME NEW r \in Runs, NEW a \in Accounts, EndTask(r, a), a \in Holders(r) PROVE SlotsInv'
  <2>1. Holders(r)' = Holders(r) \ {a}
    BY <1>5 DEF EndTask, Holders, SyncTypeOK, NoTask
  <2>2. ASSUME NEW s \in Runs, s # r PROVE Holders(s)' = Holders(s)
    BY <1>5, <2>2 DEF EndTask, Holders, SyncTypeOK
  <2>3. IsFiniteSet(Holders(r)') /\ Cardinality(Holders(r)') = Cardinality(Holders(r)) - 1
    BY <1>1, <1>5, <2>1, FS_RemoveElement
  <2>4. Cardinality(Holders(r)') \in Nat
    BY <2>3, FS_CardinalityType
  <2>. QED  BY <1>1, <1>5, <2>2, <2>3, <2>4 DEF EndTask, SlotsInv
<1>6. ASSUME NEW r \in Runs, NEW a \in Accounts, taken' = taken,
             \/ ListModels(r, a) \/ ReplaceCapabilities(r, a)
             \/ CountRoutes(r, a) \/ InsertRoute(r, a)
      PROVE  SlotsInv'
  <2>1. /\ task[<<r, a>>].pc \in {"list", "replace", "route"}
        /\ task'[<<r, a>>].pc \in {"list", "replace", "route"}
        /\ \A t \in Runs \X Accounts : t # <<r, a>> => task'[t] = task[t]
    <3>1. CASE ListModels(r, a)
      BY <3>1 DEF ListModels, SyncTypeOK
    <3>2. CASE ReplaceCapabilities(r, a)
      BY <3>2 DEF ReplaceCapabilities, SyncTypeOK
    <3>3. CASE CountRoutes(r, a)
      BY <3>3 DEF CountRoutes, SyncTypeOK
    <3>4. CASE InsertRoute(r, a)
      BY <3>4 DEF InsertRoute, SyncTypeOK
    <3>. QED  BY <1>6, <3>1, <3>2, <3>3, <3>4
  <2>2. ASSUME NEW s \in Runs PROVE Holders(s)' = Holders(s)
    BY <2>1 DEF Holders
  <2>. QED  BY <1>2, <1>6, <2>2
<1>7. CASE Crash
  <2>1. ASSUME NEW s \in Runs PROVE Holders(s)' = {}
    BY <1>7 DEF Crash, Holders, NoTask
  <2>2. ASSUME NEW s \in Runs
        PROVE  IsFiniteSet(Holders(s)') /\ taken'[s] = Cardinality(Holders(s)')
    BY <1>7, <2>1, FS_EmptySet DEF Crash
  <2>3. taken' \in [Runs -> 0..Slots]
    BY <1>7 DEF Crash
  <2>. QED  BY <2>2, <2>3 DEF SlotsInv
<1>8. CASE UNCHANGED <<task, taken>>
  BY <1>2, <1>8 DEF Holders
<1>9. ASSUME NEW r \in Runs, NEW a \in Accounts,
             ListFails(r, a) \/ ReplaceFails(r, a) \/ SyncSucceeds(r, a)
      PROVE  EndTask(r, a) /\ a \in Holders(r)
  BY <1>9 DEF ListFails, ReplaceFails, SyncSucceeds, Holders
<1>10. ASSUME NEW r \in Runs, NEW a \in Accounts, Work(r, a) PROVE SlotsInv'
  BY <1>4, <1>5, <1>6, <1>9, <1>10
     DEF Work, ListModels, ReplaceCapabilities, CountRoutes, InsertRoute
<1>. QED
  BY <1>3, <1>7, <1>8, <1>10 DEF SyncNext, Return, Activate, Deactivate, syncVars

\* There are no more goroutines at work than slots in all runs.
LEMMA HoldersBounded ==
    ASSUME SlotsInv
    PROVE  /\ IsFiniteSet(AllHolders)
           /\ Cardinality(AllHolders) \in Nat
           /\ Cardinality(AllHolders) =< Slots * Cardinality(Runs)
           /\ Slots * Cardinality(Runs) \in Nat
<1>1. Slots \in Nat /\ IsFiniteSet(Runs) /\ Cardinality(Runs) \in Nat
  BY SyncAssumption, FS_CardinalityType
<1>2. ASSUME NEW r \in Runs PROVE \E f \in [Holders(r) -> 1..Slots] : IsInjective(f)
  <2>1. /\ IsFiniteSet(Holders(r)) /\ Cardinality(Holders(r)) \in Nat
        /\ Cardinality(Holders(r)) =< Slots
    BY <1>1, <1>2, FS_CardinalityType DEF SlotsInv
  <2>2. ExistsSurjection(1..Cardinality(Holders(r)), Holders(r))
    BY <2>1, FS_CardinalityType DEF ExistsBijection, ExistsSurjection, Bijection
  <2>3. PICK f : f \in Injection(Holders(r), 1..Cardinality(Holders(r)))
    BY <2>2, Fun_ExistsSurjMeansExistsRevInj DEF ExistsInjection
  <2>4. f \in [Holders(r) -> 1..Slots]
    BY <1>1, <2>1, <2>3 DEF Injection
  <2>. QED  BY <2>3, <2>4 DEF Injection
<1>. DEFINE slot == [r \in Runs |-> CHOOSE f \in [Holders(r) -> 1..Slots] : IsInjective(f)]
            place == [t \in AllHolders |-> <<t[1], slot[t[1]][t[2]]>>]
<1>3. ASSUME NEW r \in Runs PROVE slot[r] \in [Holders(r) -> 1..Slots] /\ IsInjective(slot[r])
  BY <1>2, <1>3
<1>. HIDE DEF slot
<1>4. place \in Injection(AllHolders, Runs \X (1..Slots))
  <2>1. place \in [AllHolders -> Runs \X (1..Slots)]
    BY <1>3 DEF AllHolders
  <2>2. ASSUME NEW t \in AllHolders, NEW u \in AllHolders, place[t] = place[u] PROVE t = u
    <3>1. t[1] = u[1] /\ slot[t[1]][t[2]] = slot[t[1]][u[2]]
      BY <2>2
    <3>2. t[1] \in Runs /\ t[2] \in Holders(t[1]) /\ u[2] \in Holders(t[1])
      BY <3>1 DEF AllHolders
    <3>3. t[2] = u[2]
      BY <1>3, <3>1, <3>2 DEF IsInjective
    <3>. QED  BY <3>1, <3>3 DEF AllHolders
  <2>. QED  BY <2>1, <2>2 DEF Injection, IsInjective
<1>5. /\ IsFiniteSet(Runs \X (1..Slots))
      /\ Cardinality(Runs \X (1..Slots)) = Cardinality(Runs) * Slots
  <2>1. 1 \in Int /\ Slots \in Int /\ 1 =< Slots + 1
    BY <1>1
  <2>2. IsFiniteSet(1..Slots) /\ Cardinality(1..Slots) = Slots
    BY <1>1, <2>1, FS_Interval
  <2>. QED  BY <1>1, <2>2, FS_Product
<1>6. IsFiniteSet(AllHolders) /\ Cardinality(AllHolders) =< Cardinality(Runs) * Slots
  BY <1>4, <1>5, FS_Injection
<1>7. Cardinality(Runs) * Slots = Slots * Cardinality(Runs) /\ Slots * Cardinality(Runs) \in Nat
  BY <1>1
<1>. QED  BY <1>6, <1>7, FS_CardinalityType

-----------------------------------------------------------------------------
(* Routes. *)

\* What a count that does not fail does.
LEMMA Counted ==
    ASSUME SyncTypeOK, NEW r \in Runs, NEW a \in Accounts, CountRoutes(r, a), ~faulty'
    PROVE  \E m \in Models :
             /\ \A t \in Runs \X Accounts : t # <<r, a>> => task'[t] = task[t]
             /\ m \in task[<<r, a>>].models
             /\ task'[<<r, a>>].pc = "route"
             /\ task'[<<r, a>>].models = task[<<r, a>>].models \ {m}
             /\ task[<<r, a>>].adding = {}
             /\ task'[<<r, a>>].adding = {n \in {m} : routes[m] = 0}
             /\ caps' = caps
             /\ routes' = routes
<1>0. PICK m \in task[<<r, a>>].models : \E counted \in {0, routes[m]} :
          /\ faulty' = (faulty \/ counted # routes[m])
          /\ task' = [task EXCEPT ![<<r, a>>].models = @ \ {m},
                                  ![<<r, a>>].adding = {n \in {m} : counted = 0}]
  BY DEF CountRoutes
<1>1. PICK counted \in {0, routes[m]} :
          /\ faulty' = (faulty \/ counted # routes[m])
          /\ task' = [task EXCEPT ![<<r, a>>].models = @ \ {m},
                                  ![<<r, a>>].adding = {n \in {m} : counted = 0}]
  BY <1>0
<1>2. counted = routes[m]
  BY <1>1
<1>3. <<r, a>> \in Runs \X Accounts /\ <<r, a>> \in DOMAIN task
  BY DEF SyncTypeOK
<1>4. task[<<r, a>>] \in [pc : {"none", "waiting", "list", "replace", "route"},
                         models : SUBSET Models, adding : SUBSET Models]
  BY <1>3 DEF SyncTypeOK
<1>5. \A t \in Runs \X Accounts : t # <<r, a>> => task'[t] = task[t]
  BY <1>1 DEF SyncTypeOK
<1>6. task'[<<r, a>>] = [task[<<r, a>>] EXCEPT !.models = @ \ {m},
                                              !.adding = {n \in {m} : routes[m] = 0}]
  BY <1>1, <1>2, <1>3
<1>7. /\ task'[<<r, a>>].pc = task[<<r, a>>].pc
      /\ task'[<<r, a>>].models = task[<<r, a>>].models \ {m}
      /\ task'[<<r, a>>].adding = {n \in {m} : routes[m] = 0}
  BY <1>4, <1>6
<1>8. m \in Models
  BY <1>0, <1>4
<1>9. /\ task[<<r, a>>].pc = "route" /\ task[<<r, a>>].adding = {}
      /\ caps' = caps /\ routes' = routes
  BY DEF CountRoutes
<1>. QED  BY <1>0, <1>5, <1>7, <1>8, <1>9

\* What an insert that does not fail does.
LEMMA Inserted ==
    ASSUME SyncTypeOK, TasksInv, NEW r \in Runs, NEW a \in Accounts, InsertRoute(r, a), ~faulty'
    PROVE  \E m \in Models :
             /\ \A t \in Runs \X Accounts : t # <<r, a>> => task'[t] = task[t]
             /\ task[<<r, a>>].adding = {m}
             /\ task'[<<r, a>>].pc = "route"
             /\ task'[<<r, a>>].models = task[<<r, a>>].models
             /\ task'[<<r, a>>].adding = {}
             /\ caps' = caps
             /\ \A n \in Models : n # m => routes'[n] = routes[n]
             /\ routes'[m] = routes[m] + 1
<1>1. PICK m \in task[<<r, a>>].adding : routes' = [routes EXCEPT ![m] = @ + 1]
  BY DEF InsertRoute
<1>2. <<r, a>> \in Runs \X Accounts /\ <<r, a>> \in DOMAIN task
  BY DEF SyncTypeOK
<1>3. task[<<r, a>>] \in [pc : {"none", "waiting", "list", "replace", "route"},
                         models : SUBSET Models, adding : SUBSET Models]
  BY <1>2 DEF SyncTypeOK
<1>4. m \in Models
  BY <1>1, <1>3
<1>5. task[<<r, a>>].adding = {m}
  BY <1>1, <1>2 DEF TasksInv
<1>6. task' = [task EXCEPT ![<<r, a>>].adding = {}] /\ caps' = caps /\ task[<<r, a>>].pc = "route"
  BY DEF InsertRoute
<1>7. \A t \in Runs \X Accounts : t # <<r, a>> => task'[t] = task[t]
  BY <1>6 DEF SyncTypeOK
<1>8. task'[<<r, a>>] = [task[<<r, a>>] EXCEPT !.adding = {}]
  BY <1>2, <1>6
<1>9. /\ task'[<<r, a>>].pc = task[<<r, a>>].pc
      /\ task'[<<r, a>>].models = task[<<r, a>>].models /\ task'[<<r, a>>].adding = {}
  BY <1>3, <1>8
<1>10. routes'[m] = routes[m] + 1 /\ \A n \in Models : n # m => routes'[n] = routes[n]
  BY <1>1, <1>4 DEF SyncTypeOK
<1>. QED  BY <1>4, <1>5, <1>6, <1>7, <1>9, <1>10

\* A goroutine that goes on keeps what the others see to.
LEMMA RoutedKept ==
    ASSUME Routed, SyncTypeOK, NEW r \in Runs, NEW a \in Accounts, NEW b \in Accounts,
           NEW n \in caps[b],
           \A t \in Runs \X Accounts : t # <<r, a>> => task'[t] = task[t],
           routes[n] > 0 => routes'[n] > 0,
           task[<<r, a>>].pc = "route" /\ n \in task[<<r, a>>].models \cup task[<<r, a>>].adding
             => \/ routes'[n] > 0
                \/ task'[<<r, a>>].pc = "route"
                   /\ n \in task'[<<r, a>>].models \cup task'[<<r, a>>].adding
    PROVE  \/ routes'[n] > 0
           \/ \E t \in Runs \X Accounts :
                task'[t].pc = "route" /\ n \in task'[t].models \cup task'[t].adding
<1>1. CASE routes[n] > 0
  BY <1>1
<1>2. CASE \E t \in Runs \X Accounts :
             task[t].pc = "route" /\ n \in task[t].models \cup task[t].adding
  <2>1. PICK t \in Runs \X Accounts :
             task[t].pc = "route" /\ n \in task[t].models \cup task[t].adding
    BY <1>2
  <2>2. CASE t # <<r, a>>
    BY <2>1, <2>2
  <2>3. CASE t = <<r, a>>
    BY <2>1, <2>3
  <2>. QED  BY <2>2, <2>3
<1>. QED  BY <1>1, <1>2 DEF Routed

\* A model with a capability keeps its row, or the goroutine that will see to it.
LEMMA RoutedNext ==
    ASSUME SyncTypeOK, SyncTypeOK', TasksInv, Routed, ~faulty, ~faulty', [SyncNext]_syncVars
    PROVE  Routed'
<1>. USE DEF Routed, SyncTypeOK
<1>1. ASSUME NEW r \in Runs, SyncAll(r) PROVE Routed'
  BY <1>1 DEF SyncAll, TasksInv
<1>2. ASSUME NEW r \in Runs, NEW a \in Accounts, TakeSlot(r, a) PROVE Routed'
  BY <1>2 DEF TakeSlot
<1>3. ASSUME NEW r \in Runs, NEW a \in Accounts, ListModels(r, a) PROVE Routed'
  BY <1>3 DEF ListModels
<1>4. ASSUME NEW r \in Runs, NEW a \in Accounts,
             ListFails(r, a) \/ ReplaceFails(r, a) \/ SyncSucceeds(r, a)
      PROVE Routed'
  BY <1>4 DEF ListFails, ReplaceFails, SyncSucceeds, EndTask
<1>5. ASSUME NEW r \in Runs, NEW a \in Accounts, ReplaceCapabilities(r, a) PROVE Routed'
  <2>1. /\ task[<<r, a>>].pc = "replace" /\ routes' = routes
        /\ caps' = [caps EXCEPT ![a] = task[<<r, a>>].models]
        /\ task'[<<r, a>>].pc = "route" /\ task'[<<r, a>>].models = task[<<r, a>>].models
    BY <1>5 DEF ReplaceCapabilities
  <2>2. \A t \in Runs \X Accounts : t # <<r, a>> => task'[t] = task[t]
    BY <1>5 DEF ReplaceCapabilities
  <2>3. SUFFICES ASSUME NEW b \in Accounts, NEW n \in caps'[b]
                 PROVE  \/ routes'[n] > 0
                        \/ \E t \in Runs \X Accounts :
                             task'[t].pc = "route" /\ n \in task'[t].models \cup task'[t].adding
    OBVIOUS
  <2>4. CASE b = a
    <3>1. n \in task[<<r, a>>].models /\ <<r, a>> \in Runs \X Accounts
      BY <2>1, <2>3, <2>4
    <3>. QED  BY <2>1, <3>1
  <2>5. CASE b # a
    <3>1. n \in caps[b]
      BY <2>1, <2>3, <2>5
    <3>. HIDE DEF Routed, SyncTypeOK
    <3>. QED  BY <2>1, <2>2, <3>1, RoutedKept
  <2>. QED  BY <2>4, <2>5
<1>6. ASSUME NEW r \in Runs, NEW a \in Accounts,
             CountRoutes(r, a) \/ InsertRoute(r, a)
      PROVE  Routed'
  <2>1. /\ \A t \in Runs \X Accounts : t # <<r, a>> => task'[t] = task[t]
        /\ caps' = caps
        /\ \A n \in Models :
             /\ routes[n] > 0 => routes'[n] > 0
             /\ task[<<r, a>>].pc = "route"
                  /\ n \in task[<<r, a>>].models \cup task[<<r, a>>].adding
                => \/ routes'[n] > 0
                   \/ task'[<<r, a>>].pc = "route"
                      /\ n \in task'[<<r, a>>].models \cup task'[<<r, a>>].adding
    <3>1. \A n \in Models : routes[n] \in Nat
      OBVIOUS
    <3>. HIDE DEF Routed, SyncTypeOK
    <3>2. CASE CountRoutes(r, a)
      <4>1. PICK m \in Models :
             /\ \A t \in Runs \X Accounts : t # <<r, a>> => task'[t] = task[t]
             /\ m \in task[<<r, a>>].models
             /\ task'[<<r, a>>].pc = "route"
             /\ task'[<<r, a>>].models = task[<<r, a>>].models \ {m}
             /\ task[<<r, a>>].adding = {}
             /\ task'[<<r, a>>].adding = {n \in {m} : routes[m] = 0}
             /\ caps' = caps
             /\ routes' = routes
        BY <3>2, Counted
      <4>2. routes[m] > 0 \/ m \in task'[<<r, a>>].adding
        BY <3>1, <4>1
      <4>. QED  BY <4>1, <4>2
    <3>3. CASE InsertRoute(r, a)
      <4>1. PICK m \in Models :
             /\ \A t \in Runs \X Accounts : t # <<r, a>> => task'[t] = task[t]
             /\ task[<<r, a>>].adding = {m}
             /\ task'[<<r, a>>].pc = "route"
             /\ task'[<<r, a>>].models = task[<<r, a>>].models
             /\ task'[<<r, a>>].adding = {}
             /\ caps' = caps
             /\ \A n \in Models : n # m => routes'[n] = routes[n]
             /\ routes'[m] = routes[m] + 1
        BY <3>3, Inserted
      <4>2. routes'[m] > 0
        BY <3>1, <4>1
      <4>. QED  BY <4>1, <4>2
    <3>. QED  BY <1>6, <3>2, <3>3
  <2>2. SUFFICES ASSUME NEW b \in Accounts, NEW n \in caps[b]
                 PROVE  \/ routes'[n] > 0
                        \/ \E t \in Runs \X Accounts :
                             task'[t].pc = "route" /\ n \in task'[t].models \cup task'[t].adding
    BY <2>1
  <2>3. n \in Models
    BY <2>2
  <2>. HIDE DEF Routed, SyncTypeOK
  <2>. QED  BY <2>1, <2>3, RoutedKept
<1>8. CASE Crash
  BY <1>8 DEF Crash
<1>9. CASE UNCHANGED <<caps, routes, task>>
  BY <1>9
<1>. QED
  BY <1>1, <1>2, <1>3, <1>4, <1>5, <1>6, <1>8, <1>9
     DEF SyncNext, Work, Return, Activate, Deactivate, syncVars

\* A goroutine that adds a row holds a slot.
LEMMA AddersHold ==
    ASSUME SyncTypeOK, SlotsInv, TasksInv, NEW m \in Models
    PROVE  /\ IsFiniteSet(Adders(m))
           /\ Cardinality(Adders(m)) \in Nat
           /\ Cardinality(Adders(m)) =< Slots * Cardinality(Runs)
<1>1. Adders(m) \subseteq AllHolders
  <2>1. ASSUME NEW t \in Adders(m) PROVE t \in AllHolders
    <3>1. t \in Runs \X Accounts /\ task[t].pc = "route"
      BY DEF Adders, TasksInv
    <3>2. t = <<t[1], t[2]>> /\ t[1] \in Runs /\ t[2] \in Accounts
      BY <3>1
    <3>. QED  BY <3>1, <3>2 DEF AllHolders, Holders
  <2>. QED  BY <2>1
<1>2. IsFiniteSet(Adders(m)) /\ Cardinality(Adders(m)) =< Cardinality(AllHolders)
  BY <1>1, HoldersBounded, FS_Subset
<1>3. Cardinality(Adders(m)) \in Nat
  BY <1>2, FS_CardinalityType
<1>. QED  BY <1>2, <1>3, HoldersBounded

AddersFew ==
    \A m \in Models : Cardinality(Adders(m)) \in 0..(Slots * Cardinality(Runs))

LEMMA AddersBounded == SyncTypeOK /\ SlotsInv /\ TasksInv => AddersFew
<1>. SUFFICES ASSUME SyncTypeOK, SlotsInv, TasksInv, NEW m \in Models
              PROVE  Cardinality(Adders(m)) \in 0..(Slots * Cardinality(Runs))
  BY DEF AddersFew
<1>. QED  BY AddersHold, HoldersBounded

LEMMA AddersBoundedNext == SyncTypeOK' /\ SlotsInv' /\ TasksInv' => AddersFew'
  BY AddersBounded, PTL

\* Rows and goroutines that add one: a goroutine only begins to while there is none.
LEMMA RoutesInvNext ==
    ASSUME SyncTypeOK, SyncTypeOK', SlotsInv, SlotsInv', TasksInv, TasksInv', RoutesInv,
           ~faulty, ~faulty', [SyncNext]_syncVars
    PROVE  RoutesInv'
<1>1. ASSUME routes' = routes, \A m \in Models : Adders(m)' = Adders(m) PROVE RoutesInv'
  BY <1>1 DEF RoutesInv
<1>2. ASSUME routes' = routes, NEW r \in Runs, NEW a \in Accounts,
             \A t \in Runs \X Accounts : t # <<r, a>> => task'[t] = task[t],
             task'[<<r, a>>].adding = task[<<r, a>>].adding
      PROVE  RoutesInv'
  <2>1. ASSUME NEW m \in Models PROVE Adders(m)' = Adders(m)
    BY <1>2 DEF Adders
  <2>. QED  BY <1>1, <1>2, <2>1
<1>3. ASSUME NEW r \in Runs, SyncAll(r) PROVE RoutesInv'
  <2>1. ASSUME NEW m \in Models PROVE Adders(m)' = Adders(m)
    BY <1>3 DEF SyncAll, Adders, TasksInv, NoTask
  <2>. QED  BY <1>1, <1>3, <2>1 DEF SyncAll
<1>4. ASSUME NEW r \in Runs, NEW a \in Accounts,
             \/ TakeSlot(r, a) \/ ListModels(r, a) \/ ReplaceCapabilities(r, a)
             \/ ListFails(r, a) \/ ReplaceFails(r, a) \/ SyncSucceeds(r, a)
      PROVE  RoutesInv'
  <2>1. CASE TakeSlot(r, a)
    BY <1>2, <2>1 DEF TakeSlot, SyncTypeOK
  <2>2. CASE ListModels(r, a)
    BY <1>2, <2>2 DEF ListModels, SyncTypeOK
  <2>3. CASE ReplaceCapabilities(r, a)
    BY <1>2, <2>3 DEF ReplaceCapabilities, SyncTypeOK
  <2>4. CASE ListFails(r, a) \/ ReplaceFails(r, a) \/ SyncSucceeds(r, a)
    <3>1. EndTask(r, a) /\ routes' = routes
      BY <2>4 DEF ListFails, ReplaceFails, SyncSucceeds
    <3>2. task[<<r, a>>].adding = {}
      BY <2>4 DEF ListFails, ReplaceFails, SyncSucceeds, TasksInv
    <3>3. task'[<<r, a>>].adding = {}
      BY <3>1 DEF EndTask, SyncTypeOK, NoTask
    <3>4. \A t \in Runs \X Accounts : t # <<r, a>> => task'[t] = task[t]
      BY <3>1 DEF EndTask, SyncTypeOK
    <3>. QED  BY <1>2, <3>1, <3>2, <3>3, <3>4
  <2>. QED  BY <1>4, <2>1, <2>2, <2>3, <2>4
<1>5. ASSUME NEW r \in Runs, NEW a \in Accounts, CountRoutes(r, a) PROVE RoutesInv'
  <2>1. PICK m \in Models :
          /\ \A t \in Runs \X Accounts : t # <<r, a>> => task'[t] = task[t]
          /\ task[<<r, a>>].adding = {}
          /\ task'[<<r, a>>].adding = {n \in {m} : routes[m] = 0}
          /\ routes' = routes
    BY <1>5, Counted
  <2>2. CASE routes[m] # 0
    <3>1. task'[<<r, a>>].adding = task[<<r, a>>].adding
      BY <2>1, <2>2
    <3>. QED  BY <1>2, <2>1, <3>1
  <2>3. CASE routes[m] = 0
    <3>1. ASSUME NEW n \in Models, n # m PROVE Adders(n)' = Adders(n)
      BY <2>1, <3>1 DEF Adders
    <3>2. AddersFew'
      BY AddersBoundedNext
    <3>3. routes'[m] + Cardinality(Adders(m)') =< Slots * Cardinality(Runs)
      <4>1. Cardinality(Adders(m)') \in 0..(Slots * Cardinality(Runs))
        BY <3>2 DEF AddersFew
      <4>2. Slots * Cardinality(Runs) \in Nat
        BY HoldersBounded
      <4>. QED  BY <2>1, <2>3, <4>1, <4>2
    <3>. QED  BY <2>1, <3>1, <3>3 DEF RoutesInv
  <2>. QED  BY <2>2, <2>3
<1>6. ASSUME NEW r \in Runs, NEW a \in Accounts, InsertRoute(r, a) PROVE RoutesInv'
  <2>1. PICK m \in Models :
          /\ \A t \in Runs \X Accounts : t # <<r, a>> => task'[t] = task[t]
          /\ task[<<r, a>>].adding = {m}
          /\ task'[<<r, a>>].adding = {}
          /\ \A n \in Models : n # m => routes'[n] = routes[n]
          /\ routes'[m] = routes[m] + 1
    BY <1>6, Inserted
  <2>2. ASSUME NEW n \in Models, n # m PROVE Adders(n)' = Adders(n)
    BY <2>1, <2>2 DEF Adders
  <2>3. Adders(m)' = Adders(m) \ {<<r, a>>} /\ <<r, a>> \in Adders(m)
    BY <2>1 DEF Adders
  <2>4. IsFiniteSet(Adders(m)) /\ Cardinality(Adders(m)) \in Nat
    BY AddersHold
  <2>5. Cardinality(Adders(m)') = Cardinality(Adders(m)) - 1
    BY <2>3, <2>4, FS_RemoveElement
  <2>6. /\ routes[m] + Cardinality(Adders(m)) =< Slots * Cardinality(Runs)
        /\ Slots * Cardinality(Runs) \in Nat /\ routes[m] \in Nat
    BY HoldersBounded DEF RoutesInv, SyncTypeOK
  <2>7. routes'[m] + Cardinality(Adders(m)') =< Slots * Cardinality(Runs)
    BY <2>1, <2>4, <2>5, <2>6
  <2>. QED  BY <2>1, <2>2, <2>7 DEF RoutesInv
<1>7. CASE Crash
  BY <1>7 DEF Crash
<1>8. CASE UNCHANGED <<routes, task>>
  BY <1>1, <1>8 DEF Adders
<1>. QED
  BY <1>3, <1>4, <1>5, <1>6, <1>7, <1>8
     DEF SyncNext, Work, Return, Activate, Deactivate, syncVars

-----------------------------------------------------------------------------
\* A fault is not forgotten.
LEMMA FaultyNext ==
    ASSUME faulty \in BOOLEAN, [SyncNext]_syncVars
    PROVE  faulty' \in BOOLEAN /\ (~faulty' => ~faulty)
<1>1. ASSUME NEW r \in Runs, NEW a \in Accounts, CountRoutes(r, a)
      PROVE  faulty' \in BOOLEAN /\ (~faulty' => ~faulty)
  <2>1. PICK failed \in BOOLEAN : faulty' = (faulty \/ failed)
    BY <1>1, Zenon DEF CountRoutes
  <2>. QED  BY <2>1, Zenon
<1>2. CASE faulty' = faulty \/ faulty' = TRUE
  BY <1>2
<1>3. (\E r \in Runs, a \in Accounts : CountRoutes(r, a)) \/ faulty' = faulty \/ faulty' = TRUE
  BY DEF SyncNext, Work, SyncAll, Return, TakeSlot, ListModels, ListFails,
         ReplaceCapabilities, ReplaceFails, InsertRoute, SyncSucceeds, Activate,
         Deactivate, Crash, syncVars
<1>. QED  BY <1>1, <1>2, <1>3

LEMMA SyncTypeNext ==
    ASSUME SyncInv, [SyncNext]_syncVars
    PROVE  SyncTypeOK'
<1>1. TasksTyped' /\ taken' \in [Runs -> 0..Slots]
  <2>1. SyncTypeOK /\ SlotsInv /\ TasksInv
    BY DEF SyncInv
  <2>2. TasksTyped
    BY <2>1 DEF SyncTypeOK, TasksTyped
  <2>3. TasksTyped'
    BY <2>1, <2>2, TasksTypedNext
  <2>4. SlotsInv'
    BY <2>1, SlotsInvNext
  <2>. QED  BY <2>3, <2>4 DEF SlotsInv
<1>2. active' \subseteq Accounts /\ faulty' \in BOOLEAN
  <2>1. active' \subseteq Accounts
    BY DEF SyncInv, SyncTypeOK, CountRoutes, SyncNext, Work, SyncAll, Return, TakeSlot, ListModels, ListFails,
           ReplaceCapabilities, ReplaceFails, InsertRoute, SyncSucceeds, Activate,
           Deactivate, Crash, syncVars
  <2>2. faulty' \in BOOLEAN
    BY FaultyNext DEF SyncInv, SyncTypeOK
  <2>. QED  BY <2>1, <2>2
<1>3. caps' \in [Accounts -> SUBSET Models]
  <2>1. ASSUME NEW r \in Runs, NEW a \in Accounts, ReplaceCapabilities(r, a)
        PROVE  caps' \in [Accounts -> SUBSET Models]
    <3>1. task[<<r, a>>].models \subseteq Models
      BY DEF SyncInv, SyncTypeOK
    <3>2. caps' = [caps EXCEPT ![a] = task[<<r, a>>].models]
      BY <2>1 DEF ReplaceCapabilities
    <3>. QED  BY <3>1, <3>2 DEF SyncInv, SyncTypeOK
  <2>2. (\E r \in Runs, a \in Accounts : ReplaceCapabilities(r, a)) \/ caps' = caps
    BY DEF SyncNext, Work, SyncAll, Return, TakeSlot, ListModels, ListFails,
           ReplaceFails, CountRoutes, InsertRoute, SyncSucceeds, Activate,
           Deactivate, Crash, syncVars
  <2>. QED  BY <2>1, <2>2 DEF SyncInv, SyncTypeOK
<1>4. routes' \in [Models -> Nat]
  <2>1. (\E m \in Models : routes' = [routes EXCEPT ![m] = @ + 1]) \/ routes' = routes
    <3>1. ASSUME NEW r \in Runs, NEW a \in Accounts, InsertRoute(r, a)
          PROVE  (\E m \in Models : routes' = [routes EXCEPT ![m] = @ + 1]) \/ routes' = routes
      <4>1. task[<<r, a>>].adding \subseteq Models
        BY DEF SyncInv, SyncTypeOK
      <4>. QED  BY <3>1, <4>1 DEF InsertRoute
    <3>2. (\E r \in Runs, a \in Accounts : InsertRoute(r, a)) \/ routes' = routes
      BY DEF SyncNext, Work, SyncAll, Return, TakeSlot, ListModels, ListFails,
             ReplaceCapabilities, ReplaceFails, CountRoutes, SyncSucceeds, Activate,
             Deactivate, Crash, syncVars
    <3>. QED  BY <3>1, <3>2
  <2>. QED  BY <2>1 DEF SyncInv, SyncTypeOK
<1>5. run' \in [Runs -> {"idle", "running"}]
  BY DEF SyncInv, SyncTypeOK, SyncNext, Work, SyncAll, Return, TakeSlot, ListModels, ListFails,
         ReplaceCapabilities, ReplaceFails, CountRoutes, InsertRoute, SyncSucceeds, Activate,
         Deactivate, Crash, syncVars
<1>. QED  BY <1>1, <1>2, <1>3, <1>4, <1>5 DEF SyncTypeOK, TasksTyped

LEMMA SyncInvInit == SyncInit => SyncInv
<1>. SUFFICES ASSUME SyncInit PROVE SyncInv
  OBVIOUS
<1>1. SyncTypeOK
  <2>1. Slots \in Nat
    BY SyncAssumption
  <2>2. taken \in [Runs -> 0..Slots] /\ routes \in [Models -> Nat]
    BY <2>1 DEF SyncInit
  <2>3. faulty \in BOOLEAN
    BY DEF SyncInit
  <2>4. active \subseteq Accounts /\ caps \in [Accounts -> SUBSET Models]
        /\ run \in [Runs -> {"idle", "running"}]
    BY DEF SyncInit
  <2>5. task \in [Runs \X Accounts ->
                     [pc : {"none", "waiting", "list", "replace", "route"},
                      models : SUBSET Models, adding : SUBSET Models]]
    BY TaskTyped DEF SyncInit
  <2>. QED  BY <2>2, <2>3, <2>4, <2>5 DEF SyncTypeOK
<1>2. SlotsInv
  <2>1. ASSUME NEW r \in Runs PROVE Holders(r) = {}
    BY DEF SyncInit, Holders, NoTask
  <2>2. taken \in [Runs -> 0..Slots] /\ \A r \in Runs : taken[r] = 0
    BY SyncAssumption DEF SyncInit
  <2>. QED  BY <2>1, <2>2, FS_EmptySet DEF SlotsInv
<1>3. TasksInv
  BY DEF SyncInit, TasksInv, NoTask
<1>4. Routed
  BY DEF SyncInit, Routed
<1>5. RoutesInv
  BY <1>1, <1>2, <1>3, AddersHold DEF SyncInit, RoutesInv
<1>. QED  BY <1>1, <1>2, <1>3, <1>4, <1>5 DEF SyncInv

LEMMA SyncInvNext == SyncInv /\ [SyncNext]_syncVars => SyncInv'
<1>. SUFFICES ASSUME SyncInv, [SyncNext]_syncVars PROVE SyncInv'
  OBVIOUS
<1>1. SyncTypeOK /\ SlotsInv /\ TasksInv
  BY DEF SyncInv
<1>2. SyncTypeOK' /\ SlotsInv' /\ TasksInv'
  <2>1. SyncTypeOK'
    BY SyncTypeNext
  <2>2. SlotsInv'
    BY <1>1, SlotsInvNext
  <2>3. TasksInv'
    BY <1>1, TasksInvNext
  <2>. QED  BY <2>1, <2>2, <2>3
<1>3. ~faulty' => ~faulty
  BY <1>1, FaultyNext DEF SyncTypeOK
<1>4. ~faulty' => Routed' /\ RoutesInv'
  BY <1>1, <1>2, <1>3, RoutedNext, RoutesInvNext DEF SyncInv
<1>. QED  BY <1>2, <1>4 DEF SyncInv

LEMMA SyncInvariant == SyncSpec => []SyncInv
  BY SyncInvInit, SyncInvNext, PTL DEF SyncSpec

\* Every state is well typed: no run ever has more goroutines at work than slots.
THEOREM SyncTypes == SyncSpec => []SyncTypeOK
<1>1. SyncInv => SyncTypeOK
  BY DEF SyncInv
<1>. QED  BY <1>1, SyncInvariant, PTL

\* However many runs overlap, a model has no more rows than there are slots.
THEOREM DuplicatesAreBounded == SyncSpec => []DuplicatesBounded
<1>1. SyncInv => DuplicatesBounded
  <2>. SUFFICES ASSUME SyncInv, ~faulty, NEW m \in Models
                PROVE  routes[m] =< Slots * Cardinality(Runs)
    BY DEF DuplicatesBounded
  <2>1. routes[m] + Cardinality(Adders(m)) =< Slots * Cardinality(Runs) /\ routes[m] \in Nat
    BY DEF SyncInv, RoutesInv, SyncTypeOK
  <2>2. Cardinality(Adders(m)) \in Nat /\ Slots * Cardinality(Runs) \in Nat
    BY AddersHold, HoldersBounded DEF SyncInv
  <2>. QED  BY <2>1, <2>2
<1>. QED  BY <1>1, SyncInvariant, PTL

\* What an active account can serve is listed, or about to be.
THEOREM CapabilitiesAreListed == SyncSpec => []CapabilityListed
<1>1. SyncInv => CapabilityListed
  <2>. SUFFICES ASSUME SyncInv, ~faulty, NEW a \in active, NEW m \in caps[a]
                PROVE  \/ m \in Listed
                       \/ \E t \in DOMAIN task :
                            task[t].pc = "route" /\ m \in task[t].models \cup task[t].adding
    BY DEF CapabilityListed
  <2>1. a \in Accounts /\ m \in Models /\ DOMAIN task = Runs \X Accounts
    BY DEF SyncInv, SyncTypeOK
  <2>2. \/ routes[m] > 0
        \/ \E t \in Runs \X Accounts :
             task[t].pc = "route" /\ m \in task[t].models \cup task[t].adding
    BY <2>1 DEF SyncInv, Routed
  <2>. QED  BY <2>1, <2>2 DEF Listed
<1>. QED  BY <1>1, SyncInvariant, PTL
=============================================================================
