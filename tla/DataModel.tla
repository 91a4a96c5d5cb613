------------------------------- MODULE DataModel -------------------------------
(***************************************************************************)
(* DataModelBase and DataModelCenterService: threads change an item of a   *)
(* model, which tells the center, which tells its readers; a reader asks   *)
(* the center for the model, and then the model for the item.  Every lock  *)
(* is held for one step, and no step holds two of them one after the       *)
(* other; callbacks run on copies, outside the locks.  The item is a list, *)
(* as the set of its entries; the children of an object and the entries of *)
(* a child list change in the same way.  The models share one id, under    *)
(* which the center knows at most one of them.                             *)
(***************************************************************************)
EXTENDS Naturals, FiniteSets

CONSTANTS Threads, Models, Readers,
          Entries,     \* what a list may hold
          GivenLists,  \* the lists that are given as a whole
          MaxChanges   \* bound on the changes and on the changes of the center
ASSUME DataModelAssumption == MaxChanges \in Nat /\ GivenLists \subseteq SUBSET Entries

\* The item is not in the dictionary, or it is a list.
Absent == [here |-> FALSE, list |-> {}]
List(v) == [here |-> TRUE, list |-> v]
NoModel == "none"
ASSUME NoModelAssumption == NoModel \notin Models

VARIABLES
    item,       \* values_[itemId] of each model
    job,        \* what each thread is doing
    entry,      \* the model in models_, or none
    hooks,      \* subscriptions of the center in callbacks_ of each model
    leaving,    \* calls of unregisterModel still to unsubscribe from each model
    listening,  \* callbacks_ of the center
    seen,       \* what each reader read last
    missed,     \* history: the last change came when the reader was not told
                \* of this model
    due,        \* history: the entries the calls asked for, one after the other
    overtaken,  \* history: the model a reader read last was not, or no longer,
                \* the one of the center when it read
    clash,      \* history: the entries of which an edit wrote back an old state,
                \* since another call wrote between its read and its write
    changes     \* changes so far
modelVars == <<item, job, entry, hooks, leaving, listening, seen, missed, overtaken, due, clash, changes>>
centerVars == <<entry, hooks, leaving, listening>>

Idle == [at |-> "idle", model |-> NoModel]

ModelInit ==
    /\ item = [m \in Models |-> Absent]
    /\ job = [t \in Threads |-> Idle]
    /\ entry = NoModel /\ hooks = [m \in Models |-> 0] /\ leaving = [m \in Models |-> 0]
    /\ listening = {}
    /\ seen = [r \in Readers |-> Absent] /\ missed = [r \in Readers |-> TRUE]
    /\ overtaken = [r \in Readers |-> FALSE]
    /\ due = [m \in Models |-> {}] /\ clash = [m \in Models |-> {}]
    /\ changes = 0

Budget == changes < MaxChanges /\ changes' = changes + 1

(* ------------------------------ the changes ------------------------------ *)

Differ(s, u) == (s \ u) \cup (u \ s)

\* The locked part of setValue, removeValue and reset: the item becomes v,
\* and thread t goes on to tell if there is something to tell.
Put(t, m, v, tell) ==
    /\ item' = [item EXCEPT ![m] = v]
    /\ job' = [u \in Threads |->
                CASE u = t -> IF tell THEN [at |-> "notify", model |-> m] ELSE Idle
                  [] u # t /\ job[u].at = "edit" /\ job[u].model = m ->
                        [job[u] EXCEPT !.others = @ \cup Differ(item[m].list, v.list)]
                  [] OTHER -> job[u]]
    /\ missed' = IF tell /\ m = entry
                 THEN [r \in Readers |-> missed[r] /\ r \notin listening] ELSE missed
    /\ UNCHANGED <<centerVars, seen, overtaken>>

\* setValue, setList: nothing is told if the value is the same.
SetItem(t, m, v) ==
    /\ job[t] = Idle /\ Budget
    /\ Put(t, m, List(v), item[m] # List(v))
    /\ due' = [due EXCEPT ![m] = v] /\ clash' = [clash EXCEPT ![m] = {}]

RemoveItem(t, m) ==
    /\ job[t] = Idle /\ Budget
    /\ Put(t, m, Absent, item[m] # Absent)
    /\ due' = [due EXCEPT ![m] = {}] /\ clash' = [clash EXCEPT ![m] = {}]

ResetModel(t, m, v) ==
    /\ job[t] = Idle /\ Budget
    /\ Put(t, m, v, TRUE)
    /\ due' = [due EXCEPT ![m] = v.list] /\ clash' = [clash EXCEPT ![m] = {}]

\* appendListItem (nothing out), removeListItem (nothing in), updateListItem,
\* and the same for children: the item is read here,
ReadForEdit(t, m, out, in) ==
    /\ job[t] = Idle /\ Budget
    /\ Cardinality(out) <= 1 /\ Cardinality(in) <= 1 /\ out # in
    /\ out \subseteq item[m].list /\ in \cap item[m].list = {}
    /\ job' = [job EXCEPT ![t] = [at |-> "edit", model |-> m, copy |-> item[m].list,
                                  out |-> out, in |-> in, others |-> {}]]
    /\ UNCHANGED <<item, centerVars, seen, missed, overtaken, due, clash>>

\* Mutant: an item that is replaced stays in the list.
WriteAdded(t) ==
    /\ job[t].at = "edit"
    /\ LET m == job[t].model
           v == List(job[t].copy \cup job[t].in)
       IN  /\ Put(t, m, v, item[m] # v)
           /\ due' = [due EXCEPT ![m] = (@ \ job[t].out) \cup job[t].in]
           /\ clash' = [clash EXCEPT ![m] = (@ \cup job[t].others) \ (job[t].out \cup job[t].in)]
    /\ UNCHANGED changes
\* and the changed copy is written here.
WriteEdit(t) ==
    /\ job[t].at = "edit"
    /\ LET m == job[t].model
           v == List((job[t].copy \ job[t].out) \cup job[t].in)
       IN  /\ Put(t, m, v, item[m] # v)
           /\ due' = [due EXCEPT ![m] = (@ \ job[t].out) \cup job[t].in]
           /\ clash' = [clash EXCEPT ![m] = (@ \cup job[t].others) \ (job[t].out \cup job[t].in)]
    /\ UNCHANGED changes

(* ------------------------------ the telling ------------------------------ *)

Go(t, where) == job' = [job EXCEPT ![t] = where]

\* notify: the callbacks of the model, one for each subscription of the center,
CopyHooks(t) ==
    /\ job[t].at = "notify"
    /\ Go(t, [at |-> "dispatch", model |-> job[t].model, left |-> hooks[job[t].model]])
    /\ UNCHANGED <<item, centerVars, seen, missed, overtaken, due, clash, changes>>

\* each of which is dispatchModelUpdated: the readers are copied,
CopyReaders(t) ==
    /\ job[t].at = "dispatch"
    /\ Go(t, IF job[t].left = 0 THEN Idle
             ELSE [at |-> "call", model |-> job[t].model, left |-> job[t].left - 1,
                   readers |-> listening])
    /\ UNCHANGED <<item, centerVars, seen, missed, overtaken, due, clash, changes>>

\* and called, in any order.  A reader asks the center for the model,
CallReader(t) ==
    /\ job[t].at = "call"
    /\ IF job[t].readers = {}
       THEN Go(t, [at |-> "dispatch", model |-> job[t].model, left |-> job[t].left])
       ELSE \E r \in job[t].readers :
                LET rest == [job[t] EXCEPT !.readers = @ \ {r}]
                IN  Go(t, IF entry = NoModel THEN rest
                          ELSE [at |-> "read", reader |-> r, from |-> entry, then |-> rest])
    /\ UNCHANGED <<item, centerVars, seen, missed, overtaken, due, clash, changes>>

\* and reads the item of the model it was given.
ReadItem(t) ==
    /\ job[t].at = "read"
    /\ Go(t, job[t].then)
    /\ seen' = [seen EXCEPT ![job[t].reader] = item[job[t].from]]
    /\ overtaken' = [overtaken EXCEPT ![job[t].reader] = job[t].from # entry]
    /\ UNCHANGED <<item, centerVars, missed, due, clash, changes>>

(* ------------------------------ the center ------------------------------ *)

AllMiss == missed' = [r \in Readers |-> TRUE]

\* Mutant: the model that replaces another is not subscribed to.
RegisterUnheard(m) ==
    /\ entry # m /\ Budget
    /\ hooks' = [n \in Models |-> hooks[n] + (IF n = m /\ entry = NoModel THEN 1 ELSE 0)
                                           - (IF n = entry THEN 1 ELSE 0)]
    /\ entry' = m
    /\ AllMiss
    /\ UNCHANGED <<item, job, leaving, listening, seen, overtaken, due, clash>>
\* registerModel: another model under the id is unsubscribed from.
RegisterModel(m) ==
    /\ entry # m /\ Budget
    /\ hooks' = [n \in Models |-> hooks[n] + (IF n = m THEN 1 ELSE 0)
                                           - (IF n = entry THEN 1 ELSE 0)]
    /\ entry' = m
    /\ AllMiss
    /\ UNCHANGED <<item, job, leaving, listening, seen, overtaken, due, clash>>

\* unregisterModel, in two locked parts
UnregisterModel ==
    /\ entry # NoModel
    /\ leaving' = [leaving EXCEPT ![entry] = @ + 1] /\ entry' = NoModel
    /\ AllMiss
    /\ UNCHANGED <<item, job, hooks, listening, seen, overtaken, due, clash, changes>>
LeaveModel(m) ==
    /\ leaving[m] > 0 /\ leaving' = [leaving EXCEPT ![m] = @ - 1]
    /\ hooks' = [hooks EXCEPT ![m] = @ - 1]
    /\ UNCHANGED <<item, job, entry, listening, seen, missed, overtaken, due, clash, changes>>

Listen(r) ==
    /\ r \notin listening /\ Budget
    /\ listening' = listening \cup {r}
    /\ missed' = [missed EXCEPT ![r] = TRUE]
    /\ UNCHANGED <<item, job, entry, hooks, leaving, seen, overtaken, due, clash>>
StopListening(r) ==
    /\ r \in listening /\ listening' = listening \ {r}
    /\ UNCHANGED <<item, job, entry, hooks, leaving, seen, missed, overtaken, due, clash, changes>>

ModelNext ==
    \/ \E t \in Threads, m \in Models :
        \/ \E v \in GivenLists : SetItem(t, m, v) \/ ResetModel(t, m, List(v))
        \/ RemoveItem(t, m) \/ ResetModel(t, m, Absent)
        \/ \E out, in \in SUBSET Entries : ReadForEdit(t, m, out, in)
    \/ \E t \in Threads : WriteEdit(t) \/ CopyHooks(t) \/ CopyReaders(t) \/ CallReader(t) \/ ReadItem(t)
    \/ \E m \in Models : RegisterModel(m) \/ LeaveModel(m)
    \/ UnregisterModel
    \/ \E r \in Readers : Listen(r) \/ StopListening(r)
ModelSpec == ModelInit /\ [][ModelNext]_modelVars

-----------------------------------------------------------------------------
(* Once the threads are done, every reader has seen the item as it is, if  *)
(* it was listening when the item last changed: callbacks may come late,   *)
(* twice or in another order, but the last to read reads after the last    *)
(* change.  Except a reader whose last read was of a model it was given    *)
(* before another took its place: that one keeps an old value.             *)
ReadersCatchUp ==
    (\A t \in Threads : job[t] = Idle) /\ entry # NoModel =>
        \A r \in listening : missed[r] \/ overtaken[r] \/ seen[r] = item[entry]

(* An edit of a list undoes nothing but what other calls wrote between its *)
(* read and its write: every other entry is in the list if and only if the *)
(* calls, one after the other, leave it there.                             *)
EditsSurvive ==
    \A m \in Models : \A e \in Entries \ clash[m] : e \in due[m] <=> e \in item[m].list
=============================================================================
