--------------------------- MODULE CIPoolController ---------------------------
(***************************************************************************)
(* The CIPool reconciler, controllers/cipool_controller.go: it keeps as    *)
(* many CIResources per pool as Spec.Size asks for, and lets a deleted     *)
(* pool go when its CIResources have gone.                                 *)
(*                                                                         *)
(* It reads pools and lists CIResources from informers, which lag behind   *)
(* the API server, and makes its changes one request at a time: clients,   *)
(* administrators and the CIResource reconciler work in between.  One      *)
(* worker serves all pools.  The CIResources are those of                  *)
(* CIResourcePhases; their names are numerals ("cir-0001" is 1).           *)
(***************************************************************************)
EXTENDS CIResourcePhases, Integers

CONSTANTS
    MaxSize,    \* bound on Spec.Size
    Mishaps,    \* what else may happen, once each
    MaxMishaps  \* bound on how many of them

Informer == "informer"
PoolReconciler == "pool reconciler"

\* fault: a request fails or the operator dies; the others are the work of
\* administrators and clients.
MishapKinds ==
    { "fault", "resize", "offline", "delete pool", "delete", "acquire", "maintenance" }

ASSUME PoolAssumption ==
    /\ IsFiniteSet(CIRs) /\ CIRs = 1..Cardinality(CIRs)
    /\ Readers = {Informer, PoolReconciler}
    /\ MaxSize \in Nat /\ MaxMishaps \in Nat
    /\ Mishaps \subseteq MishapKinds

VARIABLES
    pool,        \* the CIPool objects
    poolCache,   \* the informer's copies of them
    poolLatest,  \* pools of which that copy is the latest version
    seen,        \* the PoolRefs of the CIResources in the informer's store
    work,        \* the requests the worker has still to make, or NoWork
    mishaps      \* ghost: those of Mishaps that have happened

poolVars == <<pool, poolCache, poolLatest>>
vars == <<phaseVars, poolVars, seen, work, mishaps>>

PoolObjects ==
    [ live : BOOLEAN, fin : BOOLEAN, del : BOOLEAN, size : 0..MaxSize,
      spec : {"available", "offline"}, state : {"none", "available", "offline"},
      count : 0..Cardinality(CIRs) ]

NewPool(size) ==
    [ live |-> TRUE, fin |-> FALSE, del |-> FALSE, size |-> size,
      spec |-> "available", state |-> "none", count |-> 0 ]

NoPoolObject == [NewPool(0) EXCEPT !.live = FALSE]

NoWork == [op |-> "none"]

Works ==
    [op : {"create"}, pool : Pools, next : Nat, last : Nat]
    \union [op : {"evict"}, todo : SUBSET CIRs, idle : SUBSET CIRs, sorted : BOOLEAN,
            selected : Nat, excess : Nat]
    \union {NoWork}

TypeOK ==
    /\ PhaseTypeOK
    /\ pool \in [Pools -> PoolObjects]
    /\ poolCache \in [Pools -> PoolObjects]
    /\ poolLatest \in SUBSET Pools
    /\ seen \in [CIRs -> Pools \union {NoPool}]
    /\ work \in Works
    /\ mishaps \in SUBSET Mishaps

\* Every pool has just been created, with any size.
Init ==
    /\ PhaseInit
    /\ pool \in [Pools -> { NewPool(n) : n \in 0..MaxSize }]
    /\ poolCache = [p \in Pools |-> NoPoolObject]
    /\ poolLatest = {}
    /\ seen = [c \in CIRs |-> NoPool]
    /\ work = NoWork
    /\ mishaps = {}

-----------------------------------------------------------------------------

Happens(m) ==
    /\ m \in Mishaps \ mishaps
    /\ Cardinality(mishaps) < MaxMishaps
    /\ mishaps' = mishaps \union {m}

(* A reconciliation.                                                       *)

\* An Update or a status Update of a pool: accepted on its latest version.
Save(p, o) ==
    /\ p \in poolLatest
    /\ pool' = [pool EXCEPT ![p] = o]
    /\ poolLatest' = poolLatest \ {p}
    /\ UNCHANGED poolCache

\* List: all CIResources of the namespace, and those of pool p.
Listed == { c \in CIRs : seen[c] # NoPool }
ListedOf(p) == { c \in CIRs : seen[c] = p }

\* The copies that a List returns are as current as the informer's.
TakeCopies ==
    latest' = { q \in latest : q[1] = Informer }
              \union { <<PoolReconciler, c>> : c \in { d \in CIRs : HasLatest(Informer, d) } }

Reconciling(p) == work = NoWork /\ poolCache[p].live

AddFinalizer(p) ==
    LET k == poolCache[p] IN
    /\ Reconciling(p)
    /\ ~k.del /\ ~k.fin
    /\ Save(p, [k EXCEPT !.fin = TRUE])
    /\ UNCHANGED <<phaseVars, seen, work, mishaps>>

\* The copies that show an idle object, and no eviction label.  Of an object that
\* has changed since, it does not matter what the copy shows: the update will be
\* refused, and the object is skipped.
IdleCopies(p) == { c \in ListedOf(p) : HasLatest(Informer, c) /\ Evictable(c) }

\* Bug: the excess is subtracted the wrong way round.
StartEviction_Swapped(p, target, sorted) ==
    work' = [op |-> "evict", todo |-> ListedOf(p), idle |-> IdleCopies(p), sorted |-> sorted,
             selected |-> 0, excess |-> target - Cardinality(ListedOf(p))]

\* deleteCIResources, up to its first request: evict all but `target' of the
\* listed CIResources, which the caller has sorted by name, or has not.
StartEviction(p, target, sorted) ==
    work' = [op |-> "evict", todo |-> ListedOf(p), idle |-> IdleCopies(p), sorted |-> sorted,
             selected |-> 0, excess |-> Cardinality(ListedOf(p)) - target]

\* Bug: a deleted pool is only shrunk to its size.
EmptyPool_KeepsSize(p) ==
    LET k == poolCache[p] IN
    /\ Reconciling(p)
    /\ k.del /\ ListedOf(p) # {} /\ Cardinality(ListedOf(p)) > k.size
    /\ StartEviction(p, k.size, FALSE)
    /\ TakeCopies
    /\ UNCHANGED <<obj, poolVars, seen, mishaps>>

EmptyPool(p) ==
    /\ Reconciling(p)
    /\ poolCache[p].del /\ ListedOf(p) # {}
    /\ StartEviction(p, 0, FALSE)
    /\ TakeCopies
    /\ UNCHANGED <<obj, poolVars, seen, mishaps>>

\* When the List fails, its error is ignored, and its result is empty.
RemoveFinalizer(p) ==
    LET k == poolCache[p] IN
    /\ Reconciling(p)
    /\ k.del /\ k.fin
    /\ \/ ListedOf(p) = {} /\ UNCHANGED mishaps
       \/ ListedOf(p) # {} /\ Happens("fault")
    /\ Save(p, NoPoolObject)
    /\ UNCHANGED <<phaseVars, seen, work>>

Managed(p) == Reconciling(p) /\ ~poolCache[p].del /\ poolCache[p].fin

UpdateState(p) ==
    LET k == poolCache[p] IN
    /\ Managed(p)
    /\ k.state # k.spec
    /\ Save(p, [k EXCEPT !.state = k.spec])
    /\ UNCHANGED <<phaseVars, seen, work, mishaps>>

getHighestResourceNumeral == CHOOSE n \in Listed \union {0} : \A m \in Listed : m <= n

\* Bug: new CIResources are numbered after how many there are.
StartCreation_ByCount(p) ==
    LET missing == poolCache[p].size - Cardinality(ListedOf(p)) IN
    work' = [op |-> "create", pool |-> p, next |-> Cardinality(Listed) + 1,
             last |-> Cardinality(Listed) + missing]

StartCreation(p) ==
    LET missing == poolCache[p].size - Cardinality(ListedOf(p)) IN
    work' = [op |-> "create", pool |-> p, next |-> getHighestResourceNumeral + 1,
             last |-> getHighestResourceNumeral + missing]

\* manageCIResourcesFor, up to its first create or update of a CIResource.
manageCIResourcesFor(p) ==
    LET k == poolCache[p]
        n == Cardinality(ListedOf(p))
    IN
    /\ Managed(p)
    /\ k.state = k.spec /\ k.state # "offline"
    /\ k.count # n \/ k.size # n
    /\ IF k.count # n THEN Save(p, [k EXCEPT !.count = n]) ELSE UNCHANGED poolVars
    /\ \/ k.size = n /\ UNCHANGED work
       \/ k.size > n /\ StartCreation(p)
       \/ k.size < n /\ StartEviction(p, k.size, TRUE)
    /\ TakeCopies
    /\ UNCHANGED <<obj, seen, mishaps>>

Reconcile(p) ==
    \/ AddFinalizer(p)
    \/ EmptyPool(p)
    \/ RemoveFinalizer(p)
    \/ UpdateState(p)
    \/ manageCIResourcesFor(p)

(* The requests of a reconciliation.                                       *)

Advance == work' = IF work.next = work.last THEN NoWork ELSE [work EXCEPT !.next = @ + 1]

\* Bug: the API server makes up a name (generateName).
createCIResource_AnyName ==
    /\ work.op = "create"
    /\ \/ \E c \in CIRs : Create(c, work.pool)
       \/ (\A c \in CIRs : obj[c].phase # "absent") /\ UNCHANGED phaseVars
    /\ Advance
    /\ UNCHANGED <<poolVars, seen, mishaps>>

\* createCIResource.  A name that is taken is an error, and skipped.  Names
\* beyond the bound CIRs are not created.
createCIResource ==
    /\ work.op = "create"
    /\ IF work.next \in CIRs /\ obj[work.next].phase = "absent"
       THEN Set(work.next, [Gone EXCEPT !.phase = "new", !.pool = work.pool])
       ELSE UNCHANGED phaseVars
    /\ Advance
    /\ UNCHANGED <<poolVars, seen, mishaps>>

\* Which copies may come next: the newest of sorted ones, else any.
NextToEvict ==
    { c \in work.todo : work.sorted => \A d \in work.todo : d <= c }

\* The rest of the loop.
After(c) == [work EXCEPT !.todo = @ \ {c}, !.idle = @ \ {c}]

\* Bug: the label is patched, whatever version the object has.
SelectForEviction_AnyVersion ==
    /\ work.op = "evict"
    /\ work.selected < work.excess
    /\ \E c \in NextToEvict :
           IF c \in work.idle /\ obj[c].phase # "absent"
           THEN /\ Set(c, [obj[c] EXCEPT !.evict = TRUE])
                /\ work' = [After(c) EXCEPT !.selected = @ + 1]
           ELSE UNCHANGED phaseVars /\ work' = After(c)
    /\ UNCHANGED <<poolVars, seen, mishaps>>

\* One round of the loop of deleteCIResources: what to do is decided on the copy,
\* and the API server looks at nothing but its version.
SelectForEviction ==
    /\ work.op = "evict"
    /\ work.selected < work.excess
    /\ \E c \in NextToEvict :
           IF c \in work.idle /\ HasLatest(PoolReconciler, c)
           THEN /\ Set(c, [obj[c] EXCEPT !.evict = TRUE])
                /\ work' = [After(c) EXCEPT !.selected = @ + 1]
           ELSE UNCHANGED phaseVars /\ work' = After(c)
    /\ UNCHANGED <<poolVars, seen, mishaps>>

\* DeleteAllOf: every object with the eviction label, of this pool or another.
DeleteAllOf ==
    LET doomed == { c \in CIRs : obj[c].evict /\ ~obj[c].del } IN
    /\ work.op = "evict"
    /\ work.todo = {} \/ work.selected >= work.excess
    /\ obj' = [c \in CIRs |-> IF c \in doomed THEN [obj[c] EXCEPT !.del = TRUE] ELSE obj[c]]
    /\ latest' = { q \in latest : q[2] \notin doomed }
    /\ work' = NoWork
    /\ UNCHANGED <<poolVars, seen, mishaps>>

Request == createCIResource \/ SelectForEviction \/ DeleteAllOf

\* A request fails and is skipped, or the operator dies.
Fault ==
    /\ work # NoWork
    /\ Happens("fault")
    /\ \/ work.op = "create" /\ Advance
       \/ work.op = "evict"
          /\ \E c \in NextToEvict : work' = After(c)
       \/ work' = NoWork
    /\ UNCHANGED <<phaseVars, poolVars, seen>>

-----------------------------------------------------------------------------
(* The informers.  Objects of one kind are delivered in the order of their *)
(* changes, so an informer's store is all of them at an earlier moment.    *)

SyncPools ==
    /\ poolLatest # Pools
    /\ poolCache' = pool
    /\ poolLatest' = Pools
    /\ UNCHANGED <<phaseVars, pool, seen, work, mishaps>>

SyncCIRs ==
    /\ \E c \in CIRs : ~HasLatest(Informer, c)
    /\ seen' = [c \in CIRs |-> obj[c].pool]
    /\ latest' = latest \union ({Informer} \X CIRs)
    /\ UNCHANGED <<obj, poolVars, work, mishaps>>

-----------------------------------------------------------------------------
(* Everybody else.                                                         *)

\* The CIResource reconciler; without the CIPool it can do nothing (getPool).
ReconcileCIR(c) ==
    /\ obj[c].phase # "absent"
    /\ poolCache[obj[c].pool].live
    /\ PhaseStep(c)
    /\ UNCHANGED <<poolVars, seen, work, mishaps>>

GiveBack(c) == Release(c) /\ UNCHANGED <<poolVars, seen, work, mishaps>>

EditPool(p, o) ==
    /\ pool[p].live
    /\ o # pool[p]
    /\ pool' = [pool EXCEPT ![p] = o]
    /\ poolLatest' = poolLatest \ {p}
    /\ UNCHANGED <<phaseVars, poolCache>>

EditCIR(write) == write /\ UNCHANGED poolVars

External ==
    /\ \/ /\ Happens("resize")
          /\ \E p \in Pools, n \in 0..MaxSize : EditPool(p, [pool[p] EXCEPT !.size = n])
       \/ /\ Happens("offline")
          /\ \E p \in Pools, s \in {"available", "offline"} :
                EditPool(p, [pool[p] EXCEPT !.spec = s])
       \/ /\ Happens("delete pool")
          /\ \E p \in Pools :
                EditPool(p, IF pool[p].fin THEN [pool[p] EXCEPT !.del = TRUE] ELSE NoPoolObject)
       \/ Happens("delete") /\ \E c \in CIRs : EditCIR(Delete(c))
       \/ Happens("acquire") /\ \E c \in CIRs : EditCIR(Acquire(c))
       \/ /\ Happens("maintenance")
          /\ \E c \in CIRs : obj[c].spec = "free" /\ EditCIR(RequestMaintenance(c))
    /\ UNCHANGED <<seen, work>>

Next ==
    \/ \E p \in Pools : Reconcile(p)
    \/ Request \/ Fault
    \/ SyncPools \/ SyncCIRs
    \/ \E c \in CIRs : ReconcileCIR(c) \/ GiveBack(c)
    \/ External

Spec == Init /\ [][Next]_vars

(* Every pool is queued again after each reconciliation, with a delay, and *)
(* the work queue is first-in first-out; requests end; informers catch up; *)
(* the CIResource reconciler works, and so takes back what clients keep.   *)
Fairness ==
    /\ \A p \in Pools : SF_vars(Reconcile(p))
    /\ WF_vars(Request)
    /\ WF_vars(SyncPools) /\ WF_vars(SyncCIRs)
    /\ \A c \in CIRs : WF_vars(ReconcileCIR(c))

FairSpec == Spec /\ Fairness

-----------------------------------------------------------------------------
(* Properties.                                                             *)

CIRsOf(p) == { c \in CIRs : obj[c].pool = p }

(* Whatever its lists and copies miss, the reconciler never creates more   *)
(* CIResources than a pool is asked to have: names it has used already are *)
(* refused.  As long as no numeral is freed by a resize or a deletion, be  *)
(* it that of another pool, and no request failed: all pools share their   *)
(* numerals, and a list that misses the highest finds a freed one.         *)
NoSurplus ==
    mishaps \intersect {"resize", "delete", "delete pool", "fault"} = {} =>
        \A p \in Pools : pool[p].live => Cardinality(CIRsOf(p)) <= pool[p].size

(* The pool reconciler changes CIResources only as CIResourcePhases allows *)
(* others to: what it decides on its copies, however long ago it listed    *)
(* them, it labels for eviction no object that is not idle when the label  *)
(* gets there, and none twice.                                             *)
One(c) == INSTANCE CIResourcePhases WITH
    CIRs <- {c}, obj <- [x \in {c} |-> obj[x]], latest <- {}, Readers <- {}

RespectsPhases == [][\A c \in CIRs : [One(c)!PhaseNext]_(One(c)!phaseVars)]_vars

\* The bound CIRs is used up: the next CIResource would get a higher numeral.
OutOfNames == Cardinality(CIRs) \in Listed

\* Reconciliations start only after the informers have caught up.
Timely ==
    (\E p \in Pools : Reconcile(p)) =>
        poolLatest = Pools /\ \A c \in CIRs : HasLatest(Informer, c)

(* When nobody interferes any more, and the informers keep up with the     *)
(* delay between two reconciliations, a pool ends up with as many          *)
(* CIResources as it asks for, says so in its status, and stays so: it     *)
(* recovers from surplus, over-eviction and half-done batches.             *)
PoolConverges ==
    <>[][Timely]_vars =>
    <>[](\A p \in Pools :
            pool[p].live /\ ~pool[p].del /\ pool[p].spec = "available" /\ ~OutOfNames
            => /\ Cardinality(CIRsOf(p)) = pool[p].size
               /\ pool[p].count = pool[p].size)

(* A deleted pool goes away, once its clients are done or their leases     *)
(* have ended.                                                             *)
PoolDeletionCompletes == \A p \in Pools : pool[p].del ~> ~pool[p].live

(* A pool goes only after its last CIResource: none is left without the    *)
(* pool that its reconciliation needs.                                     *)
NoOrphans == \A c \in CIRs : obj[c].pool \in Pools => pool[obj[c].pool].live

(* A CIResource that a client has acquired is not deleted before it is     *)
(* released.                                                               *)
GrantedNotDeleted == \A c \in CIRs : obj[c].phase = "delete" => obj[c].spec # "in use"
=============================================================================
