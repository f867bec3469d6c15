---------------------- MODULE CIResourceRefinementProofs ----------------------
(***************************************************************************)
(* The reconciler implements the life of a CIResource that the pool        *)
(* reconciler and the API are built on: CIResourceController implements    *)
(* CIResourceLifecycle and CIResourcePhases, for any CIResources, pools    *)
(* and providers.  From the same invariant: what instances fallback        *)
(* CIResources keep, where the data of a client may be found, and when an  *)
(* instance is forgotten.                                                  *)
(***************************************************************************)
EXTENDS CIResourceControllerProofs, CIResourceLifecycleProofs

-----------------------------------------------------------------------------
(* The invariant.                                                          *)

\* What holds of an object whatever the provider does.
Regular(o) ==
    /\ ~o.live => o = Absent
    /\ o.live /\ ~o.fin => o.state = "none" /\ ~o.del /\ o.spec # "in use"
    /\ o.state # "error"
    /\ o.state = "none" => o.id = NoInstance
    /\ o.state = "provisioning" => o.id \in {NoInstance, FallbackResource}
    /\ o.state \in {"none", "provisioning", "provisioning wait"} => ~o.addr
    /\ o.state \in {"maintenance", "cleaning", "cleaning wait"} => o.spec # "in use"
    /\ o.state = "delete" => o.del
    /\ IsFallbackPool(o) /\ o.state = "cleaning wait" => o.id = FallbackResource
    /\ IsFallbackPool(o) /\ o.state \in {"available", "in use", "maintenance"} /\ ~o.addr
          => o.id = FallbackResource

\* What a handler that reads o may have the status changed to.
Moves(o, n, from, to) ==
    o.state = from /\ n.state = to /\ n.id = o.id /\ n.addr = o.addr

Acquires(o, n) ==
    /\ o.state = "provisioning" /\ n.addr = o.addr
    /\ \/ /\ IsFallbackPool(o) /\ o.spec # "in use"
          /\ n.state = "available" /\ n.id = FallbackResource
       \/ /\ ~IsFallbackPool(o) \/ o.spec = "in use"
          /\ n.state = "provisioning wait" /\ n.id \in Instances

Cleans(o, n) ==
    /\ o.state = "cleaning" /\ n.state = "cleaning wait"
    /\ IF IsFallbackPool(o) THEN n.id = FallbackResource /\ ~n.addr
                            ELSE n.id = o.id /\ n.addr = o.addr

StatusDecided(o, n) ==
    \/ Moves(o, n, "none", "provisioning") /\ (o.del \/ o.fin)
    \/ Acquires(o, n)
    \/ o.state = "provisioning wait" /\ n.state = "available" /\ n.id = o.id /\ n.addr
    \/ Moves(o, n, "available", "in use") /\ ~o.del /\ o.spec = "in use"
    \/ Moves(o, n, "available", "maintenance") /\ ~o.del /\ o.spec = "maintenance"
    \/ Moves(o, n, "available", "delete") /\ o.del
    \/ Moves(o, n, "maintenance", "delete") /\ o.del
    \/ Moves(o, n, "maintenance", "available") /\ ~o.del /\ o.spec = "available"
    \/ Moves(o, n, "in use", "cleaning") /\ o.spec = "available"
    \/ /\ Moves(o, n, "in use", "provisioning")
       /\ IsFallbackPool(o) /\ ~o.addr /\ o.id = FallbackResource /\ o.spec = "in use"
    \/ Cleans(o, n)
    \/ Moves(o, n, "cleaning wait", "available")

\* What it may have the rest of the object changed to.
ResourceDecided(o, n) ==
    /\ n.evict = o.evict
    /\ \/ o.state = "none" /\ ~o.del /\ ~o.fin /\ n.fin /\ n.spec = o.spec
       \/ /\ o.state = "in use" /\ o.spec = "in use" /\ n.spec = "available" /\ n.fin = o.fin
          /\ ~IsFallbackPool(o) \/ o.addr \/ o.id # FallbackResource
       \/ o.state = "delete" /\ ~n.fin /\ n.spec = o.spec

Decided(op, o, n) ==
    /\ o.live
    /\ op = "status" => StatusDecided(o, n)
    /\ op = "resource" => ResourceDecided(o, n)

\* A write that will be accepted was decided on the object as it is.
WriteDecided ==
    job # NoJob /\ Holds(Reconciler, job.c) =>
        Holds(Informer, job.c) /\ Decided(job.op, cir[job.c], job.obj)

DecisionInv ==
    /\ TypeOK
    /\ \A c \in CIRs : Regular(cir[c])
    /\ InformerExact
    /\ WriteDecided

-----------------------------------------------------------------------------
(* What the handlers decide.                                               *)

\* The fields of an object that a status event, or an Update, is given.
LEMMA EventFields ==
    ASSUME NEW o \in Objects, NEW s
    PROVE  /\ [o EXCEPT !.state = s].state = s
           /\ [o EXCEPT !.state = s].id = o.id
           /\ [o EXCEPT !.state = s].addr = o.addr
BY DEF Objects

\* A reconciliation writes what is decided on the copy it read, or nothing.
LEMMA HandlerDecides ==
    ASSUME TypeOK, NEW c \in CIRs, Reconcile(c)
    PROVE  \/ ProvisionLeaks(c)
           \/ \E op \in {"resource", "status"} : \E n : Write(op, c, n) /\ Decided(op, cache[c], n)
<1> DEFINE k == cache[c]
           Goal == \E op \in {"resource", "status"} : \E n : Write(op, c, n) /\ Decided(op, k, n)
<1>k. k \in Objects
  BY DEF TypeOK, StoreTypeOK
<1>s. ASSUME NEW n, NEW dst, TriggerEvent(c, n, dst), k.live,
             StatusDecided(k, [n EXCEPT !.state = dst])
      PROVE  Goal
  BY <1>s DEF TriggerEvent, Decided
<1>r. ASSUME NEW n, UpdateResourceOnly(c, n), k.live, ResourceDecided(k, n)
      PROVE  Goal
  BY <1>r DEF UpdateResourceOnly, Decided
<1>m. ASSUME NEW dst, TriggerEvent(c, k, dst), k.live,
             \A n : Moves(k, n, k.state, dst) => StatusDecided(k, n)
      PROVE  Goal
  BY <1>k, <1>m, <1>s, EventFields DEF Moves
<1> HIDE DEF Goal
<1>1. CASE handleStateNone(c)
  <2>1. k.live /\ k.state = "none"
    BY <1>1 DEF handleStateNone, Reconciling
  <2>2. CASE ~k.del /\ ~k.fin
    <3>1. UpdateResourceOnly(c, [k EXCEPT !.fin = TRUE])
      BY <1>1, <2>2 DEF handleStateNone
    <3>2. ResourceDecided(k, [k EXCEPT !.fin = TRUE])
      BY <1>k, <2>1, <2>2 DEF ResourceDecided, Objects
    <3> QED
      BY <1>r, <2>1, <3>1, <3>2 DEF Goal
  <2>3. CASE k.del \/ k.fin
    <3>1. TriggerEvent(c, k, "provisioning")
      BY <1>1, <2>3 DEF handleStateNone
    <3> QED
      BY <1>m, <2>1, <2>3, <3>1 DEF StatusDecided, Goal
  <2> QED
    BY <2>2, <2>3
<1>2. CASE ProvisionFallback(c)
  <2> DEFINE n == [k EXCEPT !.id = FallbackResource]
  <2>1. k.live /\ TriggerEvent(c, n, "available")
    BY <1>2 DEF ProvisionFallback, Reconciling
  <2>2. /\ [n EXCEPT !.state = "available"].state = "available"
        /\ [n EXCEPT !.state = "available"].id = FallbackResource
        /\ [n EXCEPT !.state = "available"].addr = k.addr
    BY <1>k DEF Objects
  <2>3. StatusDecided(k, [n EXCEPT !.state = "available"])
    BY <1>2, <2>2 DEF StatusDecided, Acquires, ProvisionFallback, Reconciling
  <2> QED
    BY <1>s, <2>1, <2>3 DEF Goal
<1>3. CASE ProvisionInstance(c)
  <2>1. PICK i \in Instances : TriggerEvent(c, [k EXCEPT !.id = i], "provisioning wait")
    BY <1>3 DEF ProvisionInstance, Acquirable
  <2> DEFINE n == [k EXCEPT !.id = i]
  <2>2. /\ [n EXCEPT !.state = "provisioning wait"].state = "provisioning wait"
        /\ [n EXCEPT !.state = "provisioning wait"].id = i
        /\ [n EXCEPT !.state = "provisioning wait"].addr = k.addr
    BY <1>k DEF Objects
  <2>3. k.live /\ StatusDecided(k, [n EXCEPT !.state = "provisioning wait"])
    BY <1>3, <2>2 DEF StatusDecided, Acquires, ProvisionInstance, Reconciling
  <2> QED
    BY <1>s, <2>1, <2>3 DEF Goal
<1>4. CASE handleStateProvisioningWait(c)
  <2> DEFINE n == [k EXCEPT !.addr = TRUE]
  <2>1. k.live /\ k.state = "provisioning wait" /\ TriggerEvent(c, n, "available")
    BY <1>4 DEF handleStateProvisioningWait, Reconciling
  <2>2. /\ [n EXCEPT !.state = "available"].state = "available"
        /\ [n EXCEPT !.state = "available"].id = k.id
        /\ [n EXCEPT !.state = "available"].addr = TRUE
    BY <1>k DEF Objects
  <2>3. StatusDecided(k, [n EXCEPT !.state = "available"])
    BY <2>1, <2>2 DEF StatusDecided
  <2> QED
    BY <1>s, <2>1, <2>3 DEF Goal
<1>5. CASE handleStateAvailable(c)
  BY <1>5, <1>m DEF handleStateAvailable, Reconciling, StatusDecided, Goal
<1>6. CASE handleStateMaintenance(c)
  BY <1>6, <1>m DEF handleStateMaintenance, Reconciling, StatusDecided, Goal
<1>7. CASE handleStateInUse(c)
  <2>1. k.live /\ k.state = "in use"
    BY <1>7 DEF handleStateInUse, Reconciling
  <2>2. CASE k.spec = "available" /\ TriggerEvent(c, k, "cleaning")
    BY <1>m, <2>1, <2>2 DEF StatusDecided, Goal
  <2>3. CASE /\ k.spec = "in use" /\ TriggerEvent(c, k, "provisioning")
             /\ IsFallbackPool(k) /\ ~k.addr /\ k.id = FallbackResource
    BY <1>m, <2>1, <2>3 DEF StatusDecided, Goal
  <2>4. CASE /\ k.spec = "in use" /\ UpdateResourceOnly(c, [k EXCEPT !.spec = "available"])
             /\ ~(IsFallbackPool(k) /\ ~k.addr /\ k.id = FallbackResource)
    <3>1. ResourceDecided(k, [k EXCEPT !.spec = "available"])
      BY <1>k, <2>1, <2>4 DEF ResourceDecided, Objects
    <3> QED
      BY <1>r, <2>1, <2>4, <3>1 DEF Goal
  <2> QED
    BY <1>7, <2>2, <2>3, <2>4 DEF handleStateInUse
<1>8. CASE CleanFallback(c)
  <2> DEFINE n == [k EXCEPT !.id = FallbackResource, !.addr = FALSE]
  <2>1. /\ k.live /\ k.state = "cleaning" /\ IsFallbackPool(k)
        /\ TriggerEvent(c, n, "cleaning wait")
    BY <1>8 DEF CleanFallback, Reconciling
  <2>2. /\ [n EXCEPT !.state = "cleaning wait"].state = "cleaning wait"
        /\ [n EXCEPT !.state = "cleaning wait"].id = FallbackResource
        /\ [n EXCEPT !.state = "cleaning wait"].addr = FALSE
    BY <1>k DEF Objects
  <2>3. StatusDecided(k, [n EXCEPT !.state = "cleaning wait"])
    BY <2>1, <2>2 DEF StatusDecided, Cleans
  <2> QED
    BY <1>s, <2>1, <2>3 DEF Goal
<1>9. CASE CleanInstance(c)
  BY <1>9, <1>m DEF CleanInstance, Reconciling, StatusDecided, Cleans, Moves, Goal
<1>10. CASE handleStateCleaningWait(c)
  BY <1>10, <1>m DEF handleStateCleaningWait, Reconciling, StatusDecided, Goal
<1>11. CASE handleStateDelete(c)
  <2>1. /\ k.live /\ k.state = "delete"
        /\ UpdateResourceOnly(c, [k EXCEPT !.fin = FALSE])
    BY <1>11 DEF handleStateDelete, Reconciling
  <2>2. ResourceDecided(k, [k EXCEPT !.fin = FALSE])
    BY <1>k, <2>1 DEF ResourceDecided, Objects
  <2> QED
    BY <1>r, <2>1, <2>2 DEF Goal
<1> QED
  BY <1>1, <1>2, <1>3, <1>4, <1>5, <1>6, <1>7, <1>8, <1>9, <1>10, <1>11
  DEF Reconcile, handleStateProvisioning, handleStateCleaning, Goal
-----------------------------------------------------------------------------
(* DecisionInv is inductive.                                               *)

LEMMA AbsentRegular == Absent \in Objects /\ Regular(Absent)
BY ObjectTypes DEF Absent, Regular

\* The objects that the accepted writes make are regular again.
LEMMA StatusFields ==
    ASSUME TypeOK, NEW c \in CIRs, NEW n \in Objects
    PROVE  LET s == StatusUpdated(c, n) IN
           /\ s \in Objects
           /\ s.state = n.state /\ s.id = n.id /\ s.addr = n.addr
           /\ s.live = cir[c].live /\ s.fin = cir[c].fin /\ s.del = cir[c].del
           /\ s.evict = cir[c].evict /\ s.pool = cir[c].pool /\ s.spec = cir[c].spec
<1>1. cir[c] \in Objects
  BY DEF TypeOK, StoreTypeOK
<1> QED
  BY <1>1 DEF StatusUpdated, Objects

LEMMA StatusRegular ==
    ASSUME TypeOK, NEW c \in CIRs, NEW n \in Objects,
           Regular(cir[c]), cir[c].live, StatusDecided(cir[c], n)
    PROVE  Regular(StatusUpdated(c, n))
<1> DEFINE o == cir[c]
           s == StatusUpdated(c, n)
<1>1. /\ s.state = n.state /\ s.id = n.id /\ s.addr = n.addr
      /\ s.live = o.live /\ s.fin = o.fin /\ s.del = o.del
      /\ s.pool = o.pool /\ s.spec = o.spec
  BY StatusFields
<1>2. IsFallbackPool(s) <=> IsFallbackPool(o)
  BY <1>1 DEF IsFallbackPool
<1>3. NoInstance # FallbackResource
  BY StoreAssumption
<1>4. Regular(o) /\ o.live /\ StatusDecided(o, n) /\ FallbackResource \notin Instances
  BY ControllerAssumption
<1> HIDE DEF o, s
<1>5. Regular(s)
  BY <1>1, <1>2, <1>3, <1>4 DEF Regular, StatusDecided, Moves, Acquires, Cleans
<1> QED
  BY <1>5 DEF s

LEMMA UpdateRegular ==
    ASSUME TypeOK, NEW c \in CIRs, NEW n \in Objects,
           Regular(cir[c]), cir[c].live, ResourceDecided(cir[c], n)
    PROVE  Regular(Updated(c, n))
<1> DEFINE o == cir[c]
           u == [o EXCEPT !.spec = n.spec, !.fin = n.fin, !.evict = n.evict]
<1>1. CASE Updated(c, n) = Absent
  BY <1>1, AbsentRegular
<1>2. CASE Updated(c, n) = u /\ ~(o.del /\ ~n.fin)
  <2>1. o \in Objects
    BY DEF TypeOK, StoreTypeOK
  <2>2. /\ u.state = o.state /\ u.id = o.id /\ u.addr = o.addr
        /\ u.live = o.live /\ u.fin = n.fin /\ u.del = o.del
        /\ u.pool = o.pool /\ u.spec = n.spec
    BY <2>1 DEF Objects
  <2>3. IsFallbackPool(u) <=> IsFallbackPool(o)
    BY <2>2 DEF IsFallbackPool
  <2> HIDE DEF u
  <2>4. Regular(u)
    BY <1>2, <2>2, <2>3 DEF Regular, ResourceDecided
  <2> QED
    BY <1>2, <2>4
<1> QED
  BY <1>1, <1>2 DEF Updated

LEMMA OthersRegular ==
    ASSUME TypeOK, NEW c \in CIRs, Regular(cir[c]), OtherWriters(c)
    PROVE  \E o \in Objects : Become(c, o) /\ Regular(o)
<1> DEFINE k == cir[c]
<1>k. k \in Objects
  BY DEF TypeOK, StoreTypeOK
<1>0. Absent.state = "none"
  BY DEF Absent
<1>1. CASE \E p \in Pools : Create(c, p)
  <2>1. PICK p \in Pools : Become(c, Created(p))
    BY <1>1 DEF Create
  <2>2. /\ Created(p) \in Objects
        /\ Created(p).live /\ ~Created(p).fin /\ ~Created(p).del
        /\ Created(p).state = "none" /\ Created(p).spec = "none"
        /\ Created(p).id = NoInstance /\ ~Created(p).addr
    BY ObjectTypes DEF Created, Absent
  <2> QED
    BY <2>1, <2>2 DEF Regular
<1>2. ASSUME NEW s \in {"available", "in use", "maintenance"}, k.live,
             s = "in use" => k.state = "available",
             Become(c, [k EXCEPT !.spec = s])
      PROVE  \E o \in Objects : Become(c, o) /\ Regular(o)
  <2> DEFINE n == [k EXCEPT !.spec = s]
  <2>1. /\ n \in Objects /\ n.spec = s /\ n.state = k.state /\ n.id = k.id /\ n.addr = k.addr
        /\ n.live = k.live /\ n.fin = k.fin /\ n.del = k.del /\ n.pool = k.pool
    BY <1>k DEF Objects, SpecStates
  <2>2. IsFallbackPool(n) <=> IsFallbackPool(k)
    BY <2>1 DEF IsFallbackPool
  <2>3. Become(c, n)
    BY <1>2
  <2> HIDE DEF n
  <2>4. Regular(n)
    BY <1>2, <2>1, <2>2 DEF Regular
  <2> QED
    BY <2>1, <2>3, <2>4
<1>3. CASE ClientAcquire(c) \/ ClientRelease(c) \/ AdminMaintenance(c) \/ AdminResume(c)
  BY <1>2, <1>3 DEF ClientAcquire, ClientRelease, AdminMaintenance, AdminResume
<1>4. CASE Evict(c)
  <2> DEFINE n == [k EXCEPT !.evict = TRUE]
  <2>1. /\ n \in Objects /\ n.spec = k.spec /\ n.state = k.state /\ n.id = k.id /\ n.addr = k.addr
        /\ n.live = k.live /\ n.fin = k.fin /\ n.del = k.del /\ n.pool = k.pool
    BY <1>k DEF Objects
  <2>2. k.live /\ Become(c, n)
    BY <1>4 DEF Evict
  <2> HIDE DEF n
  <2>3. Regular(n)
    BY <2>1, <2>2 DEF Regular, IsFallbackPool
  <2> QED
    BY <2>1, <2>2, <2>3
<1>5. CASE Delete(c)
  <2>1. k.live /\ Become(c, Deleted(c))
    BY <1>5 DEF Delete
  <2>2. CASE ~k.fin
    BY <2>1, <2>2, AbsentRegular DEF Deleted
  <2>3. CASE k.fin
    <3> DEFINE n == [k EXCEPT !.del = TRUE]
    <3>1. /\ n \in Objects /\ n.spec = k.spec /\ n.state = k.state /\ n.id = k.id /\ n.addr = k.addr
          /\ n.live = k.live /\ n.fin = k.fin /\ n.del /\ n.pool = k.pool
      BY <1>k DEF Objects
    <3>2. Become(c, n)
      BY <2>1, <2>3 DEF Deleted
    <3> HIDE DEF n
    <3>3. Regular(n)
      BY <2>1, <2>3, <3>1 DEF Regular, IsFallbackPool
    <3> QED
      BY <3>1, <3>2, <3>3
  <2> QED
    BY <2>2, <2>3
<1> QED
  BY <1>1, <1>3, <1>4, <1>5 DEF OtherWriters

\* A new version of an object.
LEMMA StoreDecision ==
    ASSUME DecisionInv, TypeOK', NEW c \in CIRs, NEW o \in Objects, Regular(o),
           NEW done, Informer \notin done,
           Store(c, o, done), UNCHANGED cache, job' \in {job, NoJob}
    PROVE  DecisionInv'
<1>1. /\ cir'[c] = o
      /\ \A d \in CIRs : d # c => cir'[d] = cir[d]
  BY DEF Store, DecisionInv, TypeOK, StoreTypeOK
<1>2. /\ \A d \in CIRs : Holds(Informer, d)' <=> Holds(Informer, d) /\ d # c
      /\ \A d \in CIRs : Holds(Reconciler, d)' => Holds(Reconciler, d) /\ d # c
  BY DEF Store, Holds
<1>3. \A d \in CIRs : Regular(cir'[d])
  BY <1>1 DEF DecisionInv
<1>4. InformerExact'
  BY <1>1, <1>2 DEF InformerExact, DecisionInv
<1>5. WriteDecided'
  <2>1. SUFFICES ASSUME job' # NoJob, Holds(Reconciler, job.c)', job' = job
                 PROVE  Holds(Informer, job.c)' /\ Decided(job.op, cir'[job.c], job.obj)
    BY DEF WriteDecided, NoJob, Decided
  <2>2. job.c \in CIRs
    BY <2>1 DEF DecisionInv, TypeOK, Jobs
  <2>3. job.c # c /\ Holds(Reconciler, job.c) /\ cir'[job.c] = cir[job.c]
    BY <1>1, <1>2, <2>1, <2>2
  <2> QED
    BY <1>2, <2>1, <2>2, <2>3 DEF DecisionInv, WriteDecided
<1> QED
  BY <1>3, <1>4, <1>5 DEF DecisionInv, Regular, IsFallbackPool

\* A step that writes no object.
LEMMA NoStoreDecision ==
    ASSUME DecisionInv, TypeOK', UNCHANGED <<cir, cache>>,
           \/ UNCHANGED <<current, job>>
           \/ job' = NoJob /\ current' \in {current, Forget(Reconciler)}
    PROVE  DecisionInv'
<1>1. InformerExact'
  BY DEF DecisionInv, InformerExact, Holds, Forget, Informer, Reconciler
<1>2. WriteDecided'
  BY DEF DecisionInv, WriteDecided, Holds
<1> QED
  BY <1>1, <1>2 DEF DecisionInv, Regular, IsFallbackPool

LEMMA ReconcileDecision ==
    ASSUME DecisionInv, TypeOK', NEW c \in CIRs, Reconcile(c)
    PROVE  DecisionInv'
<1>1. CASE ProvisionLeaks(c)
  <2>1. UNCHANGED <<cir, cache, current, job>>
    BY <1>1 DEF ProvisionLeaks, storeVars
  <2> QED
    BY <2>1, NoStoreDecision
<1>2. ASSUME NEW op \in {"resource", "status"}, NEW n,
             Write(op, c, n), Decided(op, cache[c], n)
      PROVE  DecisionInv'
  <2>1. /\ UNCHANGED <<cir, cache>>
        /\ job' = [op |-> op, c |-> c, obj |-> n]
        /\ \A d \in CIRs : Holds(Informer, d)' <=> Holds(Informer, d)
        /\ Holds(Reconciler, c)' <=> Holds(Informer, c)
    BY <1>2, ReadHolds DEF Write
  <2>2. InformerExact'
    BY <2>1 DEF DecisionInv, InformerExact
  <2>3. WriteDecided'
    BY <1>2, <2>1 DEF DecisionInv, InformerExact, WriteDecided
  <2> QED
    BY <2>1, <2>2, <2>3 DEF DecisionInv, Regular, IsFallbackPool
<1> QED
  BY <1>1, <1>2, HandlerDecides DEF DecisionInv

\* The accepted writes, as changes of an object.
LEMMA CommitStores ==
    ASSUME DecisionInv, UpdateStatus \/ UpdateResource
    PROVE  /\ job.c \in CIRs /\ job.obj \in Objects /\ cir[job.c] \in Objects
           /\ Regular(cir[job.c])
           /\ Decided(job.op, cir[job.c], job.obj)
           /\ UpdateStatus => /\ job.op = "status"
                              /\ Store(job.c, StatusUpdated(job.c, job.obj), {Reconciler})
           /\ UpdateResource => /\ job.op = "resource"
                                /\ Store(job.c, Updated(job.c, job.obj), {Reconciler})
           /\ UNCHANGED <<cache, inst, dirty>> /\ job' = NoJob
<1>1. job # NoJob /\ Holds(Reconciler, job.c)
  BY DEF UpdateStatus, UpdateResource
<1>2. job.c \in CIRs /\ job.obj \in Objects
  BY <1>1 DEF DecisionInv, TypeOK, Jobs
<1>3. cir[job.c] \in Objects /\ Regular(cir[job.c])
  BY <1>2 DEF DecisionInv, TypeOK, StoreTypeOK
<1>4. Decided(job.op, cir[job.c], job.obj)
  BY <1>1 DEF DecisionInv, WriteDecided
<1> QED
  BY <1>2, <1>3, <1>4 DEF UpdateStatus, UpdateResource, providerVars

LEMMA CommitDecision ==
    ASSUME DecisionInv, TypeOK', UpdateStatus \/ UpdateResource
    PROVE  DecisionInv'
<1>1. /\ job.c \in CIRs /\ job.obj \in Objects
      /\ Regular(cir[job.c]) /\ Decided(job.op, cir[job.c], job.obj)
      /\ UpdateStatus => /\ job.op = "status"
                         /\ Store(job.c, StatusUpdated(job.c, job.obj), {Reconciler})
      /\ UpdateResource => /\ job.op = "resource"
                           /\ Store(job.c, Updated(job.c, job.obj), {Reconciler})
      /\ UNCHANGED cache /\ job' = NoJob
  BY CommitStores
<1>2. Informer \notin {Reconciler}
  BY DEF Informer, Reconciler
<1>3. TypeOK
  BY DEF DecisionInv
<1>4. CASE UpdateStatus
  <2>1. Regular(StatusUpdated(job.c, job.obj)) /\ StatusUpdated(job.c, job.obj) \in Objects
    BY <1>1, <1>3, <1>4, StatusRegular, WriteTypes DEF Decided
  <2> QED
    BY <1>1, <1>2, <1>4, <2>1, StoreDecision
<1>5. CASE UpdateResource
  <2>1. Regular(Updated(job.c, job.obj)) /\ Updated(job.c, job.obj) \in Objects
    BY <1>1, <1>3, <1>5, UpdateRegular, WriteTypes DEF Decided
  <2> QED
    BY <1>1, <1>2, <1>5, <2>1, StoreDecision
<1> QED
  BY <1>4, <1>5

LEMMA NextDecision ==
    ASSUME DecisionInv, [Next]_vars
    PROVE  DecisionInv'
<1>t. TypeOK /\ TypeOK'
  BY NextTypeOK DEF DecisionInv
<1>1. ASSUME NEW c \in CIRs, Reconcile(c) PROVE DecisionInv'
  BY <1>1, <1>t, ReconcileDecision
<1>2. ASSUME NEW c \in CIRs, Environment(c) PROVE DecisionInv'
  <2>1. CASE OtherWriters(c) /\ UNCHANGED job
    <3>1. PICK o \in Objects : Become(c, o) /\ Regular(o)
      BY <1>t, <2>1, OthersRegular DEF DecisionInv
    <3> QED
      BY <1>t, <2>1, <3>1, StoreDecision DEF Become
  <2>2. CASE ClientUse(c)
    BY <1>t, <2>2, NoStoreDecision DEF ClientUse, storeVars, ctlVars
  <2> QED
    BY <1>2, <2>1, <2>2 DEF Environment
<1>3. ASSUME NEW c \in CIRs, Lapse(c) PROVE DecisionInv'
  BY <1>3, <1>t, NoStoreDecision DEF Lapse, storeVars
<1>4. ASSUME NEW c \in CIRs, Catch(c) PROVE DecisionInv'
  <2>1. /\ UNCHANGED <<cir, job>>
        /\ cache' = [cache EXCEPT ![c] = cir[c]]
        /\ \A d \in CIRs : Holds(Informer, d)' <=> Holds(Informer, d) \/ d = c
        /\ \A d \in CIRs : Holds(Reconciler, d)' <=> Holds(Reconciler, d)
    BY <1>4 DEF Catch, Sync, ctlVars, Holds, Informer, Reconciler
  <2>2. InformerExact'
    BY <1>t, <2>1 DEF DecisionInv, InformerExact, TypeOK, StoreTypeOK
  <2>3. WriteDecided'
    BY <2>1 DEF DecisionInv, WriteDecided, TypeOK, Jobs
  <2> QED
    BY <1>t, <2>1, <2>2, <2>3 DEF DecisionInv, Regular, IsFallbackPool
<1>5. CASE UpdateStatus \/ UpdateResource
  BY <1>5, <1>t, CommitDecision
<1>6. CASE UpdateConflict \/ LoseWrite
  BY <1>6, <1>t, NoStoreDecision DEF UpdateConflict, LoseWrite, storeVars
<1>7. ASSUME NEW i \in Instances, ProviderStep(i) PROVE DecisionInv'
  BY <1>7, <1>t, NoStoreDecision DEF ProviderStep, storeVars, ctlVars
<1>8. CASE UNCHANGED vars
  BY <1>8, <1>t, NoStoreDecision DEF vars, storeVars, ctlVars
<1> QED
  BY <1>1, <1>2, <1>3, <1>4, <1>5, <1>6, <1>7, <1>8 DEF Next, Commit

LEMMA InitDecision == Init => DecisionInv
<1> SUFFICES ASSUME Init PROVE DecisionInv
  OBVIOUS
<1>1. TypeOK
  BY InitTypeOK
<1>2. /\ job = NoJob
      /\ \A c \in CIRs : cir[c] = Absent /\ cache[c] = Absent
  BY DEF Init, StoreInit
<1> QED
  BY <1>1, <1>2, AbsentRegular DEF DecisionInv, InformerExact, WriteDecided

(* A write that the API server accepts was decided on the object as it is: *)
(* what ciresource_fsm.go decides from an informer that lags, and writes   *)
(* after provider calls of any length, is as if it had been decided and    *)
(* written in one go.                                                      *)
THEOREM DecisionInvariant == Spec => []DecisionInv
<1> QED
  BY InitDecision, NextDecision, PTL DEF Spec

-----------------------------------------------------------------------------
(* The refinement of CIResourceLifecycle.                                  *)

LEMMA HideFields ==
    ASSUME NEW o \in Objects
    PROVE  /\ Hide(o) \in Objects
           /\ Hide(o).live = o.live /\ Hide(o).fin = o.fin /\ Hide(o).del = o.del
           /\ Hide(o).evict = o.evict /\ Hide(o).pool = o.pool /\ Hide(o).spec = o.spec
           /\ Hide(o).state = o.state /\ Hide(o).addr = o.addr /\ Hide(o).id = NoInstance
           /\ Lifecycle!IsFallbackPool(Hide(o)) <=> IsFallbackPool(o)
BY StoreAssumption DEF Hide, Objects, IsFallbackPool, Lifecycle!IsFallbackPool

\* Objects that differ in their ids only look the same.
LEMMA HideEqual ==
    ASSUME NEW p \in Objects, NEW q \in Objects,
           p.live = q.live, p.fin = q.fin, p.del = q.del, p.evict = q.evict,
           p.pool = q.pool, p.spec = q.spec, p.state = q.state, p.addr = q.addr
    PROVE  Hide(p) = Hide(q)
BY DEF Hide, Objects

\* A new version of an object is one in the image, too.
LEMMA StoreBecomes ==
    ASSUME TypeOK, NEW c \in CIRs, NEW o \in Objects, NEW done, done \subseteq {Reconciler},
           Store(c, o, done), UNCHANGED cache
    PROVE  Lifecycle!Become(c, Hide(o))
<1>1. [x \in CIRs |-> Hide(cir[x])]' = [[x \in CIRs |-> Hide(cir[x])] EXCEPT ![c] = Hide(o)]
  BY DEF Store, TypeOK, StoreTypeOK
<1>2. Forget(Reconciler)' = { p \in Forget(Reconciler) : p[2] # c /\ p[1] \notin {} }
  BY DEF Store, Forget
<1>3. UNCHANGED [x \in CIRs |-> Hide(cache[x])]
  OBVIOUS
<1> QED
  BY <1>1, <1>2, <1>3 DEF Lifecycle!Become, Lifecycle!Store

LEMMA StatusImage ==
    ASSUME TypeOK, NEW c \in CIRs, NEW n \in Objects
    PROVE  LET h == Hide(cir[c]) IN
           /\ Hide(StatusUpdated(c, n)) = [h EXCEPT !.state = n.state, !.addr = n.addr]
           /\ n.addr = cir[c].addr =>
                Hide(StatusUpdated(c, n)) = [h EXCEPT !.state = n.state]
<1>1. cir[c] \in Objects
  BY DEF TypeOK, StoreTypeOK
<1> QED
  BY <1>1 DEF StatusUpdated, Hide, Objects

\* An accepted status is a transition of the state machine.
LEMMA StatusImplements ==
    ASSUME TypeOK, NEW c \in CIRs, NEW n \in Objects,
           Regular(cir[c]), cir[c].live, StatusDecided(cir[c], n),
           Lifecycle!Become(c, Hide(StatusUpdated(c, n)))
    PROVE  Lifecycle!LifecycleStep(c)
<1> DEFINE o == cir[c]
           h == Hide(o)
           img == [x \in CIRs |-> Hide(cir[x])]
           s == Hide(StatusUpdated(c, n))
<1>1. img[c] = h
  OBVIOUS
<1>2. o \in Objects
  BY DEF TypeOK, StoreTypeOK
<1>3. /\ h.live = o.live /\ h.fin = o.fin /\ h.del = o.del /\ h.spec = o.spec
      /\ h.state = o.state /\ h.addr = o.addr
      /\ Lifecycle!IsFallbackPool(h) <=> IsFallbackPool(o)
  BY <1>2, HideFields
<1>4. /\ s = [h EXCEPT !.state = n.state, !.addr = n.addr]
      /\ n.addr = o.addr => s = [h EXCEPT !.state = n.state]
  BY StatusImage
<1>5. Lifecycle!Become(c, s) /\ o.live /\ StatusDecided(o, n)
  OBVIOUS
<1>6. n.addr \in BOOLEAN
  BY DEF Objects
<1>7. ASSUME NEW from, NEW to, Moves(o, n, from, to)
      PROVE  Lifecycle!Move(c, from, to)
  <2>1. o.state = from /\ s = [h EXCEPT !.state = to]
    BY <1>4, <1>7 DEF Moves
  <2> HIDE DEF o, h, s, img
  <2> QED
    BY <1>1, <1>3, <1>5, <2>1 DEF Lifecycle!Move, img
<1>8. CASE Acquires(o, n)
  <2>1. o.state = "provisioning" /\ s = [h EXCEPT !.state = n.state]
    BY <1>4, <1>8 DEF Acquires
  <2>2. CASE IsFallbackPool(o) /\ o.spec # "in use" /\ n.state = "available"
    <3>1. s = [h EXCEPT !.state = "available"]
      BY <2>1, <2>2
    <3> HIDE DEF o, h, s
    <3>2. Lifecycle!Provision(c)
      BY <1>1, <1>3, <1>5, <2>1, <2>2, <3>1 DEF Lifecycle!Provision
    <3> QED
      BY <3>2 DEF Lifecycle!LifecycleStep
  <2>3. CASE (~IsFallbackPool(o) \/ o.spec = "in use") /\ n.state = "provisioning wait"
    <3>1. s = [h EXCEPT !.state = "provisioning wait"]
      BY <2>1, <2>3
    <3> HIDE DEF o, h, s
    <3>2. Lifecycle!Provision(c)
      BY <1>1, <1>3, <1>5, <2>1, <2>3, <3>1 DEF Lifecycle!Provision, Lifecycle!Move
    <3> QED
      BY <3>2 DEF Lifecycle!LifecycleStep
  <2> QED
    BY <1>8, <2>2, <2>3 DEF Acquires
<1>9. CASE o.state = "provisioning wait" /\ n.state = "available" /\ n.addr
  <2>1. s = [h EXCEPT !.state = "available", !.addr = TRUE]
    BY <1>4, <1>6, <1>9
  <2> HIDE DEF o, h, s
  <2>2. Lifecycle!FinishProvisioning(c)
    BY <1>1, <1>3, <1>5, <1>9, <2>1 DEF Lifecycle!FinishProvisioning
  <2> QED
    BY <2>2 DEF Lifecycle!LifecycleStep
<1>10. CASE Cleans(o, n)
  <2>1. o.state = "cleaning"
    BY <1>10 DEF Cleans
  <2>2. s = IF Lifecycle!IsFallbackPool(h)
            THEN [h EXCEPT !.state = "cleaning wait", !.addr = FALSE]
            ELSE [h EXCEPT !.state = "cleaning wait"]
    BY <1>3, <1>4, <1>6, <1>10 DEF Cleans
  <2> HIDE DEF o, h, s
  <2>3. Lifecycle!WaitCleaning(c)
    BY <1>1, <1>3, <1>5, <2>1, <2>2 DEF Lifecycle!WaitCleaning
  <2> QED
    BY <2>3 DEF Lifecycle!LifecycleStep
<1> HIDE DEF o, h, s
<1>11. CASE Moves(o, n, "none", "provisioning") /\ (o.del \/ o.fin)
  BY <1>1, <1>3, <1>7, <1>11 DEF Lifecycle!Begin, Lifecycle!LifecycleStep
<1>12. CASE Moves(o, n, "available", "in use") /\ ~o.del /\ o.spec = "in use"
  BY <1>1, <1>3, <1>7, <1>12 DEF Lifecycle!StartUse, Lifecycle!LifecycleStep
<1>13. CASE Moves(o, n, "available", "maintenance") /\ ~o.del /\ o.spec = "maintenance"
  BY <1>1, <1>3, <1>7, <1>13 DEF Lifecycle!StartMaintenance, Lifecycle!LifecycleStep
<1>14. CASE (Moves(o, n, "available", "delete") \/ Moves(o, n, "maintenance", "delete")) /\ o.del
  BY <1>1, <1>3, <1>7, <1>14 DEF Lifecycle!StartDeletion, Lifecycle!LifecycleStep
<1>15. CASE Moves(o, n, "maintenance", "available") /\ ~o.del /\ o.spec = "available"
  BY <1>1, <1>3, <1>7, <1>15 DEF Lifecycle!EndMaintenance, Lifecycle!LifecycleStep
<1>16. CASE Moves(o, n, "in use", "cleaning") /\ o.spec = "available"
  BY <1>1, <1>3, <1>7, <1>16 DEF Lifecycle!StartCleaning, Lifecycle!LifecycleStep
<1>17. CASE Moves(o, n, "in use", "provisioning") /\ IsFallbackPool(o) /\ ~o.addr /\ o.spec = "in use"
  BY <1>1, <1>3, <1>7, <1>17 DEF Lifecycle!ProvisionInUse, Lifecycle!LifecycleStep
<1>18. CASE Moves(o, n, "cleaning wait", "available")
  BY <1>1, <1>3, <1>7, <1>18 DEF Lifecycle!FinishCleaning, Lifecycle!LifecycleStep
<1> QED
  BY <1>5, <1>8, <1>9, <1>10, <1>11, <1>12, <1>13, <1>14, <1>15, <1>16, <1>17, <1>18
  DEF StatusDecided

\* New and absent objects name no instance.
LEMMA AbsentImage ==
    /\ Hide(Absent) = Lifecycle!Absent
    /\ \A p \in Pools : Hide(Created(p)) = Lifecycle!Created(p)
<1>1. Absent = Lifecycle!Absent /\ Absent.id = NoInstance
  BY DEF Absent, Lifecycle!Absent
<1>2. \A o \in Objects : o.id = NoInstance => Hide(o) = o
  BY DEF Hide, Objects
<1>3. ASSUME NEW p \in Pools
      PROVE  Created(p) = Lifecycle!Created(p) /\ Created(p).id = NoInstance
  BY <1>1, ObjectTypes DEF Created, Lifecycle!Created, Absent
<1> QED
  BY <1>1, <1>2, <1>3, ObjectTypes

\* So is an accepted update of the rest.
LEMMA ResourceImplements ==
    ASSUME TypeOK, NEW c \in CIRs, NEW n \in Objects,
           Regular(cir[c]), cir[c].live, ResourceDecided(cir[c], n),
           Lifecycle!Become(c, Hide(Updated(c, n)))
    PROVE  Lifecycle!LifecycleStep(c)
<1> DEFINE o == cir[c]
           h == Hide(o)
           img == [x \in CIRs |-> Hide(cir[x])]
           u == Updated(c, n)
<1>1. img[c] = h
  OBVIOUS
<1>2. o \in Objects
  BY DEF TypeOK, StoreTypeOK
<1>3. /\ h.live = o.live /\ h.fin = o.fin /\ h.del = o.del /\ h.spec = o.spec
      /\ h.state = o.state /\ h.addr = o.addr
      /\ Lifecycle!IsFallbackPool(h) <=> IsFallbackPool(o)
  BY <1>2, HideFields
<1>4. Lifecycle!Become(c, Hide(u)) /\ o.live
  OBVIOUS
<1>5. CASE o.state = "none" /\ ~o.del /\ ~o.fin /\ n.fin /\ n.spec = o.spec /\ n.evict = o.evict
  <2>1. Hide(u) = [h EXCEPT !.fin = TRUE]
    BY <1>2, <1>5 DEF Updated, Hide, Objects
  <2> HIDE DEF o, h, u
  <2>2. Lifecycle!AddFinalizer(c)
    BY <1>1, <1>3, <1>4, <1>5, <2>1 DEF Lifecycle!AddFinalizer
  <2> QED
    BY <2>2 DEF Lifecycle!LifecycleStep
<1>6. CASE /\ o.state = "in use" /\ o.spec = "in use" /\ n.spec = "available" /\ n.fin = o.fin
           /\ ~IsFallbackPool(o) \/ o.addr \/ o.id # FallbackResource
           /\ n.evict = o.evict
  <2>1. o.fin
    BY <1>4, <1>6 DEF Regular
  <2>2. Hide(u) = [h EXCEPT !.spec = "available"]
    BY <1>2, <1>6, <2>1 DEF Updated, Hide, Objects
  <2>3. ~IsFallbackPool(o) \/ o.addr
    BY <1>6 DEF Regular
  <2> HIDE DEF o, h, u
  <2>4. Lifecycle!TakeBack(c)
    BY <1>1, <1>3, <1>4, <1>6, <2>2, <2>3 DEF Lifecycle!TakeBack
  <2> QED
    BY <2>4 DEF Lifecycle!LifecycleStep
<1>7. CASE o.state = "delete" /\ ~n.fin
  <2>1. o.del
    BY <1>7 DEF Regular
  <2>2. u = Absent /\ Hide(Absent) = Lifecycle!Absent
    BY <1>7, <2>1, AbsentImage DEF Updated
  <2> HIDE DEF o, h, u
  <2>3. Lifecycle!Remove(c)
    BY <1>1, <1>3, <1>4, <1>7, <2>2 DEF Lifecycle!Remove
  <2> QED
    BY <2>3 DEF Lifecycle!LifecycleStep
<1> QED
  BY <1>5, <1>6, <1>7 DEF ResourceDecided

\* What the other writers do to an object, they do to its image.
LEMMA OthersImage ==
    ASSUME TypeOK, NEW c \in CIRs, OtherWriters(c)
    PROVE  Lifecycle!OtherWriters(c)
<1> DEFINE o == cir[c]
           h == Hide(o)
           img == [x \in CIRs |-> Hide(cir[x])]
<1>1. img[c] = h
  OBVIOUS
<1>2. o \in Objects
  BY DEF TypeOK, StoreTypeOK
<1>3. /\ h.live = o.live /\ h.fin = o.fin /\ h.del = o.del /\ h.spec = o.spec
      /\ h.state = o.state /\ h.evict = o.evict
  BY <1>2, HideFields
<1>4. Hide(Absent) = Lifecycle!Absent
  BY AbsentImage
<1>5. ASSUME NEW n \in Objects, Become(c, n)
      PROVE  Lifecycle!Become(c, Hide(n))
  BY <1>5, StoreBecomes DEF Become
<1>6. ASSUME NEW p \in Pools, Create(c, p)
      PROVE  Lifecycle!OtherWriters(c)
  <2>1. Hide(Created(p)) = Lifecycle!Created(p)
    BY AbsentImage
  <2>2. Lifecycle!Become(c, Lifecycle!Created(p)) /\ ~o.live
    BY <1>5, <1>6, <2>1, ObjectTypes DEF Create
  <2> HIDE DEF o, h
  <2>3. Lifecycle!Create(c, p)
    BY <1>1, <1>3, <2>2 DEF Lifecycle!Create
  <2> QED
    BY <2>3 DEF Lifecycle!OtherWriters
<1>7. \A s \in {"available", "in use", "maintenance"} :
        Become(c, [o EXCEPT !.spec = s]) => Lifecycle!Become(c, [h EXCEPT !.spec = s])
  <2> SUFFICES ASSUME NEW s \in {"available", "in use", "maintenance"},
                      Become(c, [o EXCEPT !.spec = s])
               PROVE  Lifecycle!Become(c, [h EXCEPT !.spec = s])
    OBVIOUS
  <2>1. [o EXCEPT !.spec = s] \in Objects
    BY <1>2, ObjectTypes DEF SpecStates
  <2>2. Hide([o EXCEPT !.spec = s]) = [h EXCEPT !.spec = s]
    BY <1>2 DEF Hide, Objects
  <2> QED
    BY <1>5, <2>1, <2>2
<1>8. CASE Evict(c)
  <2>1. [o EXCEPT !.evict = TRUE] \in Objects
    BY <1>2, ObjectTypes
  <2>2. Hide([o EXCEPT !.evict = TRUE]) = [h EXCEPT !.evict = TRUE]
    BY <1>2 DEF Hide, Objects
  <2>3. Lifecycle!Become(c, [h EXCEPT !.evict = TRUE])
    BY <1>5, <1>8, <2>1, <2>2 DEF Evict
  <2>4. o.live /\ o.state \in {"available", "maintenance", "error"} /\ ~o.evict
    BY <1>8 DEF Evict
  <2> HIDE DEF o, h
  <2>5. Lifecycle!Evict(c)
    BY <1>1, <1>3, <2>3, <2>4 DEF Lifecycle!Evict
  <2> QED
    BY <2>5 DEF Lifecycle!OtherWriters
<1>9. CASE Delete(c)
  <2>1. Deleted(c) \in Objects /\ o.live /\ ~o.del
    BY <1>9, <1>2, ObjectTypes DEF Delete, Deleted
  <2>2. Hide(Deleted(c)) = IF h.fin THEN [h EXCEPT !.del = TRUE] ELSE Lifecycle!Absent
    BY <1>2, <1>3, <1>4 DEF Deleted, Hide, Objects
  <2>3. Lifecycle!Become(c, Hide(Deleted(c)))
    BY <1>5, <1>9, <2>1 DEF Delete
  <2> HIDE DEF o, h
  <2>4. Lifecycle!Delete(c)
    BY <1>1, <1>3, <2>1, <2>2, <2>3 DEF Lifecycle!Delete, Lifecycle!Deleted
  <2> QED
    BY <2>4 DEF Lifecycle!OtherWriters
<1>10. CASE ClientAcquire(c)
  <2>1. /\ o.live /\ o.state = "available" /\ o.spec \notin {"in use", "maintenance"}
        /\ Lifecycle!Become(c, [h EXCEPT !.spec = "in use"])
    BY <1>7, <1>10 DEF ClientAcquire
  <2> HIDE DEF o, h
  <2> QED
    BY <1>1, <1>3, <2>1 DEF Lifecycle!ClientAcquire, Lifecycle!OtherWriters
<1>11. CASE ClientRelease(c)
  <2>1. /\ o.live /\ o.state = "in use" /\ o.spec # "available"
        /\ Lifecycle!Become(c, [h EXCEPT !.spec = "available"])
    BY <1>7, <1>11 DEF ClientRelease
  <2> HIDE DEF o, h
  <2> QED
    BY <1>1, <1>3, <2>1 DEF Lifecycle!ClientRelease, Lifecycle!OtherWriters
<1>12. CASE AdminMaintenance(c)
  <2>1. /\ o.live /\ o.spec # "maintenance"
        /\ AdminEdits = "any" \/ (AdminEdits = "idle" /\ o.spec # "in use")
        /\ Lifecycle!Become(c, [h EXCEPT !.spec = "maintenance"])
    BY <1>7, <1>12 DEF AdminMaintenance
  <2> HIDE DEF o, h
  <2> QED
    BY <1>1, <1>3, <2>1 DEF Lifecycle!AdminMaintenance, Lifecycle!OtherWriters
<1>13. CASE AdminResume(c)
  <2>1. /\ o.live /\ o.spec = "maintenance"
        /\ Lifecycle!Become(c, [h EXCEPT !.spec = "available"])
    BY <1>7, <1>13 DEF AdminResume
  <2> HIDE DEF o, h
  <2> QED
    BY <1>1, <1>3, <2>1 DEF Lifecycle!AdminResume, Lifecycle!OtherWriters
<1> QED
  BY <1>6, <1>8, <1>9, <1>10, <1>11, <1>12, <1>13 DEF OtherWriters

\* A step that writes no object is not seen, but for the informer's.
LEMMA UnseenStep ==
    ASSUME UNCHANGED <<cir, cache>>, Forget(Reconciler)' = Forget(Reconciler)
    PROVE  UNCHANGED Lifecycle!storeVars
BY DEF Lifecycle!storeVars

LEMMA NextRefines ==
    ASSUME DecisionInv, [Next]_vars
    PROVE  [Lifecycle!LifecycleNext]_(Lifecycle!storeVars)
<1>t. TypeOK
  BY DEF DecisionInv
<1>1. ASSUME NEW c \in CIRs, Reconcile(c)
      PROVE  UNCHANGED Lifecycle!storeVars
  <2>1. CASE ProvisionLeaks(c)
    BY <2>1, UnseenStep DEF ProvisionLeaks, storeVars, Forget
  <2>2. ASSUME NEW op, NEW n, Write(op, c, n)
        PROVE  UNCHANGED Lifecycle!storeVars
    BY <2>2, UnseenStep DEF Write, ReadFromCache, Forget
  <2> QED
    BY <1>t, <1>1, <2>1, <2>2, HandlerDecides
<1>2. ASSUME NEW c \in CIRs, Environment(c)
      PROVE  Lifecycle!OtherWriters(c) \/ UNCHANGED Lifecycle!storeVars
  <2>1. CASE OtherWriters(c)
    BY <1>t, <2>1, OthersImage
  <2>2. CASE ClientUse(c)
    BY <2>2, UnseenStep DEF ClientUse, storeVars, Forget
  <2> QED
    BY <1>2, <2>1, <2>2 DEF Environment
<1>3. ASSUME NEW c \in CIRs, Lapse(c)
      PROVE  UNCHANGED Lifecycle!storeVars
  BY <1>3, UnseenStep DEF Lapse, storeVars, Forget
<1>4. ASSUME NEW c \in CIRs, Catch(c)
      PROVE  Lifecycle!Sync(c)
  <2>1. /\ <<Informer, c>> \notin current
        /\ cache' = [cache EXCEPT ![c] = cir[c]]
        /\ current' = current \union {<<Informer, c>>}
        /\ UNCHANGED cir
    BY <1>4 DEF Catch, Sync, Holds
  <2>2. Informer # Reconciler /\ Lifecycle!Informer = Informer
    BY DEF Informer, Reconciler, Lifecycle!Informer
  <2>3. /\ <<Informer, c>> \notin Forget(Reconciler)
        /\ Forget(Reconciler)' = Forget(Reconciler) \union {<<Informer, c>>}
    BY <2>1, <2>2 DEF Forget
  <2>4. [x \in CIRs |-> Hide(cache[x])]'
           = [[x \in CIRs |-> Hide(cache[x])] EXCEPT ![c] = [x \in CIRs |-> Hide(cir[x])][c]]
    BY <1>t, <2>1 DEF TypeOK, StoreTypeOK
  <2> QED
    BY <2>1, <2>2, <2>3, <2>4 DEF Lifecycle!Sync, Lifecycle!Holds
<1>5. ASSUME UpdateStatus \/ UpdateResource
      PROVE  \E c \in CIRs : Lifecycle!LifecycleStep(c)
  <2>1. /\ job.c \in CIRs /\ job.obj \in Objects /\ Regular(cir[job.c])
        /\ Decided(job.op, cir[job.c], job.obj)
        /\ UpdateStatus => /\ job.op = "status"
                           /\ Store(job.c, StatusUpdated(job.c, job.obj), {Reconciler})
        /\ UpdateResource => /\ job.op = "resource"
                             /\ Store(job.c, Updated(job.c, job.obj), {Reconciler})
        /\ UNCHANGED cache
    BY <1>5, CommitStores
  <2>2. StatusUpdated(job.c, job.obj) \in Objects /\ Updated(job.c, job.obj) \in Objects
    BY <1>t, <2>1, WriteTypes
  <2>3. CASE UpdateStatus
    <3>1. Lifecycle!Become(job.c, Hide(StatusUpdated(job.c, job.obj)))
      BY <1>t, <2>1, <2>2, <2>3, StoreBecomes
    <3> QED
      BY <1>t, <2>1, <2>3, <3>1, StatusImplements DEF Decided
  <2>4. CASE UpdateResource
    <3>1. Lifecycle!Become(job.c, Hide(Updated(job.c, job.obj)))
      BY <1>t, <2>1, <2>2, <2>4, StoreBecomes
    <3> QED
      BY <1>t, <2>1, <2>4, <3>1, ResourceImplements DEF Decided
  <2> QED
    BY <1>5, <2>3, <2>4
<1>6. CASE UpdateConflict
  BY <1>6, UnseenStep DEF UpdateConflict, storeVars, Forget
<1>7. CASE LoseWrite
  BY <1>7, UnseenStep DEF LoseWrite, Forget
<1>8. ASSUME NEW i \in Instances, ProviderStep(i)
      PROVE  UNCHANGED Lifecycle!storeVars
  BY <1>8, UnseenStep DEF ProviderStep, storeVars, Forget
<1>9. CASE UNCHANGED vars
  BY <1>9, UnseenStep DEF vars, storeVars, Forget
<1> QED
  BY <1>1, <1>2, <1>3, <1>4, <1>5, <1>6, <1>7, <1>8, <1>9
  DEF Next, Commit, Lifecycle!LifecycleNext

LEMMA InitRefines == Init => Lifecycle!StoreInit
<1> SUFFICES ASSUME Init PROVE Lifecycle!StoreInit
  OBVIOUS
<1>1. Hide(Absent) = Lifecycle!Absent
  BY AbsentImage
<1>2. /\ cir = [c \in CIRs |-> Absent] /\ cache = [c \in CIRs |-> Absent]
      /\ current = {Informer} \X CIRs
  BY DEF Init, StoreInit
<1>3. Forget(Reconciler) = {Lifecycle!Informer} \X CIRs
  BY <1>2 DEF Forget, Informer, Reconciler, Lifecycle!Informer
<1> QED
  BY <1>1, <1>2, <1>3 DEF Lifecycle!StoreInit

(* The reconciler of ciresource_fsm.go, with the provider, the informer's  *)
(* old copies, lost writes and crashes between the two halves of a         *)
(* reconciliation, does to the objects nothing but the transitions that    *)
(* the API and the pool reconciler count on.                               *)
THEOREM ControllerImplementsLifecycle == Spec => ImplementsLifecycle
<1> QED
  BY InitRefines, NextRefines, DecisionInvariant, PTL
  DEF Spec, ImplementsLifecycle, Lifecycle!LifecycleSpec

-----------------------------------------------------------------------------
(* The refinement of CIResourcePhases.  Phases do not show the instance of *)
(* an object, so that what CIResourceLifecycleProofs says of the other     *)
(* writers holds here as it is.                                            *)

LEMMA DecisionGivesLifecycle == DecisionInv => LifecycleInv
BY DEF DecisionInv, TypeOK, StoreTypeOK, Regular, LifecycleInv, ObjectInv

\* The reconciler's own writes: BecomeSet, for a store that ends a reconciliation.
LEMMA StoreSet ==
    ASSUME cir \in [CIRs -> Objects], NEW c \in CIRs, NEW o, Store(c, o, {Reconciler})
    PROVE  /\ Phases!Set(c, PhaseObject(o))
           /\ PhaseObject(o) = PhaseObject(cir[c]) => UNCHANGED Phases!phaseVars
<1>1. cir' = [cir EXCEPT ![c] = o]
  BY DEF Store
<1>2. [x \in CIRs |-> PhaseObject(cir[x])]'
      = [[x \in CIRs |-> PhaseObject(cir[x])] EXCEPT ![c] = PhaseObject(o)]
  BY <1>1
<1> QED
  BY <1>2 DEF Phases!Set, Phases!phaseVars

\* An accepted status is a transition of the phases, or none.
LEMMA StatusPhases ==
    ASSUME DecisionInv, NEW c \in CIRs, NEW n \in Objects,
           Decided("status", cir[c], n), Store(c, StatusUpdated(c, n), {Reconciler})
    PROVE  Phases!PhaseStep(c) \/ UNCHANGED Phases!phaseVars
<1> DEFINE o == cir[c]
           s == StatusUpdated(c, n)
           obj == PhaseObject(o)
<1>1. o \in Objects /\ s \in Objects /\ Regular(o) /\ o.live /\ StatusDecided(o, n)
  BY WriteTypes DEF DecisionInv, TypeOK, StoreTypeOK, Decided
<1>2. /\ s.live = o.live /\ s.spec = o.spec /\ s.pool = o.pool /\ s.evict = o.evict
      /\ s.del = o.del /\ s.state = n.state
  BY <1>1 DEF StatusUpdated, Objects
<1>3. /\ obj.phase = PhaseOf(o) /\ obj.pool = o.pool /\ obj.del = o.del
      /\ o.spec \in {"none", "available"} => obj.spec = "free"
      /\ o.spec \notin {"none", "available"} => obj.spec = o.spec
  BY <1>1, PhaseFields
<1>4. /\ PhaseOf(o) = PhaseOf(s) => UNCHANGED Phases!phaseVars
      /\ Phases!Shift(c, PhaseOf(o), PhaseOf(s))
  <2>1. PhaseObject(s) = [obj EXCEPT !.phase = PhaseOf(s)]
    BY <1>2 DEF PhaseObject
  <2>2. PhaseOf(o) = PhaseOf(s) => PhaseObject(s) = obj
    BY <1>2 DEF PhaseObject
  <2>3. cir \in [CIRs -> Objects]
    BY DEF DecisionInv, TypeOK, StoreTypeOK
  <2>4. /\ Phases!Set(c, PhaseObject(s))
        /\ PhaseObject(s) = obj => UNCHANGED Phases!phaseVars
    BY <2>3, StoreSet
  <2> QED
    BY <1>3, <2>1, <2>2, <2>4 DEF Phases!Shift
<1>5. /\ o.state \in {"none", "provisioning", "provisioning wait"} => PhaseOf(o) = "new"
      /\ o.state \in {"cleaning", "cleaning wait"} => PhaseOf(o) = "cleaning"
      /\ o.state \in {"available", "in use", "maintenance", "delete"} => PhaseOf(o) = o.state
  BY <1>1, PhaseOfObject
<1>6. /\ n.state \in {"none", "provisioning", "provisioning wait"} => PhaseOf(s) = "new"
      /\ n.state \in {"cleaning", "cleaning wait"} => PhaseOf(s) = "cleaning"
      /\ n.state \in {"available", "in use", "maintenance", "delete"} => PhaseOf(s) = n.state
  BY <1>1, <1>2, PhaseOfObject
<1> HIDE DEF o, s, obj
<1>7. CASE Moves(o, n, "none", "provisioning") \/ Cleans(o, n)
  <2>1. \/ o.state = "none" /\ n.state = "provisioning"
        \/ o.state = "cleaning" /\ n.state = "cleaning wait"
    BY <1>7 DEF Moves, Cleans
  <2>2. \/ PhaseOf(o) = "new" /\ PhaseOf(s) = "new"
        \/ PhaseOf(o) = "cleaning" /\ PhaseOf(s) = "cleaning"
    BY <1>5, <1>6, <2>1
  <2> QED
    BY <1>4, <2>2
<1>8. CASE \/ Acquires(o, n)
           \/ o.state = "provisioning wait" /\ n.state = "available"
  <2>1. PhaseOf(o) = "new" /\ PhaseOf(s) \in {"new", "available"}
    BY <1>5, <1>6, <1>8 DEF Acquires
  <2> QED
    BY <1>4, <2>1 DEF Phases!PhaseStep, Phases!FinishProvisioning
<1>9. CASE Moves(o, n, "available", "in use") /\ ~o.del /\ o.spec = "in use"
  <2>1. Phases!Shift(c, "available", "in use") /\ ~obj.del /\ obj.spec = "in use"
    BY <1>3, <1>4, <1>5, <1>6, <1>9 DEF Moves
  <2> QED
    BY <2>1 DEF Phases!PhaseStep, Phases!StartUse, obj, o
<1>10. CASE Moves(o, n, "available", "maintenance") /\ ~o.del /\ o.spec = "maintenance"
  <2>1. Phases!Shift(c, "available", "maintenance") /\ ~obj.del /\ obj.spec = "maintenance"
    BY <1>3, <1>4, <1>5, <1>6, <1>10 DEF Moves
  <2> QED
    BY <2>1 DEF Phases!PhaseStep, Phases!StartMaintenance, obj, o
<1>11. CASE (Moves(o, n, "available", "delete") \/ Moves(o, n, "maintenance", "delete")) /\ o.del
  <2>1. /\ Phases!Shift(c, "available", "delete") \/ Phases!Shift(c, "maintenance", "delete")
        /\ obj.del
    BY <1>3, <1>4, <1>5, <1>6, <1>11 DEF Moves
  <2> QED
    BY <2>1 DEF Phases!PhaseStep, Phases!StartDeletion, obj, o
<1>12. CASE Moves(o, n, "maintenance", "available") /\ ~o.del /\ o.spec = "available"
  <2>1. Phases!Shift(c, "maintenance", "available") /\ ~obj.del /\ obj.spec = "free"
    BY <1>3, <1>4, <1>5, <1>6, <1>12 DEF Moves
  <2> QED
    BY <2>1 DEF Phases!PhaseStep, Phases!EndMaintenance, obj, o
<1>13. CASE Moves(o, n, "in use", "cleaning") /\ o.spec = "available"
  <2>1. Phases!Shift(c, "in use", "cleaning") /\ obj.spec = "free"
    BY <1>3, <1>4, <1>5, <1>6, <1>13 DEF Moves
  <2> QED
    BY <2>1 DEF Phases!PhaseStep, Phases!StartCleaning, obj, o
<1>14. CASE Moves(o, n, "in use", "provisioning") /\ IsFallbackPool(o) /\ o.spec = "in use"
  <2>1. /\ Phases!Shift(c, "in use", "new")
        /\ obj.pool \in FallbackPools /\ obj.spec = "in use"
    BY <1>3, <1>4, <1>5, <1>6, <1>14 DEF Moves, IsFallbackPool
  <2> QED
    BY <2>1 DEF Phases!PhaseStep, Phases!ProvisionInUse, obj, o
<1>15. CASE Moves(o, n, "cleaning wait", "available")
  <2>1. Phases!Shift(c, "cleaning", "available")
    BY <1>4, <1>5, <1>6, <1>15 DEF Moves
  <2> QED
    BY <2>1 DEF Phases!PhaseStep, Phases!FinishCleaning
<1> QED
  BY <1>1, <1>7, <1>8, <1>9, <1>10, <1>11, <1>12, <1>13, <1>14, <1>15 DEF StatusDecided

\* So is an accepted update of the rest: the finalizer is not seen, the end of
\* a lease and the end of the object are.
LEMMA ResourcePhases ==
    ASSUME DecisionInv, NEW c \in CIRs, NEW n \in Objects,
           Decided("resource", cir[c], n), Store(c, Updated(c, n), {Reconciler})
    PROVE  Phases!PhaseStep(c) \/ UNCHANGED Phases!phaseVars
<1> DEFINE o == cir[c]
           u == Updated(c, n)
           obj == PhaseObject(o)
<1>1. o \in Objects /\ Regular(o) /\ o.live /\ ResourceDecided(o, n)
  BY DEF DecisionInv, TypeOK, StoreTypeOK, Decided
<1>2. /\ Phases!Set(c, PhaseObject(u))
      /\ PhaseObject(u) = obj => UNCHANGED Phases!phaseVars
  BY StoreSet DEF DecisionInv, TypeOK, StoreTypeOK
<1>3. CASE o.state = "none" /\ ~o.del /\ n.spec = o.spec /\ n.evict = o.evict
  <2>1. /\ u.live = o.live /\ u.spec = o.spec /\ u.pool = o.pool /\ u.evict = o.evict
        /\ u.del = o.del /\ u.state = o.state
    BY <1>1, <1>3 DEF Updated, Objects
  <2>2. PhaseOf(u) = PhaseOf(o)
    BY <2>1 DEF PhaseOf
  <2>3. PhaseObject(u) = obj
    BY <2>1, <2>2 DEF PhaseObject
  <2> QED
    BY <1>2, <2>3
<1>4. CASE /\ o.state = "in use" /\ o.spec = "in use" /\ n.spec = "available" /\ n.fin = o.fin
           /\ n.evict = o.evict
  <2>1. o.fin
    BY <1>1, <1>4 DEF Regular
  <2>2. /\ u.live = o.live /\ u.spec = "available" /\ u.pool = o.pool /\ u.evict = o.evict
        /\ u.del = o.del /\ u.state = o.state
    BY <1>1, <1>4, <2>1 DEF Updated, Objects
  <2>3. PhaseOf(o) = "in use" /\ PhaseOf(u) = PhaseOf(o)
    <3>1. PhaseOf(u) = PhaseOf(o)
      BY <2>2 DEF PhaseOf
    <3> QED
      BY <1>1, <1>4, <3>1, PhaseOfObject
  <2>4. PhaseObject(u) = [obj EXCEPT !.spec = "free"]
    <3> HIDE DEF o, u
    <3>1. PhaseObject(u) = [ phase |-> PhaseOf(o), spec |-> "free", pool |-> o.pool,
                             evict |-> o.evict, del |-> o.del ]
      BY <2>2, <2>3 DEF PhaseObject
    <3>2. obj = [ phase |-> PhaseOf(o), spec |-> obj.spec, pool |-> o.pool,
                  evict |-> o.evict, del |-> o.del ]
      BY DEF PhaseObject
    <3> HIDE DEF obj
    <3> QED
      BY <3>1, <3>2
  <2>5. obj.phase = "in use" /\ obj.spec = "in use"
    BY <1>1, <1>4, <2>3, PhaseFields
  <2>6. Phases!TakeBack(c)
    BY <1>2, <2>4, <2>5 DEF Phases!TakeBack
  <2> QED
    BY <2>6 DEF Phases!PhaseStep
<1>5. CASE o.state = "delete" /\ ~n.fin
  <2>1. u = Absent
    BY <1>1, <1>5 DEF Regular, Updated
  <2>2. PhaseObject(u) = Phases!Gone
    BY <2>1, PhaseOfAbsent
  <2>3. obj.phase = "delete"
    BY <1>1, <1>5, PhaseFields, PhaseOfObject
  <2>4. Phases!Remove(c)
    BY <1>2, <2>2, <2>3 DEF Phases!Remove
  <2> QED
    BY <2>4 DEF Phases!PhaseStep
<1> QED
  BY <1>1, <1>3, <1>4, <1>5 DEF ResourceDecided

LEMMA NextPhases ==
    ASSUME DecisionInv, [Next]_vars
    PROVE  [Phases!PhaseNext]_(Phases!phaseVars)
<1>1. ASSUME UNCHANGED cir
      PROVE  UNCHANGED Phases!phaseVars
  BY <1>1 DEF Phases!phaseVars
<1>2. ASSUME NEW c \in CIRs, Reconcile(c)
      PROVE  UNCHANGED cir
  <2>1. TypeOK
    BY DEF DecisionInv
  <2> QED
    BY <1>2, <2>1, HandlerDecides DEF ProvisionLeaks, storeVars, Write
<1>3. ASSUME NEW c \in CIRs, Environment(c)
      PROVE  [Phases!PhaseNext]_(Phases!phaseVars)
  <2>1. CASE OtherWriters(c)
    BY <2>1, OthersImplement, DecisionGivesLifecycle
  <2>2. CASE ClientUse(c)
    BY <1>1, <2>2 DEF ClientUse, storeVars
  <2> QED
    BY <1>3, <2>1, <2>2 DEF Environment
<1>4. CASE UpdateStatus \/ UpdateResource
  <2>1. /\ job.c \in CIRs /\ job.obj \in Objects
        /\ Decided(job.op, cir[job.c], job.obj)
        /\ UpdateStatus => /\ job.op = "status"
                           /\ Store(job.c, StatusUpdated(job.c, job.obj), {Reconciler})
        /\ UpdateResource => /\ job.op = "resource"
                             /\ Store(job.c, Updated(job.c, job.obj), {Reconciler})
    BY <1>4, CommitStores
  <2>2. Phases!PhaseStep(job.c) \/ UNCHANGED Phases!phaseVars
    BY <1>4, <2>1, StatusPhases, ResourcePhases
  <2> QED
    BY <2>1, <2>2 DEF Phases!PhaseNext
<1>5. CASE UpdateConflict \/ LoseWrite
  BY <1>1, <1>5 DEF UpdateConflict, LoseWrite, storeVars
<1>6. ASSUME NEW c \in CIRs, Lapse(c) \/ Catch(c)
      PROVE  UNCHANGED cir
  BY <1>6 DEF Lapse, Catch, Sync, storeVars
<1>7. ASSUME NEW i \in Instances, ProviderStep(i)
      PROVE  UNCHANGED cir
  BY <1>7 DEF ProviderStep, storeVars
<1>8. CASE UNCHANGED vars
  BY <1>1, <1>8 DEF vars, storeVars
<1> QED
  BY <1>1, <1>2, <1>3, <1>4, <1>5, <1>6, <1>7, <1>8 DEF Next, Commit

(* What CIPoolController and OfcirAPI assume of the objects is what this   *)
(* reconciler does to them, with its old copies and lost writes.           *)
THEOREM ControllerImplementsPhases == Spec => ImplementsPhases
<1>1. Init => Phases!PhaseInit
  BY InitImplements DEF Init
<1> QED
  BY <1>1, NextPhases, DecisionInvariant, PTL
  DEF Spec, ImplementsPhases, Phases!PhaseSpec

-----------------------------------------------------------------------------
(* Idle fallback CIResources.                                              *)

\* A fallback CIResource has an instance only for a client.
Idle(o) ==
    /\ IsFallbackPool(o)
    /\ o.state \in {"provisioning wait", "available", "maintenance"}
    /\ o.spec # "in use"
    => o.id = FallbackResource

IdleInv == \A c \in CIRs : Idle(cir[c])

\* What the other writers do: when the administrator leaves acquired CIResources
\* alone, only a release takes an object from its client.
Taken(c) == ClientRelease(c) \/ AdminEdits = "any"

LEMMA OthersEdit ==
    ASSUME TypeOK, NEW c \in CIRs, Regular(cir[c]), OtherWriters(c)
    PROVE  \E o \in Objects :
             /\ Become(c, o)
             /\ \/ o.state = "none" /\ o.id = NoInstance /\ cir[c].id = NoInstance
                \/ /\ o.state = cir[c].state /\ o.id = cir[c].id /\ o.pool = cir[c].pool
                   /\ o.spec # "in use" /\ cir[c].spec = "in use" => Taken(c)
             /\ o.live /\ o.spec # "in use" /\ cir[c].spec = "in use" => Taken(c)
<1> DEFINE k == cir[c]
           Edited(o) ==
             /\ Become(c, o)
             /\ \/ o.state = "none" /\ o.id = NoInstance /\ k.id = NoInstance
                \/ /\ o.state = k.state /\ o.id = k.id /\ o.pool = k.pool
                   /\ o.spec # "in use" /\ k.spec = "in use" => Taken(c)
             /\ o.live /\ o.spec # "in use" /\ k.spec = "in use" => Taken(c)
<1>k. k \in Objects
  BY DEF TypeOK, StoreTypeOK
<1>0. Absent.state = "none" /\ Absent.id = NoInstance /\ ~Absent.live /\ Absent.spec = "none"
  BY DEF Absent
<1>1. ASSUME NEW p \in Pools, Create(c, p) PROVE \E o \in Objects : Edited(o)
  <2>1. Become(c, Created(p)) /\ k = Absent
    BY <1>1 DEF Create, Regular
  <2>2. Created(p) \in Objects /\ Created(p).state = "none" /\ Created(p).id = NoInstance
    BY ObjectTypes DEF Created, Absent
  <2> QED
    BY <1>0, <2>1, <2>2
<1>2. ASSUME NEW s \in {"available", "in use", "maintenance"}, Become(c, [k EXCEPT !.spec = s]),
             s # "in use" /\ k.spec = "in use" => Taken(c)
      PROVE  \E o \in Objects : Edited(o)
  <2> DEFINE n == [k EXCEPT !.spec = s]
  <2>1. n \in Objects /\ n.spec = s /\ n.state = k.state /\ n.id = k.id /\ n.pool = k.pool
    BY <1>k DEF Objects, SpecStates
  <2>2. Become(c, n)
    BY <1>2
  <2> HIDE DEF n
  <2>3. Edited(n)
    BY <1>2, <2>1, <2>2
  <2> QED
    BY <2>1, <2>3
<1>3. CASE ClientAcquire(c)
  BY <1>2, <1>3 DEF ClientAcquire
<1>4. CASE ClientRelease(c)
  <2>1. Become(c, [k EXCEPT !.spec = "available"])
    BY <1>4 DEF ClientRelease
  <2> QED
    BY <1>2, <1>4, <2>1 DEF Taken
<1>5. CASE AdminMaintenance(c)
  <2>1. Become(c, [k EXCEPT !.spec = "maintenance"]) /\ (k.spec = "in use" => Taken(c))
    BY <1>5 DEF AdminMaintenance, Taken
  <2> QED
    BY <1>2, <2>1
<1>6. CASE AdminResume(c)
  BY <1>2, <1>6 DEF AdminResume
<1>7. CASE Evict(c)
  <2> DEFINE n == [k EXCEPT !.evict = TRUE]
  <2>1. n \in Objects /\ n.spec = k.spec /\ n.state = k.state /\ n.id = k.id /\ n.pool = k.pool
    BY <1>k DEF Objects
  <2>2. Become(c, n)
    BY <1>7 DEF Evict
  <2> HIDE DEF n
  <2>3. Edited(n)
    BY <2>1, <2>2
  <2> QED
    BY <2>1, <2>3
<1>8. CASE Delete(c)
  <2>1. k.live /\ Become(c, Deleted(c))
    BY <1>8 DEF Delete
  <2>2. CASE ~k.fin
    <3>1. k.id = NoInstance
      BY <2>1, <2>2 DEF Regular
    <3> QED
      BY <1>0, <2>1, <2>2, <3>1, ObjectTypes DEF Deleted
  <2>3. CASE k.fin
    <3> DEFINE n == [k EXCEPT !.del = TRUE]
    <3>1. n \in Objects /\ n.spec = k.spec /\ n.state = k.state /\ n.id = k.id /\ n.pool = k.pool
      BY <1>k DEF Objects
    <3>2. Become(c, n)
      BY <2>1, <2>3 DEF Deleted
    <3> HIDE DEF n
    <3>3. Edited(n)
      BY <3>1, <3>2
    <3> QED
      BY <3>1, <3>3
  <2> QED
    BY <2>2, <2>3
<1>9. \E o \in Objects : Edited(o)
  BY <1>1, <1>3, <1>4, <1>5, <1>6, <1>7, <1>8 DEF OtherWriters
<1> QED
  BY <1>9

\* The accepted writes leave the others alone.
LEMMA StatusIdle ==
    ASSUME TypeOK, NEW c \in CIRs, NEW n \in Objects,
           Regular(cir[c]), Idle(cir[c]), StatusDecided(cir[c], n)
    PROVE  Idle(StatusUpdated(c, n))
<1> DEFINE o == cir[c]
           s == StatusUpdated(c, n)
<1>1. s.state = n.state /\ s.id = n.id /\ s.pool = o.pool /\ s.spec = o.spec
  BY StatusFields
<1>2. (IsFallbackPool(s) <=> IsFallbackPool(o)) /\ Regular(o) /\ Idle(o) /\ StatusDecided(o, n)
  BY <1>1 DEF IsFallbackPool
<1> HIDE DEF o, s
<1>3. Idle(s)
  BY <1>1, <1>2 DEF Idle, Regular, StatusDecided, Moves, Acquires, Cleans
<1> QED
  BY <1>3 DEF s

LEMMA UpdateFields ==
    ASSUME TypeOK, NEW c \in CIRs, NEW n \in Objects
    PROVE  LET u == Updated(c, n) IN
           \/ u = Absent
           \/ u.state = cir[c].state /\ u.id = cir[c].id /\ u.pool = cir[c].pool /\ u.spec = n.spec
<1>1. cir[c] \in Objects
  BY DEF TypeOK, StoreTypeOK
<1> QED
  BY <1>1 DEF Updated, Objects

LEMMA NextIdle ==
    ASSUME AdminEdits # "any", DecisionInv, IdleInv, [Next]_vars
    PROVE  IdleInv'
<1>t. TypeOK
  BY DEF DecisionInv
<1>a. Idle(Absent)
  BY DEF Idle, Absent
<1>s. ASSUME NEW c \in CIRs, NEW o \in Objects, NEW done, Store(c, o, done), Idle(o)
      PROVE  IdleInv'
  <2>1. \A d \in CIRs : cir'[d] \in {o, cir[d]}
    BY <1>s, <1>t DEF Store, TypeOK, StoreTypeOK
  <2> QED
    BY <1>s, <2>1 DEF IdleInv, Idle, IsFallbackPool
<1>u. ASSUME UNCHANGED cir PROVE IdleInv'
  BY <1>u DEF IdleInv, Idle, IsFallbackPool
<1>1. ASSUME NEW c \in CIRs, Reconcile(c) PROVE IdleInv'
  <2>1. UNCHANGED cir
    BY <1>1, <1>t, HandlerDecides DEF Write, ProvisionLeaks, storeVars
  <2> QED
    BY <1>u, <2>1
<1>2. ASSUME NEW c \in CIRs, OtherWriters(c) PROVE IdleInv'
  <2>1. PICK o \in Objects :
             /\ Become(c, o)
             /\ \/ o.state = "none" /\ o.id = NoInstance /\ cir[c].id = NoInstance
                \/ /\ o.state = cir[c].state /\ o.id = cir[c].id /\ o.pool = cir[c].pool
                   /\ o.spec # "in use" /\ cir[c].spec = "in use" => Taken(c)
    BY <1>2, <1>t, OthersEdit DEF DecisionInv
  <2>2. Taken(c) => cir[c].state = "in use"
    BY DEF ClientRelease, Taken
  <2>3. Idle(cir[c])
    BY DEF IdleInv
  <2>4. Idle(o)
    BY <2>1, <2>2, <2>3 DEF Idle, IsFallbackPool
  <2> QED
    BY <1>s, <2>1, <2>4 DEF Become
<1>3. CASE UpdateStatus \/ UpdateResource
  <2>1. /\ job.c \in CIRs /\ job.obj \in Objects /\ Regular(cir[job.c])
        /\ Decided(job.op, cir[job.c], job.obj)
        /\ UpdateStatus => /\ job.op = "status"
                           /\ Store(job.c, StatusUpdated(job.c, job.obj), {Reconciler})
        /\ UpdateResource => /\ job.op = "resource"
                             /\ Store(job.c, Updated(job.c, job.obj), {Reconciler})
    BY <1>3, CommitStores
  <2>2. StatusUpdated(job.c, job.obj) \in Objects /\ Updated(job.c, job.obj) \in Objects
    BY <1>t, <2>1, WriteTypes
  <2>3. Idle(cir[job.c])
    BY <2>1 DEF IdleInv
  <2>4. CASE UpdateStatus
    <3>1. Idle(StatusUpdated(job.c, job.obj))
      BY <1>t, <2>1, <2>3, <2>4, StatusIdle DEF Decided
    <3> QED
      BY <1>s, <2>1, <2>2, <2>4, <3>1
  <2>5. CASE UpdateResource
    <3>1. ResourceDecided(cir[job.c], job.obj)
      BY <2>1, <2>5 DEF Decided
    <3>2. \/ Updated(job.c, job.obj) = Absent
          \/ /\ Updated(job.c, job.obj).state = cir[job.c].state
             /\ Updated(job.c, job.obj).id = cir[job.c].id
             /\ Updated(job.c, job.obj).pool = cir[job.c].pool
             /\ Updated(job.c, job.obj).spec = job.obj.spec
      BY <1>t, <2>1, UpdateFields
    <3>3. Idle(Updated(job.c, job.obj))
      BY <1>a, <2>3, <3>1, <3>2 DEF Idle, ResourceDecided, IsFallbackPool
    <3> QED
      BY <1>s, <2>1, <2>2, <2>5, <3>3
  <2> QED
    BY <1>3, <2>4, <2>5
<1> QED
  BY <1>1, <1>2, <1>3, <1>u
  DEF Next, Environment, ClientUse, Lapse, Catch, Sync, Commit, UpdateConflict, LoseWrite,
      ProviderStep, storeVars, ctlVars, vars

(* Why handleStateProvisioning gives a fallback CIResource its instance    *)
(* only once it is acquired, and handleStateCleaning takes it away: as     *)
(* long as the administrator edits no acquired CIResource, one that waits  *)
(* for a client has no instance, and costs nothing.                        *)
THEOREM IdleFallback ==
    ASSUME AdminEdits # "any"
    PROVE  Spec => []IdleFallbackHasNoInstance
<1>1. Init => IdleInv
  <2>1. Idle(Absent)
    BY DEF Idle, Absent
  <2> QED
    BY <2>1 DEF Init, StoreInit, IdleInv
<1>2. DecisionInv /\ IdleInv /\ [Next]_vars => IdleInv'
  BY NextIdle
<1>3. IdleInv => IdleFallbackHasNoInstance
  BY DEF IdleInv, Idle, IdleFallbackHasNoInstance
<1> QED
  BY <1>1, <1>2, <1>3, DecisionInvariant, PTL DEF Spec

-----------------------------------------------------------------------------
(* Instances that are forgotten.                                           *)

\* The provider calls of a reconciliation.
LEMMA HandlerCalls ==
    ASSUME NEW c \in CIRs, Reconcile(c)
    PROVE  LET k == cache[c] IN
           /\ job = NoJob
           /\ k.state = "provisioning" \/ Clean(k.id) \/ Release(k.id) \/ UNCHANGED providerVars
           /\ k.state = "cleaning" /\ ~IsFallbackPool(k) => Clean(k.id)
           /\ k.state = "cleaning" /\ IsFallbackPool(k) =>
                \/ Release(k.id)
                \/ k.id = FallbackResource /\ UNCHANGED providerVars
           /\ k.state = "delete" =>
                \/ Release(k.id)
                \/ k.id = FallbackResource /\ UNCHANGED providerVars
           /\ k.state \notin {"provisioning", "cleaning", "delete"} => UNCHANGED providerVars
           /\ k.state = "cleaning wait" => IsFallbackPool(k) \/ CleanCompleted(k.id)
<1> DEFINE k == cache[c]
<1>1. CASE handleStateProvisioning(c)
  BY <1>1 DEF handleStateProvisioning, ProvisionFallback, ProvisionInstance, ProvisionLeaks, Reconciling
<1>2. CASE handleStateCleaning(c)
  BY <1>2 DEF handleStateCleaning, CleanFallback, CleanInstance, Reconciling
<1>3. CASE handleStateCleaningWait(c)
  BY <1>3 DEF handleStateCleaningWait, Reconciling
<1>4. CASE handleStateDelete(c)
  BY <1>4 DEF handleStateDelete, Reconciling
<1>5. CASE \/ handleStateNone(c) \/ handleStateProvisioningWait(c) \/ handleStateAvailable(c)
           \/ handleStateMaintenance(c) \/ handleStateInUse(c)
  <2>1. /\ job = NoJob /\ UNCHANGED providerVars
        /\ k.state \in {"none", "provisioning wait", "available", "maintenance", "in use"}
    BY <1>5 DEF handleStateNone, handleStateProvisioningWait, handleStateAvailable,
                handleStateMaintenance, handleStateInUse, Reconciling
  <2> QED
    BY <2>1
<1> QED
  BY <1>1, <1>2, <1>3, <1>4, <1>5 DEF Reconcile

\* A write that makes an object forget its instance comes after the release.
ReleaseInv ==
    job # NoJob /\ Holds(Reconciler, job.c) =>
        \/ job.op = "status" /\ job.obj.id = cir[job.c].id
        \/ job.op = "resource" /\ job.obj.fin
        \/ ~Alive(cir[job.c].id)

\* A pending write, in a step that is not the worker's.
LEMMA OthersRelease ==
    ASSUME TypeOK, ReleaseInv, UNCHANGED job,
           job # NoJob /\ Holds(Reconciler, job.c)' =>
               Holds(Reconciler, job.c) /\ cir'[job.c] = cir[job.c],
           \A i \in Instances : inst[i] = "absent" => inst'[i] = "absent"
    PROVE  ReleaseInv'
BY DEF ReleaseInv, Alive

LEMMA NextRelease ==
    ASSUME DecisionInv, ReleaseInv, [Next]_vars
    PROVE  ReleaseInv'
<1>t. TypeOK
  BY DEF DecisionInv
<1>0. ASSUME job' = NoJob PROVE ReleaseInv'
  BY <1>0 DEF ReleaseInv
<1>s. ASSUME UNCHANGED <<job, inst, cir>>, \A d \in CIRs : Holds(Reconciler, d)' => Holds(Reconciler, d)
      PROVE  ReleaseInv'
  BY <1>s, <1>t DEF ReleaseInv, Alive, TypeOK, Jobs
<1>1. ASSUME NEW c \in CIRs, Reconcile(c) PROVE ReleaseInv'
  <2> DEFINE k == cache[c]
  <2>1. CASE ProvisionLeaks(c)
    BY <1>0, <2>1 DEF ProvisionLeaks, Reconciling
  <2>2. ASSUME NEW op \in {"resource", "status"}, NEW n, Write(op, c, n), Decided(op, k, n)
        PROVE  ReleaseInv'
    <3>1. /\ UNCHANGED cir /\ job' = [op |-> op, c |-> c, obj |-> n]
          /\ Holds(Reconciler, c)' <=> Holds(Informer, c)
      BY <2>2, ReadHolds DEF Write
    <3>2. SUFFICES ASSUME cir[c] = k, Regular(k)
                   PROVE  \/ op = "status" /\ n.id = k.id
                          \/ op = "resource" /\ n.fin
                          \/ k.id \notin Instances \/ inst'[k.id] = "absent"
      <4>1. cir'[c] = cir[c]
        BY <3>1
      <4>2. SUFFICES ASSUME Holds(Informer, c)
                     PROVE  \/ op = "status" /\ n.id = cir[c].id
                            \/ op = "resource" /\ n.fin
                            \/ cir[c].id \notin Instances \/ inst'[cir[c].id] = "absent"
        BY <3>1, <4>1 DEF ReleaseInv, Alive
      <4>3. cir[c] = k /\ Regular(cir[c])
        BY <4>2 DEF DecisionInv, InformerExact
      <4> QED
        BY <3>2, <4>3
    <3>3. FallbackResource \notin Instances /\ NoInstance \notin Instances
      BY ControllerAssumption
    <3>4. CASE op = "resource" /\ k.state # "delete"
      <4>1. n.fin
        BY <2>2, <3>2, <3>4 DEF Decided, ResourceDecided, Regular
      <4> QED
        BY <3>4, <4>1
    <3>5. CASE k.state = "delete"
      BY <1>1, <3>3, <3>5, HandlerCalls DEF Release
    <3>6. CASE op = "status" /\ k.state = "cleaning" /\ IsFallbackPool(k)
      BY <1>1, <3>3, <3>6, HandlerCalls DEF Release
    <3>7. CASE op = "status" /\ k.state = "provisioning"
      BY <3>2, <3>3, <3>7 DEF Regular
    <3>8. CASE op = "status" /\ k.state # "provisioning" /\ ~(k.state = "cleaning" /\ IsFallbackPool(k))
      BY <2>2, <3>8 DEF Decided, StatusDecided, Moves, Acquires, Cleans
    <3> QED
      BY <3>4, <3>5, <3>6, <3>7, <3>8
  <2> QED
    BY <1>1, <1>t, <2>1, <2>2, HandlerDecides
<1>2. ASSUME NEW c \in CIRs, OtherWriters(c), UNCHANGED <<job, inst>> PROVE ReleaseInv'
  <2>1. PICK o \in Objects : Become(c, o)
    BY <1>2, <1>t, OthersRegular DEF DecisionInv
  <2>2. /\ \A d \in CIRs : d # c => cir'[d] = cir[d]
        /\ \A d \in CIRs : Holds(Reconciler, d)' => Holds(Reconciler, d) /\ d # c
    BY <1>t, <2>1 DEF Become, Store, Holds, TypeOK, StoreTypeOK
  <2>3. job # NoJob => job.c \in CIRs
    BY <1>t DEF TypeOK, Jobs
  <2> QED
    BY <1>2, <1>t, <2>2, <2>3, OthersRelease
<1>3. ASSUME NEW c \in CIRs, ClientUse(c) PROVE ReleaseInv'
  BY <1>3, <1>s DEF ClientUse, storeVars, ctlVars, Holds
<1>4. ASSUME NEW c \in CIRs, Lapse(c) PROVE ReleaseInv'
  BY <1>4, <1>s DEF Lapse, storeVars, providerVars, Holds
<1>5. ASSUME NEW c \in CIRs, Catch(c) PROVE ReleaseInv'
  BY <1>5, <1>s DEF Catch, Sync, ctlVars, providerVars, Holds, Informer, Reconciler
<1>6. CASE Commit \/ LoseWrite
  BY <1>0, <1>6 DEF Commit, UpdateResource, UpdateStatus, UpdateConflict, LoseWrite
<1>7. ASSUME NEW i \in Instances, ProviderStep(i) PROVE ReleaseInv'
  <2>1. UNCHANGED <<cir, current, job>> /\ \A j \in Instances : inst[j] = "absent" => inst'[j] = "absent"
    BY <1>7, <1>t DEF ProviderStep, FinishBuild, FinishClean, Fail, storeVars, ctlVars,
                      TypeOK, ProviderTypeOK
  <2> QED
    BY <1>t, <2>1, OthersRelease DEF Holds
<1>8. CASE UNCHANGED vars
  BY <1>8, <1>s DEF vars, storeVars, providerVars, ctlVars, Holds
<1> QED
  BY <1>1, <1>2, <1>3, <1>4, <1>5, <1>6, <1>7, <1>8 DEF Next, Environment, providerVars

LEMMA ForgetsReleased ==
    ASSUME DecisionInv, ReleaseInv, [Next]_vars, NEW c \in CIRs,
           cir[c].id \in Instances, cir'[c].id # cir[c].id
    PROVE  ~Alive(cir[c].id)
<1>t. TypeOK
  BY DEF DecisionInv
<1>i. NoInstance \notin Instances
  BY ControllerAssumption
<1>1. ASSUME NEW d \in CIRs, NEW o, NEW done, Store(d, o, done)
      PROVE  d = c /\ cir'[c] = o
  BY <1>1, <1>t DEF Store, TypeOK, StoreTypeOK
<1>2. CASE UpdateStatus \/ UpdateResource
  <2>1. /\ job.c \in CIRs /\ job.obj \in Objects
        /\ UpdateStatus => /\ job.op = "status"
                           /\ Store(job.c, StatusUpdated(job.c, job.obj), {Reconciler})
        /\ UpdateResource => /\ job.op = "resource"
                             /\ Store(job.c, Updated(job.c, job.obj), {Reconciler})
    BY <1>2, CommitStores
  <2>2. job # NoJob /\ Holds(Reconciler, job.c)
    BY <1>2 DEF UpdateStatus, UpdateResource
  <2>3. CASE UpdateStatus
    <3>1. job.c = c /\ cir'[c] = StatusUpdated(c, job.obj)
      BY <1>1, <2>1, <2>3
    <3>2. StatusUpdated(c, job.obj).id = job.obj.id
      BY <1>t, <2>1, StatusFields
    <3> QED
      BY <2>1, <2>2, <2>3, <3>1, <3>2 DEF ReleaseInv
  <2>4. CASE UpdateResource
    <3>1. job.c = c /\ cir'[c] = Updated(c, job.obj)
      BY <1>1, <2>1, <2>4
    <3>2. Updated(c, job.obj) = Absent
      BY <1>t, <2>1, <3>1, UpdateFields
    <3>3. ~job.obj.fin
      <4>1. SUFFICES ASSUME job.obj.fin PROVE FALSE
        OBVIOUS
      <4>2. cir[c].live
        BY <1>2, <3>1, CommitStores DEF Decided
      <4>3. cir[c] \in Objects
        BY <1>t DEF TypeOK, StoreTypeOK
      <4>4. Updated(c, job.obj).live
        BY <4>1, <4>2, <4>3 DEF Updated, Objects
      <4> QED
        BY <3>2, <4>4 DEF Absent
    <3> QED
      BY <2>1, <2>2, <2>4, <3>1, <3>3 DEF ReleaseInv
  <2> QED
    BY <1>2, <2>3, <2>4
<1>3. ASSUME NEW d \in CIRs, OtherWriters(d) PROVE ~Alive(cir[c].id)
  <2>1. PICK o \in Objects : Become(d, o) /\ (o.id = cir[d].id \/ cir[d].id = NoInstance)
    BY <1>3, <1>t, OthersEdit DEF DecisionInv
  <2> QED
    BY <1>1, <1>i, <2>1 DEF Become
<1>4. ASSUME NEW d \in CIRs, Reconcile(d) PROVE UNCHANGED cir
  BY <1>4, <1>t, HandlerDecides DEF Write, ProvisionLeaks, storeVars
<1> QED
  BY <1>2, <1>3, <1>4
  DEF Next, Environment, ClientUse, Lapse, Catch, Sync, Commit, UpdateConflict, LoseWrite,
      ProviderStep, storeVars, ctlVars, vars

(* Every instance a CIResource names is given back before it is forgotten: *)
(* handleStateCleaning and handleStateDelete release it, or find it gone,  *)
(* before the write that drops its id or the finalizer, whatever old copy, *)
(* conflict or crash comes between the two.                                *)
THEOREM ReleasedBeforeUnlink == Spec => InstanceReleasedBeforeUnlink
<1> DEFINE Unlink == \A c \in CIRs :
                       cir[c].id \in Instances /\ cir'[c].id # cir[c].id => ~Alive(cir[c].id)
<1>1. Init => ReleaseInv
  BY DEF Init, ReleaseInv
<1>2. DecisionInv /\ ReleaseInv /\ [Next]_vars => ReleaseInv'
  BY NextRelease
<1>3. DecisionInv /\ ReleaseInv /\ [Next]_vars => [Unlink]_vars
  BY ForgetsReleased
<1> QED
  BY <1>1, <1>2, <1>3, DecisionInvariant, PTL DEF Spec, InstanceReleasedBeforeUnlink

-----------------------------------------------------------------------------
(* The data of the clients, for providers that never reuse an id.          *)

\* Where the data of a client may be found.
Unsoiled(o) ==
    o.id \in dirty =>
        \/ o.state \in {"in use", "cleaning", "delete"}
        \/ o.state = "available" /\ o.spec = "in use"
        \/ o.state = "cleaning wait" /\ inst[o.id] \in {"cleaning", "failed"}

HeldInUse == \A c \in held : cir[c].spec = "in use"

\* An old copy from which the reconciler would clean is one of the same pool.
CleanedInPool ==
    \A c \in CIRs : cache[c].state = "cleaning" /\ cir[c].state = "cleaning wait"
                     => cache[c].pool = cir[c].pool

CleanInv ==
    /\ HeldInUse
    /\ CleanedInPool
    /\ \A c \in CIRs : Unsoiled(cir[c])
    /\ job # NoJob /\ Holds(Reconciler, job.c) /\ job.op = "status" =>
          Unsoiled(StatusUpdated(job.c, job.obj))

\* An object that no client has been given: nobody writes to its instance.
LEMMA NotHeldNotDirtied ==
    ASSUME IInv, DecisionInv, CleanInv, NEW c \in CIRs, ClientUse(c)
    PROVE  CleanInv'
<1> DEFINE i == cir[c].id
<1>t. TypeOK
  BY DEF DecisionInv
<1>1. /\ i \in Instances /\ c \in held /\ cir[c].addr
      /\ dirty' = dirty \union {i}
      /\ UNCHANGED <<cir, cache, current, inst, job, held>>
  BY DEF ClientUse, Alive, storeVars, ctlVars
<1>2. cir[c].state \in {"available", "in use", "delete"} /\ cir[c].spec = "in use"
  <2>1. cir[c].spec = "in use" /\ Regular(cir[c]) /\ cir[c].state \in StatusStates
    BY <1>1, <1>t DEF CleanInv, HeldInUse, DecisionInv, TypeOK, StoreTypeOK, Objects
  <2> QED
    BY <1>1, <2>1 DEF Regular, StatusStates
<1>3. ASSUME NEW d \in CIRs PROVE Unsoiled(cir[d])'
  <2>1. cir[d].id = i => d = c
    BY <1>1 DEF IInv, OneOwner, Names
  <2>2. Unsoiled(cir[d])
    BY DEF CleanInv
  <2> QED
    BY <1>1, <1>2, <2>1, <2>2 DEF Unsoiled
<1>4. ASSUME job # NoJob, Holds(Reconciler, job.c), job.op = "status"
      PROVE  Unsoiled(StatusUpdated(job.c, job.obj))'
  <2> DEFINE s == StatusUpdated(job.c, job.obj)
  <2>1. job.c \in CIRs /\ job.obj \in Objects /\ Unsoiled(s) /\ StatusDecided(cir[job.c], job.obj)
    BY <1>4, <1>t DEF CleanInv, TypeOK, Jobs, DecisionInv, WriteDecided, Decided
  <2>2. s.state = job.obj.state /\ s.id = job.obj.id /\ s.spec = cir[job.c].spec
    BY <1>t, <2>1, StatusFields
  <2>3. s' = s
    BY <1>1 DEF StatusUpdated
  <2> SUFFICES Unsoiled(s)'
    OBVIOUS
  <2> HIDE DEF s
  <2>4. CASE s.id # i
    BY <1>1, <2>1, <2>3, <2>4 DEF Unsoiled
  <2>5. CASE s.id = i
    <3>1. job.c = c
      BY <1>1, <1>4, <2>1, <2>2, <2>5 DEF IInv, OneOwner, Names
    <3>2. s.state \in {"in use", "delete"} /\ s.spec = "in use"
      BY <1>1, <1>2, <2>1, <2>2, <3>1 DEF StatusDecided, Moves, Acquires, Cleans
    <3> QED
      BY <2>3, <3>2 DEF Unsoiled
  <2> QED
    BY <2>4, <2>5
<1> QED
  BY <1>1, <1>3, <1>4 DEF CleanInv, HeldInUse, CleanedInPool, Holds

\* A client's data stays where it was as long as nobody works on the objects.
LEMMA KeepsClean ==
    ASSUME TypeOK, CleanInv, UNCHANGED <<cir, cache, held>>,
           dirty' \subseteq dirty,
           \A i \in dirty' : inst[i] \in {"cleaning", "failed"} => inst'[i] \in {"cleaning", "failed"},
           job' # NoJob => job' = job /\ (Holds(Reconciler, job.c)' => Holds(Reconciler, job.c))
    PROVE  CleanInv'
<1>1. \A o : Unsoiled(o) => (o.id \in dirty' =>
                \/ o.state \in {"in use", "cleaning", "delete"}
                \/ o.state = "available" /\ o.spec = "in use"
                \/ o.state = "cleaning wait" /\ inst'[o.id] \in {"cleaning", "failed"})
  BY DEF Unsoiled
<1>2. \A c \in CIRs : Unsoiled(cir[c])'
  BY <1>1 DEF Unsoiled, CleanInv
<1>3. ASSUME job' # NoJob, Holds(Reconciler, job.c)', job'.op = "status"
      PROVE  Unsoiled(StatusUpdated(job.c, job.obj))'
  <2>1. job' = job /\ Unsoiled(StatusUpdated(job.c, job.obj))
    BY <1>3 DEF CleanInv
  <2>2. StatusUpdated(job.c, job.obj)' = StatusUpdated(job.c, job.obj)
    BY <2>1 DEF StatusUpdated
  <2> QED
    BY <1>1, <2>1, <2>2 DEF Unsoiled
<1> QED
  BY <1>2, <1>3 DEF CleanInv, HeldInUse, CleanedInPool

\* What becomes of an instance when the reconciler cleans or releases it.
LEMMA CallsKeepClean ==
    ASSUME ~ReusesIds, IInv, DecisionInv, CleanInv, NEW c \in CIRs, Reconcile(c),
           UNCHANGED cir
    PROVE  \A d \in CIRs : Unsoiled(cir[d])'
<1> DEFINE k == cache[c]
<1>t. TypeOK /\ inst \in [Instances -> InstanceStates] /\ dirty \subseteq Instances
  BY DEF DecisionInv, TypeOK, ProviderTypeOK
<1>f. FallbackResource \notin Instances /\ NoInstance \notin Instances
  BY ControllerAssumption
<1>1. SUFFICES ASSUME NEW d \in CIRs, cir[d].id \in dirty'
               PROVE  \/ cir[d].state \in {"in use", "cleaning", "delete"}
                      \/ cir[d].state = "available" /\ cir[d].spec = "in use"
                      \/ cir[d].state = "cleaning wait" /\ inst'[cir[d].id] \in {"cleaning", "failed"}
  BY DEF Unsoiled
<1>d. Unsoiled(cir[d]) /\ Regular(cir[d])
  BY DEF CleanInv, DecisionInv
<1>2. CASE k.state = "provisioning"
  <2>1. UNCHANGED providerVars \/ \E i \in Instances : Acquire(i)
    BY <1>2 DEF Reconcile, Reconciling, handleStateNone, handleStateProvisioning, ProvisionFallback,
         ProvisionInstance, ProvisionLeaks, Acquirable, handleStateProvisioningWait,
         handleStateAvailable, handleStateMaintenance, handleStateInUse, handleStateCleaning,
         CleanFallback, CleanInstance, handleStateCleaningWait, handleStateDelete
  <2>2. ASSUME NEW i \in Instances, Acquire(i)
        PROVE  cir[d].id \in dirty /\ inst'[cir[d].id] = inst[cir[d].id]
    BY <1>t, <1>1, <2>2 DEF Acquire
  <2> QED
    BY <1>d, <1>1, <2>1, <2>2 DEF Unsoiled, providerVars
<1>3. CASE UNCHANGED providerVars
  BY <1>d, <1>1, <1>3 DEF Unsoiled, providerVars
<1>4. CASE Clean(k.id)
  <2>1. cir[d].id \in dirty /\ inst'[cir[d].id] \in {inst[cir[d].id], "cleaning"}
    BY <1>t, <1>1, <1>4 DEF Clean
  <2> QED
    BY <1>d, <2>1 DEF Unsoiled
<1>5. CASE Release(k.id) /\ k.state \in {"cleaning", "delete"} /\ (k.state = "cleaning" => IsFallbackPool(k))
  <2>1. cir[d].id \in dirty
    BY <1>1, <1>5 DEF Release
  <2>2. CASE cir[d].id # k.id
    <3>1. inst'[cir[d].id] = inst[cir[d].id]
      BY <1>t, <1>5, <2>1, <2>2 DEF Release
    <3> QED
      BY <1>d, <2>1, <3>1 DEF Unsoiled
  <2>3. CASE cir[d].id = k.id
    <3>1. d = c
      BY <1>t, <2>1, <2>3 DEF IInv, OneOwner, Names
    <3>2. cir[d].state # "none"
      BY <1>d, <1>t, <1>f, <2>1 DEF Regular
    <3>3. cir[d].state \in {"cleaning", "cleaning wait", "delete"}
      BY <1>5, <3>1, <3>2 DEF IInv, CacheOneBehind
    <3>4. cir[d].state # "cleaning wait"
      <4>1. SUFFICES ASSUME cir[d].state = "cleaning wait" PROVE FALSE
        OBVIOUS
      <4>2. k.state = "cleaning" /\ IsFallbackPool(cir[d])
        BY <1>5, <3>1, <4>1 DEF CleanInv, CleanedInPool, IInv, CacheOneBehind, IsFallbackPool
      <4> QED
        BY <1>d, <1>t, <1>f, <2>1, <4>1, <4>2 DEF Regular
    <3> QED
      BY <3>3, <3>4
  <2> QED
    BY <2>2, <2>3
<1> QED
  BY <1>2, <1>3, <1>4, <1>5, HandlerCalls

LEMMA ReconcileClean ==
    ASSUME ~ReusesIds, IInv, DecisionInv, CleanInv, NEW c \in CIRs, Reconcile(c)
    PROVE  CleanInv'
<1> DEFINE k == cache[c]
<1>t. TypeOK /\ inst \in [Instances -> InstanceStates] /\ dirty \subseteq Instances
  BY DEF DecisionInv, TypeOK, ProviderTypeOK
<1>f. FallbackResource \notin Instances /\ NoInstance \notin Instances
  BY ControllerAssumption
<1>1. CASE ProvisionLeaks(c)
  <2>1. UNCHANGED <<cir, cache, current, job, held>> /\ job = NoJob
    BY <1>1 DEF ProvisionLeaks, storeVars, Reconciling
  <2>2. \A d \in CIRs : Unsoiled(cir[d])'
    BY <2>1, CallsKeepClean
  <2> QED
    BY <2>1, <2>2 DEF CleanInv, HeldInUse, CleanedInPool
<1>2. ASSUME NEW op \in {"resource", "status"}, NEW n, Write(op, c, n), Decided(op, k, n)
      PROVE  CleanInv'
  <2>1. /\ UNCHANGED <<cir, cache, held>> /\ job' = [op |-> op, c |-> c, obj |-> n]
        /\ Holds(Reconciler, c)' <=> Holds(Informer, c)
    BY <1>2, ReadHolds DEF Write
  <2>2. \A d \in CIRs : Unsoiled(cir[d])'
    BY <2>1, CallsKeepClean
  <2>n. n \in Objects
    <3>1. TypeOK' /\ job' # NoJob
      BY <1>t, <2>1, ReconcileTypeOK DEF NoJob
    <3> QED
      BY <2>1, <3>1 DEF TypeOK, Jobs
  <2>3. ASSUME op = "status", Holds(Informer, c)
        PROVE  Unsoiled(StatusUpdated(c, n))'
    <3> DEFINE s == StatusUpdated(c, n)
    <3>1. cir[c] = k
      BY <2>3 DEF DecisionInv, InformerExact
    <3>2. s.state = n.state /\ s.id = n.id /\ s.spec = k.spec
      BY <1>t, <2>n, <3>1, StatusFields
    <3>3. StatusDecided(k, n) /\ Unsoiled(k) /\ Regular(k)
      BY <1>2, <2>3, <3>1 DEF Decided, CleanInv, DecisionInv
    <3>4. s' = s
      BY <2>1 DEF StatusUpdated
    <3>5. SUFFICES ASSUME n.id \in dirty'
                   PROVE  \/ n.state \in {"in use", "cleaning", "delete"}
                          \/ n.state = "available" /\ k.spec = "in use"
                          \/ n.state = "cleaning wait" /\ inst'[n.id] \in {"cleaning", "failed"}
      <4> HIDE DEF s
      <4>1. Unsoiled(s)' <=> (n.id \in dirty' =>
                \/ n.state \in {"in use", "cleaning", "delete"}
                \/ n.state = "available" /\ k.spec = "in use"
                \/ n.state = "cleaning wait" /\ inst'[n.id] \in {"cleaning", "failed"})
        BY <3>2, <3>4 DEF Unsoiled
      <4> QED
        BY <4>1 DEF s
    <3>6. CASE k.state = "provisioning"
      <4>1. ASSUME NEW i \in Instances, Acquire(i),
                   TriggerEvent(c, [k EXCEPT !.id = i], "provisioning wait")
            PROVE  n.id \notin dirty'
        <5>1. [[k EXCEPT !.id = i] EXCEPT !.state = "provisioning wait"].id = i
          BY <1>t DEF TypeOK, StoreTypeOK, Objects
        <5>2. n = [[k EXCEPT !.id = i] EXCEPT !.state = "provisioning wait"]
          BY <2>1, <4>1 DEF TriggerEvent, Write
        <5>3. n.id = i
          BY <5>1, <5>2
        <5> QED
          BY <4>1, <5>3 DEF Acquire
      <4>2. CASE UNCHANGED providerVars /\ n.id = FallbackResource
        BY <1>t, <1>f, <3>5, <4>2 DEF providerVars
      <4>3. job' # NoJob /\ job = NoJob
        BY <2>1, HandlerCalls DEF NoJob
      <4>4. \/ ProvisionFallback(c)
            \/ \E i \in Instances : Acquire(i) /\ TriggerEvent(c, [k EXCEPT !.id = i], "provisioning wait")
        BY <3>6, <4>3 DEF Reconcile, Reconciling, handleStateNone, handleStateProvisioning,
             ProvisionInstance, ProvisionLeaks, Acquirable, handleStateProvisioningWait,
             handleStateAvailable, handleStateMaintenance, handleStateInUse, handleStateCleaning,
             CleanFallback, CleanInstance, handleStateCleaningWait, handleStateDelete
      <4>5. ASSUME ProvisionFallback(c)
            PROVE  UNCHANGED providerVars /\ n.id = FallbackResource
        BY <3>3, <3>6, <4>5 DEF ProvisionFallback, StatusDecided, Moves, Acquires, Cleans
      <4> QED
        BY <3>5, <4>1, <4>2, <4>4, <4>5
    <3>7. CASE k.state = "cleaning"
      <4>1. IsFallbackPool(k) => n.id = FallbackResource
        BY <3>3, <3>7 DEF StatusDecided, Moves, Acquires, Cleans
      <4>2. ~IsFallbackPool(k) => Clean(k.id) /\ n.id = k.id /\ n.state = "cleaning wait"
        BY <3>3, <3>7, HandlerCalls DEF StatusDecided, Moves, Acquires, Cleans
      <4>3. dirty' \subseteq Instances
        BY <1>t, <3>7, HandlerCalls DEF Clean, Release, providerVars
      <4>4. Clean(k.id) => inst'[k.id] = "cleaning"
        BY <1>t DEF Clean, Alive
      <4> QED
        BY <1>f, <3>5, <4>1, <4>2, <4>3, <4>4
    <3>8. CASE k.state \notin {"provisioning", "cleaning", "delete"}
      <4>1. /\ UNCHANGED providerVars
            /\ k.state = "cleaning wait" => IsFallbackPool(k) \/ CleanCompleted(k.id)
        BY <3>8, HandlerCalls
      <4>2. k.id \in dirty /\ n.id = k.id
        BY <1>t, <1>f, <3>3, <3>5, <3>8, <4>1
        DEF StatusDecided, Moves, Acquires, Cleans, providerVars
      <4>3. k.state = "cleaning wait" => FALSE
        BY <1>t, <1>f, <3>3, <4>1, <4>2 DEF Unsoiled, CleanCompleted, Regular
      <4>4. k.state \in {"in use", "available"} /\ (k.state = "available" => k.spec = "in use")
        BY <3>3, <3>8, <4>2, <4>3 DEF Unsoiled
      <4>5. \/ k.state = "available" /\ n.state \in {"in use", "delete"}
            \/ k.state = "in use" /\ n.state = "cleaning"
            \/ k.state = "in use" /\ k.id = FallbackResource
        BY <3>3, <4>4 DEF StatusDecided, Moves, Acquires, Cleans
      <4> QED
        BY <1>t, <1>f, <4>2, <4>5
    <3>9. CASE k.state = "delete"
      BY <3>3, <3>9 DEF StatusDecided, Moves, Acquires, Cleans
    <3> QED
      BY <3>6, <3>7, <3>8, <3>9
  <2> QED
    BY <2>1, <2>2, <2>3 DEF CleanInv, HeldInUse, CleanedInPool
<1> QED
  BY <1>1, <1>2, <1>t, HandlerDecides

LEMMA OthersClean ==
    ASSUME AdminEdits # "any", IInv, DecisionInv, CleanInv, NEW c \in CIRs, OtherWriters(c),
           UNCHANGED <<inst, dirty, job>>,
           held' = IF ClientAcquire(c) THEN held \union {c}
                   ELSE IF ClientRelease(c) \/ ~cir'[c].live THEN held \ {c}
                   ELSE held
    PROVE  CleanInv'
<1>t. TypeOK /\ dirty \subseteq Instances /\ held \subseteq CIRs
  BY DEF DecisionInv, TypeOK, ProviderTypeOK
<1>f. NoInstance \notin Instances
  BY ControllerAssumption
<1>1. PICK o \in Objects :
        /\ Become(c, o)
        /\ \/ o.state = "none" /\ o.id = NoInstance /\ cir[c].id = NoInstance
           \/ /\ o.state = cir[c].state /\ o.id = cir[c].id /\ o.pool = cir[c].pool
              /\ o.spec # "in use" /\ cir[c].spec = "in use" => Taken(c)
        /\ o.live /\ o.spec # "in use" /\ cir[c].spec = "in use" => Taken(c)
  BY <1>t, OthersEdit DEF DecisionInv
<1>2. /\ cir'[c] = o
      /\ \A d \in CIRs : d # c => cir'[d] = cir[d]
      /\ \A d \in CIRs : Holds(Reconciler, d)' => Holds(Reconciler, d) /\ d # c
      /\ UNCHANGED cache
  BY <1>t, <1>1 DEF Become, Store, Holds, TypeOK, StoreTypeOK
<1>3. Taken(c) => ClientRelease(c) /\ cir[c].state = "in use"
  BY DEF Taken, ClientRelease
<1>4. Unsoiled(o)
  <2>1. Unsoiled(cir[c])
    BY DEF CleanInv
  <2> QED
    BY <1>t, <1>f, <1>1, <1>3, <2>1 DEF Unsoiled
<1>5. \A d \in CIRs : Unsoiled(cir[d])'
  BY <1>2, <1>4 DEF CleanInv, Unsoiled
<1>6. HeldInUse'
  <2>1. SUFFICES ASSUME NEW d \in held' PROVE cir'[d].spec = "in use"
    BY DEF HeldInUse
  <2>2. d \in CIRs
    BY <1>t, <2>1
  <2>3. CASE ClientAcquire(c)
    <3>1. cir[c] \in Objects
      BY <1>t DEF TypeOK, StoreTypeOK
    <3>2. cir'[c] = [cir[c] EXCEPT !.spec = "in use"]
      BY <1>t, <2>3 DEF ClientAcquire, Become, Store, TypeOK, StoreTypeOK
    <3>3. cir'[c].spec = "in use"
      BY <3>1, <3>2 DEF Objects
    <3> QED
      BY <1>2, <2>1, <2>2, <2>3, <3>3 DEF CleanInv, HeldInUse
  <2>4. CASE ~ClientAcquire(c)
    <3>1. cir[d].spec = "in use" /\ (d = c => ~ClientRelease(c) /\ o.live)
      BY <1>2, <2>1, <2>4 DEF CleanInv, HeldInUse
    <3> QED
      BY <1>1, <1>2, <1>3, <2>2, <3>1
  <2> QED
    BY <2>3, <2>4
<1>7. CleanedInPool'
  BY <1>1, <1>2 DEF CleanInv, CleanedInPool
<1>8. ASSUME job # NoJob, Holds(Reconciler, job.c)', job.op = "status"
      PROVE  Unsoiled(StatusUpdated(job.c, job.obj))'
  <2>1. job.c \in CIRs
    BY <1>8, <1>t DEF TypeOK, Jobs
  <2>2. /\ cir'[job.c] = cir[job.c]
        /\ Unsoiled(StatusUpdated(job.c, job.obj))
    BY <1>2, <1>8, <2>1 DEF CleanInv
  <2>3. StatusUpdated(job.c, job.obj)' = StatusUpdated(job.c, job.obj)
    BY <2>2 DEF StatusUpdated
  <2> QED
    BY <2>2, <2>3 DEF Unsoiled
<1> QED
  BY <1>5, <1>6, <1>7, <1>8 DEF CleanInv

LEMMA CommitClean ==
    ASSUME IInv, DecisionInv, CleanInv, UpdateStatus \/ UpdateResource
    PROVE  CleanInv'
<1>t. TypeOK /\ dirty \subseteq Instances /\ held \subseteq CIRs
  BY DEF DecisionInv, TypeOK, ProviderTypeOK
<1>f. NoInstance \notin Instances
  BY ControllerAssumption
<1>1. /\ job.c \in CIRs /\ job.obj \in Objects /\ Regular(cir[job.c])
      /\ Decided(job.op, cir[job.c], job.obj)
      /\ UpdateStatus => /\ job.op = "status"
                         /\ Store(job.c, StatusUpdated(job.c, job.obj), {Reconciler})
      /\ UpdateResource => /\ job.op = "resource"
                           /\ Store(job.c, Updated(job.c, job.obj), {Reconciler})
      /\ UNCHANGED <<cache, inst, dirty>> /\ job' = NoJob
  BY CommitStores
<1>2. job # NoJob /\ Holds(Reconciler, job.c)
  BY DEF UpdateStatus, UpdateResource
<1>s. ASSUME NEW o, Store(job.c, o, {Reconciler})
      PROVE  cir'[job.c] = o /\ \A d \in CIRs : d # job.c => cir'[d] = cir[d]
  BY <1>s, <1>t, <1>1 DEF Store, TypeOK, StoreTypeOK
<1>3. CASE UpdateStatus
  <2> DEFINE s == StatusUpdated(job.c, job.obj)
  <2>1. /\ cir'[job.c] = s /\ \A d \in CIRs : d # job.c => cir'[d] = cir[d]
        /\ UNCHANGED held
    BY <1>s, <1>1, <1>3 DEF UpdateStatus
  <2>2. /\ Unsoiled(s) /\ s.spec = cir[job.c].spec /\ s.pool = cir[job.c].pool
        /\ s.state = job.obj.state
    BY <1>t, <1>1, <1>2, <1>3, StatusFields DEF CleanInv
  <2> HIDE DEF s
  <2>3. (\A d \in CIRs : Unsoiled(cir[d])') /\ HeldInUse'
    BY <1>1, <1>t, <2>1, <2>2 DEF CleanInv, Unsoiled, HeldInUse
  <2>4. CleanedInPool'
    <3>1. SUFFICES ASSUME cache[job.c].state = "cleaning", s.state = "cleaning wait"
                   PROVE  cache[job.c].pool = s.pool
      BY <1>1, <2>1 DEF CleanInv, CleanedInPool
    <3>2. cache[job.c] = cir[job.c]
      BY <1>1, <1>2 DEF DecisionInv, InformerExact, WriteDecided
    <3> QED
      BY <2>2, <3>2
  <2> QED
    BY <1>1, <2>3, <2>4 DEF CleanInv
<1>4. CASE UpdateResource
  <2> DEFINE u == Updated(job.c, job.obj)
  <2>1. /\ cir'[job.c] = u /\ \A d \in CIRs : d # job.c => cir'[d] = cir[d]
        /\ held' = IF u.live /\ u.spec = cir[job.c].spec THEN held ELSE held \ {job.c}
    BY <1>s, <1>1, <1>4 DEF UpdateResource
  <2>2. \/ u = Absent
        \/ /\ u.state = cir[job.c].state /\ u.id = cir[job.c].id
           /\ u.pool = cir[job.c].pool /\ u.spec = job.obj.spec
    BY <1>t, <1>1, UpdateFields
  <2>3. ResourceDecided(cir[job.c], job.obj) /\ Unsoiled(cir[job.c])
    BY <1>1, <1>4 DEF Decided, CleanInv
  <2>4. Absent.state = "none" /\ Absent.id = NoInstance
    BY DEF Absent
  <2> HIDE DEF u
  <2>5. Unsoiled(u)
    BY <1>t, <1>f, <1>1, <2>2, <2>3, <2>4 DEF Unsoiled, ResourceDecided, Regular
  <2>6. (\A d \in CIRs : Unsoiled(cir[d])') /\ HeldInUse'
    BY <1>1, <1>t, <2>1, <2>5 DEF CleanInv, Unsoiled, HeldInUse
  <2>7. CleanedInPool'
    BY <1>1, <2>1, <2>2, <2>4 DEF CleanInv, CleanedInPool
  <2> QED
    BY <1>1, <2>6, <2>7 DEF CleanInv
<1> QED
  BY <1>3, <1>4

LEMMA NextClean ==
    ASSUME ~ReusesIds, AdminEdits # "any", IInv, DecisionInv, CleanInv, [Next]_vars
    PROVE  CleanInv'
<1>t. TypeOK
  BY DEF DecisionInv
<1>1. ASSUME NEW c \in CIRs, Reconcile(c) PROVE CleanInv'
  BY <1>1, ReconcileClean
<1>2. ASSUME NEW c \in CIRs, Environment(c) PROVE CleanInv'
  BY <1>2, OthersClean, NotHeldNotDirtied DEF Environment, providerVars
<1>3. ASSUME NEW c \in CIRs, Lapse(c) PROVE CleanInv'
  BY <1>3, <1>t, KeepsClean DEF Lapse, storeVars, providerVars, Holds
<1>4. ASSUME NEW c \in CIRs, Catch(c) PROVE CleanInv'
  <2>1. /\ UNCHANGED <<cir, inst, dirty, job, held>>
        /\ cache' = [cache EXCEPT ![c] = cir[c]]
        /\ \A d \in CIRs : Holds(Reconciler, d)' <=> Holds(Reconciler, d)
    BY <1>4 DEF Catch, Sync, ctlVars, providerVars, Holds, Informer, Reconciler
  <2>2. CleanedInPool'
    BY <1>t, <2>1 DEF CleanInv, CleanedInPool, TypeOK, StoreTypeOK
  <2>3. \A o : Unsoiled(o)' <=> Unsoiled(o)
    BY <2>1 DEF Unsoiled
  <2>4. \A d, n : StatusUpdated(d, n)' = StatusUpdated(d, n)
    BY <2>1 DEF StatusUpdated
  <2>5. \A d \in CIRs : Unsoiled(cir[d])'
    BY <2>1 DEF CleanInv, Unsoiled
  <2>6. ASSUME job # NoJob, Holds(Reconciler, job.c), job.op = "status"
        PROVE  Unsoiled(StatusUpdated(job.c, job.obj))'
    BY <2>1, <2>4, <2>6 DEF CleanInv, Unsoiled
  <2>7. job # NoJob => job.c \in CIRs
    BY <1>t DEF TypeOK, Jobs
  <2> QED
    BY <2>1, <2>2, <2>5, <2>6, <2>7 DEF CleanInv, HeldInUse
<1>5. CASE UpdateStatus \/ UpdateResource
  BY <1>5, CommitClean
<1>6. CASE UpdateConflict \/ LoseWrite
  BY <1>6, <1>t, KeepsClean DEF UpdateConflict, LoseWrite, storeVars, providerVars
<1>7. ASSUME NEW i \in Instances, ProviderStep(i) PROVE CleanInv'
  <2>1. /\ UNCHANGED <<cir, cache, current, job, held>>
        /\ dirty' \subseteq dirty
        /\ \A j \in dirty' : inst[j] \in {"cleaning", "failed"} => inst'[j] \in {"cleaning", "failed"}
    BY <1>7, <1>t DEF ProviderStep, FinishBuild, FinishClean, Fail, storeVars, ctlVars,
                      TypeOK, ProviderTypeOK
  <2> QED
    BY <1>t, <2>1, KeepsClean DEF Holds
<1>8. CASE UNCHANGED vars
  BY <1>8, <1>t, KeepsClean DEF vars, storeVars, providerVars, ctlVars, Holds
<1> QED
  BY <1>1, <1>2, <1>3, <1>4, <1>5, <1>6, <1>7, <1>8 DEF Next, Commit

(* No client gets what another one left: between the end of a lease and    *)
(* the next grant handleStateCleaning has had the instance cleaned, and    *)
(* waited for it, or given it back, also when the lease was ended by the   *)
(* timeout while its client was still at work.  The provider never gives   *)
(* an id twice, and the administrator edits no acquired CIResource.        *)
THEOREM CleanHandover ==
    ASSUME ~ReusesIds, AdminEdits # "any"
    PROVE  Spec => []CleanBeforeReuse
<1>1. Init => CleanInv
  <2>1. SUFFICES ASSUME Init PROVE CleanInv
    OBVIOUS
  <2>2. /\ cir = [c \in CIRs |-> Absent] /\ cache = [c \in CIRs |-> Absent]
        /\ dirty = {} /\ job = NoJob /\ held = {}
    BY <2>1 DEF Init, StoreInit, ProviderInit
  <2>3. Absent.state = "none"
    BY DEF Absent
  <2> QED
    BY <2>2, <2>3 DEF CleanInv, HeldInUse, CleanedInPool, Unsoiled
<1>2. IInv /\ DecisionInv /\ CleanInv /\ [Next]_vars => CleanInv'
  BY NextClean
<1>3. CleanInv => CleanBeforeReuse
  BY DEF CleanInv, Unsoiled, CleanBeforeReuse
<1>4. Spec => []IInv
  BY ControllerInvariant
<1> QED
  BY <1>1, <1>2, <1>3, <1>4, DecisionInvariant, PTL DEF Spec
==============================================================================
