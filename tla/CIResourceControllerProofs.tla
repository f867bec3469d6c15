---------------------- MODULE CIResourceControllerProofs ----------------------
(***************************************************************************)
(* Theorems about CIResourceController, for any number of CIResources,     *)
(* instances and faults.                                                   *)
(***************************************************************************)
EXTENDS CIResourceController, TLAPS

-----------------------------------------------------------------------------
(* Type correctness.                                                       *)

LEMMA ObjectTypes ==
    /\ Absent \in Objects
    /\ \A p \in Pools : Created(p) \in Objects
    /\ \A o \in Objects :
          /\ \A s \in StatusStates : [o EXCEPT !.state = s] \in Objects
          /\ \A s \in SpecStates : [o EXCEPT !.spec = s] \in Objects
          /\ \A i \in ResourceIds : [o EXCEPT !.id = i] \in Objects
          /\ \A b \in BOOLEAN : /\ [o EXCEPT !.addr = b] \in Objects
                                /\ [o EXCEPT !.fin = b] \in Objects
                                /\ [o EXCEPT !.del = b] \in Objects
                                /\ [o EXCEPT !.evict = b] \in Objects
                                /\ \A i \in ResourceIds : [o EXCEPT !.id = i, !.addr = b] \in Objects
<1>1. Absent \in Objects
  BY StoreAssumption DEF Absent, Objects, StatusStates, SpecStates
<1>2. \A p \in Pools : Created(p) \in Objects
  BY <1>1 DEF Created, Objects
<1> SUFFICES ASSUME NEW o \in Objects
             PROVE  /\ \A s \in StatusStates : [o EXCEPT !.state = s] \in Objects
                    /\ \A s \in SpecStates : [o EXCEPT !.spec = s] \in Objects
                    /\ \A i \in ResourceIds : [o EXCEPT !.id = i] \in Objects
                    /\ \A b \in BOOLEAN : /\ [o EXCEPT !.addr = b] \in Objects
                                          /\ [o EXCEPT !.fin = b] \in Objects
                                          /\ [o EXCEPT !.del = b] \in Objects
                                          /\ [o EXCEPT !.evict = b] \in Objects
                                          /\ \A i \in ResourceIds :
                                                [o EXCEPT !.id = i, !.addr = b] \in Objects
  BY <1>1, <1>2
<1> USE DEF Objects
<1>3. \A s \in StatusStates : [o EXCEPT !.state = s] \in Objects
  OBVIOUS
<1>4. \A s \in SpecStates : [o EXCEPT !.spec = s] \in Objects
  OBVIOUS
<1>5. \A i \in ResourceIds : [o EXCEPT !.id = i] \in Objects
  OBVIOUS
<1>6. ASSUME NEW b \in BOOLEAN
      PROVE  /\ [o EXCEPT !.addr = b] \in Objects
             /\ [o EXCEPT !.fin = b] \in Objects
             /\ [o EXCEPT !.del = b] \in Objects
             /\ [o EXCEPT !.evict = b] \in Objects
  OBVIOUS
<1>7. ASSUME NEW b \in BOOLEAN, NEW i \in ResourceIds
      PROVE  [o EXCEPT !.id = i, !.addr = b] \in Objects
  OBVIOUS
<1> HIDE DEF Objects
<1> QED
  BY <1>3, <1>4, <1>5, <1>6, <1>7

\* An Update or a status Update makes an object of an object.
LEMMA WriteTypes ==
    ASSUME TypeOK, NEW c \in CIRs, NEW o \in Objects
    PROVE  /\ Updated(c, o) \in Objects
           /\ StatusUpdated(c, o) \in Objects
           /\ Deleted(c) \in Objects
<1>1. cir[c] \in Objects /\ Absent \in Objects
  BY ObjectTypes DEF TypeOK, StoreTypeOK
<1>2. Updated(c, o) \in Objects
  BY <1>1 DEF Updated, Objects
<1>3. StatusUpdated(c, o) \in Objects
  BY <1>1 DEF StatusUpdated, Objects
<1>4. Deleted(c) \in Objects
  BY <1>1 DEF Deleted, Objects
<1> QED
  BY <1>2, <1>3, <1>4

LEMMA StoreTypes ==
    ASSUME StoreTypeOK, NEW c \in CIRs, NEW o \in Objects, NEW done, Store(c, o, done)
    PROVE  /\ cir' \in [CIRs -> Objects]
           /\ current' \in SUBSET (Readers \X CIRs)
BY DEF StoreTypeOK, Store

LEMMA BecomeTypes ==
    ASSUME StoreTypeOK, NEW c \in CIRs, NEW o \in Objects, Become(c, o)
    PROVE  StoreTypeOK'
BY StoreTypes DEF StoreTypeOK, Become

LEMMA WriteTypeOK ==
    ASSUME TypeOK, NEW c \in CIRs, NEW op \in {"resource", "status"}, NEW o \in Objects,
           Write(op, c, o)
    PROVE  /\ StoreTypeOK'
           /\ job' \in Jobs
           /\ lapsed' \in SUBSET CIRs /\ held' \in SUBSET CIRs /\ faults' \in 0..MaxFaults
<1>1. Reconciler \in Readers
  BY ControllerAssumption
<1>2. current' \in SUBSET (Readers \X CIRs)
  BY <1>1 DEF TypeOK, StoreTypeOK, Write, ReadFromCache
<1>3. job' \in Jobs
  BY DEF Write, Jobs
<1> QED
  BY <1>2, <1>3 DEF TypeOK, StoreTypeOK, Write

LEMMA ProviderTypes ==
    ASSUME ProviderTypeOK, NEW i
    PROVE  /\ i \in Instances /\ Acquire(i) => ProviderTypeOK'
           /\ Clean(i) => ProviderTypeOK'
           /\ Release(i) => ProviderTypeOK'
           /\ i \in Instances /\ (FinishBuild(i) \/ FinishClean(i) \/ Fail(i)) => ProviderTypeOK'
BY DEF ProviderTypeOK, Acquire, Clean, Release, FinishBuild, FinishClean, Fail,
       InstanceStates, Alive

\* A handler that calls no provider, or whose call keeps the types.
LEMMA HandlerTypeOK ==
    ASSUME TypeOK, NEW c \in CIRs, ProviderTypeOK', NEW o \in Objects,
           \/ UpdateResourceOnly(c, o)
           \/ \E dst \in StatusStates : TriggerEvent(c, o, dst)
    PROVE  TypeOK'
<1>1. CASE UpdateResourceOnly(c, o)
  BY <1>1, WriteTypeOK DEF UpdateResourceOnly, TypeOK
<1>2. CASE \E dst \in StatusStates : TriggerEvent(c, o, dst)
  <2>1. PICK dst \in StatusStates : Write("status", c, [o EXCEPT !.state = dst])
    BY <1>2 DEF TriggerEvent
  <2>2. [o EXCEPT !.state = dst] \in Objects
    BY ObjectTypes
  <2> QED
    BY <2>1, <2>2, WriteTypeOK DEF TypeOK
<1> QED
  BY <1>1, <1>2

LEMMA ReconcileTypeOK ==
    ASSUME TypeOK, NEW c \in CIRs, Reconcile(c)
    PROVE  TypeOK'
<1> DEFINE k == cache[c]
<1>k. k \in Objects
  BY DEF TypeOK, StoreTypeOK
<1>s. /\ {"provisioning", "provisioning wait", "available", "in use", "maintenance",
          "cleaning", "cleaning wait", "delete"} \subseteq StatusStates
      /\ "available" \in SpecStates
  BY DEF StatusStates, SpecStates
<1>p. ProviderTypeOK
  BY DEF TypeOK
<1>u. UNCHANGED providerVars => ProviderTypeOK'
  BY <1>p DEF ProviderTypeOK, providerVars
<1>i. /\ FallbackResource \in ResourceIds
      /\ Instances \subseteq ResourceIds
  BY ControllerAssumption
<1>1. CASE handleStateNone(c)
  <2>1. [k EXCEPT !.fin = TRUE] \in Objects
    BY <1>k, ObjectTypes
  <2> QED
    BY <1>1, <1>k, <1>s, <1>u, <2>1, HandlerTypeOK DEF handleStateNone
<1>2. CASE ProvisionFallback(c)
  <2>1. [k EXCEPT !.id = FallbackResource] \in Objects
    BY <1>k, <1>i, ObjectTypes
  <2> QED
    BY <1>2, <1>s, <1>u, <2>1, HandlerTypeOK DEF ProvisionFallback
<1>3. CASE ProvisionInstance(c)
  <2>1. PICK i \in Instances :
             Acquire(i) /\ TriggerEvent(c, [k EXCEPT !.id = i], "provisioning wait")
    BY <1>3 DEF ProvisionInstance, Acquirable
  <2>2. [k EXCEPT !.id = i] \in Objects
    BY <1>k, <1>i, ObjectTypes
  <2> QED
    BY <1>p, <1>s, <2>1, <2>2, ProviderTypes, HandlerTypeOK
<1>4. CASE ProvisionLeaks(c)
  <2>1. PICK i \in Instances : Acquire(i)
    BY <1>4 DEF ProvisionLeaks, Acquirable
  <2>2. ProviderTypeOK'
    BY <1>p, <2>1, ProviderTypes
  <2>3. faults' \in 0..MaxFaults
    <3>1. faults < MaxFaults /\ faults' = faults + 1
      BY <1>4 DEF ProvisionLeaks
    <3>2. faults \in 0..MaxFaults /\ MaxFaults \in Nat
      BY ControllerAssumption DEF TypeOK
    <3> QED
      BY <3>1, <3>2
  <2> QED
    BY <1>4, <2>2, <2>3
    DEF ProvisionLeaks, TypeOK, StoreTypeOK, storeVars
<1>5. CASE handleStateProvisioningWait(c)
  <2>1. [k EXCEPT !.addr = TRUE] \in Objects
    BY <1>k, ObjectTypes
  <2> QED
    BY <1>5, <1>s, <1>u, <2>1, HandlerTypeOK DEF handleStateProvisioningWait
<1>6. CASE handleStateAvailable(c)
  BY <1>6, <1>k, <1>s, <1>u, HandlerTypeOK DEF handleStateAvailable
<1>7. CASE handleStateMaintenance(c)
  BY <1>7, <1>k, <1>s, <1>u, HandlerTypeOK DEF handleStateMaintenance
<1>8. CASE handleStateInUse(c)
  <2>1. [k EXCEPT !.spec = "available"] \in Objects
    BY <1>k, <1>s, ObjectTypes
  <2> QED
    BY <1>8, <1>k, <1>s, <1>u, <2>1, HandlerTypeOK DEF handleStateInUse
<1>9. CASE CleanFallback(c)
  <2>1. [k EXCEPT !.id = FallbackResource, !.addr = FALSE] \in Objects
    BY <1>k, <1>i, ObjectTypes
  <2>2. ProviderTypeOK'
    BY <1>9, <1>p, <1>u, ProviderTypes DEF CleanFallback
  <2> QED
    BY <1>9, <1>s, <2>1, <2>2, HandlerTypeOK DEF CleanFallback
<1>10. CASE CleanInstance(c)
  <2>1. ProviderTypeOK'
    BY <1>10, <1>p, ProviderTypes DEF CleanInstance
  <2> QED
    BY <1>10, <1>k, <1>s, <2>1, HandlerTypeOK DEF CleanInstance
<1>11. CASE handleStateCleaningWait(c)
  BY <1>11, <1>k, <1>s, <1>u, HandlerTypeOK DEF handleStateCleaningWait
<1>12. CASE handleStateDelete(c)
  <2>1. [k EXCEPT !.fin = FALSE] \in Objects
    BY <1>k, ObjectTypes
  <2>2. ProviderTypeOK'
    BY <1>12, <1>p, <1>u, ProviderTypes DEF handleStateDelete
  <2> QED
    BY <1>12, <2>1, <2>2, HandlerTypeOK DEF handleStateDelete
<1> QED
  BY <1>1, <1>2, <1>3, <1>4, <1>5, <1>6, <1>7, <1>8, <1>9, <1>10, <1>11, <1>12
  DEF Reconcile, handleStateProvisioning, handleStateCleaning

LEMMA LifecycleTypes ==
    ASSUME StoreTypeOK, TypeOK, NEW c \in CIRs, OtherWriters(c)
    PROVE  StoreTypeOK'
<1>k. cir[c] \in Objects
  BY DEF StoreTypeOK
<1>s. {"available", "in use", "maintenance"} \subseteq SpecStates
  BY DEF SpecStates
<1>1. CASE \E p \in Pools : Create(c, p)
  BY <1>1, ObjectTypes, BecomeTypes DEF Create
<1>2. CASE ClientAcquire(c) \/ ClientRelease(c) \/ AdminMaintenance(c) \/ AdminResume(c)
  <2>1. PICK s \in SpecStates : Become(c, [cir[c] EXCEPT !.spec = s])
    BY <1>2, <1>s DEF ClientAcquire, ClientRelease, AdminMaintenance, AdminResume
  <2>2. [cir[c] EXCEPT !.spec = s] \in Objects
    BY <1>k, ObjectTypes
  <2> QED
    BY <2>1, <2>2, BecomeTypes
<1>3. CASE Evict(c)
  BY <1>3, <1>k, ObjectTypes, BecomeTypes DEF Evict
<1>4. CASE Delete(c)
  <2>1. Deleted(c) \in Objects
    BY <1>k, WriteTypes
  <2> QED
    BY <1>4, <2>1, BecomeTypes DEF Delete
<1> QED
  BY <1>1, <1>2, <1>3, <1>4 DEF OtherWriters

LEMMA CommitTypeOK ==
    ASSUME TypeOK, Commit \/ LoseWrite
    PROVE  TypeOK'
<1>j. job # NoJob => job.c \in CIRs /\ job.obj \in Objects
  BY DEF TypeOK, Jobs
<1>n. NoJob \in Jobs
  BY DEF Jobs
<1>p. UNCHANGED providerVars => ProviderTypeOK'
  BY DEF TypeOK, ProviderTypeOK, providerVars
<1>1. CASE UpdateResource
  <2>1. Updated(job.c, job.obj) \in Objects
    BY <1>1, <1>j, WriteTypes DEF UpdateResource
  <2>2. cir' \in [CIRs -> Objects] /\ current' \in SUBSET (Readers \X CIRs)
    BY <1>1, <1>j, <2>1, StoreTypes DEF UpdateResource, TypeOK, StoreTypeOK
  <2> QED
    BY <1>1, <1>n, <1>p, <2>2 DEF UpdateResource, TypeOK, StoreTypeOK
<1>2. CASE UpdateStatus
  <2>1. StatusUpdated(job.c, job.obj) \in Objects
    BY <1>2, <1>j, WriteTypes DEF UpdateStatus
  <2>2. cir' \in [CIRs -> Objects] /\ current' \in SUBSET (Readers \X CIRs)
    BY <1>2, <1>j, <2>1, StoreTypes DEF UpdateStatus, TypeOK, StoreTypeOK
  <2> QED
    BY <1>2, <1>n, <1>p, <2>2 DEF UpdateStatus, TypeOK, StoreTypeOK
<1>3. CASE UpdateConflict
  BY <1>3, <1>n, <1>p
  DEF UpdateConflict, TypeOK, StoreTypeOK, storeVars
<1>4. CASE LoseWrite
  <2>1. faults < MaxFaults /\ faults' = faults + 1
    BY <1>4 DEF LoseWrite
  <2>2. faults' \in 0..MaxFaults
    BY <2>1, ControllerAssumption DEF TypeOK
  <2>3. current' \in SUBSET (Readers \X CIRs)
    BY <1>4 DEF LoseWrite, Forget, TypeOK, StoreTypeOK
  <2> QED
    BY <1>4, <1>n, <1>p, <2>2, <2>3 DEF LoseWrite, TypeOK, StoreTypeOK
<1> QED
  BY <1>1, <1>2, <1>3, <1>4 DEF Commit

LEMMA NextTypeOK ==
    ASSUME TypeOK, [Next]_vars
    PROVE  TypeOK'
<1>1. ASSUME NEW c \in CIRs, Reconcile(c) PROVE TypeOK'
  BY <1>1, ReconcileTypeOK
<1>2. ASSUME NEW c \in CIRs, Environment(c) PROVE TypeOK'
  <2>1. CASE OtherWriters(c) /\ UNCHANGED <<providerVars, job, lapsed, faults>>
             /\ held' \in {held, held \union {c}, held \ {c}}
    <3>1. StoreTypeOK'
      BY <2>1, LifecycleTypes DEF TypeOK
    <3> QED
      BY <2>1, <3>1 DEF TypeOK, ProviderTypeOK, providerVars
  <2>2. CASE ClientUse(c)
    BY <2>2 DEF ClientUse, Alive, TypeOK, ProviderTypeOK, StoreTypeOK,
                storeVars, ctlVars
  <2> QED
    BY <1>2, <2>1, <2>2 DEF Environment
<1>3. ASSUME NEW c \in CIRs, Lapse(c) PROVE TypeOK'
  BY <1>3 DEF Lapse, TypeOK, ProviderTypeOK, providerVars, StoreTypeOK,
              storeVars
<1>4. ASSUME NEW c \in CIRs, Catch(c) PROVE TypeOK'
  BY <1>4, StoreAssumption
  DEF Catch, Sync, TypeOK, ProviderTypeOK, providerVars, StoreTypeOK,
      StoreTypeOK, ctlVars
<1>5. CASE Commit \/ LoseWrite
  BY <1>5, CommitTypeOK
<1>6. ASSUME NEW i \in Instances, ProviderStep(i) PROVE TypeOK'
  <2>1. ProviderTypeOK'
    BY <1>6, ProviderTypes DEF ProviderStep, TypeOK
  <2> QED
    BY <1>6, <2>1 DEF ProviderStep, TypeOK, StoreTypeOK, storeVars,
                      storeVars, ctlVars
<1>7. CASE UNCHANGED vars
  BY <1>7 DEF vars, TypeOK, ProviderTypeOK, providerVars, StoreTypeOK,
              storeVars, ctlVars
<1> QED
  BY <1>1, <1>2, <1>3, <1>4, <1>5, <1>6, <1>7 DEF Next

LEMMA InitTypeOK == Init => TypeOK
<1>1. {Informer} \X CIRs \in SUBSET (Readers \X CIRs)
  BY StoreAssumption
<1>2. NoJob \in Jobs /\ 0 \in 0..MaxFaults
  BY ControllerAssumption DEF Jobs
<1> QED
  BY <1>1, <1>2, ObjectTypes
  DEF Init, StoreInit, ProviderInit, TypeOK, StoreTypeOK,
      ProviderTypeOK, InstanceStates

(* Every variable keeps its type, whatever the order of the reconciler's   *)
(* reads, provider calls and writes.                                       *)
THEOREM TypeCorrect == Spec => []TypeOK
<1>1. TypeOK /\ [Next]_vars => TypeOK'
  BY NextTypeOK
<1> QED
  BY InitTypeOK, <1>1, PTL DEF Spec

-----------------------------------------------------------------------------
(* The inductive invariant.  Every lemma about a step has TypeOK' among    *)
(* its hypotheses; NextTypeOK gives it.                                    *)

\* Reading from the informer: the copy is as current as the informer's.
LEMMA ReadHolds ==
    ASSUME NEW c \in CIRs, ReadFromCache(Reconciler, {c})
    PROVE  /\ \A d \in CIRs : Holds(Informer, d)' <=> Holds(Informer, d)
           /\ Holds(Reconciler, c)' <=> Holds(Informer, c)
<1>1. Informer # Reconciler
  BY DEF Informer, Reconciler
<1> QED
  BY <1>1 DEF ReadFromCache, Holds

\* What a handler has to show: the objects stay sound under its provider call,
\* and its decision is right if the copy it read is the object as it is.
LEMMA HandlerInv ==
    ASSUME IInv, TypeOK', job = NoJob,
           NEW c \in CIRs, NEW op \in {"resource", "status"}, NEW o \in Objects,
           Write(op, c, o),
           ObjectsSound',
           o.id \in Instances => Names(c, o.id) \/ o.id \notin SeenIds,
           op = "status" /\ cache[c] = cir[c] =>
               Follows(cir[c], o) /\ Sound(o)'
    PROVE  IInv'
<1>1. /\ UNCHANGED <<cir, cache>>
      /\ job' = [op |-> op, c |-> c, obj |-> o]
      /\ ReadFromCache(Reconciler, {c})
  BY DEF Write
<1>2. job' # NoJob
  BY <1>1 DEF NoJob
<1>3. InformerExact'
  BY <1>1, ReadHolds DEF InformerExact, IInv
<1>4. CacheOneBehind'
  BY <1>1 DEF CacheOneBehind, IInv
<1>5. PendingWriteSound'
  <2>1. SUFFICES ASSUME Holds(Reconciler, c)'
                 PROVE  /\ Holds(Informer, c)'
                        /\ op = "status" => Follows(cir[c], o) /\ Sound(o)'
    BY <1>1 DEF PendingWriteSound, Follows, Sound, IsFallbackPool
  <2>2. Holds(Informer, c)' /\ Holds(Informer, c)
    BY <1>1, <2>1, ReadHolds
  <2>3. cache[c] = cir[c]
    BY <2>2 DEF IInv, InformerExact
  <2> QED
    BY <2>2, <2>3
<1>6. OneOwner'
  <2>1. SUFFICES ASSUME NEW d \in CIRs, NEW e \in CIRs, NEW i \in Instances,
                        Names(d, i)', Names(e, i)'
                 PROVE  d = e
    BY DEF OneOwner
  <2>2. \A x \in CIRs : Names(x, i)' => Names(x, i) \/ (x = c /\ o.id = i)
    BY <1>1 DEF Names
  <2>3. o.id = i /\ i \notin SeenIds => \A x \in CIRs : ~Names(x, i)
    BY DEF Names, SeenIds
  <2> QED
    BY <2>1, <2>2, <2>3 DEF IInv, OneOwner
<1> QED
  BY <1>3, <1>4, <1>5, <1>6 DEF IInv

\* A handler that calls no provider.
LEMMA NoCallInv ==
    ASSUME IInv, UNCHANGED <<inst, cir>>
    PROVE  /\ ObjectsSound'
           /\ \A c \in CIRs : \A o : Sound(o)' <=> Sound(o)
BY DEF IInv, ObjectsSound, Sound, IsFallbackPool

LEMMA AcquireSound ==
    ASSUME IInv, NEW i \in Instances, i \notin SeenIds, Acquire(i), UNCHANGED cir
    PROVE  ObjectsSound'
<1>1. \A c \in CIRs : cir[c].id # i
  BY DEF SeenIds
<1>2. \A j \in Instances : j # i => inst'[j] = inst[j]
  BY DEF Acquire, IInv, TypeOK, ProviderTypeOK
<1> QED
  BY <1>1, <1>2 DEF ObjectsSound, Sound, IsFallbackPool, IInv

\* Whatever happens to the instance that a copy in cleaning or delete names,
\* it is not one that a client has.
LEMMA OwnInstanceSound ==
    ASSUME IInv, NEW c \in CIRs, cache[c].state \in {"cleaning", "delete"}, UNCHANGED cir,
           \A j \in Instances : j # cache[c].id => inst'[j] = inst[j]
    PROVE  ObjectsSound'
<1>1. cir[c].state \in {"cleaning", "cleaning wait", "delete", "none"}
  BY DEF IInv, CacheOneBehind
<1>2. \A d \in CIRs : d # c /\ cir[d].id \in Instances => cir[d].id # cache[c].id
  BY DEF IInv, OneOwner, Names
<1>3. Sound(cir[c])'
  BY <1>1 DEF Sound, IsFallbackPool, ObjectsSound, IInv, Serving
<1>4. ASSUME NEW d \in CIRs, d # c PROVE Sound(cir[d])'
  BY <1>2, <1>4 DEF Sound, IsFallbackPool, ObjectsSound, IInv
<1> QED
  BY <1>3, <1>4 DEF ObjectsSound

\* The same for a handler that triggers an event.
LEMMA TriggerInv ==
    ASSUME IInv, TypeOK', job = NoJob,
           NEW c \in CIRs, NEW o \in Objects, NEW dst \in StatusStates,
           TriggerEvent(c, o, dst),
           ObjectsSound',
           o.id \in Instances => Names(c, o.id) \/ o.id \notin SeenIds,
           cache[c] = cir[c] =>
               Follows(cir[c], [o EXCEPT !.state = dst]) /\ Sound([o EXCEPT !.state = dst])'
    PROVE  IInv'
<1> DEFINE n == [o EXCEPT !.state = dst]
<1>1. n \in Objects /\ n.id = o.id /\ n.state = dst
  BY ObjectTypes, ZenonT(40) DEF Objects
<1>2. Write("status", c, n)
  BY DEF TriggerEvent
<1>3. cache[c] = cir[c] => Follows(cir[c], n) /\ Sound(n)'
  BY <1>1
<1> HIDE DEF n
<1> QED
  BY <1>1, <1>2, <1>3, HandlerInv

\* An object with a new state, and one with a new id.
LEMMA WithState ==
    ASSUME NEW o \in Objects, NEW s \in StatusStates
    PROVE  \E n \in Objects : n = [o EXCEPT !.state = s] /\ n.state = s /\ n.id = o.id /\ n.pool = o.pool
<1> [o EXCEPT !.state = s] \in Objects
  BY DEF Objects
<1> WITNESS [o EXCEPT !.state = s] \in Objects
<1> QED
  BY DEF Objects

LEMMA WithId ==
    ASSUME NEW o \in Objects, NEW i \in ResourceIds
    PROVE  \E n \in Objects : n = [o EXCEPT !.id = i] /\ n.id = i /\ n.state = o.state /\ n.pool = o.pool
<1> [o EXCEPT !.id = i] \in Objects
  BY DEF Objects
<1> WITNESS [o EXCEPT !.id = i] \in Objects
<1> QED
  BY DEF Objects

LEMMA ReconcileInv ==
    ASSUME ~ReusesIds, IInv, TypeOK', NEW c \in CIRs, Reconcile(c)
    PROVE  IInv'
<1> DEFINE k == cache[c]
<1>k. k \in Objects
  BY DEF IInv, TypeOK, StoreTypeOK
<1>j. job = NoJob
  BY DEF Reconcile, Reconciling, handleStateNone, handleStateProvisioning, ProvisionFallback,
         ProvisionInstance, ProvisionLeaks, handleStateProvisioningWait, handleStateAvailable,
         handleStateMaintenance, handleStateInUse, handleStateCleaning, CleanFallback,
         CleanInstance, handleStateCleaningWait, handleStateDelete
<1>n. k.id \in Instances => Names(c, k.id)
  BY DEF Names
<1>s. k = cir[c] => Sound(k)
  BY DEF IInv, ObjectsSound
<1>f. FallbackResource \notin Instances
  BY ControllerAssumption
<1>d. {"provisioning", "provisioning wait", "available", "in use", "maintenance",
       "cleaning", "cleaning wait", "delete"} \subseteq StatusStates
  BY DEF StatusStates
<1>t. \A dst : /\ [k EXCEPT !.state = dst].state = dst
               /\ [k EXCEPT !.state = dst].id = k.id
               /\ [k EXCEPT !.state = dst].pool = k.pool
  BY <1>k DEF Objects
<1>w. \A op, o : Write(op, c, o) => UNCHANGED cir
  BY DEF Write
\* Handlers without a provider call.
<1>c. ASSUME UNCHANGED providerVars, NEW dst \in StatusStates, TriggerEvent(c, k, dst),
             k = cir[c] => Follows(k, [k EXCEPT !.state = dst]) /\ Sound([k EXCEPT !.state = dst])
      PROVE  IInv'
  <2>1. /\ ObjectsSound'
        /\ \A o : Sound(o)' <=> Sound(o)
    BY <1>c, <1>w, NoCallInv DEF TriggerEvent, providerVars
  <2> QED
    BY <1>c, <1>j, <1>k, <1>n, <2>1, TriggerInv
<1>r. ASSUME UNCHANGED providerVars, NEW o \in Objects, o.id = k.id, UpdateResourceOnly(c, o)
      PROVE  IInv'
  <2>1. ObjectsSound'
    BY <1>r, <1>w, NoCallInv DEF UpdateResourceOnly, providerVars
  <2> QED
    BY <1>r, <1>j, <1>n, <2>1, HandlerInv DEF UpdateResourceOnly
<1>1. CASE handleStateNone(c)
  <2>1. CASE UpdateResourceOnly(c, [k EXCEPT !.fin = TRUE])
    <3>1. [k EXCEPT !.fin = TRUE] \in Objects /\ [k EXCEPT !.fin = TRUE].id = k.id
      BY <1>k, ObjectTypes, ZenonT(40) DEF Objects
    <3> QED
      BY <1>1, <1>r, <2>1, <3>1 DEF handleStateNone
  <2>2. CASE TriggerEvent(c, k, "provisioning")
    <3>1. Follows(k, [k EXCEPT !.state = "provisioning"]) /\ Sound([k EXCEPT !.state = "provisioning"])
      BY <1>1, <1>t DEF Follows, Sound, IsFallbackPool, Serving, handleStateNone, Reconciling
    <3> QED
      BY <1>1, <1>c, <1>d, <2>2, <3>1 DEF handleStateNone
  <2> QED
    BY <1>1, <2>1, <2>2 DEF handleStateNone
<1>2. CASE ProvisionFallback(c)
  <2>1. PICK o \in Objects : o = [k EXCEPT !.id = FallbackResource] /\ o.id = FallbackResource /\ o.pool = k.pool
    BY <1>k, StoreAssumption, WithId
  <2>2. PICK n \in Objects : /\ n = [o EXCEPT !.state = "available"]
                             /\ n.state = "available" /\ n.id = FallbackResource /\ n.pool = k.pool
    <3>1. "available" \in StatusStates
      BY <1>d
    <3>2. \E n \in Objects : n = [o EXCEPT !.state = "available"] /\ n.state = "available" /\ n.id = o.id /\ n.pool = o.pool
      BY <3>1, WithState
    <3> QED
      BY <3>2, <2>1
  <2>3. /\ IsFallbackPool(k) /\ k.state = "provisioning"
        /\ TriggerEvent(c, o, "available") /\ UNCHANGED providerVars
    BY <1>2, <2>1 DEF ProvisionFallback, Reconciling
  <2>4. Follows(k, n) /\ Sound(n)
    BY <1>f, <2>2, <2>3 DEF Follows, Sound, IsFallbackPool, Serving
  <2>5. ObjectsSound' /\ Sound(n)'
    BY <1>w, <2>3, <2>4, NoCallInv DEF TriggerEvent, providerVars
  <2> QED
    BY <1>d, <1>f, <1>j, <2>1, <2>2, <2>3, <2>4, <2>5, TriggerInv
<1>3. CASE ProvisionInstance(c)
  <2>1. PICK i \in Instances :
             /\ i \notin SeenIds
             /\ Acquire(i) /\ TriggerEvent(c, [k EXCEPT !.id = i], "provisioning wait")
    BY <1>3 DEF ProvisionInstance, Acquirable
  <2>2. PICK o \in Objects : o = [k EXCEPT !.id = i] /\ o.id = i /\ o.pool = k.pool
    BY <1>k, ControllerAssumption, WithId
  <2>3. PICK n \in Objects : /\ n = [o EXCEPT !.state = "provisioning wait"]
                             /\ n.state = "provisioning wait" /\ n.id = i /\ n.pool = k.pool
    <3>1. "provisioning wait" \in StatusStates
      BY <1>d
    <3>2. \E n \in Objects : n = [o EXCEPT !.state = "provisioning wait"] /\ n.state = "provisioning wait" /\ n.id = o.id /\ n.pool = o.pool
      BY <3>1, WithState
    <3> QED
      BY <3>2, <2>2
  <2>4. k.state = "provisioning" /\ TriggerEvent(c, o, "provisioning wait")
    BY <1>3, <2>1, <2>2 DEF ProvisionInstance, Reconciling
  <2>5. Follows(k, n) /\ Sound(n)'
    BY <2>3, <2>4 DEF Follows, Sound, IsFallbackPool, Serving
  <2>6. ObjectsSound'
    BY <1>w, <2>1, <2>4, AcquireSound DEF TriggerEvent
  <2> QED
    BY <1>d, <1>j, <2>1, <2>2, <2>3, <2>4, <2>5, <2>6, TriggerInv
<1>4. CASE ProvisionLeaks(c)
  <2>1. PICK i \in Instances : i \notin SeenIds /\ Acquire(i)
    BY <1>4 DEF ProvisionLeaks, Acquirable
  <2>2. UNCHANGED <<cir, cache, current, job>>
    BY <1>4 DEF ProvisionLeaks, storeVars
  <2>3. ObjectsSound'
    BY <2>1, <2>2, AcquireSound
  <2> QED
    BY <1>j, <2>2, <2>3
    DEF IInv, InformerExact, CacheOneBehind, PendingWriteSound, OneOwner, Names, Holds
<1>5. CASE handleStateProvisioningWait(c)
  <2>1. PICK o \in Objects : /\ o = [k EXCEPT !.addr = TRUE]
                             /\ o.id = k.id /\ o.state = k.state /\ o.pool = k.pool
    <3>1. /\ [k EXCEPT !.addr = TRUE] \in Objects
          /\ [k EXCEPT !.addr = TRUE].id = k.id
          /\ [k EXCEPT !.addr = TRUE].state = k.state
          /\ [k EXCEPT !.addr = TRUE].pool = k.pool
      BY <1>k DEF Objects
    <3> QED
      BY <3>1
  <2>2. PICK n \in Objects : /\ n = [o EXCEPT !.state = "available"]
                             /\ n.state = "available" /\ n.id = k.id /\ n.pool = k.pool
    <3>1. "available" \in StatusStates
      BY <1>d
    <3>2. \E n \in Objects : n = [o EXCEPT !.state = "available"] /\ n.state = "available" /\ n.id = o.id /\ n.pool = o.pool
      BY <3>1, WithState
    <3> QED
      BY <3>2, <2>1
  <2>3. /\ k.state = "provisioning wait" /\ k.id \in Instances /\ inst[k.id] = "ready"
        /\ TriggerEvent(c, o, "available") /\ UNCHANGED providerVars
    BY <1>5, <2>1 DEF handleStateProvisioningWait, Reconciling, AcquireCompleted
  <2>4. Follows(k, n) /\ Sound(n)
    BY <2>2, <2>3 DEF Follows, Sound, IsFallbackPool, Serving
  <2>5. ObjectsSound' /\ Sound(n)'
    BY <1>w, <2>3, <2>4, NoCallInv DEF TriggerEvent, providerVars
  <2> QED
    BY <1>d, <1>j, <1>n, <2>1, <2>2, <2>3, <2>4, <2>5, TriggerInv
<1>6. CASE handleStateAvailable(c)
  <2>1. PICK dst \in {"delete", "maintenance", "in use"} : TriggerEvent(c, k, dst)
    BY <1>6 DEF handleStateAvailable
  <2>2. k.state = "available" /\ UNCHANGED providerVars
    BY <1>6 DEF handleStateAvailable, Reconciling
  <2>3. k = cir[c] => Follows(k, [k EXCEPT !.state = dst]) /\ Sound([k EXCEPT !.state = dst])
    BY <1>s, <1>t, <2>2 DEF Follows, Sound, IsFallbackPool, Serving
  <2> QED
    BY <1>c, <1>d, <2>1, <2>2, <2>3
<1>7. CASE handleStateMaintenance(c)
  <2>1. PICK dst \in {"delete", "available"} : TriggerEvent(c, k, dst)
    BY <1>7 DEF handleStateMaintenance
  <2>2. k.state = "maintenance" /\ UNCHANGED providerVars
    BY <1>7 DEF handleStateMaintenance, Reconciling
  <2>3. k = cir[c] => Follows(k, [k EXCEPT !.state = dst]) /\ Sound([k EXCEPT !.state = dst])
    BY <1>s, <1>t, <2>2 DEF Follows, Sound, IsFallbackPool, Serving
  <2> QED
    BY <1>c, <1>d, <2>1, <2>2, <2>3
<1>8. CASE handleStateInUse(c)
  <2>1. k.state = "in use" /\ UNCHANGED providerVars
    BY <1>8 DEF handleStateInUse, Reconciling
  <2>2. CASE \E dst \in {"cleaning", "provisioning"} : TriggerEvent(c, k, dst)
    <3>1. PICK dst \in {"cleaning", "provisioning"} : TriggerEvent(c, k, dst)
      BY <2>2
    <3>2. k = cir[c] => Follows(k, [k EXCEPT !.state = dst]) /\ Sound([k EXCEPT !.state = dst])
      BY <1>s, <1>t, <2>1 DEF Follows, Sound, IsFallbackPool, Serving
    <3> QED
      BY <1>c, <1>d, <2>1, <3>1, <3>2
  <2>3. CASE UpdateResourceOnly(c, [k EXCEPT !.spec = "available"])
    <3>1. [k EXCEPT !.spec = "available"] \in Objects /\ [k EXCEPT !.spec = "available"].id = k.id
      BY <1>k DEF Objects, SpecStates
    <3> QED
      BY <1>r, <2>1, <2>3, <3>1
  <2> QED
    BY <1>8, <2>2, <2>3 DEF handleStateInUse
<1>9. CASE CleanFallback(c)
  <2>1. PICK o \in Objects : /\ o = [k EXCEPT !.id = FallbackResource, !.addr = FALSE]
                             /\ o.id = FallbackResource /\ o.pool = k.pool
    <3>1. /\ [k EXCEPT !.id = FallbackResource, !.addr = FALSE] \in Objects
          /\ [k EXCEPT !.id = FallbackResource, !.addr = FALSE].id = FallbackResource
          /\ [k EXCEPT !.id = FallbackResource, !.addr = FALSE].pool = k.pool
      BY <1>k, StoreAssumption DEF Objects
    <3> QED
      BY <3>1
  <2>2. PICK n \in Objects : /\ n = [o EXCEPT !.state = "cleaning wait"]
                             /\ n.state = "cleaning wait" /\ n.id = FallbackResource /\ n.pool = k.pool
    <3>1. "cleaning wait" \in StatusStates
      BY <1>d
    <3>2. \E n \in Objects : n = [o EXCEPT !.state = "cleaning wait"] /\ n.state = "cleaning wait" /\ n.id = o.id /\ n.pool = o.pool
      BY <3>1, WithState
    <3> QED
      BY <3>2, <2>1
  <2>3. /\ k.state = "cleaning" /\ IsFallbackPool(k)
        /\ TriggerEvent(c, o, "cleaning wait")
    BY <1>9, <2>1 DEF CleanFallback, Reconciling
  <2>4. Follows(k, n) /\ Sound(n)'
    BY <2>2, <2>3 DEF Follows, Sound, IsFallbackPool, Serving
  <2>5. \A j \in Instances : j # k.id => inst'[j] = inst[j]
    BY <1>9 DEF CleanFallback, Release, providerVars
  <2>6. ObjectsSound'
    BY <1>w, <2>3, <2>5, OwnInstanceSound DEF TriggerEvent
  <2> QED
    BY <1>d, <1>f, <1>j, <2>1, <2>2, <2>3, <2>4, <2>6, TriggerInv
<1>10. CASE CleanInstance(c)
  <2>1. /\ k.state = "cleaning" /\ ~IsFallbackPool(k) /\ k.id \in Instances
        /\ TriggerEvent(c, k, "cleaning wait")
    BY <1>10 DEF CleanInstance, Reconciling, Clean, Alive
  <2>2. PICK n \in Objects : /\ n = [k EXCEPT !.state = "cleaning wait"]
                             /\ n.state = "cleaning wait" /\ n.id = k.id /\ n.pool = k.pool
    <3>1. "cleaning wait" \in StatusStates
      BY <1>d
    <3> QED
      BY <1>k, <3>1, WithState
  <2>3. Follows(k, n) /\ Sound(n)'
    BY <2>1, <2>2 DEF Follows, Sound, IsFallbackPool, Serving
  <2>4. \A j \in Instances : j # k.id => inst'[j] = inst[j]
    BY <1>10 DEF CleanInstance, Clean, IInv, TypeOK, ProviderTypeOK
  <2>5. ObjectsSound'
    BY <1>w, <2>1, <2>4, OwnInstanceSound DEF TriggerEvent
  <2> QED
    BY <1>d, <1>j, <1>k, <1>n, <2>1, <2>2, <2>3, <2>5, TriggerInv
<1>11. CASE handleStateCleaningWait(c)
  <2>1. /\ k.state = "cleaning wait" /\ UNCHANGED providerVars
        /\ IsFallbackPool(k) \/ (k.id \in Instances /\ inst[k.id] = "ready")
        /\ TriggerEvent(c, k, "available")
    BY <1>11 DEF handleStateCleaningWait, Reconciling, CleanCompleted
  <2>2. k = cir[c] => Follows(k, [k EXCEPT !.state = "available"]) /\ Sound([k EXCEPT !.state = "available"])
    BY <1>f, <1>s, <1>t, <2>1 DEF Follows, Sound, IsFallbackPool, Serving
  <2> QED
    BY <1>c, <1>d, <2>1, <2>2
<1>12. CASE handleStateDelete(c)
  <2>1. PICK o \in Objects : o = [k EXCEPT !.fin = FALSE] /\ o.id = k.id
    <3>1. [k EXCEPT !.fin = FALSE] \in Objects /\ [k EXCEPT !.fin = FALSE].id = k.id
      BY <1>k DEF Objects
    <3> QED
      BY <3>1
  <2>2. k.state = "delete" /\ Write("resource", c, o)
    BY <1>12, <2>1 DEF handleStateDelete, Reconciling, UpdateResourceOnly
  <2>3. \A j \in Instances : j # k.id => inst'[j] = inst[j]
    BY <1>12 DEF handleStateDelete, Release, providerVars
  <2>4. ObjectsSound'
    BY <1>w, <2>2, <2>3, OwnInstanceSound
  <2> QED
    BY <1>j, <1>n, <2>1, <2>2, <2>4, HandlerInv
<1> QED
  BY <1>1, <1>2, <1>3, <1>4, <1>5, <1>6, <1>7, <1>8, <1>9, <1>10, <1>11, <1>12
  DEF Reconcile, handleStateProvisioning, handleStateCleaning

-----------------------------------------------------------------------------
(* The steps that write an object, and those that do not touch one.        *)

\* A new version of object c.
LEMMA StoreInv ==
    ASSUME IInv, TypeOK', NEW c \in CIRs, NEW o \in Objects, NEW done, Informer \notin done,
           Store(c, o, done), UNCHANGED <<cache, inst>>, job' \in {job, NoJob},
           Sound(o),
           cache[c].state = "cleaning" => o.state \in {"cleaning", "cleaning wait", "none"},
           cache[c].state = "delete" => o.state \in {"delete", "none"},
           o.id \in Instances => Names(c, o.id)
    PROVE  IInv'
<1>1. /\ cir'[c] = o
      /\ \A d \in CIRs : d # c => cir'[d] = cir[d]
  BY DEF Store, IInv, TypeOK, StoreTypeOK
<1>2. /\ \A d \in CIRs : Holds(Informer, d)' <=> Holds(Informer, d) /\ d # c
      /\ \A d \in CIRs : Holds(Reconciler, d)' => Holds(Reconciler, d) /\ d # c
  BY DEF Store, Holds
<1>3. ObjectsSound'
  BY <1>1 DEF ObjectsSound, Sound, IsFallbackPool, IInv
<1>4. InformerExact'
  BY <1>1, <1>2 DEF InformerExact, IInv
<1>5. CacheOneBehind'
  BY <1>1 DEF CacheOneBehind, IInv
<1>6. PendingWriteSound'
  <2>1. SUFFICES ASSUME job' # NoJob, Holds(Reconciler, job.c)'
                 PROVE  /\ Holds(Informer, job.c)'
                        /\ job.op = "status" => /\ Follows(cir'[job.c], job.obj)
                                                /\ Sound(job.obj)'
    BY DEF PendingWriteSound, Follows, NoJob
  <2>2. job' = job /\ job # NoJob
    BY <2>1
  <2>3. job.c \in CIRs
    BY <2>2 DEF IInv, TypeOK, Jobs
  <2>4. job.c # c /\ Holds(Reconciler, job.c) /\ cir'[job.c] = cir[job.c]
    BY <1>1, <1>2, <2>1, <2>2, <2>3
  <2>5. Sound(job.obj)' <=> Sound(job.obj)
    BY <2>2 DEF Sound, IsFallbackPool
  <2> QED
    BY <1>2, <2>2, <2>3, <2>4, <2>5 DEF PendingWriteSound, IInv
<1>7. OneOwner'
  <2>1. \A d \in CIRs : \A i \in Instances : Names(d, i)' => Names(d, i)
    BY <1>1 DEF Names
  <2> QED
    BY <2>1 DEF OneOwner, IInv
<1> QED
  BY <1>3, <1>4, <1>5, <1>6, <1>7 DEF IInv

\* A write of anything but the status, or the end or the beginning of an object.
LEMMA SpecWriteInv ==
    ASSUME IInv, TypeOK', NEW c \in CIRs, NEW o \in Objects, NEW done, Informer \notin done,
           Store(c, o, done), UNCHANGED <<cache, inst>>, job' \in {job, NoJob},
           \/ o.state = cir[c].state /\ o.id = cir[c].id /\ o.pool = cir[c].pool
           \/ o.state = "none" /\ o.id = NoInstance
    PROVE  IInv'
<1>1. Sound(cir[c])
  BY DEF IInv, ObjectsSound
<1>2. Sound(o)
  BY <1>1, ControllerAssumption DEF Sound, IsFallbackPool, Serving
<1>3. /\ cache[c].state = "cleaning" => o.state \in {"cleaning", "cleaning wait", "none"}
      /\ cache[c].state = "delete" => o.state \in {"delete", "none"}
  BY DEF IInv, CacheOneBehind
<1>4. o.id \in Instances => Names(c, o.id)
  BY ControllerAssumption DEF Names
<1> QED
  BY <1>2, <1>3, <1>4, StoreInv

\* The objects that the other writers make.
LEMMA OtherWrites ==
    ASSUME TypeOK, NEW c \in CIRs, OtherWriters(c)
    PROVE  \E o \in Objects :
               /\ Store(c, o, {})
               /\ UNCHANGED cache
               /\ \/ o.state = cir[c].state /\ o.id = cir[c].id /\ o.pool = cir[c].pool
                  \/ o.state = "none" /\ o.id = NoInstance
<1>k. cir[c] \in Objects
  BY DEF TypeOK, StoreTypeOK
<1>1. CASE \E p \in Pools : Create(c, p)
  <2>1. PICK p \in Pools : Store(c, Created(p), {}) /\ UNCHANGED cache
    BY <1>1 DEF Create, Become
  <2>2. /\ Created(p) \in Objects
        /\ Created(p).state = "none" /\ Created(p).id = NoInstance
    BY ObjectTypes DEF Created, Absent
  <2> QED
    BY <2>1, <2>2
<1>2. CASE ClientAcquire(c) \/ ClientRelease(c) \/ AdminMaintenance(c) \/ AdminResume(c)
  <2>1. PICK s \in {"available", "in use", "maintenance"} : Become(c, [cir[c] EXCEPT !.spec = s])
    BY <1>2 DEF ClientAcquire, ClientRelease, AdminMaintenance, AdminResume
  <2>2. /\ [cir[c] EXCEPT !.spec = s] \in Objects
        /\ [cir[c] EXCEPT !.spec = s].state = cir[c].state
        /\ [cir[c] EXCEPT !.spec = s].id = cir[c].id
        /\ [cir[c] EXCEPT !.spec = s].pool = cir[c].pool
    BY <1>k DEF Objects, SpecStates
  <2> QED
    BY <2>1, <2>2 DEF Become
<1>3. CASE Evict(c)
  <2>1. /\ [cir[c] EXCEPT !.evict = TRUE] \in Objects
        /\ [cir[c] EXCEPT !.evict = TRUE].state = cir[c].state
        /\ [cir[c] EXCEPT !.evict = TRUE].id = cir[c].id
        /\ [cir[c] EXCEPT !.evict = TRUE].pool = cir[c].pool
    BY <1>k DEF Objects
  <2> QED
    BY <1>3, <2>1 DEF Evict, Become
<1>4. CASE Delete(c)
  <2>1. Store(c, Deleted(c), {}) /\ UNCHANGED cache
    BY <1>4 DEF Delete, Become
  <2>2. CASE cir[c].fin
    <3>1. /\ [cir[c] EXCEPT !.del = TRUE] \in Objects
          /\ [cir[c] EXCEPT !.del = TRUE].state = cir[c].state
          /\ [cir[c] EXCEPT !.del = TRUE].id = cir[c].id
          /\ [cir[c] EXCEPT !.del = TRUE].pool = cir[c].pool
        /\ [cir[c] EXCEPT !.del = TRUE].pool = cir[c].pool
      BY <1>k DEF Objects
    <3> QED
      BY <2>1, <2>2, <3>1 DEF Deleted
  <2>3. CASE ~cir[c].fin
    BY <2>1, <2>3, ObjectTypes DEF Deleted, Absent
  <2> QED
    BY <2>2, <2>3
<1> QED
  BY <1>1, <1>2, <1>3, <1>4 DEF OtherWriters

LEMMA UpdateResourceInv ==
    ASSUME IInv, TypeOK', UpdateResource
    PROVE  IInv'
<1>1. job.c \in CIRs /\ job.obj \in Objects /\ job # NoJob
  BY DEF UpdateResource, IInv, TypeOK, Jobs
<1>2. PICK c \in CIRs, o \in Objects : c = job.c /\ o = Updated(job.c, job.obj)
  BY <1>1, WriteTypes DEF IInv
<1>3. \/ o.state = cir[c].state /\ o.id = cir[c].id /\ o.pool = cir[c].pool
      \/ o.state = "none" /\ o.id = NoInstance
  <2>1. cir[c] \in Objects
    BY DEF IInv, TypeOK, StoreTypeOK
  <2>2. CASE o = Absent
    BY <2>2 DEF Absent
  <2>3. CASE o = [cir[c] EXCEPT !.spec = job.obj.spec, !.fin = job.obj.fin,
                                  !.evict = job.obj.evict]
    BY <2>1, <2>3 DEF Objects
  <2> QED
    BY <1>2, <2>2, <2>3 DEF Updated
<1>4. /\ Store(c, o, {Reconciler}) /\ job' = NoJob
      /\ UNCHANGED <<cache, inst>>
  BY <1>2 DEF UpdateResource, providerVars
<1>5. Informer \notin {Reconciler}
  BY DEF Informer, Reconciler
<1> QED
  BY <1>3, <1>4, <1>5, SpecWriteInv

LEMMA UpdateStatusInv ==
    ASSUME IInv, TypeOK', UpdateStatus
    PROVE  IInv'
<1>1. job.c \in CIRs /\ job.obj \in Objects /\ job # NoJob
  BY DEF UpdateStatus, IInv, TypeOK, Jobs
<1>2. PICK c \in CIRs, o \in Objects : c = job.c /\ o = StatusUpdated(job.c, job.obj)
  BY <1>1, WriteTypes DEF IInv
<1>3. o.state = job.obj.state /\ o.id = job.obj.id /\ o.pool = cir[c].pool
  <2>1. cir[c] \in Objects
    BY DEF IInv, TypeOK, StoreTypeOK
  <2> QED
    BY <1>2, <2>1 DEF StatusUpdated, Objects
<1>4. /\ Holds(Informer, c) /\ cache[c] = cir[c]
      /\ Follows(cir[c], job.obj)
      /\ Sound(job.obj)
  <2>1. Holds(Reconciler, job.c) /\ job.op = "status"
    BY DEF UpdateStatus
  <2> QED
    BY <1>1, <1>2, <1>3, <2>1 DEF IInv, PendingWriteSound, InformerExact
<1>5. Sound(o)
  BY <1>3, <1>4 DEF Sound, IsFallbackPool, Follows
<1>6. /\ cache[c].state = "cleaning" => o.state \in {"cleaning", "cleaning wait", "none"}
      /\ cache[c].state = "delete" => o.state \in {"delete", "none"}
  BY <1>3, <1>4 DEF Follows
<1>7. o.id \in Instances => Names(c, o.id)
  BY <1>1, <1>2, <1>3 DEF Names
<1>8. /\ Store(c, o, {Reconciler}) /\ job' = NoJob
      /\ UNCHANGED <<cache, inst>>
  BY <1>2 DEF UpdateStatus, providerVars
<1>9. Informer \notin {Reconciler}
  BY DEF Informer, Reconciler
<1> QED
  BY <1>5, <1>6, <1>7, <1>8, <1>9, StoreInv

\* A step that writes no object and calls no provider: at most a write is
\* dropped, with the reconciler's copies.
LEMMA NoWriteInv ==
    ASSUME IInv, TypeOK', UNCHANGED <<cir, cache, inst>>,
           \/ UNCHANGED <<current, job>>
           \/ job' = NoJob /\ UNCHANGED current
           \/ job' = NoJob /\ current' = Forget(Reconciler)
    PROVE  IInv'
<1>1. ObjectsSound' /\ CacheOneBehind'
  BY DEF IInv, ObjectsSound, Sound, IsFallbackPool, CacheOneBehind
<1>2. InformerExact'
  BY DEF IInv, InformerExact, Holds, Forget, Informer, Reconciler
<1>3. PendingWriteSound'
  <2>1. CASE UNCHANGED <<current, job>>
    BY <2>1 DEF IInv, PendingWriteSound, Holds, Follows, Sound, IsFallbackPool, NoJob
  <2>2. CASE job' = NoJob
    BY <2>2 DEF PendingWriteSound, NoJob
  <2> QED
    BY <2>1, <2>2
<1>4. OneOwner'
  <2>1. \A d \in CIRs : \A i \in Instances : Names(d, i)' => Names(d, i)
    BY DEF Names, NoJob
  <2> QED
    BY <2>1 DEF OneOwner, IInv
<1> QED
  BY <1>1, <1>2, <1>3, <1>4 DEF IInv

LEMMA CatchInv ==
    ASSUME IInv, TypeOK', NEW c \in CIRs, Catch(c)
    PROVE  IInv'
<1>1. /\ UNCHANGED <<cir, inst, job>>
      /\ cache' = [cache EXCEPT ![c] = cir[c]]
      /\ current' = current \union {<<Informer, c>>}
  BY DEF Catch, Sync, providerVars, ctlVars
<1>2. /\ cache'[c] = cir[c]
      /\ \A d \in CIRs : d # c => cache'[d] = cache[d]
  BY <1>1 DEF IInv, TypeOK, StoreTypeOK
<1>3. /\ \A d \in CIRs : Holds(Informer, d)' <=> Holds(Informer, d) \/ d = c
      /\ \A d \in CIRs : Holds(Reconciler, d)' <=> Holds(Reconciler, d)
  BY <1>1 DEF Holds, Informer, Reconciler
<1>4. ObjectsSound'
  BY <1>1 DEF IInv, ObjectsSound, Sound, IsFallbackPool
<1>5. InformerExact'
  BY <1>1, <1>2, <1>3 DEF IInv, InformerExact
<1>6. CacheOneBehind'
  BY <1>1, <1>2 DEF IInv, CacheOneBehind
<1>7. PendingWriteSound'
  <2>1. SUFFICES ASSUME job # NoJob, Holds(Reconciler, job.c)'
                 PROVE  /\ Holds(Informer, job.c)'
                        /\ job.op = "status" => /\ Follows(cir[job.c], job.obj)
                                                /\ Sound(job.obj)'
    BY <1>1 DEF PendingWriteSound, Follows, NoJob
  <2>2. job.c \in CIRs
    BY <2>1 DEF IInv, TypeOK, Jobs
  <2>3. Sound(job.obj)' <=> Sound(job.obj)
    BY <1>1 DEF Sound, IsFallbackPool
  <2> QED
    BY <1>1, <1>3, <2>1, <2>2, <2>3 DEF IInv, PendingWriteSound
<1>8. OneOwner'
  <2>1. \A d \in CIRs : \A i \in Instances : Names(d, i)' => Names(d, i)
    BY <1>1, <1>2 DEF Names, NoJob
  <2> QED
    BY <2>1 DEF OneOwner, IInv
<1> QED
  BY <1>4, <1>5, <1>6, <1>7, <1>8 DEF IInv

LEMMA ProviderStepInv ==
    ASSUME IInv, TypeOK', NEW i \in Instances, ProviderStep(i)
    PROVE  IInv'
<1>1. UNCHANGED <<cir, cache, current, job>>
  BY DEF ProviderStep, storeVars, ctlVars
<1>2. \A j \in Instances : inst[j] = "ready" => inst'[j] = "ready"
  BY DEF ProviderStep, FinishBuild, FinishClean, Fail, IInv, TypeOK, ProviderTypeOK
<1>3. ASSUME NEW c, NEW o, Sound(o) PROVE Sound(o)'
  BY <1>2, <1>3 DEF Sound, IsFallbackPool
<1>4. ObjectsSound'
  <2>1. SUFFICES ASSUME NEW c \in CIRs PROVE Sound(cir[c])'
    BY DEF ObjectsSound
  <2>2. PICK o \in Objects : o = cir[c]
    BY DEF IInv, TypeOK, StoreTypeOK
  <2>3. Sound(o)
    BY <2>2 DEF IInv, ObjectsSound
  <2> QED
    BY <1>1, <1>3, <2>2, <2>3 DEF Sound, IsFallbackPool
<1>5. InformerExact' /\ CacheOneBehind' /\ OneOwner'
  BY <1>1, ZenonT(40) DEF IInv, InformerExact, CacheOneBehind, OneOwner, Names, Holds, NoJob
<1>6. PendingWriteSound'
  <2>1. SUFFICES ASSUME job # NoJob, Holds(Reconciler, job.c)
                 PROVE  /\ Holds(Informer, job.c)
                        /\ job.op = "status" => /\ Follows(cir[job.c], job.obj)
                                                /\ Sound(job.obj)'
    BY <1>1 DEF PendingWriteSound, Follows, Holds, NoJob
  <2>2. PICK c \in CIRs, o \in Objects : c = job.c /\ o = job.obj
    BY <2>1 DEF IInv, TypeOK, Jobs
  <2>3. job.op = "status" => Sound(o)'
    BY <1>3, <2>1, <2>2 DEF IInv, PendingWriteSound
  <2> QED
    BY <1>1, <2>1, <2>2, <2>3 DEF IInv, PendingWriteSound, Sound, IsFallbackPool
<1> QED
  BY <1>4, <1>5, <1>6 DEF IInv

LEMMA NextIInv ==
    ASSUME ~ReusesIds, IInv, [Next]_vars
    PROVE  IInv'
<1>t. TypeOK /\ TypeOK'
  BY NextTypeOK DEF IInv
<1>1. ASSUME NEW c \in CIRs, Reconcile(c) PROVE IInv'
  BY <1>1, <1>t, ReconcileInv
<1>2. ASSUME NEW c \in CIRs, Environment(c) PROVE IInv'
  <2>1. CASE OtherWriters(c) /\ UNCHANGED <<providerVars, job>>
    <3>1. PICK o \in Objects :
               /\ Store(c, o, {})
               /\ UNCHANGED cache
               /\ \/ o.state = cir[c].state /\ o.id = cir[c].id /\ o.pool = cir[c].pool
                  \/ o.state = "none" /\ o.id = NoInstance
      BY <1>t, <2>1, OtherWrites
    <3> QED
      BY <1>t, <2>1, <3>1, SpecWriteInv DEF providerVars
  <2>2. CASE ClientUse(c)
    BY <1>t, <2>2, NoWriteInv DEF ClientUse, storeVars, ctlVars
  <2> QED
    BY <1>2, <2>1, <2>2 DEF Environment
<1>3. ASSUME NEW c \in CIRs, Lapse(c) PROVE IInv'
  BY <1>3, <1>t, NoWriteInv DEF Lapse, storeVars, providerVars
<1>4. ASSUME NEW c \in CIRs, Catch(c) PROVE IInv'
  BY <1>4, <1>t, CatchInv
<1>5. CASE Commit
  <2>1. CASE UpdateConflict
    BY <1>t, <2>1, NoWriteInv DEF UpdateConflict, storeVars, providerVars
  <2> QED
    BY <1>5, <1>t, <2>1, UpdateResourceInv, UpdateStatusInv DEF Commit
<1>6. CASE LoseWrite
  BY <1>6, <1>t, NoWriteInv DEF LoseWrite, providerVars
<1>7. ASSUME NEW i \in Instances, ProviderStep(i) PROVE IInv'
  BY <1>7, <1>t, ProviderStepInv
<1>8. CASE UNCHANGED vars
  BY <1>8, <1>t, NoWriteInv DEF vars, storeVars, providerVars, ctlVars
<1> QED
  BY <1>1, <1>2, <1>3, <1>4, <1>5, <1>6, <1>7, <1>8 DEF Next

LEMMA InitIInv == Init => IInv
<1> SUFFICES ASSUME Init PROVE IInv
  OBVIOUS
<1>1. TypeOK
  BY InitTypeOK
<1>2. /\ job = NoJob
      /\ \A c \in CIRs : cir[c] = Absent /\ cache[c] = Absent
  BY DEF Init, StoreInit
<1>3. Absent.state = "none" /\ Absent.id = NoInstance
  BY DEF Absent
<1>4. ObjectsSound /\ InformerExact /\ CacheOneBehind
  BY <1>2, <1>3, ControllerAssumption DEF ObjectsSound, Sound, IsFallbackPool, Serving, InformerExact, CacheOneBehind
<1>5. PendingWriteSound
  BY <1>2 DEF PendingWriteSound
<1>6. OneOwner
  BY <1>2, <1>3, ControllerAssumption DEF OneOwner, Names
<1> QED
  BY <1>1, <1>4, <1>5, <1>6 DEF IInv

(* Where released ids are not handed out again, the state machine, its     *)
(* stale copies and its pending writes stay consistent with the provider.  *)
THEOREM ControllerInvariant ==
    ASSUME ~ReusesIds
    PROVE  Spec => []IInv
<1>1. IInv /\ [Next]_vars => IInv'
  BY NextIInv
<1> QED
  BY InitIInv, <1>1, PTL DEF Spec

(* Therefore what a client gets is a ready instance.                       *)
THEOREM AssignedInstanceIsReady ==
    ASSUME ~ReusesIds
    PROVE  Spec => []AssignedInstanceReady
<1>1. IInv => AssignedInstanceReady
  BY DEF IInv, ObjectsSound, Sound, IsFallbackPool, Serving, AssignedInstanceReady
<1> QED
  BY <1>1, ControllerInvariant, PTL
=============================================================================
