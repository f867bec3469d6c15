------------------------- MODULE CIResourceController -------------------------
(***************************************************************************)
(* The CIResource reconciler: the finite state machine of                  *)
(* controllers/ciresource_fsm.go, driven by ciresource_controller.go.      *)
(*                                                                         *)
(* One reconciliation reads the informer's copy of an object, runs the     *)
(* handler of its Status.State, which may call the provider, and then      *)
(* writes the object back.  The read and the provider call are one step    *)
(* here, the write is another (Commit): between them the object may be     *)
(* changed by an API request, the pool reconciler or an administrator, and *)
(* the operator may die.  One worker runs all reconciliations.             *)
(*                                                                         *)
(* The other writers are those of CIResourceLifecycle: the atomic changes  *)
(* they make to an object.                                                 *)
(***************************************************************************)
EXTENDS CIResourceLifecycle, Provider

CONSTANT MaxFaults   \* bound on crashes, failed writes and half-done Acquires

Reconciler == "reconciler"

ASSUME ControllerAssumption ==
    /\ ResourceIds = Instances \union {NoInstance, FallbackResource}
    /\ NoInstance \notin Instances
    /\ FallbackResource \notin Instances
    /\ Reconciler \in Readers
    /\ MaxFaults \in Nat

VARIABLES
    job,     \* the write the worker is about to make, or NoJob
    lapsed,  \* objects whose LastUpdated is older than the pool's Timeout
    held,    \* ghost: objects a client was granted and has not given back
    faults   \* ghost: faults so far

ctlVars == <<job, lapsed, held, faults>>
vars == <<storeVars, providerVars, ctlVars>>

NoJob == [op |-> "none"]
Jobs == [op : {"resource", "status"}, c : CIRs, obj : Objects] \union {NoJob}

TypeOK ==
    /\ StoreTypeOK
    /\ ProviderTypeOK
    /\ job \in Jobs
    /\ lapsed \in SUBSET CIRs
    /\ held \in SUBSET CIRs
    /\ faults \in 0..MaxFaults

Init ==
    /\ StoreInit
    /\ ProviderInit
    /\ job = NoJob
    /\ lapsed = {}
    /\ held = {}
    /\ faults = 0

-----------------------------------------------------------------------------
(* Reconciliation, up to the write.  In every handler k is the copy the    *)
(* informer had; an early return without a write changes nothing and is no *)
(* step.  A provider that returns an error is such a return.               *)

\* Reconcile: the single worker takes object c and finds it in this state.
Reconciling(c, state) ==
    /\ job = NoJob
    /\ cache[c].live
    /\ cache[c].state = state

Write(op, c, obj) ==
    /\ job' = [op |-> op, c |-> c, obj |-> obj]
    /\ ReadFromCache(Reconciler, {c})
    /\ UNCHANGED <<cir, cache, lapsed, held, faults>>

\* UpdateResourceOnly and TriggerEvent.
UpdateResourceOnly(c, obj) == Write("resource", c, obj)
TriggerEvent(c, obj, dst) == Write("status", c, [obj EXCEPT !.state = dst])

\* The ids that some object, copy or pending write still names.
SeenIds ==
    { cir[c].id : c \in CIRs } \union { cache[c].id : c \in CIRs }
    \union (IF job = NoJob THEN {} ELSE {job.obj.id})

handleStateNone(c) ==
    LET k == cache[c] IN
    /\ Reconciling(c, "none")
    /\ IF ~k.del /\ ~k.fin
       THEN UpdateResourceOnly(c, [k EXCEPT !.fin = TRUE])
       ELSE TriggerEvent(c, k, "provisioning")
    /\ UNCHANGED providerVars

ProvisionFallback(c) ==
    LET k == cache[c] IN
    /\ Reconciling(c, "provisioning")
    /\ IsFallbackPool(k) /\ k.spec # "in use"
    /\ TriggerEvent(c, [k EXCEPT !.id = FallbackResource], "available")
    /\ UNCHANGED providerVars

ProvisionInstance(c) ==
    LET k == cache[c] IN
    /\ Reconciling(c, "provisioning")
    /\ ~(IsFallbackPool(k) /\ k.spec # "in use")
    /\ \E i \in Acquirable(SeenIds) :
          /\ Acquire(i)
          /\ TriggerEvent(c, [k EXCEPT !.id = i], "provisioning wait")

\* Acquire returns an error although the provider made the instance.
ProvisionLeaks(c) ==
    LET k == cache[c] IN
    /\ Reconciling(c, "provisioning")
    /\ ~(IsFallbackPool(k) /\ k.spec # "in use")
    /\ faults < MaxFaults
    /\ faults' = faults + 1
    /\ \E i \in Acquirable(SeenIds) : Acquire(i)
    /\ UNCHANGED <<storeVars, job, lapsed, held>>

handleStateProvisioning(c) ==
    ProvisionFallback(c) \/ ProvisionInstance(c) \/ ProvisionLeaks(c)

\* Bug: an event that is not among the transitions of the state.
handleStateProvisioningWait_Unknown(c) ==
    LET k == cache[c] IN
    /\ Reconciling(c, "provisioning wait")
    /\ AcquireCompleted(k.id)
    /\ TriggerEvent(c, [k EXCEPT !.addr = TRUE], "on-provisioning-complete")
    /\ UNCHANGED providerVars

handleStateProvisioningWait(c) ==
    LET k == cache[c] IN
    /\ Reconciling(c, "provisioning wait")
    /\ AcquireCompleted(k.id)
    /\ TriggerEvent(c, [k EXCEPT !.addr = TRUE], "available")
    /\ UNCHANGED providerVars

\* Bug: an acquired fallback CIResource is not moved on without an address.
handleStateAvailable_NeedsAddress(c) ==
    LET k == cache[c] IN
    /\ Reconciling(c, "available")
    /\ \/ k.del /\ TriggerEvent(c, k, "delete")
       \/ ~k.del /\ k.spec = "maintenance" /\ TriggerEvent(c, k, "maintenance")
       \/ ~k.del /\ k.spec = "in use" /\ k.addr /\ TriggerEvent(c, k, "in use")
    /\ UNCHANGED providerVars

handleStateAvailable(c) ==
    LET k == cache[c] IN
    /\ Reconciling(c, "available")
    /\ \/ k.del /\ TriggerEvent(c, k, "delete")
       \/ ~k.del /\ k.spec = "maintenance" /\ TriggerEvent(c, k, "maintenance")
       \/ ~k.del /\ k.spec = "in use" /\ TriggerEvent(c, k, "in use")
    /\ UNCHANGED providerVars

handleStateMaintenance(c) ==
    LET k == cache[c] IN
    /\ Reconciling(c, "maintenance")
    /\ \/ k.del /\ TriggerEvent(c, k, "delete")
       \/ ~k.del /\ k.spec = "available" /\ TriggerEvent(c, k, "available")
    /\ UNCHANGED providerVars

\* time.Since(LastUpdated) > Timeout.  A copy left behind by a later status has
\* an older LastUpdated, which may have lapsed.
LeaseOver(c) == c \in lapsed \/ cir[c].state # "in use"

\* Bug: the lease does not end with the Timeout.
handleStateInUse_NoTimeout(c) ==
    LET k == cache[c] IN
    /\ Reconciling(c, "in use")
    /\ \/ k.spec = "available" /\ TriggerEvent(c, k, "cleaning")
       \/ k.spec = "in use" /\ IsFallbackPool(k) /\ ~k.addr /\ TriggerEvent(c, k, "provisioning")
    /\ UNCHANGED providerVars

\* Bug: cleaning starts on whatever the spec says but "in use".
handleStateInUse_Unrequested(c) ==
    LET k == cache[c] IN
    /\ Reconciling(c, "in use")
    /\ k.spec # "in use"
    /\ TriggerEvent(c, k, "cleaning")
    /\ UNCHANGED providerVars

handleStateInUse(c) ==
    LET k == cache[c]
        unprovisioned == IsFallbackPool(k) /\ ~k.addr /\ k.id = FallbackResource
    IN
    /\ Reconciling(c, "in use")
    /\ \/ k.spec = "available" /\ TriggerEvent(c, k, "cleaning")
       \/ k.spec = "in use" /\ unprovisioned /\ TriggerEvent(c, k, "provisioning")
       \/ /\ k.spec = "in use" /\ ~unprovisioned /\ LeaseOver(c)
          /\ UpdateResourceOnly(c, [k EXCEPT !.spec = "available"])
    /\ UNCHANGED providerVars

\* Bug: the released instance stays in the status.
CleanFallback_KeepsId(c) ==
    LET k == cache[c] IN
    /\ Reconciling(c, "cleaning")
    /\ IsFallbackPool(k)
    /\ \/ k.id = FallbackResource /\ UNCHANGED providerVars
       \/ k.id # FallbackResource /\ ReleaseAccepted(k.id) /\ Release(k.id)
    /\ TriggerEvent(c, [k EXCEPT !.addr = FALSE], "cleaning wait")

CleanFallback(c) ==
    LET k == cache[c] IN
    /\ Reconciling(c, "cleaning")
    /\ IsFallbackPool(k)
    /\ \/ k.id = FallbackResource /\ UNCHANGED providerVars
       \/ k.id # FallbackResource /\ ReleaseAccepted(k.id) /\ Release(k.id)
    /\ TriggerEvent(c, [k EXCEPT !.id = FallbackResource, !.addr = FALSE],
                    "cleaning wait")

\* Bug: the instance is handed out while it is still being cleaned.
CleanInstance_NoWait(c) ==
    LET k == cache[c] IN
    /\ Reconciling(c, "cleaning")
    /\ ~IsFallbackPool(k)
    /\ Clean(k.id)
    /\ TriggerEvent(c, k, "available")

\* Bug: Clean is not called.
CleanInstance_NoClean(c) ==
    LET k == cache[c] IN
    /\ Reconciling(c, "cleaning")
    /\ ~IsFallbackPool(k)
    /\ TriggerEvent(c, k, "cleaning wait")
    /\ UNCHANGED providerVars

CleanInstance(c) ==
    LET k == cache[c] IN
    /\ Reconciling(c, "cleaning")
    /\ ~IsFallbackPool(k)
    /\ Clean(k.id)
    /\ TriggerEvent(c, k, "cleaning wait")

handleStateCleaning(c) == CleanFallback(c) \/ CleanInstance(c)

handleStateCleaningWait(c) ==
    LET k == cache[c] IN
    /\ Reconciling(c, "cleaning wait")
    /\ IsFallbackPool(k) \/ CleanCompleted(k.id)
    /\ TriggerEvent(c, k, "available")
    /\ UNCHANGED providerVars

\* Bug: every CIResource of a fallback pool is taken for a dummy.
handleStateDelete_FallbackIsDummy(c) ==
    LET k == cache[c] IN
    /\ Reconciling(c, "delete")
    /\ k.fin
    /\ \/ IsFallbackPool(k) /\ UNCHANGED providerVars
       \/ ~IsFallbackPool(k) /\ ReleaseAccepted(k.id) /\ Release(k.id)
    /\ UpdateResourceOnly(c, [k EXCEPT !.fin = FALSE])

handleStateDelete(c) ==
    LET k == cache[c]
        dummy == IsFallbackPool(k) /\ k.id = FallbackResource
    IN
    /\ Reconciling(c, "delete")
    /\ k.fin
    /\ \/ dummy /\ UNCHANGED providerVars
       \/ ~dummy /\ ReleaseAccepted(k.id) /\ Release(k.id)
    /\ UpdateResourceOnly(c, [k EXCEPT !.fin = FALSE])

Reconcile(c) ==
    \/ handleStateNone(c)
    \/ handleStateProvisioning(c)
    \/ handleStateProvisioningWait(c)
    \/ handleStateAvailable(c)
    \/ handleStateMaintenance(c)
    \/ handleStateInUse(c)
    \/ handleStateCleaning(c)
    \/ handleStateCleaningWait(c)
    \/ handleStateDelete(c)

-----------------------------------------------------------------------------
(* The write of a reconciliation, which ends it.                           *)

UpdateResource ==
    LET new == Updated(job.c, job.obj) IN
    /\ job # NoJob /\ job.op = "resource"
    /\ Holds(Reconciler, job.c)
    /\ Store(job.c, new, {Reconciler})
    /\ held' = IF new.live /\ new.spec = cir[job.c].spec
               THEN held ELSE held \ {job.c}
    /\ job' = NoJob
    /\ UNCHANGED <<cache, providerVars, lapsed, faults>>

\* Bug: the status is patched without the resourceVersion it was read with.
UpdateStatus_AnyVersion ==
    /\ job # NoJob /\ job.op = "status"
    /\ cir[job.c].live
    /\ Store(job.c, StatusUpdated(job.c, job.obj), {Reconciler})
    /\ lapsed' = lapsed \ {job.c}
    /\ job' = NoJob
    /\ UNCHANGED <<cache, providerVars, held, faults>>

\* LastUpdated becomes the current time.
UpdateStatus ==
    /\ job # NoJob /\ job.op = "status"
    /\ Holds(Reconciler, job.c)
    /\ Store(job.c, StatusUpdated(job.c, job.obj), {Reconciler})
    /\ lapsed' = lapsed \ {job.c}
    /\ job' = NoJob
    /\ UNCHANGED <<cache, providerVars, held, faults>>

\* The API server refuses a write computed from an old copy.
UpdateConflict ==
    /\ job # NoJob
    /\ ~Holds(Reconciler, job.c)
    /\ job' = NoJob
    /\ UNCHANGED <<storeVars, providerVars, lapsed, held, faults>>

\* The operator dies before the write, or the write does not get through.
LoseWrite ==
    /\ job # NoJob
    /\ faults < MaxFaults
    /\ faults' = faults + 1
    /\ current' = Forget(Reconciler)
    /\ job' = NoJob
    /\ UNCHANGED <<cir, cache, providerVars, lapsed, held>>

Commit == UpdateResource \/ UpdateStatus \/ UpdateConflict

-----------------------------------------------------------------------------
(* The other writers, and what their changes mean to the clients.          *)

\* The holder of an object works on its instance.
ClientUse(c) ==
    /\ c \in held
    /\ cir[c].addr /\ Alive(cir[c].id)
    /\ cir[c].id \notin dirty
    /\ dirty' = dirty \union {cir[c].id}
    /\ UNCHANGED <<storeVars, inst, ctlVars>>

Environment(c) ==
    \/ /\ OtherWriters(c)
       /\ held' = IF ClientAcquire(c) THEN held \union {c}
                  ELSE IF ClientRelease(c) \/ ~cir'[c].live THEN held \ {c}
                  ELSE held
       /\ UNCHANGED <<providerVars, job, lapsed, faults>>
    \/ ClientUse(c)

\* The pool's Timeout passes.
Lapse(c) ==
    /\ cir[c].state = "in use"
    /\ c \notin lapsed
    /\ lapsed' = lapsed \union {c}
    /\ UNCHANGED <<storeVars, providerVars, job, held, faults>>

Catch(c) == Sync(c) /\ UNCHANGED <<providerVars, ctlVars>>

ProviderStep(i) ==
    /\ FinishBuild(i) \/ FinishClean(i) \/ Fail(i)
    /\ UNCHANGED <<storeVars, ctlVars>>

Next ==
    \/ \E c \in CIRs : Reconcile(c) \/ Environment(c) \/ Lapse(c) \/ Catch(c)
    \/ Commit
    \/ LoseWrite
    \/ \E i \in Instances : ProviderStep(i)

Spec == Init /\ [][Next]_vars

(* The informer delivers every change; every object is queued again after  *)
(* each reconciliation, after an error and on every event, and the work    *)
(* queue is first-in first-out, so no object waits forever; a write that   *)
(* was started ends; builds and cleanings end; time passes.                *)
Fairness ==
    /\ \A c \in CIRs : SF_vars(Reconcile(c)) /\ WF_vars(Catch(c)) /\ WF_vars(Lapse(c))
    /\ WF_vars(Commit)
    /\ \A i \in Instances : WF_vars(ProviderStep(i))

FairSpec == Spec /\ Fairness

-----------------------------------------------------------------------------
(* Refinement.                                                             *)

Hide(obj) == [obj EXCEPT !.id = NoInstance]

Lifecycle == INSTANCE CIResourceLifecycle WITH
    cir <- [c \in CIRs |-> Hide(cir[c])],
    cache <- [c \in CIRs |-> Hide(cache[c])],
    current <- Forget(Reconciler),
    Readers <- Readers \ {Reconciler}

(* The reconciler, with its old copies, lost writes and crashes, takes     *)
(* every CIResource through the life that the API and the pool reconciler  *)
(* count on, one atomic transition at a time.                              *)
ImplementsLifecycle == Lifecycle!LifecycleSpec

-----------------------------------------------------------------------------
(* Safety.                                                                 *)

(* What /acquire and /status hand out is usable: a CIResource that is      *)
(* available, in use or in maintenance and names an instance names one     *)
(* that is ready at the provider, and outside the fallback pools it does   *)
(* name one.  Broken if a handler run on an old copy cleaned or released   *)
(* an instance that has been given to a client in the meantime.            *)
AssignedInstanceReady ==
    \A c \in CIRs : cir[c].state \in {"available", "in use", "maintenance"} =>
        /\ cir[c].id \in Instances => inst[cir[c].id] = "ready"
        /\ ~IsFallbackPool(cir[c]) => cir[c].id \in Instances

(* No two CIResources name the same instance, but for one that is being    *)
(* deleted and has given it back: a client's host is not taken from it by  *)
(* the cleaning or the release of another CIResource.  A question about    *)
(* the providers that hand the same hosts out again; new ids are no one's. *)
NoSharedInstance ==
    \A c, d \in CIRs :
        /\ c # d
        /\ cir[c].id = cir[d].id
        /\ cir[c].id \in Instances
        => "delete" \in {cir[c].state, cir[d].state}

(* A client never gets what another one left behind: an instance that can  *)
(* be acquired carries no data of an earlier client.                       *)
CleanBeforeReuse ==
    \A c \in CIRs : cir[c].state = "available" /\ cir[c].spec # "in use"
                     => cir[c].id \notin dirty

(* A fallback CIResource costs an instance only while a client has it:     *)
(* when it waits to be acquired it names the dummy instance, and so will   *)
(* its next client be provisioned a new one.                               *)
IdleFallbackHasNoInstance ==
    \A c \in CIRs :
        IsFallbackPool(cir[c]) /\ cir[c].state = "available" /\ cir[c].spec # "in use"
        => cir[c].id = FallbackResource

-----------------------------------------------------------------------------
(* The inductive invariant behind AssignedInstanceReady, for providers     *)
(* that never reuse an id.                                                 *)

Serving == { "available", "in use", "maintenance" }

\* What the provider has for object o, by the state of o.
Sound(o) ==
    /\ o.state = "none" => o.id = NoInstance
    /\ o.state \in Serving /\ o.id \in Instances => inst[o.id] = "ready"
    /\ ~IsFallbackPool(o) /\ o.state \notin {"none", "provisioning"} => o.id \in Instances
    /\ IsFallbackPool(o) /\ o.state = "cleaning wait" => o.id = FallbackResource

ObjectsSound == \A c \in CIRs : Sound(cir[c])

\* The informer's copy is the object as long as nothing was written.
InformerExact == \A c \in CIRs : Holds(Informer, c) => cache[c] = cir[c]

\* A copy from which the reconciler would clean or release is one status behind
\* at most, and no status that can be given to a client follows within one.
CacheOneBehind ==
    \A c \in CIRs :
        /\ cache[c].state = "cleaning" => cir[c].state \in {"cleaning", "cleaning wait", "none"}
        /\ cache[c].state = "delete" => cir[c].state \in {"delete", "none"}

\* The status of object `to' may be written to object `from'.
Follows(from, to) ==
    /\ to.pool = from.pool
    /\ from.state # "delete"
    /\ to.state # "none"
    /\ from.state = "cleaning" => to.state = "cleaning wait"

\* A write that will be accepted was decided on the object as it is.
PendingWriteSound ==
    job # NoJob /\ Holds(Reconciler, job.c) =>
        /\ Holds(Informer, job.c)
        /\ job.op = "status" => /\ Follows(cir[job.c], job.obj)
                                /\ Sound(job.obj)

\* Some copy of CIResource c names instance i.
Names(c, i) ==
    \/ cir[c].id = i
    \/ cache[c].id = i
    \/ job # NoJob /\ job.c = c /\ job.obj.id = i

OneOwner ==
    \A c, d \in CIRs : \A i \in Instances : Names(c, i) /\ Names(d, i) => c = d

IInv ==
    /\ TypeOK
    /\ ObjectsSound
    /\ InformerExact
    /\ CacheOneBehind
    /\ PendingWriteSound
    /\ OneOwner

-----------------------------------------------------------------------------
(* Action property.                                                        *)

(* No instance is forgotten once a CIResource names it: the object names   *)
(* another one, or goes away with its finalizer, only when the provider no *)
(* longer has the instance.                                                *)
InstanceReleasedBeforeUnlink ==
    [][\A c \in CIRs :
         cir[c].id \in Instances /\ cir'[c].id # cir[c].id => ~Alive(cir[c].id)]_vars

-----------------------------------------------------------------------------
(* Liveness, under FairSpec.                                               *)

(* A lease ends: whoever acquired a provisioned CIResource, and whether or *)
(* not it is ever released, it is taken back.                              *)
LeaseEnds ==
    \A c \in CIRs :
        (cir[c].spec = "in use" /\ cir[c].addr) ~> (cir[c].spec # "in use")

(* Every granted CIResource reaches the state in which it can be released, *)
(* unless it is deleted first.                                             *)
GrantTakesEffect ==
    \A c \in CIRs :
        (cir[c].state = "available" /\ cir[c].spec = "in use")
            ~> (cir[c].state \in {"in use", "delete"} \/ ~cir[c].live)

(* A deleted CIResource whose instance was provisioned, or that never had  *)
(* one, goes away, although Release may be called again on an instance     *)
(* that is already gone.                                                   *)
DeletionCompletes ==
    \A c \in CIRs :
        (cir[c].del /\ (cir[c].addr \/ cir[c].state = "available")) ~> ~cir[c].live
=============================================================================
