------------------------- MODULE CIResourceLifecycle -------------------------
(***************************************************************************)
(* What the CIResource reconciler promises to everything else that works   *)
(* on CIResources: the life of an object at the API server, one atomic     *)
(* step per transition of the state machine, with no reconciler, provider  *)
(* or failure.  ResourceId is left at NoInstance.  CIResourceController    *)
(* implements it; the API and the pool reconciler are modelled on top.     *)
(***************************************************************************)
EXTENDS CIResourceStore

CONSTANT AdminEdits   \* "never", "idle" (only what no client has acquired) or "any"

ASSUME LifecycleAssumption == AdminEdits \in {"never", "idle", "any"}

-----------------------------------------------------------------------------
(* The transitions of the state machine.                                   *)

\* Object c becomes obj.
Become(c, obj) == Store(c, obj, {}) /\ UNCHANGED cache

Move(c, from, to) ==
    /\ cir[c].live
    /\ cir[c].state = from
    /\ Become(c, [cir[c] EXCEPT !.state = to])

AddFinalizer(c) ==
    /\ cir[c].live
    /\ cir[c].state = "none" /\ ~cir[c].del /\ ~cir[c].fin
    /\ Become(c, [cir[c] EXCEPT !.fin = TRUE])

Begin(c) ==
    /\ cir[c].del \/ cir[c].fin
    /\ Move(c, "none", "provisioning")

\* A fallback CIResource is provisioned only on behalf of a client.
Provision(c) ==
    \/ /\ ~IsFallbackPool(cir[c]) \/ cir[c].spec = "in use"
       /\ Move(c, "provisioning", "provisioning wait")
    \/ /\ IsFallbackPool(cir[c]) /\ cir[c].spec # "in use"
       /\ cir[c].state = "provisioning"
       /\ Become(c, [cir[c] EXCEPT !.state = "available"])

FinishProvisioning(c) ==
    /\ cir[c].state = "provisioning wait"
    /\ Become(c, [cir[c] EXCEPT !.state = "available", !.addr = TRUE])

StartUse(c) ==
    /\ ~cir[c].del /\ cir[c].spec = "in use"
    /\ Move(c, "available", "in use")

ProvisionInUse(c) ==
    /\ IsFallbackPool(cir[c]) /\ ~cir[c].addr /\ cir[c].spec = "in use"
    /\ Move(c, "in use", "provisioning")

\* The lease lapsed.
TakeBack(c) ==
    /\ cir[c].state = "in use" /\ cir[c].spec = "in use"
    /\ ~IsFallbackPool(cir[c]) \/ cir[c].addr
    /\ Become(c, [cir[c] EXCEPT !.spec = "available"])

StartCleaning(c) ==
    /\ cir[c].spec = "available"
    /\ Move(c, "in use", "cleaning")

\* What a fallback CIResource was provisioned is released here.
WaitCleaning(c) ==
    /\ cir[c].state = "cleaning"
    /\ Become(c, IF IsFallbackPool(cir[c])
                 THEN [cir[c] EXCEPT !.state = "cleaning wait", !.addr = FALSE]
                 ELSE [cir[c] EXCEPT !.state = "cleaning wait"])

FinishCleaning(c) == Move(c, "cleaning wait", "available")

StartMaintenance(c) ==
    /\ ~cir[c].del /\ cir[c].spec = "maintenance"
    /\ Move(c, "available", "maintenance")

EndMaintenance(c) ==
    /\ ~cir[c].del /\ cir[c].spec = "available"
    /\ Move(c, "maintenance", "available")

StartDeletion(c) ==
    /\ cir[c].del
    /\ Move(c, "available", "delete") \/ Move(c, "maintenance", "delete")

Remove(c) ==
    /\ cir[c].state = "delete"
    /\ Become(c, Absent)

LifecycleStep(c) ==
    \/ AddFinalizer(c)     \/ Begin(c)
    \/ Provision(c)        \/ FinishProvisioning(c)
    \/ StartUse(c)         \/ ProvisionInUse(c)      \/ TakeBack(c)
    \/ StartCleaning(c)    \/ WaitCleaning(c)        \/ FinishCleaning(c)
    \/ StartMaintenance(c) \/ EndMaintenance(c)
    \/ StartDeletion(c)    \/ Remove(c)

-----------------------------------------------------------------------------
(* The other writers of CIResource objects, as the atomic changes that the *)
(* resourceVersion makes of their updates.                                 *)

\* The pool reconciler creates an object.
Create(c, pool) ==
    /\ ~cir[c].live
    /\ Become(c, Created(pool))

\* POST /ofcir: the candidate test and the Update.
ClientAcquire(c) ==
    /\ cir[c].live
    /\ cir[c].state = "available"
    /\ cir[c].spec \notin {"in use", "maintenance"}
    /\ Become(c, [cir[c] EXCEPT !.spec = "in use"])

\* DELETE /ofcir/<name>, whoever sends it.
ClientRelease(c) ==
    /\ cir[c].live
    /\ cir[c].state = "in use"
    /\ cir[c].spec # "available"
    /\ Become(c, [cir[c] EXCEPT !.spec = "available"])

\* An administrator takes an object out of service and back.
AdminMaintenance(c) ==
    /\ cir[c].live
    /\ cir[c].spec # "maintenance"
    /\ AdminEdits = "any" \/ (AdminEdits = "idle" /\ cir[c].spec # "in use")
    /\ Become(c, [cir[c] EXCEPT !.spec = "maintenance"])

AdminResume(c) ==
    /\ cir[c].live
    /\ cir[c].spec = "maintenance"
    /\ Become(c, [cir[c] EXCEPT !.spec = "available"])

\* The pool reconciler labels an object.  The CIResource reconciler does not
\* read the label, but the object has a new version.
Evict(c) ==
    /\ cir[c].live
    /\ cir[c].state \in {"available", "maintenance", "error"}
    /\ ~cir[c].evict
    /\ Become(c, [cir[c] EXCEPT !.evict = TRUE])

\* The DeleteAllOf that follows, or a kubectl delete, at any time.
Delete(c) ==
    /\ cir[c].live /\ ~cir[c].del
    /\ Become(c, Deleted(c))

OtherWriters(c) ==
    \/ \E p \in Pools : Create(c, p)
    \/ Evict(c)            \/ Delete(c)
    \/ ClientAcquire(c)    \/ ClientRelease(c)
    \/ AdminMaintenance(c) \/ AdminResume(c)

LifecycleNext == \E c \in CIRs : LifecycleStep(c) \/ OtherWriters(c) \/ Sync(c)

LifecycleSpec == StoreInit /\ [][LifecycleNext]_storeVars

-----------------------------------------------------------------------------
(* Refinement.                                                             *)

PhaseOf(o) ==
    CASE ~o.live -> "absent"
      [] o.live /\ o.state \in {"none", "provisioning", "provisioning wait"} -> "new"
      [] o.live /\ o.state \in {"cleaning", "cleaning wait"} -> "cleaning"
      [] OTHER -> o.state

PhaseObject(o) ==
    [ phase |-> PhaseOf(o), spec |-> IF o.spec \in {"none", "available"} THEN "free" ELSE o.spec,
      pool |-> o.pool, evict |-> o.evict, del |-> o.del ]

Phases == INSTANCE CIResourcePhases WITH
    obj <- [c \in CIRs |-> PhaseObject(cir[c])],
    latest <- {},
    Readers <- {}

(* What the API and the pool reconciler are built on is what the state     *)
(* machine does.                                                           *)
ImplementsPhases == Phases!PhaseSpec
=============================================================================
