--------------------------- MODULE CIResourcePhases ---------------------------
(***************************************************************************)
(* The life of CIResources as far as the pool reconciler and the REST API  *)
(* can tell: Status.State with the states that neither of them asks for    *)
(* put together, Spec.State with "" and "available" put together, and no   *)
(* resource id.  CIResourceLifecycle implements it; CIPoolController and   *)
(* OfcirAPI are built on it.                                               *)
(*                                                                         *)
(* As in CIResourceStore, `latest' says which readers hold the latest      *)
(* version of an object: those whose Update of it will be accepted.        *)
(***************************************************************************)
EXTENDS Naturals, FiniteSets

CONSTANTS
    CIRs,           \* names of the CIResource objects
    Pools,          \* names of the CIPools
    FallbackPools,  \* those with Priority -1
    NoPool,         \* the PoolRef of no object
    Readers         \* the holders of copies of objects

ASSUME PhaseAssumption ==
    /\ FallbackPools \subseteq Pools
    /\ NoPool \notin Pools

VARIABLES
    obj,     \* the objects at the API server
    latest   \* <<r, c>>: reader r has the latest version of c

phaseVars == <<obj, latest>>

\* new: "", provisioning and provisioning wait; cleaning: also cleaning wait.
Phases == { "absent", "new", "available", "in use", "cleaning", "maintenance", "delete" }

\* free: "" and available.
Specs == { "free", "in use", "maintenance" }

PhaseObjects ==
    [ phase : Phases, spec : Specs, pool : Pools \union {NoPool},
      evict : BOOLEAN, del : BOOLEAN ]

Gone ==
    [phase |-> "absent", spec |-> "free", pool |-> NoPool, evict |-> FALSE, del |-> FALSE]

PhaseTypeOK ==
    /\ obj \in [CIRs -> PhaseObjects]
    /\ latest \in SUBSET (Readers \X CIRs)

PhaseInit ==
    /\ obj = [c \in CIRs |-> Gone]
    /\ latest = Readers \X CIRs

-----------------------------------------------------------------------------

HasLatest(r, c) == <<r, c>> \in latest

Set(c, o) ==
    /\ obj' = [obj EXCEPT ![c] = o]
    /\ latest' = { p \in latest : p[2] # c }

Shift(c, from, to) ==
    /\ obj[c].phase = from
    /\ Set(c, [obj[c] EXCEPT !.phase = to])

(* The CIResource reconciler.                                              *)
FinishProvisioning(c) == Shift(c, "new", "available")

StartUse(c) ==
    /\ ~obj[c].del /\ obj[c].spec = "in use"
    /\ Shift(c, "available", "in use")

\* A fallback CIResource gets its instance after it has been acquired.
ProvisionInUse(c) ==
    /\ obj[c].pool \in FallbackPools /\ obj[c].spec = "in use"
    /\ Shift(c, "in use", "new")

TakeBack(c) ==
    /\ obj[c].phase = "in use" /\ obj[c].spec = "in use"
    /\ Set(c, [obj[c] EXCEPT !.spec = "free"])

StartCleaning(c) == obj[c].spec = "free" /\ Shift(c, "in use", "cleaning")

FinishCleaning(c) == Shift(c, "cleaning", "available")

StartMaintenance(c) ==
    /\ ~obj[c].del /\ obj[c].spec = "maintenance"
    /\ Shift(c, "available", "maintenance")

EndMaintenance(c) ==
    /\ ~obj[c].del /\ obj[c].spec = "free"
    /\ Shift(c, "maintenance", "available")

StartDeletion(c) ==
    /\ obj[c].del
    /\ Shift(c, "available", "delete") \/ Shift(c, "maintenance", "delete")

Remove(c) == obj[c].phase = "delete" /\ Set(c, Gone)

PhaseStep(c) ==
    \/ FinishProvisioning(c) \/ StartUse(c)      \/ ProvisionInUse(c)
    \/ TakeBack(c)           \/ StartCleaning(c) \/ FinishCleaning(c)
    \/ StartMaintenance(c)   \/ EndMaintenance(c)
    \/ StartDeletion(c)      \/ Remove(c)

(* The others.                                                             *)
Create(c, pool) ==
    /\ obj[c].phase = "absent"
    /\ Set(c, [Gone EXCEPT !.phase = "new", !.pool = pool])

Acquire(c) ==
    /\ obj[c].phase = "available" /\ obj[c].spec = "free"
    /\ Set(c, [obj[c] EXCEPT !.spec = "in use"])

Release(c) ==
    /\ obj[c].phase = "in use" /\ obj[c].spec # "free"
    /\ Set(c, [obj[c] EXCEPT !.spec = "free"])

RequestMaintenance(c) ==
    /\ obj[c].phase # "absent" /\ obj[c].spec # "maintenance"
    /\ Set(c, [obj[c] EXCEPT !.spec = "maintenance"])

RequestResume(c) ==
    /\ obj[c].spec = "maintenance"
    /\ Set(c, [obj[c] EXCEPT !.spec = "free"])

Evictable(c) == obj[c].phase \in {"available", "maintenance"} /\ ~obj[c].evict

Evict(c) ==
    /\ Evictable(c)
    /\ Set(c, [obj[c] EXCEPT !.evict = TRUE])

\* A new object may not have its finalizer yet; one that has been acquired has.
Delete(c) ==
    /\ obj[c].phase # "absent" /\ ~obj[c].del
    /\ \/ Set(c, [obj[c] EXCEPT !.del = TRUE])
       \/ obj[c].phase = "new" /\ obj[c].spec # "in use" /\ Set(c, Gone)

PhaseNext ==
    \E c \in CIRs :
        \/ PhaseStep(c)
        \/ \E p \in Pools : Create(c, p)
        \/ Acquire(c) \/ Release(c)
        \/ RequestMaintenance(c) \/ RequestResume(c)
        \/ Evict(c) \/ Delete(c)

PhaseSpec == PhaseInit /\ [][PhaseNext]_phaseVars
=============================================================================
