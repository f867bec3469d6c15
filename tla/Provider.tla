------------------------------ MODULE Provider ------------------------------
(***************************************************************************)
(* What the CIResource reconciler relies on when it calls a provider: the  *)
(* contract of the interface providers.Provider, for providers that create *)
(* an instance per request (libvirt, Equinix, AWS, IBM Cloud VPC) and for  *)
(* those that hand out hosts of a fixed set (Ironic, IBM Cloud manual).    *)
(***************************************************************************)
EXTENDS Naturals

CONSTANTS
    Instances,        \* provider instance ids
    ReusesIds,        \* a released id may be handed out again: a fixed set of hosts
    TypedNotFound,    \* Release of a missing instance is a ResourceNotFoundError
    InstancesMayFail  \* a construction or a cleaning may fail for good

ASSUME ProviderAssumption ==
    /\ ReusesIds \in BOOLEAN
    /\ TypedNotFound \in BOOLEAN
    /\ InstancesMayFail \in BOOLEAN

VARIABLES
    inst,   \* the state of every instance at the provider
    dirty   \* instances used by a client since they were last built or cleaned

providerVars == <<inst, dirty>>

InstanceStates == { "absent", "building", "ready", "failed", "cleaning" }

ProviderTypeOK ==
    /\ inst \in [Instances -> InstanceStates]
    /\ dirty \in SUBSET Instances

ProviderInit ==
    /\ inst = [i \in Instances |-> "absent"]
    /\ dirty = {}

-----------------------------------------------------------------------------

Alive(i) == i \in Instances /\ inst[i] # "absent"

\* Acquire returns at once with the id of an instance under construction.  A
\* created instance has an id nobody has seen; a host has the id it always had.
Acquirable(seen) ==
    { i \in Instances : ~Alive(i) /\ (ReusesIds \/ i \notin seen) }

Acquire(i) ==
    /\ inst' = [inst EXCEPT ![i] = "building"]
    /\ dirty' = dirty \ {i}

\* AcquireCompleted returns TRUE and the address; otherwise it returns FALSE, or
\* an error when the instance is absent or failed.
AcquireCompleted(i) == i \in Instances /\ inst[i] = "ready"

\* Clean starts removing the data of the instance; an error when there is none.
Clean(i) ==
    /\ Alive(i)
    /\ inst' = [inst EXCEPT ![i] = "cleaning"]
    /\ UNCHANGED dirty

CleanCompleted(i) == i \in Instances /\ inst[i] = "ready"

\* Bug: the error for a missing instance is not told from the others.
ReleaseAccepted_NotFoundIsError(i) == Alive(i)

\* Release returns nil or a ResourceNotFoundError, which the reconciler takes for
\* success.
ReleaseAccepted(i) == Alive(i) \/ ReusesIds \/ TypedNotFound

Release(i) ==
    /\ inst' = [j \in Instances |-> IF j = i THEN "absent" ELSE inst[j]]
    /\ UNCHANGED dirty

\* The provider's own progress.
FinishBuild(i) ==
    /\ inst[i] = "building"
    /\ inst' = [inst EXCEPT ![i] = "ready"]
    /\ UNCHANGED dirty

FinishClean(i) ==
    /\ inst[i] = "cleaning"
    /\ inst' = [inst EXCEPT ![i] = "ready"]
    /\ dirty' = dirty \ {i}

\* An instance does not come up, or does not come up again after a cleaning.
Fail(i) ==
    /\ InstancesMayFail
    /\ inst[i] \in {"building", "cleaning"}
    /\ inst' = [inst EXCEPT ![i] = "failed"]
    /\ UNCHANGED dirty

\* A client works on the instance.
Use(i) ==
    /\ Alive(i)
    /\ dirty' = dirty \union {i}
    /\ UNCHANGED inst

(* The contract as a specification of its own, whoever makes the calls.    *)
ProviderNext ==
    \E i \in Instances :
        \/ i \in Acquirable({}) /\ Acquire(i)
        \/ Clean(i)
        \/ ReleaseAccepted(i) /\ Release(i)
        \/ FinishBuild(i) \/ FinishClean(i) \/ Fail(i)
        \/ Use(i)

ProviderSpec == ProviderInit /\ [][ProviderNext]_providerVars
=============================================================================
