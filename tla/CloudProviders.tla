---------------------------- MODULE CloudProviders ----------------------------
(***************************************************************************)
(* The providers that order a machine from a cloud for every CIResource:   *)
(* equinix.go, aws.go, and ibmcloud.go when no host of its own is free.    *)
(* The cloud knows a machine by its id and the pool it is tagged with;     *)
(* that a CIResource names it is known to the operator only.               *)
(***************************************************************************)
EXTENDS ProviderCalls

CONSTANTS
    Pools,
    PoolOf,   \* the pool of every CIResource
    TagOf,    \* the pool a machine is tagged with: ids are made up by the cloud
    Size      \* Spec.Size of every pool

ASSUME CloudAssumption ==
    /\ IsFiniteSet(Machines)
    /\ PoolOf \in [CIRs -> Pools]
    /\ TagOf \in [Machines -> Pools]
    /\ Size \in [Pools -> Nat]

Kinds == { "equinix", "aws", "ibmcloud" }

\* lost: a call is carried out, but the operator dies or cannot save the result;
\* lost answer: an order that seems to have failed has not; slow: Equinix is slow
\* to begin a reinstallation; failed: an installation fails.
Mishaps == { "lost", "lost answer", "lost release", "slow", "failed" }

VARIABLES
    kind,     \* which of the three
    machine   \* the state of every machine at the cloud

vars == <<kind, machine, callVars>>

\* none: there is no machine of that id; to install: a reinstallation was
\* accepted, and until it begins the machine is still reported as active;
\* terminated: gone, but still described by AWS.
MachineStates ==
    { "none", "starting", "active", "failed", "to install", "installing", "terminated" }

TypeOK ==
    /\ kind \in Kinds
    /\ machine \in [Machines -> MachineStates]
    /\ CallsTypeOK
    /\ mishaps \in SUBSET Mishaps

Init ==
    /\ kind \in Kinds
    /\ machine = [m \in Machines |-> "none"]
    /\ CallsInit
    /\ dirty = {}

-----------------------------------------------------------------------------

Becomes(m, state) == machine' = [machine EXCEPT ![m] = state]

Exists(m) == machine[m] # "none"

\* Ids that nobody has seen, or remembers; which one the cloud comes up with does
\* not matter.
Fresh(p) == { m \in Machines : TagOf[m] = p /\ machine[m] \in {"none", "terminated"} /\ ~Named(m) }
NewIds(p, n) ==
    IF Cardinality(Fresh(p)) < n THEN {}
    ELSE { CHOOSE ms \in SUBSET Fresh(p) : Cardinality(ms) = n }

Make(ms) ==
    /\ machine' = [m \in Machines |-> IF m \in ms THEN "starting" ELSE machine[m]]
    /\ dirty' = dirty \ ms

\* When the request fails, nothing is recorded.
OrderOnce(c) ==
    \E ms \in NewIds(PoolOf[c], 1) :
        /\ Make(ms)
        /\ \/ AllWell /\ \A m \in ms : Name(c, "acquiring", m)
           \/ Happens("lost") /\ UNCHANGED use

\* Requests are made at one place (metro; region, type and subnet) after the
\* other, until one returns a machine.
Order(c) ==
    \/ OrderOnce(c)
    \/ /\ Happens("lost answer")
       /\ \E ms \in NewIds(PoolOf[c], 2) :
             Make(ms) /\ \E m \in ms : Name(c, "acquiring", m)

(* Equinix.                                                                *)

\* Bug: only devices that are active are counted.
Devices_Active(p) == { m \in Machines : TagOf[m] = p /\ machine[m] = "active" }

\* Bug: the devices of all pools are counted.
Devices_AnyPool(p) == { m \in Machines : Exists(m) }

\* Whatever their state.
Devices(p) == { m \in Machines : TagOf[m] = p /\ Exists(m) }

AcquireDevice(c) ==
    /\ kind = "equinix" /\ MayAcquire(c)
    /\ Cardinality(Devices(PoolOf[c])) < Size[PoolOf[c]]
    /\ Order(c)
    /\ UNCHANGED kind

\* AcquireCompleted, which is CleanCompleted too, looks at the state only.
DeviceCompleted(c) ==
    /\ kind = "equinix" /\ MayComplete(c)
    /\ machine[use[c].id] \in {"active", "to install"}
    /\ Name(c, "available", use[c].id)
    /\ UNCHANGED <<kind, machine, dirty, mishaps>>

CleanDevice(c) ==
    /\ kind = "equinix" /\ MayClean(c)
    /\ \/ Becomes(use[c].id, "installing") /\ Recorded(c, "cleaning")
       \/ /\ Happens("slow")
          /\ Becomes(use[c].id, "to install")
          /\ Name(c, "cleaning", use[c].id)
    /\ UNCHANGED <<kind, dirty>>

\* Bug: an error is taken for the end of the device.
ReleaseDevice_AnyError(c) ==
    /\ kind = "equinix" /\ MayRelease(c)
    /\ Forget(c)
    /\ UNCHANGED <<kind, machine, dirty, mishaps>>

\* An error when there is no such device.
ReleaseDevice(c) ==
    /\ kind = "equinix" /\ MayRelease(c)
    /\ Exists(use[c].id)
    /\ Becomes(use[c].id, "none")
    /\ Released(c)
    /\ UNCHANGED <<kind, dirty>>

(* AWS.                                                                    *)

\* GetTotalAmountOfPoolInstancesInRegion, over the regions: running ones only.
Running(p) == { m \in Machines : TagOf[m] = p /\ machine[m] = "active" }

AcquireInstance(c) ==
    /\ kind = "aws" /\ MayAcquire(c)
    /\ Cardinality(Running(PoolOf[c])) < Size[PoolOf[c]]
    /\ Order(c)
    /\ UNCHANGED kind

\* FindInstanceRegion: some region describes it.
Described(m) == Exists(m)

\* IsInstanceInRegionActive.
Active(m) == machine[m] = "active"

InstanceCompleted(c) ==
    /\ kind = "aws" /\ use[c].step = "acquiring"
    /\ Described(use[c].id) /\ Active(use[c].id)
    /\ Name(c, "available", use[c].id)
    /\ UNCHANGED <<kind, machine, dirty, mishaps>>

\* Clean and CleanCompleted do nothing.
CleanInstance(c) ==
    /\ kind = "aws"
    /\ \/ MayClean(c) /\ Name(c, "cleaning", use[c].id)
       \/ use[c].step = "cleaning" /\ Name(c, "available", use[c].id)
    /\ UNCHANGED <<kind, machine, dirty, mishaps>>

\* Bug: the CIResource still names the instance.
ReleaseInstance_Remembers(c) ==
    /\ kind = "aws" /\ MayRelease(c)
    /\ Described(use[c].id)
    /\ Becomes(use[c].id, "terminated")
    /\ Name(c, "none", use[c].id)
    /\ UNCHANGED <<kind, dirty, mishaps>>

\* A terminated instance may be terminated again, as long as it is described.
ReleaseInstance(c) ==
    /\ kind = "aws" /\ MayRelease(c)
    /\ Described(use[c].id)
    /\ Becomes(use[c].id, "terminated")
    /\ Released(c)
    /\ UNCHANGED <<kind, dirty>>

(* IBM Cloud, hourly.                                                      *)

\* serverCreate: one order, however many servers there are.
AcquireServer(c) ==
    /\ kind = "ibmcloud" /\ MayAcquire(c)
    /\ OrderOnce(c)
    /\ UNCHANGED kind

\* Bug: the transaction is not looked at.
ServerCompleted_Status(c) ==
    /\ kind = "ibmcloud" /\ MayComplete(c)
    /\ machine[use[c].id] \in {"active", "to install"}
    /\ Name(c, "available", use[c].id)
    /\ UNCHANGED <<kind, machine, dirty, mishaps>>

\* AcquireCompleted, which is CleanCompleted too, looks at the transaction.
ServerCompleted(c) ==
    /\ kind = "ibmcloud" /\ MayComplete(c)
    /\ Active(use[c].id)
    /\ Name(c, "available", use[c].id)
    /\ UNCHANGED <<kind, machine, dirty, mishaps>>

\* Bug: the reload of the operating system is left out.
CleanServer_NoReload(c) ==
    /\ kind = "ibmcloud" /\ MayClean(c)
    /\ Recorded(c, "cleaning")
    /\ UNCHANGED <<kind, machine, dirty>>

CleanServer(c) ==
    /\ kind = "ibmcloud" /\ MayClean(c)
    /\ Becomes(use[c].id, "to install")
    /\ Recorded(c, "cleaning")
    /\ UNCHANGED <<kind, dirty>>

\* CancelItem; an error when there is no such server.
ReleaseServer(c) ==
    /\ kind = "ibmcloud" /\ MayRelease(c)
    /\ Exists(use[c].id)
    /\ Becomes(use[c].id, "none")
    /\ Released(c)
    /\ UNCHANGED <<kind, dirty>>

(* The cloud and the clients.                                              *)

BeginInstall(m) ==
    /\ machine[m] = "to install"
    /\ Becomes(m, "installing")
    /\ UNCHANGED <<kind, callVars>>

FinishInstall(m) ==
    /\ machine[m] \in {"starting", "installing"}
    /\ Becomes(m, "active")
    /\ dirty' = dirty \ {m}
    /\ UNCHANGED <<kind, use, mishaps>>

\* The installation ends in state failed, the first one or a reinstallation.
FailInstall(m) ==
    /\ machine[m] \in {"starting", "installing"}
    /\ Happens("failed")
    /\ Becomes(m, "failed")
    /\ UNCHANGED <<kind, use, dirty>>

Purge(m) ==
    /\ machine[m] = "terminated"
    /\ Becomes(m, "none")
    /\ UNCHANGED <<kind, callVars>>

UseMachine(c) == ClientUse(c) /\ UNCHANGED <<kind, machine>>

Acquire(c) == AcquireDevice(c) \/ AcquireInstance(c) \/ AcquireServer(c)
Complete(c) ==
    DeviceCompleted(c) \/ InstanceCompleted(c) \/ ServerCompleted(c) \/ CleanInstance(c)

Next ==
    \/ \E c \in CIRs :
          \/ AcquireDevice(c)   \/ DeviceCompleted(c)   \/ CleanDevice(c)   \/ ReleaseDevice(c)
          \/ AcquireInstance(c) \/ InstanceCompleted(c) \/ CleanInstance(c) \/ ReleaseInstance(c)
          \/ AcquireServer(c)   \/ ServerCompleted(c)   \/ CleanServer(c)   \/ ReleaseServer(c)
          \/ UseMachine(c)
    \/ \E m \in Machines : BeginInstall(m) \/ FinishInstall(m) \/ FailInstall(m) \/ Purge(m)

Spec == Init /\ [][Next]_vars

(* The reconciler polls until a call is complete; installations end.       *)
Fairness ==
    /\ \A c \in CIRs : WF_vars(Acquire(c)) /\ WF_vars(Complete(c))
    /\ \A m \in Machines :
          WF_vars(BeginInstall(m)) /\ WF_vars(FinishInstall(m)) /\ WF_vars(Purge(m))

FairSpec == Spec /\ Fairness

-----------------------------------------------------------------------------
(* Properties.                                                             *)

\* Machines that run, and that nobody will use or release.
Lost == { m \in Machines : machine[m] \notin {"none", "terminated"} /\ ~Named(m) }

(* A machine is forgotten only when a result or an answer was lost, one at *)
(* a time: releases that fail or are repeated, machines that fail, and     *)
(* orders tried at several places leave none behind.                       *)
OnlyLossesLeak ==
    Cardinality(Lost) <= Cardinality(mishaps \intersect {"lost", "lost answer"})

(* Equinix never has more devices for a pool than its size, whatever was   *)
(* lost before, if an order that seems to have failed did fail.            *)
PoolCap ==
    kind = "equinix" /\ "lost answer" \notin mishaps =>
        \A p \in Pools : Cardinality(Devices(p)) <= Size[p]

AskedTooEarly == kind = "equinix" /\ "slow" \in mishaps
NeverCleaned(c) == kind = "aws" /\ c \notin Fallback

(* What a client may be given is up, and carries no data of an earlier     *)
(* client: AWS gets there only by ordering a new instance for every client *)
(* (fallback pools), the others by a reinstallation, which at Equinix must *)
(* have begun before it is asked for.                                      *)
HandedOutClean ==
    \A c \in CIRs : use[c].step = "available" =>
        /\ ~AskedTooEarly => machine[use[c].id] = "active"
        /\ ~AskedTooEarly /\ ~NeverCleaned(c) => use[c].id \notin dirty

ContractState(m) ==
    CASE machine[m] \in {"none", "terminated"} -> "absent"
      [] machine[m] = "starting" -> "building"
      [] machine[m] = "active" -> "ready"
      [] machine[m] \in {"to install", "installing"} -> "cleaning"
      [] OTHER -> "failed"

Contract == INSTANCE Provider WITH
    Instances <- Machines, ReusesIds <- FALSE, TypedNotFound <- FALSE,
    InstancesMayFail <- TRUE,
    inst <- [m \in Machines |-> ContractState(m)],
    dirty <- dirty

\* Equinix reports the device still active, and takes that for a reinstallation
\* that has ended.
NotBegun(m) == kind = "equinix" /\ machine[m] = "to install"

\* What the reconciler records for c, it records because of an answer that means
\* what the contract says.
Answered(c) ==
    LET i == use[c].id
        Goes(from, to) == use[c].step \in from /\ use'[c].step \in to
    IN
    /\ Goes({"none"}, {"acquiring"}) =>
          use'[c].id \in Contract!Acquirable({}) /\ Contract!Acquire(use'[c].id)
    /\ Goes({"acquiring"}, {"available"}) => Contract!AcquireCompleted(i)
    /\ Goes({"available"}, {"in use"}) => Contract!Use(i)
    /\ Goes({"in use"}, {"cleaning"}) => NeverCleaned(c) \/ Contract!Clean(i)
    /\ Goes({"cleaning"}, {"available"}) => NotBegun(i) \/ Contract!CleanCompleted(i)
    /\ Goes(Steps \ {"none"}, {"none"}) \/ Goes(Steps \ {"none", "releasing"}, {"releasing"})
          => Contract!Release(i)

(* The clouds keep the contract that the reconciler is modelled with: what *)
(* happens to the machines are its steps, and an answer of a provider is   *)
(* given only with the step, or in the state, that the contract ties it    *)
(* to.  Two answers do not keep it, and are excepted: Clean of AWS removes *)
(* nothing (NeverCleaned), and CleanCompleted of Equinix returns TRUE for  *)
(* a reinstallation that has not begun (NotBegun).                         *)
KeepsContract ==
    [][ "lost answer" \notin mishaps' =>
            /\ [Contract!ProviderNext]_(Contract!providerVars)
            /\ \A c \in CIRs : Answered(c) ]_vars

(* Every CIResource is provided for: no cap, order, device or cleaning     *)
(* keeps it waiting for ever, unless its pool has lost a machine or one    *)
(* has failed.                                                             *)
GetsReady ==
    \A c \in CIRs :
        use[c].step \in {"none", "acquiring", "cleaning"} ~>
            \/ use[c].step = "available"
            \/ \E m \in Machines :
                  TagOf[m] = PoolOf[c] /\ (m \in Lost \/ machine[m] = "failed")
=============================================================================
