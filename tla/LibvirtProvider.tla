---------------------------- MODULE LibvirtProvider ----------------------------
(***************************************************************************)
(* The provider that makes a virtual machine per CIResource, libvirt.go.   *)
(* A machine is a volume and a domain, which are made and removed one      *)
(* request after the other.  There is no record of how far a call got: an  *)
(* error, or the death of the operator, in the middle leaves what there is,*)
(* and the next call for the CIResource starts from that.                  *)
(***************************************************************************)
EXTENDS ProviderCalls, Sequences

\* fault: a request fails, or the operator dies before it; ignored: a request
\* fails whose error nobody looks at; lost: a call ends well, but the operator
\* dies or cannot save the result.
Mishaps == { "fault", "ignored", "lost", "lost release" }

VARIABLES
    domain,  \* the state of every domain
    volume,  \* the machines that have a volume
    work     \* the call under way, with the requests still to be made

vars == <<domain, volume, work, callVars>>

DomainStates == { "none", "off", "booting", "up" }

Requests == { "stop", "undefine", "deleteVolume", "createVolume", "define", "start" }

Idle == [call |-> "none"]

Calls ==
    [ call : {"acquire", "clean", "release"}, c : CIRs, id : Machines,
      todo : UNION { [1..n -> Requests] : n \in 0..6 } ]

TypeOK ==
    /\ domain \in [Machines -> DomainStates]
    /\ volume \in SUBSET Machines
    /\ work \in {Idle} \union Calls
    /\ CallsTypeOK
    /\ mishaps \in SUBSET Mishaps

Init ==
    /\ domain = [m \in Machines |-> "none"]
    /\ volume = {}
    /\ work = Idle
    /\ CallsInit
    /\ dirty = {}

-----------------------------------------------------------------------------
(* The requests.                                                           *)

createVM == << "createVolume", "define", "start" >>

\* Bug: the volume stays.
destroyVM_KeepsVolume == << "stop", "undefine" >>

destroyVM == << "stop", "undefine", "deleteVolume" >>

Call(op, c, id, todo) == work' = [call |-> op, c |-> c, id |-> id, todo |-> todo]

Domain(m, state) ==
    /\ domain' = [domain EXCEPT ![m] = state]
    /\ UNCHANGED <<volume, dirty>>

CreateVolume(m) ==
    /\ m \notin volume
    /\ volume' = volume \union {m}
    /\ dirty' = dirty \ {m}
    /\ UNCHANGED domain

DeleteVolume(m) ==
    /\ volume' = volume \ {m}
    /\ UNCHANGED <<domain, dirty>>

Effect(request, m) ==
    CASE request = "stop" -> Domain(m, "off")
      [] request = "undefine" -> Domain(m, "none")
      [] request = "deleteVolume" -> DeleteVolume(m)
      [] request = "createVolume" -> CreateVolume(m)
      [] request = "define" -> Domain(m, "off")
      [] request = "start" -> Domain(m, "booting")

\* The next request of the call.
Request ==
    /\ work # Idle /\ work.todo # <<>>
    /\ Effect(Head(work.todo), work.id)
    /\ work' = [work EXCEPT !.todo = Tail(@)]
    /\ UNCHANGED <<use, mishaps>>

\* Bug: a volume that is there already will do.
Refused_VolumeExists ==
    /\ work # Idle /\ work.todo # <<>>
    /\ Head(work.todo) = "createVolume" /\ work.id \in volume
    /\ work' = [work EXCEPT !.todo = Tail(@)]
    /\ UNCHANGED <<domain, volume, use, dirty, mishaps>>

\* There is a volume of that name already: the call returns the error.
Refused ==
    /\ work # Idle /\ work.todo # <<>>
    /\ Head(work.todo) = "createVolume" /\ work.id \in volume
    /\ work' = Idle
    /\ UNCHANGED <<domain, volume, use, dirty, mishaps>>

Fault ==
    /\ work # Idle /\ work.todo # <<>>
    /\ Happens("fault")
    /\ work' = Idle
    /\ UNCHANGED <<domain, volume, use, dirty>>

\* When the volume is not found, for whatever reason, it is not deleted.
VolumeNotFound ==
    /\ work # Idle /\ work.todo # <<>> /\ Head(work.todo) = "deleteVolume"
    /\ Happens("ignored")
    /\ work' = [work EXCEPT !.todo = Tail(@)]
    /\ UNCHANGED <<domain, volume, use, dirty>>

-----------------------------------------------------------------------------
(* The calls.                                                              *)

\* Names are made up at random.
Unseen == { m \in Machines : domain[m] = "none" /\ m \notin volume /\ m \notin dirty /\ ~Named(m) }

Acquire(c) ==
    /\ work = Idle /\ MayAcquire(c)
    /\ \E m \in Unseen : Call("acquire", c, m, createVM)
    /\ UNCHANGED <<domain, volume, callVars>>

AcquireCompleted(c) ==
    /\ work = Idle /\ use[c].step = "acquiring"
    /\ domain[use[c].id] = "up"
    /\ Name(c, "available", use[c].id)
    /\ UNCHANGED <<domain, volume, work, dirty, mishaps>>

\* Bug: the machine is made before it is removed.
Clean_Swapped(c) ==
    /\ work = Idle
    /\ MayClean(c) \/ use[c].step = "cleaning"
    /\ domain[use[c].id] # "none"
    /\ Call("clean", c, use[c].id, createVM \o destroyVM)
    /\ Name(c, "cleaning", use[c].id)
    /\ UNCHANGED <<domain, volume, dirty, mishaps>>

\* An error when there is no domain, now or at an earlier attempt.
Clean(c) ==
    /\ work = Idle
    /\ MayClean(c) \/ use[c].step = "cleaning"
    /\ domain[use[c].id] # "none"
    /\ Call("clean", c, use[c].id, destroyVM \o createVM)
    /\ Name(c, "cleaning", use[c].id)
    /\ UNCHANGED <<domain, volume, dirty, mishaps>>

\* Bug: the CIResource no longer names a machine that is yet to be removed.
Release_ForgetsFirst(c) ==
    /\ work = Idle
    /\ MayRelease(c)
    /\ domain[use[c].id] # "none"
    /\ Call("release", c, use[c].id, destroyVM)
    /\ Forget(c)
    /\ UNCHANGED <<domain, volume, dirty, mishaps>>

\* Bug: a missing domain is an error like any other.
Release_NotFoundIsError(c) ==
    /\ work = Idle
    /\ MayRelease(c)
    /\ domain[use[c].id] # "none"
    /\ Call("release", c, use[c].id, destroyVM)
    /\ Name(c, "releasing", use[c].id)
    /\ UNCHANGED <<domain, volume, dirty, mishaps>>

\* ResourceNotFoundError when there is no domain: as good as released.
Release(c) ==
    /\ work = Idle
    /\ MayRelease(c)
    /\ \/ /\ domain[use[c].id] # "none"
          /\ Call("release", c, use[c].id, destroyVM)
          /\ Name(c, "releasing", use[c].id)
       \/ /\ domain[use[c].id] = "none"
          /\ Forget(c)
          /\ UNCHANGED work
    /\ UNCHANGED <<domain, volume, dirty, mishaps>>

\* Bug: the name is not returned.
Return_NoId ==
    /\ work # Idle /\ work.todo = <<>> /\ work.call = "acquire"
    /\ work' = Idle
    /\ AllWell /\ Name(work.c, "acquiring", NoMachine)
    /\ UNCHANGED <<domain, volume, dirty>>

\* The end of a call.  CleanCompleted is always true, so that what Clean returns
\* for is available.
Return ==
    /\ work # Idle /\ work.todo = <<>>
    /\ work' = Idle
    /\ CASE work.call = "acquire" ->
               \/ AllWell /\ Name(work.c, "acquiring", work.id)
               \/ Happens("lost") /\ UNCHANGED use
         [] work.call = "clean" -> Recorded(work.c, "available")
         [] work.call = "release" -> Released(work.c)
    /\ UNCHANGED <<domain, volume, dirty>>

(* The hypervisor and the clients.                                         *)

\* The machine gets a DHCP lease.
Boot(m) ==
    /\ domain[m] = "booting"
    /\ Domain(m, "up")
    /\ UNCHANGED <<work, use, mishaps>>

UseMachine(c) == ClientUse(c) /\ UNCHANGED <<domain, volume, work>>

\* A client may power off the machine.
PowerOff(c) ==
    /\ use[c].step = "in use"
    /\ domain[use[c].id] = "up"
    /\ Domain(use[c].id, "off")
    /\ UNCHANGED <<work, use, mishaps>>

Next ==
    \/ \E c \in CIRs :
          \/ Acquire(c) \/ AcquireCompleted(c) \/ Clean(c) \/ Release(c)
          \/ UseMachine(c) \/ PowerOff(c)
    \/ Request \/ Refused \/ Fault \/ VolumeNotFound \/ Return
    \/ \E m \in Machines : Boot(m)

Spec == Init /\ [][Next]_vars

\* The call that the reconciler makes for c, again and again.
Retry(c) ==
    \/ AcquireCompleted(c)
    \/ use[c].step = "cleaning" /\ Clean(c)
    \/ use[c].step = "releasing" /\ Release(c)

(* The one worker finishes what it has begun, and comes round to every     *)
(* CIResource; machines come up.                                           *)
Fairness ==
    /\ WF_vars(Request \/ Refused \/ Return)
    /\ \A c \in CIRs : SF_vars(Retry(c))
    /\ \A m \in Machines : WF_vars(Boot(m))

FairSpec == Spec /\ Fairness

-----------------------------------------------------------------------------
(* Properties.                                                             *)

(* What a client may be given exists and carries no data of an earlier     *)
(* client, whatever went wrong between the requests of a Clean, and        *)
(* however often it was repeated.                                          *)
HandedOutClean ==
    \A c \in CIRs : use[c].step = "available" =>
        /\ domain[use[c].id] # "none"
        /\ use[c].id \in volume \ dirty

LeftBehind ==
    { m \in Machines :
        /\ domain[m] # "none" \/ m \in volume
        /\ ~Named(m)
        /\ work = Idle \/ work.id # m }

(* A domain or a volume that no CIResource names is the work of a mishap:  *)
(* each leaves one behind at most, and nothing else does.                  *)
OnlyMishapsLeave == Cardinality(LeftBehind) <= Cardinality(mishaps)

ContractState(m) ==
    LET steps == { use[c].step : c \in { d \in CIRs : use[d].id = m } } IN
    CASE steps \subseteq {"acquiring"} /\ domain[m] \in {"off", "booting"} -> "building"
      [] steps \subseteq {"acquiring"} /\ domain[m] = "up" -> "ready"
      [] steps \intersect {"available", "in use"} # {} -> "ready"
      [] steps = {"releasing"} /\ domain[m] # "none" -> "ready"
      [] steps = {"cleaning"} -> "cleaning"
      [] OTHER -> "absent"

Contract == INSTANCE Provider WITH
    Instances <- Machines, ReusesIds <- FALSE, TypedNotFound <- TRUE,
    InstancesMayFail <- FALSE,
    inst <- [m \in Machines |-> ContractState(m)],
    dirty <- dirty \union { m \in Machines : ContractState(m) = "cleaning" }

(* Requests that are made one by one, may fail and are repeated amount to  *)
(* the atomic calls that the reconciler is modelled with.                  *)
ImplementsProvider == Contract!ProviderSpec

(* A machine to be removed goes away in the end, after any mishap.         *)
ReleaseCompletes ==
    \A c \in CIRs : use[c].step = "releasing" ~> use[c].step = "none"

(* What is being acquired or cleaned becomes available, but for a Clean    *)
(* that ended between removing the old domain and defining the new one:    *)
(* from there no call gets on.                                             *)
GetsReady ==
    \A c \in CIRs :
        use[c].step \in {"acquiring", "cleaning"} ~>
            \/ use[c].step = "available"
            \/ work = Idle /\ use[c].step = "cleaning" /\ domain[use[c].id] = "none"
=============================================================================
