----------------------------- MODULE HostProviders -----------------------------
(***************************************************************************)
(* The providers that hand out hosts of a fixed set, ironic.go and         *)
(* ibmcloud.go (its "manual" hosts).  What a host is used for is recorded  *)
(* at the host only, by a mark: extra.ofcir_cir of an Ironic node, the tag *)
(* ofcir-taken at IBM Cloud.                                               *)
(*                                                                         *)
(* One worker makes all calls and a host at rest stays as it is, so the    *)
(* requests that a call makes are one step, with an outcome for each that  *)
(* may fail.                                                               *)
(***************************************************************************)
EXTENDS ProviderCalls

ASSUME HostAssumption == IsFiniteSet(Machines)

\* refused: a request to deploy a host fails; ignored: a request fails whose
\* error nobody looks at; lost: the call succeeds, but the operator dies or
\* cannot save its result; deploy failed: a host fails to come up.
Mishaps == { "refused", "ignored", "lost", "lost release", "deploy failed" }

VARIABLES
    kind,    \* which of the two providers the pool has
    host     \* the hosts, as the service knows them

vars == <<kind, host, callVars>>

\* fresh: registered, never deployed.
HostStates == { "fresh", "deploying", "active", "deploy failed" }

TypeOK ==
    /\ kind \in {"ironic", "ibmcloud"}
    /\ host \in [Machines -> [marked : BOOLEAN, state : HostStates]]
    /\ CallsTypeOK
    /\ mishaps \in SUBSET Mishaps

Init ==
    /\ kind \in {"ironic", "ibmcloud"}
    /\ host \in [Machines -> { [marked |-> FALSE, state |-> s] : s \in {"fresh", "active"} }]
    /\ CallsInit
    /\ dirty = { h \in Machines : host[h].state = "active" }

-----------------------------------------------------------------------------

Set(h, marked, state) == host' = [host EXCEPT ![h] = [marked |-> marked, state |-> state]]

(* Ironic.                                                                 *)

\* Bug: the mark is not looked at.
Selectable_Marked(h) == host[h].state \in {"active", "fresh"}

Selectable(h) == host[h].state \in {"active", "fresh"} /\ ~host[h].marked

\* Bug: the node is deployed without the mark.
deployNode_NoMark(h) ==
    /\ host[h].state # "deploying"
    /\ Set(h, host[h].marked, "deploying")

\* Update the node, then change its provision state.
deployNode(h) ==
    /\ host[h].state # "deploying"
    /\ Set(h, TRUE, "deploying")

\* The error of the update is ignored, that of the change is returned.
deployNodeUnmarked(h) ==
    /\ host[h].state # "deploying"
    /\ Set(h, host[h].marked, "deploying")
deployNodeRefused(h) == Set(h, TRUE, host[h].state)

AcquireNode(c) ==
    /\ kind = "ironic" /\ MayAcquire(c)
    /\ \E h \in Machines :
          /\ Selectable(h)
          /\ \/ AllWell /\ deployNode(h) /\ Name(c, "acquiring", h)
             \/ Happens("ignored") /\ deployNodeUnmarked(h) /\ Name(c, "acquiring", h)
             \/ Happens("refused") /\ deployNodeRefused(h) /\ UNCHANGED use
             \/ Happens("lost") /\ deployNode(h) /\ UNCHANGED use
    /\ UNCHANGED <<kind, dirty>>

\* Bug: a deployment that failed is not looked at.
NodeCompleted_NoRetry(c) ==
    /\ kind = "ironic" /\ MayComplete(c)
    /\ host[use[c].id].state = "active"
    /\ Name(c, "available", use[c].id)
    /\ UNCHANGED <<kind, host, dirty, mishaps>>

\* AcquireCompleted, which is CleanCompleted too.  A deployment that failed is
\* started again.
NodeCompleted(c) ==
    LET h == use[c].id IN
    /\ kind = "ironic" /\ MayComplete(c)
    /\ \/ /\ host[h].state = "active"
          /\ Name(c, "available", h)
          /\ AllWell /\ UNCHANGED host
       \/ /\ host[h].state = "deploy failed"
          /\ UNCHANGED use
          /\ \/ AllWell /\ deployNode(h)
             \/ Happens("ignored") /\ deployNodeUnmarked(h)
             \/ Happens("refused") /\ deployNodeRefused(h)
    /\ UNCHANGED <<kind, dirty>>

CleanNode(c) ==
    LET h == use[c].id IN
    /\ kind = "ironic" /\ MayClean(c)
    /\ \/ deployNode(h) /\ Recorded(c, "cleaning")
       \/ Happens("ignored") /\ deployNodeUnmarked(h) /\ Name(c, "cleaning", h)
       \/ Happens("refused") /\ deployNodeRefused(h) /\ UNCHANGED use
    /\ UNCHANGED <<kind, dirty>>

\* Bug: the CIResource still names the node.
ReleaseNode_Remembers(c) ==
    /\ kind = "ironic" /\ MayRelease(c)
    /\ Set(use[c].id, FALSE, host[use[c].id].state)
    /\ Name(c, "none", use[c].id)
    /\ UNCHANGED <<kind, dirty, mishaps>>

\* Bug: the mark stays.
ReleaseNode_KeepsMark(c) ==
    /\ kind = "ironic" /\ MayRelease(c)
    /\ Released(c)
    /\ UNCHANGED <<kind, host, dirty>>

\* The mark goes; the data stays until the host is acquired again.  Errors are
\* ignored.
ReleaseNode(c) ==
    LET h == use[c].id IN
    /\ kind = "ironic" /\ MayRelease(c)
    /\ \/ /\ Set(h, FALSE, host[h].state)
          /\ Released(c)
       \/ /\ Happens("ignored")
          /\ Forget(c)
          /\ UNCHANGED host
    /\ UNCHANGED <<kind, dirty>>

(* IBM Cloud.                                                              *)

\* The hardware status says ACTIVE for a while after a reload has begun.
Available(h) == host[h].state # "fresh" /\ ~host[h].marked

\* Bug: the host is marked, but its operating system is not loaded anew.
getAvailableHost_NoReload(c, h) ==
    /\ AllWell /\ Set(h, TRUE, "active") /\ Name(c, "acquiring", h)

\* Tag it, then reload its operating system; either error is ignored.
getAvailableHost(c, h) ==
    \/ AllWell /\ Set(h, TRUE, "deploying") /\ Name(c, "acquiring", h)
    \/ Happens("ignored") /\ Set(h, FALSE, "deploying") /\ Name(c, "acquiring", h)
    \/ Happens("ignored") /\ Set(h, TRUE, host[h].state) /\ Name(c, "acquiring", h)
    \/ Happens("lost") /\ Set(h, TRUE, "deploying") /\ UNCHANGED use

AcquireHost(c) ==
    /\ kind = "ibmcloud" /\ MayAcquire(c)
    /\ \E h \in Machines : Available(h) /\ getAvailableHost(c, h)
    /\ UNCHANGED <<kind, dirty>>

\* AcquireCompleted, which is CleanCompleted too, looks at the transaction.
HostCompleted(c) ==
    /\ kind = "ibmcloud" /\ MayComplete(c)
    /\ host[use[c].id].state = "active"
    /\ Name(c, "available", use[c].id)
    /\ UNCHANGED <<kind, host, dirty, mishaps>>

\* ReloadOperatingSystem; its error is returned.
CleanHost(c) ==
    LET h == use[c].id IN
    /\ kind = "ibmcloud" /\ MayClean(c)
    /\ Set(h, host[h].marked, "deploying")
    /\ Recorded(c, "cleaning")
    /\ UNCHANGED <<kind, dirty>>

\* releaseManualHost; its error is returned.
ReleaseHost(c) ==
    LET h == use[c].id IN
    /\ kind = "ibmcloud" /\ MayRelease(c)
    /\ Set(h, FALSE, host[h].state)
    /\ Released(c)
    /\ UNCHANGED <<kind, dirty>>

(* The hosts and the clients.                                              *)

FinishDeploy(h) ==
    /\ host[h].state = "deploying"
    /\ Set(h, host[h].marked, "active")
    /\ dirty' = dirty \ {h}
    /\ UNCHANGED <<kind, use, mishaps>>

FailDeploy(h) ==
    /\ kind = "ironic"
    /\ host[h].state = "deploying"
    /\ Happens("deploy failed")
    /\ Set(h, host[h].marked, "deploy failed")
    /\ UNCHANGED <<kind, use, dirty>>

UseHost(c) == ClientUse(c) /\ UNCHANGED <<kind, host>>

Next ==
    \/ \E c \in CIRs :
          \/ AcquireNode(c) \/ NodeCompleted(c) \/ CleanNode(c) \/ ReleaseNode(c)
          \/ AcquireHost(c) \/ HostCompleted(c) \/ CleanHost(c) \/ ReleaseHost(c)
          \/ UseHost(c)
    \/ \E h \in Machines : FinishDeploy(h) \/ FailDeploy(h)

Spec == Init /\ [][Next]_vars

(* The reconciler polls until a call is complete; deployments end.         *)
Fairness ==
    /\ \A c \in CIRs : WF_vars(NodeCompleted(c)) /\ WF_vars(HostCompleted(c))
    /\ \A h \in Machines : WF_vars(FinishDeploy(h))

FairSpec == Spec /\ Fairness

-----------------------------------------------------------------------------
(* Properties.  A failed request whose error is ignored, and a release     *)
(* that is repeated, defeat the mark.                                      *)

MarksCount == mishaps \intersect {"ignored", "lost release"} = {}

(* A host has one user: the mark alone keeps it from being selected again, *)
(* through failed deployments, redeployments and lost results.             *)
OneUser ==
    MarksCount =>
        \A c, d \in CIRs : c # d /\ use[c].id \in Machines => use[c].id # use[d].id

(* A host is deployed anew between two clients, although Release leaves    *)
(* their data and Clean may be repeated, or fail in between.               *)
HandedOutClean ==
    MarksCount => \A c \in CIRs : use[c].step = "available" => use[c].id \notin dirty

(* A mark that is left at a host nobody names takes the host away for good *)
(* (nothing removes it), and each mishap leaves at most one: calls that are *)
(* repeated, hosts that two CIResources name and deployments that are      *)
(* started again leave none.                                               *)
OnlyLossesKeepMarks ==
    Cardinality({ h \in Machines : host[h].marked /\ ~Named(h) })
        <= Cardinality(mishaps \intersect { "refused", "ignored", "lost" })

\* A marked host that nobody names is lost; it is taken for one that will never
\* be ready.
ContractState(h) ==
    CASE ~host[h].marked -> "absent"
      [] host[h].marked /\ ~Named(h) -> "building"
      [] host[h].marked /\ Named(h) /\ host[h].state \in {"fresh", "active"} -> "ready"
      [] OTHER -> IF [step |-> "acquiring", id |-> h] \in { use[c] : c \in CIRs }
                  THEN "building" ELSE "cleaning"

Contract == INSTANCE Provider WITH
    Instances <- Machines, ReusesIds <- TRUE, TypedNotFound <- FALSE,
    InstancesMayFail <- FALSE,
    inst <- [h \in Machines |-> ContractState(h)],
    dirty <- { h \in dirty : ContractState(h) # "building" }

(* Both providers keep the contract that the reconciler is modelled with:  *)
(* a host is ready only after it has been deployed, the data goes with the *)
(* cleaning, and what is released may be acquired again.                   *)
KeepsContract ==
    [][MarksCount' => Contract!ProviderNext]_(Contract!providerVars)

(* What is being acquired or cleaned becomes available, although Ironic's  *)
(* deployments may fail.                                                   *)
GetsReady ==
    \A c \in CIRs :
        use[c].step \in {"acquiring", "cleaning"} ~> use[c].step = "available" \/ ~MarksCount
=============================================================================
