-------------------------- MODULE HostProvidersProofs --------------------------
(***************************************************************************)
(* Theorems about the providers of a fixed set of hosts: for any number of *)
(* CIResources and hosts, in whatever state they are registered, and any   *)
(* bound on the mishaps.                                                   *)
(***************************************************************************)
EXTENDS HostProviders, FiniteSetTheorems, TLAPS

Owns(c, h) == use[c].id = h

\* A host that a CIResource names is marked, so that it is not selected again.
Marked == \A c \in CIRs, h \in Machines : Owns(c, h) => host[h].marked

OneOwner == \A c, d \in CIRs, h \in Machines : Owns(c, h) /\ Owns(d, h) => c = d

\* What is deployed for a CIResource comes up without the old data, and has no
\* new data as long as no client has been given it.
Deployed ==
    \A c \in CIRs, h \in Machines :
        /\ Owns(c, h)
        /\ use[c].step \in {"acquiring", "cleaning"} /\ host[h].state = "active"
        => h \notin dirty

AvailableClean ==
    \A c \in CIRs, h \in Machines : Owns(c, h) /\ use[c].step = "available" => h \notin dirty

HostInv == Marked /\ OneOwner /\ Deployed /\ AvailableClean

IInv == TypeOK /\ (MarksCount => HostInv)

-----------------------------------------------------------------------------
(* Steps, by what they do to a host and to what CIResources name.          *)

HostType == [Machines -> [marked : BOOLEAN, state : HostStates]]

LEMMA SetType ==
    ASSUME TypeOK, NEW h \in Machines, NEW marked \in BOOLEAN, NEW state \in HostStates,
           Set(h, marked, state)
    PROVE  /\ host' \in HostType
           /\ host'[h].marked = marked
           /\ host'[h].state = state
           /\ \A g \in Machines : g # h => host'[g] = host[g]
<1>1. [marked |-> marked, state |-> state] \in [marked : BOOLEAN, state : HostStates]
  OBVIOUS
<1> QED
  BY <1>1 DEF TypeOK, Set, HostType

LEMMA NameType ==
    ASSUME TypeOK, NEW c \in CIRs, NEW h \in Machines, NEW step \in Steps \ {"none"},
           Name(c, step, h)
    PROVE  /\ use' \in [CIRs -> [step : Steps, id : Machines \union {NoMachine}]]
           /\ \A d \in CIRs : use'[d].id = NoMachine <=> use'[d].step = "none"
           /\ use'[c].step = step
           /\ use'[c].id = h
           /\ \A d \in CIRs : d # c => use'[d] = use[d]
<1>1. h # NoMachine
  BY CallsAssumption
<1> QED
  BY <1>1 DEF TypeOK, CallsTypeOK, Name

LEMMA ForgetType ==
    ASSUME TypeOK, NEW c \in CIRs, Forget(c)
    PROVE  /\ use' \in [CIRs -> [step : Steps, id : Machines \union {NoMachine}]]
           /\ \A d \in CIRs : use'[d].id = NoMachine <=> use'[d].step = "none"
           /\ use'[c].id = NoMachine
           /\ \A d \in CIRs : d # c => use'[d] = use[d]
<1>1. Unused.step = "none" /\ Unused.id = NoMachine
      /\ Unused \in [step : Steps, id : Machines \union {NoMachine}]
  BY DEF Unused, Steps
<1> QED
  BY <1>1 DEF TypeOK, CallsTypeOK, Forget

LEMMA MishapType ==
    ASSUME TypeOK
    PROVE  /\ \A m \in Mishaps : Happens(m) =>
                 mishaps' \in SUBSET Mishaps /\ (MarksCount' => MarksCount)
           /\ AllWell => mishaps' \in SUBSET Mishaps /\ (MarksCount' => MarksCount)
           /\ Happens("ignored") \/ Happens("lost release") => ~MarksCount'
BY DEF TypeOK, Happens, AllWell, MarksCount

\* The host of a call, and the CIResource for which it is made.
LEMMA InCall ==
    ASSUME TypeOK, NEW c \in CIRs, use[c].step # "none"
    PROVE  use[c].id \in Machines /\ host[use[c].id] \in [marked : BOOLEAN, state : HostStates]
BY DEF TypeOK, CallsTypeOK

\* c gets h, or goes on with it; nobody else names it.
LEMMA NameInv ==
    ASSUME TypeOK, HostInv, NEW c \in CIRs, NEW h \in Machines, NEW step \in Steps \ {"none"},
           Name(c, step, h), UNCHANGED dirty,
           \A d \in CIRs : d # c => use[d].id # h,
           \A g \in Machines : g # h => host'[g] = host[g],
           host'[h].marked,
           step \in {"acquiring", "cleaning"} /\ host'[h].state = "active" => h \notin dirty,
           step = "available" => h \notin dirty
    PROVE  HostInv'
<1>1. /\ use'[c].step = step /\ use'[c].id = h
      /\ \A d \in CIRs : d # c => use'[d] = use[d]
  BY NameType
<1>2. \A d \in CIRs : use'[d].id = h => d = c
  BY <1>1
<1>3. \A d \in CIRs, g \in Machines : use'[d].id = g /\ g # h => use'[d] = use[d]
  BY <1>1
<1>4. Marked'
  BY <1>3 DEF HostInv, Marked, Owns
<1>5. OneOwner'
  BY <1>2, <1>3 DEF HostInv, OneOwner, Owns
<1>6. Deployed'
  BY <1>1, <1>2, <1>3 DEF HostInv, Deployed, Owns
<1>7. AvailableClean'
  BY <1>1, <1>2, <1>3 DEF HostInv, AvailableClean, Owns
<1> QED
  BY <1>4, <1>5, <1>6, <1>7 DEF HostInv

\* A host is marked or deployed, or its deployment ends.
LEMMA HostInvKept ==
    ASSUME TypeOK, HostInv, NEW h \in Machines, UNCHANGED use, dirty' \subseteq dirty,
           \A g \in Machines : g # h => host'[g] = host[g],
           host[h].marked => host'[h].marked,
           host'[h].state = "active" => host[h].state = "active" \/ h \notin dirty'
    PROVE  HostInv'
<1>1. Marked'
  BY DEF HostInv, Marked, Owns
<1>2. OneOwner' /\ AvailableClean'
  BY DEF HostInv, OneOwner, AvailableClean, Owns
<1>3. Deployed'
  BY DEF HostInv, Deployed, Owns
<1> QED
  BY <1>1, <1>2, <1>3 DEF HostInv

LEMMA ForgetInv ==
    ASSUME TypeOK, HostInv, NEW c \in CIRs, use[c].id \in Machines, Forget(c), UNCHANGED dirty,
           \A g \in Machines : g # use[c].id => host'[g] = host[g]
    PROVE  HostInv'
<1>1. use'[c].id = NoMachine /\ \A d \in CIRs : d # c => use'[d] = use[d]
  BY ForgetType
<1>2. \A d \in CIRs, g \in Machines : use'[d].id = g => use'[d] = use[d] /\ d # c
  BY <1>1, CallsAssumption
<1>3. \A d \in CIRs, g \in Machines : use'[d].id = g => host'[g] = host[g]
  BY <1>2 DEF HostInv, OneOwner, Owns
<1> QED
  BY <1>2, <1>3 DEF HostInv, Marked, OneOwner, Deployed, AvailableClean, Owns

-----------------------------------------------------------------------------
(* The same, for requests that are answered as expected or not.            *)

LEMMA NameStep ==
    ASSUME IInv, NEW c \in CIRs, NEW h \in Machines, NEW step \in Steps \ {"none"},
           Name(c, step, h),
           NEW marked \in BOOLEAN, NEW state \in HostStates, Set(h, marked, state),
           UNCHANGED <<kind, dirty>>, mishaps' \in SUBSET Mishaps,
           MarksCount' =>
               /\ MarksCount
               /\ marked
               /\ \A d \in CIRs : d # c => use[d].id # h
               /\ step \in {"acquiring", "cleaning"} /\ state = "active" => h \notin dirty
               /\ step = "available" => h \notin dirty
    PROVE  IInv'
<1>1. TypeOK
  BY DEF IInv
<1>2. /\ host' \in HostType /\ host'[h].marked = marked /\ host'[h].state = state
      /\ \A g \in Machines : g # h => host'[g] = host[g]
  BY <1>1, SetType
<1>3. TypeOK'
  BY <1>1, <1>2, NameType DEF TypeOK, CallsTypeOK, HostType
<1>4. MarksCount' => HostInv'
  BY <1>1, <1>2, NameInv DEF IInv
<1> QED
  BY <1>3, <1>4 DEF IInv

LEMMA HostStep ==
    ASSUME IInv, NEW h \in Machines, NEW marked \in BOOLEAN, NEW state \in HostStates,
           Set(h, marked, state),
           UNCHANGED <<kind, use>>, dirty' \subseteq dirty, mishaps' \in SUBSET Mishaps,
           MarksCount' =>
               /\ MarksCount
               /\ host[h].marked => marked
               /\ state = "active" => host[h].state = "active" \/ h \notin dirty'
    PROVE  IInv'
<1>1. TypeOK
  BY DEF IInv
<1>2. /\ host' \in HostType /\ host'[h].marked = marked /\ host'[h].state = state
      /\ \A g \in Machines : g # h => host'[g] = host[g]
  BY <1>1, SetType
<1>3. TypeOK'
  BY <1>1, <1>2 DEF TypeOK, CallsTypeOK, HostType
<1>4. MarksCount' => HostInv'
  BY <1>1, <1>2, HostInvKept DEF IInv
<1> QED
  BY <1>3, <1>4 DEF IInv

LEMMA ForgetStep ==
    ASSUME IInv, NEW c \in CIRs, use[c].id \in Machines, Forget(c),
           UNCHANGED <<kind, dirty>>, mishaps' \in SUBSET Mishaps, MarksCount' => MarksCount,
           host' \in HostType, \A g \in Machines : g # use[c].id => host'[g] = host[g]
    PROVE  IInv'
<1>1. TypeOK'
  BY ForgetType DEF IInv, TypeOK, CallsTypeOK, HostType
<1>2. MarksCount' => HostInv'
  BY ForgetInv DEF IInv
<1> QED
  BY <1>1, <1>2 DEF IInv

LEMMA SetSame ==
    ASSUME TypeOK, NEW h \in Machines, UNCHANGED host
    PROVE  Set(h, host[h].marked, host[h].state)
<1>1. host[h] = [marked |-> host[h].marked, state |-> host[h].state]
  BY DEF TypeOK
<1> QED
  BY <1>1 DEF TypeOK, Set

\* Nobody names a host without the mark.
LEMMA UnmarkedUnowned ==
    ASSUME HostInv, NEW h \in Machines, ~host[h].marked, NEW d \in CIRs
    PROVE  use[d].id # h
BY DEF HostInv, Marked, Owns

LEMMA OwnedOnce ==
    ASSUME HostInv, NEW c \in CIRs, use[c].id \in Machines
    PROVE  /\ host[use[c].id].marked
           /\ \A d \in CIRs : d # c => use[d].id # use[c].id
BY DEF HostInv, Marked, OneOwner, Owns

-----------------------------------------------------------------------------
(* The calls.                                                              *)

LEMMA Literals ==
    /\ {"acquiring", "available", "in use", "cleaning", "releasing"} = Steps \ {"none"}
    /\ {"fresh", "deploying", "active", "deploy failed"} = HostStates
    /\ {"refused", "ignored", "lost", "lost release", "deploy failed"} = Mishaps
BY DEF Steps, HostStates, Mishaps

LEMMA AcquireNodeInv ==
    ASSUME IInv, NEW c \in CIRs, AcquireNode(c)
    PROVE  IInv'
<1>0. TypeOK /\ UNCHANGED <<kind, dirty>>
  BY DEF IInv, AcquireNode
<1>1. PICK h \in Machines :
         /\ Selectable(h)
         /\ \/ AllWell /\ deployNode(h) /\ Name(c, "acquiring", h)
            \/ Happens("ignored") /\ deployNodeUnmarked(h) /\ Name(c, "acquiring", h)
            \/ Happens("refused") /\ deployNodeRefused(h) /\ UNCHANGED use
            \/ Happens("lost") /\ deployNode(h) /\ UNCHANGED use
  BY DEF AcquireNode
<1>2. host[h].marked = FALSE /\ host[h].state \in HostStates
  BY <1>0, <1>1 DEF Selectable, TypeOK
<1>3. CASE AllWell /\ deployNode(h) /\ Name(c, "acquiring", h)
  <2>1. Set(h, TRUE, "deploying") /\ mishaps' \in SUBSET Mishaps /\ (MarksCount' => MarksCount)
    BY <1>0, <1>3, MishapType DEF deployNode
  <2>2. MarksCount => \A d \in CIRs : use[d].id # h
    BY <1>2, UnmarkedUnowned DEF IInv
  <2> QED
    BY <1>0, <1>3, <2>1, <2>2, NameStep, Literals
<1>4. CASE Happens("ignored") /\ deployNodeUnmarked(h) /\ Name(c, "acquiring", h)
  <2>1. Set(h, FALSE, "deploying") /\ mishaps' \in SUBSET Mishaps /\ ~MarksCount'
    BY <1>0, <1>2, <1>4, MishapType, Literals DEF deployNodeUnmarked
  <2> QED
    BY <1>0, <1>4, <2>1, NameStep, Literals
<1>5. CASE Happens("refused") /\ deployNodeRefused(h) /\ UNCHANGED use
  <2>1. Set(h, TRUE, host[h].state) /\ mishaps' \in SUBSET Mishaps /\ (MarksCount' => MarksCount)
    BY <1>0, <1>5, MishapType, Literals DEF deployNodeRefused
  <2> QED
    BY <1>0, <1>2, <1>5, <2>1, HostStep
<1>6. CASE Happens("lost") /\ deployNode(h) /\ UNCHANGED use
  <2>1. Set(h, TRUE, "deploying") /\ mishaps' \in SUBSET Mishaps /\ (MarksCount' => MarksCount)
    BY <1>0, <1>6, MishapType, Literals DEF deployNode
  <2> QED
    BY <1>0, <1>6, <2>1, HostStep, Literals
<1> QED
  BY <1>1, <1>3, <1>4, <1>5, <1>6

\* AcquireCompleted and CleanCompleted, with an answer that says yes.
LEMMA CompletedInv ==
    ASSUME IInv, NEW c \in CIRs, MayComplete(c), host[use[c].id].state = "active",
           Name(c, "available", use[c].id), UNCHANGED <<kind, host, dirty, mishaps>>
    PROVE  IInv'
<1> DEFINE h == use[c].id
<1>1. TypeOK /\ h \in Machines /\ host[h].marked \in BOOLEAN /\ host[h].state \in HostStates
  BY InCall DEF IInv, MayComplete
<1>2. Set(h, host[h].marked, host[h].state)
  BY <1>1, SetSame
<1>3. MarksCount => h \notin dirty
  BY <1>1 DEF IInv, HostInv, Deployed, Owns, MayComplete
<1>4. MarksCount => host[h].marked /\ \A d \in CIRs : d # c => use[d].id # h
  BY <1>1, OwnedOnce DEF IInv
<1>5. mishaps' \in SUBSET Mishaps /\ (MarksCount' => MarksCount)
  BY <1>1 DEF TypeOK, MarksCount
<1>6. UNCHANGED <<kind, dirty>> /\ "available" \in Steps \ {"none"}
  BY Literals
<1> QED
  BY <1>1, <1>2, <1>3, <1>4, <1>5, <1>6, NameStep

LEMMA NodeCompletedInv ==
    ASSUME IInv, NEW c \in CIRs, NodeCompleted(c)
    PROVE  IInv'
<1> DEFINE h == use[c].id
<1>1. TypeOK /\ UNCHANGED <<kind, dirty>> /\ MayComplete(c)
  BY DEF IInv, NodeCompleted
<1>2. h \in Machines /\ host[h].marked \in BOOLEAN /\ host[h].state \in HostStates
  BY <1>1, InCall DEF MayComplete
<1>3. CASE host[h].state = "active" /\ Name(c, "available", h) /\ AllWell /\ UNCHANGED host
  BY <1>1, <1>3, CompletedInv DEF AllWell
<1>4. CASE UNCHANGED use /\ AllWell /\ deployNode(h)
  <2>1. Set(h, TRUE, "deploying") /\ mishaps' \in SUBSET Mishaps /\ (MarksCount' => MarksCount)
    BY <1>1, <1>4, MishapType DEF deployNode
  <2> QED
    BY <1>1, <1>2, <1>4, <2>1, HostStep, Literals
<1>5. CASE UNCHANGED use /\ Happens("ignored") /\ deployNodeUnmarked(h)
  <2>1. Set(h, host[h].marked, "deploying") /\ mishaps' \in SUBSET Mishaps /\ ~MarksCount'
    BY <1>1, <1>5, MishapType, Literals DEF deployNodeUnmarked
  <2> QED
    BY <1>1, <1>2, <1>5, <2>1, HostStep, Literals
<1>6. CASE UNCHANGED use /\ Happens("refused") /\ deployNodeRefused(h)
  <2>1. Set(h, TRUE, host[h].state) /\ mishaps' \in SUBSET Mishaps /\ (MarksCount' => MarksCount)
    BY <1>1, <1>6, MishapType, Literals DEF deployNodeRefused
  <2> QED
    BY <1>1, <1>2, <1>6, <2>1, HostStep
<1> QED
  BY <1>3, <1>4, <1>5, <1>6 DEF NodeCompleted

\* The redeployment of a host between two clients, and what is recorded of it.
LEMMA RedeployInv ==
    ASSUME IInv, NEW c \in CIRs, use[c].step # "none",
           NEW marked \in BOOLEAN, host[use[c].id].marked => marked,
           Set(use[c].id, marked, "deploying"),
           Recorded(c, "cleaning"), UNCHANGED <<kind, dirty>>
    PROVE  IInv'
<1> DEFINE h == use[c].id
<1>1. TypeOK /\ h \in Machines /\ "deploying" \in HostStates /\ "cleaning" \in Steps \ {"none"}
  BY InCall, Literals DEF IInv
<1>2. mishaps' \in SUBSET Mishaps /\ (MarksCount' => MarksCount)
  BY <1>1, MishapType, Literals DEF Recorded
<1>3. CASE Name(c, "cleaning", h)
  <2>1. MarksCount => marked /\ \A d \in CIRs : d # c => use[d].id # h
    BY <1>1, OwnedOnce DEF IInv
  <2> QED
    BY <1>1, <1>2, <1>3, <2>1, NameStep
<1>4. CASE UNCHANGED use
  BY <1>1, <1>2, <1>4, HostStep
<1> QED
  BY <1>3, <1>4 DEF Recorded

LEMMA CleanNodeInv ==
    ASSUME IInv, NEW c \in CIRs, CleanNode(c)
    PROVE  IInv'
<1> DEFINE h == use[c].id
<1>1. TypeOK /\ UNCHANGED <<kind, dirty>> /\ use[c].step # "none"
  BY DEF IInv, CleanNode, MayClean
<1>2. h \in Machines /\ host[h].marked \in BOOLEAN /\ host[h].state \in HostStates
  BY <1>1, InCall
<1>3. CASE deployNode(h) /\ Recorded(c, "cleaning")
  BY <1>1, <1>3, RedeployInv DEF deployNode
<1>4. CASE Happens("ignored") /\ deployNodeUnmarked(h) /\ Name(c, "cleaning", h)
  <2>1. Set(h, host[h].marked, "deploying") /\ mishaps' \in SUBSET Mishaps /\ ~MarksCount'
    BY <1>1, <1>4, MishapType, Literals DEF deployNodeUnmarked
  <2>2. "deploying" \in HostStates /\ "cleaning" \in Steps \ {"none"}
    BY Literals
  <2> QED
    BY <1>1, <1>2, <1>4, <2>1, <2>2, NameStep
<1>5. CASE Happens("refused") /\ deployNodeRefused(h) /\ UNCHANGED use
  <2>1. Set(h, TRUE, host[h].state) /\ mishaps' \in SUBSET Mishaps /\ (MarksCount' => MarksCount)
    BY <1>1, <1>5, MishapType, Literals DEF deployNodeRefused
  <2> QED
    BY <1>1, <1>2, <1>5, <2>1, HostStep
<1> QED
  BY <1>3, <1>4, <1>5 DEF CleanNode

\* The mark is cleared, and the host forgotten.
LEMMA ClearedInv ==
    ASSUME IInv, NEW c \in CIRs, use[c].step # "none",
           Set(use[c].id, FALSE, host[use[c].id].state), Released(c), UNCHANGED <<kind, dirty>>
    PROVE  IInv'
<1> DEFINE h == use[c].id
<1>1. TypeOK /\ h \in Machines /\ host[h].state \in HostStates
  BY InCall DEF IInv
<1>2. CASE AllWell /\ Forget(c)
  <2>1. mishaps' \in SUBSET Mishaps /\ (MarksCount' => MarksCount)
    BY <1>1, <1>2, MishapType
  <2>2. host' \in HostType /\ \A g \in Machines : g # h => host'[g] = host[g]
    BY <1>1, SetType
  <2> QED
    BY <1>1, <1>2, <2>1, <2>2, ForgetStep
<1>3. CASE Happens("lost release") /\ Name(c, "releasing", h)
  <2>1. mishaps' \in SUBSET Mishaps /\ ~MarksCount'
    BY <1>1, <1>3, MishapType, Literals
  <2>2. "releasing" \in Steps \ {"none"}
    BY Literals
  <2> QED
    BY <1>1, <1>3, <2>1, <2>2, NameStep
<1> QED
  BY <1>2, <1>3 DEF Released

LEMMA ReleaseNodeInv ==
    ASSUME IInv, NEW c \in CIRs, ReleaseNode(c)
    PROVE  IInv'
<1>1. TypeOK /\ UNCHANGED <<kind, dirty>> /\ use[c].step # "none"
  BY DEF IInv, ReleaseNode, MayRelease
<1>2. CASE Set(use[c].id, FALSE, host[use[c].id].state) /\ Released(c)
  BY <1>1, <1>2, ClearedInv
<1>3. CASE Happens("ignored") /\ Forget(c) /\ UNCHANGED host
  <2>1. mishaps' \in SUBSET Mishaps /\ (MarksCount' => MarksCount)
    BY <1>1, <1>3, MishapType, Literals
  <2>2. host' \in HostType /\ use[c].id \in Machines
    BY <1>1, <1>3, InCall DEF TypeOK, HostType
  <2> QED
    BY <1>1, <1>3, <2>1, <2>2, ForgetStep
<1> QED
  BY <1>2, <1>3 DEF ReleaseNode

LEMMA AcquireHostInv ==
    ASSUME IInv, NEW c \in CIRs, AcquireHost(c)
    PROVE  IInv'
<1>1. TypeOK /\ UNCHANGED <<kind, dirty>>
  BY DEF IInv, AcquireHost
<1>2. PICK h \in Machines : Available(h) /\ getAvailableHost(c, h)
  BY DEF AcquireHost
<1>3. host[h].state \in HostStates /\ ~host[h].marked
  BY <1>1, <1>2 DEF Available, TypeOK
<1>4. "deploying" \in HostStates /\ "acquiring" \in Steps \ {"none"}
  BY Literals
<1>5. CASE AllWell /\ Set(h, TRUE, "deploying") /\ Name(c, "acquiring", h)
  <2>1. mishaps' \in SUBSET Mishaps /\ (MarksCount' => MarksCount)
    BY <1>1, <1>5, MishapType
  <2>2. MarksCount => \A d \in CIRs : use[d].id # h
    BY <1>3, UnmarkedUnowned DEF IInv
  <2> QED
    BY <1>1, <1>4, <1>5, <2>1, <2>2, NameStep
<1>6. CASE /\ Happens("ignored") /\ Name(c, "acquiring", h)
           /\ Set(h, FALSE, "deploying") \/ Set(h, TRUE, host[h].state)
  <2>1. mishaps' \in SUBSET Mishaps /\ ~MarksCount'
    BY <1>1, <1>6, MishapType, Literals
  <2> QED
    BY <1>1, <1>3, <1>4, <1>6, <2>1, NameStep
<1>7. CASE Happens("lost") /\ Set(h, TRUE, "deploying") /\ UNCHANGED use
  <2>1. mishaps' \in SUBSET Mishaps /\ (MarksCount' => MarksCount)
    BY <1>1, <1>7, MishapType, Literals
  <2> QED
    BY <1>1, <1>4, <1>7, <2>1, HostStep
<1> QED
  BY <1>2, <1>5, <1>6, <1>7 DEF getAvailableHost

LEMMA CleanHostInv ==
    ASSUME IInv, NEW c \in CIRs, CleanHost(c)
    PROVE  IInv'
<1>1. use[c].step # "none" /\ TypeOK
  BY DEF CleanHost, MayClean, IInv
<1>2. host[use[c].id].marked \in BOOLEAN
  BY <1>1, InCall
<1> QED
  BY <1>1, <1>2, RedeployInv DEF CleanHost

-----------------------------------------------------------------------------
(* The hosts and the clients.                                              *)

LEMMA FinishDeployInv ==
    ASSUME IInv, NEW h \in Machines, FinishDeploy(h)
    PROVE  IInv'
<1>1. TypeOK /\ host[h].marked \in BOOLEAN /\ "active" \in HostStates
  BY Literals DEF IInv, TypeOK
<1>2. Set(h, host[h].marked, "active") /\ UNCHANGED <<kind, use>> /\ h \notin dirty'
      /\ dirty' \subseteq dirty
  BY DEF FinishDeploy
<1>3. mishaps' \in SUBSET Mishaps /\ (MarksCount' => MarksCount)
  BY <1>1 DEF FinishDeploy, TypeOK, MarksCount
<1> QED
  BY <1>1, <1>2, <1>3, HostStep

LEMMA FailDeployInv ==
    ASSUME IInv, NEW h \in Machines, FailDeploy(h)
    PROVE  IInv'
<1>1. TypeOK /\ host[h].marked \in BOOLEAN /\ "deploy failed" \in HostStates
  BY Literals DEF IInv, TypeOK
<1>2. Set(h, host[h].marked, "deploy failed") /\ UNCHANGED <<kind, use>>
      /\ dirty' \subseteq dirty
  BY DEF FailDeploy
<1>3. mishaps' \in SUBSET Mishaps /\ (MarksCount' => MarksCount)
  BY <1>1, MishapType, Literals DEF FailDeploy
<1> QED
  BY <1>1, <1>2, <1>3, HostStep

\* Only the one that names a host can have it dirtied.
LEMMA UseHostInv ==
    ASSUME IInv, NEW c \in CIRs, UseHost(c)
    PROVE  IInv'
<1> DEFINE h == use[c].id
<1>1. TypeOK /\ UNCHANGED <<kind, host, mishaps>> /\ h \in Machines
      /\ Name(c, "in use", h) /\ dirty' = dirty \union {h}
  BY InCall DEF IInv, UseHost, ClientUse
<1>2. /\ use' \in [CIRs -> [step : Steps, id : Machines \union {NoMachine}]]
      /\ \A d \in CIRs : use'[d].id = NoMachine <=> use'[d].step = "none"
      /\ use'[c].step = "in use" /\ use'[c].id = h
      /\ \A d \in CIRs : d # c => use'[d] = use[d]
  BY <1>1, NameType, Literals
<1>3. TypeOK'
  BY <1>1, <1>2 DEF TypeOK, CallsTypeOK
<1>4. ASSUME MarksCount
      PROVE  HostInv'
  <2>1. \A d \in CIRs : use'[d].id = use[d].id
    BY <1>2
  <2>2. \A d \in CIRs : d # c => use'[d].id # h
    BY <1>1, <1>2, <1>4, OwnedOnce DEF IInv
  <2>3. Marked' /\ OneOwner'
    BY <1>1, <1>4, <2>1 DEF IInv, HostInv, Marked, OneOwner, Owns
  <2>4. Deployed' /\ AvailableClean'
    BY <1>1, <1>2, <1>4, <2>2 DEF IInv, HostInv, Deployed, AvailableClean, Owns
  <2> QED
    BY <2>3, <2>4 DEF HostInv
<1> QED
  BY <1>1, <1>3, <1>4 DEF IInv, MarksCount

-----------------------------------------------------------------------------

LEMMA InitIInv == Init => IInv
<1> SUFFICES ASSUME Init PROVE IInv
  OBVIOUS
<1>1. Unused.step = "none" /\ Unused.id = NoMachine
      /\ Unused \in [step : Steps, id : Machines \union {NoMachine}]
  BY DEF Unused, Steps
<1>2. TypeOK
  <2>1. \A s \in {"fresh", "active"} :
           [marked |-> FALSE, state |-> s] \in [marked : BOOLEAN, state : HostStates]
    BY Literals
  <2> DEFINE registered == { [marked |-> FALSE, state |-> s] : s \in {"fresh", "active"} }
  <2>2. registered \subseteq [marked : BOOLEAN, state : HostStates]
    BY <2>1
  <2>3. host \in [Machines -> registered]
    BY DEF Init
  <2> HIDE DEF registered
  <2>4. host \in [Machines -> [marked : BOOLEAN, state : HostStates]]
    BY <2>2, <2>3
  <2>5. CallsTypeOK
    BY <1>1 DEF Init, CallsInit, CallsTypeOK
  <2> QED
    BY <2>4, <2>5 DEF Init, CallsInit, TypeOK
<1>3. \A c \in CIRs : use[c].id \notin Machines
  BY <1>1, CallsAssumption DEF Init, CallsInit
<1>4. HostInv
  BY <1>3 DEF HostInv, Marked, OneOwner, Deployed, AvailableClean, Owns
<1> QED
  BY <1>2, <1>4 DEF IInv

LEMMA NextIInv == IInv /\ [Next]_vars => IInv'
<1> SUFFICES ASSUME IInv, [Next]_vars PROVE IInv'
  OBVIOUS
<1>1. CASE UNCHANGED vars
  BY <1>1 DEF vars, callVars, IInv, TypeOK, CallsTypeOK, MarksCount, HostInv, Marked,
              OneOwner, Deployed, AvailableClean, Owns
<1>2. ASSUME NEW c \in CIRs, HostCompleted(c)
      PROVE  IInv'
  BY <1>2, CompletedInv DEF HostCompleted
<1>3. ASSUME NEW c \in CIRs, ReleaseHost(c)
      PROVE  IInv'
  BY <1>3, ClearedInv DEF ReleaseHost, MayRelease
<1> QED
  BY <1>1, <1>2, <1>3, AcquireNodeInv, NodeCompletedInv, CleanNodeInv, ReleaseNodeInv,
     AcquireHostInv, CleanHostInv, UseHostInv, FinishDeployInv, FailDeployInv
  DEF Next

(* Hosts, and what CIResources name, stay what they are declared to be.    *)
THEOREM TypeCorrect == Spec => []TypeOK
<1>1. IInv => TypeOK
  BY DEF IInv
<1> QED
  BY <1>1, InitIInv, NextIInv, PTL DEF Spec

(* As long as the mark can be set and cleared, and no release is repeated, *)
(* it keeps a host from getting a second user: deployNode and              *)
(* getAvailableHost look at nothing else.                                  *)
THEOREM HostsHaveOneUser == Spec => []OneUser
<1>1. IInv => OneUser
  BY DEF IInv, HostInv, OneOwner, Owns, OneUser
<1> QED
  BY <1>1, InitIInv, NextIInv, PTL DEF Spec

(* Then, too, no client gets a host with the data of another, although     *)
(* Release leaves it there and deployments fail and are lost.              *)
THEOREM HostsAreHandedOutClean == Spec => []HandedOutClean
<1>1. IInv => HandedOutClean
  <2>1. TypeOK => \A c \in CIRs : use[c].step = "available" => use[c].id \in Machines
    BY InCall
  <2> QED
    BY <2>1 DEF IInv, HostInv, AvailableClean, Owns, HandedOutClean
<1> QED
  BY <1>1, InitIInv, NextIInv, PTL DEF Spec

-----------------------------------------------------------------------------
(* The calls, as long as the marks count: what happens to the host and to  *)
(* what the CIResource names.                                              *)

Selected(c, h) ==
    /\ use[c].step = "none" /\ ~host[h].marked /\ host'[h].marked
    /\ \/ use'[c].step = "acquiring" /\ use'[c].id = h /\ host'[h].state = "deploying"
       \/ use' = use

Completed(c, h) ==
    /\ use[c].step \in {"acquiring", "cleaning"} /\ host[h].state = "active"
    /\ host' = host
    /\ use'[c].step = "available" /\ use'[c].id = h

Retried(c, h) ==
    /\ use[c].step \in {"acquiring", "cleaning"} /\ host[h].state = "deploy failed"
    /\ host'[h].marked /\ host'[h].state \in {"deploying", "deploy failed"}
    /\ use' = use

\* A redeployment whose result is lost begins again.
Redeployed(c, h) ==
    /\ use[c].step = "in use" /\ c \notin Fallback
    /\ host'[h].marked
    /\ \/ /\ host'[h].state = "deploying"
          /\ use'[c].step \in {"in use", "cleaning"} /\ use'[c].id = h
       \/ host'[h].state = host[h].state /\ use' = use

Cleared(c, h) ==
    /\ MayRelease(c)
    /\ ~host'[h].marked /\ host'[h].state = host[h].state
    /\ use'[c].step = "none" /\ use'[c].id = NoMachine

Called(c, h) ==
    \/ Selected(c, h)
    \/ use[c].id = h /\ (Completed(c, h) \/ Retried(c, h) \/ Redeployed(c, h) \/ Cleared(c, h))

\* Nothing else changes.
Alone(c, h) ==
    /\ \A d \in CIRs : d # c => use'[d] = use[d]
    /\ \A g \in Machines : g # h => host'[g] = host[g]

LEMMA NoMishap ==
    ASSUME IInv, MarksCount'
    PROVE  /\ ~Happens("ignored") /\ ~Happens("lost release")
           /\ TypeOK
BY DEF IInv, MarksCount, Happens

LEMMA AcquireNodeEffect ==
    ASSUME IInv, MarksCount', NEW c \in CIRs, AcquireNode(c)
    PROVE  \E h \in Machines : Called(c, h) /\ Alone(c, h)
<1>1. PICK h \in Machines :
         /\ Selectable(h)
         /\ \/ deployNode(h) /\ Name(c, "acquiring", h)
            \/ deployNodeRefused(h) /\ UNCHANGED use
            \/ deployNode(h) /\ UNCHANGED use
  BY NoMishap DEF AcquireNode
<1>2. TypeOK /\ ~host[h].marked /\ host[h].state \in HostStates /\ use[c].step = "none"
  BY <1>1, NoMishap DEF Selectable, AcquireNode, MayAcquire, TypeOK
<1>3. /\ host'[h].marked
      /\ \A g \in Machines : g # h => host'[g] = host[g]
      /\ deployNode(h) => host'[h].state = "deploying"
  <2>1. deployNode(h) => Set(h, TRUE, "deploying")
    BY DEF deployNode
  <2>2. deployNodeRefused(h) => Set(h, TRUE, host[h].state)
    BY DEF deployNodeRefused
  <2> QED
    BY <1>1, <1>2, <2>1, <2>2, SetType, Literals
<1>4. Name(c, "acquiring", h) => /\ use'[c].step = "acquiring" /\ use'[c].id = h
                                 /\ \A d \in CIRs : d # c => use'[d] = use[d]
  BY <1>2, NameType, Literals, ZenonT(40)
<1> QED
  BY <1>1, <1>2, <1>3, <1>4 DEF Called, Selected, Alone

LEMMA AcquireHostEffect ==
    ASSUME IInv, MarksCount', NEW c \in CIRs, AcquireHost(c)
    PROVE  \E h \in Machines : Called(c, h) /\ Alone(c, h)
<1>1. PICK h \in Machines :
         /\ ~host[h].marked /\ Set(h, TRUE, "deploying")
         /\ Name(c, "acquiring", h) \/ UNCHANGED use
  BY NoMishap DEF AcquireHost, Available, getAvailableHost
<1>2. TypeOK /\ use[c].step = "none"
  BY NoMishap DEF AcquireHost, MayAcquire
<1>3. /\ host'[h].marked /\ host'[h].state = "deploying"
      /\ \A g \in Machines : g # h => host'[g] = host[g]
  BY <1>1, <1>2, SetType, Literals
<1>4. Name(c, "acquiring", h) => /\ use'[c].step = "acquiring" /\ use'[c].id = h
                                 /\ \A d \in CIRs : d # c => use'[d] = use[d]
  BY <1>2, NameType, Literals
<1> QED
  BY <1>1, <1>2, <1>3, <1>4 DEF Called, Selected, Alone

\* AcquireCompleted and CleanCompleted.
LEMMA CompletedEffect ==
    ASSUME IInv, MarksCount', NEW c \in CIRs, NodeCompleted(c) \/ HostCompleted(c)
    PROVE  \E h \in Machines : Called(c, h) /\ Alone(c, h)
<1>1. PICK h : h = use[c].id
  OBVIOUS
<1>2. use[c].step \in {"acquiring", "cleaning"} /\ TypeOK
  BY NoMishap DEF NodeCompleted, HostCompleted, MayComplete
<1>3. h \in Machines
  BY <1>1, <1>2, InCall
<1>4. \/ host[h].state = "active" /\ Name(c, "available", h) /\ host' = host
      \/ host[h].state = "deploy failed" /\ use' = use /\ (deployNode(h) \/ deployNodeRefused(h))
  BY <1>1, NoMishap DEF NodeCompleted, HostCompleted
<1>5. CASE host[h].state = "active" /\ Name(c, "available", h) /\ host' = host
  <2>1. /\ use'[c].step = "available" /\ use'[c].id = h
        /\ \A d \in CIRs : d # c => use'[d] = use[d]
    <3>1. "available" \in Steps \ {"none"}
      BY Literals
    <3>2. TypeOK /\ Name(c, "available", h)
      BY <1>2, <1>5
    <3> QED
      BY <1>3, <3>1, <3>2, NameType
  <2> QED
    BY <1>1, <1>2, <1>3, <1>5, <2>1 DEF Called, Completed, Alone
<1>6. CASE /\ host[h].state = "deploy failed" /\ use' = use
           /\ deployNode(h) \/ deployNodeRefused(h)
  <2>1. Set(h, TRUE, "deploying") \/ Set(h, TRUE, "deploy failed")
    BY <1>6 DEF deployNode, deployNodeRefused
  <2>2. /\ host'[h].marked /\ host'[h].state \in {"deploying", "deploy failed"}
        /\ \A g \in Machines : g # h => host'[g] = host[g]
    BY <1>2, <1>3, <2>1, SetType, Literals
  <2> QED
    BY <1>1, <1>2, <1>3, <1>6, <2>2 DEF Called, Retried, Alone
<1> QED
  BY <1>4, <1>5, <1>6

LEMMA CleanEffect ==
    ASSUME IInv, MarksCount', MarksCount, NEW c \in CIRs, CleanNode(c) \/ CleanHost(c)
    PROVE  \E h \in Machines : Called(c, h) /\ Alone(c, h)
<1>1. PICK h : h = use[c].id
  OBVIOUS
<1>2. use[c].step = "in use" /\ c \notin Fallback /\ TypeOK
  BY NoMishap DEF CleanNode, CleanHost, MayClean
<1>3. h \in Machines /\ host[h].state \in HostStates /\ host[h].marked = TRUE
  <2>1. h \in Machines /\ host[h] \in [marked : BOOLEAN, state : HostStates]
    BY <1>1, <1>2, InCall
  <2>2. host[h].marked
    BY <1>1, <2>1, OwnedOnce DEF IInv
  <2> QED
    BY <2>1, <2>2
<1>4. \/ Set(h, TRUE, "deploying") /\ (Name(c, "cleaning", h) \/ use' = use)
      \/ Set(h, TRUE, host[h].state) /\ use' = use
  BY <1>1, <1>3, NoMishap DEF CleanNode, CleanHost, deployNode, deployNodeRefused, Recorded
<1>5. /\ host'[h].marked
      /\ \A g \in Machines : g # h => host'[g] = host[g]
      /\ Set(h, TRUE, "deploying") => host'[h].state = "deploying"
      /\ Set(h, TRUE, host[h].state) => host'[h].state = host[h].state
  BY <1>2, <1>3, <1>4, SetType, Literals
<1>6. Name(c, "cleaning", h) => /\ use'[c].step = "cleaning" /\ use'[c].id = h
                                /\ \A d \in CIRs : d # c => use'[d] = use[d]
  <2>1. "cleaning" \in Steps \ {"none"}
    BY Literals
  <2> QED
    BY <1>2, <1>3, <2>1, NameType
<1> QED
  BY <1>1, <1>2, <1>3, <1>4, <1>5, <1>6 DEF Called, Redeployed, Alone

LEMMA ReleaseEffect ==
    ASSUME IInv, MarksCount', NEW c \in CIRs, ReleaseNode(c) \/ ReleaseHost(c)
    PROVE  \E h \in Machines : Called(c, h) /\ Alone(c, h)
<1>1. PICK h : h = use[c].id
  OBVIOUS
<1>2. MayRelease(c) /\ use[c].step # "none" /\ TypeOK
  BY NoMishap DEF ReleaseNode, ReleaseHost, MayRelease
<1>3. h \in Machines /\ host[h].state \in HostStates
  BY <1>1, <1>2, InCall
<1>4. Set(h, FALSE, host[h].state) /\ Forget(c)
  BY <1>1, NoMishap DEF ReleaseNode, ReleaseHost, Released
<1>5. /\ ~host'[h].marked /\ host'[h].state = host[h].state
      /\ \A g \in Machines : g # h => host'[g] = host[g]
  BY <1>2, <1>3, <1>4, SetType
<1>6. /\ use'[c].step = "none" /\ use'[c].id = NoMachine
      /\ \A d \in CIRs : d # c => use'[d] = use[d]
  BY <1>2, <1>4, ForgetType
<1> QED
  BY <1>1, <1>2, <1>3, <1>5, <1>6 DEF Called, Cleared, Alone

ProviderCall(c) ==
    \/ AcquireNode(c) \/ NodeCompleted(c) \/ CleanNode(c) \/ ReleaseNode(c)
    \/ AcquireHost(c) \/ HostCompleted(c) \/ CleanHost(c) \/ ReleaseHost(c)

LEMMA CallEffect ==
    ASSUME IInv, MarksCount', MarksCount, NEW c \in CIRs, ProviderCall(c)
    PROVE  dirty' = dirty /\ \E h \in Machines : Called(c, h) /\ Alone(c, h)
<1>1. dirty' = dirty
  BY DEF ProviderCall, AcquireNode, NodeCompleted, CleanNode, ReleaseNode,
         AcquireHost, HostCompleted, CleanHost, ReleaseHost
<1> QED
  BY <1>1, AcquireNodeEffect, AcquireHostEffect, CompletedEffect, CleanEffect, ReleaseEffect
  DEF ProviderCall

LEMMA MarksCounted ==
    ASSUME IInv, [Next]_vars, MarksCount'
    PROVE  MarksCount /\ HostInv
<1>1. mishaps \subseteq mishaps'
  BY DEF Next, vars, callVars, AcquireNode, NodeCompleted, CleanNode, ReleaseNode, AcquireHost,
         getAvailableHost, HostCompleted, CleanHost, ReleaseHost, UseHost, ClientUse,
         FinishDeploy, FailDeploy, Recorded, Released, Happens, AllWell
<1> QED
  BY <1>1 DEF IInv, MarksCount

-----------------------------------------------------------------------------
(* As long as the marks count, a host without the mark is at rest, and the *)
(* host of a CIResource that may be released is deployed.                  *)

AtRest == \A h \in Machines : ~host[h].marked => host[h].state \in {"fresh", "active"}

ReleasedActive ==
    \A c \in CIRs :
        MayRelease(c) => use[c].step # "releasing" /\ host[use[c].id].state = "active"

Settled == AtRest /\ ReleasedActive

LEMMA CallSettles ==
    ASSUME TypeOK, HostInv, Settled, NEW c \in CIRs, NEW h \in Machines,
           Called(c, h), Alone(c, h)
    PROVE  Settled'
<1>1. AtRest'
  <2>1. ASSUME ~host'[h].marked PROVE host'[h].state \in {"fresh", "active"}
    <3>1. CASE Completed(c, h)
      BY <2>1, <3>1 DEF Settled, AtRest, Completed
    <3>2. CASE use[c].id = h /\ Cleared(c, h)
      BY <3>2 DEF Settled, ReleasedActive, Cleared
    <3> QED
      BY <2>1, <3>1, <3>2 DEF Called, Selected, Retried, Redeployed
  <2>2. \A g \in Machines : g # h => host'[g] = host[g]
    BY DEF Alone
  <2> QED
    BY <2>1, <2>2 DEF Settled, AtRest
<1>2. ASSUME NEW d \in CIRs, d # c, MayRelease(d)'
      PROVE  use'[d].step # "releasing" /\ host'[use'[d].id].state = "active"
  <2>1. use'[d] = use[d]
    BY <1>2 DEF Alone
  <2>2. MayRelease(d)
    BY <1>2, <2>1 DEF MayRelease
  <2>3. use[d].id \in Machines
    BY <2>2, InCall DEF MayRelease
  <2>4. use[d].id # h
    <3>1. CASE Selected(c, h)
      BY <3>1, UnmarkedUnowned DEF Selected
    <3>2. CASE use[c].id = h
      BY <1>2, <3>2, OwnedOnce
    <3> QED
      BY <3>1, <3>2 DEF Called
  <2>5. host'[use[d].id] = host[use[d].id]
    BY <2>3, <2>4 DEF Alone
  <2> QED
    BY <2>1, <2>2, <2>5 DEF Settled, ReleasedActive
<1>3. ASSUME MayRelease(c)'
      PROVE  use'[c].step # "releasing" /\ host'[use'[c].id].state = "active"
  <2>1. ~Selected(c, h) /\ ~Retried(c, h) /\ ~Redeployed(c, h) /\ ~Cleared(c, h)
    BY <1>3 DEF Selected, Retried, Redeployed, Cleared, MayRelease
  <2>2. Completed(c, h)
    BY <2>1 DEF Called
  <2> QED
    BY <2>2 DEF Completed
<1> QED
  BY <1>1, <1>2, <1>3 DEF Settled, ReleasedActive

LEMMA DeploySettles ==
    ASSUME TypeOK, Settled, NEW h \in Machines, FinishDeploy(h) \/ FailDeploy(h)
    PROVE  Settled'
<1>1. host[h].state = "deploying" /\ host[h].marked /\ UNCHANGED use
  BY DEF FinishDeploy, FailDeploy, Settled, AtRest
<1>2. /\ host'[h].marked
      /\ \A g \in Machines : g # h => host'[g] = host[g]
  BY <1>1, SetType, Literals DEF FinishDeploy, FailDeploy
<1>3. AtRest'
  BY <1>2 DEF Settled, AtRest
<1>4. ASSUME NEW d \in CIRs, MayRelease(d)'
      PROVE  use'[d].step # "releasing" /\ host'[use'[d].id].state = "active"
  <2>1. MayRelease(d)
    BY <1>1, <1>4 DEF MayRelease
  <2>2. use[d].id \in Machines
    BY <2>1, InCall DEF MayRelease
  <2>3. use[d].step # "releasing" /\ host[use[d].id].state = "active"
    BY <2>1 DEF Settled, ReleasedActive
  <2>4. host'[use[d].id] = host[use[d].id]
    BY <1>1, <1>2, <2>2, <2>3
  <2> QED
    BY <1>1, <2>3, <2>4
<1> QED
  BY <1>3, <1>4 DEF Settled, ReleasedActive

LEMMA UseSettles ==
    ASSUME TypeOK, Settled, NEW c \in CIRs, UseHost(c)
    PROVE  Settled'
<1>1. PICK h : h = use[c].id
  OBVIOUS
<1>2. h \in Machines /\ use[c].step = "available" /\ UNCHANGED host /\ Name(c, "in use", h)
  BY <1>1, InCall DEF UseHost, ClientUse
<1>3. "in use" \in Steps \ {"none"}
  BY Literals
<1>4. /\ use'[c].step = "in use" /\ use'[c].id = h
      /\ \A d \in CIRs : d # c => use'[d] = use[d]
  BY <1>2, <1>3, NameType
<1>5. MayRelease(c)
  BY <1>2 DEF MayRelease
<1> QED
  BY <1>1, <1>2, <1>4, <1>5 DEF Settled, AtRest, ReleasedActive, MayRelease

SettledInv == MarksCount => Settled

LEMMA SettledStep == IInv /\ SettledInv /\ [Next]_vars => SettledInv'
<1> SUFFICES ASSUME IInv, SettledInv, [Next]_vars, MarksCount'
             PROVE  Settled'
  BY DEF SettledInv
<1>1. TypeOK /\ MarksCount /\ HostInv /\ Settled
  BY MarksCounted DEF IInv, SettledInv
<1>2. CASE UNCHANGED vars
  BY <1>1, <1>2 DEF vars, callVars, Settled, AtRest, ReleasedActive, MayRelease
<1>3. ASSUME NEW c \in CIRs, ProviderCall(c)
      PROVE  Settled'
  BY <1>1, <1>3, CallEffect, CallSettles
<1> QED
  BY <1>1, <1>2, <1>3, DeploySettles, UseSettles DEF Next, ProviderCall

LEMMA SettledInvariant == Spec => []SettledInv
<1>1. Init => SettledInv
  <2> SUFFICES ASSUME Init PROVE Settled
    BY DEF SettledInv
  <2>1. \A h \in Machines : host[h] \in
            { [marked |-> FALSE, state |-> s] : s \in {"fresh", "active"} }
    BY DEF Init
  <2>2. \A c \in CIRs : use[c].step = "none"
    BY DEF Init, CallsInit, Unused
  <2>3. AtRest
    <3> SUFFICES ASSUME NEW h \in Machines PROVE host[h].state \in {"fresh", "active"}
      BY DEF AtRest
    <3>1. PICK s \in {"fresh", "active"} : host[h] = [marked |-> FALSE, state |-> s]
      BY <2>1
    <3> QED
      BY <3>1
  <2>4. ReleasedActive
    BY <2>2 DEF ReleasedActive, MayRelease
  <2> QED
    BY <2>3, <2>4 DEF Settled
<1> QED
  BY <1>1, InitIInv, NextIInv, SettledStep, PTL DEF Spec

-----------------------------------------------------------------------------
(* The contract: what the reconciler may take every host for.              *)

StatesKnown ==
    \A h \in Machines :
        /\ ~host[h].marked => ContractState(h) = "absent"
        /\ host[h].marked /\ (\A c \in CIRs : use[c].id # h) => ContractState(h) = "building"
        /\ \A c \in CIRs : use[c].id = h =>
              /\ host[h].state \in {"fresh", "active"} => ContractState(h) = "ready"
              /\ host[h].state \notin {"fresh", "active"} =>
                    ContractState(h) = IF use[c].step = "acquiring" THEN "building"
                                       ELSE "cleaning"

LEMMA StatesAreKnown == TypeOK /\ HostInv => StatesKnown
<1> SUFFICES ASSUME TypeOK, HostInv, NEW h \in Machines
             PROVE  /\ ~host[h].marked => ContractState(h) = "absent"
                    /\ host[h].marked /\ (\A c \in CIRs : use[c].id # h) =>
                          ContractState(h) = "building"
                    /\ \A c \in CIRs : use[c].id = h =>
                          /\ host[h].state \in {"fresh", "active"} => ContractState(h) = "ready"
                          /\ host[h].state \notin {"fresh", "active"} =>
                                ContractState(h) = IF use[c].step = "acquiring" THEN "building"
                                                   ELSE "cleaning"
  BY DEF StatesKnown
<1>1. ~host[h].marked => ContractState(h) = "absent"
  BY DEF ContractState
<1>2. host[h].marked /\ (\A c \in CIRs : use[c].id # h) => ContractState(h) = "building"
  BY DEF ContractState, Named
<1>3. ASSUME NEW c \in CIRs, use[c].id = h
      PROVE  /\ host[h].state \in {"fresh", "active"} => ContractState(h) = "ready"
             /\ host[h].state \notin {"fresh", "active"} =>
                   ContractState(h) = IF use[c].step = "acquiring" THEN "building"
                                      ELSE "cleaning"
  <2>1. host[h].marked /\ Named(h) /\ \A d \in CIRs : use[d].id = h => d = c
    BY <1>3, OwnedOnce DEF Named
  <2>2. [step |-> "acquiring", id |-> h] \in { use[d] : d \in CIRs } <=> use[c].step = "acquiring"
    <3>1. ASSUME NEW d \in CIRs, [step |-> "acquiring", id |-> h] = use[d]
          PROVE  use[c].step = "acquiring"
      <4>1. use[d].id = h /\ use[d].step = "acquiring"
        BY <3>1
      <4> QED
        BY <2>1, <4>1
    <3>2. use[c] = [step |-> use[c].step, id |-> use[c].id]
      BY DEF TypeOK, CallsTypeOK
    <3> QED
      BY <1>3, <3>1, <3>2
  <2> QED
    BY <2>1, <2>2 DEF ContractState
<1> QED
  BY <1>1, <1>2, <1>3

LEMMA KnownBeforeAndAfter ==
    ASSUME IInv, IInv', [Next]_vars, MarksCount'
    PROVE  StatesKnown /\ StatesKnown'
<1>1. TypeOK' /\ HostInv' => StatesKnown'
  BY StatesAreKnown, PTL
<1> QED
  BY <1>1, StatesAreKnown, MarksCounted DEF IInv

\* A host that a step does not touch is taken for what it was taken for.
LEMMA Elsewhere ==
    ASSUME StatesKnown, StatesKnown', NEW g \in Machines, host'[g] = host[g],
           \A c \in CIRs : use'[c] = use[c] \/ (use[c].id # g /\ use'[c].id # g)
    PROVE  ContractState(g)' = ContractState(g)
<1>1. CASE ~host[g].marked
  BY <1>1 DEF StatesKnown
<1>2. CASE host[g].marked /\ \A c \in CIRs : use[c].id # g
  BY <1>2 DEF StatesKnown
<1>3. ASSUME NEW c \in CIRs, use[c].id = g
      PROVE  ContractState(g)' = ContractState(g)
  <2>1. use'[c] = use[c]
    BY <1>3
  <2> QED
    BY <1>3, <2>1 DEF StatesKnown
<1> QED
  BY <1>1, <1>2, <1>3

InstNow == [h \in Machines |-> ContractState(h)]
DirtyNow == { h \in dirty : ContractState(h) # "building" }

\* What a step makes of the one host it touches.
LEMMA ContractStep ==
    ASSUME TypeOK, NEW h \in Machines,
           \A g \in Machines : g # h => /\ ContractState(g)' = ContractState(g)
                                        /\ g \in dirty' <=> g \in dirty,
           dirty' \subseteq Machines,
           NEW old, old = ContractState(h), NEW new, new = ContractState(h)',
           \/ old = "absent" /\ new = "building"
           \/ old = "ready" /\ new \in {"cleaning", "absent"} /\ (h \in dirty' <=> h \in dirty)
           \/ old \in {"building", "cleaning"} /\ new = "ready" /\ h \notin dirty'
           \/ old = "ready" /\ new = "ready" /\ h \in dirty'
    PROVE  Contract!ProviderNext
<1>1. /\ InstNow[h] = old /\ InstNow' = [InstNow EXCEPT ![h] = new]
      /\ \A g \in Machines : InstNow[g] = ContractState(g)
  BY DEF InstNow
<1>2. DirtyNow \subseteq Machines /\ DirtyNow' \subseteq Machines
  BY DEF DirtyNow, TypeOK, CallsTypeOK
<1>3. /\ h \in DirtyNow <=> h \in dirty /\ old # "building"
      /\ h \in DirtyNow' <=> h \in dirty' /\ new # "building"
      /\ \A g \in Machines : g # h => (g \in DirtyNow' <=> g \in DirtyNow)
  BY DEF DirtyNow
<1>4. CASE old = "absent" /\ new = "building"
  <2>1. h \in Contract!Acquirable({})
    BY <1>1, <1>4 DEF Contract!Acquirable, Contract!Alive, InstNow
  <2>2. DirtyNow' = DirtyNow \ {h}
    BY <1>2, <1>3, <1>4
  <2>3. Contract!Acquire(h)
    BY <1>1, <1>4, <2>2 DEF Contract!Acquire, InstNow, DirtyNow
  <2> QED
    BY <2>1, <2>3 DEF Contract!ProviderNext
<1>5. CASE old = "ready" /\ new = "cleaning" /\ (h \in dirty' <=> h \in dirty)
  <2>1. DirtyNow' = DirtyNow
    BY <1>2, <1>3, <1>5
  <2>2. Contract!Clean(h)
    BY <1>1, <1>5, <2>1 DEF Contract!Clean, Contract!Alive, InstNow, DirtyNow
  <2> QED
    BY <2>2 DEF Contract!ProviderNext
<1>6. CASE old = "ready" /\ new = "absent" /\ (h \in dirty' <=> h \in dirty)
  <2>1. DirtyNow' = DirtyNow
    BY <1>2, <1>3, <1>6
  <2>2. InstNow' = [j \in Machines |-> IF j = h THEN "absent" ELSE InstNow[j]]
    BY <1>1, <1>6 DEF InstNow
  <2>3. Contract!Release(h) /\ Contract!ReleaseAccepted(h)
    BY <2>1, <2>2 DEF Contract!Release, Contract!ReleaseAccepted, InstNow, DirtyNow
  <2> QED
    BY <2>3 DEF Contract!ProviderNext
<1>7. CASE old = "building" /\ new = "ready" /\ h \notin dirty'
  <2>1. DirtyNow' = DirtyNow
    BY <1>2, <1>3, <1>7
  <2>2. Contract!FinishBuild(h)
    BY <1>1, <1>7, <2>1 DEF Contract!FinishBuild, InstNow, DirtyNow
  <2> QED
    BY <2>2 DEF Contract!ProviderNext
<1>8. CASE old = "cleaning" /\ new = "ready" /\ h \notin dirty'
  <2>1. DirtyNow' = DirtyNow \ {h}
    BY <1>2, <1>3, <1>8
  <2>2. Contract!FinishClean(h)
    BY <1>1, <1>8, <2>1 DEF Contract!FinishClean, InstNow, DirtyNow
  <2> QED
    BY <2>2 DEF Contract!ProviderNext
<1>9. CASE old = "ready" /\ new = "ready" /\ h \in dirty'
  <2>1. DirtyNow' = DirtyNow \union {h}
    BY <1>2, <1>3, <1>9
  <2>2. InstNow' = InstNow
    BY <1>1, <1>9 DEF InstNow
  <2>3. Contract!Use(h)
    BY <1>1, <1>9, <2>1, <2>2 DEF Contract!Use, Contract!Alive, InstNow, DirtyNow
  <2> QED
    BY <2>3 DEF Contract!ProviderNext
<1> QED
  BY <1>4, <1>5, <1>6, <1>7, <1>8, <1>9

LEMMA ContractStutter ==
    ASSUME TypeOK, dirty' \subseteq Machines,
           \A g \in Machines :
               /\ ContractState(g)' = ContractState(g)
               /\ ContractState(g) # "building" => (g \in dirty' <=> g \in dirty)
    PROVE  UNCHANGED Contract!providerVars
<1>1. InstNow' = InstNow
  BY DEF InstNow
<1>2. DirtyNow' = DirtyNow
  BY DEF DirtyNow, TypeOK, CallsTypeOK
<1> QED
  BY <1>1, <1>2 DEF Contract!providerVars, InstNow, DirtyNow

(* Every call is a step of the contract on its one host, or none.          *)
LEMMA CallKeepsContract ==
    ASSUME TypeOK, HostInv, Settled, StatesKnown, StatesKnown', UNCHANGED dirty,
           NEW c \in CIRs, NEW h \in Machines, Called(c, h), Alone(c, h)
    PROVE  Contract!ProviderNext \/ UNCHANGED Contract!providerVars
<1>1. dirty' \subseteq Machines /\ host[h].state \in HostStates
  BY DEF TypeOK, CallsTypeOK
<1>2. \A g \in Machines : g # h => ContractState(g)' = ContractState(g)
  <2> SUFFICES ASSUME NEW g \in Machines, g # h PROVE ContractState(g)' = ContractState(g)
    OBVIOUS
  <2>1. host'[g] = host[g]
    BY DEF Alone
  <2>2. ASSUME NEW d \in CIRs
        PROVE  use'[d] = use[d] \/ (use[d].id # g /\ use'[d].id # g)
    <3>1. CASE d # c
      BY <3>1 DEF Alone
    <3>2. CASE Selected(c, h)
      <4>1. use[c].id = NoMachine
        BY <3>2 DEF Selected, TypeOK, CallsTypeOK
      <4> QED
        BY <3>1, <3>2, <4>1, CallsAssumption DEF Selected
    <3>3. CASE use[c].id = h
      BY <3>1, <3>3, CallsAssumption DEF Called, Selected, Completed, Retried, Redeployed, Cleared
    <3> QED
      BY <3>2, <3>3 DEF Called
  <2> QED
    BY <2>1, <2>2, Elsewhere
<1>3. PICK old : old = ContractState(h)
  OBVIOUS
<1>4. PICK new : new = ContractState(h)'
  OBVIOUS
<1>5. ASSUME new = old PROVE UNCHANGED Contract!providerVars
  BY <1>1, <1>2, <1>3, <1>4, <1>5, ContractStutter
<1>6. CASE Selected(c, h)
  <2>1. old = "absent"
    BY <1>3, <1>6 DEF Selected, StatesKnown
  <2>2. new = "building"
    <3>1. CASE use'[c].step = "acquiring" /\ use'[c].id = h /\ host'[h].state = "deploying"
      BY <1>4, <3>1 DEF StatesKnown
    <3>2. CASE use' = use
      BY <1>4, <1>6, <3>2, UnmarkedUnowned DEF StatesKnown, Selected
    <3> QED
      BY <1>6, <3>1, <3>2 DEF Selected
  <2> QED
    BY <1>1, <1>2, <1>3, <1>4, <2>1, <2>2, ContractStep
<1>7. CASE use[c].id = h /\ Completed(c, h)
  <2>1. old = "ready" /\ new = "ready"
    BY <1>3, <1>4, <1>7 DEF Completed, StatesKnown
  <2> QED
    BY <1>5, <2>1
<1>8. CASE use[c].id = h /\ Retried(c, h)
  <2>1. /\ old = IF use[c].step = "acquiring" THEN "building" ELSE "cleaning"
        /\ new = IF use[c].step = "acquiring" THEN "building" ELSE "cleaning"
    BY <1>3, <1>4, <1>8 DEF Retried, StatesKnown
  <2> QED
    BY <1>5, <2>1
<1>9. CASE use[c].id = h /\ Redeployed(c, h)
  <2>1. CASE host'[h].state = "deploying" /\ use'[c].step \in {"in use", "cleaning"}
             /\ use'[c].id = h
    <3>1. new = "cleaning"
      BY <1>4, <2>1 DEF StatesKnown
    <3>2. old = IF host[h].state \in {"fresh", "active"} THEN "ready" ELSE "cleaning"
      BY <1>3, <1>9 DEF Redeployed, StatesKnown
    <3>3. CASE host[h].state \in {"fresh", "active"}
      BY <1>1, <1>2, <1>3, <1>4, <3>1, <3>2, <3>3, ContractStep
    <3>4. CASE host[h].state \notin {"fresh", "active"}
      BY <1>5, <3>1, <3>2, <3>4
    <3> QED
      BY <3>3, <3>4
  <2>2. CASE host'[h].state = host[h].state /\ use' = use
    <3>1. new = old
      BY <1>3, <1>4, <1>9, <2>2 DEF StatesKnown
    <3> QED
      BY <1>5, <3>1
  <2> QED
    BY <1>9, <2>1, <2>2 DEF Redeployed
<1>10. CASE use[c].id = h /\ Cleared(c, h)
  <2>1. host[h].state = "active"
    BY <1>10 DEF Cleared, Settled, ReleasedActive
  <2>2. old = "ready" /\ new = "absent"
    BY <1>3, <1>4, <1>10, <2>1 DEF Cleared, StatesKnown
  <2> QED
    BY <1>1, <1>2, <1>3, <1>4, <2>2, ContractStep
<1> QED
  BY <1>6, <1>7, <1>8, <1>9, <1>10 DEF Called

LEMMA DeployKeepsContract ==
    ASSUME TypeOK, HostInv, Settled, StatesKnown, StatesKnown',
           NEW h \in Machines, FinishDeploy(h) \/ FailDeploy(h)
    PROVE  Contract!ProviderNext \/ UNCHANGED Contract!providerVars
<1>1. /\ host[h].state = "deploying" /\ host[h].marked /\ use' = use
      /\ dirty' \subseteq dirty /\ dirty \subseteq Machines
      /\ \A g \in Machines : g # h => (g \in dirty' <=> g \in dirty)
  BY DEF FinishDeploy, FailDeploy, Settled, AtRest, TypeOK, CallsTypeOK
<1>2. /\ host'[h].marked
      /\ \A g \in Machines : g # h => host'[g] = host[g]
      /\ FinishDeploy(h) => host'[h].state = "active" /\ h \notin dirty'
      /\ FailDeploy(h) => host'[h].state = "deploy failed" /\ dirty' = dirty
  BY <1>1, SetType, Literals DEF FinishDeploy, FailDeploy
<1>3. \A g \in Machines : g # h => ContractState(g)' = ContractState(g)
  BY <1>1, <1>2, Elsewhere
<1>4. PICK old : old = ContractState(h)
  OBVIOUS
<1>5. PICK new : new = ContractState(h)'
  OBVIOUS
<1>6. CASE \A c \in CIRs : use[c].id # h
  <2>1. old = "building" /\ new = "building"
    BY <1>1, <1>2, <1>4, <1>5, <1>6 DEF StatesKnown
  <2> QED
    BY <1>1, <1>3, <1>4, <1>5, <2>1, ContractStutter
<1>7. ASSUME NEW c \in CIRs, use[c].id = h
      PROVE  Contract!ProviderNext \/ UNCHANGED Contract!providerVars
  <2>1. old = IF use[c].step = "acquiring" THEN "building" ELSE "cleaning"
    BY <1>1, <1>4, <1>7 DEF StatesKnown
  <2>2. CASE FinishDeploy(h)
    <3>1. new = "ready"
      BY <1>1, <1>2, <1>5, <1>7, <2>2 DEF StatesKnown
    <3> QED
      BY <1>1, <1>2, <1>3, <1>4, <1>5, <2>1, <2>2, <3>1, ContractStep
  <2>3. CASE FailDeploy(h)
    <3>1. new = old
      <4>1. use'[c].id = h /\ use'[c].step = use[c].step
        BY <1>1, <1>7
      <4>2. host'[h].state \notin {"fresh", "active"}
        BY <1>2, <2>3
      <4>3. new = IF use'[c].step = "acquiring" THEN "building" ELSE "cleaning"
        BY <1>5, <4>1, <4>2 DEF StatesKnown
      <4> QED
        BY <2>1, <4>1, <4>3
    <3> QED
      BY <1>1, <1>2, <1>3, <1>4, <1>5, <2>3, <3>1, ContractStutter
  <2> QED
    BY <2>2, <2>3
<1> QED
  BY <1>6, <1>7

LEMMA UseKeepsContract ==
    ASSUME TypeOK, HostInv, Settled, StatesKnown, StatesKnown', NEW c \in CIRs, UseHost(c)
    PROVE  Contract!ProviderNext
<1>1. PICK h : h = use[c].id
  OBVIOUS
<1>2. /\ h \in Machines /\ use[c].step = "available" /\ host' = host /\ Name(c, "in use", h)
      /\ dirty' = dirty \union {h} /\ dirty \subseteq Machines
  BY <1>1, InCall DEF UseHost, ClientUse, TypeOK, CallsTypeOK
<1>3. "in use" \in Steps \ {"none"}
  BY Literals
<1>4. use'[c].id = h /\ \A d \in CIRs : d # c => use'[d] = use[d]
  BY <1>2, <1>3, NameType
<1>5. host[h].state = "active"
  BY <1>1, <1>2 DEF Settled, ReleasedActive, MayRelease
<1>6. PICK old : old = ContractState(h)
  OBVIOUS
<1>7. PICK new : new = ContractState(h)'
  OBVIOUS
<1>8. old = "ready" /\ new = "ready"
  BY <1>1, <1>2, <1>4, <1>5, <1>6, <1>7 DEF StatesKnown
<1>9. \A g \in Machines : g # h => ContractState(g)' = ContractState(g)
  BY <1>1, <1>2, <1>4, Elsewhere
<1> QED
  BY <1>2, <1>6, <1>7, <1>8, <1>9, ContractStep

(* While the marks count, a pool of hosts does only what the reconciler is *)
(* modelled to expect of a provider: a host is ready only once it has been *)
(* deployed, its data goes when it is deployed anew, and releasing it      *)
(* makes it one that may be acquired again.                                *)
THEOREM HostsKeepContract == Spec => KeepsContract
<1>1. IInv /\ IInv' /\ SettledInv /\ [Next]_vars =>
        [ MarksCount' => Contract!ProviderNext ]_(Contract!providerVars)
  <2> SUFFICES ASSUME IInv, IInv', SettledInv, [Next]_vars, MarksCount'
               PROVE  Contract!ProviderNext \/ UNCHANGED Contract!providerVars
    OBVIOUS
  <2>1. TypeOK /\ MarksCount /\ HostInv /\ Settled /\ StatesKnown /\ StatesKnown'
    BY MarksCounted, KnownBeforeAndAfter DEF IInv, SettledInv
  <2>2. CASE UNCHANGED vars
    <3>1. /\ host' = host /\ use' = use /\ dirty' = dirty /\ dirty' \subseteq Machines
      BY <2>1, <2>2 DEF vars, callVars, TypeOK, CallsTypeOK
    <3>2. \A g \in Machines : ContractState(g)' = ContractState(g)
      BY <2>1, <3>1, Elsewhere
    <3> QED
      BY <2>1, <3>1, <3>2, ContractStutter
  <2>3. ASSUME NEW c \in CIRs, ProviderCall(c)
        PROVE  Contract!ProviderNext \/ UNCHANGED Contract!providerVars
    BY <2>1, <2>3, CallEffect, CallKeepsContract
  <2> QED
    BY <2>1, <2>2, <2>3, DeployKeepsContract, UseKeepsContract DEF Next, ProviderCall
<1> QED
  BY <1>1, InitIInv, NextIInv, SettledInvariant, PTL DEF Spec, KeepsContract
-----------------------------------------------------------------------------
(* The marks that are left at hosts nobody names.                          *)

Left == { h \in Machines : host[h].marked /\ ~Named(h) }

MarkLosses == { "refused", "ignored", "lost" }

\* c names h afterwards, or has cleared its mark; or nobody has marked it.
LEMMA MarkKept ==
    ASSUME TypeOK, NEW c \in CIRs, NEW h \in Machines, use[c].id \in {h, NoMachine},
           \A d \in CIRs : d # c => use'[d] = use[d],
           \A g \in Machines : g # h => host'[g] = host[g],
           \/ use'[c].id = h
           \/ use' = use /\ (host'[h].marked => host[h].marked)
           \/ ~host'[h].marked
    PROVE  Left' \subseteq Left
<1> SUFFICES ASSUME NEW g \in Machines, host'[g].marked, ~Named(g)'
             PROVE  host[g].marked /\ ~Named(g)
  BY DEF Left
<1>1. \A d \in CIRs : use'[d].id # g
  BY DEF Named
<1>2. CASE g = h
  <2>1. use' = use /\ host[g].marked
    BY <1>1, <1>2
  <2> QED
    BY <1>1, <2>1 DEF Named
<1>3. CASE g # h
  <2>1. use[c].id # g
    BY <1>3, CallsAssumption
  <2>2. \A d \in CIRs : use[d].id # g
    BY <1>1, <2>1
  <2> QED
    BY <1>3, <2>2 DEF Named
<1> QED
  BY <1>2, <1>3

\* Whatever goes wrong, it is about the host of the call.
LEMMA MarkLeft ==
    ASSUME TypeOK, NEW c \in CIRs, NEW h \in Machines, use[c].id \in {h, NoMachine},
           \A d \in CIRs : d # c => use'[d] = use[d],
           \A g \in Machines : g # h => host'[g] = host[g]
    PROVE  Left' \subseteq Left \union {h}
<1> SUFFICES ASSUME NEW g \in Machines, g # h, host'[g].marked, ~Named(g)'
             PROVE  host[g].marked /\ ~Named(g)
  BY DEF Left
<1>1. \A d \in CIRs : use'[d].id # g
  BY DEF Named
<1>2. use[c].id # g
  BY CallsAssumption
<1>3. \A d \in CIRs : use[d].id # g
  BY <1>1, <1>2
<1> QED
  BY <1>3 DEF Named

LEMMA AcquireMarks ==
    ASSUME TypeOK, NEW c \in CIRs, AcquireNode(c) \/ AcquireHost(c)
    PROVE  \/ Left' \subseteq Left /\ mishaps \subseteq mishaps'
           \/ \E h, e : /\ Left' \subseteq Left \union {h}
                        /\ e \in MarkLosses /\ Happens(e)
<1>1. use[c].step = "none" /\ use[c].id = NoMachine
  BY DEF AcquireNode, AcquireHost, MayAcquire, TypeOK, CallsTypeOK
<1>2. PICK h \in Machines :
         /\ \E marked \in BOOLEAN, state \in HostStates : Set(h, marked, state)
         /\ \/ Name(c, "acquiring", h) /\ (AllWell \/ Happens("ignored"))
            \/ use' = use /\ (Happens("refused") \/ Happens("lost"))
  <2>1. CASE AcquireNode(c)
    <3>1. PICK h \in Machines :
             /\ deployNode(h) \/ deployNodeUnmarked(h) \/ deployNodeRefused(h)
             /\ \/ Name(c, "acquiring", h) /\ (AllWell \/ Happens("ignored"))
                \/ use' = use /\ (Happens("refused") \/ Happens("lost"))
      BY <2>1 DEF AcquireNode
    <3>2. host[h].marked \in BOOLEAN /\ host[h].state \in HostStates /\ "deploying" \in HostStates
      BY Literals DEF TypeOK
    <3>3. \E marked \in BOOLEAN, state \in HostStates : Set(h, marked, state)
      BY <3>1, <3>2 DEF deployNode, deployNodeUnmarked, deployNodeRefused
    <3> QED
      BY <3>1, <3>3
  <2>2. CASE AcquireHost(c)
    <3>1. PICK h \in Machines : getAvailableHost(c, h)
      BY <2>2 DEF AcquireHost
    <3>2. host[h].state \in HostStates /\ "deploying" \in HostStates
      BY Literals DEF TypeOK
    <3>3. \E marked \in BOOLEAN, state \in HostStates : Set(h, marked, state)
      BY <3>1, <3>2 DEF getAvailableHost
    <3> QED
      BY <3>1, <3>3 DEF getAvailableHost
  <2> QED
    BY <2>1, <2>2
<1>3. \A g \in Machines : g # h => host'[g] = host[g]
  BY <1>2, SetType
<1>4. CASE Name(c, "acquiring", h) /\ (AllWell \/ Happens("ignored"))
  <2>1. use'[c].id = h /\ \A d \in CIRs : d # c => use'[d] = use[d]
    BY <1>4, NameType, Literals
  <2>2. mishaps \subseteq mishaps'
    BY <1>4 DEF AllWell, Happens
  <2> QED
    BY <1>1, <1>3, <2>1, <2>2, MarkKept
<1>5. CASE use' = use /\ (Happens("refused") \/ Happens("lost"))
  <2>1. Left' \subseteq Left \union {h}
    BY <1>1, <1>3, <1>5, MarkLeft
  <2> QED
    BY <1>5, <2>1 DEF MarkLosses
<1> QED
  BY <1>2, <1>4, <1>5

\* The calls for a host that a CIResource names, but for the release of a node.
LEMMA CallMarks ==
    ASSUME TypeOK, NEW c \in CIRs,
           \/ NodeCompleted(c) \/ CleanNode(c) \/ HostCompleted(c) \/ CleanHost(c)
           \/ ReleaseHost(c) \/ UseHost(c)
    PROVE  Left' \subseteq Left /\ mishaps \subseteq mishaps'
<1> DEFINE h == use[c].id
<1>1. h \in Machines /\ host[h].marked \in BOOLEAN /\ host[h].state \in HostStates
      /\ "deploying" \in HostStates
  BY InCall, Literals DEF NodeCompleted, CleanNode, HostCompleted, CleanHost, ReleaseHost, UseHost,
     MayComplete, MayClean, MayRelease, ClientUse
<1>2. \A g \in Machines : g # h => host'[g] = host[g]
  <2>1. host' = host \/ \E marked \in BOOLEAN, state \in HostStates : Set(h, marked, state)
    BY <1>1 DEF NodeCompleted, CleanNode, HostCompleted, CleanHost, ReleaseHost, UseHost,
       deployNode, deployNodeUnmarked, deployNodeRefused
  <2> QED
    BY <1>1, <2>1, SetType
<1>3. \/ use' = use
      \/ \E step \in Steps \ {"none"} : Name(c, step, h)
      \/ Forget(c) /\ ~host'[h].marked
  <2>1. CASE ReleaseHost(c)
    <3>1. ~host'[h].marked
      BY <1>1, <2>1, SetType DEF ReleaseHost
    <3> QED
      BY <2>1, <3>1, Literals DEF ReleaseHost, Released
  <2>2. CASE ~ReleaseHost(c)
    BY <2>2, Literals DEF NodeCompleted, CleanNode, HostCompleted, CleanHost, UseHost,
       Recorded, ClientUse
  <2> QED
    BY <2>1, <2>2
<1>4. mishaps \subseteq mishaps'
  BY DEF NodeCompleted, CleanNode, HostCompleted, CleanHost, ReleaseHost, UseHost,
     Recorded, Released, ClientUse, AllWell, Happens
<1>5. CASE use' = use
  BY <1>1, <1>2, <1>4, <1>5, MarkKept
<1>6. ASSUME NEW step \in Steps \ {"none"}, Name(c, step, h)
      PROVE  Left' \subseteq Left
  <2>1. use'[c].id = h /\ \A d \in CIRs : d # c => use'[d] = use[d]
    BY <1>1, <1>6, NameType
  <2> QED
    BY <1>1, <1>2, <2>1, MarkKept
<1>7. CASE Forget(c) /\ ~host'[h].marked
  <2>1. \A d \in CIRs : d # c => use'[d] = use[d]
    BY <1>7, ForgetType
  <2> QED
    BY <1>1, <1>2, <1>4, <1>7, <2>1, MarkKept
<1> QED
  BY <1>3, <1>4, <1>5, <1>6, <1>7

LEMMA ReleaseMarks ==
    ASSUME TypeOK, NEW c \in CIRs, ReleaseNode(c)
    PROVE  \/ Left' \subseteq Left /\ mishaps \subseteq mishaps'
           \/ \E h, e : /\ Left' \subseteq Left \union {h}
                        /\ e \in MarkLosses /\ Happens(e)
<1> DEFINE h == use[c].id
<1>1. h \in Machines /\ host[h].state \in HostStates
  BY InCall DEF ReleaseNode, MayRelease
<1>2. CASE Set(h, FALSE, host[h].state) /\ Released(c)
  <2>1. ~host'[h].marked /\ \A g \in Machines : g # h => host'[g] = host[g]
    BY <1>1, <1>2, SetType
  <2>2. \A d \in CIRs : d # c => use'[d] = use[d]
    BY <1>1, <1>2, ForgetType, NameType, Literals DEF Released
  <2>3. mishaps \subseteq mishaps'
    BY <1>2 DEF Released, AllWell, Happens
  <2> QED
    BY <1>1, <2>1, <2>2, <2>3, MarkKept
<1>3. CASE Happens("ignored") /\ Forget(c) /\ UNCHANGED host
  <2>1. \A d \in CIRs : d # c => use'[d] = use[d]
    BY <1>3, ForgetType
  <2>2. Left' \subseteq Left \union {h}
    BY <1>1, <1>3, <2>1, MarkLeft
  <2> QED
    BY <1>3, <2>2 DEF MarkLosses
<1> QED
  BY <1>2, <1>3 DEF ReleaseNode

LEMMA DeployMarks ==
    ASSUME TypeOK, NEW h \in Machines, FinishDeploy(h) \/ FailDeploy(h)
    PROVE  Left' \subseteq Left /\ mishaps \subseteq mishaps'
<1>1. host[h].marked \in BOOLEAN /\ {"active", "deploy failed"} \subseteq HostStates
  BY Literals DEF TypeOK
<1>2. use' = use /\ \A g \in Machines : host'[g].marked = host[g].marked
  BY <1>1, SetType DEF FinishDeploy, FailDeploy
<1>3. mishaps \subseteq mishaps'
  BY DEF FinishDeploy, FailDeploy, Happens
<1> QED
  BY <1>2, <1>3 DEF Left, Named

LEMMA FewLosses ==
    \A S : S \subseteq MarkLosses => IsFiniteSet(S)
<1>1. IsFiniteSet({"refused"}) /\ IsFiniteSet({"refused"} \union {"ignored"})
  BY FS_Singleton, FS_AddElement
<1>2. IsFiniteSet(({"refused"} \union {"ignored"}) \union {"lost"})
  BY <1>1, FS_AddElement
<1>3. MarkLosses = ({"refused"} \union {"ignored"}) \union {"lost"}
  BY DEF MarkLosses
<1> QED
  BY <1>2, <1>3, FS_Subset

\* A step that leaves no mark, and a mishap that leaves one.
LEMMA LossesCount ==
    ASSUME OnlyLossesKeepMarks,
           \/ Left' \subseteq Left /\ mishaps \subseteq mishaps'
           \/ \E h, e : /\ Left' \subseteq Left \union {h}
                        /\ e \in MarkLosses /\ Happens(e)
    PROVE  OnlyLossesKeepMarks'
<1> DEFINE R == mishaps \intersect MarkLosses
           Q == mishaps' \intersect MarkLosses
           T == Left'
<1>1. IsFiniteSet(Left) /\ IsFiniteSet(R) /\ IsFiniteSet(Q)
  <2>1. Left \subseteq Machines
    BY DEF Left
  <2> QED
    BY <2>1, HostAssumption, FS_Subset, FewLosses
<1>2. Cardinality(Left) <= Cardinality(R)
  BY DEF OnlyLossesKeepMarks, Left, MarkLosses
<1>3. \/ T \subseteq Left /\ R \subseteq Q
      \/ \E h, e : T \subseteq Left \union {h} /\ e \notin R /\ Q = R \union {e}
  BY DEF Happens
<1> HIDE DEF R, Q, T
<1>4. Cardinality(Left) \in Nat /\ Cardinality(R) \in Nat /\ Cardinality(Q) \in Nat
  BY <1>1, FS_CardinalityType
<1>5. CASE T \subseteq Left /\ R \subseteq Q
  <2>1. Cardinality(T) \in Nat /\ Cardinality(T) <= Cardinality(Left)
    BY <1>1, <1>5, FS_Subset, FS_CardinalityType
  <2>2. Cardinality(R) <= Cardinality(Q)
    BY <1>1, <1>5, FS_Subset
  <2>3. Cardinality(T) <= Cardinality(Q)
    BY <1>2, <1>4, <2>1, <2>2
  <2> QED
    BY <2>3 DEF T, Q, Left, MarkLosses, OnlyLossesKeepMarks
<1>6. ASSUME NEW h, NEW e, T \subseteq Left \union {h}, e \notin R, Q = R \union {e}
      PROVE  OnlyLossesKeepMarks'
  <2>1. Cardinality(Q) = Cardinality(R) + 1
    BY <1>1, <1>6, FS_AddElement
  <2>2. /\ IsFiniteSet(Left \union {h})
        /\ \/ Cardinality(Left \union {h}) = Cardinality(Left)
           \/ Cardinality(Left \union {h}) = Cardinality(Left) + 1
    BY <1>1, FS_AddElement
  <2>3. Cardinality(T) \in Nat /\ Cardinality(T) <= Cardinality(Left \union {h})
    BY <1>6, <2>2, FS_Subset, FS_CardinalityType
  <2>4. Cardinality(T) <= Cardinality(Q)
    BY <1>2, <1>4, <2>1, <2>2, <2>3
  <2> QED
    BY <2>4 DEF T, Q, Left, MarkLosses, OnlyLossesKeepMarks
<1> QED
  BY <1>3, <1>5, <1>6

(* Hosts that are taken for good are counted by what went wrong: a call    *)
(* that fails after it has set the mark, one whose result is lost, and a   *)
(* release whose error is ignored leave one mark each, and nothing else    *)
(* leaves any, even when two CIResources have come to name a host.         *)
THEOREM LossesKeepMarks == Spec => []OnlyLossesKeepMarks
<1>1. Init => OnlyLossesKeepMarks
  <2> SUFFICES ASSUME Init PROVE OnlyLossesKeepMarks
    OBVIOUS
  <2>1. \A h \in Machines : host[h].marked = FALSE
    BY DEF Init
  <2>2. { h \in Machines : host[h].marked /\ ~Named(h) } = {}
    BY <2>1
  <2>3. mishaps \intersect { "refused", "ignored", "lost" } = {}
    BY DEF Init, CallsInit
  <2>4. Cardinality({}) = 0 /\ 0 <= 0
    BY FS_EmptySet
  <2> QED
    BY <2>2, <2>3, <2>4 DEF OnlyLossesKeepMarks
<1>2. TypeOK /\ OnlyLossesKeepMarks /\ [Next]_vars => OnlyLossesKeepMarks'
  <2> SUFFICES ASSUME TypeOK, OnlyLossesKeepMarks, [Next]_vars PROVE OnlyLossesKeepMarks'
    OBVIOUS
  <2>1. CASE UNCHANGED vars
    BY <2>1 DEF vars, callVars, OnlyLossesKeepMarks, Named
  <2>2. ASSUME NEW c \in CIRs, AcquireNode(c) \/ AcquireHost(c)
        PROVE  OnlyLossesKeepMarks'
    BY <2>2, AcquireMarks, LossesCount
  <2>3. ASSUME NEW c \in CIRs,
               \/ NodeCompleted(c) \/ CleanNode(c) \/ HostCompleted(c) \/ CleanHost(c)
               \/ ReleaseHost(c) \/ UseHost(c)
        PROVE  OnlyLossesKeepMarks'
    BY <2>3, CallMarks, LossesCount
  <2>4. ASSUME NEW c \in CIRs, ReleaseNode(c) PROVE OnlyLossesKeepMarks'
    BY <2>4, ReleaseMarks, LossesCount
  <2>5. ASSUME NEW h \in Machines, FinishDeploy(h) \/ FailDeploy(h) PROVE OnlyLossesKeepMarks'
    BY <2>5, DeployMarks, LossesCount
  <2> QED
    BY <2>1, <2>2, <2>3, <2>4, <2>5 DEF Next
<1> QED
  BY <1>1, <1>2, TypeCorrect, PTL DEF Spec
=============================================================================
