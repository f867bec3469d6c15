---------------------------- MODULE OfcirAPIProofs ----------------------------
(***************************************************************************)
(* Theorems about the REST API: for any number of clients and CIResources, *)
(* any pools, tokens and priorities, and any bound on the mishaps.         *)
(***************************************************************************)
EXTENDS OfcirAPI, TLAPS

NoStray == "stray release" \notin mishaps

\* What somebody holds is in use, so that nobody can acquire it.
HeldInUse == \A k \in Clients : \A c \in held[k] : obj[c].spec = "in use"

OneHolder == \A j, k \in Clients : j # k => held[j] \intersect held[k] = {}

\* A release that will be accepted is of a lease that has not ended: the end of
\* the lease is a new version of the object.
ReleasesOwn ==
    \A k \in Clients :
        req[k].op = "release" /\ HasLatest(k, req[k].cir) => req[k].cir \in held[k]

AbsentFree == \A c \in CIRs : obj[c].phase = "absent" => obj[c].spec = "free"

LeaseInv == AbsentFree /\ (NoStray => HeldInUse /\ OneHolder /\ ReleasesOwn)

IInv == TypeOK /\ LeaseInv

\* What a handler decided on its copies is right of the objects as well, as long
\* as they have not changed: on that the refinement rests.
Decided(k) ==
    /\ req[k].op = "acquire" =>
          \A x \in req[k].todo : HasLatest(k, x[1]) =>
              obj[x[1]].phase = "available" /\ obj[x[1]].spec = "free"
    /\ req[k].op = "release" /\ HasLatest(k, req[k].cir) => obj[req[k].cir].phase = "in use"

DecidedInv == \A k \in Clients : Decided(k)

\* What the last write of a release amounts to.
GiveBack(c) ==
    \/ Release(c)
    \/ obj[c].spec = "free" /\ UNCHANGED phaseVars

-----------------------------------------------------------------------------
(* Writes.                                                                 *)

\* Any write of an object: a lease may end by it, or begin.
Writes(c, o) ==
    /\ Set(c, o)
    /\ o \in PhaseObjects
    /\ o.phase = "absent" => o.spec = "free"

\* The write ends no lease of another object, and begins one of c only when
\* nobody has one.
LeasesOf(c, o) ==
    /\ held' \in [Clients -> SUBSET CIRs]
    /\ \A k \in Clients : \A d \in CIRs : d # c => (d \in held'[k] <=> d \in held[k])
    /\ \A k \in Clients : c \in held'[k] => o.spec = "in use"
    /\ \A j, k \in Clients : c \in held'[j] /\ c \in held'[k] => j = k

\* No request becomes a release.
NoNewRelease ==
    \A k \in Clients : req'[k].op = "release" => req'[k] = req[k]

LEMMA WriteType ==
    ASSUME TypeOK, NEW c \in CIRs, NEW o, Writes(c, o)
    PROVE  PhaseTypeOK'
BY DEF TypeOK, PhaseTypeOK, Writes, Set

LEMMA WriteInv ==
    ASSUME IInv, NEW c \in CIRs, NEW o, Writes(c, o),
           req' \in [Clients -> Requests], NoNewRelease,
           mishaps \subseteq mishaps',
           NoStray => LeasesOf(c, o)
    PROVE  LeaseInv'
<1>1. obj' = [obj EXCEPT ![c] = o] /\ latest' = { p \in latest : p[2] # c }
  BY DEF Writes, Set
<1>2. obj \in [CIRs -> PhaseObjects] /\ held \in [Clients -> SUBSET CIRs]
  BY DEF IInv, TypeOK, PhaseTypeOK
<1>3. AbsentFree'
  BY <1>1, <1>2 DEF IInv, LeaseInv, AbsentFree, Writes
<1>4. ASSUME NoStray'
      PROVE  HeldInUse' /\ OneHolder' /\ ReleasesOwn'
  <2>1. HeldInUse /\ OneHolder /\ ReleasesOwn /\ LeasesOf(c, o)
    BY <1>4 DEF NoStray, IInv, LeaseInv
  <2>2. HeldInUse'
    BY <1>1, <1>2, <2>1 DEF HeldInUse, LeasesOf
  <2>3. OneHolder'
    <3>1. ASSUME NEW j \in Clients, NEW k \in Clients, j # k,
                 NEW d, d \in held'[j], d \in held'[k]
          PROVE  FALSE
      <4>1. d \in CIRs /\ d # c
        BY <2>1, <3>1 DEF LeasesOf
      <4>2. d \in held[j] /\ d \in held[k]
        BY <2>1, <3>1, <4>1 DEF LeasesOf
      <4> QED
        BY <2>1, <3>1, <4>2 DEF OneHolder
    <3> QED
      BY <3>1 DEF OneHolder
  <2>4. ASSUME NEW k \in Clients, req'[k].op = "release", HasLatest(k, req[k].cir)'
        PROVE  req'[k].cir \in held'[k]
    <3>1. req'[k] = req[k]
      BY <2>4 DEF NoNewRelease
    <3>2. <<k, req[k].cir>> \in latest /\ req[k].cir # c
      BY <1>1, <2>4, <3>1 DEF HasLatest
    <3>3. req[k].cir \in held[k]
      BY <2>1, <2>4, <3>1, <3>2 DEF ReleasesOwn, HasLatest
    <3> QED
      BY <1>2, <2>1, <3>1, <3>2, <3>3 DEF LeasesOf
  <2>5. ReleasesOwn'
    BY <2>4 DEF ReleasesOwn
  <2> QED
    BY <2>2, <2>3, <2>5
<1> QED
  BY <1>3, <1>4 DEF LeaseInv

\* A step that writes no object, and changes no lease.
LEMMA ReadInv ==
    ASSUME IInv, UNCHANGED <<obj, held>>, mishaps \subseteq mishaps',
           NoStray' => ReleasesOwn'
    PROVE  LeaseInv'
BY DEF IInv, LeaseInv, NoStray, AbsentFree, HeldInUse, OneHolder

\* The same with the copies unchanged, and no new release.
LEMMA QuietInv ==
    ASSUME IInv, UNCHANGED <<phaseVars, held>>, mishaps \subseteq mishaps', NoNewRelease
    PROVE  LeaseInv'
<1>1. NoStray' => ReleasesOwn'
  BY DEF IInv, LeaseInv, NoStray, ReleasesOwn, NoNewRelease, HasLatest, phaseVars
<1> QED
  BY <1>1, ReadInv DEF phaseVars

-----------------------------------------------------------------------------
(* Requests.                                                               *)

LEMMA AskType ==
    ASSUME TypeOK, NEW k \in Clients, NEW r \in Requests, Ask(k, r)
    PROVE  /\ req' \in [Clients -> Requests]
           /\ req'[k] = r
           /\ \A j \in Clients : j # k => req'[j] = req[j]
           /\ r.op # "release" => NoNewRelease
BY DEF TypeOK, Ask, NoNewRelease

LEMMA NoRequestType == NoRequest \in Requests /\ NoRequest.op # "release"
BY DEF NoRequest, Requests

\* The candidate that is taken off the list.
LEMMA TodoType ==
    ASSUME TypeOK, NEW k \in Clients, req[k].op = "acquire", NEW x
    PROVE  /\ req[k].todo \subseteq CIRs \X Pools
           /\ [req[k] EXCEPT !.todo = @ \ {x}] \in Requests
           /\ [req[k] EXCEPT !.todo = @ \ {x}].op # "release"
<1>1. req[k] \in [op : {"acquire"}, todo : SUBSET (CIRs \X Pools)]
  BY DEF TypeOK, Requests, NoRequest
<1> QED
  BY <1>1 DEF Requests

LEMMA PreferredType ==
    ASSUME NEW todo \in SUBSET (CIRs \X Pools)
    PROVE  \A x \in Preferred(todo) : x \in todo /\ x[1] \in CIRs
BY DEF Preferred

LEMMA ReleaseType ==
    ASSUME TypeOK, NEW k \in Clients, req[k].op = "release"
    PROVE  req[k].cir \in CIRs
BY DEF TypeOK, Requests, NoRequest

\* The updates of the handlers: the version stands for what was decided on.
LEMMA Grants ==
    ASSUME TypeOK, DecidedInv, NEW k \in Clients, req[k].op = "acquire",
           NEW x \in Preferred(req[k].todo), UpdateSpec(k, x[1], "in use")
    PROVE  Acquire(x[1])
<1>1. x \in req[k].todo
  BY TodoType, PreferredType
<1>2. obj[x[1]].phase = "available" /\ obj[x[1]].spec = "free"
  BY <1>1 DEF DecidedInv, Decided, UpdateSpec
<1> QED
  BY <1>2 DEF UpdateSpec, Acquire

LEMMA GivesBack ==
    ASSUME DecidedInv, NEW k \in Clients, req[k].op = "release",
           UpdateSpec(k, req[k].cir, "free")
    PROVE  GiveBack(req[k].cir)
BY DEF DecidedInv, Decided, UpdateSpec, GiveBack, Release

-----------------------------------------------------------------------------
(* What the writers of CIResourcePhases write.                             *)

LEMMA GoneType == Gone \in PhaseObjects /\ Gone.spec = "free"
BY DEF Gone, PhaseObjects, Phases, Specs

LEMMA ShiftWrites ==
    ASSUME IInv, NEW c \in CIRs, NEW from, NEW to \in Phases \ {"absent"}, Shift(c, from, to)
    PROVE  \E o : Writes(c, o) /\ o.spec = obj[c].spec
<1> DEFINE o == [obj[c] EXCEPT !.phase = to]
<1>1. o \in PhaseObjects /\ o.phase # "absent" /\ o.spec = obj[c].spec
  BY DEF IInv, TypeOK, PhaseTypeOK, PhaseObjects
<1> QED
  BY <1>1 DEF Writes, Shift

LEMMA SpecWrites ==
    ASSUME IInv, NEW c \in CIRs, NEW spec \in Specs, obj[c].phase # "absent",
           Set(c, [obj[c] EXCEPT !.spec = spec])
    PROVE  \E o : Writes(c, o) /\ o.spec = spec
<1> DEFINE o == [obj[c] EXCEPT !.spec = spec]
<1>1. o \in PhaseObjects /\ o.phase # "absent" /\ o.spec = spec
  BY DEF IInv, TypeOK, PhaseTypeOK, PhaseObjects
<1> QED
  BY <1>1 DEF Writes

LEMMA PhaseStepWrites ==
    ASSUME IInv, NEW c \in CIRs, PhaseStep(c)
    PROVE  \E o : /\ Writes(c, o)
                  /\ o.spec = obj[c].spec \/ TakeBack(c) \/ Remove(c)
<1>1. CASE \/ FinishProvisioning(c) \/ StartUse(c) \/ ProvisionInUse(c)
           \/ StartCleaning(c) \/ FinishCleaning(c)
           \/ StartMaintenance(c) \/ EndMaintenance(c) \/ StartDeletion(c)
  BY <1>1, ShiftWrites
  DEF FinishProvisioning, StartUse, ProvisionInUse, StartCleaning, FinishCleaning,
      StartMaintenance, EndMaintenance, StartDeletion, Phases
<1>2. CASE TakeBack(c)
  BY <1>2, SpecWrites DEF TakeBack, Specs
<1>3. CASE Remove(c)
  BY <1>3, GoneType DEF Remove, Writes
<1> QED
  BY <1>1, <1>2, <1>3 DEF PhaseStep

LEMMA AcquireWrites ==
    ASSUME IInv, NEW c \in CIRs, Acquire(c)
    PROVE  \E o : Writes(c, o) /\ o.spec = "in use" /\ obj[c].spec = "free"
BY SpecWrites DEF Acquire, Specs

LEMMA ReleaseWrites ==
    ASSUME IInv, NEW c \in CIRs, Release(c)
    PROVE  \E o : Writes(c, o)
BY SpecWrites DEF Release, Specs

LEMMA EditWrites ==
    ASSUME IInv, NEW c \in CIRs, Edit(c)
    PROVE  \E o : /\ Writes(c, o)
                  /\ o.spec = obj[c].spec \/ obj[c].spec # "in use"
<1>1. CASE Evict(c)
  <2> DEFINE o == [obj[c] EXCEPT !.evict = TRUE]
  <2>1. o \in PhaseObjects /\ o.phase = obj[c].phase /\ o.spec = obj[c].spec
    BY DEF IInv, TypeOK, PhaseTypeOK, PhaseObjects
  <2>2. o.phase # "absent"
    BY <1>1, <2>1 DEF Evict, Evictable
  <2> QED
    BY <1>1, <2>1, <2>2 DEF Evict, Writes
<1>2. CASE Delete(c)
  <2> DEFINE o == [obj[c] EXCEPT !.del = TRUE]
  <2>1. o \in PhaseObjects /\ o.phase = obj[c].phase /\ o.spec = obj[c].spec
    BY DEF IInv, TypeOK, PhaseTypeOK, PhaseObjects
  <2>2. o.phase # "absent"
    BY <1>2, <2>1 DEF Delete
  <2>3. CASE Set(c, o)
    BY <2>1, <2>2, <2>3 DEF Writes
  <2>4. CASE obj[c].spec # "in use" /\ Set(c, Gone)
    BY <2>4, GoneType DEF Writes
  <2> QED
    BY <1>2, <2>3, <2>4 DEF Delete
<1>3. CASE obj[c].spec = "free" /\ RequestMaintenance(c)
  BY <1>3, SpecWrites DEF RequestMaintenance, Specs
<1>4. CASE RequestResume(c)
  <2>1. obj[c].phase # "absent"
    BY <1>4 DEF RequestResume, IInv, LeaseInv, AbsentFree
  <2> QED
    BY <1>4, <2>1, SpecWrites DEF RequestResume, Specs
<1> QED
  BY <1>1, <1>2, <1>3, <1>4 DEF Edit

-----------------------------------------------------------------------------
(* Leases.                                                                 *)

\* Nobody holds an object that is written over, or nobody loses it.
LEMMA HeldKept ==
    ASSUME IInv, NoStray, NEW c \in CIRs, NEW o, UNCHANGED held,
           o.spec = obj[c].spec \/ obj[c].spec # "in use"
    PROVE  LeasesOf(c, o)
<1>1. held \in [Clients -> SUBSET CIRs]
  BY DEF IInv, TypeOK
<1>2. HeldInUse /\ OneHolder
  BY DEF IInv, LeaseInv
<1> QED
  BY <1>1, <1>2 DEF LeasesOf, HeldInUse, OneHolder

LEMMA HeldByNone ==
    ASSUME IInv, NEW c \in CIRs, NEW o, held' = [k \in Clients |-> held[k] \ {c}]
    PROVE  LeasesOf(c, o)
BY DEF LeasesOf, IInv, TypeOK

\* k gives up what it alone holds.
LEMMA HeldNoMore ==
    ASSUME IInv, NoStray, NEW c \in CIRs, NEW o, NEW k \in Clients, c \in held[k],
           held' = [held EXCEPT ![k] = @ \ {c}]
    PROVE  LeasesOf(c, o)
<1>1. held \in [Clients -> SUBSET CIRs]
  BY DEF IInv, TypeOK
<1>2. OneHolder
  BY DEF IInv, LeaseInv
<1>3. \A j \in Clients : c \notin held'[j]
  BY <1>1, <1>2 DEF OneHolder
<1> QED
  BY <1>1, <1>3 DEF LeasesOf

LEMMA HeldNow ==
    ASSUME IInv, NoStray, NEW c \in CIRs, NEW o, NEW k \in Clients,
           obj[c].spec # "in use", o.spec = "in use",
           held' = [held EXCEPT ![k] = @ \union {c}]
    PROVE  LeasesOf(c, o)
<1>1. held \in [Clients -> SUBSET CIRs]
  BY DEF IInv, TypeOK
<1>2. \A j \in Clients : c \notin held[j]
  BY DEF IInv, LeaseInv, HeldInUse
<1>3. \A j \in Clients : c \in held'[j] => j = k
  BY <1>1, <1>2
<1> QED
  BY <1>1, <1>3 DEF LeasesOf

LEMMA HeldType ==
    ASSUME TypeOK, NEW k \in Clients, NEW c \in CIRs
    PROVE  /\ [held EXCEPT ![k] = @ \union {c}] \in [Clients -> SUBSET CIRs]
           /\ [held EXCEPT ![k] = @ \ {c}] \in [Clients -> SUBSET CIRs]
           /\ [j \in Clients |-> held[j] \ {c}] \in [Clients -> SUBSET CIRs]
BY DEF TypeOK

-----------------------------------------------------------------------------
(* The actions.  NextInv has a case for each, and a lemma for each that is *)
(* not a mere read or answer.                                              *)

\* A step that writes nothing: requests and copies may change.
LEMMA TypeUnwritten ==
    ASSUME IInv, UNCHANGED <<phaseVars, held>>, req' \in [Clients -> Requests],
           mishaps' \in SUBSET Mishaps
    PROVE  TypeOK'
BY DEF IInv, TypeOK, PhaseTypeOK, phaseVars

LEMMA MishapHappens ==
    ASSUME IInv, NEW m \in Mishaps, Happens(m) \/ UNCHANGED mishaps
    PROVE  mishaps' \in SUBSET Mishaps /\ mishaps \subseteq mishaps'
BY DEF IInv, TypeOK, Happens

LEMMA UnchangedReq ==
    ASSUME IInv, UNCHANGED req
    PROVE  req' \in [Clients -> Requests] /\ NoNewRelease
BY DEF IInv, TypeOK, NoNewRelease

LEMMA AnswerInv ==
    ASSUME IInv, NEW k \in Clients, Answer(k), UNCHANGED <<phaseVars, held>>,
           mishaps' \in SUBSET Mishaps, mishaps \subseteq mishaps'
    PROVE  IInv'
BY AskType, NoRequestType, TypeUnwritten, QuietInv DEF Answer, IInv

LEMMA WriteIInv ==
    ASSUME IInv, NEW c \in CIRs, NEW o, Writes(c, o),
           req' \in [Clients -> Requests], NoNewRelease,
           held' \in [Clients -> SUBSET CIRs],
           mishaps' \in SUBSET Mishaps, mishaps \subseteq mishaps',
           NoStray => LeasesOf(c, o)
    PROVE  IInv'
BY WriteType, WriteInv DEF IInv, TypeOK

LEMMA StartAcquireInv ==
    ASSUME IInv, NEW k \in Clients, StartAcquire(k)
    PROVE  IInv'
<1> DEFINE todo == { <<c, obj[c].pool>> : c \in { d \in CIRs : Candidate(k, d) } }
           r == [op |-> "acquire", todo |-> todo]
<1>1. Usable(k) \subseteq Pools
  BY APIAssumption DEF Usable
<1>2. todo \in SUBSET (CIRs \X Pools)
  BY <1>1 DEF Candidate
<1>3. r \in Requests /\ r.op # "release"
  BY <1>2 DEF Requests
<1> HIDE DEF r
<1>4. Ask(k, r)
  BY DEF StartAcquire, r
<1>5. req' \in [Clients -> Requests] /\ NoNewRelease
  BY <1>3, <1>4, AskType DEF IInv
<1>6. TypeOK'
  BY <1>5 DEF StartAcquire, Read, IInv, TypeOK, PhaseTypeOK, Clients
<1>7. ASSUME NoStray', NEW j \in Clients, req'[j].op = "release", HasLatest(j, req[j].cir)'
      PROVE  req[j].cir \in held[j] /\ req'[j] = req[j]
  <2>1. req'[j] = req[j] /\ j # k
    BY <1>3, <1>4, <1>5, <1>7, AskType DEF NoNewRelease, IInv
  <2>2. HasLatest(j, req[j].cir)
    BY <1>7, <2>1 DEF HasLatest, StartAcquire, Read
  <2> QED
    BY <1>7, <2>1, <2>2 DEF NoStray, StartAcquire, IInv, LeaseInv, ReleasesOwn
<1>8. NoStray' => ReleasesOwn'
  BY <1>5, <1>7 DEF ReleasesOwn, NoNewRelease, StartAcquire
<1> QED
  BY <1>6, <1>8, ReadInv DEF StartAcquire, IInv

LEMMA StartReleaseInv ==
    ASSUME IInv, NEW k \in Clients, NEW c \in CIRs, StartRelease(k, c)
    PROVE  IInv'
<1> DEFINE r == [op |-> "release", cir |-> c]
<1>1. r \in Requests /\ r.cir = c
  BY DEF Requests
<1> HIDE DEF r
<1>2. Ask(k, r) /\ UNCHANGED <<obj, held>>
  BY DEF StartRelease, r
<1>3. /\ req' \in [Clients -> Requests]
      /\ req'[k] = r
      /\ \A j \in Clients : j # k => req'[j] = req[j]
  BY <1>1, <1>2, AskType DEF IInv
<1>4. mishaps' \in SUBSET Mishaps /\ mishaps \subseteq mishaps'
  BY MishapHappens DEF StartRelease, Mishaps
<1>5. TypeOK'
  BY <1>2, <1>3, <1>4 DEF StartRelease, Read, IInv, TypeOK, PhaseTypeOK, Clients
<1>6. ASSUME NoStray', NEW j \in Clients, req'[j].op = "release", HasLatest(j, req[j].cir)',
             j # k
      PROVE  req'[j].cir \in held'[j]
  <2>1. HasLatest(j, req[j].cir) /\ req'[j] = req[j]
    BY <1>3, <1>6 DEF HasLatest, StartRelease, Read
  <2> QED
    BY <1>2, <1>4, <1>6, <2>1 DEF NoStray, IInv, LeaseInv, ReleasesOwn
<1>7. NoStray' => c \in held[k]
  BY DEF NoStray, StartRelease, Happens
<1>8. NoStray' => ReleasesOwn'
  BY <1>1, <1>2, <1>3, <1>6, <1>7 DEF ReleasesOwn
<1> QED
  BY <1>2, <1>4, <1>5, <1>8, ReadInv DEF IInv

LEMMA GrantInv ==
    ASSUME IInv, DecidedInv, NEW k \in Clients, req[k].op = "acquire",
           NEW x \in Preferred(req[k].todo), Grant(k, x), UNCHANGED mishaps
    PROVE  IInv'
<1> DEFINE c == x[1]
<1>c. c \in CIRs
  BY TodoType, PreferredType DEF IInv
<1>1. PICK o : Writes(c, o) /\ o.spec = "in use" /\ obj[c].spec = "free"
  BY <1>c, Grants, AcquireWrites DEF Grant, IInv
<1>2. NoStray => LeasesOf(c, o)
  BY <1>c, <1>1, HeldNow DEF Grant
<1>3. held' \in [Clients -> SUBSET CIRs]
  BY <1>c, HeldType DEF Grant, IInv
<1>4. req' \in [Clients -> Requests] /\ NoNewRelease
  BY AskType, NoRequestType DEF Grant, Answer, IInv
<1> QED
  BY <1>c, <1>1, <1>2, <1>3, <1>4, WriteIInv DEF IInv, TypeOK

\* A candidate is taken off the list.
LEMMA TriedInv ==
    ASSUME IInv, NEW k \in Clients, NEW x, req[k].op = "acquire",
           Ask(k, [req[k] EXCEPT !.todo = @ \ {x}])
    PROVE  req' \in [Clients -> Requests] /\ NoNewRelease
BY TodoType, AskType DEF IInv

LEMMA lookForAvailableResourceInv ==
    ASSUME IInv, DecidedInv, NEW k \in Clients, lookForAvailableResource(k)
    PROVE  IInv'
<1>1. req[k].op = "acquire" /\ UNCHANGED mishaps
  BY DEF lookForAvailableResource
<1>2. PICK x \in Preferred(req[k].todo) : Grant(k, x) \/ Refused(k, x)
  BY DEF lookForAvailableResource
<1>4. CASE Grant(k, x)
  BY <1>1, <1>4, GrantInv
<1>5. CASE Refused(k, x)
  BY <1>1, <1>5, TriedInv, TypeUnwritten, QuietInv DEF Refused, IInv, TypeOK
<1> QED
  BY <1>2, <1>4, <1>5

\* The end of a release: c is given back, and k no longer holds it.
LEMMA GiveBackInv ==
    ASSUME IInv, DecidedInv, NEW k \in Clients, req[k].op = "release",
           UpdateSpec(k, req[k].cir, "free"),
           held' = [held EXCEPT ![k] = @ \ {req[k].cir}], Answer(k),
           mishaps' \in SUBSET Mishaps, mishaps \subseteq mishaps'
    PROVE  IInv'
<1> DEFINE c == req[k].cir
<1>1. c \in CIRs
  BY ReleaseType DEF IInv
<1>2. NoStray => c \in held[k]
  BY DEF IInv, LeaseInv, ReleasesOwn, UpdateSpec
<1>3. held' \in [Clients -> SUBSET CIRs]
  BY <1>1, HeldType DEF IInv
<1>4. req' \in [Clients -> Requests] /\ NoNewRelease
  BY AskType, NoRequestType DEF Answer, IInv
<1>5. CASE Release(c)
  <2>1. PICK o : Writes(c, o)
    BY <1>1, <1>5, ReleaseWrites
  <2>2. NoStray => LeasesOf(c, o)
    BY <1>1, <1>2, HeldNoMore
  <2> QED
    BY <1>1, <1>3, <1>4, <2>1, <2>2, WriteIInv
<1>6. CASE obj[c].spec = "free" /\ UNCHANGED phaseVars
  <2>1. ~NoStray
    BY <1>2, <1>6 DEF IInv, LeaseInv, HeldInUse
  <2>2. LeaseInv'
    BY <1>6, <2>1 DEF LeaseInv, NoStray, IInv, AbsentFree, phaseVars
  <2> QED
    BY <1>3, <1>4, <1>6, <2>2 DEF IInv, TypeOK, PhaseTypeOK, phaseVars
<1> QED
  BY <1>5, <1>6, GivesBack DEF GiveBack

LEMMA FinishReleaseInv ==
    ASSUME IInv, DecidedInv, NEW k \in Clients, FinishRelease(k)
    PROVE  IInv'
<1>1. mishaps' \in SUBSET Mishaps /\ mishaps \subseteq mishaps'
  BY DEF FinishRelease, IInv, TypeOK
<1> QED
  BY <1>1, GiveBackInv, AnswerInv DEF FinishRelease

LEMMA FaultInv ==
    ASSUME IInv, DecidedInv, NEW k \in Clients, Fault(k)
    PROVE  IInv'
<1>1. mishaps' \in SUBSET Mishaps /\ mishaps \subseteq mishaps'
  BY MishapHappens DEF Fault, Mishaps
<1>2. CASE Abort(k)
  BY <1>1, <1>2, AnswerInv DEF Abort
<1>3. CASE FailedGrant(k)
  <2>1. req[k].op = "acquire" /\ UNCHANGED held
    BY <1>3 DEF FailedGrant
  <2>2. PICK x \in Preferred(req[k].todo) :
           /\ Ask(k, [req[k] EXCEPT !.todo = @ \ {x}])
           /\ UNCHANGED phaseVars \/ Acquire(x[1])
    BY <1>3, Grants DEF FailedGrant, IInv
  <2>3. x[1] \in CIRs
    BY <2>1, TodoType, PreferredType DEF IInv
  <2>4. req' \in [Clients -> Requests] /\ NoNewRelease
    BY <2>1, <2>2, TriedInv
  <2>5. CASE UNCHANGED phaseVars
    BY <1>1, <2>1, <2>4, <2>5, TypeUnwritten, QuietInv DEF IInv
  <2>6. CASE Acquire(x[1])
    <3>1. PICK o : Writes(x[1], o) /\ o.spec = "in use" /\ obj[x[1]].spec = "free"
      BY <2>3, <2>6, AcquireWrites
    <3>2. NoStray => LeasesOf(x[1], o)
      BY <2>1, <2>3, <3>1, HeldKept
    <3>3. held' \in [Clients -> SUBSET CIRs]
      BY <2>1 DEF IInv, TypeOK
    <3> QED
      BY <1>1, <2>3, <2>4, <3>1, <3>2, <3>3, WriteIInv
  <2> QED
    BY <2>2, <2>5, <2>6
<1>4. CASE LostRelease(k)
  BY <1>1, <1>4, GiveBackInv DEF LostRelease
<1> QED
  BY <1>2, <1>3, <1>4 DEF Fault

LEMMA ReconcileCIRInv ==
    ASSUME IInv, NEW c \in CIRs, ReconcileCIR(c)
    PROVE  IInv'
<1>1. UNCHANGED <<req, mishaps>>
  BY DEF ReconcileCIR
<1>2. PICK o : Writes(c, o) /\ (o.spec = obj[c].spec \/ TakeBack(c) \/ Remove(c))
  BY PhaseStepWrites DEF ReconcileCIR
<1>3. CASE TakeBack(c) \/ Remove(c)
  <2>1. held' = [k \in Clients |-> held[k] \ {c}]
    BY <1>3 DEF ReconcileCIR
  <2> QED
    BY <1>1, <1>2, <2>1, HeldByNone, HeldType, UnchangedReq, WriteIInv DEF IInv, TypeOK
<1>4. CASE ~(TakeBack(c) \/ Remove(c))
  <2>1. UNCHANGED held
    BY <1>4 DEF ReconcileCIR
  <2>2. NoStray => LeasesOf(c, o)
    BY <1>2, <1>4, <2>1, HeldKept
  <2> QED
    BY <1>1, <1>2, <2>1, <2>2, UnchangedReq, WriteIInv DEF IInv, TypeOK
<1> QED
  BY <1>3, <1>4

LEMMA EditInv ==
    ASSUME IInv, NEW c \in CIRs, Edit(c)
    PROVE  IInv'
<1>1. UNCHANGED <<req, held>>
  BY DEF Edit
<1>2. mishaps' \in SUBSET Mishaps /\ mishaps \subseteq mishaps'
  BY MishapHappens DEF Edit, Mishaps
<1>3. PICK o : Writes(c, o) /\ (o.spec = obj[c].spec \/ obj[c].spec # "in use")
  BY EditWrites
<1>4. NoStray => LeasesOf(c, o)
  BY <1>1, <1>3, HeldKept
<1> QED
  BY <1>1, <1>2, <1>3, <1>4, UnchangedReq, WriteIInv DEF IInv, TypeOK

LEMMA ProvideInv ==
    ASSUME IInv, NEW c \in CIRs, Provide(c)
    PROVE  IInv'
<1>1. UNCHANGED <<req, held, mishaps>>
  BY DEF Provide
<1>2. PICK p \in Pools : Create(c, p)
  BY DEF Provide
<1> DEFINE o == [Gone EXCEPT !.phase = "new", !.pool = p]
<1>3. o \in PhaseObjects /\ o.phase # "absent" /\ o.spec = "free"
  BY DEF Gone, PhaseObjects, Phases, Specs
<1>4. Writes(c, o) /\ obj[c].spec # "in use"
  BY <1>2, <1>3 DEF Create, Writes, IInv, LeaseInv, AbsentFree
<1>5. NoStray => LeasesOf(c, o)
  BY <1>1, <1>4, HeldKept
<1> QED
  BY <1>1, <1>4, <1>5, UnchangedReq, WriteIInv DEF IInv, TypeOK

-----------------------------------------------------------------------------
(* Copies: a client's is the latest as long as the object is the same.     *)

\* A step in which k goes on with nothing: an object that changes leaves it with
\* an old version.
Outdated(k) ==
    \A d \in CIRs : HasLatest(k, d)' => HasLatest(k, d) /\ obj'[d] = obj[d]

LEMMA WriteOutdates ==
    ASSUME TypeOK, NEW c \in CIRs, NEW o, Set(c, o), NEW k
    PROVE  Outdated(k)
BY DEF TypeOK, PhaseTypeOK, Outdated, HasLatest, Set

LEMMA QuietOutdates ==
    ASSUME UNCHANGED phaseVars, NEW k
    PROVE  Outdated(k)
BY DEF phaseVars, Outdated, HasLatest

\* A read by another client.
LEMMA ReadOutdates ==
    ASSUME obj' = obj, NEW j, NEW cs, Read(j, cs), NEW k, k # j
    PROVE  Outdated(k)
BY DEF Read, Outdated, HasLatest

\* The request stays, ends, or has fewer candidates left.
Narrowed(k) ==
    \/ req'[k] = req[k]
    \/ req'[k] = NoRequest
    \/ /\ req[k].op = "acquire" /\ req'[k].op = "acquire"
       /\ req'[k].todo \subseteq req[k].todo

LEMMA DecidedKept ==
    ASSUME TypeOK, NEW k \in Clients, Decided(k), Outdated(k), Narrowed(k)
    PROVE  Decided(k)'
<1>1. NoRequest.op = "none"
  BY DEF NoRequest
<1>2. req[k].op = "acquire" => \A x \in req[k].todo : x[1] \in CIRs
  BY TodoType
<1>3. req[k].op = "release" => req[k].cir \in CIRs
  BY ReleaseType
<1> QED
  BY <1>1, <1>2, <1>3 DEF Decided, Outdated, Narrowed

LEMMA AnswerNarrows ==
    ASSUME TypeOK, NEW j \in Clients, Answer(j), NEW k \in Clients
    PROVE  Narrowed(k)
BY AskType, NoRequestType DEF Answer, Narrowed

LEMMA TriedNarrows ==
    ASSUME TypeOK, NEW j \in Clients, NEW x, req[j].op = "acquire",
           Ask(j, [req[j] EXCEPT !.todo = @ \ {x}]), NEW k \in Clients
    PROVE  Narrowed(k)
<1> DEFINE r == [req[j] EXCEPT !.todo = @ \ {x}]
<1>1. r \in Requests /\ r.op = "acquire" /\ r.todo \subseteq req[j].todo
  <2>1. req[j] \in [op : {"acquire"}, todo : SUBSET (CIRs \X Pools)]
    BY DEF TypeOK, Requests, NoRequest
  <2> QED
    BY <2>1, TodoType
<1> HIDE DEF r
<1>2. Ask(j, r)
  BY DEF r
<1>3. req'[j] = r /\ \A i \in Clients : i # j => req'[i] = req[i]
  BY <1>1, <1>2, AskType
<1> QED
  BY <1>1, <1>3 DEF Narrowed

LEMMA UpdateOutdates ==
    ASSUME TypeOK, NEW j, NEW c \in CIRs, NEW spec, UpdateSpec(j, c, spec), NEW k
    PROVE  Outdated(k)
BY WriteOutdates, QuietOutdates DEF UpdateSpec

\* The lists and gets, on which everything is decided.
LEMMA StartDecides ==
    ASSUME TypeOK, NEW j \in Clients, NEW k \in Clients, Decided(k),
           StartAcquire(j) \/ \E c \in CIRs : StartRelease(j, c)
    PROVE  Decided(k)'
<1>1. CASE k # j
  <2>1. obj' = obj /\ \E cs : Read(j, cs)
    BY DEF StartAcquire, StartRelease
  <2>2. req'[k] = req[k]
    BY <1>1 DEF StartAcquire, StartRelease, Ask, TypeOK
  <2> QED
    BY <1>1, <2>1, <2>2, ReadOutdates, DecidedKept DEF Narrowed
<1>2. CASE k = j /\ StartAcquire(j)
  <2>1. /\ req'[k].op = "acquire" /\ obj' = obj
        /\ req'[k].todo = { <<c, obj[c].pool>> : c \in { d \in CIRs : Candidate(k, d) } }
    BY <1>2 DEF StartAcquire, Ask, TypeOK
  <2>2. \A x \in req'[k].todo : obj[x[1]].phase = "available" /\ obj[x[1]].spec = "free"
    BY <2>1 DEF Candidate
  <2> QED
    BY <2>1, <2>2 DEF Decided
<1>3. ASSUME k = j, NEW c \in CIRs, StartRelease(j, c) PROVE Decided(k)'
  <2>1. req'[k].op = "release" /\ req'[k].cir = c /\ obj' = obj /\ obj[c].phase = "in use"
    BY <1>3 DEF StartRelease, Ask, TypeOK
  <2> QED
    BY <2>1 DEF Decided
<1> QED
  BY <1>1, <1>2, <1>3

LEMMA NextDecided == IInv /\ DecidedInv /\ [Next]_vars => DecidedInv'
<1> SUFFICES ASSUME IInv, DecidedInv, [Next]_vars, NEW k \in Clients PROVE Decided(k)'
  BY DEF DecidedInv
<1>t. TypeOK /\ Decided(k)
  BY DEF IInv, DecidedInv
<1>1. CASE UNCHANGED vars
  BY <1>t, <1>1, QuietOutdates, DecidedKept DEF vars, Narrowed
<1>2. ASSUME NEW j \in Clients, StartAcquire(j) \/ \E c \in CIRs : StartRelease(j, c)
      PROVE  Decided(k)'
  BY <1>t, <1>2, StartDecides
<1>3. ASSUME NEW j \in Clients, lookForAvailableResource(j) \/ FailedGrant(j) PROVE Decided(k)'
  <2>1. /\ req[j].op = "acquire"
        /\ \E x \in Preferred(req[j].todo) :
              /\ Answer(j) \/ Ask(j, [req[j] EXCEPT !.todo = @ \ {x}])
              /\ UNCHANGED phaseVars \/ UpdateSpec(j, x[1], "in use")
    BY <1>3 DEF lookForAvailableResource, FailedGrant, Grant, Refused
  <2>2. PICK x \in Preferred(req[j].todo) :
              /\ Answer(j) \/ Ask(j, [req[j] EXCEPT !.todo = @ \ {x}])
              /\ UNCHANGED phaseVars \/ UpdateSpec(j, x[1], "in use")
    BY <2>1
  <2>3. x[1] \in CIRs
    BY <1>t, <2>1, TodoType, PreferredType
  <2>4. Narrowed(k)
    BY <1>t, <2>1, <2>2, AnswerNarrows, TriedNarrows
  <2>5. Outdated(k)
    BY <1>t, <2>2, <2>3, QuietOutdates, UpdateOutdates
  <2> QED
    BY <1>t, <2>4, <2>5, DecidedKept
<1>4. ASSUME NEW j \in Clients, NotFound(j) \/ FinishRelease(j) \/ Abort(j) \/ LostRelease(j)
      PROVE  Decided(k)'
  <2>1. /\ Answer(j)
        /\ \/ UNCHANGED phaseVars
           \/ req[j].op = "release" /\ UpdateSpec(j, req[j].cir, "free")
    BY <1>4 DEF NotFound, FinishRelease, Abort, LostRelease
  <2>2. Outdated(k)
    BY <1>t, <2>1, ReleaseType, QuietOutdates, UpdateOutdates
  <2> QED
    BY <1>t, <2>1, <2>2, AnswerNarrows, DecidedKept
<1>5. ASSUME NEW c \in CIRs, ReconcileCIR(c) \/ Edit(c) \/ Provide(c) PROVE Decided(k)'
  <2>1. req' = req
    BY <1>5 DEF ReconcileCIR, Edit, Provide
  <2>2. \E o : Set(c, o)
    <3>1. CASE ReconcileCIR(c)
      BY <3>1, PhaseStepWrites DEF ReconcileCIR, Writes
    <3>2. CASE Edit(c)
      BY <3>2, EditWrites DEF Writes
    <3>3. CASE Provide(c)
      BY <3>3 DEF Provide, Create
    <3> QED
      BY <1>5, <3>1, <3>2, <3>3
  <2> QED
    BY <1>t, <2>1, <2>2, WriteOutdates, DecidedKept DEF Narrowed
<1> QED
  BY <1>1, <1>2, <1>3, <1>4, <1>5 DEF Next, Fault

-----------------------------------------------------------------------------
(* The theorems about leases.                                              *)

LEMMA InitIInv == Init => IInv
<1>1. Init => TypeOK
  BY GoneType, NoRequestType, APIAssumption
  DEF Init, TypeOK, PhaseInit, PhaseTypeOK, Mishaps
<1>2. Init => LeaseInv
  BY GoneType, NoRequestType
  DEF Init, PhaseInit, LeaseInv, AbsentFree, HeldInUse, OneHolder, ReleasesOwn
<1> QED
  BY <1>1, <1>2 DEF IInv

LEMMA NextIInv == IInv /\ DecidedInv /\ [Next]_vars => IInv'
<1> SUFFICES ASSUME IInv, DecidedInv, [Next]_vars PROVE IInv'
  OBVIOUS
<1>1. CASE UNCHANGED vars
  <2>1. TypeOK'
    BY <1>1 DEF vars, phaseVars, IInv, TypeOK, PhaseTypeOK
  <2>2. LeaseInv'
    BY <1>1, QuietInv DEF vars, NoNewRelease
  <2> QED
    BY <2>1, <2>2 DEF IInv
<1>2. ASSUME NEW k \in Clients, NotFound(k)
      PROVE  IInv'
  BY <1>2, AnswerInv DEF NotFound, IInv, TypeOK
<1> QED
  BY <1>1, <1>2, StartAcquireInv, lookForAvailableResourceInv, StartReleaseInv,
     FinishReleaseInv, FaultInv, ReconcileCIRInv, EditInv, ProvideInv
  DEF Next

LEMMA InductiveInvariant == Spec => [](IInv /\ DecidedInv)
<1>1. Init => DecidedInv
  <2>1. Init => \A k \in Clients : req[k].op = "none"
    BY DEF Init, NoRequest
  <2> QED
    BY <2>1 DEF DecidedInv, Decided
<1> QED
  BY <1>1, InitIInv, NextIInv, NextDecided, PTL DEF Spec

(* Requests, leases and objects stay what they are declared to be.         *)
THEOREM TypeCorrect == Spec => []TypeOK
<1>1. IInv => TypeOK
  BY DEF IInv
<1> QED
  BY <1>1, InductiveInvariant, PTL DEF Spec

(* No two clients ever hold the same CIResource, as long as clients        *)
(* release only what they hold: resourceVersion alone keeps the handlers,  *)
(* which have no lock, apart.                                              *)
THEOREM LeasesAreExclusive == Spec => []ExclusiveLease
<1>1. IInv => ExclusiveLease
  BY DEF IInv, LeaseInv, NoStray, OneHolder, ExclusiveLease
<1> QED
  BY <1>1, InductiveInvariant, PTL DEF Spec

-----------------------------------------------------------------------------
(* The refinement: CIResourcePhases without copies.                        *)

LEMMA SetImplemented ==
    \A c, o : Set(c, o) => PhasesImplemented!Set(c, o)
BY DEF Set, PhasesImplemented!Set

LEMMA UnseenImplemented ==
    UNCHANGED obj => UNCHANGED PhasesImplemented!phaseVars
BY DEF PhasesImplemented!phaseVars

LEMMA PhaseStepImplemented ==
    ASSUME NEW c \in CIRs, PhaseStep(c)
    PROVE  PhasesImplemented!PhaseStep(c)
<1>1. ASSUME NEW from, NEW to, Shift(c, from, to)
      PROVE  PhasesImplemented!Shift(c, from, to)
  BY <1>1, SetImplemented DEF Shift, PhasesImplemented!Shift
<1>2. CASE FinishProvisioning(c) \/ StartUse(c) \/ ProvisionInUse(c)
  BY <1>1, <1>2
  DEF FinishProvisioning, StartUse, ProvisionInUse, PhasesImplemented!PhaseStep,
      PhasesImplemented!FinishProvisioning, PhasesImplemented!StartUse,
      PhasesImplemented!ProvisionInUse
<1>3. CASE StartCleaning(c) \/ FinishCleaning(c) \/ StartDeletion(c)
  BY <1>1, <1>3
  DEF StartCleaning, FinishCleaning, StartDeletion, PhasesImplemented!PhaseStep,
      PhasesImplemented!StartCleaning, PhasesImplemented!FinishCleaning,
      PhasesImplemented!StartDeletion
<1>4. CASE StartMaintenance(c) \/ EndMaintenance(c)
  BY <1>1, <1>4
  DEF StartMaintenance, EndMaintenance, PhasesImplemented!PhaseStep,
      PhasesImplemented!StartMaintenance, PhasesImplemented!EndMaintenance
<1>5. CASE TakeBack(c)
  BY <1>5, SetImplemented
  DEF TakeBack, PhasesImplemented!PhaseStep, PhasesImplemented!TakeBack
<1>6. CASE Remove(c)
  BY <1>6, SetImplemented
  DEF Remove, Gone, PhasesImplemented!PhaseStep, PhasesImplemented!Remove,
      PhasesImplemented!Gone
<1> QED
  BY <1>2, <1>3, <1>4, <1>5, <1>6 DEF PhaseStep

LEMMA AcquireImplemented ==
    ASSUME NEW c \in CIRs, Acquire(c)
    PROVE  PhasesImplemented!PhaseNext
BY SetImplemented DEF Acquire, PhasesImplemented!Acquire, PhasesImplemented!PhaseNext

LEMMA GiveBackImplemented ==
    ASSUME NEW c \in CIRs, GiveBack(c)
    PROVE  PhasesImplemented!PhaseNext \/ UNCHANGED PhasesImplemented!phaseVars
<1>1. CASE Release(c)
  BY <1>1, SetImplemented
  DEF Release, PhasesImplemented!Release, PhasesImplemented!PhaseNext
<1>2. CASE UNCHANGED phaseVars
  BY <1>2, UnseenImplemented DEF phaseVars
<1> QED
  BY <1>1, <1>2 DEF GiveBack

LEMMA EditImplemented ==
    ASSUME NEW c \in CIRs, Edit(c)
    PROVE  PhasesImplemented!PhaseNext
<1>1. CASE Evict(c)
  BY <1>1, SetImplemented
  DEF Evict, Evictable, PhasesImplemented!Evict, PhasesImplemented!Evictable,
      PhasesImplemented!PhaseNext
<1>2. CASE Delete(c)
  BY <1>2, SetImplemented
  DEF Delete, Gone, PhasesImplemented!Delete, PhasesImplemented!Gone,
      PhasesImplemented!PhaseNext
<1>3. CASE RequestMaintenance(c)
  BY <1>3, SetImplemented
  DEF RequestMaintenance, PhasesImplemented!RequestMaintenance, PhasesImplemented!PhaseNext
<1>4. CASE RequestResume(c)
  BY <1>4, SetImplemented
  DEF RequestResume, PhasesImplemented!RequestResume, PhasesImplemented!PhaseNext
<1> QED
  BY <1>1, <1>2, <1>3, <1>4 DEF Edit

LEMMA ProvideImplemented ==
    ASSUME NEW c \in CIRs, Provide(c)
    PROVE  PhasesImplemented!PhaseNext
BY SetImplemented
DEF Provide, Create, Gone, PhasesImplemented!Create, PhasesImplemented!Gone,
    PhasesImplemented!PhaseNext

\* A handler writes once at most.
LEMMA HandlerImplemented ==
    ASSUME TypeOK, DecidedInv, NEW k \in Clients,
           lookForAvailableResource(k) \/ FinishRelease(k) \/ Fault(k)
    PROVE  PhasesImplemented!PhaseNext \/ UNCHANGED PhasesImplemented!phaseVars
<1>1. ASSUME req[k].op = "acquire", NEW x \in Preferred(req[k].todo)
      PROVE  x[1] \in CIRs
  BY <1>1, TodoType, PreferredType
<1>2. req[k].op = "release" => req[k].cir \in CIRs
  BY ReleaseType
<1>3. CASE lookForAvailableResource(k)
  BY <1>1, <1>3, Grants, AcquireImplemented, UnseenImplemented
  DEF lookForAvailableResource, Grant, Refused, phaseVars
<1>4. CASE FinishRelease(k) \/ LostRelease(k)
  BY <1>2, <1>4, GivesBack, GiveBackImplemented, UnseenImplemented
  DEF FinishRelease, LostRelease, phaseVars
<1>5. CASE Abort(k)
  BY <1>5, UnseenImplemented DEF Abort, phaseVars
<1>6. CASE FailedGrant(k)
  BY <1>1, <1>6, Grants, AcquireImplemented, UnseenImplemented DEF FailedGrant, phaseVars
<1> QED
  BY <1>3, <1>4, <1>5, <1>6 DEF Fault

LEMMA NextImplemented ==
    TypeOK /\ DecidedInv /\ [Next]_vars => [PhasesImplemented!PhaseNext]_(PhasesImplemented!phaseVars)
<1> SUFFICES ASSUME TypeOK, DecidedInv, [Next]_vars
             PROVE  PhasesImplemented!PhaseNext \/ UNCHANGED PhasesImplemented!phaseVars
  OBVIOUS
<1>1. CASE UNCHANGED vars
  BY <1>1, UnseenImplemented DEF vars, phaseVars
<1>2. ASSUME NEW k \in Clients, StartAcquire(k) \/ NotFound(k) \/ \E c \in CIRs : StartRelease(k, c)
      PROVE  UNCHANGED PhasesImplemented!phaseVars
  BY <1>2, UnseenImplemented DEF StartAcquire, NotFound, StartRelease, phaseVars
<1>3. ASSUME NEW c \in CIRs, ReconcileCIR(c)
      PROVE  PhasesImplemented!PhaseNext
  BY <1>3, PhaseStepImplemented DEF ReconcileCIR, PhasesImplemented!PhaseNext
<1> QED
  BY <1>1, <1>2, <1>3, HandlerImplemented, EditImplemented, ProvideImplemented DEF Next

(* Whatever clients, reconciler and administrators do, the API does to the *)
(* objects nothing but the atomic steps that the others expect: an update  *)
(* looks at nothing but the version, and what was decided on a list or get *)
(* (a free object to acquire, one in use to release) holds of the object   *)
(* as long as that version is the latest.                                  *)
THEOREM APIImplementsPhases == Spec => ImplementsPhases
<1>1. Init => PhasesImplemented!PhaseInit
  BY DEF Init, PhaseInit, Gone, PhasesImplemented!PhaseInit, PhasesImplemented!Gone
<1>2. IInv => TypeOK
  BY DEF IInv
<1> QED
  BY <1>1, <1>2, InductiveInvariant, NextImplemented, PTL
  DEF Spec, ImplementsPhases, PhasesImplemented!PhaseSpec

-----------------------------------------------------------------------------
(* Candidates.                                                             *)

\* The list of a request: what has not changed since is still on it, or was not
\* to be had.
Pending(k) ==
    req[k].op = "acquire" => \A d \in CIRs : HasLatest(k, d) =>
        /\ \A p \in Pools : <<d, p>> \in req[k].todo => p = obj[d].pool
        /\ Candidate(k, d) => <<d, obj[d].pool>> \in req[k].todo

PendingInv == "fault" \notin mishaps => \A k \in Clients : Pending(k)

LEMMA PendingKept ==
    ASSUME NEW k \in Clients, Pending(k), Outdated(k),
           req'[k] = req[k] \/ req'[k].op # "acquire"
    PROVE  Pending(k)'
BY DEF Pending, Outdated, Candidate

LEMMA AnswerEnds ==
    ASSUME TypeOK, NEW j \in Clients, Answer(j), NEW k \in Clients
    PROVE  /\ req'[k] = req[k] \/ req'[k].op # "acquire"
           /\ k # j => req'[k] = req[k]
           /\ req'[j] = NoRequest
<1>1. NoRequest \in Requests /\ NoRequest.op # "acquire"
  BY DEF NoRequest, Requests
<1> QED
  BY <1>1, AskType DEF Answer

LEMMA StartAcquirePending ==
    ASSUME IInv, NEW j \in Clients, StartAcquire(j), NEW k \in Clients, Pending(k)
    PROVE  Pending(k)'
<1> DEFINE todo == { <<c, obj[c].pool>> : c \in { d \in CIRs : Candidate(j, d) } }
           r == [op |-> "acquire", todo |-> todo]
<1>1. Usable(j) \subseteq Pools
  BY APIAssumption DEF Usable
<1>2. todo \in SUBSET (CIRs \X Pools)
  BY <1>1 DEF Candidate
<1>3. r \in Requests /\ r.todo = todo
  BY <1>2 DEF Requests
<1>4. \A d \in CIRs : /\ \A p \in Pools : <<d, p>> \in todo => p = obj[d].pool
                      /\ Candidate(j, d) => <<d, obj[d].pool>> \in todo
  OBVIOUS
<1> HIDE DEF r
<1>5. Ask(j, r) /\ obj' = obj /\ Read(j, CIRs)
  BY DEF StartAcquire, r
<1>6. req'[j] = r /\ \A i \in Clients : i # j => req'[i] = req[i]
  BY <1>3, <1>5, AskType DEF IInv
<1>7. CASE k = j
  <2>1. \A d \in CIRs : Candidate(k, d)' <=> Candidate(k, d)
    BY <1>5 DEF Candidate
  <2> HIDE DEF todo
  <2> QED
    BY <1>3, <1>4, <1>5, <1>6, <1>7, <2>1 DEF Pending
<1>8. CASE k # j
  BY <1>5, <1>6, <1>8, ReadOutdates, PendingKept
<1> QED
  BY <1>7, <1>8

\* An update that is refused was of an old version.
LEMMA RefusedPending ==
    ASSUME IInv, NEW j \in Clients, req[j].op = "acquire", NEW x \in Preferred(req[j].todo),
           Refused(j, x), NEW k \in Clients, Pending(k)
    PROVE  Pending(k)'
<1> DEFINE r == [req[j] EXCEPT !.todo = @ \ {x}]
<1>1. r \in Requests /\ r.todo = req[j].todo \ {x}
  BY TodoType DEF IInv
<1> HIDE DEF r
<1>2. Ask(j, r) /\ UNCHANGED phaseVars /\ ~HasLatest(j, x[1])
  BY DEF Refused, r
<1>3. req'[j] = r /\ \A i \in Clients : i # j => req'[i] = req[i]
  BY <1>1, <1>2, AskType DEF IInv
<1>4. CASE k = j
  <2>1. ASSUME NEW d \in CIRs, HasLatest(k, d)'
        PROVE  /\ HasLatest(k, d) /\ obj' = obj
               /\ \A p \in Pools : <<d, p>> \in r.todo <=> <<d, p>> \in req[k].todo
    <3>1. HasLatest(k, d) /\ obj' = obj /\ d # x[1]
      BY <1>2, <1>4, <2>1 DEF HasLatest, phaseVars
    <3> QED
      BY <1>1, <1>4, <3>1
  <2>2. \A d \in CIRs : Candidate(k, d) => obj[d].pool \in Pools
    BY APIAssumption DEF Candidate, Usable
  <2> QED
    BY <1>3, <1>4, <2>1, <2>2 DEF Pending, Candidate
<1>5. CASE k # j
  BY <1>2, <1>3, <1>5, QuietOutdates, PendingKept
<1> QED
  BY <1>4, <1>5

\* What the others leave to a client: its request, and old versions.
LEMMA OthersPending ==
    ASSUME IInv, NEW k \in Clients, Pending(k),
           \/ \E j \in Clients : \/ NotFound(j) \/ FinishRelease(j)
                                 \/ \E c \in CIRs : StartRelease(j, c)
           \/ \E j \in Clients : /\ req[j].op = "acquire"
                                 /\ \E x \in Preferred(req[j].todo) : Grant(j, x)
           \/ \E c \in CIRs : ReconcileCIR(c) \/ Edit(c) \/ Provide(c)
    PROVE  Pending(k)'
<1>1. TypeOK
  BY DEF IInv
<1>2. ASSUME NEW j \in Clients, NotFound(j) PROVE Pending(k)'
  BY <1>1, <1>2, AnswerEnds, QuietOutdates, PendingKept DEF NotFound
<1>3. ASSUME NEW j \in Clients, FinishRelease(j) PROVE Pending(k)'
  <2>1. Answer(j) /\ req[j].op = "release"
    BY <1>3 DEF FinishRelease
  <2>2. req[j].cir \in CIRs
    BY <1>1, <2>1, ReleaseType
  <2>3. UNCHANGED phaseVars \/ \E o : Set(req[j].cir, o)
    BY <1>3 DEF FinishRelease, UpdateSpec
  <2> QED
    BY <1>1, <2>1, <2>2, <2>3, AnswerEnds, QuietOutdates, WriteOutdates, PendingKept
<1>4. ASSUME NEW j \in Clients, NEW c \in CIRs, StartRelease(j, c) PROVE Pending(k)'
  <2> DEFINE r == [op |-> "release", cir |-> c]
  <2>1. r \in Requests /\ r.op = "release"
    BY DEF Requests
  <2> HIDE DEF r
  <2>2. Ask(j, r) /\ Read(j, {c}) /\ obj' = obj
    BY <1>4 DEF StartRelease, r
  <2>3. req'[j] = r /\ \A i \in Clients : i # j => req'[i] = req[i]
    BY <1>1, <2>1, <2>2, AskType
  <2>4. CASE k = j
    BY <2>1, <2>3, <2>4 DEF Pending
  <2>5. CASE k # j
    BY <2>2, <2>3, <2>5, ReadOutdates, PendingKept
  <2> QED
    BY <2>4, <2>5
<1>5. ASSUME NEW j \in Clients, req[j].op = "acquire", NEW x \in Preferred(req[j].todo), Grant(j, x)
      PROVE  Pending(k)'
  <2>1. x[1] \in CIRs
    BY <1>1, <1>5, TodoType, PreferredType
  <2>2. Answer(j) /\ UpdateSpec(j, x[1], "in use")
    BY <1>5 DEF Grant
  <2> QED
    BY <1>1, <2>1, <2>2, AnswerEnds, UpdateOutdates, PendingKept
<1>6. ASSUME NEW c \in CIRs, ReconcileCIR(c) \/ Edit(c) \/ Provide(c) PROVE Pending(k)'
  <2>1. req' = req
    BY <1>6 DEF ReconcileCIR, Edit, Provide
  <2>2. \E o : Set(c, o)
    <3>1. CASE ReconcileCIR(c)
      BY <3>1, PhaseStepWrites DEF ReconcileCIR, Writes
    <3>2. CASE Edit(c)
      BY <3>2, EditWrites DEF Writes
    <3>3. CASE Provide(c)
      BY <3>3 DEF Provide, Create
    <3> QED
      BY <1>6, <3>1, <3>2, <3>3
  <2> QED
    BY <1>1, <2>1, <2>2, WriteOutdates, PendingKept
<1> QED
  BY <1>2, <1>3, <1>4, <1>5, <1>6

LEMMA PendingInvariant == Spec => []PendingInv
<1>1. Init => PendingInv
  <2>1. Init => \A k \in Clients : req[k] = NoRequest
    BY DEF Init
  <2>2. NoRequest.op # "acquire"
    BY DEF NoRequest
  <2> QED
    BY <2>1, <2>2 DEF PendingInv, Pending
<1>2. IInv /\ IInv' /\ PendingInv /\ [Next]_vars => PendingInv'
  <2> SUFFICES ASSUME IInv, PendingInv, [Next]_vars, "fault" \notin mishaps', NEW k \in Clients
               PROVE  Pending(k)'
    BY DEF PendingInv
  <2>1. CASE UNCHANGED vars
    <3>1. obj' = obj /\ latest' = latest /\ req' = req
      BY <2>1 DEF vars, phaseVars
    <3>2. Pending(k) \/ "fault" \in mishaps
      BY DEF PendingInv
    <3>3. mishaps' = mishaps
      BY <2>1 DEF vars
    <3> QED
      BY <3>1, <3>2, <3>3, QuietOutdates, PendingKept DEF phaseVars
  <2>2. ASSUME Next PROVE Pending(k)
    <3>1. "fault" \notin mishaps
      BY <2>2 DEF Next, StartAcquire, lookForAvailableResource, NotFound, FinishRelease,
           StartRelease, Fault, Happens, ReconcileCIR, Edit, Provide
    <3> QED
      BY <3>1 DEF PendingInv
  <2>3. ASSUME NEW j \in Clients PROVE ~Fault(j)
    BY DEF Fault, Happens
  <2>4. ASSUME NEW j \in Clients, lookForAvailableResource(j), Pending(k) PROVE Pending(k)'
    <3>1. PICK x \in Preferred(req[j].todo) : Grant(j, x) \/ Refused(j, x)
      BY <2>4 DEF lookForAvailableResource
    <3>2. req[j].op = "acquire"
      BY <2>4 DEF lookForAvailableResource
    <3>3. CASE Refused(j, x)
      BY <2>4, <3>2, <3>3, RefusedPending
    <3>4. CASE Grant(j, x)
      BY <2>4, <3>2, <3>4, OthersPending
    <3> QED
      BY <3>1, <3>3, <3>4
  <2> QED
    BY <2>1, <2>2, <2>3, <2>4, StartAcquirePending, OthersPending DEF Next
<1> QED
  BY <1>1, <1>2, InductiveInvariant, PTL DEF Spec

(* A CIResource is given to a client only when none that it could have     *)
(* had, and that has not changed since the list, is in a pool with a lower *)
(* priority, nor a fallback one before any other: lookForAvailableResource *)
(* drops a candidate from its list only when its version is old.           *)
THEOREM LowestPriorityFirst == Spec => GrantsByPriority
<1>1. IInv /\ PendingInv /\ [Next]_vars =>
        [\A k \in Clients : "fault" \notin mishaps => \A c \in held'[k] \ held[k] :
            ~\E d \in CIRs :
                HasLatest(k, d) /\ Candidate(k, d) /\ Before(obj[d].pool, obj[c].pool)]_vars
  <2> SUFFICES ASSUME IInv, PendingInv, Next, NEW k \in Clients, "fault" \notin mishaps,
                      NEW c \in held'[k] \ held[k], NEW d \in CIRs,
                      HasLatest(k, d), Candidate(k, d)
               PROVE  ~Before(obj[d].pool, obj[c].pool)
    BY DEF vars
  <2>1. TypeOK /\ Pending(k)
    BY DEF IInv, PendingInv
  <2>2. ~(UNCHANGED held) /\ ~(\E j \in Clients : \E e : held' = [held EXCEPT ![j] = @ \ {e}])
    BY <2>1 DEF TypeOK
  <2>3. PICK j \in Clients : lookForAvailableResource(j)
    <3>1. ASSUME NEW j \in Clients PROVE ~Fault(j) /\ ~FinishRelease(j)
      BY <2>2 DEF Fault, Abort, FailedGrant, LostRelease, FinishRelease
    <3>2. ASSUME NEW e \in CIRs PROVE ~ReconcileCIR(e)
      BY <2>1, <2>2 DEF ReconcileCIR, TypeOK
    <3> QED
      BY <2>2, <3>1, <3>2 DEF Next, StartAcquire, NotFound, StartRelease, Edit, Provide
  <2>4. PICK x \in Preferred(req[j].todo) : Grant(j, x) /\ req[j].op = "acquire"
    BY <2>2, <2>3 DEF lookForAvailableResource, Refused
  <2>5. j = k /\ c = x[1]
    BY <2>1, <2>4 DEF Grant, TypeOK
  <2>6. /\ req[k].todo \subseteq CIRs \X Pools /\ x \in req[k].todo
        /\ HasLatest(k, c) /\ c \in CIRs
    BY <2>1, <2>4, <2>5, TodoType, PreferredType DEF Grant, UpdateSpec
  <2>7. x[2] = obj[c].pool /\ obj[c].pool \in Pools
    <3>1. x = <<c, x[2]>> /\ x[2] \in Pools
      BY <2>5, <2>6
    <3> QED
      BY <2>1, <2>4, <2>5, <2>6, <3>1, ZenonT(40) DEF Pending
  <2>8. <<d, obj[d].pool>> \in req[k].todo /\ obj[d].pool \in Pools
    BY <2>1, <2>4, <2>5, <2>6 DEF Pending
  <2>9. Priority[obj[c].pool] \in Int /\ Priority[obj[d].pool] \in Int
    BY <2>7, <2>8, APIAssumption
  <2>10. CASE Priority[obj[d].pool] >= 0
    <3>1. PICK y : y = <<d, obj[d].pool>>
      OBVIOUS
    <3>2. y \in req[k].todo /\ Priority[y[2]] >= 0 /\ y[2] = obj[d].pool
      BY <2>8, <2>10, <3>1
    <3>3. Priority[x[2]] >= 0 /\ Priority[x[2]] <= Priority[y[2]]
      BY <2>4, <2>5, <3>2 DEF Preferred
    <3> QED
      BY <2>7, <2>9, <3>2, <3>3 DEF Before
  <2>11. CASE ~(Priority[obj[d].pool] >= 0)
    BY <2>11 DEF Before
  <2> QED
    BY <2>10, <2>11
<1> QED
  BY <1>1, InductiveInvariant, PendingInvariant, PTL DEF Spec, GrantsByPriority

(* A client is turned away only when nothing it could have had is as it    *)
(* was at the list: a refused update takes one candidate off the list, and *)
(* only the end of the list answers 404.                                   *)
THEOREM TurnedAwayRightly == Spec => NoFalseNotFound
<1>1. IInv /\ DecidedInv /\ PendingInv /\ [Next]_vars =>
        [\A k \in Clients :
            /\ req[k].op = "acquire" /\ req'[k] = NoRequest /\ obj' = obj
            /\ "fault" \notin mishaps'
            => ~\E d \in CIRs : HasLatest(k, d) /\ Candidate(k, d)]_vars
  <2> SUFFICES ASSUME IInv, DecidedInv, PendingInv, Next, NEW k \in Clients,
                      req[k].op = "acquire", req'[k] = NoRequest, obj' = obj,
                      "fault" \notin mishaps',
                      NEW d \in CIRs, HasLatest(k, d), Candidate(k, d)
               PROVE  FALSE
    BY DEF vars
  <2>1. TypeOK
    BY DEF IInv
  <2>2. NoRequest.op = "none"
    BY DEF NoRequest
  <2>3. ASSUME NEW j \in Clients PROVE ~Fault(j)
    BY DEF Fault, Happens
  <2>4. ASSUME NEW j \in Clients, NEW r \in Requests, Ask(j, r) PROVE j = k /\ r = NoRequest
    <3>1. req'[j] = r /\ \A i \in Clients : i # j => req'[i] = req[i]
      BY <2>1, <2>4, AskType
    <3> QED
      BY <2>2, <3>1
  <2>5. ASSUME NEW j \in Clients, StartAcquire(j) PROVE FALSE
    <3>1. req[j] = NoRequest /\ \E todo : Ask(j, [op |-> "acquire", todo |-> todo])
      BY <2>5 DEF StartAcquire
    <3>2. j # k /\ req'[k] = req[k]
      BY <2>1, <2>2, <3>1 DEF Ask, TypeOK
    <3> QED
      BY <2>2, <3>2
  <2>6. ASSUME NEW j \in Clients, NEW c \in CIRs, StartRelease(j, c) PROVE FALSE
    <3>1. req[j] = NoRequest /\ Ask(j, [op |-> "release", cir |-> c])
      BY <2>6 DEF StartRelease
    <3>2. j # k /\ req'[k] = req[k]
      BY <2>1, <2>2, <3>1 DEF Ask, TypeOK
    <3> QED
      BY <2>2, <3>2
  <2>7. ASSUME NEW j \in Clients, FinishRelease(j) PROVE FALSE
    <3>1. req[j].op = "release" /\ Answer(j)
      BY <2>7 DEF FinishRelease
    <3>2. j = k
      BY <2>4, <3>1, NoRequestType DEF Answer
    <3> QED
      BY <3>1, <3>2
  <2>8. ASSUME NEW j \in Clients, lookForAvailableResource(j) PROVE FALSE
    <3>1. PICK x \in Preferred(req[j].todo) : Grant(j, x) \/ Refused(j, x)
      BY <2>8 DEF lookForAvailableResource
    <3>2. req[j].op = "acquire"
      BY <2>8 DEF lookForAvailableResource
    <3>3. x[1] \in CIRs
      BY <2>1, <3>2, TodoType, PreferredType
    <3>4. ~Grant(j, x)
      <4>1. Acquire(x[1]) => obj'[x[1]].spec = "in use" /\ obj[x[1]].spec = "free"
        BY <2>1, <3>3 DEF Acquire, Set, TypeOK, PhaseTypeOK, PhaseObjects
      <4> QED
        BY <2>1, <3>2, <4>1, Grants DEF Grant
    <3>5. ~Refused(j, x)
      <4> DEFINE r == [req[j] EXCEPT !.todo = @ \ {x}]
      <4>1. r \in Requests /\ r.op = "acquire"
        <5>1. req[j] \in [op : {"acquire"}, todo : SUBSET (CIRs \X Pools)]
          BY <2>1, <3>2 DEF TypeOK, Requests, NoRequest
        <5> QED
          BY <5>1 DEF Requests
      <4> HIDE DEF r
      <4>2. Refused(j, x) => Ask(j, r)
        BY DEF Refused, r
      <4> QED
        BY <2>2, <2>4, <4>1, <4>2
    <3> QED
      BY <3>1, <3>4, <3>5
  <2>9. ASSUME NEW j \in Clients, NotFound(j) PROVE FALSE
    <3>1. j = k
      BY <2>4, <2>9, NoRequestType DEF NotFound, Answer
    <3>2. req[k].todo = {} /\ "fault" \notin mishaps
      BY <2>9, <3>1 DEF NotFound
    <3>3. Pending(k)
      BY <3>2 DEF PendingInv
    <3> QED
      BY <3>2, <3>3 DEF Pending
  <2>10. ASSUME NEW c \in CIRs, ReconcileCIR(c) \/ Edit(c) \/ Provide(c) PROVE FALSE
    BY <2>2, <2>10 DEF ReconcileCIR, Edit, Provide
  <2> QED
    BY <2>3, <2>5, <2>6, <2>7, <2>8, <2>9, <2>10 DEF Next
<1> QED
  BY <1>1, InductiveInvariant, PendingInvariant, PTL DEF Spec, NoFalseNotFound
=============================================================================
