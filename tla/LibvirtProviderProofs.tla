------------------------- MODULE LibvirtProviderProofs -------------------------
(***************************************************************************)
(* Theorems about the libvirt provider: for any number of CIResources and  *)
(* machines, and any bound on the mishaps.                                 *)
(***************************************************************************)
EXTENDS LibvirtProvider, FiniteSetTheorems, SequenceTheorems, TLAPS

\* What may be left of a call, by the next request.
ToStart == << "start" >>
ToDefine == << "define", "start" >>
ToRecreate == << "deleteVolume", "createVolume", "define", "start" >>
ToUndefine == << "undefine", "deleteVolume", "createVolume", "define", "start" >>
ToClean == << "stop", "undefine", "deleteVolume", "createVolume", "define", "start" >>
ToDelete == << "deleteVolume" >>
ToRemove == << "undefine", "deleteVolume" >>

Plans(call) ==
    CASE call = "acquire" -> { <<>>, ToStart, ToDefine, createVM }
      [] call = "release" -> { <<>>, ToDelete, ToRemove, destroyVM }
      [] call = "clean" -> { <<>>, ToStart, ToDefine, createVM, ToRecreate, ToUndefine, ToClean }

\* The next request, or the end.
DueOf(todo) == IF todo = <<>> THEN "end" ELSE Head(todo)
Due == DueOf(work.todo)

\* The order of the requests.
Follows(call, first, second) ==
    \/ call # "acquire" /\ first = "stop" /\ second = "undefine"
    \/ call # "acquire" /\ first = "undefine" /\ second = "deleteVolume"
    \/ call = "clean" /\ first = "deleteVolume" /\ second = "createVolume"
    \/ call = "release" /\ first = "deleteVolume" /\ second = "end"
    \/ call # "release" /\ first = "createVolume" /\ second = "define"
    \/ call # "release" /\ first = "define" /\ second = "start"
    \/ call # "release" /\ first = "start" /\ second = "end"

LEMMA Tails ==
    /\ Tail(ToStart) = <<>> /\ Tail(ToDefine) = ToStart /\ Tail(createVM) = ToDefine
    /\ Tail(ToRecreate) = createVM /\ Tail(ToUndefine) = ToRecreate /\ Tail(ToClean) = ToUndefine
    /\ Tail(ToDelete) = <<>> /\ Tail(ToRemove) = ToDelete /\ Tail(destroyVM) = ToRemove
<1>1. Tail(ToStart) = <<>>
  BY DEF ToStart
<1>2. Tail(ToDefine) = ToStart
  BY DEF ToStart, ToDefine
<1>3. Tail(createVM) = ToDefine
  BY DEF ToDefine, createVM
<1>4. Tail(ToRecreate) = createVM
  BY DEF createVM, ToRecreate
<1>5. Tail(ToUndefine) = ToRecreate
  BY DEF ToRecreate, ToUndefine
<1>6. Tail(ToClean) = ToUndefine
  BY DEF ToUndefine, ToClean
<1>7. Tail(ToDelete) = <<>>
  BY DEF ToDelete
<1>8. Tail(ToRemove) = ToDelete
  BY DEF ToDelete, ToRemove
<1>9. Tail(destroyVM) = ToRemove
  BY DEF ToRemove, destroyVM
<1> QED
  BY <1>1, <1>2, <1>3, <1>4, <1>5, <1>6, <1>7, <1>8, <1>9

LEMMA Heads ==
    /\ DueOf(<<>>) = "end" /\ DueOf(ToStart) = "start" /\ DueOf(ToDefine) = "define"
    /\ DueOf(createVM) = "createVolume" /\ DueOf(ToRecreate) = "deleteVolume"
    /\ DueOf(ToUndefine) = "undefine" /\ DueOf(ToClean) = "stop"
    /\ DueOf(ToDelete) = "deleteVolume" /\ DueOf(ToRemove) = "undefine"
    /\ DueOf(destroyVM) = "stop"
<1>1. DueOf(<<>>) = "end"
  BY DEF DueOf
<1>2. DueOf(ToStart) = "start"
  BY DEF DueOf, ToStart
<1>3. DueOf(ToDefine) = "define"
  BY DEF DueOf, ToDefine
<1>4. DueOf(createVM) = "createVolume"
  BY DEF DueOf, createVM
<1>5. DueOf(ToRecreate) = "deleteVolume"
  BY DEF DueOf, ToRecreate
<1>6. DueOf(ToUndefine) = "undefine"
  BY DEF DueOf, ToUndefine
<1>7. DueOf(ToClean) = "stop"
  BY DEF DueOf, ToClean
<1>8. DueOf(ToDelete) = "deleteVolume"
  BY DEF DueOf, ToDelete
<1>9. DueOf(ToRemove) = "undefine"
  BY DEF DueOf, ToRemove
<1>10. DueOf(destroyVM) = "stop"
  BY DEF DueOf, destroyVM
<1> QED
  BY <1>1, <1>2, <1>3, <1>4, <1>5, <1>6, <1>7, <1>8, <1>9, <1>10

LEMMA PlanStep ==
    ASSUME NEW call \in {"acquire", "clean", "release"}, NEW todo \in Plans(call), todo # <<>>
    PROVE  /\ Tail(todo) \in Plans(call)
           /\ Follows(call, DueOf(todo), DueOf(Tail(todo)))
<1>1. CASE call = "acquire"
  BY <1>1, Tails, Heads DEF Plans, Follows
<1>2. CASE call = "release"
  BY <1>2, Tails, Heads DEF Plans, Follows
<1>3. CASE call = "clean"
  BY <1>3, Tails, Heads, ZenonT(40) DEF Plans, Follows
<1> QED
  BY <1>1, <1>2, <1>3

LEMMA DestroyThenCreate == destroyVM \o createVM = ToClean
<1> DEFINE A == destroyVM
           B == createVM
<1>1. A \in Seq(Requests) /\ Len(A) = 3 /\ A[1] = "stop" /\ A[2] = "undefine" /\ A[3] = "deleteVolume"
  BY DEF destroyVM, Requests
<1>2. B \in Seq(Requests) /\ Len(B) = 3 /\ B[1] = "createVolume" /\ B[2] = "define" /\ B[3] = "start"
  BY DEF createVM, Requests
<1>3. ToClean \in Seq(Requests) /\ Len(ToClean) = 6
  BY DEF ToClean, Requests
<1>4. /\ ToClean[1] = "stop" /\ ToClean[2] = "undefine" /\ ToClean[3] = "deleteVolume"
      /\ ToClean[4] = "createVolume" /\ ToClean[5] = "define" /\ ToClean[6] = "start"
  BY DEF ToClean
<1> HIDE DEF A, B
<1>5. /\ A \o B \in Seq(Requests) /\ Len(A \o B) = Len(A) + Len(B)
      /\ \A i \in 1..(Len(A) + Len(B)) :
            (A \o B)[i] = IF i <= Len(A) THEN A[i] ELSE B[i - Len(A)]
  BY <1>1, <1>2, ConcatProperties
<1>6. Len(A \o B) = 6 /\ \A i \in 1..6 : (A \o B)[i] = IF i <= 3 THEN A[i] ELSE B[i - 3]
  BY <1>1, <1>2, <1>5
<1>7. \A i \in 1..6 : (A \o B)[i] = ToClean[i]
  <2>1. /\ (A \o B)[1] = IF 1 <= 3 THEN A[1] ELSE B[1 - 3]
        /\ (A \o B)[2] = IF 2 <= 3 THEN A[2] ELSE B[2 - 3]
        /\ (A \o B)[3] = IF 3 <= 3 THEN A[3] ELSE B[3 - 3]
        /\ (A \o B)[4] = IF 4 <= 3 THEN A[4] ELSE B[4 - 3]
        /\ (A \o B)[5] = IF 5 <= 3 THEN A[5] ELSE B[5 - 3]
        /\ (A \o B)[6] = IF 6 <= 3 THEN A[6] ELSE B[6 - 3]
    BY <1>6
  <2>2. \A i \in 1..6 : i \in {1, 2, 3, 4, 5, 6}
    OBVIOUS
  <2>3. /\ 1 <= 3 /\ 2 <= 3 /\ 3 <= 3 /\ ~(4 <= 3) /\ ~(5 <= 3) /\ ~(6 <= 3)
        /\ 4 - 3 = 1 /\ 5 - 3 = 2 /\ 6 - 3 = 3
    OBVIOUS
  <2> QED
    BY <1>1, <1>2, <1>4, <2>1, <2>2, <2>3
<1>8. A \o B = ToClean
  BY <1>3, <1>5, <1>6, <1>7, SeqEqual
<1> QED
  BY <1>8 DEF A, B

LEMMA PlanStart ==
    /\ createVM \in Plans("acquire") /\ DueOf(createVM) = "createVolume"
    /\ destroyVM \in Plans("release") /\ DueOf(destroyVM) = "stop"
    /\ destroyVM \o createVM \in Plans("clean") /\ DueOf(destroyVM \o createVM) = "stop"
BY Heads, DestroyThenCreate DEF Plans

LEMMA PlanTypes ==
    ASSUME NEW call \in {"acquire", "clean", "release"}, NEW todo \in Plans(call)
    PROVE  todo \in UNION { [1..n -> Requests] : n \in 0..6 }
<1>1. <<>> \in [1..0 -> Requests]
  OBVIOUS
<1>2. ToStart \in [1..1 -> Requests] /\ ToDelete \in [1..1 -> Requests]
  BY DEF ToStart, ToDelete, Requests
<1>3. ToDefine \in [1..2 -> Requests] /\ ToRemove \in [1..2 -> Requests]
  BY DEF ToDefine, ToRemove, Requests
<1>4. createVM \in [1..3 -> Requests] /\ destroyVM \in [1..3 -> Requests]
  BY DEF createVM, destroyVM, Requests
<1>5. ToRecreate \in [1..4 -> Requests]
  BY DEF ToRecreate, Requests
<1>6. ToUndefine \in [1..5 -> Requests]
  BY DEF ToUndefine, Requests
<1>7. ToClean \in [1..6 -> Requests]
  BY DEF ToClean, Requests
<1>8. \E n \in 0..6 : todo \in [1..n -> Requests]
  <2>1. 0 \in 0..6 /\ 1 \in 0..6 /\ 2 \in 0..6 /\ 3 \in 0..6 /\ 4 \in 0..6 /\ 5 \in 0..6 /\ 6 \in 0..6
    OBVIOUS
  <2>2. todo \in { <<>>, ToStart, ToDelete, ToDefine, ToRemove, createVM, destroyVM,
                   ToRecreate, ToUndefine, ToClean }
    BY DEF Plans
  <2> QED
    BY <1>1, <1>2, <1>3, <1>4, <1>5, <1>6, <1>7, <2>1, <2>2
<1> QED
  BY <1>8

-----------------------------------------------------------------------------
(* The inductive invariant.                                                *)

OneOwner == \A c, d \in CIRs : use[c].id = use[d].id /\ use[c].id # NoMachine => c = d

\* There is a volume, without data of a client.
Intact(m) == m \in volume /\ m \notin dirty

Held(c) ==
    LET m == use[c].id IN
    /\ use[c].step \in {"acquiring", "available"} => domain[m] # "none" /\ Intact(m)
    /\ use[c].step = "in use" => domain[m] # "none" /\ m \in dirty

\* For whom the call is made.
Called ==
    work # Idle =>
        /\ work.todo \in Plans(work.call)
        /\ work.call = "acquire" => ~Named(work.id) /\ use[work.c].step = "none"
        /\ work.call = "clean" => use[work.c].step = "cleaning" /\ use[work.c].id = work.id
        /\ work.call = "release" => use[work.c].step = "releasing" /\ use[work.c].id = work.id

\* How far the call has got.
Reached ==
    LET m == work.id IN
    work # Idle =>
        /\ Due = "stop" => domain[m] # "none"
        /\ Due = "undefine" => domain[m] = "off"
        /\ Due = "deleteVolume" => domain[m] = "none"
        /\ Due = "createVolume" =>
              domain[m] = "none" /\ (work.call = "acquire" => m \notin volume /\ m \notin dirty)
        /\ Due = "define" => domain[m] = "none" /\ Intact(m)
        /\ Due = "start" => domain[m] = "off" /\ Intact(m)
        /\ Due = "end" =>
              IF work.call = "release" THEN domain[m] = "none"
              ELSE domain[m] \in {"booting", "up"} /\ Intact(m)

IInv == TypeOK /\ OneOwner /\ (\A c \in CIRs : Held(c)) /\ Called /\ Reached

-----------------------------------------------------------------------------
(* Types.                                                                  *)

MachineTypeOK ==
    /\ domain \in [Machines -> DomainStates]
    /\ volume \in SUBSET Machines
    /\ dirty \in SUBSET Machines

UseTypeOK ==
    /\ use \in [CIRs -> [step : Steps, id : Machines \union {NoMachine}]]
    /\ \A c \in CIRs : use[c].id = NoMachine <=> use[c].step = "none"

WorkTypeOK == work \in {Idle} \union Calls

LEMMA TypeParts ==
    TypeOK <=> MachineTypeOK /\ UseTypeOK /\ WorkTypeOK /\ mishaps \in SUBSET Mishaps
BY DEF TypeOK, MachineTypeOK, UseTypeOK, WorkTypeOK, CallsTypeOK

LEMMA NameTypes ==
    ASSUME TypeOK, NEW c \in CIRs, NEW m \in Machines, NEW step \in Steps \ {"none"},
           Name(c, step, m)
    PROVE  /\ UseTypeOK'
           /\ use'[c].step = step /\ use'[c].id = m
           /\ \A d \in CIRs : d # c => use'[d] = use[d]
<1>1. m # NoMachine
  BY CallsAssumption
<1> QED
  BY <1>1 DEF TypeOK, CallsTypeOK, UseTypeOK, Name

LEMMA ForgetTypes ==
    ASSUME TypeOK, NEW c \in CIRs, Forget(c)
    PROVE  /\ UseTypeOK'
           /\ use'[c].step = "none" /\ use'[c].id = NoMachine
           /\ \A d \in CIRs : d # c => use'[d] = use[d]
<1>1. Unused.step = "none" /\ Unused.id = NoMachine
      /\ Unused \in [step : Steps, id : Machines \union {NoMachine}]
  BY DEF Unused, Steps
<1> QED
  BY <1>1 DEF TypeOK, CallsTypeOK, UseTypeOK, Forget

LEMMA MishapTypes ==
    ASSUME TypeOK
    PROVE  /\ \A m \in Mishaps : Happens(m) => mishaps' \in SUBSET Mishaps
           /\ AllWell => mishaps' \in SUBSET Mishaps
BY DEF TypeOK, Happens, AllWell

\* The machine of a call.
LEMMA InCall ==
    ASSUME TypeOK, NEW c \in CIRs
    PROVE  /\ use[c].step \in Steps /\ use[c].id \in Machines \union {NoMachine}
           /\ use[c].step # "none" => use[c].id \in Machines /\ use[c].id # NoMachine
           /\ use[c].step = "none" => use[c].id = NoMachine /\ use[c].id \notin Machines
BY CallsAssumption DEF TypeOK, CallsTypeOK

LEMMA InWork ==
    ASSUME TypeOK, work # Idle
    PROVE  /\ work \in Calls
           /\ work.call \in {"acquire", "clean", "release"}
           /\ work.c \in CIRs /\ work.id \in Machines
BY DEF TypeOK, Calls

\* The beginning of a call.
LEMMA CallTypes ==
    ASSUME NEW op \in {"acquire", "clean", "release"}, NEW c \in CIRs, NEW m \in Machines,
           NEW todo \in Plans(op), Call(op, c, m, todo)
    PROVE  /\ WorkTypeOK' /\ work' # Idle
           /\ work'.call = op /\ work'.c = c /\ work'.id = m /\ work'.todo = todo
           /\ Due' = DueOf(todo)
<1>1. todo \in UNION { [1..n -> Requests] : n \in 0..6 }
  BY PlanTypes
<1> DEFINE T == UNION { [1..n -> Requests] : n \in 0..6 }
<1>2. Calls = [call : {"acquire", "clean", "release"}, c : CIRs, id : Machines, todo : T]
  BY DEF Calls
<1>3. todo \in T
  BY <1>1
<1>4. work' = [call |-> op, c |-> c, id |-> m, todo |-> todo]
  BY DEF Call
<1> HIDE DEF T
<1>5. work' \in Calls /\ work'.call = op /\ work'.c = c /\ work'.id = m /\ work'.todo = todo
  BY <1>2, <1>3, <1>4
<1>6. work' # Idle
  BY <1>5 DEF Idle
<1> QED
  BY <1>5, <1>6 DEF WorkTypeOK, Due

\* A request has been made, or was skipped: the next one.
LEMMA NextDue ==
    ASSUME IInv, work # Idle, work.todo # <<>>, work' = [work EXCEPT !.todo = Tail(@)]
    PROVE  /\ WorkTypeOK' /\ work' # Idle
           /\ work'.call = work.call /\ work'.c = work.c /\ work'.id = work.id
           /\ work'.todo \in Plans(work.call)
           /\ Follows(work.call, Due, Due')
<1>1. work \in Calls /\ work.call \in {"acquire", "clean", "release"} /\ work.todo \in Plans(work.call)
  BY InWork DEF IInv, Called
<1>2. /\ Tail(work.todo) \in Plans(work.call)
      /\ Follows(work.call, DueOf(work.todo), DueOf(Tail(work.todo)))
  BY <1>1, PlanStep
<1>3. Tail(work.todo) \in UNION { [1..n -> Requests] : n \in 0..6 }
  BY <1>1, <1>2, PlanTypes
<1> DEFINE T == UNION { [1..n -> Requests] : n \in 0..6 }
           rest == Tail(work.todo)
<1>4. Calls = [call : {"acquire", "clean", "release"}, c : CIRs, id : Machines, todo : T]
  BY DEF Calls
<1>5. rest \in T /\ work' = [work EXCEPT !.todo = rest]
  BY <1>3
<1> HIDE DEF T, rest
<1>6. /\ work' \in Calls /\ work'.todo = rest
      /\ work'.call = work.call /\ work'.c = work.c /\ work'.id = work.id
  BY <1>1, <1>4, <1>5
<1>7. work' # Idle
  BY <1>1, <1>6 DEF Idle
<1> QED
  BY <1>2, <1>6, <1>7 DEF WorkTypeOK, Due, rest

-----------------------------------------------------------------------------
(* The requests.                                                           *)

\* Nothing but m changes.
Only(m) ==
    \A g \in Machines : g # m =>
        /\ domain'[g] = domain[g]
        /\ g \in volume' <=> g \in volume
        /\ g \in dirty' <=> g \in dirty

LEMMA EffectOf ==
    ASSUME TypeOK, NEW m \in Machines, NEW request \in Requests, Effect(request, m)
    PROVE  /\ MachineTypeOK' /\ Only(m)
           /\ request \in {"stop", "define"} =>
                 domain'[m] = "off" /\ volume' = volume /\ dirty' = dirty
           /\ request = "undefine" => domain'[m] = "none" /\ volume' = volume /\ dirty' = dirty
           /\ request = "start" => domain'[m] = "booting" /\ volume' = volume /\ dirty' = dirty
           /\ request = "deleteVolume" =>
                 domain' = domain /\ volume' = volume \ {m} /\ dirty' = dirty
           /\ request = "createVolume" =>
                 /\ domain' = domain
                 /\ m \notin volume /\ volume' = volume \union {m} /\ dirty' = dirty \ {m}
<1>1. ASSUME NEW state \in {"off", "none", "booting"}, Domain(m, state)
      PROVE  /\ MachineTypeOK' /\ Only(m)
             /\ domain'[m] = state /\ volume' = volume /\ dirty' = dirty
  BY <1>1 DEF Domain, TypeOK, CallsTypeOK, MachineTypeOK, Only, DomainStates
<1>2. CASE request \in {"stop", "define"}
  <2>1. Domain(m, "off")
    BY <1>2 DEF Effect
  <2> QED
    BY <1>1, <1>2, <2>1
<1>3. CASE request = "undefine"
  <2>1. Domain(m, "none")
    BY <1>3 DEF Effect
  <2> QED
    BY <1>1, <1>3, <2>1
<1>4. CASE request = "start"
  <2>1. Domain(m, "booting")
    BY <1>4 DEF Effect
  <2> QED
    BY <1>1, <1>4, <2>1
<1>5. CASE request = "deleteVolume"
  <2>1. DeleteVolume(m)
    BY <1>5 DEF Effect
  <2> QED
    BY <1>5, <2>1 DEF DeleteVolume, TypeOK, CallsTypeOK, MachineTypeOK, Only
<1>6. CASE request = "createVolume"
  <2>1. CreateVolume(m)
    BY <1>6 DEF Effect
  <2> QED
    BY <1>6, <2>1 DEF CreateVolume, TypeOK, CallsTypeOK, MachineTypeOK, Only
<1> QED
  BY <1>2, <1>3, <1>4, <1>5, <1>6 DEF Requests

\* The machine of a call is not one that a client has, or may get.
LEMMA OutOfUse ==
    ASSUME IInv, work # Idle, NEW c \in CIRs, use[c].id = work.id
    PROVE  /\ c = work.c
           /\ \/ work.call = "clean" /\ use[c].step = "cleaning"
              \/ work.call = "release" /\ use[c].step = "releasing"
<1>1. work.call \in {"acquire", "clean", "release"} /\ work.c \in CIRs
      /\ work.id \in Machines /\ work.id # NoMachine
  BY InWork, CallsAssumption DEF IInv
<1> QED
  BY <1>1 DEF IInv, Called, OneOwner, Named

LEMMA HeldElsewhere ==
    ASSUME IInv, NEW d \in CIRs, use'[d] = use[d],
           \/ domain' = domain /\ volume' = volume /\ dirty' = dirty
           \/ \E m \in Machines : Only(m) /\ use[d].id # m
    PROVE  Held(d)'
<1>1. Held(d) /\ (use[d].step # "none" => use[d].id \in Machines)
  BY InCall DEF IInv
<1>2. CASE domain' = domain /\ volume' = volume /\ dirty' = dirty
  BY <1>1, <1>2 DEF Held, Intact
<1>3. CASE use[d].step # "none" /\ \E m \in Machines : Only(m) /\ use[d].id # m
  BY <1>1, <1>3 DEF Held, Intact, Only
<1>4. CASE use[d].step = "none"
  BY <1>4 DEF Held
<1> QED
  BY <1>2, <1>3, <1>4

\* The call goes on to its next request.
LEMMA Advance ==
    ASSUME IInv, work # Idle, work.todo # <<>>, work' = [work EXCEPT !.todo = Tail(@)],
           use' = use, MachineTypeOK', mishaps' \in SUBSET Mishaps,
           Only(work.id),
           Reached'
    PROVE  IInv'
<1>1. /\ WorkTypeOK' /\ work' # Idle
      /\ work'.call = work.call /\ work'.c = work.c /\ work'.id = work.id
      /\ work'.todo \in Plans(work.call)
  BY NextDue
<1>2. work.id \in Machines /\ work.call \in {"acquire", "clean", "release"}
  BY InWork DEF IInv
<1>3. UseTypeOK'
  BY TypeParts DEF IInv, UseTypeOK
<1>4. TypeOK'
  BY <1>1, <1>3 DEF TypeOK, MachineTypeOK, UseTypeOK, WorkTypeOK, CallsTypeOK
<1>5. OneOwner'
  BY DEF IInv, OneOwner
<1>6. Called'
  BY <1>1 DEF IInv, Called, Named
<1>7. ASSUME NEW d \in CIRs PROVE Held(d)'
  <2>1. CASE use[d].id = work.id
    <3>1. use'[d].step \in {"cleaning", "releasing"}
      BY <2>1, OutOfUse
    <3> QED
      BY <3>1 DEF Held
  <2>2. CASE use[d].id # work.id
    BY <1>2, <2>2, HeldElsewhere
  <2> QED
    BY <2>1, <2>2
<1> QED
  BY <1>4, <1>5, <1>6, <1>7 DEF IInv

LEMMA RequestKeeps ==
    ASSUME IInv, Request
    PROVE  IInv'
<1>1. /\ work # Idle /\ work.todo # <<>> /\ Effect(Due, work.id)
      /\ work' = [work EXCEPT !.todo = Tail(@)] /\ use' = use /\ mishaps' = mishaps
  BY DEF Request, Due, DueOf
<1>2. work.id \in Machines /\ work.call \in {"acquire", "clean", "release"}
  BY <1>1, InWork DEF IInv
<1>3. /\ work' # Idle /\ work'.id = work.id /\ work'.call = work.call
      /\ Follows(work.call, Due, Due')
  BY <1>1, NextDue
<1>4. Due \in Requests
  BY <1>3 DEF Follows, Requests
<1>5. MachineTypeOK' /\ Only(work.id)
  BY <1>1, <1>2, <1>4, EffectOf DEF IInv
<1>6. Reached'
  <2> DEFINE m == work.id
  <2>1. CASE Due = "stop" \/ Due = "undefine"
    <3>1. domain'[m] = (IF Due = "stop" THEN "off" ELSE "none")
      BY <1>1, <1>2, <1>4, <2>1, EffectOf DEF IInv
    <3>2. Due' = (IF Due = "stop" THEN "undefine" ELSE "deleteVolume")
      BY <1>3, <2>1 DEF Follows
    <3> QED
      BY <1>3, <2>1, <3>1, <3>2 DEF Reached
  <2>2. CASE Due = "deleteVolume"
    <3>1. domain' = domain /\ domain[m] = "none"
      BY <1>1, <1>2, <1>4, <2>2, EffectOf DEF IInv, Reached
    <3>2. Due' = (IF work.call = "release" THEN "end" ELSE "createVolume") /\ work.call # "acquire"
      BY <1>3, <2>2 DEF Follows
    <3> QED
      BY <1>3, <3>1, <3>2 DEF Reached
  <2>3. CASE Due = "createVolume"
    <3>1. domain' = domain /\ domain[m] = "none" /\ m \in volume' /\ m \notin dirty'
      BY <1>1, <1>2, <1>4, <2>3, EffectOf DEF IInv, Reached
    <3>2. Due' = "define"
      BY <1>3, <2>3 DEF Follows
    <3> QED
      BY <1>3, <3>1, <3>2 DEF Reached, Intact
  <2>4. CASE Due = "define" \/ Due = "start"
    <3>1. /\ volume' = volume /\ dirty' = dirty /\ Intact(m)
          /\ domain'[m] = (IF Due = "define" THEN "off" ELSE "booting")
      BY <1>1, <1>2, <1>4, <2>4, EffectOf DEF IInv, Reached
    <3>2. Due' = (IF Due = "define" THEN "start" ELSE "end") /\ work.call # "release"
      BY <1>3, <2>4 DEF Follows
    <3> QED
      BY <1>3, <2>4, <3>1, <3>2 DEF Reached, Intact
  <2> QED
    BY <1>4, <2>1, <2>2, <2>3, <2>4 DEF Requests
<1>7. mishaps' \in SUBSET Mishaps
  BY <1>1 DEF IInv, TypeOK
<1> QED
  BY <1>1, <1>5, <1>6, <1>7, Advance

-----------------------------------------------------------------------------
(* The calls and the clients.                                              *)

\* What is about one CIResource and its machine.
LEMMA Served ==
    ASSUME IInv, TypeOK', NEW c \in CIRs, \A d \in CIRs : d # c => use'[d] = use[d],
           \/ use'[c].id \in {NoMachine, use[c].id}
           \/ ~Named(use'[c].id),
           \/ domain' = domain /\ volume' = volume /\ dirty' = dirty
           \/ use[c].id \in Machines /\ Only(use[c].id),
           Held(c)', Called', Reached'
    PROVE  IInv'
<1>1. OneOwner'
  BY DEF IInv, OneOwner, Named
<1>2. ASSUME NEW d \in CIRs PROVE Held(d)'
  <2>1. CASE d = c
    BY <2>1
  <2>2. CASE d # c /\ domain' = domain /\ volume' = volume /\ dirty' = dirty
    BY <2>2, HeldElsewhere
  <2>3. CASE d # c /\ use[c].id \in Machines /\ Only(use[c].id)
    <3>1. use[c].id # NoMachine
      BY <2>3, CallsAssumption
    <3>2. use[d].id # use[c].id
      BY <2>3, <3>1 DEF IInv, OneOwner
    <3> QED
      BY <2>3, <3>2, HeldElsewhere
  <2> QED
    BY <2>1, <2>2, <2>3
<1> QED
  BY <1>1, <1>2 DEF IInv

LEMMA AcquireKeeps ==
    ASSUME IInv, NEW c \in CIRs, Acquire(c)
    PROVE  IInv'
<1>1. PICK m \in Unseen : Call("acquire", c, m, createVM)
  BY DEF Acquire
<1>2. /\ m \in Machines /\ domain[m] = "none" /\ m \notin volume /\ m \notin dirty /\ ~Named(m)
      /\ use[c].step = "none" /\ domain' = domain /\ volume' = volume
      /\ use' = use /\ dirty' = dirty /\ mishaps' = mishaps
  BY <1>1 DEF Acquire, Unseen, MayAcquire, callVars
<1>3. /\ WorkTypeOK' /\ work' # Idle
      /\ work'.call = "acquire" /\ work'.c = c /\ work'.id = m /\ work'.todo = createVM
      /\ Due' = "createVolume"
  BY <1>1, <1>2, CallTypes, PlanStart
<1>4. TypeOK'
  BY <1>2, <1>3 DEF IInv, TypeOK, CallsTypeOK, WorkTypeOK
<1>5. Called'
  BY <1>2, <1>3, PlanStart DEF Called, Named
<1>6. Reached'
  BY <1>2, <1>3 DEF Reached
<1>7. Held(c)'
  BY <1>2 DEF Held
<1> QED
  BY <1>2, <1>4, <1>5, <1>6, <1>7, Served

LEMMA AcquireCompletedKeeps ==
    ASSUME IInv, NEW c \in CIRs, AcquireCompleted(c)
    PROVE  IInv'
<1> DEFINE m == use[c].id
<1>1. /\ work = Idle /\ use[c].step = "acquiring" /\ Name(c, "available", m)
      /\ domain' = domain /\ volume' = volume /\ work' = work /\ dirty' = dirty /\ mishaps' = mishaps
  BY DEF AcquireCompleted
<1>2. m \in Machines /\ "available" \in Steps \ {"none"}
  BY <1>1, InCall DEF IInv, Steps
<1>3. /\ UseTypeOK' /\ use'[c].step = "available" /\ use'[c].id = m
      /\ \A d \in CIRs : d # c => use'[d] = use[d]
  BY <1>1, <1>2, NameTypes DEF IInv
<1>4. TypeOK'
  BY <1>1, <1>3 DEF IInv, TypeOK, CallsTypeOK, UseTypeOK
<1>5. Held(c)'
  BY <1>1, <1>3 DEF IInv, Held, Intact
<1>6. Called' /\ Reached'
  BY <1>1 DEF Called, Reached
<1> QED
  BY <1>1, <1>3, <1>4, <1>5, <1>6, Served

LEMMA CleanKeeps ==
    ASSUME IInv, NEW c \in CIRs, Clean(c)
    PROVE  IInv'
<1> DEFINE m == use[c].id
<1>1. /\ work = Idle /\ use[c].step \in {"in use", "cleaning"} /\ domain[m] # "none"
      /\ Call("clean", c, m, destroyVM \o createVM) /\ Name(c, "cleaning", m)
      /\ domain' = domain /\ volume' = volume /\ dirty' = dirty /\ mishaps' = mishaps
  BY DEF Clean, MayClean
<1>2. m \in Machines /\ "cleaning" \in Steps \ {"none"}
  BY <1>1, InCall DEF IInv, Steps
<1>3. /\ UseTypeOK' /\ use'[c].step = "cleaning" /\ use'[c].id = m
      /\ \A d \in CIRs : d # c => use'[d] = use[d]
  BY <1>1, <1>2, NameTypes DEF IInv
<1>4. /\ WorkTypeOK' /\ work' # Idle /\ work'.call = "clean" /\ work'.c = c /\ work'.id = m
      /\ work'.todo = destroyVM \o createVM /\ Due' = "stop"
  BY <1>1, <1>2, CallTypes, PlanStart
<1>5. TypeOK'
  BY <1>1, <1>3, <1>4 DEF IInv, TypeOK, CallsTypeOK, UseTypeOK, WorkTypeOK
<1>6. Held(c)'
  BY <1>3 DEF Held
<1>7. Called'
  BY <1>3, <1>4, PlanStart DEF Called
<1>8. Reached'
  BY <1>1, <1>4 DEF Reached
<1> QED
  BY <1>1, <1>3, <1>5, <1>6, <1>7, <1>8, Served

LEMMA ReleaseKeeps ==
    ASSUME IInv, NEW c \in CIRs, Release(c)
    PROVE  IInv'
<1> DEFINE m == use[c].id
<1>1. /\ work = Idle /\ use[c].step \in {"available", "releasing", "in use"}
      /\ domain' = domain /\ volume' = volume /\ dirty' = dirty /\ mishaps' = mishaps
  BY DEF Release, MayRelease
<1>2. m \in Machines /\ "releasing" \in Steps \ {"none"}
  BY <1>1, InCall DEF IInv, Steps
<1>3. CASE domain[m] # "none" /\ Call("release", c, m, destroyVM) /\ Name(c, "releasing", m)
  <2>1. /\ UseTypeOK' /\ use'[c].step = "releasing" /\ use'[c].id = m
        /\ \A d \in CIRs : d # c => use'[d] = use[d]
    BY <1>2, <1>3, NameTypes DEF IInv
  <2>2. /\ WorkTypeOK' /\ work' # Idle /\ work'.call = "release" /\ work'.c = c /\ work'.id = m
        /\ work'.todo = destroyVM /\ Due' = "stop"
    BY <1>2, <1>3, CallTypes, PlanStart
  <2>3. TypeOK'
    BY <1>1, <2>1, <2>2 DEF IInv, TypeOK, CallsTypeOK, UseTypeOK, WorkTypeOK
  <2>4. Held(c)'
    BY <2>1 DEF Held
  <2>5. Called'
    BY <2>1, <2>2, PlanStart DEF Called
  <2>6. Reached'
    BY <1>1, <1>3, <2>2 DEF Reached
  <2> QED
    BY <1>1, <2>1, <2>3, <2>4, <2>5, <2>6, Served
<1>4. CASE Forget(c) /\ UNCHANGED work
  <2>1. /\ UseTypeOK' /\ use'[c].step = "none" /\ use'[c].id = NoMachine
        /\ \A d \in CIRs : d # c => use'[d] = use[d]
    BY <1>4, ForgetTypes DEF IInv
  <2>2. TypeOK'
    BY <1>1, <1>4, <2>1 DEF IInv, TypeOK, CallsTypeOK, UseTypeOK
  <2>3. Held(c)'
    BY <2>1 DEF Held
  <2>4. Called' /\ Reached'
    BY <1>1, <1>4 DEF Called, Reached
  <2> QED
    BY <1>1, <2>1, <2>2, <2>3, <2>4, Served
<1> QED
  BY <1>3, <1>4 DEF Release

LEMMA EndKeeps ==
    ASSUME IInv, work' = Idle, UNCHANGED <<domain, volume, use, dirty>>, mishaps' \in SUBSET Mishaps
    PROVE  IInv'
<1>1. domain' = domain /\ volume' = volume /\ use' = use /\ dirty' = dirty
  OBVIOUS
<1>2. TypeOK' /\ OneOwner'
  BY <1>1 DEF IInv, TypeOK, CallsTypeOK, OneOwner
<1>3. \A c \in CIRs : Held(c)'
  BY <1>1 DEF IInv, Held, Intact
<1>4. Called' /\ Reached'
  BY DEF Called, Reached
<1> QED
  BY <1>2, <1>3, <1>4 DEF IInv

LEMMA VolumeNotFoundKeeps ==
    ASSUME IInv, VolumeNotFound
    PROVE  IInv'
<1>1. /\ work # Idle /\ work.todo # <<>> /\ Due = "deleteVolume"
      /\ work' = [work EXCEPT !.todo = Tail(@)] /\ Happens("ignored")
      /\ domain' = domain /\ volume' = volume /\ use' = use /\ dirty' = dirty
  BY DEF VolumeNotFound, Due, DueOf
<1>2. /\ work' # Idle /\ work'.id = work.id /\ work'.call = work.call
      /\ Follows(work.call, Due, Due')
  BY <1>1, NextDue
<1>3. Due' = (IF work.call = "release" THEN "end" ELSE "createVolume") /\ work.call # "acquire"
  BY <1>1, <1>2 DEF Follows
<1>4. domain[work.id] = "none"
  BY <1>1 DEF IInv, Reached
<1>5. Reached'
  BY <1>1, <1>2, <1>3, <1>4 DEF Reached
<1>6. MachineTypeOK' /\ Only(work.id)
  BY <1>1 DEF IInv, TypeOK, CallsTypeOK, MachineTypeOK, Only
<1>7. mishaps' \in SUBSET Mishaps
  BY <1>1, MishapTypes DEF IInv, Mishaps
<1> QED
  BY <1>1, <1>5, <1>6, <1>7, Advance

LEMMA ReturnKeeps ==
    ASSUME IInv, Return
    PROVE  IInv'
<1>1. /\ work # Idle /\ Due = "end" /\ work' = Idle
      /\ domain' = domain /\ volume' = volume /\ dirty' = dirty
  BY DEF Return, Due, DueOf
<1>2. /\ work.call \in {"acquire", "clean", "release"} /\ work.c \in CIRs
      /\ work.id \in Machines /\ work.id # NoMachine
  BY <1>1, InWork, CallsAssumption DEF IInv
<1>3. Called' /\ Reached'
  BY <1>1 DEF Called, Reached
<1>4. work.call # "release" => domain[work.id] \in {"booting", "up"} /\ Intact(work.id)
  BY <1>1 DEF IInv, Reached
<1>5. /\ work.call = "acquire" => ~Named(work.id)
      /\ work.call = "clean" => use[work.c].step = "cleaning" /\ use[work.c].id = work.id
      /\ work.call = "release" => use[work.c].step = "releasing" /\ use[work.c].id = work.id
  BY <1>1 DEF IInv, Called
<1>6. CASE use' = use /\ mishaps' \in SUBSET Mishaps
  BY <1>1, <1>6, EndKeeps
<1>7. ASSUME NEW c \in CIRs, NEW m \in Machines, c = work.c, m = work.id,
             NEW step \in {"acquiring", "available", "releasing"},
             AllWell \/ Happens("lost release"),
             Name(c, step, m),
             step = "releasing" <=> work.call = "release"
      PROVE  IInv'
  <2>1. /\ UseTypeOK' /\ use'[c].step = step /\ use'[c].id = m
        /\ \A d \in CIRs : d # c => use'[d] = use[d]
    <3>1. step \in Steps \ {"none"}
      BY DEF Steps
    <3>2. TypeOK /\ Name(c, step, m)
      BY <1>7 DEF IInv
    <3> QED
      BY <3>1, <3>2, NameTypes
  <2>2. mishaps' \in SUBSET Mishaps
    BY <1>7, MishapTypes DEF IInv, Mishaps
  <2>3. TypeOK'
    BY <1>1, <2>1, <2>2 DEF IInv, TypeOK, CallsTypeOK, UseTypeOK
  <2>4. Held(c)'
    <3>1. step # "releasing" => domain'[m] # "none" /\ m \in volume' /\ m \notin dirty'
      BY <1>1, <1>4, <1>7 DEF Intact
    <3> QED
      BY <1>7, <2>1, <3>1 DEF Held, Intact
  <2>5. use'[c].id = use[c].id \/ ~Named(use'[c].id)
    BY <1>2, <1>5, <1>7, <2>1
  <2> QED
    BY <1>1, <1>3, <2>1, <2>3, <2>4, <2>5, Served
<1>8. ASSUME NEW c \in CIRs, AllWell, Forget(c) PROVE IInv'
  <2>1. /\ UseTypeOK' /\ use'[c].step = "none" /\ use'[c].id = NoMachine
        /\ \A d \in CIRs : d # c => use'[d] = use[d]
    BY <1>2, <1>8, ForgetTypes DEF IInv
  <2>2. TypeOK'
    BY <1>1, <1>8, <2>1 DEF IInv, TypeOK, CallsTypeOK, UseTypeOK, AllWell
  <2>3. Held(c)'
    BY <2>1 DEF Held
  <2> QED
    BY <1>1, <1>3, <2>1, <2>2, <2>3, Served
<1>9. CASE work.call = "acquire"
  <2>1. (AllWell /\ Name(work.c, "acquiring", work.id)) \/ (Happens("lost") /\ use' = use)
    BY <1>9 DEF Return
  <2>2. Happens("lost") => mishaps' \in SUBSET Mishaps
    BY MishapTypes DEF IInv, Mishaps
  <2> QED
    BY <1>2, <1>6, <1>7, <1>9, <2>1, <2>2
<1>10. CASE work.call = "clean"
  <2>1. Recorded(work.c, "available")
    BY <1>10 DEF Return
  <2>2. (AllWell /\ Name(work.c, "available", work.id)) \/ (Happens("lost") /\ use' = use)
    BY <1>5, <1>10, <2>1 DEF Recorded
  <2>3. Happens("lost") => mishaps' \in SUBSET Mishaps
    BY MishapTypes DEF IInv, Mishaps
  <2> QED
    BY <1>2, <1>6, <1>7, <1>10, <2>2, <2>3
<1>11. CASE work.call = "release"
  <2>1. Released(work.c)
    BY <1>11 DEF Return
  <2>2. \/ AllWell /\ Forget(work.c)
        \/ Happens("lost release") /\ Name(work.c, "releasing", work.id)
    BY <1>5, <1>11, <2>1 DEF Released
  <2> QED
    BY <1>2, <1>7, <1>8, <1>11, <2>2
<1> QED
  BY <1>2, <1>9, <1>10, <1>11

LEMMA UseKeeps ==
    ASSUME IInv, NEW c \in CIRs, UseMachine(c)
    PROVE  IInv'
<1> DEFINE m == use[c].id
<1>1. /\ use[c].step = "available" /\ Name(c, "in use", m) /\ dirty' = dirty \union {m}
      /\ domain' = domain /\ volume' = volume /\ work' = work /\ mishaps' = mishaps
  BY DEF UseMachine, ClientUse
<1>2. m \in Machines /\ "in use" \in Steps \ {"none"}
  BY <1>1, InCall DEF IInv, Steps
<1>3. /\ UseTypeOK' /\ use'[c].step = "in use" /\ use'[c].id = m
      /\ \A d \in CIRs : d # c => use'[d] = use[d]
  BY <1>1, <1>2, NameTypes DEF IInv
<1>4. TypeOK'
  BY <1>1, <1>2, <1>3 DEF IInv, TypeOK, CallsTypeOK, UseTypeOK
<1>5. Only(m)
  BY <1>1 DEF Only
<1>6. Held(c)'
  BY <1>1, <1>3 DEF IInv, Held
<1>7. work # Idle => work.id # m
  BY <1>1, OutOfUse
<1>8. Called'
  <2>1. ASSUME NEW g, Named(g)' PROVE Named(g)
    BY <1>3, <2>1 DEF Named
  <2>2. work # Idle => work.c \in CIRs
    BY InWork DEF IInv
  <2> QED
    BY <1>1, <1>3, <2>1, <2>2 DEF IInv, Called
<1>9. Reached'
  <2>1. work # Idle => (Intact(work.id) => Intact(work.id)') /\ (work.id \in dirty' => work.id \in dirty)
    BY <1>1, <1>7 DEF Intact
  <2>2. Due' = Due
    BY <1>1 DEF Due
  <2> QED
    BY <1>1, <2>1, <2>2 DEF IInv, Reached, Intact
<1> QED
  BY <1>2, <1>3, <1>4, <1>5, <1>6, <1>8, <1>9, Served

\* A domain that runs, or no longer runs: no volume changes, nor any call.
LEMMA RunsKeeps ==
    ASSUME IInv, NEW m \in Machines, NEW state \in {"up", "off"}, Domain(m, state),
           domain[m] \in {"booting", "up"}, domain[m] = "booting" <=> state = "up",
           UNCHANGED <<work, use, mishaps>>,
           state = "off" => \E c \in CIRs : use[c].step = "in use" /\ use[c].id = m
    PROVE  IInv'
<1>1. /\ volume' = volume /\ dirty' = dirty /\ work' = work /\ use' = use /\ mishaps' = mishaps
      /\ domain \in [Machines -> DomainStates]
      /\ domain' = [domain EXCEPT ![m] = state] /\ state \in DomainStates
  BY DEF Domain, IInv, TypeOK, DomainStates
<1>2. domain' \in [Machines -> DomainStates] /\ domain'[m] = state
      /\ \A g \in Machines : g # m => domain'[g] = domain[g]
  BY <1>1
<1>3. TypeOK' /\ OneOwner' /\ Called'
  <2>1. TypeOK'
    BY <1>1, <1>2 DEF IInv, TypeOK, CallsTypeOK
  <2>2. OneOwner'
    BY <1>1 DEF IInv, OneOwner
  <2>3. Called'
    BY <1>1 DEF IInv, Called, Named
  <2> QED
    BY <2>1, <2>2, <2>3
<1>4. ASSUME NEW c \in CIRs PROVE Held(c)'
  <2>1. use[c].step # "none" => use[c].id \in Machines
    BY InCall DEF IInv
  <2> QED
    BY <1>1, <1>2, <2>1 DEF IInv, Held, Intact
<1>5. work # Idle => work.id \in Machines /\ (work.id = m => state = "up")
  <2>1. work # Idle => work.id \in Machines
    BY InWork DEF IInv
  <2>2. work # Idle /\ work.id = m => state = "up"
    BY OutOfUse
  <2> QED
    BY <2>1, <2>2
<1>6. Due' = Due
  BY <1>1 DEF Due
<1>7. Reached'
  BY <1>1, <1>2, <1>5, <1>6 DEF IInv, Reached, Intact
<1> QED
  BY <1>3, <1>4, <1>7 DEF IInv

LEMMA BootKeeps ==
    ASSUME IInv, NEW m \in Machines, Boot(m)
    PROVE  IInv'
BY RunsKeeps DEF Boot

LEMMA PowerOffKeeps ==
    ASSUME IInv, NEW c \in CIRs, PowerOff(c)
    PROVE  IInv'
<1>1. use[c].step = "in use" /\ use[c].id \in Machines
  BY InCall DEF PowerOff, IInv
<1> QED
  BY <1>1, RunsKeeps DEF PowerOff

LEMMA InductiveInvariant == Spec => []IInv
<1>1. Init => IInv
  <2>1. ASSUME Init PROVE TypeOK
    BY <2>1 DEF Init, TypeOK, CallsInit, CallsTypeOK, Unused, Steps, DomainStates
  <2>2. ASSUME Init, NEW c \in CIRs PROVE use[c].step = "none" /\ use[c].id = NoMachine
    BY <2>2 DEF Init, CallsInit, Unused
  <2>3. Init => work = Idle
    BY DEF Init
  <2> QED
    BY <2>1, <2>2, <2>3 DEF IInv, OneOwner, Held, Called, Reached
<1>2. IInv /\ [Next]_vars => IInv'
  <2> SUFFICES ASSUME IInv, [Next]_vars PROVE IInv'
    OBVIOUS
  <2>1. ASSUME Refused \/ Fault PROVE IInv'
    <3>1. mishaps' \in SUBSET Mishaps
      BY <2>1, MishapTypes DEF Refused, Fault, IInv, TypeOK, Mishaps
    <3> QED
      BY <2>1, <3>1, EndKeeps DEF Refused, Fault
  <2>2. CASE UNCHANGED vars
    <3>1. /\ domain' = domain /\ volume' = volume /\ work' = work
          /\ use' = use /\ dirty' = dirty /\ mishaps' = mishaps
      BY <2>2 DEF vars, callVars
    <3> QED
      BY <3>1 DEF IInv, TypeOK, CallsTypeOK, OneOwner, Held, Intact, Called, Reached, Due, Named
  <2> QED
    BY <2>1, <2>2, AcquireKeeps, AcquireCompletedKeeps, CleanKeeps, ReleaseKeeps, UseKeeps,
       PowerOffKeeps, RequestKeeps, VolumeNotFoundKeeps, ReturnKeeps, BootKeeps DEF Next
<1> QED
  BY <1>1, <1>2, PTL DEF Spec

(* The types of libvirt.go's domains and volumes, of a call with the       *)
(* requests that are still to be made, and of what CIResources name.       *)
THEOREM TypeCorrect == Spec => []TypeOK
<1>1. IInv => TypeOK
  BY DEF IInv
<1> QED
  BY <1>1, InductiveInvariant, PTL

(* Whatever fails between the requests of Clean in libvirt.go, and however *)
(* often it begins again, what is available has its domain, and a volume   *)
(* made after the last client: Clean ends well only after createVolume,    *)
(* which is refused when there is a volume.                                *)
THEOREM HandsOutClean == Spec => []HandedOutClean
<1>1. IInv => HandedOutClean
  BY DEF IInv, Held, Intact, HandedOutClean
<1> QED
  BY <1>1, InductiveInvariant, PTL

-----------------------------------------------------------------------------
(* What is left behind.                                                    *)

Releasing(m) == \E c \in CIRs : use[c].step = "releasing" /\ use[c].id = m

Busy(m) == work # Idle /\ work.id = m

\* Left behind already, or sure to be: a volume without a domain is not deleted
\* by the next attempt at the release, which takes the machine for gone.
Stray(m) ==
    \/ (domain[m] # "none" \/ m \in volume) /\ ~Named(m) /\ ~Busy(m)
    \/ /\ m \in volume /\ domain[m] = "none" /\ Releasing(m)
       /\ ~(Busy(m) /\ Due = "deleteVolume")

Stranded == { m \in Machines : Stray(m) }

StrandedInv == IsFiniteSet(Stranded) /\ Cardinality(Stranded) <= Cardinality(mishaps)

LEMMA FewMishaps == IsFiniteSet(Mishaps)
<1>1. /\ IsFiniteSet({"fault"}) /\ IsFiniteSet({"ignored"})
      /\ IsFiniteSet({"lost"}) /\ IsFiniteSet({"lost release"})
  BY FS_Singleton
<1>2. IsFiniteSet({"fault"} \union {"ignored"}) /\ IsFiniteSet({"lost"} \union {"lost release"})
  BY <1>1, FS_Union
<1>3. IsFiniteSet(({"fault"} \union {"ignored"}) \union ({"lost"} \union {"lost release"}))
  BY <1>2, FS_Union
<1>4. Mishaps = ({"fault"} \union {"ignored"}) \union ({"lost"} \union {"lost release"})
  BY DEF Mishaps
<1> QED
  BY <1>3, <1>4

\* Another machine than that of the step.
LEMMA StrayElsewhere ==
    ASSUME NEW g,
           domain'[g] = domain[g], g \in volume' => g \in volume,
           Named(g) => Named(g)', Releasing(g)' => Releasing(g),
           Busy(g) => Busy(g)', Busy(g) => Due' = Due,
           Stray(g)'
    PROVE  Stray(g)
BY DEF Stray

\* A step that strands nothing, and one that strands one machine by a mishap.
LEMMA StrandedCount ==
    ASSUME IInv, IInv', StrandedInv,
           \/ (\A g \in Machines : Stray(g)' => Stray(g)) /\ mishaps \subseteq mishaps'
           \/ \E x \in Machines, e \in Mishaps :
                 (\A g \in Machines \ {x} : Stray(g)' => Stray(g)) /\ Happens(e)
    PROVE  StrandedInv'
<1>1. /\ Cardinality(Stranded) \in Nat
      /\ IsFiniteSet(mishaps) /\ Cardinality(mishaps) \in Nat
  BY FewMishaps, FS_Subset, FS_CardinalityType DEF IInv, TypeOK, StrandedInv
<1>2. CASE (\A g \in Machines : Stray(g)' => Stray(g)) /\ mishaps \subseteq mishaps' /\ mishaps' \subseteq Mishaps
  <2>1. Stranded' \subseteq Stranded
    BY <1>2 DEF Stranded
  <2>2. IsFiniteSet(Stranded') /\ Cardinality(Stranded') <= Cardinality(Stranded)
        /\ Cardinality(Stranded') \in Nat
    BY <2>1, FS_Subset, FS_CardinalityType DEF StrandedInv
  <2>3. /\ IsFiniteSet(mishaps') /\ Cardinality(mishaps') \in Nat
        /\ Cardinality(mishaps) <= Cardinality(mishaps')
    BY <1>2, FewMishaps, FS_Subset, FS_CardinalityType
  <2> QED
    BY <1>1, <2>2, <2>3 DEF StrandedInv
<1>3. ASSUME NEW x \in Machines, NEW e \in Mishaps,
             \A g \in Machines \ {x} : Stray(g)' => Stray(g), Happens(e)
      PROVE  StrandedInv'
  <2>1. Stranded' \subseteq Stranded \union {x}
    BY <1>3 DEF Stranded
  <2>2. /\ IsFiniteSet(Stranded \union {x})
        /\ \/ Cardinality(Stranded \union {x}) = Cardinality(Stranded)
           \/ Cardinality(Stranded \union {x}) = Cardinality(Stranded) + 1
    BY FS_AddElement DEF StrandedInv
  <2>3. /\ IsFiniteSet(Stranded') /\ Cardinality(Stranded') \in Nat
        /\ Cardinality(Stranded') <= Cardinality(Stranded \union {x})
    BY <2>1, <2>2, FS_Subset, FS_CardinalityType
  <2>4. Cardinality(mishaps') = Cardinality(mishaps) + 1
    BY <1>1, <1>3, FS_AddElement DEF Happens
  <2> QED
    BY <1>1, <2>2, <2>3, <2>4 DEF StrandedInv
<1>4. mishaps' \subseteq Mishaps
  BY DEF IInv, TypeOK
<1> QED
  BY <1>2, <1>3, <1>4

\* What every step but an acquisition and a release leaves to a machine.
LEMMA Owned ==
    ASSUME NEW c \in CIRs, \A d \in CIRs : d # c => use'[d] = use[d],
           use'[c].id = use[c].id,
           use'[c].step = "releasing" => use[c].step = "releasing",
           NEW g
    PROVE  /\ Named(g) => Named(g)'
           /\ Releasing(g)' => Releasing(g)
<1>1. \A d \in CIRs : use'[d].id = use[d].id
  OBVIOUS
<1>2. \A d \in CIRs : use'[d].step = "releasing" => use[d].step = "releasing"
  OBVIOUS
<1> QED
  BY <1>1, <1>2 DEF Named, Releasing

LEMMA OwnedSame ==
    ASSUME use' = use, NEW g
    PROVE  (Named(g)' <=> Named(g)) /\ (Releasing(g)' <=> Releasing(g))
BY DEF Named, Releasing

LEMMA AcquireStrands ==
    ASSUME IInv, NEW c \in CIRs, Acquire(c), NEW g \in Machines, Stray(g)'
    PROVE  Stray(g)
<1>1. PICK m \in Unseen : Call("acquire", c, m, createVM)
  BY DEF Acquire
<1>2. m \in Machines /\ work = Idle /\ domain' = domain /\ volume' = volume /\ use' = use
  BY DEF Acquire, Unseen, callVars
<1>3. ~Busy(g)
  BY <1>2 DEF Busy
<1> QED
  BY <1>2, <1>3, OwnedSame, StrayElsewhere

\* A call is begun, or its result recorded, or a client takes the machine: the
\* CIResource keeps it, and does not give it up.
LEMMA KeepingStrands ==
    ASSUME IInv, NEW c \in CIRs,
           AcquireCompleted(c) \/ Clean(c) \/ UseMachine(c), NEW g \in Machines, Stray(g)'
    PROVE  Stray(g)
<1>1. PICK step \in {"available", "cleaning", "in use"} : Name(c, step, use[c].id)
  BY DEF AcquireCompleted, Clean, UseMachine, ClientUse
<1>2. /\ domain' = domain /\ volume' = volume
      /\ use[c].step # "none"
      /\ work' = work \/ work = Idle
  BY DEF AcquireCompleted, Clean, MayClean, UseMachine, ClientUse
<1>3. use[c].id \in Machines /\ step \in Steps \ {"none"} /\ TypeOK
  BY <1>2, InCall DEF IInv, Steps
<1>4. /\ use'[c].step = step /\ use'[c].id = use[c].id
      /\ \A d \in CIRs : d # c => use'[d] = use[d]
  BY <1>1, <1>3, NameTypes
<1>5. (Named(g) => Named(g)') /\ (Releasing(g)' => Releasing(g))
  BY <1>4, Owned
<1>6. Busy(g) => Busy(g)' /\ Due' = Due
  BY <1>2 DEF Busy, Due
<1> QED
  BY <1>2, <1>5, <1>6, StrayElsewhere

LEMMA ReleaseStrands ==
    ASSUME IInv, NEW c \in CIRs, Release(c), NEW g \in Machines, Stray(g)'
    PROVE  Stray(g)
<1> DEFINE m == use[c].id
<1>1. /\ work = Idle /\ use[c].step \in {"available", "releasing", "in use"}
      /\ domain' = domain /\ volume' = volume /\ TypeOK
  BY DEF Release, MayRelease, IInv
<1>2. m \in Machines /\ m # NoMachine /\ "releasing" \in Steps \ {"none"} /\ ~Busy(g)
  BY <1>1, InCall DEF Steps, Busy
<1>3. CASE domain[m] # "none" /\ Name(c, "releasing", m)
  <2>1. /\ use'[c].step = "releasing" /\ use'[c].id = m
        /\ \A d \in CIRs : d # c => use'[d] = use[d]
    BY <1>1, <1>2, <1>3, NameTypes
  <2>2. Named(g) => Named(g)'
    BY <2>1 DEF Named
  <2>3. g # m => (Releasing(g)' => Releasing(g))
    BY <2>1 DEF Releasing
  <2>4. CASE g = m
    <3>1. Named(g) /\ domain'[g] # "none"
      BY <1>1, <1>3, <2>4 DEF Named
    <3> QED
      BY <2>2, <3>1 DEF Stray
  <2>5. CASE g # m
    BY <1>1, <1>2, <2>2, <2>3, <2>5, StrayElsewhere
  <2> QED
    BY <2>4, <2>5
<1>4. CASE domain[m] = "none" /\ Forget(c)
  <2>1. /\ use'[c].step = "none" /\ use'[c].id = NoMachine
        /\ \A d \in CIRs : d # c => use'[d] = use[d]
    BY <1>1, <1>4, ForgetTypes
  <2>2. use[c].step = "releasing"
    BY <1>1, <1>4 DEF IInv, Held
  <2>3. Releasing(g)' => Releasing(g)
    BY <2>1 DEF Releasing
  <2>4. g # m => (Named(g) => Named(g)')
    BY <2>1 DEF Named
  <2>5. CASE g = m
    <3>1. Releasing(g)
      BY <2>2, <2>5 DEF Releasing
    <3>2. g \in volume
      BY <1>1, <1>4, <2>5 DEF Stray
    <3> QED
      BY <1>2, <1>4, <2>5, <3>1, <3>2 DEF Stray
  <2>6. CASE g # m
    BY <1>1, <1>2, <2>3, <2>4, <2>6, StrayElsewhere
  <2> QED
    BY <2>5, <2>6
<1> QED
  BY <1>3, <1>4 DEF Release

\* The next request, made or skipped.
LEMMA WorkElsewhere ==
    ASSUME IInv, Only(work.id), use' = use, work # Idle,
           work' = Idle \/ work'.id = work.id,
           NEW g \in Machines, g # work.id, Stray(g)'
    PROVE  Stray(g)
<1>1. ~Busy(g)
  BY DEF Busy
<1>2. domain'[g] = domain[g] /\ (g \in volume' => g \in volume)
  BY DEF Only
<1> QED
  BY <1>1, <1>2, OwnedSame, StrayElsewhere

\* An acquisition is for nobody yet, and a Clean for one that does not release.
LEMMA NotReleasing ==
    ASSUME IInv, work # Idle, work.call # "release"
    PROVE  ~Releasing(work.id)
BY OutOfUse DEF Releasing

LEMMA RequestStrands ==
    ASSUME IInv, Request, NEW g \in Machines, Stray(g)'
    PROVE  Stray(g)
<1>1. /\ work # Idle /\ work.todo # <<>> /\ Effect(Due, work.id)
      /\ work' = [work EXCEPT !.todo = Tail(@)] /\ use' = use
  BY DEF Request, Due, DueOf
<1>2. work.id \in Machines /\ work.call \in {"acquire", "clean", "release"} /\ TypeOK
  BY <1>1, InWork DEF IInv
<1>3. /\ work' # Idle /\ work'.id = work.id /\ work'.call = work.call
      /\ Follows(work.call, Due, Due')
  BY <1>1, NextDue
<1>4. Due \in Requests
  BY <1>3 DEF Follows, Requests
<1>5. Only(work.id)
  BY <1>1, <1>2, <1>4, EffectOf
<1>6. CASE g # work.id
  BY <1>1, <1>3, <1>5, <1>6, WorkElsewhere
<1>7. ASSUME g = work.id PROVE FALSE
  <2>1. Busy(g)'
    BY <1>3, <1>7 DEF Busy
  <2>2. g \in volume' /\ domain'[g] = "none" /\ Releasing(g)' /\ Due' # "deleteVolume"
    BY <2>1 DEF Stray
  <2>3. work.call = "release"
    BY <1>1, <1>2, <1>7, <2>2, OwnedSame, NotReleasing
  <2>4. Due \in {"stop", "deleteVolume"}
    BY <1>3, <2>2, <2>3 DEF Follows
  <2>5. CASE Due = "stop"
    BY <1>1, <1>2, <1>4, <1>7, <2>2, <2>5, EffectOf
  <2>6. CASE Due = "deleteVolume"
    BY <1>1, <1>2, <1>4, <1>7, <2>2, <2>6, EffectOf
  <2> QED
    BY <2>4, <2>5, <2>6
<1> QED
  BY <1>6, <1>7

LEMMA RefusedStrands ==
    ASSUME IInv, Refused, NEW g \in Machines, Stray(g)'
    PROVE  Stray(g)
<1>1. /\ work # Idle /\ Due = "createVolume" /\ work.id \in volume /\ work' = Idle
      /\ domain' = domain /\ volume' = volume /\ use' = use /\ dirty' = dirty
  BY DEF Refused, Due, DueOf
<1>2. work.call = "clean" /\ work.c \in CIRs /\ use[work.c].id = work.id
  <2>1. work.call # "acquire"
    BY <1>1 DEF IInv, Reached
  <2>2. work.call # "release"
    <3>1. work.call = "release" => work.todo \in {<<>>, ToDelete, ToRemove, destroyVM}
      BY <1>1 DEF IInv, Called, Plans
    <3> QED
      BY <1>1, <3>1, Heads DEF Due
  <2>3. work.call \in {"acquire", "clean", "release"} /\ work.c \in CIRs
    BY <1>1, InWork DEF IInv
  <2> QED
    BY <1>1, <2>1, <2>2, <2>3 DEF IInv, Called
<1>3. Only(work.id)
  BY <1>1 DEF Only
<1>4. g # work.id
  <2>1. Named(work.id) /\ ~Releasing(work.id)
    BY <1>1, <1>2, NotReleasing DEF Named
  <2> QED
    BY <1>1, <2>1, OwnedSame DEF Stray
<1> QED
  BY <1>1, <1>3, <1>4, WorkElsewhere

\* A request fails, or is skipped: the machine of the call is the only one.
LEMMA MishapStrandsOne ==
    ASSUME IInv, Fault \/ VolumeNotFound
    PROVE  \E x \in Machines, e \in Mishaps :
              (\A g \in Machines \ {x} : Stray(g)' => Stray(g)) /\ Happens(e)
<1>1. /\ work # Idle /\ use' = use /\ domain' = domain /\ volume' = volume /\ dirty' = dirty
      /\ work.id \in Machines
  BY InWork DEF Fault, VolumeNotFound, IInv
<1>2. work' = Idle \/ work'.id = work.id
  <2>1. CASE Fault
    BY <2>1 DEF Fault
  <2>2. CASE VolumeNotFound
    BY <2>2, NextDue DEF VolumeNotFound
  <2> QED
    BY <2>1, <2>2
<1>3. Only(work.id)
  BY <1>1 DEF Only
<1>4. \A g \in Machines \ {work.id} : Stray(g)' => Stray(g)
  BY <1>1, <1>2, <1>3, WorkElsewhere
<1>5. \E e \in Mishaps : Happens(e)
  BY DEF Fault, VolumeNotFound, Mishaps
<1> QED
  BY <1>1, <1>4, <1>5

LEMMA ReturnStrands ==
    ASSUME IInv, Return
    PROVE  \/ (\A g \in Machines : Stray(g)' => Stray(g)) /\ mishaps \subseteq mishaps'
           \/ \E x \in Machines, e \in Mishaps :
                 (\A g \in Machines \ {x} : Stray(g)' => Stray(g)) /\ Happens(e)
<1>1. /\ work # Idle /\ Due = "end" /\ work' = Idle
      /\ domain' = domain /\ volume' = volume /\ dirty' = dirty
  BY DEF Return, Due, DueOf
<1>2. /\ work.call \in {"acquire", "clean", "release"} /\ work.c \in CIRs
      /\ work.id \in Machines /\ work.id # NoMachine /\ TypeOK
  BY <1>1, InWork, CallsAssumption DEF IInv
<1>3. /\ work.call = "acquire" => ~Named(work.id) /\ use[work.c].step = "none"
      /\ work.call = "clean" => use[work.c].step = "cleaning" /\ use[work.c].id = work.id
      /\ work.call = "release" => use[work.c].step = "releasing" /\ use[work.c].id = work.id
                                  /\ domain[work.id] = "none"
  BY <1>1 DEF IInv, Called, Reached
<1>4. Only(work.id)
  BY <1>1 DEF Only
\* Nothing was recorded.
<1>5. ASSUME use' = use, Happens("lost")
      PROVE  \E x \in Machines, e \in Mishaps :
                (\A g \in Machines \ {x} : Stray(g)' => Stray(g)) /\ Happens(e)
  <2>1. \A g \in Machines \ {work.id} : Stray(g)' => Stray(g)
    BY <1>1, <1>4, <1>5, WorkElsewhere
  <2>2. "lost" \in Mishaps
    BY DEF Mishaps
  <2> QED
    BY <1>2, <1>5, <2>1, <2>2
\* The machine is recorded as that of c.
<1>6. ASSUME NEW step \in {"acquiring", "available", "releasing"}, Name(work.c, step, work.id),
             work.call # "release" => step # "releasing",
             NEW g \in Machines, Stray(g)'
      PROVE  Stray(g)
  <2>1. step \in Steps \ {"none"}
    BY DEF Steps
  <2>2. /\ use'[work.c].step = step /\ use'[work.c].id = work.id
        /\ \A d \in CIRs : d # work.c => use'[d] = use[d]
    BY <1>2, <1>6, <2>1, NameTypes
  <2>3. g = work.id => Named(g)'
    BY <1>2, <2>2 DEF Named
  <2>4. CASE g = work.id
    <3>1. Releasing(g)' /\ g \in volume' /\ domain'[g] = "none"
      BY <2>3, <2>4, <1>6 DEF Stray
    <3>2. work.call = "release"
      <4>1. PICK d \in CIRs : use'[d].step = "releasing" /\ use'[d].id = g
        BY <3>1 DEF Releasing
      <4>2. CASE d = work.c
        BY <1>2, <1>6, <2>2, <4>1, <4>2
      <4>3. CASE d # work.c
        <5>1. Releasing(g)
          BY <2>2, <4>1, <4>3 DEF Releasing
        <5> QED
          BY <1>1, <2>4, <5>1, NotReleasing
      <4> QED
        BY <4>2, <4>3
    <3>3. Releasing(g)
      BY <1>2, <1>3, <2>4, <3>2 DEF Releasing
    <3> QED
      BY <1>1, <3>1, <3>3 DEF Stray
  <2>5. CASE g # work.id
    <3>1. Named(g) => Named(g)'
      <4>1. use[work.c].id # g
        BY <1>2, <1>3, <2>5, InCall
      <4> QED
        BY <2>2, <4>1 DEF Named
    <3>2. Releasing(g)' => Releasing(g)
      BY <2>2, <2>5 DEF Releasing
    <3>3. ~Busy(g)
      BY <2>5 DEF Busy
    <3> QED
      BY <1>1, <1>6, <3>1, <3>2, <3>3, StrayElsewhere
  <2> QED
    BY <2>4, <2>5
\* The machine is gone: its volume was left before.
<1>7. ASSUME work.call = "release", Forget(work.c), NEW g \in Machines, Stray(g)'
      PROVE  Stray(g)
  <2>1. /\ use'[work.c].step = "none" /\ use'[work.c].id = NoMachine
        /\ \A d \in CIRs : d # work.c => use'[d] = use[d]
    BY <1>2, <1>7, ForgetTypes
  <2>2. Releasing(g)' => Releasing(g)
    BY <2>1 DEF Releasing
  <2>3. CASE g = work.id
    <3>1. Releasing(g)
      BY <1>2, <1>3, <1>7, <2>3 DEF Releasing
    <3> QED
      BY <1>1, <1>3, <1>7, <2>3, <3>1 DEF Stray
  <2>4. CASE g # work.id
    <3>1. Named(g) => Named(g)'
      BY <1>3, <1>7, <2>1, <2>4 DEF Named
    <3>2. ~Busy(g)
      BY <2>4 DEF Busy
    <3> QED
      BY <1>1, <1>7, <2>2, <3>1, <3>2, StrayElsewhere
  <2> QED
    BY <2>3, <2>4
<1>8. CASE work.call = "acquire"
  <2>1. (AllWell /\ Name(work.c, "acquiring", work.id)) \/ (Happens("lost") /\ use' = use)
    BY <1>8 DEF Return
  <2> QED
    BY <1>5, <1>6, <1>8, <2>1 DEF AllWell
<1>9. CASE work.call = "clean"
  <2>1. Recorded(work.c, "available")
    BY <1>9 DEF Return
  <2>2. (AllWell /\ Name(work.c, "available", work.id)) \/ (Happens("lost") /\ use' = use)
    BY <1>3, <1>9, <2>1 DEF Recorded
  <2> QED
    BY <1>5, <1>6, <1>9, <2>2 DEF AllWell
<1>10. CASE work.call = "release"
  <2>1. Released(work.c)
    BY <1>10 DEF Return
  <2>2. \/ AllWell /\ Forget(work.c)
        \/ Happens("lost release") /\ Name(work.c, "releasing", work.id)
    BY <1>3, <1>10, <2>1 DEF Released
  <2>3. mishaps \subseteq mishaps'
    BY <2>2 DEF AllWell, Happens
  <2> QED
    BY <1>6, <1>7, <1>10, <2>2, <2>3
<1> QED
  BY <1>2, <1>8, <1>9, <1>10

\* A domain that runs or is powered off.
LEMMA RunsStrands ==
    ASSUME IInv, NEW m \in Machines, NEW state \in {"up", "off"}, Domain(m, state),
           domain[m] # "none", UNCHANGED <<work, use>>, NEW g \in Machines, Stray(g)'
    PROVE  Stray(g)
<1>1. /\ volume' = volume /\ work' = work /\ use' = use
      /\ domain'[m] = state /\ \A h \in Machines : h # m => domain'[h] = domain[h]
  BY DEF Domain, IInv, TypeOK
<1>2. Busy(g)' = Busy(g) /\ Due' = Due
  BY <1>1 DEF Busy, Due
<1>3. CASE g = m
  BY <1>1, <1>2, <1>3, OwnedSame DEF Stray
<1>4. CASE g # m
  BY <1>1, <1>2, <1>4, OwnedSame, StrayElsewhere
<1> QED
  BY <1>3, <1>4

LEMMA StrandedInvariant == Spec => []StrandedInv
<1>1. Init => StrandedInv
  <2> SUFFICES ASSUME Init PROVE StrandedInv
    OBVIOUS
  <2>1. Stranded = {} /\ mishaps = {}
    BY DEF Init, CallsInit, Stranded, Stray
  <2>2. IsFiniteSet({}) /\ Cardinality({}) = 0 /\ 0 <= 0
    BY FS_EmptySet
  <2> QED
    BY <2>1, <2>2 DEF StrandedInv
<1>2. IInv /\ IInv' /\ StrandedInv /\ [Next]_vars => StrandedInv'
  <2> SUFFICES ASSUME IInv, IInv', StrandedInv, [Next]_vars PROVE StrandedInv'
    OBVIOUS
  <2>1. ASSUME NEW c \in CIRs,
               Acquire(c) \/ AcquireCompleted(c) \/ Clean(c) \/ Release(c) \/ UseMachine(c)
        PROVE  StrandedInv'
    <3>1. mishaps \subseteq mishaps'
      BY <2>1 DEF Acquire, AcquireCompleted, Clean, Release, UseMachine, ClientUse, callVars
    <3> QED
      BY <2>1, <3>1, AcquireStrands, KeepingStrands, ReleaseStrands, StrandedCount
  <2>2. ASSUME NEW m \in Machines, NEW state \in {"up", "off"}, Domain(m, state),
               domain[m] # "none", UNCHANGED <<work, use, mishaps>>
        PROVE  StrandedInv'
    <3>1. UNCHANGED <<work, use>> /\ mishaps \subseteq mishaps'
      BY <2>2
    <3> QED
      BY <2>2, <3>1, RunsStrands, StrandedCount
  <2>3. ASSUME NEW m \in Machines, Boot(m) PROVE StrandedInv'
    BY <2>2, <2>3 DEF Boot
  <2>4. ASSUME NEW c \in CIRs, PowerOff(c) PROVE StrandedInv'
    <3>1. use[c].id \in Machines
      BY <2>4, InCall DEF PowerOff, IInv
    <3> QED
      BY <2>2, <2>4, <3>1 DEF PowerOff
  <2>5. ASSUME Request \/ Refused PROVE StrandedInv'
    <3>1. mishaps \subseteq mishaps'
      BY <2>5 DEF Request, Refused
    <3> QED
      BY <2>5, <3>1, RequestStrands, RefusedStrands, StrandedCount
  <2>6. ASSUME Fault \/ VolumeNotFound \/ Return PROVE StrandedInv'
    BY <2>6, MishapStrandsOne, ReturnStrands, StrandedCount
  <2>7. CASE UNCHANGED vars
    <3>1. /\ domain' = domain /\ volume' = volume /\ work' = work
          /\ use' = use /\ mishaps' = mishaps
      BY <2>7 DEF vars, callVars
    <3> QED
      BY <3>1 DEF StrandedInv, Stranded, Stray, Named, Releasing, Busy, Due
  <2> QED
    BY <2>1, <2>3, <2>4, <2>5, <2>6, <2>7 DEF Next
<1> QED
  BY <1>1, <1>2, InductiveInvariant, PTL DEF Spec

(* Every domain or volume that libvirt.go leaves without a CIResource is   *)
(* the work of one mishap: a request or a result that was lost.  The       *)
(* proof counts a volume as left from when its deletion was missed, which  *)
(* is before the CIResource forgets it: Release takes a machine without a  *)
(* domain for gone.                                                        *)
THEOREM LeavesByMishap == Spec => []OnlyMishapsLeave
<1>1. IInv /\ StrandedInv => OnlyMishapsLeave
  <2> SUFFICES ASSUME IInv, StrandedInv PROVE OnlyMishapsLeave
    OBVIOUS
  <2>1. LeftBehind \subseteq Stranded
    BY DEF LeftBehind, Stranded, Stray, Busy
  <2>2. /\ Cardinality(LeftBehind) \in Nat /\ Cardinality(Stranded) \in Nat
        /\ Cardinality(LeftBehind) <= Cardinality(Stranded)
    BY <2>1, FS_Subset, FS_CardinalityType DEF StrandedInv
  <2>3. Cardinality(mishaps) \in Nat
    BY FewMishaps, FS_Subset, FS_CardinalityType DEF IInv, TypeOK
  <2> QED
    BY <2>2, <2>3 DEF StrandedInv, OnlyMishapsLeave
<1> QED
  BY <1>1, InductiveInvariant, StrandedInvariant, PTL

-----------------------------------------------------------------------------
(* The contract.                                                           *)

\* The state of a machine in the contract, by what it is to its CIResource and
\* by its domain.
Stage(steps, state) ==
    CASE steps \subseteq {"acquiring"} /\ state \in {"off", "booting"} -> "building"
      [] steps \subseteq {"acquiring"} /\ state = "up" -> "ready"
      [] steps \intersect {"available", "in use"} # {} -> "ready"
      [] steps = {"releasing"} /\ state # "none" -> "ready"
      [] steps = {"cleaning"} -> "cleaning"
      [] OTHER -> "absent"

StepsAt(m) == { use[c].step : c \in { d \in CIRs : use[d].id = m } }

LEMMA StageOf ==
    ASSUME NEW m
    PROVE  /\ ContractState(m) = Stage(StepsAt(m), domain[m])
           /\ ContractState(m)' = Stage(StepsAt(m)', domain'[m])
BY DEF ContractState, Stage, StepsAt

Made(state) ==
    IF state = "none" THEN "absent" ELSE IF state = "up" THEN "ready" ELSE "building"

Shown(step, state) ==
    IF step \in {"none", "acquiring"} THEN Made(state)
    ELSE IF step = "cleaning" THEN "cleaning"
    ELSE IF step = "releasing" /\ state = "none" THEN "absent"
    ELSE "ready"

LEMMA Stages ==
    ASSUME NEW state \in DomainStates
    PROVE  /\ Stage({}, state) = Shown("none", state)
           /\ \A step \in Steps \ {"none"} : Stage({step}, state) = Shown(step, state)
<1>1. Stage({}, state) = Shown("none", state)
  BY DEF Stage, Shown, Made, DomainStates
<1>2. Stage({"acquiring"}, state) = Shown("acquiring", state)
  BY DEF Stage, Shown, Made, DomainStates
<1>3. ASSUME NEW step \in {"available", "in use"} PROVE Stage({step}, state) = Shown(step, state)
  BY DEF Stage, Shown, Made, DomainStates
<1>4. Stage({"cleaning"}, state) = Shown("cleaning", state)
  BY DEF Stage, Shown, Made, DomainStates
<1>5. Stage({"releasing"}, state) = Shown("releasing", state)
  BY DEF Stage, Shown, Made, DomainStates
<1>6. Steps \ {"none"} = {"acquiring", "available", "in use", "cleaning", "releasing"}
  BY DEF Steps
<1>7. ASSUME NEW step \in {"acquiring", "available", "in use", "cleaning", "releasing"}
      PROVE  Stage({step}, state) = Shown(step, state)
  BY <1>2, <1>3, <1>4, <1>5
<1> QED
  BY <1>1, <1>6, <1>7

LEMMA NoSteps ==
    ASSUME NEW m
    PROVE  /\ ~Named(m) => StepsAt(m) = {}
           /\ ~Named(m)' => StepsAt(m)' = {}
BY DEF Named, StepsAt

LEMMA OneStep ==
    ASSUME IInv, IInv', NEW c \in CIRs, NEW m \in Machines
    PROVE  /\ use[c].id = m => StepsAt(m) = {use[c].step}
           /\ use'[c].id = m => StepsAt(m)' = {use'[c].step}
<1>1. m # NoMachine
  BY CallsAssumption
<1>2. \A d \in CIRs : use[c].id = m /\ use[d].id = m => d = c
  BY <1>1 DEF IInv, OneOwner
<1>3. \A d \in CIRs : use'[c].id = m /\ use'[d].id = m => d = c
  BY <1>1 DEF IInv, OneOwner
<1> QED
  BY <1>2, <1>3 DEF StepsAt

\* A machine that a step is not about.
LEMMA StageElsewhere ==
    ASSUME NEW g, domain'[g] = domain[g],
           \A c \in CIRs : use'[c] = use[c] \/ (use[c].id # g /\ use'[c].id # g)
    PROVE  ContractState(g)' = ContractState(g)
<1>1. StepsAt(g)' = StepsAt(g)
  BY DEF StepsAt
<1> QED
  BY <1>1, StageOf

InstNow == [m \in Machines |-> ContractState(m)]
DirtyNow == dirty \union { m \in Machines : ContractState(m) = "cleaning" }

\* What a step may do to one machine, by the contract.
LEMMA ContractStep ==
    ASSUME IInv, IInv', NEW m \in Machines,
           \A g \in Machines : g # m => /\ ContractState(g)' = ContractState(g)
                                        /\ g \in dirty' <=> g \in dirty,
           NEW old, old = ContractState(m), NEW new, new = ContractState(m)',
           \/ old = "absent" /\ new = "building" /\ m \notin dirty'
           \/ old = "ready" /\ new = "cleaning" /\ m \in dirty
           \/ old = "ready" /\ new = "absent" /\ dirty' = dirty
           \/ old = "building" /\ new = "ready" /\ dirty' = dirty
           \/ old = "cleaning" /\ new = "ready" /\ m \notin dirty'
           \/ old = "ready" /\ new = "ready" /\ m \in dirty'
    PROVE  Contract!ProviderNext
<1>1. /\ InstNow[m] = old /\ InstNow' = [InstNow EXCEPT ![m] = new]
      /\ \A g \in Machines : InstNow[g] = ContractState(g)
  BY DEF InstNow
<1>2. dirty \subseteq Machines /\ dirty' \subseteq Machines
  BY DEF IInv, TypeOK, CallsTypeOK
<1>3. /\ m \in DirtyNow <=> m \in dirty \/ old = "cleaning"
      /\ m \in DirtyNow' <=> m \in dirty' \/ new = "cleaning"
      /\ \A g \in Machines : g # m => (g \in DirtyNow' <=> g \in DirtyNow)
      /\ DirtyNow \subseteq Machines /\ DirtyNow' \subseteq Machines
  BY <1>2 DEF DirtyNow
<1>4. old # "absent" => Contract!Alive(m) /\ Contract!ReleaseAccepted(m)
  BY <1>1 DEF Contract!ReleaseAccepted, Contract!Alive, InstNow
<1>5. CASE old = "absent" /\ new = "building" /\ m \notin dirty'
  <2>1. m \in Contract!Acquirable({})
    BY <1>1, <1>5 DEF Contract!Acquirable, Contract!Alive, InstNow
  <2>2. DirtyNow' = DirtyNow \ {m}
    BY <1>3, <1>5
  <2>3. Contract!Acquire(m)
    BY <1>1, <1>5, <2>2 DEF Contract!Acquire, InstNow, DirtyNow
  <2> QED
    BY <2>1, <2>3 DEF Contract!ProviderNext
<1>6. CASE old = "ready" /\ new = "cleaning" /\ m \in dirty
  <2>1. DirtyNow' = DirtyNow
    BY <1>3, <1>6
  <2>2. Contract!Clean(m)
    BY <1>1, <1>4, <1>6, <2>1 DEF Contract!Clean, InstNow, DirtyNow
  <2> QED
    BY <2>2 DEF Contract!ProviderNext
<1>7. CASE old = "ready" /\ new = "absent" /\ dirty' = dirty
  <2>1. DirtyNow' = DirtyNow
    BY <1>3, <1>7
  <2>2. Contract!Release(m)
    BY <1>7, <2>1 DEF Contract!Release, InstNow, DirtyNow
  <2> QED
    BY <1>4, <1>7, <2>2 DEF Contract!ProviderNext
<1>8. CASE old = "building" /\ new = "ready" /\ dirty' = dirty
  <2>1. DirtyNow' = DirtyNow
    BY <1>3, <1>8
  <2>2. Contract!FinishBuild(m)
    BY <1>1, <1>8, <2>1 DEF Contract!FinishBuild, InstNow, DirtyNow
  <2> QED
    BY <2>2 DEF Contract!ProviderNext
<1>9. CASE old = "cleaning" /\ new = "ready" /\ m \notin dirty'
  <2>1. DirtyNow' = DirtyNow \ {m}
    BY <1>3, <1>9
  <2>2. Contract!FinishClean(m)
    BY <1>1, <1>9, <2>1 DEF Contract!FinishClean, InstNow, DirtyNow
  <2> QED
    BY <2>2 DEF Contract!ProviderNext
<1>10. CASE old = "ready" /\ new = "ready" /\ m \in dirty'
  <2>1. DirtyNow' = DirtyNow \union {m} /\ InstNow' = InstNow
    BY <1>1, <1>3, <1>10 DEF InstNow
  <2>2. Contract!Use(m)
    BY <1>4, <1>10, <2>1 DEF Contract!Use, InstNow, DirtyNow
  <2> QED
    BY <2>2 DEF Contract!ProviderNext
<1> QED
  BY <1>5, <1>6, <1>7, <1>8, <1>9, <1>10

\* A step that the contract does not see.
LEMMA ContractStutter ==
    ASSUME IInv, IInv', \A g \in Machines : ContractState(g)' = ContractState(g),
           \A g \in Machines : ContractState(g) # "cleaning" => (g \in dirty' <=> g \in dirty)
    PROVE  UNCHANGED Contract!providerVars
<1>1. dirty \subseteq Machines /\ dirty' \subseteq Machines
  BY DEF IInv, TypeOK, CallsTypeOK
<1>2. InstNow' = InstNow
  BY DEF InstNow
<1>3. DirtyNow' = DirtyNow
  BY <1>1 DEF DirtyNow
<1> QED
  BY <1>2, <1>3 DEF Contract!providerVars, InstNow, DirtyNow

\* The state of a machine that is named by no CIResource, before and after.
LEMMA StageUnnamed ==
    ASSUME IInv, IInv', NEW m \in Machines
    PROVE  /\ ~Named(m) => ContractState(m) = Shown("none", domain[m])
           /\ ~Named(m)' => ContractState(m)' = Shown("none", domain'[m])
<1>1. domain[m] \in DomainStates /\ domain'[m] \in DomainStates
  BY DEF IInv, TypeOK
<1> QED
  BY <1>1, StageOf, NoSteps, Stages

\* The state of a machine that is named by one CIResource, before and after.
LEMMA StageNamed ==
    ASSUME IInv, IInv', NEW c \in CIRs, NEW m \in Machines
    PROVE  /\ use[c].id = m => ContractState(m) = Shown(use[c].step, domain[m])
           /\ use'[c].id = m => ContractState(m)' = Shown(use'[c].step, domain'[m])
<1>1. domain[m] \in DomainStates /\ domain'[m] \in DomainStates
  BY DEF IInv, TypeOK
<1>2. /\ use[c].id = m => use[c].step \in Steps \ {"none"}
      /\ use'[c].id = m => use'[c].step \in Steps \ {"none"}
  BY CallsAssumption DEF IInv, TypeOK, CallsTypeOK
<1>3. /\ ContractState(m) = Stage(StepsAt(m), domain[m])
      /\ ContractState(m)' = Stage(StepsAt(m)', domain'[m])
  BY StageOf
<1>4. use[c].id = m => ContractState(m) = Shown(use[c].step, domain[m])
  BY <1>1, <1>2, <1>3, OneStep, Stages
<1>5. use'[c].id = m => ContractState(m)' = Shown(use'[c].step, domain'[m])
  BY <1>1, <1>2, <1>3, OneStep, Stages
<1> QED
  BY <1>4, <1>5

LEMMA SameMachines ==
    ASSUME IInv, IInv', domain' = domain, use' = use,
           \A g \in Machines : ContractState(g) # "cleaning" => (g \in dirty' <=> g \in dirty)
    PROVE  UNCHANGED Contract!providerVars
<1>1. \A g \in Machines : ContractState(g)' = ContractState(g)
  BY StageElsewhere
<1> QED
  BY <1>1, ContractStutter

\* A call begins, or its result is recorded, or a client takes the machine.
LEMMA CallContract ==
    ASSUME IInv, IInv', NEW c \in CIRs,
           \/ Acquire(c) \/ AcquireCompleted(c) \/ Clean(c) \/ Release(c)
           \/ UseMachine(c)
    PROVE  Contract!ProviderNext \/ UNCHANGED Contract!providerVars
<1>1. CASE Acquire(c)
  <2>1. domain' = domain /\ use' = use /\ dirty' = dirty
    BY <1>1 DEF Acquire, callVars
  <2> QED
    BY <2>1, SameMachines
<1>2. CASE AcquireCompleted(c) \/ Clean(c) \/ Release(c) \/ UseMachine(c)
  <2>1. PICK m : m = use[c].id
    OBVIOUS
  <2>2. use[c].step # "none" /\ domain' = domain /\ TypeOK
    BY <1>2 DEF AcquireCompleted, Clean, MayClean, Release, MayRelease, UseMachine, ClientUse, IInv
  <2>3. m \in Machines /\ m # NoMachine
    BY <2>1, <2>2, InCall
  <2>4. /\ \A d \in CIRs : d # c => use'[d] = use[d]
        /\ \/ use'[c].id = m
           \/ Release(c) /\ domain[m] = "none" /\ use'[c].id = NoMachine /\ use'[c].step = "none"
        /\ AcquireCompleted(c) => use'[c].step = "available"
        /\ Clean(c) => use'[c].step = "cleaning"
        /\ Release(c) /\ use'[c].id = m => use'[c].step = "releasing" /\ domain[m] # "none"
        /\ UseMachine(c) => use'[c].step = "in use"
    <3>1. ASSUME NEW step \in {"available", "cleaning", "releasing", "in use"}, Name(c, step, m)
          PROVE  /\ use'[c].step = step /\ use'[c].id = m
                 /\ \A d \in CIRs : d # c => use'[d] = use[d]
      <4>1. step \in Steps \ {"none"}
        BY DEF Steps
      <4> QED
        BY <2>2, <2>3, <3>1, <4>1, NameTypes
    <3>2. ASSUME Forget(c)
          PROVE  /\ use'[c].step = "none" /\ use'[c].id = NoMachine
                 /\ \A d \in CIRs : d # c => use'[d] = use[d]
      BY <2>2, <3>2, ForgetTypes
    <3>3. AcquireCompleted(c) => Name(c, "available", m)
      BY <2>1 DEF AcquireCompleted
    <3>4. Clean(c) => Name(c, "cleaning", m)
      BY <2>1 DEF Clean
    <3>5. Release(c) => \/ domain[m] # "none" /\ Name(c, "releasing", m)
                        \/ domain[m] = "none" /\ Forget(c)
      BY <2>1 DEF Release
    <3>6. UseMachine(c) => Name(c, "in use", m)
      BY <2>1 DEF UseMachine, ClientUse
    <3> QED
      BY <1>2, <2>3, <3>1, <3>2, <3>3, <3>4, <3>5, <3>6
  <2>5. ASSUME NEW g \in Machines, g # m PROVE ContractState(g)' = ContractState(g)
    <3>1. use[c].id # g /\ use'[c].id # g
      BY <2>1, <2>4, <2>5, CallsAssumption
    <3> QED
      BY <2>2, <2>4, <3>1, StageElsewhere
  <2>6. /\ ContractState(m) = Shown(use[c].step, domain[m])
        /\ use'[c].id = m => ContractState(m)' = Shown(use'[c].step, domain[m])
        /\ ~Named(m)' => ContractState(m)' = Shown("none", domain[m])
    BY <2>1, <2>2, <2>3, StageNamed, StageUnnamed
  <2>7. CASE AcquireCompleted(c)
    <3>1. use[c].step = "acquiring" /\ domain[m] = "up" /\ dirty' = dirty /\ use'[c].id = m
      BY <2>1, <2>3, <2>4, <2>7 DEF AcquireCompleted, Name, Release, MayRelease
    <3>2. ContractState(m)' = ContractState(m)
      BY <2>4, <2>6, <2>7, <3>1 DEF Shown, Made
    <3> QED
      BY <2>5, <3>1, <3>2, ContractStutter
  <2>8. CASE Clean(c)
    <3>1. /\ use[c].step \in {"in use", "cleaning"} /\ dirty' = dirty /\ domain[m] # "none"
          /\ use'[c].id = m
      BY <2>1, <2>4, <2>8 DEF Clean, MayClean
    <3>2. ContractState(m)' = "cleaning"
      BY <2>4, <2>6, <2>8, <3>1 DEF Shown, Made
    <3>3. CASE use[c].step = "in use"
      <4>1. ContractState(m) = "ready" /\ m \in dirty
        BY <2>1, <2>6, <3>3 DEF Shown, IInv, Held
      <4> QED
        BY <2>3, <2>5, <3>1, <3>2, <4>1, ContractStep
    <3>4. CASE use[c].step = "cleaning"
      <4>1. ContractState(m)' = ContractState(m)
        BY <2>6, <3>2, <3>4 DEF Shown, Made
      <4> QED
        BY <2>5, <3>1, <4>1, ContractStutter
    <3> QED
      BY <3>1, <3>3, <3>4
  <2>9. CASE Release(c)
    <3>1. use[c].step \in {"available", "in use", "releasing"} /\ dirty' = dirty
      BY <2>9 DEF Release, MayRelease
    <3>2. CASE use'[c].id = m
      <4>1. ContractState(m)' = ContractState(m)
        BY <2>4, <2>6, <2>9, <3>1, <3>2 DEF Shown, Made
      <4> QED
        BY <2>5, <3>1, <4>1, ContractStutter
    <3>3. CASE domain[m] = "none" /\ use'[c].id = NoMachine
      <4>1. use[c].step = "releasing"
        BY <2>1, <3>1, <3>3 DEF IInv, Held
      <4>2. ~Named(m)'
        BY <2>1, <2>3, <2>4, <3>3 DEF IInv, OneOwner, Named
      <4>3. ContractState(m)' = ContractState(m)
        BY <2>6, <3>3, <4>1, <4>2 DEF Shown, Made
      <4> QED
        BY <2>5, <3>1, <4>3, ContractStutter
    <3> QED
      BY <2>4, <3>2, <3>3
  <2>10. CASE UseMachine(c)
    <3>1. use[c].step = "available" /\ dirty' = dirty \union {m} /\ use'[c].id = m
      BY <2>1, <2>4, <2>10 DEF UseMachine, ClientUse, Release, MayRelease
    <3>2. ContractState(m) = "ready" /\ ContractState(m)' = "ready"
      BY <2>4, <2>6, <2>10, <3>1 DEF Shown, Made
    <3> QED
      BY <2>3, <2>5, <3>1, <3>2, ContractStep
  <2> QED
    BY <1>2, <2>7, <2>8, <2>9, <2>10
<1> QED
  BY <1>1, <1>2

LEMMA RequestContract ==
    ASSUME IInv, IInv', Request
    PROVE  Contract!ProviderNext \/ UNCHANGED Contract!providerVars
<1>1. PICK m : m = work.id
  OBVIOUS
<1>2. /\ work # Idle /\ work.todo # <<>> /\ Effect(Due, m)
      /\ work' = [work EXCEPT !.todo = Tail(@)] /\ use' = use
  BY <1>1 DEF Request, Due, DueOf
<1>3. m \in Machines /\ work.call \in {"acquire", "clean", "release"} /\ work.c \in CIRs /\ TypeOK
  BY <1>1, <1>2, InWork DEF IInv
<1>4. Due \in Requests /\ Follows(work.call, Due, Due')
  <2>1. Follows(work.call, Due, Due')
    BY <1>2, NextDue
  <2> QED
    BY <2>1 DEF Follows, Requests
<1>5. /\ \A g \in Machines : g # m => domain'[g] = domain[g] /\ (g \in dirty' <=> g \in dirty)
      /\ Due \in {"stop", "define"} => domain'[m] = "off" /\ dirty' = dirty
      /\ Due = "undefine" => domain'[m] = "none" /\ dirty' = dirty
      /\ Due = "start" => domain'[m] = "booting" /\ dirty' = dirty
      /\ Due = "deleteVolume" => domain' = domain /\ dirty' = dirty
      /\ Due = "createVolume" => domain' = domain /\ dirty' = dirty \ {m}
  BY <1>2, <1>3, <1>4, EffectOf DEF Only
<1>6. \A g \in Machines : g # m => ContractState(g)' = ContractState(g)
  BY <1>2, <1>5, StageElsewhere
\* Nothing of this machine is seen by the contract until it is named.
<1>7. CASE work.call = "acquire"
  <2>1. ~Named(m) /\ ~Named(m)'
    BY <1>1, <1>2, <1>7, OwnedSame DEF IInv, Called
  <2>2. /\ ContractState(m) = Shown("none", domain[m])
        /\ ContractState(m)' = Shown("none", domain'[m])
    BY <1>3, <2>1, StageUnnamed
  <2>3. Due \in {"createVolume", "define", "start"}
    BY <1>4, <1>7 DEF Follows
  <2>4. CASE Due = "createVolume"
    <3>1. m \notin dirty /\ domain' = domain /\ dirty' = dirty
      BY <1>1, <1>2, <1>5, <1>7, <2>4 DEF IInv, Reached
    <3> QED
      BY <1>2, <3>1, SameMachines
  <2>5. CASE Due = "define"
    <3>1. domain[m] = "none" /\ m \notin dirty /\ domain'[m] = "off" /\ dirty' = dirty
      BY <1>1, <1>2, <1>5, <2>5 DEF IInv, Reached, Intact
    <3>2. ContractState(m) = "absent" /\ ContractState(m)' = "building"
      BY <2>2, <3>1 DEF Shown, Made
    <3> QED
      BY <1>3, <1>5, <1>6, <3>1, <3>2, ContractStep
  <2>6. CASE Due = "start"
    <3>1. domain[m] = "off" /\ domain'[m] = "booting" /\ dirty' = dirty
      BY <1>1, <1>2, <1>5, <2>6 DEF IInv, Reached
    <3>2. ContractState(m)' = ContractState(m)
      BY <2>2, <3>1 DEF Shown, Made
    <3> QED
      BY <1>6, <3>1, <3>2, ContractStutter
  <2> QED
    BY <2>3, <2>4, <2>5, <2>6
\* It is being cleaned, whatever is there of it.
<1>8. CASE work.call = "clean"
  <2>1. use[work.c].step = "cleaning" /\ use[work.c].id = m
    BY <1>1, <1>2, <1>8 DEF IInv, Called
  <2>2. ContractState(m) = "cleaning" /\ ContractState(m)' = "cleaning"
    <3>1. PICK c \in CIRs : c = work.c
      BY <1>3
    <3>2. /\ use[c].step = "cleaning" /\ use[c].id = m
          /\ use'[c].step = "cleaning" /\ use'[c].id = m
      BY <1>2, <2>1, <3>1
    <3> QED
      BY <1>3, <3>2, StageNamed DEF Shown
  <2> QED
    BY <1>5, <1>6, <2>2, ContractStutter
\* It is there until its domain is not.
<1>9. CASE work.call = "release"
  <2>1. use[work.c].step = "releasing" /\ use[work.c].id = m
    BY <1>1, <1>2, <1>9 DEF IInv, Called
  <2>2. /\ ContractState(m) = Shown("releasing", domain[m])
        /\ ContractState(m)' = Shown("releasing", domain'[m])
    <3>1. PICK c \in CIRs : c = work.c
      BY <1>3
    <3>2. /\ use[c].step = "releasing" /\ use[c].id = m
          /\ use'[c].step = "releasing" /\ use'[c].id = m
      BY <1>2, <2>1, <3>1
    <3> QED
      BY <1>3, <3>2, StageNamed
  <2>3. Due \in {"stop", "undefine", "deleteVolume"}
    BY <1>4, <1>9 DEF Follows
  <2>4. dirty' = dirty
    BY <1>5, <2>3
  <2>5. CASE Due \in {"stop", "deleteVolume"}
    <3>1. Due = "stop" => domain[m] # "none" /\ domain'[m] = "off"
      BY <1>1, <1>2, <1>5 DEF IInv, Reached
    <3>2. Due = "deleteVolume" => domain'[m] = domain[m]
      BY <1>5
    <3>3. ContractState(m)' = ContractState(m)
      BY <2>2, <2>5, <3>1, <3>2 DEF Shown
    <3> QED
      BY <1>6, <2>4, <3>3, ContractStutter
  <2>6. CASE Due = "undefine"
    <3>1. domain[m] = "off" /\ domain'[m] = "none"
      BY <1>1, <1>2, <1>5, <2>6 DEF IInv, Reached
    <3>2. ContractState(m) = "ready" /\ ContractState(m)' = "absent"
      BY <2>2, <3>1 DEF Shown
    <3> QED
      BY <1>3, <1>5, <1>6, <2>4, <3>2, ContractStep
  <2> QED
    BY <2>3, <2>5, <2>6
<1> QED
  BY <1>3, <1>7, <1>8, <1>9

LEMMA ReturnContract ==
    ASSUME IInv, IInv', Return
    PROVE  Contract!ProviderNext \/ UNCHANGED Contract!providerVars
<1>1. PICK m, c : m = work.id /\ c = work.c
  OBVIOUS
<1>2. /\ work # Idle /\ Due = "end" /\ domain' = domain /\ dirty' = dirty
      /\ m \in Machines /\ m # NoMachine /\ c \in CIRs /\ TypeOK
      /\ work.call \in {"acquire", "clean", "release"}
  BY <1>1, InWork, CallsAssumption DEF Return, Due, DueOf, IInv
<1>3. /\ work.call = "acquire" => ~Named(m) /\ use[c].step = "none"
      /\ work.call = "clean" => use[c].step = "cleaning" /\ use[c].id = m
      /\ work.call = "release" => use[c].step = "releasing" /\ use[c].id = m
      /\ IF work.call = "release" THEN domain[m] = "none"
         ELSE domain[m] \in {"booting", "up"} /\ m \notin dirty
  BY <1>1, <1>2 DEF IInv, Called, Reached, Intact
<1>4. CASE use' = use
  BY <1>2, <1>4, SameMachines
<1>5. ASSUME \A d \in CIRs : d # c => use'[d] = use[d],
             use[c].id \in {m, NoMachine}, use'[c].id \in {m, NoMachine},
             NEW g \in Machines, g # m
      PROVE  ContractState(g)' = ContractState(g)
  <2>1. g # NoMachine
    BY CallsAssumption
  <2> QED
    BY <1>2, <1>5, <2>1, StageElsewhere
<1>6. ASSUME NEW step \in {"acquiring", "available", "releasing"}, Name(c, step, m)
      PROVE  /\ use'[c].step = step /\ use'[c].id = m
             /\ \A d \in CIRs : d # c => use'[d] = use[d]
             /\ ContractState(m)' = Shown(step, domain[m])
  <2>1. step \in Steps \ {"none"}
    BY DEF Steps
  <2>2. /\ use'[c].step = step /\ use'[c].id = m
        /\ \A d \in CIRs : d # c => use'[d] = use[d]
    BY <1>2, <1>6, <2>1, NameTypes
  <2> QED
    BY <1>2, <2>2, StageNamed
<1>7. CASE work.call = "acquire"
  <2>1. Name(c, "acquiring", m) \/ use' = use
    BY <1>1, <1>7 DEF Return
  <2>2. CASE Name(c, "acquiring", m)
    <3>1. ContractState(m) = Shown("none", domain[m])
      BY <1>2, <1>3, <1>7, StageUnnamed
    <3>2. ContractState(m)' = ContractState(m)
      BY <1>6, <2>2, <3>1 DEF Shown
    <3>3. use[c].id = NoMachine
      BY <1>2, <1>3, <1>7, InCall
    <3> QED
      BY <1>2, <1>5, <1>6, <2>2, <3>2, <3>3, ContractStutter
  <2> QED
    BY <1>4, <2>1, <2>2
<1>8. CASE work.call = "clean"
  <2>1. Recorded(c, "available")
    BY <1>1, <1>8 DEF Return
  <2>2. Name(c, "available", m) \/ use' = use
    BY <1>3, <1>8, <2>1 DEF Recorded
  <2>3. CASE Name(c, "available", m)
    <3>1. ContractState(m) = "cleaning"
      BY <1>2, <1>3, <1>8, StageNamed DEF Shown
    <3>2. ContractState(m)' = "ready"
      BY <1>6, <2>3 DEF Shown
    <3> QED
      BY <1>2, <1>3, <1>5, <1>6, <1>8, <2>3, <3>1, <3>2, ContractStep
  <2> QED
    BY <1>4, <2>2, <2>3
<1>9. CASE work.call = "release"
  <2>1. Released(c)
    BY <1>1, <1>9 DEF Return
  <2>2. Forget(c) \/ Name(c, "releasing", m)
    BY <1>3, <1>9, <2>1 DEF Released
  <2>3. ContractState(m) = "absent"
    BY <1>2, <1>3, <1>9, StageNamed DEF Shown
  <2>4. CASE Name(c, "releasing", m)
    <3>1. ContractState(m)' = "absent"
      BY <1>3, <1>6, <1>9, <2>4 DEF Shown
    <3> QED
      BY <1>2, <1>3, <1>5, <1>6, <1>9, <2>3, <2>4, <3>1, ContractStutter
  <2>5. CASE Forget(c)
    <3>1. /\ use'[c].id = NoMachine
          /\ \A d \in CIRs : d # c => use'[d] = use[d]
      BY <1>2, <2>5, ForgetTypes
    <3>2. ~Named(m)'
      BY <1>2, <1>3, <1>9, <3>1 DEF IInv, OneOwner, Named
    <3>3. ContractState(m)' = "absent"
      BY <1>2, <1>3, <1>9, <3>2, StageUnnamed DEF Shown, Made
    <3> QED
      BY <1>2, <1>3, <1>5, <1>9, <2>3, <3>1, <3>3, ContractStutter
  <2> QED
    BY <2>2, <2>4, <2>5
<1> QED
  BY <1>2, <1>7, <1>8, <1>9

LEMMA RunsContract ==
    ASSUME IInv, IInv', NEW m \in Machines,
           \/ Boot(m)
           \/ \E c \in CIRs : PowerOff(c) /\ use[c].id = m
    PROVE  Contract!ProviderNext \/ UNCHANGED Contract!providerVars
<1>1. /\ use' = use /\ dirty' = dirty
      /\ \A g \in Machines : g # m => domain'[g] = domain[g]
      /\ Boot(m) => domain[m] = "booting" /\ domain'[m] = "up"
  BY DEF Boot, PowerOff, Domain, IInv, TypeOK
<1>2. \A g \in Machines : g # m => ContractState(g)' = ContractState(g)
  BY <1>1, StageElsewhere
<1>3. CASE Boot(m) /\ ~Named(m)
  <2>1. ContractState(m) = "building" /\ ContractState(m)' = "ready"
    BY <1>1, <1>3, OwnedSame, StageUnnamed DEF Shown, Made
  <2> QED
    BY <1>1, <1>2, <2>1, ContractStep
<1>4. ASSUME NEW c \in CIRs, use[c].id = m, Boot(m) \/ use[c].step = "in use"
      PROVE  Contract!ProviderNext \/ UNCHANGED Contract!providerVars
  <2>1. /\ ContractState(m) = Shown(use[c].step, domain[m])
        /\ ContractState(m)' = Shown(use[c].step, domain'[m])
    BY <1>1, <1>4, StageNamed
  <2>2. CASE use[c].step \in {"none", "acquiring"}
    <3>1. ContractState(m) = "building" /\ ContractState(m)' = "ready"
      BY <1>1, <1>4, <2>1, <2>2 DEF Shown, Made
    <3> QED
      BY <1>1, <1>2, <3>1, ContractStep
  <2>3. CASE use[c].step \notin {"none", "acquiring"}
    <3>1. ContractState(m)' = ContractState(m)
      BY <1>1, <1>4, <2>1, <2>3 DEF Shown
    <3> QED
      BY <1>1, <1>2, <3>1, ContractStutter
  <2> QED
    BY <2>2, <2>3
<1> QED
  BY <1>3, <1>4 DEF Named, PowerOff

(* Requests made one by one, that may fail and are repeated, amount to the *)
(* atomic calls of the Provider interface: a machine comes into being with *)
(* its domain, is cleaned from the call to its end, and is gone with its   *)
(* domain, for any interleaving with the clients and the hypervisor.       *)
THEOREM KeepsContract == Spec => ImplementsProvider
<1>1. Init => Contract!ProviderInit
  <2> SUFFICES ASSUME Init PROVE Contract!ProviderInit
    OBVIOUS
  <2>1. ASSUME NEW m \in Machines PROVE ContractState(m) = "absent"
    <3>1. domain[m] = "none" /\ ~Named(m)
      BY CallsAssumption DEF Init, CallsInit, Unused, Named
    <3>2. "none" \in DomainStates
      BY DEF DomainStates
    <3>3. ContractState(m) = Stage({}, "none")
      BY <3>1, StageOf, NoSteps
    <3>4. Stage({}, "none") = Shown("none", "none")
      BY <3>2, Stages
    <3> QED
      BY <3>3, <3>4 DEF Shown, Made
  <2> QED
    BY <2>1 DEF Contract!ProviderInit, Init
<1>2. IInv /\ IInv' /\ [Next]_vars => [Contract!ProviderNext]_(Contract!providerVars)
  <2> SUFFICES ASSUME IInv, IInv', [Next]_vars
               PROVE  Contract!ProviderNext \/ UNCHANGED Contract!providerVars
    OBVIOUS
  <2>1. ASSUME NEW c \in CIRs, PowerOff(c)
        PROVE  Contract!ProviderNext \/ UNCHANGED Contract!providerVars
    <3>1. use[c].id \in Machines
      BY <2>1, InCall DEF PowerOff, IInv
    <3> QED
      BY <2>1, <3>1, RunsContract
  <2>2. ASSUME Refused \/ Fault \/ VolumeNotFound
        PROVE  UNCHANGED Contract!providerVars
    <3>1. domain' = domain /\ use' = use /\ dirty' = dirty
      BY <2>2 DEF Refused, Fault, VolumeNotFound
    <3> QED
      BY <3>1, SameMachines
  <2>3. CASE UNCHANGED vars
    <3>1. domain' = domain /\ use' = use /\ dirty' = dirty
      BY <2>3 DEF vars, callVars
    <3> QED
      BY <3>1, SameMachines
  <2> QED
    BY <2>1, <2>2, <2>3, CallContract, RequestContract, ReturnContract, RunsContract DEF Next
<1> QED
  BY <1>1, <1>2, InductiveInvariant, PTL DEF Spec, ImplementsProvider, Contract!ProviderSpec
==============================================================================
