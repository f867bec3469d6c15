------------------------- MODULE CloudProvidersProofs -------------------------
(***************************************************************************)
(* Theorems about the providers that order a machine for every CIResource: *)
(* for any number of CIResources, pools, sizes and machines, and any bound *)
(* on the mishaps.                                                         *)
(***************************************************************************)
EXTENDS CloudProviders, FiniteSetTheorems, TLAPS

OneOwner == \A c, d \in CIRs : use[c].id = use[d].id /\ use[c].id # NoMachine => c = d

\* A machine: new ones carry no data; AWS alone describes machines that are gone,
\* and Equinix alone may be asked too early.
Sound(m) ==
    /\ machine[m] = "starting" => m \notin dirty
    /\ machine[m] = "terminated" => kind = "aws"
    /\ machine[m] = "to install" => kind = "ibmcloud" \/ AskedTooEarly

Given(c) == use[c].step \in {"available", "in use", "cleaning"}

\* A CIResource and its machine: from when it has been given to a client it stays
\* up, but for its reinstallations, which may fail; once active again it is clean.
Held(c) ==
    LET m == use[c].id IN
    /\ use[c].step = "acquiring" => machine[m] \in {"starting", "active", "failed"}
    /\ Given(c) => machine[m] \in {"active", "to install", "installing", "failed"}
    /\ Given(c) /\ kind = "aws" => machine[m] = "active"
    /\ use[c].step = "cleaning" => c \notin Fallback
    /\ ~AskedTooEarly =>
          /\ use[c].step = "available" => machine[m] = "active"
          /\ /\ use[c].step \in {"acquiring", "available", "cleaning"}
             /\ machine[m] = "active" /\ ~NeverCleaned(c)
             => m \notin dirty

CloudInv ==
    /\ OneOwner
    /\ \A c \in CIRs : Held(c)
    /\ \A m \in Machines : Sound(m)

IInv == TypeOK /\ CloudInv

-----------------------------------------------------------------------------
(* Orders.                                                                 *)

\* The ids that the cloud comes up with.
LEMMA NewIdsOne ==
    ASSUME NEW p, NEW ms \in NewIds(p, 1)
    PROVE  \E m \in Fresh(p) : ms = {m}
<1>1. Fresh(p) \subseteq Machines /\ IsFiniteSet(Fresh(p))
  BY CloudAssumption, FS_Subset DEF Fresh
<1>2. Cardinality(Fresh(p)) \in Nat
  BY <1>1, FS_CardinalityType
<1>3. ~(Cardinality(Fresh(p)) < 1) /\ ms = CHOOSE s \in SUBSET Fresh(p) : Cardinality(s) = 1
  BY DEF NewIds
<1>4. Fresh(p) # {}
  BY <1>2, <1>3, FS_EmptySet
<1>5. PICK x \in Fresh(p) : TRUE
  BY <1>4
<1>6. {x} \in SUBSET Fresh(p) /\ Cardinality({x}) = 1
  BY <1>5, FS_Singleton
<1>7. ms \in SUBSET Fresh(p) /\ Cardinality(ms) = 1
  BY <1>3, <1>6
<1>8. IsFiniteSet(ms)
  BY <1>1, <1>7, FS_Subset
<1> QED
  BY <1>7, <1>8, FS_Singleton

LEMMA NewIdsTwo ==
    ASSUME NEW p, NEW ms \in NewIds(p, 2), NEW m \in ms
    PROVE  \E n \in Fresh(p) : m \in Fresh(p) /\ n # m /\ ms = {m, n}
<1>1. Fresh(p) \subseteq Machines /\ IsFiniteSet(Fresh(p))
  BY CloudAssumption, FS_Subset DEF Fresh
<1>2. Cardinality(Fresh(p)) \in Nat
  BY <1>1, FS_CardinalityType
<1>3. ~(Cardinality(Fresh(p)) < 2) /\ ms = CHOOSE s \in SUBSET Fresh(p) : Cardinality(s) = 2
  BY DEF NewIds
<1>4. PICK x \in Fresh(p) : TRUE
  BY <1>2, <1>3, FS_EmptySet
<1>5. PICK y \in Fresh(p) : y # x
  <2>1. Fresh(p) # {x}
    BY <1>3, FS_Singleton
  <2> QED
    BY <1>4, <2>1
<1>6. {x, y} \in SUBSET Fresh(p) /\ Cardinality({x, y}) = 2
  <2>1. IsFiniteSet({x}) /\ Cardinality({x}) = 1
    BY FS_Singleton
  <2>2. Cardinality({x} \union {y}) = Cardinality({x}) + 1
    <3>1. y \notin {x}
      BY <1>5
    <3> QED
      BY <2>1, <3>1, FS_AddElement
  <2>3. {x} \union {y} = {x, y}
    OBVIOUS
  <2> QED
    BY <2>1, <2>2, <2>3
<1>7. ms \in SUBSET Fresh(p) /\ Cardinality(ms) = 2
  BY <1>3, <1>6
<1>8. IsFiniteSet(ms)
  BY <1>1, <1>7, FS_Subset
<1>9. IsFiniteSet(ms \ {m}) /\ Cardinality(ms \ {m}) = 1
  BY <1>7, <1>8, FS_RemoveElement
<1>10. PICK n : ms \ {m} = {n}
  BY <1>9, FS_Singleton
<1> QED
  BY <1>7, <1>10

\* An order makes one machine and names it, or loses it, or makes two.
LEMMA OrderMakes ==
    ASSUME NEW c \in CIRs, Order(c)
    PROVE  \E m, n \in Fresh(PoolOf[c]) :
              /\ Make({m, n})
              /\ \/ m = n /\ AllWell /\ Name(c, "acquiring", m)
                 \/ m = n /\ Happens("lost") /\ UNCHANGED use
                 \/ m # n /\ Happens("lost answer") /\ Name(c, "acquiring", m)
<1>1. CASE OrderOnce(c)
  <2>1. PICK ms \in NewIds(PoolOf[c], 1) :
               /\ Make(ms)
               /\ \/ AllWell /\ \A m \in ms : Name(c, "acquiring", m)
                  \/ Happens("lost") /\ UNCHANGED use
    BY <1>1 DEF OrderOnce
  <2>2. PICK m \in Fresh(PoolOf[c]) : ms = {m}
    BY NewIdsOne
  <2>3. ms = {m, m} /\ m \in ms
    BY <2>2
  <2> QED
    BY <2>1, <2>2, <2>3
<1>2. CASE /\ Happens("lost answer")
           /\ \E ms \in NewIds(PoolOf[c], 2) :
                 Make(ms) /\ \E m \in ms : Name(c, "acquiring", m)
  <2>1. PICK ms \in NewIds(PoolOf[c], 2) :
               Happens("lost answer") /\ Make(ms) /\ \E m \in ms : Name(c, "acquiring", m)
    BY <1>2
  <2>2. PICK m \in ms : Name(c, "acquiring", m)
    BY <2>1
  <2>3. PICK n \in Fresh(PoolOf[c]) : m \in Fresh(PoolOf[c]) /\ n # m /\ ms = {m, n}
    BY NewIdsTwo
  <2> QED
    BY <2>1, <2>2, <2>3
<1> QED
  BY <1>1, <1>2 DEF Order

LEMMA MakeTypes ==
    ASSUME TypeOK, NEW ms \in SUBSET Machines, Make(ms)
    PROVE  /\ machine' \in [Machines -> MachineStates]
           /\ dirty' \in SUBSET Machines /\ dirty' = dirty \ ms
           /\ \A m \in ms : machine'[m] = "starting"
           /\ \A m \in Machines \ ms : machine'[m] = machine[m]
<1>1. "starting" \in MachineStates
  BY DEF MachineStates
<1> QED
  BY <1>1 DEF Make, TypeOK, CallsTypeOK

-----------------------------------------------------------------------------
(* The other calls, by what they record and do to a machine.               *)

LEMMA BecomesTypes ==
    ASSUME TypeOK, NEW m \in Machines, NEW state \in MachineStates, Becomes(m, state)
    PROVE  /\ machine' \in [Machines -> MachineStates]
           /\ machine'[m] = state
           /\ \A g \in Machines : g # m => machine'[g] = machine[g]
BY DEF Becomes, TypeOK

UseTypeOK ==
    /\ use \in [CIRs -> [step : Steps, id : Machines \union {NoMachine}]]
    /\ \A c \in CIRs : use[c].id = NoMachine <=> use[c].step = "none"

LEMMA NameTypes ==
    ASSUME TypeOK, NEW c \in CIRs, NEW m \in Machines, NEW step \in Steps \ {"none"},
           Name(c, step, m)
    PROVE  /\ UseTypeOK'
           /\ use'[c].step = step /\ use'[c].id = m
           /\ \A d \in CIRs : d # c => use'[d] = use[d]
<1>1. m # NoMachine
  BY CallsAssumption
<1> QED
  BY <1>1 DEF TypeOK, CallsTypeOK, UseTypeOK, Name

LEMMA ForgetTypes ==
    ASSUME TypeOK, NEW c \in CIRs, Forget(c)
    PROVE  /\ UseTypeOK'
           /\ use'[c].step = "none" /\ use'[c].id = NoMachine
           /\ \A d \in CIRs : d # c => use'[d] = use[d]
<1>1. Unused.step = "none" /\ Unused.id = NoMachine
      /\ Unused \in [step : Steps, id : Machines \union {NoMachine}]
  BY DEF Unused, Steps
<1> QED
  BY <1>1 DEF TypeOK, CallsTypeOK, UseTypeOK, Forget

LEMMA MishapTypes ==
    ASSUME TypeOK
    PROVE  /\ \A m \in Mishaps : Happens(m) => mishaps' \in SUBSET Mishaps /\ mishaps \subseteq mishaps'
           /\ AllWell => mishaps' \in SUBSET Mishaps /\ mishaps' = mishaps
BY DEF TypeOK, Happens, AllWell

\* The machine of a call.
LEMMA InCall ==
    ASSUME TypeOK, NEW c \in CIRs
    PROVE  /\ use[c].step \in Steps /\ use[c].id \in Machines \union {NoMachine}
           /\ use[c].step # "none" => use[c].id \in Machines /\ use[c].id # NoMachine
BY CallsAssumption DEF TypeOK, CallsTypeOK

\* The machine that c names stays the one it names, or is forgotten.
LEMMA RecordedTypes ==
    ASSUME TypeOK, NEW c \in CIRs, use[c].step # "none", NEW step \in Steps \ {"none"},
           Recorded(c, step)
    PROVE  /\ UseTypeOK' /\ mishaps' \in SUBSET Mishaps /\ mishaps \subseteq mishaps'
           /\ use'[c].id = use[c].id /\ use'[c].step \in {step, use[c].step}
           /\ \A d \in CIRs : d # c => use'[d] = use[d]
<1>1. use[c].id \in Machines
  BY InCall
<1>2. CASE AllWell /\ Name(c, step, use[c].id)
  BY <1>1, <1>2, NameTypes, MishapTypes
<1>3. CASE Happens("lost") /\ UNCHANGED use
  BY <1>3, MishapTypes DEF TypeOK, CallsTypeOK, UseTypeOK, Happens, Mishaps
<1> QED
  BY <1>2, <1>3 DEF Recorded

LEMMA ReleasedTypes ==
    ASSUME TypeOK, NEW c \in CIRs, use[c].step # "none", Released(c)
    PROVE  /\ UseTypeOK' /\ mishaps' \in SUBSET Mishaps /\ mishaps \subseteq mishaps'
           /\ \/ use'[c].id = use[c].id /\ use'[c].step = "releasing"
              \/ use'[c].id = NoMachine /\ use'[c].step = "none"
           /\ \A d \in CIRs : d # c => use'[d] = use[d]
<1>1. use[c].id \in Machines
  BY InCall
<1>2. CASE AllWell /\ Forget(c)
  BY <1>2, ForgetTypes, MishapTypes
<1>3. CASE Happens("lost release") /\ Name(c, "releasing", use[c].id)
  <2>1. "releasing" \in Steps \ {"none"} /\ "lost release" \in Mishaps
    BY DEF Steps, Mishaps
  <2> QED
    BY <1>1, <1>3, <2>1, NameTypes, MishapTypes
<1> QED
  BY <1>2, <1>3 DEF Released

-----------------------------------------------------------------------------
(* What an invariant of the others needs, in a step that is about one      *)
(* machine.                                                                *)

MachineTypeOK ==
    /\ machine \in [Machines -> MachineStates]
    /\ dirty \in SUBSET Machines
    /\ mishaps \in SUBSET Mishaps

LEMMA HeldElsewhere ==
    ASSUME NEW d \in CIRs, Held(d), use'[d] = use[d], kind' = kind, mishaps \subseteq mishaps',
           machine'[use[d].id] = machine[use[d].id],
           use[d].id \in dirty' => use[d].id \in dirty
    PROVE  Held(d)'
BY DEF Held, Given, AskedTooEarly, NeverCleaned

LEMMA SoundElsewhere ==
    ASSUME NEW g \in Machines, Sound(g), kind' = kind, mishaps \subseteq mishaps',
           machine'[g] = machine[g], g \in dirty' => g \in dirty
    PROVE  Sound(g)'
BY DEF Sound, AskedTooEarly

\* A call for the machine of c.
LEMMA Served ==
    ASSUME IInv, kind' = kind, mishaps \subseteq mishaps', UseTypeOK', MachineTypeOK',
           NEW c \in CIRs, NEW m \in Machines, use[c].id = m,
           \A d \in CIRs : d # c => use'[d] = use[d],
           use'[c].id \in {m, NoMachine},
           \A g \in Machines : g # m => machine'[g] = machine[g] /\ (g \in dirty' => g \in dirty),
           Held(c)', Sound(m)'
    PROVE  IInv'
<1>1. m # NoMachine
  BY CallsAssumption
<1>2. OneOwner'
  BY <1>1 DEF IInv, CloudInv, OneOwner
<1>3. ASSUME NEW d \in CIRs PROVE Held(d)'
  <2>1. CASE d = c
    BY <2>1
  <2>2. CASE d # c /\ use[d].step # "none"
    <3>1. use[d].id \in Machines /\ use[d].id # NoMachine
      BY <2>2, InCall DEF IInv
    <3>2. use[d].id # m
      BY <2>2, <3>1 DEF IInv, CloudInv, OneOwner
    <3> QED
      BY <2>2, <3>1, <3>2, HeldElsewhere DEF IInv, CloudInv
  <2>3. CASE d # c /\ use[d].step = "none"
    BY <2>3 DEF Held, Given
  <2> QED
    BY <2>1, <2>2, <2>3
<1>4. ASSUME NEW g \in Machines PROVE Sound(g)'
  <2>1. CASE g = m
    BY <2>1
  <2>2. CASE g # m
    BY <2>2, SoundElsewhere DEF IInv, CloudInv
  <2> QED
    BY <2>1, <2>2
<1>5. TypeOK'
  BY DEF IInv, TypeOK, CallsTypeOK, UseTypeOK, MachineTypeOK
<1> QED
  BY <1>2, <1>3, <1>4, <1>5 DEF IInv, CloudInv

\* The cloud goes on with machine m.
LEMMA Progressed ==
    ASSUME IInv, kind' = kind, mishaps \subseteq mishaps', use' = use, MachineTypeOK',
           NEW m \in Machines, dirty' \subseteq dirty,
           \A g \in Machines : g # m => machine'[g] = machine[g],
           \A c \in CIRs : use[c].id = m => Held(c)', Sound(m)'
    PROVE  IInv'
<1>1. OneOwner'
  BY DEF IInv, CloudInv, OneOwner
<1>2. ASSUME NEW d \in CIRs, use[d].id # m PROVE Held(d)'
  <2>1. CASE use[d].step # "none"
    <3>1. use[d].id \in Machines
      BY <2>1, InCall DEF IInv
    <3> QED
      BY <1>2, <3>1, HeldElsewhere DEF IInv, CloudInv
  <2>2. CASE use[d].step = "none"
    BY <2>2 DEF Held, Given
  <2> QED
    BY <2>1, <2>2
<1>3. ASSUME NEW g \in Machines, g # m PROVE Sound(g)'
  BY <1>3, SoundElsewhere DEF IInv, CloudInv
<1>4. UseTypeOK'
  BY DEF IInv, TypeOK, CallsTypeOK, UseTypeOK
<1>5. TypeOK'
  BY <1>4 DEF IInv, TypeOK, CallsTypeOK, UseTypeOK, MachineTypeOK
<1> QED
  BY <1>1, <1>2, <1>3, <1>5 DEF IInv, CloudInv

-----------------------------------------------------------------------------
(* The steps.                                                              *)

\* A call that changes nothing at the cloud, and a client's work.
LEMMA NamedInv ==
    ASSUME IInv, UNCHANGED <<kind, machine, mishaps>>,
           NEW c \in CIRs, NEW m \in Machines, use[c].id = m,
           NEW step \in {"available", "in use", "cleaning"}, Name(c, step, m),
           \/ dirty' = dirty
           \/ dirty' = dirty \union {m} /\ machine[m] # "starting" /\ step = "in use",
           machine[m] \in {"active", "to install", "installing", "failed"},
           kind = "aws" => machine[m] = "active",
           step = "cleaning" => c \notin Fallback,
           ~AskedTooEarly /\ step = "available" => machine[m] = "active",
           ~AskedTooEarly /\ step # "in use" /\ ~NeverCleaned(c) /\ machine[m] = "active"
              => m \notin dirty
    PROVE  IInv'
<1>1. step \in Steps \ {"none"}
  BY DEF Steps
<1>2. /\ UseTypeOK' /\ use'[c].step = step /\ use'[c].id = m
      /\ \A d \in CIRs : d # c => use'[d] = use[d]
  BY <1>1, NameTypes, ZenonT(40) DEF IInv
<1>3. MachineTypeOK'
  BY DEF IInv, TypeOK, CallsTypeOK, MachineTypeOK
<1>4. Held(c)'
  BY <1>2 DEF Held, Given, AskedTooEarly, NeverCleaned
<1>5. Sound(m)'
  BY DEF IInv, CloudInv, Sound, AskedTooEarly
<1> QED
  BY <1>2, <1>3, <1>4, <1>5, Served

LEMMA CompletedInv ==
    ASSUME IInv, NEW c \in CIRs,
           DeviceCompleted(c) \/ InstanceCompleted(c) \/ ServerCompleted(c) \/ CleanInstance(c)
    PROVE  IInv'
<1> DEFINE m == use[c].id
<1>1. /\ use[c].step # "none" /\ UNCHANGED <<kind, machine, mishaps>> /\ dirty' = dirty
  BY DEF DeviceCompleted, InstanceCompleted, ServerCompleted, CleanInstance, MayComplete, MayClean
<1>2. m \in Machines
  BY <1>1, InCall DEF IInv
<1>3. Held(c) /\ Sound(m)
  BY <1>2 DEF IInv, CloudInv
<1>4. CASE DeviceCompleted(c)
  <2>1. kind = "equinix" /\ MayComplete(c) /\ machine[m] \in {"active", "to install"}
        /\ Name(c, "available", m)
    BY <1>4 DEF DeviceCompleted
  <2>2. ~AskedTooEarly => machine[m] = "active"
    BY <1>3, <2>1 DEF Sound
  <2>3. ~AskedTooEarly /\ ~NeverCleaned(c) /\ machine[m] = "active" => m \notin dirty
    BY <1>3, <2>1 DEF Held, MayComplete
  <2> QED
    BY <1>1, <1>2, <2>1, <2>2, <2>3, NamedInv
<1>5. CASE InstanceCompleted(c) \/ ServerCompleted(c)
  <2>1. MayComplete(c) /\ machine[m] = "active" /\ Name(c, "available", m)
    BY <1>5 DEF InstanceCompleted, ServerCompleted, Active, MayComplete
  <2>2. ~AskedTooEarly /\ ~NeverCleaned(c) => m \notin dirty
    BY <1>3, <2>1 DEF Held, MayComplete
  <2> QED
    BY <1>1, <1>2, <2>1, <2>2, NamedInv
<1>6. CASE CleanInstance(c)
  <2>1. /\ kind = "aws" /\ Given(c)
        /\ \/ MayClean(c) /\ Name(c, "cleaning", m)
           \/ use[c].step = "cleaning" /\ Name(c, "available", m)
    BY <1>6 DEF CleanInstance, Given, MayClean
  <2>2. machine[m] = "active" /\ c \notin Fallback
    BY <1>3, <2>1 DEF Held, MayClean
  <2>3. NeverCleaned(c)
    BY <2>1, <2>2 DEF NeverCleaned
  <2> QED
    BY <1>1, <1>2, <2>1, <2>2, <2>3, NamedInv
<1> QED
  BY <1>4, <1>5, <1>6

LEMMA UseInv ==
    ASSUME IInv, NEW c \in CIRs, UseMachine(c)
    PROVE  IInv'
<1> DEFINE m == use[c].id
<1>1. /\ use[c].step = "available" /\ UNCHANGED <<kind, machine, mishaps>>
      /\ dirty' = dirty \union {m} /\ Name(c, "in use", m)
  BY DEF UseMachine, ClientUse
<1>2. m \in Machines
  BY <1>1, InCall DEF IInv
<1>3. /\ machine[m] \in {"active", "to install", "installing", "failed"}
      /\ kind = "aws" => machine[m] = "active"
  BY <1>1 DEF IInv, CloudInv, Held, Given
<1> QED
  BY <1>1, <1>2, <1>3, NamedInv

LEMMA CleanInv ==
    ASSUME IInv, NEW c \in CIRs, CleanDevice(c) \/ CleanServer(c)
    PROVE  IInv'
<1> DEFINE m == use[c].id
<1>1. use[c].step = "in use" /\ c \notin Fallback /\ kind # "aws" /\ kind' = kind /\ dirty' = dirty
  BY DEF CleanDevice, CleanServer, MayClean
<1>2. m \in Machines
  BY <1>1, InCall DEF IInv
<1>3. ASSUME NEW state \in {"to install", "installing"}, Becomes(m, state), UseTypeOK',
             mishaps' \in SUBSET Mishaps, mishaps \subseteq mishaps',
             use'[c].id = m, use'[c].step \in {"cleaning", "in use"},
             \A d \in CIRs : d # c => use'[d] = use[d],
             state = "to install" /\ kind = "equinix" => "slow" \in mishaps'
      PROVE  IInv'
  <2>1. state \in MachineStates
    BY DEF MachineStates
  <2>2. /\ MachineTypeOK' /\ machine'[m] = state
        /\ \A g \in Machines : g # m => machine'[g] = machine[g]
    BY <1>1, <1>2, <1>3, <2>1, BecomesTypes DEF IInv, TypeOK, CallsTypeOK, MachineTypeOK
  <2>3. Held(c)'
    BY <1>1, <1>3, <2>2 DEF Held, Given, AskedTooEarly, NeverCleaned
  <2>4. ASSUME NEW g, g = m PROVE Sound(g)'
    BY <1>1, <1>3, <2>2, <2>4 DEF Sound, AskedTooEarly, IInv, TypeOK, Kinds
  <2> QED
    BY <1>1, <1>2, <1>3, <2>2, <2>3, <2>4, Served
<1>4. ASSUME NEW state \in {"to install", "installing"}, Becomes(m, state),
             Recorded(c, "cleaning"), state = "to install" => kind = "ibmcloud"
      PROVE  IInv'
  <2>1. "cleaning" \in Steps \ {"none"}
    BY DEF Steps
  <2>2. /\ UseTypeOK' /\ mishaps' \in SUBSET Mishaps /\ mishaps \subseteq mishaps'
        /\ use'[c].id = m /\ use'[c].step \in {"cleaning", "in use"}
        /\ \A d \in CIRs : d # c => use'[d] = use[d]
    BY <1>1, <1>4, <2>1, RecordedTypes DEF IInv
  <2> QED
    BY <1>3, <1>4, <2>2
<1>5. CASE Happens("slow") /\ Becomes(m, "to install") /\ Name(c, "cleaning", m)
  <2>1. "cleaning" \in Steps \ {"none"} /\ "slow" \in Mishaps
    BY DEF Steps, Mishaps
  <2>2. /\ UseTypeOK' /\ use'[c].id = m /\ use'[c].step = "cleaning"
        /\ \A d \in CIRs : d # c => use'[d] = use[d]
    BY <1>2, <1>5, <2>1, NameTypes DEF IInv
  <2>3. mishaps' \in SUBSET Mishaps /\ mishaps \subseteq mishaps' /\ "slow" \in mishaps'
    BY <1>5, <2>1, MishapTypes DEF IInv, Happens
  <2> QED
    BY <1>3, <1>5, <2>2, <2>3
<1>6. CASE CleanDevice(c)
  <2>1. \/ Becomes(m, "installing") /\ Recorded(c, "cleaning")
        \/ Happens("slow") /\ Becomes(m, "to install") /\ Name(c, "cleaning", m)
    BY <1>6 DEF CleanDevice
  <2>2. CASE Becomes(m, "installing") /\ Recorded(c, "cleaning")
    BY <1>4, <2>2
  <2>3. CASE Happens("slow") /\ Becomes(m, "to install") /\ Name(c, "cleaning", m)
    BY <1>5, <2>3
  <2> QED
    BY <2>1, <2>2, <2>3
<1>7. CASE CleanServer(c)
  <2>1. kind = "ibmcloud" /\ Becomes(m, "to install") /\ Recorded(c, "cleaning")
    BY <1>7 DEF CleanServer
  <2> QED
    BY <1>4, <2>1
<1> QED
  BY <1>6, <1>7

LEMMA ReleaseInv ==
    ASSUME IInv, NEW c \in CIRs, ReleaseDevice(c) \/ ReleaseInstance(c) \/ ReleaseServer(c)
    PROVE  IInv'
<1> DEFINE m == use[c].id
<1>1. /\ MayRelease(c) /\ use[c].step # "none" /\ kind' = kind /\ dirty' = dirty /\ Released(c)
      /\ \/ Becomes(m, "none")
         \/ kind = "aws" /\ Becomes(m, "terminated")
  BY DEF ReleaseDevice, ReleaseInstance, ReleaseServer, MayRelease
<1>2. m \in Machines
  BY <1>1, InCall DEF IInv
<1>3. PICK state \in {"none", "terminated"} :
               Becomes(m, state) /\ (state = "terminated" => kind = "aws")
  BY <1>1
<1>4. /\ UseTypeOK' /\ mishaps' \in SUBSET Mishaps /\ mishaps \subseteq mishaps'
      /\ use'[c].step \in {"releasing", "none"} /\ use'[c].id \in {m, NoMachine}
      /\ \A d \in CIRs : d # c => use'[d] = use[d]
  BY <1>1, ReleasedTypes DEF IInv
<1>5. state \in MachineStates
  BY DEF MachineStates
<1>6. /\ MachineTypeOK' /\ machine'[m] = state
      /\ \A g \in Machines : g # m => machine'[g] = machine[g]
  BY <1>1, <1>2, <1>3, <1>4, <1>5, BecomesTypes DEF IInv, TypeOK, CallsTypeOK, MachineTypeOK
<1>7. Held(c)'
  BY <1>4 DEF Held, Given
<1>8. ASSUME NEW g, g = m PROVE Sound(g)'
  BY <1>1, <1>3, <1>6, <1>8 DEF Sound
<1> QED
  BY <1>1, <1>2, <1>4, <1>6, <1>7, <1>8, Served

\* What a cloud makes is new, and nobody named it before.
LEMMA OrderInv ==
    ASSUME IInv, NEW c \in CIRs, MayAcquire(c), Order(c), UNCHANGED kind
    PROVE  IInv'
<1>1. PICK m, n \in Fresh(PoolOf[c]) :
              /\ Make({m, n})
              /\ \/ AllWell /\ Name(c, "acquiring", m)
                 \/ Happens("lost") /\ UNCHANGED use
                 \/ Happens("lost answer") /\ Name(c, "acquiring", m)
  BY OrderMakes
<1>2. {m, n} \in SUBSET Machines /\ ~Named(m) /\ ~Named(n)
  BY DEF Fresh
<1>3. /\ machine' \in [Machines -> MachineStates]
      /\ dirty' \in SUBSET Machines /\ dirty' = dirty \ {m, n}
      /\ machine'[m] = "starting" /\ machine'[n] = "starting"
      /\ \A g \in Machines \ {m, n} : machine'[g] = machine[g]
  BY <1>1, <1>2, MakeTypes DEF IInv
<1>4. mishaps' \in SUBSET Mishaps /\ mishaps \subseteq mishaps'
  BY <1>1, MishapTypes DEF IInv, Mishaps
<1>5. /\ UseTypeOK'
      /\ \A d \in CIRs : d # c => use'[d] = use[d]
      /\ \/ use'[c] = use[c]
         \/ use'[c].step = "acquiring" /\ use'[c].id = m
  <2>1. CASE UNCHANGED use
    BY <2>1 DEF IInv, TypeOK, CallsTypeOK, UseTypeOK
  <2>2. CASE Name(c, "acquiring", m)
    <3>1. "acquiring" \in Steps \ {"none"}
      BY DEF Steps
    <3> QED
      BY <1>2, <2>2, <3>1, NameTypes DEF IInv
  <2> QED
    BY <1>1, <2>1, <2>2
<1>6. TypeOK'
  BY <1>3, <1>4, <1>5 DEF IInv, TypeOK, CallsTypeOK, UseTypeOK
<1>7. use[c].step = "none" /\ use[c].id = NoMachine
  BY DEF MayAcquire, IInv, TypeOK, CallsTypeOK
<1>8. OneOwner'
  BY <1>2, <1>5, <1>7 DEF IInv, CloudInv, OneOwner, Named
<1>9. ASSUME NEW d \in CIRs PROVE Held(d)'
  <2>1. CASE use'[d] # use[d]
    <3>1. d = c /\ use'[c].step = "acquiring" /\ use'[c].id = m
      BY <1>5, <2>1
    <3>2. m \notin dirty'
      BY <1>3
    <3> QED
      BY <1>3, <3>1, <3>2 DEF Held, Given
  <2>2. CASE use'[d] = use[d] /\ use[d].step = "none"
    BY <2>2 DEF Held, Given
  <2>3. CASE use'[d] = use[d] /\ use[d].step # "none"
    <3>1. use[d].id \in Machines \ {m, n}
      BY <1>2, <2>3, InCall DEF IInv, Named
    <3> QED
      BY <1>3, <1>4, <2>3, <3>1, HeldElsewhere DEF IInv, CloudInv
  <2> QED
    BY <2>1, <2>2, <2>3
<1>10. ASSUME NEW g \in Machines PROVE Sound(g)'
  <2>1. CASE g \in {m, n}
    BY <1>3, <2>1 DEF Sound
  <2>2. CASE g \notin {m, n}
    BY <1>3, <1>4, <2>2, SoundElsewhere DEF IInv, CloudInv
  <2> QED
    BY <2>1, <2>2
<1> QED
  BY <1>6, <1>8, <1>9, <1>10 DEF IInv, CloudInv

LEMMA AcquireInv ==
    ASSUME IInv, NEW c \in CIRs, AcquireDevice(c) \/ AcquireInstance(c) \/ AcquireServer(c)
    PROVE  IInv'
<1>1. MayAcquire(c) /\ Order(c) /\ UNCHANGED kind
  BY DEF AcquireDevice, AcquireInstance, AcquireServer, Order
<1> QED
  BY <1>1, OrderInv

\* The clouds' own progress.
LEMMA ProgressInv ==
    ASSUME IInv, NEW m \in Machines,
           BeginInstall(m) \/ FinishInstall(m) \/ FailInstall(m) \/ Purge(m)
    PROVE  IInv'
<1>1. PICK state \in {"installing", "active", "failed", "none"} :
              /\ Becomes(m, state)
              /\ state = "installing" => machine[m] = "to install"
              /\ state = "active" => machine[m] \in {"starting", "installing"} /\ dirty' = dirty \ {m}
              /\ state = "failed" => machine[m] \in {"starting", "installing"}
              /\ state = "none" => machine[m] = "terminated"
              /\ state # "active" => dirty' = dirty
  BY DEF BeginInstall, FinishInstall, FailInstall, Purge, callVars
<1>2. use' = use /\ kind' = kind
  BY DEF BeginInstall, FinishInstall, FailInstall, Purge, callVars
<1>3. mishaps' \in SUBSET Mishaps /\ mishaps \subseteq mishaps'
  <2>1. "failed" \in Mishaps
    BY DEF Mishaps
  <2>2. UNCHANGED mishaps \/ Happens("failed")
    BY DEF BeginInstall, FinishInstall, FailInstall, Purge, callVars
  <2> QED
    BY <2>1, <2>2, MishapTypes DEF IInv, TypeOK
<1>4. state \in MachineStates
  BY DEF MachineStates
<1>5. /\ MachineTypeOK' /\ machine'[m] = state /\ dirty' \subseteq dirty
      /\ \A g \in Machines : g # m => machine'[g] = machine[g]
  BY <1>1, <1>3, <1>4, BecomesTypes DEF IInv, TypeOK, CallsTypeOK, MachineTypeOK
<1>6. ASSUME NEW c \in CIRs, use[c].id = m PROVE Held(c)'
  <2>1. Held(c) /\ Sound(m)
    BY DEF IInv, CloudInv
  <2>2. ~AskedTooEarly' => ~AskedTooEarly
    BY <1>2, <1>3 DEF AskedTooEarly
  <2> QED
    BY <1>1, <1>2, <1>5, <1>6, <2>1, <2>2 DEF Held, Sound, Given, NeverCleaned
<1>7. Sound(m)'
  BY <1>1, <1>2, <1>3, <1>5 DEF Sound, IInv, CloudInv
<1> QED
  BY <1>2, <1>3, <1>5, <1>6, <1>7, Progressed

LEMMA InitInv == Init => IInv
<1> SUFFICES ASSUME Init PROVE IInv
  OBVIOUS
<1>1. \A c \in CIRs : use[c].step = "none" /\ use[c].id = NoMachine
  BY DEF Init, CallsInit, Unused
<1>2. TypeOK
  <2>1. Unused \in [step : Steps, id : Machines \union {NoMachine}]
    BY DEF Unused, Steps
  <2>2. "none" \in MachineStates
    BY DEF MachineStates
  <2> QED
    BY <1>1, <2>1, <2>2 DEF Init, CallsInit, TypeOK, CallsTypeOK
<1>3. CloudInv
  BY <1>1 DEF Init, CloudInv, OneOwner, Held, Given, Sound
<1> QED
  BY <1>2, <1>3 DEF IInv

LEMMA NextInv ==
    ASSUME IInv, [Next]_vars
    PROVE  IInv'
<1>1. CASE UNCHANGED vars
  BY <1>1 DEF vars, callVars, IInv, TypeOK, CallsTypeOK, CloudInv, OneOwner, Held, Given,
              Sound, AskedTooEarly, NeverCleaned
<1> QED
  BY <1>1, AcquireInv, CompletedInv, CleanInv, ReleaseInv, UseInv, ProgressInv DEF Next

LEMMA InductiveInvariant == Spec => []IInv
BY InitInv, NextInv, PTL DEF Spec

(* Records and machines always have the states the others are built on,    *)
(* and a CIResource names a machine exactly while it is not idle.          *)
THEOREM TypeCorrect == Spec => []TypeOK
<1>1. IInv => TypeOK
  BY DEF IInv
<1> QED
  BY <1>1, InductiveInvariant, PTL

(* AcquireCompleted and CleanCompleted say so only of a machine that is up *)
(* and has no data of an earlier client, unless Equinix was asked before   *)
(* the reinstallation began: no lost result, repeated call or failed       *)
(* release gets a client somebody else's machine.                          *)
THEOREM HandsOutClean == Spec => []HandedOutClean
<1>1. IInv => HandedOutClean
  BY DEF IInv, CloudInv, Held, HandedOutClean
<1> QED
  BY <1>1, InductiveInvariant, PTL

-----------------------------------------------------------------------------
(* Machines that cost money: those that nobody remembers, and those that   *)
(* count against the size of a pool.                                       *)

Up(m) == machine[m] \notin {"none", "terminated"}

\* A call for the machine of a CIResource brings none to life, and forgets only
\* one that is gone.
LEMMA CallEffects ==
    ASSUME IInv, NEW c \in CIRs,
           \/ DeviceCompleted(c) \/ InstanceCompleted(c) \/ ServerCompleted(c) \/ CleanInstance(c)
           \/ CleanDevice(c) \/ CleanServer(c) \/ UseMachine(c)
           \/ ReleaseDevice(c) \/ ReleaseInstance(c) \/ ReleaseServer(c)
    PROVE  /\ kind' = kind /\ mishaps \subseteq mishaps'
           /\ \A d \in CIRs : d # c => use'[d] = use[d]
           /\ \A g \in Machines : g # use[c].id => machine'[g] = machine[g]
           /\ \A g \in Machines : (Exists(g)' => Exists(g)) /\ (Up(g)' => Up(g))
           /\ \/ use'[c].id = use[c].id
              \/ use'[c].id = NoMachine /\ \A g \in Machines : g = use[c].id => ~Up(g)'
<1> DEFINE m == use[c].id
<1>1. use[c].step # "none" /\ kind' = kind
  BY DEF DeviceCompleted, InstanceCompleted, ServerCompleted, CleanInstance, UseMachine, ClientUse,
     CleanDevice, CleanServer, ReleaseDevice, ReleaseInstance, ReleaseServer,
     MayComplete, MayClean, MayRelease
<1>2. m \in Machines /\ TypeOK /\ Held(c)
  BY <1>1, InCall DEF IInv, CloudInv
<1>3. ASSUME NEW step \in {"available", "in use", "cleaning"}, Name(c, step, m)
      PROVE  (\A d \in CIRs : d # c => use'[d] = use[d]) /\ use'[c].id = m
  <2>1. step \in Steps \ {"none"}
    BY DEF Steps
  <2> QED
    BY <1>2, <1>3, <2>1, NameTypes
<1>4. CASE DeviceCompleted(c) \/ InstanceCompleted(c) \/ ServerCompleted(c) \/ CleanInstance(c)
           \/ UseMachine(c)
  <2>1. /\ UNCHANGED <<machine, mishaps>>
        /\ \E step \in {"available", "in use", "cleaning"} : Name(c, step, m)
    BY <1>4 DEF DeviceCompleted, InstanceCompleted, ServerCompleted, CleanInstance, UseMachine, ClientUse
  <2> QED
    BY <1>1, <1>3, <2>1 DEF Exists, Up
<1>5. CASE CleanDevice(c) \/ CleanServer(c)
  <2>1. PICK state \in {"to install", "installing"} : Becomes(m, state)
    BY <1>5 DEF CleanDevice, CleanServer
  <2>2. state \in MachineStates
    BY DEF MachineStates
  <2>3. machine'[m] = state /\ \A g \in Machines : g # m => machine'[g] = machine[g]
    BY <1>2, <2>1, <2>2, BecomesTypes
  <2>4. Up(m) /\ Exists(m)
    BY <1>2, <1>5 DEF Held, Given, Up, Exists, CleanDevice, CleanServer, MayClean
  <2>5. \A g \in Machines : (Exists(g)' => Exists(g)) /\ (Up(g)' => Up(g))
    BY <2>3, <2>4 DEF Exists, Up
  <2>6. mishaps \subseteq mishaps' /\ use'[c].id = m /\ \A d \in CIRs : d # c => use'[d] = use[d]
    <3>1. CASE Recorded(c, "cleaning")
      <4>1. "cleaning" \in Steps \ {"none"}
        BY DEF Steps
      <4> QED
        BY <1>1, <1>2, <3>1, <4>1, RecordedTypes
    <3>2. CASE Happens("slow") /\ Name(c, "cleaning", m)
      BY <1>3, <3>2 DEF Happens
    <3> QED
      BY <1>5, <3>1, <3>2 DEF CleanDevice, CleanServer
  <2> QED
    BY <1>1, <2>3, <2>5, <2>6
<1>6. CASE ReleaseDevice(c) \/ ReleaseInstance(c) \/ ReleaseServer(c)
  <2>1. PICK state \in {"none", "terminated"} : Becomes(m, state) /\ Exists(m) /\ Released(c)
    BY <1>6 DEF ReleaseDevice, ReleaseInstance, ReleaseServer, Described
  <2>2. state \in MachineStates
    BY DEF MachineStates
  <2>3. machine'[m] = state /\ \A g \in Machines : g # m => machine'[g] = machine[g]
    BY <1>2, <2>1, <2>2, BecomesTypes
  <2>4. \A g \in Machines : (Exists(g)' => Exists(g)) /\ (Up(g)' => Up(g)) /\ (g = m => ~Up(g)')
    BY <2>1, <2>3 DEF Exists, Up
  <2> QED
    BY <1>1, <1>2, <2>1, <2>3, <2>4, ReleasedTypes
<1> QED
  BY <1>4, <1>5, <1>6

LEMMA ProgressEffects ==
    ASSUME IInv, NEW m \in Machines,
           BeginInstall(m) \/ FinishInstall(m) \/ FailInstall(m) \/ Purge(m)
    PROVE  /\ kind' = kind /\ mishaps \subseteq mishaps' /\ use' = use
           /\ \A g \in Machines : (Exists(g)' => Exists(g)) /\ (Up(g)' => Up(g))
<1>1. /\ kind' = kind /\ mishaps \subseteq mishaps' /\ use' = use
  BY DEF BeginInstall, FinishInstall, FailInstall, Purge, Happens, callVars
<1>2. PICK state \in {"installing", "active", "failed", "none"} :
              /\ Becomes(m, state)
              /\ state = "none" \/ machine[m] \in {"to install", "starting", "installing"}
  BY DEF BeginInstall, FinishInstall, FailInstall, Purge
<1>3. state \in MachineStates
  BY DEF MachineStates
<1>4. machine'[m] = state /\ \A g \in Machines : g # m => machine'[g] = machine[g]
  BY <1>2, <1>3, BecomesTypes DEF IInv
<1> QED
  BY <1>1, <1>2, <1>4 DEF Exists, Up

Losses == mishaps \intersect {"lost", "lost answer"}

LEMMA FewMishaps ==
    \A S : S \subseteq {"lost", "lost answer"} => IsFiniteSet(S)
<1>1. IsFiniteSet({"lost"}) /\ {"lost"} \union {"lost answer"} = {"lost", "lost answer"}
  BY FS_Singleton
<1>2. IsFiniteSet({"lost", "lost answer"})
  BY <1>1, FS_AddElement
<1> QED
  BY <1>2, FS_Subset

\* As long as one set grows by an element whenever the other may.
LEMMA GrowTogether ==
    ASSUME NEW S, NEW T, NEW R, NEW Q, IsFiniteSet(S), IsFiniteSet(R), IsFiniteSet(Q),
           Cardinality(S) <= Cardinality(R),
           \/ T \subseteq S /\ R \subseteq Q
           \/ \E x, e : T \subseteq S \union {x} /\ e \notin R /\ Q = R \union {e}
    PROVE  Cardinality(T) <= Cardinality(Q)
<1>1. Cardinality(S) \in Nat /\ Cardinality(R) \in Nat /\ Cardinality(Q) \in Nat
  BY FS_CardinalityType
<1>2. CASE T \subseteq S /\ R \subseteq Q
  <2>1. Cardinality(T) \in Nat /\ Cardinality(T) <= Cardinality(S)
    BY <1>2, FS_Subset, FS_CardinalityType
  <2>2. Cardinality(R) <= Cardinality(Q)
    BY <1>2, FS_Subset
  <2> QED
    BY <1>1, <2>1, <2>2
<1>3. ASSUME NEW x, NEW e, T \subseteq S \union {x}, e \notin R, Q = R \union {e}
      PROVE  Cardinality(T) <= Cardinality(Q)
  <2>1. Cardinality(Q) = Cardinality(R) + 1
    BY <1>3, FS_AddElement
  <2>2. /\ IsFiniteSet(S \union {x})
        /\ \/ Cardinality(S \union {x}) = Cardinality(S)
           \/ Cardinality(S \union {x}) = Cardinality(S) + 1
    BY FS_AddElement
  <2>3. Cardinality(T) \in Nat /\ Cardinality(T) <= Cardinality(S \union {x})
    BY <1>3, <2>2, FS_Subset, FS_CardinalityType
  <2> QED
    BY <1>1, <2>1, <2>2, <2>3
<1> QED
  BY <1>2, <1>3

\* A step that loses nothing, and one that loses one machine by a mishap.
LEMMA LossesCount ==
    ASSUME OnlyLossesLeak, mishaps \subseteq mishaps',
           \/ Lost' \subseteq Lost
           \/ \E x : /\ Lost' \subseteq Lost \union {x}
                     /\ Happens("lost") \/ Happens("lost answer")
    PROVE  OnlyLossesLeak'
<1>1. Lost \subseteq Machines
  BY DEF Lost
<1>2. IsFiniteSet(Lost) /\ IsFiniteSet(Losses) /\ IsFiniteSet(Losses')
  BY <1>1, CloudAssumption, FS_Subset, FewMishaps DEF Losses
<1>3. Cardinality(Lost) <= Cardinality(Losses)
  BY DEF OnlyLossesLeak, Losses
<1>4. Losses \subseteq Losses'
  BY DEF Losses
<1>5. ASSUME NEW e \in {"lost", "lost answer"}, Happens(e)
      PROVE  e \notin Losses /\ Losses' = Losses \union {e}
  BY <1>5 DEF Losses, Happens
<1>6. Cardinality(Lost') <= Cardinality(Losses')
  BY <1>2, <1>3, <1>4, <1>5, GrowTogether
<1> QED
  BY <1>6 DEF OnlyLossesLeak, Losses

LEMMA CallLosesNothing ==
    ASSUME IInv, NEW c \in CIRs,
           \A d \in CIRs : d # c => use'[d] = use[d],
           \A g \in Machines : Up(g)' => Up(g),
           \/ use'[c].id = use[c].id
           \/ use'[c].id = NoMachine /\ \A g \in Machines : g = use[c].id => ~Up(g)'
    PROVE  Lost' \subseteq Lost
<1>1. ASSUME NEW g \in Machines, Up(g)', Named(g) PROVE Named(g)'
  <2>1. PICK d \in CIRs : use[d].id = g
    BY <1>1 DEF Named
  <2>2. use'[d].id = g
    BY <1>1, <2>1
  <2> QED
    BY <2>2 DEF Named
<1> QED
  BY <1>1 DEF Lost, Up

LEMMA OrderLosesOne ==
    ASSUME IInv, NEW c \in CIRs, MayAcquire(c), Order(c)
    PROVE  \/ Lost' \subseteq Lost
           \/ \E x : /\ Lost' \subseteq Lost \union {x}
                     /\ Happens("lost") \/ Happens("lost answer")
<1>1. PICK m, n \in Fresh(PoolOf[c]) :
              /\ Make({m, n})
              /\ \/ m = n /\ AllWell /\ Name(c, "acquiring", m)
                 \/ m = n /\ Happens("lost") /\ UNCHANGED use
                 \/ m # n /\ Happens("lost answer") /\ Name(c, "acquiring", m)
  BY OrderMakes
<1>2. {m, n} \in SUBSET Machines
  BY DEF Fresh
<1>3. \A g \in Machines \ {m, n} : machine'[g] = machine[g]
  BY <1>1, <1>2, MakeTypes DEF IInv
<1>4. use[c].step = "none" /\ use[c].id = NoMachine
  BY DEF MayAcquire, IInv, TypeOK, CallsTypeOK
<1>5. ASSUME NEW g \in Machines, Named(g),
             UNCHANGED use \/ \A d \in CIRs : d # c => use'[d] = use[d]
      PROVE  Named(g)'
  <2>1. PICK d \in CIRs : use[d].id = g
    BY <1>5 DEF Named
  <2>2. d # c
    BY <1>4, <2>1, CallsAssumption
  <2>3. use'[d].id = g
    BY <1>5, <2>1, <2>2
  <2> QED
    BY <2>3 DEF Named
<1>6. CASE UNCHANGED use /\ Happens("lost") /\ m = n
  <2>1. Lost' \subseteq Lost \union {m}
    BY <1>3, <1>5, <1>6 DEF Lost
  <2> QED
    BY <1>6, <2>1
<1>7. CASE Name(c, "acquiring", m)
  <2>1. "acquiring" \in Steps \ {"none"}
    BY DEF Steps
  <2>2. use'[c].id = m /\ \A d \in CIRs : d # c => use'[d] = use[d]
    BY <1>2, <1>7, <2>1, NameTypes DEF IInv
  <2>3. Named(m)'
    BY <2>2 DEF Named
  <2>4. Lost' \subseteq Lost \union {n}
    BY <1>3, <1>5, <2>2, <2>3 DEF Lost
  <2>5. m = n => Lost' \subseteq Lost
    BY <1>3, <1>5, <2>2, <2>3 DEF Lost
  <2> QED
    BY <1>1, <1>7, <2>4, <2>5
<1> QED
  BY <1>1, <1>6, <1>7

(* The bill: every machine that runs and is in nobody's records was left   *)
(* by a result or an answer that was lost, and each of those leaves one.   *)
THEOREM LossesLeak == Spec => []OnlyLossesLeak
<1>1. Init => OnlyLossesLeak
  <2> SUFFICES ASSUME Init PROVE OnlyLossesLeak
    OBVIOUS
  <2>1. Lost = {} /\ mishaps \intersect {"lost", "lost answer"} = {}
    BY DEF Init, CallsInit, Lost
  <2>2. Cardinality({}) = 0 /\ 0 <= 0
    BY FS_EmptySet
  <2> QED
    BY <2>1, <2>2 DEF OnlyLossesLeak
<1>2. IInv /\ OnlyLossesLeak /\ [Next]_vars => OnlyLossesLeak'
  <2> SUFFICES ASSUME IInv, OnlyLossesLeak, [Next]_vars PROVE OnlyLossesLeak'
    OBVIOUS
  <2>1. ASSUME NEW c \in CIRs, AcquireDevice(c) \/ AcquireInstance(c) \/ AcquireServer(c)
        PROVE  OnlyLossesLeak'
    <3>1. MayAcquire(c) /\ Order(c)
      BY <2>1 DEF AcquireDevice, AcquireInstance, AcquireServer, Order
    <3>2. mishaps \subseteq mishaps'
      BY <3>1 DEF Order, OrderOnce, AllWell, Happens
    <3> QED
      BY <3>1, <3>2, OrderLosesOne, LossesCount
  <2>2. ASSUME NEW c \in CIRs,
               \/ DeviceCompleted(c) \/ InstanceCompleted(c) \/ ServerCompleted(c) \/ CleanInstance(c)
               \/ CleanDevice(c) \/ CleanServer(c) \/ UseMachine(c)
               \/ ReleaseDevice(c) \/ ReleaseInstance(c) \/ ReleaseServer(c)
        PROVE  OnlyLossesLeak'
    BY <2>2, CallEffects, CallLosesNothing, LossesCount
  <2>3. ASSUME NEW m \in Machines, BeginInstall(m) \/ FinishInstall(m) \/ FailInstall(m) \/ Purge(m)
        PROVE  OnlyLossesLeak'
    <3>1. /\ mishaps \subseteq mishaps' /\ use' = use
          /\ \A g \in Machines : Up(g)' => Up(g)
      BY <2>3, ProgressEffects
    <3>2. Lost' \subseteq Lost
      BY <3>1 DEF Lost, Up, Named
    <3> QED
      BY <3>1, <3>2, LossesCount
  <2>4. CASE UNCHANGED vars
    BY <2>4 DEF vars, callVars, OnlyLossesLeak, Lost, Named
  <2> QED
    BY <2>1, <2>2, <2>3, <2>4 DEF Next
<1> QED
  BY <1>1, <1>2, InductiveInvariant, PTL DEF Spec

LEMMA CapKept ==
    ASSUME PoolCap, kind' = kind, mishaps \subseteq mishaps',
           \A g \in Machines : Exists(g)' => Exists(g)
    PROVE  PoolCap'
<1>1. SUFFICES ASSUME kind = "equinix", "lost answer" \notin mishaps, NEW p \in Pools
               PROVE  Cardinality(Devices(p)') <= Size[p]
  BY DEF PoolCap
<1>2. Devices(p)' \subseteq Devices(p) /\ Devices(p) \subseteq Machines
  BY DEF Devices
<1>3. /\ Cardinality(Devices(p)') <= Cardinality(Devices(p))
      /\ Cardinality(Devices(p)) \in Nat /\ Cardinality(Devices(p)') \in Nat
  BY <1>2, CloudAssumption, FS_Subset, FS_CardinalityType
<1>4. Cardinality(Devices(p)) <= Size[p] /\ Size[p] \in Nat
  BY <1>1, CloudAssumption DEF PoolCap
<1> QED
  BY <1>3, <1>4

LEMMA CapOrdered ==
    ASSUME IInv, PoolCap, NEW c \in CIRs, AcquireDevice(c)
    PROVE  PoolCap'
<1>1. SUFFICES ASSUME "lost answer" \notin mishaps', NEW p \in Pools
               PROVE  Cardinality(Devices(p)') <= Size[p]
  BY DEF PoolCap
<1>2. /\ kind = "equinix" /\ MayAcquire(c) /\ Order(c)
      /\ Cardinality(Devices(PoolOf[c])) < Size[PoolOf[c]]
  BY DEF AcquireDevice
<1>3. PICK m \in Fresh(PoolOf[c]) : Make({m})
  <2>1. ~Happens("lost answer")
    BY <1>1 DEF Happens
  <2> QED
    BY <1>2, <2>1, OrderMakes
<1>4. m \in Machines /\ TagOf[m] = PoolOf[c]
  BY DEF Fresh
<1>5. "lost answer" \notin mishaps
  BY <1>1, <1>2 DEF Order, OrderOnce, AllWell, Happens
<1>6. \A g \in Machines : g # m => machine'[g] = machine[g]
  BY <1>3, <1>4, MakeTypes DEF IInv
<1>7. Devices(p) \subseteq Machines
  BY DEF Devices
<1>8. IsFiniteSet(Devices(p)) /\ Cardinality(Devices(p)) \in Nat /\ Size[p] \in Nat
  BY <1>7, CloudAssumption, FS_Subset, FS_CardinalityType
<1>9. CASE p = PoolOf[c]
  <2>1. Devices(p)' \subseteq Devices(p) \union {m}
    BY <1>6 DEF Devices, Exists
  <2>2. /\ IsFiniteSet(Devices(p) \union {m})
        /\ \/ Cardinality(Devices(p) \union {m}) = Cardinality(Devices(p))
           \/ Cardinality(Devices(p) \union {m}) = Cardinality(Devices(p)) + 1
    BY <1>8, FS_AddElement
  <2>3. /\ Cardinality(Devices(p)') \in Nat
        /\ Cardinality(Devices(p)') <= Cardinality(Devices(p) \union {m})
    BY <2>1, <2>2, FS_Subset, FS_CardinalityType
  <2>4. Cardinality(Devices(p)) < Size[p]
    BY <1>2, <1>9
  <2> QED
    BY <1>8, <2>2, <2>3, <2>4
<1>10. CASE p # PoolOf[c]
  <2>1. Devices(p)' \subseteq Devices(p)
    BY <1>4, <1>6, <1>10 DEF Devices, Exists
  <2>2. /\ Cardinality(Devices(p)') <= Cardinality(Devices(p))
        /\ Cardinality(Devices(p)') \in Nat
    BY <1>8, <2>1, FS_Subset, FS_CardinalityType
  <2>3. Cardinality(Devices(p)) <= Size[p]
    BY <1>2, <1>5 DEF PoolCap
  <2> QED
    BY <1>8, <2>2, <2>3
<1> QED
  BY <1>9, <1>10

(* The size of a pool caps its devices at Equinix: all of them are counted *)
(* before one is ordered, also those that were lost, and one is ordered at *)
(* a time, unless an order that seemed to have failed was carried out.     *)
THEOREM CapsPools == Spec => []PoolCap
<1>1. Init => PoolCap
  <2>1. ASSUME Init, NEW p \in Pools PROVE Cardinality(Devices(p)) <= Size[p]
    <3>1. Devices(p) = {}
      BY <2>1 DEF Init, Devices, Exists
    <3>2. Cardinality({}) = 0 /\ Size[p] \in Nat
      BY CloudAssumption, FS_EmptySet
    <3> QED
      BY <3>1, <3>2
  <2> QED
    BY <2>1 DEF PoolCap
<1>2. IInv /\ PoolCap /\ [Next]_vars => PoolCap'
  <2> SUFFICES ASSUME IInv, PoolCap, [Next]_vars PROVE PoolCap'
    OBVIOUS
  <2>1. ASSUME NEW c \in CIRs, AcquireInstance(c) \/ AcquireServer(c) PROVE PoolCap'
    BY <2>1 DEF AcquireInstance, AcquireServer, PoolCap
  <2>2. ASSUME NEW c \in CIRs,
               \/ DeviceCompleted(c) \/ InstanceCompleted(c) \/ ServerCompleted(c) \/ CleanInstance(c)
               \/ CleanDevice(c) \/ CleanServer(c) \/ UseMachine(c)
               \/ ReleaseDevice(c) \/ ReleaseInstance(c) \/ ReleaseServer(c)
        PROVE  PoolCap'
    BY <2>2, CallEffects, CapKept
  <2>3. ASSUME NEW m \in Machines, BeginInstall(m) \/ FinishInstall(m) \/ FailInstall(m) \/ Purge(m)
        PROVE  PoolCap'
    BY <2>3, ProgressEffects, CapKept
  <2>4. CASE UNCHANGED vars
    BY <2>4 DEF vars, callVars, PoolCap, Devices, Exists
  <2> QED
    BY <2>1, <2>2, <2>3, <2>4, CapOrdered DEF Next
<1> QED
  BY <1>1, <1>2, InductiveInvariant, PTL DEF Spec

-----------------------------------------------------------------------------
(* The contract.                                                           *)

Inst == [m \in Machines |-> ContractState(m)]

\* What happens to one machine, by the contract.
LEMMA ContractSteps ==
    ASSUME NEW m \in Machines,
           machine \in [Machines -> MachineStates], machine' \in [Machines -> MachineStates],
           \A g \in Machines : g # m => machine'[g] = machine[g]
    PROVE  /\ ~Up(m) => m \in Contract!Acquirable({})
           /\ ~Up(m) /\ machine'[m] = "starting" /\ dirty' = dirty \ {m} => Contract!Acquire(m)
           /\ machine[m] = "active" =>
                 Contract!AcquireCompleted(m) /\ Contract!CleanCompleted(m)
           /\ Up(m) /\ machine'[m] \in {"to install", "installing"} /\ dirty' = dirty
                 => Contract!Clean(m)
           /\ Up(m) => Contract!ReleaseAccepted(m)
           /\ ~Up(m)' /\ dirty' = dirty => Contract!Release(m)
           /\ machine[m] = "starting" /\ machine'[m] = "active" /\ dirty' = dirty
                 => Contract!FinishBuild(m)
           /\ machine[m] = "installing" /\ machine'[m] = "active" /\ dirty' = dirty \ {m}
                 => Contract!FinishClean(m)
           /\ machine[m] \in {"starting", "installing"} /\ machine'[m] = "failed" /\ dirty' = dirty
                 => Contract!Fail(m)
           /\ Up(m) /\ machine'[m] = machine[m] /\ dirty' = dirty \union {m} => Contract!Use(m)
<1>1. /\ \A g \in Machines : g # m => ContractState(g)' = ContractState(g)
      /\ ~Up(m) => ContractState(m) = "absent"
      /\ Up(m) => ContractState(m) # "absent"
      /\ ~Up(m)' => ContractState(m)' = "absent"
      /\ machine[m] = "starting" => ContractState(m) = "building"
      /\ machine[m] = "active" => ContractState(m) = "ready"
      /\ machine[m] \in {"to install", "installing"} => ContractState(m) = "cleaning"
      /\ machine'[m] = "starting" => ContractState(m)' = "building"
      /\ machine'[m] = "active" => ContractState(m)' = "ready"
      /\ machine'[m] = "failed" => ContractState(m)' = "failed"
      /\ machine'[m] \in {"to install", "installing"} => ContractState(m)' = "cleaning"
      /\ machine'[m] = machine[m] => ContractState(m)' = ContractState(m)
  BY DEF ContractState, Up
<1>2. Inst[m] = ContractState(m) /\ \A g \in Machines : Inst'[g] = ContractState(g)'
  BY DEF Inst
<1>3. ASSUME NEW s, s = ContractState(m)' PROVE Inst' = [Inst EXCEPT ![m] = s]
  BY <1>1, <1>3 DEF Inst
<1>4. ~Up(m) => m \in Contract!Acquirable({})
  BY <1>1, <1>2 DEF Contract!Acquirable, Contract!Alive, Inst
<1>5. Up(m) => Contract!Alive(m) /\ Contract!ReleaseAccepted(m)
  BY <1>1, <1>2 DEF Contract!ReleaseAccepted, Contract!Alive, Inst
<1>6. ~Up(m) /\ machine'[m] = "starting" /\ dirty' = dirty \ {m} => Contract!Acquire(m)
  BY <1>1, <1>3 DEF Contract!Acquire, Inst
<1>7. machine[m] = "active" => Contract!AcquireCompleted(m) /\ Contract!CleanCompleted(m)
  BY <1>1, <1>2 DEF Contract!AcquireCompleted, Contract!CleanCompleted, Inst
<1>8. Up(m) /\ machine'[m] \in {"to install", "installing"} /\ dirty' = dirty
        => Contract!Clean(m)
  BY <1>1, <1>3, <1>5 DEF Contract!Clean, Inst
<1>9. ~Up(m)' /\ dirty' = dirty => Contract!Release(m)
  BY <1>1 DEF Contract!Release
<1>10. machine[m] = "starting" /\ machine'[m] = "active" /\ dirty' = dirty
        => Contract!FinishBuild(m)
  BY <1>1, <1>2, <1>3 DEF Contract!FinishBuild, Inst
<1>11. machine[m] = "installing" /\ machine'[m] = "active" /\ dirty' = dirty \ {m}
        => Contract!FinishClean(m)
  BY <1>1, <1>2, <1>3 DEF Contract!FinishClean, Inst
<1>12. machine[m] \in {"starting", "installing"} /\ machine'[m] = "failed" /\ dirty' = dirty
        => Contract!Fail(m)
  BY <1>1, <1>2, <1>3 DEF Contract!Fail, Inst
<1>13. Up(m) /\ machine'[m] = machine[m] /\ dirty' = dirty \union {m} => Contract!Use(m)
  <2>1. SUFFICES ASSUME Up(m), machine'[m] = machine[m], dirty' = dirty \union {m}
                 PROVE  Contract!Use(m)
    OBVIOUS
  <2>2. Inst' = Inst
    BY <1>1, <2>1 DEF Inst
  <2> QED
    BY <1>5, <2>1, <2>2 DEF Contract!Use, Inst
<1> QED
  BY <1>4, <1>5, <1>6, <1>7, <1>8, <1>9, <1>10, <1>11, <1>12, <1>13

\* A step that the contract does not see.
LEMMA Unseen ==
    ASSUME \A g \in Machines : ContractState(g)' = ContractState(g), dirty' = dirty
    PROVE  UNCHANGED Contract!providerVars
<1>1. [g \in Machines |-> ContractState(g)]' = [g \in Machines |-> ContractState(g)]
  OBVIOUS
<1> QED
  BY <1>1 DEF Contract!providerVars

LEMMA NotAnswered ==
    ASSUME NEW d \in CIRs, use'[d] = use[d]
    PROVE  Answered(d)
BY DEF Answered

\* A call changes what is recorded for its CIResource only.
LEMMA CallFrame ==
    ASSUME TypeOK, NEW c \in CIRs,
           \/ Order(c)
           \/ DeviceCompleted(c) \/ InstanceCompleted(c) \/ ServerCompleted(c) \/ CleanInstance(c)
           \/ CleanDevice(c) \/ CleanServer(c) \/ UseMachine(c)
           \/ ReleaseDevice(c) \/ ReleaseInstance(c) \/ ReleaseServer(c)
    PROVE  \A d \in CIRs : d # c => use'[d] = use[d]
<1>1. \/ UNCHANGED use \/ Forget(c)
      \/ \E step \in Steps, m \in Machines \union {use[c].id} : Name(c, step, m)
  <2>1. CASE Order(c)
    <3>1. PICK m \in Fresh(PoolOf[c]) : Name(c, "acquiring", m) \/ UNCHANGED use
      BY <2>1, OrderMakes
    <3> QED
      BY <3>1 DEF Fresh, Steps
  <2>2. CASE ~Order(c)
    BY <2>2 DEF DeviceCompleted, InstanceCompleted, ServerCompleted, CleanInstance, UseMachine,
       ClientUse, CleanDevice, CleanServer, ReleaseDevice, ReleaseInstance, ReleaseServer,
       Recorded, Released, Steps
  <2> QED
    BY <2>1, <2>2
<1>2. ASSUME NEW u, use' = [use EXCEPT ![c] = u], NEW d \in CIRs, d # c PROVE use'[d] = use[d]
  BY <1>2 DEF TypeOK, CallsTypeOK
<1> QED
  BY <1>1, <1>2 DEF Forget, Name

Kept == Contract!ProviderNext \/ UNCHANGED Contract!providerVars

\* AcquireCompleted and CleanCompleted.
LEMMA CompletedKeeps ==
    ASSUME IInv, NEW c \in CIRs,
           DeviceCompleted(c) \/ InstanceCompleted(c) \/ ServerCompleted(c) \/ CleanInstance(c)
    PROVE  Kept /\ Answered(c)
<1> DEFINE m == use[c].id
<1>1. use[c].step # "none" /\ UNCHANGED <<machine, dirty>>
  BY DEF DeviceCompleted, InstanceCompleted, ServerCompleted, CleanInstance, MayComplete, MayClean
<1>2. m \in Machines /\ TypeOK /\ Held(c)
  BY <1>1, InCall DEF IInv, CloudInv
<1>3. ASSUME machine[m] = "active"
      PROVE  Contract!AcquireCompleted(m) /\ Contract!CleanCompleted(m)
  <2>1. ASSUME NEW g \in Machines, machine[g] = "active"
        PROVE  Contract!AcquireCompleted(g) /\ Contract!CleanCompleted(g)
    BY <1>1, <1>2, <2>1, ContractSteps DEF TypeOK
  <2> QED
    BY <1>2, <1>3, <2>1
<1>4. Kept
  BY <1>1, Unseen DEF ContractState, Kept
<1>5. ASSUME NEW step \in Steps \ {"none"}, Name(c, step, m) PROVE use'[c].step = step
  BY <1>2, <1>5, NameTypes
<1>6. "available" \in Steps \ {"none"} /\ "cleaning" \in Steps \ {"none"}
  BY DEF Steps
<1>7. CASE DeviceCompleted(c)
  <2>1. /\ use[c].step \in {"acquiring", "cleaning"} /\ use'[c].step = "available"
        /\ kind = "equinix" /\ machine[m] \in {"active", "to install"}
    BY <1>5, <1>6, <1>7 DEF DeviceCompleted, MayComplete
  <2>2. use[c].step = "acquiring" => machine[m] = "active"
    BY <1>2, <2>1 DEF Held
  <2> QED
    BY <1>3, <1>4, <2>1, <2>2 DEF Answered, NotBegun
<1>8. CASE InstanceCompleted(c) \/ ServerCompleted(c)
  <2>1. /\ use[c].step \in {"acquiring", "cleaning"} /\ use'[c].step = "available"
        /\ machine[m] = "active"
    BY <1>5, <1>6, <1>8 DEF InstanceCompleted, ServerCompleted, Active, MayComplete
  <2> QED
    BY <1>3, <1>4, <2>1 DEF Answered
<1>9. CASE CleanInstance(c)
  <2>1. /\ kind = "aws"
        /\ \/ use[c].step = "in use" /\ c \notin Fallback /\ use'[c].step = "cleaning"
           \/ use[c].step = "cleaning" /\ use'[c].step = "available"
    BY <1>5, <1>6, <1>9 DEF CleanInstance, MayClean
  <2>2. machine[m] = "active"
    BY <1>2, <2>1 DEF Held, Given
  <2> QED
    BY <1>3, <1>4, <2>1, <2>2 DEF Answered, NeverCleaned
<1> QED
  BY <1>7, <1>8, <1>9

\* A client's work.
LEMMA UseKeeps ==
    ASSUME IInv, NEW c \in CIRs, UseMachine(c)
    PROVE  Kept /\ Answered(c)
<1> DEFINE m == use[c].id
<1>1. use[c].step = "available" /\ machine' = machine /\ dirty' = dirty \union {m}
      /\ Name(c, "in use", m)
  BY DEF UseMachine, ClientUse
<1>2. m \in Machines /\ TypeOK /\ Held(c)
  BY <1>1, InCall DEF IInv, CloudInv
<1>3. Up(m)
  BY <1>1, <1>2 DEF Held, Given, Up
<1>4. Contract!Use(m)
  <2>1. ASSUME NEW g \in Machines, g = m PROVE Contract!Use(g)
    BY <1>1, <1>2, <1>3, <2>1, ContractSteps DEF TypeOK
  <2> QED
    BY <1>2, <2>1
<1>5. "in use" \in Steps \ {"none"}
  BY DEF Steps
<1>6. use'[c].step = "in use"
  BY <1>1, <1>2, <1>5, NameTypes
<1> QED
  BY <1>1, <1>2, <1>4, <1>6 DEF Kept, Contract!ProviderNext, Answered

LEMMA CleanKeeps ==
    ASSUME IInv, NEW c \in CIRs, CleanDevice(c) \/ CleanServer(c)
    PROVE  Kept /\ Answered(c)
<1> DEFINE m == use[c].id
<1>1. use[c].step = "in use" /\ dirty' = dirty
  BY DEF CleanDevice, CleanServer, MayClean
<1>2. m \in Machines /\ TypeOK /\ Held(c)
  BY <1>1, InCall DEF IInv, CloudInv
<1>3. Up(m)
  BY <1>1, <1>2 DEF Held, Given, Up
<1>4. PICK state \in {"to install", "installing"} : Becomes(m, state)
  BY DEF CleanDevice, CleanServer
<1>5. Contract!Clean(m)
  <2>1. state \in MachineStates
    BY DEF MachineStates
  <2>2. /\ machine' \in [Machines -> MachineStates] /\ machine'[m] = state
        /\ \A g \in Machines : g # m => machine'[g] = machine[g]
    BY <1>2, <1>4, <2>1, BecomesTypes
  <2>3. ASSUME NEW g \in Machines, g = m PROVE Contract!Clean(g)
    BY <1>1, <1>2, <1>3, <1>4, <2>2, <2>3, ContractSteps DEF TypeOK
  <2> QED
    BY <1>2, <2>3
<1>6. use'[c].step \in {"cleaning", "in use"}
  <2>1. "cleaning" \in Steps \ {"none"}
    BY DEF Steps
  <2>2. Recorded(c, "cleaning") \/ Name(c, "cleaning", m)
    BY DEF CleanDevice, CleanServer
  <2> QED
    BY <1>1, <1>2, <2>1, <2>2, NameTypes, RecordedTypes
<1> QED
  BY <1>1, <1>2, <1>5, <1>6 DEF Kept, Contract!ProviderNext, Answered

LEMMA ReleaseKeeps ==
    ASSUME IInv, NEW c \in CIRs, ReleaseDevice(c) \/ ReleaseInstance(c) \/ ReleaseServer(c)
    PROVE  Kept /\ Answered(c)
<1> DEFINE m == use[c].id
<1>1. use[c].step \in {"available", "releasing", "in use"} /\ dirty' = dirty
  BY DEF ReleaseDevice, ReleaseInstance, ReleaseServer, MayRelease
<1>2. m \in Machines /\ TypeOK /\ Sound(m)
  BY <1>1, InCall DEF IInv, CloudInv
<1>3. PICK state \in {"none", "terminated"} :
             Becomes(m, state) /\ Exists(m) /\ (kind = "aws" => state = "terminated")
  BY DEF ReleaseDevice, ReleaseInstance, ReleaseServer, Described
<1>4. /\ machine' \in [Machines -> MachineStates] /\ machine'[m] = state
      /\ \A g \in Machines : g # m => machine'[g] = machine[g]
  <2>1. state \in MachineStates
    BY DEF MachineStates
  <2> QED
    BY <1>2, <1>3, <2>1, BecomesTypes
<1>5. Contract!Release(m) /\ (Up(m) => Contract!ReleaseAccepted(m))
  <2>1. ASSUME NEW g \in Machines, g = m
        PROVE  Contract!Release(g) /\ (Up(g) => Contract!ReleaseAccepted(g))
    <3>1. ~Up(g)'
      BY <1>4, <2>1 DEF Up
    <3> QED
      BY <1>1, <1>2, <1>4, <2>1, <3>1, ContractSteps DEF TypeOK
  <2> QED
    BY <1>2, <2>1
<1>6. Kept
  <2>1. CASE Up(m)
    BY <1>2, <1>5, <2>1 DEF Kept, Contract!ProviderNext
  <2>2. CASE ~Up(m)
    <3>1. \A g \in Machines : machine'[g] = machine[g]
      BY <1>2, <1>3, <1>4, <2>2 DEF Up, Exists, Sound
    <3> QED
      BY <1>1, <3>1, Unseen DEF ContractState, Kept
  <2> QED
    BY <2>1, <2>2
<1>7. use'[c].step \in {"none", "releasing"}
  <2>1. Released(c)
    BY DEF ReleaseDevice, ReleaseInstance, ReleaseServer
  <2> QED
    BY <1>1, <1>2, <2>1, ReleasedTypes
<1> QED
  BY <1>1, <1>5, <1>6, <1>7 DEF Answered

LEMMA ProgressKeeps ==
    ASSUME IInv, NEW m \in Machines,
           BeginInstall(m) \/ FinishInstall(m) \/ FailInstall(m) \/ Purge(m)
    PROVE  Kept
<1>1. machine \in [Machines -> MachineStates] /\ TypeOK /\ Sound(m)
  BY DEF IInv, TypeOK, CloudInv
<1>2. ASSUME NEW state \in MachineStates, Becomes(m, state)
      PROVE  /\ machine' \in [Machines -> MachineStates] /\ machine'[m] = state
             /\ \A g \in Machines : g # m => machine'[g] = machine[g]
  BY <1>1, <1>2, BecomesTypes
<1>3. CASE BeginInstall(m) \/ Purge(m)
  <2>1. PICK state \in {"installing", "none"} :
               /\ Becomes(m, state) /\ dirty' = dirty
               /\ state = "installing" => machine[m] = "to install"
               /\ state = "none" => machine[m] = "terminated"
    BY <1>3 DEF BeginInstall, Purge, callVars
  <2>2. state \in MachineStates
    BY DEF MachineStates
  <2>3. machine'[m] = state /\ \A g \in Machines : g # m => machine'[g] = machine[g]
    BY <1>2, <2>1, <2>2
  <2>4. \A g \in Machines : ContractState(g)' = ContractState(g)
    BY <2>1, <2>3 DEF ContractState
  <2> QED
    BY <2>1, <2>4, Unseen DEF Kept
<1>4. CASE FinishInstall(m)
  <2>1. /\ machine[m] \in {"starting", "installing"} /\ Becomes(m, "active")
        /\ dirty' = dirty \ {m}
    BY <1>4 DEF FinishInstall
  <2>2. "active" \in MachineStates
    BY DEF MachineStates
  <2>3. machine[m] = "starting" => dirty' = dirty
    BY <1>1, <2>1 DEF Sound
  <2>4. Contract!FinishBuild(m) \/ Contract!FinishClean(m)
    BY <1>1, <1>2, <2>1, <2>2, <2>3, ContractSteps
  <2> QED
    BY <2>4 DEF Kept, Contract!ProviderNext
<1>5. CASE FailInstall(m)
  <2>1. /\ machine[m] \in {"starting", "installing"} /\ Becomes(m, "failed")
        /\ dirty' = dirty
    BY <1>5 DEF FailInstall
  <2>2. "failed" \in MachineStates
    BY DEF MachineStates
  <2>3. Contract!Fail(m)
    BY <1>1, <1>2, <2>1, <2>2, ContractSteps
  <2> QED
    BY <2>3 DEF Kept, Contract!ProviderNext
<1> QED
  BY <1>3, <1>4, <1>5

LEMMA AcquireKeeps ==
    ASSUME IInv, NEW c \in CIRs, use[c].step = "none", Order(c), "lost answer" \notin mishaps'
    PROVE  Kept /\ Answered(c)
<1>1. PICK m \in Fresh(PoolOf[c]) : Make({m}) /\ (Name(c, "acquiring", m) \/ use' = use)
  <2>1. ~Happens("lost answer")
    BY DEF Happens
  <2> QED
    BY <2>1, OrderMakes
<1>2. m \in Machines /\ ~Up(m)
  BY DEF Fresh, Up
<1>3. /\ machine' \in [Machines -> MachineStates] /\ machine'[m] = "starting"
      /\ \A g \in Machines : g # m => machine'[g] = machine[g]
      /\ dirty' = dirty \ {m}
  <2>1. {m} \in SUBSET Machines
    BY <1>2
  <2>2. /\ machine' \in [Machines -> MachineStates]
        /\ \A g \in {m} : machine'[g] = "starting"
        /\ \A g \in Machines \ {m} : machine'[g] = machine[g]
        /\ dirty' = dirty \ {m}
    BY <1>1, <2>1, MakeTypes DEF IInv
  <2> QED
    BY <2>2
<1>4. m \in Contract!Acquirable({}) /\ Contract!Acquire(m)
  BY <1>2, <1>3, ContractSteps DEF IInv, TypeOK
<1>5. "acquiring" \in Steps \ {"none"}
  BY DEF Steps
<1>6. use' = use \/ (use'[c].step = "acquiring" /\ use'[c].id = m)
  BY <1>1, <1>2, <1>5, NameTypes DEF IInv
<1>7. Answered(c)
  BY <1>4, <1>6 DEF Answered
<1> QED
  BY <1>2, <1>4, <1>7 DEF Kept, Contract!ProviderNext

(* All three clouds keep the contract that the reconciler relies on: what  *)
(* they do to a machine, and every answer that AcquireCompleted, Clean,    *)
(* CleanCompleted and Release give for a CIResource, also the repeated and *)
(* the lost ones.  Excepted are Clean of AWS, which removes nothing,       *)
(* CleanCompleted of Equinix for a reinstallation that has not begun, and  *)
(* an order that seemed to have failed and was carried out: then one call  *)
(* makes two machines.                                                     *)
THEOREM CloudsKeepContract == Spec => KeepsContract
<1>1. ASSUME IInv, [Next]_vars, "lost answer" \notin mishaps'
      PROVE  Kept /\ \A d \in CIRs : Answered(d)
  <2>1. ASSUME NEW c \in CIRs, Kept /\ Answered(c),
               \A d \in CIRs : d # c => use'[d] = use[d]
        PROVE  Kept /\ \A d \in CIRs : Answered(d)
    BY <2>1, NotAnswered
  <2>2. ASSUME use' = use, Kept PROVE Kept /\ \A d \in CIRs : Answered(d)
    BY <2>2, NotAnswered
  <2>3. CASE UNCHANGED vars
    <3>1. UNCHANGED <<machine, dirty, use>>
      BY <2>3 DEF vars, callVars
    <3> QED
      BY <2>2, <3>1, Unseen DEF ContractState, Kept
  <2>4. ASSUME NEW c \in CIRs, AcquireDevice(c) \/ AcquireInstance(c) \/ AcquireServer(c)
        PROVE  Kept /\ \A d \in CIRs : Answered(d)
    <3>1. Order(c) /\ use[c].step = "none"
      BY <2>4 DEF AcquireDevice, AcquireInstance, AcquireServer, Order, MayAcquire
    <3>2. \A d \in CIRs : d # c => use'[d] = use[d]
      BY <1>1, <3>1, CallFrame DEF IInv
    <3> QED
      BY <1>1, <2>1, <3>1, <3>2, AcquireKeeps
  <2>5. ASSUME NEW c \in CIRs,
               \/ DeviceCompleted(c) \/ InstanceCompleted(c) \/ ServerCompleted(c) \/ CleanInstance(c)
               \/ CleanDevice(c) \/ CleanServer(c) \/ UseMachine(c)
               \/ ReleaseDevice(c) \/ ReleaseInstance(c) \/ ReleaseServer(c)
        PROVE  Kept /\ \A d \in CIRs : Answered(d)
    <3>1. \A d \in CIRs : d # c => use'[d] = use[d]
      BY <1>1, <2>5, CallFrame DEF IInv
    <3>2. Kept /\ Answered(c)
      BY <1>1, <2>5, CompletedKeeps, UseKeeps, CleanKeeps, ReleaseKeeps
    <3> QED
      BY <2>1, <3>1, <3>2
  <2>6. ASSUME NEW m \in Machines,
               BeginInstall(m) \/ FinishInstall(m) \/ FailInstall(m) \/ Purge(m)
        PROVE  Kept /\ \A d \in CIRs : Answered(d)
    <3>1. use' = use
      BY <2>6 DEF BeginInstall, FinishInstall, FailInstall, Purge, callVars
    <3> QED
      BY <1>1, <2>2, <2>6, <3>1, ProgressKeeps
  <2> QED
    BY <1>1, <2>3, <2>4, <2>5, <2>6 DEF Next
<1>2. IInv /\ [Next]_vars =>
        [ "lost answer" \notin mishaps' =>
              /\ [Contract!ProviderNext]_(Contract!providerVars)
              /\ \A c \in CIRs : Answered(c) ]_vars
  BY <1>1 DEF Kept
<1> QED
  BY <1>2, InductiveInvariant, PTL DEF Spec, KeepsContract
==============================================================================
