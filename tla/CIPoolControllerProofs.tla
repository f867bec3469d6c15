------------------------ MODULE CIPoolControllerProofs ------------------------
(***************************************************************************)
(* Theorems about CIPoolController, for any number of CIResources, pools,  *)
(* sizes and mishaps.                                                      *)
(***************************************************************************)
EXTENDS CIPoolController, FiniteSetTheorems, WellFoundedInduction, TLAPS

-----------------------------------------------------------------------------
(* Counting and numbering.                                                 *)

LEMMA NamesFinite ==
    /\ CIRs \subseteq Nat \ {0}
    /\ Cardinality(CIRs) \in Nat
    /\ \A S \in SUBSET CIRs : /\ IsFiniteSet(S)
                              /\ Cardinality(S) \in Nat
                              /\ Cardinality(S) <= Cardinality(CIRs)
<1>1. IsFiniteSet(CIRs) /\ CIRs = 1..Cardinality(CIRs)
  BY PoolAssumption
<1>2. Cardinality(CIRs) \in Nat
  BY <1>1, FS_CardinalityType
<1>3. CIRs \subseteq Nat \ {0}
  BY <1>1, <1>2
<1>4. \A S \in SUBSET CIRs : /\ IsFiniteSet(S)
                             /\ Cardinality(S) \in Nat
                             /\ Cardinality(S) <= Cardinality(CIRs)
  BY <1>1, FS_Subset, FS_CardinalityType
<1> QED
  BY <1>2, <1>3, <1>4

\* There is a highest numeral.
LEMMA HighestNumeral ==
    /\ getHighestResourceNumeral \in Nat
    /\ getHighestResourceNumeral \in Listed \union {0}
    /\ \A m \in Listed : m <= getHighestResourceNumeral
<1> DEFINE Bounds == { n \in Nat : \A m \in Listed : m <= n }
           less == OpToRel(<, Nat)
<1>1. Listed \subseteq CIRs /\ Listed \subseteq Nat
  BY NamesFinite DEF Listed
<1>2. Cardinality(CIRs) \in Bounds
  BY <1>1, NamesFinite, PoolAssumption
<1>3. PICK n \in Bounds : \A x \in Bounds : <<x, n>> \notin less
  <2>1. IsWellFoundedOn(less, Nat)
    BY NatLessThanWellFounded
  <2>2. Bounds \subseteq Nat /\ Bounds # {}
    BY <1>2
  <2> HIDE DEF Bounds, less
  <2> QED
    BY <2>1, <2>2, WFMin
<1>4. \A x \in Bounds : ~(x < n)
  BY <1>3 DEF OpToRel
<1>5. n \in Listed \union {0}
  <2>1. SUFFICES ASSUME n # 0 PROVE n \in Listed
    OBVIOUS
  <2>2. n - 1 \in Nat /\ n - 1 \notin Bounds
    BY <1>4, <2>1
  <2>3. PICK m \in Listed : ~(m <= n - 1)
    BY <2>2
  <2>4. m <= n /\ m \in Nat
    BY <1>1, <2>3
  <2> QED
    BY <2>3, <2>4
<1>6. \E x \in Listed \union {0} : \A m \in Listed : m <= x
  BY <1>5
<1>7. /\ getHighestResourceNumeral \in Listed \union {0}
      /\ \A m \in Listed : m <= getHighestResourceNumeral
  BY <1>6 DEF getHighestResourceNumeral
<1> QED
  BY <1>1, <1>7

-----------------------------------------------------------------------------
(* Type correctness.                                                       *)

LEMMA SetTypes ==
    ASSUME PhaseTypeOK, NEW c \in CIRs, NEW o \in PhaseObjects, Set(c, o)
    PROVE  PhaseTypeOK'
BY DEF PhaseTypeOK, Set

\* An object is edited.
Edits(c, o) ==
    /\ Set(c, o)
    /\ obj[c].phase # "absent"
    /\ \/ o = Gone /\ obj[c].phase = "delete"
       \/ /\ o.pool = obj[c].pool /\ o.evict = obj[c].evict /\ o.del = obj[c].del
          /\ o.phase # "absent"
          /\ o.phase = "delete" => obj[c].phase = "delete" \/ obj[c].del

LEMMA PhaseEdits ==
    ASSUME PhaseTypeOK, NEW c \in CIRs, obj[c].phase # "absent",
           PhaseStep(c) \/ Acquire(c) \/ Release(c) \/ RequestMaintenance(c)
    PROVE  \E o \in PhaseObjects : Edits(c, o)
<1> DEFINE k == obj[c]
<1>k. k \in PhaseObjects
  BY DEF PhaseTypeOK
<1>1. ASSUME NEW from, NEW to \in Phases, Shift(c, from, to), to # "absent",
             to = "delete" => k.del
      PROVE  \E o \in PhaseObjects : Edits(c, o)
  <2> DEFINE n == [k EXCEPT !.phase = to]
  <2>1. n \in PhaseObjects /\ n.pool = k.pool /\ n.evict = k.evict /\ n.del = k.del /\ n.phase = to
    BY <1>k DEF PhaseObjects
  <2>2. Set(c, n)
    BY <1>1 DEF Shift
  <2> HIDE DEF n
  <2> QED
    BY <1>1, <2>1, <2>2 DEF Edits
<1>2. ASSUME NEW s \in Specs, Set(c, [k EXCEPT !.spec = s])
      PROVE  \E o \in PhaseObjects : Edits(c, o)
  <2> DEFINE n == [k EXCEPT !.spec = s]
  <2>1. n \in PhaseObjects /\ n.pool = k.pool /\ n.evict = k.evict /\ n.del = k.del /\ n.phase = k.phase
    BY <1>k DEF PhaseObjects
  <2>2. Set(c, n)
    BY <1>2
  <2> HIDE DEF n
  <2> QED
    BY <2>1, <2>2 DEF Edits
<1>3. CASE Remove(c)
  <2>1. Gone \in PhaseObjects
    BY DEF Gone, PhaseObjects, Phases, Specs
  <2> QED
    BY <1>3, <2>1 DEF Remove, Edits
<1>4. CASE TakeBack(c) \/ Acquire(c) \/ Release(c) \/ RequestMaintenance(c)
  BY <1>2, <1>4 DEF TakeBack, Acquire, Release, RequestMaintenance, Specs
<1>5. CASE PhaseStep(c) /\ ~Remove(c) /\ ~TakeBack(c)
  BY <1>1, <1>5 DEF PhaseStep, FinishProvisioning, StartUse, ProvisionInUse, StartCleaning,
     FinishCleaning, StartMaintenance, EndMaintenance, StartDeletion, Phases
<1> QED
  BY <1>3, <1>4, <1>5

LEMMA CreateTypes ==
    ASSUME PhaseTypeOK, NEW c \in CIRs, NEW p \in Pools, Create(c, p)
    PROVE  \E o \in PhaseObjects :
              /\ Set(c, o) /\ obj[c].phase = "absent"
              /\ o.phase = "new" /\ o.pool = p /\ o.evict = FALSE /\ o.del = FALSE
<1>1. Gone \in PhaseObjects /\ Gone.evict = FALSE /\ Gone.del = FALSE
  BY DEF Gone, PhaseObjects, Phases, Specs
<1>2. \A g \in PhaseObjects :
        LET n == [g EXCEPT !.phase = "new", !.pool = p] IN
        /\ n \in PhaseObjects
        /\ n.phase = "new" /\ n.pool = p /\ n.evict = g.evict /\ n.del = g.del
  BY DEF PhaseObjects, Phases
<1> QED
  BY <1>1, <1>2 DEF Create

LEMMA PoolTypes ==
    /\ NoPoolObject \in PoolObjects
    /\ \A n \in 0..MaxSize : NewPool(n) \in PoolObjects
    /\ \A o \in PoolObjects :
          /\ [o EXCEPT !.fin = TRUE] \in PoolObjects
          /\ [o EXCEPT !.del = TRUE] \in PoolObjects
          /\ \A n \in 0..MaxSize : [o EXCEPT !.size = n] \in PoolObjects
          /\ \A s \in {"available", "offline"} : [o EXCEPT !.spec = s] \in PoolObjects
          /\ \A s \in {"available", "offline"} : [o EXCEPT !.state = s] \in PoolObjects
          /\ \A n \in 0..Cardinality(CIRs) : [o EXCEPT !.count = n] \in PoolObjects
<1>1. \A n \in 0..MaxSize : NewPool(n) \in PoolObjects
  BY NamesFinite DEF NewPool, PoolObjects
<1>2. 0 \in 0..MaxSize
  BY PoolAssumption
<1>3. \A o \in PoolObjects : [o EXCEPT !.live = FALSE] \in PoolObjects
  BY DEF PoolObjects
<1>4. NoPoolObject \in PoolObjects
  BY <1>1, <1>2, <1>3 DEF NoPoolObject
<1>5. \A o \in PoolObjects :
          /\ [o EXCEPT !.fin = TRUE] \in PoolObjects
          /\ [o EXCEPT !.del = TRUE] \in PoolObjects
          /\ \A n \in 0..MaxSize : [o EXCEPT !.size = n] \in PoolObjects
  BY DEF PoolObjects
<1>6. \A o \in PoolObjects :
          /\ \A s \in {"available", "offline"} : [o EXCEPT !.spec = s] \in PoolObjects
          /\ \A s \in {"available", "offline"} : [o EXCEPT !.state = s] \in PoolObjects
          /\ \A n \in 0..Cardinality(CIRs) : [o EXCEPT !.count = n] \in PoolObjects
  BY DEF PoolObjects
<1> QED
  BY <1>1, <1>4, <1>5, <1>6

LEMMA SaveTypes ==
    ASSUME TypeOK, NEW p \in Pools, NEW o \in PoolObjects, Save(p, o)
    PROVE  /\ pool' \in [Pools -> PoolObjects]
           /\ poolCache' \in [Pools -> PoolObjects]
           /\ poolLatest' \in SUBSET Pools
BY DEF TypeOK, Save

\* The copies and the requests of a reconciliation.
LEMMA StartTypes ==
    ASSUME TypeOK, NEW p \in Pools
    PROVE  /\ TakeCopies => latest' \in SUBSET (Readers \X CIRs)
           /\ Cardinality(ListedOf(p)) \in 0..Cardinality(CIRs)
           /\ poolCache[p].size > Cardinality(ListedOf(p)) /\ StartCreation(p) => work' \in Works
           /\ \A target \in Nat, sorted \in BOOLEAN :
                 target <= Cardinality(ListedOf(p)) /\ StartEviction(p, target, sorted)
                 => work' \in Works
<1>1. ListedOf(p) \in SUBSET CIRs
  BY DEF ListedOf
<1>2. Cardinality(ListedOf(p)) \in 0..Cardinality(CIRs)
  BY <1>1, NamesFinite
<1>3. poolCache[p].size \in Nat
  BY PoolAssumption DEF TypeOK, PoolObjects
<1>4. TakeCopies => latest' \in SUBSET (Readers \X CIRs)
  BY PoolAssumption DEF TypeOK, PhaseTypeOK, TakeCopies
<1>5. ASSUME poolCache[p].size > Cardinality(ListedOf(p)), StartCreation(p)
      PROVE  work' \in Works
  BY <1>2, <1>3, <1>5, HighestNumeral DEF StartCreation, Works
<1>6. ASSUME NEW target \in Nat, NEW sorted \in BOOLEAN,
             target <= Cardinality(ListedOf(p)), StartEviction(p, target, sorted)
      PROVE  work' \in Works
  <2>1. IdleCopies(p) \in SUBSET CIRs
    BY <1>1 DEF IdleCopies
  <2> QED
    BY <1>1, <1>2, <1>6, <2>1 DEF StartEviction, Works
<1> QED
  BY <1>2, <1>4, <1>5, <1>6

LEMMA ReconcileTypeOK ==
    ASSUME TypeOK, NEW p \in Pools, Reconcile(p)
    PROVE  TypeOK'
<1> DEFINE k == poolCache[p]
<1>k. k \in PoolObjects /\ k.size \in Nat
  BY PoolAssumption DEF TypeOK, PoolObjects
<1>1. ASSUME NEW o \in PoolObjects, Save(p, o), UNCHANGED <<phaseVars, seen, work, mishaps>>
      PROVE  TypeOK'
  BY <1>1, SaveTypes DEF TypeOK, PhaseTypeOK, phaseVars
<1>2. CASE AddFinalizer(p)
  BY <1>k, <1>1, <1>2, PoolTypes DEF AddFinalizer
<1>3. CASE EmptyPool(p)
  <2>1. latest' \in SUBSET (Readers \X CIRs) /\ work' \in Works
    <3>1. 0 <= Cardinality(ListedOf(p)) /\ FALSE \in BOOLEAN
      BY StartTypes, NamesFinite
    <3> QED
      BY <1>3, <3>1, StartTypes DEF EmptyPool
  <2> QED
    BY <1>3, <2>1 DEF EmptyPool, TypeOK, PhaseTypeOK, poolVars
<1>4. CASE RemoveFinalizer(p)
  <2>1. mishaps' \in SUBSET Mishaps
    BY <1>4 DEF RemoveFinalizer, Happens, TypeOK
  <2> QED
    BY <1>4, <2>1, SaveTypes, PoolTypes DEF RemoveFinalizer, TypeOK, PhaseTypeOK, phaseVars
<1>5. CASE UpdateState(p)
  <2>1. k.spec \in {"available", "offline"}
    BY <1>k DEF PoolObjects
  <2> QED
    BY <1>k, <1>1, <1>5, <2>1, PoolTypes DEF UpdateState
<1>6. CASE manageCIResourcesFor(p)
  <2> DEFINE n == Cardinality(ListedOf(p))
  <2>1. n \in 0..Cardinality(CIRs) /\ latest' \in SUBSET (Readers \X CIRs)
    BY <1>6, StartTypes DEF manageCIResourcesFor
  <2>2. Save(p, [k EXCEPT !.count = n]) \/ UNCHANGED poolVars
    BY <1>6 DEF manageCIResourcesFor
  <2>3. /\ pool' \in [Pools -> PoolObjects] /\ poolCache' \in [Pools -> PoolObjects]
        /\ poolLatest' \in SUBSET Pools
    BY <1>k, <2>1, <2>2, PoolTypes, SaveTypes DEF TypeOK, poolVars
  <2>4. \/ UNCHANGED work
        \/ k.size > n /\ StartCreation(p)
        \/ k.size < n /\ StartEviction(p, k.size, TRUE)
    BY <1>6 DEF manageCIResourcesFor
  <2>5. k.size < n => k.size <= n
    BY <1>k, <2>1
  <2>6. work' \in Works
    BY <1>k, <2>4, <2>5, StartTypes DEF TypeOK
  <2> QED
    BY <1>6, <2>1, <2>3, <2>6 DEF manageCIResourcesFor, TypeOK, PhaseTypeOK
<1> QED
  BY <1>2, <1>3, <1>4, <1>5, <1>6 DEF Reconcile

LEMMA RequestTypeOK ==
    ASSUME TypeOK, Request \/ Fault
    PROVE  TypeOK'
<1>a. ASSUME work.op = "create", Advance
      PROVE  work' \in Works /\ work.pool \in Pools
  BY <1>a DEF TypeOK, Works, NoWork, Advance
<1> DEFINE Evictions ==
             [op : {"evict"}, todo : SUBSET CIRs, idle : SUBSET CIRs, sorted : BOOLEAN,
              selected : Nat, excess : Nat]
<1>w. \A w \in Evictions :
        /\ \A c : [w EXCEPT !.todo = @ \ {c}, !.idle = @ \ {c}] \in Evictions
        /\ [w EXCEPT !.selected = @ + 1] \in Evictions
  <2>1. SUFFICES ASSUME NEW w \in Evictions
                 PROVE  /\ \A c : [w EXCEPT !.todo = @ \ {c}, !.idle = @ \ {c}] \in Evictions
                        /\ [w EXCEPT !.selected = @ + 1] \in Evictions
    OBVIOUS
  <2>2. w.todo \in SUBSET CIRs /\ w.idle \in SUBSET CIRs /\ w.selected \in Nat
    OBVIOUS
  <2>3. ASSUME NEW c PROVE [w EXCEPT !.todo = @ \ {c}, !.idle = @ \ {c}] \in Evictions
    <3>1. w.todo \ {c} \in SUBSET CIRs /\ w.idle \ {c} \in SUBSET CIRs
      BY <2>2
    <3> QED
      BY <2>1, <3>1
  <2>4. [w EXCEPT !.selected = @ + 1] \in Evictions
    BY <2>2
  <2> HIDE DEF Evictions
  <2> QED
    BY <2>3, <2>4
<1>e. ASSUME work.op = "evict", NEW c
      PROVE  /\ work \in Evictions
             /\ After(c) \in Works
             /\ [After(c) EXCEPT !.selected = @ + 1] \in Works
  <2>1. work \in Evictions
    BY <1>e DEF TypeOK, Works, NoWork
  <2>2. Evictions \subseteq Works
    BY DEF Works
  <2> HIDE DEF Evictions
  <2> QED
    BY <1>w, <2>1, <2>2 DEF After
<1>n. NoWork \in Works
  BY DEF Works
<1>1. CASE createCIResource
  <2>1. work' \in Works /\ work.pool \in Pools
    BY <1>a, <1>1 DEF createCIResource
  <2>2. PhaseTypeOK'
    <3>1. CASE work.next \in CIRs /\ Create(work.next, work.pool)
      BY <2>1, <3>1, CreateTypes, SetTypes DEF TypeOK
    <3>2. CASE UNCHANGED phaseVars
      BY <3>2 DEF TypeOK, PhaseTypeOK, phaseVars
    <3> QED
      BY <1>1, <3>1, <3>2 DEF createCIResource, Create
  <2> QED
    BY <1>1, <2>1, <2>2 DEF createCIResource, TypeOK, poolVars
<1>2. CASE SelectForEviction
  <2>1. PICK c \in NextToEvict :
          \/ /\ Set(c, [obj[c] EXCEPT !.evict = TRUE])
             /\ work' = [After(c) EXCEPT !.selected = @ + 1]
          \/ UNCHANGED phaseVars /\ work' = After(c)
    BY <1>2 DEF SelectForEviction
  <2>2. work.op = "evict"
    BY <1>2 DEF SelectForEviction
  <2>3. work' \in Works /\ c \in CIRs
    BY <1>e, <2>1, <2>2, ZenonT(40) DEF NextToEvict
  <2>4. PhaseTypeOK'
    <3>1. CASE Set(c, [obj[c] EXCEPT !.evict = TRUE])
      <4>1. [obj[c] EXCEPT !.evict = TRUE] \in PhaseObjects
        BY <2>3 DEF TypeOK, PhaseTypeOK, PhaseObjects
      <4> QED
        BY <2>3, <3>1, <4>1, SetTypes DEF TypeOK
    <3>2. CASE UNCHANGED phaseVars
      BY <3>2 DEF TypeOK, PhaseTypeOK, phaseVars
    <3> QED
      BY <2>1, <3>1, <3>2
  <2> QED
    BY <1>2, <2>3, <2>4 DEF SelectForEviction, TypeOK, poolVars
<1>3. CASE DeleteAllOf
  <2>1. \A c \in CIRs : [obj[c] EXCEPT !.del = TRUE] \in PhaseObjects /\ obj[c] \in PhaseObjects
    BY DEF TypeOK, PhaseTypeOK, PhaseObjects
  <2>2. PhaseTypeOK'
    BY <1>3, <2>1 DEF DeleteAllOf, TypeOK, PhaseTypeOK
  <2> QED
    BY <1>n, <1>3, <2>2 DEF DeleteAllOf, TypeOK, poolVars
<1>4. CASE Fault
  <2>1. work' \in Works
    BY <1>a, <1>e, <1>n, <1>4 DEF Fault
  <2>2. mishaps' \in SUBSET Mishaps
    BY <1>4 DEF Fault, Happens, TypeOK
  <2> QED
    BY <1>4, <2>1, <2>2 DEF Fault, TypeOK, PhaseTypeOK, phaseVars, poolVars
<1> QED
  BY <1>1, <1>2, <1>3, <1>4 DEF Request

LEMMA OthersTypeOK ==
    ASSUME TypeOK, External \/ \E c \in CIRs : ReconcileCIR(c) \/ GiveBack(c)
    PROVE  TypeOK'
<1>e. ASSUME NEW c \in CIRs, obj[c].phase # "absent",
             PhaseStep(c) \/ Acquire(c) \/ Release(c) \/ RequestMaintenance(c)
      PROVE  PhaseTypeOK'
  BY <1>e, PhaseEdits, SetTypes DEF TypeOK, Edits
<1>d. ASSUME NEW c \in CIRs, Delete(c)
      PROVE  PhaseTypeOK'
  <2>1. [obj[c] EXCEPT !.del = TRUE] \in PhaseObjects /\ Gone \in PhaseObjects
    BY DEF TypeOK, PhaseTypeOK, PhaseObjects, Gone, Phases, Specs
  <2> QED
    BY <1>d, <2>1, SetTypes DEF Delete, TypeOK
<1>1. CASE External
  <2>1. mishaps' \in SUBSET Mishaps
    BY <1>1 DEF External, Happens, TypeOK
  <2>2. ASSUME NEW p \in Pools, NEW o \in PoolObjects, EditPool(p, o)
        PROVE  TypeOK'
    BY <1>1, <2>1, <2>2 DEF External, EditPool, TypeOK, PhaseTypeOK, phaseVars
  <2>3. ASSUME PhaseTypeOK', UNCHANGED poolVars
        PROVE  TypeOK'
    BY <1>1, <2>1, <2>3 DEF External, TypeOK, poolVars
  <2>4. \A p \in Pools : pool[p] \in PoolObjects
    BY DEF TypeOK
  <2>5. CASE \E p \in Pools, n \in 0..MaxSize : EditPool(p, [pool[p] EXCEPT !.size = n])
    BY <2>2, <2>4, <2>5, PoolTypes
  <2>6. CASE \E p \in Pools, s \in {"available", "offline"} : EditPool(p, [pool[p] EXCEPT !.spec = s])
    BY <2>2, <2>4, <2>6, PoolTypes
  <2>7. CASE \E p \in Pools :
                EditPool(p, IF pool[p].fin THEN [pool[p] EXCEPT !.del = TRUE] ELSE NoPoolObject)
    BY <2>2, <2>4, <2>7, PoolTypes
  <2>8. CASE \E c \in CIRs : EditCIR(Delete(c))
    BY <1>d, <2>3, <2>8 DEF EditCIR
  <2>9. CASE \E c \in CIRs : EditCIR(Acquire(c))
    <3>1. PICK c \in CIRs : Acquire(c) /\ UNCHANGED poolVars
      BY <2>9 DEF EditCIR
    <3>2. obj[c].phase # "absent"
      BY <3>1 DEF Acquire
    <3> QED
      BY <1>e, <2>3, <3>1, <3>2
  <2>10. CASE \E c \in CIRs : obj[c].spec = "free" /\ EditCIR(RequestMaintenance(c))
    <3>1. PICK c \in CIRs : RequestMaintenance(c) /\ UNCHANGED poolVars
      BY <2>10 DEF EditCIR
    <3>2. obj[c].phase # "absent"
      BY <3>1 DEF RequestMaintenance
    <3> QED
      BY <1>e, <2>3, <3>1, <3>2
  <2> QED
    BY <1>1, <2>5, <2>6, <2>7, <2>8, <2>9, <2>10 DEF External
<1>2. ASSUME NEW c \in CIRs, ReconcileCIR(c) PROVE TypeOK'
  BY <1>2, <1>e DEF ReconcileCIR, TypeOK, poolVars
<1>3. ASSUME NEW c \in CIRs, GiveBack(c) PROVE TypeOK'
  <2>1. obj[c].phase # "absent"
    BY <1>3 DEF GiveBack, Release
  <2> QED
    BY <1>3, <1>e, <2>1 DEF GiveBack, TypeOK, poolVars
<1> QED
  BY <1>1, <1>2, <1>3

LEMMA NextTypeOK ==
    ASSUME TypeOK, [Next]_vars
    PROVE  TypeOK'
<1>1. CASE SyncPools
  BY <1>1 DEF SyncPools, TypeOK, PhaseTypeOK, phaseVars
<1>2. CASE SyncCIRs
  <2>1. \A c \in CIRs : obj[c].pool \in Pools \union {NoPool}
    BY DEF TypeOK, PhaseTypeOK, PhaseObjects
  <2>2. Informer \in Readers
    BY PoolAssumption
  <2> QED
    BY <1>2, <2>1, <2>2 DEF SyncCIRs, TypeOK, PhaseTypeOK, poolVars
<1>3. CASE UNCHANGED vars
  BY <1>3 DEF vars, phaseVars, poolVars, TypeOK, PhaseTypeOK
<1> QED
  BY <1>1, <1>2, <1>3, ReconcileTypeOK, RequestTypeOK, OthersTypeOK DEF Next

LEMMA InitTypeOK == Init => TypeOK
<1> SUFFICES ASSUME Init PROVE TypeOK
  OBVIOUS
<1>1. Gone \in PhaseObjects
  BY DEF Gone, PhaseObjects, Phases, Specs
<1>2. PhaseTypeOK
  BY <1>1 DEF Init, PhaseInit, PhaseTypeOK
<1>3. NoWork \in Works
  BY DEF Works
<1>4. { NewPool(n) : n \in 0..MaxSize } \subseteq PoolObjects
  BY PoolTypes
<1>5. pool \in [Pools -> PoolObjects]
  BY <1>4 DEF Init
<1> QED
  BY <1>2, <1>3, <1>5, PoolTypes DEF Init, TypeOK

(* Pools, CIResources and the requests of the reconciler always have the   *)
(* shape the others are built on; the next numeral in particular is        *)
(* defined, whatever the lists have missed.                                *)
THEOREM TypeCorrect == Spec => []TypeOK
<1> QED
  BY InitTypeOK, NextTypeOK, PTL DEF Spec

-----------------------------------------------------------------------------
(* Every object keeps to CIResourcePhases.                                 *)

\* An object that does not exist has no label, no client and no pool.
AbsentIsGone == \A c \in CIRs : obj[c].phase = "absent" => obj[c] = Gone

\* Of an object that has not changed since it was listed, the copy tells the truth.
IdleRight ==
    work.op = "evict" =>
        \A c \in work.idle : HasLatest(PoolReconciler, c) => c \in CIRs /\ Evictable(c)

\* What happens to an object, seen on its own.
LEMMA SetOne ==
    ASSUME TypeOK, NEW c \in CIRs, NEW o, Set(c, o)
    PROVE  /\ One(c)!Set(c, o)
           /\ \A d \in CIRs \ {c} : UNCHANGED One(d)!phaseVars
<1>1. /\ obj' = [obj EXCEPT ![c] = o]
      /\ obj' \in [CIRs -> {obj'[x] : x \in CIRs}]
  BY DEF Set, TypeOK, PhaseTypeOK
<1>2. [x \in {c} |-> obj[x]]' = [[x \in {c} |-> obj[x]] EXCEPT ![c] = o]
  BY <1>1 DEF TypeOK, PhaseTypeOK
<1>3. \A d \in CIRs \ {c} : [x \in {d} |-> obj[x]]' = [x \in {d} |-> obj[x]]
  BY <1>1 DEF TypeOK, PhaseTypeOK
<1> QED
  BY <1>2, <1>3 DEF One!Set, One!phaseVars

\* Whoever changes an object does so as CIResourcePhases says.
LEMMA StepOne ==
    ASSUME TypeOK, NEW c \in CIRs,
           \/ PhaseStep(c) \/ Acquire(c) \/ Release(c) \/ RequestMaintenance(c)
           \/ Evict(c) \/ Delete(c) \/ \E p \in Pools : Create(c, p)
    PROVE  /\ One(c)!PhaseNext
           /\ \A d \in CIRs \ {c} : UNCHANGED One(d)!phaseVars
<1> DEFINE one == [x \in {c} |-> obj[x]]
<1>1. one[c] = obj[c] /\ Gone = One(c)!Gone
  BY DEF Gone, One!Gone
<1>2. \A o : Set(c, o) => obj'[c] = o
  BY DEF Set, TypeOK, PhaseTypeOK
<1>f. ASSUME Set(c, [obj[c] EXCEPT !.evict = TRUE])
      PROVE  One(c)!Set(c, [one[c] EXCEPT !.evict = TRUE])
  <2>1. one' = [one EXCEPT ![c] = [one[c] EXCEPT !.evict = TRUE]]
    BY <1>2, <1>f
  <2> QED
    BY <2>1 DEF One!Set
<1>d. ASSUME Set(c, [obj[c] EXCEPT !.del = TRUE])
      PROVE  One(c)!Set(c, [one[c] EXCEPT !.del = TRUE])
  <2>1. one' = [one EXCEPT ![c] = [one[c] EXCEPT !.del = TRUE]]
    BY <1>2, <1>d
  <2> QED
    BY <2>1 DEF One!Set
<1>g. ASSUME Set(c, Gone)
      PROVE  One(c)!Set(c, One(c)!Gone)
  BY <1>g, <1>1, SetOne
<1>3. ASSUME NEW from, NEW to, Shift(c, from, to)
      PROVE  One(c)!Shift(c, from, to)
  <2>1. one' = [one EXCEPT ![c] = [one[c] EXCEPT !.phase = to]]
    BY <1>2, <1>3 DEF Shift
  <2> QED
    BY <1>1, <1>3, <2>1 DEF Shift, One!Shift, One!Set
<1>4. PhaseStep(c) => One(c)!PhaseStep(c)
  <2>1. FinishProvisioning(c) => One(c)!FinishProvisioning(c)
    BY <1>3 DEF FinishProvisioning, One!FinishProvisioning
  <2>2. StartUse(c) => One(c)!StartUse(c)
    BY <1>1, <1>3 DEF StartUse, One!StartUse
  <2>3. ProvisionInUse(c) => One(c)!ProvisionInUse(c)
    BY <1>1, <1>3 DEF ProvisionInUse, One!ProvisionInUse
  <2>4. ASSUME TakeBack(c) PROVE One(c)!TakeBack(c)
    <3>1. one' = [one EXCEPT ![c] = [one[c] EXCEPT !.spec = "free"]]
      BY <1>2, <2>4 DEF TakeBack
    <3> QED
      BY <1>1, <2>4, <3>1 DEF TakeBack, One!TakeBack, One!Set
  <2>5. StartCleaning(c) => One(c)!StartCleaning(c)
    BY <1>1, <1>3 DEF StartCleaning, One!StartCleaning
  <2>6. FinishCleaning(c) => One(c)!FinishCleaning(c)
    BY <1>3 DEF FinishCleaning, One!FinishCleaning
  <2>7. StartMaintenance(c) => One(c)!StartMaintenance(c)
    BY <1>1, <1>3 DEF StartMaintenance, One!StartMaintenance
  <2>8. EndMaintenance(c) => One(c)!EndMaintenance(c)
    BY <1>1, <1>3 DEF EndMaintenance, One!EndMaintenance
  <2>9. StartDeletion(c) => One(c)!StartDeletion(c)
    BY <1>1, <1>3 DEF StartDeletion, One!StartDeletion
  <2>10. Remove(c) => One(c)!Remove(c)
    BY <1>1, <1>g DEF Remove, One!Remove
  <2> QED
    BY <2>1, <2>2, <2>3, <2>4, <2>5, <2>6, <2>7, <2>8, <2>9, <2>10
    DEF PhaseStep, One!PhaseStep
<1>5. ASSUME Acquire(c) PROVE One(c)!Acquire(c)
  <2>1. one' = [one EXCEPT ![c] = [one[c] EXCEPT !.spec = "in use"]]
    BY <1>2, <1>5 DEF Acquire
  <2> QED
    BY <1>1, <1>5, <2>1 DEF Acquire, One!Acquire, One!Set
<1>6. ASSUME Release(c) PROVE One(c)!Release(c)
  <2>1. one' = [one EXCEPT ![c] = [one[c] EXCEPT !.spec = "free"]]
    BY <1>2, <1>6 DEF Release
  <2> QED
    BY <1>1, <1>6, <2>1 DEF Release, One!Release, One!Set
<1>7. ASSUME RequestMaintenance(c) PROVE One(c)!RequestMaintenance(c)
  <2>1. one' = [one EXCEPT ![c] = [one[c] EXCEPT !.spec = "maintenance"]]
    BY <1>2, <1>7 DEF RequestMaintenance
  <2> QED
    BY <1>1, <1>7, <2>1 DEF RequestMaintenance, One!RequestMaintenance, One!Set
<1>8. Evict(c) => One(c)!Evict(c)
  BY <1>1, <1>f DEF Evict, Evictable, One!Evict, One!Evictable
<1>9. Delete(c) => One(c)!Delete(c)
  BY <1>1, <1>d, <1>g DEF Delete, One!Delete
<1>10. \A p \in Pools : Create(c, p) => One(c)!Create(c, p)
  BY <1>1, SetOne DEF Create, One!Create
<1>11. One(c)!PhaseNext
  BY <1>4, <1>5, <1>6, <1>7, <1>8, <1>9, <1>10 DEF One!PhaseNext
<1>12. \E o : Set(c, o)
  BY DEF PhaseStep, FinishProvisioning, StartUse, ProvisionInUse, TakeBack, StartCleaning,
     FinishCleaning, StartMaintenance, EndMaintenance, StartDeletion, Remove, Shift,
     Acquire, Release, RequestMaintenance, Evict, Delete, Create
<1> QED
  BY <1>11, <1>12, SetOne

\* DeleteAllOf deletes many objects at once, each by itself.
LEMMA DeleteAllOne ==
    ASSUME TypeOK, AbsentIsGone, DeleteAllOf, NEW c \in CIRs
    PROVE  [One(c)!PhaseNext]_(One(c)!phaseVars)
<1> DEFINE one == [x \in {c} |-> obj[x]]
<1>1. obj'[c] = IF obj[c].evict /\ ~obj[c].del THEN [obj[c] EXCEPT !.del = TRUE] ELSE obj[c]
  BY DEF DeleteAllOf
<1>2. CASE obj[c].evict /\ ~obj[c].del
  <2>1. one' = [one EXCEPT ![c] = [one[c] EXCEPT !.del = TRUE]]
    BY <1>1, <1>2
  <2>2. obj[c].phase # "absent"
    BY <1>2 DEF AbsentIsGone, Gone
  <2>3. One(c)!Set(c, [one[c] EXCEPT !.del = TRUE])
    BY <2>1 DEF One!Set
  <2>4. One(c)!Delete(c)
    BY <1>2, <2>2, <2>3 DEF One!Delete
  <2> QED
    BY <2>4 DEF One!PhaseNext
<1>3. CASE ~(obj[c].evict /\ ~obj[c].del)
  BY <1>1, <1>3 DEF One!phaseVars
<1> QED
  BY <1>2, <1>3

\* The changes of objects, by one actor or the other.
LEMMA NextChanges ==
    ASSUME TypeOK, IdleRight, [Next]_vars
    PROVE  \/ UNCHANGED obj
           \/ \E c \in CIRs :
                \/ PhaseStep(c) \/ Acquire(c) \/ Release(c) \/ RequestMaintenance(c)
                \/ Evict(c) \/ Delete(c) \/ \E p \in Pools : Create(c, p)
           \/ DeleteAllOf
<1>1. ASSUME NEW p \in Pools, Reconcile(p) PROVE UNCHANGED obj
  BY <1>1 DEF Reconcile, AddFinalizer, EmptyPool, RemoveFinalizer, UpdateState,
     manageCIResourcesFor, phaseVars
<1>2. CASE createCIResource
  <2>1. work.op = "create" => work.pool \in Pools
    BY DEF TypeOK, Works, NoWork
  <2> QED
    BY <1>2, <2>1 DEF createCIResource, Create, phaseVars
<1>3. CASE SelectForEviction
  <2>1. \/ UNCHANGED obj
        \/ \E c \in work.idle :
             /\ HasLatest(PoolReconciler, c)
             /\ Set(c, [obj[c] EXCEPT !.evict = TRUE])
    BY <1>3 DEF SelectForEviction, phaseVars
  <2>2. work.op = "evict"
    BY <1>3 DEF SelectForEviction
  <2> QED
    BY <2>1, <2>2 DEF IdleRight, Evict
<1>4. CASE Fault \/ SyncPools \/ SyncCIRs \/ UNCHANGED vars
  BY <1>4 DEF Fault, SyncPools, SyncCIRs, vars, phaseVars
<1>5. CASE External \/ \E c \in CIRs : ReconcileCIR(c) \/ GiveBack(c)
  BY <1>5 DEF External, EditPool, EditCIR, ReconcileCIR, GiveBack, phaseVars
<1> QED
  BY <1>1, <1>2, <1>3, <1>4, <1>5 DEF Next, Request

LEMMA NextAbsent ==
    ASSUME TypeOK, AbsentIsGone, IdleRight, [Next]_vars
    PROVE  AbsentIsGone'
<1>s. ASSUME NEW c \in CIRs, NEW o, Set(c, o), o.phase = "absent" => o = Gone
      PROVE  AbsentIsGone'
  BY <1>s DEF Set, TypeOK, PhaseTypeOK, AbsentIsGone
<1>1. ASSUME NEW c \in CIRs, PhaseStep(c) \/ Acquire(c) \/ Release(c) \/ RequestMaintenance(c)
      PROVE  AbsentIsGone'
  <2>1. obj[c].phase # "absent"
    BY <1>1 DEF AbsentIsGone, Gone, PhaseStep, FinishProvisioning, StartUse, ProvisionInUse,
       TakeBack, StartCleaning, FinishCleaning, StartMaintenance, EndMaintenance, StartDeletion,
       Remove, Shift, Acquire, Release, RequestMaintenance
  <2>2. PICK o \in PhaseObjects : Edits(c, o)
    BY <1>1, <2>1, PhaseEdits DEF TypeOK
  <2> QED
    BY <1>s, <2>2 DEF Edits
<1>2. ASSUME NEW c \in CIRs, Evict(c) \/ Delete(c)
      PROVE  AbsentIsGone'
  <2>1. /\ obj[c].phase # "absent"
        /\ \/ Set(c, [obj[c] EXCEPT !.evict = TRUE])
           \/ Set(c, [obj[c] EXCEPT !.del = TRUE])
           \/ Set(c, Gone)
    BY <1>2 DEF Evict, Evictable, Delete
  <2>2. /\ [obj[c] EXCEPT !.evict = TRUE].phase = obj[c].phase
        /\ [obj[c] EXCEPT !.del = TRUE].phase = obj[c].phase
    BY DEF TypeOK, PhaseTypeOK, PhaseObjects
  <2> QED
    BY <1>s, <2>1, <2>2
<1>3. ASSUME NEW c \in CIRs, NEW p \in Pools, Create(c, p)
      PROVE  AbsentIsGone'
  BY <1>3, <1>s, CreateTypes DEF TypeOK
<1>4. CASE DeleteAllOf
  <2>1. \A c \in CIRs : [obj[c] EXCEPT !.del = TRUE].phase = obj[c].phase
    BY DEF TypeOK, PhaseTypeOK, PhaseObjects
  <2>2. ASSUME NEW c \in CIRs, obj'[c].phase = "absent"
        PROVE  obj'[c] = Gone
    <3>1. obj'[c] = IF obj[c].evict /\ ~obj[c].del THEN [obj[c] EXCEPT !.del = TRUE] ELSE obj[c]
      BY <1>4 DEF DeleteAllOf
    <3>2. obj[c] = Gone /\ Gone.evict = FALSE
      BY <2>1, <2>2, <3>1 DEF AbsentIsGone, Gone
    <3> QED
      BY <3>1, <3>2
  <2> QED
    BY <2>2 DEF AbsentIsGone
<1>5. CASE UNCHANGED obj
  BY <1>5 DEF AbsentIsGone
<1> QED
  BY <1>1, <1>2, <1>3, <1>4, <1>5, NextChanges

\* A write makes the copies of one object old, and the others still tell the truth.
LEMMA SetIdle ==
    ASSUME TypeOK, IdleRight, NEW c, NEW o, Set(c, o),
           work'.op = "evict" => work.op = "evict" /\ work'.idle \subseteq work.idle
    PROVE  IdleRight'
<1> SUFFICES ASSUME work'.op = "evict", NEW d \in work'.idle, HasLatest(PoolReconciler, d)'
             PROVE  d \in CIRs /\ Evictable(d)'
  BY DEF IdleRight
<1>1. d # c /\ HasLatest(PoolReconciler, d)
  BY DEF Set, HasLatest
<1>2. d \in CIRs /\ Evictable(d)
  BY <1>1 DEF IdleRight
<1>3. obj'[d] = obj[d]
  BY <1>1, <1>2 DEF Set, TypeOK, PhaseTypeOK
<1> QED
  BY <1>2, <1>3 DEF Evictable

\* What is decided on a list of the informer.
LEMMA StartIdle ==
    ASSUME NEW p \in Pools, NEW target, NEW sorted, TakeCopies, UNCHANGED obj,
           StartEviction(p, target, sorted)
    PROVE  IdleRight'
<1> SUFFICES ASSUME NEW c \in work'.idle, HasLatest(PoolReconciler, c)'
             PROVE  c \in CIRs /\ Evictable(c)'
  BY DEF IdleRight
<1>1. c \in IdleCopies(p)
  BY DEF StartEviction
<1> QED
  BY <1>1 DEF IdleCopies, ListedOf, Evictable

LEMMA NextIdle ==
    ASSUME TypeOK, IdleRight, [Next]_vars
    PROVE  IdleRight'
<1>s. ASSUME UNCHANGED phaseVars,
             work'.op = "evict" => work.op = "evict" /\ work'.idle \subseteq work.idle
      PROVE  IdleRight'
  BY <1>s DEF IdleRight, HasLatest, Evictable, phaseVars
<1>n. NoWork.op = "none"
  BY DEF NoWork
<1>a. ASSUME Advance, work.op = "create"
      PROVE  work'.op # "evict"
  BY <1>a, <1>n DEF Advance, TypeOK, Works
<1>e. ASSUME NEW c, work.op = "evict"
      PROVE  /\ After(c).op = "evict" /\ After(c).idle \subseteq work.idle
             /\ [After(c) EXCEPT !.selected = @ + 1].op = "evict"
             /\ [After(c) EXCEPT !.selected = @ + 1].idle \subseteq work.idle
  <2>1. work \in [op : {"evict"}, todo : SUBSET CIRs, idle : SUBSET CIRs, sorted : BOOLEAN,
                  selected : Nat, excess : Nat]
    BY <1>e, <1>n DEF TypeOK, Works
  <2> QED
    BY <2>1 DEF After
<1>1. ASSUME NEW p \in Pools, Reconcile(p) PROVE IdleRight'
  <2>1. CASE AddFinalizer(p) \/ RemoveFinalizer(p) \/ UpdateState(p)
    BY <1>s, <2>1 DEF AddFinalizer, RemoveFinalizer, UpdateState
  <2>2. CASE EmptyPool(p)
    BY <2>2, StartIdle DEF EmptyPool
  <2>3. CASE manageCIResourcesFor(p)
    <3>1. CASE work' = work \/ StartCreation(p)
      <4>1. work'.op # "evict"
        BY <1>n, <2>3, <3>1 DEF manageCIResourcesFor, Managed, Reconciling, StartCreation
      <4> QED
        BY <4>1 DEF IdleRight
    <3>2. CASE StartEviction(p, poolCache[p].size, TRUE)
      BY <2>3, <3>2, StartIdle DEF manageCIResourcesFor
    <3> QED
      BY <2>3, <3>1, <3>2 DEF manageCIResourcesFor
  <2> QED
    BY <1>1, <2>1, <2>2, <2>3 DEF Reconcile
<1>2. CASE createCIResource
  <2>1. work'.op # "evict"
    BY <1>2, <1>a DEF createCIResource
  <2> QED
    BY <2>1 DEF IdleRight
<1>3. CASE SelectForEviction
  <2>1. PICK c \in NextToEvict :
          \/ /\ Set(c, [obj[c] EXCEPT !.evict = TRUE])
             /\ work' = [After(c) EXCEPT !.selected = @ + 1]
          \/ UNCHANGED phaseVars /\ work' = After(c)
    BY <1>3 DEF SelectForEviction
  <2>2. work.op = "evict" /\ work'.op = "evict" /\ work'.idle \subseteq work.idle
    BY <1>3, <1>e, <2>1 DEF SelectForEviction
  <2> QED
    BY <1>s, <2>1, <2>2, SetIdle
<1>4. CASE DeleteAllOf
  BY <1>4, <1>n DEF DeleteAllOf, IdleRight
<1>5. CASE Fault
  <2>1. work'.op = "evict" => work.op = "evict" /\ work'.idle \subseteq work.idle
    BY <1>5, <1>a, <1>e, <1>n DEF Fault
  <2> QED
    BY <1>5, <1>s, <2>1 DEF Fault
<1>6. CASE SyncPools \/ UNCHANGED vars
  BY <1>6, <1>s DEF SyncPools, vars
<1>7. CASE SyncCIRs
  <2>1. /\ UNCHANGED <<obj, work>>
        /\ \A c : HasLatest(PoolReconciler, c)' => HasLatest(PoolReconciler, c)
    BY <1>7 DEF SyncCIRs, HasLatest, Informer, PoolReconciler
  <2> QED
    BY <2>1 DEF IdleRight, Evictable
<1>8. ASSUME UNCHANGED work, NEW c \in CIRs,
             \/ PhaseStep(c) \/ Acquire(c) \/ Release(c) \/ RequestMaintenance(c) \/ Delete(c)
      PROVE  IdleRight'
  <2>1. \E o : Set(c, o)
    BY <1>8 DEF PhaseStep, FinishProvisioning, StartUse, ProvisionInUse, TakeBack, StartCleaning,
       FinishCleaning, StartMaintenance, EndMaintenance, StartDeletion, Remove, Shift,
       Acquire, Release, RequestMaintenance, Delete
  <2> QED
    BY <1>8, <2>1, SetIdle
<1>9. ASSUME NEW c \in CIRs, ReconcileCIR(c) \/ GiveBack(c) PROVE IdleRight'
  BY <1>8, <1>9 DEF ReconcileCIR, GiveBack
<1>10. CASE External
  <2>1. UNCHANGED work
    BY <1>10 DEF External
  <2>2. CASE \E p \in Pools : \E o : EditPool(p, o)
    BY <1>s, <2>1, <2>2 DEF EditPool
  <2>3. CASE \E c \in CIRs : Delete(c) \/ Acquire(c) \/ RequestMaintenance(c)
    BY <1>8, <2>1, <2>3
  <2> QED
    BY <1>10, <2>2, <2>3 DEF External, EditCIR
<1> QED
  BY <1>1, <1>2, <1>3, <1>4, <1>5, <1>6, <1>7, <1>9, <1>10 DEF Next, Request

(* What the reconciler does to CIResources is what CIResourcePhases allows *)
(* others to do in one step, although it decides on the copies of a list   *)
(* and the API server looks at versions only: the copy of an object that   *)
(* has not changed since still tells whether it is idle, so no other is    *)
(* labelled; a name that is taken is refused; and DeleteAllOf deletes each *)
(* labelled object by itself.                                              *)
THEOREM EachRespectsPhases == Spec => RespectsPhases
<1> DEFINE Each == \A c \in CIRs : [One(c)!PhaseNext]_(One(c)!phaseVars)
<1>1. Init => AbsentIsGone /\ IdleRight
  BY DEF Init, PhaseInit, AbsentIsGone, IdleRight, NoWork
<1>2. TypeOK /\ AbsentIsGone /\ IdleRight /\ [Next]_vars => AbsentIsGone' /\ IdleRight'
  BY NextAbsent, NextIdle
<1>3. TypeOK /\ AbsentIsGone /\ IdleRight /\ [Next]_vars => [Each]_vars
  <2>1. SUFFICES ASSUME TypeOK, AbsentIsGone, IdleRight, [Next]_vars
                 PROVE  Each
    OBVIOUS
  <2>2. ASSUME UNCHANGED obj PROVE Each
    BY <2>2 DEF One!phaseVars
  <2>3. ASSUME NEW c \in CIRs,
               \/ PhaseStep(c) \/ Acquire(c) \/ Release(c) \/ RequestMaintenance(c)
               \/ Evict(c) \/ Delete(c) \/ \E p \in Pools : Create(c, p)
        PROVE  Each
    <3>1. One(c)!PhaseNext /\ \A d \in CIRs \ {c} : UNCHANGED One(d)!phaseVars
      BY <2>1, <2>3, StepOne
    <3>2. ASSUME NEW d \in CIRs PROVE [One(d)!PhaseNext]_(One(d)!phaseVars)
      <4>1. CASE d = c
        BY <3>1, <4>1
      <4>2. CASE d # c
        BY <3>1, <4>2
      <4> QED
        BY <4>1, <4>2
    <3> QED
      BY <3>2
  <2>4. ASSUME DeleteAllOf PROVE Each
    BY <2>1, <2>4, DeleteAllOne
  <2> QED
    BY <2>1, <2>2, <2>3, <2>4, NextChanges
<1> QED
  BY <1>1, <1>2, <1>3, TypeCorrect, PTL DEF Spec, RespectsPhases

-----------------------------------------------------------------------------
(* No surplus.                                                             *)

\* No numeral is freed and no request fails.
Undisturbed == mishaps \intersect {"resize", "delete", "delete pool", "fault"} = {}

\* A pool has the size it was created with, and the informer's copy says so.
PoolsFixed ==
    \A p \in Pools :
        /\ pool[p].live /\ ~pool[p].del
        /\ poolCache[p].live => ~poolCache[p].del /\ poolCache[p].size = pool[p].size

\* CIResources stay, and stay where they are.
ObjectsStay ==
    \A c \in CIRs :
        /\ obj[c].phase = "absent" <=> obj[c].pool = NoPool
        /\ ~obj[c].evict /\ ~obj[c].del /\ obj[c].phase # "delete"
        /\ seen[c] # NoPool => seen[c] = obj[c].pool

Existing == { c \in CIRs : obj[c].phase # "absent" }
OwnBelow(p, n) == { c \in CIRsOf(p) : c < n }
Initial(S) == \A c \in S, d \in CIRs : d <= c => d \in S

\* The names in use are those from 1 on: the next one is free, or skipped.
NamesInitial == Initial(Existing) /\ Initial(Listed)

\* Those still to be created fit in the pool.
BatchFits ==
    /\ work.op # "evict"
    /\ work.op = "create" =>
          /\ work.next <= work.last
          /\ \A d \in CIRs : d < work.next => d \in Existing
          /\ Cardinality(OwnBelow(work.pool, work.next)) + (work.last - work.next) + 1
                <= pool[work.pool].size

SizeKept == \A p \in Pools : Cardinality(CIRsOf(p)) <= pool[p].size

InOrder == PoolsFixed /\ ObjectsStay /\ NamesInitial /\ BatchFits /\ SizeKept

SurplusInv == Undisturbed => InOrder

\* What is disturbed stays so.
LEMMA NextMishaps ==
    ASSUME [Next]_vars
    PROVE  mishaps \subseteq mishaps'
BY DEF Next, Reconcile, AddFinalizer, EmptyPool, RemoveFinalizer, UpdateState,
       manageCIResourcesFor, Request, createCIResource, SelectForEviction, DeleteAllOf, Fault,
       SyncPools, SyncCIRs, ReconcileCIR, GiveBack, External, Happens, vars

\* The sets that are counted.
LEMMA OwnTypes ==
    \A p, n : /\ CIRsOf(p) \in SUBSET CIRs /\ ListedOf(p) \in SUBSET CIRs
              /\ OwnBelow(p, n) \in SUBSET CIRs
              /\ IsFiniteSet(CIRsOf(p)) /\ IsFiniteSet(OwnBelow(p, n))
              /\ Cardinality(CIRsOf(p)) \in Nat
              /\ Cardinality(ListedOf(p)) \in Nat
              /\ Cardinality(OwnBelow(p, n)) \in Nat
<1>1. \A p, n : /\ CIRsOf(p) \in SUBSET CIRs /\ ListedOf(p) \in SUBSET CIRs
                /\ OwnBelow(p, n) \in SUBSET CIRs
  BY DEF CIRsOf, ListedOf, OwnBelow
<1> QED
  BY <1>1, NamesFinite

\* A step that changes no CIResource and no list.
LEMMA SameObjects ==
    ASSUME InOrder, UNCHANGED <<obj, seen>>, PoolsFixed',
           \A p \in Pools : pool'[p].size = pool[p].size,
           BatchFits' \/ UNCHANGED work, TypeOK
    PROVE  InOrder'
<1>1. /\ Existing' = Existing /\ Listed' = Listed
      /\ \A p : CIRsOf(p)' = CIRsOf(p)
      /\ \A p, n : OwnBelow(p, n)' = OwnBelow(p, n)
  BY DEF Existing, Listed, CIRsOf, OwnBelow
<1>2. ObjectsStay' /\ NamesInitial' /\ SizeKept'
  BY <1>1 DEF InOrder, ObjectsStay, NamesInitial, Initial, SizeKept
<1>3. BatchFits'
  <2>1. SUFFICES ASSUME UNCHANGED work PROVE BatchFits'
    OBVIOUS
  <2>2. work.op = "create" => work.pool \in Pools
    BY DEF TypeOK, Works, NoWork
  <2>3. work.op = "create" => OwnBelow(work.pool, work.next)' = OwnBelow(work.pool, work.next)
    BY <1>1, <2>1
  <2> QED
    BY <1>1, <2>1, <2>2, <2>3 DEF InOrder, BatchFits
<1> QED
  BY <1>2, <1>3 DEF InOrder

\* A step in which a CIResource changes its phase or what is asked of it.
LEMMA EditInOrder ==
    ASSUME InOrder, TypeOK, NEW c \in CIRs, NEW o \in PhaseObjects, Edits(c, o),
           UNCHANGED <<poolVars, seen, work>>
    PROVE  InOrder'
<1>1. /\ o.pool = obj[c].pool /\ o.evict = obj[c].evict /\ o.del = obj[c].del
      /\ o.phase # "absent" /\ obj[c].phase # "absent" /\ o.phase # "delete"
  BY DEF Edits, InOrder, ObjectsStay
<1>2. obj'[c] = o /\ \A d \in CIRs : d # c => obj'[d] = obj[d]
  BY DEF Edits, Set, TypeOK, PhaseTypeOK
<1>3. /\ Existing' = Existing /\ Listed' = Listed
      /\ \A p : CIRsOf(p)' = CIRsOf(p)
      /\ \A p, n : OwnBelow(p, n)' = OwnBelow(p, n)
  BY <1>1, <1>2 DEF Existing, Listed, CIRsOf, OwnBelow
<1>4. ObjectsStay'
  BY <1>1, <1>2 DEF InOrder, ObjectsStay
<1>5. NamesInitial' /\ SizeKept' /\ PoolsFixed'
  BY <1>3 DEF InOrder, NamesInitial, Initial, SizeKept, PoolsFixed, poolVars
<1>6. BatchFits'
  <2>1. work.op = "create" => OwnBelow(work.pool, work.next)' = OwnBelow(work.pool, work.next)
    BY <1>3
  <2> QED
    BY <1>3, <2>1 DEF InOrder, BatchFits, poolVars
<1> QED
  BY <1>4, <1>5, <1>6 DEF InOrder

\* A batch that is about to start: all that the list did not have.
LEMMA CreationFits ==
    ASSUME InOrder, TypeOK, NEW p \in Pools, poolCache[p].live,
           poolCache[p].size > Cardinality(ListedOf(p)), StartCreation(p),
           UNCHANGED <<obj, seen>>, pool'[p].size = pool[p].size
    PROVE  BatchFits'
<1> DEFINE h == getHighestResourceNumeral
           n == Cardinality(ListedOf(p))
           size == poolCache[p].size
<1>1. h \in Nat /\ h \in Listed \union {0} /\ \A m \in Listed : m <= h
  BY HighestNumeral
<1>2. n \in Nat /\ size \in Nat /\ size = pool[p].size
  <2>1. n \in Nat
    BY OwnTypes
  <2>2. poolCache[p] \in PoolObjects
    BY DEF TypeOK
  <2>3. size \in 0..MaxSize
    BY <2>2 DEF PoolObjects
  <2>4. size = pool[p].size
    BY DEF InOrder, PoolsFixed
  <2> QED
    BY <2>1, <2>3, <2>4, PoolAssumption
<1>3. work' = [op |-> "create", pool |-> p, next |-> h + 1, last |-> h + (size - n)]
  BY DEF StartCreation
<1>n. CIRs \subseteq Nat \ {0}
  BY NamesFinite
<1>4. \A d \in CIRs : d < h + 1 => d \in Listed
  <2>1. SUFFICES ASSUME NEW d \in CIRs, d < h + 1 PROVE d \in Listed
    OBVIOUS
  <2>2. h # 0 /\ d <= h
    BY <1>1, <1>n, <2>1
  <2>3. h \in Listed /\ Initial(Listed)
    BY <1>1, <2>2 DEF InOrder, NamesInitial
  <2> HIDE DEF h
  <2> QED
    BY <2>2, <2>3 DEF Initial
<1>5. Listed \subseteq Existing
  BY DEF InOrder, ObjectsStay, Listed, Existing
<1>6. OwnBelow(p, h + 1) = ListedOf(p)
  <2>1. OwnBelow(p, h + 1) \subseteq ListedOf(p)
    BY <1>4 DEF OwnBelow, CIRsOf, ListedOf, Listed, InOrder, ObjectsStay
  <2>2. p # NoPool
    BY PhaseAssumption
  <2>3. ListedOf(p) \subseteq Listed /\ ListedOf(p) \subseteq CIRsOf(p)
    BY <2>2 DEF ListedOf, Listed, CIRsOf, InOrder, ObjectsStay
  <2>4. ListedOf(p) \subseteq OwnBelow(p, h + 1)
    <3> HIDE DEF h
    <3>1. SUFFICES ASSUME NEW c \in ListedOf(p) PROVE c \in OwnBelow(p, h + 1)
      OBVIOUS
    <3>2. c \in Nat /\ c <= h /\ c \in CIRsOf(p)
      BY <1>1, <1>n, <2>3 DEF Listed
    <3>3. c < h + 1
      BY <1>1, <3>2
    <3> QED
      BY <3>2, <3>3 DEF OwnBelow
  <2> QED
    BY <2>1, <2>4
<1>7. OwnBelow(p, h + 1)' = OwnBelow(p, h + 1) /\ Existing' = Existing
  BY DEF OwnBelow, CIRsOf, Existing, Listed, getHighestResourceNumeral
<1> HIDE DEF h, n, size
<1>8. /\ work'.op = "create" /\ work'.pool = p /\ work'.next = h + 1 /\ work'.last = h + (size - n)
  BY <1>3
<1>9. work'.next <= work'.last /\ n + (work'.last - work'.next) + 1 <= size
  BY <1>1, <1>2, <1>8 DEF n, size
<1>10. OwnBelow(work.pool, work.next)' = ListedOf(p)
  <2>1. OwnBelow(work.pool, work.next)' = OwnBelow(p, h + 1)
    BY <1>8 DEF OwnBelow, CIRsOf
  <2> QED
    BY <1>6, <2>1
<1> QED
  BY <1>2, <1>4, <1>5, <1>7, <1>8, <1>9, <1>10 DEF BatchFits, n

\* An update of a pool from the informer's copy of it.
LEMMA SaveFixed ==
    ASSUME PoolsFixed, TypeOK, NEW p \in Pools, NEW o \in PoolObjects,
           o.live, ~o.del, o.size = pool[p].size, Save(p, o)
    PROVE  PoolsFixed' /\ \A q \in Pools : pool'[q].size = pool[q].size
<1>1. pool'[p] = o /\ (\A q \in Pools : q # p => pool'[q] = pool[q]) /\ poolCache' = poolCache
  BY DEF Save, TypeOK
<1> QED
  BY <1>1 DEF PoolsFixed

\* A list holds no more than there are.
LEMMA ListedFits ==
    ASSUME InOrder, TypeOK, NEW p \in Pools
    PROVE  Cardinality(ListedOf(p)) <= pool[p].size
<1>1. p # NoPool
  BY PhaseAssumption
<1>2. ListedOf(p) \subseteq CIRsOf(p)
  BY <1>1 DEF ListedOf, CIRsOf, InOrder, ObjectsStay
<1>3. Cardinality(ListedOf(p)) <= Cardinality(CIRsOf(p))
  BY <1>2, OwnTypes, FS_Subset
<1>4. Cardinality(CIRsOf(p)) <= pool[p].size
  BY DEF InOrder, SizeKept
<1>5. pool[p] \in PoolObjects
  BY DEF TypeOK
<1>6. pool[p].size \in Nat
  BY <1>5, PoolAssumption DEF PoolObjects
<1> QED
  BY <1>3, <1>4, <1>6, OwnTypes

LEMMA ReconcileInOrder ==
    ASSUME InOrder, TypeOK, NEW p \in Pools, Reconcile(p)
    PROVE  InOrder'
<1> DEFINE k == poolCache[p]
<1>1. /\ k \in PoolObjects /\ k.live /\ ~k.del /\ k.size = pool[p].size
      /\ PoolsFixed /\ UNCHANGED <<obj, seen>>
  BY DEF InOrder, PoolsFixed, TypeOK, Reconcile, AddFinalizer, EmptyPool, RemoveFinalizer,
         UpdateState, manageCIResourcesFor, Managed, Reconciling, phaseVars
<1>2. CASE AddFinalizer(p)
  <2>1. Save(p, [k EXCEPT !.fin = TRUE]) /\ UNCHANGED work
    BY <1>2 DEF AddFinalizer
  <2> DEFINE o == [k EXCEPT !.fin = TRUE]
  <2>2. o \in PoolObjects /\ o.live = k.live /\ o.del = k.del /\ o.size = k.size
    BY <1>1 DEF PoolObjects
  <2>3. Save(p, o)
    BY <2>1
  <2> HIDE DEF o, k
  <2>4. PoolsFixed' /\ \A q \in Pools : pool'[q].size = pool[q].size
    BY <1>1, <2>2, <2>3, SaveFixed
  <2> QED
    BY <1>1, <2>1, <2>4, SameObjects
<1>3. CASE UpdateState(p)
  <2>1. Save(p, [k EXCEPT !.state = k.spec]) /\ UNCHANGED work
    BY <1>3 DEF UpdateState
  <2> DEFINE o == [k EXCEPT !.state = k.spec]
  <2>2. o \in PoolObjects /\ o.live = k.live /\ o.del = k.del /\ o.size = k.size
    BY <1>1 DEF PoolObjects
  <2>3. Save(p, o)
    BY <2>1
  <2> HIDE DEF o, k
  <2>4. PoolsFixed' /\ \A q \in Pools : pool'[q].size = pool[q].size
    BY <1>1, <2>2, <2>3, SaveFixed
  <2> QED
    BY <1>1, <2>1, <2>4, SameObjects
<1>4. CASE manageCIResourcesFor(p)
  <2> DEFINE n == Cardinality(ListedOf(p))
             o == [k EXCEPT !.count = n]
  <2>1. (IF k.count # n THEN Save(p, o) ELSE UNCHANGED poolVars)
    BY <1>4 DEF manageCIResourcesFor
  <2>2. \/ k.size = n /\ UNCHANGED work
        \/ k.size > n /\ StartCreation(p)
        \/ k.size < n
    BY <1>4 DEF manageCIResourcesFor
  <2>3. n \in 0..Cardinality(CIRs)
    BY OwnTypes, NamesFinite, FS_Subset
  <2>4. o \in PoolObjects /\ o.live = k.live /\ o.del = k.del /\ o.size = k.size
    BY <1>1, <2>3 DEF PoolObjects
  <2>5. n <= k.size /\ n \in Nat /\ k.size \in Nat
    BY <1>1, <2>3, ListedFits, PoolAssumption, NamesFinite DEF PoolObjects
  <2>6. PoolsFixed' /\ \A q \in Pools : pool'[q].size = pool[q].size
    <3> HIDE DEF o, k, n
    <3>1. CASE Save(p, o)
      BY <1>1, <2>4, <3>1, SaveFixed
    <3>2. CASE UNCHANGED poolVars
      BY <1>1, <3>2 DEF PoolsFixed, poolVars
    <3> QED
      BY <2>1, <3>1, <3>2
  <2>7. CASE UNCHANGED work
    BY <1>1, <2>6, <2>7, SameObjects
  <2>8. CASE k.size > n /\ StartCreation(p)
    <3>1. BatchFits'
      BY <1>1, <2>6, <2>8, CreationFits
    <3> QED
      BY <1>1, <2>6, <3>1, SameObjects
  <2> HIDE DEF k, n
  <2> QED
    BY <2>2, <2>5, <2>7, <2>8
<1>5. CASE EmptyPool(p) \/ RemoveFinalizer(p)
  BY <1>1, <1>5 DEF EmptyPool, RemoveFinalizer
<1> QED
  BY <1>2, <1>3, <1>4, <1>5 DEF Reconcile

\* The request for numeral n of a batch has been made, or was skipped.
LEMMA AdvanceFits ==
    ASSUME BatchFits, TypeOK, work.op = "create", Advance,
           NEW p \in Pools, p = work.pool, NEW n \in Nat, n = work.next,
           pool' = pool, Existing \subseteq Existing', n \in CIRs => n \in Existing',
           Cardinality(OwnBelow(p, n + 1)') <= Cardinality(OwnBelow(p, n)) + 1,
           Cardinality(OwnBelow(p, n + 1)') \in Nat
    PROVE  BatchFits'
<1>1. work \in [op : {"create"}, pool : Pools, next : Nat, last : Nat]
  BY DEF TypeOK, Works, NoWork
<1>2. work.last \in Nat /\ pool[p].size \in Nat
  <2>1. pool[p] \in PoolObjects
    BY DEF TypeOK
  <2> QED
    BY <1>1, <2>1, PoolAssumption DEF PoolObjects
<1>3. CASE n = work.last
  BY <1>3 DEF Advance, NoWork, BatchFits
<1>4. CASE n # work.last
  <2>1. work' = [work EXCEPT !.next = n + 1]
    BY <1>4 DEF Advance
  <2>2. /\ work'.op = "create" /\ work'.pool = p
        /\ work'.next = n + 1 /\ work'.last = work.last
    BY <1>1, <2>1
  <2>3. \A d \in CIRs : d < n + 1 => d \in Existing'
    <3>1. SUFFICES ASSUME NEW d \in CIRs, d < n + 1 PROVE d \in Existing'
      OBVIOUS
    <3>2. d \in Nat
      BY NamesFinite
    <3>3. d < n \/ d = n
      BY <3>1, <3>2
    <3> QED
      BY <3>3 DEF BatchFits
  <2>4. OwnBelow(work.pool, work.next)' = OwnBelow(p, n + 1)'
    BY <2>2 DEF OwnBelow, CIRsOf
  <2>5. n < work.last /\ Cardinality(OwnBelow(p, n)) + (work.last - n) + 1 <= pool[p].size
    BY <1>2, <1>4 DEF BatchFits
  <2>6. Cardinality(OwnBelow(p, n)) \in Nat
    BY OwnTypes
  <2>7. Cardinality(OwnBelow(p, n + 1)') + (work.last - (n + 1)) + 1 <= pool[p].size
    BY <1>2, <2>5, <2>6
  <2>8. n + 1 <= work.last
    BY <1>2, <2>5
  <2> QED
    BY <2>2, <2>3, <2>4, <2>7, <2>8 DEF BatchFits
<1> QED
  BY <1>3, <1>4

\* A CIResource is created: the first numeral that is not in use.
LEMMA CreatedInOrder ==
    ASSUME InOrder, TypeOK, work.op = "create", Advance,
           UNCHANGED <<pool, poolCache, seen>>,
           NEW p \in Pools, p = work.pool, NEW n \in CIRs, n = work.next, Create(n, p)
    PROVE  InOrder'
<1> DEFINE new == [Gone EXCEPT !.phase = "new", !.pool = p]
<1>1. /\ new.phase = "new" /\ new.pool = p
      /\ new.evict = FALSE /\ new.del = FALSE
  BY DEF Gone
<1>2. n \notin Existing /\ obj' = [obj EXCEPT ![n] = new] /\ n \in Nat
  BY NamesFinite DEF Create, Set, Existing
<1> HIDE DEF new
<1>3. obj'[n] = new /\ \A d \in CIRs : d # n => obj'[d] = obj[d]
  BY <1>2 DEF TypeOK, PhaseTypeOK
<1>4. p # NoPool
  BY PhaseAssumption
<1>5. ObjectsStay'
  <2>1. seen[n] = NoPool
    BY <1>2 DEF InOrder, ObjectsStay, Existing
  <2>2. ASSUME NEW d \in CIRs, d # n
        PROVE  /\ obj'[d].phase = "absent" <=> obj'[d].pool = NoPool
               /\ ~obj'[d].evict /\ ~obj'[d].del /\ obj'[d].phase # "delete"
               /\ seen[d] # NoPool => seen[d] = obj'[d].pool
    BY <1>3, <2>2 DEF InOrder, ObjectsStay
  <2> QED
    BY <1>1, <1>3, <1>4, <2>1, <2>2 DEF ObjectsStay
<1>6. Existing' = Existing \union {n} /\ Listed' = Listed
  BY <1>1, <1>3 DEF Existing, Listed
<1>7. CIRsOf(p)' = CIRsOf(p) \union {n}
  BY <1>1, <1>3 DEF CIRsOf
<1>8. \A q \in Pools : q # p => CIRsOf(q)' = CIRsOf(q)
  BY <1>1, <1>2, <1>3, PhaseAssumption DEF CIRsOf, InOrder, ObjectsStay, Existing
<1>9. NamesInitial'
  <2>1. \A d \in CIRs : d <= n => d = n \/ d \in Existing
    BY <1>2, NamesFinite DEF InOrder, BatchFits
  <2>2. Initial(Existing) /\ Initial(Listed)
    BY DEF InOrder, NamesInitial
  <2>3. Initial(Existing \union {n})
    BY <2>1, <2>2 DEF Initial
  <2> QED
    BY <1>6, <2>2, <2>3 DEF NamesInitial, Initial
<1>10. CIRsOf(p) \subseteq OwnBelow(p, n)
  <2>1. SUFFICES ASSUME NEW d \in CIRsOf(p) PROVE d < n
    BY DEF OwnBelow
  <2>2. d \in Existing /\ d \in Nat
    BY <1>4, NamesFinite DEF CIRsOf, Existing, InOrder, ObjectsStay
  <2>3. ~(n <= d)
    BY <1>2, <2>2 DEF InOrder, NamesInitial, Initial
  <2> QED
    BY <1>2, <2>2, <2>3
<1>11. /\ Cardinality(CIRsOf(p) \union {n}) \in Nat
       /\ Cardinality(CIRsOf(p) \union {n}) <= Cardinality(OwnBelow(p, n)) + 1
       /\ Cardinality(OwnBelow(p, n)) \in Nat
  <2>1. /\ IsFiniteSet(CIRsOf(p) \union {n})
        /\ Cardinality(CIRsOf(p) \union {n}) \in
              {Cardinality(CIRsOf(p)), Cardinality(CIRsOf(p)) + 1}
    BY OwnTypes, FS_AddElement
  <2>2. Cardinality(CIRsOf(p)) <= Cardinality(OwnBelow(p, n))
    BY <1>10, OwnTypes, FS_Subset
  <2> QED
    BY <2>1, <2>2, OwnTypes
<1>12. Cardinality(OwnBelow(p, n)) + 1 <= pool[p].size
  <2>1. work.last \in Nat /\ n <= work.last
    BY DEF InOrder, BatchFits, TypeOK, Works, NoWork
  <2>2. Cardinality(OwnBelow(p, n)) + (work.last - n) + 1 <= pool[p].size
    BY DEF InOrder, BatchFits
  <2>3. pool[p] \in PoolObjects
    BY DEF TypeOK
  <2>4. pool[p].size \in Nat
    BY <2>3, PoolAssumption DEF PoolObjects
  <2> QED
    BY <1>2, <1>11, <2>1, <2>2, <2>4
<1>13. SizeKept' /\ PoolsFixed'
  <2>1. pool[p].size \in Nat
    <3>1. pool[p] \in PoolObjects
      BY DEF TypeOK
    <3> QED
      BY <3>1, PoolAssumption DEF PoolObjects
  <2>2. Cardinality(CIRsOf(p)') <= pool[p].size
    BY <1>7, <1>11, <1>12, <2>1
  <2> QED
    BY <1>8, <2>2 DEF InOrder, SizeKept, PoolsFixed
<1>14. OwnBelow(p, n + 1)' \subseteq CIRsOf(p) \union {n}
  BY <1>7 DEF OwnBelow
<1>15. /\ Cardinality(OwnBelow(p, n + 1)') \in Nat
       /\ Cardinality(OwnBelow(p, n + 1)') <= Cardinality(OwnBelow(p, n)) + 1
  <2>1. IsFiniteSet(CIRsOf(p) \union {n})
    BY OwnTypes, FS_AddElement
  <2> DEFINE S == OwnBelow(p, n + 1)'
  <2>2. S \subseteq CIRsOf(p) \union {n}
    BY <1>14
  <2> HIDE DEF S
  <2>3. Cardinality(S) \in Nat /\ Cardinality(S) <= Cardinality(CIRsOf(p) \union {n})
    BY <2>1, <2>2, FS_Subset, FS_CardinalityType
  <2>4. Cardinality(S) <= Cardinality(OwnBelow(p, n)) + 1
    BY <1>11, <2>3
  <2> QED
    BY <2>3, <2>4 DEF S
<1>16. BatchFits'
  BY <1>2, <1>6, <1>15, AdvanceFits DEF InOrder
<1> QED
  BY <1>5, <1>9, <1>13, <1>16 DEF InOrder

LEMMA CreateInOrder ==
    ASSUME InOrder, TypeOK, createCIResource
    PROVE  InOrder'
<1> DEFINE p == work.pool
           n == work.next
<1>1. /\ work \in [op : {"create"}, pool : Pools, next : Nat, last : Nat]
      /\ work.op = "create" /\ Advance /\ UNCHANGED <<pool, poolCache, seen>>
  BY DEF createCIResource, TypeOK, Works, NoWork, poolVars
<1>2. p \in Pools /\ n \in Nat /\ work.last \in Nat
  BY <1>1
<1>3. OwnBelow(p, n + 1) \subseteq OwnBelow(p, n) \union {n}
  <2> HIDE DEF p, n
  <2>1. SUFFICES ASSUME NEW d \in OwnBelow(p, n + 1), d # n PROVE d \in OwnBelow(p, n)
    OBVIOUS
  <2>2. d \in CIRsOf(p) /\ d \in Nat /\ d < n + 1
    BY NamesFinite DEF OwnBelow, CIRsOf
  <2> QED
    BY <1>2, <2>1, <2>2 DEF OwnBelow
<1>4. CASE UNCHANGED phaseVars /\ (n \in CIRs => n \in Existing)
  <2>1. /\ obj' = obj /\ Existing' = Existing /\ \A q : CIRsOf(q)' = CIRsOf(q)
    BY <1>4 DEF phaseVars, Existing, CIRsOf
  <2> HIDE DEF p, n
  <2>2. Cardinality(OwnBelow(p, n + 1)) <= Cardinality(OwnBelow(p, n)) + 1
    <3>1. IsFiniteSet(OwnBelow(p, n)) /\ IsFiniteSet(OwnBelow(p, n) \union {n})
      BY OwnTypes, FS_AddElement
    <3>2. Cardinality(OwnBelow(p, n + 1)) <= Cardinality(OwnBelow(p, n) \union {n})
      BY <1>3, <3>1, FS_Subset
    <3>3. Cardinality(OwnBelow(p, n) \union {n}) \in
            {Cardinality(OwnBelow(p, n)), Cardinality(OwnBelow(p, n)) + 1}
      BY <3>1, FS_AddElement
    <3> QED
      BY <3>2, <3>3, OwnTypes
  <2>3. \A q \in Pools, m \in Nat : OwnBelow(q, m)' = OwnBelow(q, m)
    BY <2>1 DEF OwnBelow
  <2>4. ASSUME NEW q \in Pools, NEW m \in Nat, q = p, m = n PROVE BatchFits'
    <3>1. Cardinality(OwnBelow(q, m + 1)') <= Cardinality(OwnBelow(q, m)) + 1
      <4>1. OwnBelow(q, m + 1)' = OwnBelow(q, m + 1)
        BY <2>3
      <4> QED
        BY <2>2, <2>4, <4>1
    <3>2. Cardinality(OwnBelow(q, m + 1)') \in Nat
      BY <2>3, OwnTypes
    <3>3. q = work.pool /\ m = work.next
      BY <2>4 DEF p, n
    <3> QED
      BY <1>1, <1>4, <2>1, <2>4, <3>1, <3>2, <3>3, AdvanceFits DEF InOrder
  <2>5. BatchFits'
    BY <1>2, <2>4
  <2>6. UNCHANGED <<obj, seen>> /\ PoolsFixed' /\ \A q \in Pools : pool'[q].size = pool[q].size
    BY <1>1, <2>1 DEF InOrder, PoolsFixed
  <2> QED
    BY <2>5, <2>6, SameObjects
<1>5. CASE n \in CIRs /\ Create(n, p)
  <2>1. ASSUME NEW q \in Pools, q = p, NEW m \in CIRs, m = n, Create(m, q) PROVE InOrder'
    <3>1. q = work.pool /\ m = work.next
      BY <2>1
    <3> HIDE DEF p, n
    <3> QED
      BY <1>1, <2>1, <3>1, CreatedInOrder
  <2> QED
    BY <1>2, <1>5, <2>1
<1> QED
  BY <1>1, <1>4, <1>5 DEF createCIResource, Create, Existing

\* The informers catch up.
LEMMA SyncInOrder ==
    ASSUME InOrder, TypeOK, SyncPools \/ SyncCIRs
    PROVE  InOrder'
<1>1. CASE SyncPools
  <2>1. /\ UNCHANGED <<obj, seen>> /\ UNCHANGED work /\ UNCHANGED pool /\ poolCache' = pool
    BY <1>1 DEF SyncPools, phaseVars
  <2>2. PoolsFixed'
    BY <2>1 DEF InOrder, PoolsFixed
  <2> QED
    BY <2>1, <2>2, SameObjects
<1>2. CASE SyncCIRs
  <2>1. /\ obj' = obj /\ UNCHANGED work /\ pool' = pool /\ poolCache' = poolCache
        /\ \A c \in CIRs : seen'[c] = obj[c].pool
    BY <1>2 DEF SyncCIRs, poolVars
  <2>2. Listed' = Existing /\ Existing' = Existing /\ \A p : CIRsOf(p)' = CIRsOf(p)
    BY <2>1 DEF InOrder, ObjectsStay, Listed, Existing, CIRsOf
  <2>3. ObjectsStay' /\ PoolsFixed'
    BY <2>1 DEF InOrder, ObjectsStay, PoolsFixed
  <2>4. NamesInitial' /\ SizeKept'
    BY <2>1, <2>2 DEF InOrder, NamesInitial, Initial, SizeKept
  <2>5. OwnBelow(work.pool, work.next)' = OwnBelow(work.pool, work.next)
    BY <2>1 DEF OwnBelow, CIRsOf
  <2>6. BatchFits'
    BY <2>1, <2>2, <2>5 DEF InOrder, BatchFits
  <2> QED
    BY <2>3, <2>4, <2>6 DEF InOrder
<1> QED
  BY <1>1, <1>2

\* Everybody else, as long as nobody frees a numeral.
LEMMA OthersInOrder ==
    ASSUME InOrder, TypeOK, Undisturbed',
           External \/ \E c \in CIRs : ReconcileCIR(c) \/ GiveBack(c)
    PROVE  InOrder'
<1>1. ASSUME NEW c \in CIRs, UNCHANGED <<poolVars, seen, work>>,
             PhaseStep(c) \/ Acquire(c) \/ Release(c) \/ RequestMaintenance(c),
             obj[c].phase # "absent"
      PROVE  InOrder'
  <2>1. PICK o \in PhaseObjects : Edits(c, o)
    BY <1>1, PhaseEdits DEF TypeOK
  <2> QED
    BY <1>1, <2>1, EditInOrder
<1>2. ASSUME NEW c \in CIRs, ReconcileCIR(c) PROVE InOrder'
  BY <1>1, <1>2 DEF ReconcileCIR
<1>3. ASSUME NEW c \in CIRs, GiveBack(c) PROVE InOrder'
  BY <1>1, <1>3 DEF GiveBack, Release
<1>4. CASE External
  <2>1. UNCHANGED <<seen, work>>
    BY <1>4 DEF External
  <2>2. ~Happens("resize") /\ ~Happens("delete pool") /\ ~Happens("delete")
    BY DEF Happens, Undisturbed
  <2>3. ASSUME NEW c \in CIRs, EditCIR(Acquire(c)) PROVE InOrder'
    BY <1>1, <2>1, <2>3 DEF EditCIR, Acquire, poolVars
  <2>4. ASSUME NEW c \in CIRs, EditCIR(RequestMaintenance(c)) PROVE InOrder'
    BY <1>1, <2>1, <2>4 DEF EditCIR, RequestMaintenance, poolVars
  <2>5. ASSUME NEW p \in Pools, NEW s \in {"available", "offline"},
               EditPool(p, [pool[p] EXCEPT !.spec = s])
        PROVE  InOrder'
    <3> DEFINE o == [pool[p] EXCEPT !.spec = s]
    <3>1. o.live = pool[p].live /\ o.del = pool[p].del /\ o.size = pool[p].size
      <4>1. pool[p] \in PoolObjects
        BY DEF TypeOK
      <4> QED
        BY <4>1 DEF PoolObjects
    <3>2. pool' = [pool EXCEPT ![p] = o] /\ poolCache' = poolCache /\ UNCHANGED obj
      BY <2>5 DEF EditPool, phaseVars
    <3> HIDE DEF o
    <3>3. \A q \in Pools : /\ pool'[q].live = pool[q].live /\ pool'[q].del = pool[q].del
                           /\ pool'[q].size = pool[q].size
      BY <3>1, <3>2 DEF TypeOK
    <3>4. PoolsFixed'
      BY <3>2, <3>3 DEF InOrder, PoolsFixed
    <3> QED
      BY <2>1, <3>2, <3>3, <3>4, SameObjects
  <2> QED
    BY <1>4, <2>2, <2>3, <2>4, <2>5 DEF External
<1> QED
  BY <1>2, <1>3, <1>4

LEMMA NextInOrder ==
    ASSUME SurplusInv, TypeOK, [Next]_vars
    PROVE  SurplusInv'
<1>1. SUFFICES ASSUME Undisturbed' PROVE InOrder'
  BY DEF SurplusInv
<1>2. InOrder
  BY <1>1, NextMishaps DEF SurplusInv, Undisturbed
<1>3. CASE SelectForEviction \/ DeleteAllOf
  BY <1>2, <1>3 DEF SelectForEviction, DeleteAllOf, InOrder, BatchFits
<1>4. CASE Fault
  BY <1>1, <1>4 DEF Fault, Happens, Undisturbed
<1>5. CASE UNCHANGED vars
  <2>1. UNCHANGED <<obj, seen>> /\ UNCHANGED work /\ UNCHANGED <<pool, poolCache>>
    BY <1>5 DEF vars, phaseVars, poolVars
  <2>2. PoolsFixed'
    BY <1>2, <2>1 DEF InOrder, PoolsFixed
  <2> QED
    BY <1>2, <2>1, <2>2, SameObjects
<1> QED
  BY <1>1, <1>2, <1>3, <1>4, <1>5, ReconcileInOrder, CreateInOrder, SyncInOrder, OthersInOrder
  DEF Next, Request

LEMMA InitInOrder == Init => SurplusInv
<1> SUFFICES ASSUME Init PROVE InOrder
  BY DEF SurplusInv
<1>1. \A c \in CIRs : /\ obj[c].phase = "absent" /\ obj[c].pool = NoPool
                      /\ obj[c].evict = FALSE /\ obj[c].del = FALSE
                      /\ seen[c] = NoPool
  BY DEF Init, PhaseInit, Gone
<1>2. \A p \in Pools : /\ pool[p].live = TRUE /\ pool[p].del = FALSE
                       /\ pool[p].size \in Nat /\ poolCache[p].live = FALSE
  <2>1. SUFFICES ASSUME NEW p \in Pools
                 PROVE  /\ pool[p].live = TRUE /\ pool[p].del = FALSE
                        /\ pool[p].size \in Nat /\ poolCache[p].live = FALSE
    OBVIOUS
  <2>2. PICK n \in 0..MaxSize : pool[p] = NewPool(n)
    BY DEF Init
  <2>3. NewPool(n).live = TRUE /\ NewPool(n).del = FALSE /\ NewPool(n).size = n
    BY DEF NewPool
  <2>4. n \in Nat
    BY PoolAssumption
  <2>5. poolCache[p] = NoPoolObject /\ NoPoolObject.live = FALSE
    BY DEF Init, NoPoolObject, NewPool
  <2> QED
    BY <2>2, <2>3, <2>4, <2>5
<1>3. Existing = {} /\ Listed = {} /\ \A p \in Pools : CIRsOf(p) = {}
  BY <1>1, PhaseAssumption DEF Existing, Listed, CIRsOf
<1>4. SizeKept
  <2>1. Cardinality({}) = 0 /\ \A n \in Nat : 0 <= n
    BY FS_EmptySet
  <2>2. \A p \in Pools : Cardinality(CIRsOf(p)) = 0 /\ 0 <= pool[p].size
    BY <1>2, <1>3, <2>1
  <2> QED
    BY <2>2 DEF SizeKept
<1>5. PoolsFixed /\ ObjectsStay /\ NamesInitial
  BY <1>1, <1>2, <1>3 DEF PoolsFixed, ObjectsStay, NamesInitial, Initial
<1>6. BatchFits
  BY DEF Init, NoWork, BatchFits
<1> QED
  BY <1>4, <1>5, <1>6 DEF InOrder

(* However far the lists lag behind, a pool never has more CIResources     *)
(* than it asks for: createCIResource numbers them from the highest it has *)
(* seen, and those it has not seen make the API server refuse the name.    *)
(* As long as no numeral is freed and no request fails.                    *)
THEOREM NeverSurplus == Spec => []NoSurplus
<1>1. SurplusInv => NoSurplus
  BY DEF SurplusInv, InOrder, SizeKept, Undisturbed, NoSurplus
<1> QED
  BY <1>1, InitInOrder, NextInOrder, TypeCorrect, PTL DEF Spec
==============================================================================
