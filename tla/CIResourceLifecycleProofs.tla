----------------------- MODULE CIResourceLifecycleProofs -----------------------
(***************************************************************************)
(* The life of a CIResource, as CIResourceLifecycle has it, is what the    *)
(* pool reconciler and the API are built on: CIResourceLifecycle           *)
(* implements CIResourcePhases, for any CIResources, pools and readers and *)
(* whatever administrators edit.                                           *)
(***************************************************************************)
EXTENDS CIResourceLifecycle, TLAPS

(* An object without the finalizer is as its pool created it, but for what *)
(* an administrator asks for: nobody has acquired it, so that it may       *)
(* vanish as soon as it is deleted.                                        *)
ObjectInv(o) ==
    /\ o \in Objects
    /\ ~o.live => o = Absent
    /\ o.live /\ ~o.fin => o.state = "none" /\ ~o.del /\ o.spec # "in use"
    /\ o.state # "error"

LifecycleInv == cir \in [CIRs -> Objects] /\ \A c \in CIRs : ObjectInv(cir[c])

-----------------------------------------------------------------------------
(* The invariant.                                                          *)

LEMMA AbsentInv == ObjectInv(Absent)
BY StoreAssumption DEF ObjectInv, Absent, Objects, StatusStates, SpecStates

LEMMA BecomeInv ==
    ASSUME LifecycleInv, NEW c \in CIRs, NEW o, ObjectInv(o), Become(c, o)
    PROVE  LifecycleInv'
<1>1. o \in Objects
  BY DEF ObjectInv
<1>2. cir' = [cir EXCEPT ![c] = o]
  BY DEF Become, Store
<1> QED
  BY <1>1, <1>2 DEF LifecycleInv

LEMMA StepInv ==
    ASSUME LifecycleInv, NEW c \in CIRs, LifecycleStep(c)
    PROVE  LifecycleInv'
<1> DEFINE o == cir[c]
<1>1. ObjectInv(o)
  BY DEF LifecycleInv
<1>2. ASSUME NEW s \in StatusStates \ {"error"}, o.live, o.fin \/ s = "none"
      PROVE  ObjectInv([o EXCEPT !.state = s])
  BY <1>1, <1>2 DEF ObjectInv, Objects
<1>3. ASSUME NEW from, NEW to \in StatusStates \ {"error"}, Move(c, from, to), o.fin
      PROVE  LifecycleInv'
  BY <1>2, <1>3, BecomeInv DEF Move
<1>. Absent.state = "none" /\ Absent.del = FALSE
  BY DEF Absent
<1>4. o.state # "none" => o.live /\ o.fin
  BY <1>1 DEF ObjectInv, Objects
<1>5. o.del => o.live /\ o.fin
  BY <1>1 DEF ObjectInv, Objects
<1>6. CASE AddFinalizer(c)
  <2>1. ObjectInv([o EXCEPT !.fin = TRUE])
    BY <1>1, <1>6 DEF ObjectInv, Objects, AddFinalizer
  <2> QED
    BY <2>1, <1>6, BecomeInv DEF AddFinalizer
<1>7. CASE Begin(c)
  BY <1>3, <1>5, <1>7 DEF Begin, StatusStates
<1>8. CASE Provision(c)
  <2>1. CASE Move(c, "provisioning", "provisioning wait")
    BY <1>3, <1>4, <2>1 DEF Move, StatusStates
  <2>2. CASE o.state = "provisioning" /\ Become(c, [o EXCEPT !.state = "available"])
    BY <1>2, <1>4, <2>2, BecomeInv DEF StatusStates
  <2> QED
    BY <2>1, <2>2, <1>8 DEF Provision
<1>9. CASE FinishProvisioning(c)
  <2>1. ObjectInv([o EXCEPT !.state = "available", !.addr = TRUE])
    BY <1>1, <1>4, <1>9 DEF ObjectInv, Objects, StatusStates, FinishProvisioning
  <2> QED
    BY <2>1, <1>9, BecomeInv DEF FinishProvisioning
<1>10. CASE StartUse(c) \/ ProvisionInUse(c) \/ StartCleaning(c) \/ FinishCleaning(c)
  BY <1>3, <1>4, <1>10 DEF StartUse, ProvisionInUse, StartCleaning, FinishCleaning, Move, StatusStates
<1>11. CASE StartMaintenance(c) \/ EndMaintenance(c) \/ StartDeletion(c)
  BY <1>3, <1>4, <1>11 DEF StartMaintenance, EndMaintenance, StartDeletion, Move, StatusStates
<1>12. CASE TakeBack(c)
  <2>1. ObjectInv([o EXCEPT !.spec = "available"])
    BY <1>1, <1>4, <1>12 DEF ObjectInv, Objects, SpecStates, TakeBack
  <2> QED
    BY <2>1, <1>12, BecomeInv DEF TakeBack
<1>13. CASE WaitCleaning(c)
  <2>1. /\ ObjectInv([o EXCEPT !.state = "cleaning wait", !.addr = FALSE])
        /\ ObjectInv([o EXCEPT !.state = "cleaning wait"])
    BY <1>1, <1>4, <1>13 DEF ObjectInv, Objects, StatusStates, WaitCleaning
  <2> QED
    BY <2>1, <1>13, BecomeInv DEF WaitCleaning
<1>14. CASE Remove(c)
  BY <1>14, AbsentInv, BecomeInv DEF Remove
<1> QED
  BY <1>6, <1>7, <1>8, <1>9, <1>10, <1>11, <1>12, <1>13, <1>14 DEF LifecycleStep

LEMMA OthersInv ==
    ASSUME LifecycleInv, NEW c \in CIRs, OtherWriters(c)
    PROVE  LifecycleInv'
<1> DEFINE o == cir[c]
<1>1. ObjectInv(o)
  BY DEF LifecycleInv
<1>2. ASSUME NEW p \in Pools, Create(c, p)
      PROVE  LifecycleInv'
  <2>1. ObjectInv(Created(p))
    BY AbsentInv DEF ObjectInv, Created, Objects, Absent
  <2> QED
    BY <2>1, <1>2, BecomeInv DEF Create
<1>3. CASE ClientAcquire(c)
  <2>1. ObjectInv([o EXCEPT !.spec = "in use"])
    BY <1>1, <1>3 DEF ObjectInv, Objects, SpecStates, ClientAcquire
  <2> QED
    BY <2>1, <1>3, BecomeInv DEF ClientAcquire
<1>4. CASE ClientRelease(c) \/ AdminResume(c)
  <2>1. o.live
    BY <1>4 DEF ClientRelease, AdminResume
  <2>2. ObjectInv([o EXCEPT !.spec = "available"])
    BY <1>1, <2>1 DEF ObjectInv, Objects, SpecStates
  <2> QED
    BY <2>2, <1>4, BecomeInv DEF ClientRelease, AdminResume
<1>5. CASE AdminMaintenance(c)
  <2>1. ObjectInv([o EXCEPT !.spec = "maintenance"])
    BY <1>1, <1>5 DEF ObjectInv, Objects, SpecStates, AdminMaintenance
  <2> QED
    BY <2>1, <1>5, BecomeInv DEF AdminMaintenance
<1>6. CASE Evict(c)
  <2>1. ObjectInv([o EXCEPT !.evict = TRUE])
    BY <1>1, <1>6 DEF ObjectInv, Objects, Evict
  <2> QED
    BY <2>1, <1>6, BecomeInv DEF Evict
<1>7. CASE Delete(c)
  <2>1. ObjectInv(Deleted(c))
    BY <1>1, <1>7, AbsentInv DEF ObjectInv, Objects, Delete, Deleted
  <2> QED
    BY <2>1, <1>7, BecomeInv DEF Delete
<1> QED
  BY <1>2, <1>3, <1>4, <1>5, <1>6, <1>7 DEF OtherWriters

LEMMA NextInv ==
    ASSUME LifecycleInv, [LifecycleNext]_storeVars
    PROVE  LifecycleInv'
<1>1. CASE UNCHANGED storeVars
  BY <1>1 DEF storeVars, LifecycleInv
<1>2. ASSUME NEW c \in CIRs, Sync(c)
      PROVE  LifecycleInv'
  BY <1>2 DEF Sync, LifecycleInv
<1> QED
  BY <1>1, <1>2, StepInv, OthersInv DEF LifecycleNext

-----------------------------------------------------------------------------
(* Refinement.                                                             *)

\* What PhaseObject makes of an object, field by field.
LEMMA PhaseFields ==
    ASSUME NEW o \in Objects
    PROVE  /\ PhaseObject(o) = [ phase |-> PhaseOf(o), spec |-> PhaseObject(o).spec,
                                 pool |-> o.pool, evict |-> o.evict, del |-> o.del ]
           /\ PhaseObject(o).phase = PhaseOf(o)
           /\ o.spec \in {"none", "available"} => PhaseObject(o).spec = "free"
           /\ o.spec \notin {"none", "available"} => PhaseObject(o).spec = o.spec
           /\ PhaseObject(o).pool = o.pool
           /\ PhaseObject(o).evict = o.evict
           /\ PhaseObject(o).del = o.del
BY DEF PhaseObject

LEMMA PhaseOfObject ==
    ASSUME NEW o \in Objects, o.live
    PROVE  /\ o.state \in {"none", "provisioning", "provisioning wait"} => PhaseOf(o) = "new"
           /\ o.state \in {"cleaning", "cleaning wait"} => PhaseOf(o) = "cleaning"
           /\ o.state \in {"available", "in use", "maintenance", "delete"} => PhaseOf(o) = o.state
BY DEF PhaseOf

LEMMA PhaseOfAbsent ==
    /\ \A o \in Objects : ~o.live => PhaseOf(o) = "absent"
    /\ PhaseObject(Absent) = Phases!Gone
BY DEF PhaseOf, PhaseObject, Absent, Phases!Gone

\* An object that is written is written in the image, too.
LEMMA BecomeSet ==
    ASSUME cir \in [CIRs -> Objects], NEW c \in CIRs, NEW o, Become(c, o)
    PROVE  /\ Phases!Set(c, PhaseObject(o))
           /\ PhaseObject(o) = PhaseObject(cir[c]) => UNCHANGED Phases!phaseVars
<1>1. cir' = [cir EXCEPT ![c] = o]
  BY DEF Become, Store
<1>2. [x \in CIRs |-> PhaseObject(cir[x])]'
      = [[x \in CIRs |-> PhaseObject(cir[x])] EXCEPT ![c] = PhaseObject(o)]
  BY <1>1
<1> QED
  BY <1>2 DEF Phases!Set, Phases!phaseVars

\* A transition shifts the phase, or is not seen.
LEMMA MoveShift ==
    ASSUME LifecycleInv, NEW c \in CIRs, NEW to \in StatusStates, cir[c].live,
           Become(c, [cir[c] EXCEPT !.state = to])
    PROVE  LET s == [cir[c] EXCEPT !.state = to] IN
           /\ PhaseOf(cir[c]) = PhaseOf(s) => UNCHANGED Phases!phaseVars
           /\ Phases!Shift(c, PhaseOf(cir[c]), PhaseOf(s))
<1> DEFINE o == cir[c]
           s == [o EXCEPT !.state = to]
<1>1. o \in Objects /\ s \in Objects
  BY DEF LifecycleInv, Objects
<1>2. /\ s.live = o.live /\ s.spec = o.spec /\ s.pool = o.pool
      /\ s.evict = o.evict /\ s.del = o.del
  BY <1>1 DEF Objects
<1>3. PhaseObject(s) = [PhaseObject(o) EXCEPT !.phase = PhaseOf(s)]
  BY <1>2 DEF PhaseObject
<1>4. PhaseObject(o).phase = PhaseOf(o)
  BY <1>1, PhaseFields
<1>5. PhaseOf(o) = PhaseOf(s) => PhaseObject(s) = PhaseObject(o)
  BY <1>2 DEF PhaseObject
<1>6. /\ Phases!Set(c, PhaseObject(s))
      /\ PhaseObject(s) = PhaseObject(o) => UNCHANGED Phases!phaseVars
  BY BecomeSet DEF LifecycleInv
<1> QED
  BY <1>3, <1>4, <1>5, <1>6 DEF Phases!Shift

\* A change of Spec.State, as it is seen.
LEMMA SpecSet ==
    ASSUME LifecycleInv, NEW c \in CIRs, NEW spec \in SpecStates,
           Become(c, [cir[c] EXCEPT !.spec = spec])
    PROVE  LET seen == IF spec \in {"none", "available"} THEN "free" ELSE spec
               obj  == PhaseObject(cir[c])
           IN  /\ obj.spec = seen => UNCHANGED Phases!phaseVars
               /\ Phases!Set(c, [obj EXCEPT !.spec = seen])
<1> DEFINE o == cir[c]
           s == [o EXCEPT !.spec = spec]
           seen == IF spec \in {"none", "available"} THEN "free" ELSE spec
<1>1. o \in Objects
  BY DEF LifecycleInv
<1>2. /\ s.live = o.live /\ s.state = o.state /\ s.pool = o.pool
      /\ s.evict = o.evict /\ s.del = o.del /\ s.spec = spec
  BY <1>1 DEF Objects
<1>3. PhaseOf(s) = PhaseOf(o)
  BY <1>2 DEF PhaseOf
<1>4. PhaseObject(s) = [PhaseObject(o) EXCEPT !.spec = seen]
  BY <1>2, <1>3 DEF PhaseObject
<1>5. PhaseObject(o).spec = seen => PhaseObject(s) = PhaseObject(o)
  BY <1>2, <1>3 DEF PhaseObject
<1>6. /\ Phases!Set(c, PhaseObject(s))
      /\ PhaseObject(s) = PhaseObject(o) => UNCHANGED Phases!phaseVars
  BY BecomeSet DEF LifecycleInv
<1> QED
  BY <1>4, <1>5, <1>6

\* Every transition of the state machine is one of PhaseStep, or not seen.
LEMMA StepImplements ==
    ASSUME LifecycleInv, NEW c \in CIRs, LifecycleStep(c)
    PROVE  Phases!PhaseStep(c) \/ UNCHANGED Phases!phaseVars
<1> DEFINE o == cir[c]
           with(s) == [o EXCEPT !.state = s]
           obj == PhaseObject(o)
<1>1. ObjectInv(o) /\ o \in Objects
  BY DEF LifecycleInv, ObjectInv
<1>2. /\ obj.phase = PhaseOf(o) /\ obj.pool = o.pool /\ obj.del = o.del
      /\ o.spec \in {"none", "available"} => obj.spec = "free"
      /\ o.spec \notin {"none", "available"} => obj.spec = o.spec
  BY <1>1, PhaseFields
<1>3. o.state # "none" => o.live
  <2>1. Absent.state = "none"
    BY DEF Absent
  <2> QED
    BY <2>1, <1>1 DEF ObjectInv, Objects
<1>4. ASSUME NEW s \in StatusStates, o.live
      PROVE  /\ with(s) \in Objects /\ with(s).live /\ with(s).state = s
  BY <1>1, <1>4 DEF Objects
<1>5. ASSUME NEW s \in StatusStates, o.live, Become(c, with(s))
      PROVE  /\ PhaseOf(o) = PhaseOf(with(s)) => UNCHANGED Phases!phaseVars
             /\ Phases!Shift(c, PhaseOf(o), PhaseOf(with(s)))
  BY <1>5, MoveShift
<1>6. CASE AddFinalizer(c)
  <2>1. PhaseObject([o EXCEPT !.fin = TRUE]) = obj
    BY <1>1 DEF PhaseObject, PhaseOf, Objects
  <2> QED
    BY <2>1, <1>6, BecomeSet DEF AddFinalizer, LifecycleInv
<1>7. CASE Begin(c)
  <2>1. "provisioning" \in StatusStates
    BY DEF StatusStates
  <2>2. PhaseOf(o) = "new" /\ PhaseOf(with("provisioning")) = "new"
    BY <1>1, <1>4, <1>7, <2>1, PhaseOfObject DEF Begin, Move
  <2> QED
    BY <1>5, <1>7, <2>1, <2>2 DEF Begin, Move
<1>8. CASE Provision(c)
  <2>1. "provisioning wait" \in StatusStates /\ "available" \in StatusStates
    BY DEF StatusStates
  <2>2. o.live /\ PhaseOf(o) = "new"
    BY <1>1, <1>3, <1>8, PhaseOfObject DEF Provision, Move
  <2>3. PhaseOf(with("provisioning wait")) = "new" /\ PhaseOf(with("available")) = "available"
    BY <1>4, <2>1, <2>2, PhaseOfObject
  <2> QED
    BY <1>5, <1>8, <2>1, <2>2, <2>3
    DEF Provision, Move, Phases!PhaseStep, Phases!FinishProvisioning
<1>9. CASE FinishProvisioning(c)
  <2> DEFINE s == [o EXCEPT !.state = "available", !.addr = TRUE]
  <2>1. o.live /\ PhaseOf(o) = "new"
    BY <1>1, <1>3, <1>9, PhaseOfObject DEF FinishProvisioning
  <2>2. s \in Objects /\ s.live /\ s.state = "available"
    BY <1>1, <2>1 DEF Objects, StatusStates
  <2>3. PhaseOf(s) = "available"
    BY <2>2, PhaseOfObject
  <2>4. PhaseObject(s) = [obj EXCEPT !.phase = "available"]
    BY <1>1, <2>3 DEF PhaseObject, Objects
  <2>5. Phases!Set(c, PhaseObject(s))
    BY <1>9, BecomeSet DEF FinishProvisioning, LifecycleInv
  <2> QED
    BY <1>2, <2>1, <2>4, <2>5
    DEF Phases!PhaseStep, Phases!FinishProvisioning, Phases!Shift
<1>10. CASE StartUse(c)
  <2>1. PhaseOf(o) = "available" /\ PhaseOf(with("in use")) = "in use"
    BY <1>1, <1>4, <1>10, PhaseOfObject DEF StartUse, Move, StatusStates
  <2> QED
    BY <1>2, <1>5, <1>10, <2>1 DEF StartUse, Move, StatusStates, Phases!PhaseStep, Phases!StartUse
<1>11. CASE ProvisionInUse(c)
  <2>1. PhaseOf(o) = "in use" /\ PhaseOf(with("provisioning")) = "new"
    BY <1>1, <1>4, <1>11, PhaseOfObject DEF ProvisionInUse, Move, StatusStates
  <2> QED
    BY <1>2, <1>5, <1>11, <2>1
    DEF ProvisionInUse, Move, IsFallbackPool, StatusStates, Phases!PhaseStep, Phases!ProvisionInUse
<1>12. CASE TakeBack(c)
  <2>1. PhaseOf(o) = "in use"
    BY <1>1, <1>3, <1>12, PhaseOfObject DEF TakeBack
  <2> QED
    BY <1>2, <1>12, <2>1, SpecSet DEF TakeBack, SpecStates, Phases!PhaseStep, Phases!TakeBack
<1>13. CASE StartCleaning(c)
  <2>1. PhaseOf(o) = "in use" /\ PhaseOf(with("cleaning")) = "cleaning"
    BY <1>1, <1>4, <1>13, PhaseOfObject DEF StartCleaning, Move, StatusStates
  <2> QED
    BY <1>2, <1>5, <1>13, <2>1
    DEF StartCleaning, Move, StatusStates, Phases!PhaseStep, Phases!StartCleaning
<1>14. CASE WaitCleaning(c)
  <2> DEFINE s == IF IsFallbackPool(o)
                  THEN [o EXCEPT !.state = "cleaning wait", !.addr = FALSE]
                  ELSE [o EXCEPT !.state = "cleaning wait"]
  <2>1. o.live /\ PhaseOf(o) = "cleaning"
    BY <1>1, <1>3, <1>14, PhaseOfObject DEF WaitCleaning
  <2>2. s \in Objects /\ s.live /\ s.state = "cleaning wait"
    BY <1>1, <2>1 DEF Objects, StatusStates
  <2>3. PhaseOf(s) = "cleaning"
    BY <2>2, PhaseOfObject
  <2>4. PhaseObject(s) = obj
    BY <1>1, <2>1, <2>3 DEF PhaseObject, Objects
  <2> QED
    BY <1>14, <2>4, BecomeSet DEF WaitCleaning, LifecycleInv
<1>15. CASE FinishCleaning(c)
  <2>1. PhaseOf(o) = "cleaning" /\ PhaseOf(with("available")) = "available"
    BY <1>1, <1>4, <1>15, PhaseOfObject DEF FinishCleaning, Move, StatusStates
  <2> QED
    BY <1>5, <1>15, <2>1
    DEF FinishCleaning, Move, StatusStates, Phases!PhaseStep, Phases!FinishCleaning
<1>16. CASE StartMaintenance(c)
  <2>1. PhaseOf(o) = "available" /\ PhaseOf(with("maintenance")) = "maintenance"
    BY <1>1, <1>4, <1>16, PhaseOfObject DEF StartMaintenance, Move, StatusStates
  <2> QED
    BY <1>2, <1>5, <1>16, <2>1
    DEF StartMaintenance, Move, StatusStates, Phases!PhaseStep, Phases!StartMaintenance
<1>17. CASE EndMaintenance(c)
  <2>1. PhaseOf(o) = "maintenance" /\ PhaseOf(with("available")) = "available"
    BY <1>1, <1>4, <1>17, PhaseOfObject DEF EndMaintenance, Move, StatusStates
  <2> QED
    BY <1>2, <1>5, <1>17, <2>1
    DEF EndMaintenance, Move, StatusStates, Phases!PhaseStep, Phases!EndMaintenance
<1>18. CASE StartDeletion(c)
  <2>1. PhaseOf(o) \in {"available", "maintenance"} /\ PhaseOf(with("delete")) = "delete"
    BY <1>1, <1>4, <1>18, PhaseOfObject DEF StartDeletion, Move, StatusStates
  <2>2. Phases!Shift(c, PhaseOf(o), "delete")
    BY <1>5, <1>18, <2>1 DEF StartDeletion, Move, StatusStates
  <2> QED
    BY <1>2, <1>18, <2>1, <2>2 DEF StartDeletion, Phases!PhaseStep, Phases!StartDeletion
<1>19. CASE Remove(c)
  <2>1. PhaseOf(o) = "delete"
    BY <1>1, <1>3, <1>19, PhaseOfObject DEF Remove
  <2> QED
    BY <1>2, <1>19, <2>1, BecomeSet, PhaseOfAbsent
    DEF Remove, LifecycleInv, Phases!PhaseStep, Phases!Remove
<1> QED
  BY <1>6, <1>7, <1>8, <1>9, <1>10, <1>11, <1>12, <1>13, <1>14, <1>15, <1>16, <1>17, <1>18, <1>19
  DEF LifecycleStep

\* The flags are seen as they are.
LEMMA FlagSet ==
    ASSUME NEW o \in Objects, NEW b \in BOOLEAN
    PROVE  /\ PhaseObject([o EXCEPT !.evict = b]) = [PhaseObject(o) EXCEPT !.evict = b]
           /\ PhaseObject([o EXCEPT !.del = b]) = [PhaseObject(o) EXCEPT !.del = b]
<1> DEFINE e == [o EXCEPT !.evict = b]
           d == [o EXCEPT !.del = b]
<1>1. /\ e.live = o.live /\ e.state = o.state /\ e.spec = o.spec
      /\ e.pool = o.pool /\ e.evict = b /\ e.del = o.del
  BY DEF Objects
<1>2. /\ d.live = o.live /\ d.state = o.state /\ d.spec = o.spec
      /\ d.pool = o.pool /\ d.evict = o.evict /\ d.del = b
  BY DEF Objects
<1>3. PhaseOf(e) = PhaseOf(o) /\ PhaseOf(d) = PhaseOf(o)
  BY <1>1, <1>2 DEF PhaseOf
<1> QED
  BY <1>1, <1>2, <1>3 DEF PhaseObject

\* Every change by another writer is one of those PhaseNext has, or not seen.
LEMMA OthersImplement ==
    ASSUME LifecycleInv, NEW c \in CIRs, OtherWriters(c)
    PROVE  Phases!PhaseNext \/ UNCHANGED Phases!phaseVars
<1> DEFINE o == cir[c]
           obj == PhaseObject(o)
<1>1. ObjectInv(o) /\ o \in Objects
  BY DEF LifecycleInv, ObjectInv
<1>2. /\ obj.phase = PhaseOf(o) /\ obj.evict = o.evict /\ obj.del = o.del
      /\ o.spec \in {"none", "available"} => obj.spec = "free"
      /\ o.spec \notin {"none", "available"} => obj.spec = o.spec
  BY <1>1, PhaseFields
<1>3. o.live => PhaseOf(o) # "absent"
  BY <1>1, PhaseOfObject DEF ObjectInv, Objects, StatusStates
<1>4. ASSUME NEW p \in Pools, Create(c, p)
      PROVE  Phases!PhaseNext
  <2> DEFINE n == Created(p)
  <2> DEFINE g == [Phases!Gone EXCEPT !.phase = "new", !.pool = p]
  <2>1. /\ n.live /\ n.state = "none" /\ n.spec = "none" /\ n.pool = p
        /\ n.evict = FALSE /\ n.del = FALSE
    BY DEF Created, Absent
  <2>2. PhaseOf(n) = "new"
    BY <2>1 DEF PhaseOf
  <2>3. /\ DOMAIN g = {"phase", "spec", "pool", "evict", "del"}
        /\ g = [f \in DOMAIN g |-> g[f]]
    BY DEF Phases!Gone
  <2>4. g.phase = "new" /\ g.spec = "free" /\ g.pool = p /\ g.evict = FALSE /\ g.del = FALSE
    BY DEF Phases!Gone
  <2>5. PhaseObject(n) = g
    <3> HIDE DEF g, n
    <3> QED
      BY <2>1, <2>2, <2>3, <2>4 DEF PhaseObject
  <2>6. PhaseOf(o) = "absent"
    BY <1>1, <1>4, PhaseOfAbsent DEF Create
  <2>7. Phases!Set(c, PhaseObject(n))
    BY <1>4, BecomeSet DEF Create, LifecycleInv
  <2>8. Phases!Create(c, p)
    BY <1>2, <2>5, <2>6, <2>7 DEF Phases!Create
  <2> QED
    BY <2>8 DEF Phases!PhaseNext
<1>5. CASE Evict(c)
  <2>1. o.live /\ o.state \in {"available", "maintenance"} /\ ~o.evict
    BY <1>1, <1>5 DEF Evict, ObjectInv
  <2>2. PhaseOf(o) \in {"available", "maintenance"}
    BY <1>1, <2>1, PhaseOfObject
  <2>3. PhaseObject([o EXCEPT !.evict = TRUE]) = [obj EXCEPT !.evict = TRUE]
    BY <1>1, FlagSet
  <2>4. Phases!Evict(c)
    BY <1>2, <1>5, <2>1, <2>2, <2>3, BecomeSet
    DEF Evict, LifecycleInv, Phases!Evict, Phases!Evictable
  <2> QED
    BY <2>4 DEF Phases!PhaseNext
<1>6. CASE Delete(c)
  <2>1. PhaseOf(o) # "absent" /\ ~o.del
    BY <1>3, <1>6 DEF Delete
  <2>2. CASE o.fin
    <3>1. PhaseObject([o EXCEPT !.del = TRUE]) = [obj EXCEPT !.del = TRUE]
      BY <1>1, FlagSet
    <3>2. Phases!Set(c, [obj EXCEPT !.del = TRUE])
      BY <1>6, <2>2, <3>1, BecomeSet DEF Delete, Deleted, LifecycleInv
    <3> QED
      BY <1>2, <2>1, <3>2 DEF Phases!PhaseNext, Phases!Delete
  <2>3. CASE ~o.fin
    <3>1. PhaseOf(o) = "new" /\ o.spec # "in use"
      BY <1>1, <1>6, <2>3, PhaseOfObject DEF ObjectInv, Delete
    <3>2. obj.spec # "in use"
      BY <1>2, <3>1
    <3>3. Phases!Set(c, Phases!Gone)
      BY <1>6, <2>3, BecomeSet, PhaseOfAbsent DEF Delete, Deleted, LifecycleInv
    <3> QED
      BY <1>2, <2>1, <3>1, <3>2, <3>3 DEF Phases!PhaseNext, Phases!Delete
  <2> QED
    BY <2>2, <2>3
<1>7. CASE ClientAcquire(c)
  <2>1. PhaseOf(o) = "available" /\ o.spec \in {"none", "available"}
    BY <1>1, <1>7, PhaseOfObject DEF ClientAcquire, Objects, SpecStates
  <2>2. Phases!Acquire(c)
    BY <1>2, <1>7, <2>1, SpecSet DEF ClientAcquire, SpecStates, Phases!Acquire
  <2> QED
    BY <2>2 DEF Phases!PhaseNext
<1>8. CASE ClientRelease(c)
  <2>1. PhaseOf(o) = "in use"
    BY <1>1, <1>8, PhaseOfObject DEF ClientRelease
  <2>2. Phases!Release(c) \/ UNCHANGED Phases!phaseVars
    BY <1>2, <1>8, <2>1, SpecSet DEF ClientRelease, SpecStates, Phases!Release
  <2> QED
    BY <2>2 DEF Phases!PhaseNext
<1>9. CASE AdminMaintenance(c)
  <2>1. obj.spec # "maintenance"
    BY <1>1, <1>2, <1>9 DEF AdminMaintenance
  <2>2. Phases!RequestMaintenance(c)
    BY <1>2, <1>3, <1>9, <2>1, SpecSet DEF AdminMaintenance, SpecStates, Phases!RequestMaintenance
  <2> QED
    BY <2>2 DEF Phases!PhaseNext
<1>10. CASE AdminResume(c)
  <2>1. Phases!RequestResume(c)
    BY <1>2, <1>10, SpecSet DEF AdminResume, SpecStates, Phases!RequestResume
  <2> QED
    BY <2>1 DEF Phases!PhaseNext
<1> QED
  BY <1>4, <1>5, <1>6, <1>7, <1>8, <1>9, <1>10 DEF OtherWriters

LEMMA InitImplements == StoreInit => LifecycleInv /\ Phases!PhaseInit
<1> SUFFICES ASSUME StoreInit PROVE LifecycleInv /\ Phases!PhaseInit
  OBVIOUS
<1>1. LifecycleInv
  BY AbsentInv DEF StoreInit, LifecycleInv, ObjectInv
<1>2. [c \in CIRs |-> PhaseObject(cir[c])] = [c \in CIRs |-> Phases!Gone]
  BY PhaseOfAbsent DEF StoreInit
<1>3. {} = {} \X CIRs
  OBVIOUS
<1> QED
  BY <1>1, <1>2, <1>3 DEF Phases!PhaseInit

LEMMA NextImplements ==
    ASSUME LifecycleInv, [LifecycleNext]_storeVars
    PROVE  [Phases!PhaseNext]_(Phases!phaseVars)
<1>1. ASSUME UNCHANGED cir
      PROVE  UNCHANGED Phases!phaseVars
  BY <1>1 DEF Phases!phaseVars
<1>2. CASE UNCHANGED storeVars
  BY <1>1, <1>2 DEF storeVars
<1>3. ASSUME NEW c \in CIRs, Sync(c)
      PROVE  UNCHANGED Phases!phaseVars
  BY <1>1, <1>3 DEF Sync
<1>4. ASSUME NEW c \in CIRs, LifecycleStep(c)
      PROVE  [Phases!PhaseNext]_(Phases!phaseVars)
  BY <1>4, StepImplements DEF Phases!PhaseNext
<1> QED
  BY <1>2, <1>3, <1>4, OthersImplement DEF LifecycleNext

(* The invariant: an object that somebody has acquired, or that has left   *)
(* its first state, has the finalizer, and absent objects have no state:   *)
(* whoever deletes an object without the finalizer (deleteCIResources, or  *)
(* kubectl) loses nobody's instance.                                       *)
THEOREM LifecycleInvariant == LifecycleSpec => []LifecycleInv
<1> QED
  BY InitImplements, NextInv, PTL DEF LifecycleSpec

(* The state machine, seen as CIPoolController and OfcirAPI see it, does   *)
(* nothing but what these two are built on.                                *)
THEOREM LifecycleImplementsPhases == LifecycleSpec => ImplementsPhases
<1> QED
  BY InitImplements, NextImplements, LifecycleInvariant, PTL
  DEF LifecycleSpec, ImplementsPhases, Phases!PhaseSpec
================================================================================
