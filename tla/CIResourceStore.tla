--------------------------- MODULE CIResourceStore ---------------------------
(***************************************************************************)
(* The CIResource objects as the Kubernetes API server keeps them, and the *)
(* informer's copies of them, which is what both reconcilers read.         *)
(*                                                                         *)
(* The API server is not part of the repository.  It is modelled from how  *)
(* the reconcilers and the REST handlers use it: every Update carries the  *)
(* resourceVersion of the copy it was computed from and is refused when    *)
(* the object has changed since.  Instead of a version number, which would *)
(* grow without bound, `current' remembers which readers hold a copy of an *)
(* object that is still its latest version.                                *)
(***************************************************************************)
EXTENDS Naturals, FiniteSets

CONSTANTS
    CIRs,             \* names of the CIResource objects ("cir-0001", ...)
    Pools,            \* names of the CIPools
    FallbackPools,    \* those with Priority -1
    NoPool,           \* the PoolRef of no object
    ResourceIds,      \* the values of Status.ResourceId
    NoInstance,       \* Status.ResourceId == ""
    FallbackResource, \* Status.ResourceId == fallbackResourceID
    Readers           \* the holders of copies; the informer is one of them

Informer == "informer"

ASSUME StoreAssumption ==
    /\ FallbackPools \subseteq Pools
    /\ NoPool \notin Pools
    /\ NoInstance \in ResourceIds
    /\ FallbackResource \in ResourceIds
    /\ NoInstance # FallbackResource
    /\ Informer \in Readers

VARIABLES
    cir,      \* the objects at the API server
    cache,    \* the informer's copies
    current   \* <<r, c>>: the copy of c that r holds is the latest version

storeVars == <<cir, cache, current>>

\* Status.State.  "" is written "none"; "error" is declared but never set.
StatusStates ==
    { "none", "provisioning", "provisioning wait", "available", "in use",
      "maintenance", "cleaning", "cleaning wait", "delete", "error" }

\* Spec.State, as the pool controller, the API and an administrator set it.
SpecStates == { "none", "available", "in use", "maintenance" }

(* live: the object exists; fin: it has the ofcir finalizer; del: its      *)
(* deletion timestamp is set; evict: it has the eviction label; pool: its  *)
(* PoolRef.  Address and Extra are set and cleared together, so one flag,  *)
(* addr, stands for both.                                                  *)
Objects ==
    [ live : BOOLEAN, fin : BOOLEAN, del : BOOLEAN, evict : BOOLEAN,
      pool : Pools \union {NoPool}, spec : SpecStates,
      state : StatusStates, id : ResourceIds, addr : BOOLEAN ]

Absent ==
    [ live |-> FALSE, fin |-> FALSE, del |-> FALSE, evict |-> FALSE,
      pool |-> NoPool, spec |-> "none",
      state |-> "none", id |-> NoInstance, addr |-> FALSE ]

\* createCIResource: the object as the pool reconciler creates it.
Created(pool) == [Absent EXCEPT !.live = TRUE, !.pool = pool]

IsFallbackPool(obj) == obj.pool \in FallbackPools

StoreTypeOK ==
    /\ cir \in [CIRs -> Objects]
    /\ cache \in [CIRs -> Objects]
    /\ current \in SUBSET (Readers \X CIRs)

StoreInit ==
    /\ cir = [c \in CIRs |-> Absent]
    /\ cache = [c \in CIRs |-> Absent]
    /\ current = {Informer} \X CIRs

-----------------------------------------------------------------------------

\* The object gets a new version: every copy of it is now an old one.  The
\* readers in `done' are through with all their copies.
Store(c, obj, done) ==
    /\ cir' = [cir EXCEPT ![c] = obj]
    /\ current' = { p \in current : p[2] # c /\ p[1] \notin done }

Holds(r, c) == <<r, c>> \in current

\* Client.Update: the main resource.  The status is ignored; an object under
\* deletion goes away with its last finalizer.
Updated(c, obj) ==
    IF cir[c].del /\ ~obj.fin
    THEN Absent
    ELSE [cir[c] EXCEPT !.spec = obj.spec, !.fin = obj.fin, !.evict = obj.evict]

\* Client.Status().Update: the status subresource.  The rest is ignored.
StatusUpdated(c, obj) ==
    [cir[c] EXCEPT !.state = obj.state, !.id = obj.id, !.addr = obj.addr]

\* Delete, or one object of a DeleteAllOf: an object with a finalizer is only
\* marked.
Deleted(c) == IF cir[c].fin THEN [cir[c] EXCEPT !.del = TRUE] ELSE Absent

\* The informer catches up with an object.  The intermediate versions it may
\* deliver on the way are those of a catch-up that happened earlier.
Sync(c) ==
    /\ ~Holds(Informer, c)
    /\ cache' = [cache EXCEPT ![c] = cir[c]]
    /\ current' = current \union {<<Informer, c>>}
    /\ UNCHANGED cir

\* The copies r reads out of the informer: as current as the informer's.
ReadFromCache(r, cs) ==
    current' = { p \in current : p[1] # r \/ p[2] \notin cs }
               \union { <<r, c>> : c \in { d \in cs : Holds(Informer, d) } }

\* r is done with its copies.
Forget(r) == { p \in current : p[1] # r }
=============================================================================
