------------------------------- MODULE OfcirAPI -------------------------------
(***************************************************************************)
(* The REST API, pkg/server/commands: clients acquire and release          *)
(* CIResources.  A handler reads from the API server (no informer here),   *)
(* then writes; other handlers, both reconcilers and administrators work   *)
(* in between.  The CIResources are those of CIResourcePhases; their names *)
(* are numerals.  The pools stay as they are.                              *)
(***************************************************************************)
EXTENDS CIResourcePhases, Integers

CONSTANTS
    Priority,     \* Spec.Priority of every pool
    Authorized,   \* the pools that every client's token is good for
    OfType,       \* the pools of the types that every client asks for
    MaxMishaps    \* bound on what may happen, once each, of Mishaps

Clients == Readers

\* fault: a request fails, or its answer is lost; stray release: a client
\* releases what it does not hold; the others are the work of administrators
\* and the pool reconciler.
Mishaps == { "fault", "stray release", "eviction", "deletion", "maintenance" }

ASSUME APIAssumption ==
    /\ CIRs \subseteq Nat
    /\ Priority \in [Pools -> Int]
    /\ FallbackPools = { p \in Pools : Priority[p] = -1 }
    /\ Authorized \in [Clients -> SUBSET Pools]
    /\ OfType \in [Clients -> SUBSET Pools]
    /\ MaxMishaps \in Nat

VARIABLES
    req,    \* the request every client has under way
    held,   \* ghost: the CIResources that every client has been given and
            \* has neither released nor lost to the timeout or a deletion
    mishaps \* ghost: those of Mishaps that have happened

vars == <<phaseVars, req, held, mishaps>>

NoRequest == [op |-> "none"]

\* todo: the candidates of a list that have not been tried, with their pools.
Requests ==
    {NoRequest}
    \union [op : {"acquire"}, todo : SUBSET (CIRs \X Pools)]
    \union [op : {"release"}, cir : CIRs]

TypeOK ==
    /\ PhaseTypeOK
    /\ req \in [Clients -> Requests]
    /\ held \in [Clients -> SUBSET CIRs]
    /\ mishaps \in SUBSET Mishaps

Init ==
    /\ PhaseInit
    /\ req = [k \in Clients |-> NoRequest]
    /\ held = [k \in Clients |-> {}]
    /\ mishaps = {}

-----------------------------------------------------------------------------

Happens(m) ==
    /\ m \notin mishaps
    /\ Cardinality(mishaps) < MaxMishaps
    /\ mishaps' = mishaps \union {m}

Usable(k) == Authorized[k] \intersect OfType[k]

\* Bug: neither the state nor the pool is looked at.
Candidate_Unfiltered(k, c) == obj[c].spec = "free"

Candidate(k, c) ==
    /\ obj[c].phase = "available"
    /\ obj[c].spec = "free"
    /\ obj[c].pool \in Usable(k)

Ask(k, r) == req' = [req EXCEPT ![k] = r]
Answer(k) == Ask(k, NoRequest)

\* k reads object c, or all of them.
Read(k, cs) == latest' = latest \union ({k} \X cs)

\* Bug: the Update does not carry the version that was read.
UpdateSpec_AnyVersion(k, c, spec) ==
    /\ obj[c].phase # "absent"
    /\ IF obj[c].spec = spec THEN UNCHANGED phaseVars
       ELSE Set(c, [obj[c] EXCEPT !.spec = spec])

\* Client.Update of the copy that k read, with another Spec.State: whether to was
\* decided on the copy, and the API server looks at nothing but its version.
\* Writing the Spec.State that it has already leaves an object as it is.
UpdateSpec(k, c, spec) ==
    /\ HasLatest(k, c)
    /\ IF obj[c].spec = spec THEN UNCHANGED phaseVars
       ELSE Set(c, [obj[c] EXCEPT !.spec = spec])

(* POST /ofcir.                                                            *)

\* The two List calls, and what they leave to try.
StartAcquire(k) ==
    /\ req[k] = NoRequest
    /\ Usable(k) # {}
    /\ Ask(k, [op |-> "acquire",
               todo |-> { <<c, obj[c].pool>> : c \in { d \in CIRs : Candidate(k, d) } }])
    /\ Read(k, CIRs)
    /\ UNCHANGED <<obj, held, mishaps>>

\* Bug: fallback pools are sorted in with the others.
Preferred_OneList(todo) == { x \in todo : \A y \in todo : Priority[x[2]] <= Priority[y[2]] }

\* Which candidate comes next: one of the pools with the lowest priority, in
\* random order; after them, the fallback ones, by name.
Preferred(todo) ==
    LET default == { x \in todo : Priority[x[2]] >= 0 } IN
    IF default # {}
    THEN { x \in default : \A y \in default : Priority[x[2]] <= Priority[y[2]] }
    ELSE { x \in todo : \A y \in todo : x[1] <= y[1] }

Grant(k, x) ==
    /\ UpdateSpec(k, x[1], "in use")
    /\ held' = [held EXCEPT ![k] = @ \union {x[1]}]
    /\ Answer(k)

\* Bug: a refused Update ends the search.
Refused_GivesUp(k, x) ==
    /\ ~HasLatest(k, x[1])
    /\ Ask(k, [req[k] EXCEPT !.todo = {}])
    /\ UNCHANGED <<phaseVars, held>>

Refused(k, x) ==
    /\ ~HasLatest(k, x[1])
    /\ Ask(k, [req[k] EXCEPT !.todo = @ \ {x}])
    /\ UNCHANGED <<phaseVars, held>>

lookForAvailableResource(k) ==
    /\ req[k].op = "acquire"
    /\ \E x \in Preferred(req[k].todo) : Grant(k, x) \/ Refused(k, x)
    /\ UNCHANGED <<mishaps>>

\* 404.
NotFound(k) ==
    /\ req[k].op = "acquire" /\ req[k].todo = {}
    /\ Answer(k)
    /\ UNCHANGED <<phaseVars, held, mishaps>>

(* DELETE /ofcir/<name>.                                                   *)

\* Get.  In any other phase, or without the right token, the request is
\* refused and changes nothing.
StartRelease(k, c) ==
    /\ req[k] = NoRequest
    /\ IF c \in held[k] THEN UNCHANGED mishaps ELSE Happens("stray release")
    /\ obj[c].pool \in Authorized[k]
    /\ obj[c].phase = "in use"
    /\ Ask(k, [op |-> "release", cir |-> c])
    /\ Read(k, {c})
    /\ UNCHANGED <<obj, held>>

\* Bug: the Update does not carry the version of the Get.
FinishRelease_AnyVersion(k) ==
    LET c == req[k].cir IN
    /\ req[k].op = "release"
    /\ Set(c, [obj[c] EXCEPT !.spec = "free"])
    /\ held' = [held EXCEPT ![k] = @ \ {c}]
    /\ Answer(k)
    /\ UNCHANGED <<mishaps>>

FinishRelease(k) ==
    LET c == req[k].cir IN
    /\ req[k].op = "release"
    /\ Answer(k)
    /\ \/ /\ UpdateSpec(k, c, "free")
          /\ held' = [held EXCEPT ![k] = @ \ {c}]
       \/ /\ ~HasLatest(k, c)
          /\ UNCHANGED <<phaseVars, held>>
    /\ UNCHANGED <<mishaps>>

(* A failure in a handler: it runs out of time, or dies; or one Update     *)
(* fails, or looks as if it did.                                           *)

Abort(k) ==
    /\ req[k] # NoRequest
    /\ Answer(k)
    /\ UNCHANGED <<phaseVars, held>>

FailedGrant(k) ==
    /\ req[k].op = "acquire"
    /\ \E x \in Preferred(req[k].todo) :
          /\ Ask(k, [req[k] EXCEPT !.todo = @ \ {x}])
          /\ \/ UNCHANGED phaseVars
             \/ UpdateSpec(k, x[1], "in use")
    /\ UNCHANGED held

LostRelease(k) ==
    LET c == req[k].cir IN
    /\ req[k].op = "release"
    /\ UpdateSpec(k, c, "free")
    /\ held' = [held EXCEPT ![k] = @ \ {c}]
    /\ Answer(k)

Fault(k) ==
    /\ Happens("fault")
    /\ Abort(k) \/ FailedGrant(k) \/ LostRelease(k)

-----------------------------------------------------------------------------
(* Everybody else.                                                         *)

ReconcileCIR(c) ==
    /\ PhaseStep(c)
    /\ held' = IF TakeBack(c) \/ Remove(c) THEN [k \in Clients |-> held[k] \ {c}] ELSE held
    /\ UNCHANGED <<req, mishaps>>

\* An administrator keeps off what a client has acquired.
Edit(c) ==
    /\ \/ Happens("eviction") /\ Evict(c)
       \/ Happens("deletion") /\ Delete(c)
       \/ Happens("maintenance") /\ obj[c].spec = "free" /\ RequestMaintenance(c)
       \/ UNCHANGED mishaps /\ RequestResume(c)
    /\ UNCHANGED <<req, held>>

Provide(c) ==
    /\ \E p \in Pools : Create(c, p)
    /\ UNCHANGED <<req, held, mishaps>>

Next ==
    \/ \E k \in Clients :
          \/ StartAcquire(k) \/ lookForAvailableResource(k) \/ NotFound(k)
          \/ FinishRelease(k) \/ \E c \in CIRs : StartRelease(k, c)
          \/ Fault(k)
    \/ \E c \in CIRs : ReconcileCIR(c) \/ Edit(c) \/ Provide(c)

Spec == Init /\ [][Next]_vars

-----------------------------------------------------------------------------
(* Properties.                                                             *)

(* Two clients never hold the same CIResource, with any interleaving of    *)
(* their lists, gets and updates, the reconciler's timeout and lost        *)
(* answers.  For clients that release only what they hold: a release names *)
(* a CIResource, not a lease.                                              *)
ExclusiveLease ==
    "stray release" \notin mishaps =>
        \A j, k \in Clients : j # k => held[j] \intersect held[k] = {}

Before(p, q) == Priority[p] >= 0 /\ (Priority[q] < 0 \/ Priority[p] < Priority[q])

(* A CIResource is given to a client only when no other that the client    *)
(* may use, is still free and has not changed since the list, is in a pool *)
(* with a lower priority; fallback pools come last.  For requests that do  *)
(* not fail.                                                               *)
GrantsByPriority ==
    [][\A k \in Clients : "fault" \notin mishaps => \A c \in held'[k] \ held[k] :
         ~\E d \in CIRs :
             HasLatest(k, d) /\ Candidate(k, d) /\ Before(obj[d].pool, obj[c].pool)]_vars

(* A client is turned away only when everything it could have had was      *)
(* taken, or otherwise changed, since the list.  For requests that do not  *)
(* fail.                                                                   *)
NoFalseNotFound ==
    [][\A k \in Clients :
         /\ req[k].op = "acquire" /\ req'[k] = NoRequest /\ obj' = obj
         /\ "fault" \notin mishaps'
         => ~\E d \in CIRs : HasLatest(k, d) /\ Candidate(k, d)]_vars

PhasesImplemented == INSTANCE CIResourcePhases WITH latest <- {}, Readers <- {}

(* The handlers' reads and writes amount to the atomic steps Acquire and   *)
(* Release of CIResourcePhases, whatever happened in between and whoever   *)
(* releases: a Spec.State decided on an old copy is never written over     *)
(* what the others have made of the object since.                          *)
ImplementsPhases == PhasesImplemented!PhaseSpec
=============================================================================
