----------------------------- MODULE ProviderCalls -----------------------------
(***************************************************************************)
(* The side of the CIResource reconciler that all providers see: what      *)
(* every CIResource names, and which call comes next for it.  One worker   *)
(* makes all calls, and records the result of a call after it: when that   *)
(* fails the call is made again.                                           *)
(***************************************************************************)
EXTENDS Naturals, FiniteSets

CONSTANTS
    CIRs,
    Fallback,   \* the CIResources of fallback pools
    Machines,   \* what CIResources name: hosts, devices, instances, domains
    NoMachine,
    MaxMishaps  \* bound on how many of a provider's mishaps happen, once each

ASSUME CallsAssumption ==
    /\ Fallback \subseteq CIRs
    /\ NoMachine \notin Machines
    /\ MaxMishaps \in Nat

VARIABLES
    use,     \* what every CIResource names, and what it is doing with it
    dirty,   \* machines that a client has used since they were last installed
    mishaps  \* ghost: what has gone wrong

callVars == <<use, dirty, mishaps>>

Steps == { "none", "acquiring", "available", "in use", "cleaning", "releasing" }

CallsTypeOK ==
    /\ use \in [CIRs -> [step : Steps, id : Machines \union {NoMachine}]]
    /\ \A c \in CIRs : use[c].id = NoMachine <=> use[c].step = "none"
    /\ dirty \in SUBSET Machines

Unused == [step |-> "none", id |-> NoMachine]

CallsInit ==
    /\ use = [c \in CIRs |-> Unused]
    /\ mishaps = {}

Happens(m) ==
    /\ m \notin mishaps
    /\ Cardinality(mishaps) < MaxMishaps
    /\ mishaps' = mishaps \union {m}

AllWell == UNCHANGED mishaps

-----------------------------------------------------------------------------
(* Which calls may be made for c, by the state of the state machine.       *)

MayAcquire(c) == use[c].step = "none"
MayComplete(c) == use[c].step \in {"acquiring", "cleaning"}
MayClean(c) == use[c].step = "in use" /\ c \notin Fallback

\* A fallback CIResource is released after use, any other when it is deleted.
MayRelease(c) ==
    \/ use[c].step \in {"available", "releasing"}
    \/ use[c].step = "in use" /\ c \in Fallback

(* What is recorded after a call.                                          *)

Name(c, step, m) == use' = [use EXCEPT ![c] = [step |-> step, id |-> m]]
Forget(c) == use' = [use EXCEPT ![c] = Unused]

\* Clean was called for the machine of c.
Recorded(c, step) ==
    \/ AllWell /\ Name(c, step, use[c].id)
    \/ Happens("lost") /\ UNCHANGED use

\* Release was called for the machine of c.
Released(c) ==
    \/ AllWell /\ Forget(c)
    \/ Happens("lost release") /\ Name(c, "releasing", use[c].id)

Named(m) == \E c \in CIRs : use[c].id = m

\* A client works on what it has been given.
ClientUse(c) ==
    /\ use[c].step = "available"
    /\ Name(c, "in use", use[c].id)
    /\ dirty' = dirty \union {use[c].id}
    /\ UNCHANGED mishaps
=============================================================================
