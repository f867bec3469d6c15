# OFCIR: specifications, model checking and proofs

OFCIR hands out machines to CI jobs. An operator keeps pools of `CIResource`
objects (CIRs), each standing for a machine at some provider; a REST API lets
clients acquire and release them. This directory holds TLA+ modules for that
system, TLC configurations that check them on small instances, and a TLAPS
proof for every size. Paths below are relative to the repository (`src/`).

## 1. The system

| Component | State | Operations |
|---|---|---|
| CIR objects, at the Kubernetes API server (`api/v1/ciresource_types.go`) | spec.state (what is wanted), status.state (where the state machine is), resource id, address, finalizer, deletion timestamp, eviction label, resourceVersion | Create, Update, status Update, Delete, DeleteAllOf, List, Get |
| CIR reconciler (`controllers/ciresource_controller.go`, `ciresource_fsm.go`) | none of its own: the informer's copy of the object it works on | one handler per status.state, each ending in at most one write |
| CIPool reconciler (`controllers/cipool_controller.go`) | the CIPool objects (size, state, finalizer), the informer's copies of pools and CIRs | finalizer, state, status size, create a batch of CIRs, evict a batch, empty a deleted pool |
| REST API (`pkg/server`) | none; tokens in a secret | acquire (list, choose, update), release (get, update), status (gets) |
| Providers (`pkg/providers`) | instances at a cloud, hypervisor or in a fixed set of hosts | Acquire, AcquireCompleted, Clean, CleanCompleted, Release |
| Typed clients, provider factory, dummy provider, start-up | - | pure I/O or stateless, not modelled |

How they interact: only through the CIR and CIPool objects and provider calls.
Both reconcilers read from *informers*, which lag behind the API server; the
REST handlers read from the API server itself. All write with the
`resourceVersion` they read, so a write computed from an old copy is refused.
Provider calls are not protected by that: they are made before the write.
Each reconciler has one worker (`MaxConcurrentReconciles: 1`); the two workers,
any number of REST handlers and administrators with kubectl run concurrently.

What is hard: handlers that run on stale copies; the gap between a provider
call and the write that records it; crashes and lost answers in that gap;
lists that miss objects just created; batches that stop half way; leases that
nobody ends; deletion meeting acquisition. `PROJECT.json` lists these hazards
at their lines.

What makes it correct:

- *CIR reconciler*: a client gets an instance that is ready, clean and no one
  else's; instances are not forgotten; a fallback CIR costs an instance only
  while it is leased; leases, grants and deletions get somewhere; and all of it
  looks to the others like one atomic life cycle.
- *Pool reconciler*: as many CIRs as asked for, no surplus; evictions only of
  idle CIRs; deleted pools go, and only when they are empty.
- *REST API*: one holder per CIR, pools in order of priority, no false 404.
- *Providers*: the contract of `provider.go`; and behind it, no machine with two
  users, none given out with the data of the last one, none forgotten, no more
  than the size of the pool.

## 2. Modules

```
                 ProviderCalls
               /       |        \
  HostProviders  CloudProviders  LibvirtProvider
               \       |        /
                  (implement)           CIResourceStore
                       |                       |
                    Provider          CIResourceLifecycle --implements--> CIResourcePhases
                           \          /                                    ^          ^
                      CIResourceController                    CIPoolController    OfcirAPI
                  (implements CIResourceLifecycle)             (both EXTEND CIResourcePhases)
```

The system is split by assume and guarantee. The reconcilers and the API meet
in the objects only, so each is modelled in full detail against an abstract
account of the others, and the accounts are themselves checked:

- **CIResourceStore**: the CIR objects (`cir`), the informer's copies (`cache`)
  and optimistic concurrency. Instead of version numbers, `current` holds the
  pairs of a reader and an object of which the reader's copy is the latest
  version. `Updated` and `StatusUpdated` are the two write paths (main resource
  and status subresource; each ignores the other half). `Sync` lets the
  informer jump to the newest version: versions skipped are those of a `Sync`
  that happened earlier, so no behaviour of one object is lost.
- **Provider**: what the reconciler relies on. `inst` is the state of every
  instance at the provider, `dirty` the instances a client has used since they
  were built or cleaned. Three constants tell the kinds of providers apart:
  ids that are reused (hosts) or fresh, a typed not-found error on Release, and
  builds and cleanings that may fail for good.
- **ProviderCalls**: the reconciler as a provider sees it, shared by the three
  modules below. `use` is what every CIR names and which call comes next for it;
  a call whose result is not recorded (the operator dies, the status update is
  refused) is made again. Client work makes a machine `dirty`. What goes wrong is
  a `mishap`: each kind happens once at most, `MaxMishaps` of them in all.
- **HostProviders**: the providers of a fixed set of hosts, Ironic and IBM
  Cloud's manual hosts: `host` is what the service knows of each, its mark and
  its deployment. A call is one step with an outcome for each request of it that
  may fail; in particular, several errors are ignored by the code. That a call is
  one step is the single worker; hosts change on their own only while they are
  deployed.
- **CloudProviders**: the providers that order a machine per CIR, Equinix, AWS
  and IBM Cloud hourly. `machine` is what the cloud knows of each id, the pool it
  is tagged with is `TagOf`. The loops over metros (Equinix) and over regions,
  types and subnets (AWS) are there for what they risk, a second order after one
  that only seemed to fail. The cap of a pool, the missing Clean of AWS, the
  Clean of Equinix that is complete before it begins, installations and
  reinstallations that fail, and terminated instances that AWS still describes
  are as in the code.
- **LibvirtProvider**: a machine is a volume and a domain; `createVM` and
  `destroyVM` are sequences of requests, one step each, in `work`. A call may end
  after any of them, and the next call starts from what is there.
- Each of the three is checked to implement **Provider** under a mapping of what
  it stores to `inst` and `dirty` (`ContractState`). For the clouds that includes
  the answers: what is recorded for a CIR after a call is recorded in a step, or
  in a state, that the contract ties to that answer (`Answered`).
- **CIResourceLifecycle**: the abstract specification of the reconciler: one
  atomic step per transition, no copies, no provider, no failures; and the
  atomic effects of all other writers (`OtherWriters`).
- **CIResourceController**: the reconciler itself. A reconciliation is two
  steps: a handler (`handleStateNone`, ...), which reads the informer's copy,
  may call the provider and decides on a write (`job`); and `Commit`, which is
  accepted or refused. In between everyone else may act, or the operator die
  (`LoseWrite`). `lapsed` stands for the clock against `LastUpdated`. One `job`
  is the one worker. A handler that returns without a write, or because the
  provider returned an error, changes nothing and is no step.
- **CIResourcePhases**: the life cycle with the states merged that the pool
  reconciler and the API never ask for ("new" for "", provisioning and
  provisioning wait; "cleaning" for both cleaning states), without copies.
- **CIPoolController**: a reconciliation reads pool and list, saves at most
  once, and then makes its requests one step each (`work`): `createCIResource`
  per name, `SelectForEviction` per CIR, one `DeleteAllOf`. Whom to label is
  decided on the copies of the list (`work.idle`); the API server compares
  versions only. The finalizer of a deleted pool goes when the list shows no CIR,
  or fails: its error is ignored. CIR names are their
  numerals. Pools and CIRs come from two informers, each an earlier snapshot of
  its kind (`poolCache`, `seen`). Reading and saving the pool object are one
  step, because the save is accepted only if the pool did not change.
- **OfcirAPI**: `req` is the request every client has under way: candidates not
  tried yet, or the CIR to release. `StartAcquire` lists,
  `lookForAvailableResource` tries one candidate (`Grant` or `Refused`),
  `StartRelease` gets, `FinishRelease` updates. What to write was decided on the
  copy; `UpdateSpec` writes it to any object whose version is that of the copy. `Fault` is a timeout, a failed
  Update, or one that was applied but whose answer was lost; `mishaps` is a
  ghost that remembers which of the irregular events have happened. `held` is a ghost:
  what each client has been given and has not released or lost.
- **MC...**: the same modules with definitions that configurations need.
- **CIResourceControllerProofs**, **CIResourceLifecycleProofs**, **CIPoolControllerProofs**,
  **OfcirAPIProofs**, **HostProvidersProofs**, **CloudProvidersProofs**,
  **LibvirtProviderProofs**: theorems and proofs, each about the module of its name.
- **CIResourceRefinementProofs**, which extends the first two: what else is proved of
  CIResourceController, its refinements and what holds of every provider.

Operators named `X_Something` with a "Bug:" comment are mutations of `X`: each
is a plausible bug that the property paired with it in `PROJECT.json` catches.

## 3. Runs

All passing runs use `CHECK_DEADLOCK FALSE`: with nothing left to do, or with a
bound reached, the system stops and that is correct.

| Run | Bounds | Shows |
|---|---|---|
| Controller | 1 CIR in a host or a fallback pool, 3 instances, 1 fault, failing builds, administrators on idle CIRs | TypeOK; CleanBeforeReuse: what can be acquired carries nothing of an earlier client; IdleFallbackHasNoInstance; ImplementsLifecycle: stale copies, refused and lost writes and crashes amount to the atomic life cycle; ImplementsPhases: and that to what pool reconciler and API assume; InstanceReleasedBeforeUnlink |
| ControllerMixed | 2 CIRs in a host or a fallback pool, 1 instance | AssignedInstanceReady, IInv (the invariant of the proofs) |
| ControllerLive | 1 CIR in a host or a fallback pool, 3 instances, 2 faults, fair | LeaseEnds, GrantTakesEffect, DeletionCompletes |
| Pool | 2 pools of size up to 1, 2 names, any 2 mishaps | TypeOK; NoSurplus; RespectsPhases: what is decided on old copies changes objects only as Phases allows |
| PoolLive | 1 pool of size up to 2, 3 names, 2 of: a fault, a resize, a deletion of the pool, an acquisition; fair | PoolConverges, PoolDeletionCompletes |
| Api | 2 clients with tokens for different pools, 2 CIRs, pools of priority 0, 1 and -1, any 1 mishap | TypeOK, ExclusiveLease, GrantsByPriority, NoFalseNotFound, ImplementsPhases: reading, then writing, amounts to the atomic steps of Phases |
| Hosts | 3 CIRs, one of them in a fallback pool, 2 hosts, Ironic or IBM Cloud, any 3 mishaps, fair | TypeOK, OneUser, HandedOutClean, OnlyLossesKeepMarks: each mishap takes at most one host away for good; KeepsContract (the step contract of Provider), GetsReady |
| Clouds | 2 CIRs in a pool of size 2 and 1 in a fallback pool, 5 ids, Equinix, AWS or IBM Cloud, any 2 mishaps, fair | TypeOK, OnlyLossesLeak, PoolCap, HandedOutClean, KeepsContract (the contract of Provider, its answers included), GetsReady |
| Libvirt | 1 CIR in a host pool and 1 in a fallback pool, 3 names, any 3 mishaps, fair | TypeOK, HandedOutClean, OnlyMishapsLeave, ImplementsProvider, ReleaseCompletes, GetsReady |

Why the bounds are enough. The reconciler handles one object at a time; objects
meet only through the instances: two of them that want the same one. Three
instances allow one in use, one leaked by a fault and one to replace it. Two
faults (`MaxFaults`) in ControllerLive allow a failure while another is being
repaired; for the step properties of Controller one is enough, as a lost write
leaves nothing behind but the step that it did not take. For pools, a surplus, an
over-eviction or a name clash needs two CIRs more or less than the size
(PoolLive); a clash between pools needs one CIR of each (Pool). Two
clients are enough for every race for one CIR and, with two CIRs, for a loser
that goes on to the next. Among hosts, two CIRs compete for one; at a cloud, the
ids left over by the mishaps are counted against the pool while its CIRs look
for new ones. Ids that are new to everybody are interchangeable, so one choice
of them stands for all (`NewIds`). In the modules of pools, API and
providers, what disturbs the
ordinary course (a failed request or crash, an edit) is a *mishap*: each kind
happens once at most, and `MaxMishaps` bounds how many do; it can fall
between any two requests, and two of them can meet. `MaxSize` bounds the size of
a pool; names beyond `CIRs` are not created, and `OutOfNames` excepts the states
where that matters.

Runs that find a disagreement (`expect: violation`), each with the statement of
the repository that it contradicts, under "findings" in `PROJECT.json`:

| Run | What happens |
|---|---|
| HostGivenTwice | ids that are reused: a Release repeated from a stale copy frees another CIR's host |
| PoolOrphans | a deleted pool goes on the word of a stale, or failed, list; its last CIRs can no longer be reconciled |
| PoolDeletesGranted | a CIR acquired between eviction and deletion is deleted under its client |

Some more disagreements have no run of their own. `api/v1/cipool_types.go:35`
says that the resources of an offline pool cannot be assigned; acquire
(`pkg/server/commands/acquire.go:71`) filters pools by type and token only.
`pkg/providers/provider.go:26` says that Clean removes all data; AWS' Clean and
CleanCompleted do nothing, and libvirt's CleanCompleted does not look
(HandedOutClean of Clouds and Libvirt say what is left of it, and KeepsContract
of Clouds names what it excepts). `controllers/cipool_controller.go:254`
says that it checks whether enough have been selected for eviction, but those
that an earlier reconciliation selected, still listed, are not counted. `api/v1/ciresource_types.go:61`
calls "error" a terminal state of failed provisioning or cleaning; the code never
sets it, and an instance that failed leaves its CIR in provisioning wait, or in
cleaning wait.
`controllers/ciresource_fsm.go:176` says that a CIR is held for a limited time;
with spec.state set to maintenance while it is in use, no case of
`handleStateInUse` applies, the timeout included.

Limits to keep in mind:

- NoSurplus is about pools that are not resized, CIRs that are not deleted and
  requests that do not fail; otherwise a stale list can cause a surplus for a
  while (PoolConverges says that it goes away).
- ExclusiveLease is about clients that release only what they hold. A release
  names a CIR, not a lease: a late or repeated one ends the next client's
  lease. Hence its premise that no stray release has happened; ImplementsPhases
  holds with stray releases too.
- OneUser, HandedOutClean and KeepsContract hold until a failed request whose
  error is ignored (setting or clearing a mark, IBM Cloud's reload), or until a
  release is repeated after its result was lost: `MarksCount`.
- NoSurplus also supposes that no pool is deleted, for the numbering is common
  to all: numerals that another pool's deletion frees are used again, and the
  informer cannot tell the new CIR from the old one it still lists.
- PoolCap is about orders that failed when they seem to have; OnlyLossesLeak
  counts what remains of the others.
- HandedOutClean of CloudProviders excepts the host pools of AWS, which are never
  cleaned, and Equinix once a reinstallation was slow to begin: CleanCompleted
  then finds the device still active. KeepsContract of CloudProviders excepts the
  same two answers, Clean for the host pools of AWS (`NeverCleaned`) and
  CleanCompleted for an Equinix device that has not begun its reinstallation
  (`NotBegun`), and everything after an answer to an order was lost.
- OnlyLossesKeepMarks says how many hosts are lost at most; the code has no way
  to get one back.
- In LibvirtProvider what Clean returns for is available, though the domain may
  still be booting. A Clean that was broken off after `destroyVM` finds no domain
  ever after; GetsReady excepts that CIR, which can only be deleted.
- GrantsByPriority and NoFalseNotFound are about requests that do not fail: a
  candidate whose Update takes too long is skipped, and the client may be told
  404 although it is free.
- In ControllerMixed, and in the theorems ControllerInvariant, AssignedInstanceIsReady
  and CleanHandover, ids are not reused (`ReusesIds = FALSE`): see HostGivenTwice
  for what happens otherwise. That two CIRs never name one instance is no question
  then, for new ids are nobody's; OneUser is what is claimed of hosts.
- In the controller runs `AdminEdits` is "idle" or "never" where a property needs administrators to
  leave acquired CIRs alone, as an eviction or a maintenance edit would not.
- DeletionCompletes needs a provider that reports a missing instance as
  ResourceNotFoundError (libvirt) or accepts it (Ironic). For Equinix, AWS and
  IBM Cloud, whose Release returns another error (`ReleaseDevice`,
  `ReleaseInstance` and `ReleaseServer` are not enabled then), the deletion is
  retried for ever.

### Fairness

`FairSpec` of CIResourceController: strong fairness for `Reconcile(c)`, since
every object is queued again after each reconciliation, after an error and on
each event, and the one worker serves a first-in first-out queue (an object may
find the worker busy again and again, hence strong); weak fairness for
`Commit`, the informer, the clock and the provider's builds and cleanings.
Nothing is assumed of clients, administrators, faults or failing builds.

`FairSpec` of CIPoolController: strong fairness for `Reconcile(p)` for the same
reason (every path requeues with a delay), weak for the rest. PoolConverges has
a premise: from some time on reconciliations start only after the informers
have caught up (`Timely`), that is, an informer is faster than the delay of a
second or more between reconciliations. Without it TLC shows a pool that
alternates between creating and evicting for ever.

`FairSpec` of HostProviders and CloudProviders: weak fairness for the polling of
a call until it is complete (the reconciler asks again after a delay), for
deployments and installations; in CloudProviders also for Acquire, which is
retried after an error, and for AWS to forget what is terminated.

`FairSpec` of LibvirtProvider: weak fairness for the requests of the call under
way and for booting; strong fairness for the retries for each CIR (`Retry`),
since the one worker may be busy with another CIR each time, but serves a
first-in first-out queue. Acquisitions are not assumed to be made.

## 4. Proofs

Every invariant and every action property that a passing run checks is also
proved, for all values of the constants: any CIRs, pools, sizes, clients,
instances and hosts, and any bound on what goes wrong. The exceptions are
liveness properties (see the end of this section). None of the interesting
invariants is inductive as it stands; below is what has to be added, and why.

**CIResourceControllerProofs**: `TypeCorrect`; `ControllerInvariant`
(`~ReusesIds => (Spec => []IInv)`); `AssignedInstanceIsReady` from it. AssignedInstanceReady is not inductive: a handler
may act on an old copy. `IInv`, which ControllerMixed checks too, adds what makes
that harmless:

- `ObjectsSound`: what the provider has, by the status of the object;
- `InformerExact`: the informer's copy of an object is exact while the
  informer is current;
- `CacheOneBehind`: a copy in state cleaning or delete, from which an instance
  would be cleaned or released, is behind an object that is still in that
  state, in the next one, or gone;
- `PendingWriteSound`: a write that will be accepted was decided on the object
  as it is now;
- `OneOwner`: an instance is named, in any copy, for one CIR only.

The step lemma `NextIInv` has a case per action; the handlers share
`HandlerInv`, the writes of the others `SpecWriteInv` and `OtherWrites`.

**CIResourceRefinementProofs** starts from an invariant that holds for every
provider, `DecisionInv`: `InformerExact`; the fields of an object agree with its
state (`Regular`); and a write that will be accepted was decided, by the rules of
`ciresource_fsm.go` (`StatusDecided`, `ResourceDecided`), on the object as it is
(`WriteDecided`). From it follow:

- `ControllerImplementsLifecycle`. The handler's step maps to none, the accepted
  write to a transition: `StatusImplements` and `ResourceImplements` say which,
  `OthersImage` carries over the writes of the others.
- `ControllerImplementsPhases`. Phases do not show ids, so that `OthersImplement`
  of CIResourceLifecycleProofs is used as it is; `StatusPhases` and
  `ResourcePhases` map the reconciler's own writes.
- `IdleFallback`, under `AdminEdits # "any"`: an administrator who takes a CIR
  away from its client leaves the instance in an idle CIR. `IdleInv` adds the
  states before and after "available".
- `ReleasedBeforeUnlink`. `ReleaseInv`: a write that will be accepted keeps the id,
  or keeps the finalizer, or the instance that the object names is not alive any more.
- `CleanHandover`, under `~ReusesIds` and `AdminEdits # "any"`. `CleanInv`:
  what is held has spec.state "in use" (`HeldInUse`), an old copy from which the
  reconciler would clean has the pool of the object (`CleanedInPool`), and neither
  an object nor a status that will be accepted offers an instance with the data
  of a client (`Unsoiled`).

**CIResourceLifecycleProofs**: `LifecycleInvariant` and
`LifecycleImplementsPhases`. Each step of `LifecycleNext` maps to a step of Phases
or to none (`StepImplements`, a case per transition). That needs `LifecycleInv`:
an object without the finalizer (`ObjectInv`) is in its first state, is not being
deleted and has not been acquired, so that its deletion at once is one that Phases
allows; and "error", which Phases does not have, is never a status.

**CIPoolControllerProofs**: `TypeCorrect`; `EachRespectsPhases`, for each object on
its own; and `NeverSurplus`. RespectsPhases is not inductive, as the guards of the
requests look at copies and versions, not at objects: `IdleRight` adds that a copy
which showed an idle object, and is still the latest, tells the truth, for every
write of anybody makes it an old one (`SetIdle`); `AbsentIsGone` adds that DeleteAllOf
finds labels at existing objects only. NoSurplus says
nothing of a batch that was computed from an old list and is under way.
`SurplusInv` adds, as long as nothing irregular happens, that pools keep their
size (`PoolsFixed`) and objects their pool (`ObjectsStay`), that the names that
exist, and those that the informer lists, are the numerals from 1 on
(`NamesInitial`), and that the CIRs of the pool below the next name, with those
still to be created, are no more than its size (`BatchFits`). A name that the old
list misses is then refused, not created twice.

**OfcirAPIProofs**: `TypeCorrect`, `LeasesAreExclusive`, `APIImplementsPhases`,
`LowestPriorityFirst`, `TurnedAwayRightly`. For the second, `LeaseInv` adds that what
somebody holds has spec.state "in use", so that no other grant is accepted, and
`ReleasesOwn`: a release that will be accepted is of a lease that has not ended,
because the end of a lease is a new version of the object and refuses it. All of it
is stated for clients without stray releases. `APIImplementsPhases` rests on
`DecidedInv`: what a handler decided on the copy that it read holds of the object as
long as that copy is the latest version, and `UpdateSpec` asks for no more. Every action that writes, writes one
object (`Writes`) and touches leases of that object only (`LeasesOf`); `WriteInv` is
the step for all of them. The last two rest on `PendingInv`, which holds until a request
fails: a candidate that has not changed since the list is still on the list to try.

**HostProvidersProofs**: `TypeCorrect`, `HostsHaveOneUser`, `HostsAreHandedOutClean`,
`HostsKeepContract`, `LossesKeepMarks`. `HostInv` is the argument, as long as `MarksCount`: a host that
is named is marked, only unmarked hosts are selected, and a host that is active
when its deployment is asked about was deployed after its last client (`Deployed`).
The contract also needs `Settled`: an unmarked host is at rest, and the host of a
CIR that may be released is deployed, so that Release never stops a deployment.
`LossesKeepMarks` needs the types only and holds whatever went wrong: a call leaves
the mark of its own host or none (`MarkKept`, `MarkLeft`), and a mishap of its own
goes with each that is left (`LossesCount`).

**CloudProvidersProofs**: `TypeCorrect`, `HandsOutClean`, `LossesLeak`, `CapsPools`,
`CloudsKeepContract`. `CloudInv` says what the machine of a CIR may be by the step
the CIR is at (`Held`) and what a machine may be at all (`Sound`). The two counting
theorems compare a set before and after each step: machines that nobody names
with the losses so far, and the devices of a pool with its size, which
Acquire compares with the devices listed. `CloudsKeepContract` covers the answers
too: `Held` and `Sound` say what a machine is when its CIR is told that it is ready,
clean or released.

**LibvirtProviderProofs**: `TypeCorrect`, `HandsOutClean`, `LeavesByMishap`,
`KeepsContract`. `IInv` says for whom the call under way is (`Called`) and what the
machine is before each of its requests (`Reached`), so that a call may be broken off
anywhere. OnlyMishapsLeave is not inductive: a release that is broken off between
the domain and the volume leaves the volume behind for good, though the CIR still
names it. `StrandedInv` counts such machines from then on (`Stray`).

Assumptions. The proofs rest on the named ASSUMEs of the modules only:
`StoreAssumption`, `LifecycleAssumption`, `ProviderAssumption`,
`ControllerAssumption`, `PhaseAssumption`, `APIAssumption`, `CallsAssumption`,
`PoolAssumption`, `CloudAssumption` and `HostAssumption`. They give constants their types, make null
values differ from others, and say where things are counted that they are finitely
many (the names of CIRs, which are the numerals 1 to n; the machines of a cloud; the hosts).
`ControllerInvariant`, `AssignedInstanceIsReady` and `CleanHandover`
suppose `~ReusesIds`: without it two CIRs may share a host, as HostGivenTwice shows.
`IdleFallback` and `CleanHandover` suppose `AdminEdits # "any"`.

Model-checked only, because the provers have no rules for it: liveness under
fairness, that is LeaseEnds, GrantTakesEffect, DeletionCompletes, PoolConverges,
PoolDeletionCompletes, GetsReady (three modules) and ReleaseCompletes.

## 5. Not modelled

Pure I/O, stateless or generated: logging, metrics, wiring, token lookup, the
secrets and parameters of pools, typed clients, the provider factory, the
status handler (it only reads), the dummy provider, generated code, mocks.

Pools change in CIPoolController but not in CIResourceController and OfcirAPI.

Of the providers: addresses (libvirt's MAC and DHCP leases appear as "up", AWS'
public IP not at all), the choice of metro, region, instance type and subnet
(only that one is tried after the other), prices, keys, images, user data,
caches of clients, and the retries inside client libraries.

## 6. Plan

Done: Store, Provider, Lifecycle, Controller; Phases, PoolController with one and
with two pools, OfcirAPI; the providers of hosts, at the clouds and at libvirt.
Proved: every invariant, action property and refinement of the passing runs.

Left, in the order of the work:

1. System: API and pool reconciler over the same objects, with pools that change
   between the two lists of acquire.
2. Proofs: a variant of the controller's invariant for providers that reuse ids,
   with what HostGivenTwice shows excepted.
