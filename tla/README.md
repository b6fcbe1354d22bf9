# A TLA+ model of kubenexus-scheduler

This directory holds TLA+ modules for the parts of kubenexus-scheduler that
carry its own logic, the TLC configurations that check them on small instances,
and TLAPS proofs of the properties that matter most. `PROJECT.json` ties every
definition to the lines of `src/` it models, every property to a run and to a
mutation of the model that breaks it, and every hazard of the code to the
properties that watch it.

## The system

kubenexus-scheduler is kube-scheduler with a set of plugins. The framework runs
one *scheduling cycle* at a time (queue order, PreFilter, Filter, PostFilter,
Score, Reserve, Permit) and one *binding cycle* per pod next to it (wait on
Permit, bind, PostBind; or Unreserve). Plugins see pods through an informer
that follows the API server with a delay, and keep their own state in memory.
The informer is the one kube-scheduler shares with its plugins: it selects pods
that have not finished, so a pod that succeeds or fails disappears from every
list the plugins see.

| component | state it keeps | operations | talks to |
|---|---|---|---|
| pod group labels (`pkg/utils/pod.go`) | none | read gang name and min-available from new or legacy labels | every gang-aware plugin |
| Coscheduling, gang side | the framework's waiting-pod map | PreFilter, Permit, Unreserve | informer, ProfileClassifier's profile, waiting pods of other cycles |
| Coscheduling, queue side | `podGroupInfos`, `podGroupCount` | Less, emergency eviction, cleanup goroutine | scheduling queue(s) |
| ResourceReservation | `gangReservationsCreated`, one CRD object per gang | PreFilter, PostBind, cleanup goroutine | API server (list, create, get, update, delete) |
| GangPreemption | `lastPreemptionAttempts` | PostFilter | snapshot, pod informer, profile |
| ProfileClassifier, workload classification | profile of the cycle | PreFilter | namespaces at the API server; read by ten consumers |
| NetworkFabric | none | Filter by NVLink clique, Score by locality | bound gang members in the informer |
| NUMATopology | `gangState`: per gang its spread policy and the NUMA node of each member | Filter, Score | node labels; the workers of the score phase share `gangState` |
| VRAMScheduler (+ DRA, NFD) | none | Filter, Score, sources of VRAM request and capacity | informers of claims, templates and ResourceSlices; node labels; profile |
| TenantHardware, ResourceFragmentation, Backfill, WorkloadAware, TopologySpread | none | Score (and one Filter) | profile, informer |
| admission webhook | none between calls | mutate a pod at creation | namespaces at the API server |
| PodGroupManager, metrics, API types, commands | | no behaviour of their own | |

What is hard in it: counts taken from an informer that lags, in two reads that
are not atomic; the Reject loop of one binding cycle racing the Allow loop of
Permit, verdict by verdict; the Permit timeout; a map and its counter updated
in separate atomic operations by several goroutines; API calls that fail or
succeed without the caller knowing; objects deleted by name while somebody
creates the next one of that name; a restart that forgets all in-memory state;
snapshot and informer that disagree; score workers, one per node, that write a
map others are going through.

What makes the parts correct:

* Coscheduling: a complete gang is not left waiting at Permit, no held pod is
  forgotten by the loops that give out verdicts and none slips in between, a gang
  that exists completely eventually starts, no member is bound alone.
* The cache: the counter does not drift upwards, the cap bounds the map, Less
  is an order a heap can work with.
* ResourceReservation: the map claims only what the API server confirmed, a
  reservation goes away only when its gang was judged complete or gone, and no
  reservation of a gang that is gone stays for ever.
* GangPreemption: the victims suffice, are the cheapest, none is needless, the
  search gives up only when hopeless, its rate is bounded.
* NetworkFabric: a gang that asks for one NVLink clique is torn apart no further
  than what the informers do not show explains; closeness to the placed members
  never lowers a score.
* VRAMScheduler: a pod lands where its VRAM request holds, and never prefers the
  GPU that wastes more. NUMATopology: what it remembers of a gang are placements
  the members could have, and the gang's spread policy is obeyed. Webhook: the
  class it writes is the class of the tier the scheduler sees.
* ProfileClassifier and the scores: the tier of the namespace outweighs what the
  pod says of itself, reserved GPU islands stay with their tier, no score
  leaves 0..100 (the framework fails the whole cycle then), and two plugins that
  measure one node differently differ in one direction only.

## Modules

`PodGroups` is extended by the modules about gangs: the four labels of a pod,
the group name and min-available `GetPodGroupLabels` makes of them (a new label
wins over a legacy one, separately for name and size; a bad or non-positive
size is an error), and the selector with its fallback to the legacy label,
which is used only if *no* visible pod has the new one.

`GangScheduling` (`coscheduling.go`, PreFilter, Permit, Unreserve).
`pod` is the API server's view, `lister` the informer's; `stage` says how far
the scheduler is with each pod, `signal` is the channel of a waiting pod, in
which the first verdict wins; `visit` is what the loop of a Permit or Unreserve
call still has to go through; `seen` is the local variable `running` of the
Permit call under way. Permit goes step by step, because other goroutines run
between its reads: `PermitCountRunning` (informer), `PermitDecide` (waiting map
and quorum), then `PermitRelease` (enter `IterateOverWaitingPods`), one
`SendVerdict` for each waiting pod of the gang and `PermitReturn`, or, by the
framework, `AddWaitingPod`. `Unreserve`, `SendVerdict` and `UnreserveReturn` are
the same loop with rejections, on a binding goroutine. The loops hold the read
lock of the waiting-pod map: any number of them interleave, in any order of pods,
so that a gang's verdicts may be split; `AddWaitingPod` and `WaitOnPermit` change
the map and need the write lock (`MapUnlocked`). `CalculateWaitingPods` holds the
read lock from first to last and reads nothing that a loop changes, so it is one
step. The framework, API server, kubelet and informer are external
and modelled as the plugin meets them: a pod leaves the waiting map only when
its binding cycle has read the verdict, a deleted waiting pod is rejected,
a restart rebuilds everything from the API server.

`PodGroupCache` (`coscheduling.go`, Less and the cache). Each `Sorters` element
is a queue that calls Less; kube-scheduler's active and backoff queues may do
so at the same time. `pc`, `pair`, `stamps`, `batch`, `quota` are the locals of
a Less call, `sweep` those of the cleanup goroutine; every operation on the
`sync.Map` and on the atomic counter is a step. `lost` is history: how many
deletions found nothing to delete
(both the eviction and the cleanup then decrement the counter).

`ResourceReservation` (`resourcereservation.go`). `crd` is the object of each
gang at the API server with its finalizer and deletion mark, `tracked` the map
`gangReservationsCreated`, `pre`, `pc`, `todo`, `target`, `fresh` the locals of
PreFilter, of every PostBind and of the cleanup. Each API call is a step and
may fail; a failed POST may have created the object; a PUT with an outdated
resource version is refused (`fresh`); DELETE goes by name. `confirmed` and
`condemned` are history. Filter, Reserve and Unreserve of this plugin admit
everything and change nothing.

`GangPreemption` (`gang_preemption.go`). PostFilter as one action for each of
its results. The snapshot of the cycle and the live pods are separate; the
unstable sort is the set of all sorted sequences; the greedy loop is the
shortest sufficient prefix, cut at MaxVictimsPerGang. In the model any pod may
finish or lose its node between the cycle's snapshot and the search.

`NetworkFabric` (`networkfabric.go`). `place` is the node a pod holds from the
end of its cycle on, `seen` the node name the informer has for it, which comes
only after the bind; `nodes` are the nodes of the node informer and `slices` those
whose ResourceSlices the slice informer shows. Nodes are lost and register again,
slices are published and withdrawn, at any moment; a node without the label has a
clique only while its slices are there (`getNodeClique`). Its labels, and the
clique it really belongs to (`Partition`), do not change. Filter and Score are one
action per node, so informer events fall between the nodes of a cycle; inside one
call, which reads three in-memory caches without waiting for anything, they do
not. `getGangClique` is the set of answers the unordered list may give. The
rest of the cycle, Permit and the bind are reduced to what this plugin can tell
apart. `peak` is history: the most members of a gang at one moment whose clique
Filter could not tell (`Unlocated`), because they were in flight, on a node that
is gone, or on one whose slices were not there.

`ProfileClassifier` (`profileclassifier.go`, `pkg/workload`) is the
classification as operators on the attributes of a pod: what a match on
labels, images, names or owners says is an attribute, the order in which the
sources are asked is the code's. `NodeScoring` adds the scores of
WorkloadAware, TopologySpread, Backfill, ResourceFragmentation and
TenantHardware and the Filter of ResourceFragmentation as functions of the pod,
its profile, the node and the pods counted on it. `Requested` is what NodeInfo
adds up for WorkloadAware, init containers, sidecars and overhead included
(`Extra`); `Cpu`, `Mem` and `Gpu` are the containers that Backfill and
ResourceFragmentation add up themselves. Percentages are exact
fractions cut to integers where the code converts its floats; a float that
falls just below an integer is cut one lower by the code.

`Placement` runs them: the two namespace reads of `classifyTenant`, each of
which may fail or see other labels (`KueueRead`, `NamespaceRead`), the filter
and the scores node by node, on the snapshot or on the live informer as each
plugin does it, and around them pods that are bound, end and become visible,
another scheduler in the same cluster (`Foreign`), and an administrator who
relabels the namespace. `profiled` is chosen at the start: with and without
ProfileClassifier. ResourceFragmentation's Filter is enabled here; the file
`deploy/kubenexus-scheduler.yaml` enables only its Score (see below).
`owner`, `granted`, `steady`, `quiet`, `reads` are history.

`PermitBarrier` is what Permit promises, without the scheduler around it: a gate
per gang at which pods are held only as long as they are too few. A member that
opens the gate lets the held ones through, a pod that goes back takes the held
ones along, one by one; both may go on at the same time, but no pod is newly held
meanwhile, and neither ends while a pod of the gang is held. `GangScheduling`
implements it (`Barrier`, an instance with the refinement mapping `Where`): a pod
is *held* while it waits without a verdict, *opening* during the loop of its
Permit, *through* from the allow to the end of its bind, *back* from a rejection,
timeout or failed bind on and *collapsing* during the loop of its Unreserve.
`PermitIsBarrier` says so; every other step of the scheduler (counting, retries,
informer events) stutters.

`GpuCluster` declares what GPU pods ask for and what nodes say of themselves.
On it stand `PodMutation` (`pod_mutation.go`), the patch as a function of the pod
and of what was read of the namespace; `VRAMScheduler` (`vramscheduler.go`,
`dra.go`, `nfd.go`), the request from claims, templates or the annotation, the
GPUs from ResourceSlices, NFD labels or node labels, in the code's order, and
Filter and Score as functions of what the informers show; `NUMATopology`
(`numatopology.go`), Filter and the terms of the score of one NUMA node.
VRAM is counted in GiB; the float scores of NUMATopology are integers, `Points`
of a hundredth for a term, ten-thousandths of a point for the weighted total.

`GpuScheduling` runs the three together. `pod` goes from the webhook's call
(`AdmitCall`, which reads the namespace and may fail) to the stored pod
(`AdmitStore`) and on to its node; `known` and `listed` are the templates and
slices the informers show; `cycle` is the cycle under way; `work` holds the
locals of the worker of each node. A Score of VRAMScheduler is two steps, since
it reads the node's GPUs twice; a Score of NUMATopology is a step for each
access to `gangState` (`NumaLookup` under the read lock, `NumaIterate` after its
release, `NumaRecord` under the write lock), so the workers interleave there.
`Physical` is what a node really has, whatever its labels and slices say.
`since`, `sure`, `still`, `told` are history: the label unchanged since
admission, a placement with all slices and templates visible, a worker no other
one disturbed, a tier that came from the namespace.

`GangSchedulingProofs`, `GangPreemptionProofs`, `NetworkFabricProofs`,
`PlacementProofs`, `GpuSchedulingProofs`, `PodGroupCacheProofs` and
`ResourceReservationProofs` extend these with theorems; `SumTheorems` holds what
three of them need to know of sums over finite sets. The `MC*` modules give the
constants values.

Each module contains, in front of some definitions, a *mutation*: the
definition as a plausible bug would have it. No specification uses them; they
exist to show that each property can fail.

## Runs

| run | result | shows |
|---|---|---|
| `gang_permit` | pass | a gang of four with new labels and a pod of a legacy gang that never comes, room for all; ProfileClassifier on, so PreFilter lets an incomplete gang through; one deletion, bind failure or restart anywhere. `CompleteGangMovesOn` and the refinement `PermitIsBarrier`. 535,390 distinct states. |
| `gang_liveness` | pass | legacy labels, PreFilter counting, two faults, room for all: `GangEventuallyBinds`. |
| `gang_all_or_nothing` | violated | three pods of a gang that asks for four, room for two, no fault: one waits, and Permit of another counts it twice and the third, which has no room, once; both are bound. |
| `reservation_safety` | pass | PreFilter, two PostBinds and the cleanup with two failed calls or restarts: `TrackedWasConfirmed`, `FinalizerProtects`. |
| `reservation_cleanup` | pass | without PostBind, as in `config/config.yaml`, which enables none: `ExpiredAreCleaned`. |
| `reservation_ttl` | violated | with PostBind, a gang is untracked although its reservation survived; the cleanup visits tracked gangs only. |
| `cache` | pass | a map that is full, a queue and the cleanup: `NoPhantomEntries`, `CapUpToRaces`, `OrderIsStrictWeak`. |
| `preemption` | pass | `VictimsSuffice`, `CheapestFirst`, `NoNeedlessVictim`, `GivesUpOnlyWhenHopeless` against direct definitions, and `PreemptionStormBounded`. |
| `preemption_partial` | violated | one member of a running gang is chosen as victim and the other left: `NeverPreemptsPartially`. |
| `fabric` | pass | a strict gang of three, two cliques; two nodes have the label, the third belongs to the second clique by its ResourceSlices only; nodes go and return, slices come and go: `CliquesBounded`, `LocalityNeverHurts`. 270,046 distinct states. |
| `placement` | pass | a GPU pod, a memory-only backfill pod that asks for memory beside its containers, and a pod of another scheduler on a reserved island and a node without GPUs: `ExplicitTierWins`, `IslandsProtected`, `ScoresInRange`, `NeverFullerForBackfill`. |
| `gpu` | pass | a gang of two unlike members, a server with a large and a small GPU whose label promises two large ones, and a plain server with one GPU smaller than its model label stands for; slices that come one by one, one fault anywhere: `VRAMSuffices`, `AdmissionAgrees`, `TighterFitNeverScoresLess`, `RecordedFits`, `SpreadPolicyDecides`. |

A violated run checks a sentence of the documentation, or a comment in the
code, against the code; the findings in `PROJECT.json` quote it.

More disagreements were met that have no run of their own:

* A gang of mixed labels can be left waiting at Permit although it is complete:
  a member with the new label lists the new label only, as soon as any pod with
  it is visible, and does not see members with the legacy label that are bound
  (`coscheduling.go:395-400`). It leaves Permit by the timeout.
  `CompleteGangMovesOn` is about gangs with one generation of labels.
* An Allow loop and a Reject loop that meet may split the verdicts of a gang:
  some of the held pods are bound and others go back to the queue. No comment
  promises more; `PermitIsBarrier` says what is left of the barrier.
* The age of a gang in Less is the latest queueing of the pod that makes its
  entry, so a gang that is retried loses its waiting time
  (`coscheduling.go:201`, against `README.md:137` of the repository).
* The hard cap of `maxPodGroupEntries` is exceeded by two comparisons that both
  pass the check before either stores (`CapUpToRaces` says by how much).
* A member can pass ResourceReservation's PreFilter between the deletion of the
  gang's reservation and its removal from the map.
* GangPreemption marks its victims on a private copy and in the log; no call of
  the plugin evicts them (`gang_preemption.go:405`, against
  `docs/FEATURES.md:217-218` "Preempts entire set atomically", "Gang schedules
  immediately").
* A gang that requires one NVLink clique may span several
  (`networkfabric.go:251`, against the comment at lines 187-189, "This prevents
  cross-partition placement", and `docs/ARCHITECTURE.md:86`, "NVLink clique
  hard-rejection"): a member that waits at Permit, or whose bind has not come back,
  has no clique yet, one on a node that is gone or whose slices are not there has
  none any more, and a gang without a known clique is let in anywhere.
  `CliquesBounded` says how far that goes, and its bound is reached in the run.
* `calculateGangAffinityScore` goes through a gang's members after it has
  released the lock (`numatopology.go:731`), although `gangState` is guarded "from
  concurrent access": a sibling worker may write meanwhile, and Go ends the
  process when it notices. In the model `Racing` enables a `Crash` that costs no
  fault.
* NUMATopology records a placement when a node is *scored*: the record of the
  last worker stays, names no server and is never removed, and a pod meets its
  own record from a sibling node, so "first gang member" is neutral on one node
  only. With one feasible node nothing is scored and nothing recorded.
* Its Score may record a NUMA node that Filter would refuse for GPU alignment,
  and Filter does not look at the avoid list; a total of 0 is treated as "does
  not fit", which the comment at `numatopology.go:384` says only best-effort
  pods meet.
* VRAMScheduler: an allocated claim always yields 0; a template the informer has
  not delivered makes the request fall back to the annotation or to none; a node
  whose slices are published in part lets a pod through Filter that it cannot
  hold; an NFD device with a "present" and a "count" label is counted twice, and
  the NUMA node inferred from NFD labels may not exist; at the boundary between
  one and several GPUs the score is not monotone.
* Its tables overstate some GPUs: a RTX 5000 Ada of 32 GB is entered with 48
  (`nfd.go:93`), an Arc A750 of 8 GB with 12 (`nfd.go:301`), and a label that says
  V100 always stands for 32 GB. A pod placed there finds less than it asked for;
  `VRAMSuffices` says by how much at most (`Overstated`).
* A negative GPU count label ends the scheduler: `make` panics
  (`vramscheduler.go:758`). The model assumes that counts are not negative
  (`GpuClusterAssumption`).
* A class written by the webhook and a VRAM request that no node of that class
  can hold leave a pod pending for ever.
* NetworkFabric checks min-fabric-tier only for gang pods with a placed member;
  a strict gang whose first member is on a node without a clique may go on into
  a clique; Score reads the members' cliques from labels only although the
  candidate's may come from ResourceSlices.
* ResourceFragmentation's score exceeds 100 on an overcommitted node, which
  `ScoresInRange` excepts; its Filter is in no `filter:` list of the
  deployment files, so with those a lower tier is only scored 10 on a reserved
  island, more than the 0 a small request gets on a pristine one.
* The tenant adjustment of Backfill never reaches backfill pods: their score is
  the idle share computed before it (`backfill.go:208` and `:240`).
* When both namespace reads fail, the priority class or an annotation of the
  pod decides its tier, whatever the namespace says.
* TopologySpread counts nodes per zone where its names and logs say pods.

### Bounds

* Pods: 2 to 5. A gang of four is the smallest in which two pods are held at
  once (a waiting pod is counted twice), so that a loop has two verdicts to give
  and two loops can split them; a second gang keeps waiting next to it; two sources
  of victims make an order among them.
* `MaxFaults`, `MaxClock`, `MaxLost` cap what would grow without end (failures
  and restarts, time, double deletions). One fault meets every state; two in
  `reservation_safety`, where one failure sets the scene for another. `MaxClock`
  lets the thresholds (TTL, starvation, cooldown) pass at least once.
* `Cap` = 1 with two gangs keeps the cache at its limit; the share evicted is
  then the floor of one. `MaxVictims` = 2 with two candidates is the edge where
  limit, early stop and final check meet.
* `cache` has one queue: with two that compare at once the state space is out
  of reach together with the clock. The proofs hold for any number of queues.
* Symmetry is used in `gang_permit` only, of the four members of a gang that
  carry the same labels; the run checks invariants and an action property, no
  liveness. In all other instances the pods differ.
* Containers finish (`Finishing`) in `gang_all_or_nothing` only: with
  completion the state space of `gang_permit` is out of reach. The proved
  theorems of GangScheduling cover both values.
* `fabric`: three members, so that two can be in flight while a third is
  placed, one fault (`MaxFaults`: a deletion, failed bind or lost node;
  returning nodes and slices that come and go are not counted). `gpu`: two
  servers, the least on which workers race; two members, so that one finds the
  record of the other; two NUMA nodes with readable labels and one without; one
  fault. `placement`: one island large enough for all its rules (8 GPUs),
  overcommitted by the two schedulers together; two faults, so that both
  namespace reads can fail.
* `CHECK_DEADLOCK FALSE` where the system may stop: every pod is bound, finished
  or gone and the faults are used up.

### Fairness

`GangScheduling`: the goroutines of the scheduler, its timers, the informer and
the termination of a deleted pod keep running (weak fairness on each); a queued
pod is not passed over for ever (strong fairness on `PreFilter`, since other
pods' cycles interrupt its being enabled), because the queue is ordered by age
once pods starve. Faults, deletions and a container's completion are never
forced. `ResourceReservation`: the goroutines run, reservations age, pods that
were deleted go. The other modules state safety only.

## Proofs

The theorems hold for every value of the constants under the named assumptions
of the modules (finite sets of pods and gangs, natural bounds, disjoint model
values), which TLC evaluates in every run. Every invariant and every action
property that a passing run checks is proved.

* `GangSchedulingProofs`: `TypeCorrect`. `ImplementsBarrier`
  (`PermitIsBarrier`) is the refinement of `PermitBarrier`. The inductive
  invariant says that one cycle is under way at a time (`OneCycle`: between
  PermitDecide and AddWaitingPod nobody else starts to wait), that a pod Permit
  decides on is a member of a gang (`CountedAreMembers`), that a pod it told to
  wait still leaves its gang's waiting pods short of MinAvailable (`WaitFits`),
  and that a loop still has ahead of it every waiting pod of its gang that has
  no verdict (`LoopFits`): that is why no loop can end, or a pod be stored,
  while another is held or looped over, however many loops interleave. Every
  step is mapped to a step of the barrier or a stutter. `CompleteGangsMoveOn`
  (`CompleteGangMovesOn`): what PermitCountRunning has counted and the pod
  itself cover the members of the gang that wait or were let through
  (`CountFits`), so a pod told to wait leaves them below the quorum, and only
  the next Permit can add one. That needs that a pod the informer has seen go
  is not shown again (`Unbound`) and that a bound one that has ended or is
  being deleted stays so (`Ending`). It holds where all members use one label,
  since then the selector finds them all.
* `PodGroupCacheProofs`: `TypeCorrect`, `CounterNeverOvercounts`,
  `CapHoldsUpToRaces`, `QueueIsOrdered`, `BeforeIsStrictWeak`. The argument is
  an account: counter = entries + decrements still due - increments still due
  - lost deletions (`Account`), a Less call that is past the cap check and
  before its store has found room (`RoomForStores`), and `CallOK` ties the
  locals of a call to its program counter.
* `ResourceReservationProofs`: `TypeCorrect`, `TrackedIsConfirmed`,
  `ReservationsProtected`. The invariant says that a process with a fresh copy
  holds a copy of an object that exists, condemned once the process acts on it
  (`CopiesOK`), and that an object without its finalizer is condemned
  (`BareIsCondemned`): a DELETE by name can then only remove a condemned one.
* `SumTheorems`: a sum over a finite set does not depend on the order in which
  its elements are taken, is a number, grows with the set, and is at least the
  size of the set times its least term. `SumFunctionOnSet` is defined by a choice
  of a function; the lemmas show that the function exists and is unique by
  induction over the size of the subsets, which is stated over sets (a set of
  numbers that is closed under successor) and rests on the least element of a
  non-empty set of numbers.
* `GangPreemptionProofs`: `TypeCorrect`; `SearchesBounded`
  (`PreemptionStormBounded`), with the invariant `Paced`, which ties the number
  of searches of a gang to the time of its last one, a gap apart each, and lets
  every restart pay for one forgotten attempt. The search itself is one step, so
  its properties are about that step: the greedy loop returns a shortest
  sufficient prefix of some sorted sequence of the candidates.
  `PreemptionSuffices` (`VictimsSuffice`) and `VictimsAreNeeded`
  (`NoNeedlessVictim`) follow from that, `CheapestGoFirst` (`CheapestFirst`) from
  the order of the sequence, and `SearchSucceedsIfPossible`
  (`GivesUpOnlyWhenHopeless`) from sums that grow with the set.
* `NetworkFabricProofs`: `TypeCorrect`, `CliquesFollowTheDark` (`CliquesBounded`).
  The invariant says where a pod can be in each phase (`PodsOK`), that no more
  members are out of Filter's sight than the peak (`DarkBounded`), and that a set of
  at most peak cliques holds all the gang spans and all that passed Filter in the
  cycle under way, or there is room for one more (`SpanBounded`): a clique that is
  shown is the real one, and every member that is not shown accounts for one clique
  at most.
  `CloserScoresNoLess` (`LocalityNeverHurts`) compares the score of two nodes
  level by level; it holds in any state in which the state is well formed.
* `PlacementProofs`: `TypeCorrect`, `TierDecides` (`ExplicitTierWins`),
  `IslandsKept` (`IslandsProtected`). Between the two reads of the namespace the
  invariant `Reading` remembers that a first read that succeeded and did not
  decide has found no tier, so the fallbacks cannot override one; `Guarded`
  carries the tier from the profile through the filter's verdicts to the place.
  `ScoresStayInRange` (`ScoresInRange`) and `BackfillSeesLess`
  (`NeverFullerForBackfill`) rest on `Scored`: the scores of a node so far are what
  the plugins answer, as long as nothing has changed since (`quiet`), and in range
  where a plugin's answer is in range for any pods. `BackfillSeesLess` adds that in
  a quiet cycle the snapshot has every pod the informer shows (`Covered`) and that
  the weighted average grows with what is requested (`AverageMonotone`).
  `ScoresStayInRange` assumes that no node has
  more than 100 GPUs, because the code takes one point off for every GPU that
  stays free without a lower limit (`fragmentationscore.go:202`).
* `GpuSchedulingProofs`: `TiersAgree` (`AdmissionAgrees`), `RecordsFit`
  (`RecordedFits`). `Told` says what a pod under admission, a stored pod and the
  cycle know of a label that has not changed since; `Choosing` that every worker
  goes through NUMA nodes its pod may have and keeps one of them, `MembersFit`
  that the shared map holds nothing else.
  `TypeCorrect` (both scores within 0..100 among it), `TighterFitWins`
  (`TighterFitNeverScoresLess`) and `SpreadDecides` (`SpreadPolicyDecides`) add
  what the workers know (`Working`): a score is made of the request and the VRAM
  per GPU that the worker holds and of GPUs that some read of the slices showed
  (`Rated`), so two workers compare although the informers move between their
  reads; and a worker that is still undisturbed leads with a NUMA node that is
  worth as much as any it has looked at (`Leads`). A record made by another
  worker ends that for every worker that is choosing, which is what `still`
  says. That the policy then decides is an inequality of weighted totals
  (`PolicyDecides`).
  `TighterFitWins` is about nodes that hold the request on the same side of the
  boundary between one and several GPUs, with equal topology bonuses, and a premium
  model on the tighter one if on the other; without these the score is not
  monotone.
  `VRAMIsEnough` (`VRAMSuffices`): the nodes of which a cycle is sure pass Filter
  with all templates and slices there are (`Informed`), and any GPUs of such a
  node add up to at least their number times the least of them. Nothing is assumed
  of the labels and slices: what they say too much of a GPU (`Overstated`) is what
  may be missing.

Only model-checked: what is temporal under fairness (`GangEventuallyBinds`,
`ExpiredAreCleaned`), which the prover does not treat, and the runs that find a
violation.

## Not modelled

Errors of in-memory listers (they cannot fail); metrics, logging, API type
declarations, generated copies; `PodGroupManager` and
`GetWorkloadPodGroupInfo`, which nothing calls; the commands, which register
plugins and start servers; the HTTP side of the webhook (its certificates,
requests that are no pods or do not parse). In Placement the
scheduler's own cache, from which the snapshot is taken, and the informer that
Backfill reads follow one stream of events: the delay of the cache's event handler
behind the informer is not modelled, only assumed pods tell the two apart. In
GangScheduling, GangPreemption
and NetworkFabric the profile that ProfileClassifier writes enters as constants
(`ProfileGang`, `ProfileTier`, `WorkloadType`). The second profile of
`config/config.yaml` enables GangPreemption without ProfileClassifier: there
the gang's tier is always bronze (`Profiled = FALSE`).

## Plan

Every component with logic of its own is modelled. What could follow:

1. Composition: ProfileClassifier with GangScheduling (which gangs PreFilter
   does not see) and with GangPreemption (the gang's tier comes from the
   classifier, the victim's from its names: is the hierarchy respected?);
   GangScheduling's Permit under NetworkFabric's filter.
2. An abstract reservation (none, held, released) that ResourceReservation
   implements.
3. Proofs: for the composed modules of 1 and the refinement of 2.
