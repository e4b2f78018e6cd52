# A TLA+ model of cluster-api-provider-evroc

This directory holds TLA+ specifications of the Cluster API infrastructure
provider for evroc, the configurations with which TLC checks them on small
instances, and theorems about them that the TLA+ proof system checks for every
value of the constants. Paths below are relative to the repository root;
`PROJECT.json` maps every definition to the source lines it stands for.

    tlc -workers 2 -config MCMachine_life.cfg MCMachine.tla     # one run
    tlapm MachineProofs.tla                                     # one proof module

## 1. The system

The provider is one process (`cmd/manager/main.go`) with two reconcilers. Each
takes keys from a workqueue, reads the object of that key from an informer
cache, calls the evroc cloud API and the Kubernetes API, and returns; the key
comes back when a watch event arrives, after a delay, or with backoff.

| Part | Keeps | Operations |
|---|---|---|
| EvrocMachine controller (`internal/controller/evrocmachine_controller.go`) | ownership ID (annotation), finalizer, providerID, zone, machineID, tracked disks, readiness | `Reconcile`, `reconcileNormal`, `reconcileExistingVM`, `deleteMachineFromCloud`, node linking |
| EvrocCluster controller (`internal/controller/evroccluster_controller.go`) | ownership ID and resource prefix (annotations), finalizer, endpoint, managed load balancer, security groups, credentials copy | `Reconcile`, `reconcileNormal`, `cleanupResources`, `resolveCloudClient`, `ensureCredentialSecretCopy` |
| Load balancer service (`internal/cloud/loadbalancer.go`) | nothing; the stack is in the cloud | `Create`, `Get`, `Delete`, `DeletionComplete`, `AddBackend`, `RemoveBackend` |
| Workload service (`internal/cloud/workload.go`) | nothing | `Cleanup` of what CCM and CSI drivers left |
| VM, disk, IP, group services (`internal/cloud/virtualmachine.go`, `client.go`) | nothing | `Create`, `Get`/`Exists`, `Delete`, `ListByOwner`, patches of a VM |
| Group synchronization (both controllers) | list of groups in the cluster's status, an annotation on each machine | `reconcileSecurityGroups`, `deleteStaleSecurityGroups`, `reconcileClusterSecurityGroupsOnVMs`, `reconcileVMSecurityGroups` |
| Zone selection (machine controller) | `status.failureDomain` of each machine | `pickZoneForMachine`, `pickAndUpdateZoneForMachine`, `leastUsedZone` |
| Helpers (`internal/controller/helpers/`) | nothing | finalizers, pausing, error classes, labels |
| Webhooks (`api/v1beta1/*_webhook.go`) | nothing | `Default`, `ValidateCreate`, `ValidateUpdate`: defaults, validation, immutability |

How they interact:

- The two controllers share the API server. The machine controller reads the
  EvrocCluster (credentials, load balancer name, failure domains, groups); the
  cluster controller announces changed groups to machines by an annotation.
- Both drive the cloud, in which every create and delete is asynchronous, and
  which refuses to delete what is still referred to.
- Names and labels are the only link from an object to its cloud resources.
  A VM, a disk or the load balancer is found by name; teardown finds dependents
  by the ownership ID in their labels.
- Every write of metadata or spec, a user's or a controller's, passes the
  webhooks; a write of the status does not. Old copies may be used because the
  webhooks keep most of a spec as it is.
- CAPI, the kubelet and an external cloud controller manager act on the same
  objects and nodes.

What is hard in it:

- *Stale reads.* A pass works on a copy from the cache. The copy may be older
  than the controller's own last write, even right after that write
  (`ensureMachineProviderID`, `persistResourcesStatus` read back from the cache).
- *Crashes and partial failure.* Any call can fail with or without effect, the
  process can die between any two calls, a deferred patch is two requests.
- *Asynchrony.* Deletions are accepted long before they are done; the group
  memberships a VM reports lag behind what was requested.
- *Order.* Finalizer before the first resource; zone before the first disk; VM
  before its dependents on the way down; the stack from leaves to root on the
  way up and from root to leaves on the way down; finalizer last.
- *Users.* Deletion, pausing, edits and `clusterctl move` come at any moment.

`PROJECT.json` lists every such hazard at its line ("hazards").

What makes each part correct:

- Machine: nothing leaks; teardown finds everything by label; one zone; a VM
  never refers to what is gone; nothing written once is taken back; the
  providerID precedes `provisioned` and agrees with the node; deletions finish
  and machines become ready.
- Cluster: one stack, under the name the stored object gives; the endpoint is
  the address of that stack as long as the cluster lives, also after a move;
  the object goes only after everything is really gone; readiness and deletion
  come about.
- Load balancer: the cloud never holds a broken reference.
- Workload cleanup: "nothing pending" means gone; data disks only on request.
- Group synchronization: when both controllers have come to rest every VM has the
  groups the spec asks for, the status names them, they exist and no others do, or
  the controller has given up on a bad request and the status says so as far as it
  could be stored; no other wake-up is lost, and the two do not wake each other
  forever.
- Zone selection: zones are the cluster's; a machine goes where fewest are, up to
  what the pass could not know.
- Webhooks: what lets a pass work on old copies; a VM is never built without
  groups, and agrees with its spec.

## 2. Modules

| Module | Contents |
|---|---|
| `Machine` | the EvrocMachine controller for one machine, its object, cache and cloud |
| `ResourceClaim` | abstract: ownership of cloud resources by finalizer |
| `ResourceStack` | abstract: a stack of resources that refer to one another, under a claim |
| `MachineInv` | the inductive invariant of `Machine` |
| `MachineTypes` | theorem: type correctness |
| `MachineProofs` | theorems: the inductive invariant, eight safety and action properties |
| `MachineRefines` | theorem: `Machine` implements `ResourceClaim` |
| `Cluster` | the EvrocCluster controller for one cluster with its load balancer stack, and `clusterctl move` |
| `ClusterInv` | the inductive invariant of `Cluster` |
| `ClusterProofs` | theorems: the inductive invariant and types, four safety properties and an action property of `Cluster` |
| `ClusterRefines` | theorem: `Cluster` implements `ResourceStack` |
| `WorkloadCleanup` | `WorkloadResources().Cleanup` |
| `SGSync` | security groups of a cluster on the VMs of its machines: the parts of both controllers that share them, composed |
| `Admission` | the webhooks: defaults, validation and what may change |
| `Fleet` | a cluster, its machines, users, CAPI and both controllers, with every write through `Admission`: zones and what VMs are built from |
| `WorkloadProofs` | theorems: what a running call knows, and two properties of `WorkloadCleanup` |
| `SGSyncProofs` | theorems: the inductive invariant of the cluster controller's side of `SGSync`, what is still to wake each machine, three safety properties and an action property |
| `FleetProofs` | theorems: the inductive invariant of `Fleet`, three safety properties and an action property |
| `MCMachine`, `MCCluster`, `MCWorkloadCleanup`, `MCSGSync`, `MCFleet` | instances for TLC, one `.cfg` per run |

`Machine` and `Cluster` are read side by side: both have the API server's
object, the cache's copy, the running pass's copy and a program counter. Every
call to the API server or the cloud is one action, so everything else happens
between any two of them; the code between two calls belongs to the action of
the call before it. The workqueue never runs one key twice at once, hence one
program counter. The actions carry the names of the functions or of the steps
they stand for, in the order of the code:

| `pc` in `Machine` | Code |
|---|---|
| `idle`, `persistID` | `Reconcile` up to the finalizer, ownership ID |
| `pickZone`, `getVM`, `boot`, `disks`, `stale`, `flush`, `ip`, `sgs`, `createVM` | `reconcileNormal` |
| `vmSGs`, `vmIP`, `vmDisks`, `backend`, `providerID`, `refetch`, `status`, `link` | `reconcileExistingVM` |
| `dereg`, `deleteVM`, `list`, `delOwned` | `deleteMachineFromCloud` |
| `fail` | `handleMachineError`, the status write of a failed pass |

| `pc` in `Cluster` | Code |
|---|---|
| `idle`, `persistID` | `Reconcile`, `EnsureFinalizer` |
| `copy`, `getLB`, `build`, `sgs` | `reconcileNormal`, `reconcileAutoCreatedLoadBalancer`, `useLoadBalancer`, security groups |
| `ip`, `ipWait`, `pool`, `svc`, `route`, `lb` | `LoadBalancerService.Create` |
| `patch`, `patchStatus` | the deferred patch: metadata and spec, then status |
| `workload`, `recheck` | `cleanupResources`: `Cleanup`, `cleanupSGs`, then `RemoveFinalizer` |
| `delLB`, `list`, `delListed`, `delIP`, `complete` | `LoadBalancerService.Delete`, `DeletionComplete`; `list`, `delListed` also for groups |

| `pc` in `SGSync` | Code |
|---|---|
| cluster: `groups`, `stale`, `list`, `announce`, `patch` | `reconcileSecurityGroupSection`, `deleteStaleSecurityGroups`, `reconcileClusterSecurityGroupsOnVMs`, the deferred patch |
| machine: `vm`, `status` | `buildNetworking` or `reconcileVMSecurityGroups`; the status update |

| `pc` in `Fleet` | Code |
|---|---|
| `pick`, `store`, `build` | `pickZoneForMachine`; its status update; disks and VM |

Three modules look at the two controllers from three sides. `Machine` and
`Cluster` each have one object in full detail and the other side as environment;
`SGSync` and `Fleet` have several objects and both controllers, and of each pass
only the calls through which they meet.

### Abstractions

Both controllers:

- A resourceVersion is the flag "this copy is current"; a write of a copy that
  is not current conflicts. A write that changes nothing makes no new version.
- Conditions, events, logs and wording are left out.
- `Fault` is a call that fails although nothing forbids it; where the call has
  an effect, the effect may have happened. A request that lands after its
  caller has given up, and controller-runtime's periodic resync (10 h), are left
  out. A process that restarts lists the stored objects, hence reads no old copy.
- `HandleCloudError` does not retry an error of the class of bad requests
  (`terminalNoRetry`). In `Machine` and `Cluster` every failure is one that is
  retried, so what they say of readiness holds while no call is answered with a
  bad request. `SGSync` has both classes, for the passes of either controller.
- The object is not created again under the same name.

`Machine`:

- The pause of the machine and of its Cluster is one flag.
- What a user asks for is a set of dependents; placement groups, custom images,
  node labels and taints, user data and the rules of groups are left out. There
  is always a boot disk.
- The three listings of a teardown are one step: nothing creates meanwhile.
- The early return of a deregistration that cannot read the cluster is left out.
- The deletion of groups that are tracked in the machine's status
  (lines 1361-1377) never runs: nothing writes that list. It is left out.
- External: the cloud refuses a patch of a VM that names what does not exist.

`Cluster`:

- The patch helper of Cluster API compares the object with what was read and
  sends the difference without a resourceVersion, metadata and spec first, the
  status second. Each request can fail alone.
- `Move` needs what `clusterctl move` needs: a paused, provisioned cluster with
  an endpoint. The new object has a new UID and no status; the user's secret may
  stay behind.
- The reads of `DeletionComplete` are one step. The three minutes of
  `WaitForReady` are one step too. It also waits for an IP the user has made
  (`OwnIP = FALSE`), of which nothing else is known: it may be ready or not. The
  runs have an IP of their own; the theorems are about both.
- What drivers have left is one variable (present, deleting, gone), the
  contract of `WorkloadCleanup`.
- Resources of kinds outside `SlowKinds` are ready as soon as they are created.
- Edits of security groups and failure domains belong to `SGSync` and `Fleet`;
  load balancers deleted by somebody else are left out, so what becomes of the
  endpoint when one is built again is not asked.
- External: the cloud answers Conflict for the deletion of what is referred to.
- `ImplementsStack` maps the cluster to a claim of `ResourceStack`, resources that
  exist to its standing or falling ones and `drivers` to its tenants. The claim is
  open from the stored finalizer on. It is being closed from the moment the
  controller's cache has the deletion and no pass that began before is still
  building. That is not when the user deletes: a pass that read the object earlier,
  or whose cache lags, goes on building and the teardown finds what it has built.

`WorkloadCleanup`:

- A service is one stack of five resources, a volume an attachment and a disk.
- VMs that still exist are shutting down: they make nothing new. The cloud
  detaches no disk from a VM that exists (external). VMs are the cluster's own and
  go in the end; a foreign VM that holds an owned disk is left out, and with it
  `CleanupFinishes` says nothing of that case (see section 3).
- VM labels are those of `MergeLabels`; a user could add one by hand.

`SGSync`:

- The resourceVersion of the cluster is a number, because its value is what the
  machines are told. Of a machine only who has the stored version matters
  (`fresh`: the cache, the pass that has read it, the list of the announcing pass).
- External: the cloud refuses a VM that names a group that does not exist, with an
  error of either class (terminal or retried); it lets go of a group that VMs
  still use, and one that is being deleted counts as gone.
- A failed call is terminal or not. A bad request has done nothing; a call that
  failed otherwise may have. That goes for what a cluster pass does before the
  groups (one step of `ReconcileCluster`), for the calls of groups
  (`GroupCallFails`) and for those of a VM (`VMCallFails`, `RequestRefused`). The
  list of the machines comes from the cache's client; its error is retried
  (`ListFails`).
- `handleClusterError` sets the status to not ready, `Patch` stores it and queues the
  key again, unless the error was terminal. The deferred patch may fail, as a whole
  or after it has been stored; its error is joined to that of the pass, and a
  joined terminal error is terminal still.
- The first terminal error changes the status, whose event brings one more pass;
  when that one meets it again nothing changes and nobody comes back.
- History variables record what the properties except: `untold`, `dropped`,
  `rejected` (machines), `abandoned` (the cluster: its last pass met a bad
  request and stored so, `"reported"`, or could not, `"unreported"`), `outdated`.
- The message of a condition is left out. A terminal error with another text than the
  last one changes the status and brings one more pass in the code, not in the
  model, which so promises less.
- The rules of groups, the other steps of both passes, deletion of machines and
  cluster, and the periodic resync (10 h) are left out. The resync would repair what
  `QuietIsSettled` excepts, half a day late.

`Admission` and `Fleet`:

- Fields that are treated alike are one function. A name is a model value with a
  length. What is wrong with the format of a single field is the flag `formed`.
- The resourceVersion of a machine is the object itself: a write conflicts if the
  copy differs. A machine that changes back is then taken for unchanged, which is
  harmless, since nothing else depends on it. Conflicts from metadata alone are
  left out; they only end a pass.
- An owner Machine's failure domain comes from the published zones or is empty;
  a user who enters one by hand is left out.
- `DeleteMachine` is one step; teardown is the business of `Machine`.
- Of the cluster controller's pass there is only the read and the deferred patch.

## 3. Runs

All constants not named are as small as the run's question permits. Faults and
crashes are each at most 1 (in `sg_rest` 2 together), and may fall on any call of
any pass. A pass keeps
nothing in memory, every retry starts from the stored object and the cloud
again, so one of each is expected to show what several would; for safety
the theorems of section 4 confirm that for any number of faults, crashes, edits
and moves; what they leave to these bounds is liveness. In `SGSync` failed calls and
restarts count together (`MaxFailures`), and edits with them (`MaxEvents`). The
bounds `MaxFaults`, `MaxCrashes`, `MaxFailures`, `MaxEdits`, `MaxEvents`, `MaxPauses`
are guards of the actions they bound, nothing else is bounded. `CHECK_DEADLOCK FALSE` stands where
a deleted object and an emptied workqueue are the end of a behaviour.

| Run | Instance | Shows |
|---|---|---|
| `machine_life` | control plane, disk, group, IP, 2 ownership IDs; 1 fault, 1 crash | types, `NoLeak`, `FoundByLabel`, `WrittenOnce`, the inductive invariant `IInv`, and that passes implement `ResourceClaim` |
| `machine_edit` | control plane; data disk exchanged or machine paused; VM lost and built again (2 UIDs); EvrocCluster may go first; 1 fault | `OneZone`, `ProvisionedHasProviderID`, `NodeLinked`, `NothingDangling`, `VMGoesFirst`, `WrittenOnce` |
| `machine_live` | worker with external CCM, disk, IP; 1 fault, 1 crash, 1 pause; fair | `BecomesReady` by adoption of the node's providerID and with a public IP whose address comes late, `DeletionCompletes`, `NodeLinked` |
| `cluster_life` | two ports, a group; 1 fault, 1 crash | the inductive invariant `IInv` of `Cluster`, `NothingLeft`, `WholeStack`, and that passes implement `ResourceStack` |
| `cluster_move` | endpoint managed or not, a group, 2 UIDs (a move), a pause; 1 fault; fair | `FoundByNameAndLabel`, `EndpointIsServed`, `NamesAreStable`, `BecomesReady`, `DeletionCompletes`, layer by layer and with the owned copy of the credentials |
| `workload_all` | a service, two volumes, any leftovers; 1 fault; fair | the inductive invariant `IInv` of `WorkloadCleanup`, `DoneMeansGone`, `DisksAreKept`, `CleanupFinishes` |
| `sg_rest` | a machine, with or without a VM; three group configurations, up to two edits and two faults or crashes, three of these together; fair | the inductive invariants `IInv` and `WakeUps` of `SGSync`, `QuietIsSettled`, `QuietIsListed`, `RemovedGroupsGo`, `DeletesNoWanted`, `ComeToRest` |
| `fleet_spread` | two machines, one or two zones, 2 workers, one edit of any field | the inductive invariant `IInv` of `Fleet`, `ZoneOffered`, `VMAsSpecified`, `NeverBare`, `LeastUsed` |

Two zones and two ownership IDs are enough to see a second, different choice;
two UIDs are one VM rebuilt or one move; in `machine_live` one zone and one ID do,
since which one is chosen delays nothing; two disks an exchange; two ports two
routes and services above one pool. `machine_edit` has no crashes and one ownership
ID, which `machine_life` has. UIDs of a cluster mean nothing, so `Init` takes one
of them.

The groups of `sg_rest` move from one section to another, are replaced by an
existing one, and are dropped altogether; from the one it starts with, two edits
reach every change from one to another. Two edits are needed: with one, no pass
can put an old list back over a newer one. Two failures are needed as well: a
terminal error leaves the cluster at rest with the wrong list only if an earlier
failure has made it not ready before, or if the patch of the same pass fails too. Three events together keep the run
small; the theorems know no bound. Machines do not act on each other, they
only share the announcing pass, so one machine is enough; a control plane machine
and a worker have the same safety properties with one edit and no failures. The
version of the cluster grows with each write and is bounded by edits and failures.

In `fleet_spread` two machines are the fewest between which a choice of zones can
be level or not; names have the greatest length the webhook takes, so that one of
two groups fits beside them and one does not.

Every property of these runs has a mutant in `PROJECT.json`: an operator of the
module that changes a mapped definition the way a plausible bug would, and with
which the run finds the property violated.

### Disagreements between comments and code

Each of these runs checks one statement a comment makes and finds it violated.

| Run | Comment | Code |
|---|---|---|
| `machine_gone` | controller:629, the cluster may already be gone during deletion | without it there are no credentials; every deletion pass fails |
| `machine_add` | controller:498, users may add disks without destroying the VM | the VM is patched with a disk that nobody creates |
| `workload_vms` | workload.go:40, wait for the cluster's VMs; README.md:806, attachments go once the VMs are gone | VMs do not carry the label that is looked for; the test of the wait (workload_test.go:137) gives it to its VM by hand |
| `sg_removed` | controller:1326-1327, if all groups resolve to empty the VM's groups are cleared | machines are told once that the configuration is gone, before the empty list is stored; one that runs in between keeps its groups |

Smaller ones were met while modelling and have no run of their own:

- `provisioned` must not wait for a ready VM (comment at controller:531), but
  `reconcileExistingVM` returns at :480, before it, while the VM is not ready.
- Changed groups are reconciled (controller:485) by comparing with the memberships
  the VM reports (virtualmachine.go:109). These lag behind what was requested, so
  a change back to the reported ones is taken for done.
- `leastUsedZone` spreads machines evenly (controller:930-932), but machines that
  are created at once may all get the first zone. `LeastUsed` states what remains:
  each machine the pass could not see costs one.
- The longest suffix of a cluster's resource names is taken to be "-cp-ip"
  (evroccluster_webhook.go:377-379); "-cp-lb-route" with a port is longer, so a
  name of the greatest length is admitted and its routes cannot be made.
- VPC, subnets and endpoint are immutable once set, because "changing VPC would
  orphan running VMs" (evroccluster_webhook.go:108). Setting an empty one on a
  running cluster does the same and is admitted. `VMAsSpecified` says "None or".
- `deleteStaleSecurityGroups` "prevents orphaned cloud resources when a user
  removes an inline SG from the spec" (evroccluster_controller.go:512-514), but two
  edits in a row can leave an orphan without any failed call: a pass that starts
  before the patch of the last one has reached the cache compares with the list of
  the pass before and stores that list's successor, in which the groups the last
  pass has created do not occur. A group created by a pass that fails later is in
  no status either. If the spec drops such a group before the next pass, nobody
  deletes it before the cluster goes. `RemovedGroupsGo` excepts both.
- An announcement to a machine that fails is logged and not repeated, and a
  machine without an ID whose pass met a group just deleted may be refused for
  good. `QuietIsSettled` excepts both.
- A terminal error drops the key "until the object changes" (clouderror.go:84),
  but the cause of a bad request may lie outside the object. A cluster whose group
  calls meet one twice rests with the old list in its status, and the VMs with the
  old groups, until somebody edits it, a machine changes or the process restarts;
  then it is tried anew. Its status says that it is not ready, unless the patch
  failed as well, whose error is joined to the terminal one and so not retried
  either. `QuietIsListed` states exactly this.
- "Deleting machines directly can leave orphaned cloud resources" (README.md:794) is
  a caution the code does not bear out: deletion of a machine is the same code
  whoever asks for it, and `NoLeak` shows that nothing of the machine is left.
- "If an owned disk is still attached to a VM outside the cluster, deletion stops
  with an error naming the VM" (README.md:820-821). `Cleanup` has no such error: it
  deletes the attachment like any other, tolerates a conflict and reports it as
  pending for as long as the attachment is listed.
- A data disk called "boot-disk" and the boot disk have the same cloud name.
- A data disk exchanged in the spec while a disk is pending leaves the status
  without having been deleted (controller:417 replaces the tracked disks before
  the stale ones are deleted; the comment at :1677 says they are). It keeps its
  label, so teardown deletes it.
- The endpoint is published when the load balancer's own condition is ready
  (loadbalancer.go:478), whatever its services and pool are; the comment at
  :461-463 says "only Active when the entire chain is ready".
- A failed copy of the credentials is logged and not retried
  (evroccluster_controller.go:172); a ready cluster may have none, and a move can
  then leave it without credentials. `DeletionCompletes` of `Cluster` excepts
  that, by `Stuck`.

Consequences are part of the model where other runs depend on them:
`DeletionCompletes` of machines excepts a cluster that is gone, and
`workload_all` covers VMs that still exist.

### Fairness

`FairSpec` assumes weak fairness of the running pass (a queued key is taken by a
worker, a pass goes on after a call returns, the workqueue brings back what asked
for it), of the watch (`CacheSync`), and of the cloud, CAPI and the kubelet
finishing what they have begun. It assumes nothing of users, faults, crashes,
moves or lost VMs. One weak fairness of `Pass` is enough because at most one
pass runs and each of its steps stays enabled until it is taken. Retries are in
the model: a pass that returns an error leaves `queued` TRUE.
In `SGSync` each machine's pass and watch is fair by itself, because
each has a worker of its own; the cluster's passes and its watch likewise. Nothing
wakes a machine but its own events: `FairSpec` grants no resync.

## 4. Proofs

The theorems hold for all constants that satisfy `MachineAssumption` (nonempty
zones and ownership IDs, `None` outside them, disks, groups and IP disjoint):
any number of disks, groups, UIDs, faults, crashes and edits. TLC evaluates the
assumption on every run of `MCMachine`.

| Theorem | States |
|---|---|
| `MachineTypes!TypeCorrect` | `Spec => []TypeOK` |
| `MachineProofs!Inductive` | `Spec => []IInv` |
| `LeaksNothing`, `FindsByLabel`, `StaysInOneZone`, `DanglesNothing`, `ProviderIDFirst`, `LinksNode` | the safety properties `NoLeak`, `FoundByLabel`, `OneZone`, `NothingDangling`, `ProvisionedHasProviderID`, `NodeLinked` |
| `WritesOnce`, `KeepsVMFirst` | the action properties `WrittenOnce`, `VMGoesFirst` |
| `MachineRefines!Refines` | `Spec => ImplementsClaim` |

None of the properties is inductive. Whether a write is harmless depends on the
copy it writes, and whether a resource is torn down depends on what the pass has
already done, so `IInv` says what a pass may rely on at each call:

1. `CacheLags`, `SnapLags`: the copies lag, they never lead. Whatever a copy has
   of what is written once, the object has too, and a deletion is never
   forgotten. The exceptions are the steps between deciding on an ID or zone and
   storing it.
2. `CurrentAgrees`: a copy with the stored resourceVersion agrees with the object
   on what is written once. A write that is accepted therefore takes nothing
   back; all others conflict. This gives `WrittenOnce`.
3. `HeldUnderFinalizer`, `Labelled`: cloud resources exist only under a stored
   finalizer and carry the stored ownership ID and zone. This gives `NoLeak`,
   `FoundByLabel` and `OneZone`.
4. `Creating`: at each call of a creating pass the earlier resources are there
   and there is no VM. With `DeletedByDeletion`, what has been visited stays, so
   a VM is created over a complete set. This gives `NothingDangling`.
5. `Linking`: past the providerID step the object has one, also if the copy read
   back from the cache does not.
6. `Deleting`: a teardown that has met no error has left nothing behind it.

`MachineTypes` proves types action by action; `MachineProofs` proves each conjunct
of `IInv` for each action in a lemma per group of actions and combines them;
`MachineRefines` maps each action to a step of `ResourceClaim` or to a stutter,
from `IInv`.

`ClusterProofs` is about all constants that satisfy `ClusterAssumption`: any UIDs,
ownership IDs, additional ports, groups and slow kinds, an IP of its own or
not, the endpoint managed or not, any number of faults, crashes, pauses and moves.

| Theorem | States |
|---|---|
| `ClusterProofs!ClusterInductive`, `ClusterTypes` | `Spec => []IInv`, `Spec => []TypeOK` of `Cluster` |
| `ClusterLeavesNothing`, `ClusterStackIsFound`, `ClusterEndpointIsServed`, `ClusterStackIsWhole` | the safety properties `NothingLeft`, `FoundByNameAndLabel`, `EndpointIsServed`, `WholeStack` |
| `ClusterNamesAreStable` | the action property `NamesAreStable` |
| `ClusterRefines!ClusterRefinesStack` | `Spec => ImplementsStack` |

Unlike a machine, a cluster is written by patches without a resourceVersion, which
land whatever the stored object is. What makes that harmless is what `IInv` says:

1. `Copy`, `CacheLags`, `BaseLags`: every copy lags and, the main point, gives the
   stack the same name as the stored object (`PrefixOf`). A pass that builds has
   read a finalizer that is still stored; a deletion is known to the cache
   before any pass releases the object.
2. `SnapLags`: a pass changes of its copy only what was empty when it read it, so
   the difference a patch sends takes nothing back. This gives `NamesAreStable`.
3. `Stored`: an endpoint is stored only together with the prefix it was made under.
   `Move` drops status and UID, from which the prefix of a new cluster comes; but it
   needs an endpoint, so the prefix is in the annotations and the name survives.
4. `Held`: cloud resources exist only under a stored finalizer, with the stored
   ownership ID and name. This gives `FoundByNameAndLabel`.
5. `DeletedByDeletion`: something is being deleted only once the cache has the
   deletion, and then no pass that builds is running (`Calm`), because one key has
   one worker.
6. `Building`: the layers below the call a building pass is at are standing, which
   with `DeletedByDeletion` gives `WholeStack` and `EndpointIsServed`.
7. `TearingDown`: a teardown without error and without anything pending has found
   each kind it has passed absent. This gives `NothingLeft`.

The refinement maps each action to a step of `ResourceStack` or to a stutter: the
write of IDs and finalizer opens the claim, a create raises a resource on references
that stand (`Building`), the claim closes with the cache's copy of the deletion or,
if a building pass is still running, with the end of that pass; a delete that the
cloud accepts drops what nothing refers to; the removal of the finalizer releases.

`FleetProofs` is about all constants that satisfy `AdmissionAssumption` and
`FleetAssumption`: finitely many machines, any zones, fields, names and lengths,
any number of workers and edits. The specs clusters and machines are created with
are any set of specs.

| Theorem | States |
|---|---|
| `FleetProofs!Inductive` | `Spec => []IInv` of `Fleet` |
| `ZonesOffered`, `VMsAsSpecified`, `NeverBareVM` | the safety properties `ZoneOffered`, `VMAsSpecified`, `NeverBare` |
| `LeastUsedZone` | the action property `LeastUsed` |

The argument: a copy of a spec, in the cache or in a pass, is one the API server
once stored, so the stored one came from it by admitted changes. `Older` and
`Copy` say what that leaves in common, and are transitive because each thing the
webhooks keep is. `ClusterKept`, `MachineKept`, `PassKept` and `VMKept` apply them to
every copy there is. `LeastUsed` needs `Counted`: a zone the pass has seen is that
machine's zone still, or the machine is gone, and the zone picked was the least
used of what was seen; then two cardinality lemmas bound by how much the counts
can be off, one for each machine not seen as it is.

`WorkloadProofs` needs of the constants only `MaxFaults \in Nat`: any services,
volumes and number of failed calls.

| Theorem | States |
|---|---|
| `WorkloadProofs!Inductive` | `Spec => []IInv` of `WorkloadCleanup` |
| `NothingIsLeft` | the safety property `DoneMeansGone` |
| `DisksKept` | the action property `DisksAreKept` |

The argument: what is gone stays gone, so a call that has found nothing knows that
all kinds up to its position are gone (`Visited`); it goes on from the attachments
to the disks only when it has seen that there are none and was told to.

`SGSyncProofs` is about all constants that satisfy `SGSyncAssumption`: any machines,
control planes and workers, groups, specs, edits and failures.

| Theorem | States |
|---|---|
| `SGSyncProofs!Inductive` | `Spec => []IInv` of `SGSync` |
| `ListedAtRest`, `RemovedAtRest` | the safety properties `QuietIsListed`, `RemovedGroupsGo` |
| `WantedStay` | the action property `DeletesNoWanted` |
| `WakeUpsAreKept` | `Spec => []WakeUps` of `SGSync` |
| `SettledAtRest` | the safety property `QuietIsSettled` |

The argument: versions only grow, so a copy with the stored version is the stored
object (`CopiesLag`), and a pass over an older one has its successor queued. `Progress`
says what a pass has done by the time of each call. A pass that ends well over the
stored object either changes it, and the change is still to be delivered, or finds
its list stored. One that fails is queued again, or has met a bad request; then
either its status was stored, and a cluster at rest is not ready, or it was not, and
`abandoned` says so: `Settled`. This is `QuietIsListed` without the machines.
`Accounted` says in which list each existing group is still to be compared, as long
as nothing has failed.

`QuietIsSettled` speaks only of states at rest, so its invariant has to say in
every other state what is still to come. `WakeUps` does, for each machine:

1. `ToBeTold`: a machine with an ID has been told the stored version, or a pass of
   the cluster that tells it is running or to come, or the cluster's pass that is
   ending, or its last one, met a bad request (`GivenUp`). A conflict with the
   machine controller is harmless because the machine has then changed, the event
   of that change is still to be delivered, and it queues the cluster.
2. `VersionTold`: nobody is told a version that the cache does not have, although
   the list is stored after machines are told. So a machine pass that begins after
   the machine was told the stored version reads the stored version.
3. `ToBeServed`: a machine that has been told it has the groups of the spec, or is
   queued, or its pass has read the stored list; and since the groups of that
   list exist, the cloud does not refuse it for them. A bad request of another kind
   ends it (`rejected`).
4. `ToGetAnID`: a machine without an ID is queued or running, unless an error
   that is not retried has ended its pass (`dropped`, `rejected`).

The errors that are not retried, of cluster and machine, are exceptions of
`QuietIsSettled`, as are failed announcements (`untold`).

At rest only the first alternatives are left. The converse of the argument is
why the removal of the whole configuration is excepted: `ToBeTold` fails for it, since
`ToList` tells nobody when spec and list are empty (run `sg_removed`).

Only model-checked: liveness, that is `DeletionCompletes` and `BecomesReady` of
machines and of clusters, `CleanupFinishes` and `ComeToRest` (temporal reasoning with
fairness and `ENABLED` is beyond the provers used), and of course the violations.
Every safety property, action property and refinement of the other runs is a
theorem.

`Cluster` is proved with `drivers` for what the workload service removes: a pass is
told that nothing is pending only if `drivers = "gone"`, and that stays. For stacks
and attachments this is what `NothingIsLeft` and the lemma `GoneForGood` of
`WorkloadProofs` say; disks that were not to be deleted count as gone in `Cluster`.

## 5. Not modelled

- Placement groups: only existing ones are referred to.
- Conversion of group rules into the cloud's form, and rules as such.
- The half of `IsPaused` that looks at the CAPI Cluster: pausing is one flag.
- Events of the user's secret, which queue the clusters that name it: passes are
  retried anyway while credentials are missing.
- Machines adopted by an older version without ownership ID, and VMs of somebody
  else found by their name alone: both start from states this program's own
  history does not produce.
- Several clusters or machines whose cloud names collide (see the boot disk above).
- Network and VPC status, cluster templates, generated code,
  metrics, flags, probes, leader election, mocks and tests: no logic of the kind
  a model is about.
- The evroc SDK, controller-runtime, the API server, CAPI and clusterctl are
  external; they are modelled by how the code uses them and marked so in the map.

## 6. Plan

Done: `Machine` and `Cluster` with their abstract specifications, `Admission`,
`WorkloadCleanup`, `SGSync` and `Fleet`, all with proofs of their safety properties.

What is left:

1. The half of `IsPaused` that reads the CAPI Cluster, and a failed copy of the
   credentials before a move: two hazards without a property, for which `Cluster`
   needs a second object and the source of a move.
2. Readiness of the layers behind the load balancer, and memberships that lag
   behind the last patch of a VM: two more such hazards; they are disagreements
   described in section 3.
3. Several owners of cloud names: clusters and machines whose names collide.
