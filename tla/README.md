# kubecon in TLA+

kubecon is a web console for a Kubernetes cluster. It is one Go process
(`main.go`, `pkg/kubeclient`, `pkg/kube`, `pkg/page`) that answers page requests
with gin. gin runs every handler in a goroutine of its own and turns a panic of
a handler into a 500 response. The console keeps no locks and no data of its own
except the connection to the API server. Everything else lives in the API
server, which other users of the console, `kubectl`, the kubelets and the
controller manager write at the same time. So what can go wrong is mostly about
what happens *between* two calls that a handler makes.

## Inventory

| Part | Code | Module | Status |
| --- | --- | --- | --- |
| Batch actions on pods: upgrade, downgrade, start, stop, restart, sync; import of a template | `main.go` 1108-1293, 1363-1374 | `PodActions`, abstract: `PodLifecycle` | modelled, safety and refinement proved |
| Export of a pod to its controller's template, with the batch actions | `main.go` 269-304, 1318-1361 | `TemplateExport` | modelled, proved |
| Connection to the API server, its configuration page and file | `pkg/kubeclient/helper.go`, `main.go` 42-49, 125-137 | `KubeConfig` | modelled, safety proved |
| JSON editors of services, endpoints, nodes, pods | `main.go` 139-234, 269-304, 1295-1316, 1475-1541, 1559-1611 | `ObjectForms` | modelled, proved |
| Replication controllers: edit, delete, create, export of a pod | `main.go` 236-267, 1318-1361, 1376-1473 | `ReplicationControllers` | modelled, proved |
| Upgrade and downgrade forms: registry tags, their order | `main.go` 1016-1106, `pkg/page/algorithm.go` 30-39, 103-167 | `ImageTags` | modelled, proved |
| Pod list: rows, filters, sorting; the way through form and action back | `main.go` 611-687, 761-766, 803-894, 960-973, `pkg/page/algorithm.go`, `pages/podList.html`, `pages/podForm.html` | `PodList` | modelled, proved |
| Pages of several reads: overview, nodes, namespace, events, one node | `main.go` 423-490, 555-609, 689-759, `helper.go` | `Pages` | modelled, safety proved |
| Resource totals and percentages | `main.go` 440-547, 896-942, `pkg/kube/util.go` 28-95 | `NodeResources` | modelled, proved |
| Ages | `pkg/kube/util.go` 97-121 | `Durations` | modelled, proved |
| Services and endpoints of a namespace | `main.go` 783-801, 975-999, `pkg/kube/util.go` 131-208 | `Services` | modelled, proved |
| Single objects shown as they are | `main.go` 386-421, 944-958, 1001-1014, `pkg/page/types.go` | - | not modelled |
| Logs | `main.go` 306-384 | - | not modelled |
| Creation forms and static pages, JavaScript | `main.go` 118-123, 549-553, 1419-1433, 1543-1557, `pages/`, `js/` | - | not modelled |
| Routing, authentication, TLS certificate | `main.go` 42-116, `Godeps/` | - | not modelled |

"Not modelled", below, gives the reasons.

## The modules

Each module takes one step per call to the API server (or, in `KubeConfig`, per
access to a shared variable). What a goroutine does to its own copy between two
calls is part of the step of the second call. Neither the API server nor the
Kubernetes client library (`k8s.io/kubernetes`) is in the repository. They are
modelled from how the code uses them:
an `Update` is taken if its resource version is the stored one (or, for an
unconditional update, blank), every accepted write gives the object a new
version, a `Delete` by name carries no version, and any call may fail, with or
without having taken effect.

### PodActions and PodLifecycle

State: `pods` and `rcs` (what the API server stores), `version` (its counter),
and `req`, one record per request with the position in the batch, the copies the
goroutine holds, the pods with errors, and the response. A stopped container
runs `PauseImage`, and its annotation `paused<i>` saves the image to go back to.
`stopper` (history) is the request that stopped a container last. A container may
also show `PauseImage` because its template lists it (`ByTemplate`): the pod was
made from such a template, or synced with it. Templates get there by the export of
a stopped pod (`TemplateExport`), so `TemplatesAssumption` allows `PauseImage` in
them.

| Action | Code |
| --- | --- |
| `performPodsAction`, `Malformed` | decoding of the post, 1108-1143 |
| `updatePodWithReplicationController` | the import button, 1363-1374 |
| `GetPod`, `GetTemplate` | the reads of `setPodImage`, `stopPod`, `startPod`, `syncPod` |
| `Panic` | a list that is longer than the containers of the pod; the first annotation of a pod without any (a nil map) |
| `UpdateStored`, `UpdateRefused` | the local change and the `Update`: stored with the reply delivered or lost; refused |
| `Respond` | 1181-1194 |
| `StatusUpdate`, `EditTemplate` | environment: kubelets, editors of controllers |

The operators `setPodImage`, `stopPod`, `startPod` and `syncPod` are the bodies
of the loops. `Posts` are lists that the handler decodes. They include what the
pages send: the start and stop pages post no check boxes, which the handler takes
for the first container, and the restart page posts one per container of the
*first* pod of the batch, which may have more containers than the others.

`PodLifecycle` is what the actions promise: a pod has an image to work with per
container and a set of stopped containers; every operation of a batch is one
atomic step on the pod (`Apply`), or does nothing (`Skip`, which must be reported), and a
redirect follows only if none failed. `Lifecycle` in `PodActions` is the
refinement mapping: the image a container is for is the annotation's if it is
stopped, and the running one otherwise.

### KubeConfig

State: the globals `KubeConfig` and `kubeClient`, the file, the goroutines of
`updateConfig`, and history variables. The three fields of the configuration are
written (`SetField`) and read (`Marshal`, `getKubeClient`) one by one. An access
to a string that another goroutine is writing is a data race, and may see or
leave a mixture of two texts: a `Torn` value, or, of an address, a `Broken` one,
which does not parse; the field may stay so after both writes (`StillTorn`).
`OpenFile` and `WriteFile` are the two halves of `ioutil.WriteFile`: a write over
what another update has written meanwhile may leave the end of a longer text
(`Garbage`), and so may a write that fails half-way. `Connect` and `Start`, which
is `main`'s `Init`, call `NewOrDie`: it panics on an address that it can not parse
(a posted one in `Bad`, or a `Broken` one), after the address has been saved.
`Crash` may come at any step. A field's value is identified with the post it came
from, so "whole" means that all fields have one origin.

### ObjectForms

One record per object (`store`) and per form that is open in a browser. What an
object holds is the set of the edits it includes, so a lost update is an edit
that was stored and is no longer in the set. `edit`, `post`, `GetVersion`,
`UpdateStored`, `UpdateRefused`, `delete` and `create` are the handlers;
`Refreshed` are the kinds (nodes, pods) whose update handler replaces the
version of the form by the current one. Users edit what the form shows and leave
name and version alone.

### ReplicationControllers

Of a controller: `spec.replicas`, `status.replicas`, the set of changes
included, the version and the version at creation. `editReplicationController`
and `updateReplicationController` are the editor, `GetForExport` and
`updateReplicationControllerWithPod` the two halves of export, `CheckReplicas`
and `deleteReplicationController` the two halves of delete. `Reconcile` and
`ReportStatus` are the controller manager. Every handler calls
`kubeclient.Get()` anew for each of its calls. So the module has several
clusters, and `Switch` (the configuration page) may replace the client between
any two calls: a handler can read a controller in one cluster and write its
namesake in another.

### ImageTags

State: the tags that the registry lists for each image, and the forms that are
being made. `showPodsForm` decodes the post, `getImageTags` is one call to the
registry together with what is made of its reply (parse, sort, search, slice,
reverse, limit); tags are pushed and deleted between the calls. The text of a tag
is a sequence of tokens, a hyphen, a letter or a version number `n.0.0`, so that
`ParseImageTag` really has to find where the prefix ends. `Parse` and `Compare`
are the semver library, for prereleases of one token. `SortCombinedVersions` is
the set of the results that an unstable sort may have.

### PodList

One user walks from the list to the form of an action, to the action and along
its redirect, while others change the pods. `genOnePod` makes a row,
`GetPodsFilters` and `FilterPodsBy*` are the filters and what they offer,
`Sorted` is the set of orders that an unstable sort may produce, `Location` is
the query of the redirect. How an action reads and writes a pod is in
`PodActions`; here it leaves other images in the pods, or fails. A choice for a
container that one of the pods does not have (`Panics`) ends an upgrade there.

### TemplateExport

`PodActions` extended by the export button: the form of the pod editor that was
filled with a stopped container puts `PauseImage` into the template. `ran`
(history) is what each container ran last. `OnlyExports` says that the templates
that are written by hand do not list `PauseImage`; it is the premise of what is
said about `StartsWhatRan`, where it tells exports from edits.

### Pages

One request for a page of several reads. Each call is a step that may fail
(`ErrorPage`, or a row without its numbers, as the handler has it); `Changing`
is a change of a cluster, or of the client by `updateConfig`, between two calls.
`seen` (history) has the states of the client's cluster since the request came.
The error page of `describeNode` for amounts that can not be added (449-453) is
in `NodeResources`, where the amounts are.

### NodeResources

A `resource.Quantity` holds a pointer to its amount, and `Add` changes the
amount in place. So the amounts live in a `heap`, and `Copy` and `Add` are what
`GetSinglePodTotalRequestsAndLimits` and `GetPodsTotalRequestsAndLimits` do to
it; the copies of a row are dropped when the row is made (`MakeRow`). One action
makes one row, in the order of the handlers (`DescribeTasks`, `ListTasks`).
`Fraction` is the set of the percentages that the two roundings of the
floating-point expression may give. They can take a percentage that is a whole
number to just below it, and the model has that. To take one that is just below
up to it they need a total of which 100 times is 2^52 thousandths or more (45 GB
of memory); such totals are left out.

### Durations and Services

`Durations` is `TranslateTimestamp` and `shortHumanDuration`, seen by a user who
loads a page again and again. `Services` extends it with the rows of services
and endpoints, in which that age is shown: `GetServiceExternalIP`,
`loadBalancerStatusStringer`, `MakePorts`, `FormatEndpoints`. A text with commas
is the sequence of its parts, where the empty text has one blank part, as
`strings.Split` has it. The loops of the code are folds of one operator per loop
body: `Without` is the loop over the ingress, and `OneSubset`, `OnePort` and
`OneAddress` are the three nested loops of `FormatEndpoints`. `Pairs` and
`AllPairs`, which `EndpointsShown` compares them with, have no accumulator and
no limit.

## The runs

| Run | Configuration | Checks |
| --- | --- | --- |
| `pod_actions` | `MCPodActions.cfg` | `TypeOK`, `SavedImages`, `ReadCoherent`, `NoSilentStop`, `ActionsAreAtomic` (refinement of `PodLifecycle`), `Responds` |
| `template_export` | `MCTemplateExport.cfg` | `StartsWhatRan` |
| `config` | `MCKubeConfig.cfg` | `ConfigTypeOK`, `AloneInstalls`, `NeverMixed`, `Restarts`, `Answered` |
| `config_crash_loop` | `MCKubeConfigBack.cfg` | `ComesBack`: **violated** |
| `object_forms` | `MCObjectForms.cfg` | `NoLostEdit`, `LostToStaleForm` |
| `rc_edits` | `MCReplicationControllers.cfg` | `NoLostScale`, `TemplateLostToExport`, `CheckHoldsUntilWrite` |
| `rc_delete` | `MCReplicationControllersDelete.cfg` | `DeletedEmpty`: **violated** |
| `tags` | `MCImageTags.cfg` | `OffersNearest`, `NothingHidden`, `ReadsBack`, `OneOrder` |
| `pod_list` | `MCPodList.cfg` | `TypeOK`, `ChoicesFind`, `FirstTells`, `RedirectShowsActed`, `UpgradeKeepsName` |
| `pages` | `MCPages.cfg` | `OverviewWasTrue`, `OverviewComplete`, `NodesShowOneMoment`, `HidesOnly`, `Answered` |
| `node_resources` | `MCNodeResources.cfg` | `TotalsRight`, `HiddenErrorsAreTerminated`, `FullShowsFull` |
| `services` | `MCServices.cfg` | `ShownIsFloor`, `NeverYounger`, `ServiceShown`, `EndpointsShown` |

What they show:

- *Batch actions.* However requests, kubelets and lost replies interleave, a
  container that was stopped by a stop or a restart has the image to go back to
  (`SavedImages`), and the request that stopped it was asked to, or is a restart
  that is about to start it or has failed visibly (`NoSilentStop`). Both except
  the containers that a template has stopped, one to which a stopped pod was
  exported: those may have nothing to go back to. A copy with the stored version
  is the stored pod (`ReadCoherent`); every operation is atomic and every request
  is answered.
- *Export.* A start brings back what the container ran last, with one exception:
  a pod of a controller to which the container was exported while it was stopped
  (`StartsWhatRan`).
- *Configuration.* An update that meets no other one installs exactly its post
  (`AloneInstalls`), and without overlapping updates credentials are never mixed,
  neither in the client nor in what a restart loads (`NeverMixed`). When updates
  overlap they can be: the race is in the model, and the properties say what is
  left. A console that has crashed comes back unless the file holds an address
  that the library refuses, a posted one or, after a race, a torn one
  (`Restarts`). While it runs there is always a client, so `Get` never ends it
  (`ConfigTypeOK`).
- *Editors.* No edit of a service or of endpoints is lost. Edits of nodes and
  pods are lost to forms that were filled before them, and to nothing else.
- *Replication controllers.* No scale is undone by an editor or an export, even
  if the client is replaced half-way, since an API server refuses an object with
  a UID that is not its own. A template edit is only lost to an export, which is meant to
  replace it. The check of a delete holds good until somebody writes the
  controller; its third exception (`CheckHoldsUntilWrite`) is a client that was
  replaced after the check, for then the `Delete` goes to a cluster where nothing
  was checked.
- *Upgrade forms.* A form for a tag that the registry lists offers exactly the
  nearest versions in its direction (`OffersNearest`; so a downgrade form offers
  the way back from every upgrade, if the tags fit). This rests on tags being
  written as they were read (`ReadsBack`) and being totally ordered
  (`OneOrder`). A running tag that is *not* listed hides no tag: all are offered,
  in both directions (`NothingHidden`).
- *Pod list.* Every filter that is offered finds a pod (`ChoicesFind`); the
  status is that of the first container in trouble (`FirstTells`); the list that
  an action leads back to shows the pods acted on, although the action changed
  what they had been found by (`RedirectShowsActed`); an upgrade keeps image and
  registry, except where the pods of a batch differ, where the pod changed after
  it was listed, or for images of Docker Hub (`UpgradeKeepsName`).
- *Pages.* Every number on the overview was true of its namespace at some moment
  of the request, or stands for a call that failed; no namespace is missing
  unless its pods could not be listed; the nodes of a page are of one moment;
  only the failures meant to be hidden are; every request is answered.
- *Resources.* All totals are what the containers ask for, in spite of the shared
  amounts (`TotalsRight`); the errors that `describeNode` ignores hide no live pod
  of its page (`HiddenErrorsAreTerminated`; the rows of `genOneNode` and
  `genOnePod` ignore the same errors for live pods too, and show nothing for
  them); 100 % is shown exactly when the capacity is
  reached (`FullShowsFull`).
- *Services and ages.* The texts show every address, tell ports apart and account
  for every endpoint. An age is rounded down and never goes back, except on the
  365th day, which is shown as 0 years.

The two violated properties are findings:

- `DeletedEmpty`: `deleteReplicationController` answers "Replicas must be 0"
  (`main.go:1407`) for a controller that has any, but a scale between its check
  and its `Delete` (`main.go:1410`) goes unnoticed, and the pods are orphaned.
- `ComesBack`: `updateConfig` saves an address (`main.go:134`) before `Init`
  tries it. The running console survives the panic of `NewOrDie` and keeps its
  old client. After the next crash `main` panics on every start, while the
  Dockerfile (line 6) wants the process brought up automatically.

### Bounds, and why they are enough

- `MCPodActions.cfg`: two requests, one pod (one or two containers, with or
  without annotations and a controller) that may be posted twice in a batch, two
  images, a template with and one without `PauseImage`, all actions. Two
  requests are needed for a conflict, a batch of two for an error that is followed by a success, and two containers for a partial stop.
  `MaxVersion` bounds only the writes of others (as `MaxRevision` does for
  `ObjectForms`); the requests' own writes are
  bounded by the batches. Safety and the refinement are proved for any instance.
- `MCTemplateExport.cfg`: one container, one export, and three requests: stop,
  sync and start are the shortest way to a wrong start.
- `MCKubeConfig.cfg`: two updates that may overlap (`MaxInFlight`), one of them
  with a refused address, and two crashes, so that a crash can meet what an
  earlier crash has left. `MCKubeConfigBack.cfg` needs only one crash.
- `MCObjectForms.cfg`: a service and a node, and three forms: one whose edit is
  lost, one that it is lost to, one that deletes or interferes. Endpoints behave
  as services, and pods as nodes without a delete.
- `MCReplicationControllers.cfg`: one name, as the handlers never touch two, in
  two clusters; one request of each kind, none or one replica (`Sizes`), and two
  further writes.
  `MCReplicationControllersDelete.cfg`: one cluster, two requests of a kind.
- `MCImageTags.cfg`: five tags, one of each kind (a word, a version, a `v`
  version, a prerelease, a prefixed version; three of them with equal versions),
  at most four at a time, and `Limit` 2 for the code's 50, so that lists are cut.
  Besides, all pairs of the texts of up to five tokens (`MCPushed`), for
  parsing and comparing, which look at no more than two; the constraint
  `FewOrPairs` keeps forms to the five tags.
- `MCPodList.cfg`: two pods with one of two reports, or one pod with any report
  on two containers; one change by others and four clicks, which is one round
  from the list through a filter and an action and back.
- `MCPages.cfg`: two clusters, namespaces, nodes and pods, and two changes at any
  moment of a request; every call may fail.
- `MCNodeResources.cfg`: two pods of up to two containers on two nodes, one of
  which reports no capacity; amounts in both formats.
- `MCServices.cfg`: lists of up to two addresses, up to eight pairs of address
  and port (the list is cut at three), and the ages on both sides of every limit
  of `shortHumanDuration`.
- What the passing runs check of safety on these instances is proved for any, so
  the bounds limit no claim but those of liveness.
- Symmetry is over requests or forms that the module treats alike, and is used
  for invariants only.

`CHECK_DEADLOCK FALSE` is set for the modules in which all is done once the last
form, request or update has been answered, the page has been made or the bound on
clicks or loads is reached (and, in `KubeConfig`, once the process can not start).
In `PodActions` the environment always has a step, so there the liveness property `Responds` says that no request gets stuck; `Answered` and
`Restarts` say it of `KubeConfig`, and `Answered` of `Pages`.

### Fairness

`WF(Handle(r))` for each request: gin gives each a goroutine, Go's scheduler
runs it, and every call to the API server returns with a reply or an error.
`Pages` has one request and assumes the same of its handler.
`WF(Start)`: the Dockerfile installs `entrypoint.sh` as a supervised service,
which is started again when it exits. No fairness is assumed of users, kubelets, other
clients, or of crashes.

## The proofs

Eight modules prove, for every value of the constants that satisfies the named
assumptions of the module (`ConstantsAssumption` and its like):

| Module | Theorem | States |
| --- | --- | --- |
| `PodActionsProofs` | `TypeCorrect` | `Spec => []TypeOK` |
| | `CopiesCoherent` | `Spec => []ReadCoherent` |
| | `StoppedCanStart` | `Spec => []SavedImages` |
| | `StopsAccountedFor` | `Spec => []NoSilentStop` |
| | `Atomic` | `Spec => ActionsAreAtomic`: `PodActions` implements `PodLifecycle` |
| | `StartBringsBack` | `OnlyExports` implies `ExportSpec => []StartsWhatRan` |
| | `ExportsKeepStops` | `ExportSpec => [](SavedImages /\ NoSilentStop)` |
| `EditingProofs`, of `KubeConfig` | `ConfigTypeCorrect` | `ConfigSpec => []ConfigTypeOK` |
| | `Installs` | `ConfigSpec => []AloneInstalls` |
| | `Unmixed` | `ConfigSpec => []NeverMixed` |
| of `ReplicationControllers` | `ScalesKept` | `Spec => []NoLostScale` |
| | `TemplatesKept` | `Spec => []TemplateLostToExport` |
| | `ChecksHold` | `Spec => []CheckHoldsUntilWrite` |
| of `ObjectForms` | `EditsKept` | `FormSpec => []NoLostEdit` |
| | `OnlyStaleForms` | `FormSpec => []LostToStaleForm` |
| `NodeResourcesProofs`, with the lemmas of `ResourceTotals` | `TotalsAreRight` | `Spec => []TotalsRight` |
| | `HiddenErrorsTerminated` | `Spec => []HiddenErrorsAreTerminated` |
| | `FullNodesShowFull` | `Spec => []FullShowsFull` |
| `PagesProofs` | `OneMoment` | `Spec => []NodesShowOneMoment` |
| | `OnlyMeantHidden` | `Spec => []HidesOnly` |
| | `WasTrue` | `Spec => []OverviewWasTrue` |
| | `Complete` | `Spec => []OverviewComplete` |
| `PodListProofs` | `TypesCorrect` | `Spec => []TypeOK` |
| | `StatusCorrect` | `Spec => []FirstTells` |
| | `ChoicesCorrect` | `Spec => []ChoicesFind` |
| | `RedirectCorrect` | `Spec => RedirectShowsActed` |
| | `UpgradeCorrect` | `Spec => UpgradeKeepsName` |
| `ImageTagsProofs` | `TagsReadBack` | `Spec => []ReadsBack` |
| | `TagsOrdered` | `Spec => []OneOrder` |
| | `NearestOffered` | `Spec => []OffersNearest` |
| | `AllOffered` | `Spec => []NothingHidden` |
| `ServicesProofs` | `Floor` | `Spec => []ShownIsFloor` |
| | `Older` | `Spec => NeverYounger` |
| | `Reached` | `PageSpec => []ServiceShown` |
| | `Counted` | `PageSpec => []EndpointsShown` |
| | `AgesOnPage` | `PageSpec => Spec`: the page takes only steps of `Durations` |

*PodActions.* The constants are arbitrary pods, controllers, posts, images and any
number of requests; the templates are any lists of images, `PauseImage` among them
or not (`ConstantsAssumption`, `PostsAssumption`, `TemplatesAssumption`). None of
the four invariants is inductive alone. `IInv` adds to them
- `RequestOK`: what a goroutine holds at each position. A request with a copy is
  at a pod of a non-empty batch, its operation is one of its action, its
  template is there when `syncPod` writes, and nothing is left to do when it
  answers;
- `VersionsOK`: no stored pod and no copy has a version above the counter. An
  `Update` gets a version that no copy has, so a copy that matches
  afterwards is either of the same old pod or no copy at all. That is what makes
  `ReadCoherent` inductive.

`WrittenStopped` lists the ways in which an operation can leave a container
stopped, and what becomes of its annotation: a sync brings it in stopped, a stop
stops it and saves the image, or it was stopped before and nobody starts it. An
accepted `Update` replaces the very pod that was read (`ReadCoherent`), so in the
third case `SavedImages` and `NoSilentStop` are about the same stop as before, in
the second about the request itself, and in the first the request is a sync
(`StoredPodInv`). For `NoSilentStop`, `AdvanceOK` and `FailedOK` add that a
request goes on accounting for what it has stopped: a restart that goes past a
pod has started it or lists it. There is one lemma per group of actions: arrivals,
steps that only change a request, `UpdateStored`, and the environment.

*The refinement.* `SetEffect`, `StopEffect`, `StartEffect` and `SyncEffect` say
what each operation does to the abstract pod, given the copy it read. An Update
that is stored is `Apply` (`StoredApplies`), because its copy is the stored pod
(`ReadCoherent`), and a start is one because the API server takes no container
without an image: a start that finds no annotation is refused. Errors are `Skip`,
a panic is `Abort`, and reads, kubelets and edits of templates are stutters.

*Export.* In `TemplateExport` a template may be any list that a pod has had, so
the templates are not those of `Templates`. The invariants of `PodActions` are
therefore proved for any set of templates (`CoreInv`, `PodInv`), and
`ComposedInv` takes them to the composition: `ExportsKeepStops` says that the two
properties about stops survive exports of stopped pods. `ExportInv` says what is
lost: it adds that the history is up to date (`HistoryOK`), and follows a stopped
container on its way, from an exported form into a template (`PausedTemplates`),
and from there into the hands of a sync (`PausedReads`). Only such a sync leaves a
container without the right annotation. `StartBringsBack` has the premise
`OnlyExports`, since a `PauseImage` that somebody has written into a template by
hand does the same without an export.

*ReplicationControllers* and *ObjectForms*. `Versions` and `Copies` (of forms:
`Revisions` and `FormCopies`) play the role of `VersionsOK` and `ReadCoherent`:
every write takes a new version, so a form that the API server would accept
shows what is stored. `CheckAtHome` is the check of a delete, about the cluster
that was looked at and whichever the client is now. For the kinds whose handlers
refresh the version, `SeenOrLost` says that what was stored before a form was
filled is in the form or was lost to an older one already.

*KubeConfig.* The properties are about updates that have answered. `Progress`
says how far one that has met no other has come: which fields of the
configuration and of its copy are its own, and what the file holds; `Alone` ties
"has met no other" to the goroutines that are in flight. Races and crashes may
leave anything but break none of this, as they end the claim to be alone.

*Pages.* `HiddenSoFar` says, while the request is still being handled, which
failures it has hidden, and `RowsSoFar` that the rows of `describeNode`, made two
calls before its answer, are of a moment since the request came. A row of the
overview is made of two calls, so `OInv` adds that the number of pods kept
between them was true too; moments and failures are never forgotten, so a row
that was true stays so (`KeepsRows`).

That the overview is complete is about a sequence that shrinks while another one
grows. `Covers` says of both together that they are in the order of the
namespaces, that no name is in both, and that they hold every name of one reply
except those that failed; `CInv` says that it holds of some moment of the request
while the handler is between two calls, and of the page, where nothing is left to
do, it is `OverviewComplete`.

*PodList.* `RowHolds` says what may still be relied upon of a row that was listed
some clicks ago: the labels and, once the pod has one, the node, but neither
the images nor the status. Hence the invariant of the redirect (`RowsHold`): its
query has kept just the filters that no action makes obsolete. The status is a
fold over the containers; `FoldIsVerdict` shows that it comes to what the first
container in trouble tells (`Verdict`). `UpgradeStep` is the case analysis for an
upgrade, on one pod.

*ImageTags.* `RegistryOK` and `FormsOK` are inductive; the work is in the
operators. `CutString` and `ParseOne` show that what `ParseImageTag` finds is
unique and is written as it was read. `StringLessTotal`, `CompareTotal` and
`LessTotal` show that tags are totally ordered, so that a sort which is not stable
still ranks them one way (`Sorted`). `Search`, `UpgradeCandidates` and
`DowngradeCandidates` follow the search and the slices, and `GoodOffer` puts them
together: an offer is right of the tags that the registry replied, and stays so
whatever is pushed later.

*Services and ages.* `WholeSeconds` to `WholeYears` bound the truncated quotients,
and the theorems about ages follow by cases on the returns of
`shortHumanDuration`. `PageInv` says that the rows are what the last load made of
the item. The rest is about the texts, and about folds over sequences of any
length:
- `UpTo` is induction on the numbers up to n, from the library's theorem that `<`
  is well-founded on `Nat`, and `FoldExists` shows that the recursive function
  behind a fold exists, so that its defining equation may be used;
- `PortLoop`, `SubsetLoop` and `AllLoop` do one loop of `FormatEndpoints` each:
  if one round does to the accumulator what appending a piece to an unlimited
  text would do (`Told`), so does the loop, with the concatenation of the pieces.
  `AllTold` joins the three;
- `WithoutLoop` and `WithoutOf` do the same for the loop over the ingress, and
  `PortsApart` shows that cutting `/TCP` off is injective.

*NodeResources.* The properties are about rows that were made one after the other
in the same heap, so the invariant (`RowsInv`) says that at the start of each row
the heap is what the API server sent, and that all rows so far are right. The
constants are any nodes, finitely many kinds, any containers and capacities
(`ConstantsAssumption`).
- `ResourceTotals` shows what a sum does, one loop at a time: `AddOneTally`,
  `AddAllTally`, `ContainerTally` and `SingleTally`, `AddPodTally`, `PodsTally`.
  `Tally(s, D)` says that the map `s` points to cells that `Copy` made, each of
  which holds the total (`Worth`) of what is asked for at the addresses in `D`, or
  that there was an error and formats clash in `D`. `Frame` says that only such
  cells were changed. Both are needed at once: an amount may be added later only
  if nothing before has changed it.
- `Worth` is a sum over sets. `SumExists` and `SumUnion` show that there is one and
  that it is additive, and `SumOfAsked` that it is the sum that `Asked` takes, in
  whichever order.
- `FoldKeeps` carries an invariant through a fold over a finite set, and
  `SameFold` identifies the fold of the library with it.
- `RowIsRight` turns a right sum into a right row; `FractionIs` and `LabelIs`
  bound the roundings.
- For the hidden errors, `Watched` says of a set of live pods that each row of
  `describeNode` is of pods among them or of terminated ones only, and that the
  sum over all of them is still to come, was made without an error, or has turned
  the page into an error. `DescribeTasksAre` establishes it, and `MakeRowKeeps`
  takes it from one row to the next.

Only model-checked:
- liveness (`Responds`, `Answered`, `Restarts`), which this prover does not do;
- the two violated properties, whose counterexamples TLC gives.

## Not modelled

- *Single objects shown as they are*: `describePod`, `genOneReplicationController`,
  `genOneEvent`, `FilterEventsFromNode`, and the status and label texts of
  `genOneNode` copy fields of one reply into a row. There is no state and no
  choice that a property could be about.
- *Logs*: `readLog` and its routes copy one streamed reply to a page.
- *Creation forms, static pages, HTML and JavaScript*: rendering. What they decide
  is which posts arrive; the modules take those as inputs (`Posts`, and the
  enabled buttons and choices in `PodList`).
- *Routing, authentication, TLS certificate*: library calls at start-up. The call
  of `kubeclient.Init` in `main` is in `KubeConfig`.
- *Libraries*: those under `Godeps/` (more than nine tenths of the lines under
  `src/`), which are gin, semver and what the Kubernetes client depends on, and
  the Kubernetes client, which is not under `src/`. They are modelled only by how
  the console's code uses them; of the semver package the parsing and comparing of
  versions is translated (`ImageTags`). So the modules cover about
  two thirds of the console's own 2250 lines of Go, and a small share of all
  lines under `src/`.

## Running

    tlc -config MCPodActions.cfg MCPodActions
    tlapm PodActionsProofs.tla

Every configuration is named after its module; `MCKubeConfigBack.cfg` belongs to
`MCKubeConfig`, and `MCReplicationControllersDelete.cfg` to
`MCReplicationControllers`. With two workers the longest run (`pod_list`) takes
about two minutes, and the longest proofs (`ServicesProofs`) about fifteen.
