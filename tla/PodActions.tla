----------------------------- MODULE PodActions -----------------------------
(***************************************************************************)
(* The batch actions of the pod list page: upgrade, downgrade, start,      *)
(* stop, restart and sync (main.go, performPodsAction and the functions it *)
(* calls), and the import button of the pod editor, which is a sync of one *)
(* pod.                                                                    *)
(*                                                                         *)
(* gin serves every request in its own goroutine and the console keeps no  *)
(* lock: each operation on a pod is a Get from the API server, a change to *)
(* the local copy, and an Update that carries the resource version of the  *)
(* copy. The model takes one step per call to the API server; what a       *)
(* goroutine does to its local copy between two calls belongs to the step  *)
(* of the second one.                                                      *)
(*                                                                         *)
(* Containers and the annotations paused0, paused1... are numbered from 1. *)
(***************************************************************************)
EXTENDS Naturals, Sequences

CONSTANTS
  Pods,              \* names of the pods of the namespace
  RCs,               \* names of its replication controllers
  NoRC,              \* a pod without the managed-by label
  Requests,          \* the requests that arrive, one goroutine each
  Names,             \* image names without the registry, as the form posts them
  PrivateRepoPrefix, \* the registry every image of the form is pulled from
  PauseImage,        \* the image a stopped container runs
  NoImage,           \* "": a blank choice, and a missing annotation
  NoPod,             \* a goroutine that holds no copy of a pod
  NoRequest,         \* a container that no request has stopped
  MaxWidth,          \* bound on the containers of a pod
  Templates,         \* what an RC's template may list: an image for each container
  Posts,             \* what the forms of the pod list may post
  MaxVersion         \* bound on the versions that other clients of the API use up

VARIABLES
  pods,     \* the pods stored by the API server
  rcs,      \* the template of each replication controller
  version,  \* the last resource version the API server has given out
  req,      \* the requests: their parameters and their goroutine's progress
  stopper   \* the request that stopped each container last (history)

vars == <<pods, rcs, version, req, stopper>>
-----------------------------------------------------------------------------
Slots == 1..MaxWidth

PrivateImage(n) == <<PrivateRepoPrefix, n>>

Image == {PrivateImage(n) : n \in Names}

\* The lists of one image per container, over the images in S.
ImageLists(S) == UNION {[1..n -> S] : n \in Slots}

ASSUME ConstantsAssumption ==
  /\ NoRC \notin RCs
  /\ PauseImage \notin Image
  /\ NoImage \notin Image
  /\ NoImage # PauseImage
  /\ NoImage \notin Names
  /\ NoRequest \notin Requests
  /\ MaxWidth \in Nat
  /\ MaxVersion \in Nat

Actions == {"upgrade", "downgrade", "start", "stop", "restart", "sync", "import", "delete"}

\* The fields of a post: the selected pods, an image name or a blank for each
\* container, and a check box for each container or none at all.
ASSUME PostsAssumption ==
  Posts \subseteq [action : Actions \ {"import"},
                  pods   : Seq(Pods),
                  images : Seq(Names \union {NoImage}),
                  checks : Seq(BOOLEAN)]

\* A template lists PauseImage for a container that was exported while stopped.
ASSUME TemplatesAssumption == Templates \subseteq ImageLists(Image \union {PauseImage})

(***************************************************************************)
(* What the console reads and writes of a pod: the image of each           *)
(* container, the image each paused<i> annotation saves, whether there is  *)
(* any other annotation (without one the map is nil), the managed-by label *)
(* and the resource version.                                               *)
(***************************************************************************)
Pod == [images    : ImageLists(Image \union {PauseImage}),
        paused    : [Slots -> Image \union {NoImage}],
        annotated : BOOLEAN,
        managedBy : RCs \union {NoRC},
        rv        : Nat]

\* The containers that are stopped in a list of images.
StoppedIn(images) == {i \in DOMAIN images : images[i] = PauseImage}

NilAnnotations(pod) == ~pod.annotated /\ \A i \in Slots : pod.paused[i] = NoImage

Checked(checks) == {i \in DOMAIN checks : checks[i]}
-----------------------------------------------------------------------------
(***************************************************************************)
(* What each operation makes of the copy it has read.                      *)
(***************************************************************************)
setPodImage(pod, fullImages) ==
  LET Set == {i \in DOMAIN fullImages : fullImages[i] # NoImage}
  IN  [pod EXCEPT !.images = [i \in DOMAIN @ |-> IF i \in Set THEN fullImages[i] ELSE @[i]]]

\* Mutant: without the test for a container that is stopped already.
stopPod_Again(pod, checks) ==
  [pod EXCEPT !.paused = [i \in Slots |-> IF i \in Checked(checks) THEN pod.images[i] ELSE @[i]],
              !.images = [i \in DOMAIN @ |-> IF i \in Checked(checks) THEN PauseImage ELSE @[i]]]

\* Mutant: an annotation that is there already is kept.
stopPod_KeepsFirst(pod, checks) ==
  LET Stop == {i \in Checked(checks) : pod.images[i] # PauseImage}
  IN  [pod EXCEPT !.paused = [i \in Slots |-> IF i \in Stop /\ @[i] = NoImage THEN pod.images[i] ELSE @[i]],
                  !.images = [i \in DOMAIN @ |-> IF i \in Stop THEN PauseImage ELSE @[i]]]

stopPod(pod, checks) ==
  LET Stop == {i \in Checked(checks) : pod.images[i] # PauseImage}
  IN  [pod EXCEPT !.paused = [i \in Slots |-> IF i \in Stop THEN pod.images[i] ELSE @[i]],
                  !.images = [i \in DOMAIN @ |-> IF i \in Stop THEN PauseImage ELSE @[i]]]

\* Mutant: the annotations of all containers are removed, not only the started.
startPod_ForgetsAll(pod, checks) ==
  LET Start == {i \in Checked(checks) : pod.images[i] = PauseImage}
  IN  [pod EXCEPT !.images = [i \in DOMAIN @ |-> IF i \in Start THEN pod.paused[i] ELSE @[i]],
                  !.paused = [i \in Slots |-> NoImage]]

startPod(pod, checks) ==
  LET Start == {i \in Checked(checks) : pod.images[i] = PauseImage}
  IN  [pod EXCEPT !.images = [i \in DOMAIN @ |-> IF i \in Start THEN pod.paused[i] ELSE @[i]],
                  !.paused = [i \in Slots |-> IF i \in Start THEN NoImage ELSE @[i]]]

\* The template's containers replace the pod's, and copied-from is annotated.
syncPod(pod, template) == [pod EXCEPT !.images = template, !.annotated = TRUE]

(***************************************************************************)
(* The operations that panic instead: a list longer than the containers of *)
(* the pod, since the form is laid out after the first pod of the batch,   *)
(* and an assignment to a nil map of annotations.                          *)
(***************************************************************************)
Panics(q) ==
  \/ /\ q.op = "setPodImage"
     /\ \E i \in DOMAIN q.images : q.images[i] # NoImage /\ i \notin DOMAIN q.read.images
  \/ /\ q.op \in {"stopPod", "startPod"}
     /\ \E i \in DOMAIN q.checks : i \notin DOMAIN q.read.images
  \/ /\ q.op = "stopPod"
     /\ NilAnnotations(q.read)
     /\ \E i \in Checked(q.checks) \intersect DOMAIN q.read.images :
          q.read.images[i] # PauseImage

Written(q) ==
  CASE q.op = "setPodImage" -> setPodImage(q.read, q.images)
    [] q.op = "stopPod"     -> stopPod(q.read, q.checks)
    [] q.op = "startPod"    -> startPod(q.read, q.checks)
    [] q.op = "syncPod"     -> syncPod(q.read, q.template)

\* The containers that the operation stops.
Newly(q) == StoppedIn(Written(q).images) \ StoppedIn(q.read.images)

(***************************************************************************)
(* External: the API server stores a pod only if the version it carries is *)
(* the stored one, and only if every container has an image.               *)
(***************************************************************************)
Accepts(stored, pod) ==
  /\ pod.rv = stored.rv
  /\ \A i \in DOMAIN pod.images : pod.images[i] # NoImage
-----------------------------------------------------------------------------
Ops == {"setPodImage", "stopPod", "startPod", "syncPod", "none"}

\* The function that the loop of performPodsAction calls first for each pod.
FirstOp(action) ==
  CASE action \in {"upgrade", "downgrade"} -> "setPodImage"
    [] action = "start"                    -> "startPod"
    [] action \in {"stop", "restart"}      -> "stopPod"
    [] action \in {"sync", "import"}       -> "syncPod"
    [] action = "delete"                   -> "none"

(***************************************************************************)
(* A request: its parameters, the operation and the rest of the batch the  *)
(* goroutine is at, the copies it has read, the pods of which an operation *)
(* returned an error, and the response.                                    *)
(***************************************************************************)
Request == [pc       : {"new", "get", "getrc", "update", "respond", "done"},
            action   : Actions,
            op       : Ops,
            batch    : Seq(Pods),
            images   : Seq(Image \union {NoImage}),
            checks   : Seq(BOOLEAN),
            read     : Pod \union {NoPod},
            template : ImageLists(Image \union {PauseImage}) \union {<<>>},
            errs     : SUBSET Pods,
            resp     : {"none", "redirect", "errors", "malformed", "panic"}]

NewRequest == [pc |-> "new", action |-> "delete", op |-> "none", batch |-> <<>>,
               images |-> <<>>, checks |-> <<>>, read |-> NoPod, template |-> <<>>,
               errs |-> {}, resp |-> "none"]

\* The posted images get the registry's prefix, blank ones stay blank, and an
\* empty list of check boxes stands for the first container.
Accepted(post) ==
  LET op == FirstOp(post.action)
  IN  [NewRequest EXCEPT
         !.pc     = IF op # "none" /\ post.pods # <<>> THEN "get" ELSE "respond",
         !.action = post.action,
         !.op     = op,
         !.batch  = post.pods,
         !.images = [i \in DOMAIN post.images |->
                       IF post.images[i] = NoImage THEN NoImage ELSE PrivateImage(post.images[i])],
         !.checks = IF post.checks = <<>> THEN <<TRUE>> ELSE post.checks]

\* The import button of the pod editor.
Import(p) ==
  [NewRequest EXCEPT !.pc = "get", !.action = "import", !.op = "syncPod", !.batch = <<p>>]

Current(r) == Head(req[r].batch)

\* Once an operation returns: restart goes on to start the same pod, even if
\* stopping it failed; otherwise the loop takes the next pod.
Advance(q) ==
  IF q.action = "restart" /\ q.op = "stopPod"
  THEN [q EXCEPT !.pc = "get", !.op = "startPod", !.read = NoPod]
  ELSE [q EXCEPT !.pc = IF Len(q.batch) > 1 THEN "get" ELSE "respond",
                 !.op = FirstOp(q.action), !.batch = Tail(@),
                 !.read = NoPod, !.template = <<>>]

\* Mutant: the error of startPod is dropped.
Failed_IgnoreStart(q) ==
  Advance(IF q.op = "startPod" THEN q ELSE [q EXCEPT !.errs = @ \union {Head(q.batch)}])

Failed(q) == Advance([q EXCEPT !.errs = @ \union {Head(q.batch)}])
-----------------------------------------------------------------------------
\* The pods as their replication controllers have made them.
Init ==
  /\ rcs \in [RCs -> Templates]
  /\ pods \in [Pods -> [images    : Templates,
                        paused    : {[i \in Slots |-> NoImage]},
                        annotated : BOOLEAN,
                        managedBy : RCs \union {NoRC},
                        rv        : {0}]]
  /\ version = 0
  /\ req = [r \in Requests |-> NewRequest]
  /\ stopper = [p \in Pods |-> [i \in Slots |-> NoRequest]]

performPodsAction(r) ==
  /\ req[r].pc = "new"
  /\ \E post \in Posts : req' = [req EXCEPT ![r] = Accepted(post)]
  /\ UNCHANGED <<pods, rcs, version, stopper>>

\* One of the posted lists does not parse: an error page, and nothing is done.
Malformed(r) ==
  /\ req[r].pc = "new"
  /\ req' = [req EXCEPT ![r].pc = "done", ![r].resp = "malformed"]
  /\ UNCHANGED <<pods, rcs, version, stopper>>

updatePodWithReplicationController(r) ==
  /\ req[r].pc = "new"
  /\ \E p \in Pods : req' = [req EXCEPT ![r] = Import(p)]
  /\ UNCHANGED <<pods, rcs, version, stopper>>

GetPod(r) ==
  /\ req[r].pc = "get"
  /\ \/ req' = [req EXCEPT ![r].pc = IF req[r].op = "syncPod" THEN "getrc" ELSE "update",
                           ![r].read = pods[Current(r)]]
     \/ req' = [req EXCEPT ![r] = Failed(@)]
  /\ UNCHANGED <<pods, rcs, version, stopper>>

\* Mutant: the copy gets the current version, as updatePod does it.
GetTemplate_RefreshVersion(r) ==
  /\ req[r].pc = "getrc"
  /\ \/ /\ req[r].read.managedBy # NoRC
        /\ req' = [req EXCEPT ![r].pc = "update",
                              ![r].template = rcs[req[r].read.managedBy],
                              ![r].read.rv = pods[Current(r)].rv]
     \/ req' = [req EXCEPT ![r] = Failed(@)]
  /\ UNCHANGED <<pods, rcs, version, stopper>>

\* syncPod reads the template of the RC that the managed-by label names.
GetTemplate(r) ==
  /\ req[r].pc = "getrc"
  /\ \/ /\ req[r].read.managedBy # NoRC
        /\ req' = [req EXCEPT ![r].pc = "update",
                              ![r].template = rcs[req[r].read.managedBy]]
     \/ req' = [req EXCEPT ![r] = Failed(@)]
  /\ UNCHANGED <<pods, rcs, version, stopper>>

\* gin's Recovery answers 500 and the rest of the batch is dropped.
Panic(r) ==
  /\ req[r].pc = "update"
  /\ Panics(req[r])
  /\ req' = [req EXCEPT ![r].pc = "done", ![r].read = NoPod, ![r].resp = "panic"]
  /\ UNCHANGED <<pods, rcs, version, stopper>>

\* Mutant: the errors of earlier operations are overwritten by a success.
UpdateStored_LastError(r) ==
  /\ req[r].pc = "update"
  /\ ~Panics(req[r])
  /\ Accepts(pods[Current(r)], Written(req[r]))
  /\ pods' = [pods EXCEPT ![Current(r)] = [Written(req[r]) EXCEPT !.rv = version + 1]]
  /\ version' = version + 1
  /\ stopper' = [stopper EXCEPT ![Current(r)] = [i \in Slots |->
                   IF i \in Newly(req[r]) THEN r ELSE @[i]]]
  /\ req' = [req EXCEPT ![r] = [Advance(@) EXCEPT !.errs = {}]]
  /\ UNCHANGED rcs

\* The API server stores the copy, and its reply arrives or is lost.
UpdateStored(r) ==
  /\ req[r].pc = "update"
  /\ ~Panics(req[r])
  /\ Accepts(pods[Current(r)], Written(req[r]))
  /\ pods' = [pods EXCEPT ![Current(r)] = [Written(req[r]) EXCEPT !.rv = version + 1]]
  /\ version' = version + 1
  /\ \/ req' = [req EXCEPT ![r] = Advance(@)]
     \/ req' = [req EXCEPT ![r] = Failed(@)]
  /\ stopper' = [stopper EXCEPT ![Current(r)] = [i \in Slots |->
                   IF i \in Newly(req[r]) THEN r ELSE @[i]]]
  /\ UNCHANGED rcs

\* Mutant: a refused Update is retried from the Get, for ever.
UpdateRefused_Retry(r) ==
  /\ req[r].pc = "update"
  /\ ~Panics(req[r])
  /\ req' = [req EXCEPT ![r].pc = "get", ![r].read = NoPod]
  /\ UNCHANGED <<pods, rcs, version, stopper>>

\* A conflict, a pod that is gone, a refused pod, or a call that never arrived.
UpdateRefused(r) ==
  /\ req[r].pc = "update"
  /\ ~Panics(req[r])
  /\ req' = [req EXCEPT ![r] = Failed(@)]
  /\ UNCHANGED <<pods, rcs, version, stopper>>

Respond(r) ==
  /\ req[r].pc = "respond"
  /\ req' = [req EXCEPT ![r].pc = "done",
                        ![r].resp = IF req[r].errs = {} THEN "redirect" ELSE "errors"]
  /\ UNCHANGED <<pods, rcs, version, stopper>>

\* External: the kubelet, or another client, writes a part of the pod that the
\* console does not look at.
StatusUpdate(p) ==
  /\ version < MaxVersion
  /\ version' = version + 1
  /\ pods' = [pods EXCEPT ![p].rv = version + 1]
  /\ UNCHANGED <<rcs, req, stopper>>

\* External to this module: somebody edits a replication controller.
EditTemplate(rc) ==
  /\ \E t \in Templates : rcs' = [rcs EXCEPT ![rc] = t]
  /\ UNCHANGED <<pods, version, req, stopper>>

Arrive(r) == performPodsAction(r) \/ Malformed(r) \/ updatePodWithReplicationController(r)

Handle(r) ==
  GetPod(r) \/ GetTemplate(r) \/ Panic(r) \/ UpdateStored(r) \/ UpdateRefused(r) \/ Respond(r)

Next ==
  \/ \E r \in Requests : Arrive(r) \/ Handle(r)
  \/ \E p \in Pods : StatusUpdate(p)
  \/ \E rc \in RCs : EditTemplate(rc)

Spec == Init /\ [][Next]_vars

\* A goroutine that is serving a request keeps running, and every call to the
\* API server returns, with a reply or an error.
FairSpec == Spec /\ \A r \in Requests : WF_vars(Handle(r))
-----------------------------------------------------------------------------
\* The types of the state. Among them: no stored pod has a container without an
\* image, and no paused<i> annotation saves PauseImage (stopPod, startPod).
TypeOK ==
  /\ pods \in [Pods -> Pod]
  /\ rcs \in [RCs -> Templates]
  /\ version \in Nat
  /\ req \in [Requests -> Request]
  /\ stopper \in [Pods -> [Slots -> Requests \union {NoRequest}]]

Stopped(p) == StoppedIn(pods[p].images)

\* Container i of pod p was stopped by a template that lists PauseImage: the pod
\* was made from it, or synced with it.
ByTemplate(p, i) ==
  stopper[p][i] \in Requests => req[stopper[p][i]].action \in {"sync", "import"}

(***************************************************************************)
(* A stopped container can be started: whatever the requests and however   *)
(* their calls interleave, conflict or lose their replies, a container     *)
(* that runs PauseImage has the image to go back to in its annotation      *)
(* (stopPod saves it, startPod restores it), unless it was not stopped by  *)
(* stopPod at all but by a template to which a stopped container had been  *)
(* exported.                                                               *)
(***************************************************************************)
SavedImages ==
  \A p \in Pods : \A i \in Stopped(p) : pods[p].paused[i] \in Image \/ ByTemplate(p, i)

(***************************************************************************)
(* A version identifies one content of a pod: a goroutine whose copy       *)
(* carries the version that is stored holds the pod that is stored, so an  *)
(* Update that the API server accepts overwrites nothing unseen.           *)
(***************************************************************************)
ReadCoherent ==
  \A r \in Requests :
    req[r].pc \in {"getrc", "update"} /\ req[r].read.rv = pods[Current(r)].rv
      => req[r].read = pods[Current(r)]

\* Request q, which has stopped container i of pod p, accounts for that: it was
\* asked to stop it, it is a restart that is about to start it (or that panicked
\* while it was), or it lists an error for the pod.
Accounts(q, p, i) ==
  /\ i \in Checked(q.checks)
  /\ \/ q.action = "stop"
     \/ /\ q.action = "restart"
        /\ \/ q.op = "startPod" /\ Head(q.batch) = p
           \/ p \in q.errs

(***************************************************************************)
(* No restart leaves a container stopped in silence: the request that      *)
(* stopped it last was asked to, or is a restart that still has to start   *)
(* it or has shown its user the failure (performPodsAction lists the       *)
(* error of either half); or else a template stopped it.                   *)
(***************************************************************************)
NoSilentStop ==
  \A p \in Pods : \A i \in Stopped(p) :
    ByTemplate(p, i) \/ Accounts(req[stopper[p][i]], p, i)

(***************************************************************************)
(* The abstract view: the image each container is for, running or stopped, *)
(* and of each request the job and how it stands.                          *)
(***************************************************************************)
WorkImages(pod) ==
  [i \in DOMAIN pod.images |-> IF pod.images[i] = PauseImage THEN pod.paused[i]
                                                             ELSE pod.images[i]]

Job(q) == [action |-> q.action, op |-> q.op, batch |-> q.batch,
           images |-> q.images, checks |-> q.checks]

Status(q) ==
  CASE q.pc = "new"  -> "new"
    [] q.pc = "done" -> q.resp
    [] OTHER         -> IF q.errs = {} THEN "running" ELSE "failing"

Lifecycle ==
  INSTANCE PodLifecycle WITH
    work    <- [p \in Pods |-> WorkImages(pods[p])],
    stopped <- [p \in Pods |-> Stopped(p)],
    job     <- [r \in Requests |-> Job(req[r])],
    status  <- [r \in Requests |-> Status(req[r])],
    Jobs    <- {Job(Accepted(post)) : post \in Posts} \union {Job(Import(p)) : p \in Pods},
    NoJob   <- Job(NewRequest),
    Images  <- Image

(***************************************************************************)
(* Each operation of each batch is atomic: the Get, the local change and   *)
(* the Update of stopPod, startPod, setPodImage and syncPod look like one  *)
(* step on the pod as it is then, taken once or not at all, whatever other *)
(* requests and the kubelet do in between, and a redirect is only sent     *)
(* when all of them have been taken.                                       *)
(***************************************************************************)
ActionsAreAtomic == Lifecycle!Spec

(***************************************************************************)
(* Every request that the console has begun to serve gets a response: the  *)
(* loops over the batch end whatever the calls to the API server return.   *)
(***************************************************************************)
Responds == \A r \in Requests : req[r].pc # "new" ~> req[r].pc = "done"
=============================================================================
