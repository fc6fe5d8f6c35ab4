-------------------------- MODULE PodActionsProofs --------------------------
(***************************************************************************)
(* Proofs about PodActions and TemplateExport, for any number of pods,     *)
(* containers, templates, forms and concurrent requests, and for any       *)
(* posts.                                                                  *)
(*                                                                         *)
(* The two specifications differ in the templates that a sync may find.    *)
(* What they have in common is proved for any set T of templates: the set  *)
(* is Templates in PodActions, and any list of images in TemplateExport.   *)
(***************************************************************************)
EXTENDS TemplateExport, SequenceTheorems, TLAPS

AnyImage == Image \union {PauseImage}

AnyTemplate == ImageLists(AnyImage)

\* The requests, as in Request, that may have read a template in T.
RequestOf(T) ==
  [pc       : {"new", "get", "getrc", "update", "respond", "done"},
   action   : Actions,
   op       : Ops,
   batch    : Seq(Pods),
   images   : Seq(Image \union {NoImage}),
   checks   : Seq(BOOLEAN),
   read     : Pod \union {NoPod},
   template : T \union {<<>>},
   errs     : SUBSET Pods,
   resp     : {"none", "redirect", "errors", "malformed", "panic"}]

Serving(q) == q.pc \in {"get", "getrc", "update"}

Holding(q) == q.pc \in {"getrc", "update"}

\* Where a goroutine is determines what it holds and what is left to do.
RequestOK(q, T) ==
  /\ Serving(q) => q.batch # <<>> /\ q.op # "none"
  /\ Holding(q) => q.read \in Pod
  /\ q.pc = "getrc" => q.op = "syncPod"
  /\ q.pc = "update" /\ q.op = "syncPod" => q.template \in T
  /\ q.op = FirstOp(q.action) \/ (q.action = "restart" /\ q.op = "startPod")
  /\ q.pc = "new" => q.checks = <<>> /\ q.action = "delete"
  /\ q.pc = "respond" => q.batch = <<>> \/ q.op = "none"

TypesOK(T) ==
  /\ pods \in [Pods -> Pod]
  /\ rcs \in [RCs -> T]
  /\ version \in Nat
  /\ req \in [Requests -> RequestOf(T)]
  /\ stopper \in [Pods -> [Slots -> Requests \union {NoRequest}]]

\* No version is above the last one given out.
VersionsOK ==
  /\ \A p \in Pods : pods[p].rv <= version
  /\ \A r \in Requests : Holding(req[r]) => req[r].read.rv <= version

Requests_OK(T) == \A r \in Requests : RequestOK(req[r], T)

\* Types, the shape of the requests and the coherence of their copies.
CoreInv(T) == TypesOK(T) /\ Requests_OK(T) /\ VersionsOK /\ ReadCoherent

\* With what is known of the stopped containers.
PodInv(T) == CoreInv(T) /\ SavedImages /\ NoSilentStop

\* The inductive invariant of PodActions.
IInv == PodInv(Templates)
-----------------------------------------------------------------------------
\* A change of one image per container keeps the list a list of images.
LEMMA ImageListsMap ==
  ASSUME NEW S, NEW T, NEW l \in ImageLists(S), NEW m,
         DOMAIN m = DOMAIN l, m = [i \in DOMAIN m |-> m[i]],
         \A i \in DOMAIN m : m[i] \in T
  PROVE  m \in ImageLists(T)
<1>1. PICK n \in Slots : l \in [1..n -> S]
  BY DEF ImageLists
<1>2. m \in [1..n -> T]
  BY <1>1
<1> QED
  BY <1>2 DEF ImageLists

\* The containers of a pod have slots.
LEMMA ImageListsDomain ==
  ASSUME NEW S, NEW l \in ImageLists(S)
  PROVE  /\ DOMAIN l \subseteq Slots
         /\ \A i \in DOMAIN l : l[i] \in S
  BY ConstantsAssumption DEF ImageLists, Slots

\* What an operation writes, if the API server accepts it, is a pod.
LEMMA WrittenType ==
  ASSUME NEW T, NEW q \in RequestOf(T), q.read \in Pod, q.op # "none",
         q.op = "syncPod" => q.template \in ImageLists(AnyImage),
         ~Panics(q), \A i \in DOMAIN Written(q).images : Written(q).images[i] # NoImage
  PROVE  /\ Written(q) \in Pod /\ Written(q).rv = q.read.rv
         /\ Written(q).managedBy = q.read.managedBy
<1> DEFINE A == Image \union {PauseImage}
<1>1. /\ q.read.images \in ImageLists(A)
      /\ q.read.paused \in [Slots -> Image \union {NoImage}]
  BY DEF Pod
<1>2. /\ DOMAIN q.read.images \subseteq Slots
      /\ \A i \in DOMAIN q.read.images : q.read.images[i] \in A
  BY <1>1, ImageListsDomain
<1>3. CASE q.op = "setPodImage"
  <2>1. Written(q) = setPodImage(q.read, q.images)
    BY <1>3 DEF Written
  <2> DEFINE m == Written(q).images
  <2>2. /\ DOMAIN m = DOMAIN q.read.images
        /\ m = [i \in DOMAIN m |-> m[i]]
        /\ \A i \in DOMAIN m : m[i] \in A
    BY <2>1, <1>2 DEF setPodImage, RequestOf, Pod
  <2>3. m \in ImageLists(A)
    BY <2>2, <1>1, ImageListsMap, SMTT(30)
  <2> QED
    BY <2>1, <2>3 DEF setPodImage, Pod
<1>4. CASE q.op = "stopPod"
  <2>1. Written(q) = stopPod(q.read, q.checks)
    BY <1>4 DEF Written
  <2> DEFINE m == Written(q).images
             k == Written(q).paused
  <2>2. /\ DOMAIN m = DOMAIN q.read.images
        /\ m = [i \in DOMAIN m |-> m[i]]
        /\ \A i \in DOMAIN m : m[i] \in A
    BY <2>1, <1>2 DEF stopPod, Pod
  <2>3. m \in ImageLists(A)
    BY <2>2, <1>1, ImageListsMap
  <2>4. Checked(q.checks) \subseteq DOMAIN q.read.images
    BY <1>4 DEF Panics, Checked
  <2>5. k \in [Slots -> Image \union {NoImage}]
    BY <2>1, <2>4, <1>1, <1>2, SMTT(30) DEF stopPod, Pod
  <2> QED
    BY <2>1, <2>3, <2>5, Zenon DEF stopPod, Pod
<1>5. CASE q.op = "startPod"
  <2>1. Written(q) = startPod(q.read, q.checks)
    BY <1>5 DEF Written
  <2> DEFINE m == Written(q).images
             k == Written(q).paused
  <2>2. /\ DOMAIN m = DOMAIN q.read.images
        /\ m = [i \in DOMAIN m |-> m[i]]
    BY <2>1 DEF startPod, Pod
  <2>3. \A i \in DOMAIN m : m[i] \in A
    BY <2>1, <1>1, <1>2 DEF startPod, Pod
  <2>4. m \in ImageLists(A)
    BY <2>2, <2>3, <1>1, ImageListsMap
  <2>5. k \in [Slots -> Image \union {NoImage}]
    BY <2>1, <1>1 DEF startPod, Pod
  <2> QED
    BY <2>1, <2>4, <2>5, Zenon DEF startPod, Pod
<1>6. CASE q.op = "syncPod"
  <2>1. Written(q) = syncPod(q.read, q.template)
    BY <1>6 DEF Written
  <2>2. q.template \in ImageLists(A)
    BY <1>6 DEF AnyImage
  <2> QED
    BY <2>1, <2>2, Zenon DEF syncPod, Pod
<1> QED
  BY <1>3, <1>4, <1>5, <1>6 DEF RequestOf, Ops

(***************************************************************************)
(* A container is found stopped after an operation only if a sync has      *)
(* brought it in stopped, if a stop has stopped it and saved its image, or *)
(* if it was stopped before and is not one to be started. Its annotation   *)
(* is kept but in the second case.                                         *)
(***************************************************************************)
LEMMA WrittenStopped ==
  ASSUME NEW T, NEW q \in RequestOf(T), q.read \in Pod, q.op # "none", ~Panics(q),
         NEW i \in DOMAIN Written(q).images, Written(q).images[i] = PauseImage
  PROVE  \/ /\ q.op = "syncPod" /\ i \in DOMAIN q.template /\ q.template[i] = PauseImage
            /\ Written(q).paused[i] = q.read.paused[i]
         \/ /\ q.op = "stopPod" /\ i \in Checked(q.checks)
            /\ i \in DOMAIN q.read.images /\ q.read.images[i] # PauseImage
            /\ Written(q).paused[i] = q.read.images[i]
         \/ /\ i \in DOMAIN q.read.images /\ q.read.images[i] = PauseImage
            /\ Written(q).paused[i] = q.read.paused[i]
            /\ q.op = "startPod" => i \notin Checked(q.checks)
<1>1. /\ q.read.images \in ImageLists(Image \union {PauseImage})
      /\ q.read.paused \in [Slots -> Image \union {NoImage}]
  BY DEF Pod
<1>2. DOMAIN q.read.images \subseteq Slots
  BY <1>1, ImageListsDomain
<1>3. CASE q.op = "setPodImage"
  BY <1>3, ConstantsAssumption DEF Written, setPodImage, RequestOf, Pod
<1>4. CASE q.op = "stopPod"
  <2>1. Written(q) = stopPod(q.read, q.checks)
    BY <1>4 DEF Written
  <2>2. i \in DOMAIN q.read.images
    BY <2>1 DEF stopPod, Pod
  <2> QED
    BY <2>1, <2>2, <1>1, <1>2, <1>4 DEF stopPod, Pod
<1>5. CASE q.op = "startPod"
  <2>1. Written(q) = startPod(q.read, q.checks)
    BY <1>5 DEF Written
  <2>2. i \in DOMAIN q.read.images
    BY <2>1 DEF startPod, Pod
  <2>3. q.read.paused[i] # PauseImage
    BY <2>2, <1>1, <1>2, ConstantsAssumption
  <2> QED
    BY <2>1, <2>2, <2>3, <1>1, <1>2 DEF startPod, Pod
<1>6. CASE q.op = "syncPod"
  BY <1>6, Zenon DEF Written, syncPod, Pod
<1> QED
  BY <1>3, <1>4, <1>5, <1>6, Zenon DEF RequestOf, Ops

\* Only the tail of a one-element sequence is empty.
LEMMA TailNonEmpty ==
  ASSUME NEW S, NEW s \in Seq(S), Len(s) > 1
  PROVE  Tail(s) # <<>>
<1>1. \A x \in Nat : \A y : y = x - 1 /\ x > 1 => y # 0
  OBVIOUS
<1>2. s # <<>>
  OBVIOUS
<1>3. Len(Tail(s)) = Len(s) - 1
  BY <1>2, HeadTailProperties
<1>4. Len(s) \in Nat
  OBVIOUS
<1>5. Len(Tail(s)) # 0
  BY <1>1, <1>3, <1>4, Zenon
<1> QED
  BY <1>5, EmptySeq, Zenon

\* And its tail is.
LEMMA TailEmpty ==
  ASSUME NEW S, NEW s \in Seq(S), s # <<>>, ~(Len(s) > 1)
  PROVE  Tail(s) = <<>>
<1>1. Tail(s) \in Seq(S) /\ Len(Tail(s)) = Len(s) - 1
  BY HeadTailProperties
<1>2. Len(s) \in Nat /\ Len(s) # 0
  BY EmptySeq, LenProperties
<1>3. \A x \in Nat : \A y : x # 0 /\ y = x - 1 => x > 1 \/ y = 0
  OBVIOUS
<1>4. Len(Tail(s)) = 0
  BY <1>1, <1>2, <1>3
<1> QED
  BY <1>1, <1>4, EmptySeq

\* A request that takes up its next operation is a well-formed one, and keeps
\* its parameters.
LEMMA AdvanceOK ==
  ASSUME NEW T, NEW q \in RequestOf(T), RequestOK(q, T), Serving(q)
  PROVE  /\ Advance(q) \in RequestOf(T) /\ RequestOK(Advance(q), T) /\ ~Holding(Advance(q))
         /\ Advance(q).action = q.action
         /\ Advance(q).checks = q.checks
         /\ Advance(q).errs = q.errs
         /\ Advance(q).pc # "new"
<1>1. q.batch # <<>> /\ q.batch \in Seq(Pods)
  BY DEF RequestOK, RequestOf
<1>2. CASE q.action = "restart" /\ q.op = "stopPod"
  <2>1. Advance(q) = [q EXCEPT !.pc = "get", !.op = "startPod", !.read = NoPod]
    BY <1>2 DEF Advance
  <2> QED
    BY <2>1, <1>1, <1>2, Zenon DEF RequestOf, RequestOK, Serving, Holding, Ops, FirstOp
<1>3. CASE ~(q.action = "restart" /\ q.op = "stopPod")
  <2> DEFINE a == Advance(q)
  <2>1. a = [q EXCEPT !.pc = IF Len(q.batch) > 1 THEN "get" ELSE "respond",
                      !.op = FirstOp(q.action), !.batch = Tail(q.batch),
                      !.read = NoPod, !.template = <<>>]
    BY <1>3 DEF Advance, RequestOf
  <2>2. FirstOp(q.action) \in Ops
    BY DEF RequestOf, Actions, FirstOp, Ops
  <2>3. /\ Tail(q.batch) \in Seq(Pods)
        /\ Len(q.batch) > 1 => Tail(q.batch) # <<>>
        /\ ~(Len(q.batch) > 1) => Tail(q.batch) = <<>>
    BY <1>1, HeadTailProperties, TailNonEmpty, TailEmpty
  <2>4. FirstOp(q.action) # "none"
    BY DEF RequestOK, RequestOf, Actions, FirstOp
  <2>5. a \in RequestOf(T)
    BY <2>1, <2>2, <2>3, Zenon DEF RequestOf
  <2>6. /\ a.pc \in {"get", "respond"} /\ a.op = FirstOp(q.action) /\ a.batch = Tail(q.batch)
        /\ a.action = q.action /\ a.checks = q.checks /\ a.errs = q.errs
        /\ a.pc = "get" => Len(q.batch) > 1
        /\ a.pc = "respond" => ~(Len(q.batch) > 1)
    BY <2>1 DEF RequestOf
  <2>7. RequestOK(a, T)
    BY <2>3, <2>4, <2>6 DEF RequestOK, Serving, Holding
  <2> QED
    BY <2>5, <2>6, <2>7 DEF Holding
<1> QED
  BY <1>2, <1>3

\* So is one that records an error first; what it accounted for as a restart
\* in progress it then accounts for by the error.
LEMMA FailedOK ==
  ASSUME NEW T, NEW q \in RequestOf(T), RequestOK(q, T), Serving(q)
  PROVE  /\ Failed(q) \in RequestOf(T) /\ RequestOK(Failed(q), T) /\ ~Holding(Failed(q))
         /\ Failed(q).action = q.action
         /\ Failed(q).checks = q.checks
         /\ Failed(q).errs = q.errs \union {Head(q.batch)}
         /\ \A p, i : Accounts(q, p, i) => Accounts(Failed(q), p, i)
<1> DEFINE e == [q EXCEPT !.errs = @ \union {Head(q.batch)}]
<1>1. Head(q.batch) \in Pods
  <2>1. q.batch \in Seq(Pods) /\ q.batch # <<>>
    BY DEF RequestOK, RequestOf
  <2> QED
    BY <2>1, HeadTailProperties
<1>2. e \in RequestOf(T)
  BY <1>1 DEF RequestOf
<1>3. /\ e.action = q.action /\ e.checks = q.checks /\ e.pc = q.pc /\ e.op = q.op
      /\ e.batch = q.batch /\ e.read = q.read /\ e.template = q.template
      /\ e.errs = q.errs \union {Head(q.batch)}
  BY DEF RequestOf
<1>4. RequestOK(e, T) /\ Serving(e)
  BY <1>3 DEF RequestOK, Serving, Holding
<1>5. Failed(q) = Advance(e)
  BY DEF Failed
<1> HIDE DEF e
<1>6. /\ Failed(q) \in RequestOf(T) /\ RequestOK(Failed(q), T) /\ ~Holding(Failed(q))
      /\ Failed(q).action = q.action
      /\ Failed(q).checks = q.checks
      /\ Failed(q).errs = q.errs \union {Head(q.batch)}
  BY <1>2, <1>3, <1>4, <1>5, AdvanceOK
<1>7. \A p, i : Accounts(q, p, i) => Accounts(Failed(q), p, i)
  BY <1>6 DEF Accounts
<1> QED
  BY <1>6, <1>7
-----------------------------------------------------------------------------
\* A copy that is held by q is no newer than the last version, and is the pod
\* that is stored if it has its version.
CopyOK(q) ==
  Holding(q) => /\ q.read.rv <= version
                /\ q.read.rv = pods[Head(q.batch)].rv => q.read = pods[Head(q.batch)]

(***************************************************************************)
(* The steps that leave the API server alone: request r becomes q, which   *)
(* accounts for what it accounted for before, and is a sync if it was one. *)
(* A template that it is about to write it has just read.                  *)
(***************************************************************************)
LocalStep(T, r, q) ==
  /\ q \in RequestOf(T) /\ RequestOK(q, T) /\ CopyOK(q)
  /\ req' = [req EXCEPT ![r] = q]
  /\ UNCHANGED <<pods, rcs, version, stopper>>
  /\ \A p, i : Accounts(req[r], p, i) => Accounts(q, p, i)
  /\ req[r].action \in {"sync", "import"} => q.action = req[r].action
  /\ q.pc = "update" /\ q.op = "syncPod" =>
       q.read.managedBy \in RCs /\ q.template = rcs[q.read.managedBy]

\* They keep what is common to the two specifications.
LEMMA LocalCore ==
  ASSUME NEW T, CoreInv(T), NEW r \in Requests, NEW q, LocalStep(T, r, q)
  PROVE  CoreInv(T)'
<1>1. req \in [Requests -> RequestOf(T)]
  BY DEF CoreInv, TypesOK
<1>2. /\ req' \in [Requests -> RequestOf(T)]
      /\ req'[r] = q
      /\ \A s \in Requests \ {r} : req'[s] = req[s]
      /\ UNCHANGED <<pods, rcs, version, stopper>> /\ RequestOK(q, T) /\ CopyOK(q)
  BY <1>1 DEF LocalStep
<1>3. TypesOK(T)'
  BY <1>2 DEF CoreInv, TypesOK
<1>4. Requests_OK(T)'
  BY <1>2 DEF CoreInv, Requests_OK, RequestOK, Serving, Holding
<1>5. VersionsOK'
  BY <1>2 DEF CoreInv, VersionsOK, CopyOK, Holding
<1>6. ReadCoherent'
  BY <1>2 DEF CoreInv, ReadCoherent, CopyOK, Holding, Current
<1> QED
  BY <1>3, <1>4, <1>5, <1>6 DEF CoreInv

\* They also keep every stopped container accounted for.
LEMMA LocalPodInv ==
  ASSUME NEW T, PodInv(T), NEW r \in Requests, NEW q, LocalStep(T, r, q)
  PROVE  PodInv(T)'
<1>1. CoreInv(T)'
  BY LocalCore DEF PodInv
<1>2. /\ req'[r] = q /\ \A s \in Requests \ {r} : req'[s] = req[s]
      /\ UNCHANGED <<pods, stopper>>
      /\ \A p, i : Accounts(req[r], p, i) => Accounts(q, p, i)
      /\ req[r].action \in {"sync", "import"} => q.action = req[r].action
  BY DEF LocalStep, PodInv, CoreInv, TypesOK
<1>3. \A p, i : ByTemplate(p, i) => ByTemplate(p, i)'
  BY <1>2, Zenon DEF ByTemplate
<1>4. SavedImages'
  BY <1>2, <1>3, Zenon DEF PodInv, SavedImages, Stopped
<1>5. NoSilentStop'
  <2> SUFFICES ASSUME NEW p \in Pods, NEW i \in Stopped(p), ~ByTemplate(p, i)
               PROVE  Accounts(req'[stopper[p][i]], p, i)
    BY <1>2, <1>3, Zenon DEF NoSilentStop, Stopped, Accounts
  <2>1. stopper[p][i] \in Requests
    BY Zenon DEF ByTemplate
  <2>2. Accounts(req[stopper[p][i]], p, i)
    BY Zenon DEF PodInv, NoSilentStop
  <2> QED
    BY <1>2, <2>1, <2>2, Zenon
<1> QED
  BY <1>1, <1>4, <1>5, Zenon DEF PodInv

\* A request that performPodsAction has not seen yet is well formed.
LEMMA NewRequestOK ==
  ASSUME NEW T PROVE NewRequest \in RequestOf(T) /\ RequestOK(NewRequest, T)
<1>1. NewRequest \in RequestOf(T)
  BY DEF NewRequest, RequestOf, Actions, Ops
<1>2. RequestOK(NewRequest, T)
  BY DEF NewRequest, RequestOK, Serving, Holding, FirstOp
<1> QED
  BY <1>1, <1>2

\* The pods are what templates have made them, and no request has read anything.
LEMMA InitCore ==
  ASSUME Init, NEW T, Templates \subseteq T
  PROVE  CoreInv(T)
<1>1. NewRequest \in RequestOf(T) /\ RequestOK(NewRequest, T)
  BY NewRequestOK
<1>2. Templates \subseteq ImageLists(Image \union {PauseImage})
  BY TemplatesAssumption
<1>3. TypesOK(T)
  <2>1. [i \in Slots |-> NoImage] \in [Slots -> Image \union {NoImage}]
    OBVIOUS
  <2>2. ASSUME NEW I, NEW J, I \subseteq J, NEW K, NEW L, K \subseteq L, NEW M
        PROVE  [images : I, paused : K, annotated : BOOLEAN, managedBy : M, rv : {0}]
                 \subseteq [images : J, paused : L, annotated : BOOLEAN, managedBy : M, rv : Nat]
    BY <2>2
  <2>3. [images : Templates, paused : {[i \in Slots |-> NoImage]}, annotated : BOOLEAN,
         managedBy : RCs \union {NoRC}, rv : {0}] \subseteq Pod
    BY <2>1, <2>2, <1>2 DEF Pod
  <2>4. pods \in [Pods -> Pod]
    BY <2>3 DEF Init
  <2> QED
    BY <2>4, <1>1 DEF Init, TypesOK
<1>4. \A r \in Requests : req[r] = NewRequest /\ ~Holding(req[r])
  BY DEF Init, NewRequest, Holding
<1>5. Requests_OK(T)
  BY <1>1, <1>4 DEF Requests_OK
<1>6. VersionsOK
  BY <1>4 DEF Init, VersionsOK
<1>7. ReadCoherent
  BY <1>4 DEF ReadCoherent, Holding
<1> QED
  BY <1>3, <1>5, <1>6, <1>7 DEF CoreInv

\* If a container is stopped then, a template has stopped it.
LEMMA InitByTemplate ==
  ASSUME Init, NEW p \in Pods, NEW i \in Stopped(p)
  PROVE  ByTemplate(p, i)
<1>1. pods[p].images \in ImageLists(Image \union {PauseImage})
  BY TemplatesAssumption, Zenon DEF Init
<1>2. i \in Slots
  BY <1>1, ImageListsDomain DEF Stopped, StoppedIn
<1> QED
  BY <1>2, ConstantsAssumption DEF Init, ByTemplate

\* Arrivals: the request is new, so that it accounted for nothing.
LEMMA ArriveLocal ==
  ASSUME NEW T, CoreInv(T), NEW r \in Requests, Arrive(r)
  PROVE  \E q : LocalStep(T, r, q)
<1>1. req[r] \in RequestOf(T) /\ RequestOK(req[r], T) /\ req[r].pc = "new"
  BY DEF CoreInv, TypesOK, Requests_OK, Arrive, performPodsAction, Malformed,
         updatePodWithReplicationController
<1>2. /\ \A p, i : ~Accounts(req[r], p, i)
      /\ req[r].action \notin {"sync", "import"}
  <2>1. Checked(req[r].checks) = {} /\ req[r].action = "delete"
    BY <1>1 DEF RequestOK, Checked
  <2> QED
    BY <2>1 DEF Accounts
<1>3. CASE performPodsAction(r)
  <2>1. PICK post \in Posts : req' = [req EXCEPT ![r] = Accepted(post)]
    BY <1>3, Zenon DEF performPodsAction
  <2> DEFINE q == Accepted(post)
             op == FirstOp(post.action)
             images == [i \in DOMAIN post.images |->
                          IF post.images[i] = NoImage THEN NoImage
                                                      ELSE PrivateImage(post.images[i])]
  <2>2. /\ post.action \in Actions /\ post.pods \in Seq(Pods)
        /\ post.images \in Seq(Names \union {NoImage}) /\ post.checks \in Seq(BOOLEAN)
    BY PostsAssumption
  <2>3. op \in Ops
    BY <2>2 DEF Actions, FirstOp, Ops
  <2>4. images \in Seq(Image \union {NoImage})
    <3>1. DOMAIN post.images = 1..Len(post.images) /\ Len(post.images) \in Nat
      BY <2>2, LenProperties
    <3>2. \A i \in 1..Len(post.images) : post.images[i] \in Names \union {NoImage}
      BY <2>2, LenProperties
    <3>3. images \in [1..Len(post.images) -> Image \union {NoImage}]
      BY <3>1, <3>2 DEF Image
    <3> QED
      BY <3>1, <3>3, SeqDef
  <2>5. (IF post.checks = <<>> THEN <<TRUE>> ELSE post.checks) \in Seq(BOOLEAN)
    <3>1. <<TRUE>> \in Seq(BOOLEAN)
      BY SMTT(30)
    <3> QED
      BY <3>1, <2>2, Zenon
  <2>6. /\ q \in RequestOf(T)
        /\ q.pc = IF op # "none" /\ post.pods # <<>> THEN "get" ELSE "respond"
        /\ q.action = post.action /\ q.op = op /\ q.batch = post.pods
    BY <2>2, <2>3, <2>4, <2>5, NewRequestOK, Zenon DEF Accepted, RequestOf
  <2> HIDE DEF q, op, images
  <2>7. /\ q.pc \in {"get", "respond"} /\ q.op = FirstOp(q.action)
        /\ q.pc = "get" => q.op # "none" /\ q.batch # <<>>
        /\ q.pc = "respond" => q.op = "none" \/ q.batch = <<>>
    BY <2>6 DEF op
  <2>8. RequestOK(q, T) /\ CopyOK(q)
    BY <2>7 DEF RequestOK, CopyOK, Serving, Holding
  <2> QED
    BY <1>2, <1>3, <2>1, <2>6, <2>8, Zenon DEF LocalStep, performPodsAction, q
<1>4. CASE Malformed(r)
  <2> DEFINE q == [req[r] EXCEPT !.pc = "done", !.resp = "malformed"]
  <2>1. q \in RequestOf(T) /\ q.pc = "done" /\ q.op = req[r].op /\ q.action = req[r].action
    BY <1>1, Zenon DEF RequestOf
  <2>2. RequestOK(q, T) /\ CopyOK(q)
    BY <1>1, <2>1 DEF RequestOK, CopyOK, Serving, Holding
  <2>3. req' = [req EXCEPT ![r] = q]
    BY <1>4, Zenon DEF Malformed, CoreInv, TypesOK
  <2> HIDE DEF q
  <2> QED
    BY <1>2, <1>4, <2>1, <2>2, <2>3, Zenon DEF LocalStep, Malformed
<1>5. CASE updatePodWithReplicationController(r)
  <2>1. PICK p \in Pods : req' = [req EXCEPT ![r] = Import(p)]
    BY <1>5, Zenon DEF updatePodWithReplicationController
  <2> DEFINE q == Import(p)
  <2>2. /\ q \in RequestOf(T) /\ q.pc = "get" /\ q.action = "import" /\ q.op = "syncPod"
        /\ q.batch = <<p>>
    <3>1. <<p>> \in Seq(Pods)
      OBVIOUS
    <3>2. ASSUME NEW new \in RequestOf(T)
          PROVE  LET i == [new EXCEPT !.pc = "get", !.action = "import", !.op = "syncPod",
                                      !.batch = <<p>>]
                 IN  /\ i \in RequestOf(T) /\ i.pc = "get" /\ i.action = "import"
                     /\ i.op = "syncPod" /\ i.batch = <<p>>
      BY <3>1, ZenonT(30) DEF RequestOf, Actions, Ops
    <3> QED
      BY <3>2, NewRequestOK, Zenon DEF Import
  <2>3. RequestOK(q, T) /\ CopyOK(q)
    BY <2>2 DEF RequestOK, CopyOK, Serving, Holding, FirstOp
  <2> HIDE DEF q
  <2> QED
    BY <1>2, <1>5, <2>1, <2>2, <2>3, Zenon DEF LocalStep, updatePodWithReplicationController, q
<1> QED
  BY <1>3, <1>4, <1>5 DEF Arrive

\* The steps of a handler that change nothing at the API server.
LEMMA HandleLocal ==
  ASSUME NEW T, CoreInv(T), NEW r \in Requests,
         GetPod(r) \/ GetTemplate(r) \/ Panic(r) \/ UpdateRefused(r) \/ Respond(r)
  PROVE  \E q : LocalStep(T, r, q)
<1>1. /\ req \in [Requests -> RequestOf(T)] /\ req[r] \in RequestOf(T) /\ RequestOK(req[r], T)
      /\ pods \in [Pods -> Pod] /\ rcs \in [RCs -> T]
  BY DEF CoreInv, TypesOK, Requests_OK
<1>2. UNCHANGED <<pods, rcs, version, stopper>>
  BY DEF GetPod, GetTemplate, Panic, UpdateRefused, Respond
<1>3. ASSUME Serving(req[r]), req' = [req EXCEPT ![r] = Failed(@)]
      PROVE  \E q : LocalStep(T, r, q)
  <2>1. req' = [req EXCEPT ![r] = Failed(req[r])]
    BY <1>3
  <2>2. CopyOK(Failed(req[r]))
    BY <1>1, <1>3, FailedOK DEF CopyOK
  <2> QED
    BY <1>1, <1>2, <1>3, <2>1, <2>2, FailedOK, Zenon DEF LocalStep, Holding
<1>4. Serving(req[r]) => Head(req[r].batch) \in Pods
  <2>1. Serving(req[r]) => req[r].batch \in Seq(Pods) /\ req[r].batch # <<>>
    BY <1>1 DEF RequestOK, RequestOf
  <2> QED
    BY <2>1, HeadTailProperties
<1>5. CASE GetPod(r)
  <2>1. Serving(req[r])
    BY <1>5 DEF GetPod, Serving
  <2> DEFINE q == [req[r] EXCEPT !.pc = IF req[r].op = "syncPod" THEN "getrc" ELSE "update",
                                 !.read = pods[Current(r)]]
  <2>2. CASE req' = [req EXCEPT ![r] = q]
    <3>1. pods[Current(r)] \in Pod
      BY <1>1, <1>4, <2>1 DEF Current
    <3>2. q \in RequestOf(T)
      BY <1>1, <3>1, Zenon DEF RequestOf
    <3>3. /\ q.read = pods[Current(r)] /\ q.batch = req[r].batch /\ q.op = req[r].op
          /\ q.pc = IF req[r].op = "syncPod" THEN "getrc" ELSE "update"
          /\ q.action = req[r].action /\ q.checks = req[r].checks /\ q.errs = req[r].errs
      BY <1>1 DEF RequestOf
    <3> HIDE DEF q
    <3>4. RequestOK(q, T)
      BY <1>1, <2>1, <3>1, <3>3 DEF RequestOK, Serving, Holding
    <3>5. CopyOK(q)
      BY <1>4, <2>1, <3>1, <3>3 DEF CopyOK, Current, CoreInv, VersionsOK
    <3>6. \A p, i : Accounts(req[r], p, i) => Accounts(q, p, i)
      BY <3>3 DEF Accounts
    <3> QED
      BY <1>2, <2>2, <3>2, <3>3, <3>4, <3>5, <3>6, Zenon DEF LocalStep
  <2>3. req' = [req EXCEPT ![r] = q] \/ req' = [req EXCEPT ![r] = Failed(@)]
    BY <1>1, <1>5, Zenon DEF GetPod
  <2> QED
    BY <1>3, <2>1, <2>2, <2>3
<1>6. CASE GetTemplate(r)
  <2>1. Serving(req[r]) /\ req[r].pc = "getrc"
    BY <1>6 DEF GetTemplate, Serving
  <2> DEFINE t == rcs[req[r].read.managedBy]
             q == [req[r] EXCEPT !.pc = "update", !.template = t]
  <2>2. CASE req[r].read.managedBy # NoRC /\ req' = [req EXCEPT ![r] = q]
    <3>1. t \in T /\ req[r].read.managedBy \in RCs
      BY <1>1, <2>1, <2>2 DEF RequestOK, Holding, Pod
    <3>2. q \in RequestOf(T)
      BY <1>1, <3>1, Zenon DEF RequestOf
    <3>3. /\ q.read = req[r].read /\ q.batch = req[r].batch /\ q.op = req[r].op
          /\ q.pc = "update" /\ q.template = t
          /\ q.action = req[r].action /\ q.checks = req[r].checks /\ q.errs = req[r].errs
      BY <1>1 DEF RequestOf
    <3> HIDE DEF q
    <3>4. RequestOK(q, T)
      BY <1>1, <2>1, <3>1, <3>3 DEF RequestOK, Serving, Holding
    <3>5. CopyOK(q)
      BY <2>1, <3>3 DEF CopyOK, Holding, Current, CoreInv, VersionsOK, ReadCoherent
    <3>6. \A p, i : Accounts(req[r], p, i) => Accounts(q, p, i)
      BY <3>3 DEF Accounts
    <3> QED
      BY <1>2, <2>2, <3>1, <3>2, <3>3, <3>4, <3>5, <3>6, Zenon DEF LocalStep
  <2>3. \/ req[r].read.managedBy # NoRC /\ req' = [req EXCEPT ![r] = q]
        \/ req' = [req EXCEPT ![r] = Failed(@)]
    BY <1>1, <1>6, Zenon DEF GetTemplate
  <2> QED
    BY <1>3, <2>1, <2>2, <2>3
<1>7. CASE Panic(r)
  <2> DEFINE q == [req[r] EXCEPT !.pc = "done", !.read = NoPod, !.resp = "panic"]
  <2>1. req' = [req EXCEPT ![r] = q]
    BY <1>1, <1>7, Zenon DEF Panic
  <2>2. /\ q \in RequestOf(T) /\ q.pc = "done" /\ q.op = req[r].op /\ q.action = req[r].action
        /\ q.checks = req[r].checks /\ q.errs = req[r].errs /\ q.batch = req[r].batch
    BY <1>1, Zenon DEF RequestOf
  <2> HIDE DEF q
  <2>3. RequestOK(q, T) /\ CopyOK(q)
    BY <1>1, <2>2 DEF RequestOK, CopyOK, Serving, Holding
  <2>4. \A p, i : Accounts(req[r], p, i) => Accounts(q, p, i)
    BY <2>2 DEF Accounts
  <2> QED
    BY <1>2, <2>1, <2>2, <2>3, <2>4, Zenon DEF LocalStep
<1>8. CASE UpdateRefused(r)
  BY <1>3, <1>8 DEF UpdateRefused, Serving
<1>9. CASE Respond(r)
  <2> DEFINE q == [req[r] EXCEPT !.pc = "done",
                                 !.resp = IF req[r].errs = {} THEN "redirect" ELSE "errors"]
  <2>1. req' = [req EXCEPT ![r] = q]
    BY <1>1, <1>9, Zenon DEF Respond
  <2>2. /\ q \in RequestOf(T) /\ q.pc = "done" /\ q.op = req[r].op /\ q.action = req[r].action
        /\ q.checks = req[r].checks /\ q.errs = req[r].errs /\ q.batch = req[r].batch
    BY <1>1, Zenon DEF RequestOf
  <2> HIDE DEF q
  <2>3. RequestOK(q, T) /\ CopyOK(q)
    BY <1>1, <2>2 DEF RequestOK, CopyOK, Serving, Holding
  <2>4. \A p, i : Accounts(req[r], p, i) => Accounts(q, p, i)
    BY <2>2 DEF Accounts
  <2> QED
    BY <1>2, <2>1, <2>2, <2>3, <2>4, Zenon DEF LocalStep
<1> QED
  BY <1>5, <1>6, <1>7, <1>8, <1>9

\* An Update that the API server stores: pod n replaces the one that request r
\* has computed it from, and the request goes on as a.
StoredStep(T, r, n, a) ==
  LET c == Current(r)
      w == Written(req[r])
  IN  /\ c \in Pods /\ req[r].read = pods[c]
      /\ n \in Pod /\ n.rv = version + 1 /\ n.managedBy = pods[c].managedBy
      /\ n.images = w.images /\ n.paused = w.paused
      /\ pods' = [pods EXCEPT ![c] = n] /\ version' = version + 1 /\ rcs' = rcs
      /\ stopper' = [stopper EXCEPT ![c] = [i \in Slots |->
                        IF i \in Newly(req[r]) THEN r ELSE stopper[c][i]]]
      /\ a \in RequestOf(T) /\ RequestOK(a, T) /\ ~Holding(a)
      /\ a.action = req[r].action /\ a.checks = req[r].checks /\ req[r].errs \subseteq a.errs
      /\ req[r].action = "restart" /\ req[r].op = "stopPod" =>
           (a.op = "startPod" /\ Head(a.batch) = c) \/ c \in a.errs
      /\ req' = [req EXCEPT ![r] = a]

\* UpdateStored is such a step: the copy that an Update which is accepted was
\* computed from is the pod that it replaces.
LEMMA UpdateStoredStep ==
  ASSUME NEW T \in SUBSET ImageLists(AnyImage), CoreInv(T), NEW r \in Requests, UpdateStored(r)
  PROVE  \E n, a : StoredStep(T, r, n, a)
<1> DEFINE q == req[r]
           c == Current(r)
           w == Written(req[r])
           n == [w EXCEPT !.rv = version + 1]
<1>1. /\ req \in [Requests -> RequestOf(T)] /\ q \in RequestOf(T) /\ RequestOK(q, T)
      /\ pods \in [Pods -> Pod] /\ version \in Nat
      /\ q.pc = "update" /\ Serving(q) /\ Holding(q) /\ ~Panics(q)
      /\ q.read \in Pod /\ q.op # "none"
      /\ q.op = "syncPod" => q.template \in ImageLists(AnyImage)
  BY DEF CoreInv, TypesOK, Requests_OK, RequestOK, UpdateStored, Serving, Holding
<1>2. c \in Pods
  <2>1. q.batch \in Seq(Pods) /\ q.batch # <<>>
    BY <1>1 DEF RequestOK, RequestOf
  <2> QED
    BY <2>1, HeadTailProperties DEF Current
<1>3. /\ w.rv = pods[c].rv
      /\ \A i \in DOMAIN w.images : w.images[i] # NoImage
  BY DEF UpdateStored, Accepts
<1>4. w \in Pod /\ w.rv = q.read.rv /\ w.managedBy = q.read.managedBy
  BY <1>1, <1>3, WrittenType
<1>5. q.read = pods[c]
  BY <1>1, <1>3, <1>4, Zenon DEF CoreInv, ReadCoherent
<1>6. /\ n \in Pod /\ n.rv = version + 1
      /\ n.images = w.images /\ n.paused = w.paused /\ n.managedBy = w.managedBy
  BY <1>1, <1>4 DEF Pod
<1>7. /\ pods' = [pods EXCEPT ![c] = n] /\ version' = version + 1 /\ rcs' = rcs
      /\ stopper' = [stopper EXCEPT ![c] = [i \in Slots |->
                        IF i \in Newly(req[r]) THEN r ELSE stopper[c][i]]]
  BY <1>2 DEF UpdateStored, CoreInv, TypesOK
<1>9. PICK a \in {Advance(q), Failed(q)} : req' = [req EXCEPT ![r] = a]
  BY <1>1 DEF UpdateStored
<1>10. /\ a \in RequestOf(T) /\ RequestOK(a, T) /\ ~Holding(a)
       /\ a.action = q.action /\ a.checks = q.checks /\ q.errs \subseteq a.errs
  BY <1>1, AdvanceOK, FailedOK
<1>12. q.action = "restart" /\ q.op = "stopPod" =>
         (a.op = "startPod" /\ Head(a.batch) = c) \/ c \in a.errs
  <2>1. q.action = "restart" /\ q.op = "stopPod" =>
          Advance(q).op = "startPod" /\ Head(Advance(q).batch) = c
    BY <1>1 DEF Advance, RequestOf, Current
  <2>2. c \in Failed(q).errs
    BY <1>1, FailedOK DEF Current
  <2> QED
    BY <1>9, <2>1, <2>2
<1> HIDE DEF n
<1>13. StoredStep(T, r, n, a)
  BY <1>2, <1>4, <1>5, <1>6, <1>7, <1>9, <1>10, <1>12 DEF StoredStep
<1> QED
  BY <1>13

\* It keeps what is common to the two specifications.
LEMMA StoredCore ==
  ASSUME NEW T, CoreInv(T), NEW r \in Requests, NEW n, NEW a, StoredStep(T, r, n, a)
  PROVE  CoreInv(T)'
<1> DEFINE c == Current(r)
<1>1. /\ req \in [Requests -> RequestOf(T)] /\ pods \in [Pods -> Pod] /\ version \in Nat
      /\ rcs \in [RCs -> T] /\ c \in Pods
  BY DEF CoreInv, TypesOK, StoredStep
<1>6. /\ n \in Pod /\ n.rv = version + 1
  BY DEF StoredStep
<1>7. /\ pods' = [pods EXCEPT ![c] = n] /\ version' = version + 1 /\ rcs' = rcs
  BY DEF StoredStep
<1>8. /\ pods' \in [Pods -> Pod] /\ pods'[c] = n
      /\ \A p \in Pods \ {c} : pods'[p] = pods[p]
  BY <1>1, <1>6, <1>7
<1>10. a \in RequestOf(T) /\ RequestOK(a, T) /\ ~Holding(a)
  BY DEF StoredStep
<1>11. /\ req' \in [Requests -> RequestOf(T)] /\ req'[r] = a
       /\ \A s \in Requests \ {r} : req'[s] = req[s]
  BY <1>1, <1>10 DEF StoredStep
<1> HIDE DEF c
<1>12. stopper' \in [Pods -> [Slots -> Requests \union {NoRequest}]]
  BY <1>1 DEF StoredStep, CoreInv, TypesOK, c
<1>13. TypesOK(T)'
  BY <1>1, <1>7, <1>8, <1>11, <1>12 DEF CoreInv, TypesOK
<1>14. Requests_OK(T)'
  BY <1>10, <1>11 DEF CoreInv, Requests_OK, RequestOK, Serving, Holding
<1>15. VersionsOK'
  <2>1. \A p \in Pods : pods'[p].rv <= version'
    <3> SUFFICES ASSUME NEW p \in Pods PROVE pods'[p].rv <= version + 1
      BY <1>7
    <3>1. pods[p].rv \in Nat /\ pods[p].rv <= version
      BY <1>1 DEF Pod, CoreInv, VersionsOK
    <3> QED
      BY <1>1, <1>6, <1>8, <3>1
  <2>2. \A s \in Requests : Holding(req'[s]) => req'[s].read.rv <= version'
    <3> SUFFICES ASSUME NEW s \in Requests, Holding(req'[s])
                 PROVE  req'[s].read.rv <= version + 1
      BY <1>7
    <3>1. s # r /\ req'[s] = req[s]
      BY <1>10, <1>11
    <3>2. req[s].read.rv \in Nat /\ req[s].read.rv <= version
      BY <3>1 DEF CoreInv, Requests_OK, RequestOK, VersionsOK, Pod
    <3> QED
      BY <1>1, <3>1, <3>2
  <2> QED
    BY <2>1, <2>2 DEF VersionsOK, Holding
<1>16. ReadCoherent'
  <2> SUFFICES ASSUME NEW s \in Requests, Holding(req'[s]),
                      req'[s].read.rv = pods'[Head(req'[s].batch)].rv
               PROVE  req'[s].read = pods'[Head(req'[s].batch)]
    BY DEF ReadCoherent, Holding, Current
  <2>1. s # r /\ req'[s] = req[s]
    BY <1>10, <1>11
  <2>2. req[s].read.rv \in Nat /\ req[s].read.rv <= version /\ Holding(req[s])
    BY <2>1 DEF CoreInv, Requests_OK, RequestOK, VersionsOK, Pod
  <2>3. Head(req[s].batch) \in Pods
    <3>1. req[s].batch \in Seq(Pods) /\ req[s].batch # <<>>
      BY <1>1, <2>2 DEF CoreInv, Requests_OK, RequestOK, RequestOf, Serving, Holding
    <3> QED
      BY <3>1, HeadTailProperties
  <2>4. Head(req[s].batch) # c
    BY <1>1, <1>6, <1>8, <2>1, <2>2
  <2> QED
    BY <1>8, <2>1, <2>2, <2>3, <2>4 DEF CoreInv, ReadCoherent, Holding, Current
<1> QED
  BY <1>13, <1>14, <1>15, <1>16 DEF CoreInv

\* It leaves no container that it stops without its image or unaccounted for,
\* unless the template of a sync lists it as stopped.
LEMMA StoredPodInv ==
  ASSUME NEW T, PodInv(T), NEW r \in Requests, NEW n, NEW a, StoredStep(T, r, n, a),
         req[r].pc = "update", ~Panics(req[r])
  PROVE  PodInv(T)'
<1> DEFINE q == req[r]
           c == Current(r)
           w == Written(req[r])
<1>1. /\ q \in RequestOf(T) /\ RequestOK(q, T)
      /\ pods \in [Pods -> Pod] /\ c \in Pods
      /\ q.read \in Pod /\ q.op # "none" /\ ~Panics(q)
  BY Zenon
     DEF PodInv, CoreInv, TypesOK, Requests_OK, RequestOK, Serving, Holding, StoredStep
<1>2. q.read = pods[c] /\ n.images = w.images /\ n.paused = w.paused
  BY Zenon DEF StoredStep
<1>3. /\ pods'[c] = n
      /\ \A p \in Pods \ {c} : pods'[p] = pods[p]
  BY <1>1, Zenon DEF StoredStep
<1>4. a.action = q.action /\ a.checks = q.checks /\ q.errs \subseteq a.errs
  BY Zenon DEF StoredStep
<1>5. /\ req'[r] = a
      /\ \A s \in Requests \ {r} : req'[s] = req[s]
  BY Zenon DEF StoredStep, PodInv, CoreInv, TypesOK
<1>6. q.action = "restart" /\ q.op = "stopPod" =>
        (a.op = "startPod" /\ Head(a.batch) = c) \/ c \in a.errs
  BY Zenon DEF StoredStep
<1>7. CoreInv(T)'
  BY StoredCore, Zenon DEF PodInv
<1>8. /\ \A p \in Pods : DOMAIN pods'[p].images \subseteq Slots
      /\ \A p \in Pods \ {c} : stopper'[p] = stopper[p]
      /\ \A i \in Slots : stopper'[c][i] = IF i \in Newly(q) THEN r ELSE stopper[c][i]
  <2>1. /\ stopper \in [Pods -> [Slots -> Requests \union {NoRequest}]]
        /\ stopper' = [stopper EXCEPT ![c] = [i \in Slots |->
                          IF i \in Newly(q) THEN r ELSE stopper[c][i]]]
    BY Zenon DEF StoredStep, PodInv, CoreInv, TypesOK
  <2>2. pods' \in [Pods -> Pod]
    BY <1>7 DEF CoreInv, TypesOK
  <2>3. \A p \in Pods : DOMAIN pods'[p].images \subseteq Slots
    BY <2>2, ImageListsDomain DEF Pod
  <2> QED
    BY <1>1, <2>1, <2>3, Zenon
<1> HIDE DEF q, c, w
\* A container that was stopped before, by the same request as before.
<1>9. ASSUME NEW p \in Pods, NEW i \in Stopped(p), UNCHANGED (stopper[p][i]),
             p = c /\ q.op = "startPod" => i \notin Checked(q.checks)
      PROVE  /\ ByTemplate(p, i) => ByTemplate(p, i)'
             /\ ByTemplate(p, i)' \/ Accounts(req'[stopper[p][i]], p, i)
  <2>1. ByTemplate(p, i) => ByTemplate(p, i)'
    BY <1>4, <1>5, <1>9, Zenon DEF ByTemplate, q
  <2>2. CASE ~ByTemplate(p, i)
    <3> DEFINE s == stopper[p][i]
    <3>1. s \in Requests
      BY <2>2, Zenon DEF ByTemplate
    <3>2. Accounts(req[s], p, i)
      BY <2>2, Zenon DEF PodInv, NoSilentStop
    <3>3. CASE s # r
      BY <1>5, <2>1, <3>1, <3>2, <3>3, Zenon
    <3>4. CASE s = r
      <4>1. ~(q.op = "startPod" /\ Head(q.batch) = p)
        BY <1>9, <3>2, <3>4, Zenon DEF Accounts, c, q, Current
      <4>2. Accounts(a, p, i)
        BY <1>4, <3>2, <3>4, <4>1 DEF Accounts, q
      <4> QED
        BY <1>5, <2>1, <3>4, <4>2, Zenon
    <3> QED
      BY <3>3, <3>4, Zenon
  <2> QED
    BY <2>1, <2>2, Zenon
<1>10. ASSUME NEW p \in Pods, NEW i \in Stopped(p)'
       PROVE  /\ pods'[p].paused[i] \in Image \/ ByTemplate(p, i)'
              /\ ByTemplate(p, i)' \/ Accounts(req'[stopper'[p][i]], p, i)
  <2>1. i \in DOMAIN pods'[p].images /\ pods'[p].images[i] = PauseImage /\ i \in Slots
    BY <1>8, Zenon DEF Stopped, StoppedIn
  <2>2. ASSUME i \in Stopped(p), UNCHANGED (stopper[p][i]), pods'[p].paused[i] = pods[p].paused[i],
               p = c /\ q.op = "startPod" => i \notin Checked(q.checks)
        PROVE  /\ pods'[p].paused[i] \in Image \/ ByTemplate(p, i)'
               /\ ByTemplate(p, i)' \/ Accounts(req'[stopper'[p][i]], p, i)
    BY <1>9, <2>2, Zenon DEF PodInv, SavedImages
  <2>3. CASE p # c
    BY <1>3, <1>8, <2>1, <2>2, <2>3, Zenon DEF Stopped, StoppedIn
  <2>4. CASE p = c
    <3>1. /\ i \in DOMAIN w.images /\ w.images[i] = PauseImage
          /\ pods'[p].paused[i] = w.paused[i]
      BY <1>2, <1>3, <2>1, <2>4, Zenon
    <3>2. i \in Newly(q) <=> i \notin Stopped(c)
      BY <1>2, <3>1, Zenon DEF Newly, Stopped, StoppedIn, w, q
    <3>3. \/ /\ q.op = "syncPod" /\ i \in DOMAIN q.template /\ q.template[i] = PauseImage
             /\ w.paused[i] = q.read.paused[i]
          \/ /\ q.op = "stopPod" /\ i \in Checked(q.checks)
             /\ i \in DOMAIN q.read.images /\ q.read.images[i] # PauseImage
             /\ w.paused[i] = q.read.images[i]
          \/ /\ i \in DOMAIN q.read.images /\ q.read.images[i] = PauseImage
             /\ w.paused[i] = q.read.paused[i]
             /\ q.op = "startPod" => i \notin Checked(q.checks)
      BY <1>1, <3>1, WrittenStopped, Zenon DEF w, q
    <3>4. ASSUME i \in Stopped(c), w.paused[i] = q.read.paused[i],
                 q.op = "startPod" => i \notin Checked(q.checks)
          PROVE  /\ pods'[p].paused[i] \in Image \/ ByTemplate(p, i)'
                 /\ ByTemplate(p, i)' \/ Accounts(req'[stopper'[p][i]], p, i)
      <4>1. UNCHANGED (stopper[p][i]) /\ pods'[p].paused[i] = pods[p].paused[i]
        BY <1>2, <1>8, <2>1, <2>4, <3>1, <3>2, <3>4, Zenon
      <4> QED
        BY <2>2, <2>4, <3>4, <4>1, Zenon
    <3>5. CASE q.op = "syncPod" /\ w.paused[i] = q.read.paused[i]
      <4>1. CASE i \in Stopped(c)
        BY <3>4, <3>5, <4>1
      <4>2. CASE i \notin Stopped(c)
        <5>1. stopper'[p][i] = r
          BY <1>8, <2>1, <2>4, <3>2, <4>2, Zenon
        <5>2. q.action \in {"sync", "import"}
          BY <1>1, <3>5 DEF RequestOK, RequestOf, Actions, FirstOp
        <5> QED
          BY <1>4, <1>5, <5>1, <5>2, Zenon DEF ByTemplate
      <4> QED
        BY <4>1, <4>2, Zenon
    <3>6. CASE /\ q.op = "stopPod" /\ i \in Checked(q.checks)
               /\ i \in DOMAIN q.read.images /\ q.read.images[i] # PauseImage
               /\ w.paused[i] = q.read.images[i]
      <4>1. w.paused[i] \in Image
        <5>1. q.read.images \in ImageLists(Image \union {PauseImage})
          BY <1>1, Zenon DEF Pod
        <5>2. q.read.images[i] \in Image \union {PauseImage}
          BY <3>6, <5>1, ImageListsDomain
        <5> QED
          BY <3>6, <5>2, Zenon
      <4>2. stopper'[p][i] = r
        BY <1>2, <1>8, <2>1, <2>4, <3>2, <3>6, Zenon DEF Stopped, StoppedIn
      <4>3. q.action \in {"stop", "restart"}
        BY <1>1, <3>6 DEF RequestOK, RequestOf, Actions, FirstOp
      <4>4. Accounts(a, c, i)
        BY <1>4, <1>6, <3>6, <4>3 DEF Accounts
      <4> QED
        BY <1>5, <2>4, <3>1, <4>1, <4>2, <4>4, Zenon
    <3>7. CASE /\ i \in DOMAIN q.read.images /\ q.read.images[i] = PauseImage
               /\ w.paused[i] = q.read.paused[i]
               /\ q.op = "startPod" => i \notin Checked(q.checks)
      <4>1. i \in Stopped(c)
        BY <1>2, <3>7, Zenon DEF Stopped, StoppedIn
      <4> QED
        BY <3>4, <3>7, <4>1, Zenon
    <3> QED
      BY <3>3, <3>5, <3>6, <3>7, Zenon
  <2> QED
    BY <2>3, <2>4, Zenon
<1>11. SavedImages' /\ NoSilentStop'
  BY <1>10, Zenon DEF SavedImages, NoSilentStop
<1> QED
  BY <1>7, <1>11, Zenon DEF PodInv

\* Other clients of the API server: a new version makes every copy of the pod
\* an old one.
LEMMA StatusCore ==
  ASSUME NEW T, CoreInv(T), NEW c \in Pods, StatusUpdate(c)
  PROVE  CoreInv(T)'
<1>1. /\ pods \in [Pods -> Pod] /\ version \in Nat
      /\ pods' = [pods EXCEPT ![c].rv = version + 1]
      /\ version' = version + 1 /\ rcs' = rcs /\ req' = req /\ stopper' = stopper
  BY DEF StatusUpdate, CoreInv, TypesOK
<1>2. /\ pods' \in [Pods -> Pod] /\ pods'[c].rv = version + 1
      /\ \A p \in Pods \ {c} : pods'[p] = pods[p]
      /\ \A p \in Pods : pods'[p].images = pods[p].images /\ pods'[p].paused = pods[p].paused
  <2> DEFINE n == [pods[c] EXCEPT !.rv = version + 1]
  <2>1. /\ n \in Pod /\ n.rv = version + 1
        /\ n.images = pods[c].images /\ n.paused = pods[c].paused
    <3>1. pods[c] \in Pod /\ version + 1 \in Nat
      BY <1>1
    <3> QED
      BY <3>1 DEF Pod
  <2>2. pods' = [pods EXCEPT ![c] = n]
    BY <1>1
  <2> HIDE DEF n
  <2> QED
    BY <1>1, <2>1, <2>2
<1>3. TypesOK(T)' /\ Requests_OK(T)'
  BY <1>1, <1>2 DEF CoreInv, TypesOK, Requests_OK
<1>4. \A p \in Pods : pods[p].rv \in Nat /\ pods[p].rv <= version
  BY <1>1 DEF Pod, CoreInv, VersionsOK
<1>5. \A s \in Requests : Holding(req[s]) => /\ req[s].read.rv \in Nat
                                             /\ req[s].read.rv <= version
  BY DEF CoreInv, Requests_OK, RequestOK, VersionsOK, Pod
<1>6. VersionsOK'
  BY <1>1, <1>2, <1>4, <1>5 DEF VersionsOK
<1>7. ReadCoherent'
  <2> SUFFICES ASSUME NEW s \in Requests, Holding(req[s]),
                      req[s].read.rv = pods'[Head(req[s].batch)].rv
               PROVE  req[s].read = pods'[Head(req[s].batch)]
    BY <1>1 DEF ReadCoherent, Holding, Current
  <2>1. Head(req[s].batch) \in Pods
    <3>1. req[s].batch \in Seq(Pods) /\ req[s].batch # <<>>
      BY DEF CoreInv, TypesOK, Requests_OK, RequestOK, RequestOf, Serving, Holding
    <3> QED
      BY <3>1, HeadTailProperties
  <2>2. Head(req[s].batch) # c
    BY <1>1, <1>2, <1>5
  <2> QED
    BY <1>2, <2>1, <2>2 DEF CoreInv, ReadCoherent, Holding, Current
<1> QED
  BY <1>3, <1>6, <1>7 DEF CoreInv

\* What is written to the templates is only read.
LEMMA TemplateCore ==
  ASSUME NEW T, CoreInv(T), rcs' \in [RCs -> T], UNCHANGED <<pods, version, req, stopper>>
  PROVE  CoreInv(T)'
<1>1. TypesOK(T)'
  BY DEF CoreInv, TypesOK
<1>2. Requests_OK(T)' /\ VersionsOK' /\ ReadCoherent'
  BY DEF CoreInv, Requests_OK, VersionsOK, ReadCoherent, Current
<1> QED
  BY <1>1, <1>2 DEF CoreInv

\* A step that changes no container and no request keeps the stopped containers
\* explained.
LEMMA SamePodInv ==
  ASSUME NEW T, PodInv(T), CoreInv(T)', UNCHANGED <<req, stopper>>,
         \A p \in Pods : pods'[p].images = pods[p].images /\ pods'[p].paused = pods[p].paused
  PROVE  PodInv(T)'
<1>1. \A p, i : ByTemplate(p, i)' <=> ByTemplate(p, i)
  BY Zenon DEF ByTemplate
<1>2. \A p \in Pods : Stopped(p)' = Stopped(p)
  BY Zenon DEF Stopped
<1>3. SavedImages' /\ NoSilentStop'
  BY <1>1, <1>2, Zenon DEF PodInv, SavedImages, NoSilentStop
<1> QED
  BY <1>3, Zenon DEF PodInv

\* The other clients of the API server.
LEMMA EnvironmentPodInv ==
  ASSUME NEW T, Templates \subseteq T, PodInv(T),
         (\E p \in Pods : StatusUpdate(p)) \/ (\E rc \in RCs : EditTemplate(rc))
  PROVE  PodInv(T)'
<1>1. CASE \E p \in Pods : StatusUpdate(p)
  <2>1. CoreInv(T)'
    BY <1>1, StatusCore DEF PodInv
  <2>2. /\ \A p \in Pods : pods'[p].images = pods[p].images /\ pods'[p].paused = pods[p].paused
        /\ UNCHANGED <<req, stopper>>
    BY <1>1 DEF StatusUpdate, PodInv, CoreInv, TypesOK, Pod
  <2> QED
    BY <2>1, <2>2, SamePodInv
<1>2. CASE \E rc \in RCs : EditTemplate(rc)
  <2>1. rcs' \in [RCs -> T] /\ UNCHANGED <<pods, version, req, stopper>>
    BY <1>2 DEF EditTemplate, PodInv, CoreInv, TypesOK
  <2>2. CoreInv(T)'
    BY <2>1, TemplateCore DEF PodInv
  <2> QED
    BY <2>1, <2>2, SamePodInv
<1> QED
  BY <1>1, <1>2

\* So the invariant holds at first.
LEMMA InitPodInv ==
  ASSUME NEW T, Templates \subseteq T, Init
  PROVE  PodInv(T)
<1>1. CoreInv(T)
  BY InitCore
<1>2. SavedImages /\ NoSilentStop
  BY InitByTemplate, Zenon DEF SavedImages, NoSilentStop
<1> QED
  BY <1>1, <1>2, Zenon DEF PodInv

\* Every step of the handlers and of their environment keeps the invariant.
LEMMA NextPodInv ==
  ASSUME NEW T \in SUBSET AnyTemplate, Templates \subseteq T, PodInv(T), [Next]_vars
  PROVE  PodInv(T)'
<1>1. CASE UNCHANGED vars
  <2>1. rcs' \in [RCs -> T] /\ UNCHANGED <<pods, version, req, stopper>>
    BY <1>1 DEF vars, PodInv, CoreInv, TypesOK
  <2> QED
    BY <2>1, TemplateCore, SamePodInv DEF PodInv
<1>2. ASSUME NEW r \in Requests, Arrive(r) PROVE PodInv(T)'
  BY <1>2, ArriveLocal, LocalPodInv DEF PodInv
<1>3. ASSUME NEW r \in Requests, UpdateStored(r) PROVE PodInv(T)'
  <2>1. PICK n, a : StoredStep(T, r, n, a)
    BY <1>3, UpdateStoredStep DEF PodInv, AnyTemplate
  <2> QED
    BY <1>3, <2>1, StoredPodInv DEF UpdateStored
<1>4. ASSUME NEW r \in Requests, Handle(r), ~UpdateStored(r) PROVE PodInv(T)'
  BY <1>4, HandleLocal, LocalPodInv DEF PodInv, Handle
<1>5. CASE (\E p \in Pods : StatusUpdate(p)) \/ (\E rc \in RCs : EditTemplate(rc))
  BY <1>5, EnvironmentPodInv
<1> QED
  BY <1>1, <1>2, <1>3, <1>4, <1>5 DEF Next

\* The inductive invariant holds in every reachable state.
LEMMA SpecIInv == Spec => []IInv
<1>1. Templates \in SUBSET AnyTemplate
  BY TemplatesAssumption DEF AnyTemplate, AnyImage
<1>2. Init => IInv
  BY InitPodInv DEF IInv
<1>3. IInv /\ [Next]_vars => IInv'
  BY <1>1, NextPodInv DEF IInv
<1> QED
  BY <1>2, <1>3, PTL DEF Spec
-----------------------------------------------------------------------------
(***************************************************************************)
(* The variables always have their types: in particular a stored pod never *)
(* has a blank image and no annotation ever saves PauseImage, whatever     *)
(* stopPod, startPod, setPodImage and syncPod are asked to do.             *)
(***************************************************************************)
THEOREM TypeCorrect == Spec => []TypeOK
<1>1. IInv => TypeOK
  <2>1. ASSUME NEW S, NEW T, S \subseteq T PROVE RequestOf(S) \subseteq RequestOf(T)
    BY <2>1 DEF RequestOf
  <2>2. RequestOf(ImageLists(Image \union {PauseImage})) = Request
    BY DEF RequestOf, Request
  <2>3. RequestOf(Templates) \subseteq Request
    BY <2>1, <2>2, TemplatesAssumption, Zenon
  <2> QED
    BY <2>3 DEF IInv, PodInv, CoreInv, TypesOK, TypeOK
<1> QED
  BY <1>1, SpecIInv, PTL

(***************************************************************************)
(* A goroutine between the Get and the Update of an operation whose copy   *)
(* has the stored version holds the stored pod.                            *)
(***************************************************************************)
THEOREM CopiesCoherent == Spec => []ReadCoherent
<1>1. IInv => ReadCoherent
  BY DEF IInv, PodInv, CoreInv
<1> QED
  BY <1>1, SpecIInv, PTL

(***************************************************************************)
(* A container that stopPod stopped can always be started again by         *)
(* startPod: its image is in its annotation. The templates may list        *)
(* PauseImage, as they do once a stopped container has been exported; what *)
(* a sync with such a template, or its making, has stopped is excepted.    *)
(***************************************************************************)
THEOREM StoppedCanStart == Spec => []SavedImages
<1>1. IInv => SavedImages
  BY DEF IInv, PodInv
<1> QED
  BY <1>1, SpecIInv, PTL

(***************************************************************************)
(* A restart in performPodsAction that leaves a container stopped says so  *)
(* in its response, whatever other requests do: the request that stopped   *)
(* the container last accounts for it, or is a sync with a template that   *)
(* lists it as stopped.                                                    *)
(***************************************************************************)
THEOREM StopsAccountedFor == Spec => []NoSilentStop
<1>1. IInv => NoSilentStop
  BY DEF IInv, PodInv
<1> QED
  BY <1>1, SpecIInv, PTL
-----------------------------------------------------------------------------
\* Going on to the next operation is what the abstract job does.
LEMMA AdvanceJob ==
  ASSUME NEW q \in RequestOf(Templates), RequestOK(q, Templates), Serving(q)
  PROVE  /\ Job(Advance(q)) = Lifecycle!AfterOp(Job(q))
         /\ ~Lifecycle!Finished(Job(q))
         /\ Advance(q).pc \in {"get", "respond"}
<1>1. q.batch # <<>> /\ q.batch \in Seq(Pods) /\ q.op # "none"
  BY DEF RequestOK, RequestOf
<1>2. ~Lifecycle!Finished(Job(q))
  BY <1>1 DEF Lifecycle!Finished, Job
<1>3. CASE q.action = "restart" /\ q.op = "stopPod"
  <2>1. /\ Advance(q).pc = "get" /\ Advance(q).op = "startPod" /\ Advance(q).batch = q.batch
        /\ Advance(q).action = q.action /\ Advance(q).images = q.images
        /\ Advance(q).checks = q.checks
    BY <1>3 DEF Advance, RequestOf
  <2>2. Job(Advance(q)) = Lifecycle!AfterOp(Job(q))
    BY <1>3, <2>1 DEF Job, Lifecycle!AfterOp
  <2> QED
    BY <1>2, <2>1, <2>2
<1>4. CASE ~(q.action = "restart" /\ q.op = "stopPod")
  <2>1. /\ Advance(q).pc = IF Len(q.batch) > 1 THEN "get" ELSE "respond"
        /\ Advance(q).op = FirstOp(q.action) /\ Advance(q).batch = Tail(q.batch)
        /\ Advance(q).action = q.action /\ Advance(q).images = q.images
        /\ Advance(q).checks = q.checks
    BY <1>4 DEF Advance, RequestOf
  <2>2. FirstOp(q.action) = IF q.action = "restart" THEN "stopPod" ELSE q.op
    BY <1>4, Zenon DEF RequestOK, FirstOp
  <2>3. Job(Advance(q)) = Lifecycle!AfterOp(Job(q))
    BY <1>4, <2>1, <2>2, Zenon DEF Job, Lifecycle!AfterOp
  <2> QED
    BY <1>2, <2>1, <2>3
<1> QED
  BY <1>3, <1>4

\* So is going on after an error.
LEMMA FailedJob ==
  ASSUME NEW q \in RequestOf(Templates), RequestOK(q, Templates), Serving(q)
  PROVE  /\ Job(Failed(q)) = Lifecycle!AfterOp(Job(q))
         /\ Status(Failed(q)) = "failing"
<1> DEFINE e == [q EXCEPT !.errs = @ \union {Head(q.batch)}]
<1>1. q.batch # <<>> /\ q.batch \in Seq(Pods)
  BY DEF RequestOK, RequestOf
<1>2. Head(q.batch) \in Pods
  BY <1>1, HeadTailProperties
<1>3. e \in RequestOf(Templates)
  BY <1>2 DEF RequestOf
<1>4. RequestOK(e, Templates) /\ Serving(e) /\ Job(e) = Job(q)
  BY DEF RequestOK, Serving, Holding, RequestOf, Job
<1>5. Failed(q) = Advance(e)
  BY DEF Failed
<1>6. Failed(q).errs # {}
  BY FailedOK
<1> QED
  BY <1>3, <1>4, <1>5, <1>6, AdvanceJob, Zenon DEF Status

\* What the abstract view shows of a request that has been begun.
LEMMA ServingStatus ==
  ASSUME NEW q, q.pc \in {"get", "getrc", "update", "respond"}
  PROVE  Status(q) = IF q.errs = {} THEN "running" ELSE "failing"
  BY DEF Status

\* A step of one request and of nothing else, as the abstract view shows it.
LEMMA RequestView ==
  ASSUME NEW r \in Requests, NEW q, req \in [Requests -> RequestOf(Templates)],
         req' = [req EXCEPT ![r] = q]
  PROVE  /\ [s \in Requests |-> Job(req[s])]'
              = [[s \in Requests |-> Job(req[s])] EXCEPT ![r] = Job(q)]
         /\ [s \in Requests |-> Status(req[s])]'
              = [[s \in Requests |-> Status(req[s])] EXCEPT ![r] = Status(q)]
<1>1. \A s \in Requests : req'[s] = IF s = r THEN q ELSE req[s]
  OBVIOUS
<1> QED
  BY <1>1, Zenon

\* An operation that fails is skipped, and reported.
LEMMA FailedSkips ==
  ASSUME IInv, NEW r \in Requests, Serving(req[r]),
         req' = [req EXCEPT ![r] = Failed(req[r])], UNCHANGED pods
  PROVE  Lifecycle!Skip(r)
<1>1. /\ req \in [Requests -> RequestOf(Templates)] /\ req[r] \in RequestOf(Templates)
      /\ RequestOK(req[r], Templates)
  BY DEF IInv, PodInv, CoreInv, TypesOK, Requests_OK
<1>2. Status(req[r]) \in {"running", "failing"}
  BY ServingStatus DEF Serving
<1>3. /\ Job(Failed(req[r])) = Lifecycle!AfterOp(Job(req[r]))
      /\ Status(Failed(req[r])) = "failing"
      /\ ~Lifecycle!Finished(Job(req[r]))
  BY <1>1, FailedJob, AdvanceJob
<1>4. UNCHANGED <<[p \in Pods |-> WorkImages(pods[p])], [p \in Pods |-> Stopped(p)]>>
  BY Zenon DEF WorkImages, Stopped
<1> QED
  BY <1>1, <1>2, <1>3, <1>4, RequestView, Zenon DEF Lifecycle!Skip, Lifecycle!Running

\* What each operation does, in one step, to the images that the containers are
\* for and to the stopped ones.
LEMMA SetEffect ==
  ASSUME NEW q \in RequestOf(Templates), q.read \in Pod, q.op = "setPodImage", ~Panics(q)
  PROVE  LET chosen == {i \in DOMAIN q.images : q.images[i] # NoImage}
         IN  /\ chosen \subseteq DOMAIN q.read.images
             /\ WorkImages(Written(q)) = [i \in DOMAIN q.read.images |->
                  IF i \in chosen THEN q.images[i] ELSE WorkImages(q.read)[i]]
             /\ StoppedIn(Written(q).images) = StoppedIn(q.read.images) \ chosen
<1> DEFINE chosen == {i \in DOMAIN q.images : q.images[i] # NoImage}
<1>1. chosen \subseteq DOMAIN q.read.images
  BY DEF Panics
<1>2. \A i \in chosen : q.images[i] # PauseImage
  <2>1. q.images \in Seq(Image \union {NoImage})
    BY DEF RequestOf
  <2>2. \A i \in DOMAIN q.images : q.images[i] \in Image \union {NoImage}
    BY <2>1, ElementOfSeq, LenProperties
  <2> QED
    BY <2>2, ConstantsAssumption
<1>3. Written(q) = setPodImage(q.read, q.images)
  BY DEF Written
<1>4. /\ Written(q).images = [i \in DOMAIN q.read.images |->
                               IF i \in chosen THEN q.images[i] ELSE q.read.images[i]]
      /\ Written(q).paused = q.read.paused
  BY <1>3, Zenon DEF setPodImage, Pod
<1> QED
  BY <1>1, <1>2, <1>4 DEF WorkImages, StoppedIn

\* A stop keeps the images and stops the chosen containers.
LEMMA StopEffect ==
  ASSUME NEW q \in RequestOf(Templates), q.read \in Pod, q.op = "stopPod", ~Panics(q)
  PROVE  /\ Checked(q.checks) \subseteq DOMAIN q.read.images
         /\ WorkImages(Written(q)) = WorkImages(q.read)
         /\ StoppedIn(Written(q).images) = StoppedIn(q.read.images) \union Checked(q.checks)
<1> DEFINE Stop == {i \in Checked(q.checks) : q.read.images[i] # PauseImage}
<1>1. Checked(q.checks) \subseteq DOMAIN q.read.images
  BY DEF Panics, Checked
<1>2. DOMAIN q.read.images \subseteq Slots
  BY ImageListsDomain DEF Pod
<1>3. Written(q) = stopPod(q.read, q.checks)
  BY DEF Written
<1>4. /\ Written(q).images = [i \in DOMAIN q.read.images |->
                               IF i \in Stop THEN PauseImage ELSE q.read.images[i]]
      /\ Written(q).paused = [i \in Slots |->
                               IF i \in Stop THEN q.read.images[i] ELSE q.read.paused[i]]
  BY <1>3, Zenon DEF stopPod, Pod
<1> QED
  BY <1>1, <1>2, <1>4 DEF WorkImages, StoppedIn

\* A start that is accepted keeps the images and starts the chosen containers,
\* all of which have one.
LEMMA StartEffect ==
  ASSUME NEW q \in RequestOf(Templates), q.read \in Pod, q.op = "startPod", ~Panics(q),
         \A i \in DOMAIN Written(q).images : Written(q).images[i] # NoImage
  PROVE  /\ Checked(q.checks) \subseteq DOMAIN q.read.images
         /\ \A i \in Checked(q.checks) \intersect StoppedIn(q.read.images) :
              WorkImages(q.read)[i] # NoImage
         /\ WorkImages(Written(q)) = WorkImages(q.read)
         /\ StoppedIn(Written(q).images) = StoppedIn(q.read.images) \ Checked(q.checks)
<1> DEFINE Start == {i \in Checked(q.checks) : q.read.images[i] = PauseImage}
<1>1. Checked(q.checks) \subseteq DOMAIN q.read.images
  BY DEF Panics, Checked
<1>2. DOMAIN q.read.images \subseteq Slots
  BY ImageListsDomain DEF Pod
<1>3. \A i \in Start : q.read.paused[i] # PauseImage
  BY <1>1, <1>2, ConstantsAssumption DEF Pod
<1>4. Written(q) = startPod(q.read, q.checks)
  BY DEF Written
<1>5. /\ Written(q).images = [i \in DOMAIN q.read.images |->
                               IF i \in Start THEN q.read.paused[i] ELSE q.read.images[i]]
      /\ Written(q).paused = [i \in Slots |->
                               IF i \in Start THEN NoImage ELSE q.read.paused[i]]
  BY <1>4 DEF startPod, Pod
<1> QED
  BY <1>1, <1>2, <1>3, <1>5 DEF WorkImages, StoppedIn

\* A sync takes the images of the template, and the stopped containers: one that
\* was stopped before is for what it was for.
LEMMA SyncEffect ==
  ASSUME NEW q \in RequestOf(Templates), q.read \in Pod, q.op = "syncPod", q.template \in Templates
  PROVE  /\ StoppedIn(Written(q).images) = StoppedIn(q.template)
         /\ WorkImages(Written(q)) \in [DOMAIN q.template -> Image \union {NoImage}]
         /\ \A i \in DOMAIN q.template \ StoppedIn(q.template) :
              WorkImages(Written(q))[i] = q.template[i]
         /\ \A i \in StoppedIn(q.template) \intersect StoppedIn(q.read.images) :
              WorkImages(Written(q))[i] = WorkImages(q.read)[i]
<1>1. q.template \in ImageLists(Image \union {PauseImage})
  BY TemplatesAssumption
<1>2. /\ DOMAIN q.template \subseteq Slots
      /\ \A i \in DOMAIN q.template : q.template[i] \in Image \union {PauseImage}
  BY <1>1, ImageListsDomain
<1>3. Written(q) = syncPod(q.read, q.template)
  BY DEF Written
<1>4. /\ Written(q).images = q.template
      /\ Written(q).paused = q.read.paused /\ q.read.paused \in [Slots -> Image \union {NoImage}]
  BY <1>3 DEF syncPod, Pod
<1>5. WorkImages(Written(q)) = [i \in DOMAIN q.template |->
        IF q.template[i] = PauseImage THEN q.read.paused[i] ELSE q.template[i]]
  BY <1>4, Zenon DEF WorkImages
<1>6. WorkImages(Written(q)) \in [DOMAIN q.template -> Image \union {NoImage}]
  BY <1>2, <1>4, <1>5
<1> QED
  BY <1>4, <1>5, <1>6 DEF WorkImages, StoppedIn

\* An Update that the API server stores is the abstract operation, on the pod as
\* it is at that moment: the copy that it was computed from is that pod.
LEMMA StoredApplies ==
  ASSUME IInv, NEW r \in Requests, UpdateStored(r)
  PROVE  Lifecycle!Apply(r)
<1> DEFINE q == req[r]
           c == Current(r)
           w == Written(req[r])
           work == [p \in Pods |-> WorkImages(pods[p])]
           stopped == [p \in Pods |-> Stopped(p)]
           j == Job(req[r])
<1>1. /\ req \in [Requests -> RequestOf(Templates)] /\ q \in RequestOf(Templates)
      /\ RequestOK(q, Templates)
      /\ pods \in [Pods -> Pod]
      /\ q.pc = "update" /\ ~Panics(q) /\ Accepts(pods[c], w)
      /\ pods' = [pods EXCEPT ![c] = [w EXCEPT !.rv = version + 1]]
      /\ req' = [req EXCEPT ![r] = Advance(q)] \/ req' = [req EXCEPT ![r] = Failed(q)]
  BY DEF IInv, PodInv, CoreInv, TypesOK, Requests_OK, UpdateStored
<1>2. Serving(q) /\ Holding(q) /\ q.read \in Pod /\ q.op # "none" /\ q.batch # <<>>
  BY <1>1 DEF RequestOK, Serving, Holding
<1>3. c \in Pods /\ c = Head(j.batch)
  <2>1. q.batch \in Seq(Pods)
    BY <1>1 DEF RequestOf
  <2> QED
    BY <1>2, <2>1, HeadTailProperties DEF Current, Job
<1>4. \A i \in DOMAIN w.images : w.images[i] # NoImage
  BY <1>1 DEF Accepts
<1>5. w \in Pod /\ w.rv = q.read.rv
  <2>1. q.op = "syncPod" => q.template \in ImageLists(AnyImage)
    BY <1>1, TemplatesAssumption, Zenon DEF RequestOK, AnyImage
  <2> QED
    BY <1>1, <1>2, <1>4, <2>1, WrittenType
<1>6. q.read = pods[c]
  BY <1>1, <1>5, Zenon DEF Accepts, IInv, PodInv, CoreInv, ReadCoherent
<1>8. /\ work' = [work EXCEPT ![c] = WorkImages(w)]
      /\ stopped' = [stopped EXCEPT ![c] = StoppedIn(w.images)]
  <2>1. \A p \in Pods : /\ pods'[p].images = IF p = c THEN w.images ELSE pods[p].images
                        /\ pods'[p].paused = IF p = c THEN w.paused ELSE pods[p].paused
    BY <1>1, <1>3, <1>5, Zenon DEF Pod
  <2>2. \A p \in Pods : WorkImages(pods'[p]) = IF p = c THEN WorkImages(w) ELSE WorkImages(pods[p])
    BY <2>1 DEF WorkImages
  <2>3. \A p \in Pods : Stopped(p)' = IF p = c THEN StoppedIn(w.images) ELSE Stopped(p)
    BY <2>1, Zenon DEF Stopped
  <2> QED
    BY <1>3, <2>2, <2>3, Zenon
<1>9. /\ work[c] = WorkImages(q.read) /\ stopped[c] = StoppedIn(q.read.images)
      /\ DOMAIN work[c] = DOMAIN q.read.images
  BY <1>3, <1>6, Zenon DEF Stopped, WorkImages
<1>10. Lifecycle!Effect(j, c)
  <2>1. CASE q.op = "setPodImage"
    <3>1. j.op = "setPodImage" /\ j.images = q.images
      BY <2>1 DEF Job
    <3>2. Lifecycle!Chosen(j) = {i \in DOMAIN q.images : q.images[i] # NoImage}
      BY <3>1 DEF Lifecycle!Chosen
    <3>3. /\ Lifecycle!Chosen(j) \subseteq DOMAIN work[c]
          /\ WorkImages(w) = [i \in DOMAIN work[c] |->
                                IF i \in Lifecycle!Chosen(j) THEN j.images[i] ELSE work[c][i]]
          /\ StoppedIn(w.images) = stopped[c] \ Lifecycle!Chosen(j)
      BY <1>1, <1>2, <1>9, <2>1, <3>1, <3>2, SetEffect, SMTT(30)
    <3>4. /\ work' = [work EXCEPT ![c] =
                        [i \in DOMAIN @ |-> IF i \in Lifecycle!Chosen(j) THEN j.images[i] ELSE @[i]]]
          /\ stopped' = [stopped EXCEPT ![c] = @ \ Lifecycle!Chosen(j)]
      BY <1>3, <1>8, <3>3, Zenon
    <3> QED
      BY <3>1, <3>3, <3>4 DEF Lifecycle!Effect
  <2>2. CASE q.op = "stopPod"
    <3>1. j.op = "stopPod" /\ Lifecycle!Checked(j) = Checked(q.checks)
      BY <2>2 DEF Job, Lifecycle!Checked, Checked
    <3>2. /\ Lifecycle!Checked(j) \subseteq DOMAIN work[c]
          /\ WorkImages(w) = work[c]
          /\ StoppedIn(w.images) = stopped[c] \union Lifecycle!Checked(j)
      BY <1>1, <1>2, <1>9, <2>2, <3>1, StopEffect, Zenon
    <3>3. work' = work /\ stopped' = [stopped EXCEPT ![c] = @ \union Lifecycle!Checked(j)]
      BY <1>3, <1>8, <3>2, Zenon
    <3> QED
      BY <3>1, <3>2, <3>3 DEF Lifecycle!Effect
  <2>3. CASE q.op = "startPod"
    <3>1. j.op = "startPod" /\ Lifecycle!Checked(j) = Checked(q.checks)
      BY <2>3 DEF Job, Lifecycle!Checked, Checked
    <3>2. /\ Lifecycle!Checked(j) \subseteq DOMAIN work[c]
          /\ \A i \in Lifecycle!Checked(j) \intersect stopped[c] : work[c][i] # NoImage
          /\ WorkImages(w) = work[c]
          /\ StoppedIn(w.images) = stopped[c] \ Lifecycle!Checked(j)
      BY <1>1, <1>2, <1>4, <1>9, <2>3, <3>1, StartEffect, ZenonT(30)
    <3>3. work' = work /\ stopped' = [stopped EXCEPT ![c] = @ \ Lifecycle!Checked(j)]
      BY <1>3, <1>8, <3>2, Zenon
    <3> QED
      BY <3>1, <3>2, <3>3, Zenon DEF Lifecycle!Effect
  <2>4. CASE q.op = "syncPod"
    <3>1. j.op = "syncPod" /\ q.template \in Templates
      BY <1>1, <2>4 DEF Job, RequestOK
    <3>2. Lifecycle!StoppedIn(q.template) = StoppedIn(q.template)
      BY Zenon DEF Lifecycle!StoppedIn, StoppedIn
    <3>3. /\ StoppedIn(w.images) = StoppedIn(q.template)
          /\ WorkImages(w) \in [DOMAIN q.template -> Image \union {NoImage}]
          /\ \A i \in DOMAIN q.template \ StoppedIn(q.template) : WorkImages(w)[i] = q.template[i]
          /\ \A i \in StoppedIn(q.template) \intersect StoppedIn(q.read.images) :
               WorkImages(w)[i] = WorkImages(q.read)[i]
      BY <1>1, <1>2, <2>4, <3>1, SyncEffect, Zenon
    <3>4. /\ StoppedIn(w.images) = StoppedIn(q.template)
          /\ WorkImages(w) \in [DOMAIN q.template -> Image \union {NoImage}]
          /\ \A i \in DOMAIN q.template \ StoppedIn(q.template) : WorkImages(w)[i] = q.template[i]
          /\ \A i \in StoppedIn(q.template) \intersect stopped[c] : WorkImages(w)[i] = work[c][i]
      BY <1>9, <3>3, Zenon
    <3>5. /\ work' = [work EXCEPT ![c] = WorkImages(w)]
          /\ stopped' = [stopped EXCEPT ![c] = Lifecycle!StoppedIn(q.template)]
      BY <1>8, <3>2, <3>4, Zenon
    <3> HIDE DEF work, stopped, j, w
    <3>6. \E t \in Templates :
            /\ stopped' = [stopped EXCEPT ![c] = Lifecycle!StoppedIn(t)]
            /\ \E v \in [DOMAIN t -> Image \union {NoImage}] :
                 /\ \A i \in DOMAIN t \ Lifecycle!StoppedIn(t) : v[i] = t[i]
                 /\ \A i \in Lifecycle!StoppedIn(t) \intersect stopped[c] : v[i] = work[c][i]
                 /\ work' = [work EXCEPT ![c] = v]
      BY <3>1, <3>2, <3>4, <3>5, Zenon
    <3> QED
      BY <3>1, <3>6, Zenon DEF Lifecycle!Effect, work, stopped
  <2> QED
    BY <1>1, <1>2, <2>1, <2>2, <2>3, <2>4, Zenon DEF RequestOf, Ops
<1>11. Status(q) = (IF q.errs = {} THEN "running" ELSE "failing") /\ ~Lifecycle!Finished(j)
  BY <1>1, <1>2, ServingStatus, AdvanceJob
<1>12. CASE req' = [req EXCEPT ![r] = Advance(q)]
  <2>1. Job(Advance(q)) = Lifecycle!AfterOp(j) /\ Status(Advance(q)) = Status(q)
    BY <1>1, <1>2, <1>11, AdvanceJob, AdvanceOK, ServingStatus
  <2> QED
    BY <1>1, <1>3, <1>10, <1>11, <1>12, <2>1, RequestView, Zenon DEF Lifecycle!Apply, Lifecycle!Running
<1>13. CASE req' = [req EXCEPT ![r] = Failed(q)]
  <2>1. Job(Failed(q)) = Lifecycle!AfterOp(j) /\ Status(Failed(q)) = "failing"
    BY <1>1, <1>2, FailedJob
  <2> QED
    BY <1>1, <1>3, <1>10, <1>11, <1>13, <2>1, RequestView, Zenon DEF Lifecycle!Apply, Lifecycle!Running
<1> QED
  BY <1>1, <1>12, <1>13
-----------------------------------------------------------------------------
\* The pods are made from templates.
LEMMA InitAbstract == Init => Lifecycle!Init
<1> SUFFICES ASSUME Init PROVE Lifecycle!Init
  OBVIOUS
<1> DEFINE made == [p \in Pods |-> pods[p].images]
<1>1. made \in [Pods -> Templates]
  BY Zenon DEF Init
<1>2. ASSUME NEW p \in Pods
      PROVE  /\ Stopped(p) = Lifecycle!StoppedIn(made[p])
             /\ WorkImages(pods[p]) =
                  [i \in DOMAIN made[p] |-> IF i \in Lifecycle!StoppedIn(made[p]) THEN NoImage
                                                                                 ELSE made[p][i]]
  <2>1. made[p] = pods[p].images
    OBVIOUS
  <2>2. DOMAIN pods[p].images \subseteq Slots
    <3>1. pods[p].images \in ImageLists(Image \union {PauseImage})
      BY TemplatesAssumption, Zenon DEF Init
    <3> QED
      BY <3>1, ImageListsDomain
  <2>3. \A i \in DOMAIN pods[p].images : pods[p].paused[i] = NoImage
    BY <2>2 DEF Init
  <2> QED
    BY <2>1, <2>3 DEF WorkImages, Stopped, StoppedIn, Lifecycle!StoppedIn
<1>3. \A r \in Requests : req[r] = NewRequest
  BY DEF Init
<1>4. Status(NewRequest) = "new"
  BY DEF Status, NewRequest
<1> HIDE DEF made
<1>5. /\ [p \in Pods |-> Stopped(p)] = [p \in Pods |-> Lifecycle!StoppedIn(made[p])]
      /\ [p \in Pods |-> WorkImages(pods[p])] = [p \in Pods |->
            [i \in DOMAIN made[p] |-> IF i \in Lifecycle!StoppedIn(made[p]) THEN NoImage
                                                                           ELSE made[p][i]]]
  BY <1>2, Zenon
<1> QED
  BY <1>1, <1>3, <1>4, <1>5, Zenon DEF Lifecycle!Init

\* What a step that leaves the pods alone does to the abstract pods.
LEMMA PodsView ==
  ASSUME UNCHANGED pods
  PROVE  UNCHANGED <<[p \in Pods |-> WorkImages(pods[p])], [p \in Pods |-> Stopped(p)]>>
  BY DEF WorkImages, Stopped

\* A request that arrives is submitted, or rejected.
LEMMA ArriveAbstract ==
  ASSUME IInv, NEW r \in Requests, Arrive(r)
  PROVE  Lifecycle!Submit(r) \/ Lifecycle!Reject(r)
<1>1. /\ req \in [Requests -> RequestOf(Templates)] /\ req[r] \in RequestOf(Templates)
      /\ req[r].pc = "new" /\ UNCHANGED pods
  BY DEF IInv, PodInv, CoreInv, TypesOK, Arrive, performPodsAction, Malformed,
         updatePodWithReplicationController
<1>2. Status(req[r]) = "new"
  BY <1>1 DEF Status
<1>3. CASE performPodsAction(r)
  <2>1. PICK post \in Posts : req' = [req EXCEPT ![r] = Accepted(post)]
    BY <1>3, Zenon DEF performPodsAction
  <2>2. Status(Accepted(post)) = "running"
    BY DEF Status, Accepted, NewRequest
  <2>3. Job(Accepted(post)) \in {Job(Accepted(o)) : o \in Posts} \union {Job(Import(o)) : o \in Pods}
    OBVIOUS
  <2>4. /\ [s \in Requests |-> Job(req[s])]'
             = [[s \in Requests |-> Job(req[s])] EXCEPT ![r] = Job(Accepted(post))]
        /\ [s \in Requests |-> Status(req[s])]'
             = [[s \in Requests |-> Status(req[s])] EXCEPT ![r] = "running"]
    BY <1>1, <2>1, <2>2, RequestView, Zenon
  <2> QED
    BY <1>1, <1>2, <2>3, <2>4, PodsView, Zenon DEF Lifecycle!Submit
<1>4. CASE updatePodWithReplicationController(r)
  <2>1. PICK p \in Pods : req' = [req EXCEPT ![r] = Import(p)]
    BY <1>4, Zenon DEF updatePodWithReplicationController
  <2>2. Status(Import(p)) = "running"
    BY DEF Status, Import, NewRequest
  <2>3. Job(Import(p)) \in {Job(Accepted(o)) : o \in Posts} \union {Job(Import(o)) : o \in Pods}
    OBVIOUS
  <2>4. /\ [s \in Requests |-> Job(req[s])]'
             = [[s \in Requests |-> Job(req[s])] EXCEPT ![r] = Job(Import(p))]
        /\ [s \in Requests |-> Status(req[s])]'
             = [[s \in Requests |-> Status(req[s])] EXCEPT ![r] = "running"]
    BY <1>1, <2>1, <2>2, RequestView, Zenon
  <2> QED
    BY <1>1, <1>2, <2>3, <2>4, PodsView, Zenon DEF Lifecycle!Submit
<1>5. CASE Malformed(r)
  <2> DEFINE q == [req[r] EXCEPT !.pc = "done", !.resp = "malformed"]
  <2>1. req' = [req EXCEPT ![r] = q]
    BY <1>1, <1>5, Zenon DEF Malformed
  <2>2. Status(q) = "malformed" /\ Job(q) = Job(req[r])
    BY <1>1 DEF Status, Job, RequestOf
  <2> QED
    BY <1>1, <1>2, <2>1, <2>2, PodsView, RequestView, Zenon DEF Lifecycle!Reject
<1> QED
  BY <1>3, <1>4, <1>5 DEF Arrive

\* A step of a handler is an abstract one, or shows nothing.
LEMMA HandleAbstract ==
  ASSUME IInv, NEW r \in Requests, Handle(r)
  PROVE  \/ Lifecycle!Apply(r) \/ Lifecycle!Skip(r) \/ Lifecycle!Abort(r) \/ Lifecycle!Answer(r)
         \/ UNCHANGED Lifecycle!vars
<1>1. /\ req \in [Requests -> RequestOf(Templates)] /\ req[r] \in RequestOf(Templates)
      /\ RequestOK(req[r], Templates)
  BY DEF IInv, PodInv, CoreInv, TypesOK, Requests_OK
<1>2. ASSUME NEW q, req' = [req EXCEPT ![r] = q], UNCHANGED pods,
             Job(q) = Job(req[r]), Status(q) = Status(req[r])
      PROVE  UNCHANGED Lifecycle!vars
  BY <1>1, <1>2, PodsView, RequestView DEF Lifecycle!vars
<1>3. CASE GetPod(r)
  <2> DEFINE q == [req[r] EXCEPT !.pc = IF req[r].op = "syncPod" THEN "getrc" ELSE "update",
                                 !.read = pods[Current(r)]]
  <2>1. /\ req[r].pc = "get" /\ UNCHANGED pods
        /\ req' = [req EXCEPT ![r] = q] \/ req' = [req EXCEPT ![r] = Failed(req[r])]
    BY <1>1, <1>3, Zenon DEF GetPod
  <2>2. Job(q) = Job(req[r]) /\ Status(q) = Status(req[r])
    BY <1>1, <2>1 DEF Job, Status, RequestOf
  <2> QED
    BY <1>2, <2>1, <2>2, FailedSkips DEF Serving
<1>4. CASE GetTemplate(r)
  <2> DEFINE q == [req[r] EXCEPT !.pc = "update", !.template = rcs[req[r].read.managedBy]]
  <2>1. /\ req[r].pc = "getrc" /\ UNCHANGED pods
        /\ req' = [req EXCEPT ![r] = q] \/ req' = [req EXCEPT ![r] = Failed(req[r])]
    BY <1>1, <1>4, Zenon DEF GetTemplate
  <2>2. Job(q) = Job(req[r]) /\ Status(q) = Status(req[r])
    BY <1>1, <2>1 DEF Job, Status, RequestOf
  <2> QED
    BY <1>2, <2>1, <2>2, FailedSkips DEF Serving
<1>5. CASE Panic(r)
  <2> DEFINE q == [req[r] EXCEPT !.pc = "done", !.read = NoPod, !.resp = "panic"]
  <2>1. req[r].pc = "update" /\ UNCHANGED pods /\ req' = [req EXCEPT ![r] = q]
    BY <1>1, <1>5, Zenon DEF Panic
  <2>2. Job(q) = Job(req[r]) /\ Status(q) = "panic"
    BY <1>1 DEF Job, Status, RequestOf
  <2>3. Status(req[r]) \in {"running", "failing"}
    BY <2>1, ServingStatus
  <2>4. ~Lifecycle!Finished(Job(req[r]))
    BY <1>1, <2>1, AdvanceJob DEF Serving
  <2> QED
    BY <1>1, <2>1, <2>2, <2>3, <2>4, PodsView, RequestView, Zenon DEF Lifecycle!Abort, Lifecycle!Running
<1>6. CASE UpdateStored(r)
  BY <1>6, StoredApplies
<1>7. CASE UpdateRefused(r)
  BY <1>7, FailedSkips, Zenon DEF UpdateRefused, Serving
<1>8. CASE Respond(r)
  <2> DEFINE resp == IF req[r].errs = {} THEN "redirect" ELSE "errors"
             q == [req[r] EXCEPT !.pc = "done", !.resp = resp]
  <2>1. req[r].pc = "respond" /\ UNCHANGED pods /\ req' = [req EXCEPT ![r] = q]
    BY <1>1, <1>8, Zenon DEF Respond
  <2>2. Job(q) = Job(req[r]) /\ Status(q) = resp
    BY <1>1 DEF Job, Status, RequestOf
  <2>3. Status(req[r]) = IF req[r].errs = {} THEN "running" ELSE "failing"
    BY <2>1, ServingStatus
  <2>4. Lifecycle!Finished(Job(req[r]))
    BY <1>1, <2>1 DEF RequestOK, Job, Lifecycle!Finished
  <2> QED
    BY <1>1, <2>1, <2>2, <2>3, <2>4, PodsView, RequestView, Zenon DEF Lifecycle!Answer, Lifecycle!Running
<1> QED
  BY <1>3, <1>4, <1>5, <1>6, <1>7, <1>8 DEF Handle

\* Every step maps to an abstract step or to a stutter.
LEMMA NextAbstract == IInv /\ [Next]_vars => [Lifecycle!Next]_(Lifecycle!vars)
<1> SUFFICES ASSUME IInv, [Next]_vars PROVE [Lifecycle!Next]_(Lifecycle!vars)
  OBVIOUS
<1>1. CASE UNCHANGED vars
  BY <1>1 DEF vars, Lifecycle!vars, WorkImages, Stopped, Job, Status
<1>2. ASSUME NEW r \in Requests, Arrive(r) PROVE Lifecycle!Next
  BY <1>2, ArriveAbstract DEF Lifecycle!Next
<1>3. ASSUME NEW r \in Requests, Handle(r) PROVE Lifecycle!Next \/ UNCHANGED Lifecycle!vars
  BY <1>3, HandleAbstract DEF Lifecycle!Next
<1>4. ASSUME NEW c \in Pods, StatusUpdate(c) PROVE UNCHANGED Lifecycle!vars
  <2>1. pods \in [Pods -> Pod] /\ UNCHANGED req
    BY <1>4 DEF IInv, PodInv, CoreInv, TypesOK, StatusUpdate
  <2>2. \A p \in Pods : pods'[p].images = pods[p].images /\ pods'[p].paused = pods[p].paused
    BY <1>4, <2>1 DEF StatusUpdate, Pod
  <2> QED
    BY <2>1, <2>2 DEF Lifecycle!vars, WorkImages, Stopped, Job, Status
<1>5. ASSUME NEW rc \in RCs, EditTemplate(rc) PROVE UNCHANGED Lifecycle!vars
  BY <1>5 DEF EditTemplate, Lifecycle!vars, WorkImages, Stopped, Job, Status
<1> QED
  BY <1>1, <1>2, <1>3, <1>4, <1>5 DEF Next

(***************************************************************************)
(* The batch actions implement PodLifecycle: the Get, the local change and *)
(* the Update of stopPod, startPod, setPodImage and syncPod are together   *)
(* one step on the pod, taken once or not at all, and performPodsAction    *)
(* redirects only if all have been taken.                                  *)
(***************************************************************************)
THEOREM Atomic == Spec => ActionsAreAtomic
  BY SpecIInv, InitAbstract, NextAbstract, PTL DEF Spec, ActionsAreAtomic, Lifecycle!Spec
-----------------------------------------------------------------------------
\* A form that has been filled holds the containers of a pod.
FormsOK ==
  /\ exp \in [Exports -> [pc        : {"new", "open", "stored"},
                          images    : AnyTemplate \union {<<>>},
                          managedBy : RCs \union {NoRC}]]
  /\ \A x \in Exports : exp[x].pc = "open" => exp[x].images \in AnyTemplate

\* The history is up to date.
HistoryOK == \A p \in Pods : \A i \in Running(pods[p]) : ran[p][i] = pods[p].images[i]

\* A stopped container got into a template by an export ...
PausedTemplates ==
  \A rc \in RCs : \A i \in DOMAIN rcs[rc] :
    rcs[rc][i] = PauseImage => ExportedStopped(rc, i)

\* ... and into the hands of a sync by that template.
PausedReads ==
  \A r \in Requests : req[r].pc = "update" /\ req[r].op = "syncPod" =>
    \A i \in DOMAIN req[r].template :
      req[r].template[i] = PauseImage => ExportedStopped(req[r].read.managedBy, i)

\* The inductive invariant of TemplateExport.
ExportInv ==
  /\ CoreInv(AnyTemplate) /\ FormsOK /\ HistoryOK
  /\ PausedTemplates /\ PausedReads /\ StartsWhatRan

\* The history follows a step of the batch actions.
LEMMA RanStep ==
  ASSUME pods' \in [Pods -> Pod], ran' = [p \in Pods |-> Ran(pods'[p], ran[p])],
         NEW p \in Pods, NEW i \in DOMAIN pods'[p].images
  PROVE  ran'[p][i] = IF pods'[p].images[i] = PauseImage THEN ran[p][i] ELSE pods'[p].images[i]
<1>1. i \in Slots
  BY ImageListsDomain DEF Pod
<1> QED
  BY <1>1 DEF Ran, Running

\* A step that changes no container and stores no export keeps the invariant, if
\* what it puts into the templates and what it reads of them is not stopped but
\* by an export.
LEMMA SameContainers ==
  ASSUME ExportInv, CoreInv(AnyTemplate)', UNCHANGED exp,
         ran' = [p \in Pods |-> Ran(pods'[p], ran[p])],
         \A p \in Pods : /\ pods'[p].images = pods[p].images
                         /\ pods'[p].paused = pods[p].paused
                         /\ pods'[p].managedBy = pods[p].managedBy,
         PausedTemplates', PausedReads'
  PROVE  ExportInv'
<1>1. pods' \in [Pods -> Pod]
  BY DEF CoreInv, TypesOK
<1>2. \A rc, i : ExportedStopped(rc, i)' <=> ExportedStopped(rc, i)
  BY DEF ExportedStopped
<1>3. FormsOK'
  BY DEF ExportInv, FormsOK
<1>4. HistoryOK'
  BY <1>1, RanStep, Zenon DEF HistoryOK, Running
<1>5. StartsWhatRan'
  <2> SUFFICES ASSUME NEW p \in Pods, NEW i \in DOMAIN pods'[p].images,
                      pods'[p].images[i] = PauseImage
               PROVE  pods'[p].paused[i] = ran'[p][i]
                        \/ ExportedStopped(pods'[p].managedBy, i)
    BY Zenon DEF StartsWhatRan, Stopped, StoppedIn, ExportedStopped
  <2>1. ran'[p][i] = ran[p][i]
    BY <1>1, RanStep
  <2> QED
    BY <1>2, <2>1, Zenon DEF ExportInv, StartsWhatRan, Stopped, StoppedIn
<1> QED
  BY <1>3, <1>4, <1>5 DEF ExportInv

\* At first nothing has been exported and nothing is stopped.
LEMMA InitExport ==
  ASSUME OnlyExports, ExportInit
  PROVE  ExportInv
<1>1. Init
  BY DEF ExportInit
<1>2. Templates \subseteq AnyTemplate
  BY TemplatesAssumption DEF AnyTemplate, AnyImage
<1>3. CoreInv(AnyTemplate)
  BY <1>1, <1>2, InitCore
<1>4. FormsOK
  BY DEF ExportInit, NewExport, FormsOK
<1>5. HistoryOK
  <2> SUFFICES ASSUME NEW p \in Pods, NEW i \in Running(pods[p])
               PROVE  ran[p][i] = pods[p].images[i]
    BY DEF HistoryOK
  <2>1. i \in Slots
    BY <1>3, ImageListsDomain DEF Running, CoreInv, TypesOK, Pod
  <2> QED
    BY <2>1 DEF ExportInit, Ran
<1>6. PausedTemplates
  BY <1>1, ImageListsDomain, ConstantsAssumption DEF OnlyExports, Init, PausedTemplates
<1>7. PausedReads
  BY <1>1 DEF Init, NewRequest, PausedReads
<1>8. StartsWhatRan
  <2> SUFFICES ASSUME NEW p \in Pods PROVE Stopped(p) = {}
    BY Zenon DEF StartsWhatRan
  <2>1. pods[p].images \in ImageLists(Image)
    BY <1>1, Zenon DEF OnlyExports, Init
  <2> QED
    BY <2>1, ImageListsDomain, ConstantsAssumption DEF Stopped, StoppedIn
<1> QED
  BY <1>3, <1>4, <1>5, <1>6, <1>7, <1>8 DEF ExportInv

\* A step that leaves the API server alone.
LEMMA LocalExport ==
  ASSUME ExportInv, NEW r \in Requests, NEW q, LocalStep(AnyTemplate, r, q), UNCHANGED exp,
         ran' = [p \in Pods |-> Ran(pods'[p], ran[p])]
  PROVE  ExportInv'
<1>1. CoreInv(AnyTemplate)'
  BY LocalCore, Zenon DEF ExportInv
<1>2. /\ UNCHANGED <<pods, rcs>> /\ req'[r] = q
      /\ \A s \in Requests \ {r} : req'[s] = req[s]
      /\ q.pc = "update" /\ q.op = "syncPod" =>
           q.read.managedBy \in RCs /\ q.template = rcs[q.read.managedBy]
  BY Zenon DEF LocalStep, ExportInv, CoreInv, TypesOK
<1>3. \A rc, i : ExportedStopped(rc, i)' <=> ExportedStopped(rc, i)
  BY Zenon DEF ExportedStopped
<1>4. PausedTemplates'
  BY <1>2, <1>3, Zenon DEF ExportInv, PausedTemplates
<1>5. PausedReads'
  <2> SUFFICES ASSUME NEW s \in Requests, req'[s].pc = "update", req'[s].op = "syncPod",
                      NEW i \in DOMAIN req'[s].template, req'[s].template[i] = PauseImage
               PROVE  ExportedStopped(req'[s].read.managedBy, i)
    BY Zenon DEF PausedReads, ExportedStopped
  <2>1. CASE s = r
    BY <1>2, <1>3, <2>1, Zenon DEF ExportInv, PausedTemplates
  <2>2. CASE s # r
    BY <1>2, <1>3, <2>2 DEF ExportInv, PausedReads
  <2> QED
    BY <2>1, <2>2, Zenon
<1> QED
  BY <1>1, <1>2, <1>4, <1>5, SameContainers

\* A stored Update of pod c: a container is left stopped with the image it ran
\* in its annotation, or it comes from a template that somebody exported.
LEMMA StoredExport ==
  ASSUME ExportInv, NEW r \in Requests, NEW n, NEW a, StoredStep(AnyTemplate, r, n, a),
         req[r].pc = "update", ~Panics(req[r]), UNCHANGED exp,
         ran' = [p \in Pods |-> Ran(pods'[p], ran[p])]
  PROVE  ExportInv'
<1> DEFINE c == Current(r)
           q == req[r]
           w == Written(req[r])
<1>1. CoreInv(AnyTemplate)' /\ pods' \in [Pods -> Pod]
  BY StoredCore DEF ExportInv, CoreInv, TypesOK
<1>2. /\ c \in Pods /\ q.read = pods[c] /\ q.read \in Pod /\ q.op # "none" /\ ~Panics(q)
      /\ q \in RequestOf(AnyTemplate)
  BY Zenon DEF StoredStep, ExportInv, CoreInv, TypesOK, Requests_OK, RequestOK, Serving, Holding
<1>3. /\ pods'[c].images = w.images /\ pods'[c].paused = w.paused
      /\ pods'[c].managedBy = pods[c].managedBy
      /\ \A p \in Pods \ {c} : pods'[p] = pods[p]
      /\ rcs' = rcs
  BY Zenon DEF StoredStep, ExportInv, CoreInv, TypesOK
<1>4. /\ ~Holding(req'[r])
      /\ \A s \in Requests \ {r} : req'[s] = req[s]
  BY Zenon DEF StoredStep, ExportInv, CoreInv, TypesOK
<1>5. \A rc, i : ExportedStopped(rc, i)' <=> ExportedStopped(rc, i)
  BY Zenon DEF ExportedStopped
<1> HIDE DEF c, q, w
<1>6. FormsOK'
  BY Zenon DEF ExportInv, FormsOK
<1>7. HistoryOK'
  BY <1>1, RanStep, Zenon DEF HistoryOK, Running
<1>8. PausedTemplates'
  BY <1>3, <1>5, Zenon DEF ExportInv, PausedTemplates
<1>9. PausedReads'
  BY <1>4, <1>5, Zenon DEF ExportInv, PausedReads, Holding
<1>10. StartsWhatRan'
  <2> SUFFICES ASSUME NEW p \in Pods, NEW i \in DOMAIN pods'[p].images,
                      pods'[p].images[i] = PauseImage
               PROVE  pods'[p].paused[i] = ran'[p][i]
                        \/ ExportedStopped(pods'[p].managedBy, i)
    BY Zenon DEF StartsWhatRan, Stopped, StoppedIn, ExportedStopped
  <2>1. ran'[p][i] = ran[p][i]
    BY <1>1, RanStep, Zenon
  <2>2. CASE p # c
    BY <1>3, <1>5, <2>1, <2>2, Zenon DEF ExportInv, StartsWhatRan, Stopped, StoppedIn
  <2>3. CASE p = c
    <3>1. i \in DOMAIN w.images /\ w.images[i] = PauseImage
      BY <1>3, <2>3
    <3>2. \/ q.op = "syncPod" /\ i \in DOMAIN q.template /\ q.template[i] = PauseImage
          \/ /\ i \in DOMAIN q.read.images /\ q.read.images[i] # PauseImage
             /\ w.paused[i] = q.read.images[i]
          \/ /\ i \in DOMAIN q.read.images /\ q.read.images[i] = PauseImage
             /\ w.paused[i] = q.read.paused[i]
      BY <1>2, <3>1, WrittenStopped, Zenon DEF w, q
    <3>3. CASE q.op = "syncPod" /\ i \in DOMAIN q.template /\ q.template[i] = PauseImage
      <4>1. ExportedStopped(q.read.managedBy, i)
        BY <3>3, Zenon DEF ExportInv, PausedReads, q
      <4> QED
        BY <1>2, <1>3, <1>5, <2>3, <4>1, Zenon
    <3>4. CASE /\ i \in DOMAIN q.read.images /\ q.read.images[i] # PauseImage
               /\ w.paused[i] = q.read.images[i]
      <4>1. ran[c][i] = pods[c].images[i]
        BY <1>2, <3>4, Zenon DEF ExportInv, HistoryOK, Running
      <4> QED
        BY <1>2, <1>3, <2>1, <2>3, <3>4, <4>1, Zenon
    <3>5. CASE /\ i \in DOMAIN q.read.images /\ q.read.images[i] = PauseImage
               /\ w.paused[i] = q.read.paused[i]
      <4>1. pods[c].paused[i] = ran[c][i] \/ ExportedStopped(pods[c].managedBy, i)
        BY <1>2, <3>5, Zenon DEF ExportInv, StartsWhatRan, Stopped, StoppedIn
      <4> QED
        BY <1>2, <1>3, <1>5, <2>1, <2>3, <3>5, <4>1, Zenon
    <3> QED
      BY <3>2, <3>3, <3>4, <3>5, ZenonT(30)
  <2> QED
    BY <2>2, <2>3, Zenon
<1> QED
  BY <1>1, <1>6, <1>7, <1>8, <1>9, <1>10, ZenonT(30) DEF ExportInv

\* The other clients of the API server.
LEMMA EnvironmentExport ==
  ASSUME OnlyExports, ExportInv, (\E p \in Pods : StatusUpdate(p)) \/ (\E rc \in RCs : EditTemplate(rc)),
         UNCHANGED exp, ran' = [p \in Pods |-> Ran(pods'[p], ran[p])]
  PROVE  ExportInv'
<1>1. \A rc, i : ExportedStopped(rc, i)' <=> ExportedStopped(rc, i)
  BY DEF ExportedStopped
<1>2. req' = req
  BY DEF StatusUpdate, EditTemplate
<1>3. PausedReads'
  BY <1>1, <1>2 DEF ExportInv, PausedReads
<1>4. CASE \E p \in Pods : StatusUpdate(p)
  <2>1. CoreInv(AnyTemplate)'
    BY <1>4, StatusCore DEF ExportInv
  <2>2. /\ \A p \in Pods : /\ pods'[p].images = pods[p].images
                           /\ pods'[p].paused = pods[p].paused
                           /\ pods'[p].managedBy = pods[p].managedBy
        /\ rcs' = rcs
    BY <1>4 DEF StatusUpdate, ExportInv, CoreInv, TypesOK, Pod
  <2>3. PausedTemplates'
    BY <1>1, <2>2, Zenon DEF ExportInv, PausedTemplates
  <2> QED
    BY <1>3, <2>1, <2>2, <2>3, SameContainers
<1>5. ASSUME NEW rc \in RCs, EditTemplate(rc) PROVE ExportInv'
  <2>1. PICK t \in Templates : rcs' = [rcs EXCEPT ![rc] = t]
    BY <1>5, Zenon DEF EditTemplate
  <2>2. t \in ImageLists(Image) /\ t \in AnyTemplate
    BY TemplatesAssumption DEF OnlyExports, AnyTemplate, AnyImage
  <2>3. rcs \in [RCs -> AnyTemplate] /\ UNCHANGED <<pods, version, req, stopper>>
    BY <1>5, Zenon DEF EditTemplate, ExportInv, CoreInv, TypesOK
  <2>4. CoreInv(AnyTemplate)'
    BY <2>1, <2>2, <2>3, TemplateCore DEF ExportInv
  <2>5. \A i \in DOMAIN t : t[i] # PauseImage
    BY <2>2, ImageListsDomain, ConstantsAssumption, Zenon
  <2>6. PausedTemplates'
    BY <1>1, <2>1, <2>3, <2>5 DEF ExportInv, PausedTemplates
  <2> QED
    BY <1>3, <2>3, <2>4, <2>6, SameContainers
<1> QED
  BY <1>4, <1>5

\* The pod editor: a form that has become a template stays on record.
LEMMA FormExport ==
  ASSUME ExportInv, NEW x \in Exports,
         editPod(x) \/ updateReplicationControllerWithPod(x) \/ ExportRefused(x)
  PROVE  ExportInv'
<1> DEFINE Form == [pc        : {"new", "open", "stored"},
                    images    : AnyTemplate \union {<<>>},
                    managedBy : RCs \union {NoRC}]
<1>1. /\ exp \in [Exports -> Form] /\ pods \in [Pods -> Pod] /\ rcs \in [RCs -> AnyTemplate]
      /\ exp[x].pc = "open" => exp[x].images \in AnyTemplate
  BY DEF ExportInv, FormsOK, CoreInv, TypesOK
<1>2. UNCHANGED <<pods, version, req, stopper, ran>>
  BY DEF editPod, updateReplicationControllerWithPod, ExportRefused
<1>3. ASSUME NEW e \in Form, exp' = [exp EXCEPT ![x] = e], exp[x].pc # "stored",
             e.pc = "open" => e.images \in AnyTemplate,
             rcs' \in [RCs -> AnyTemplate],
             \A rc \in RCs : \A i \in DOMAIN rcs'[rc] :
               rcs'[rc][i] = PauseImage => ExportedStopped(rc, i)'
      PROVE  ExportInv'
  <2>1. exp'[x] = e /\ \A y \in Exports \ {x} : exp'[y] = exp[y]
    BY <1>1, <1>3, Zenon
  <2>2. \A rc, i : ExportedStopped(rc, i) => ExportedStopped(rc, i)'
    BY <1>3, <2>1 DEF ExportedStopped
  <2>3. CoreInv(AnyTemplate)'
    BY <1>2, <1>3, TemplateCore, Zenon DEF ExportInv
  <2>4. FormsOK'
    BY <1>1, <1>3, <2>1 DEF ExportInv, FormsOK
  <2>5. HistoryOK'
    BY <1>2 DEF ExportInv, HistoryOK
  <2>6. PausedTemplates'
    BY <1>3, Zenon DEF PausedTemplates
  <2>7. PausedReads'
    BY <1>2, <2>2, Zenon DEF ExportInv, PausedReads
  <2>8. StartsWhatRan'
    BY <1>2, <2>2 DEF ExportInv, StartsWhatRan, Stopped
  <2> QED
    BY <2>3, <2>4, <2>5, <2>6, <2>7, <2>8 DEF ExportInv
<1>4. CASE editPod(x)
  <2>1. PICK p \in Pods :
          exp' = [exp EXCEPT ![x] = [pc |-> "open", images |-> pods[p].images,
                                     managedBy |-> pods[p].managedBy]]
    BY <1>4, Zenon DEF editPod
  <2>2. pods[p].images \in AnyTemplate /\ pods[p].managedBy \in RCs \union {NoRC}
    BY <1>1, Zenon DEF Pod, AnyTemplate, AnyImage
  <2>3. PICK e : e = [pc |-> "open", images |-> pods[p].images, managedBy |-> pods[p].managedBy]
    BY Zenon
  <2>4. e \in Form /\ e.images \in AnyTemplate /\ exp' = [exp EXCEPT ![x] = e]
    BY <2>1, <2>2, <2>3, Zenon
  <2>5. exp[x].pc = "new" /\ rcs' = rcs
    BY <1>4, Zenon DEF editPod
  <2>6. \A rc, i : ExportedStopped(rc, i) => ExportedStopped(rc, i)'
    BY <1>1, <2>4, <2>5, Zenon DEF ExportedStopped
  <2>7. \A rc \in RCs : \A i \in DOMAIN rcs'[rc] :
          rcs'[rc][i] = PauseImage => ExportedStopped(rc, i)'
    BY <2>5, <2>6 DEF ExportInv, PausedTemplates
  <2> QED
    BY <1>1, <1>3, <2>4, <2>5, <2>7, Zenon
<1>5. CASE updateReplicationControllerWithPod(x)
  <2>1. /\ exp[x].pc = "open" /\ exp[x].managedBy \in RCs
        /\ rcs' = [rcs EXCEPT ![exp[x].managedBy] = exp[x].images]
    BY <1>1, <1>5 DEF updateReplicationControllerWithPod
  <2>2. PICK e : e = [exp[x] EXCEPT !.pc = "stored"]
    BY Zenon
  <2>3. /\ e \in Form /\ e.pc = "stored" /\ e.images = exp[x].images
        /\ e.managedBy = exp[x].managedBy
    BY <1>1, <2>2
  <2>4. exp' = [exp EXCEPT ![x] = e]
    BY <1>1, <1>5, <2>2 DEF updateReplicationControllerWithPod
  <2>5. exp'[x] = e /\ \A y \in Exports \ {x} : exp'[y] = exp[y]
    BY <1>1, <2>4, Zenon
  <2>6. \A rc, i : ExportedStopped(rc, i) => ExportedStopped(rc, i)'
    BY <2>1, <2>5 DEF ExportedStopped
  <2>7. rcs' \in [RCs -> AnyTemplate]
    BY <1>1, <2>1, Zenon
  <2>8. ASSUME NEW rc \in RCs, NEW i \in DOMAIN rcs'[rc], rcs'[rc][i] = PauseImage
        PROVE  ExportedStopped(rc, i)'
    <3>1. CASE rc = exp[x].managedBy
      <4>1. rcs'[rc] = e.images /\ e.managedBy = rc
        BY <1>1, <2>1, <2>3, <3>1, Zenon
      <4> QED
        BY <2>3, <2>5, <2>8, <4>1, Zenon DEF ExportedStopped
    <3>2. CASE rc # exp[x].managedBy
      <4>1. rcs'[rc] = rcs[rc]
        BY <1>1, <2>1, <3>2
      <4> QED
        BY <2>6, <2>8, <4>1 DEF ExportInv, PausedTemplates
    <3> QED
      BY <3>1, <3>2, Zenon
  <2> QED
    BY <1>3, <2>1, <2>3, <2>4, <2>7, <2>8, Zenon
<1>6. CASE ExportRefused(x)
  <2>1. exp[x].pc = "open" /\ exp' = [exp EXCEPT ![x] = NewExport] /\ rcs' = rcs
    BY <1>6 DEF ExportRefused
  <2>2. NewExport \in Form /\ NewExport.pc = "new"
    BY DEF NewExport
  <2>3. \A rc, i : ExportedStopped(rc, i) => ExportedStopped(rc, i)'
    BY <1>1, <2>1, Zenon DEF ExportedStopped
  <2>4. \A rc \in RCs : \A i \in DOMAIN rcs'[rc] :
          rcs'[rc][i] = PauseImage => ExportedStopped(rc, i)'
    BY <2>1, <2>3 DEF ExportInv, PausedTemplates
  <2> QED
    BY <1>1, <1>3, <2>1, <2>2, <2>4, Zenon
<1> QED
  BY <1>4, <1>5, <1>6

\* Every step of the console with its export button keeps the invariant.
LEMMA NextExport ==
  ASSUME OnlyExports, ExportInv, [ExportNext]_allVars
  PROVE  ExportInv'
<1>1. CASE UNCHANGED allVars
  <2>1. UNCHANGED <<pods, rcs, version, req, stopper, exp, ran>>
    BY <1>1 DEF allVars
  <2>2. CoreInv(AnyTemplate)'
    BY <2>1, TemplateCore, Zenon DEF ExportInv, CoreInv, TypesOK
  <2>3. FormsOK' /\ HistoryOK'
    BY <2>1 DEF ExportInv, FormsOK, HistoryOK
  <2>4. \A rc, i : ExportedStopped(rc, i)' <=> ExportedStopped(rc, i)
    BY <2>1, Zenon DEF ExportedStopped
  <2>5. PausedTemplates' /\ PausedReads' /\ StartsWhatRan'
    BY <2>1, <2>4, Zenon DEF ExportInv, PausedTemplates, PausedReads, StartsWhatRan, Stopped
  <2> QED
    BY <2>2, <2>3, <2>5 DEF ExportInv
<1>2. CASE Next /\ ran' = [p \in Pods |-> Ran(pods'[p], ran[p])] /\ UNCHANGED exp
  <2>1. ASSUME NEW r \in Requests, Arrive(r) PROVE ExportInv'
    BY <1>2, <2>1, ArriveLocal, LocalExport, Zenon DEF ExportInv
  <2>2. ASSUME NEW r \in Requests, UpdateStored(r) PROVE ExportInv'
    <3>1. PICK n, a : StoredStep(AnyTemplate, r, n, a)
      BY <2>2, UpdateStoredStep, ZenonT(30) DEF ExportInv, AnyTemplate
    <3> QED
      BY <1>2, <2>2, <3>1, StoredExport DEF UpdateStored
  <2>3. ASSUME NEW r \in Requests, Handle(r), ~UpdateStored(r) PROVE ExportInv'
    BY <1>2, <2>3, HandleLocal, LocalExport DEF ExportInv, Handle
  <2>4. CASE (\E p \in Pods : StatusUpdate(p)) \/ (\E rc \in RCs : EditTemplate(rc))
    BY <1>2, <2>4, EnvironmentExport
  <2> QED
    BY <1>2, <2>1, <2>2, <2>3, <2>4 DEF Next
<1>3. ASSUME NEW x \in Exports,
             editPod(x) \/ updateReplicationControllerWithPod(x) \/ ExportRefused(x)
      PROVE  ExportInv'
  BY <1>3, FormExport
<1> QED
  BY <1>1, <1>2, <1>3 DEF ExportNext

(***************************************************************************)
(* Whatever is stopped, started, upgraded, synced and exported, and by     *)
(* whomever at the same time: startPod brings back the image that the      *)
(* container ran last, unless the container was stopped in a pod spec that *)
(* updateReplicationControllerWithPod made the template of the pod's       *)
(* controller. The premise is that nobody writes PauseImage into a         *)
(* template by hand.                                                       *)
(***************************************************************************)
THEOREM StartBringsBack ==
  ASSUME OnlyExports
  PROVE  ExportSpec => []StartsWhatRan
<1>1. ExportInv => StartsWhatRan
  BY DEF ExportInv
<1>2. ExportInit => ExportInv
  BY InitExport
<1>3. ExportInv /\ [ExportNext]_allVars => ExportInv'
  BY NextExport
<1> QED
  BY <1>1, <1>2, <1>3, PTL DEF ExportSpec
-----------------------------------------------------------------------------
\* What PodActions proves of the stopped containers, with the exports.
ComposedInv == PodInv(AnyTemplate) /\ FormsOK

\* An export only puts what a form holds into a template.
LEMMA FormComposed ==
  ASSUME ComposedInv, NEW x \in Exports,
         editPod(x) \/ updateReplicationControllerWithPod(x) \/ ExportRefused(x)
  PROVE  ComposedInv'
<1> DEFINE Form == [pc        : {"new", "open", "stored"},
                    images    : AnyTemplate \union {<<>>},
                    managedBy : RCs \union {NoRC}]
<1>1. /\ exp \in [Exports -> Form] /\ pods \in [Pods -> Pod] /\ rcs \in [RCs -> AnyTemplate]
      /\ \A y \in Exports : exp[y].pc = "open" => exp[y].images \in AnyTemplate
  BY DEF ComposedInv, FormsOK, PodInv, CoreInv, TypesOK
<1>2. UNCHANGED <<pods, version, req, stopper>>
  BY DEF editPod, updateReplicationControllerWithPod, ExportRefused
<1>3. rcs' \in [RCs -> AnyTemplate]
  BY <1>1 DEF editPod, updateReplicationControllerWithPod, ExportRefused
<1>4. PodInv(AnyTemplate)'
  BY <1>2, <1>3, TemplateCore, SamePodInv DEF ComposedInv, PodInv
<1>5. PICK e \in Form : exp' = [exp EXCEPT ![x] = e] /\ (e.pc = "open" => e.images \in AnyTemplate)
  <2>1. CASE editPod(x)
    <3>1. PICK p \in Pods :
            exp' = [exp EXCEPT ![x] = [pc |-> "open", images |-> pods[p].images,
                                       managedBy |-> pods[p].managedBy]]
      BY <2>1, Zenon DEF editPod
    <3>2. pods[p].images \in AnyTemplate /\ pods[p].managedBy \in RCs \union {NoRC}
      BY <1>1, Zenon DEF Pod, AnyTemplate, AnyImage
    <3>3. PICK e : e = [pc |-> "open", images |-> pods[p].images, managedBy |-> pods[p].managedBy]
      BY Zenon
    <3>4. e \in Form /\ e.images \in AnyTemplate /\ exp' = [exp EXCEPT ![x] = e]
      BY <3>1, <3>2, <3>3, Zenon
    <3> QED
      BY <3>4, Zenon
  <2>2. CASE updateReplicationControllerWithPod(x)
    <3>1. exp' = [exp EXCEPT ![x] = [exp[x] EXCEPT !.pc = "stored"]]
      BY <1>1, <2>2 DEF updateReplicationControllerWithPod
    <3>2. [exp[x] EXCEPT !.pc = "stored"] \in Form /\ [exp[x] EXCEPT !.pc = "stored"].pc = "stored"
      BY <1>1
    <3> QED
      BY <3>1, <3>2, Zenon
  <2>3. CASE ExportRefused(x)
    <3>1. NewExport \in Form /\ NewExport.pc = "new"
      BY DEF NewExport
    <3> QED
      BY <2>3, <3>1, Zenon DEF ExportRefused
  <2> QED
    BY <2>1, <2>2, <2>3
<1>6. FormsOK'
  <2>1. exp' \in [Exports -> Form] /\ exp'[x] = e /\ \A y \in Exports \ {x} : exp'[y] = exp[y]
    BY <1>1, <1>5, Zenon
  <2> QED
    BY <1>1, <1>5, <2>1, Zenon DEF FormsOK
<1> QED
  BY <1>4, <1>6 DEF ComposedInv

(***************************************************************************)
(* Exports do not change that, whatever templates other people write: with *)
(* updateReplicationControllerWithPod putting stopped containers into the  *)
(* templates that syncPod reads, what stopPod stopped still has its image  *)
(* in its annotation, and the request that stopped it accounts for it.     *)
(***************************************************************************)
THEOREM ExportsKeepStops == ExportSpec => [](SavedImages /\ NoSilentStop)
<1>1. Templates \subseteq AnyTemplate
  BY TemplatesAssumption DEF AnyTemplate, AnyImage
<1>2. ExportInit => ComposedInv
  BY <1>1, InitPodInv DEF ExportInit, NewExport, FormsOK, ComposedInv
<1>3. ComposedInv /\ [ExportNext]_allVars => ComposedInv'
  <2> SUFFICES ASSUME ComposedInv, [ExportNext]_allVars PROVE ComposedInv'
    OBVIOUS
  <2>1. CASE UNCHANGED allVars \/ (Next /\ UNCHANGED exp)
    <3>1. [Next]_vars /\ UNCHANGED exp
      BY <2>1 DEF allVars, vars
    <3>2. PodInv(AnyTemplate)'
      BY <1>1, <3>1, NextPodInv DEF ComposedInv
    <3> QED
      BY <3>1, <3>2 DEF ComposedInv, FormsOK
  <2>2. ASSUME NEW x \in Exports,
               editPod(x) \/ updateReplicationControllerWithPod(x) \/ ExportRefused(x)
        PROVE  ComposedInv'
    BY <2>2, FormComposed
  <2> QED
    BY <2>1, <2>2 DEF ExportNext
<1>4. ComposedInv => SavedImages /\ NoSilentStop
  BY DEF ComposedInv, PodInv
<1> QED
  BY <1>2, <1>3, <1>4, PTL DEF ExportSpec
=============================================================================
