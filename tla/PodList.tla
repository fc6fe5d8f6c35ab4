------------------------------- MODULE PodList ------------------------------
(***************************************************************************)
(* The pod list page as one user walks through it: the list with its       *)
(* filters and its order (main.go, listPodsInNamespace, genOnePod;         *)
(* pkg/page/algorithm.go; pages/podList.html), the form for the selected   *)
(* pods (showPodsForm, pages/podForm.html), the action, and the redirect   *)
(* back to the list (performPodsAction). Other users and the kubelets      *)
(* change the pods at any time in between.                                 *)
(*                                                                         *)
(* How an action reads and writes a pod is in PodActions; here it leaves   *)
(* other images in the pod, or fails.                                      *)
(***************************************************************************)
EXTENDS Naturals, FiniteSetsExt, SequencesExt

CONSTANTS
  Pods,       \* the names of the pods, which are numbers and so ordered
  Labelled,   \* the pods that a label selector finds; no action changes labels
  Hosts,      \* the names of the nodes
  NoHost,     \* "": the node of a pod that has none
  Names,      \* the names of images, without registry and tag
  Tags,       \* the tags
  PauseImage, \* the image of a stopped container
  Lists,      \* the images that pods may list, one per container
  Reports,    \* what kubelets may report of a pod in the meantime
  First,      \* the pods that the namespace may have at first
  Blank,      \* "": a query that filters nothing, and a blank choice
  MaxChanges, \* bound on what others do to the pods
  MaxClicks   \* bound on what the user does

VARIABLES
  pods,     \* the pods of the namespace
  browser,  \* what the user's browser shows
  changes,  \* the number of changes by others so far
  clicks    \* the number of links and buttons that the user has clicked

vars == <<pods, browser, changes, clicks>>

Click == clicks < MaxClicks /\ clicks' = clicks + 1
-----------------------------------------------------------------------------
\* An image as the page shows it: the registry's prefix is cut off.
PodImage == [name : Names, tag : Tags, private : BOOLEAN] \union {PauseImage}

(***************************************************************************)
(* What a kubelet reports: the phase, whether the Ready condition is True  *)
(* (or absent, which the page treats alike), a reason, and of each         *)
(* container its state ("starting" is waiting without a reason), whether   *)
(* it runs PauseImage, and when it was started.                            *)
(***************************************************************************)
Report == [phase      : {"Pending", "Running", "Succeeded", "Failed"},
           ready      : BOOLEAN,
           reason     : {"", "Evicted"},
           containers : Seq([state   : {"waiting", "starting", "terminated", "ready", "unready"},
                             paused  : BOOLEAN,
                             started : Nat \ {0}])]

Pod == [images : Seq(PodImage), report : Report, host : Hosts \union {NoHost}, deleting : BOOLEAN]

ASSUME ConstantsAssumption ==
  /\ Pods \subseteq Nat /\ IsFiniteSet(Pods) /\ Labelled \subseteq Pods
  /\ MaxChanges \in Nat /\ MaxClicks \in Nat
  /\ NoHost \notin Hosts
  /\ Lists \subseteq Seq(PodImage)
  /\ Reports \subseteq Report
  /\ \A start \in First : DOMAIN start \subseteq Pods /\ \A p \in DOMAIN start : start[p] \in Pod

Ready(c) == c.state = "ready"

\* What a container makes of the status so far.
Tell(c, reason) ==
  CASE c.state \in {"waiting", "terminated"} -> c.state
    [] Ready(c) /\ c.paused -> "Stopped"
    [] OTHER -> reason

\* The statuses that the page can show.
Status == {"Terminating", "waiting", "terminated", "Stopped", "NotReady", "Evicted",
           "Pending", "Running", "Succeeded", "Failed"}

OwnStatus(report) ==
  IF report.reason # "" THEN report.reason ELSE IF report.ready THEN report.phase ELSE "NotReady"

\* Mutant: the containers are gone through from the first to the last.
PodStatus_LastTells(pod) ==
  IF pod.deleting THEN "Terminating"
  ELSE FoldLeft(LAMBDA reason, c : Tell(c, reason), OwnStatus(pod.report), pod.report.containers)

\* The containers are gone through from the last to the first.
PodStatus(pod) ==
  IF pod.deleting THEN "Terminating"
  ELSE FoldRight(Tell, pod.report.containers, OwnStatus(pod.report))

\* A row of the list; a pod without a running container has the zero birth.
genOnePod(p) ==
  LET cs == pods[p].report.containers
      ready == {i \in DOMAIN cs : Ready(cs[i])}
  IN  [name   |-> p,
       images |-> pods[p].images,
       status |-> PodStatus(pods[p]),
       ready  |-> Cardinality(ready),
       total  |-> Len(pods[p].images),
       host   |-> pods[p].host,
       birth  |-> Max({cs[i].started : i \in ready} \union {0})]
-----------------------------------------------------------------------------
Query == [selector : BOOLEAN,
          image    : [name : Names, tag : Tags] \union {Blank},
          status   : Status \union {Blank},
          host     : Hosts \union {Blank},
          sort     : {"ByName", "ByBirth"}]

AllPods(selector) == [selector |-> selector, image |-> Blank, status |-> Blank, host |-> Blank,
                      sort |-> "ByBirth"]

\* Mutant: the image asked for is one of Docker Hub.
FilterPodsByImage_Hub(rows, image) ==
  {r \in rows : [name |-> image.name, tag |-> image.tag, private |-> FALSE] \in ToSet(r.images)}

\* The image asked for is one of the private registry.
FilterPodsByImage(rows, image) ==
  {r \in rows : [name |-> image.name, tag |-> image.tag, private |-> TRUE] \in ToSet(r.images)}

FilterPodsByStatus(rows, status) == {r \in rows : r.status = status}

FilterPodsByHost(rows, host) == {r \in rows : r.host = host}

Filtered(rows, q) ==
  LET byImage == IF q.image = Blank THEN rows ELSE FilterPodsByImage(rows, q.image)
      byStatus == IF q.status = Blank THEN byImage ELSE FilterPodsByStatus(byImage, q.status)
  IN  IF q.host = Blank THEN byStatus ELSE FilterPodsByHost(byStatus, q.host)

\* The orders that sort.Sort, which is not stable, can put the rows in.
Sorted(rows, sort) ==
  {s \in SetToSeqs(rows) :
     \A i, j \in DOMAIN s : i < j =>
       IF sort = "ByName" THEN s[i].name < s[j].name ELSE s[i].birth >= s[j].birth}

\* The choices of the three filters, taken from all the pods that were listed.
\* The page offers the images of the private registry only.
GetPodsFilters(rows) ==
  [images   |-> {[name |-> m.name, tag |-> m.tag] :
                   m \in {m \in UNION {ToSet(r.images) : r \in rows} : m # PauseImage /\ m.private}},
   statuses |-> {r.status : r \in rows},
   hosts    |-> {r.host : r \in rows}]

(***************************************************************************)
(* What the browser shows: nothing yet or an error ("away"), the list, the *)
(* form of an action, or a redirect that it is about to follow. acted is   *)
(* the set of pods of the action that a redirect comes from (history), and *)
(* listed all the pods that the list was made from (history).              *)
(***************************************************************************)
Away == [at |-> "away", query |-> AllPods(FALSE), rows |-> <<>>, listed |-> {},
         choices |-> GetPodsFilters({}), action |-> "none", selected |-> <<>>, acted |-> {}]

Init ==
  /\ pods \in First
  /\ browser = Away
  /\ changes = 0
  /\ clicks = 0

Exists(p) == p \in DOMAIN pods

\* The list for query q, made from the pods as they are now.
listPodsInNamespace(q, acted) ==
  LET rows == {genOnePod(p) : p \in {p \in DOMAIN pods : q.selector => p \in Labelled}}
  IN  /\ \E s \in Sorted(Filtered(rows, q), q.sort) :
           browser' = [Away EXCEPT !.at = "list", !.query = q, !.rows = s, !.listed = rows,
                                   !.choices = GetPodsFilters(rows), !.acted = acted]
      /\ UNCHANGED <<pods, changes>>

\* A link to all the pods, or to those of a controller or a service.
OpenList ==
  /\ Click
  /\ browser.at = "away"
  /\ \E selector \in BOOLEAN : listPodsInNamespace(AllPods(selector), {})

\* One filter or the order is changed and the others are kept; or the page
\* refreshes itself.
ChangeQuery ==
  /\ Click
  /\ browser.at = "list"
  /\ \E q \in {browser.query}
           \union {[browser.query EXCEPT !.image = m] : m \in browser.choices.images \union {Blank}}
           \union {[browser.query EXCEPT !.status = s] : s \in browser.choices.statuses \union {Blank}}
           \union {[browser.query EXCEPT !.host = IF h = NoHost THEN Blank ELSE h] :
                     h \in browser.choices.hosts \union {Blank}}
           \union {[browser.query EXCEPT !.sort = o] : o \in {"ByName", "ByBirth"}} :
       listPodsInNamespace(q, {})

FollowRedirect ==
  /\ browser.at = "redirect"
  /\ listPodsInNamespace(browser.query, browser.acted)
  /\ UNCHANGED clicks

\* The pods can not be listed, the selector does not parse, or the action of the
\* form fails for all the pods.
ErrorPage ==
  /\ browser.at # "away"
  /\ browser' = Away
  /\ UNCHANGED <<pods, changes, clicks>>

\* Mutant: the buttons are enabled without a selection.
showPodsForm_Empty ==
  /\ Click
  /\ browser.at = "list"
  /\ browser' = [browser EXCEPT !.at = "form", !.action = "stop", !.selected = <<>>]
  /\ UNCHANGED <<pods, changes>>

\* The ways to tick some of n rows, which the form then has in their order.
Ticked(n) ==
  {at \in UNION {[1..m -> 1..n] : m \in 1..n} : \A i, j \in DOMAIN at : i < j => at[i] < at[j]}

\* Upgrade and downgrade need an image filter, sync a label selector.
showPodsForm ==
  /\ Click
  /\ browser.at = "list"
  /\ \E at \in Ticked(Len(browser.rows)), action \in {"upgrade", "sync", "stop"} :
       /\ action = "upgrade" => browser.query.image # Blank
       /\ action = "sync" => browser.query.selector
       /\ browser' = [browser EXCEPT !.at = "form", !.action = action, !.acted = {},
                                     !.rows = <<>>, !.listed = {}, !.choices = Away.choices,
                                     !.selected = [i \in DOMAIN at |-> browser.rows[at[i]]]]
  /\ UNCHANGED <<pods, changes>>

\* The images that the form for the selected rows may post: for each of the first
\* two containers of the first pod a blank or another tag of its image.
Posted ==
  LET first == browser.selected[1].images
      n == Min({Len(first), 2})
  IN  {c \in [1..n -> {Blank} \union [name : Names, tag : Tags]] :
         /\ \E i \in 1..n : c[i] # Blank
         /\ \A i \in 1..n : c[i] # Blank => first[i] # PauseImage /\ c[i].name = first[i].name}

\* Mutant: blank choices are left out, so that the others move up.
setPodImage_Compress(images, choice) ==
  LET set == SelectSeq(choice, LAMBDA c : c # Blank)
  IN  [i \in DOMAIN images |->
         IF i \in DOMAIN set THEN [name |-> set[i].name, tag |-> set[i].tag, private |-> TRUE]
                             ELSE images[i]]

setPodImage(images, choice) ==
  [i \in DOMAIN images |->
     IF i \in DOMAIN choice /\ choice[i] # Blank
     THEN [name |-> choice[i].name, tag |-> choice[i].tag, private |-> TRUE]
     ELSE images[i]]

\* setPodImage panics on a choice for a container that the pod does not have, which
\* ends the request: gin's Recovery answers with an error.
Panics(images, choice) == \E i \in DOMAIN choice : choice[i] # Blank /\ i \notin DOMAIN images

Selected == {browser.selected[i].name : i \in DOMAIN browser.selected}

\* The pods that are still there, of the selected ones up to p.
UpTo(p) ==
  {browser.selected[i].name : i \in {k \in DOMAIN browser.selected :
     \E j \in DOMAIN browser.selected : k <= j /\ browser.selected[j].name = p}}
    \intersect DOMAIN pods

\* Mutant: the redirect goes back to the list as it was.
Location_Same(q) == q

\* The filters that the action may have made obsolete are blanked.
Location(q) == [q EXCEPT !.image = Blank, !.status = Blank]

\* The pods in stored have been written when the action ends: all of them, or
\* the errors are shown.
performPodsAction ==
  /\ browser.at = "form"
  /\ \E stored \in (SUBSET (Selected \intersect DOMAIN pods)) \ {{}} :
       /\ IF browser.action = "upgrade"
          THEN \E c \in Posted :
                 /\ \A p \in stored : ~\E q \in UpTo(p) : Panics(pods[q].images, c)
                 /\ pods' = [p \in DOMAIN pods |->
                               IF p \in stored THEN [pods[p] EXCEPT !.images = setPodImage(@, c)]
                                               ELSE pods[p]]
          ELSE \E list \in Lists :
                 pods' = [p \in DOMAIN pods |->
                            IF p \in stored THEN [pods[p] EXCEPT !.images = list] ELSE pods[p]]
       /\ browser' = IF stored = Selected
                     THEN [Away EXCEPT !.at = "redirect", !.acted = stored,
                                       !.query = Location(browser.query)]
                     ELSE Away
  /\ UNCHANGED <<changes, clicks>>

\* External: a kubelet reports, another user changes the images, the scheduler
\* finds a node, or the pod is deleted, first with a deletion time and then for
\* good.
Change(p) ==
  /\ Exists(p) /\ changes < MaxChanges
  /\ changes' = changes + 1
  /\ \/ \E report \in Reports : pods' = [pods EXCEPT ![p].report = report]
     \/ \E list \in Lists : pods' = [pods EXCEPT ![p].images = list]
     \/ /\ pods[p].host = NoHost
        /\ \E h \in Hosts : pods' = [pods EXCEPT ![p].host = h]
     \/ pods' = [pods EXCEPT ![p].deleting = TRUE]
     \/ pods[p].deleting /\ pods' = [q \in DOMAIN pods \ {p} |-> pods[q]]
  /\ UNCHANGED <<browser, clicks>>

Next ==
  \/ OpenList \/ ChangeQuery \/ FollowRedirect \/ ErrorPage
  \/ showPodsForm \/ performPodsAction
  \/ \E p \in Pods : Change(p)

Spec == Init /\ [][Next]_vars
-----------------------------------------------------------------------------
\* The types of the state; a form is never without pods (showPodsForm takes the
\* images of the first one).
TypeOK ==
  /\ DOMAIN pods \subseteq Pods
  /\ \A p \in DOMAIN pods : pods[p] \in Pod
  /\ browser.at \in {"away", "list", "form", "redirect"}
  /\ browser.query \in Query
  /\ browser.at = "form" => browser.selected # <<>>
  /\ changes \in 0..MaxChanges
  /\ clicks \in 0..MaxClicks

Shown == {browser.rows[i].name : i \in DOMAIN browser.rows}

(***************************************************************************)
(* The list that an action leads back to shows every pod it was for that   *)
(* still exists, although the action and the kubelets have changed the     *)
(* images and the status by which the pods had been found                  *)
(* (performPodsAction blanks these two filters and keeps the node and the  *)
(* selector, which no action changes).                                     *)
(***************************************************************************)
RedirectShowsActed ==
  [][FollowRedirect => browser.acted \intersect DOMAIN pods \subseteq Shown']_vars

(***************************************************************************)
(* Every choice that the filters of a list offer finds a pod among those   *)
(* it was made from (GetPodsFilters and FilterPodsBy* agree on the         *)
(* registry's prefix, and genOnePod on the status), except the blank node  *)
(* of pods without one, which filters nothing.                             *)
(***************************************************************************)
ChoicesFind ==
  LET all == AllPods(FALSE)
  IN  /\ \A m \in browser.choices.images : Filtered(browser.listed, [all EXCEPT !.image = m]) # {}
      /\ \A s \in browser.choices.statuses : Filtered(browser.listed, [all EXCEPT !.status = s]) # {}
      /\ \A h \in browser.choices.hosts : Filtered(browser.listed, [all EXCEPT !.host = h]) # {}

\* What became of the images of the selected pods that are as they were listed.
NamesKept ==
  \A i \in DOMAIN browser.selected :
    LET row == browser.selected[i]
        first == browser.selected[1].images
    IN  Exists(row.name) /\ row.images = pods[row.name].images =>
          \A k \in DOMAIN row.images :
            LET old == row.images[k]
                new == pods'[row.name].images[k]
            IN  \/ new = old
                \/ PauseImage \in {old, first[k]}
                \/ first[k].name # old.name
                \/ ~old.private
                \/ new.name = old.name /\ new.private

(***************************************************************************)
(* An upgrade changes the tag of an image and neither its name nor its     *)
(* registry, unless the pod has changed since it was listed, its container *)
(* is stopped or for another image than the same container of the first    *)
(* selected pod, or its image comes from Docker Hub (setPodImage writes by *)
(* position).                                                              *)
(***************************************************************************)
UpgradeKeepsName == [][performPodsAction /\ browser.action = "upgrade" => NamesKept]_vars

\* The reported containers that do not simply run.
Troubled(p) ==
  LET cs == pods[p].report.containers
  IN  {i \in DOMAIN cs : cs[i].state \in {"waiting", "terminated"} \/ (Ready(cs[i]) /\ cs[i].paused)}

(***************************************************************************)
(* The status of a pod tells of its first container that waits, has ended  *)
(* or is stopped, and of the pod only if there is none; so a pod that the  *)
(* list shows as Running has no Ready condition that says otherwise, is    *)
(* not being deleted, and no container of it is reported to be stopped     *)
(* (genOnePod).                                                            *)
(***************************************************************************)
FirstTells ==
  \A p \in DOMAIN pods :
    LET row == genOnePod(p)
        cs == pods[p].report.containers
    IN  /\ ~pods[p].deleting /\ Troubled(p) # {} =>
             row.status = (IF Ready(cs[Min(Troubled(p))]) THEN "Stopped" ELSE cs[Min(Troubled(p))].state)
        /\ row.status = "Running" =>
             pods[p].report.ready /\ ~pods[p].deleting /\ Troubled(p) = {}
=============================================================================
