--------------------------- MODULE TemplateExport ---------------------------
(***************************************************************************)
(* The batch actions together with the export button of the pod editor     *)
(* (main.go, editPod and updateReplicationControllerWithPod). Export makes *)
(* the pod spec that the editor's form holds the template of the pod's     *)
(* controller. A container that was stopped when the form was filled runs  *)
(* PauseImage in that template, and so it does in every pod that is synced *)
(* with it; the paused<i> annotation, which names the image to go back to, *)
(* stays with the pod it was made on.                                      *)
(*                                                                         *)
(* What export writes into the template does not depend on what it reads   *)
(* of the controller, and an export that meets another write is refused    *)
(* (see ReplicationControllers), so its Get and its Update are one step.   *)
(***************************************************************************)
EXTENDS PodActions

CONSTANT Exports  \* the forms of the pod editor that are exported

VARIABLES
  exp,  \* the forms
  ran   \* the last image other than PauseImage of each container (history)

allVars == <<pods, rcs, version, req, stopper, exp, ran>>

\* A form: the images and the managed-by label of the pod it was filled with.
NewExport == [pc |-> "new", images |-> <<>>, managedBy |-> NoRC]

Running(pod) == {i \in DOMAIN pod.images : pod.images[i] # PauseImage}

\* What the containers have run, after old.
Ran(pod, old) == [i \in Slots |-> IF i \in Running(pod) THEN pod.images[i] ELSE old[i]]

ExportInit ==
  /\ Init
  /\ exp = [x \in Exports |-> NewExport]
  /\ ran = [p \in Pods |-> Ran(pods[p], [i \in Slots |-> NoImage])]

\* The form is filled; an error page, without a form, changes nothing.
editPod(x) ==
  /\ exp[x].pc = "new"
  /\ \E p \in Pods :
       exp' = [exp EXCEPT ![x] = [pc |-> "open", images |-> pods[p].images,
                                  managedBy |-> pods[p].managedBy]]
  /\ UNCHANGED <<pods, rcs, version, req, stopper, ran>>

\* The template's pod spec is replaced; the reply may be lost.
updateReplicationControllerWithPod(x) ==
  /\ exp[x].pc = "open"
  /\ exp[x].managedBy # NoRC
  /\ rcs' = [rcs EXCEPT ![exp[x].managedBy] = exp[x].images]
  /\ exp' = [exp EXCEPT ![x].pc = "stored"]
  /\ UNCHANGED <<pods, version, req, stopper, ran>>

\* No managed-by label, no such controller, a conflict, or a lost call.
ExportRefused(x) ==
  /\ exp[x].pc = "open"
  /\ exp' = [exp EXCEPT ![x] = NewExport]
  /\ UNCHANGED <<pods, rcs, version, req, stopper, ran>>

ExportNext ==
  \/ /\ Next
     /\ ran' = [p \in Pods |-> Ran(pods'[p], ran[p])]
     /\ UNCHANGED exp
  \/ \E x \in Exports :
       editPod(x) \/ updateReplicationControllerWithPod(x) \/ ExportRefused(x)

ExportSpec == ExportInit /\ [][ExportNext]_allVars
-----------------------------------------------------------------------------
\* Container i was stopped in a pod spec that became the template of rc.
ExportedStopped(rc, i) ==
  \E x \in Exports :
    /\ exp[x].pc = "stored" /\ exp[x].managedBy = rc
    /\ i \in DOMAIN exp[x].images /\ exp[x].images[i] = PauseImage

\* Nobody writes PauseImage into a template by hand: it gets there by an export.
OnlyExports == Templates \subseteq ImageLists(Image)

(***************************************************************************)
(* Starting a stopped container brings back what it ran last, through any  *)
(* sequence of stops, starts, upgrades of stopped containers, syncs and    *)
(* exports: the image in its annotation is neither missing nor left over   *)
(* from an earlier stop (startPod restores what stopPod has saved, sync    *)
(* and upgrade keep the annotation). The one exception is a pod of a       *)
(* controller to which a container was exported while it was stopped.      *)
(***************************************************************************)
StartsWhatRan ==
  \A p \in Pods : \A i \in Stopped(p) :
    pods[p].paused[i] = ran[p][i] \/ ExportedStopped(pods[p].managedBy, i)
=============================================================================
