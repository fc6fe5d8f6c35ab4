----------------------- MODULE ReplicationControllers -----------------------
(***************************************************************************)
(* The handlers of replication controllers (main.go): the JSON editor      *)
(* (editReplicationController, updateReplicationController), delete,       *)
(* create, and the export button of the pod editor, which copies a pod     *)
(* into the template of its controller                                     *)
(* (updateReplicationControllerWithPod).                                   *)
(*                                                                         *)
(* The editor posts the version the form was filled with, export the       *)
(* version it has just read, and delete none at all: it reads the numbers  *)
(* of replicas, and calls Delete if they are zero.                         *)
(*                                                                         *)
(* Each call goes to the cluster that kubeclient.Get talks to just then,   *)
(* which the configuration page may replace between two calls of one       *)
(* handler (see KubeConfig). Controllers of the same name live in several  *)
(* clusters.                                                               *)
(*                                                                         *)
(* Of a controller the model keeps the two numbers that delete reads, and  *)
(* the set of the requests whose change it includes. The controller        *)
(* manager is external: it starts and stops pods, and reports how many it  *)
(* has seen some time later.                                               *)
(***************************************************************************)
EXTENDS Naturals

CONSTANTS
  Names,        \* the names of the controllers
  Clusters,     \* the clusters that the console may be connected to
  Scales,       \* the posts of the editor that change spec.replicas
  Rewrites,     \* the posts of the editor that change the template's pod spec
  Exports,      \* the posts of the export button
  Deletes,      \* the posts of the delete button
  Sizes,        \* the numbers of replicas that are posted
  MaxVersion    \* bound on the versions that others than the requests use up

VARIABLES
  client,   \* the cluster that kubeclient.Get talks to
  rcs,      \* the replication controllers of the clusters
  running,  \* the number of pods that carry the label of each controller
  version,  \* the last resource version given out
  req       \* the requests

vars == <<client, rcs, running, version, req>>

RCs == Clusters \X Names

Edits == Scales \union Rewrites

Requests == Edits \union Exports \union Deletes

ASSUME ConstantsAssumption ==
  /\ Sizes \subseteq Nat /\ MaxVersion \in Nat
  /\ Scales \intersect (Rewrites \union Exports \union Deletes) = {}
  /\ Rewrites \intersect (Exports \union Deletes) = {}
  /\ Exports \intersect Deletes = {}
-----------------------------------------------------------------------------
\* spec.replicas and status.replicas, the changes included, the version, and
\* the version at creation.
RC == [exists : BOOLEAN, replicas : Nat, observed : Nat,
       changes : SUBSET Requests, rv : Nat, born : Nat]

(***************************************************************************)
(* A request: the name of the controller, the cluster and the copy it was  *)
(* read from (a form was filled with it), the version its change was       *)
(* stored as (zero if it was not) and the response. Of a delete, inStep    *)
(* says that status.replicas was up to date when checked (history).        *)
(***************************************************************************)
Request == [pc     : {"new", "open", "get", "update", "delete", "done"},
            name   : Names,
            at     : Clusters,
            read   : RC,
            stored : Nat,
            inStep : BOOLEAN,
            resp   : {"none", "error", "redirect"}]

NewRC(n, v) == [exists |-> TRUE, replicas |-> n, observed |-> 0, changes |-> {},
                rv |-> v, born |-> v]

NewRequest(n) == [pc |-> "new", name |-> n, at |-> client, read |-> NewRC(0, 0), stored |-> 0,
                  inStep |-> FALSE, resp |-> "none"]

\* The controller that a call of r reaches now.
Here(r) == <<client, req[r].name>>

Target(r) == rcs[Here(r)]

\* The controller that r has read.
Home(r) == <<req[r].at, req[r].name>>

\* The goroutine answers; what it has read is gone.
Done(q, resp) == [q EXCEPT !.pc = "done", !.read = NewRC(0, 0), !.inStep = FALSE, !.resp = resp]

Fail(r) ==
  /\ req' = [req EXCEPT ![r] = Done(@, "error")]
  /\ UNCHANGED <<client, rcs, running, version>>

Init ==
  /\ client \in Clusters
  /\ rcs \in [RCs -> {NewRC(n, 1) : n \in Sizes}]
  /\ running = [rc \in RCs |-> 0]
  /\ version = 1
  /\ req \in [Requests -> {NewRequest(n) : n \in Names}]
-----------------------------------------------------------------------------
\* The form is filled, or an error page is shown.
editReplicationController(r) ==
  /\ r \in Edits
  /\ req[r].pc = "new"
  /\ \/ /\ Target(r).exists
        /\ req' = [req EXCEPT ![r].pc = "open", ![r].at = client, ![r].read = Target(r)]
        /\ UNCHANGED <<client, rcs, running, version>>
     \/ Fail(r)

\* Mutant: the editor replaces the template too.
Changed_NewTemplate(r, read) ==
  IF r \in Scales
  THEN {[read EXCEPT !.replicas = n, !.changes = @ \union {r}] : n \in Sizes}
  ELSE {[read EXCEPT !.changes = (@ \ (Rewrites \union Exports)) \union {r}]}

\* What an edit or an export makes of the copy: an editor changes what the form
\* shows, and an export replaces the pod spec of the template and nothing else
\* (it keeps the node name, and adds annotations).
Changed(r, read) ==
  IF r \in Scales
  THEN {[read EXCEPT !.replicas = n, !.changes = @ \union {r}] : n \in Sizes}
  ELSE {[read EXCEPT !.changes =
           IF r \in Exports THEN (@ \ (Rewrites \union Exports)) \union {r} ELSE @ \union {r}]}

\* External: the API server takes an update of an object of its own (it compares
\* the UID) if its version is the stored one. The reply may be lost.
Store(r) ==
  /\ Target(r).exists
  /\ req[r].at = client
  /\ req[r].read.rv = Target(r).rv
  /\ version' = version + 1
  /\ \E new \in Changed(r, req[r].read) :
       rcs' = [rcs EXCEPT ![Here(r)] = [new EXCEPT !.rv = version + 1]]
  /\ \E resp \in {"redirect", "error"} :
       req' = [req EXCEPT ![r] = [Done(@, resp) EXCEPT !.stored = version + 1]]
  /\ UNCHANGED <<client, running>>

\* The post is decoded and stored; or it is not JSON, the form is out of date,
\* the controller is gone, or the call is lost.
updateReplicationController(r) ==
  /\ r \in Edits
  /\ req[r].pc = "open"
  /\ Store(r) \/ Fail(r)

\* Export reads the controller that the pod's managed-by label names, if it has one.
GetForExport(r) ==
  /\ r \in Exports
  /\ req[r].pc = "new"
  /\ \/ /\ Target(r).exists
        /\ req' = [req EXCEPT ![r].pc = "update", ![r].at = client, ![r].read = Target(r)]
        /\ UNCHANGED <<client, rcs, running, version>>
     \/ Fail(r)

\* Mutant: the template is copied with the rest of the spec.
updateReplicationControllerWithPod_WholeSpec(r) ==
  /\ r \in Exports
  /\ req[r].pc = "update"
  /\ \/ /\ Target(r).exists
        /\ req[r].at = client /\ req[r].read.rv = Target(r).rv
        /\ version' = version + 1
        /\ rcs' = [rcs EXCEPT ![Here(r)].rv = version + 1, ![Here(r)].changes = {r}]
        /\ req' = [req EXCEPT ![r] = [Done(@, "redirect") EXCEPT !.stored = version + 1]]
        /\ UNCHANGED <<client, running>>
     \/ Fail(r)

updateReplicationControllerWithPod(r) ==
  /\ r \in Exports
  /\ req[r].pc = "update"
  /\ Store(r) \/ Fail(r)

\* Mutant: only spec.replicas is looked at.
CheckReplicas_SpecOnly(r) ==
  /\ r \in Deletes
  /\ req[r].pc = "new"
  /\ \/ /\ Target(r).exists
        /\ Target(r).replicas = 0
        /\ req' = [req EXCEPT ![r].pc = "delete", ![r].at = client, ![r].read = Target(r),
                              ![r].inStep = Target(r).observed = running[Here(r)]]
        /\ UNCHANGED <<client, rcs, running, version>>
     \/ Fail(r)

\* deleteReplicationController reads the controller and looks at both numbers.
CheckReplicas(r) ==
  /\ r \in Deletes
  /\ req[r].pc = "new"
  /\ \/ /\ Target(r).exists
        /\ Target(r).replicas = 0 /\ Target(r).observed = 0
        /\ req' = [req EXCEPT ![r].pc = "delete", ![r].at = client, ![r].read = Target(r),
                              ![r].inStep = Target(r).observed = running[Here(r)]]
        /\ UNCHANGED <<client, rcs, running, version>>
     \/ Fail(r)

\* Its Delete carries no version.
deleteReplicationController(r) ==
  /\ r \in Deletes
  /\ req[r].pc = "delete"
  /\ \/ /\ Target(r).exists
        /\ rcs' = [rcs EXCEPT ![Here(r)].exists = FALSE]
        /\ \E resp \in {"redirect", "error"} : req' = [req EXCEPT ![r] = Done(@, resp)]
        /\ UNCHANGED <<client, running, version>>
     \/ Fail(r)

\* Somebody connects the console to another cluster (KubeConfig's Connect).
Switch ==
  /\ \E c \in Clusters \ {client} : client' = c
  /\ UNCHANGED <<rcs, running, version, req>>

\* A new controller selects pods by its name in the managed-by label, and so
\* takes over the pods that an earlier one of that name has left.
createReplicationController(rc) ==
  /\ rc[1] = client
  /\ ~rcs[rc].exists
  /\ version < MaxVersion
  /\ version' = version + 1
  /\ \E n \in Sizes : rcs' = [rcs EXCEPT ![rc] = NewRC(n, version + 1)]
  /\ UNCHANGED <<client, running, req>>

\* External: the controller manager starts or stops a pod.
Reconcile(rc) ==
  /\ rcs[rc].exists
  /\ \/ running[rc] < rcs[rc].replicas /\ running' = [running EXCEPT ![rc] = @ + 1]
     \/ running[rc] > rcs[rc].replicas /\ running' = [running EXCEPT ![rc] = @ - 1]
  /\ UNCHANGED <<client, rcs, version, req>>

\* External: the controller manager writes status.replicas.
ReportStatus(rc) ==
  /\ rcs[rc].exists
  /\ rcs[rc].observed # running[rc]
  /\ version < MaxVersion
  /\ version' = version + 1
  /\ rcs' = [rcs EXCEPT ![rc].observed = running[rc], ![rc].rv = version + 1]
  /\ UNCHANGED <<client, running, req>>

Next ==
  \/ \E r \in Requests :
       \/ editReplicationController(r) \/ updateReplicationController(r)
       \/ GetForExport(r) \/ updateReplicationControllerWithPod(r)
       \/ CheckReplicas(r) \/ deleteReplicationController(r)
  \/ Switch
  \/ \E rc \in RCs : createReplicationController(rc) \/ Reconcile(rc) \/ ReportStatus(rc)

Spec == Init /\ [][Next]_vars
-----------------------------------------------------------------------------
\* The types of the state.
TypeOK ==
  /\ client \in Clusters
  /\ rcs \in [RCs -> RC]
  /\ running \in [RCs -> Nat]
  /\ version \in Nat
  /\ req \in [Requests -> Request]

\* The change of r went into the controller that is there now.
Landed(r) == req[r].stored > rcs[Home(r)].born /\ rcs[Home(r)].exists

(***************************************************************************)
(* No change of the number of replicas is undone: neither a form that was  *)
(* filled before it (updateReplicationController) nor an export that runs  *)
(* at the same time (updateReplicationControllerWithPod) brings the old    *)
(* number back.                                                            *)
(***************************************************************************)
NoLostScale == \A r \in Scales : Landed(r) => r \in rcs[Home(r)].changes

(***************************************************************************)
(* A change that the editor made to the template is only lost to a later   *)
(* export, never to another form, and the last export stays in the         *)
(* template (updateReplicationController posts the version of the form).   *)
(***************************************************************************)
TemplateLostToExport ==
  \A r \in Rewrites \union Exports : Landed(r) /\ r \notin rcs[Home(r)].changes =>
    \E x \in Exports : Home(x) = Home(r) /\ req[x].stored > req[r].stored

(***************************************************************************)
(* The check of deleteReplicationController holds good until somebody      *)
(* writes the controller: a delete that is about to be sent finds a newer  *)
(* version than the one it looked at, or both numbers zero and, if the     *)
(* report was up to date when it looked, no pod that would be orphaned;    *)
(* or it goes to another cluster than the one that was looked at.          *)
(***************************************************************************)
CheckHoldsUntilWrite ==
  \A r \in Deletes : req[r].pc = "delete" /\ Target(r).exists =>
    \/ req[r].at # client
    \/ Target(r).rv > req[r].read.rv
    \/ /\ Target(r).replicas = 0 /\ Target(r).observed = 0
       /\ req[r].inStep => running[Here(r)] = 0

(***************************************************************************)
(* Replicas must be 0 (the message of deleteReplicationController) of a    *)
(* controller that is deleted. It does not hold: a post of the editor that *)
(* scales it up can come between the check and the Delete.                 *)
(***************************************************************************)
DeletedEmpty ==
  \A rc \in RCs : ~rcs[rc].exists => rcs[rc].replicas = 0 /\ rcs[rc].observed = 0
=============================================================================
