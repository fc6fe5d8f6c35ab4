---------------------------- MODULE ObjectForms -----------------------------
(***************************************************************************)
(* The JSON editors of services, endpoints, nodes and pods: a form is      *)
(* filled from the API server (main.go, editService, editEndpoints,        *)
(* editNode, editPod), sits in a browser for any time, and is then posted  *)
(* to update or to delete the object.                                      *)
(*                                                                         *)
(* The form carries the resource version of the object it was filled from. *)
(* updateService and updateEndpoints post it as it is; updatePod and       *)
(* updateNode first get the object again and put its current version in.   *)
(*                                                                         *)
(* What an object holds is abstracted to the set of the edits it includes: *)
(* a user changes what the form shows and leaves the metadata alone.       *)
(***************************************************************************)
EXTENDS Naturals

CONSTANTS
  Services,    \* the services and the endpoints
  Nodes, Pods,
  Forms,       \* the forms that are opened, each for one edit
  NoVersion,   \* "": the version of the object that a failed Get returns
  MaxRevision  \* bound on the versions that others than the forms use up

VARIABLES
  store,     \* the objects of the API server
  revision,  \* the last resource version it has given out
  form       \* the forms, and the goroutine that serves the post of each

formVars == <<store, revision, form>>

\* The objects whose handler puts in the current version.
Refreshed == Nodes \union Pods

Objects == Services \union Refreshed

ASSUME FormsAssumption ==
  Services \intersect Refreshed = {} /\ NoVersion \notin Nat /\ MaxRevision \in Nat
-----------------------------------------------------------------------------
\* An object: its edits, its version and the version it was created with.
Object == [exists : BOOLEAN, edits : SUBSET Forms, rv : Nat, born : Nat]

(***************************************************************************)
(* A form: the object, the edits and the version that it was filled with,  *)
(* the version its post carries, the version its edit was stored as (zero  *)
(* if it was not) and the response.                                        *)
(***************************************************************************)
Form == [pc     : {"closed", "open", "get", "update", "done"},
         obj    : Objects,
         seen   : SUBSET Forms,
         filled : Nat,
         rv     : Nat \union {NoVersion},
         stored : Nat,
         resp   : {"none", "error", "redirect"}]

NewForm(o) == [pc |-> "closed", obj |-> o, seen |-> {}, filled |-> 0, rv |-> NoVersion,
               stored |-> 0, resp |-> "none"]

Subject(f) == store[form[f].obj]

FormInit ==
  /\ store \in [Objects -> {[exists |-> TRUE, edits |-> {}, rv |-> 1, born |-> 1]}]
  /\ revision = 1
  /\ form \in [Forms -> {NewForm(o) : o \in Objects}]

\* editService, editEndpoints, editNode, editPod: the object or an error page.
edit(f) ==
  /\ form[f].pc = "closed"
  /\ \/ /\ Subject(f).exists
        /\ form' = [form EXCEPT ![f].pc = "open", ![f].seen = Subject(f).edits,
                                ![f].filled = Subject(f).rv, ![f].rv = Subject(f).rv]
     \/ form' = [form EXCEPT ![f].pc = "done", ![f].resp = "error"]
  /\ UNCHANGED <<store, revision>>

\* Mutant: every handler puts in the current version.
post_AlwaysRefresh(f) ==
  /\ form[f].pc = "open"
  /\ \/ form' = [form EXCEPT ![f].pc = "get"]
     \/ form' = [form EXCEPT ![f].pc = "done", ![f].resp = "error"]
  /\ UNCHANGED <<store, revision>>

\* updateService, updateEndpoints, updateNode, updatePod decode the posted text,
\* which may not be JSON.
post(f) ==
  /\ form[f].pc = "open"
  /\ \/ form' = [form EXCEPT ![f].pc = IF form[f].obj \in Refreshed THEN "get" ELSE "update"]
     \/ form' = [form EXCEPT ![f].pc = "done", ![f].resp = "error"]
  /\ UNCHANGED <<store, revision>>

\* Mutant: the edit is applied to the object that Get returned, the empty one if
\* it failed.
GetVersion_FromEmpty(f) ==
  /\ form[f].pc = "get"
  /\ \/ /\ Subject(f).exists
        /\ form' = [form EXCEPT ![f].pc = "update", ![f].rv = Subject(f).rv]
     \/ form' = [form EXCEPT ![f].pc = "update", ![f].rv = NoVersion, ![f].seen = {}]
  /\ UNCHANGED <<store, revision>>

\* updatePod and updateNode get the current version and ignore an error, which
\* leaves the version blank.
GetVersion(f) ==
  /\ form[f].pc = "get"
  /\ \/ /\ Subject(f).exists
        /\ form' = [form EXCEPT ![f].pc = "update", ![f].rv = Subject(f).rv]
     \/ form' = [form EXCEPT ![f].pc = "update", ![f].rv = NoVersion]
  /\ UNCHANGED <<store, revision>>

\* External: the API server replaces an object if the version of the new one
\* is the stored one or blank. The reply may be lost.
UpdateStored(f) ==
  /\ form[f].pc = "update"
  /\ Subject(f).exists
  /\ form[f].rv \in {Subject(f).rv, NoVersion}
  /\ revision' = revision + 1
  /\ store' = [store EXCEPT ![form[f].obj].edits = form[f].seen \union {f},
                            ![form[f].obj].rv = revision + 1]
  /\ \E resp \in {"redirect", "error"} :
       form' = [form EXCEPT ![f].pc = "done", ![f].stored = revision + 1, ![f].resp = resp]

\* A conflict, an object that is gone, or a call that never arrived.
UpdateRefused(f) ==
  /\ form[f].pc = "update"
  /\ form' = [form EXCEPT ![f].pc = "done", ![f].resp = "error"]
  /\ UNCHANGED <<store, revision>>

\* deleteService, deleteEndpoints, deleteNode: one call that carries no version.
\* The editor of pods has no delete button.
delete(f) ==
  /\ form[f].pc = "open"
  /\ form[f].obj \notin Pods
  /\ \/ /\ Subject(f).exists
        /\ store' = [store EXCEPT ![form[f].obj].exists = FALSE]
        /\ \E resp \in {"redirect", "error"} :
             form' = [form EXCEPT ![f].pc = "done", ![f].resp = resp]
     \/ /\ form' = [form EXCEPT ![f].pc = "done", ![f].resp = "error"]
        /\ UNCHANGED store
  /\ UNCHANGED revision

\* createService, a node that registers, or whatever else makes the object anew
\* under the same name.
create(o) ==
  /\ ~store[o].exists
  /\ revision < MaxRevision
  /\ revision' = revision + 1
  /\ store' = [store EXCEPT ![o] = [exists |-> TRUE, edits |-> {}, rv |-> revision + 1,
                                    born |-> revision + 1]]
  /\ UNCHANGED form

\* External: another client deletes the object.
remove(o) ==
  /\ store[o].exists
  /\ store' = [store EXCEPT ![o].exists = FALSE]
  /\ UNCHANGED <<revision, form>>

\* External: a heartbeat of the kubelet, or another client, writes a part of the
\* object that the forms do not edit.
StatusUpdate(o) ==
  /\ store[o].exists
  /\ revision < MaxRevision
  /\ revision' = revision + 1
  /\ store' = [store EXCEPT ![o].rv = revision + 1]
  /\ UNCHANGED form

FormNext ==
  \/ \E f \in Forms : edit(f) \/ post(f) \/ GetVersion(f) \/ UpdateStored(f)
                      \/ UpdateRefused(f) \/ delete(f)
  \/ \E o \in Objects : create(o) \/ remove(o) \/ StatusUpdate(o)

FormSpec == FormInit /\ [][FormNext]_formVars
-----------------------------------------------------------------------------
\* The types of the state.
FormTypeOK ==
  /\ store \in [Objects -> Object]
  /\ revision \in Nat
  /\ form \in [Forms -> Form]

\* The edit of f went into the object that is there now.
EditLanded(f) == form[f].stored > 0 /\ Subject(f).exists /\ form[f].stored > Subject(f).born

(***************************************************************************)
(* No edit of a service or of endpoints is lost: what updateService or     *)
(* updateEndpoints has stored stays part of the object until it is         *)
(* deleted, however long the other forms for it have been open.            *)
(***************************************************************************)
NoLostEdit ==
  \A f \in Forms : EditLanded(f) /\ form[f].obj \notin Refreshed => f \in Subject(f).edits

(***************************************************************************)
(* An edit of a node or a pod is only lost to a form that was filled       *)
(* before the edit was stored and posted after: putting in the current     *)
(* version (updateNode, updatePod) loses nothing that its user could see,  *)
(* even if getting the version fails.                                      *)
(***************************************************************************)
LostToStaleForm ==
  \A f \in Forms : EditLanded(f) /\ f \notin Subject(f).edits =>
    \E g \in Forms : /\ form[g].obj = form[f].obj
                     /\ form[g].filled < form[f].stored
                     /\ form[g].stored > form[f].stored
=============================================================================
