---------------------------- MODULE PodLifecycle ----------------------------
(***************************************************************************)
(* What the batch actions of the console promise, without the calls to the *)
(* API server they are made of: a pod is the list of images its containers *)
(* are for and the set of containers that are stopped, and each operation  *)
(* of a batch changes the current pod in one step, once, or not at all.    *)
(*                                                                         *)
(* - stopping and starting a container never changes what it is for;       *)
(* - upgrading a container changes no other one, and leaves it running;    *)
(* - a sync leaves a pod that runs some template, as a whole; a container  *)
(*   that the template lists as stopped stays what it was for if it was    *)
(*   stopped already, and may be for nothing otherwise;                    *)
(* - a container that is for nothing is not started;                       *)
(* - a request that answers with a redirect has done all its operations, in *)
(*   the order of the batch.                                               *)
(***************************************************************************)
EXTENDS Naturals, Sequences

CONSTANTS
  Pods,
  Requests,
  Images,
  PauseImage, \* a container of a template that is to be stopped
  NoImage,    \* the blank in a job's list of images; nothing to be for
  Templates,  \* the lists of images a pod may be made from
  Jobs,       \* the jobs that may be submitted
  NoJob

VARIABLES
  work,     \* the images that the containers of each pod are for
  stopped,  \* the stopped containers of each pod
  job,      \* the job of each request, with what is left of its batch
  status    \* new, running, failing (an operation went wrong) or the response

vars == <<work, stopped, job, status>>
-----------------------------------------------------------------------------
Finished(j) == j.batch = <<>> \/ j.op = "none"

AfterOp(j) ==
  IF j.action = "restart" /\ j.op = "stopPod"
  THEN [j EXCEPT !.op = "startPod"]
  ELSE [j EXCEPT !.op = IF j.action = "restart" THEN "stopPod" ELSE @, !.batch = Tail(@)]

Checked(j) == {i \in DOMAIN j.checks : j.checks[i]}

Chosen(j) == {i \in DOMAIN j.images : j.images[i] # NoImage}

StoppedIn(images) == {i \in DOMAIN images : images[i] = PauseImage}

\* The one step that operation j.op takes on pod p.
Effect(j, p) ==
  \/ /\ j.op = "setPodImage"
     /\ Chosen(j) \subseteq DOMAIN work[p]
     /\ work' = [work EXCEPT ![p] =
                   [i \in DOMAIN @ |-> IF i \in Chosen(j) THEN j.images[i] ELSE @[i]]]
     /\ stopped' = [stopped EXCEPT ![p] = @ \ Chosen(j)]
  \/ /\ j.op = "stopPod"
     /\ Checked(j) \subseteq DOMAIN work[p]
     /\ stopped' = [stopped EXCEPT ![p] = @ \union Checked(j)]
     /\ UNCHANGED work
  \/ /\ j.op = "startPod"
     /\ Checked(j) \subseteq DOMAIN work[p]
     /\ \A i \in Checked(j) \intersect stopped[p] : work[p][i] # NoImage
     /\ stopped' = [stopped EXCEPT ![p] = @ \ Checked(j)]
     /\ UNCHANGED work
  \/ /\ j.op = "syncPod"
     /\ \E t \in Templates :
          /\ stopped' = [stopped EXCEPT ![p] = StoppedIn(t)]
          /\ \E w \in [DOMAIN t -> Images \union {NoImage}] :
               /\ \A i \in DOMAIN t \ StoppedIn(t) : w[i] = t[i]
               /\ \A i \in StoppedIn(t) \intersect stopped[p] : w[i] = work[p][i]
               /\ work' = [work EXCEPT ![p] = w]
-----------------------------------------------------------------------------
\* The pods are made from templates.
Init ==
  /\ \E made \in [Pods -> Templates] :
       /\ stopped = [p \in Pods |-> StoppedIn(made[p])]
       /\ work = [p \in Pods |->
                    [i \in DOMAIN made[p] |-> IF i \in StoppedIn(made[p]) THEN NoImage
                                                                        ELSE made[p][i]]]
  /\ job = [r \in Requests |-> NoJob]
  /\ status = [r \in Requests |-> "new"]

Submit(r) ==
  /\ status[r] = "new"
  /\ \E j \in Jobs : job' = [job EXCEPT ![r] = j]
  /\ status' = [status EXCEPT ![r] = "running"]
  /\ UNCHANGED <<work, stopped>>

Reject(r) ==
  /\ status[r] = "new"
  /\ status' = [status EXCEPT ![r] = "malformed"]
  /\ UNCHANGED <<work, stopped, job>>

Running(r) == status[r] \in {"running", "failing"}

\* The operation takes effect, though the request may come to take it for failed.
Apply(r) ==
  /\ Running(r) /\ ~Finished(job[r])
  /\ Effect(job[r], Head(job[r].batch))
  /\ job' = [job EXCEPT ![r] = AfterOp(@)]
  /\ \/ UNCHANGED status
     \/ status' = [status EXCEPT ![r] = "failing"]

Skip(r) ==
  /\ Running(r) /\ ~Finished(job[r])
  /\ job' = [job EXCEPT ![r] = AfterOp(@)]
  /\ status' = [status EXCEPT ![r] = "failing"]
  /\ UNCHANGED <<work, stopped>>

Abort(r) ==
  /\ Running(r) /\ ~Finished(job[r])
  /\ status' = [status EXCEPT ![r] = "panic"]
  /\ UNCHANGED <<work, stopped, job>>

Answer(r) ==
  /\ Running(r) /\ Finished(job[r])
  /\ status' = [status EXCEPT ![r] = IF @ = "failing" THEN "errors" ELSE "redirect"]
  /\ UNCHANGED <<work, stopped, job>>

Next ==
  \E r \in Requests :
    Submit(r) \/ Reject(r) \/ Apply(r) \/ Skip(r) \/ Abort(r) \/ Answer(r)

Spec == Init /\ [][Next]_vars
=============================================================================
