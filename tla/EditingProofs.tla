---------------------------- MODULE EditingProofs ---------------------------
(***************************************************************************)
(* Proofs about what is edited in the console, by several users at a time: *)
(* the connection to the API server (KubeConfig), replication controllers  *)
(* (ReplicationControllers), and the other objects, with their JSON editors *)
(* (ObjectForms). The three modules share no state.                        *)
(***************************************************************************)
EXTENDS KubeConfig, ReplicationControllers, ObjectForms, TLAPS

(***************************************************************************)
(* ReplicationControllers, for any number of controllers, clusters and     *)
(* concurrent requests.                                                    *)
(*                                                                         *)
(* The properties are not inductive as they stand. What carries them is    *)
(* that a form or an export whose version is the stored one holds the      *)
(* stored controller (Copies), because every write takes a new version     *)
(* (Versions), and that a check of delete is about the cluster that was    *)
(* looked at, whichever the console talks to now (CheckAtHome).            *)
(***************************************************************************)

\* No version is ahead of the last one given out.
Versions ==
  /\ \A rc \in RCs : rcs[rc].rv <= version /\ rcs[rc].born <= version
  /\ \A r \in Requests : req[r].stored <= version /\ req[r].read.rv <= version

\* Only an answered request has stored anything.
Unstored == \A r \in Requests : req[r].pc # "done" => req[r].stored = 0

\* A copy that the API server would accept is what it has stored.
Copies ==
  \A r \in Requests :
    req[r].pc \in {"open", "update"} /\ rcs[Home(r)].exists /\ req[r].read.rv = rcs[Home(r)].rv
      => req[r].read = rcs[Home(r)]

\* CheckHoldsUntilWrite, of the controller that was looked at.
CheckAtHome ==
  \A r \in Requests : req[r].pc = "delete" /\ rcs[Home(r)].exists =>
    \/ rcs[Home(r)].rv > req[r].read.rv
    \/ /\ rcs[Home(r)].replicas = 0 /\ rcs[Home(r)].observed = 0
       /\ req[r].inStep => running[Home(r)] = 0

IInv ==
  /\ TypeOK /\ Versions /\ Unstored /\ Copies
  /\ NoLostScale /\ TemplateLostToExport /\ CheckAtHome
-----------------------------------------------------------------------------
LEMMA InitIInv == Init => IInv
<1> SUFFICES ASSUME Init PROVE IInv
  OBVIOUS
<1>1. \A n \in Nat, v \in Nat : NewRC(n, v) \in RC
  BY ConstantsAssumption DEF NewRC, RC
<1>2. \A n \in Names : NewRequest(n) \in Request
  BY <1>1, ConstantsAssumption DEF NewRequest, Request, Init
<1>3. TypeOK
  BY <1>1, <1>2, ConstantsAssumption DEF TypeOK, Init
<1>4. /\ \A rc \in RCs : rcs[rc].rv = 1 /\ rcs[rc].born = 1
      /\ \A r \in Requests : req[r].pc = "new" /\ req[r].stored = 0 /\ req[r].read.rv = 0
  BY DEF Init, NewRC, NewRequest
<1>5. Versions /\ Unstored /\ Copies /\ CheckAtHome
  BY <1>4 DEF Init, Versions, Unstored, Copies, CheckAtHome
<1>6. \A r \in Requests : ~Landed(r)
  BY <1>3, <1>4 DEF Landed, Home, TypeOK, Request, RCs
<1>7. NoLostScale /\ TemplateLostToExport
  BY <1>6 DEF NoLostScale, TemplateLostToExport, Requests, Edits
<1>8. QED
  BY <1>3, <1>5, <1>7 DEF IInv

(***************************************************************************)
(* A step of request r that only changes the request itself, and leaves it *)
(* without a stored version it did not have.                               *)
(***************************************************************************)
LEMMA LocalIInv ==
  ASSUME IInv, NEW r \in Requests, NEW q \in Request,
         req' = [req EXCEPT ![r] = q],
         UNCHANGED <<client, rcs, running, version>>,
         q.stored = req[r].stored,
         q.stored = 0 \/ (q.at = req[r].at /\ q.name = req[r].name),
         q.pc # "done" => q.stored = 0,
         q.read.rv <= version,
         q.pc \in {"open", "update"} => q.read = rcs[<<q.at, q.name>>],
         q.pc = "delete" =>
           /\ rcs[<<q.at, q.name>>].replicas = 0 /\ rcs[<<q.at, q.name>>].observed = 0
           /\ q.inStep => running[<<q.at, q.name>>] = 0
  PROVE  IInv'
<1>1. TypeOK'
  BY DEF IInv, TypeOK
<1>2. /\ req'[r] = q
      /\ \A s \in Requests : s # r => req'[s] = req[s]
      /\ \A s \in Requests : s # r => Home(s)' = Home(s)
      /\ Home(r)' = <<q.at, q.name>>
  BY DEF IInv, TypeOK, Home
<1>3. Versions'
  BY <1>2 DEF IInv, TypeOK, Versions
<1>4. Unstored'
  BY <1>2 DEF IInv, Unstored
<1>5. Copies'
  BY <1>2 DEF IInv, Copies
<1>6. CheckAtHome'
  BY <1>2 DEF IInv, CheckAtHome
<1>7. \A s \in Requests : /\ req'[s].stored = req[s].stored
                          /\ req[s].stored # 0 => Home(s)' = Home(s)
  BY <1>2 DEF Home
<1>8. \A s \in Requests : Landed(s)' => req[s].stored # 0 /\ Landed(s)
  <2> SUFFICES ASSUME NEW s \in Requests, Landed(s)' PROVE req[s].stored # 0 /\ Landed(s)
    OBVIOUS
  <2>1. Home(s)' \in RCs
    BY <1>1 DEF TypeOK, Request, Home, RCs
  <2>2. rcs[Home(s)'].born \in Nat
    BY <2>1 DEF IInv, TypeOK, RC
  <2>3. req[s].stored \in Nat
    BY DEF IInv, TypeOK, Request
  <2>4. req[s].stored > rcs[Home(s)'].born /\ rcs[Home(s)'].exists
    BY <1>7 DEF Landed
  <2>5. QED
    BY <1>7, <2>2, <2>3, <2>4 DEF Landed
<1>9. NoLostScale'
  BY <1>7, <1>8 DEF IInv, NoLostScale, Requests, Edits
<1>10. TemplateLostToExport'
  <2> SUFFICES ASSUME NEW s \in Rewrites \union Exports, Landed(s)', s \notin rcs[Home(s)'].changes
               PROVE  \E x \in Exports : Home(x)' = Home(s)' /\ req'[x].stored > req'[s].stored
    BY DEF TemplateLostToExport
  <2>1. s \in Requests
    BY DEF Requests, Edits
  <2>2. Landed(s) /\ Home(s)' = Home(s) /\ req[s].stored # 0
    BY <1>7, <1>8, <2>1, Zenon
  <2>3. PICK x \in Exports : Home(x) = Home(s) /\ req[x].stored > req[s].stored
    BY <2>2, Zenon DEF IInv, TemplateLostToExport
  <2>4. x \in Requests /\ req[x].stored \in Nat /\ req[s].stored \in Nat
    BY <2>1 DEF Requests, IInv, TypeOK, Request
  <2>5. QED
    BY <1>7, <2>1, <2>2, <2>3, <2>4
<1>11. QED
  BY <1>1, <1>3, <1>4, <1>5, <1>6, <1>9, <1>10 DEF IInv

\* What the cluster of a call of r, and the controller that r has read, are.
LEMMA Places ==
  ASSUME TypeOK, NEW r \in Requests
  PROVE  /\ Here(r) \in RCs /\ Home(r) \in RCs
         /\ Target(r) \in RC /\ rcs[Home(r)] \in RC
         /\ req[r] \in Request
BY DEF TypeOK, Here, Home, Target, Request, RCs

\* What an answered request is.
LEMMA AnsweredRequest ==
  ASSUME NEW q \in Request, NEW resp \in {"error", "redirect"}
  PROVE  /\ Done(q, resp) \in Request
         /\ Done(q, resp).stored = q.stored /\ Done(q, resp).at = q.at
         /\ Done(q, resp).name = q.name /\ Done(q, resp).pc = "done"
         /\ Done(q, resp).read.rv = 0
<1>1. NewRC(0, 0) \in RC /\ NewRC(0, 0).rv = 0
  BY ConstantsAssumption DEF NewRC, RC
<1>2. QED
  BY <1>1, Zenon DEF Done, Request

\* The error page of every handler.
LEMMA FailIInv ==
  ASSUME IInv, NEW r \in Requests, Fail(r), req[r].pc # "done"
  PROVE  IInv'
<1> DEFINE q == Done(req[r], "error")
<1>1. req[r] \in Request /\ TypeOK
  BY Places DEF IInv
<1>2. q \in Request /\ q.stored = req[r].stored /\ q.at = req[r].at /\ q.name = req[r].name
      /\ q.pc = "done" /\ q.read.rv = 0
  BY <1>1, AnsweredRequest DEF Request
<1>3. req' = [req EXCEPT ![r] = q] /\ UNCHANGED <<client, rcs, running, version>>
  BY DEF Fail
<1>4. 0 <= version
  BY <1>1 DEF TypeOK
<1> HIDE DEF q
<1>5. QED
  BY <1>2, <1>3, <1>4, LocalIInv, Zenon

\* editReplicationController and updateReplicationControllerWithPod read the controller.
LEMMA ReadIInv ==
  ASSUME IInv, NEW r \in Requests, NEW pc \in {"open", "update"}, req[r].pc = "new",
         req' = [req EXCEPT ![r].pc = pc, ![r].at = client, ![r].read = Target(r)],
         UNCHANGED <<client, rcs, running, version>>
  PROVE  IInv'
<1> DEFINE q == [req[r] EXCEPT !.pc = pc, !.at = client, !.read = Target(r)]
<1>1. req[r] \in Request /\ TypeOK /\ Target(r) \in RC /\ Here(r) \in RCs
  BY Places DEF IInv
<1>2. q \in Request /\ q.stored = req[r].stored /\ q.pc = pc /\ q.at = client
      /\ q.name = req[r].name /\ q.read = Target(r)
  BY <1>1, Zenon DEF Request, TypeOK
<1>3. req' = [req EXCEPT ![r] = q]
  BY <1>1, Zenon DEF TypeOK
<1>4. q.stored = 0 /\ q.read.rv <= version
  BY <1>1, <1>2 DEF IInv, Unstored, Versions, Target
<1>5. q.read = rcs[<<q.at, q.name>>]
  BY <1>2 DEF Target, Here
<1> HIDE DEF q
<1>6. QED
  BY <1>2, <1>3, <1>4, <1>5, LocalIInv, Zenon

\* deleteReplicationController has looked at both numbers.
LEMMA CheckIInv ==
  ASSUME IInv, NEW r \in Requests, CheckReplicas(r)
  PROVE  IInv'
<1>1. CASE Fail(r)
  BY <1>1, FailIInv DEF CheckReplicas
<1>2. CASE ~Fail(r)
  <2> DEFINE q == [req[r] EXCEPT !.pc = "delete", !.at = client, !.read = Target(r),
                                 !.inStep = Target(r).observed = running[Here(r)]]
  <2>1. req[r] \in Request /\ TypeOK /\ Target(r) \in RC /\ Here(r) \in RCs
    BY Places DEF IInv
  <2>2. q \in Request /\ q.stored = req[r].stored /\ q.pc = "delete" /\ q.at = client
        /\ q.name = req[r].name /\ q.read = Target(r)
        /\ q.inStep = (Target(r).observed = running[Here(r)])
    BY <2>1, Zenon DEF Request, TypeOK
  <2>3. req' = [req EXCEPT ![r] = q] /\ UNCHANGED <<client, rcs, running, version>>
    BY <1>2, <2>1, Zenon DEF TypeOK, CheckReplicas
  <2>4. q.stored = 0 /\ q.read.rv <= version
    BY <2>1, <2>2 DEF IInv, Unstored, Versions, Target, CheckReplicas
  <2>5. <<q.at, q.name>> = Here(r)
    BY <2>2 DEF Here
  <2>6. rcs[Here(r)].replicas = 0 /\ rcs[Here(r)].observed = 0
    BY <1>2 DEF CheckReplicas, Target
  <2>7. q.inStep => running[Here(r)] = 0
    BY <2>2, <2>6, Zenon DEF Target
  <2> HIDE DEF q
  <2>8. QED
    BY <2>2, <2>3, <2>4, <2>5, <2>6, <2>7, LocalIInv, Zenon
<1>3. QED
  BY <1>1, <1>2

(***************************************************************************)
(* The update that the editor or an export sends. What it stores is made   *)
(* of the stored controller itself, so no change of replicas is lost in    *)
(* it, and changes of the template only to an export.                      *)
(***************************************************************************)
LEMMA ChangedKeeps ==
  ASSUME NEW r \in Edits \union Exports, NEW read \in RC, NEW new \in Changed(r, read)
  PROVE  /\ new \in RC /\ new.exists = read.exists /\ new.born = read.born
         /\ r \in new.changes
         /\ \A s \in read.changes : s \in new.changes \/ (r \in Exports /\ s \notin Scales)
<1>1. r \in Requests
  BY DEF Requests
<1>2. CASE r \in Scales
  <2>1. PICK n \in Sizes :
          new = [read EXCEPT !.replicas = n, !.changes = read.changes \union {r}]
    BY <1>2, Zenon DEF Changed
  <2>2. n \in Nat
    BY ConstantsAssumption, Zenon
  <2>3. QED
    BY <1>1, <2>1, <2>2, Zenon DEF RC
<1>3. CASE r \notin Scales /\ r \in Exports
  BY <1>1, <1>3, ConstantsAssumption DEF Changed, RC
<1>4. CASE r \notin Scales /\ r \notin Exports
  BY <1>1, <1>4, ConstantsAssumption DEF Changed, RC
<1>5. QED
  BY <1>2, <1>3, <1>4

LEMMA StoreIInv ==
  ASSUME IInv, NEW r \in Edits \union Exports, req[r].pc \in {"open", "update"}, Store(r)
  PROVE  IInv'
<1> DEFINE h == Home(r)
           v == version + 1
<1>1. TypeOK /\ r \in Requests /\ h \in RCs /\ rcs[h] \in RC /\ req[r] \in Request /\ version \in Nat
  BY Places DEF IInv, Requests, TypeOK
<1>2. Here(r) = h /\ Target(r) = rcs[h]
  BY DEF Store, Here, Home, Target
<1>3. req[r].read = rcs[h] /\ rcs[h].exists
  BY <1>1, <1>2 DEF IInv, Copies, Store
<1>4. PICK new \in Changed(r, rcs[h]) : rcs' = [rcs EXCEPT ![h] = [new EXCEPT !.rv = v]]
  BY <1>2, <1>3, Zenon DEF Store
<1>5. PICK resp \in {"error", "redirect"} :
        req' = [req EXCEPT ![r] = [Done(@, resp) EXCEPT !.stored = v]]
  BY Zenon DEF Store
<1> DEFINE n == [new EXCEPT !.rv = v]
           q == [Done(req[r], resp) EXCEPT !.stored = v]
<1>6. /\ n \in RC /\ n.exists /\ n.born = rcs[h].born /\ n.rv = v
      /\ r \in n.changes
      /\ \A s \in rcs[h].changes : s \in n.changes \/ (r \in Exports /\ s \notin Scales)
  BY <1>1, <1>3, ChangedKeeps DEF RC
<1>7. /\ q \in Request /\ q.pc = "done" /\ q.stored = v /\ q.at = req[r].at /\ q.name = req[r].name
      /\ q.read.rv = 0
  BY <1>1, AnsweredRequest DEF Request
<1>8. rcs' = [rcs EXCEPT ![h] = n] /\ req' = [req EXCEPT ![r] = q]
      /\ version' = v /\ client' = client /\ running' = running
  BY <1>1, <1>4, <1>5, Zenon DEF TypeOK, Store
<1> HIDE DEF n, q
<1>9. TypeOK'
  BY <1>1, <1>6, <1>7, <1>8 DEF TypeOK
<1>10. /\ req'[r] = q /\ \A s \in Requests : s # r => req'[s] = req[s]
       /\ rcs'[h] = n /\ \A rc \in RCs : rc # h => rcs'[rc] = rcs[rc]
  BY <1>1, <1>8 DEF TypeOK
<1>11. \A s \in Requests : Home(s)' = Home(s) /\ Home(s) \in RCs
  BY <1>1, <1>7, <1>10, Places, Zenon DEF Home
<1>12. \A rc \in RCs : rcs[rc].rv \in Nat /\ rcs[rc].born \in Nat
                       /\ rcs[rc].rv <= version /\ rcs[rc].born <= version
  BY <1>1, Zenon DEF IInv, Versions, TypeOK, RC
<1>13. \A s \in Requests : req[s].stored \in Nat /\ req[s].read.rv \in Nat
                           /\ req[s].stored <= version /\ req[s].read.rv <= version
  BY <1>1, Zenon DEF IInv, Versions, TypeOK, Request, RC
<1>14. Versions'
  BY <1>1, <1>6, <1>7, <1>8, <1>10, <1>12, <1>13 DEF Versions
<1>15. Unstored'
  BY <1>7, <1>10, Zenon DEF IInv, Unstored
<1>16. Copies'
  <2> SUFFICES ASSUME NEW s \in Requests, req'[s].pc \in {"open", "update"},
                      rcs'[Home(s)'].exists, req'[s].read.rv = rcs'[Home(s)'].rv
               PROVE  req'[s].read = rcs'[Home(s)']
    BY DEF Copies
  <2>1. s # r /\ req'[s] = req[s] /\ Home(s)' = Home(s) /\ Home(s) \in RCs
    BY <1>7, <1>10, <1>11, Zenon
  <2>2. Home(s) # h
    BY <1>1, <1>6, <1>10, <1>13, <2>1
  <2>3. QED
    BY <1>10, <2>1, <2>2, Zenon DEF IInv, Copies
<1>17. CheckAtHome'
  <2> SUFFICES ASSUME NEW s \in Requests, req'[s].pc = "delete", rcs'[Home(s)'].exists
               PROVE  \/ rcs'[Home(s)'].rv > req'[s].read.rv
                      \/ /\ rcs'[Home(s)'].replicas = 0 /\ rcs'[Home(s)'].observed = 0
                         /\ req'[s].inStep => running'[Home(s)'] = 0
    BY Zenon DEF CheckAtHome
  <2>1. s # r /\ req'[s] = req[s] /\ Home(s)' = Home(s) /\ Home(s) \in RCs
    BY <1>7, <1>10, <1>11, Zenon
  <2>2. CASE Home(s) = h
    BY <1>1, <1>6, <1>10, <1>13, <2>1, <2>2
  <2>3. CASE Home(s) # h
    BY <1>8, <1>10, <2>1, <2>3, Zenon DEF IInv, CheckAtHome
  <2>4. QED
    BY <2>2, <2>3, Zenon
<1>18. \A s \in Requests : s # r /\ Landed(s)' => Landed(s)
  BY <1>3, <1>6, <1>10, <1>11, Zenon DEF Landed
<1>19. NoLostScale'
  <2> SUFFICES ASSUME NEW s \in Scales, Landed(s)' PROVE s \in rcs'[Home(s)'].changes
    BY DEF NoLostScale
  <2>1. s \in Requests
    BY Zenon DEF Requests, Edits
  <2>2. CASE s = r
    BY <1>6, <1>10, <1>11, <2>1, <2>2, Zenon
  <2>3. CASE s # r
    <3>1. s \in rcs[Home(s)].changes
      BY <1>18, <2>1, <2>3, Zenon DEF IInv, NoLostScale
    <3>2. QED
      BY <1>6, <1>10, <1>11, <2>1, <3>1, Zenon
  <2>4. QED
    BY <2>2, <2>3
<1>20. TemplateLostToExport'
  <2> SUFFICES ASSUME NEW s \in Rewrites \union Exports, Landed(s)',
                      s \notin rcs'[Home(s)'].changes
               PROVE  \E x \in Exports : Home(x)' = Home(s)' /\ req'[x].stored > req'[s].stored
    BY Zenon DEF TemplateLostToExport
  <2>1. s \in Requests
    BY Zenon DEF Requests, Edits
  <2>2. s # r
    BY <1>6, <1>10, <1>11, <2>1, Zenon
  <2>3. CASE s \in rcs[Home(s)].changes
    <3>1. Home(s) = h /\ r \in Exports
      BY <1>6, <1>10, <1>11, <2>1, <2>3, Zenon
    <3>2. Home(r)' = Home(s)' /\ req'[r].stored > req'[s].stored
      BY <1>1, <1>7, <1>10, <1>11, <1>13, <2>1, <2>2, <3>1
    <3>3. QED
      BY <3>1, <3>2
  <2>4. CASE s \notin rcs[Home(s)].changes
    <3>1. PICK x \in Exports : Home(x) = Home(s) /\ req[x].stored > req[s].stored
      BY <1>18, <2>1, <2>2, <2>4, Zenon DEF IInv, TemplateLostToExport
    <3>2. x \in Requests
      BY Zenon DEF Requests
    <3>3. req'[x].stored >= req[x].stored /\ req'[x].stored \in Nat
      BY <1>1, <1>7, <1>10, <1>13, <3>2
    <3>4. QED
      BY <1>10, <1>11, <1>13, <2>1, <2>2, <3>1, <3>2, <3>3
  <2>5. QED
    BY <2>3, <2>4, Zenon
<1>21. QED
  BY <1>9, <1>14, <1>15, <1>16, <1>17, <1>19, <1>20, Zenon DEF IInv

(***************************************************************************)
(* Steps that change a controller and no request that has stored anything: *)
(* one of them is written with a new version, or is gone.                  *)
(***************************************************************************)
LEMMA WrittenIInv ==
  ASSUME IInv, NEW h \in RCs, NEW n \in RC,
         rcs' = [rcs EXCEPT ![h] = n], version' = version + 1,
         n.rv = version + 1,
         \/ n.born = version + 1
         \/ n.exists = rcs[h].exists /\ n.born = rcs[h].born /\ n.changes = rcs[h].changes,
         UNCHANGED <<client, running, req>>
  PROVE  IInv'
<1>1. TypeOK /\ version \in Nat
  BY DEF IInv, TypeOK
<1>2. TypeOK'
  BY <1>1 DEF TypeOK
<1>3. rcs'[h] = n /\ \A rc \in RCs : rc # h => rcs'[rc] = rcs[rc]
  BY <1>1, Zenon DEF TypeOK
<1>4. \A s \in Requests : Home(s)' = Home(s) /\ Home(s) \in RCs
  BY <1>1, Places, Zenon DEF Home
<1>5. \A rc \in RCs : rcs[rc].rv \in Nat /\ rcs[rc].born \in Nat
                      /\ rcs[rc].rv <= version /\ rcs[rc].born <= version
  BY <1>1, Zenon DEF IInv, Versions, TypeOK, RC
<1>6. \A s \in Requests : req[s].stored \in Nat /\ req[s].read.rv \in Nat
                          /\ req[s].stored <= version /\ req[s].read.rv <= version
  BY <1>1, Zenon DEF IInv, Versions, TypeOK, Request, RC
<1>7. Versions' /\ Unstored'
  BY <1>1, <1>3, <1>5, <1>6 DEF IInv, Versions, Unstored
<1>8. Copies'
  <2> SUFFICES ASSUME NEW s \in Requests, req[s].pc \in {"open", "update"},
                      rcs'[Home(s)].exists, req[s].read.rv = rcs'[Home(s)].rv
               PROVE  req[s].read = rcs'[Home(s)]
    BY <1>4, Zenon DEF Copies
  <2>1. Home(s) # h
    BY <1>1, <1>3, <1>6
  <2>2. QED
    BY <1>3, <1>4, <2>1, Zenon DEF IInv, Copies
<1>9. CheckAtHome'
  <2> SUFFICES ASSUME NEW s \in Requests, req[s].pc = "delete", rcs'[Home(s)].exists
               PROVE  \/ rcs'[Home(s)].rv > req[s].read.rv
                      \/ /\ rcs'[Home(s)].replicas = 0 /\ rcs'[Home(s)].observed = 0
                         /\ req[s].inStep => running[Home(s)] = 0
    BY <1>4, Zenon DEF CheckAtHome
  <2>1. CASE Home(s) = h
    BY <1>1, <1>3, <1>6, <2>1
  <2>2. CASE Home(s) # h
    BY <1>3, <1>4, <2>2, Zenon DEF IInv, CheckAtHome
  <2>3. QED
    BY <2>1, <2>2, Zenon
<1>10. \A s \in Requests : Landed(s)' => Landed(s) /\ rcs'[Home(s)].changes = rcs[Home(s)].changes
  <2> SUFFICES ASSUME NEW s \in Requests, Landed(s)'
               PROVE  Landed(s) /\ rcs'[Home(s)].changes = rcs[Home(s)].changes
    BY Zenon
  <2>1. req[s].stored > rcs'[Home(s)].born /\ rcs'[Home(s)].exists
    BY <1>4, Zenon DEF Landed
  <2>2. CASE Home(s) = h
    BY <1>1, <1>3, <1>6, <2>1, <2>2 DEF Landed
  <2>3. CASE Home(s) # h
    BY <1>3, <1>4, <2>1, <2>3, Zenon DEF Landed
  <2>4. QED
    BY <2>2, <2>3, Zenon
<1>11. NoLostScale'
  BY <1>4, <1>10, Zenon DEF IInv, NoLostScale, Requests, Edits
<1>12. TemplateLostToExport'
  BY <1>4, <1>10 DEF IInv, TemplateLostToExport, Requests, Edits
<1>13. QED
  BY <1>2, <1>7, <1>8, <1>9, <1>11, <1>12, Zenon DEF IInv

LEMMA CreateIInv ==
  ASSUME IInv, NEW rc \in RCs, createReplicationController(rc)
  PROVE  IInv'
<1>1. PICK n \in Sizes : rcs' = [rcs EXCEPT ![rc] = NewRC(n, version + 1)]
  BY Zenon DEF createReplicationController
<1>2. version \in Nat
  BY Zenon DEF IInv, TypeOK
<1>3. NewRC(n, version + 1) \in RC /\ NewRC(n, version + 1).rv = version + 1
      /\ NewRC(n, version + 1).born = version + 1
  BY <1>2, ConstantsAssumption DEF NewRC, RC
<1>4. QED
  BY <1>1, <1>3, WrittenIInv, Zenon DEF createReplicationController

LEMMA ReportIInv ==
  ASSUME IInv, NEW rc \in RCs, ReportStatus(rc)
  PROVE  IInv'
<1>1. version \in Nat /\ rcs[rc] \in RC /\ running[rc] \in Nat
  BY DEF IInv, TypeOK
<1>2. PICK v \in Nat : v = version + 1
  BY <1>1
<1>3. PICK n : n = [rcs[rc] EXCEPT !.observed = running[rc], !.rv = v]
  OBVIOUS
<1>4. n \in RC /\ n.rv = v /\ n.exists = rcs[rc].exists /\ n.born = rcs[rc].born
      /\ n.changes = rcs[rc].changes
  BY <1>1, <1>3, Zenon DEF RC
<1>5. rcs' = [rcs EXCEPT ![rc] = n]
  BY <1>2, <1>3, Zenon DEF ReportStatus, IInv, TypeOK
<1>6. QED
  BY <1>2, <1>4, <1>5, WrittenIInv, Zenon DEF ReportStatus

\* The Delete of deleteReplicationController.
LEMMA DeleteIInv ==
  ASSUME IInv, NEW r \in Requests, deleteReplicationController(r)
  PROVE  IInv'
<1>1. CASE Fail(r)
  BY <1>1, FailIInv DEF deleteReplicationController
<1>2. CASE ~Fail(r)
  <2> DEFINE h == Here(r)
             n == [rcs[h] EXCEPT !.exists = FALSE]
  <2>1. TypeOK /\ req[r] \in Request /\ h \in RCs /\ rcs[h] \in RC
    BY Places DEF IInv, Target
  <2>2. PICK resp \in {"error", "redirect"} : req' = [req EXCEPT ![r] = Done(@, resp)]
    BY <1>2, Zenon DEF deleteReplicationController
  <2> DEFINE q == Done(req[r], resp)
  <2>3. /\ q \in Request /\ q.pc = "done" /\ q.stored = req[r].stored /\ q.at = req[r].at
        /\ q.name = req[r].name /\ q.read.rv = 0
    BY <2>1, AnsweredRequest
  <2>4. n \in RC /\ ~n.exists /\ n.rv = rcs[h].rv /\ n.born = rcs[h].born
    BY <2>1, Zenon DEF RC
  <2>5. rcs' = [rcs EXCEPT ![h] = n] /\ req' = [req EXCEPT ![r] = q]
        /\ UNCHANGED <<client, running, version>>
    BY <1>2, <2>1, <2>2, Zenon DEF deleteReplicationController, TypeOK
  <2> HIDE DEF n, q
  <2>6. TypeOK'
    BY <2>1, <2>3, <2>4, <2>5, Zenon DEF TypeOK
  <2>7. /\ req'[r] = q /\ \A s \in Requests : s # r => req'[s] = req[s]
        /\ rcs'[h] = n /\ \A rc \in RCs : rc # h => rcs'[rc] = rcs[rc]
    BY <2>1, <2>5, Zenon DEF TypeOK
  <2>8. \A s \in Requests : /\ Home(s)' = Home(s) /\ Home(s) \in RCs
                            /\ req'[s].stored = req[s].stored
    BY <2>1, <2>3, <2>7, Places DEF Home
  <2>9. version \in Nat
    BY <2>1, Zenon DEF TypeOK
  <2>10. Versions'
    BY <2>3, <2>4, <2>5, <2>7, <2>8, <2>9 DEF IInv, Versions
  <2>11. Unstored'
    BY <2>3, <2>7, Zenon DEF IInv, Unstored
  <2>12. \A s \in Requests : rcs'[Home(s)].exists =>
           rcs'[Home(s)] = rcs[Home(s)] /\ rcs[Home(s)].exists
    BY <2>4, <2>7, <2>8, Zenon
  <2>13. Copies'
    BY <2>3, <2>7, <2>8, <2>12 DEF IInv, Copies
  <2>14. CheckAtHome'
    BY <2>3, <2>5, <2>7, <2>8, <2>12 DEF IInv, CheckAtHome
  <2>15. \A s \in Requests : Landed(s)' => Landed(s) /\ rcs'[Home(s)] = rcs[Home(s)]
    BY <2>8, <2>12, Zenon DEF Landed
  <2>16. NoLostScale'
    BY <2>8, <2>15, Zenon DEF IInv, NoLostScale, Requests, Edits
  <2>17. TemplateLostToExport'
    BY <2>8, <2>15 DEF IInv, TemplateLostToExport, Requests, Edits
  <2>18. QED
    BY <2>6, <2>10, <2>11, <2>13, <2>14, <2>16, <2>17 DEF IInv
<1>3. QED
  BY <1>1, <1>2

\* The configuration page replaces the client: nothing is said of the client.
LEMMA SwitchIInv == IInv /\ Switch => IInv'
<1> SUFFICES ASSUME IInv, Switch PROVE IInv'
  OBVIOUS
<1>1. TypeOK' /\ UNCHANGED <<rcs, running, version, req>>
  BY DEF IInv, TypeOK, Switch
<1>2. \A r \in Requests : Home(r)' = Home(r) /\ Landed(r)' = Landed(r)
  BY <1>1, Zenon DEF Home, Landed
<1>3. QED
  BY <1>1, <1>2 DEF IInv, Versions, Unstored, Copies, NoLostScale, TemplateLostToExport,
                    CheckAtHome, Requests, Edits

\* The controller manager: no pod of a controller that delete has found empty.
LEMMA ReconcileIInv ==
  ASSUME IInv, NEW rc \in RCs, Reconcile(rc)
  PROVE  IInv'
<1>1. TypeOK /\ rcs[rc] \in RC /\ running[rc] \in Nat /\ rcs[rc].replicas \in Nat
  BY Zenon DEF IInv, TypeOK, RC
<1>2. UNCHANGED <<client, rcs, version, req>>
  BY Zenon DEF Reconcile
<1>3. TypeOK'
  BY <1>1, <1>2, ConstantsAssumption DEF TypeOK, Reconcile
<1>4. \A r \in Requests : Home(r)' = Home(r) /\ Landed(r)' = Landed(r) /\ Home(r) \in RCs
  BY <1>1, <1>2, Places, Zenon DEF Home, Landed
<1>5. /\ \A c \in RCs : c # rc => running'[c] = running[c]
      /\ rcs[rc].replicas = 0 /\ running[rc] = 0 => running'[rc] = 0
  BY <1>1 DEF TypeOK, Reconcile
<1>6. CheckAtHome'
  BY <1>2, <1>4, <1>5, Zenon DEF IInv, CheckAtHome
<1>7. QED
  BY <1>2, <1>3, <1>4, <1>6 DEF IInv, Versions, Unstored, Copies, NoLostScale,
                                TemplateLostToExport, Requests, Edits
-----------------------------------------------------------------------------
LEMMA NextIInv == IInv /\ [Next]_vars => IInv'
<1> SUFFICES ASSUME IInv, [Next]_vars PROVE IInv'
  BY Zenon
<1>1. CASE UNCHANGED vars
  <2>1. TypeOK' /\ UNCHANGED <<rcs, running, version, req>>
    BY <1>1, Zenon DEF IInv, TypeOK, vars
  <2>2. \A r \in Requests : Home(r)' = Home(r) /\ Landed(r)' = Landed(r)
    BY <2>1, Zenon DEF Home, Landed
  <2>3. QED
    BY <2>1, <2>2 DEF IInv, Versions, Unstored, Copies, NoLostScale, TemplateLostToExport,
                      CheckAtHome, Requests, Edits
<1>2. ASSUME NEW r \in Requests, editReplicationController(r) \/ GetForExport(r) PROVE IInv'
  BY <1>2, FailIInv, ReadIInv, Zenon DEF editReplicationController, GetForExport
<1>3. ASSUME NEW r \in Requests,
             updateReplicationController(r) \/ updateReplicationControllerWithPod(r)
      PROVE  IInv'
  BY <1>3, FailIInv, StoreIInv, Zenon DEF updateReplicationController, updateReplicationControllerWithPod
<1>4. ASSUME NEW r \in Requests, CheckReplicas(r) \/ deleteReplicationController(r) PROVE IInv'
  BY <1>4, CheckIInv, DeleteIInv
<1>5. CASE Switch
  BY <1>5, SwitchIInv
<1>6. ASSUME NEW rc \in RCs,
             createReplicationController(rc) \/ Reconcile(rc) \/ ReportStatus(rc)
      PROVE  IInv'
  BY <1>6, CreateIInv, ReconcileIInv, ReportIInv
<1>7. QED
  BY <1>1, <1>2, <1>3, <1>4, <1>5, <1>6 DEF Next

LEMMA SpecIInv == Spec => []IInv
BY InitIInv, NextIInv, PTL DEF Spec

(***************************************************************************)
(* Theorem: a change of spec.replicas is never undone by an older form     *)
(* (updateReplicationController) nor by an export                          *)
(* (updateReplicationControllerWithPod), for any number of them, and even  *)
(* when the console is moved between clusters.                             *)
(***************************************************************************)
THEOREM ScalesKept == Spec => []NoLostScale
<1>1. IInv => NoLostScale
  BY DEF IInv
<1>2. QED
  BY <1>1, SpecIInv, PTL

(***************************************************************************)
(* Theorem: a change of the template is only lost to a later export        *)
(* (updateReplicationControllerWithPod).                                   *)
(***************************************************************************)
THEOREM TemplatesKept == Spec => []TemplateLostToExport
<1>1. IInv => TemplateLostToExport
  BY Zenon DEF IInv
<1>2. QED
  BY <1>1, SpecIInv, PTL

(***************************************************************************)
(* Theorem: what deleteReplicationController has checked holds until the   *)
(* controller is written, or the console talks to another cluster.         *)
(***************************************************************************)
THEOREM ChecksHold == Spec => []CheckHoldsUntilWrite
<1>1. IInv => CheckHoldsUntilWrite
  <2> SUFFICES ASSUME IInv, NEW r \in Deletes, req[r].pc = "delete", Target(r).exists,
                      req[r].at = client
               PROVE  \/ Target(r).rv > req[r].read.rv
                      \/ /\ Target(r).replicas = 0 /\ Target(r).observed = 0
                         /\ req[r].inStep => running[Here(r)] = 0
    BY Zenon DEF CheckHoldsUntilWrite
  <2>1. r \in Requests /\ Here(r) = Home(r) /\ Target(r) = rcs[Home(r)]
    BY DEF Requests, Here, Home, Target
  <2>2. QED
    BY <2>1, Zenon DEF IInv, CheckAtHome
<1>2. QED
  BY <1>1, SpecIInv, PTL
-----------------------------------------------------------------------------
(***************************************************************************)
(* ObjectForms, for any services, nodes and pods and any number of forms.  *)
(*                                                                         *)
(* The properties are not inductive as they stand. NoLostEdit needs that a *)
(* form of a service whose version is the stored one shows what is stored  *)
(* (FormCopies), which holds as every write takes a new version            *)
(* (Revisions). LostToStaleForm needs the same fact of every form that is  *)
(* still open: what was stored before the form was filled is in the form,  *)
(* or was lost to another stale form already (SeenOrLost).                 *)
(***************************************************************************)

\* No version is ahead of the last one given out.
Revisions ==
  /\ \A o \in Objects : store[o].rv <= revision /\ store[o].born <= revision
  /\ \A f \in Forms : form[f].stored <= revision /\ form[f].filled <= revision

\* Only an answered form has stored anything.
FormUnstored == \A f \in Forms : form[f].pc # "done" => form[f].stored = 0

\* Only the handlers of nodes and pods get the object again.
GetsRefreshed == \A f \in Forms : form[f].pc = "get" => form[f].obj \in Refreshed

Active(f) == form[f].pc \in {"open", "get", "update"}

\* A form of a service carries the version it was filled with; if that is the
\* stored one, the form shows what is stored.
FormCopies ==
  \A f \in Forms : Active(f) /\ form[f].obj \notin Refreshed =>
    /\ form[f].rv = form[f].filled
    /\ Subject(f).exists /\ form[f].filled = Subject(f).rv => form[f].seen = Subject(f).edits

\* The edit of f was overwritten by a form that was filled before it was stored.
Lost(f) ==
  \E g \in Forms : /\ form[g].obj = form[f].obj
                   /\ form[g].filled < form[f].stored
                   /\ form[g].stored > form[f].stored

SeenOrLost ==
  \A g \in Forms, f \in Forms :
    Active(g) /\ EditLanded(f) /\ form[f].obj = form[g].obj /\ form[f].stored <= form[g].filled
      => f \in form[g].seen \/ Lost(f)

KeptOrLost == \A f \in Forms : EditLanded(f) => f \in Subject(f).edits \/ Lost(f)

FormIInv ==
  /\ FormTypeOK /\ Revisions /\ FormUnstored /\ GetsRefreshed /\ FormCopies
  /\ SeenOrLost /\ KeptOrLost /\ NoLostEdit
-----------------------------------------------------------------------------
\* The parts of the state that a form is about.
LEMMA FormPlaces ==
  ASSUME FormTypeOK, NEW f \in Forms
  PROVE  /\ form[f] \in Form /\ form[f].obj \in Objects /\ Subject(f) \in Object
         /\ form[f].stored \in Nat /\ form[f].filled \in Nat /\ revision \in Nat
         /\ Subject(f).rv \in Nat /\ Subject(f).born \in Nat
BY Zenon DEF FormTypeOK, Form, Object, Subject

LEMMA FormInitIInv == FormInit => FormIInv
<1> SUFFICES ASSUME FormInit PROVE FormIInv
  OBVIOUS
<1>1. \A o \in Objects : NewForm(o) \in Form
  BY Zenon DEF NewForm, Form
<1>2. FormTypeOK
  <2>1. [exists |-> TRUE, edits |-> {}, rv |-> 1, born |-> 1] \in Object
    BY DEF Object
  <2>2. store \in [Objects -> Object]
    BY <2>1, Zenon DEF FormInit
  <2>3. form \in [Forms -> Form]
    BY <1>1 DEF FormInit
  <2>4. QED
    BY <2>2, <2>3, Zenon DEF FormTypeOK, FormInit
<1>3. /\ \A f \in Forms : form[f].pc = "closed" /\ form[f].stored = 0 /\ form[f].filled = 0
      /\ \A o \in Objects : store[o].rv = 1 /\ store[o].born = 1
      /\ revision = 1
  BY DEF FormInit, NewForm
<1>4. Revisions /\ FormUnstored /\ GetsRefreshed
  BY <1>3 DEF Revisions, FormUnstored, GetsRefreshed
<1>5. \A f \in Forms : ~Active(f) /\ ~EditLanded(f)
  BY <1>3 DEF Active, EditLanded
<1>6. QED
  BY <1>2, <1>4, <1>5, Zenon DEF FormIInv, FormCopies, SeenOrLost, KeptOrLost, NoLostEdit

(***************************************************************************)
(* A step that stores no edit and takes none out of an object.             *)
(***************************************************************************)
LEMMA QuietIInv ==
  ASSUME FormIInv, FormTypeOK', Revisions', FormUnstored', GetsRefreshed', FormCopies',
         \A f \in Forms : /\ form'[f].obj = form[f].obj /\ form'[f].stored = form[f].stored
                          /\ form[f].stored # 0 => form'[f].filled = form[f].filled
                          /\ EditLanded(f)' => EditLanded(f) /\ Subject(f)'.edits = Subject(f).edits,
         \A g \in Forms : Active(g)' =>
           \/ Active(g) /\ form'[g].seen = form[g].seen /\ form'[g].filled = form[g].filled
           \/ form'[g].seen = Subject(g).edits
  PROVE  FormIInv'
<1>1. \A f \in Forms : Lost(f) => Lost(f)'
  <2> SUFFICES ASSUME NEW f \in Forms, Lost(f) PROVE Lost(f)'
    BY Zenon
  <2>1. PICK g \in Forms : /\ form[g].obj = form[f].obj
                           /\ form[g].filled < form[f].stored /\ form[g].stored > form[f].stored
    BY Zenon DEF Lost
  <2>2. form[g].stored # 0
    BY <2>1, FormPlaces DEF FormIInv
  <2>3. QED
    BY <2>1, <2>2, Zenon DEF Lost
<1>2. KeptOrLost'
  BY <1>1, Zenon DEF FormIInv, KeptOrLost
<1>3. NoLostEdit'
  BY Zenon DEF FormIInv, NoLostEdit
<1>4. SeenOrLost'
  <2> SUFFICES ASSUME NEW g \in Forms, NEW f \in Forms, Active(g)', EditLanded(f)',
                      form'[f].obj = form'[g].obj, form'[f].stored <= form'[g].filled
               PROVE  f \in form'[g].seen \/ Lost(f)'
    BY Zenon DEF SeenOrLost
  <2>1. EditLanded(f) /\ form[f].obj = form[g].obj
    BY Zenon
  <2>2. CASE Active(g) /\ form'[g].seen = form[g].seen /\ form'[g].filled = form[g].filled
    BY <1>1, <2>1, <2>2, Zenon DEF FormIInv, SeenOrLost
  <2>3. CASE form'[g].seen = Subject(g).edits
    BY <1>1, <2>1, <2>3, Zenon DEF FormIInv, KeptOrLost, Subject
  <2>4. QED
    BY <2>2, <2>3, Zenon
<1>5. QED
  BY <1>2, <1>3, <1>4 DEF FormIInv
-----------------------------------------------------------------------------
(***************************************************************************)
(* A step that only changes one form.                                      *)
(***************************************************************************)
LEMMA FormLocalIInv ==
  ASSUME FormIInv, NEW f \in Forms, NEW q \in Form, form' = [form EXCEPT ![f] = q],
         UNCHANGED <<store, revision>>,
         q.obj = form[f].obj, q.stored = form[f].stored, form[f].pc # "done",
         q.filled <= revision,
         q.pc = "get" => q.obj \in Refreshed,
         q.pc \in {"open", "get", "update"} =>
           /\ \/ Active(f) /\ q.seen = form[f].seen /\ q.filled = form[f].filled
              \/ q.seen = Subject(f).edits /\ q.rv = q.filled
           /\ q.obj \notin Refreshed => q.rv = q.filled
  PROVE  FormIInv'
<1>1. /\ form'[f] = q /\ \A g \in Forms : g # f => form'[g] = form[g]
      /\ FormTypeOK'
  BY Zenon DEF FormIInv, FormTypeOK
<1>2. q.stored = 0
  BY Zenon DEF FormIInv, FormUnstored
<1>3. Revisions' /\ FormUnstored' /\ GetsRefreshed'
  BY <1>1, <1>2 DEF FormIInv, Revisions, FormUnstored, GetsRefreshed
<1>4. \A g \in Forms : /\ form'[g].obj = form[g].obj /\ form'[g].stored = form[g].stored
                       /\ form[g].stored # 0 => form'[g].filled = form[g].filled
                       /\ Subject(g)' = Subject(g)
  BY <1>1, <1>2, Zenon DEF Subject
<1>5. \A g \in Forms : EditLanded(g)' => EditLanded(g) /\ Subject(g)'.edits = Subject(g).edits
  BY <1>4, Zenon DEF EditLanded
<1>6. FormCopies'
  BY <1>1, <1>4 DEF FormIInv, FormCopies, Active
<1>7. \A g \in Forms : Active(g)' =>
           \/ Active(g) /\ form'[g].seen = form[g].seen /\ form'[g].filled = form[g].filled
           \/ form'[g].seen = Subject(g).edits
  BY <1>1 DEF Active
<1>8. QED
  BY <1>1, <1>3, <1>4, <1>5, <1>6, <1>7, QuietIInv, Zenon

\* The error page of every handler.
LEMMA AnswerIInv ==
  ASSUME FormIInv, NEW f \in Forms, NEW resp \in {"error", "redirect"}, form[f].pc # "done",
         form' = [form EXCEPT ![f].pc = "done", ![f].resp = resp], UNCHANGED <<store, revision>>
  PROVE  FormIInv'
<1> DEFINE q == [form[f] EXCEPT !.pc = "done", !.resp = resp]
<1>1. form[f] \in Form /\ form[f].filled <= revision
  BY FormPlaces DEF FormIInv, Revisions
<1>2. q \in Form /\ q.obj = form[f].obj /\ q.stored = form[f].stored /\ q.filled = form[f].filled /\ q.pc = "done"
  BY <1>1, Zenon DEF Form
<1>3. form' = [form EXCEPT ![f] = q]
  BY Zenon DEF FormIInv, FormTypeOK
<1> HIDE DEF q
<1>4. QED
  BY <1>1, <1>2, <1>3, FormLocalIInv, Zenon

LEMMA EditIInv == ASSUME FormIInv, NEW f \in Forms, edit(f) PROVE FormIInv'
<1>1. form[f].pc = "closed" /\ UNCHANGED <<store, revision>>
  BY DEF edit
<1>2. CASE form' = [form EXCEPT ![f].pc = "open", ![f].seen = Subject(f).edits,
                                ![f].filled = Subject(f).rv, ![f].rv = Subject(f).rv]
  <2> DEFINE q == [form[f] EXCEPT !.pc = "open", !.seen = Subject(f).edits,
                                  !.filled = Subject(f).rv, !.rv = Subject(f).rv]
  <2>1. form[f] \in Form /\ Subject(f) \in Object /\ Subject(f).rv <= revision
    BY FormPlaces DEF FormIInv, Revisions, Subject
  <2>2. /\ q \in Form /\ q.obj = form[f].obj /\ q.stored = form[f].stored
        /\ q.filled = Subject(f).rv /\ q.seen = Subject(f).edits /\ q.rv = Subject(f).rv
        /\ q.pc = "open"
    BY <2>1, Zenon DEF Form, Object
  <2>3. form' = [form EXCEPT ![f] = q]
    BY <1>2, Zenon DEF FormIInv, FormTypeOK
  <2> HIDE DEF q
  <2>4. QED
    BY <1>1, <2>1, <2>2, <2>3, FormLocalIInv, Zenon
<1>3. CASE form' = [form EXCEPT ![f].pc = "done", ![f].resp = "error"]
  BY <1>1, <1>3, AnswerIInv, Zenon
<1>4. QED
  BY <1>2, <1>3, Zenon DEF edit

LEMMA PostIInv == ASSUME FormIInv, NEW f \in Forms, post(f) PROVE FormIInv'
<1> DEFINE pc == IF form[f].obj \in Refreshed THEN "get" ELSE "update"
<1>1. form[f].pc = "open" /\ UNCHANGED <<store, revision>>
  BY DEF post
<1>2. CASE form' = [form EXCEPT ![f].pc = pc]
  <2> DEFINE q == [form[f] EXCEPT !.pc = pc]
  <2>1. form[f] \in Form /\ form[f].filled <= revision
    BY FormPlaces DEF FormIInv, Revisions
  <2>2. /\ q \in Form /\ q.obj = form[f].obj /\ q.stored = form[f].stored
        /\ q.filled = form[f].filled /\ q.seen = form[f].seen /\ q.rv = form[f].rv
        /\ q.pc = pc
    BY <2>1 DEF Form
  <2>3. form' = [form EXCEPT ![f] = q]
    BY <1>2 DEF FormIInv, FormTypeOK
  <2>4. Active(f) /\ (q.obj \notin Refreshed => q.rv = q.filled)
    BY <1>1, <2>2 DEF Active, FormIInv, FormCopies
  <2> HIDE DEF q
  <2>5. QED
    BY <1>1, <2>1, <2>2, <2>3, <2>4, FormLocalIInv, Zenon
<1>3. CASE form' = [form EXCEPT ![f].pc = "done", ![f].resp = "error"]
  BY <1>1, <1>3, AnswerIInv, Zenon
<1>4. QED
  BY <1>2, <1>3 DEF post

\* Only forms of nodes and pods get the version again.
LEMMA GetVersionIInv == ASSUME FormIInv, NEW f \in Forms, GetVersion(f) PROVE FormIInv'
<1>1. form[f].pc = "get" /\ UNCHANGED <<store, revision>>
  BY DEF GetVersion
<1>2. PICK v \in {Subject(f).rv, NoVersion} : form' = [form EXCEPT ![f].pc = "update", ![f].rv = v]
  BY Zenon DEF GetVersion
<1> DEFINE q == [form[f] EXCEPT !.pc = "update", !.rv = v]
<1>3. form[f] \in Form /\ form[f].filled <= revision /\ Subject(f).rv \in Nat
  BY FormPlaces DEF FormIInv, Revisions
<1>4. /\ q \in Form /\ q.obj = form[f].obj /\ q.stored = form[f].stored
      /\ q.filled = form[f].filled /\ q.seen = form[f].seen /\ q.pc = "update"
  BY <1>3, Zenon DEF Form
<1>5. form' = [form EXCEPT ![f] = q]
  BY <1>2, Zenon DEF FormIInv, FormTypeOK
<1>6. Active(f) /\ form[f].obj \in Refreshed
  BY <1>1 DEF Active, FormIInv, GetsRefreshed
<1> HIDE DEF q
<1>7. QED
  BY <1>1, <1>3, <1>4, <1>5, <1>6, FormLocalIInv, Zenon
-----------------------------------------------------------------------------
(***************************************************************************)
(* A step that replaces one object without storing an edit: it removes the *)
(* object, gives it a new version, or creates it with new versions.        *)
(***************************************************************************)
LEMMA ObjectIInv ==
  ASSUME FormIInv, NEW o \in Objects, NEW n \in Object, store' = [store EXCEPT ![o] = n],
         revision' \in Nat, revision <= revision', n.rv <= revision', n.born <= revision',
         \/ ~n.exists
         \/ n.rv > revision /\ n.born > revision
         \/ n.rv > revision /\ store[o].exists /\ n.born = store[o].born /\ n.edits = store[o].edits,
         form \in [Forms -> Form], form' \in [Forms -> Form],
         \A f \in Forms : /\ form'[f].obj = form[f].obj /\ form'[f].stored = form[f].stored
                          /\ form'[f].filled = form[f].filled /\ form'[f].seen = form[f].seen
                          /\ form'[f].rv = form[f].rv
                          /\ form'[f].pc \in {form[f].pc, "done"}
  PROVE  FormIInv'
<1>1. /\ store'[o] = n /\ \A x \in Objects : x # o => store'[x] = store[x]
      /\ FormTypeOK' /\ FormTypeOK
  BY Zenon DEF FormIInv, FormTypeOK
<1>2. \A f \in Forms : /\ form[f].stored \in Nat /\ form[f].filled \in Nat /\ form[f].obj \in Objects
                       /\ form[f].stored <= revision /\ form[f].filled <= revision
  BY <1>1, FormPlaces, Zenon DEF FormIInv, Revisions
<1>3. \A x \in Objects : store[x].rv \in Nat /\ store[x].born \in Nat /\ store[x].rv <= revision /\ store[x].born <= revision
  BY <1>1, Zenon DEF FormIInv, Revisions, FormTypeOK, Object
<1>4. revision \in Nat /\ n.rv \in Nat /\ n.born \in Nat
  BY <1>1, Zenon DEF FormTypeOK, Object
<1>5. Revisions'
  BY <1>1, <1>2, <1>3, <1>4 DEF Revisions
<1>6. FormUnstored' /\ GetsRefreshed'
  BY Zenon DEF FormIInv, FormUnstored, GetsRefreshed
<1>7. FormCopies'
  <2> SUFFICES ASSUME NEW f \in Forms, Active(f)', form'[f].obj \notin Refreshed
               PROVE  /\ form'[f].rv = form'[f].filled
                      /\ Subject(f)'.exists /\ form'[f].filled = Subject(f)'.rv
                           => form'[f].seen = Subject(f)'.edits
    BY Zenon DEF FormCopies
  <2>1. /\ form[f].rv = form[f].filled
        /\ Subject(f).exists /\ form[f].filled = Subject(f).rv => form[f].seen = Subject(f).edits
    BY Zenon DEF FormIInv, FormCopies, Active
  <2>2. CASE form[f].obj = o
    BY <1>1, <1>2, <1>4, <2>1, <2>2 DEF Subject
  <2>3. CASE form[f].obj # o
    BY <1>1, <1>2, <2>1, <2>3 DEF Subject
  <2>4. QED
    BY <2>2, <2>3, Zenon
<1>8. \A f \in Forms : EditLanded(f)' => EditLanded(f) /\ Subject(f)'.edits = Subject(f).edits
  <2> SUFFICES ASSUME NEW f \in Forms, EditLanded(f)'
               PROVE  EditLanded(f) /\ Subject(f)'.edits = Subject(f).edits
    BY Zenon
  <2>1. CASE form[f].obj = o
    BY <1>1, <1>2, <1>4, <2>1 DEF EditLanded, Subject
  <2>2. CASE form[f].obj # o
    BY <1>1, <1>2, <2>2, Zenon DEF EditLanded, Subject
  <2>3. QED
    BY <2>1, <2>2, Zenon
<1>9. \A g \in Forms : Active(g)' => Active(g)
  BY DEF Active
<1>10. QED
  BY <1>1, <1>5, <1>6, <1>7, <1>8, <1>9, QuietIInv, Zenon

LEMMA FormDeleteIInv == ASSUME FormIInv, NEW f \in Forms, delete(f) PROVE FormIInv'
<1>1. form[f].pc = "open" /\ revision' = revision
  BY DEF delete
<1>2. CASE store' = [store EXCEPT ![form[f].obj].exists = FALSE]
  <2> DEFINE o == form[f].obj
             n == [store[o] EXCEPT !.exists = FALSE]
  <2>1. PICK resp \in {"redirect", "error"} : form' = [form EXCEPT ![f].pc = "done", ![f].resp = resp]
    BY Zenon DEF delete
  <2>2. FormTypeOK /\ o \in Objects /\ store[o] \in Object /\ form[f] \in Form /\ revision \in Nat
    BY FormPlaces DEF FormIInv, Subject, FormTypeOK
  <2>3. n \in Object /\ ~n.exists /\ n.rv = store[o].rv /\ n.born = store[o].born
    BY <2>2, Zenon DEF Object
  <2>4. n.rv <= revision /\ n.born <= revision
    BY <2>2, <2>3 DEF FormIInv, Revisions
  <2>5. store' = [store EXCEPT ![o] = n]
    BY <1>2, <2>2, Zenon DEF FormTypeOK
  <2>6. /\ form \in [Forms -> Form] /\ form' \in [Forms -> Form]
        /\ \A g \in Forms : /\ form'[g].obj = form[g].obj /\ form'[g].stored = form[g].stored
                            /\ form'[g].filled = form[g].filled /\ form'[g].seen = form[g].seen
                            /\ form'[g].rv = form[g].rv
                            /\ form'[g].pc \in {form[g].pc, "done"}
    <3> DEFINE q == [form[f] EXCEPT !.pc = "done", !.resp = resp]
    <3>1. /\ q \in Form /\ q.obj = form[f].obj /\ q.stored = form[f].stored /\ q.filled = form[f].filled
          /\ q.seen = form[f].seen /\ q.rv = form[f].rv /\ q.pc = "done"
      BY <2>2, Zenon DEF Form
    <3>2. form' = [form EXCEPT ![f] = q] /\ form \in [Forms -> Form]
      BY <2>1, <2>2, Zenon DEF FormTypeOK
    <3> HIDE DEF q
    <3>3. form'[f] = q /\ \A g \in Forms : g # f => form'[g] = form[g]
      BY <3>2, Zenon
    <3>4. QED
      BY <3>1, <3>2, <3>3
  <2> HIDE DEF o, n
  <2>7. revision <= revision'
    BY <1>1, <2>2
  <2>8. QED
    BY <1>1, <2>2, <2>3, <2>4, <2>5, <2>6, <2>7, ObjectIInv, Zenon
<1>3. CASE form' = [form EXCEPT ![f].pc = "done", ![f].resp = "error"] /\ UNCHANGED store
  BY <1>1, <1>3, AnswerIInv, Zenon
<1>4. QED
  BY <1>2, <1>3 DEF delete

LEMMA OthersIInv ==
  ASSUME FormIInv, NEW o \in Objects, create(o) \/ remove(o) \/ StatusUpdate(o) PROVE FormIInv'
<1>1. /\ FormTypeOK /\ store[o] \in Object /\ revision \in Nat /\ form' = form
      /\ store[o].rv <= revision /\ store[o].born <= revision
      /\ store[o].rv \in Nat /\ store[o].born \in Nat
  BY Zenon DEF FormIInv, FormTypeOK, Revisions, Object, create, remove, StatusUpdate
<1>2. /\ form \in [Forms -> Form] /\ form' \in [Forms -> Form]
      /\ \A f \in Forms : /\ form'[f].obj = form[f].obj /\ form'[f].stored = form[f].stored
                          /\ form'[f].filled = form[f].filled /\ form'[f].seen = form[f].seen
                          /\ form'[f].rv = form[f].rv
                          /\ form'[f].pc \in {form[f].pc, "done"}
  BY <1>1 DEF FormTypeOK
<1>3. CASE create(o)
  <2> DEFINE n == [exists |-> TRUE, edits |-> {}, rv |-> revision + 1, born |-> revision + 1]
  <2>1. n \in Object /\ n.rv = revision + 1 /\ n.born = revision + 1
    BY <1>1 DEF Object
  <2>2. store' = [store EXCEPT ![o] = n] /\ revision' = revision + 1
    BY <1>3, Zenon DEF create
  <2> HIDE DEF n
  <2>3. revision' \in Nat /\ revision <= revision' /\ n.rv <= revision' /\ n.born <= revision'
    BY <1>1, <2>1, <2>2
  <2>4. n.rv > revision /\ n.born > revision
    BY <1>1, <2>1, <2>2
  <2>5. QED
    BY <1>2, <2>1, <2>2, <2>3, <2>4, ObjectIInv, Zenon
<1>4. CASE remove(o)
  <2> DEFINE n == [store[o] EXCEPT !.exists = FALSE]
  <2>1. n \in Object /\ n.rv = store[o].rv /\ n.born = store[o].born /\ ~n.exists
    BY <1>1, Zenon DEF Object
  <2>2. store' = [store EXCEPT ![o] = n] /\ revision' = revision
    BY <1>1, <1>4, Zenon DEF remove, FormTypeOK
  <2> HIDE DEF n
  <2>3. revision' \in Nat /\ revision <= revision' /\ n.rv <= revision' /\ n.born <= revision'
    BY <1>1, <2>1, <2>2
  <2>4. ~n.exists
    BY <1>1, <2>1, <2>2, Zenon
  <2>5. QED
    BY <1>2, <2>1, <2>2, <2>3, <2>4, ObjectIInv, Zenon
<1>5. CASE StatusUpdate(o)
  <2> DEFINE n == [store[o] EXCEPT !.rv = revision + 1]
  <2>1. /\ n \in Object /\ n.rv = revision + 1 /\ n.born = store[o].born
        /\ n.edits = store[o].edits
    BY <1>1 DEF Object
  <2>2. store' = [store EXCEPT ![o] = n] /\ revision' = revision + 1 /\ store[o].exists
    BY <1>1, <1>5, Zenon DEF StatusUpdate, FormTypeOK
  <2> HIDE DEF n
  <2>3. revision' \in Nat /\ revision <= revision' /\ n.rv <= revision' /\ n.born <= revision'
    BY <1>1, <2>1, <2>2
  <2>4. n.rv > revision /\ store[o].exists /\ n.born = store[o].born /\ n.edits = store[o].edits
    BY <1>1, <2>1, <2>2
  <2>5. QED
    BY <1>2, <2>1, <2>2, <2>3, <2>4, ObjectIInv, Zenon
<1>6. QED
  BY <1>3, <1>4, <1>5
-----------------------------------------------------------------------------
(***************************************************************************)
(* The update that a form stores. What it overwrites in a service is what  *)
(* it was filled with; in a node or a pod it takes out only edits that     *)
(* were stored after it was filled.                                        *)
(***************************************************************************)
LEMMA StoredIInv == ASSUME FormIInv, NEW f \in Forms, UpdateStored(f) PROVE FormIInv'
<1> DEFINE o == form[f].obj
           v == revision + 1
           edits == form[f].seen \union {f}
           n == [store[o] EXCEPT !.edits = edits, !.rv = v]
<1>1. FormTypeOK /\ o \in Objects /\ store[o] \in Object /\ form[f] \in Form /\ revision \in Nat
  BY FormPlaces, Zenon DEF FormIInv, Subject, FormTypeOK
<1>2. form[f].pc = "update" /\ store[o].exists /\ form[f].rv \in {store[o].rv, NoVersion} /\ revision' = v
  BY DEF UpdateStored, Subject
<1>3. PICK resp \in {"redirect", "error"} :
        form' = [form EXCEPT ![f].pc = "done", ![f].stored = v, ![f].resp = resp]
  BY Zenon DEF UpdateStored
<1> DEFINE q == [form[f] EXCEPT !.pc = "done", !.stored = v, !.resp = resp]
<1>4. /\ n \in Object /\ n.exists = store[o].exists /\ n.born = store[o].born
      /\ n.edits = form[f].seen \union {f} /\ n.rv = v
  <2>1. edits \in SUBSET Forms /\ v \in Nat
    BY <1>1 DEF Form
  <2>2. n.edits = form[f].seen \union {f} <=> n.edits = edits
    OBVIOUS
  <2> HIDE DEF edits, v, o
  <2>3. QED
    BY <1>1, <2>1, <2>2, Zenon DEF Object
<1>5. /\ q \in Form /\ q.obj = o /\ q.pc = "done" /\ q.stored = v /\ q.filled = form[f].filled
  <2>1. v \in Nat
    BY <1>1
  <2> HIDE DEF v
  <2>2. QED
    BY <1>1, <2>1, Zenon DEF Form
<1>6. store' = [store EXCEPT ![o] = n] /\ form' = [form EXCEPT ![f] = q]
  BY <1>1, <1>3, Zenon DEF UpdateStored, FormTypeOK
<1> HIDE DEF n, q
<1>7. /\ store'[o] = n /\ \A x \in Objects : x # o => store'[x] = store[x]
      /\ form'[f] = q /\ \A g \in Forms : g # f => form'[g] = form[g]
  BY <1>1, <1>6, Zenon DEF FormTypeOK
<1>8. FormTypeOK'
  BY <1>1, <1>2, <1>4, <1>5, <1>6 DEF FormTypeOK
<1>9. /\ \A x \in Objects : /\ store[x].rv \in Nat /\ store[x].born \in Nat
                            /\ store[x].rv <= revision /\ store[x].born <= revision
      /\ \A g \in Forms : /\ form[g].stored \in Nat /\ form[g].filled \in Nat /\ form[g].obj \in Objects
                          /\ form[g].stored <= revision /\ form[g].filled <= revision
  BY <1>1, FormPlaces DEF FormIInv, Revisions, FormTypeOK, Object
<1>10. \A g \in Forms : form'[g].obj = form[g].obj /\ form'[g].filled = form[g].filled
  BY <1>5, <1>7, Zenon
<1>11. Revisions'
  BY <1>1, <1>2, <1>4, <1>5, <1>7, <1>9 DEF Revisions
<1>12. FormUnstored' /\ GetsRefreshed'
  BY <1>5, <1>7, Zenon DEF FormIInv, FormUnstored, GetsRefreshed
<1>13. \A g \in Forms : Active(g)' => g # f /\ Active(g) /\ form'[g] = form[g]
  BY <1>5, <1>7, Zenon DEF Active
<1>14. FormCopies'
  <2> SUFFICES ASSUME NEW g \in Forms, Active(g)', form'[g].obj \notin Refreshed
               PROVE  /\ form'[g].rv = form'[g].filled
                      /\ Subject(g)'.exists /\ form'[g].filled = Subject(g)'.rv
                           => form'[g].seen = Subject(g)'.edits
    BY DEF FormCopies
  <2>1. form'[g] = form[g] /\ Active(g)
    BY <1>13, Zenon
  <2>2. /\ form[g].rv = form[g].filled
        /\ Subject(g).exists /\ form[g].filled = Subject(g).rv => form[g].seen = Subject(g).edits
    BY <2>1, Zenon DEF FormIInv, FormCopies
  <2>3. CASE form[g].obj = o
    <3>1. Subject(g)' = n
      BY <1>7, <2>1, <2>3, Zenon DEF Subject
    <3>2. form[g].filled # n.rv
      BY <1>1, <1>4, <1>9
    <3>3. QED
      BY <2>1, <2>2, <3>1, <3>2, Zenon
  <2>4. CASE form[g].obj # o
    <3>1. Subject(g)' = Subject(g)
      BY <1>7, <1>9, <2>1, <2>4, Zenon DEF Subject
    <3>2. QED
      BY <2>1, <2>2, <3>1, Zenon
  <2>5. QED
    BY <2>3, <2>4, Zenon
<1>15. \A g \in Forms : g # f /\ EditLanded(g)' => EditLanded(g) /\ form'[g] = form[g]
  <2> SUFFICES ASSUME NEW g \in Forms, g # f, EditLanded(g)' PROVE EditLanded(g) /\ form'[g] = form[g]
    BY Zenon
  <2>1. CASE form[g].obj = o
    BY <1>2, <1>4, <1>7, <2>1, Zenon DEF EditLanded, Subject
  <2>2. CASE form[g].obj # o
    BY <1>7, <1>9, <2>2, Zenon DEF EditLanded, Subject
  <2>3. QED
    BY <2>1, <2>2, Zenon
<1>16. \A g \in Forms : g # f /\ Lost(g) => Lost(g)'
  <2> SUFFICES ASSUME NEW g \in Forms, g # f, Lost(g) PROVE Lost(g)'
    BY Zenon
  <2>1. PICK h \in Forms : /\ form[h].obj = form[g].obj
                           /\ form[h].filled < form[g].stored /\ form[h].stored > form[g].stored
    BY Zenon DEF Lost
  <2>2. h # f
    BY <1>2, <1>9, <2>1 DEF FormIInv, FormUnstored
  <2>3. form'[h] = form[h] /\ form'[g] = form[g]
    BY <1>7, <2>2, Zenon
  <2>4. QED
    BY <2>1, <2>3 DEF Lost
<1>17. KeptOrLost'
  <2> SUFFICES ASSUME NEW g \in Forms, EditLanded(g)' PROVE g \in Subject(g)'.edits \/ Lost(g)'
    BY Zenon DEF KeptOrLost
  <2>1. CASE g = f
    BY <1>4, <1>5, <1>7, <2>1 DEF Subject
  <2>2. CASE g # f /\ form[g].obj # o
    BY <1>7, <1>9, <1>15, <1>16, <2>2, Zenon DEF FormIInv, KeptOrLost, Subject
  <2>3. CASE g # f /\ form[g].obj = o
    <3>1. EditLanded(g) /\ form'[g] = form[g]
      BY <1>15, <2>3, Zenon
    <3>2. CASE form[g].stored <= form[f].filled
      <4>1. g \in form[f].seen \/ Lost(g)
        <5>1. Active(f)
          BY <1>2, Zenon DEF Active
        <5>2. QED
          BY <2>3, <3>1, <3>2, <5>1, Zenon DEF FormIInv, SeenOrLost
      <4>2. QED
        BY <1>4, <1>7, <1>16, <2>3, <3>1, <4>1, Zenon DEF Subject
    <3>3. CASE form[f].filled < form[g].stored
      <4>1. form'[f].obj = form'[g].obj /\ form'[f].filled < form'[g].stored
        BY <1>5, <1>7, <2>3, <3>1, <3>3, Zenon
      <4>2. form'[f].stored > form'[g].stored
        BY <1>1, <1>5, <1>7, <1>9, <3>1
      <4>3. QED
        BY <4>1, <4>2, Zenon DEF Lost
    <3>4. QED
      BY <1>9, <3>2, <3>3
  <2>4. QED
    BY <2>1, <2>2, <2>3, Zenon
<1>18. SeenOrLost'
  <2> SUFFICES ASSUME NEW g \in Forms, NEW h \in Forms, Active(g)', EditLanded(h)',
                      form'[h].obj = form'[g].obj, form'[h].stored <= form'[g].filled
               PROVE  h \in form'[g].seen \/ Lost(h)'
    BY Zenon DEF SeenOrLost
  <2>1. form'[g] = form[g] /\ Active(g)
    BY <1>13, Zenon
  <2>2. h # f
    <3>1. form'[f].stored = v
      BY <1>5, <1>7, Zenon
    <3>2. form'[h].stored <= form[g].filled
      BY <2>1, Zenon
    <3>3. QED
      BY <1>1, <1>9, <3>1, <3>2
  <2>3. EditLanded(h) /\ form'[h] = form[h]
    BY <1>15, <2>2, Zenon
  <2>4. h \in form[g].seen \/ Lost(h)
    BY <2>1, <2>3, Zenon DEF FormIInv, SeenOrLost
  <2>5. QED
    BY <1>16, <2>1, <2>2, <2>4, Zenon
<1>19. NoLostEdit'
  <2> SUFFICES ASSUME NEW g \in Forms, EditLanded(g)', form'[g].obj \notin Refreshed
               PROVE  g \in Subject(g)'.edits
    BY Zenon DEF NoLostEdit
  <2>1. CASE g = f
    BY <1>4, <1>5, <1>7, <2>1, Zenon DEF Subject
  <2>2. CASE g # f
    <3>1. EditLanded(g) /\ form'[g] = form[g] /\ g \in Subject(g).edits
      BY <1>15, <2>2 DEF FormIInv, NoLostEdit
    <3>2. CASE form[g].obj = o
      <4>1. form[f].rv = form[f].filled
        BY <1>2, <1>10, <3>2, Zenon DEF FormIInv, FormCopies, Active
      <4>2. form[f].filled = store[o].rv
        BY <1>2, <1>9, <4>1, FormsAssumption
      <4>3. form[f].seen = store[o].edits
        BY <1>2, <1>10, <3>2, <4>2, Zenon DEF FormIInv, FormCopies, Active, Subject
      <4>4. QED
        BY <1>4, <1>7, <3>1, <3>2, <4>3, Zenon DEF Subject
    <3>3. CASE form[g].obj # o
      BY <1>7, <1>9, <3>1, <3>3, Zenon DEF Subject
    <3>4. QED
      BY <3>2, <3>3, Zenon
  <2>3. QED
    BY <2>1, <2>2, Zenon
<1>20. QED
  BY <1>8, <1>11, <1>12, <1>14, <1>17, <1>18, <1>19, Zenon DEF FormIInv
-----------------------------------------------------------------------------
LEMMA FormNextIInv == FormIInv /\ [FormNext]_formVars => FormIInv'
<1> SUFFICES ASSUME FormIInv, [FormNext]_formVars PROVE FormIInv'
  BY Zenon
<1>1. ASSUME NEW f \in Forms, edit(f) \/ post(f) \/ GetVersion(f) PROVE FormIInv'
  BY <1>1, EditIInv, PostIInv, GetVersionIInv, Zenon
<1>2. ASSUME NEW f \in Forms, UpdateStored(f) \/ delete(f) PROVE FormIInv'
  BY <1>2, StoredIInv, FormDeleteIInv
<1>3. ASSUME NEW f \in Forms, UpdateRefused(f) PROVE FormIInv'
  BY <1>3, AnswerIInv, Zenon DEF UpdateRefused
<1>4. ASSUME NEW o \in Objects, create(o) \/ remove(o) \/ StatusUpdate(o) PROVE FormIInv'
  BY <1>4, OthersIInv
<1>5. CASE UNCHANGED formVars
  BY <1>5, Zenon DEF formVars, FormIInv, FormTypeOK, Revisions, FormUnstored, GetsRefreshed, FormCopies, SeenOrLost, KeptOrLost,
              NoLostEdit, Active, Lost, EditLanded, Subject
<1>6. QED
  BY <1>1, <1>2, <1>3, <1>4, <1>5, Zenon DEF FormNext

LEMMA FormSpecIInv == FormSpec => []FormIInv
BY FormInitIInv, FormNextIInv, PTL DEF FormSpec

(***************************************************************************)
(* What updateService and updateEndpoints have stored is never undone by   *)
(* another form, however many there are.                                   *)
(***************************************************************************)
THEOREM EditsKept == FormSpec => []NoLostEdit
<1>1. FormIInv => NoLostEdit
  BY Zenon DEF FormIInv
<1>2. QED
  BY <1>1, FormSpecIInv, PTL

(***************************************************************************)
(* An edit of a node or a pod is undone only by updateNode or updatePod    *)
(* with a form that was filled before the edit was stored.                 *)
(***************************************************************************)
THEOREM OnlyStaleForms == FormSpec => []LostToStaleForm
<1>1. FormIInv => LostToStaleForm
  BY DEF FormIInv, KeptOrLost, Lost, LostToStaleForm
<1>2. QED
  BY <1>1, FormSpecIInv, PTL
-----------------------------------------------------------------------------
(***************************************************************************)
(* KubeConfig, for any updates, any of them refused, any number of them at *)
(* once, and any number of crashes.                                        *)
(*                                                                         *)
(* The properties are about an update that has answered, and about         *)
(* configurations that have been installed. The inductive invariant says   *)
(* how far an update that has met no other one has come: which fields of   *)
(* KubeConfig and of its copy are its own, and what is in the file.        *)
(***************************************************************************)

\* Goroutines live while the process is up, KubeConfig is set then, and a process
\* that has ended has answered nothing.
Living == /\ Up => config \in Configs
          /\ InFlight # {} => Up
          /\ ~Up => last = Default

\* An update that counts as alone is, and without a race every one does.
Alone == /\ \A u \in InFlight : upd[u].alone => InFlight = {u}
         /\ ~raced => \A u \in InFlight : upd[u].alone

\* The loops over the fields begin with the first.
AtFirst == \A u \in Updates : upd[u].pc \in {"new", "open", "write", "connect"} => upd[u].at = URL

\* Nothing is saved before the file is written.
NotSaved == \A u \in Updates : upd[u].pc \in {"new", "set", "marshal", "open", "write"} => ~upd[u].saved

\* The fields of c before field n are those of u.
Prefix(c, n, u) == \A f \in Fields : f < n => c[f] = u

\* How far u has come, if nobody else writes.
Progress(u) ==
  /\ upd[u].pc = "set" => Prefix(config, upd[u].at, u)
  /\ upd[u].pc # "set" => config = Whole(u)
  /\ upd[u].pc \in {"marshal", "build"} => Prefix(upd[u].copy, upd[u].at, u)
  /\ upd[u].pc \in {"open", "write", "connect"} => upd[u].copy = Whole(u)
  /\ upd[u].pc = "write" => file = Empty
  /\ upd[u].saved => file = Whole(u)

AloneProgress == \A u \in InFlight : upd[u].alone => Progress(u)

LastDone == last \in Updates => upd[last].pc = "done"

\* What NeverMixed says of the file and of the client.
WholeFile == ~raced => file \in {NoFile, Empty, Garbage} \/ \E o \in Origins : file = Whole(o)

WholeClient == ~raced /\ Up => \E o \in Origins : kubeClient = Whole(o)

ConfigIInv ==
  /\ ConfigTypeOK /\ Living /\ Alone /\ AtFirst /\ NotSaved /\ AloneProgress
  /\ LastDone /\ WholeFile /\ WholeClient /\ AloneInstalls
-----------------------------------------------------------------------------
LEMMA WholeTyped ==
  ASSUME NEW o \in Origins
  PROVE  Whole(o) \in Configs /\ \A f \in Fields : Whole(o)[f] = o
BY Zenon DEF Whole, Configs, Strings

LEMMA StepFacts ==
  ASSUME NEW q \in Update, NEW pc \in {"marshal", "open", "connect"}, q.pc \in {"set", "marshal", "build"}
  PROVE  /\ Step(q, pc) \in Update
         /\ Step(q, pc).copy = q.copy /\ Step(q, pc).alone = q.alone
         /\ Step(q, pc).saved = q.saved
         /\ q.at = 3 => Step(q, pc).pc = pc /\ Step(q, pc).at = URL
         /\ q.at # 3 => Step(q, pc).pc = q.pc /\ Step(q, pc).at = q.at + 1
<1>1. CASE q.at = 3
  <2>1. Step(q, pc) = [q EXCEPT !.pc = pc, !.at = URL]
    BY <1>1 DEF Step
  <2>2. URL \in Fields
    BY DEF URL, Fields
  <2>3. Step(q, pc) \in Update
    BY <2>1, <2>2, Zenon DEF Update
  <2>4. QED
    BY <1>1, <2>1, <2>2, <2>3 DEF Update
<1>2. CASE q.at # 3
  <2>1. Step(q, pc) = [q EXCEPT !.at = q.at + 1]
    BY <1>2, Zenon DEF Step
  <2>2. q.at + 1 \in Fields
    BY <1>2 DEF Update, Fields
  <2>3. Step(q, pc) \in Update
    BY <2>1, <2>2 DEF Update
  <2>4. QED
    BY <1>2, <2>1, <2>2, <2>3, Zenon DEF Update
<1>3. QED
  BY <1>1, <1>2

LEMMA DoneFacts ==
  ASSUME NEW q \in Update, NEW resp \in {"none", "unauthorized", "redirect", "panic"}
  PROVE  /\ Ended(q, resp) \in Update
         /\ Ended(q, resp).pc = "done" /\ Ended(q, resp).alone = q.alone
         /\ Ended(q, resp).saved = q.saved /\ Ended(q, resp).resp = resp
<1>1. Whole(Default) \in Configs
  BY WholeTyped DEF Origins
<1>2. URL \in Fields
  BY DEF URL, Fields
<1>3. Ended(q, resp) \in Update
  BY <1>1, <1>2, Zenon DEF Ended, Update
<1>4. QED
  BY <1>3, Zenon DEF Ended, Update

\* A prefix of all fields is all of them.
LEMMA PrefixWhole ==
  ASSUME NEW c \in Configs, NEW u, NEW n \in Fields, Prefix(c, n, u), n = 3 => c[3] = u
  PROVE  /\ n = 3 => c = Whole(u)
         /\ n # 3 /\ c[n] = u => Prefix(c, n + 1, u)
<1>1. ASSUME n = 3 PROVE c = Whole(u)
  <2>1. \A f \in Fields : c[f] = u
    BY <1>1 DEF Prefix, Fields
  <2>2. QED
    BY <2>1, Zenon DEF Whole, Configs
<1>2. ASSUME n # 3, c[n] = u PROVE Prefix(c, n + 1, u)
  BY <1>2 DEF Prefix, Fields
<1>3. QED
  BY <1>1, <1>2, Zenon
-----------------------------------------------------------------------------
LEMMA ConfigInitIInv == ConfigInit => ConfigIInv
<1> SUFFICES ASSUME ConfigInit PROVE ConfigIInv
  OBVIOUS
<1>1. Whole(Default) \in Configs /\ Default \in Origins
  BY WholeTyped, Zenon DEF Origins
<1>2. NewUpdate \in Update /\ NewUpdate.pc = "new" /\ NewUpdate.at = URL /\ ~NewUpdate.saved
  BY <1>1 DEF NewUpdate, Update, URL, Fields
<1>3. \A u \in Updates : upd[u] = NewUpdate
  BY DEF ConfigInit
<1>4. ConfigTypeOK
  <2>1. upd \in [Updates -> Update]
    BY <1>2, Zenon DEF ConfigInit
  <2>2. crashes \in 0..MaxCrashes
    BY ConfigAssumption DEF ConfigInit
  <2>3. Up
    BY <1>1, ConfigAssumption, Zenon DEF ConfigInit, Up
  <2>4. QED
    BY <1>1, <2>1, <2>2, <2>3, Zenon DEF ConfigInit, ConfigTypeOK
<1>5. InFlight = {}
  BY <1>2, <1>3, Zenon DEF InFlight
<1>6. Living /\ Alone /\ AloneProgress
  BY <1>1, <1>5 DEF ConfigInit, Living, Alone, AloneProgress
<1>7. AtFirst /\ NotSaved
  BY <1>2, <1>3, Zenon DEF AtFirst, NotSaved
<1>8. LastDone /\ AloneInstalls
  BY ConfigAssumption, Zenon DEF ConfigInit, LastDone, AloneInstalls
<1>9. WholeFile /\ WholeClient
  BY <1>1 DEF ConfigInit, WholeFile, WholeClient
<1>10. QED
  BY <1>4, <1>6, <1>7, <1>8, <1>9 DEF ConfigIInv

\* Who is in flight after a step of u.
LEMMA Flight ==
  ASSUME upd \in [Updates -> Update], NEW u \in InFlight, NEW q \in Update,
         upd' = [upd EXCEPT ![u] = q]
  PROVE  /\ q.pc \notin {"new", "done"} => InFlight' = InFlight
         /\ q.pc = "done" => InFlight' = InFlight \ {u}
         /\ upd'[u] = q /\ \A v \in Updates \ {u} : upd'[v] = upd[v]
BY Zenon DEF InFlight

(***************************************************************************)
(* A step of an update that stays in flight: what is left to be shown is   *)
(* how far it has come if it is alone.                                     *)
(***************************************************************************)
LEMMA StaysIInv ==
  ASSUME ConfigIInv, NEW u \in InFlight, NEW q \in Update,
         upd' = [upd EXCEPT ![u] = q],
         UNCHANGED <<kubeClient, raced, last, crashes>>,
         q.pc \notin {"new", "done"}, q.alone = upd[u].alone,
         q.pc \in {"open", "write", "connect"} => q.at = URL,
         q.pc \in {"set", "marshal", "open", "write"} => ~q.saved,
         config' \in Configs, file' \in Configs \union {NoFile, Empty, Garbage},
         upd[u].alone => Progress(u)', WholeFile'
  PROVE  ConfigIInv'
<1>1. upd \in [Updates -> Update] /\ u \in Updates
  BY DEF ConfigIInv, ConfigTypeOK, InFlight
<1>2. /\ InFlight' = InFlight /\ upd'[u] = q
      /\ \A v \in Updates \ {u} : upd'[v] = upd[v]
  BY <1>1, Flight, Zenon
<1>12. Up /\ Up'
  BY ConfigAssumption, Zenon DEF ConfigIInv, Living, Up
<1>3. ConfigTypeOK'
  <2>1. upd' \in [Updates -> Update]
    BY <1>1, Zenon
  <2>2. QED
    BY <1>12, <2>1, Zenon DEF ConfigIInv, ConfigTypeOK
<1>4. Living'
  BY <1>2, <1>12, Zenon DEF ConfigIInv, Living
<1>5. Alone'
  <2>1. \A v \in InFlight : upd'[v].alone = upd[v].alone
    BY <1>2, Zenon DEF InFlight
  <2>2. QED
    BY <1>2, <2>1, Zenon DEF ConfigIInv, Alone
<1>6. AtFirst' /\ NotSaved'
  BY <1>1, <1>2, Zenon DEF ConfigIInv, AtFirst, NotSaved
<1>7. AloneProgress'
  <2> SUFFICES ASSUME NEW v \in InFlight', upd'[v].alone PROVE Progress(v)'
    BY Zenon DEF AloneProgress
  <2>1. v = u
    BY <1>2, <1>5 DEF Alone
  <2>2. QED
    BY <1>2, <2>1, Zenon
<1>8. LastDone'
  BY <1>2, Zenon DEF ConfigIInv, LastDone, InFlight
<1>9. WholeClient'
  BY <1>12, Zenon DEF ConfigIInv, WholeClient
<1>10. AloneInstalls'
  BY <1>2, Zenon DEF AloneInstalls
<1>11. QED
  BY <1>3, <1>4, <1>5, <1>6, <1>7, <1>8, <1>9, <1>10, Zenon DEF ConfigIInv

\* Nobody races with an update that is alone.
LEMMA NoRacing ==
  ASSUME ConfigIInv, NEW u \in InFlight, upd[u].alone, NEW f, NEW o
  PROVE  Access(u, f, o) = {o} /\ StillTorn(u, f) = {}
BY Zenon DEF ConfigIInv, Alone, Access, Racing, StillTorn

\* What an access leaves is a value of a field.
LEMMA AccessTyped ==
  ASSUME NEW u, NEW f, NEW o \in Strings
  PROVE  Access(u, f, o) \subseteq Strings /\ StillTorn(u, f) \subseteq Strings
BY Zenon DEF Access, StillTorn, Tears, Strings

LEMMA SetFieldIInv ==
  ASSUME ConfigIInv, NEW u \in Updates, SetField(u)
  PROVE  ConfigIInv'
<1> DEFINE at == upd[u].at
<1> DEFINE q == Step(upd[u], "marshal")
<1>1. u \in InFlight /\ upd[u] \in Update /\ at \in Fields
  BY DEF SetField, InFlight, ConfigIInv, ConfigTypeOK, Update
<1>2. PICK o \in Access(u, at, u) \union StillTorn(u, at) : config' = [config EXCEPT ![at] = o]
  BY Zenon DEF SetField
<1>3. config \in Configs
  BY <1>1 DEF ConfigIInv, Living
<1>4. o \in Strings
  <2>1. u \in Strings
    BY Zenon DEF Origins, Strings
  <2>2. QED
    BY <1>2, <2>1, AccessTyped, Zenon
<1>5. config' \in Configs /\ config'[at] = o /\ \A f \in Fields \ {at} : config'[f] = config[f]
  BY <1>1, <1>2, <1>3, <1>4, Zenon DEF Configs
<1>6. /\ q \in Update /\ q.alone = upd[u].alone /\ q.saved = upd[u].saved
      /\ at = 3 => q.pc = "marshal" /\ q.at = URL
      /\ at # 3 => q.pc = "set" /\ q.at = at + 1
  BY <1>1, StepFacts, Zenon DEF SetField
<1>7. upd' = [upd EXCEPT ![u] = q] /\ upd'[u] = q /\ ~upd[u].saved
  BY <1>1, Zenon DEF SetField, ConfigIInv, ConfigTypeOK, NotSaved
<1>8. ASSUME upd[u].alone PROVE Progress(u)'
  <2>1. o = u
    BY <1>1, <1>2, <1>8, NoRacing, ZenonT(30)
  <2>2. Prefix(config, at, u)
    BY <1>1, <1>8, Zenon DEF ConfigIInv, AloneProgress, Progress, SetField
  <2>3. Prefix(config', at, u)
    BY <1>1, <1>5, <2>2 DEF Prefix, Fields
  <2>4. (at = 3 => config' = Whole(u)) /\ (at # 3 => Prefix(config', at + 1, u))
    BY <1>1, <1>5, <2>1, <2>3, PrefixWhole, Zenon
  <2>5. CASE at = 3
    <3>1. Prefix(upd'[u].copy, URL, u)
      BY DEF Prefix, Fields, URL
    <3>2. QED
      BY <1>6, <1>7, <2>4, <2>5, <3>1, Zenon DEF Progress
  <2>6. CASE at # 3
    BY <1>6, <1>7, <2>4, <2>6, Zenon DEF Progress, Prefix
  <2>7. QED
    BY <2>5, <2>6, Zenon
<1>9. UNCHANGED <<kubeClient, file, raced, last, crashes>>
  BY Zenon DEF SetField
<1>10. WholeFile' /\ file' \in Configs \union {NoFile, Empty, Garbage}
  BY <1>9, Zenon DEF ConfigIInv, WholeFile, ConfigTypeOK
<1>11. /\ q.pc \in {"set", "marshal"}
       /\ q.pc \in {"open", "write", "connect"} => q.at = URL
  BY <1>6
<1> HIDE DEF q
<1>12. QED
  BY <1>1, <1>5, <1>6, <1>7, <1>8, <1>9, <1>10, <1>11, StaysIInv, Zenon

LEMMA ReadFieldIInv ==
  ASSUME ConfigIInv, NEW u \in Updates, Marshal(u) \/ getKubeClient(u)
  PROVE  ConfigIInv'
<1>1. PICK to \in {"open", "connect"} :
        /\ upd[u].pc = (IF to = "open" THEN "marshal" ELSE "build")
        /\ \E o \in Access(u, upd[u].at, config[upd[u].at]) :
             upd' = [upd EXCEPT ![u] = [Step(upd[u], to) EXCEPT !.copy[upd[u].at] = o]]
        /\ UNCHANGED <<config, kubeClient, file, raced, last, crashes>>
  BY DEF Marshal, getKubeClient, ReadField
<1> DEFINE at == upd[u].at
<1> DEFINE from == upd[u].pc
<1> DEFINE p == Step(upd[u], to)
<1>2. u \in InFlight /\ upd[u] \in Update /\ at \in Fields /\ upd[u].copy \in Configs
  BY <1>1 DEF InFlight, ConfigIInv, ConfigTypeOK, Update
<1>3. PICK o \in Access(u, at, config[at]) : upd' = [upd EXCEPT ![u] = [p EXCEPT !.copy[at] = o]]
  BY <1>1, Zenon
<1>4. config \in Configs
  BY <1>2, Zenon DEF ConfigIInv, Living
<1>5. o \in Strings
  <2>1. config[at] \in Strings
    BY <1>2, <1>4, Zenon DEF Configs
  <2>2. QED
    BY <1>3, <2>1, AccessTyped, Zenon
<1>6. /\ p \in Update /\ p.copy = upd[u].copy /\ p.alone = upd[u].alone /\ p.saved = upd[u].saved
      /\ at = 3 => p.pc = to /\ p.at = URL
      /\ at # 3 => p.pc = from /\ p.at = at + 1
  BY <1>1, <1>2, StepFacts
<1> DEFINE c == [upd[u].copy EXCEPT ![at] = o]
<1> DEFINE q == [p EXCEPT !.copy = c]
<1>7. c \in Configs /\ c[at] = o /\ \A f \in Fields \ {at} : c[f] = upd[u].copy[f]
  BY <1>2, <1>5, Zenon DEF Configs
<1>8. [p EXCEPT !.copy[at] = o] = q
  BY <1>6, Zenon DEF Update
<1> HIDE DEF p, c
<1>9. /\ q \in Update /\ q.copy = c /\ q.alone = p.alone /\ q.saved = p.saved
      /\ q.pc = p.pc /\ q.at = p.at
  BY <1>6, <1>7 DEF Update
<1> HIDE DEF q
<1>10. upd' = [upd EXCEPT ![u] = q] /\ upd'[u] = q
  BY <1>2, <1>3, <1>8, Zenon DEF ConfigIInv, ConfigTypeOK
<1>11. from = "marshal" => ~upd[u].saved
  BY <1>2, Zenon DEF ConfigIInv, NotSaved
<1>12. ASSUME upd[u].alone PROVE Progress(u)'
  <2>1. Progress(u)
    BY <1>2, <1>12 DEF ConfigIInv, AloneProgress
  <2>2. config = Whole(u) /\ Prefix(upd[u].copy, at, u) /\ (upd[u].saved => file = Whole(u))
    BY <1>1, <2>1, Zenon DEF Progress
  <2>3. o = u
    <3>1. Access(u, at, config[at]) = {config[at]}
      BY <1>2, <1>12, NoRacing, Zenon
    <3>2. o = config[at]
      BY <1>3, <3>1, Zenon
    <3>3. QED
      BY <1>2, <2>2, <3>2 DEF Whole
  <2>4. Prefix(c, at, u)
    BY <1>2, <1>7, <2>2 DEF Prefix, Fields
  <2>5. (at = 3 => c = Whole(u)) /\ (at # 3 => Prefix(c, at + 1, u))
    BY <1>2, <1>7, <2>3, <2>4, PrefixWhole, Zenon
  <2>6. config' = Whole(u) /\ file' = file
    BY <1>1, <2>2
  <2>7. CASE at = 3
    BY <1>1, <1>6, <1>9, <1>10, <2>2, <2>5, <2>6, <2>7, Zenon DEF Progress
  <2>8. CASE at # 3
    BY <1>1, <1>6, <1>9, <1>10, <2>2, <2>5, <2>6, <2>8, Zenon DEF Progress
  <2>9. QED
    BY <2>7, <2>8, Zenon
<1>13. WholeFile' /\ file' \in Configs \union {NoFile, Empty, Garbage}
  BY <1>1, Zenon DEF ConfigIInv, WholeFile, ConfigTypeOK
<1>14. /\ q.pc \in {"marshal", "build", "open", "connect"}
       /\ q.pc \in {"open", "connect"} => q.at = URL
       /\ q.pc \in {"marshal", "open"} => ~q.saved
  BY <1>1, <1>6, <1>9, <1>11, Zenon
<1>15. config' \in Configs
  BY <1>1, <1>4
<1>16. QED
  BY <1>1, <1>2, <1>6, <1>9, <1>10, <1>12, <1>13, <1>14, <1>15, StaysIInv, Zenon

LEMMA OpenFileIInv ==
  ASSUME ConfigIInv, NEW u \in Updates, OpenFile(u)
  PROVE  ConfigIInv'
<1>1. u \in InFlight /\ upd[u] \in Update /\ upd[u].at = URL /\ ~upd[u].saved
  BY DEF OpenFile, InFlight, ConfigIInv, ConfigTypeOK, AtFirst, NotSaved
<1>2. config \in Configs /\ config' = config
  BY <1>1, Zenon DEF ConfigIInv, Living, OpenFile
<1>3. upd[u].alone => config = Whole(u) /\ upd[u].copy = Whole(u)
  BY <1>1, Zenon DEF ConfigIInv, AloneProgress, Progress, OpenFile
<1>4. Whole(Default) \in Configs
  BY WholeTyped DEF Origins
<1>5. CASE file' = Empty /\ upd' = [upd EXCEPT ![u].pc = "write"]
  <2> DEFINE q == [upd[u] EXCEPT !.pc = "write"]
  <2>1. /\ q \in Update /\ q.pc = "write" /\ q.alone = upd[u].alone /\ q.at = upd[u].at
        /\ q.saved = upd[u].saved /\ q.copy = upd[u].copy
    BY <1>1 DEF Update
  <2>2. upd' = [upd EXCEPT ![u] = q] /\ upd'[u] = q
    BY <1>5 DEF ConfigIInv, ConfigTypeOK
  <2> HIDE DEF q
  <2>3. upd[u].alone => Progress(u)'
    BY <1>1, <1>2, <1>3, <1>5, <2>1, <2>2, Zenon DEF Progress
  <2>4. WholeFile'
    BY <1>5 DEF WholeFile
  <2>5. UNCHANGED <<kubeClient, raced, last, crashes>>
    BY DEF OpenFile
  <2>6. QED
    BY <1>1, <1>2, <1>5, <2>1, <2>2, <2>3, <2>4, <2>5, StaysIInv, Zenon
<1>6. CASE file' = file /\ upd' = [upd EXCEPT ![u].pc = "build", ![u].copy = Whole(Default)]
  <2> DEFINE q == [upd[u] EXCEPT !.pc = "build", !.copy = Whole(Default)]
  <2>1. /\ q \in Update /\ q.pc = "build" /\ q.alone = upd[u].alone /\ q.at = upd[u].at
        /\ q.saved = upd[u].saved
    BY <1>1, <1>4, Zenon DEF Update
  <2>2. upd' = [upd EXCEPT ![u] = q] /\ upd'[u] = q
    BY <1>6, Zenon DEF ConfigIInv, ConfigTypeOK
  <2> HIDE DEF q
  <2>3. Prefix(q.copy, URL, u)
    BY DEF Prefix, Fields, URL
  <2>4. upd[u].alone => Progress(u)'
    BY <1>1, <1>2, <1>3, <1>6, <2>1, <2>2, <2>3, Zenon DEF Progress
  <2>5. WholeFile' /\ file' \in Configs \union {NoFile, Empty, Garbage}
    BY <1>6 DEF ConfigIInv, WholeFile, ConfigTypeOK, OpenFile
  <2>6. UNCHANGED <<kubeClient, raced, last, crashes>>
    BY DEF OpenFile
  <2>7. QED
    BY <1>1, <1>2, <2>1, <2>2, <2>4, <2>5, <2>6, StaysIInv, Zenon
<1>7. QED
  BY <1>5, <1>6, Zenon DEF OpenFile

LEMMA WriteFileIInv ==
  ASSUME ConfigIInv, NEW u \in Updates, WriteFile(u)
  PROVE  ConfigIInv'
<1>1. /\ u \in InFlight /\ upd[u] \in Update /\ upd[u].at = URL
      /\ ~upd[u].saved /\ upd[u].copy \in Configs
  BY Zenon DEF WriteFile, InFlight, ConfigIInv, ConfigTypeOK, AtFirst, NotSaved, Update
<1>2. config \in Configs /\ config' = config
  BY <1>1, Zenon DEF ConfigIInv, Living, WriteFile
<1>3. upd[u].alone => config = Whole(u) /\ upd[u].copy = Whole(u) /\ file = Empty
  BY <1>1 DEF ConfigIInv, AloneProgress, Progress, WriteFile
<1>4. PICK b \in BOOLEAN :
        /\ upd' = [upd EXCEPT ![u] = [@ EXCEPT !.pc = "build", !.copy = Whole(Default), !.saved = b]]
        /\ b => file' = upd[u].copy \/ (file # Empty /\ file' = Garbage)
        /\ ~b => file' \in {file, Garbage}
  <2>1. CASE /\ file' = upd[u].copy \/ (file # Empty /\ file' = Garbage)
             /\ upd' = [upd EXCEPT ![u].pc = "build", ![u].copy = Whole(Default), ![u].saved = TRUE]
    BY <2>1, Zenon
  <2>2. CASE /\ file' \in {file, Garbage}
             /\ upd' = [upd EXCEPT ![u].pc = "build", ![u].copy = Whole(Default)]
    <3>1. upd[u].saved = FALSE
      BY <1>1 DEF Update
    <3>2. [upd[u] EXCEPT !.pc = "build", !.copy = Whole(Default)]
            = [upd[u] EXCEPT !.pc = "build", !.copy = Whole(Default), !.saved = FALSE]
      BY <1>1, <3>1, Zenon DEF Update
    <3>3. QED
      BY <2>2, <3>2, Zenon
  <2>3. QED
    BY <2>1, <2>2, Zenon DEF WriteFile
<1> DEFINE q == [upd[u] EXCEPT !.pc = "build", !.copy = Whole(Default), !.saved = b]
<1>5. Whole(Default) \in Configs
  BY WholeTyped DEF Origins
<1>6. /\ q \in Update /\ q.pc = "build" /\ q.alone = upd[u].alone /\ q.at = upd[u].at
      /\ q.saved = b
  BY <1>1, <1>5, Zenon DEF Update
<1>7. upd' = [upd EXCEPT ![u] = q] /\ upd'[u] = q
  BY <1>4, Zenon DEF ConfigIInv, ConfigTypeOK
<1> HIDE DEF q
<1>8. Prefix(q.copy, URL, u)
  BY DEF Prefix, Fields, URL
<1>9. upd[u].alone => Progress(u)'
  BY <1>1, <1>2, <1>3, <1>4, <1>6, <1>7, <1>8, Zenon DEF Progress
<1>10. UNCHANGED <<kubeClient, raced, last, crashes>>
  BY DEF WriteFile
<1>11. file' \in Configs \union {NoFile, Empty, Garbage}
  BY <1>1, <1>4, Zenon DEF ConfigIInv, ConfigTypeOK
<1>12. WholeFile'
  <2>1. ASSUME ~raced PROVE file' \in {Empty, Garbage} \/ file' = Whole(u)
    <3>1. upd[u].alone
      BY <1>1, <2>1, Zenon DEF ConfigIInv, Alone
    <3>2. QED
      BY <1>3, <1>4, <3>1, Zenon
  <2>2. QED
    BY <1>10, <2>1 DEF WholeFile, Origins
<1>13. QED
  BY <1>1, <1>2, <1>6, <1>7, <1>9, <1>10, <1>11, <1>12, StaysIInv, Zenon

\* The last step of an update; it is here that AloneInstalls comes to hold.
LEMMA ConnectIInv ==
  ASSUME ConfigIInv, NEW u \in Updates, Connect(u)
  PROVE  ConfigIInv'
<1>1. u \in InFlight /\ upd[u] \in Update /\ upd[u].copy \in Configs
  BY Zenon DEF Connect, InFlight, ConfigIInv, ConfigTypeOK, Update
<1>2. PICK resp \in {"redirect", "panic"} :
        /\ upd' = [upd EXCEPT ![u] = Ended(upd[u], resp)]
        /\ kubeClient' = IF resp = "redirect" THEN upd[u].copy ELSE kubeClient
  BY Zenon DEF Connect
<1> DEFINE q == Ended(upd[u], resp)
<1>3. /\ q \in Update /\ q.pc = "done" /\ q.alone = upd[u].alone
      /\ q.saved = upd[u].saved /\ q.resp = resp
  BY <1>1, DoneFacts
<1> HIDE DEF q
<1>4. UNCHANGED <<config, file, raced, crashes>> /\ last' = u
  BY DEF Connect
<1>5. /\ InFlight' = InFlight \ {u} /\ upd'[u] = q
      /\ \A v \in Updates \ {u} : upd'[v] = upd[v]
  BY <1>1, <1>2, <1>3, Flight, Zenon DEF ConfigIInv, ConfigTypeOK, q
<1>6. upd[u].alone => /\ InFlight = {u} /\ config = Whole(u) /\ upd[u].copy = Whole(u)
                      /\ upd[u].saved => file = Whole(u)
  BY <1>1, Zenon DEF ConfigIInv, Alone, AloneProgress, Progress, Connect
<1>7. Up /\ Up'
  BY <1>1, <1>4, Zenon DEF ConfigIInv, Living, Up
<1>8. ConfigTypeOK'
  <2>1. upd' \in [Updates -> Update]
    BY <1>2, <1>3, Zenon DEF ConfigIInv, ConfigTypeOK, q
  <2>2. kubeClient' \in Configs
    BY <1>1, <1>2, <1>7, Zenon DEF ConfigIInv, ConfigTypeOK
  <2>3. QED
    BY <1>4, <1>7, <2>1, <2>2, Zenon DEF ConfigIInv, ConfigTypeOK, Origins
<1>9. Living'
  BY <1>4, <1>7, Zenon DEF ConfigIInv, Living
<1>10. Alone'
  <2>1. \A v \in InFlight' : v \in InFlight /\ v # u /\ upd'[v] = upd[v] /\ ~upd[v].alone
    BY <1>1, <1>5, Zenon DEF ConfigIInv, Alone, InFlight
  <2>2. QED
    BY <1>4, <2>1, Zenon DEF ConfigIInv, Alone
<1>11. AtFirst' /\ NotSaved'
  BY <1>3, <1>5, Zenon DEF ConfigIInv, AtFirst, NotSaved
<1>12. AloneProgress'
  BY <1>1, <1>5, Zenon DEF ConfigIInv, Alone, AloneProgress, InFlight
<1>13. LastDone'
  BY <1>3, <1>4, <1>5, Zenon DEF LastDone
<1>14. WholeFile'
  BY <1>4, Zenon DEF ConfigIInv, WholeFile
<1>15. WholeClient'
  <2> SUFFICES ASSUME ~raced' PROVE \E o \in Origins : kubeClient' = Whole(o)
    BY Zenon DEF WholeClient
  <2>1. upd[u].alone
    BY <1>1, <1>4, Zenon DEF ConfigIInv, Alone
  <2>2. CASE resp = "redirect"
    BY <1>2, <1>6, <2>1, <2>2, Zenon DEF Origins
  <2>3. CASE resp = "panic"
    BY <1>2, <1>4, <1>7, <2>3, Zenon DEF ConfigIInv, WholeClient
  <2>4. QED
    BY <2>2, <2>3
<1>16. AloneInstalls'
  BY <1>2, <1>3, <1>4, <1>5, <1>6, Zenon DEF AloneInstalls
<1>17. QED
  BY <1>8, <1>9, <1>10, <1>11, <1>12, <1>13, <1>14, <1>15, <1>16, Zenon DEF ConfigIInv

LEMMA UnauthorizedIInv ==
  ASSUME ConfigIInv, NEW u \in Updates, Unauthorized(u)
  PROVE  ConfigIInv'
<1> DEFINE q == Ended(upd[u], "unauthorized")
<1>1. upd[u] \in Update /\ upd \in [Updates -> Update] /\ upd[u].pc = "new"
  BY Zenon DEF Unauthorized, ConfigIInv, ConfigTypeOK
<1>2. q \in Update /\ q.pc = "done"
  BY <1>1, DoneFacts, Zenon
<1>3. upd' = [upd EXCEPT ![u] = q] /\ UNCHANGED <<config, kubeClient, file, raced, last, crashes>>
  BY Zenon DEF Unauthorized
<1> HIDE DEF q
<1>4. /\ upd'[u] = q /\ \A v \in Updates \ {u} : upd'[v] = upd[v]
      /\ upd' \in [Updates -> Update]
  BY <1>1, <1>2, <1>3, Zenon
<1>5. InFlight' = InFlight /\ u \notin InFlight
  BY <1>1, <1>2, <1>4, Zenon DEF InFlight
<1>6. \A v \in InFlight : upd'[v] = upd[v]
  BY <1>4, <1>5, Zenon DEF InFlight
<1>7. ConfigTypeOK'
  BY <1>3, <1>4, Zenon DEF ConfigIInv, ConfigTypeOK, Up
<1>8. Living' /\ Alone' /\ WholeFile' /\ WholeClient'
  BY <1>3, <1>5, <1>6, Zenon DEF ConfigIInv, Living, Alone, Up, WholeFile, WholeClient
<1>9. AtFirst' /\ NotSaved'
  BY <1>2, <1>4, Zenon DEF ConfigIInv, AtFirst, NotSaved
<1>10. AloneProgress'
  BY <1>3, <1>5, <1>6, Zenon DEF ConfigIInv, AloneProgress, Progress
<1>11. LastDone' /\ last # u
  BY <1>1, <1>3, <1>4, Zenon DEF ConfigIInv, LastDone
<1>12. AloneInstalls'
  <2>1. last \in Updates => upd'[last] = upd[last]
    BY <1>4, <1>11, Zenon
  <2>2. QED
    BY <1>3, <1>5, <2>1, Zenon DEF ConfigIInv, AloneInstalls
<1>13. QED
  BY <1>7, <1>8, <1>9, <1>10, <1>11, <1>12, Zenon DEF ConfigIInv

LEMMA updateConfigIInv ==
  ASSUME ConfigIInv, NEW u \in Updates, updateConfig(u)
  PROVE  ConfigIInv'
<1> DEFINE first == [upd[u] EXCEPT !.pc = "set", !.alone = InFlight = {}]
<1> DEFINE other(v) == [upd[v] EXCEPT !.alone = @ /\ v \notin InFlight]
<1>1. /\ upd \in [Updates -> Update] /\ Up /\ upd[u].pc = "new" /\ u \notin InFlight
      /\ UNCHANGED <<config, kubeClient, file, last, crashes>>
      /\ raced' = (raced \/ InFlight # {})
  BY Zenon DEF updateConfig, ConfigIInv, ConfigTypeOK, InFlight
<1>2. /\ first \in Update /\ first.pc = "set" /\ first.alone = (InFlight = {})
      /\ first.at = upd[u].at /\ first.saved = upd[u].saved
  BY <1>1, Zenon DEF Update
<1>3. \A v \in Updates : /\ other(v) \in Update /\ other(v).alone = (upd[v].alone /\ v \notin InFlight)
                         /\ other(v).pc = upd[v].pc /\ other(v).at = upd[v].at
                         /\ other(v).saved = upd[v].saved /\ other(v).resp = upd[v].resp
  BY <1>1, ZenonT(30) DEF Update
<1>4. upd' = [v \in Updates |-> IF v = u THEN first ELSE other(v)]
  BY Zenon DEF updateConfig
<1> HIDE DEF first, other
<1>5. /\ upd' \in [Updates -> Update] /\ upd'[u] = first
      /\ \A v \in Updates \ {u} : upd'[v] = other(v)
  BY <1>2, <1>3, <1>4, Zenon
<1>6. InFlight' = InFlight \union {u}
  BY <1>1, <1>2, <1>3, <1>5 DEF InFlight
<1>7. \A v \in InFlight' : upd'[v].alone => v = u /\ InFlight = {}
  BY <1>2, <1>3, <1>5, <1>6, Zenon DEF InFlight
<1>8. ConfigTypeOK'
  BY <1>1, <1>5, Zenon DEF ConfigIInv, ConfigTypeOK, Up
<1>9. Living'
  BY <1>1, Zenon DEF ConfigIInv, Living, Up
<1>10. Alone'
  <2>1. \A v \in InFlight' : upd'[v].alone => InFlight' = {v}
    BY <1>6, <1>7
  <2>2. ASSUME ~raced' PROVE \A v \in InFlight' : upd'[v].alone
    BY <1>1, <1>2, <1>5, <1>6, <2>2, Zenon
  <2>3. QED
    BY <2>1, <2>2, Zenon DEF Alone
<1>11. AtFirst' /\ NotSaved'
  BY <1>1, <1>2, <1>3, <1>5 DEF ConfigIInv, AtFirst, NotSaved
<1>12. AloneProgress'
  <2>1. upd'[u].at = URL /\ ~upd'[u].saved /\ upd'[u].pc = "set"
    BY <1>1, <1>2, <1>5, Zenon DEF ConfigIInv, AtFirst, NotSaved
  <2>2. Progress(u)'
    BY <2>1 DEF Progress, Prefix, Fields, URL
  <2>3. QED
    BY <1>7, <2>2, Zenon DEF AloneProgress
<1>13. LastDone'
  BY <1>1, <1>3, <1>5 DEF ConfigIInv, LastDone
<1>14. WholeFile' /\ WholeClient'
  BY <1>1, Zenon DEF ConfigIInv, WholeFile, WholeClient, Up
<1>15. AloneInstalls'
  BY <1>6 DEF AloneInstalls
<1>16. QED
  BY <1>8, <1>9, <1>10, <1>11, <1>12, <1>13, <1>14, <1>15, SMTT(30) DEF ConfigIInv

LEMMA CrashIInv ==
  ASSUME ConfigIInv, Crash
  PROVE  ConfigIInv'
<1>1. /\ upd \in [Updates -> Update] /\ UNCHANGED <<file, raced>> /\ crashes' = crashes + 1
      /\ crashes < MaxCrashes /\ config' = NoConfig /\ kubeClient' = NoConfig /\ last' = Default
  BY Zenon DEF Crash, ConfigIInv, ConfigTypeOK
<1>2. \A u \in Updates : Ended(upd[u], "none") \in Update /\ Ended(upd[u], "none").pc = "done"
  BY <1>1, DoneFacts
<1>3. \A u \in Updates : upd'[u] = IF u \in InFlight THEN Ended(upd[u], "none") ELSE upd[u]
  BY Zenon DEF Crash
<1>4. upd' \in [Updates -> Update]
  BY <1>1, <1>2, Zenon DEF Crash
<1>5. InFlight' = {}
  BY <1>2, <1>3, Zenon DEF InFlight
<1>6. ConfigTypeOK'
  <2>1. crashes' \in 0..MaxCrashes
    BY <1>1, ConfigAssumption DEF ConfigIInv, ConfigTypeOK
  <2>2. QED
    BY <1>1, <1>4, <2>1, Zenon DEF ConfigIInv, ConfigTypeOK, Origins, Up
<1>7. Living' /\ WholeClient'
  BY <1>1, <1>5 DEF Living, Up, WholeClient
<1>8. Alone' /\ AloneProgress'
  BY <1>5, Zenon DEF Alone, AloneProgress
<1>9. AtFirst' /\ NotSaved'
  BY <1>2, <1>3, Zenon DEF ConfigIInv, AtFirst, NotSaved
<1>10. LastDone' /\ AloneInstalls'
  BY <1>1, ConfigAssumption, Zenon DEF LastDone, AloneInstalls
<1>11. WholeFile'
  BY <1>1, Zenon DEF ConfigIInv, WholeFile
<1>12. QED
  BY <1>6, <1>7, <1>8, <1>9, <1>10, <1>11, Zenon DEF ConfigIInv

\* What a restart loads is a configuration, and whole if the file is.
LEMMA Loaded ==
  ASSUME ConfigIInv
  PROVE  /\ loadKubeConfig \in Configs
         /\ ~raced => \E o \in Origins : loadKubeConfig = Whole(o)
<1>1. Default \in Origins /\ Whole(Default) \in Configs
  BY WholeTyped, Zenon DEF Origins
<1>2. QED
  BY <1>1, Zenon DEF ConfigIInv, ConfigTypeOK, WholeFile, loadKubeConfig

LEMMA StartIInv ==
  ASSUME ConfigIInv, Start
  PROVE  ConfigIInv'
<1>1. /\ ~Up /\ UNCHANGED <<file, upd, raced, last, crashes>>
      /\ config' = loadKubeConfig /\ kubeClient' = loadKubeConfig
  BY Zenon DEF Start
<1>2. InFlight' = InFlight /\ InFlight = {} /\ last = Default
  BY <1>1, Zenon DEF ConfigIInv, Living, InFlight
<1>3. Up'
  BY <1>1, Loaded, ConfigAssumption, Zenon DEF Up
<1>4. ConfigTypeOK'
  BY <1>1, <1>3, Loaded, Zenon DEF ConfigIInv, ConfigTypeOK
<1>5. Living'
  BY <1>1, <1>3, Loaded, Zenon DEF Living
<1>6. Alone' /\ AloneProgress'
  BY <1>2, Zenon DEF Alone, AloneProgress
<1>7. AtFirst' /\ NotSaved' /\ WholeFile'
  BY <1>1, Zenon DEF ConfigIInv, AtFirst, NotSaved, WholeFile
<1>8. LastDone' /\ AloneInstalls'
  BY <1>1, <1>2, ConfigAssumption, Zenon DEF LastDone, AloneInstalls
<1>9. WholeClient'
  BY <1>1, Loaded, Zenon DEF WholeClient
<1>10. QED
  BY <1>4, <1>5, <1>6, <1>7, <1>8, <1>9, Zenon DEF ConfigIInv

LEMMA StutterIInv ==
  ASSUME ConfigIInv, UNCHANGED configVars
  PROVE  ConfigIInv'
<1>1. InFlight' = InFlight /\ Up' = Up
  BY Zenon DEF configVars, InFlight, Up
<1>2. ConfigTypeOK' /\ Living' /\ Alone' /\ AtFirst' /\ NotSaved'
  BY <1>1, Zenon DEF ConfigIInv, configVars, ConfigTypeOK, Living, Alone, AtFirst, NotSaved
<1>3. AloneProgress' /\ LastDone' /\ WholeFile' /\ WholeClient' /\ AloneInstalls'
  BY <1>1, Zenon DEF ConfigIInv, configVars, AloneProgress, Progress, LastDone, WholeFile, WholeClient, AloneInstalls
<1>4. QED
  BY <1>2, <1>3, Zenon DEF ConfigIInv

LEMMA Inductive == ConfigSpec => []ConfigIInv
<1>1. ConfigIInv /\ [ConfigNext]_configVars => ConfigIInv'
  <2> SUFFICES ASSUME ConfigIInv, [ConfigNext]_configVars PROVE ConfigIInv'
    OBVIOUS
  <2>1. ASSUME NEW u \in Updates, Unauthorized(u) \/ updateConfig(u) PROVE ConfigIInv'
    BY <2>1, UnauthorizedIInv, updateConfigIInv, Zenon
  <2>2. ASSUME NEW u \in Updates, Handle(u) PROVE ConfigIInv'
    BY <2>2, SetFieldIInv, ReadFieldIInv, OpenFileIInv, WriteFileIInv, ConnectIInv, Zenon DEF Handle
  <2>3. CASE Crash \/ Start
    BY <2>3, CrashIInv, StartIInv, Zenon
  <2>4. CASE UNCHANGED configVars
    BY <2>4, StutterIInv, Zenon
  <2>5. QED
    BY <2>1, <2>2, <2>3, <2>4, Zenon DEF ConfigNext
<1>2. QED
  BY <1>1, ConfigInitIInv, PTL DEF ConfigSpec

(***************************************************************************)
(* The variables keep their types: in particular, no field of KubeConfig,  *)
(* of the file or of the client comes from anywhere but a post, the        *)
(* defaults or a race, and Get finds a client whenever the console serves. *)
(***************************************************************************)
THEOREM ConfigTypeCorrect == ConfigSpec => []ConfigTypeOK
<1>1. ConfigIInv => ConfigTypeOK
  BY DEF ConfigIInv
<1>2. QED
  BY <1>1, Inductive, PTL

(***************************************************************************)
(* updateConfig installs all of what was posted whenever it meets no other *)
(* update, whatever races, failures and crashes have gone before.          *)
(***************************************************************************)
THEOREM Installs == ConfigSpec => []AloneInstalls
<1>1. ConfigIInv => AloneInstalls
  BY Zenon DEF ConfigIInv
<1>2. QED
  BY <1>1, Inductive, PTL

(***************************************************************************)
(* Without overlapping updates neither the client nor what a restart loads *)
(* ever mixes the address of one post with the password of another.        *)
(***************************************************************************)
THEOREM Unmixed == ConfigSpec => []NeverMixed
<1>1. ConfigIInv => NeverMixed
  BY Loaded DEF ConfigIInv, WholeClient, NeverMixed
<1>2. QED
  BY <1>1, Inductive, PTL
=============================================================================
