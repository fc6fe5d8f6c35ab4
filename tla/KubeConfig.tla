----------------------------- MODULE KubeConfig -----------------------------
(***************************************************************************)
(* The connection to the API server: the global KubeConfig, the file it is *)
(* saved in and the global kubeClient (pkg/kubeclient/helper.go), updated  *)
(* by the configuration page (main.go, updateConfig) and set up by main.   *)
(*                                                                         *)
(* Nothing is locked: two administrators' updates write and read the three *)
(* fields of KubeConfig, write the file and replace the client in any      *)
(* interleaving. A field that one goroutine uses while another is writing  *)
(* it is a data race, after which a string may have the pointer of one     *)
(* value and the length of the other; it is then Torn, or Broken if the    *)
(* client library does not even take it for an address.                    *)
(*                                                                         *)
(* The values of the fields are identified with the post they come from,   *)
(* so a configuration is whole if all its fields have the same origin.     *)
(***************************************************************************)
EXTENDS Naturals, FiniteSets

CONSTANTS
  Updates,   \* the posts of the configuration page, one goroutine each
  Bad,       \* the updates whose APIServerURL the client library refuses
  Default,   \* the origin of the values that loadKubeConfig starts from
  Torn,      \* a string that mixes two values
  Broken,    \* another, which the client library refuses as an address
  NoConfig,  \* KubeConfig, or kubeClient, is nil
  NoFile, Empty, Garbage,  \* no file, an empty one, and one that is not valid JSON
  MaxInFlight,      \* bound on the updates that overlap
  MaxCrashes        \* bound on the crashes

VARIABLES
  config,      \* KubeConfig
  kubeClient,  \* the configuration that kubeClient was made from
  file,        \* what KubeConfigFile holds
  upd,         \* the goroutines of updateConfig
  raced,       \* two updates have overlapped (history)
  last,        \* the last update of this process to answer (history)
  crashes      \* the number of crashes so far

configVars == <<config, kubeClient, file, upd, raced, last, crashes>>
-----------------------------------------------------------------------------
\* APIServerURL, Username and Password.
Fields == 1..3
URL == 1

Origins == Updates \union {Default}

\* What a race may make of a field.
Tears(f) == IF f = URL THEN {Torn, Broken} ELSE {Torn}

Strings == Origins \union {Torn, Broken}

Configs == [Fields -> Strings]

Whole(o) == [f \in Fields |-> o]

ASSUME ConfigAssumption ==
  /\ Bad \subseteq Updates
  /\ Default \notin Updates /\ Torn \notin Origins /\ Broken \notin Origins
  /\ {NoConfig, NoFile, Empty, Garbage} \intersect Configs = {}
  /\ Empty \notin {NoFile, Garbage}
  /\ MaxInFlight \in Nat /\ MaxCrashes \in Nat

(***************************************************************************)
(* An update: the field its next statement sets or reads, its local copy   *)
(* of the configuration, whether it has met no other update, whether the file *)
(* was written and the response.                                           *)
(***************************************************************************)
Update == [pc    : {"new", "set", "marshal", "open", "write", "build", "connect", "done"},
           at    : Fields,
           copy  : Configs,
           alone : BOOLEAN,
           saved : BOOLEAN,
           resp  : {"none", "unauthorized", "redirect", "panic"}]

NewUpdate == [pc |-> "new", at |-> URL, copy |-> Whole(Default), alone |-> TRUE,
              saved |-> FALSE, resp |-> "none"]

InFlight == {u \in Updates : upd[u].pc \notin {"new", "done"}}

\* The process is running, and main has called Init.
Up == config # NoConfig

\* Another goroutine is writing field f.
Racing(u, f) == \E v \in InFlight \ {u} : upd[v].pc = "set" /\ upd[v].at = f

\* What an access to field f by u with value o may see or leave behind.
Access(u, f, o) == {o} \union IF Racing(u, f) THEN Tears(f) ELSE {}

\* The words of two writes of a field may interleave: an update that has met
\* another one may leave the field as torn as it finds it.
StillTorn(u, f) == IF upd[u].alone THEN {} ELSE {config[f]} \intersect Tears(f)

\* Each of the three places that use KubeConfig has one statement or one value
\* per field, in this order; after the last comes pc.
Step(q, pc) == IF q.at = 3 THEN [q EXCEPT !.pc = pc, !.at = URL] ELSE [q EXCEPT !.at = @ + 1]

Ended(q, resp) == [q EXCEPT !.pc = "done", !.at = URL, !.copy = Whole(Default), !.resp = resp]
-----------------------------------------------------------------------------
\* The file is decoded over the defaults, all of it or nothing.
loadKubeConfig == IF file \in {NoFile, Empty, Garbage} THEN Whole(Default) ELSE file

\* External: NewOrDie panics on an address that it can not parse.
Refuses(c) == c[URL] \in Bad \union {Broken}

ConfigInit ==
  /\ config = Whole(Default)
  /\ kubeClient = Whole(Default)
  /\ file = NoFile
  /\ upd = [u \in Updates |-> NewUpdate]
  /\ raced = FALSE
  /\ last = Default
  /\ crashes = 0

Unauthorized(u) ==
  /\ Up /\ upd[u].pc = "new"
  /\ upd' = [upd EXCEPT ![u] = Ended(@, "unauthorized")]
  /\ UNCHANGED <<config, kubeClient, file, raced, last, crashes>>

updateConfig(u) ==
  /\ Up /\ upd[u].pc = "new"
  /\ Cardinality(InFlight) < MaxInFlight
  /\ upd' = [v \in Updates |->
               IF v = u THEN [upd[u] EXCEPT !.pc = "set", !.alone = InFlight = {}]
               ELSE [upd[v] EXCEPT !.alone = @ /\ v \notin InFlight]]
  /\ raced' = (raced \/ InFlight # {})
  /\ UNCHANGED <<config, kubeClient, file, last, crashes>>

\* Mutant: the client uses KubeConfig itself, not a copy.
SetField_Live(u) ==
  /\ upd[u].pc = "set"
  /\ \E o \in Access(u, upd[u].at, u) \union StillTorn(u, upd[u].at) :
       config' = [config EXCEPT ![upd[u].at] = o]
  /\ kubeClient' = config'
  /\ upd' = [upd EXCEPT ![u] = Step(@, "marshal")]
  /\ UNCHANGED <<file, raced, last, crashes>>

SetField(u) ==
  /\ upd[u].pc = "set"
  /\ \E o \in Access(u, upd[u].at, u) \union StillTorn(u, upd[u].at) :
       config' = [config EXCEPT ![upd[u].at] = o]
  /\ upd' = [upd EXCEPT ![u] = Step(@, "marshal")]
  /\ UNCHANGED <<kubeClient, file, raced, last, crashes>>

\* SaveKubeConfig and getKubeClient read the fields one by one.
ReadField(u, from, to) ==
  /\ upd[u].pc = from
  /\ \E o \in Access(u, upd[u].at, config[upd[u].at]) :
       upd' = [upd EXCEPT ![u] = [Step(@, to) EXCEPT !.copy[upd[u].at] = o]]
  /\ UNCHANGED <<config, kubeClient, file, raced, last, crashes>>

Marshal(u) == ReadField(u, "marshal", "open")

\* Mutant: the file is opened without O_TRUNC.
OpenFile_NoTruncate(u) ==
  /\ upd[u].pc = "open"
  /\ upd' = [upd EXCEPT ![u].pc = "write"]
  /\ UNCHANGED <<config, kubeClient, file, raced, last, crashes>>

\* WriteFile opens and truncates the file, and then writes it. An error of
\* either is only logged.
OpenFile(u) ==
  /\ upd[u].pc = "open"
  /\ \/ file' = Empty /\ upd' = [upd EXCEPT ![u].pc = "write"]
     \/ file' = file /\ upd' = [upd EXCEPT ![u].pc = "build", ![u].copy = Whole(Default)]
  /\ UNCHANGED <<config, kubeClient, raced, last, crashes>>

\* Over a longer text that another update has written, the end of it remains;
\* a write that fails may have written a part.
WriteFile(u) ==
  /\ upd[u].pc = "write"
  /\ \/ /\ \/ file' = upd[u].copy
           \/ file # Empty /\ file' = Garbage
        /\ upd' = [upd EXCEPT ![u].pc = "build", ![u].copy = Whole(Default), ![u].saved = TRUE]
     \/ /\ file' \in {file, Garbage}
        /\ upd' = [upd EXCEPT ![u].pc = "build", ![u].copy = Whole(Default)]
  /\ UNCHANGED <<config, kubeClient, raced, last, crashes>>

getKubeClient(u) == ReadField(u, "build", "connect")

\* Mutant: the library's error is only logged, and the nil client that comes with
\* it is installed.
Connect_NilClient(u) ==
  /\ upd[u].pc = "connect"
  /\ kubeClient' = IF Refuses(upd[u].copy) THEN NoConfig ELSE upd[u].copy
  /\ upd' = [upd EXCEPT ![u] = Ended(@, "redirect")]
  /\ last' = u
  /\ UNCHANGED <<config, file, raced, crashes>>

\* Mutant: no answer when the address is refused.
Connect_Hangs(u) ==
  /\ upd[u].pc = "connect"
  /\ ~Refuses(upd[u].copy)
  /\ kubeClient' = upd[u].copy
  /\ upd' = [upd EXCEPT ![u] = Ended(@, "redirect")]
  /\ last' = u
  /\ UNCHANGED <<config, file, raced, crashes>>

\* The new client replaces the old one, or NewOrDie panics and gin recovers.
Connect(u) ==
  /\ upd[u].pc = "connect"
  /\ \/ /\ ~Refuses(upd[u].copy)
        /\ kubeClient' = upd[u].copy
        /\ upd' = [upd EXCEPT ![u] = Ended(@, "redirect")]
     \/ /\ Refuses(upd[u].copy)
        /\ upd' = [upd EXCEPT ![u] = Ended(@, "panic")]
        /\ UNCHANGED kubeClient
  /\ last' = u
  /\ UNCHANGED <<config, file, raced, crashes>>

\* The process dies, and the goroutines with it.
Crash ==
  /\ Up /\ crashes < MaxCrashes
  /\ crashes' = crashes + 1
  /\ config' = NoConfig /\ kubeClient' = NoConfig /\ last' = Default
  /\ upd' = [u \in Updates |-> IF u \in InFlight THEN Ended(upd[u], "none") ELSE upd[u]]
  /\ UNCHANGED <<file, raced>>

\* Mutant: a file that can not be decoded is fatal.
Start_Strict ==
  /\ ~Up
  /\ file \notin {Empty, Garbage}
  /\ ~Refuses(loadKubeConfig)
  /\ config' = loadKubeConfig
  /\ kubeClient' = loadKubeConfig
  /\ UNCHANGED <<file, upd, raced, last, crashes>>

\* main calls Init, which loads the file; a panic of NewOrDie ends the process.
Start ==
  /\ ~Up
  /\ ~Refuses(loadKubeConfig)
  /\ config' = loadKubeConfig
  /\ kubeClient' = loadKubeConfig
  /\ UNCHANGED <<file, upd, raced, last, crashes>>

Handle(u) ==
  SetField(u) \/ Marshal(u) \/ OpenFile(u) \/ WriteFile(u) \/ getKubeClient(u) \/ Connect(u)

ConfigNext ==
  \/ \E u \in Updates : Unauthorized(u) \/ updateConfig(u) \/ Handle(u)
  \/ Crash
  \/ Start

ConfigSpec == ConfigInit /\ [][ConfigNext]_configVars

\* The goroutines keep running while the process is up, and the daemon that
\* runs /etc/service/kubecon (Dockerfile, entrypoint.sh) starts it again.
ConfigFairSpec ==
  ConfigSpec /\ WF_configVars(Start) /\ \A u \in Updates : WF_configVars(Handle(u))
-----------------------------------------------------------------------------
\* The types of the state. Among them: a process that serves requests has a
\* client, however often Init replaces it, so that the handlers never run into
\* the check that Get makes (glog.Fatalf, which ends the process).
ConfigTypeOK ==
  /\ config \in Configs \union {NoConfig}
  /\ kubeClient \in IF Up THEN Configs ELSE {NoConfig}
  /\ file \in Configs \union {NoFile, Empty, Garbage}
  /\ upd \in [Updates -> Update]
  /\ raced \in BOOLEAN
  /\ last \in Origins
  /\ crashes \in 0..MaxCrashes

(***************************************************************************)
(* An update that met no other one installs what was posted, all of it and *)
(* everywhere, whatever races have gone before: once it has answered and   *)
(* no other has begun, KubeConfig, the file (unless writing it failed) and *)
(* the client (unless the library refused the address) are the post's.     *)
(***************************************************************************)
AloneInstalls ==
  last \in Updates /\ upd[last].alone /\ InFlight = {} =>
    /\ config = Whole(last)
    /\ upd[last].saved => file = Whole(last)
    /\ upd[last].resp = "redirect" => kubeClient = Whole(last)

(***************************************************************************)
(* Without overlapping updates the console never talks to an API server    *)
(* with the credentials meant for another one: the client, and what a      *)
(* restart would load, come from one post or are the defaults, at every    *)
(* moment of an update and through crashes at any of them.                 *)
(***************************************************************************)
NeverMixed ==
  ~raced => /\ \E o \in Origins : loadKubeConfig = Whole(o)
            /\ Up => \E o \in Origins : kubeClient = Whole(o)

(***************************************************************************)
(* A crash loses the console for good only in two ways, both of them in    *)
(* the file: updateConfig saved a refused address before Init tried it, or *)
(* two updates overlapped and tore the address that one of them saved.     *)
(* Otherwise a restart brings it back, from whatever a crash or a race has *)
(* left.                                                                   *)
(***************************************************************************)
Restarts ==
  ~Up ~> \/ Up
         \/ loadKubeConfig[URL] \in Bad
         \/ loadKubeConfig[URL] = Broken /\ raced

(***************************************************************************)
(* The console comes back after every crash, as the Dockerfile's comment   *)
(* on the service directory has it (the process is brought up              *)
(* automatically). It does not hold: updateConfig saves an address before  *)
(* Init tries it, and main's Init then panics on every start.              *)
(***************************************************************************)
ComesBack == ~Up ~> Up

\* Every update is answered, or dies with the process.
Answered == \A u \in Updates : upd[u].pc = "set" ~> upd[u].pc = "done"
=============================================================================
