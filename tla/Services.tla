------------------------------ MODULE Services ------------------------------
(***************************************************************************)
(* The services and endpoints on the page of a namespace: main.go,         *)
(* genServices, genOneService, genEndpoints, genOneEndpoint;               *)
(* pkg/kube/util.go, GetServiceExternalIP, loadBalancerStatusStringer,     *)
(* MakePorts, FormatEndpoints. Each text is built in a loop of its own;    *)
(* here they are compared with what the text is to say. The page is loaded *)
(* again and again, and shows the age of Durations with each row.          *)
(***************************************************************************)
EXTENDS Durations, FiniteSets, SequencesExt

CONSTANTS
  IPs,        \* addresses
  Ports,      \* numbers of ports
  Blank,      \* "", as an address or as a part of a text
  Items,      \* the services and endpoints that the namespace may have
  MaxList,    \* bound on the addresses in a list of a service
  MaxSubsets, \* bound on the subsets of endpoints
  MaxPorts,   \* bound on the ports of a subset
  MaxReady    \* bound on the addresses of a subset

VARIABLES
  item, \* the service or the endpoints in the API server's list
  rows  \* what the page shows of it

pageVars == <<age, known, shown, item, rows>>

SeqUpTo(S, n) == UNION {[1..m -> S] : m \in 0..n}

Protocols == {"TCP", "UDP"}

\* An ingress of a load balancer that has only a host name has a blank address.
Service == [kind : {"service"}, kubernetes : BOOLEAN,
            type : {"ClusterIP", "NodePort", "LoadBalancer", ""},
            external : SeqUpTo(IPs, MaxList), ingress : SeqUpTo(IPs \union {Blank}, MaxList),
            ports : SeqUpTo(Ports \X Protocols, MaxPorts)]

Subset == [ports : SeqUpTo(Ports, MaxPorts), addresses : SeqUpTo(IPs, MaxReady)]

Endpoints == [kind : {"endpoints"}, kubernetes : BOOLEAN, subsets : SeqUpTo(Subset, MaxSubsets)]

ASSUME ItemsAssumption ==
  /\ Blank \notin IPs /\ {MaxList, MaxSubsets, MaxPorts, MaxReady} \subseteq Nat
  /\ {"nodes", "unknown"} \intersect (IPs \union {Blank}) = {}
  /\ Items \subseteq Service \union Endpoints
-----------------------------------------------------------------------------
(***************************************************************************)
(* A text with commas is the sequence of its parts, and "" has one part,   *)
(* which is blank: so Join(<<>>) is not a text without parts, and          *)
(* strings.Split returns a blank part for it.                              *)
(***************************************************************************)
Join(parts) == IF parts = <<>> THEN <<Blank>> ELSE parts

\* The parts of s that are not in X, in their order.
Without(s, X) == FoldLeft(LAMBDA kept, part : IF part \in X THEN kept ELSE Append(kept, part), <<>>, s)

loadBalancerStatusStringer(ingress) == Join(Without(ingress, {Blank}))

\* Mutant: the service's own addresses are shown in place of the balancer's.
GetServiceExternalIP_Own(svc) ==
  CASE svc.external # <<>> -> svc.external
    [] svc.external = <<>> /\ svc.type = "LoadBalancer" -> loadBalancerStatusStringer(svc.ingress)
    [] OTHER -> <<Blank>>

GetServiceExternalIP(svc) ==
  CASE svc.type = "ClusterIP" -> Join(svc.external)
    [] svc.type = "NodePort" -> IF svc.external # <<>> THEN Join(svc.external) ELSE <<"nodes">>
    [] svc.type = "LoadBalancer" ->
         LET lbIps == loadBalancerStatusStringer(svc.ingress)
         IN  IF svc.external # <<>> THEN Join(lbIps \o svc.external) ELSE lbIps
    [] OTHER -> <<"unknown">>

\* "%d/%s" without a trailing "/TCP".
MakePorts(ports) ==
  [i \in DOMAIN ports |-> IF ports[i][2] = "TCP" THEN <<ports[i][1]>> ELSE ports[i]]

\* The body of FormatEndpoints' inmost loop, for one address of one port.
max == 3

\* Mutant: what is left out is not counted.
OneAddress_Uncounted(acc, address, port) ==
  LET more == acc.more \/ Len(acc.list) = max
  IN  [list |-> IF more THEN acc.list ELSE Append(acc.list, <<address, port>>),
       more |-> more, count |-> IF more THEN acc.count ELSE acc.count + 1]

OneAddress(acc, address, port) ==
  LET more == acc.more \/ Len(acc.list) = max
  IN  [list |-> IF more THEN acc.list ELSE Append(acc.list, <<address, port>>),
       more |-> more, count |-> acc.count + 1]

\* The loops around it: the addresses of a port, and the ports of a subset.
OnePort(addresses, acc, port) ==
  FoldLeft(LAMBDA a, address : OneAddress(a, address, port), acc, addresses)

OneSubset(acc, subset) ==
  FoldLeft(LAMBDA a, port : OnePort(subset.addresses, a, port), acc, subset.ports)

\* Only called without a set of ports, so that every port counts.
FormatEndpoints(endpoints) ==
  LET all == FoldLeft(OneSubset, [list |-> <<>>, more |-> FALSE, count |-> 0], endpoints.subsets)
  IN  [list |-> all.list, more |-> IF all.more THEN all.count - max ELSE 0]
-----------------------------------------------------------------------------
PageInit == Init /\ item \in Items /\ rows = <<>>

\* The loops go through what the API server listed and leave kubernetes out.
Rows(row) == IF item.kubernetes THEN <<>> ELSE <<row>>

genServices ==
  /\ item.kind = "service" /\ Reload
  /\ rows' = Rows([age |-> shown', ips |-> GetServiceExternalIP(item), ports |-> MakePorts(item.ports)])
  /\ UNCHANGED item

genEndpoints ==
  /\ item.kind = "endpoints" /\ Reload
  /\ LET text == FormatEndpoints(item)
     IN  rows' = Rows([age |-> shown', list |-> text.list, more |-> text.more])
  /\ UNCHANGED item

PageNext == genServices \/ genEndpoints

PageSpec == PageInit /\ [][PageNext]_pageVars
-----------------------------------------------------------------------------
Shows(kind) == rows # <<>> /\ item.kind = kind

(***************************************************************************)
(* A row tells how a service is reached. Every address from outside is     *)
(* shown, once and in order: those of its load balancer, then its own; a   *)
(* blank part is only where there is nothing to show, or in front of a     *)
(* load balancer's own addresses while it has no ingress with an address,  *)
(* which is what Split makes of an empty text (GetServiceExternalIP). And  *)
(* cutting "/TCP" off never makes other ports look the same (MakePorts).   *)
(***************************************************************************)
ServiceShown ==
  Shows("service") =>
    LET ips == rows[1].ips
        balancer == item.type = "LoadBalancer"
        lb == IF balancer THEN Without(item.ingress, {Blank}) ELSE <<>>
    IN  /\ item.type # "" => Without(ips, {Blank, "nodes"}) = lb \o item.external
        /\ ips = <<"nodes">> <=> item.type = "NodePort" /\ item.external = <<>>
        /\ Blank \in Range(ips) =>
             /\ lb = <<>>
             /\ ips[1] = Blank /\ Blank \notin Range(Tail(ips))
             /\ item.external # <<>> => balancer
        /\ \A other \in SeqUpTo(Ports \X Protocols, MaxPorts) :
             other # item.ports => MakePorts(other) # rows[1].ports

\* All pairs of a ready address and a port, subset by subset and port by port.
Pairs(subset) ==
  FlattenSeq([i \in DOMAIN subset.ports |->
    [j \in DOMAIN subset.addresses |-> <<subset.addresses[j], subset.ports[i]>>]])

AllPairs(subsets) == FlattenSeq([i \in DOMAIN subsets |-> Pairs(subsets[i])])

(***************************************************************************)
(* Of all pairs of a ready address and a port, subset by subset and port   *)
(* by port, the first three are shown, and the number of "more" is that of *)
(* the others; without others there is no "more" (FormatEndpoints).        *)
(***************************************************************************)
EndpointsShown ==
  Shows("endpoints") =>
    LET all == AllPairs(item.subsets)
    IN  /\ rows[1].list \o SubSeq(all, max + 1, Len(all)) = all
        /\ rows[1].more = Len(all) - Len(rows[1].list)
=============================================================================
