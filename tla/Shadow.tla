---------------------------------- MODULE Shadow ----------------------------------
(***************************************************************************)
(* A simulation of src/shadow/rs: a topology is generated and saved, every *)
(* node loads it and dials its part of the connections, and node 0         *)
(* publishes a message in Reed-Solomon chunks, which the nodes relay over  *)
(* the links there are at the moment.                                      *)
(*                                                                         *)
(* The sleeps of main() order nothing here: a node may publish or relay    *)
(* while another one has still to start.  Which chunks a router sends to   *)
(* whom is the subject of EcRouter.tla; here a node may relay any chunk it *)
(* stores over any link, again and again, or never, which is to lose it.   *)
(* Without a file all nodes take GenerateLinear, which is a request too.   *)
(***************************************************************************)
EXTENDS Topology, RsCode

CONSTANTS
  Messages(_),   \* what node 0 may publish in a network of so many nodes
  MaxSimulated   \* bound: the largest network whose nodes are simulated

ASSUME ShadowAssumption ==
  /\ MaxSimulated \in Nat
  /\ \A n \in 2 .. MaxSimulated : \A message \in Messages(n) :
       /\ message \in Seq({0, 1}) \ {<<>>} /\ message # None
       /\ Len(message) % (ByteBits * MessageChunkSize) = 0
       /\ Len(message) \div (ByteBits * MessageChunkSize) <= MaxChunkCount

VARIABLES
  loaded,     \* topo of each node
  dialling,   \* the connections a node has still to dial
  links,      \* <<n, p>>: n has dialled p
  failed,     \* history: the dials that failed
  entry,      \* the encoder's entry of the message, of each node
  published   \* history: the message that node 0 has published

nodeVars == <<loaded, dialling, links, failed, entry, published>>
vars == <<topologyVars, nodeVars>>

Nodes == 0 .. request.nodeCount - 1

ShadowTypeOK ==
  /\ \A n \in Nodes : loaded[n] = None \/ loaded[n].nodeCount = request.nodeCount
  /\ dialling \in [Nodes -> Seq(Nodes)]
  /\ links \subseteq Nodes \X Nodes /\ failed \subseteq Nodes \X Nodes
  /\ DOMAIN entry = Nodes

Init ==
  /\ TopologyInit
  /\ loaded = [n \in Nodes |-> None]
  /\ dialling = [n \in Nodes |-> <<>>]
  /\ links = {} /\ failed = {}
  /\ entry = [n \in Nodes |-> NoChunks]
  /\ published = None

-----------------------------------------------------------------------------
(* main *)

(* Of the two ends of a connection the lower one dials.  Mutant: both do.   *)
LoadDiallingAll(n) ==
  /\ file # None /\ request.nodeCount <= MaxSimulated
  /\ loaded[n] = None
  /\ loaded' = [loaded EXCEPT ![n] = LoadFromFile(file)]
  /\ dialling' = [dialling EXCEPT ![n] = LoadFromFile(file).adjacencyList[n]]
  /\ UNCHANGED <<topologyVars, links, failed, entry, published>>

Above(n, peers) ==
  FoldLeft(LAMBDA above, peer : IF peer > n THEN Append(above, peer) ELSE above, <<>>, peers)

Load(n) ==
  /\ file # None /\ request.nodeCount <= MaxSimulated
  /\ loaded[n] = None
  /\ loaded' = [loaded EXCEPT ![n] = LoadFromFile(file)]
  /\ dialling' = [dialling EXCEPT ![n] = Above(n, LoadFromFile(file).adjacencyList[n])]
  /\ UNCHANGED <<topologyVars, links, failed, entry, published>>

(* A node that has started listens.  A dial that fails is logged, no more.  *)
connectToPeer(n) ==
  /\ dialling[n] # <<>>
  /\ dialling' = [dialling EXCEPT ![n] = Tail(@)]
  /\ LET peer == Head(dialling[n]) IN
     \/ loaded[peer] # None /\ links' = links \cup {<<n, peer>>} /\ UNCHANGED failed
     \/ failed' = failed \cup {<<n, peer>>} /\ UNCHANGED links
  /\ UNCHANGED <<topologyVars, loaded, entry, published>>

Publish ==
  /\ loaded[0] # None /\ dialling[0] = <<>> /\ published = None
  /\ \E message \in Messages(request.nodeCount) :
       /\ published' = message
       /\ entry' = [entry EXCEPT ![0] = GenerateThenAddChunks(message)]
  /\ UNCHANGED <<topologyVars, loaded, dialling, links, failed>>

Linked(n, p) == <<n, p>> \in links \/ <<p, n>> \in links

Relay(n, p, i) ==
  /\ Linked(n, p)
  /\ i \in DOMAIN entry[n].chunks
  /\ entry' = [entry EXCEPT ![p] = VerifyThenAddChunk(@, Chunk(entry[n], i))]
  /\ UNCHANGED <<topologyVars, loaded, dialling, links, failed, published>>

Next ==
  \/ Generate /\ UNCHANGED nodeVars
  \/ Publish
  \/ \E n \in Nodes : Load(n) \/ connectToPeer(n)
  \/ \E n, p \in Nodes : \E i \in DOMAIN entry[n].chunks : Relay(n, p, i)

Spec == Init /\ [][Next]_vars

(* The generator is a loop of one goroutine. *)
FairSpec == Spec /\ WF_vars(Generate /\ UNCHANGED nodeVars)

-----------------------------------------------------------------------------
(* What the code promises *)

Connections == {topology.connections[i] : i \in DOMAIN topology.connections}

(* Where the connections lead from node 0. *)
Reached ==
  LET further(S, i) == S \cup {p \in Nodes : \E n \in S : Lower(n, p) \in Connections}
  IN  FoldLeft(further, {0}, [i \in Nodes \ {0} |-> i])

(* Two nodes of small-world have a connection only if node 0, whose hash is *)
(* 7, is rewired.                                                           *)
Apart == request.type = "small-world" /\ request.nodeCount = 2 /\ request.percent <= 7

(* Every generator gives a connected network, with that exception.          *)
GeneratedConnected == (file # None /\ ~Apart) => Reached = Nodes

(* The attempts of random-regular come to an end, for these requests.       *)
GenerationEnds == <>(file # None)

(* The nodes agree, without a word, who dials whom: what a node has dialled *)
(* and has still to dial are the connections of which it is the lower end,  *)
(* each once, so that no pair of hosts is connected twice.                  *)
DialledBy(n) == {c \in links \cup failed : c[1] = n}
Pending(n) == {<<n, dialling[n][i]>> : i \in DOMAIN dialling[n]}

EachDialledOnce ==
  /\ links \cap failed = {}
  /\ \A n \in Nodes :
       IF loaded[n] = None THEN DialledBy(n) = {}
       ELSE /\ DialledBy(n) \cup Pending(n) = {c \in Connections : c[1] = n}
            /\ DialledBy(n) \cap Pending(n) = {}
            /\ Cardinality(Pending(n)) = Len(dialling[n])

(* Whatever chunks a node has, data or parity, and in whatever order the    *)
(* map gives them: when they are enough they give the message back.         *)
AnyChunksDecode ==
  \A n \in Nodes :
    Reconstructible(entry[n]) => ReconstructMessage(entry[n]) = {published}

(* When no dial failed and no relay would bring a node anything new,        *)
(* everybody has the message: the dials make a network without islands, and *)
(* no chunk of the publisher's is refused for good.                         *)
AllDialled == \A n \in Nodes : loaded[n] # None /\ dialling[n] = <<>>

Quiet ==
  \A n, p \in Nodes : Linked(n, p) => DOMAIN entry[n].chunks \subseteq DOMAIN entry[p].chunks

QuietMeansComplete ==
  (published # None /\ AllDialled /\ failed = {} /\ Quiet /\ ~Apart)
    => \A n \in Nodes : Reconstructible(entry[n])
=============================================================================
