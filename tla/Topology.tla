--------------------------------- MODULE Topology ---------------------------------
(***************************************************************************)
(* The topologies of the simulations: the generators                       *)
(* (src/shadow/topology/generators.go), one call of AddConnection a step,  *)
(* and the structure they fill and the nodes read from a file              *)
(* (topology.go).  Nodes are numbered from zero.  A connection is a pair   *)
(* with the lower number first.                                            *)
(***************************************************************************)
EXTENDS Integers, Sequences, SequencesExt, FiniteSetsExt

CONSTANTS
  Requests,  \* what the generator (topology/gen) may be asked for
  None       \* no file yet

(* branching, k or degree, and rewire in percent, for the types that have   *)
(* them; the generator refuses fewer than two nodes.                        *)
Types == {"linear", "ring", "mesh", "tree", "small-world", "random-regular"}

ASSUME RequestsAssumption ==
  Requests \subseteq [type : Types, nodeCount : Nat \ {0, 1}, param : Int, percent : 0 .. 100]

(* No file is not a file, nor a topology. *)
ASSUME NoneAssumption ==
  /\ None \notin [nodeCount : Nat, connections : Seq(Nat \X Nat)]
  /\ \A r \in Requests :
       None \notin [nodeCount : Nat, connections : Seq(Nat \X Nat),
                    adjacencyList : [0 .. r.nodeCount - 1 -> Seq(Nat)]]

VARIABLES
  request,   \* the generator's flags
  attempt,   \* GenerateRandomRegular's attempts, modulo the number of nodes
  calls,     \* the calls of AddConnection that the generator has before it
  topology,  \* the Topology that it fills
  file       \* what it has saved

topologyVars == <<request, attempt, calls, topology, file>>

-----------------------------------------------------------------------------
(* topology.go *)

NewTopology(nodeCount) ==
  [nodeCount |-> nodeCount, connections |-> <<>>,
   adjacencyList |-> [n \in 0 .. nodeCount - 1 |-> <<>>]]

(* Both ends list each other. *)
Adjoined(adjacency, c) ==
  [adjacency EXCEPT ![c[1]] = Append(@, c[2]), ![c[2]] = Append(@, c[1])]

Lower(a, b) == IF a < b THEN <<a, b>> ELSE <<b, a>>

AddConnection(t, from, to) ==
  IF \/ {from, to} \cap (0 .. t.nodeCount - 1) # {from, to} \/ from = to
     \/ Contains(t.connections, Lower(from, to))
  THEN t
  ELSE [t EXCEPT !.connections = Append(@, Lower(from, to)),
                 !.adjacencyList = Adjoined(@, <<from, to>>)]

(* A file has the node count and the connections.  Mutant: a connection is  *)
(* listed by its upper end only.                                            *)
LoadFromFileOneWay(saved) ==
  LET listed(adjacency, c) == [adjacency EXCEPT ![c[2]] = Append(@, c[1])]
  IN  [nodeCount |-> saved.nodeCount, connections |-> saved.connections,
       adjacencyList |-> FoldLeft(listed, NewTopology(saved.nodeCount).adjacencyList,
                                  saved.connections)]

LoadFromFile(saved) ==
  [nodeCount |-> saved.nodeCount, connections |-> saved.connections,
   adjacencyList |-> FoldLeft(Adjoined, NewTopology(saved.nodeCount).adjacencyList,
                              saved.connections)]

(* The nodes that the breadth-first search finds, a step from all those     *)
(* found so far at a time.  Mutant: it is enough that each has a neighbour. *)
IsConnectedLocally(t) ==
  t.nodeCount <= 1 \/ \A n \in 0 .. t.nodeCount - 1 : t.adjacencyList[n] # <<>>

IsConnected(t) ==
  LET further(S, i) == UNION {{n} \cup ToSet(t.adjacencyList[n]) : n \in S}
      visited == FoldLeft(further, {0}, [i \in 1 .. t.nodeCount |-> i])
  IN  t.nodeCount <= 1 \/ Cardinality(visited) = t.nodeCount

-----------------------------------------------------------------------------
(* generators.go: the calls that a generator makes, in their order.  Loops  *)
(* over nodes are sequences over 1 .. n, so that node i - 1 is at place i.  *)

LinearCalls(n) == [i \in 1 .. n - 1 |-> <<i - 1, i>>]

RingCalls(n) == [i \in 1 .. n |-> <<i - 1, i % n>>]

MeshCalls(n) == FlattenSeq([i \in 1 .. n |-> [j \in 1 .. n - i |-> <<i - 1, i - 1 + j>>]])

TreeCalls(n, branching) ==
  LET b == Max({branching, 2})
      children(i) == Min({b, n - 1 - (i - 1) * b})   \* those below n
  IN  FlattenSeq([i \in 1 .. n |-> [j \in 1 .. children(i) |-> <<i - 1, (i - 1) * b + j>>]])

(* A ring lattice, and long-range connections of the nodes that a hash      *)
(* chooses.                                                                 *)
SmallWorldCalls(n, k, percent) ==
  LET neighbours == Min({Max({k, 2}), n - 1})
      lattice(i) == [j \in 1 .. neighbours \div 2 |-> <<i - 1, (i - 1 + j) % n>>]
      hash(i)    == ((i - 1) * 13 + 7) % 100
      target(i)  == (i - 1 + hash(i) * 3) % n
      rewired(i) == IF hash(i) < percent /\ target(i) # i - 1
                    THEN << <<i - 1, target(i)>> >> ELSE <<>>
  IN  FlattenSeq([i \in 1 .. n |-> lattice(i)]) \o FlattenSeq([i \in 1 .. n |-> rewired(i)])

(* An odd number of ends is made even.                                      *)
RegularDegree(n, degree) ==
  LET d == IF degree < 1 THEN Min({2, n - 1}) ELSE Min({degree, n - 1})
  IN  IF (d * n) % 2 = 0 THEN d ELSE IF d < n - 1 THEN d + 1 ELSE d - 1

(* What a node picks: from a hash of what it has, the next that it has not. *)
Pick(n, node, seed, picks) ==
  LET hash == (node * 17 + (Len(picks) + 1) * 23 + seed + 42) % n
      taken(target) == target = node \/ Contains(picks, target)
  IN  (hash + Min({d \in 0 .. n - 1 : ~taken((hash + d) % n)})) % n

(* A pick of a lower node is counted but not added.                         *)
RegularCalls(n, degree, tries) ==
  LET picks(node) ==
        FoldLeft(LAMBDA p, i : Append(p, Pick(n, node, tries * 137, p)), <<>>,
                 [i \in 1 .. RegularDegree(n, degree) |-> i])
      higher(node) == SelectSeq(picks(node), LAMBDA target : target > node)
  IN  FlattenSeq([i \in 1 .. n |-> [j \in DOMAIN higher(i - 1) |-> <<i - 1, higher(i - 1)[j]>>]])

Calls(r, tries) ==
  CASE r.type = "linear"         -> LinearCalls(r.nodeCount)
    [] r.type = "ring"           -> RingCalls(r.nodeCount)
    [] r.type = "mesh"           -> MeshCalls(r.nodeCount)
    [] r.type = "tree"           -> TreeCalls(r.nodeCount, r.param)
    [] r.type = "small-world"    -> SmallWorldCalls(r.nodeCount, r.param, r.percent)
    [] r.type = "random-regular" -> RegularCalls(r.nodeCount, r.param, tries)

(* Only the hashes of random-regular differ from attempt to attempt; they   *)
(* are taken modulo the number of nodes, and so are the attempts.           *)
Attempts(r) == IF r.type = "random-regular" THEN 0 .. r.nodeCount - 1 ELSE {0}
CallsOf == [r \in Requests |-> [tries \in Attempts(r) |-> Calls(r, tries)]]

-----------------------------------------------------------------------------
(* topology/gen *)

TopologyInit ==
  /\ request \in Requests
  /\ attempt = 0
  /\ calls = CallsOf[request][0]
  /\ topology = NewTopology(request.nodeCount)
  /\ file = None

AddNext ==
  /\ calls # <<>>
  /\ topology' = AddConnection(topology, Head(calls)[1], Head(calls)[2])
  /\ calls' = Tail(calls)
  /\ UNCHANGED <<request, attempt, file>>

Unfit == request.type = "random-regular" /\ ~IsConnected(topology)

(* Another attempt.  Mutant: with the same seed.                            *)
RetrySameSeed ==
  /\ calls = <<>> /\ file = None
  /\ Unfit
  /\ attempt' = (attempt + 1) % request.nodeCount
  /\ calls' = CallsOf[request][0]
  /\ topology' = NewTopology(request.nodeCount)
  /\ UNCHANGED <<request, file>>

Retry ==
  /\ calls = <<>> /\ file = None
  /\ Unfit
  /\ attempt' = (attempt + 1) % request.nodeCount
  /\ calls' = CallsOf[request][attempt']
  /\ topology' = NewTopology(request.nodeCount)
  /\ UNCHANGED <<request, file>>

SaveToFile ==
  /\ calls = <<>> /\ file = None
  /\ ~Unfit
  /\ file' = [nodeCount |-> topology.nodeCount, connections |-> topology.connections]
  /\ UNCHANGED <<request, attempt, calls, topology>>

Generate == AddNext \/ Retry \/ SaveToFile

-----------------------------------------------------------------------------
(* What the code promises *)

(* The generator by itself. *)
GeneratorSpec == TopologyInit /\ [][Generate]_topologyVars

(* A connection stands once, with the lower end first, between two nodes.   *)
ConnectionsDistinct ==
  LET connections == topology.connections IN
  /\ \A i \in DOMAIN connections :
       connections[i][1] < connections[i][2]
  /\ \A i, j \in DOMAIN connections : connections[i] = connections[j] => i = j

(* The adjacency list and the connections, which alone are saved, say the   *)
(* same, and so either end of a connection knows the other.                 *)
Adjacent(a, b) == Contains(topology.adjacencyList[a], b)
Connected(a, b) == Contains(topology.connections, Lower(a, b))

AdjacencyAgrees ==
  \A a, b \in 0 .. request.nodeCount - 1 : Adjacent(a, b) <=> Connected(a, b)

(* What is saved is the topology, and it is not touched any more.           *)
SavedAsBuilt ==
  file # None =>
    /\ calls = <<>>
    /\ file = [nodeCount |-> request.nodeCount, connections |-> topology.connections]
=============================================================================
