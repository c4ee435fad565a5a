------------------------------ MODULE ShadowProofs ------------------------------
(***************************************************************************)
(* Theorems about Topology.tla and Shadow.tla, for any set of requests.    *)
(*                                                                         *)
(* Whatever calls a generator makes and however often it starts again,     *)
(* what it fills and saves is a simple undirected graph on the nodes asked *)
(* for; and the six generators save a connected one.  The nodes that load  *)
(* it dial every connection once, and when nothing moves any more every    *)
(* node has enough chunks of the message.                                  *)
(*                                                                         *)
(* Enough chunks give the message back.  The elements of the binary field  *)
(* are a field, whatever the irreducible polynomial; any so many rows of   *)
(* the encoding matrix are independent, because the points of evaluation   *)
(* differ; and so are decoded, in any order, the chunks that nodes have.   *)
(***************************************************************************)
EXTENDS Shadow, SequenceTheorems, FiniteSetTheorems, TLAPS

NodesOf(r) == 0 .. r.nodeCount - 1

(* The types that the properties rest on; what the calls are is not needed, *)
(* because AddConnection checks them.                                       *)
TopologyTypeOK ==
  /\ request \in Requests
  /\ topology.nodeCount = request.nodeCount
  /\ topology = [nodeCount |-> topology.nodeCount, connections |-> topology.connections,
                 adjacencyList |-> topology.adjacencyList]
  /\ topology.connections \in Seq(NodesOf(request) \X NodesOf(request))
  /\ topology.adjacencyList \in [NodesOf(request) -> Seq(NodesOf(request))]

TopologyInv == TopologyTypeOK /\ ConnectionsDistinct /\ AdjacencyAgrees /\ SavedAsBuilt

(* A request asks for some number of nodes. *)
LEMMA NodeCountIsNat == ASSUME NEW r \in Requests PROVE r.nodeCount \in Nat
BY RequestsAssumption

(* What appending makes the members of a sequence. *)
LEMMA AppendedMembers ==
  ASSUME NEW S, NEW q \in Seq(S), NEW x \in S, NEW y
  PROVE  Contains(Append(q, x), y) <=> Contains(q, y) \/ y = x
<1>1. /\ Len(q) \in Nat /\ Len(Append(q, x)) = Len(q) + 1
      /\ Append(q, x)[Len(q) + 1] = x
      /\ \A i \in 1 .. Len(q) : Append(q, x)[i] = q[i]
  OBVIOUS
<1> QED BY <1>1 DEF Contains

(* An empty topology. *)
LEMMA NewIsWellFormed ==
  ASSUME request \in Requests, topology = NewTopology(request.nodeCount)
  PROVE  TopologyTypeOK /\ ConnectionsDistinct /\ AdjacencyAgrees
<1> DEFINE N == NodesOf(request)
<1>1. /\ topology.nodeCount = request.nodeCount /\ topology.connections = <<>>
      /\ topology.adjacencyList = [n \in N |-> <<>>]
  BY DEF NewTopology, NodesOf
<1>2. TopologyTypeOK
  <2>1. topology = [nodeCount |-> topology.nodeCount, connections |-> topology.connections,
                    adjacencyList |-> topology.adjacencyList]
    BY DEF NewTopology
  <2> QED BY <1>1, <2>1 DEF TopologyTypeOK
<1>3. ConnectionsDistinct
  BY <1>1 DEF ConnectionsDistinct
<1>4. AdjacencyAgrees
  <2>1. \A a \in N : topology.adjacencyList[a] = <<>>
    BY <1>1
  <2> QED BY <1>1, <2>1 DEF AdjacencyAgrees, Adjacent, Connected, Contains, NodesOf
<1> QED BY <1>2, <1>3, <1>4

-----------------------------------------------------------------------------
(* A call that AddConnection acts on: two ends that are nodes, and not yet  *)
(* connected.                                                               *)
LEMMA AddConnectionKeeps ==
  ASSUME TopologyTypeOK, ConnectionsDistinct, AdjacencyAgrees,
         NEW from, NEW to,
         topology' = AddConnection(topology, from, to), request' = request
  PROVE  TopologyTypeOK' /\ ConnectionsDistinct' /\ AdjacencyAgrees'
<1> DEFINE N == NodesOf(request)
           conns == topology.connections
           adj == topology.adjacencyList
<1>0. request.nodeCount \in Nat /\ topology.nodeCount = request.nodeCount
  BY NodeCountIsNat DEF TopologyTypeOK
<1>1. CASE topology' = topology
  BY <1>1 DEF TopologyTypeOK, ConnectionsDistinct, AdjacencyAgrees, Adjacent, Connected
<1>2. CASE topology' # topology
  <2>1. /\ {from, to} \cap (0 .. topology.nodeCount - 1) = {from, to} /\ from # to
        /\ ~ Contains(conns, Lower(from, to))
        /\ topology' = [topology EXCEPT !.connections = Append(@, Lower(from, to)),
                                        !.adjacencyList = Adjoined(@, <<from, to>>)]
    BY <1>2 DEF AddConnection
  <2>2. from \in N /\ to \in N
    <3>1. from \in {from, to} \cap (0 .. topology.nodeCount - 1)
      BY <2>1
    <3>2. to \in {from, to} \cap (0 .. topology.nodeCount - 1)
      BY <2>1
    <3> QED BY <3>1, <3>2, <1>0 DEF NodesOf
  <2>3. conns \in Seq(N \X N) /\ adj \in [N -> Seq(N)]
    BY DEF TopologyTypeOK
  <2>4. /\ topology'.nodeCount = request.nodeCount
        /\ topology'.connections = Append(conns, Lower(from, to))
        /\ topology'.adjacencyList = Adjoined(adj, <<from, to>>)
        /\ topology' = [nodeCount |-> topology.nodeCount,
                        connections |-> topology'.connections,
                        adjacencyList |-> topology'.adjacencyList]
    <3> DEFINE newConns == Append(conns, Lower(from, to))
               newAdj == Adjoined(adj, <<from, to>>)
    <3>1. topology = [nodeCount |-> topology.nodeCount, connections |-> conns,
                      adjacencyList |-> adj]
      BY DEF TopologyTypeOK
    <3>2. topology' = [topology EXCEPT !.connections = newConns, !.adjacencyList = newAdj]
      BY <2>1
    <3> HIDE DEF newConns, newAdj
    <3>3. topology' = [nodeCount |-> topology.nodeCount, connections |-> newConns,
                       adjacencyList |-> newAdj]
      BY <3>1, <3>2
    <3>4. /\ topology'.nodeCount = topology.nodeCount /\ topology'.connections = newConns
          /\ topology'.adjacencyList = newAdj
      BY <3>3
    <3> QED BY <3>3, <3>4, <1>0 DEF newConns, newAdj
  <2>5. from \in Int /\ to \in Int /\ N \subseteq Int
    BY <2>2, <1>0 DEF NodesOf
  <2>6. /\ Lower(from, to) \in N \X N /\ Lower(from, to)[1] < Lower(from, to)[2]
    BY <2>1, <2>2, <2>5 DEF Lower
  <2>7. topology'.adjacencyList =
          [adj EXCEPT ![from] = Append(@, to), ![to] = Append(@, from)]
    BY <2>4 DEF Adjoined
  <2>8. /\ topology'.adjacencyList \in [N -> Seq(N)]
        /\ topology'.adjacencyList[from] = Append(adj[from], to)
        /\ topology'.adjacencyList[to] = Append(adj[to], from)
        /\ \A n \in N \ {from, to} : topology'.adjacencyList[n] = adj[n]
    <3>1. adj[from] \in Seq(N) /\ adj[to] \in Seq(N)
      BY <2>2, <2>3
    <3>2. Append(adj[from], to) \in Seq(N) /\ Append(adj[to], from) \in Seq(N)
      BY <2>2, <3>1
    <3> HIDE DEF N, adj
    <3> QED BY <2>1, <2>2, <2>3, <2>7, <3>2
  <2>9. TopologyTypeOK'
    <3>1. topology'.connections \in Seq(N \X N)
      BY <2>3, <2>4, <2>6
    <3> QED BY <3>1, <2>4, <2>8, <1>0 DEF TopologyTypeOK, NodesOf
  <2>10. ConnectionsDistinct'
    <3>1. /\ DOMAIN conns = 1 .. Len(conns) /\ Len(conns) \in Nat
          /\ DOMAIN topology'.connections = 1 .. Len(conns) + 1
          /\ topology'.connections[Len(conns) + 1] = Lower(from, to)
          /\ \A i \in 1 .. Len(conns) : topology'.connections[i] = conns[i]
      BY <2>3, <2>4, <2>6
    <3>2. ASSUME NEW i \in DOMAIN topology'.connections
          PROVE  topology'.connections[i][1] < topology'.connections[i][2]
      BY <3>1, <2>6 DEF ConnectionsDistinct
    <3>3. ASSUME NEW i \in DOMAIN topology'.connections, NEW j \in DOMAIN topology'.connections,
                 topology'.connections[i] = topology'.connections[j]
          PROVE  i = j
      BY <3>1, <3>3, <2>1 DEF ConnectionsDistinct, Contains
    <3> QED BY <3>2, <3>3 DEF ConnectionsDistinct
  <2>11. AdjacencyAgrees'
    <3>1. SUFFICES ASSUME NEW a \in N, NEW b \in N
                   PROVE  Adjacent(a, b)' <=> Connected(a, b)'
      BY DEF AdjacencyAgrees, NodesOf
    <3>2. Adjacent(a, b) <=> Connected(a, b)
      BY DEF AdjacencyAgrees, NodesOf
    <3>3. Connected(a, b)' <=> Connected(a, b) \/ Lower(a, b) = Lower(from, to)
      <4> DEFINE S == N \X N
                 L == Lower(from, to)
                 y == Lower(a, b)
      <4>1. conns \in Seq(S) /\ L \in S
        BY <2>3, <2>6
      <4> HIDE DEF S, L, y
      <4>2. Contains(Append(conns, L), y) <=> Contains(conns, y) \/ y = L
        BY <4>1, AppendedMembers
      <4> QED BY <4>2, <2>4 DEF Connected, L, y
    <3>4. Lower(a, b) = Lower(from, to) <=> {a, b} = {from, to}
      BY <2>1, <2>2, <2>5 DEF Lower
    <3>5. Adjacent(a, b)' <=> Adjacent(a, b) \/ (a = from /\ b = to) \/ (a = to /\ b = from)
      <4>1. CASE a = from
        <5>1. adj[a] \in Seq(N) /\ topology'.adjacencyList[a] = Append(adj[a], to)
          BY <4>1, <2>2, <2>3, <2>8
        <5>2. Adjacent(a, b)' <=> Adjacent(a, b) \/ b = to
          BY <2>2, <5>1, AppendedMembers DEF Adjacent
        <5> QED BY <4>1, <5>2, <2>1
      <4>2. CASE a = to
        <5>1. adj[a] \in Seq(N) /\ topology'.adjacencyList[a] = Append(adj[a], from)
          BY <4>2, <2>2, <2>3, <2>8
        <5>2. Adjacent(a, b)' <=> Adjacent(a, b) \/ b = from
          BY <2>2, <5>1, AppendedMembers DEF Adjacent
        <5> QED BY <4>2, <5>2, <2>1
      <4>3. CASE a \notin {from, to}
        BY <4>3, <2>8 DEF Adjacent
      <4> QED BY <4>1, <4>2, <4>3
    <3>6. (a = from /\ b = to) \/ (a = to /\ b = from) <=> {a, b} = {from, to}
      BY <2>1
    <3> QED BY <3>2, <3>3, <3>4, <3>5, <3>6
  <2> QED BY <2>9, <2>10, <2>11
<1> QED BY <1>1, <1>2

-----------------------------------------------------------------------------
(* The topology is well formed from the start and after every step of the   *)
(* generator.                                                               *)
LEMMA TopologyStart == ASSUME TopologyInit PROVE TopologyInv
BY NewIsWellFormed DEF TopologyInit, TopologyInv, SavedAsBuilt

LEMMA TopologyStep ==
  ASSUME TopologyInv, [Generate]_topologyVars
  PROVE  TopologyInv'
<1> USE DEF TopologyInv
<1>1. CASE AddNext
  <2>1. TopologyTypeOK' /\ ConnectionsDistinct' /\ AdjacencyAgrees'
    BY <1>1, AddConnectionKeeps DEF AddNext
  <2>2. SavedAsBuilt'
    BY <1>1 DEF AddNext, SavedAsBuilt
  <2> QED BY <2>1, <2>2
<1>2. CASE Retry
  <2>1. request' \in Requests /\ topology' = NewTopology(request'.nodeCount)
    BY <1>2 DEF Retry, TopologyTypeOK
  <2>2. (request \in Requests /\ topology = NewTopology(request.nodeCount)
           => TopologyTypeOK /\ ConnectionsDistinct /\ AdjacencyAgrees)'
    BY NewIsWellFormed, PTL
  <2>3. SavedAsBuilt'
    BY <1>2 DEF Retry, SavedAsBuilt
  <2> QED BY <2>1, <2>2, <2>3
<1>3. CASE SaveToFile
  BY <1>3 DEF SaveToFile, TopologyTypeOK, ConnectionsDistinct, AdjacencyAgrees,
              Adjacent, Connected, SavedAsBuilt
<1>4. CASE UNCHANGED topologyVars
  BY <1>4 DEF topologyVars, TopologyTypeOK, ConnectionsDistinct, AdjacencyAgrees,
              Adjacent, Connected, SavedAsBuilt
<1> QED BY <1>1, <1>2, <1>3, <1>4 DEF Generate

(* Whatever a generator calls, and however often it starts again: each      *)
(* connection stands once and with its lower end first, both ends list each *)
(* other, and the file has the connections that were built.                 *)
THEOREM TopologyCorrect ==
  GeneratorSpec => [](ConnectionsDistinct /\ AdjacencyAgrees /\ SavedAsBuilt)
<1>1. TopologyInit => TopologyInv
  BY TopologyStart
<1>2. TopologyInv /\ [Generate]_topologyVars => TopologyInv'
  BY TopologyStep
<1> QED BY <1>1, <1>2, PTL DEF GeneratorSpec, TopologyInv

-----------------------------------------------------------------------------
(* Loading a topology.  The fold over the connections has a history.        *)
AdjoinsEach(h, N, conns) ==
  /\ h[0] = [m \in N |-> <<>>]
  /\ \A k \in 1 .. Len(conns) : h[k] = Adjoined(h[k - 1], conns[k])

LEMMA AdjoinedHistory ==
  ASSUME NEW n \in Nat, NEW N, N = 0 .. n - 1, NEW conns \in Seq(N \X N),
         \A k \in 1 .. Len(conns) : conns[k][1] # conns[k][2]
  PROVE  \E h \in [0 .. Len(conns) -> [N -> Seq(N)]] :
           /\ AdjoinsEach(h, N, conns)
           /\ h[Len(conns)] = FoldLeft(Adjoined, [m \in N |-> <<>>], conns)
<1> DEFINE V == [N -> Seq(N)]
           base == [m \in N |-> <<>>]
           len == Len(conns)
           H == [v \in V |-> [k \in 1 .. len |-> Adjoined(v, conns[k])]]
           E(f) == [s \in SUBSET DOMAIN conns |->
                      IF s = {} THEN base
                      ELSE Adjoined(f[s \ {Max(s)}], conns[Max(s)])]
           it == CHOOSE f : f = E(f)
<1>1. len \in Nat /\ DOMAIN conns = 1 .. len /\ \A k \in 1 .. len : conns[k] \in N \X N
  OBVIOUS
<1>2. base \in V
  OBVIOUS
<1>3. ASSUME NEW v \in V, NEW c \in N \X N, c[1] # c[2] PROVE Adjoined(v, c) \in V
  <2>1. c[1] \in N /\ c[2] \in N /\ v \in [N -> Seq(N)]
    OBVIOUS
  <2>2. Append(v[c[1]], c[2]) \in Seq(N) /\ Append(v[c[2]], c[1]) \in Seq(N)
    BY <2>1
  <2> HIDE DEF V
  <2>3. Adjoined(v, c) \in [N -> Seq(N)]
    BY <1>3, <2>1, <2>2 DEF Adjoined
  <2> QED BY <2>3 DEF V
<1>4. FoldLeft(Adjoined, base, conns) = it[DOMAIN conns]
  BY DEF FoldLeft, MapThenFoldSet
<1> HIDE DEF V, base, len
<1>5. \A v \in V, k \in 1 .. len : H[v][k] = Adjoined(v, conns[k]) /\ H[v][k] \in V
  <2>1. \A k \in 1 .. len : conns[k][1] # conns[k][2]
    BY DEF len
  <2> QED BY <1>1, <1>3, <2>1 DEF V, len
<1> HIDE DEF H
<1>6. it = E(it)
  <2>1. PICK g \in [SUBSET (1 .. len) -> V] : FoldRecurses(g, len, base, H)
    BY <1>1, <1>2, <1>5, FoldRecursion DEF ClosedUnder
  <2>2. ASSUME NEW s \in SUBSET (1 .. len), s # {}
        PROVE  g[s] = Adjoined(g[s \ {Max(s)}], conns[Max(s)])
    <3>1. Max(s) \in s
      BY <1>1, <2>2, SubsetMax
    <3>2. g[s] = H[g[s \ {Max(s)}]][Max(s)]
      BY <2>1, <2>2 DEF FoldRecurses
    <3> QED BY <1>5, <3>1, <3>2
  <2>3. g[{}] = base
    BY <2>1 DEF FoldRecurses
  <2>4. g = E(g)
    BY <1>1, <2>2, <2>3
  <2> HIDE DEF E
  <2> QED BY <2>4
<1> HIDE DEF it
<1>7. Follows(it, len, V, base, H)
  <2>1. it[{}] = base
    BY <1>6
  <2>2. ASSUME NEW k \in 1 .. len, it[1 .. k - 1] \in V
        PROVE  it[1 .. k] = H[it[1 .. k - 1]][k]
    <3>1. 1 .. k \in SUBSET DOMAIN conns /\ 1 .. k # {} /\ k \in Nat \ {0}
      BY <1>1, SegmentOf
    <3>2. it[1 .. k] = Adjoined(it[(1 .. k) \ {Max(1 .. k)}], conns[Max(1 .. k)])
      BY <1>6, <3>1
    <3>3. it[1 .. k] = Adjoined(it[1 .. k - 1], conns[k])
      BY <3>1, <3>2, SegmentMax
    <3> QED BY <1>5, <2>2, <3>3
  <2> QED BY <2>1, <2>2 DEF Follows
<1>8. ClosedUnder(H, V, len)
  BY <1>5 DEF ClosedUnder
<1>9. PICK h \in [0 .. len -> V] : History(h, len, base, H) /\ h[len] = it[1 .. len]
  <2>1. len \in Nat
    BY <1>1
  <2> QED BY <1>2, <1>7, <1>8, <2>1, FoldHistory
<1>10. ASSUME NEW k \in 1 .. len PROVE h[k] = Adjoined(h[k - 1], conns[k])
  <2>1. h[k - 1] \in V
    <3>1. k - 1 \in 0 .. len
      BY <1>1
    <3> QED BY <3>1
  <2> QED BY <1>5, <1>9, <2>1 DEF History
<1> DEFINE result == FoldLeft(Adjoined, base, conns)
<1>11. h[0] = base /\ h[len] = result
  BY <1>1, <1>4, <1>9 DEF History
<1> HIDE DEF result
<1>12. AdjoinsEach(h, N, conns)
  BY <1>10, <1>11 DEF AdjoinsEach, base, len
<1> QED BY <1>11, <1>12 DEF V, base, len, result

(* A sequence that has nothing twice. *)
NoRepeats(s) == \A i, j \in 1 .. Len(s) : s[i] = s[j] => i = j

LEMMA AppendNew ==
  ASSUME NEW S, NEW s \in Seq(S), NEW e \in S
  PROVE  /\ Append(s, e) \in Seq(S)
         /\ \A x : Member(x, Append(s, e)) <=> Member(x, s) \/ x = e
         /\ NoRepeats(s) /\ ~ Member(e, s) => NoRepeats(Append(s, e))
<1>1. /\ Len(s) \in Nat /\ Append(s, e) \in Seq(S) /\ Len(Append(s, e)) = Len(s) + 1
      /\ \A i \in 1 .. Len(s) : Append(s, e)[i] = s[i]
      /\ Append(s, e)[Len(s) + 1] = e
  BY AppendElements
<1>2. \A i : i \in 1 .. Len(s) + 1 <=> i \in 1 .. Len(s) \/ i = Len(s) + 1
  BY <1>1
<1>3. \A x : Member(x, Append(s, e)) <=> Member(x, s) \/ x = e
  BY <1>1, <1>2 DEF Member
<1>4. ASSUME NoRepeats(s), ~ Member(e, s) PROVE NoRepeats(Append(s, e))
  BY <1>1, <1>2, <1>4 DEF NoRepeats, Member
<1> QED BY <1>1, <1>3, <1>4

(* Connections as a topology keeps them: each once, the lower end first.    *)
Simple(conns) ==
  /\ \A i \in 1 .. Len(conns) : conns[i][1] < conns[i][2]
  /\ \A i, j \in 1 .. Len(conns) : conns[i] = conns[j] => i = j

(* The adjacency list of a loaded topology: a node is listed with its       *)
(* neighbours in the saved connections, with each of them once.             *)
Built(N, conns) == FoldLeft(Adjoined, [m \in N |-> <<>>], conns)

Lists(A, N, conns) ==
  /\ A \in [N -> Seq(N)]
  /\ \A a \in N : NoRepeats(A[a])
  /\ \A a, b \in N : Member(b, A[a]) <=> Member(Lower(a, b), conns)

LEMMA LoadedAdjacency ==
  ASSUME NEW n \in Nat, NEW N, N = 0 .. n - 1, NEW conns \in Seq(N \X N), Simple(conns)
  PROVE  Lists(Built(N, conns), N, conns)
<1> DEFINE A == Built(N, conns)
           len == Len(conns)
           Upto(k, c) == \E i \in 1 .. k : conns[i] = c
<1>1. len \in Nat /\ \A k \in 1 .. len : conns[k] \in N \X N
  OBVIOUS
<1>2. N \subseteq Int
  OBVIOUS
<1>3. \A k \in 1 .. len :
        conns[k][1] \in N /\ conns[k][2] \in N /\ conns[k][1] < conns[k][2]
        /\ conns[k][1] # conns[k][2] /\ conns[k] = <<conns[k][1], conns[k][2]>>
  <2> SUFFICES ASSUME NEW k \in 1 .. len
               PROVE  conns[k][1] \in N /\ conns[k][2] \in N /\ conns[k][1] < conns[k][2]
                      /\ conns[k][1] # conns[k][2] /\ conns[k] = <<conns[k][1], conns[k][2]>>
    OBVIOUS
  <2>1. conns[k][1] \in N /\ conns[k][2] \in N /\ conns[k] = <<conns[k][1], conns[k][2]>>
    BY <1>1
  <2>2. conns[k][1] < conns[k][2]
    BY DEF Simple
  <2>3. conns[k][1] # conns[k][2]
    BY <1>2, <2>1, <2>2
  <2> QED BY <2>1, <2>2, <2>3
<1>4. PICK h \in [0 .. len -> [N -> Seq(N)]] :
        /\ h[0] = [m \in N |-> <<>>]
        /\ h[len] = A
        /\ \A k \in 1 .. len : h[k] = Adjoined(h[k - 1], conns[k])
  <2>1. \A k \in 1 .. Len(conns) : conns[k][1] # conns[k][2]
    BY <1>3
  <2>2. \E h \in [0 .. Len(conns) -> [N -> Seq(N)]] :
          AdjoinsEach(h, N, conns) /\ h[Len(conns)] = A
    BY <2>1, AdjoinedHistory, ZenonT(30) DEF Built
  <2> QED BY <2>2 DEF AdjoinsEach
<1> DEFINE T == {k \in 0 .. len : \A a, b \in N :
                   NoRepeats(h[k][a]) /\ (Member(b, h[k][a]) <=> Upto(k, Lower(a, b)))}
<1>5. 0 \in T
  <2>1. \A a \in N : h[0][a] = <<>>
    BY <1>4
  <2> QED BY <1>1, <2>1 DEF NoRepeats, Member
<1>6. ASSUME NEW k \in 0 .. len - 1, k \in T PROVE k + 1 \in T
  <2> DEFINE c == conns[k + 1]
             v == h[k]
             w == h[k + 1]
  <2>1. k + 1 \in 1 .. len /\ k \in 0 .. len /\ (k + 1) - 1 = k /\ k + 1 \in 0 .. len
        /\ \A i : i \in 1 .. k + 1 <=> i \in 1 .. k \/ i = k + 1
    BY <1>1
  <2>2. c[1] \in N /\ c[2] \in N /\ c[1] < c[2] /\ c[1] # c[2] /\ c = <<c[1], c[2]>>
    BY <1>3, <2>1
  <2>3. v \in [N -> Seq(N)] /\ w = Adjoined(v, c)
    BY <1>4, <2>1
  <2>4. \A a, b \in N : NoRepeats(v[a]) /\ (Member(b, v[a]) <=> Upto(k, Lower(a, b)))
    BY <1>6
  <2>5. ~ Upto(k, c)
    <3>1. \A i \in 1 .. k : i \in 1 .. len /\ i # k + 1
      BY <2>1
    <3> QED BY <2>1, <3>1 DEF Simple
  <2>6. \A x : Upto(k + 1, x) <=> Upto(k, x) \/ x = c
    BY <2>1
  <2> HIDE DEF c, v, w, Upto
  <2>7. /\ w[c[1]] = Append(v[c[1]], c[2]) /\ w[c[2]] = Append(v[c[2]], c[1])
        /\ \A a \in N : a # c[1] /\ a # c[2] => w[a] = v[a]
    BY <2>2, <2>3 DEF Adjoined
  <2>8. Lower(c[1], c[2]) = c /\ Lower(c[2], c[1]) = c
    BY <1>2, <2>2 DEF Lower
  <2>9. \A a, b \in N : Lower(a, b) = c <=> (a = c[1] /\ b = c[2]) \/ (a = c[2] /\ b = c[1])
    BY <1>2, <2>2 DEF Lower
  <2>10. ASSUME NEW a \in N, NEW b \in N
         PROVE  NoRepeats(w[a]) /\ (Member(b, w[a]) <=> Upto(k + 1, Lower(a, b)))
    <3>1. CASE a = c[1]
      <4>1. v[a] \in Seq(N) /\ ~ Member(c[2], v[a]) /\ NoRepeats(v[a])
        BY <2>2, <2>3, <2>4, <2>5, <2>8, <3>1
      <4>a. w[a] = Append(v[a], c[2])
        BY <2>7, <3>1
      <4>b. /\ NoRepeats(Append(v[a], c[2]))
            /\ \A x : Member(x, Append(v[a], c[2])) <=> Member(x, v[a]) \/ x = c[2]
        <5> DEFINE s == v[a]
                   e == c[2]
        <5>1. s \in Seq(N) /\ e \in N /\ NoRepeats(s) /\ ~ Member(e, s)
          BY <2>2, <4>1
        <5> HIDE DEF s, e
        <5>2. /\ NoRepeats(Append(s, e))
              /\ \A x : Member(x, Append(s, e)) <=> Member(x, s) \/ x = e
          BY <5>1, AppendNew
        <5> QED BY <5>2 DEF s, e
      <4>2. NoRepeats(w[a]) /\ (Member(b, w[a]) <=> Member(b, v[a]) \/ b = c[2])
        BY <4>a, <4>b
      <4> QED BY <2>2, <2>4, <2>6, <2>9, <3>1, <4>2
    <3>2. CASE a = c[2]
      <4>1. v[a] \in Seq(N) /\ ~ Member(c[1], v[a]) /\ NoRepeats(v[a])
        BY <2>2, <2>3, <2>4, <2>5, <2>8, <3>2
      <4>a. w[a] = Append(v[a], c[1])
        BY <2>7, <3>2
      <4>b. /\ NoRepeats(Append(v[a], c[1]))
            /\ \A x : Member(x, Append(v[a], c[1])) <=> Member(x, v[a]) \/ x = c[1]
        <5> DEFINE s == v[a]
                   e == c[1]
        <5>1. s \in Seq(N) /\ e \in N /\ NoRepeats(s) /\ ~ Member(e, s)
          BY <2>2, <4>1
        <5> HIDE DEF s, e
        <5>2. /\ NoRepeats(Append(s, e))
              /\ \A x : Member(x, Append(s, e)) <=> Member(x, s) \/ x = e
          BY <5>1, AppendNew
        <5> QED BY <5>2 DEF s, e
      <4>2. NoRepeats(w[a]) /\ (Member(b, w[a]) <=> Member(b, v[a]) \/ b = c[1])
        BY <4>a, <4>b
      <4> QED BY <2>2, <2>4, <2>6, <2>9, <3>2, <4>2
    <3>3. CASE a # c[1] /\ a # c[2]
      BY <2>4, <2>6, <2>7, <2>9, <3>3
    <3> QED BY <3>1, <3>2, <3>3
  <2> QED BY <2>1, <2>10 DEF w
<1>7. len \in T
  <2> HIDE DEF T
  <2>1. 0 .. len \subseteq T
    BY <1>1, <1>5, <1>6, BoundedInduction
  <2>2. len \in 0 .. len
    BY <1>1
  <2> QED BY <2>1, <2>2
<1>8. len \in 0 .. len
  BY <1>1
<1>9. h[len] \in [N -> Seq(N)]
  BY <1>8
<1>10. A \in [N -> Seq(N)]
  BY <1>4, <1>9
<1>11. \A a, b \in N : NoRepeats(A[a]) /\ (Member(b, A[a]) <=> Upto(len, Lower(a, b)))
  BY <1>4, <1>7
<1>12. \A c : Upto(len, c) <=> Member(c, conns)
  BY DEF Member
<1> HIDE DEF Upto
<1>13. \A a, b \in N : Member(b, A[a]) <=> Member(Lower(a, b), conns)
  BY <1>11, <1>12
<1> HIDE DEF A
<1>14. \A a \in N : NoRepeats(A[a])
  BY <1>11
<1>15. Lists(A, N, conns)
  BY <1>10, <1>13, <1>14 DEF Lists
<1> QED BY <1>15 DEF A

(* The peers above a node are filtered in their order. *)
FiltersEach(h, n, peers) ==
  /\ h[0] = <<>>
  /\ \A k \in 1 .. Len(peers) :
       h[k] = IF peers[k] > n THEN Append(h[k - 1], peers[k]) ELSE h[k - 1]

LEMMA AboveHistory ==
  ASSUME NEW n, NEW S, NEW peers \in Seq(S)
  PROVE  \E h \in [0 .. Len(peers) -> Seq(S)] :
           FiltersEach(h, n, peers) /\ h[Len(peers)] = Above(n, peers)
<1> DEFINE V == Seq(S)
           len == Len(peers)
           step(v, x) == IF x > n THEN Append(v, x) ELSE v
           H == [v \in V |-> [k \in 1 .. len |-> step(v, peers[k])]]
           E(f) == [s \in SUBSET DOMAIN peers |->
                      IF s = {} THEN <<>>
                      ELSE IF peers[Max(s)] > n
                           THEN Append(f[s \ {Max(s)}], peers[Max(s)]) ELSE f[s \ {Max(s)}]]
           it == CHOOSE f : f = E(f)
<1>1. len \in Nat /\ DOMAIN peers = 1 .. len /\ \A k \in 1 .. len : peers[k] \in S
  OBVIOUS
<1>2. <<>> \in V
  OBVIOUS
<1>3. \A v \in V, k \in 1 .. len : H[v][k] = step(v, peers[k]) /\ step(v, peers[k]) \in V
  OBVIOUS
<1>4. Above(n, peers) = it[DOMAIN peers]
  BY DEF Above, FoldLeft, MapThenFoldSet
<1> HIDE DEF V, len, H
<1>5. it = E(it)
  <2>1. PICK g \in [SUBSET (1 .. len) -> V] : FoldRecurses(g, len, <<>>, H)
    <3>1. ClosedUnder(H, V, len)
      BY <1>3 DEF ClosedUnder
    <3> QED BY <1>1, <1>2, <3>1, FoldRecursion
  <2>2. ASSUME NEW s \in SUBSET (1 .. len), s # {}
        PROVE  g[s] = step(g[s \ {Max(s)}], peers[Max(s)])
    <3>1. Max(s) \in s
      BY <1>1, <2>2, SubsetMax
    <3>2. g[s] = H[g[s \ {Max(s)}]][Max(s)]
      BY <2>1, <2>2 DEF FoldRecurses
    <3> QED BY <1>3, <3>1, <3>2
  <2>3. g[{}] = <<>>
    BY <2>1 DEF FoldRecurses
  <2>4. g = E(g)
    BY <1>1, <2>2, <2>3
  <2> HIDE DEF E
  <2> QED BY <2>4
<1> HIDE DEF it
<1>6. Follows(it, len, V, <<>>, H)
  <2>1. it[{}] = <<>>
    BY <1>5
  <2>2. ASSUME NEW k \in 1 .. len, it[1 .. k - 1] \in V
        PROVE  it[1 .. k] = H[it[1 .. k - 1]][k]
    <3>1. 1 .. k \in SUBSET DOMAIN peers /\ 1 .. k # {} /\ k \in Nat \ {0}
      BY <1>1, SegmentOf
    <3>2. it[1 .. k] = step(it[(1 .. k) \ {Max(1 .. k)}], peers[Max(1 .. k)])
      BY <1>5, <3>1
    <3>3. it[1 .. k] = step(it[1 .. k - 1], peers[k])
      BY <3>1, <3>2, SegmentMax
    <3> QED BY <1>3, <2>2, <3>3
  <2> QED BY <2>1, <2>2 DEF Follows
<1>7. ClosedUnder(H, V, len)
  BY <1>3 DEF ClosedUnder
<1>8. PICK h \in [0 .. len -> V] : History(h, len, <<>>, H) /\ h[len] = it[1 .. len]
  BY <1>1, <1>2, <1>6, <1>7, FoldHistory
<1>9. ASSUME NEW k \in 1 .. len PROVE h[k] = step(h[k - 1], peers[k])
  <2>1. k - 1 \in 0 .. len
    BY <1>1
  <2>2. h[k - 1] \in V
    BY <2>1
  <2> QED BY <1>3, <1>8, <2>2 DEF History
<1>10. h[0] = <<>> /\ h[len] = Above(n, peers)
  BY <1>1, <1>4, <1>8 DEF History
<1>11. FiltersEach(h, n, peers)
  BY <1>9, <1>10 DEF FiltersEach, len
<1> QED BY <1>10, <1>11 DEF V, len

LEMMA AboveMembers ==
  ASSUME NEW n, NEW S, NEW peers \in Seq(S), NoRepeats(peers)
  PROVE  /\ Above(n, peers) \in Seq(S) /\ NoRepeats(Above(n, peers))
         /\ \A x : Member(x, Above(n, peers)) <=> Member(x, peers) /\ x > n
<1> DEFINE len == Len(peers)
<1>1. len \in Nat /\ \A k \in 1 .. len : peers[k] \in S
  OBVIOUS
<1>2. PICK h \in [0 .. len -> Seq(S)] :
        /\ h[0] = <<>> /\ h[len] = Above(n, peers)
        /\ \A k \in 1 .. len :
             h[k] = IF peers[k] > n THEN Append(h[k - 1], peers[k]) ELSE h[k - 1]
  <2>1. \E h \in [0 .. Len(peers) -> Seq(S)] :
          FiltersEach(h, n, peers) /\ h[Len(peers)] = Above(n, peers)
    BY AboveHistory
  <2> QED BY <2>1 DEF FiltersEach
<1> DEFINE T == {k \in 0 .. len :
                   /\ NoRepeats(h[k])
                   /\ \A x : Member(x, h[k]) <=> (\E i \in 1 .. k : peers[i] = x) /\ x > n}
<1>3. 0 \in T
  BY <1>1, <1>2 DEF NoRepeats, Member
<1>4. ASSUME NEW k \in 0 .. len - 1, k \in T PROVE k + 1 \in T
  <2>1. k + 1 \in 1 .. len /\ k \in 0 .. len /\ (k + 1) - 1 = k /\ k + 1 \in 0 .. len
        /\ \A i : i \in 1 .. k + 1 <=> i \in 1 .. k \/ i = k + 1
    BY <1>1
  <2>2. h[k] \in Seq(S) /\ peers[k + 1] \in S
    BY <1>1, <1>2, <2>1
  <2>3. /\ NoRepeats(h[k])
        /\ \A x : Member(x, h[k]) <=> (\E i \in 1 .. k : peers[i] = x) /\ x > n
    BY <1>4
  <2>4. ~ \E i \in 1 .. k : peers[i] = peers[k + 1]
    <3>1. \A i \in 1 .. k : i \in 1 .. len /\ i # k + 1
      BY <2>1
    <3> QED BY <2>1, <3>1 DEF NoRepeats
  <2>5. CASE peers[k + 1] > n
    <3>1. h[k + 1] = Append(h[k], peers[k + 1])
      BY <1>2, <2>1, <2>5
    <3>2. NoRepeats(h[k + 1])
          /\ \A x : Member(x, h[k + 1]) <=> Member(x, h[k]) \/ x = peers[k + 1]
      BY <2>2, <2>3, <2>4, <3>1, AppendNew
    <3> QED BY <2>1, <2>3, <2>5, <3>2
  <2>6. CASE ~ (peers[k + 1] > n)
    <3>1. h[k + 1] = h[k]
      BY <1>2, <2>1, <2>6
    <3> QED BY <2>1, <2>3, <2>6, <3>1
  <2> QED BY <2>5, <2>6
<1>5. len \in T
  <2> HIDE DEF T
  <2>1. 0 .. len \subseteq T
    BY <1>1, <1>3, <1>4, BoundedInduction
  <2> QED BY <1>1, <2>1
<1>6. h[len] \in Seq(S)
  BY <1>1, <1>2
<1> QED BY <1>2, <1>5, <1>6 DEF Member

-----------------------------------------------------------------------------
(* Connected graphs.  Every way out of a set of nodes is a connection: the  *)
(* only set with node 0 that no connection leads out of is the set of all.  *)
LeadsTo(S, N, conns) == \A a \in S, b \in N : Member(Lower(a, b), conns) => b \in S

Spanning(N, conns) == \A S \in SUBSET N : 0 \in S /\ LeadsTo(S, N, conns) => S = N

StaysIn(S, n, N, t) ==
  /\ n \in Nat /\ n > 1 /\ N = 0 .. n - 1 /\ S \in SUBSET N /\ 0 \in S
  /\ t.nodeCount = n /\ t.adjacencyList \in [N -> Seq(N)]
  /\ \A a \in S, b \in N : Member(b, t.adjacencyList[a]) => b \in S

(* The search of IsConnected does not leave a set that the adjacency list   *)
(* does not lead out of.                                                    *)
LEMMA SearchStaysInside ==
  ASSUME NEW S, NEW n, NEW N, NEW t, StaysIn(S, n, N, t), IsConnected(t)
  PROVE  S = N
<1> USE DEF StaysIn
<1> DEFINE adj == t.adjacencyList
           V == SUBSET S
           further(v) == UNION {{m} \cup ToSet(adj[m]) : m \in v}
           H == [v \in V |-> [k \in 1 .. n |-> further(v)]]
           places == [i \in 1 .. t.nodeCount |-> i]
           E(f) == [s \in SUBSET DOMAIN places |->
                      IF s = {} THEN {0} ELSE further(f[s \ {Max(s)}])]
           it == CHOOSE f : f = E(f)
<1>1. Cardinality(it[DOMAIN places]) = n
  <2>1. ~ (n <= 1)
    OBVIOUS
  <2>2. Cardinality(it[DOMAIN places]) = t.nodeCount
    BY <2>1 DEF IsConnected, FoldLeft, MapThenFoldSet
  <2> QED BY <2>2
<1>2. DOMAIN places = 1 .. n
  OBVIOUS
<1>3. ASSUME NEW v \in V PROVE further(v) \in V
  <2>1. ASSUME NEW m \in v, NEW b \in ToSet(adj[m]) PROVE b \in S
    <3>1. m \in S /\ adj[m] \in Seq(N) /\ DOMAIN adj[m] = 1 .. Len(adj[m])
      OBVIOUS
    <3>2. PICK i \in 1 .. Len(adj[m]) : adj[m][i] = b
      BY <3>1 DEF ToSet
    <3>3. Member(b, adj[m]) /\ b \in N
      <4>1. Member(b, adj[m])
        BY <3>2 DEF Member
      <4>2. adj[m][i] \in N
        BY <3>1, <3>2
      <4> QED BY <3>2, <4>1, <4>2
    <3> QED BY <3>1, <3>3
  <2> QED BY <2>1
<1>4. \A v \in V, k \in 1 .. n : H[v][k] = further(v) /\ further(v) \in V
  BY <1>3
<1>5. {0} \in V
  OBVIOUS
<1> HIDE DEF places, adj, V, H
<1>6. ClosedUnder(H, V, n)
  BY <1>4 DEF ClosedUnder
<1>7. it = E(it)
  <2>1. PICK g \in [SUBSET (1 .. n) -> V] : FoldRecurses(g, n, {0}, H)
    BY <1>5, <1>6, FoldRecursion
  <2> HIDE DEF further
  <2>2. ASSUME NEW s \in SUBSET (1 .. n), s # {}
        PROVE  g[s] = further(g[s \ {Max(s)}])
    <3>1. Max(s) \in s
      BY <2>2, SubsetMax
    <3>2. g[s] = H[g[s \ {Max(s)}]][Max(s)]
      BY <2>1, <2>2 DEF FoldRecurses
    <3> QED BY <1>4, <3>1, <3>2
  <2>3. g[{}] = {0}
    BY <2>1 DEF FoldRecurses
  <2>4. g = E(g)
    BY <1>2, <2>2, <2>3
  <2> HIDE DEF E
  <2> QED BY <2>4
<1> HIDE DEF it, further
<1>8. Follows(it, n, V, {0}, H)
  <2>1. it[{}] = {0}
    BY <1>7
  <2>2. ASSUME NEW k \in 1 .. n, it[1 .. k - 1] \in V
        PROVE  it[1 .. k] = H[it[1 .. k - 1]][k]
    <3>1. 1 .. k \in SUBSET DOMAIN places /\ 1 .. k # {} /\ k \in Nat \ {0}
      BY <1>2, SegmentOf
    <3>2. it[1 .. k] = further(it[(1 .. k) \ {Max(1 .. k)}])
      BY <1>7, <3>1
    <3>3. it[1 .. k] = further(it[1 .. k - 1])
      BY <3>1, <3>2, SegmentMax
    <3> QED BY <1>4, <2>2, <3>3
  <2> QED BY <2>1, <2>2 DEF Follows
<1>9. PICK h \in [0 .. n -> V] : h[n] = it[1 .. n]
  BY <1>5, <1>6, <1>8, FoldHistory
<1>10. it[1 .. n] \in SUBSET S
  BY <1>9 DEF V
<1>11. IsFiniteSet(N) /\ Cardinality(N) = n
  <2>1. 0 \in Int /\ n - 1 \in Int /\ ~ (0 > n - 1) /\ (n - 1) - 0 + 1 = n
    OBVIOUS
  <2> QED BY <2>1, FS_Interval
<1>12. it[1 .. n] = N
  <2>1. it[1 .. n] \in SUBSET N /\ Cardinality(it[1 .. n]) = n
    BY <1>1, <1>2, <1>10
  <2> QED BY <1>11, <2>1, FS_Subset
<1> QED BY <1>10, <1>12

(* What the nodes reach from node 0 over the connections: a step from all   *)
(* that are reached so far brings a new one as long as there is one, so     *)
(* that there are enough steps.                                             *)
LEMMA SpanningReached ==
  ASSUME NEW n, n \in Nat, n > 1, request.nodeCount = n,
         topology.connections \in Seq(Nodes \X Nodes), Spanning(Nodes, topology.connections)
  PROVE  Reached = Nodes
<1> DEFINE conns == topology.connections
           V == SUBSET Nodes
           len == n - 1
           further(v) == v \cup {p \in Nodes : \E m \in v : Lower(m, p) \in Connections}
           H == [v \in V |-> [k \in 1 .. len |-> further(v)]]
           places == [i \in Nodes \ {0} |-> i]
           E(f) == [s \in SUBSET DOMAIN places |->
                      IF s = {} THEN {0} ELSE further(f[s \ {Max(s)}])]
           it == CHOOSE f : f = E(f)
<1>1. Reached = it[DOMAIN places]
  BY DEF Reached, FoldLeft, MapThenFoldSet
<1>2. /\ Nodes = 0 .. n - 1 /\ 0 \in Nodes /\ DOMAIN places = 1 .. len
      /\ len \in Nat /\ len + 1 = n
  BY DEF Nodes
<1>3. \A c : c \in Connections <=> Member(c, conns)
  BY DEF Connections, Member
<1>4. \A v \in V, k \in 1 .. len : H[v][k] = further(v) /\ further(v) \in V
  OBVIOUS
<1>5. {0} \in V
  BY <1>2
<1>6. IsFiniteSet(Nodes) /\ Cardinality(Nodes) = n
  <2>1. 0 \in Int /\ n - 1 \in Int /\ ~ (0 > n - 1) /\ (n - 1) - 0 + 1 = n
    OBVIOUS
  <2> QED BY <1>2, <2>1, FS_Interval
<1>7. ASSUME NEW v \in V, 0 \in v
      PROVE  v \subseteq further(v) /\ (v # Nodes => \E p \in Nodes : p \notin v /\ p \in further(v))
  <2>1. ASSUME v # Nodes PROVE \E p \in Nodes : p \notin v /\ p \in further(v)
    <3>1. ~ LeadsTo(v, Nodes, conns)
      BY <1>7, <2>1 DEF Spanning
    <3>2. PICK a \in v, b \in Nodes : Member(Lower(a, b), conns) /\ b \notin v
      BY <3>1 DEF LeadsTo
    <3> QED BY <1>3, <3>2
  <2> QED BY <2>1
<1> HIDE DEF places, V, H, len, conns
<1>8. ClosedUnder(H, V, len)
  BY <1>4 DEF ClosedUnder
<1>9. it = E(it)
  <2>1. PICK g \in [SUBSET (1 .. len) -> V] : FoldRecurses(g, len, {0}, H)
    BY <1>2, <1>5, <1>8, FoldRecursion
  <2> HIDE DEF further
  <2>2. ASSUME NEW s \in SUBSET (1 .. len), s # {}
        PROVE  g[s] = further(g[s \ {Max(s)}])
    <3>1. Max(s) \in s
      BY <1>2, <2>2, SubsetMax
    <3>2. g[s] = H[g[s \ {Max(s)}]][Max(s)]
      BY <2>1, <2>2 DEF FoldRecurses
    <3> QED BY <1>4, <3>1, <3>2
  <2>3. g[{}] = {0}
    BY <2>1 DEF FoldRecurses
  <2>4. g = E(g)
    BY <1>2, <2>2, <2>3
  <2> HIDE DEF E
  <2> QED BY <2>4
<1> HIDE DEF it, further
<1>10. Follows(it, len, V, {0}, H)
  <2>1. it[{}] = {0}
    BY <1>9
  <2>2. ASSUME NEW k \in 1 .. len, it[1 .. k - 1] \in V
        PROVE  it[1 .. k] = H[it[1 .. k - 1]][k]
    <3>1. 1 .. k \in SUBSET DOMAIN places /\ 1 .. k # {} /\ k \in Nat \ {0}
      BY <1>2, SegmentOf
    <3>2. it[1 .. k] = further(it[(1 .. k) \ {Max(1 .. k)}])
      BY <1>9, <3>1
    <3>3. it[1 .. k] = further(it[1 .. k - 1])
      BY <3>1, <3>2, SegmentMax
    <3> QED BY <1>4, <2>2, <3>3
  <2> QED BY <2>1, <2>2 DEF Follows
<1>11. PICK h \in [0 .. len -> V] : History(h, len, {0}, H) /\ h[len] = it[1 .. len]
  <2>1. len \in Nat
    BY <1>2
  <2> QED BY <1>5, <1>8, <1>10, <2>1, FoldHistory
<1> DEFINE T == {k \in 0 .. len : 0 \in h[k] /\ (h[k] = Nodes \/ Cardinality(h[k]) >= k + 1)}
<1>12. 0 \in T
  <2>1. h[0] = {0} /\ Cardinality({0}) = 1
    BY <1>11, FS_Singleton DEF History
  <2>2. 0 \in 0 .. len /\ 0 + 1 = 1
    BY <1>2
  <2>3. 0 \in h[0] /\ Cardinality(h[0]) >= 0 + 1
    BY <2>1
  <2> QED BY <2>2, <2>3
<1>13. ASSUME NEW k \in 0 .. len - 1, k \in T PROVE k + 1 \in T
  <2>1. k + 1 \in 1 .. len /\ k \in 0 .. len /\ (k + 1) - 1 = k /\ k + 1 \in 0 .. len
    BY <1>2
  <2>2. h[k] \in V /\ h[k + 1] = further(h[k])
    BY <1>4, <1>11, <2>1 DEF History
  <2>3. 0 \in h[k] /\ h[k] \subseteq h[k + 1] /\ h[k + 1] \in SUBSET Nodes
    BY <1>4, <1>7, <1>13, <2>1, <2>2 DEF V
  <2>4. CASE h[k] = Nodes
    BY <2>1, <2>3, <2>4
  <2>5. CASE h[k] # Nodes /\ Cardinality(h[k]) >= k + 1
    <3>1. PICK p \in Nodes : p \notin h[k] /\ p \in h[k + 1]
      BY <1>7, <2>2, <2>3, <2>5
    <3>2. IsFiniteSet(h[k]) /\ IsFiniteSet(h[k + 1])
      BY <1>6, <2>2, <2>3, FS_Subset DEF V
    <3>3. Cardinality(h[k] \cup {p}) = Cardinality(h[k]) + 1 /\ Cardinality(h[k]) \in Nat
      BY <3>1, <3>2, FS_AddElement, FS_CardinalityType
    <3>4. h[k] \cup {p} \in SUBSET h[k + 1]
      BY <2>3, <3>1
    <3>5. Cardinality(h[k] \cup {p}) <= Cardinality(h[k + 1]) /\ Cardinality(h[k + 1]) \in Nat
      BY <3>2, <3>4, FS_Subset, FS_CardinalityType
    <3>6. Cardinality(h[k + 1]) >= (k + 1) + 1
      BY <2>1, <2>5, <3>3, <3>5
    <3> QED BY <2>1, <2>3, <3>6
  <2> QED BY <1>13, <2>4, <2>5
<1>14. len \in T
  <2> HIDE DEF T
  <2>1. 0 .. len \subseteq T
    BY <1>2, <1>12, <1>13, BoundedInduction
  <2> QED BY <1>2, <2>1
<1>15. h[len] \in SUBSET Nodes
  BY <1>2, <1>11 DEF V
<1>16. h[len] = Nodes
  <2>1. CASE Cardinality(h[len]) >= len + 1
    <3>1. Cardinality(h[len]) <= Cardinality(Nodes) /\ Cardinality(h[len]) \in Nat
      BY <1>6, <1>15, FS_Subset, FS_CardinalityType
    <3>2. Cardinality(Nodes) = Cardinality(h[len])
      BY <1>2, <1>6, <2>1, <3>1
    <3> QED BY <1>6, <1>15, <3>2, FS_Subset
  <2> QED BY <1>14, <2>1
<1> QED BY <1>1, <1>2, <1>11, <1>16

-----------------------------------------------------------------------------
(* The calls of the generators that do not draw.  Some call connects each   *)
(* node but the first to a lower one.                                       *)
Parented(n, s) == \A m \in 1 .. n - 1 : \E a \in 0 .. m - 1 : Member(<<a, m>>, s)

(* The greater and the lesser of two numbers. *)
LEMMA MinMaxOfTwo ==
  ASSUME NEW a \in Int, NEW b \in Int
  PROVE  /\ Min({a, b}) = IF a <= b THEN a ELSE b
         /\ Max({a, b}) = IF a <= b THEN b ELSE a
<1>1. PICK x \in {a, b} : x = IF a <= b THEN a ELSE b
  OBVIOUS
<1>2. PICK y \in {a, b} : y = IF a <= b THEN b ELSE a
  OBVIOUS
<1>3. /\ \A z \in {a, b} : x <= z
      /\ \A w \in {a, b} : (\A z \in {a, b} : w <= z) => w = x
  BY <1>1
<1>4. /\ \A z \in {a, b} : y >= z
      /\ \A w \in {a, b} : (\A z \in {a, b} : w >= z) => w = y
  BY <1>2
<1>5. Min({a, b}) = x
  BY <1>3 DEF Min
<1>6. Max({a, b}) = y
  BY <1>4 DEF Max
<1> QED BY <1>1, <1>2, <1>5, <1>6

(* A call that a node makes in its turn is one of the generator's. *)
LEMMA MemberOfTurn ==
  ASSUME NEW S, NEW n \in Nat, NEW seqs, seqs \in Seq(Seq(S)), Len(seqs) = n,
         NEW i \in 1 .. n, NEW j \in 1 .. Len(seqs[i]), NEW x, seqs[i][j] = x
  PROVE  Member(x, FlattenSeq(seqs))
<1>1. Member(x, seqs[i])
  BY DEF Member
<1> QED BY <1>1, FlattenMembers

LEMMA LinearReaches ==
  ASSUME NEW n \in Nat, n > 1
  PROVE  LinearCalls(n) \in Seq(Int \X Int) /\ Parented(n, LinearCalls(n))
<1>1. LinearCalls(n) \in Seq(Int \X Int) /\ Len(LinearCalls(n)) = n - 1
  BY DEF LinearCalls
<1>2. ASSUME NEW m \in 1 .. n - 1 PROVE \E a \in 0 .. m - 1 : Member(<<a, m>>, LinearCalls(n))
  <2>1. m - 1 \in 0 .. m - 1 /\ LinearCalls(n)[m] = <<m - 1, m>>
    BY DEF LinearCalls
  <2> QED BY <1>1, <2>1 DEF Member
<1> QED BY <1>1, <1>2 DEF Parented

LEMMA RingReaches ==
  ASSUME NEW n \in Nat, n > 1
  PROVE  RingCalls(n) \in Seq(Int \X Int) /\ Parented(n, RingCalls(n))
<1>0. \A i \in 1 .. n : i % n \in Int
  OBVIOUS
<1>1. RingCalls(n) \in Seq(Int \X Int) /\ Len(RingCalls(n)) = n
  BY <1>0 DEF RingCalls
<1>2. ASSUME NEW m \in 1 .. n - 1 PROVE \E a \in 0 .. m - 1 : Member(<<a, m>>, RingCalls(n))
  <2>1. m - 1 \in 0 .. m - 1 /\ m % n = m /\ m \in 1 .. n
    OBVIOUS
  <2>2. RingCalls(n)[m] = <<m - 1, m>>
    BY <2>1 DEF RingCalls
  <2> QED BY <1>1, <2>1, <2>2 DEF Member
<1> QED BY <1>1, <1>2 DEF Parented

LEMMA MeshReaches ==
  ASSUME NEW n \in Nat, n > 1
  PROVE  MeshCalls(n) \in Seq(Int \X Int) /\ Parented(n, MeshCalls(n))
<1> DEFINE S == Int \X Int
           turn(i) == [j \in 1 .. n - i |-> <<i - 1, i - 1 + j>>]
           seqs == [i \in 1 .. n |-> turn(i)]
<1>1. \A i \in 1 .. n : turn(i) \in Seq(S) /\ Len(turn(i)) = n - i
  OBVIOUS
<1>2. seqs \in Seq(Seq(S)) /\ Len(seqs) = n
  BY <1>1
<1>3. ASSUME NEW m \in 1 .. n - 1 PROVE \E a \in 0 .. m - 1 : Member(<<a, m>>, MeshCalls(n))
  <2>1. m - 1 \in 0 .. m - 1 /\ m \in 1 .. n /\ 1 \in 1 .. n - m /\ m - 1 + 1 = m
    OBVIOUS
  <2>2. seqs[m][1] = <<m - 1, m>> /\ 1 \in 1 .. Len(seqs[m])
    BY <1>1, <2>1
  <2> HIDE DEF seqs
  <2>3. Member(<<m - 1, m>>, FlattenSeq(seqs))
    BY <1>2, <2>1, <2>2, MemberOfTurn
  <2> QED BY <2>1, <2>3 DEF MeshCalls, seqs
<1>4. MeshCalls(n) \in Seq(S)
  <2> HIDE DEF seqs
  <2>1. FlattenSeq(seqs) \in Seq(S)
    BY <1>2, FlattenMembers
  <2> QED BY <2>1 DEF MeshCalls, seqs
<1> QED BY <1>3, <1>4 DEF Parented

(* Division with remainder. *)
LEMMA Division ==
  ASSUME NEW b \in Nat \ {0}, NEW x \in Nat
  PROVE  \E p \in 0 .. x, r \in 0 .. b - 1 : x = p * b + r
<1> DEFINE Divides(y) == \E p \in 0 .. y, r \in 0 .. b - 1 : y = p * b + r
           T == {y \in Nat : Divides(y)}
<1>1. 0 \in T
  <2>1. 0 \in 0 .. 0 /\ 0 \in 0 .. b - 1 /\ 0 = 0 * b + 0
    OBVIOUS
  <2> QED BY <2>1
<1>2. ASSUME NEW y \in T PROVE y + 1 \in T
  <2>1. PICK p \in 0 .. y, r \in 0 .. b - 1 : y = p * b + r
    OBVIOUS
  <2>2. p * b \in Int /\ (p + 1) * b = p * b + b
    OBVIOUS
  <2>3. CASE r + 1 < b
    <3>1. p \in 0 .. y + 1 /\ r + 1 \in 0 .. b - 1 /\ y + 1 = p * b + (r + 1)
      BY <2>1, <2>2, <2>3
    <3> QED BY <3>1
  <2>4. CASE ~ (r + 1 < b)
    <3>1. p + 1 \in 0 .. y + 1 /\ 0 \in 0 .. b - 1 /\ y + 1 = (p + 1) * b + 0
      BY <2>1, <2>2, <2>4
    <3>2. \E q \in 0 .. y + 1, s \in 0 .. b - 1 : y + 1 = q * b + s
      <4> DEFINE q == p + 1
      <4>1. q \in 0 .. y + 1 /\ y + 1 = q * b + 0
        BY <3>1
      <4> HIDE DEF q
      <4> QED BY <3>1, <4>1
    <3>3. Divides(y + 1)
      BY <3>2, Zenon
    <3>4. y + 1 \in Nat
      OBVIOUS
    <3> HIDE DEF Divides
    <3> QED BY <3>3, <3>4
  <2> QED BY <2>3, <2>4
<1> HIDE DEF T
<1>3. T \in SUBSET Nat
  BY DEF T
<1>4. T = Nat
  BY <1>1, <1>2, <1>3, SetInduction
<1> QED BY <1>4 DEF T

LEMMA TreeReaches ==
  ASSUME NEW n \in Nat, n > 1, NEW branching \in Int
  PROVE  TreeCalls(n, branching) \in Seq(Int \X Int) /\ Parented(n, TreeCalls(n, branching))
<1> DEFINE S == Int \X Int
           b == Max({branching, 2})
           children(i) == Min({b, n - 1 - (i - 1) * b})
           turn(i) == [j \in 1 .. children(i) |-> <<i - 1, (i - 1) * b + j>>]
           seqs == [i \in 1 .. n |-> turn(i)]
<1>1. b \in Nat \ {0}
  <2>1. branching \in Int /\ 2 \in Int
    OBVIOUS
  <2>2. Max({branching, 2}) = IF branching <= 2 THEN 2 ELSE branching
    BY <2>1, MinMaxOfTwo
  <2> QED BY <2>2
<1>2. TreeCalls(n, branching) = FlattenSeq(seqs)
  BY DEF TreeCalls
<1> HIDE DEF b
<1>3. \A i \in 1 .. n :
        /\ (i - 1) * b \in Int /\ children(i) \in Int
        /\ \A j \in Int : j <= b /\ j <= n - 1 - (i - 1) * b => j <= children(i)
  <2> SUFFICES ASSUME NEW i \in 1 .. n
               PROVE  /\ (i - 1) * b \in Int /\ children(i) \in Int
                      /\ \A j \in Int : j <= b /\ j <= n - 1 - (i - 1) * b => j <= children(i)
    OBVIOUS
  <2> DEFINE c == n - 1 - (i - 1) * b
  <2>1. (i - 1) * b \in Int /\ c \in Int /\ b \in Int
    BY <1>1
  <2> HIDE DEF c
  <2>2. Min({b, c}) = IF b <= c THEN b ELSE c
    BY <2>1, MinMaxOfTwo
  <2>3. Min({b, c}) \in Int /\ \A j \in Int : j <= b /\ j <= c => j <= Min({b, c})
    BY <2>1, <2>2
  <2> QED BY <2>1, <2>3 DEF c
<1> HIDE DEF children
<1>4. ASSUME NEW i \in 1 .. n
      PROVE  turn(i) \in Seq(S) /\ \A j \in 1 .. children(i) : j \in 1 .. Len(turn(i))
  <2>1. \A j \in 1 .. children(i) : <<i - 1, (i - 1) * b + j>> \in S
    BY <1>1, <1>3
  <2>2. children(i) \in Int
    BY <1>3
  <2>3. CASE children(i) >= 0
    <3>1. children(i) \in Nat
      BY <2>2, <2>3
    <3> QED BY <2>1, <3>1
  <2>4. CASE ~ (children(i) >= 0)
    <3>1. 1 .. children(i) = {}
      BY <2>2, <2>4
    <3>2. turn(i) = <<>>
      BY <3>1
    <3> HIDE DEF turn
    <3> QED BY <3>1, <3>2
  <2> QED BY <2>3, <2>4
<1>5. seqs \in Seq(Seq(S)) /\ Len(seqs) = n
  BY <1>4
<1>6. ASSUME NEW m \in 1 .. n - 1
      PROVE  \E a \in 0 .. m - 1 : Member(<<a, m>>, TreeCalls(n, branching))
  <2>1. PICK p \in 0 .. m - 1, r \in 0 .. b - 1 : m - 1 = p * b + r
    <3>1. m - 1 \in Nat
      OBVIOUS
    <3> QED BY <1>1, <3>1, Division
  <2>2. p + 1 \in 1 .. n /\ (p + 1) - 1 = p /\ p * b \in Int
    BY <1>1
  <2>3. r + 1 \in 1 .. children(p + 1)
    <3>1. r + 1 \in Int /\ r + 1 >= 1 /\ r + 1 <= b /\ r + 1 <= n - 1 - p * b
      BY <1>1, <2>1, <2>2
    <3> QED BY <1>3, <2>2, <3>1
  <2>4. p * b + (r + 1) = m
    BY <1>1, <2>1, <2>2
  <2>5. turn(p + 1)[r + 1] = <<p, m>>
    BY <2>2, <2>3, <2>4
  <2>6. r + 1 \in 1 .. Len(turn(p + 1))
    BY <1>4, <2>2, <2>3
  <2>7. seqs[p + 1] = turn(p + 1)
    BY <2>2
  <2> HIDE DEF seqs, turn
  <2>8. Member(<<p, m>>, FlattenSeq(seqs))
    <3>1. r + 1 \in 1 .. Len(seqs[p + 1]) /\ seqs[p + 1][r + 1] = <<p, m>>
      BY <2>5, <2>6, <2>7
    <3> QED BY <1>5, <2>2, <3>1, MemberOfTurn
  <2> QED BY <1>2, <2>8
<1>7. TreeCalls(n, branching) \in Seq(S)
  <2> HIDE DEF seqs
  <2> QED BY <1>2, <1>5, FlattenMembers
<1> QED BY <1>6, <1>7 DEF Parented

LEMMA SmallWorldReaches ==
  ASSUME NEW n \in Nat, n > 1, NEW k \in Int, NEW percent \in 0 .. 100,
         n = 2 => percent > 7
  PROVE  /\ SmallWorldCalls(n, k, percent) \in Seq(Int \X Int)
         /\ Parented(n, SmallWorldCalls(n, k, percent))
<1> DEFINE S == Int \X Int
           neighbours == Min({Max({k, 2}), n - 1})
           half == neighbours \div 2
           lattice(i) == [j \in 1 .. half |-> <<i - 1, (i - 1 + j) % n>>]
           hash(i)    == ((i - 1) * 13 + 7) % 100
           target(i)  == (i - 1 + hash(i) * 3) % n
           rewired(i) == IF hash(i) < percent /\ target(i) # i - 1
                         THEN << <<i - 1, target(i)>> >> ELSE <<>>
           lattices == [i \in 1 .. n |-> lattice(i)]
           rewirings == [i \in 1 .. n |-> rewired(i)]
<1>1. SmallWorldCalls(n, k, percent) = FlattenSeq(lattices) \o FlattenSeq(rewirings)
  BY DEF SmallWorldCalls
<1>2. neighbours \in Nat /\ (n > 2 => neighbours >= 2)
  <2>1. k \in Int /\ 2 \in Int /\ n - 1 \in Int
    OBVIOUS
  <2>2. Max({k, 2}) = IF k <= 2 THEN 2 ELSE k
    BY <2>1, MinMaxOfTwo
  <2>3. Max({k, 2}) \in Int /\ Max({k, 2}) >= 2
    BY <2>2
  <2>4. neighbours = IF Max({k, 2}) <= n - 1 THEN Max({k, 2}) ELSE n - 1
    BY <2>1, <2>3, MinMaxOfTwo
  <2> QED BY <2>3, <2>4
<1> HIDE DEF neighbours
<1>3. half \in Nat /\ (n > 2 => half >= 1)
  BY <1>2
<1> HIDE DEF half
<1>4. \A i \in 1 .. n : hash(i) \in Int
  OBVIOUS
<1>5. hash(1) = 7
  OBVIOUS
<1> HIDE DEF hash
<1>6. \A i \in 1 .. n : target(i) \in Int
  BY <1>4
<1>7. n = 2 => target(1) = 1
  BY <1>5
<1> HIDE DEF target
<1>8. \A i \in 1 .. n : lattice(i) \in Seq(S) /\ Len(lattice(i)) = half
  <2>1. \A i \in 1 .. n, j \in 1 .. half : (i - 1 + j) % n \in Int
    BY <1>3
  <2> QED BY <1>3, <2>1
<1>9. ASSUME NEW i \in 1 .. n PROVE rewired(i) \in Seq(S)
  <2>1. <<i - 1, target(i)>> \in S
    BY <1>6
  <2> HIDE DEF S
  <2>2. << <<i - 1, target(i)>> >> \in Seq(S) /\ <<>> \in Seq(S)
    BY <2>1
  <2> QED BY <2>2
<1>10. lattices \in Seq(Seq(S)) /\ Len(lattices) = n
  BY <1>8
<1>11. rewirings \in Seq(Seq(S)) /\ Len(rewirings) = n
  BY <1>9
<1>12. /\ SmallWorldCalls(n, k, percent) \in Seq(S)
       /\ \A x : Member(x, FlattenSeq(lattices)) \/ Member(x, FlattenSeq(rewirings))
            => Member(x, SmallWorldCalls(n, k, percent))
  <2> HIDE DEF lattices, rewirings, S
  <2>1. FlattenSeq(lattices) \in Seq(S) /\ FlattenSeq(rewirings) \in Seq(S)
    BY <1>10, <1>11, FlattenMembers
  <2> QED BY <1>1, <2>1, ConcatMembers
<1>13. CASE n > 2
  <2>1. ASSUME NEW m \in 1 .. n - 1 PROVE Member(<<m - 1, m>>, FlattenSeq(lattices))
    <3>1. m \in 1 .. n /\ 1 \in 1 .. half /\ (m - 1 + 1) = m /\ m % n = m
      BY <1>3, <1>13
    <3>2. lattices[m][1] = <<m - 1, m>> /\ 1 \in 1 .. Len(lattices[m])
      BY <1>8, <3>1
    <3> HIDE DEF lattices, S
    <3> QED BY <1>10, <3>1, <3>2, MemberOfTurn
  <2>2. \A m \in 1 .. n - 1 : m - 1 \in 0 .. m - 1
    OBVIOUS
  <2> HIDE DEF lattices
  <2> QED BY <1>12, <2>1, <2>2 DEF Parented
<1>14. CASE n = 2
  <2>1. hash(1) < percent /\ target(1) = 1
    BY <1>5, <1>7, <1>14
  <2>2. rewired(1) = << <<0, 1>> >>
    BY <2>1
  <2>3. rewirings[1] = << <<0, 1>> >>
    BY <1>14, <2>2
  <2> HIDE DEF rewirings, S
  <2>4. 1 \in 1 .. Len(rewirings[1]) /\ rewirings[1][1] = <<0, 1>> /\ 1 \in 1 .. n
    BY <1>14, <2>3
  <2>5. Member(<<0, 1>>, FlattenSeq(rewirings))
    BY <1>11, <2>4, MemberOfTurn
  <2>6. Member(<<0, 1>>, SmallWorldCalls(n, k, percent))
    BY <1>12, <2>5
  <2>7. \A m \in 1 .. n - 1 : m = 1 /\ 0 \in 0 .. m - 1
    BY <1>14
  <2>8. Parented(n, SmallWorldCalls(n, k, percent))
    BY <2>6, <2>7 DEF Parented
  <2> QED BY <1>12, <2>8 DEF S
<1> QED BY <1>12, <1>13, <1>14

(* The requests that always lead to a connected network, without drawing.   *)
Certain(r) ==
  r.type # "random-regular" /\ (r.type = "small-world" /\ r.nodeCount = 2 => r.percent > 7)

LEMMA CallsReach ==
  ASSUME NEW r \in Requests, Certain(r)
  PROVE  CallsOf[r][0] \in Seq(Int \X Int) /\ Parented(r.nodeCount, CallsOf[r][0])
<1> DEFINE n == r.nodeCount
<1>1. /\ n \in Nat /\ n > 1 /\ r.type \in Types /\ r.param \in Int /\ r.percent \in 0 .. 100
  BY RequestsAssumption
<1>2. CallsOf[r][0] = Calls(r, 0)
  <2>1. 0 \in Attempts(r)
    BY <1>1 DEF Attempts, Certain
  <2> QED BY <2>1 DEF CallsOf
<1> HIDE DEF n
<1>3. CASE r.type = "linear"
  <2>1. Calls(r, 0) = LinearCalls(n)
    BY <1>3 DEF Calls, n
  <2> QED BY <1>1, <1>2, <2>1, LinearReaches DEF n
<1>4. CASE r.type = "ring"
  <2>1. Calls(r, 0) = RingCalls(n)
    BY <1>4 DEF Calls, n
  <2> QED BY <1>1, <1>2, <2>1, RingReaches DEF n
<1>5. CASE r.type = "mesh"
  <2>1. Calls(r, 0) = MeshCalls(n)
    BY <1>5 DEF Calls, n
  <2> QED BY <1>1, <1>2, <2>1, MeshReaches DEF n
<1>6. CASE r.type = "tree"
  <2>1. Calls(r, 0) = TreeCalls(n, r.param)
    BY <1>6 DEF Calls, n
  <2> QED BY <1>1, <1>2, <2>1, TreeReaches DEF n
<1>7. CASE r.type = "small-world"
  <2>1. Calls(r, 0) = SmallWorldCalls(n, r.param, r.percent)
    BY <1>7 DEF Calls, n
  <2>2. n = 2 => r.percent > 7
    BY <1>7 DEF Certain, n
  <2> QED BY <1>1, <1>2, <2>1, <2>2, SmallWorldReaches DEF n
<1> QED BY <1>1, <1>3, <1>4, <1>5, <1>6, <1>7 DEF Types, Certain

-----------------------------------------------------------------------------
(* Every call that connects a node to a lower one is still to be made, or   *)
(* the connection is there; and what is saved is fit.                       *)
Promised ==
  Certain(request) =>
    /\ calls \in Seq(Int \X Int)
    /\ \A m \in 1 .. request.nodeCount - 1 : \E a \in 0 .. m - 1 :
         Member(<<a, m>>, calls) \/ Member(<<a, m>>, topology.connections)

SavedFit == file # None => ~Unfit

GeneratorInv == TopologyInv /\ Promised /\ SavedFit

(* A call is carried out, or the connection was there. *)
LEMMA AddConnectionAdds ==
  ASSUME TopologyTypeOK, NEW from, NEW to
  PROVE  LET after == AddConnection(topology, from, to).connections IN
         /\ \A c : Member(c, topology.connections) => Member(c, after)
         /\ from \in NodesOf(request) /\ to \in NodesOf(request) /\ from < to
              => Member(<<from, to>>, after)
<1> DEFINE t == AddConnection(topology, from, to)
           conns == topology.connections
           N == NodesOf(request)
<1>0. /\ request.nodeCount \in Nat /\ topology.nodeCount = request.nodeCount
      /\ conns \in Seq(N \X N) /\ N \subseteq Int
  BY NodeCountIsNat DEF TopologyTypeOK, NodesOf
<1>1. CASE t = topology
  <2>1. ASSUME from \in N, to \in N, from < to PROVE Member(<<from, to>>, conns)
    <3>1. from # to /\ Lower(from, to) = <<from, to>>
      BY <1>0, <2>1 DEF Lower
    <3>2. {from, to} \cap (0 .. topology.nodeCount - 1) = {from, to}
      BY <1>0, <2>1 DEF NodesOf
    <3>3. CASE Contains(conns, Lower(from, to))
      BY <1>0, <3>1, <3>3 DEF Contains, Member
    <3>4. CASE ~ Contains(conns, Lower(from, to))
      <4>1. t.connections = Append(conns, <<from, to>>)
        <5>1. t = [topology EXCEPT !.connections = Append(@, Lower(from, to)),
                                   !.adjacencyList = Adjoined(@, <<from, to>>)]
          BY <3>1, <3>2, <3>4 DEF AddConnection
        <5> DEFINE newConns == Append(conns, Lower(from, to))
                   newAdj == Adjoined(topology.adjacencyList, <<from, to>>)
        <5>2. t = [topology EXCEPT !.connections = newConns, !.adjacencyList = newAdj]
          BY <5>1
        <5>3. topology = [nodeCount |-> topology.nodeCount, connections |-> conns,
                          adjacencyList |-> topology.adjacencyList]
          BY DEF TopologyTypeOK
        <5> HIDE DEF newConns, newAdj, t
        <5>4. t.connections = newConns
          BY <5>2, <5>3
        <5> QED BY <3>1, <5>4 DEF newConns
      <4>2. Append(conns, <<from, to>>) = conns /\ <<from, to>> \in N \X N
        BY <1>1, <2>1, <4>1
      <4>3. Len(conns) = Len(conns) + 1 /\ Len(conns) \in Nat
        BY <1>0, <4>2, AppendElements
      <4> QED BY <4>3
    <3> QED BY <3>3, <3>4
  <2> QED BY <1>1, <2>1
<1>2. CASE t # topology
  <2>1. /\ {from, to} \cap (0 .. topology.nodeCount - 1) = {from, to} /\ from # to
        /\ t = [topology EXCEPT !.connections = Append(@, Lower(from, to)),
                                !.adjacencyList = Adjoined(@, <<from, to>>)]
    BY <1>2 DEF AddConnection
  <2>2. from \in N /\ to \in N
    <3>1. from \in {from, to} \cap (0 .. topology.nodeCount - 1)
      BY <2>1
    <3>2. to \in {from, to} \cap (0 .. topology.nodeCount - 1)
      BY <2>1
    <3> QED BY <1>0, <3>1, <3>2 DEF NodesOf
  <2>3. t.connections = Append(conns, Lower(from, to))
    <3> DEFINE newConns == Append(conns, Lower(from, to))
               newAdj == Adjoined(topology.adjacencyList, <<from, to>>)
    <3>1. t = [topology EXCEPT !.connections = newConns, !.adjacencyList = newAdj]
      BY <2>1
    <3>2. topology = [nodeCount |-> topology.nodeCount, connections |-> conns,
                      adjacencyList |-> topology.adjacencyList]
      BY DEF TopologyTypeOK
    <3> HIDE DEF newConns, newAdj, t
    <3>3. t.connections = newConns
      BY <3>1, <3>2
    <3> QED BY <3>3 DEF newConns
  <2>4. Lower(from, to) \in N \X N
    BY <1>0, <2>2 DEF Lower
  <2>5. \A c : Member(c, t.connections) <=> Member(c, conns) \/ c = Lower(from, to)
    <3> DEFINE S == N \X N
               e == Lower(from, to)
    <3>1. conns \in Seq(S) /\ e \in S
      BY <1>0, <2>4
    <3> HIDE DEF S, e, conns
    <3>2. \A c : Member(c, Append(conns, e)) <=> Member(c, conns) \/ c = e
      BY <3>1, AppendNew
    <3> QED BY <2>3, <3>2 DEF e
  <2>6. from < to => Lower(from, to) = <<from, to>>
    BY DEF Lower
  <2> QED BY <2>5, <2>6
<1> QED BY <1>1, <1>2

LEMMA GeneratorStart == ASSUME TopologyInit PROVE GeneratorInv
<1>1. TopologyInv
  BY TopologyStart
<1>2. Promised
  <2>1. ASSUME Certain(request) PROVE calls \in Seq(Int \X Int) /\ Parented(request.nodeCount, calls)
    BY <2>1, CallsReach DEF TopologyInit
  <2> QED BY <2>1 DEF Promised, Parented
<1> QED BY <1>1, <1>2 DEF GeneratorInv, SavedFit, TopologyInit

LEMMA GeneratorStep ==
  ASSUME GeneratorInv, [Generate]_topologyVars
  PROVE  GeneratorInv'
<1>1. TopologyInv'
  BY TopologyStep DEF GeneratorInv
<1>2. TopologyTypeOK /\ SavedAsBuilt /\ Promised /\ SavedFit
  BY DEF GeneratorInv, TopologyInv
<1>3. CASE AddNext
  <2> DEFINE c == Head(calls)
  <2>1. /\ calls # <<>> /\ topology' = AddConnection(topology, c[1], c[2])
        /\ calls' = Tail(calls) /\ request' = request /\ file' = file
    BY <1>3 DEF AddNext
  <2>2. SavedFit'
    BY <1>2, <2>1 DEF SavedAsBuilt, SavedFit
  <2>3. Promised'
    <3> SUFFICES ASSUME Certain(request)
                 PROVE  /\ calls' \in Seq(Int \X Int)
                        /\ \A m \in 1 .. request.nodeCount - 1 : \E a \in 0 .. m - 1 :
                             Member(<<a, m>>, calls') \/ Member(<<a, m>>, topology'.connections)
      BY <2>1 DEF Promised
    <3>1. calls \in Seq(Int \X Int)
      BY <1>2 DEF Promised
    <3>2. /\ calls' \in Seq(Int \X Int) /\ c \in Int \X Int
          /\ \A x : Member(x, calls) => x = c \/ Member(x, calls')
      <4>1. /\ Len(calls) \in Nat \ {0} /\ Len(Tail(calls)) = Len(calls) - 1
            /\ \A i \in 1 .. Len(Tail(calls)) : Tail(calls)[i] = calls[i + 1]
            /\ Head(calls) = calls[1] /\ Head(calls) \in Int \X Int
            /\ Tail(calls) \in Seq(Int \X Int)
        BY <2>1, <3>1, HeadTailProperties, EmptySeq
      <4>2. ASSUME NEW x, Member(x, calls), x # c PROVE Member(x, Tail(calls))
        <5>1. PICK i \in 1 .. Len(calls) : calls[i] = x
          BY <4>2 DEF Member
        <5>2. i # 1
          BY <4>1, <4>2, <5>1
        <5>3. i - 1 \in 1 .. Len(Tail(calls)) /\ (i - 1) + 1 = i
          BY <4>1, <5>2
        <5> QED BY <4>1, <5>1, <5>3 DEF Member
      <4> QED BY <2>1, <4>1, <4>2
    <3>3. ASSUME NEW m \in 1 .. request.nodeCount - 1
          PROVE  \E a \in 0 .. m - 1 :
                   Member(<<a, m>>, calls') \/ Member(<<a, m>>, topology'.connections)
      <4>1. PICK a \in 0 .. m - 1 : Member(<<a, m>>, calls) \/ Member(<<a, m>>, topology.connections)
        BY <1>2 DEF Promised
      <4>2. a \in NodesOf(request) /\ m \in NodesOf(request) /\ a < m
        <5>1. request.nodeCount \in Nat
          BY <1>2, NodeCountIsNat DEF TopologyTypeOK
        <5> QED BY <5>1 DEF NodesOf
      <4>3. CASE Member(<<a, m>>, topology.connections)
        <5>1. Member(<<a, m>>, topology'.connections)
          BY <1>2, <2>1, <4>3, AddConnectionAdds
        <5> QED BY <5>1
      <4>4. CASE <<a, m>> = c
        <5>1. c[1] = a /\ c[2] = m
          BY <4>4
        <5>2. Member(<<a, m>>, topology'.connections)
          BY <1>2, <2>1, <4>2, <5>1, AddConnectionAdds
        <5> QED BY <5>2
      <4>5. CASE Member(<<a, m>>, calls) /\ <<a, m>> # c
        BY <3>2, <4>5
      <4> QED BY <4>1, <4>3, <4>4, <4>5
    <3> QED BY <3>2, <3>3
  <2> QED BY <1>1, <2>2, <2>3 DEF GeneratorInv
<1>4. CASE Retry
  BY <1>1, <1>4 DEF Retry, Unfit, GeneratorInv, Promised, SavedFit, Certain
<1>5. CASE SaveToFile
  BY <1>1, <1>2, <1>5 DEF SaveToFile, Unfit, GeneratorInv, Promised, SavedFit
<1>6. CASE UNCHANGED topologyVars
  BY <1>1, <1>2, <1>6 DEF topologyVars, Unfit, GeneratorInv, Promised, SavedFit
<1> QED BY <1>3, <1>4, <1>5, <1>6 DEF Generate

(* Every way out of a part of the nodes is a connection of what is saved.   *)
LEMMA SavedSpans ==
  ASSUME GeneratorInv, file # None, ~Apart
  PROVE  Spanning(Nodes, topology.connections)
<1> DEFINE n == request.nodeCount
           conns == topology.connections
<1>1. /\ TopologyTypeOK /\ AdjacencyAgrees /\ calls = <<>> /\ ~Unfit /\ Promised
      /\ request \in Requests
  BY DEF GeneratorInv, TopologyInv, TopologyTypeOK, SavedAsBuilt, SavedFit
<1>2. n \in Nat /\ n > 1 /\ Nodes = 0 .. n - 1 /\ Nodes = NodesOf(request)
      /\ request.percent \in 0 .. 100
  BY <1>1, RequestsAssumption DEF Nodes, NodesOf
<1>3. SUFFICES ASSUME NEW S \in SUBSET Nodes, 0 \in S, LeadsTo(S, Nodes, conns)
               PROVE  S = Nodes
  BY DEF Spanning
<1>4. CASE request.type = "random-regular"
  <2>1. /\ IsConnected(topology) /\ topology.nodeCount = n
        /\ topology.adjacencyList \in [Nodes -> Seq(Nodes)]
    BY <1>1, <1>2, <1>4 DEF Unfit, TopologyTypeOK
  <2>2. ASSUME NEW a \in S, NEW b \in Nodes, Member(b, topology.adjacencyList[a])
        PROVE  b \in S
    <3>1. topology.adjacencyList[a] \in Seq(Nodes) /\ conns \in Seq(Nodes \X Nodes)
      BY <1>1, <1>2, <2>1 DEF TopologyTypeOK
    <3>2. Adjacent(a, b)
      BY <2>2, <3>1 DEF Adjacent, Contains, Member
    <3>3. Connected(a, b)
      BY <1>1, <1>2, <3>2 DEF AdjacencyAgrees
    <3>4. Member(Lower(a, b), conns)
      BY <3>1, <3>3 DEF Connected, Contains, Member
    <3> QED BY <1>3, <3>4 DEF LeadsTo
  <2> DEFINE N == Nodes
             t == topology
             k == n
  <2>3. StaysIn(S, k, N, t) /\ IsConnected(t)
    BY <1>2, <1>3, <2>1, <2>2 DEF StaysIn
  <2> HIDE DEF N, t, k
  <2>4. S = N
    BY <2>3, SearchStaysInside
  <2> QED BY <2>4 DEF N
<1>5. CASE request.type # "random-regular"
  <2>1. Certain(request)
    <3>1. ~ (request.percent <= 7) => request.percent > 7
      <4> DEFINE p == request.percent
      <4>1. p \in 0 .. 100
        BY <1>2
      <4> HIDE DEF p
      <4>2. ~ (p <= 7) => p > 7
        BY <4>1
      <4> QED BY <4>2 DEF p
    <3>2. request.type = "small-world" /\ n = 2 => ~ (request.percent <= 7)
      BY DEF Apart
    <3> QED BY <1>5, <3>1, <3>2 DEF Certain
  <2>2. \A m \in 1 .. n - 1 : \E a \in 0 .. m - 1 : Member(<<a, m>>, conns)
    <3>1. \A x : ~ Member(x, calls)
      BY <1>1 DEF Member
    <3> QED BY <1>1, <2>1, <3>1 DEF Promised
  <2> DEFINE T == {k \in 0 .. n - 1 : 0 .. k \subseteq S}
  <2>3. 0 \in T
    BY <1>2, <1>3
  <2>4. ASSUME NEW k \in 0 .. (n - 1) - 1, k \in T PROVE k + 1 \in T
    <3>1. k + 1 \in 1 .. n - 1 /\ k + 1 \in Nodes /\ k + 1 \in 0 .. n - 1
          /\ \A i : i \in 0 .. k + 1 <=> i \in 0 .. k \/ i = k + 1
      BY <1>2
    <3>2. PICK a \in 0 .. (k + 1) - 1 : Member(<<a, k + 1>>, conns)
      BY <2>2, <3>1
    <3>3. a \in S /\ Lower(a, k + 1) = <<a, k + 1>>
      BY <2>4, <3>1 DEF Lower
    <3>4. k + 1 \in S
      BY <1>3, <3>1, <3>2, <3>3 DEF LeadsTo
    <3> QED BY <2>4, <3>1, <3>4
  <2>5. n - 1 \in T
    <3> HIDE DEF T
    <3>1. n - 1 \in Nat
      BY <1>2
    <3>2. 0 .. n - 1 \subseteq T
      BY <2>3, <2>4, <3>1, BoundedInduction
    <3> QED BY <1>2, <3>2
  <2> QED BY <1>2, <1>3, <2>5
<1> QED BY <1>4, <1>5

(* The nodes of a simulation leave the generator alone. *)
LEMMA NextGenerates == [Next]_vars => [Generate]_topologyVars
<1> SUFFICES ASSUME [Next]_vars PROVE [Generate]_topologyVars
  OBVIOUS
<1>1. CASE Publish
  BY <1>1 DEF Publish
<1>2. ASSUME NEW n \in Nodes, Load(n) \/ connectToPeer(n) PROVE UNCHANGED topologyVars
  BY <1>2 DEF Load, connectToPeer
<1>3. ASSUME NEW n \in Nodes, NEW p \in Nodes, NEW i, Relay(n, p, i)
      PROVE  UNCHANGED topologyVars
  BY <1>3 DEF Relay
<1>4. UNCHANGED vars => UNCHANGED topologyVars
  BY DEF vars
<1> QED BY <1>1, <1>2, <1>3, <1>4 DEF Next

(* What is saved is connected: from node 0 the connections lead to every    *)
(* node, whichever generator made them, with the exception that the         *)
(* property names.                                                          *)
THEOREM NetworkConnected == Spec => []GeneratedConnected
<1>1. Init => GeneratorInv
  BY GeneratorStart DEF Init
<1>2. GeneratorInv /\ [Next]_vars => GeneratorInv'
  BY NextGenerates, GeneratorStep
<1>3. GeneratorInv => GeneratedConnected
  <2> SUFFICES ASSUME GeneratorInv, file # None, ~Apart PROVE Reached = Nodes
    BY DEF GeneratedConnected
  <2>1. Spanning(Nodes, topology.connections)
    BY SavedSpans
  <2>2. /\ request.nodeCount \in Nat /\ request.nodeCount > 1
        /\ topology.connections \in Seq(Nodes \X Nodes)
    BY RequestsAssumption DEF GeneratorInv, TopologyInv, TopologyTypeOK, Nodes, NodesOf
  <2> QED BY <2>1, <2>2, SpanningReached
<1> QED BY <1>1, <1>2, <1>3, PTL DEF Spec

-----------------------------------------------------------------------------
(* A sequence without repetitions has as many members as it is long.        *)
LEMMA DistinctCount ==
  ASSUME NEW S, NEW s \in Seq(S), NoRepeats(s), NEW n
  PROVE  Cardinality({<<n, s[i]>> : i \in DOMAIN s}) = Len(s)
<1> DEFINE T == {<<n, s[i]>> : i \in DOMAIN s}
           f == [i \in 1 .. Len(s) |-> <<n, s[i]>>]
<1>1. DOMAIN s = 1 .. Len(s) /\ Len(s) \in Nat
  OBVIOUS
<1>2. f \in [1 .. Len(s) -> T] /\ \A t \in T : \E i \in 1 .. Len(s) : f[i] = t
  BY <1>1
<1>3. \A i, j \in 1 .. Len(s) : f[i] = f[j] => i = j
  BY DEF NoRepeats
<1> HIDE DEF f, T
<1>4. f \in Bijection(1 .. Len(s), T)
  BY <1>2, <1>3 DEF Bijection, Injection, Surjection, IsInjective
<1>5. ExistsBijection(1 .. Len(s), T)
  BY <1>4 DEF ExistsBijection
<1>6. Cardinality(T) = Len(s)
  BY <1>1, <1>5, FS_CountingElements
<1> QED BY <1>6 DEF T

(* Taking the head of a sequence without repetitions. *)
LEMMA TailMembers ==
  ASSUME NEW S, NEW s \in Seq(S), s # <<>>, NoRepeats(s)
  PROVE  /\ Head(s) \in S /\ Tail(s) \in Seq(S) /\ NoRepeats(Tail(s)) /\ ~ Member(Head(s), Tail(s))
         /\ \A x : Member(x, s) <=> x = Head(s) \/ Member(x, Tail(s))
<1>1. /\ Len(s) \in Nat \ {0} /\ Len(Tail(s)) = Len(s) - 1
      /\ \A i \in 1 .. Len(Tail(s)) : Tail(s)[i] = s[i + 1]
      /\ Head(s) = s[1] /\ Head(s) \in S /\ Tail(s) \in Seq(S)
  BY HeadTailProperties, EmptySeq
<1>2. \A i \in 1 .. Len(Tail(s)) : i + 1 \in 1 .. Len(s) /\ i + 1 # 1
  BY <1>1
<1>3. NoRepeats(Tail(s))
  <2>1. \A i, j \in 1 .. Len(Tail(s)) : i + 1 = j + 1 => i = j
    BY <1>1
  <2> QED BY <1>1, <1>2, <2>1 DEF NoRepeats
<1>4. ~ Member(Head(s), Tail(s))
  <2>1. 1 \in 1 .. Len(s)
    BY <1>1
  <2> QED BY <1>1, <1>2, <2>1 DEF NoRepeats, Member
<1>5. ASSUME NEW x, Member(x, s), x # Head(s) PROVE Member(x, Tail(s))
  <2>1. PICK i \in 1 .. Len(s) : s[i] = x
    BY <1>5 DEF Member
  <2>2. i - 1 \in 1 .. Len(Tail(s)) /\ (i - 1) + 1 = i
    BY <1>1, <1>5, <2>1
  <2> QED BY <1>1, <2>1, <2>2 DEF Member
<1>6. ASSUME NEW x, x = Head(s) \/ Member(x, Tail(s)) PROVE Member(x, s)
  <2>1. 1 \in 1 .. Len(s)
    BY <1>1
  <2> QED BY <1>1, <1>2, <1>6, <2>1 DEF Member
<1> QED BY <1>1, <1>3, <1>4, <1>5, <1>6

(* The dials of a node: none before it has loaded the topology, and then    *)
(* one for each connection that it is the lower end of.                     *)
DialsOf(n) ==
  IF loaded[n] = None THEN DialledBy(n) = {} /\ dialling[n] = <<>>
  ELSE /\ file # None /\ request.nodeCount <= MaxSimulated
       /\ loaded[n].nodeCount = request.nodeCount
       /\ NoRepeats(dialling[n])
       /\ DialledBy(n) \cup Pending(n) = {c \in Connections : c[1] = n}
       /\ DialledBy(n) \cap Pending(n) = {}

DialInv ==
  /\ dialling \in [Nodes -> Seq(Nodes)]
  /\ links \subseteq Nodes \X Nodes /\ failed \subseteq Nodes \X Nodes
  /\ links \cap failed = {}
  /\ loaded = [n \in Nodes |-> loaded[n]]
  /\ \A n \in Nodes : DialsOf(n)

LEMMA DialStart == ASSUME Init PROVE DialInv
BY DEF Init, DialInv, DialsOf, DialledBy

(* What loading the saved topology makes of a node.                         *)
LEMMA LoadGives ==
  ASSUME GeneratorInv, file # None, NEW n \in Nodes
  PROVE  LET pending == Above(n, LoadFromFile(file).adjacencyList[n]) IN
         /\ LoadFromFile(file) # None /\ LoadFromFile(file).nodeCount = request.nodeCount
         /\ pending \in Seq(Nodes) /\ NoRepeats(pending)
         /\ {<<n, pending[i]>> : i \in DOMAIN pending} = {c \in Connections : c[1] = n}
<1> DEFINE conns == topology.connections
           N == Nodes
           A == Built(N, conns)
           pending == Above(n, A[n])
<1>1. /\ request \in Requests /\ request.nodeCount \in Nat
      /\ N = 0 .. request.nodeCount - 1 /\ N = NodesOf(request) /\ conns \in Seq(N \X N)
      /\ ConnectionsDistinct
      /\ file = [nodeCount |-> request.nodeCount, connections |-> conns]
  BY NodeCountIsNat DEF GeneratorInv, TopologyInv, TopologyTypeOK, SavedAsBuilt, Nodes, NodesOf
<1>2. LoadFromFile(file) = [nodeCount |-> request.nodeCount, connections |-> conns,
                            adjacencyList |-> A]
  BY <1>1 DEF LoadFromFile, NewTopology, Built
<1>3. Simple(conns)
  <2>1. DOMAIN conns = 1 .. Len(conns)
    BY <1>1
  <2> QED BY <1>1, <2>1 DEF ConnectionsDistinct, Simple
<1> HIDE DEF A
<1>4. /\ A \in [N -> Seq(N)] /\ NoRepeats(A[n])
      /\ \A b \in N : Member(b, A[n]) <=> Member(Lower(n, b), conns)
  <2> DEFINE k == request.nodeCount
  <2>1. k \in Nat /\ N = 0 .. k - 1 /\ conns \in Seq(N \X N) /\ Simple(conns)
    BY <1>1, <1>3
  <2>2. Lists(Built(N, conns), N, conns)
    <3> HIDE DEF k, N, conns
    <3> QED BY <2>1, LoadedAdjacency
  <2> QED BY <2>2 DEF A, Lists
<1>5. LoadFromFile(file) # None
  <2>1. A \in [N -> Seq(Nat)] /\ conns \in Seq(Nat \X Nat)
    <3>1. N \subseteq Nat
      BY <1>1
    <3>2. ASSUME NEW q \in Seq(N) PROVE q \in Seq(Nat)
      <4>1. Len(q) \in Nat /\ q = [i \in 1 .. Len(q) |-> q[i]] /\ \A i \in 1 .. Len(q) : q[i] \in N
        OBVIOUS
      <4>2. q \in [1 .. Len(q) -> Nat]
        BY <3>1, <4>1
      <4> QED BY <4>1, <4>2
    <3>3. \A i \in 1 .. Len(conns) : conns[i] \in N \X N
      BY <1>1
    <3>4. conns \in Seq(Nat \X Nat)
      <4> DEFINE S == N \X N
                 R == Nat \X Nat
      <4>1. S \subseteq R /\ conns \in Seq(S)
        BY <1>1, <3>1
      <4> HIDE DEF S, R
      <4> QED BY <4>1 DEF R
    <3> QED BY <1>4, <3>2, <3>4
  <2>2. LoadFromFile(file) \in [nodeCount : Nat, connections : Seq(Nat \X Nat),
                                adjacencyList : [0 .. request.nodeCount - 1 -> Seq(Nat)]]
    BY <1>1, <1>2, <2>1
  <2> QED BY <1>1, <2>2, NoneAssumption
<1>6. /\ pending \in Seq(N) /\ NoRepeats(pending)
      /\ \A x : Member(x, pending) <=> Member(x, A[n]) /\ x > n
  BY <1>4, AboveMembers
<1>7. LoadFromFile(file).adjacencyList = A /\ LoadFromFile(file).nodeCount = request.nodeCount
  BY <1>2
<1> HIDE DEF pending
<1>8. DOMAIN pending = 1 .. Len(pending)
  BY <1>6
<1>9. \A x : Member(x, pending) <=> x \in N /\ <<n, x>> \in Connections
  <2>1. \A c : c \in Connections <=> Member(c, conns)
    BY <1>1 DEF Connections, Member
  <2>2. ASSUME NEW x, Member(x, pending) PROVE x \in N /\ <<n, x>> \in Connections
    <3>1. x \in N
      BY <1>6, <2>2 DEF Member
    <3>2. n \in Int /\ x \in Int /\ x > n
      BY <1>1, <1>6, <2>2, <3>1
    <3>3. Lower(n, x) = <<n, x>>
      BY <3>2 DEF Lower
    <3> QED BY <1>4, <1>6, <2>1, <2>2, <3>1, <3>3
  <2>3. ASSUME NEW x \in N, <<n, x>> \in Connections PROVE Member(x, pending)
    <3>1. PICK i \in 1 .. Len(conns) : conns[i] = <<n, x>>
      BY <2>1, <2>3 DEF Member
    <3>2. n < x /\ n \in Int /\ x \in Int
      BY <1>1, <1>3, <3>1 DEF Simple
    <3>3. Lower(n, x) = <<n, x>> /\ x > n
      BY <3>2 DEF Lower
    <3> QED BY <1>4, <1>6, <2>1, <2>3, <3>3
  <2> QED BY <2>2, <2>3
<1>10. Connections \subseteq N \X N
  BY <1>1 DEF Connections
<1>11. ASSUME NEW c \in Connections, c[1] = n PROVE c[2] \in N /\ c = <<n, c[2]>>
  BY <1>10, <1>11
<1>12. {<<n, pending[i]>> : i \in DOMAIN pending} = {c \in Connections : c[1] = n}
  <2> DEFINE L == {<<n, pending[i]>> : i \in DOMAIN pending}
             R == {c \in Connections : c[1] = n}
  <2>1. ASSUME NEW c \in L PROVE c \in R
    <3>1. PICK i \in 1 .. Len(pending) : c = <<n, pending[i]>>
      BY <1>8
    <3>2. Member(pending[i], pending)
      BY DEF Member
    <3> QED BY <1>9, <3>1, <3>2
  <2>2. ASSUME NEW c \in R PROVE c \in L
    <3>1. c \in Connections /\ c[2] \in N /\ c = <<n, c[2]>>
      BY <1>11
    <3>2. Member(c[2], pending)
      BY <1>9, <3>1
    <3>3. PICK i \in 1 .. Len(pending) : pending[i] = c[2]
      BY <3>2 DEF Member
    <3> QED BY <1>8, <3>1, <3>3
  <2> QED BY <2>1, <2>2
<1> QED BY <1>5, <1>6, <1>7, <1>12 DEF pending

(* Generating changes the connections only before any node has loaded them. *)
LEMMA SavedStays ==
  ASSUME GeneratorInv, [Generate]_topologyVars
  PROVE  /\ request' = request /\ Nodes' = Nodes
         /\ file # None => file' = file /\ topology' = topology /\ calls' = calls
<1>1. SavedAsBuilt
  BY DEF GeneratorInv, TopologyInv
<1>2. request' = request /\ Nodes' = Nodes
  BY DEF Generate, AddNext, Retry, SaveToFile, topologyVars, Nodes
<1>3. ASSUME file # None PROVE file' = file /\ topology' = topology /\ calls' = calls
  BY <1>1, <1>3 DEF Generate, AddNext, Retry, SaveToFile, topologyVars, SavedAsBuilt
<1> QED BY <1>2, <1>3

LEMMA DialStep ==
  ASSUME GeneratorInv, DialInv, [Next]_vars
  PROVE  DialInv'
<1> DEFINE N == Nodes
<1>1. /\ request' = request /\ Nodes' = N
      /\ file # None => file' = file /\ topology' = topology
  BY NextGenerates, SavedStays
<1>2. /\ dialling \in [N -> Seq(N)] /\ links \subseteq N \X N /\ failed \subseteq N \X N
      /\ links \cap failed = {}
      /\ loaded = [n \in N |-> loaded[n]] /\ \A n \in N : DialsOf(n)
  BY DEF DialInv
<1>3. ASSUME NEW n \in N, loaded[n] = None \/ file # None,
             loaded'[n] = loaded[n], dialling'[n] = dialling[n],
             \A c : c[1] = n => (c \in links' <=> c \in links) /\ (c \in failed' <=> c \in failed)
      PROVE  DialsOf(n)'
  <2>1. DialsOf(n)
    BY <1>2
  <2>2. DialledBy(n)' = DialledBy(n)
    BY <1>3 DEF DialledBy
  <2>3. Pending(n)' = Pending(n)
    BY <1>3 DEF Pending
  <2>4. file # None => Connections' = Connections /\ file' = file
    BY <1>1 DEF Connections
  <2> QED BY <1>1, <1>3, <2>1, <2>2, <2>3, <2>4 DEF DialsOf
<1>4. ASSUME NEW n \in N PROVE loaded[n] = None \/ file # None
  BY <1>2 DEF DialsOf
<1>5. ASSUME UNCHANGED <<loaded, dialling, links, failed>> PROVE DialInv'
  <2>1. \A n \in N : DialsOf(n)'
    BY <1>3, <1>4, <1>5
  <2> QED BY <1>1, <1>2, <1>5, <2>1 DEF DialInv
<1>6. ASSUME NEW n \in N, Load(n) PROVE DialInv'
  <2> DEFINE pending == Above(n, LoadFromFile(file).adjacencyList[n])
  <2>1. /\ file # None /\ loaded[n] = None /\ request.nodeCount <= MaxSimulated
        /\ loaded' = [loaded EXCEPT ![n] = LoadFromFile(file)]
        /\ dialling' = [dialling EXCEPT ![n] = pending]
        /\ links' = links /\ failed' = failed
    BY <1>6 DEF Load
  <2>2. /\ LoadFromFile(file) # None /\ LoadFromFile(file).nodeCount = request.nodeCount
        /\ pending \in Seq(N) /\ NoRepeats(pending)
        /\ {<<n, pending[i]>> : i \in DOMAIN pending} = {c \in Connections : c[1] = n}
    BY <2>1, LoadGives
  <2> HIDE DEF pending
  <2>3. /\ dialling' \in [N -> Seq(N)] /\ dialling'[n] = pending
        /\ \A m \in N \ {n} : dialling'[m] = dialling[m]
    BY <1>2, <2>1, <2>2
  <2>4. /\ loaded' = [m \in N |-> loaded'[m]] /\ loaded'[n] = LoadFromFile(file)
        /\ \A m \in N \ {n} : loaded'[m] = loaded[m]
    BY <1>2, <2>1
  <2>5. DialsOf(n)'
    <3>1. DialledBy(n)' = {}
      BY <1>2, <2>1 DEF DialledBy, DialsOf
    <3>2. Pending(n)' = {c \in Connections : c[1] = n} /\ Connections' = Connections
      <4>1. Connections' = Connections
        BY <1>1, <2>1 DEF Connections
      <4>2. Pending(n)' = {<<n, pending[i]>> : i \in DOMAIN pending}
        BY <2>3 DEF Pending
      <4> QED BY <2>2, <4>1, <4>2
    <3>3. /\ loaded'[n] # None /\ file' # None /\ NoRepeats(dialling'[n])
          /\ loaded'[n].nodeCount = request'.nodeCount /\ request'.nodeCount <= MaxSimulated
      BY <1>1, <2>1, <2>2, <2>3, <2>4
    <3> QED BY <3>1, <3>2, <3>3 DEF DialsOf
  <2>6. ASSUME NEW m \in N \ {n} PROVE DialsOf(m)'
    BY <1>3, <1>4, <2>1, <2>3, <2>4
  <2> QED BY <1>1, <1>2, <2>1, <2>3, <2>4, <2>5, <2>6 DEF DialInv
<1>7. ASSUME NEW n \in N, connectToPeer(n) PROVE DialInv'
  <2> DEFINE s == dialling[n]
             peer == Head(s)
             dial == <<n, peer>>
  <2>1. /\ s # <<>> /\ dialling' = [dialling EXCEPT ![n] = Tail(@)] /\ loaded' = loaded
        /\ \/ links' = links \cup {dial} /\ failed' = failed
           \/ failed' = failed \cup {dial} /\ links' = links
    BY <1>7 DEF connectToPeer
  <2>2. /\ loaded[n] # None /\ file # None /\ request.nodeCount <= MaxSimulated
        /\ loaded[n].nodeCount = request.nodeCount /\ s \in Seq(N) /\ NoRepeats(s)
        /\ DialledBy(n) \cup Pending(n) = {c \in Connections : c[1] = n}
        /\ DialledBy(n) \cap Pending(n) = {}
    BY <1>2, <2>1 DEF DialsOf
  <2>3. /\ peer \in N /\ Tail(s) \in Seq(N) /\ NoRepeats(Tail(s)) /\ ~ Member(peer, Tail(s))
        /\ \A x : Member(x, s) <=> x = peer \/ Member(x, Tail(s))
    BY <2>1, <2>2, TailMembers
  <2>4. /\ dialling' \in [N -> Seq(N)] /\ dialling'[n] = Tail(s)
        /\ \A m \in N \ {n} : dialling'[m] = dialling[m]
    BY <1>2, <2>1, <2>3
  <2>5. /\ \A c : c \in Pending(n) <=> \E x : Member(x, s) /\ c = <<n, x>>
        /\ \A c : c \in Pending(n)' <=> \E x : Member(x, Tail(s)) /\ c = <<n, x>>
    <3>1. DOMAIN s = 1 .. Len(s) /\ DOMAIN Tail(s) = 1 .. Len(Tail(s))
      BY <2>2, <2>3
    <3> QED BY <2>4, <3>1 DEF Pending, Member
  <2> HIDE DEF s, peer
  <2>6. \A c : c \in Pending(n) <=> c = dial \/ c \in Pending(n)'
    BY <2>3, <2>5
  <2>7. dial \notin Pending(n)'
    BY <2>3, <2>5
  <2>8. dial \in Pending(n) /\ dial \notin DialledBy(n) /\ dial[1] = n
    BY <2>2, <2>6
  <2>9. dial \notin links /\ dial \notin failed
    BY <2>8 DEF DialledBy
  <2>10. \A c : c \in DialledBy(n)' <=> c = dial \/ c \in DialledBy(n)
    BY <2>1, <2>8 DEF DialledBy
  <2>11. DialsOf(n)'
    <3>1. Connections' = Connections /\ file' # None
      BY <1>1, <2>2 DEF Connections
    <3>2. DialledBy(n)' \cup Pending(n)' = DialledBy(n) \cup Pending(n)
      BY <2>6, <2>10
    <3>3. DialledBy(n)' \cap Pending(n)' = {}
      BY <2>2, <2>6, <2>7, <2>10
    <3>4. /\ loaded'[n] # None /\ NoRepeats(dialling'[n]) /\ request'.nodeCount <= MaxSimulated
          /\ loaded'[n].nodeCount = request'.nodeCount
      BY <1>1, <2>1, <2>2, <2>3, <2>4
    <3> QED BY <2>2, <3>1, <3>2, <3>3, <3>4 DEF DialsOf
  <2>12. ASSUME NEW m \in N \ {n} PROVE DialsOf(m)'
    <3>1. \A c : c[1] = m => (c \in links' <=> c \in links) /\ (c \in failed' <=> c \in failed)
      BY <2>1, <2>8
    <3> QED BY <1>3, <1>4, <2>1, <2>4, <3>1
  <2>13. links' \subseteq N \X N /\ failed' \subseteq N \X N /\ links' \cap failed' = {}
    <3>1. dial \in N \X N
      BY <2>3
    <3> HIDE DEF dial, N
    <3> QED BY <1>2, <2>1, <2>9, <3>1
  <2>14. \A m \in N : DialsOf(m)'
    BY <2>11, <2>12
  <2> QED BY <1>1, <1>2, <2>1, <2>4, <2>13, <2>14 DEF DialInv
<1>8. CASE Generate /\ UNCHANGED nodeVars
  BY <1>5, <1>8 DEF nodeVars
<1>9. CASE Publish
  BY <1>5, <1>9 DEF Publish
<1>10. ASSUME NEW n \in N, NEW p \in N, NEW i, Relay(n, p, i) PROVE DialInv'
  BY <1>5, <1>10 DEF Relay
<1>11. CASE UNCHANGED vars
  BY <1>5, <1>11 DEF vars, nodeVars
<1> QED BY <1>6, <1>7, <1>8, <1>9, <1>10, <1>11 DEF Next

(* A node dials, each once, the connections of which it is the lower end:   *)
(* what it has dialled and what it has still to dial are these and have     *)
(* nothing in common, for every topology that the generators save.          *)
THEOREM DialsAreTheConnections == Spec => []EachDialledOnce
<1>1. Init => GeneratorInv /\ DialInv
  BY GeneratorStart, DialStart DEF Init
<1>2. GeneratorInv /\ DialInv /\ [Next]_vars => GeneratorInv' /\ DialInv'
  BY NextGenerates, GeneratorStep, DialStep
<1>3. DialInv => EachDialledOnce
  <2> SUFFICES ASSUME DialInv, NEW n \in Nodes, loaded[n] # None
               PROVE  Cardinality(Pending(n)) = Len(dialling[n])
    BY DEF DialInv, DialsOf, EachDialledOnce
  <2>1. dialling[n] \in Seq(Nodes) /\ NoRepeats(dialling[n])
    BY DEF DialInv, DialsOf
  <2> QED BY <2>1, DistinctCount DEF Pending
<1> QED BY <1>1, <1>2, <1>3, PTL DEF Spec

-----------------------------------------------------------------------------
(* The chunks.  As many as a message of the publisher's has.                *)
CountOf(message) == Len(message) \div (ByteBits * MessageChunkSize)

LEMMA CountPositive ==
  ASSUME NEW message \in Seq({0, 1}) \ {<<>>}, Len(message) % (ByteBits * MessageChunkSize) = 0
  PROVE  CountOf(message) \in Nat \ {0}
<1> DEFINE size == ByteBits * MessageChunkSize
           length == Len(message)
<1>1. size \in Nat \ {0}
  BY RsConfigAssumption
<1>2. length \in Nat \ {0}
  BY EmptySeq
<1>3. length % size = 0
  OBVIOUS
<1> HIDE DEF size, length
<1>4. length \div size \in Nat /\ length = size * (length \div size) + (length % size)
  BY <1>1, <1>2
<1>5. length \div size # 0
  BY <1>1, <1>2, <1>3, <1>4
<1> QED BY <1>4, <1>5 DEF CountOf, size, length

LEMMA ParityPositive == ASSUME NEW k \in Nat PROVE parityCount(k) \in Nat \ {0}
<1> DEFINE x == (k * ParityNum) \div ParityDen
<1>1. x \in Int
  <2>1. k * ParityNum \in Int /\ ParityDen \in Nat \ {0}
    BY RsConfigAssumption
  <2> QED BY <2>1
<1> HIDE DEF x
<1>2. Max({1, x}) = IF 1 <= x THEN x ELSE 1
  BY <1>1, MinMaxOfTwo
<1>3. Max({1, x}) \in Nat \ {0}
  BY <1>1, <1>2
<1> QED BY <1>3 DEF parityCount, x

LEMMA IndicesCount ==
  ASSUME NEW k \in Nat \ {0}
  PROVE  Indices(k) # {} /\ Cardinality(Indices(k)) > k /\ k > 0
<1>1. parityCount(k) \in Nat \ {0}
  BY ParityPositive
<1> DEFINE m == k + parityCount(k) - 1
<1>2. m \in Nat /\ m >= k /\ 0 \in Int /\ m \in Int /\ ~ (0 > m) /\ m - 0 + 1 > k
  BY <1>1
<1> HIDE DEF m
<1>3. Cardinality(0 .. m) = m - 0 + 1
  BY <1>2, FS_Interval
<1>4. 0 \in 0 .. m
  BY <1>2
<1> QED BY <1>2, <1>3, <1>4 DEF Indices, m

(* Before node 0 publishes nobody has a chunk; then it has all, and the     *)
(* others have some of them.                                                *)
HasSome(e, k) ==
  /\ DOMAIN e.chunks \subseteq Indices(k)
  /\ e.chunkCount \in {0, k}
  /\ DOMAIN e.chunks # {} => e.chunkCount = k

ChunkInv ==
  /\ entry = [n \in Nodes |-> entry[n]]
  /\ IF published = None THEN \A n \in Nodes : entry[n] = NoChunks
     ELSE /\ loaded[0] # None
          /\ CountOf(published) \in Nat \ {0}
          /\ DOMAIN entry[0].chunks = Indices(CountOf(published))
          /\ \A n \in Nodes : HasSome(entry[n], CountOf(published))

LEMMA ChunkStart == ASSUME Init PROVE ChunkInv
BY DEF Init, ChunkInv

LEMMA ZeroIsNode == ASSUME GeneratorInv PROVE 0 \in Nodes /\ request.nodeCount \in Nat /\ request.nodeCount > 1
BY RequestsAssumption DEF GeneratorInv, TopologyInv, TopologyTypeOK, Nodes

LEMMA ChunkStep ==
  ASSUME GeneratorInv, DialInv, ChunkInv, [Next]_vars
  PROVE  ChunkInv'
<1> DEFINE N == Nodes
           k == CountOf(published)
<1>1. Nodes' = N /\ 0 \in N
  BY NextGenerates, SavedStays, ZeroIsNode
<1>2. entry = [n \in N |-> entry[n]]
  BY DEF ChunkInv
<1>3. ASSUME entry' = entry, published' = published, loaded'[0] = None => loaded[0] = None
      PROVE  ChunkInv'
  BY <1>1, <1>3 DEF ChunkInv
<1>4. CASE Publish
  <2>1. PICK message \in Messages(request.nodeCount) :
          /\ published' = message
          /\ entry' = [entry EXCEPT ![0] = GenerateThenAddChunks(message)]
    BY <1>4 DEF Publish
  <2>2. loaded[0] # None /\ loaded' = loaded /\ published = None
    BY <1>4 DEF Publish
  <2>3. /\ message \in Seq({0, 1}) \ {<<>>} /\ message # None
        /\ Len(message) % (ByteBits * MessageChunkSize) = 0
    <3>1. request.nodeCount \in 2 .. MaxSimulated
      <4>1. request.nodeCount <= MaxSimulated
        BY <1>1, <2>2 DEF DialInv, DialsOf
      <4>2. request.nodeCount \in Nat /\ request.nodeCount > 1 /\ MaxSimulated \in Nat
        BY ZeroIsNode, ShadowAssumption
      <4> DEFINE c == request.nodeCount
      <4>3. c \in Nat /\ c > 1 /\ c <= MaxSimulated
        BY <4>1, <4>2
      <4> HIDE DEF c
      <4>4. c \in 2 .. MaxSimulated
        BY <4>2, <4>3
      <4> QED BY <4>4 DEF c
    <3> QED BY <3>1, ShadowAssumption
  <2> DEFINE j == CountOf(message)
             e == GenerateThenAddChunks(message)
  <2>4. j \in Nat \ {0}
    BY <2>3, CountPositive
  <2>5. e.chunkCount = j /\ DOMAIN e.chunks = Indices(j)
    BY DEF GenerateThenAddChunks, CountOf
  <2> HIDE DEF e, j
  <2>6. /\ entry' = [n \in N |-> entry'[n]] /\ entry'[0] = e
        /\ \A n \in N \ {0} : entry'[n] = entry[n]
    BY <1>1, <1>2, <2>1 DEF e
  <2>7. ASSUME NEW n \in N PROVE HasSome(entry'[n], j)
    <3>1. CASE n = 0
      BY <2>5, <2>6, <3>1 DEF HasSome
    <3>2. CASE n # 0
      <4>1. entry'[n] = NoChunks
        BY <2>2, <2>6, <3>2 DEF ChunkInv
      <4>2. entry'[n].chunkCount = 0 /\ entry'[n].chunks = <<>>
        BY <4>1 DEF NoChunks
      <4>3. DOMAIN entry'[n].chunks = {}
        BY <4>2
      <4> QED BY <4>2, <4>3 DEF HasSome
    <3> QED BY <3>1, <3>2
  <2>8. published' # None /\ CountOf(published') = j /\ loaded'[0] # None
    BY <2>1, <2>2, <2>3 DEF j
  <2> QED BY <1>1, <2>4, <2>5, <2>6, <2>7, <2>8 DEF ChunkInv
<1>5. ASSUME NEW n \in N, NEW p \in N, NEW i, Relay(n, p, i) PROVE ChunkInv'
  <2> DEFINE e == entry[p]
             c == Chunk(entry[n], i)
  <2>1. /\ i \in DOMAIN entry[n].chunks
        /\ entry' = [entry EXCEPT ![p] = VerifyThenAddChunk(e, c)]
        /\ published' = published /\ loaded' = loaded
    BY <1>5 DEF Relay
  <2>2. published # None
    <3>1. DOMAIN NoChunks.chunks = {}
      BY DEF NoChunks
    <3> QED BY <2>1, <3>1 DEF ChunkInv
  <2>3. /\ loaded[0] # None /\ k \in Nat \ {0} /\ DOMAIN entry[0].chunks = Indices(k)
        /\ \A m \in N : HasSome(entry[m], k)
    BY <2>2 DEF ChunkInv
  <2>4. c.index = i /\ i \in Indices(k) /\ c.chunkCount = k
    <3>1. i \in Indices(k) /\ entry[n].chunkCount = k
      BY <2>1, <2>3 DEF HasSome
    <3> QED BY <3>1 DEF Chunk
  <2>5. HasSome(e, k)
    BY <2>3
  <2> HIDE DEF e, c, k
  <2>6. /\ HasSome(VerifyThenAddChunk(e, c), k)
        /\ DOMAIN e.chunks \subseteq DOMAIN VerifyThenAddChunk(e, c).chunks
    <3> DEFINE after == VerifyThenAddChunk(e, c)
    <3>1. ~ (c.chunkCount <= 0 \/ e.chunkCount \notin {0, c.chunkCount})
      BY <2>3, <2>4, <2>5 DEF HasSome
    <3>2. after.chunkCount = k
      BY <2>4, <3>1 DEF VerifyThenAddChunk
    <3>3. DOMAIN after.chunks \in {DOMAIN e.chunks \cup {i}, DOMAIN e.chunks}
      BY <2>4, <3>1 DEF VerifyThenAddChunk
    <3> HIDE DEF after
    <3>4. HasSome(after, k) /\ DOMAIN e.chunks \subseteq DOMAIN after.chunks
      BY <2>4, <2>5, <3>2, <3>3 DEF HasSome
    <3> QED BY <3>4 DEF after
  <2>7. /\ entry' = [m \in N |-> entry'[m]] /\ entry'[p] = VerifyThenAddChunk(e, c)
        /\ \A m \in N \ {p} : entry'[m] = entry[m]
    BY <1>2, <2>1
  <2>8. \A m \in N : HasSome(entry'[m], k)
    BY <2>3, <2>6, <2>7
  <2>9. DOMAIN entry'[0].chunks = Indices(k)
    <3>1. CASE p = 0
      BY <2>3, <2>6, <2>7, <2>8, <3>1 DEF HasSome, e
    <3>2. CASE p # 0
      BY <1>1, <2>3, <2>7, <3>2
    <3> QED BY <3>1, <3>2
  <2> QED BY <1>1, <2>1, <2>2, <2>3, <2>7, <2>8, <2>9 DEF ChunkInv, k
<1>6. ASSUME NEW n \in N, Load(n) PROVE ChunkInv'
  <2>1. file # None /\ loaded' = [loaded EXCEPT ![n] = LoadFromFile(file)]
        /\ entry' = entry /\ published' = published
    BY <1>6 DEF Load
  <2>2. LoadFromFile(file) # None
    BY <2>1, LoadGives
  <2>3. loaded'[0] = None => loaded[0] = None
    BY <1>1, <2>1, <2>2 DEF DialInv
  <2> QED BY <1>3, <2>1, <2>3
<1>7. ASSUME NEW n \in N, connectToPeer(n) PROVE ChunkInv'
  BY <1>3, <1>7 DEF connectToPeer
<1>8. CASE Generate /\ UNCHANGED nodeVars
  BY <1>3, <1>8 DEF nodeVars
<1>9. CASE UNCHANGED vars
  BY <1>3, <1>9 DEF vars, nodeVars
<1> QED BY <1>4, <1>5, <1>6, <1>7, <1>8, <1>9 DEF Next

(* Nothing is missing when nothing moves: the nodes that have all chunks    *)
(* are not left by any connection, because all connections are links and a  *)
(* relay over one of them would bring something; so these are all nodes.    *)
LEMMA QuietCompletes ==
  ASSUME GeneratorInv, DialInv, ChunkInv
  PROVE  QuietMeansComplete
<1> SUFFICES ASSUME published # None, AllDialled, failed = {}, Quiet, ~Apart
             PROVE  \A n \in Nodes : Reconstructible(entry[n])
  BY DEF QuietMeansComplete
<1> DEFINE N == Nodes
           conns == topology.connections
           k == CountOf(published)
           S == {n \in N : DOMAIN entry[n].chunks = Indices(k)}
<1>1. /\ 0 \in N /\ N = 0 .. request.nodeCount - 1 /\ request.nodeCount \in Nat
      /\ conns \in Seq(N \X N) /\ ConnectionsDistinct
  BY ZeroIsNode, NodeCountIsNat
     DEF GeneratorInv, TopologyInv, TopologyTypeOK, Nodes, NodesOf
<1>2. /\ loaded[0] # None /\ k \in Nat \ {0} /\ DOMAIN entry[0].chunks = Indices(k)
      /\ \A n \in N : HasSome(entry[n], k)
  BY DEF ChunkInv
<1>3. file # None
  BY <1>1, <1>2 DEF DialInv, DialsOf
<1> HIDE DEF k
<1>4. ASSUME NEW a \in N, NEW b \in N, Member(Lower(a, b), conns) PROVE Linked(a, b)
  <2> DEFINE c == Lower(a, b)
  <2>1. c \in Connections
    BY <1>1, <1>4 DEF Connections, Member
  <2>2. c \in {<<a, b>>, <<b, a>>} /\ c[1] \in N
    BY DEF Lower
  <2> HIDE DEF c
  <2>3. loaded[c[1]] # None /\ dialling[c[1]] = <<>>
    BY <2>2 DEF AllDialled
  <2>4. Pending(c[1]) = {}
    <3>1. DOMAIN dialling[c[1]] = {}
      BY <2>3
    <3> QED BY <3>1 DEF Pending
  <2>5. c \in DialledBy(c[1])
    BY <2>1, <2>2, <2>3, <2>4 DEF DialInv, DialsOf
  <2>6. c \in links
    BY <2>5 DEF DialledBy
  <2> QED BY <2>2, <2>6 DEF Linked
<1>5. LeadsTo(S, N, conns)
  <2> SUFFICES ASSUME NEW a \in S, NEW b \in N, Member(Lower(a, b), conns) PROVE b \in S
    BY DEF LeadsTo
  <2>1. Linked(a, b)
    BY <1>4
  <2>2. DOMAIN entry[a].chunks \subseteq DOMAIN entry[b].chunks
    BY <2>1 DEF Quiet
  <2> QED BY <1>2, <2>2 DEF HasSome
<1>6. S = N
  <2>1. Spanning(N, conns)
    BY <1>3, SavedSpans
  <2>2. S \in SUBSET N /\ 0 \in S
    BY <1>1, <1>2
  <2> HIDE DEF S
  <2> QED BY <1>5, <2>1, <2>2 DEF Spanning
<1> SUFFICES ASSUME NEW n \in N PROVE Reconstructible(entry[n])
  OBVIOUS
<1>7. DOMAIN entry[n].chunks = Indices(k)
  BY <1>6
<1>8. Indices(k) # {} /\ Cardinality(Indices(k)) > k /\ k > 0
  BY <1>2, IndicesCount
<1>9. entry[n].chunkCount = k
  BY <1>2, <1>7, <1>8 DEF HasSome
<1>10. Cardinality(Indices(k)) \in Nat
  <2>1. Indices(k) = 0 .. k + parityCount(k) - 1 /\ k + parityCount(k) - 1 \in Int /\ 0 \in Int
    BY <1>2, ParityPositive DEF Indices
  <2>2. IsFiniteSet(Indices(k))
    BY <2>1, FS_Interval
  <2> QED BY <2>2, FS_CardinalityType
<1> DEFINE have == Cardinality(Indices(k))
<1>11. have >= k
  <2>1. have \in Nat /\ k \in Nat /\ have > k
    BY <1>2, <1>8, <1>10
  <2> HIDE DEF have
  <2> QED BY <2>1
<1> QED BY <1>7, <1>8, <1>9, <1>11 DEF Reconstructible

(* The types of the simulation. *)
THEOREM ShadowTypes == Spec => []ShadowTypeOK
<1>1. Init => GeneratorInv /\ DialInv /\ ChunkInv
  BY GeneratorStart, DialStart, ChunkStart DEF Init
<1>2. GeneratorInv /\ DialInv /\ ChunkInv /\ [Next]_vars => GeneratorInv' /\ DialInv' /\ ChunkInv'
  BY NextGenerates, GeneratorStep, DialStep, ChunkStep
<1>3. DialInv /\ ChunkInv => ShadowTypeOK
  <2> SUFFICES ASSUME DialInv, ChunkInv PROVE ShadowTypeOK
    OBVIOUS
  <2>1. \A n \in Nodes : loaded[n] = None \/ loaded[n].nodeCount = request.nodeCount
    BY DEF DialInv, DialsOf
  <2>2. DOMAIN entry = Nodes
    BY DEF ChunkInv
  <2> QED BY <2>1, <2>2 DEF DialInv, ShadowTypeOK
<1> QED BY <1>1, <1>2, <1>3, PTL DEF Spec

(* When every connection is a link and no relay would bring anything new,   *)
(* every node has enough chunks, whatever the topology and the message.     *)
THEOREM QuietNetworkComplete == Spec => []QuietMeansComplete
<1>1. Init => GeneratorInv /\ DialInv /\ ChunkInv
  BY GeneratorStart, DialStart, ChunkStart DEF Init
<1>2. GeneratorInv /\ DialInv /\ ChunkInv /\ [Next]_vars => GeneratorInv' /\ DialInv' /\ ChunkInv'
  BY NextGenerates, GeneratorStep, DialStep, ChunkStep
<1>3. GeneratorInv /\ DialInv /\ ChunkInv => QuietMeansComplete
  BY QuietCompletes
<1> QED BY <1>1, <1>2, <1>3, PTL DEF Spec

-----------------------------------------------------------------------------
(* Polynomials over the field of two elements, as the sets of the exponents *)
(* that occur in them.                                                      *)
Below(n) == SUBSET (0 .. n - 1)
Polys == UNION {Below(n) : n \in Nat}

(* A polynomial's degree.                                                   *)
Deg(p, m) == p \in Below(m + 1) /\ m \in p

(* What polynomials are.                                                    *)
LEMMA PolyIs ==
  ASSUME NEW p \in Polys
  PROVE  /\ p \in SUBSET Nat /\ IsFiniteSet(p)
         /\ \E n \in Nat : p \in Below(n)
<1>1. PICK n \in Nat : p \in Below(n)
  BY DEF Polys
<1>2. IsFiniteSet(0 .. n - 1)
  BY FS_Interval
<1>3. IsFiniteSet(p)
  BY <1>1, <1>2, FS_Subset DEF Below
<1> QED BY <1>1, <1>3 DEF Below

LEMMA BelowNone == Below(0) = {{}}
<1>1. 0 .. 0 - 1 = {}
  OBVIOUS
<1> QED BY <1>1 DEF Below

LEMMA BelowIs ==
  ASSUME NEW n \in Nat, NEW m \in Nat, n <= m
  PROVE  Below(n) \subseteq Below(m) /\ Below(n) \subseteq Polys /\ {} \in Below(n)
BY DEF Below, Polys

(* Addition is exclusive or.                                                *)
LEMMA AddIs ==
  ASSUME NEW a, NEW b, NEW c
  PROVE  /\ Add(a, b) = Add(b, a)
         /\ Add(Add(a, b), c) = Add(a, Add(b, c))
         /\ Add(a, {}) = a /\ Add({}, a) = a
         /\ Add(a, a) = {}
BY Zenon DEF Add

LEMMA AddCancel ==
  ASSUME NEW a, NEW b
  PROVE  /\ Add(Add(a, b), b) = a
         /\ Add(a, b) = {} => a = b
<1>1. Add(Add(a, b), b) = a
  <2>1. Add(Add(a, b), b) = Add(a, Add(b, b)) /\ Add(b, b) = {} /\ Add(a, {}) = a
    BY AddIs
  <2> QED BY <2>1
<1> QED BY <1>1, AddIs

(* Addition stays below a degree.                                           *)
LEMMA AddBelow ==
  ASSUME NEW n \in Nat, NEW a \in Below(n), NEW b \in Below(n)
  PROVE  Add(a, b) \in Below(n)
BY DEF Add, Below

LEMMA AddPolys ==
  ASSUME NEW a \in Polys, NEW b \in Polys
  PROVE  Add(a, b) \in Polys
<1>1. PICK n \in Nat : a \in Below(n)
  BY DEF Polys
<1>2. PICK m \in Nat : b \in Below(m)
  BY DEF Polys
<1> DEFINE k == n + m
<1>3. k \in Nat /\ n <= k /\ m <= k
  OBVIOUS
<1> HIDE DEF k
<1>4. a \in Below(k) /\ b \in Below(k)
  BY <1>1, <1>2, <1>3, BelowIs
<1> QED BY <1>3, <1>4, AddBelow, BelowIs

(* An exponent that does not occur is added by making it occur.             *)
LEMMA AddOne ==
  ASSUME NEW b, NEW x, x \notin b
  PROVE  Add(b, {x}) = b \cup {x}
BY DEF Add

(* A product with a monomial moves every exponent.                          *)
LEMMA ShiftedIs ==
  ASSUME NEW a \in SUBSET Nat, NEW x \in Nat
  PROVE  /\ Shifted(a, x) \in SUBSET Nat
         /\ \A z \in Nat : z \in Shifted(a, x) <=> z - x \in a
<1>1. ASSUME NEW z \in Nat, z - x \in a PROVE z \in Shifted(a, x)
  <2>1. z = (z - x) + x
    OBVIOUS
  <2> QED BY <1>1, <2>1 DEF Shifted
<1>2. ASSUME NEW z \in Shifted(a, x) PROVE z \in Nat /\ z - x \in a
  <2>1. PICK i \in a : z = i + x
    BY DEF Shifted
  <2>2. i \in Nat /\ z - x = i
    BY <2>1
  <2> QED BY <2>1, <2>2
<1> QED BY <1>1, <1>2

LEMMA ShiftedAdd ==
  ASSUME NEW a \in SUBSET Nat, NEW b \in SUBSET Nat, NEW x \in Nat
  PROVE  Shifted(Add(a, b), x) = Add(Shifted(a, x), Shifted(b, x))
<1>1. Add(a, b) \in SUBSET Nat
  BY DEF Add
<1>2. ASSUME NEW z \in Nat
      PROVE  z \in Shifted(Add(a, b), x) <=> z \in Add(Shifted(a, x), Shifted(b, x))
  BY <1>1, ShiftedIs DEF Add
<1>3. Shifted(Add(a, b), x) \in SUBSET Nat /\ Add(Shifted(a, x), Shifted(b, x)) \in SUBSET Nat
  BY <1>1, ShiftedIs DEF Add
<1> QED BY <1>2, <1>3

LEMMA ShiftedTwice ==
  ASSUME NEW a \in SUBSET Nat, NEW x \in Nat, NEW y \in Nat
  PROVE  Shifted(Shifted(a, x), y) = Shifted(a, x + y)
<1>1. Shifted(a, x) \in SUBSET Nat /\ Shifted(Shifted(a, x), y) \in SUBSET Nat
      /\ Shifted(a, x + y) \in SUBSET Nat /\ x + y \in Nat
  BY ShiftedIs
<1>2. ASSUME NEW z \in Nat
      PROVE  z \in Shifted(Shifted(a, x), y) <=> z \in Shifted(a, x + y)
  <2>1. z \in Shifted(Shifted(a, x), y) <=> z - y \in Shifted(a, x)
    BY <1>1, ShiftedIs
  <2>2. z \in Shifted(a, x + y) <=> z - (x + y) \in a
    BY <1>1, ShiftedIs
  <2>3. z - y \in Shifted(a, x) <=> (z - y) - x \in a
    <3>1. CASE z - y \in Nat
      BY <3>1, ShiftedIs
    <3>2. CASE z - y \notin Nat
      <4>1. (z - y) - x \notin Nat
        BY <3>2
      <4> QED BY <1>1, <3>2, <4>1
    <3> QED BY <3>1, <3>2
  <2>4. (z - y) - x = z - (x + y)
    OBVIOUS
  <2> QED BY <2>1, <2>2, <2>3, <2>4
<1> QED BY <1>1, <1>2

LEMMA ShiftedNot ==
  ASSUME NEW a \in SUBSET Nat
  PROVE  Shifted(a, 0) = a
<1>1. \A i \in a : i + 0 = i
  OBVIOUS
<1> QED BY <1>1 DEF Shifted

LEMMA ShiftedBelow ==
  ASSUME NEW n \in Nat, NEW a \in Below(n), NEW x \in Nat
  PROVE  Shifted(a, x) \in Below(n + x)
BY DEF Shifted, Below

LEMMA ShiftedPolys ==
  ASSUME NEW a \in Polys, NEW x \in Nat
  PROVE  Shifted(a, x) \in Polys
<1>1. PICK n \in Nat : a \in Below(n)
  BY DEF Polys
<1>2. Shifted(a, x) \in Below(n + x) /\ n + x \in Nat
  BY <1>1, ShiftedBelow
<1> QED BY <1>2 DEF Polys

LEMMA UnionPolys ==
  ASSUME NEW c \in Polys, NEW x \in Nat
  PROVE  c \cup {x} \in Polys /\ {x} \in Polys
<1>1. PICK n \in Nat : c \in Below(n)
  BY DEF Polys
<1>2. c \cup {x} \in Below(n + x + 1) /\ {x} \in Below(n + x + 1) /\ n + x + 1 \in Nat
  BY <1>1 DEF Below
<1> QED BY <1>2 DEF Polys

LEMMA RemovePolys ==
  ASSUME NEW c \in Polys, NEW x
  PROVE  c \ {x} \in Polys
BY DEF Below, Polys

(* High finds the degree.                                                   *)
LEMMA DegIs ==
  ASSUME NEW m \in Nat, NEW p, Deg(p, m)
  PROVE  p \in Polys /\ p # {} /\ High(p) = m
<1>1. p \in SUBSET (0 .. m) /\ m \in p
  BY DEF Deg, Below
<1>2. Max(p) = m
  <2>1. \A y \in p : y \in Nat /\ m >= y
    BY <1>1
  <2>2. \A x \in p : (\A y \in p : x >= y) => x = m
    BY <1>1, <2>1
  <2>3. m \in p /\ \A y \in p : m >= y
    BY <1>1, <2>1
  <2>4. Max(p) = CHOOSE x \in p : \A y \in p : x >= y
    BY DEF Max
  <2>5. Max(p) \in p /\ \A y \in p : Max(p) >= y
    BY <2>3, <2>4
  <2> QED BY <2>2, <2>5
<1> QED BY <1>1, <1>2 DEF High, Deg, Polys

(* Every polynomial but zero has a degree.                                  *)
LEMMA DegExists ==
  ASSUME NEW n \in Nat, NEW p \in Below(n), p # {}
  PROVE  \E m \in 0 .. n - 1 : Deg(p, m)
<1> DEFINE S == {k \in Nat : p \in Below(k)}
<1>1. S \in SUBSET Nat /\ S # {}
  OBVIOUS
<1>2. PICK k \in S : \A l \in S : k <= l
  BY <1>1, LeastMember
<1>3. k \in Nat /\ k <= n /\ p \in Below(k)
  BY <1>2
<1>4. k # 0
  BY <1>3, BelowNone
<1>5. k - 1 \in Nat /\ k - 1 \in 0 .. n - 1 /\ (k - 1) + 1 = k
  BY <1>3, <1>4
<1>6. k - 1 \in p
  <2> SUFFICES ASSUME k - 1 \notin p PROVE FALSE
    OBVIOUS
  <2>1. p \in Below(k - 1)
    BY <1>3, <1>5 DEF Below
  <2>2. k - 1 \in S
    BY <1>5, <2>1
  <2> QED BY <1>2, <1>3, <2>2
<1>7. Deg(p, k - 1)
  BY <1>3, <1>5, <1>6 DEF Deg
<1> QED BY <1>5, <1>7

(* Taking away the highest exponents.                                       *)
LEMMA DegCancels ==
  ASSUME NEW m \in Nat, NEW a, NEW b, Deg(a, m), Deg(b, m)
  PROVE  Add(a, b) \in Below(m)
BY DEF Add, Deg, Below

(* The greater of two degrees is that of the sum.                           *)
LEMMA DegAdd ==
  ASSUME NEW m \in Nat, NEW a, Deg(a, m), NEW b \in Below(m)
  PROVE  Deg(Add(a, b), m) /\ Deg(Add(b, a), m)
BY DEF Add, Deg, Below

LEMMA DegShifted ==
  ASSUME NEW m \in Nat, NEW a, Deg(a, m), NEW x \in Nat
  PROVE  Deg(Shifted(a, x), m + x)
BY DEF Shifted, Deg, Below

(* What is closed under making exponents occur has all polynomials.         *)
LEMMA PolyInduction ==
  ASSUME NEW S, {} \in S,
         \A b \in Polys, x \in Nat : b \in S /\ x \notin b => b \cup {x} \in S
  PROVE  Polys \subseteq S
<1> DEFINE T == {n \in Nat : Below(n) \subseteq S}
<1>1. 0 \in T
  BY BelowNone
<1>2. ASSUME NEW n \in T PROVE n + 1 \in T
  <2>1. ASSUME NEW b \in Below(n + 1) PROVE b \in S
    <3>1. n \in Nat /\ b \ {n} \in Below(n)
      BY DEF Below
    <3>2. b \ {n} \in S /\ b \ {n} \in Polys
      BY <3>1 DEF Polys
    <3>3. CASE n \in b
      <4>1. b = (b \ {n}) \cup {n}
        BY <3>3
      <4>2. (b \ {n}) \cup {n} \in S
        BY <3>1, <3>2
      <4> QED BY <4>1, <4>2
    <3>4. CASE n \notin b
      <4>1. b \ {n} = b
        BY <3>4
      <4> QED BY <3>2, <4>1
    <3> QED BY <3>3, <3>4
  <2> QED BY <2>1
<1>3. T = Nat
  <2>1. T \in SUBSET Nat
    OBVIOUS
  <2> HIDE DEF T
  <2> QED BY <1>1, <1>2, <2>1, SetInduction
<1> QED BY <1>3 DEF Polys

-----------------------------------------------------------------------------
(* Products.  A coefficient of a product is the parity of the number of     *)
(* pairs of exponents that make it, in whatever order they are added up.    *)
Pairs(a, b, z) == {i \in b : z - i \in a}
OddPairs(a, b) == {z \in Nat : Cardinality(Pairs(a, b, z)) % 2 = 1}

(* One more exponent changes the parity where it makes a pair.              *)
LEMMA OddPairsStep ==
  ASSUME NEW a \in SUBSET Nat, NEW b \in SUBSET Nat, IsFiniteSet(b), NEW x \in b
  PROVE  OddPairs(a, b) = Add(OddPairs(a, b \ {x}), Shifted(a, x))
<1> DEFINE c == b \ {x}
<1>1. x \in Nat /\ c \in SUBSET Nat /\ IsFiniteSet(c)
  BY FS_Subset
<1>2. ASSUME NEW z \in Nat
      PROVE  z \in OddPairs(a, b) <=> z \in Add(OddPairs(a, c), Shifted(a, x))
  <2> DEFINE S == Pairs(a, c, z)
  <2>1. IsFiniteSet(S) /\ Cardinality(S) \in Nat
    <3>1. S \subseteq c
      BY DEF Pairs
    <3> QED BY <1>1, <3>1, FS_Subset, FS_CardinalityType
  <2>2. x \notin S
    BY DEF Pairs
  <2>3. z \in Shifted(a, x) <=> z - x \in a
    BY <1>1, ShiftedIs
  <2>4. CASE z - x \in a
    <3>1. Pairs(a, b, z) = S \cup {x}
      BY <2>4 DEF Pairs
    <3>2. Cardinality(Pairs(a, b, z)) = Cardinality(S) + 1
      BY <2>1, <2>2, <3>1, FS_AddElement
    <3>3. Cardinality(Pairs(a, b, z)) % 2 = 1 <=> ~ (Cardinality(S) % 2 = 1)
      BY <2>1, <3>2
    <3> QED BY <2>3, <2>4, <3>3 DEF OddPairs, Add
  <2>5. CASE z - x \notin a
    <3>1. Pairs(a, b, z) = S
      BY <2>5 DEF Pairs
    <3> QED BY <2>3, <2>5, <3>1 DEF OddPairs, Add
  <2> QED BY <2>4, <2>5
<1>3. OddPairs(a, b) \in SUBSET Nat /\ Add(OddPairs(a, c), Shifted(a, x)) \in SUBSET Nat
  BY <1>1, ShiftedIs DEF OddPairs, Add
<1> QED BY <1>2, <1>3

LEMMA OddPairsOfNone ==
  ASSUME NEW a
  PROVE  OddPairs(a, {}) = {}
<1>1. ASSUME NEW z \in Nat PROVE Cardinality(Pairs(a, {}, z)) = 0
  BY FS_EmptySet DEF Pairs
<1>2. 0 % 2 = 0
  OBVIOUS
<1> QED BY <1>1, <1>2 DEF OddPairs

(* This is what the loop of polyMul computes.                               *)
LEMMA PolyMulIs ==
  ASSUME NEW a \in SUBSET Nat, NEW b \in SUBSET Nat, IsFiniteSet(b)
  PROVE  polyMul(a, b) = OddPairs(a, b)
<1> DEFINE some(s) == CHOOSE x \in s : TRUE
           E(f) == [s \in SUBSET b |->
                      IF s = {} THEN {} ELSE Add(f[s \ {some(s)}], Shifted(a, some(s)))]
           it == CHOOSE f : f = E(f)
<1>1. polyMul(a, b) = it[b]
  BY DEF polyMul, FoldSet, MapThenFoldSet
<1>2. ASSUME NEW s \in SUBSET b
      PROVE  /\ s \in SUBSET Nat /\ IsFiniteSet(s) /\ s \ {some(s)} \in SUBSET b
             /\ s # {} => some(s) \in s
  BY FS_Subset
<1> HIDE DEF some
<1>3. it = E(it)
  <2> DEFINE g == [s \in SUBSET b |-> OddPairs(a, s)]
  <2>1. ASSUME NEW s \in SUBSET b
        PROVE  g[s] = IF s = {} THEN {} ELSE Add(g[s \ {some(s)}], Shifted(a, some(s)))
    <3>1. CASE s = {}
      BY <3>1, OddPairsOfNone
    <3>2. CASE s # {}
      <4>1. OddPairs(a, s) = Add(OddPairs(a, s \ {some(s)}), Shifted(a, some(s)))
        BY <1>2, <3>2, OddPairsStep
      <4> QED BY <1>2, <3>2, <4>1
    <3> QED BY <3>1, <3>2
  <2>2. g = [s \in SUBSET b |-> g[s]]
    OBVIOUS
  <2>3. g = E(g)
    <3> HIDE DEF g
    <3> QED BY <2>1, <2>2
  <2> HIDE DEF E
  <2> QED BY <2>3
<1> HIDE DEF it
<1> DEFINE T == {n \in Nat : \A s \in SUBSET b : Cardinality(s) = n => it[s] = OddPairs(a, s)}
<1>4. 0 \in T
  <2>1. ASSUME NEW s \in SUBSET b, Cardinality(s) = 0 PROVE it[s] = OddPairs(a, s)
    <3>1. s = {}
      BY <1>2, <2>1, FS_EmptySet
    <3> QED BY <1>3, <3>1, OddPairsOfNone
  <2> QED BY <2>1
<1>5. ASSUME NEW n \in T PROVE n + 1 \in T
  <2>1. ASSUME NEW s \in SUBSET b, Cardinality(s) = n + 1 PROVE it[s] = OddPairs(a, s)
    <3>1. s # {}
      BY <1>2, <2>1, FS_EmptySet
    <3> DEFINE x == some(s)
               r == s \ {x}
    <3>2. x \in s /\ r \in SUBSET b
      BY <1>2, <3>1
    <3>3. Cardinality(r) = n
      <4>1. IsFiniteSet(s) /\ n \in Nat /\ Cardinality(s) = n + 1
        BY <1>2, <2>1
      <4>2. Cardinality(r) = Cardinality(s) - 1
        BY <3>2, <4>1, FS_RemoveElement
      <4> QED BY <4>1, <4>2
    <3>4. it[s] = Add(it[r], Shifted(a, x))
      BY <1>3, <3>1
    <3>5. it[r] = OddPairs(a, r)
      BY <1>5, <3>2, <3>3
    <3>6. OddPairs(a, s) = Add(OddPairs(a, r), Shifted(a, x))
      <4>1. s \in SUBSET Nat /\ IsFiniteSet(s)
        BY <1>2
      <4> HIDE DEF x
      <4> QED BY <3>2, <4>1, OddPairsStep
    <3> HIDE DEF x, r
    <3> QED BY <3>4, <3>5, <3>6
  <2>2. n + 1 \in Nat
    OBVIOUS
  <2> QED BY <2>1, <2>2
<1>6. T = Nat
  <2>1. T \in SUBSET Nat
    OBVIOUS
  <2> HIDE DEF T
  <2> QED BY <1>4, <1>5, <2>1, SetInduction
<1>7. Cardinality(b) \in Nat
  BY FS_CardinalityType
<1>8. it[b] = OddPairs(a, b)
  BY <1>6, <1>7
<1> QED BY <1>1, <1>8

(* So exponents may be taken one by one, whichever comes first.             *)
LEMMA PolyMulStep ==
  ASSUME NEW a \in Polys, NEW b \in Polys, NEW x \in Nat, x \notin b
  PROVE  polyMul(a, b \cup {x}) = Add(polyMul(a, b), Shifted(a, x))
<1> DEFINE c == b \cup {x}
<1>1. /\ a \in SUBSET Nat /\ b \in SUBSET Nat /\ IsFiniteSet(b)
      /\ c \in SUBSET Nat /\ IsFiniteSet(c) /\ x \in c /\ c \ {x} = b
  BY PolyIs, FS_AddElement
<1> HIDE DEF c
<1>2. OddPairs(a, c) = Add(OddPairs(a, b), Shifted(a, x))
  BY <1>1, OddPairsStep
<1>3. polyMul(a, c) = OddPairs(a, c) /\ polyMul(a, b) = OddPairs(a, b)
  BY <1>1, PolyMulIs
<1> QED BY <1>2, <1>3 DEF c

LEMMA PolyMulNone ==
  ASSUME NEW a \in Polys
  PROVE  polyMul(a, {}) = {}
<1>1. a \in SUBSET Nat /\ {} \in SUBSET Nat /\ IsFiniteSet({})
  BY PolyIs, FS_EmptySet
<1> QED BY <1>1, PolyMulIs, OddPairsOfNone

(* Products are polynomials.                                                *)
LEMMA PolyMulPolys ==
  ASSUME NEW a \in Polys, NEW b \in Polys
  PROVE  polyMul(a, b) \in Polys
<1> DEFINE S == {c \in Polys : polyMul(a, c) \in Polys}
<1>0. {} \in Polys
  BY BelowIs
<1>1. {} \in S
  BY <1>0, PolyMulNone
<1>2. ASSUME NEW c \in Polys, NEW x \in Nat, c \in S, x \notin c PROVE c \cup {x} \in S
  <2>1. c \cup {x} \in Polys
    BY UnionPolys
  <2>2. Shifted(a, x) \in Polys
    BY ShiftedPolys
  <2>3. polyMul(a, c \cup {x}) = Add(polyMul(a, c), Shifted(a, x))
    BY <1>2, PolyMulStep
  <2> QED BY <1>2, <2>1, <2>2, <2>3, AddPolys
<1>3. Polys \subseteq S
  <2> HIDE DEF S
  <2> QED BY <1>1, <1>2, PolyInduction
<1> QED BY <1>3

(* Degrees add up.                                                          *)
LEMMA DegMul ==
  ASSUME NEW m \in Nat, NEW n \in Nat, NEW a, NEW b, Deg(a, m), Deg(b, n)
  PROVE  Deg(polyMul(a, b), m + n)
<1>1. /\ a \in SUBSET (0 .. m) /\ m \in a /\ b \in SUBSET (0 .. n) /\ n \in b
      /\ a \in Polys /\ b \in Polys
  <2>1. (m + 1) - 1 = m /\ (n + 1) - 1 = n
    OBVIOUS
  <2>2. a \in Polys /\ b \in Polys
    BY DegIs
  <2> QED BY <2>1, <2>2 DEF Deg, Below
<1>2. polyMul(a, b) = OddPairs(a, b)
  BY <1>1, PolyIs, PolyMulIs
<1>3. ASSUME NEW z \in OddPairs(a, b) PROVE z \in 0 .. m + n
  <2>1. z \in Nat /\ Cardinality(Pairs(a, b, z)) % 2 = 1
    BY DEF OddPairs
  <2>2. Pairs(a, b, z) # {}
    BY <2>1, FS_EmptySet
  <2>3. PICK i \in b : z - i \in a
    BY <2>2 DEF Pairs
  <2> QED BY <1>1, <2>1, <2>3
<1>4. m + n \in OddPairs(a, b)
  <2>1. \A i \in b : (m + n) - i \in a <=> i = n
    <3>1. ASSUME NEW i \in b, (m + n) - i \in a PROVE i = n
      BY <1>1, <3>1
    <3>2. (m + n) - n = m
      OBVIOUS
    <3> QED BY <1>1, <3>1, <3>2
  <2>2. Pairs(a, b, m + n) = {n}
    BY <1>1, <2>1 DEF Pairs
  <2>3. Cardinality(Pairs(a, b, m + n)) = 1
    BY <2>2, FS_Singleton
  <2>4. 1 % 2 = 1 /\ m + n \in Nat
    OBVIOUS
  <2> QED BY <2>3, <2>4 DEF OddPairs
<1> QED BY <1>2, <1>3, <1>4 DEF Deg, Below

(* The polynomials are a commutative ring.                                  *)
LEMMA AddFour ==
  ASSUME NEW p, NEW q, NEW r, NEW s
  PROVE  Add(Add(p, q), Add(r, s)) = Add(Add(p, r), Add(q, s))
<1>1. Add(Add(p, q), Add(r, s)) = Add(p, Add(q, Add(r, s)))
  BY AddIs
<1>2. Add(q, Add(r, s)) = Add(r, Add(q, s))
  <2>1. Add(q, Add(r, s)) = Add(Add(q, r), s) /\ Add(r, Add(q, s)) = Add(Add(r, q), s)
        /\ Add(q, r) = Add(r, q)
    BY AddIs
  <2> QED BY <2>1
<1>3. Add(Add(p, r), Add(q, s)) = Add(p, Add(r, Add(q, s)))
  BY AddIs
<1> QED BY <1>1, <1>2, <1>3

LEMMA NoneIsPoly == {} \in Polys
BY BelowIs

LEMMA PolyMulAdd ==
  ASSUME NEW a \in Polys, NEW b \in Polys, NEW c \in Polys
  PROVE  polyMul(Add(a, b), c) = Add(polyMul(a, c), polyMul(b, c))
<1> DEFINE S == {d \in Polys : polyMul(Add(a, b), d) = Add(polyMul(a, d), polyMul(b, d))}
<1>0. Add(a, b) \in Polys
  BY AddPolys
<1>1. {} \in S
  <2>1. Add({}, {}) = {}
    BY AddIs
  <2> QED BY <1>0, <2>1, PolyMulNone, NoneIsPoly
<1>2. ASSUME NEW d \in Polys, NEW x \in Nat, d \in S, x \notin d PROVE d \cup {x} \in S
  <2> DEFINE e == d \cup {x}
  <2>1. e \in Polys
    BY UnionPolys
  <2>2. /\ polyMul(Add(a, b), e) = Add(polyMul(Add(a, b), d), Shifted(Add(a, b), x))
        /\ polyMul(a, e) = Add(polyMul(a, d), Shifted(a, x))
        /\ polyMul(b, e) = Add(polyMul(b, d), Shifted(b, x))
    BY <1>0, <1>2, PolyMulStep
  <2>3. Shifted(Add(a, b), x) = Add(Shifted(a, x), Shifted(b, x))
    BY PolyIs, ShiftedAdd
  <2>4. polyMul(Add(a, b), d) = Add(polyMul(a, d), polyMul(b, d))
    BY <1>2
  <2> HIDE DEF e
  <2>5. polyMul(Add(a, b), e) = Add(polyMul(a, e), polyMul(b, e))
    BY <2>2, <2>3, <2>4, AddFour
  <2> QED BY <2>1, <2>5 DEF e
<1>3. Polys \subseteq S
  <2> HIDE DEF S
  <2> QED BY <1>1, <1>2, PolyInduction
<1> QED BY <1>3

LEMMA PolyMulMonomial ==
  ASSUME NEW b \in Polys, NEW x \in Nat
  PROVE  polyMul({x}, b) = Shifted(b, x)
<1> DEFINE S == {d \in Polys : polyMul({x}, d) = Shifted(d, x)}
<1>0. {x} \in Polys
  BY UnionPolys, NoneIsPoly
<1>1. {} \in S
  BY <1>0, NoneIsPoly, PolyMulNone DEF Shifted
<1>2. ASSUME NEW d \in Polys, NEW y \in Nat, d \in S, y \notin d PROVE d \cup {y} \in S
  <2>1. polyMul({x}, d \cup {y}) = Add(polyMul({x}, d), Shifted({x}, y))
    BY <1>0, <1>2, PolyMulStep
  <2>2. d \cup {y} = Add(d, {y})
    BY <1>2, AddOne
  <2>3. Shifted(Add(d, {y}), x) = Add(Shifted(d, x), Shifted({y}, x))
    BY PolyIs, ShiftedAdd
  <2>4. Shifted({x}, y) = Shifted({y}, x)
    BY DEF Shifted
  <2>5. polyMul({x}, d) = Shifted(d, x)
    BY <1>2
  <2>6. polyMul({x}, d \cup {y}) = Shifted(d \cup {y}, x)
    BY <2>1, <2>2, <2>3, <2>4, <2>5
  <2> QED BY <2>6, UnionPolys
<1>3. Polys \subseteq S
  <2> HIDE DEF S
  <2> QED BY <1>1, <1>2, PolyInduction
<1> QED BY <1>3

(* By induction over the exponents of one factor.                           *)
LEMMA PolyMulCommutes ==
  ASSUME NEW a \in Polys, NEW b \in Polys
  PROVE  polyMul(a, b) = polyMul(b, a)
<1> DEFINE S == {d \in Polys : polyMul(a, d) = polyMul(d, a)}
<1>1. {} \in S
  <2>1. polyMul(Add({}, {}), a) = Add(polyMul({}, a), polyMul({}, a))
    BY NoneIsPoly, PolyMulAdd
  <2>2. Add({}, {}) = {} /\ Add(polyMul({}, a), polyMul({}, a)) = {}
    BY AddIs
  <2>3. polyMul({}, a) = {}
    BY <2>1, <2>2
  <2> QED BY <2>3, NoneIsPoly, PolyMulNone
<1>2. ASSUME NEW d \in Polys, NEW x \in Nat, d \in S, x \notin d PROVE d \cup {x} \in S
  <2>0. {x} \in Polys /\ d \cup {x} \in Polys
    BY UnionPolys
  <2>1. polyMul(a, d \cup {x}) = Add(polyMul(a, d), Shifted(a, x))
    BY <1>2, PolyMulStep
  <2>2. d \cup {x} = Add(d, {x})
    BY <1>2, AddOne
  <2>3. polyMul(Add(d, {x}), a) = Add(polyMul(d, a), polyMul({x}, a))
    BY <2>0, PolyMulAdd
  <2>4. polyMul({x}, a) = Shifted(a, x)
    BY PolyMulMonomial
  <2>5. polyMul(a, d) = polyMul(d, a)
    BY <1>2
  <2>6. polyMul(a, d \cup {x}) = polyMul(d \cup {x}, a)
    BY <2>1, <2>2, <2>3, <2>4, <2>5
  <2> QED BY <2>0, <2>6
<1>3. Polys \subseteq S
  <2> HIDE DEF S
  <2> QED BY <1>1, <1>2, PolyInduction
<1> QED BY <1>3

LEMMA PolyMulAddRight ==
  ASSUME NEW a \in Polys, NEW b \in Polys, NEW c \in Polys
  PROVE  polyMul(a, Add(b, c)) = Add(polyMul(a, b), polyMul(a, c))
<1>1. Add(b, c) \in Polys
  BY AddPolys
<1>2. polyMul(Add(b, c), a) = Add(polyMul(b, a), polyMul(c, a))
  BY PolyMulAdd
<1>3. /\ polyMul(a, Add(b, c)) = polyMul(Add(b, c), a)
      /\ polyMul(b, a) = polyMul(a, b) /\ polyMul(c, a) = polyMul(a, c)
  BY <1>1, PolyMulCommutes
<1> QED BY <1>2, <1>3

LEMMA PolyMulShifted ==
  ASSUME NEW a \in Polys, NEW b \in Polys, NEW x \in Nat
  PROVE  polyMul(a, Shifted(b, x)) = Shifted(polyMul(a, b), x)
<1> DEFINE S == {d \in Polys : polyMul(a, Shifted(d, x)) = Shifted(polyMul(a, d), x)}
<1>1. {} \in S
  <2>1. Shifted({}, x) = {}
    BY DEF Shifted
  <2> QED BY <2>1, NoneIsPoly, PolyMulNone
<1>2. ASSUME NEW d \in Polys, NEW y \in Nat, d \in S, y \notin d PROVE d \cup {y} \in S
  <2>0. {y} \in Polys /\ d \cup {y} \in Polys /\ Shifted(d, x) \in Polys /\ {y + x} \in Polys
        /\ y + x \in Nat /\ polyMul(a, d) \in Polys /\ Shifted(a, y) \in Polys
    <3>1. y + x \in Nat
      OBVIOUS
    <3>2. {y + x} \in Polys /\ {y} \in Polys /\ d \cup {y} \in Polys
      BY <3>1, UnionPolys
    <3> QED BY <3>1, <3>2, ShiftedPolys, PolyMulPolys
  <2>1. Shifted(d \cup {y}, x) = Add(Shifted(d, x), {y + x})
    <3>1. d \cup {y} = Add(d, {y})
      BY <1>2, AddOne
    <3>2. Shifted(Add(d, {y}), x) = Add(Shifted(d, x), Shifted({y}, x))
      BY PolyIs, ShiftedAdd
    <3>3. Shifted({y}, x) = {y + x}
      BY DEF Shifted
    <3> QED BY <3>1, <3>2, <3>3
  <2>2. polyMul(a, Add(Shifted(d, x), {y + x})) = Add(polyMul(a, Shifted(d, x)), polyMul(a, {y + x}))
    BY <2>0, PolyMulAddRight
  <2>3. polyMul(a, {y + x}) = Shifted(a, y + x)
    BY <2>0, PolyMulCommutes, PolyMulMonomial
  <2>4. polyMul(a, d \cup {y}) = Add(polyMul(a, d), Shifted(a, y))
    BY <1>2, PolyMulStep
  <2>5. Shifted(Add(polyMul(a, d), Shifted(a, y)), x)
          = Add(Shifted(polyMul(a, d), x), Shifted(Shifted(a, y), x))
    BY <2>0, PolyIs, ShiftedAdd
  <2>6. Shifted(Shifted(a, y), x) = Shifted(a, y + x)
    <3>1. a \in SUBSET Nat
      BY PolyIs
    <3> QED BY <3>1, ShiftedTwice
  <2>7. polyMul(a, Shifted(d, x)) = Shifted(polyMul(a, d), x)
    BY <1>2
  <2>8. polyMul(a, Shifted(d \cup {y}, x)) = Shifted(polyMul(a, d \cup {y}), x)
    BY <2>1, <2>2, <2>3, <2>4, <2>5, <2>6, <2>7
  <2> QED BY <2>0, <2>8
<1>3. Polys \subseteq S
  <2> HIDE DEF S
  <2> QED BY <1>1, <1>2, PolyInduction
<1> QED BY <1>3

LEMMA PolyMulAssociates ==
  ASSUME NEW a \in Polys, NEW b \in Polys, NEW c \in Polys
  PROVE  polyMul(polyMul(a, b), c) = polyMul(a, polyMul(b, c))
<1> DEFINE p == polyMul(a, b)
           S == {d \in Polys : polyMul(p, d) = polyMul(a, polyMul(b, d))}
<1>0. p \in Polys
  BY PolyMulPolys
<1>1. {} \in S
  <2> HIDE DEF p
  <2> QED BY <1>0, NoneIsPoly, PolyMulNone
<1>2. ASSUME NEW d \in Polys, NEW x \in Nat, d \in S, x \notin d PROVE d \cup {x} \in S
  <2>0. d \cup {x} \in Polys /\ polyMul(b, d) \in Polys /\ Shifted(b, x) \in Polys
    BY UnionPolys, ShiftedPolys, PolyMulPolys
  <2>1. polyMul(p, d \cup {x}) = Add(polyMul(p, d), Shifted(p, x))
    <3> HIDE DEF p
    <3> QED BY <1>0, <1>2, PolyMulStep
  <2>2. polyMul(b, d \cup {x}) = Add(polyMul(b, d), Shifted(b, x))
    BY <1>2, PolyMulStep
  <2>3. polyMul(a, Add(polyMul(b, d), Shifted(b, x)))
          = Add(polyMul(a, polyMul(b, d)), polyMul(a, Shifted(b, x)))
    BY <2>0, PolyMulAddRight
  <2>4. polyMul(a, Shifted(b, x)) = Shifted(p, x)
    BY PolyMulShifted
  <2>5. polyMul(p, d) = polyMul(a, polyMul(b, d))
    BY <1>2
  <2> HIDE DEF p
  <2>6. polyMul(p, d \cup {x}) = polyMul(a, polyMul(b, d \cup {x}))
    BY <2>1, <2>2, <2>3, <2>4, <2>5
  <2> QED BY <2>0, <2>6
<1>3. Polys \subseteq S
  <2> HIDE DEF S
  <2> QED BY <1>1, <1>2, PolyInduction
<1> QED BY <1>3

LEMMA PolyMulOne ==
  ASSUME NEW a \in Polys
  PROVE  /\ One \in Polys /\ polyMul(a, One) = a /\ polyMul(One, a) = a
         /\ polyMul(a, {}) = {} /\ polyMul({}, a) = {}
<1>1. One \in Polys
  BY UnionPolys, NoneIsPoly DEF One
<1>2. polyMul(One, a) = Shifted(a, 0)
  BY PolyMulMonomial DEF One
<1>3. Shifted(a, 0) = a
  BY PolyIs, ShiftedNot
<1>4. polyMul(a, {}) = {} /\ {} \in Polys
  BY PolyMulNone, NoneIsPoly
<1>5. polyMul(a, One) = polyMul(One, a) /\ polyMul({}, a) = polyMul(a, {})
  BY <1>1, <1>4, PolyMulCommutes
<1> QED BY <1>1, <1>2, <1>3, <1>4, <1>5

-----------------------------------------------------------------------------
(* Loops over descending positions.                                         *)
Rounds(from, to) == IF from >= to THEN from - to + 1 ELSE 0

Descends(seq, n, from, to) ==
  /\ n \in Nat /\ DOMAIN seq = 1 .. n
  /\ \A k \in 1 .. n : seq[k] = from - k + 1 /\ from - k + 1 \in to .. from

(* The positions that a loop from one position down to another goes         *)
(* through.                                                                 *)
LEMMA DescendingIs ==
  ASSUME NEW from \in Int, NEW to \in Int
  PROVE  Descends(Descending(from, to), Rounds(from, to), from, to)
<1> DEFINE n == Rounds(from, to)
<1>1. n \in Nat
  BY DEF Rounds
<1>2. 1 .. from - to + 1 = 1 .. n
  BY DEF Rounds
<1>3. ASSUME NEW k \in 1 .. n PROVE from - k + 1 \in to .. from
  BY DEF Rounds
<1> QED BY <1>1, <1>2, <1>3 DEF Descending, Descends

(* High of a polynomial is its degree, of zero one less than the least.     *)
LEMMA HighIs ==
  ASSUME NEW p \in Polys
  PROVE  /\ High(p) \in Int /\ High(p) + 1 \in Nat /\ p \in Below(High(p) + 1)
         /\ p # {} => Deg(p, High(p)) /\ High(p) \in Nat
         /\ p = {} => High(p) = -1
<1>1. CASE p = {}
  <2>1. High(p) = -1 /\ -1 + 1 = 0
    BY <1>1 DEF High
  <2> QED BY <1>1, <2>1, BelowNone
<1>2. CASE p # {}
  <2>1. PICK n \in Nat : p \in Below(n)
    BY DEF Polys
  <2>2. PICK m \in 0 .. n - 1 : Deg(p, m)
    BY <1>2, <2>1, DegExists
  <2>3. High(p) = m /\ m \in Nat
    BY <2>2, DegIs
  <2> QED BY <1>2, <2>2, <2>3 DEF Deg
<1> QED BY <1>1, <1>2

(* The assumption on the irreducible polynomial, put together.              *)
LEMMA IrreducibleIs ==
  /\ Degree \in Nat \ {0} /\ Degree \in Nat
  /\ Deg(Irreducible, Degree) /\ High(Irreducible) = Degree /\ Irreducible \in Polys
  /\ Elements = Below(Degree) /\ Elements \subseteq Polys
  /\ \A a, b \in Elements : polyMul(a, b) # Irreducible
<1>1. Degree \in Nat \ {0} /\ Irreducible \subseteq 0 .. Degree /\ Degree \in Irreducible
      /\ \A a, b \in Elements : polyMul(a, b) # Irreducible
  BY IrreducibleAssumption
<1>2. (Degree + 1) - 1 = Degree
  BY <1>1
<1>3. Deg(Irreducible, Degree)
  BY <1>1, <1>2 DEF Deg, Below
<1>4. Elements = Below(Degree)
  BY DEF Elements, Below
<1> QED BY <1>1, <1>3, <1>4, DegIs, BelowIs

-----------------------------------------------------------------------------
(* Congruence modulo the irreducible polynomial.                            *)
Cong(x, y) == \E q \in Polys : x = Add(y, polyMul(Irreducible, q))

(* Congruence is an equivalence that sums and products keep.                *)
LEMMA CongIs ==
  ASSUME NEW x \in Polys, NEW y \in Polys, NEW q \in Polys, x = Add(y, polyMul(Irreducible, q))
  PROVE  Cong(x, y)
BY DEF Cong

LEMMA CongReflexive ==
  ASSUME NEW x \in Polys
  PROVE  Cong(x, x)
<1>1. polyMul(Irreducible, {}) = {} /\ Add(x, {}) = x
  BY IrreducibleIs, PolyMulNone, AddIs
<1> QED BY <1>1, NoneIsPoly, CongIs

LEMMA CongSymmetric ==
  ASSUME NEW x \in Polys, NEW y \in Polys, Cong(x, y)
  PROVE  Cong(y, x)
<1>1. PICK q \in Polys : x = Add(y, polyMul(Irreducible, q))
  BY DEF Cong
<1>2. y = Add(x, polyMul(Irreducible, q))
  BY <1>1, AddCancel
<1> QED BY <1>2, CongIs

LEMMA CongTransitive ==
  ASSUME NEW x \in Polys, NEW y \in Polys, NEW z \in Polys, Cong(x, y), Cong(y, z)
  PROVE  Cong(x, z)
<1>1. PICK q \in Polys : x = Add(y, polyMul(Irreducible, q))
  BY DEF Cong
<1>2. PICK r \in Polys : y = Add(z, polyMul(Irreducible, r))
  BY DEF Cong
<1>3. x = Add(z, Add(polyMul(Irreducible, r), polyMul(Irreducible, q)))
  BY <1>1, <1>2, AddIs
<1>4. polyMul(Irreducible, Add(r, q)) = Add(polyMul(Irreducible, r), polyMul(Irreducible, q))
  BY IrreducibleIs, PolyMulAddRight
<1>5. Add(r, q) \in Polys
  BY AddPolys
<1> QED BY <1>3, <1>4, <1>5, CongIs

LEMMA CongAdd ==
  ASSUME NEW x \in Polys, NEW y \in Polys, NEW u \in Polys, NEW v \in Polys, Cong(x, y), Cong(u, v)
  PROVE  Cong(Add(x, u), Add(y, v))
<1>1. PICK q \in Polys : x = Add(y, polyMul(Irreducible, q))
  BY DEF Cong
<1>2. PICK r \in Polys : u = Add(v, polyMul(Irreducible, r))
  BY DEF Cong
<1>3. Add(x, u) = Add(Add(y, v), Add(polyMul(Irreducible, q), polyMul(Irreducible, r)))
  BY <1>1, <1>2, AddFour
<1>4. polyMul(Irreducible, Add(q, r)) = Add(polyMul(Irreducible, q), polyMul(Irreducible, r))
  BY IrreducibleIs, PolyMulAddRight
<1>5. Add(q, r) \in Polys /\ Add(x, u) \in Polys /\ Add(y, v) \in Polys
  BY AddPolys
<1> QED BY <1>3, <1>4, <1>5, CongIs

LEMMA CongMul ==
  ASSUME NEW x \in Polys, NEW y \in Polys, NEW c \in Polys, Cong(x, y)
  PROVE  Cong(polyMul(c, x), polyMul(c, y)) /\ Cong(polyMul(x, c), polyMul(y, c))
<1>1. PICK q \in Polys : x = Add(y, polyMul(Irreducible, q))
  BY DEF Cong
<1> DEFINE m == polyMul(Irreducible, q)
           d == polyMul(c, q)
<1>2. m \in Polys /\ d \in Polys /\ Irreducible \in Polys
  BY IrreducibleIs, PolyMulPolys
<1>3. polyMul(c, x) = Add(polyMul(c, y), polyMul(c, m))
  <2>1. x = Add(y, m)
    BY <1>1
  <2> HIDE DEF m
  <2> QED BY <1>2, <2>1, PolyMulAddRight
<1>4. polyMul(c, m) = polyMul(Irreducible, d)
  <2>1. polyMul(c, m) = polyMul(polyMul(c, Irreducible), q)
    BY <1>2, PolyMulAssociates
  <2>2. polyMul(c, Irreducible) = polyMul(Irreducible, c)
    BY <1>2, PolyMulCommutes
  <2>3. polyMul(polyMul(Irreducible, c), q) = polyMul(Irreducible, d)
    BY <1>2, PolyMulAssociates
  <2> QED BY <2>1, <2>2, <2>3
<1> HIDE DEF m, d
<1>5. polyMul(c, x) \in Polys /\ polyMul(c, y) \in Polys
  BY PolyMulPolys
<1>6. Cong(polyMul(c, x), polyMul(c, y))
  BY <1>2, <1>3, <1>4, <1>5, CongIs
<1>7. polyMul(x, c) = polyMul(c, x) /\ polyMul(y, c) = polyMul(c, y)
  BY PolyMulCommutes
<1> QED BY <1>6, <1>7

(* Of congruent polynomials only one is below the irreducible one.          *)
LEMMA CongUnique ==
  ASSUME NEW x \in Elements, NEW y \in Elements, Cong(x, y)
  PROVE  x = y
<1>1. PICK q \in Polys : x = Add(y, polyMul(Irreducible, q))
  BY DEF Cong
<1>2. x \in Below(Degree) /\ y \in Below(Degree) /\ Degree \in Nat /\ Deg(Irreducible, Degree)
      /\ Irreducible \in Polys
  BY IrreducibleIs
<1>3. CASE q = {}
  <2>1. polyMul(Irreducible, q) = {} /\ Add(y, {}) = y
    BY <1>2, <1>3, PolyMulNone, AddIs
  <2> QED BY <1>1, <2>1
<1>4. CASE q # {}
  <2> DEFINE m == High(q)
             p == polyMul(Irreducible, q)
  <2>1. Deg(q, m) /\ m \in Nat
    BY <1>4, HighIs
  <2> HIDE DEF m
  <2>2. Deg(p, Degree + m)
    BY <1>2, <2>1, DegMul
  <2>3. p = Add(x, y)
    <3>1. x = Add(y, p)
      BY <1>1
    <3> HIDE DEF p
    <3>2. Add(y, p) = Add(p, y) /\ Add(Add(p, y), y) = p
      BY AddIs, AddCancel
    <3> QED BY <3>1, <3>2
  <2>4. p \in Below(Degree)
    BY <1>2, <2>3, AddBelow
  <2> HIDE DEF p
  <2>5. Degree + m \in p /\ p \in SUBSET (0 .. Degree - 1)
    BY <2>2, <2>4 DEF Deg, Below
  <2>6. FALSE
    BY <1>2, <2>1, <2>5
  <2> QED BY <2>6
<1> QED BY <1>3, <1>4

(* One position of reduce, ...                                              *)
ReducedAt(r, pos) ==
  IF pos \notin r THEN r
  ELSE IF pos < High(Irreducible) THEN r \ {pos}
  ELSE Add(r, Shifted(Irreducible, pos - High(Irreducible))) \ {pos}

(* ... and what it goes through.                                            *)
ReducesAll(h, n, val) ==
  h[0] = val /\ \A k \in 1 .. n : h[k] = ReducedAt(h[k - 1], High(val) - k + 1)

(* A round stays among the polynomials, ...                                 *)
LEMMA ReducedAtIs ==
  ASSUME NEW r \in Polys, NEW pos \in Nat, pos >= Degree
  PROVE  ReducedAt(r, pos) \in Polys
<1>1. Add(r, Shifted(Irreducible, pos - Degree)) \in Polys
  <2>1. pos - Degree \in Nat
    BY IrreducibleIs
  <2> QED BY <2>1, IrreducibleIs, ShiftedPolys, AddPolys
<1>2. Add(r, Shifted(Irreducible, pos - Degree)) \ {pos} \in Polys
  BY <1>1, RemovePolys
<1>3. ~ (pos < High(Irreducible)) /\ High(Irreducible) = Degree
  BY IrreducibleIs
<1> QED BY <1>2, <1>3 DEF ReducedAt

(* ... and reduce is its rounds from the highest position down.             *)
LEMMA ReductionHistory ==
  ASSUME NEW val \in Polys
  PROVE  \E h \in [0 .. Rounds(High(val), Degree) -> Polys] :
           /\ ReducesAll(h, Rounds(High(val), Degree), val)
           /\ h[Rounds(High(val), Degree)] = reduce(val)
<1> DEFINE V == Polys
           n == Rounds(High(val), Degree)
           seq == Descending(High(val), Degree)
           H == [v \in V |-> [k \in 1 .. n |-> ReducedAt(v, seq[k])]]
           E(f) == [s \in SUBSET DOMAIN seq |->
                      IF s = {} THEN val ELSE ReducedAt(f[s \ {Max(s)}], seq[Max(s)])]
           it == CHOOSE f : f = E(f)
<1>1. n \in Nat /\ DOMAIN seq = 1 .. n
      /\ \A k \in 1 .. n : seq[k] = High(val) - k + 1 /\ seq[k] \in Nat /\ seq[k] >= Degree
  <2>1. High(val) \in Int /\ Degree \in Nat
    BY HighIs, IrreducibleIs
  <2>2. Descends(seq, n, High(val), Degree)
    BY <2>1, DescendingIs
  <2> HIDE DEF n, seq
  <2> QED BY <2>1, <2>2 DEF Descends
<1>2. val \in V
  OBVIOUS
<1>3. reduce(val) = it[DOMAIN seq]
  BY DEF reduce, FoldLeft, MapThenFoldSet, ReducedAt
<1> HIDE DEF n, seq
<1>4. \A v \in V, k \in 1 .. n : H[v][k] = ReducedAt(v, seq[k]) /\ ReducedAt(v, seq[k]) \in V
  BY <1>1, ReducedAtIs
<1> HIDE DEF V, H
<1>5. it = E(it)
  <2>1. PICK g \in [SUBSET (1 .. n) -> V] : FoldRecurses(g, n, val, H)
    <3>1. ClosedUnder(H, V, n)
      BY <1>4 DEF ClosedUnder
    <3> QED BY <1>1, <1>2, <3>1, FoldRecursion
  <2>2. ASSUME NEW s \in SUBSET (1 .. n), s # {}
        PROVE  g[s] = ReducedAt(g[s \ {Max(s)}], seq[Max(s)])
    <3>1. Max(s) \in s
      BY <1>1, <2>2, SubsetMax
    <3>2. g[s] = H[g[s \ {Max(s)}]][Max(s)]
      BY <2>1, <2>2 DEF FoldRecurses
    <3> QED BY <1>4, <3>1, <3>2
  <2>3. g[{}] = val
    BY <2>1 DEF FoldRecurses
  <2>4. g = E(g)
    BY <1>1, <2>2, <2>3
  <2> HIDE DEF E
  <2> QED BY <2>4
<1> HIDE DEF it
<1>6. Follows(it, n, V, val, H)
  <2>1. it[{}] = val
    BY <1>5
  <2>2. ASSUME NEW k \in 1 .. n, it[1 .. k - 1] \in V
        PROVE  it[1 .. k] = H[it[1 .. k - 1]][k]
    <3>1. 1 .. k \in SUBSET DOMAIN seq /\ 1 .. k # {} /\ k \in Nat \ {0}
      BY <1>1, SegmentOf
    <3>2. it[1 .. k] = ReducedAt(it[(1 .. k) \ {Max(1 .. k)}], seq[Max(1 .. k)])
      BY <1>5, <3>1
    <3>3. it[1 .. k] = ReducedAt(it[1 .. k - 1], seq[k])
      BY <3>1, <3>2, SegmentMax
    <3> QED BY <1>4, <2>2, <3>3
  <2> QED BY <2>1, <2>2 DEF Follows
<1>7. ClosedUnder(H, V, n)
  BY <1>4 DEF ClosedUnder
<1>8. PICK h \in [0 .. n -> V] : History(h, n, val, H) /\ h[n] = it[1 .. n]
  BY <1>1, <1>2, <1>6, <1>7, FoldHistory
<1>9. ASSUME NEW k \in 1 .. n PROVE h[k] = ReducedAt(h[k - 1], High(val) - k + 1)
  <2>1. k - 1 \in 0 .. n
    BY <1>1
  <2>2. h[k - 1] \in V
    BY <2>1
  <2>3. h[k] = ReducedAt(h[k - 1], seq[k])
    BY <1>4, <1>8, <2>2 DEF History
  <2> QED BY <1>1, <2>3
<1>10. h[0] = val /\ h[n] = reduce(val)
  BY <1>1, <1>3, <1>8 DEF History
<1>11. ReducesAll(h, n, val)
  BY <1>9, <1>10 DEF ReducesAll
<1> QED BY <1>10, <1>11 DEF V, n

(* A position takes away the highest exponent by adding a multiple of the   *)
(* irreducible polynomial.                                                  *)
LEMMA ReducedAtStep ==
  ASSUME NEW pos \in Nat, pos >= Degree, NEW r \in Below(pos + 1)
  PROVE  ReducedAt(r, pos) \in Below(pos) /\ Cong(r, ReducedAt(r, pos))
<1>1. r \in Polys /\ ReducedAt(r, pos) \in Polys
  BY ReducedAtIs DEF Polys
<1>2. CASE pos \notin r
  <2>1. r \in Below(pos)
    BY <1>2 DEF Below
  <2>2. ReducedAt(r, pos) = r
    BY <1>2 DEF ReducedAt
  <2> QED BY <1>1, <2>1, <2>2, CongReflexive
<1>3. CASE pos \in r
  <2> DEFINE d == pos - Degree
             m == Shifted(Irreducible, d)
  <2>1. d \in Nat /\ Degree + d = pos /\ ~ (pos < High(Irreducible)) /\ d = pos - High(Irreducible)
        /\ Degree \in Nat
    BY IrreducibleIs
  <2> HIDE DEF d
  <2>2. Deg(m, pos) /\ Deg(r, pos)
    BY <1>3, <2>1, IrreducibleIs, DegShifted DEF Deg
  <2>3. Add(r, m) \in Below(pos)
    BY <2>2, DegCancels
  <2>4. ReducedAt(r, pos) = Add(r, m) \ {pos}
    BY <1>3, <2>1 DEF ReducedAt
  <2>5. Add(r, m) \ {pos} = Add(r, m)
    <3> HIDE DEF m
    <3>1. pos \notin Add(r, m)
      BY <2>3 DEF Below
    <3> QED BY <3>1
  <2>6. {d} \in Polys /\ polyMul(Irreducible, {d}) = m
    <3>1. {d} \in Polys
      BY <2>1, UnionPolys, NoneIsPoly
    <3> QED BY <2>1, <3>1, IrreducibleIs, PolyMulCommutes, PolyMulMonomial
  <2> HIDE DEF m
  <2>7. r = Add(ReducedAt(r, pos), polyMul(Irreducible, {d}))
    BY <2>4, <2>5, <2>6, AddCancel
  <2> QED BY <1>1, <2>3, <2>4, <2>5, <2>6, <2>7, CongIs
<1> QED BY <1>2, <1>3

(* What is left of a polynomial is an element congruent to it.              *)
LEMMA ReduceIs ==
  ASSUME NEW val \in Polys
  PROVE  reduce(val) \in Elements /\ Cong(val, reduce(val))
<1> DEFINE n == Rounds(High(val), Degree)
           top == High(val) + 1
<1>1. PICK h \in [0 .. n -> Polys] : ReducesAll(h, n, val) /\ h[n] = reduce(val)
  BY ReductionHistory
<1>2. top \in Nat /\ val \in Below(top) /\ Degree \in Nat \ {0} /\ High(val) \in Int
  BY HighIs, IrreducibleIs
<1>3. n \in Nat /\ n <= top /\ top - n <= Degree /\ (n > 0 => top - n = Degree)
  BY <1>2 DEF Rounds
<1> HIDE DEF n
<1> DEFINE T == {k \in 0 .. n : h[k] \in Below(top - k) /\ Cong(val, h[k])}
<1>4. 0 \in T
  <2>1. h[0] = val /\ top - 0 = top /\ 0 \in 0 .. n
    BY <1>1, <1>2, <1>3 DEF ReducesAll
  <2> QED BY <1>2, <2>1, CongReflexive
<1>5. ASSUME NEW k \in 0 .. n - 1, k \in T PROVE k + 1 \in T
  <2> DEFINE pos == top - k - 1
  <2>1. pos \in Nat /\ pos >= Degree /\ pos + 1 = top - k /\ pos = top - (k + 1)
        /\ k + 1 \in 1 .. n /\ k + 1 \in 0 .. n /\ (k + 1) - 1 = k /\ High(val) - (k + 1) + 1 = pos
    BY <1>2, <1>3
  <2>2. h[k + 1] = ReducedAt(h[k], pos)
    <3>1. h[k + 1] = ReducedAt(h[(k + 1) - 1], High(val) - (k + 1) + 1)
      BY <1>1, <2>1 DEF ReducesAll
    <3> QED BY <2>1, <3>1
  <2>3. h[k] \in Below(pos + 1) /\ Cong(val, h[k])
    BY <1>5, <2>1
  <2> HIDE DEF pos, top
  <2>4. h[k + 1] \in Below(pos) /\ Cong(h[k], h[k + 1])
    BY <2>1, <2>2, <2>3, ReducedAtStep
  <2>5. h[k] \in Polys /\ h[k + 1] \in Polys
    <3>1. k \in 0 .. n
      BY <1>3
    <3> QED BY <2>1, <3>1
  <2>6. Cong(val, h[k + 1])
    BY <2>3, <2>4, <2>5, CongTransitive
  <2> QED BY <2>1, <2>4, <2>6
<1>6. 0 .. n \subseteq T
  <2> HIDE DEF T
  <2> QED BY <1>3, <1>4, <1>5, BoundedInduction
<1>7. h[n] \in Below(top - n) /\ Cong(val, h[n]) /\ top - n \in Nat
  BY <1>2, <1>3, <1>6
<1>8. h[n] \in Below(Degree)
  BY <1>2, <1>3, <1>7, BelowIs
<1> QED BY <1>1, <1>7, <1>8, IrreducibleIs

(* It is the only element that is.                                          *)
LEMMA ReduceUnique ==
  ASSUME NEW x \in Polys, NEW y \in Elements, Cong(x, y)
  PROVE  reduce(x) = y
<1>1. reduce(x) \in Elements /\ Cong(x, reduce(x)) /\ reduce(x) \in Polys /\ y \in Polys
  BY ReduceIs, IrreducibleIs
<1>2. Cong(reduce(x), x)
  BY <1>1, CongSymmetric
<1>3. Cong(reduce(x), y)
  BY <1>1, <1>2, CongTransitive
<1> QED BY <1>1, <1>3, CongUnique

-----------------------------------------------------------------------------
(* The product of two elements is what is left of that of the polynomials.  *)
LEMMA MulIs ==
  ASSUME NEW a \in Elements, NEW b \in Elements
  PROVE  /\ Mul(a, b) \in Elements /\ polyMul(a, b) \in Polys
         /\ Cong(polyMul(a, b), Mul(a, b)) /\ Cong(Mul(a, b), polyMul(a, b))
<1>1. polyMul(a, b) \in Polys
  BY IrreducibleIs, PolyMulPolys
<1>2. Mul(a, b) \in Elements /\ Mul(a, b) \in Polys /\ Cong(polyMul(a, b), Mul(a, b))
  BY <1>1, ReduceIs, IrreducibleIs DEF Mul
<1> QED BY <1>1, <1>2, CongSymmetric

(* To be congruent is to be equal, among elements: the laws of the          *)
(* polynomials are those of the elements.                                   *)
LEMMA MulUnique ==
  ASSUME NEW a \in Elements, NEW b \in Elements, NEW y \in Elements, Cong(polyMul(a, b), y)
  PROVE  Mul(a, b) = y
<1>1. polyMul(a, b) \in Polys
  BY IrreducibleIs, PolyMulPolys
<1> QED BY <1>1, ReduceUnique DEF Mul

LEMMA MulCommutes ==
  ASSUME NEW a \in Elements, NEW b \in Elements
  PROVE  Mul(a, b) = Mul(b, a)
<1>1. polyMul(a, b) = polyMul(b, a)
  BY IrreducibleIs, PolyMulCommutes
<1> QED BY <1>1 DEF Mul

LEMMA MulAssociates ==
  ASSUME NEW a \in Elements, NEW b \in Elements, NEW c \in Elements
  PROVE  Mul(Mul(a, b), c) = Mul(a, Mul(b, c))
<1> DEFINE p == Mul(a, b)
           q == Mul(b, c)
           x == polyMul(a, b)
           y == polyMul(b, c)
           z == polyMul(x, c)
<1>1. /\ a \in Polys /\ b \in Polys /\ c \in Polys
      /\ p \in Elements /\ q \in Elements /\ p \in Polys /\ q \in Polys
      /\ x \in Polys /\ y \in Polys /\ Cong(p, x) /\ Cong(y, q)
  BY MulIs, IrreducibleIs
<1>2. z = polyMul(a, y)
  BY <1>1, PolyMulAssociates
<1> HIDE DEF p, q, x, y
<1>3. Cong(polyMul(p, c), z) /\ polyMul(p, c) \in Polys /\ z \in Polys
  BY <1>1, CongMul, PolyMulPolys
<1>4. Cong(z, polyMul(a, q)) /\ polyMul(a, q) \in Polys
  BY <1>1, <1>2, CongMul, PolyMulPolys
<1> HIDE DEF z
<1>5. Mul(a, q) \in Elements /\ Mul(a, q) \in Polys /\ Cong(polyMul(a, q), Mul(a, q))
  BY <1>1, MulIs, IrreducibleIs
<1>6. Cong(z, Mul(a, q))
  BY <1>3, <1>4, <1>5, CongTransitive
<1>7. Cong(polyMul(p, c), Mul(a, q))
  BY <1>3, <1>5, <1>6, CongTransitive
<1>8. Mul(p, c) = Mul(a, q)
  BY <1>1, <1>5, <1>7, MulUnique
<1> QED BY <1>8 DEF p, q

LEMMA MulDistributes ==
  ASSUME NEW a \in Elements, NEW b \in Elements, NEW c \in Elements
  PROVE  Mul(a, Add(b, c)) = Add(Mul(a, b), Mul(a, c)) /\ Add(b, c) \in Elements
<1>1. /\ a \in Polys /\ b \in Polys /\ c \in Polys /\ Add(b, c) \in Elements
      /\ Mul(a, b) \in Elements /\ Mul(a, c) \in Elements
      /\ Mul(a, b) \in Polys /\ Mul(a, c) \in Polys
      /\ polyMul(a, b) \in Polys /\ polyMul(a, c) \in Polys
      /\ Cong(polyMul(a, b), Mul(a, b)) /\ Cong(polyMul(a, c), Mul(a, c))
  BY MulIs, AddBelow, IrreducibleIs
<1>2. Add(Mul(a, b), Mul(a, c)) \in Elements
  BY <1>1, AddBelow, IrreducibleIs
<1>3. polyMul(a, Add(b, c)) = Add(polyMul(a, b), polyMul(a, c))
  BY <1>1, PolyMulAddRight
<1>4. Cong(polyMul(a, Add(b, c)), Add(Mul(a, b), Mul(a, c)))
  BY <1>1, <1>3, CongAdd
<1> QED BY <1>1, <1>2, <1>4, MulUnique

LEMMA ElementMulOne ==
  ASSUME NEW a \in Elements
  PROVE  /\ One \in Elements /\ Zero \in Elements /\ Zero # One
         /\ Mul(a, One) = a /\ Mul(One, a) = a
         /\ Mul(a, Zero) = Zero /\ Mul(Zero, a) = Zero
<1>1. One \in Elements
  BY IrreducibleIs DEF One, Elements
<1>2. Zero \in Elements /\ Zero # One
  BY DEF Zero, One, Elements
<1>3. a \in Polys /\ Zero = {} /\ Zero \in Polys
  BY <1>2, IrreducibleIs DEF Zero
<1>4. Cong(polyMul(a, One), a) /\ Cong(polyMul(a, Zero), Zero)
  BY <1>3, PolyMulOne, CongReflexive
<1>5. Mul(a, One) = a /\ Mul(a, Zero) = Zero
  BY <1>1, <1>2, <1>4, MulUnique
<1> QED BY <1>1, <1>2, <1>5, MulCommutes

-----------------------------------------------------------------------------
(* Division *)

DividedAt(s, pos, b) ==
  IF pos \notin s.remainder THEN s
  ELSE [quotient  |-> s.quotient \cup {pos - High(b)},
        remainder |-> Add(s.remainder, Shifted(b, pos - High(b)))]

DividesAll(h, n, a, b) ==
  /\ h[0] = [quotient |-> {}, remainder |-> a]
  /\ \A k \in 1 .. n : h[k] = DividedAt(h[k - 1], High(a) - k + 1, b)

Divisions == [quotient : Polys, remainder : Polys]

(* A round of divMod stays among the polynomials, ...                       *)
LEMMA DividedAtIs ==
  ASSUME NEW s \in Divisions, NEW b \in Polys, b # {}, NEW pos \in Nat, pos >= High(b)
  PROVE  DividedAt(s, pos, b) \in Divisions
<1>1. pos - High(b) \in Nat
  BY HighIs
<1>2. s.quotient \in Polys /\ s.remainder \in Polys
  BY DEF Divisions
<1>3. s.quotient \cup {pos - High(b)} \in Polys
  BY <1>1, <1>2, UnionPolys
<1>4. Add(s.remainder, Shifted(b, pos - High(b))) \in Polys
  BY <1>1, <1>2, ShiftedPolys, AddPolys
<1> QED BY <1>3, <1>4 DEF DividedAt, Divisions

(* ... and divMod is its rounds.                                            *)
LEMMA DivisionHistory ==
  ASSUME NEW a \in Polys, NEW b \in Polys, b # {}
  PROVE  \E h \in [0 .. Rounds(High(a), High(b)) -> Divisions] :
           /\ DividesAll(h, Rounds(High(a), High(b)), a, b)
           /\ h[Rounds(High(a), High(b))] = polyDivMod(a, b)
<1> DEFINE V == Divisions
           base == [quotient |-> {}, remainder |-> a]
           n == Rounds(High(a), High(b))
           seq == Descending(High(a), High(b))
           H == [v \in V |-> [k \in 1 .. n |-> DividedAt(v, seq[k], b)]]
           E(f) == [s \in SUBSET DOMAIN seq |->
                      IF s = {} THEN base ELSE DividedAt(f[s \ {Max(s)}], seq[Max(s)], b)]
           it == CHOOSE f : f = E(f)
<1>1. n \in Nat /\ DOMAIN seq = 1 .. n
      /\ \A k \in 1 .. n : seq[k] = High(a) - k + 1 /\ seq[k] \in Nat /\ seq[k] >= High(b)
  <2>1. High(a) \in Int /\ High(b) \in Nat
    BY HighIs
  <2>2. Descends(seq, n, High(a), High(b))
    BY <2>1, DescendingIs
  <2> HIDE DEF n, seq
  <2> QED BY <2>1, <2>2 DEF Descends
<1>2. base \in V
  BY NoneIsPoly DEF Divisions
<1>3. polyDivMod(a, b) = it[DOMAIN seq]
  BY DEF polyDivMod, FoldLeft, MapThenFoldSet, DividedAt
<1> HIDE DEF n, seq, base
<1>4. \A v \in V, k \in 1 .. n : H[v][k] = DividedAt(v, seq[k], b) /\ DividedAt(v, seq[k], b) \in V
  BY <1>1, DividedAtIs
<1> HIDE DEF V, H
<1>5. it = E(it)
  <2>1. PICK g \in [SUBSET (1 .. n) -> V] : FoldRecurses(g, n, base, H)
    <3>1. ClosedUnder(H, V, n)
      BY <1>4 DEF ClosedUnder
    <3> QED BY <1>1, <1>2, <3>1, FoldRecursion
  <2>2. ASSUME NEW s \in SUBSET (1 .. n), s # {}
        PROVE  g[s] = DividedAt(g[s \ {Max(s)}], seq[Max(s)], b)
    <3>1. Max(s) \in s
      BY <1>1, <2>2, SubsetMax
    <3>2. g[s] = H[g[s \ {Max(s)}]][Max(s)]
      BY <2>1, <2>2 DEF FoldRecurses
    <3> QED BY <1>4, <3>1, <3>2
  <2>3. g[{}] = base
    BY <2>1 DEF FoldRecurses
  <2>4. g = E(g)
    BY <1>1, <2>2, <2>3
  <2> HIDE DEF E
  <2> QED BY <2>4
<1> HIDE DEF it
<1>6. Follows(it, n, V, base, H)
  <2>1. it[{}] = base
    BY <1>5
  <2>2. ASSUME NEW k \in 1 .. n, it[1 .. k - 1] \in V
        PROVE  it[1 .. k] = H[it[1 .. k - 1]][k]
    <3>1. 1 .. k \in SUBSET DOMAIN seq /\ 1 .. k # {} /\ k \in Nat \ {0}
      BY <1>1, SegmentOf
    <3>2. it[1 .. k] = DividedAt(it[(1 .. k) \ {Max(1 .. k)}], seq[Max(1 .. k)], b)
      BY <1>5, <3>1
    <3>3. it[1 .. k] = DividedAt(it[1 .. k - 1], seq[k], b)
      BY <3>1, <3>2, SegmentMax
    <3> QED BY <1>4, <2>2, <3>3
  <2> QED BY <2>1, <2>2 DEF Follows
<1>7. ClosedUnder(H, V, n)
  BY <1>4 DEF ClosedUnder
<1>8. PICK h \in [0 .. n -> V] : History(h, n, base, H) /\ h[n] = it[1 .. n]
  <2>1. n \in Nat
    BY <1>1
  <2>2. \E h \in [0 .. n -> V] : History(h, n, base, H) /\ h[n] = it[1 .. n]
    BY ONLY <2>1, <1>2, <1>6, <1>7, FoldHistory
  <2> QED BY <2>2
<1>9. ASSUME NEW k \in 1 .. n PROVE h[k] = DividedAt(h[k - 1], High(a) - k + 1, b)
  <2>1. k - 1 \in 0 .. n
    BY <1>1
  <2>2. h[k - 1] \in V
    BY <2>1
  <2>3. h[k] = DividedAt(h[k - 1], seq[k], b)
    BY <1>4, <1>8, <2>2 DEF History
  <2> QED BY <1>1, <2>3
<1>10. h[0] = base /\ h[n] = polyDivMod(a, b)
  BY <1>1, <1>3, <1>8 DEF History
<1>11. DividesAll(h, n, a, b)
  BY <1>9, <1>10 DEF DividesAll, base
<1> QED BY <1>10, <1>11 DEF V, n

(* What a round of the division keeps: quotient times divisor plus          *)
(* remainder, and the exponents that the quotient has so far.               *)
Divided(s, n, a, b) ==
  /\ s.remainder \in Below(n)
  /\ \A x \in s.quotient : x + High(b) >= n
  /\ a = Add(polyMul(b, s.quotient), s.remainder)

(* A round keeps it.                                                        *)
LEMMA DividedStep ==
  ASSUME NEW b \in Polys, b # {}, NEW pos \in Nat, pos >= High(b),
         NEW s \in Divisions, NEW a \in Polys, Divided(s, pos + 1, a, b)
  PROVE  Divided(DividedAt(s, pos, b), pos, a, b)
<1> DEFINE q == s.quotient
           r == s.remainder
           m == High(b)
           d == pos - m
           t == Shifted(b, d)
<1>1. q \in Polys /\ r \in Polys /\ m \in Nat /\ d \in Nat /\ m + d = pos /\ Deg(b, m)
  BY HighIs DEF Divisions
<1>2. q \in SUBSET Nat
  BY <1>1, PolyIs
<1>3. r \in Below(pos + 1) /\ (\A x \in q : x + m >= pos + 1) /\ a = Add(polyMul(b, q), r)
  BY DEF Divided
<1>4. CASE pos \notin r
  <2>1. r \in Below(pos)
    BY <1>3, <1>4 DEF Below
  <2>2. \A x \in q : x + m >= pos
    BY <1>1, <1>2, <1>3
  <2>3. DividedAt(s, pos, b) = s
    BY <1>4 DEF DividedAt
  <2> QED BY <1>3, <2>1, <2>2, <2>3 DEF Divided
<1>5. CASE pos \in r
  <2> DEFINE u == DividedAt(s, pos, b)
  <2>1. u.quotient = q \cup {d} /\ u.remainder = Add(r, t)
    BY <1>5 DEF DividedAt
  <2> HIDE DEF u, m, d, q, r
  <2>2. d \notin q
    BY <1>1, <1>2, <1>3
  <2>3. Deg(t, pos) /\ Deg(r, pos)
    BY <1>1, <1>3, <1>5, DegShifted DEF Deg
  <2>4. Add(r, t) \in Below(pos)
    BY <2>3, DegCancels
  <2>5. \A x \in q \cup {d} : x + m >= pos
    BY <1>1, <1>2, <1>3
  <2>6. polyMul(b, q \cup {d}) = Add(polyMul(b, q), t)
    BY <1>1, <2>2, PolyMulStep
  <2> HIDE DEF t
  <2>7. Add(Add(polyMul(b, q), t), Add(r, t)) = Add(polyMul(b, q), r)
    <3> DEFINE p == polyMul(b, q)
    <3>1. Add(Add(p, t), Add(r, t)) = Add(Add(p, r), Add(t, t))
      BY AddFour
    <3> HIDE DEF p
    <3>2. Add(t, t) = {} /\ Add(Add(p, r), {}) = Add(p, r)
      BY AddIs
    <3> QED BY <3>1, <3>2 DEF p
  <2>8. a = Add(polyMul(b, u.quotient), u.remainder)
    BY <1>3, <2>1, <2>6, <2>7
  <2>9. u.remainder \in Below(pos) /\ \A x \in u.quotient : x + m >= pos
    BY <2>1, <2>4, <2>5
  <2> QED BY <2>8, <2>9 DEF Divided, u, m
<1> QED BY <1>4, <1>5

(* Division with remainder.                                                 *)
LEMMA DivModIs ==
  ASSUME NEW a \in Polys, NEW b \in Polys, b # {}, NEW d, d = polyDivMod(a, b)
  PROVE  /\ d.quotient \in Polys /\ d.remainder \in Polys
         /\ d.remainder \in Below(High(b))
         /\ a = Add(polyMul(b, d.quotient), d.remainder)
<1> DEFINE n == Rounds(High(a), High(b))
           top == High(a) + 1
<1>1. PICK h \in [0 .. n -> Divisions] : DividesAll(h, n, a, b) /\ h[n] = d
  BY DivisionHistory
<1>2. top \in Nat /\ a \in Below(top) /\ High(b) \in Nat /\ High(a) \in Int
  BY HighIs
<1>3. n \in Nat /\ n <= top /\ top - n <= High(b) /\ (n > 0 => top - n = High(b))
  BY <1>2 DEF Rounds
<1> HIDE DEF n
<1> DEFINE T == {k \in 0 .. n : Divided(h[k], top - k, a, b)}
<1>4. 0 \in T
  <2> DEFINE s == [quotient |-> {}, remainder |-> a]
  <2>1. h[0] = s /\ top - 0 = top /\ 0 \in 0 .. n
    BY <1>1, <1>2, <1>3 DEF DividesAll
  <2>2. s.quotient = {} /\ s.remainder = a
    OBVIOUS
  <2> HIDE DEF s
  <2>3. polyMul(b, {}) = {} /\ Add({}, a) = a
    BY PolyMulNone, AddIs
  <2>4. Divided(s, top, a, b)
    BY <1>2, <2>2, <2>3 DEF Divided
  <2> QED BY <2>1, <2>4
<1>5. ASSUME NEW k \in 0 .. n - 1, k \in T PROVE k + 1 \in T
  <2> DEFINE pos == top - k - 1
  <2>1. pos \in Nat /\ pos >= High(b) /\ pos + 1 = top - k /\ pos = top - (k + 1)
        /\ k + 1 \in 1 .. n /\ k + 1 \in 0 .. n /\ (k + 1) - 1 = k /\ High(a) - (k + 1) + 1 = pos
        /\ k \in 0 .. n
    BY <1>2, <1>3
  <2>2. h[k + 1] = DividedAt(h[k], pos, b)
    <3>1. h[k + 1] = DividedAt(h[(k + 1) - 1], High(a) - (k + 1) + 1, b)
      BY <1>1, <2>1 DEF DividesAll
    <3> QED BY <2>1, <3>1
  <2>3. Divided(h[k], pos + 1, a, b) /\ h[k] \in Divisions
    BY <1>5, <2>1
  <2> HIDE DEF pos, top
  <2>4. Divided(h[k + 1], pos, a, b)
    BY <2>1, <2>2, <2>3, DividedStep
  <2> QED BY <2>1, <2>4
<1>6. 0 .. n \subseteq T
  <2> HIDE DEF T
  <2> QED BY <1>3, <1>4, <1>5, BoundedInduction
<1>7. Divided(d, top - n, a, b) /\ top - n \in Nat /\ d \in Divisions
  BY <1>1, <1>2, <1>3, <1>6
<1>8. d.remainder \in Below(top - n) /\ a = Add(polyMul(b, d.quotient), d.remainder)
  BY <1>7 DEF Divided
<1>9. d.remainder \in Below(High(b))
  BY <1>2, <1>3, <1>7, <1>8, BelowIs
<1> QED BY <1>7, <1>8, <1>9 DEF Divisions

(* The quotient makes up for what the divisor lacks of the dividend.        *)
LEMMA QuotientDeg ==
  ASSUME NEW m \in Nat, NEW n \in Nat, NEW a, Deg(a, m + n), NEW b, Deg(b, m),
         NEW q \in Polys, NEW r \in Below(m), a = Add(polyMul(b, q), r)
  PROVE  Deg(q, n)
<1>1. a \in Polys /\ b \in Polys /\ m + n \in a /\ m + n \in Nat /\ High(a) = m + n
  BY DegIs DEF Deg
<1>2. m + n \notin r
  BY DEF Below
<1>3. q # {}
  <2>1. q = {} => a = r
    BY <1>1, PolyMulNone, AddIs
  <2> QED BY <1>1, <1>2, <2>1
<1> DEFINE k == High(q)
           p == polyMul(b, q)
<1>4. k \in Nat /\ Deg(q, k)
  BY <1>3, HighIs
<1> HIDE DEF k
<1>5. Deg(p, m + k) /\ m + k \in Nat
  BY <1>4, DegMul
<1>6. r \in Below(m + k)
  BY <1>4, BelowIs
<1>7. a = Add(p, r)
  OBVIOUS
<1> HIDE DEF p
<1>8. Deg(a, m + k)
  BY <1>5, <1>6, <1>7, DegAdd
<1>9. m + k = m + n
  BY <1>1, <1>5, <1>8, DegIs
<1> QED BY <1>4, <1>9

-----------------------------------------------------------------------------
(* Divisors *)
Divides(c, x) == \E e \in Polys : x = polyMul(c, e)

(* A polynomial divides itself, zero and the sums of what it divides.       *)
LEMMA DividesSelf ==
  ASSUME NEW c \in Polys
  PROVE  Divides(c, c) /\ Divides(c, {})
<1>1. c = polyMul(c, One) /\ One \in Polys /\ {} = polyMul(c, {}) /\ {} \in Polys
  BY PolyMulOne, NoneIsPoly
<1> QED BY <1>1 DEF Divides

LEMMA DividesSum ==
  ASSUME NEW c \in Polys, NEW x \in Polys, NEW y \in Polys, NEW q \in Polys,
         Divides(c, x), Divides(c, y)
  PROVE  Divides(c, Add(polyMul(x, q), y))
<1>1. PICK e \in Polys : x = polyMul(c, e)
  BY DEF Divides
<1>2. PICK f \in Polys : y = polyMul(c, f)
  BY DEF Divides
<1> DEFINE g == polyMul(e, q)
<1>3. g \in Polys /\ polyMul(x, q) = polyMul(c, g)
  BY <1>1, PolyMulPolys, PolyMulAssociates
<1> HIDE DEF g
<1>4. Add(polyMul(x, q), y) = polyMul(c, Add(g, f)) /\ Add(g, f) \in Polys
  BY <1>2, <1>3, PolyMulAddRight, AddPolys
<1> QED BY <1>4 DEF Divides

(* What a round of Euclid's algorithm keeps.  The degrees of the last two   *)
(* cofactors grow as those of the last two remainders go down.              *)
EuclidStates == [old_r : Polys, r : Polys, old_s : Polys, s : Polys]

EuclidDegrees(t, n) ==
  /\ Deg(t.old_r, Degree - n) /\ t.r \in Below(Degree - n)
  /\ Deg(t.s, n) /\ t.old_s \in Below(n)

Cofactors(t, a) == Cong(polyMul(t.old_s, a), t.old_r) /\ Cong(polyMul(t.s, a), t.r)

KeepsDivisors(t, a) ==
  \A c \in Polys : Divides(c, t.old_r) /\ Divides(c, t.r) => Divides(c, Irreducible) /\ Divides(c, a)

EuclidInv(t, k, a) ==
  /\ \E n \in 0 .. Degree : EuclidDegrees(t, n) /\ (t.r = {} \/ n >= k)
  /\ Cofactors(t, a) /\ KeepsDivisors(t, a)

(* A round stays among the polynomials.                                     *)
LEMMA EuclidIs ==
  ASSUME NEW t \in EuclidStates, NEW k
  PROVE  Euclid(t, k) \in EuclidStates
<1>1. CASE t.r = {}
  BY <1>1 DEF Euclid
<1>2. CASE t.r # {}
  <2> DEFINE d == polyDivMod(t.old_r, t.r)
  <2>1. t.old_r \in Polys /\ t.r \in Polys /\ t.old_s \in Polys /\ t.s \in Polys
    BY DEF EuclidStates
  <2>2. d.quotient \in Polys /\ d.remainder \in Polys
    <3> HIDE DEF d
    <3>1. d = polyDivMod(t.old_r, t.r)
      BY DEF d
    <3> QED BY <1>2, <2>1, <3>1, DivModIs
  <2> HIDE DEF d
  <2>3. Add(t.old_s, polyMul(d.quotient, t.s)) \in Polys
    BY <2>1, <2>2, PolyMulPolys, AddPolys
  <2>4. Euclid(t, k) = [old_r |-> t.r, r |-> d.remainder,
                        old_s |-> t.s, s |-> Add(t.old_s, polyMul(d.quotient, t.s))]
    BY <1>2 DEF Euclid, d
  <2> QED BY <2>1, <2>2, <2>3, <2>4 DEF EuclidStates
<1> QED BY <1>1, <1>2

(* A round that divides. *)
Round(u, t, d) ==
  /\ u.old_r = t.r /\ u.r = d.remainder
  /\ u.old_s = t.s /\ u.s = Add(t.old_s, polyMul(d.quotient, t.s))

(* A round keeps the cofactors, ...                                         *)
LEMMA RoundCofactors ==
  ASSUME NEW a \in Polys, NEW t \in EuclidStates, NEW u \in EuclidStates, NEW d \in Divisions,
         Round(u, t, d), t.old_r = Add(polyMul(t.r, d.quotient), d.remainder), Cofactors(t, a)
  PROVE  Cofactors(u, a)
<1> DEFINE q == d.quotient
           x == polyMul(t.old_s, a)
           y == polyMul(t.s, a)
           p == polyMul(q, t.s)
<1>1. /\ t.old_r \in Polys /\ t.r \in Polys /\ t.old_s \in Polys /\ t.s \in Polys
      /\ q \in Polys /\ d.remainder \in Polys
  BY DEF EuclidStates, Divisions
<1>2. x \in Polys /\ y \in Polys /\ p \in Polys
  BY <1>1, PolyMulPolys
<1>3. Cong(x, t.old_r) /\ Cong(y, t.r)
  BY DEF Cofactors
<1>4. polyMul(u.s, a) = Add(x, polyMul(q, y))
  <2>1. u.s = Add(t.old_s, p)
    BY DEF Round
  <2>2. polyMul(p, a) = polyMul(q, y)
    BY <1>1, PolyMulAssociates
  <2> HIDE DEF p
  <2>3. polyMul(Add(t.old_s, p), a) = Add(x, polyMul(p, a))
    BY <1>1, <1>2, PolyMulAdd
  <2> QED BY <2>1, <2>2, <2>3
<1> HIDE DEF x, y, p, q
<1>5. polyMul(q, y) \in Polys /\ polyMul(q, t.r) \in Polys /\ Cong(polyMul(q, y), polyMul(q, t.r))
  BY <1>1, <1>2, <1>3, CongMul, PolyMulPolys
<1>6. Cong(Add(x, polyMul(q, y)), Add(t.old_r, polyMul(q, t.r)))
  BY <1>1, <1>2, <1>3, <1>5, CongAdd
<1>7. Add(t.old_r, polyMul(q, t.r)) = d.remainder
  <2> DEFINE e == polyMul(t.r, q)
             f == d.remainder
  <2>1. t.old_r = Add(e, f)
    BY DEF q
  <2>2. polyMul(q, t.r) = e
    BY <1>1, PolyMulCommutes
  <2> HIDE DEF e, f
  <2>3. Add(e, f) = Add(f, e) /\ Add(Add(f, e), e) = f
    BY AddIs, AddCancel
  <2> QED BY <2>1, <2>2, <2>3 DEF f
<1>8. Cong(polyMul(u.s, a), u.r)
  BY <1>4, <1>6, <1>7 DEF Round
<1>9. Cong(polyMul(u.old_s, a), u.old_r)
  BY <1>3 DEF Round, y
<1> QED BY <1>8, <1>9 DEF Cofactors

(* ... the common divisors, ...                                             *)
LEMMA RoundDivisors ==
  ASSUME NEW a \in Polys, NEW t \in EuclidStates, NEW u \in EuclidStates, NEW d \in Divisions,
         Round(u, t, d), t.old_r = Add(polyMul(t.r, d.quotient), d.remainder), KeepsDivisors(t, a)
  PROVE  KeepsDivisors(u, a)
<1>1. /\ t.old_r \in Polys /\ t.r \in Polys /\ d.quotient \in Polys /\ d.remainder \in Polys
  BY DEF EuclidStates, Divisions
<1>2. ASSUME NEW c \in Polys, Divides(c, u.old_r), Divides(c, u.r)
      PROVE  Divides(c, Irreducible) /\ Divides(c, a)
  <2>1. Divides(c, t.r) /\ Divides(c, d.remainder)
    BY <1>2 DEF Round
  <2>2. Divides(c, t.old_r)
    BY <1>1, <2>1, DividesSum
  <2> QED BY <2>1, <2>2 DEF KeepsDivisors
<1> QED BY <1>2 DEF KeepsDivisors

(* ... and the bounds of the degrees, with the remainder lower than before. *)
LEMMA RoundDegrees ==
  ASSUME NEW t \in EuclidStates, NEW u \in EuclidStates, NEW d \in Divisions, t.r # {},
         Round(u, t, d), t.old_r = Add(polyMul(t.r, d.quotient), d.remainder),
         d.remainder \in Below(High(t.r)), NEW n \in 0 .. Degree, EuclidDegrees(t, n)
  PROVE  \E m \in 0 .. Degree : EuclidDegrees(u, m) /\ m >= n + 1
<1> DEFINE e == High(t.r)
           m == Degree - e
           l == m - n
<1>1. /\ t.old_r \in Polys /\ t.r \in Polys /\ t.old_s \in Polys /\ t.s \in Polys
      /\ d.quotient \in Polys /\ d.remainder \in Polys /\ Degree \in Nat
  BY IrreducibleIs DEF EuclidStates, Divisions
<1>2. e \in Nat /\ Deg(t.r, e) /\ e \in t.r
  BY <1>1, HighIs DEF Deg
<1>3. /\ Deg(t.old_r, Degree - n) /\ t.r \in Below(Degree - n)
      /\ Deg(t.s, n) /\ t.old_s \in Below(n)
  BY DEF EuclidDegrees
<1>4. e \in 0 .. (Degree - n) - 1
  BY <1>2, <1>3 DEF Below
<1>5. m \in 0 .. Degree /\ m \in Nat /\ l \in Nat \ {0} /\ l \in Nat /\ e + l = Degree - n /\ l + n = m
      /\ n \in Nat /\ Degree - m = e /\ m >= n + 1
  BY <1>1, <1>2, <1>4
<1>6. d.remainder \in Below(e)
  OBVIOUS
<1> HIDE DEF e, m, l
<1>7. Deg(t.old_r, e + l)
  BY <1>3, <1>5
<1>8. Deg(d.quotient, l)
  BY <1>1, <1>2, <1>5, <1>6, <1>7, QuotientDeg
<1>9. Deg(polyMul(d.quotient, t.s), m)
  <2>1. Deg(polyMul(d.quotient, t.s), l + n)
    BY <1>3, <1>5, <1>8, DegMul
  <2> QED BY <1>5, <2>1
<1>10. t.old_s \in Below(m) /\ t.s \in Below(m)
  <2>1. t.s \in Below(n + 1)
    BY <1>3 DEF Deg
  <2>2. n + 1 \in Nat /\ n <= m /\ n + 1 <= m
    BY <1>5
  <2> QED BY <1>3, <1>5, <2>1, <2>2, BelowIs
<1>11. Deg(u.s, m)
  BY <1>5, <1>9, <1>10, DegAdd DEF Round
<1>12. EuclidDegrees(u, m)
  BY <1>2, <1>5, <1>6, <1>10, <1>11 DEF Round, EuclidDegrees
<1> QED BY <1>5, <1>12

(* A round of the loop keeps the invariant.                                 *)
LEMMA EuclidStep ==
  ASSUME NEW a \in Polys, NEW t \in EuclidStates, NEW k \in Nat, EuclidInv(t, k, a), NEW x
  PROVE  EuclidInv(Euclid(t, x), k + 1, a)
<1>1. CASE t.r = {}
  <2>1. Euclid(t, x) = t
    BY <1>1 DEF Euclid
  <2> QED BY <1>1, <2>1 DEF EuclidInv
<1>2. CASE t.r # {}
  <2> DEFINE d == polyDivMod(t.old_r, t.r)
             u == Euclid(t, x)
  <2>1. t.old_r \in Polys /\ t.r \in Polys /\ t.old_s \in Polys /\ t.s \in Polys
    BY DEF EuclidStates
  <2>2. u \in EuclidStates
    BY EuclidIs
  <2>3. Round(u, t, d)
    BY <1>2 DEF Euclid, Round
  <2>4. d \in Divisions
    <3>1. PICK h \in [0 .. Rounds(High(t.old_r), High(t.r)) -> Divisions] :
                 h[Rounds(High(t.old_r), High(t.r))] = d
      BY <1>2, <2>1, DivisionHistory
    <3>2. Rounds(High(t.old_r), High(t.r)) \in Nat
      <4>1. High(t.old_r) \in Int /\ High(t.r) \in Int
        BY <2>1, HighIs
      <4> QED BY <4>1 DEF Rounds
    <3> HIDE DEF d
    <3> QED BY <3>1, <3>2
  <2>5. d = polyDivMod(t.old_r, t.r)
    OBVIOUS
  <2> HIDE DEF d, u
  <2>6. d.remainder \in Below(High(t.r)) /\ t.old_r = Add(polyMul(t.r, d.quotient), d.remainder)
    BY <1>2, <2>1, <2>5, DivModIs
  <2>7. PICK n \in 0 .. Degree : EuclidDegrees(t, n) /\ (t.r = {} \/ n >= k)
    BY DEF EuclidInv
  <2>8. PICK m \in 0 .. Degree : EuclidDegrees(u, m) /\ m >= n + 1
    BY <1>2, <2>2, <2>3, <2>4, <2>6, <2>7, RoundDegrees
  <2>9. m >= k + 1
    BY <1>2, <2>7, <2>8
  <2>10. Cofactors(u, a)
    BY <2>2, <2>3, <2>4, <2>6, RoundCofactors DEF EuclidInv
  <2>11. KeepsDivisors(u, a)
    BY <2>2, <2>3, <2>4, <2>6, RoundDivisors DEF EuclidInv
  <2>12. EuclidInv(u, k + 1, a)
    BY <2>8, <2>9, <2>10, <2>11 DEF EuclidInv
  <2> QED BY <2>12 DEF u
<1> QED BY <1>1, <1>2

EuclidBase(a) == [old_r |-> Irreducible, r |-> a, old_s |-> {}, s |-> One]

(* It holds before the first one.                                           *)
LEMMA EuclidStart ==
  ASSUME NEW a \in Elements
  PROVE  EuclidBase(a) \in EuclidStates /\ EuclidInv(EuclidBase(a), 0, a)
<1> DEFINE t == EuclidBase(a)
<1>1. t.old_r = Irreducible /\ t.r = a /\ t.old_s = {} /\ t.s = One
  BY DEF EuclidBase
<1>2. /\ Irreducible \in Polys /\ a \in Polys /\ {} \in Polys /\ One \in Polys
      /\ a \in Below(Degree) /\ Deg(Irreducible, Degree) /\ Degree \in Nat
  BY IrreducibleIs, NoneIsPoly, PolyMulOne
<1>3. t \in EuclidStates
  BY <1>2 DEF EuclidBase, EuclidStates
<1> HIDE DEF t
<1>4. EuclidDegrees(t, 0) /\ 0 \in 0 .. Degree
  <2>1. Degree - 0 = Degree /\ 0 \in 0 .. Degree /\ 0 + 1 = 1
    BY <1>2
  <2>2. Deg(One, 0)
    <3>1. {0} \in SUBSET (0 .. (0 + 1) - 1) /\ 0 \in {0}
      OBVIOUS
    <3> QED BY <3>1 DEF Deg, Below, One
  <2>3. {} \in Below(0)
    BY BelowIs
  <2> QED BY <1>1, <1>2, <2>1, <2>2, <2>3 DEF EuclidDegrees
<1>5. Cofactors(t, a)
  <2>1. polyMul({}, a) = {} /\ polyMul(One, a) = a /\ polyMul(Irreducible, One) = Irreducible
    BY <1>2, PolyMulOne
  <2>2. Add(Irreducible, Irreducible) = {}
    BY AddIs
  <2>3. Cong({}, Irreducible)
    BY <1>2, <2>1, <2>2, CongIs
  <2>4. Cong(a, a)
    BY <1>2, CongReflexive
  <2> QED BY <1>1, <2>1, <2>3, <2>4 DEF Cofactors
<1>6. KeepsDivisors(t, a)
  BY <1>1 DEF KeepsDivisors
<1>7. EuclidInv(t, 0, a)
  BY <1>4, <1>5, <1>6 DEF EuclidInv
<1> QED BY <1>3, <1>7 DEF t

EuclidRuns(h, a) ==
  h[0] = EuclidBase(a) /\ \A k \in 1 .. Degree + 1 : \E x : h[k] = Euclid(h[k - 1], x)

(* The inverse is what the rounds come to.                                  *)
LEMMA EuclidHistory ==
  ASSUME NEW a \in Elements
  PROVE  \E h \in [0 .. Degree + 1 -> EuclidStates] :
           EuclidRuns(h, a) /\ h[Degree + 1].old_s = Inv(a)
<1> DEFINE V == EuclidStates
           base == EuclidBase(a)
           n == Degree + 1
           seq == Descending(Degree, 0)
           H == [v \in V |-> [k \in 1 .. n |-> Euclid(v, seq[k])]]
           E(f) == [s \in SUBSET DOMAIN seq |->
                      IF s = {} THEN base ELSE Euclid(f[s \ {Max(s)}], seq[Max(s)])]
           it == CHOOSE f : f = E(f)
<1>1. n \in Nat /\ DOMAIN seq = 1 .. n
  <2>1. Degree \in Nat /\ Degree - 0 + 1 = Degree + 1
    BY IrreducibleIs
  <2> QED BY <2>1 DEF Descending
<1>2. base \in V
  BY EuclidStart
<1>3. Inv(a) = it[DOMAIN seq].old_s
  BY DEF Inv, FoldLeft, MapThenFoldSet, EuclidBase
<1> HIDE DEF n, seq, base
<1>4. \A v \in V, k \in 1 .. n : H[v][k] = Euclid(v, seq[k]) /\ Euclid(v, seq[k]) \in V
  BY <1>1, EuclidIs
<1> HIDE DEF V, H
<1>5. it = E(it)
  <2>1. PICK g \in [SUBSET (1 .. n) -> V] : FoldRecurses(g, n, base, H)
    <3>1. ClosedUnder(H, V, n)
      BY <1>4 DEF ClosedUnder
    <3> QED BY <1>1, <1>2, <3>1, FoldRecursion
  <2>2. ASSUME NEW s \in SUBSET (1 .. n), s # {}
        PROVE  g[s] = Euclid(g[s \ {Max(s)}], seq[Max(s)])
    <3>1. Max(s) \in s
      BY <1>1, <2>2, SubsetMax
    <3>2. g[s] = H[g[s \ {Max(s)}]][Max(s)]
      BY <2>1, <2>2 DEF FoldRecurses
    <3> QED BY <1>4, <3>1, <3>2
  <2>3. g[{}] = base
    BY <2>1 DEF FoldRecurses
  <2>4. g = E(g)
    BY <1>1, <2>2, <2>3
  <2> HIDE DEF E
  <2> QED BY <2>4
<1> HIDE DEF it
<1>6. Follows(it, n, V, base, H)
  <2>1. it[{}] = base
    BY <1>5
  <2>2. ASSUME NEW k \in 1 .. n, it[1 .. k - 1] \in V
        PROVE  it[1 .. k] = H[it[1 .. k - 1]][k]
    <3>1. 1 .. k \in SUBSET DOMAIN seq /\ 1 .. k # {} /\ k \in Nat \ {0}
      BY <1>1, SegmentOf
    <3>2. it[1 .. k] = Euclid(it[(1 .. k) \ {Max(1 .. k)}], seq[Max(1 .. k)])
      BY <1>5, <3>1
    <3>3. it[1 .. k] = Euclid(it[1 .. k - 1], seq[k])
      BY <3>1, <3>2, SegmentMax
    <3> QED BY <1>4, <2>2, <3>3
  <2> QED BY <2>1, <2>2 DEF Follows
<1>7. ClosedUnder(H, V, n)
  BY <1>4 DEF ClosedUnder
<1>8. PICK h \in [0 .. n -> V] : History(h, n, base, H) /\ h[n] = it[1 .. n]
  <2>1. n \in Nat
    BY <1>1
  <2>2. \E h \in [0 .. n -> V] : History(h, n, base, H) /\ h[n] = it[1 .. n]
    BY ONLY <2>1, <1>2, <1>6, <1>7, FoldHistory
  <2> QED BY <2>2
<1>9. ASSUME NEW k \in 1 .. n PROVE h[k] = Euclid(h[k - 1], seq[k])
  <2>1. k - 1 \in 0 .. n
    BY <1>1
  <2>2. h[k - 1] \in V
    BY <2>1
  <2> QED BY <1>4, <1>8, <2>2 DEF History
<1>10. h[0] = base /\ h[n].old_s = Inv(a)
  BY <1>1, <1>3, <1>8 DEF History
<1>11. EuclidRuns(h, a)
  BY <1>9, <1>10 DEF EuclidRuns, base, n
<1> QED BY <1>10, <1>11 DEF V, n

(* The divisors of the irreducible polynomial are one and itself.           *)
LEMMA IrreducibleDivisor ==
  ASSUME NEW n \in 0 .. Degree, NEW c, Deg(c, Degree - n), Divides(c, Irreducible)
  PROVE  n = 0 \/ n = Degree
<1>1. Degree \in Nat /\ n \in Nat /\ Degree - n \in Nat /\ (Degree - n) + n = Degree
  BY IrreducibleIs
<1> DEFINE m == Degree - n
<1> HIDE DEF m
<1>2. m \in Nat /\ m + n = Degree /\ Deg(c, m)
  BY <1>1 DEF m
<1>3. PICK e \in Polys : Irreducible = polyMul(c, e)
  BY DEF Divides
<1>4. Deg(e, n)
  <2> DEFINE p == polyMul(c, e)
  <2>1. p \in Polys
    BY <1>2, DegIs, PolyMulPolys
  <2>2. p = Add(p, {}) /\ {} \in Below(m) /\ p = Irreducible
    BY <1>2, <1>3, AddIs, BelowIs
  <2>3. Deg(Irreducible, m + n)
    BY <1>2, IrreducibleIs
  <2> QED BY <1>1, <1>2, <2>2, <2>3, QuotientDeg
<1>5. CASE n # 0 /\ n # Degree
  <2>1. m + 1 \in Nat /\ n + 1 \in Nat /\ m + 1 <= Degree /\ n + 1 <= Degree
    BY <1>1, <1>2, <1>5
  <2>2. c \in Below(m + 1) /\ e \in Below(n + 1)
    BY <1>2, <1>4 DEF Deg
  <2>3. c \in Elements /\ e \in Elements
    BY <1>1, <2>1, <2>2, BelowIs, IrreducibleIs
  <2> QED BY <1>3, <2>3, IrreducibleIs
<1> QED BY <1>5

(* As the irreducible polynomial has no divisor of a lower degree, the last *)
(* remainder is one and its cofactor the inverse.                           *)
LEMMA InvIs ==
  ASSUME NEW a \in Elements, a # Zero
  PROVE  Inv(a) \in Elements /\ Mul(a, Inv(a)) = One
<1> DEFINE N == Degree + 1
<1>1. PICK h \in [0 .. N -> EuclidStates] : EuclidRuns(h, a) /\ h[N].old_s = Inv(a)
  BY EuclidHistory
<1>2. N \in Nat /\ Degree \in Nat /\ a \in Polys /\ a \in Below(Degree) /\ a # {}
  BY IrreducibleIs DEF Zero
<1> DEFINE T == {k \in 0 .. N : EuclidInv(h[k], k, a)}
<1>3. 0 \in T
  <2>1. h[0] = EuclidBase(a) /\ 0 \in 0 .. N
    BY <1>1, <1>2 DEF EuclidRuns
  <2> QED BY <2>1, EuclidStart
<1>4. ASSUME NEW k \in 0 .. N - 1, k \in T PROVE k + 1 \in T
  <2>1. k + 1 \in 1 .. N /\ k + 1 \in 0 .. N /\ (k + 1) - 1 = k /\ k \in Nat /\ k \in 0 .. N
    BY <1>2
  <2>2. PICK x : h[k + 1] = Euclid(h[(k + 1) - 1], x)
    BY <1>1, <2>1 DEF EuclidRuns
  <2>3. EuclidInv(h[k], k, a) /\ h[k] \in EuclidStates
    BY <1>4, <2>1
  <2>4. EuclidInv(h[k + 1], k + 1, a)
    BY <1>2, <2>1, <2>2, <2>3, EuclidStep
  <2> QED BY <2>1, <2>4
<1>5. EuclidInv(h[N], N, a) /\ h[N] \in EuclidStates
  <2>1. 0 .. N \subseteq T
    <3> HIDE DEF T, N
    <3> QED BY <1>2, <1>3, <1>4, BoundedInduction
  <2> QED BY <1>2, <2>1
<1> DEFINE t == h[N]
<1> HIDE DEF N
<1>6. PICK n \in 0 .. Degree : EuclidDegrees(t, n) /\ (t.r = {} \/ n >= N)
  BY <1>5 DEF EuclidInv
<1>7. t.r = {}
  BY <1>2, <1>6 DEF N
<1>8. t.old_r \in Polys /\ t.old_s \in Polys /\ Inv(a) = t.old_s
  BY <1>1, <1>5 DEF EuclidStates
<1>9. Deg(t.old_r, Degree - n) /\ Deg(t.s, n) /\ t.old_s \in Below(n)
  BY <1>6 DEF EuclidDegrees
<1>10. Divides(t.old_r, Irreducible) /\ Divides(t.old_r, a)
  BY <1>5, <1>7, <1>8, DividesSelf DEF EuclidInv, KeepsDivisors
<1>11. Cong(polyMul(t.old_s, a), t.old_r)
  BY <1>5 DEF EuclidInv, Cofactors
<1> HIDE DEF t
<1>12. n = Degree
  <2>1. CASE n = 0
    <3>1. Deg(t.old_r, Degree) /\ Degree - 0 = Degree
      BY <1>2, <1>9, <2>1
    <3>2. PICK e \in Polys : a = polyMul(t.old_r, e)
      BY <1>10 DEF Divides
    <3>3. e # {}
      BY <1>2, <1>8, <3>2, PolyMulNone
    <3>4. High(e) \in Nat /\ Deg(e, High(e))
      BY <3>3, HighIs
    <3>5. Deg(a, Degree + High(e))
      BY <1>2, <3>1, <3>2, <3>4, DegMul
    <3>6. Degree + High(e) \in a /\ a \in SUBSET (0 .. Degree - 1)
      BY <1>2, <3>5 DEF Deg, Below
    <3>7. FALSE
      BY <1>2, <3>4, <3>6
    <3> QED BY <3>7
  <2> QED BY <1>9, <1>10, <2>1, IrreducibleDivisor
<1>13. t.old_r = One
  <2>1. Degree - n = 0 /\ 0 .. (0 + 1) - 1 = {0}
    BY <1>2, <1>12
  <2>2. 0 \in t.old_r /\ t.old_r \in SUBSET {0}
    BY <1>9, <2>1 DEF Deg, Below
  <2> QED BY <2>2 DEF One
<1>14. t.old_s \in Elements /\ polyMul(t.old_s, a) = polyMul(a, t.old_s)
  BY <1>2, <1>8, <1>9, <1>12, IrreducibleIs, PolyMulCommutes
<1>15. One \in Elements
  BY ElementMulOne
<1>16. Mul(a, t.old_s) = One
  BY <1>11, <1>13, <1>14, <1>15, MulUnique
<1> QED BY <1>8, <1>14, <1>16

(* The elements of the binary field are a field, for every irreducible      *)
(* polynomial: Add, Sub, Mul and Inv, as the code computes them, obey the   *)
(* laws that the algorithms on matrices need.                               *)
THEOREM BinaryIsField == FieldLaws
<1>1. Zero \in Elements /\ One \in Elements /\ Zero # One
  BY ElementMulOne, IrreducibleIs DEF Zero, Elements
<1>2. ASSUME NEW a \in Elements, NEW b \in Elements
      PROVE  Add(a, b) \in Elements /\ Sub(a, b) \in Elements /\ Mul(a, b) \in Elements
  BY MulIs, IrreducibleIs, AddBelow DEF Sub
<1>3. ASSUME NEW a \in Elements, NEW b \in Elements, NEW c \in Elements
      PROVE  /\ Add(a, b) = Add(b, a)
             /\ Add(Add(a, b), c) = Add(a, Add(b, c))
             /\ Add(a, Zero) = a /\ Add(Zero, a) = a
             /\ Sub(a, a) = Zero
             /\ Add(Sub(a, b), b) = a
  BY AddIs, AddCancel DEF Sub, Zero
<1>4. ASSUME NEW a \in Elements, NEW b \in Elements, NEW c \in Elements
      PROVE  /\ Mul(a, b) = Mul(b, a)
             /\ Mul(Mul(a, b), c) = Mul(a, Mul(b, c))
             /\ Mul(a, One) = a /\ Mul(One, a) = a
             /\ Mul(a, Zero) = Zero /\ Mul(Zero, a) = Zero
             /\ Mul(a, Add(b, c)) = Add(Mul(a, b), Mul(a, c))
  BY MulCommutes, MulAssociates, ElementMulOne, MulDistributes
<1>5. \A a \in Elements \ {Zero} : Inv(a) \in Elements /\ Mul(a, Inv(a)) = One
  BY InvIs
<1> QED BY <1>1, <1>2, <1>3, <1>4, <1>5 DEF FieldLaws

-----------------------------------------------------------------------------
(* The bits of elements, and what the configuration's checks come to.       *)
LEMMA BinaryPacks == PackingLaws
<1>1. ByteBits \in Nat \ {0}
  BY RsConfigAssumption
<1>2. ASSUME NEW k \in Nat, NEW s \in BitStrings(k) PROVE FromBits(s) \in Elements
  BY DEF FromBits, Elements
<1>3. ASSUME NEW k \in Nat, NEW a \in Elements PROVE Bits(a, k) \in BitStrings(k)
  BY DEF Bits, BitStrings
<1> QED BY <1>1, <1>2, <1>3 DEF PackingLaws

(* An exponent occurs where the bit is one. *)
LEMMA FromBitsHas ==
  ASSUME NEW k \in Nat, NEW s \in BitStrings(k), NEW x
  PROVE  x \in FromBits(s) <=> x \in 0 .. Degree - 1 /\ \E j \in 1 .. k : s[j] = 1 /\ x = k - j
<1>1. Len(s) = k /\ DOMAIN s = 1 .. k
  BY LenOf DEF BitStrings
<1> QED BY <1>1 DEF FromBits

(* As many bits as the degree, or more, keep an element, ...                *)
LEMMA BinaryWide ==
  ASSUME NEW k \in Nat, Degree <= k
  PROVE  Wide(k)
<1> SUFFICES ASSUME NEW a \in Elements PROVE FromBits(Bits(a, k)) = a
  BY DEF Wide
<1> DEFINE s == Bits(a, k)
<1>1. s \in BitStrings(k)
  BY BinaryPacks DEF PackingLaws
<1>2. \A j \in 1 .. k : s[j] = IF k - j \in a THEN 1 ELSE 0
  BY DEF Bits
<1>3. Degree \in Nat /\ a \in SUBSET (0 .. Degree - 1)
  BY IrreducibleIs DEF Elements
<1> HIDE DEF s
<1>4. ASSUME NEW x \in FromBits(s) PROVE x \in a
  <2>1. PICK j \in 1 .. k : s[j] = 1 /\ x = k - j
    BY <1>1, FromBitsHas
  <2> QED BY <1>2, <2>1
<1>5. ASSUME NEW x \in a PROVE x \in FromBits(s)
  <2>1. x \in 0 .. Degree - 1 /\ k - x \in 1 .. k /\ k - (k - x) = x
    BY <1>3
  <2>2. s[k - x] = 1
    BY <1>2, <2>1
  <2> QED BY <1>1, <2>1, <2>2, FromBitsHas
<1>6. FromBits(s) = a
  BY <1>4, <1>5
<1> QED BY <1>6 DEF s

(* ... and an element keeps as many bits as the degree, or fewer.           *)
LEMMA BinaryNarrow ==
  ASSUME NEW k \in Nat, k <= Degree
  PROVE  Narrow(k)
<1> SUFFICES ASSUME NEW s \in BitStrings(k) PROVE Bits(FromBits(s), k) = s
  BY DEF Narrow
<1> DEFINE a == FromBits(s)
           t == Bits(a, k)
<1>1. a \in Elements
  BY BinaryPacks DEF PackingLaws
<1>2. t \in BitStrings(k)
  BY <1>1, BinaryPacks DEF PackingLaws
<1>3. \A j \in 1 .. k : t[j] = IF k - j \in a THEN 1 ELSE 0
  BY DEF Bits
<1> HIDE DEF t
<1>4. ASSUME NEW j \in 1 .. k PROVE t[j] = s[j]
  <2>1. k - j \in 0 .. Degree - 1
    BY IrreducibleIs
  <2>2. k - j \in a <=> s[j] = 1
    <3>1. ASSUME NEW i \in 1 .. k, k - j = k - i PROVE i = j
      BY <3>1
    <3> QED BY <2>1, <3>1, FromBitsHas
  <2>3. s[j] \in {0, 1}
    BY DEF BitStrings
  <2> QED BY <1>3, <2>2, <2>3
<1> HIDE DEF a
<1>5. t = s
  BY <1>2, <1>4, BitStringsEqual
<1> QED BY <1>5 DEF t, a

(* Zeros are read as zero.                                                  *)
LEMMA FromZeros ==
  ASSUME NEW k \in Nat
  PROVE  FromBits(Zeros(k)) = Zero
<1>1. Zeros(k) \in BitStrings(k) /\ \A j \in 1 .. k : Zeros(k)[j] # 1
  BY DEF Zeros, BitStrings
<1>2. \A x : x \notin FromBits(Zeros(k))
  BY <1>1, FromBitsHas
<1> QED BY <1>2 DEF Zero

(* The sizes fit one another.                                               *)
LEMMA RsSizes ==
  /\ ElementsPerChunk \in Nat \ {0}
  /\ messageBitsPerElement \in Nat \ {0} /\ networkBitsPerElement \in Nat \ {0}
  /\ ByteBits * MessageChunkSize \in Nat \ {0}
  /\ ElementsPerChunk * messageBitsPerElement = ByteBits * MessageChunkSize
  /\ Narrow(messageBitsPerElement) /\ Wide(networkBitsPerElement)
  /\ FromBits(Zeros(networkBitsPerElement)) = Zero
<1> DEFINE e == ElementsPerChunk
           mb == messageBitsPerElement
           nb == networkBitsPerElement
           m == ByteBits * MessageChunkSize
           x == ByteBits * NetworkChunkSize
<1>1. /\ e \in Nat \ {0} /\ ByteBits \in Nat \ {0} /\ MessageChunkSize \in Nat \ {0}
      /\ NetworkChunkSize \in Nat \ {0}
  BY RsConfigAssumption
<1>2. m \in Nat \ {0} /\ m % e = 0 /\ mb = m \div e /\ mb <= Degree
  BY <1>1, RsConfigAssumption DEF messageBitsPerElement, BitsPerDataElement
<1>3. x \in Nat \ {0} /\ nb = x \div e /\ nb >= Degree
  BY <1>1, RsConfigAssumption DEF networkBitsPerElement, BitsPerElement
<1>4. Degree \in Nat \ {0}
  BY IrreducibleIs
<1> HIDE DEF e, mb, nb, m, x
<1>5. mb \in Int /\ m = e * mb
  <2>1. m \div e \in Int /\ m = e * (m \div e) + (m % e)
    BY <1>1, <1>2, ModOf
  <2> DEFINE q == m \div e
  <2>2. q \in Int /\ m = e * q + 0 /\ mb = q
    BY <1>2, <2>1
  <2> HIDE DEF q
  <2> QED BY <1>1, <2>2
<1>6. mb \in Nat \ {0}
  <2>1. CASE mb <= 0
    <3>1. e * (0 - mb) >= 0 /\ e * (0 - mb) = 0 - e * mb
      <4>1. 0 - mb \in Nat
        BY <1>5, <2>1
      <4> QED BY <1>1, <1>5, <4>1
    <3> QED BY <1>2, <1>5, <3>1
  <2> QED BY <1>5, <2>1
<1>7. nb \in Nat \ {0}
  <2>1. x \div e \in Int
    BY <1>1, <1>3, ModOf
  <2> QED BY <1>3, <1>4, <2>1
<1>8. Narrow(mb)
  BY <1>2, <1>6, BinaryNarrow
<1>9. Wide(nb) /\ FromBits(Zeros(nb)) = Zero
  BY <1>3, <1>7, BinaryWide, FromZeros
<1> QED BY <1>1, <1>2, <1>5, <1>6, <1>7, <1>8, <1>9 DEF e, mb, nb, m

-----------------------------------------------------------------------------
(* The generator matrix.                                                    *)

(* The recursive function Powers has the powers, because a function that    *)
(* satisfies its equation exists.                                           *)
LEMMA PowersAre ==
  ASSUME NEW n \in Nat \ {0}, NEW point \in Elements
  PROVE  /\ Powers(point, n) \in Vectors(n)
         /\ Powers(point, n)[1] = One
         /\ \A j \in 1 .. n - 1 : Powers(point, n)[j + 1] = Mul(Powers(point, n)[j], point)
<1> DEFINE m == n - 1
           H == [v \in Elements |-> [k \in 1 .. m |-> Mul(v, point)]]
           E(f) == [i \in 1 .. n |-> IF i = 1 THEN One ELSE Mul(f[i - 1], point)]
           it == CHOOSE f : f = E(f)
<1>1. m \in Nat /\ n \in Nat /\ 1 \in 1 .. n
      /\ (\A i \in 1 .. n : i - 1 \in 0 .. m /\ (i # 1 => i - 1 \in 1 .. m /\ (i - 1) - 1 \in 0 .. m))
  OBVIOUS
<1>2. One \in Elements
  BY ElementMulOne
<1>3. \A v \in Elements, k \in 1 .. m : H[v][k] = Mul(v, point) /\ H[v][k] \in Elements
  BY MulIs
<1> HIDE DEF m, H
<1>4. PICK h \in [0 .. m -> Elements] : History(h, m, One, H)
  <2>1. ClosedUnder(H, Elements, m)
    BY <1>3 DEF ClosedUnder
  <2> QED BY <1>1, <1>2, <2>1, BoundedRecursion
<1> DEFINE g == [i \in 1 .. n |-> h[i - 1]]
<1>5. ASSUME NEW i \in 1 .. n PROVE g[i] = IF i = 1 THEN One ELSE Mul(g[i - 1], point)
  <2>1. CASE i = 1
    <3>1. i - 1 = 0
      BY <2>1
    <3> QED BY <1>4, <2>1, <3>1 DEF History
  <2>2. CASE i # 1
    <3>1. i - 1 \in 1 .. m /\ (i - 1) - 1 \in 0 .. m /\ i - 1 \in 1 .. n
      BY <1>1, <2>2
    <3>2. h[i - 1] = H[h[(i - 1) - 1]][i - 1]
      BY <1>4, <3>1 DEF History
    <3>3. h[(i - 1) - 1] \in Elements
      BY <3>1
    <3>4. h[i - 1] = Mul(h[(i - 1) - 1], point)
      BY <1>3, <3>1, <3>2, <3>3
    <3> QED BY <2>2, <3>1, <3>4
  <2> QED BY <2>1, <2>2
<1>6. g = E(g)
  BY <1>5
<1>7. it = E(it)
  <2> HIDE DEF E, g
  <2> QED BY <1>6
<1>8. Powers(point, n) = it
  BY DEF Powers
<1> HIDE DEF it
<1>9. it = [i \in 1 .. n |-> it[i]] /\ it[1] = One
  BY <1>1, <1>7
<1>10. ASSUME NEW j \in 1 .. n - 1 PROVE it[j + 1] = Mul(it[j], point)
  <2>1. j + 1 \in 1 .. n /\ j + 1 # 1 /\ (j + 1) - 1 = j
    BY <1>1
  <2>2. it[j + 1] = Mul(it[(j + 1) - 1], point)
    BY <1>7, <2>1
  <2> QED BY <2>1, <2>2
<1> DEFINE T == {k \in 0 .. m : it[k + 1] \in Elements}
<1>11. 0 \in T
  <2>1. 0 + 1 = 1 /\ 0 \in 0 .. m
    BY <1>1
  <2> QED BY <1>2, <1>9, <2>1
<1>12. ASSUME NEW k \in 0 .. m - 1, k \in T PROVE k + 1 \in T
  <2>1. k + 1 \in 1 .. n - 1 /\ k + 1 \in 0 .. m
    BY <1>1 DEF m
  <2>2. it[(k + 1) + 1] = Mul(it[k + 1], point)
    BY <1>10, <2>1
  <2>3. it[k + 1] \in Elements
    BY <1>12
  <2> QED BY <2>1, <2>2, <2>3, MulIs
<1>13. 0 .. m \subseteq T
  <2> HIDE DEF T
  <2> QED BY <1>1, <1>11, <1>12, BoundedInduction
<1>14. ASSUME NEW i \in 1 .. n PROVE it[i] \in Elements
  <2>1. i - 1 \in 0 .. m
    BY <1>1
  <2>2. (i - 1) + 1 = i
    OBVIOUS
  <2>3. i - 1 \in T
    <3> HIDE DEF T
    <3> QED BY <1>13, <2>1
  <2>4. it[(i - 1) + 1] \in Elements
    BY <2>3
  <2> QED BY <2>2, <2>4
<1>15. it \in Vectors(n)
  BY <1>9, <1>14 DEF Vectors
<1> QED BY <1>8, <1>9, <1>10, <1>15

TotalChunks(c) == c + parityCount(c)
Points(c) == generateEvaluationPoints(TotalChunks(c))
VandermondeRows(c) == [i \in 1 .. TotalChunks(c) |-> Powers(Points(c)[i], c)]

Selected(A, index) == [i \in DOMAIN index |-> A[index[i]]]

(* So many different rows of a matrix. *)
Selections(c, n) == {index \in [1 .. c -> 1 .. n] : IsInjective(index)}

(* The rows are the powers of different points, ...                         *)
LEMMA VandermondeIs ==
  ASSUME NEW c \in 1 .. MaxChunkCount
  PROVE  /\ TotalChunks(c) \in Nat \ {0} /\ c \in Nat \ {0} /\ c < TotalChunks(c)
         /\ Points(c) \in Vectors(TotalChunks(c)) /\ Distinct(Points(c), TotalChunks(c))
         /\ VandermondeRows(c) \in Matrices(TotalChunks(c), c)
         /\ PowersOf(VandermondeRows(c), Points(c), TotalChunks(c), c)
<1> DEFINE n == TotalChunks(c)
           x == Points(c)
           V == VandermondeRows(c)
<1>1. c \in Nat \ {0} /\ parityCount(c) \in Nat \ {0}
  <2>1. c \in Nat \ {0}
    BY EvaluationPointsAssumption
  <2> QED BY <2>1, ParityPositive
<1>2. n \in Nat \ {0} /\ c < n
  BY <1>1 DEF TotalChunks
<1>3. PrimitiveElement \in Elements
  BY RsConfigAssumption
<1> HIDE DEF n
<1>4. x \in Vectors(n)
  BY <1>2, <1>3, PowersAre DEF Points, generateEvaluationPoints, n
<1>5. Distinct(x, n)
  <2>1. IsInjective(x)
    BY EvaluationPointsAssumption DEF Points, TotalChunks
  <2>2. DOMAIN x = 1 .. n
    BY <1>4 DEF Vectors
  <2> HIDE DEF x
  <2> QED BY <2>1, <2>2 DEF IsInjective, Distinct
<1> HIDE DEF x
<1>6. ASSUME NEW i \in 1 .. n
      PROVE  /\ Powers(x[i], c) \in Vectors(c) /\ Powers(x[i], c)[1] = One
             /\ \A j \in 1 .. c - 1 : Powers(x[i], c)[j + 1] = Mul(Powers(x[i], c)[j], x[i])
  <2>1. x[i] \in Elements
    BY <1>4 DEF Vectors
  <2> QED BY <1>1, <2>1, PowersAre
<1>7. V = [i \in 1 .. n |-> Powers(x[i], c)]
  BY DEF VandermondeRows, n, x
<1> HIDE DEF V
<1>8. V \in Matrices(n, c)
  BY <1>6, <1>7 DEF Matrices
<1>9. PowersOf(V, x, n, c)
  BY <1>6, <1>7 DEF PowersOf
<1> QED BY <1>1, <1>2, <1>4, <1>5, <1>8, <1>9 DEF V, x, n

(* Rows of a matrix.                                                        *)
LEMMA SelectedIs ==
  ASSUME NEW c \in Nat, NEW n \in Nat, NEW w \in Nat, NEW A \in Matrices(n, w),
         NEW index \in Selections(c, n)
  PROVE  /\ Selected(A, index) \in Matrices(c, w)
         /\ \A i \in 1 .. c : index[i] \in 1 .. n /\ Selected(A, index)[i] = A[index[i]]
BY DEF Selections, Selected, Matrices

(* ... so that any of them, as many as there are columns, are independent.  *)
LEMMA VandermondeSelected ==
  ASSUME NEW c \in 1 .. MaxChunkCount, NEW index \in Selections(c, TotalChunks(c))
  PROVE  Indep(Selected(VandermondeRows(c), index), c, c)
<1> DEFINE n == TotalChunks(c)
           x == Points(c)
           V == VandermondeRows(c)
           y == [i \in 1 .. c |-> x[index[i]]]
           A == Selected(V, index)
<1>1. /\ n \in Nat \ {0} /\ c \in Nat \ {0} /\ x \in Vectors(n) /\ Distinct(x, n)
      /\ V \in Matrices(n, c) /\ PowersOf(V, x, n, c)
  BY VandermondeIs
<1> HIDE DEF n, x, V
<1>2. index \in Selections(c, n) /\ c \in Nat /\ n \in Nat
  BY <1>1 DEF n
<1>3. A \in Matrices(c, c) /\ \A i \in 1 .. c : index[i] \in 1 .. n /\ A[i] = V[index[i]]
  BY <1>1, <1>2, SelectedIs
<1> HIDE DEF A
<1>4. y \in Vectors(c)
  BY <1>1, <1>3 DEF Vectors
<1>5. Distinct(y, c)
  <2>1. \A k, l \in 1 .. c : index[k] = index[l] => k = l
    BY <1>2 DEF Selections, IsInjective
  <2> QED BY <1>1, <1>3, <2>1 DEF Distinct
<1>6. PowersOf(A, y, c, c)
  BY <1>1, <1>3 DEF PowersOf
<1> HIDE DEF y
<1>7. Vandermonde(c)
  BY <1>1, BinaryIsField, VandermondeIndep
<1>8. Indep(A, c, c)
  BY <1>3, <1>4, <1>5, <1>6, <1>7 DEF Vandermonde
<1> QED BY <1>8 DEF A, V

-----------------------------------------------------------------------------
(* The first rows, inverted, make unit vectors of themselves; the rest of   *)
(* the matrix stays as independent as it was.                               *)

First(c) == [i \in 1 .. c |-> i]

(* The first rows are so many different ones.                               *)
LEMMA FirstSelects ==
  ASSUME NEW c \in Nat, NEW n \in Nat, c <= n
  PROVE  First(c) \in Selections(c, n)
<1>1. First(c) \in [1 .. c -> 1 .. n]
  BY DEF First
<1>2. \A k, l \in DOMAIN First(c) : First(c)[k] = First(c)[l] => k = l
  BY DEF First
<1> QED BY <1>1, <1>2 DEF Selections, IsInjective

LEMMA FirstRowsAre ==
  ASSUME NEW n \in Nat, NEW w \in Nat, NEW A \in Matrices(n, w), NEW c \in Nat \ {0}, c <= n
  PROVE  SubSeq(A, 1, c) = Selected(A, First(c))
<1>1. SubSeq(A, 1, c) = [i \in 1 .. c |-> A[i]]
  <2>1. \A i \in 1 .. c : 1 + i - 1 = i
    OBVIOUS
  <2>2. SubSeq(A, 1, c) = [i \in 1 .. 1 + c - 1 |-> A[1 + i - 1]]
    BY DEF SubSeq
  <2>3. 1 + c - 1 = c
    OBVIOUS
  <2> QED BY <2>1, <2>2, <2>3
<1>2. Selected(A, First(c)) = [i \in 1 .. c |-> A[i]]
  BY DEF Selected, First
<1> QED BY <1>1, <1>2

(* The matrix of a code: data chunks go as they are, and any so many rows   *)
(* are independent.                                                         *)
Systematic(M, c, n) ==
  /\ M \in Matrices(n, c)
  /\ \A i \in 1 .. c : M[i] = UnitVector(c, i)
  /\ \A index \in Selections(c, n) : Indep(Selected(M, index), c, c)

(* The encoding matrix of a message is systematic, and any so many of its   *)
(* rows as the message has data chunks are independent: no choice of chunks *)
(* is worse than another.                                                   *)
THEOREM EncodingMatrixIs ==
  ASSUME NEW c \in 1 .. MaxChunkCount
  PROVE  Systematic(EncodingMatrix[c], c, TotalChunks(c))
<1> DEFINE n == TotalChunks(c)
           V == VandermondeRows(c)
           top == Selected(V, First(c))
           W == InvertMatrix(top)
           M == EncodingMatrix[c]
<1>1. /\ n \in Nat \ {0} /\ c \in Nat \ {0} /\ c < n /\ V \in Matrices(n, c)
  BY VandermondeIs
<1>2. \A index \in Selections(c, n) : Indep(Selected(V, index), c, c)
  BY VandermondeSelected
<1>3. M = MatrixMultiply(V, InvertMatrix(SubSeq(V, 1, c)))
  BY DEF EncodingMatrix, generateEncodingMatrix, VandermondeRows, Points, TotalChunks
<1> HIDE DEF n, V
<1>4. c \in Nat /\ n \in Nat /\ c <= n
  BY <1>1
<1>5. First(c) \in Selections(c, n)
  BY <1>4, FirstSelects
<1>6. /\ top \in Matrices(c, c)
      /\ \A i \in 1 .. c : First(c)[i] \in 1 .. n /\ top[i] = V[First(c)[i]]
  BY <1>1, <1>4, <1>5, SelectedIs
<1>7. Indep(top, c, c)
  BY <1>2, <1>5
<1>8. M = MatrixMultiply(V, W)
  <2>1. SubSeq(V, 1, c) = top
    BY <1>1, <1>4, FirstRowsAre
  <2> QED BY <1>3, <2>1
<1> HIDE DEF top, M
<1>9. IsLinearlyIndependent(top)
  BY <1>1, <1>4, <1>6, <1>7, BinaryIsField, IndependenceDecided
<1>10. W \in Matrices(c, c) /\ \A i \in 1 .. c : Combination(W[i], top) = UnitVector(c, i)
  BY <1>1, <1>6, <1>9, BinaryIsField, InverseFound
<1> HIDE DEF W
<1>11. \A i \in 1 .. c : Combination(top[i], W) = UnitVector(c, i)
  BY <1>1, <1>6, <1>7, <1>10, BinaryIsField, RightInverse
<1>12. M \in Matrices(n, c) /\ \A i \in 1 .. n : M[i] = Combination(V[i], W)
  <2>1. DOMAIN V = 1 .. n /\ \A i \in 1 .. n : V[i] \in Vectors(c)
    BY <1>1 DEF Matrices
  <2>2. \A i \in 1 .. n : Combination(V[i], W) \in Vectors(c)
    BY <1>1, <1>4, <1>10, <2>1, BinaryIsField, CombinationIs
  <2>3. M = [i \in 1 .. n |-> Combination(V[i], W)]
    BY <1>8, <2>1 DEF MatrixMultiply
  <2> QED BY <2>2, <2>3 DEF Matrices
<1>13. ASSUME NEW i \in 1 .. c PROVE M[i] = UnitVector(c, i)
  <2>1. i \in 1 .. n /\ top[i] = V[i]
    BY <1>4, <1>6 DEF First
  <2> QED BY <1>11, <1>12, <2>1
<1>14. ASSUME NEW index \in Selections(c, n) PROVE Indep(Selected(M, index), c, c)
  <2> DEFINE A == Selected(V, index)
             B == Selected(M, index)
  <2>1. /\ A \in Matrices(c, c) /\ Indep(A, c, c)
        /\ \A i \in 1 .. c : index[i] \in 1 .. n /\ A[i] = V[index[i]]
    BY <1>1, <1>2, <1>4, SelectedIs
  <2>2. /\ B \in Matrices(c, c) /\ \A i \in 1 .. c : B[i] = M[index[i]]
    BY <1>4, <1>12, SelectedIs
  <2> HIDE DEF A, B
  <2>3. Indep(MatrixMultiply(A, W), c, c)
    BY <1>1, <1>6, <1>10, <2>1, BinaryIsField, ProductIndep
  <2>4. DOMAIN A = 1 .. c /\ B = [i \in 1 .. c |-> B[i]]
    BY <2>1, <2>2 DEF Matrices
  <2>5. B = MatrixMultiply(A, W)
    BY <1>12, <2>1, <2>2, <2>4 DEF MatrixMultiply
  <2> QED BY <2>3, <2>5 DEF B
<1> QED BY <1>12, <1>13, <1>14 DEF Systematic, M, n

-----------------------------------------------------------------------------
(* The chunks of a message.                                                 *)

Size == ByteBits * MessageChunkSize
PaddedSize == Padded(ElementsPerChunk, networkBitsPerElement)

(* The vectors of the data chunks, ... *)
DataVectors(message, c) ==
  [j \in 1 .. c |-> SplitBitsToFieldElements(Part(message, j, Size), messageBitsPerElement)]

(* ... and as a node that has the chunks reads them.                        *)
ReadVectors(message, c) ==
  [j \in 1 .. c |-> Pad(DataVectors(message, c)[j], ElementsPerChunk, PaddedSize)]

(* The bits of a data chunk are in its vector.                              *)
LEMMA DataVectorsAre ==
  ASSUME NEW c \in Nat \ {0}, NEW message \in BitStrings(c * Size)
  PROVE  /\ DataVectors(message, c) \in Matrices(c, ElementsPerChunk)
         /\ \A j \in 1 .. c :
              /\ Part(message, j, Size) \in BitStrings(Size)
              /\ \A k \in 1 .. ElementsPerChunk :
                   DataVectors(message, c)[j][k]
                     = FromBits(Part(Part(message, j, Size), k, messageBitsPerElement))
<1> DEFINE e == ElementsPerChunk
           mb == messageBitsPerElement
           D == DataVectors(message, c)
<1>1. Size \in Nat \ {0} /\ e \in Nat \ {0} /\ mb \in Nat \ {0} /\ e * mb = Size
  BY RsSizes DEF Size
<1>2. c * Size \in Nat /\ c * Size <= c * Size /\ c \in Nat
  <2> DEFINE p == c * Size
  <2>1. p \in Nat /\ c \in Nat
    BY <1>1
  <2> HIDE DEF p
  <2>2. p <= p
    BY <2>1
  <2> QED BY <2>1, <2>2 DEF p
<1> HIDE DEF e, mb
<1>3. ASSUME NEW j \in 1 .. c PROVE Part(message, j, Size) \in BitStrings(Size)
  BY <1>1, <1>2, PartIs DEF IsPart
<1>4. ASSUME NEW j \in 1 .. c
      PROVE  /\ D[j] \in Vectors(e)
             /\ \A k \in 1 .. e : D[j][k] = FromBits(Part(Part(message, j, Size), k, mb))
  <2> DEFINE s == Part(message, j, Size)
  <2>1. s \in BitStrings(Size)
    BY <1>3
  <2>2. D[j] = SplitBitsToFieldElements(s, mb)
    BY DEF DataVectors, mb
  <2> HIDE DEF s, D
  <2>3. e * mb <= Size /\ Size < e * mb + mb
    BY <1>1
  <2>4. e \in Nat /\ Size \in Nat
    BY <1>1
  <2>5. /\ SplitBitsToFieldElements(s, mb) \in Vectors(e)
        /\ \A k \in 1 .. e : SplitBitsToFieldElements(s, mb)[k] = FromBits(Part(s, k, mb))
    BY <1>1, <2>1, <2>3, <2>4, BinaryPacks, SplitIs
  <2> QED BY <2>2, <2>5 DEF s
<1>5. D = [j \in 1 .. c |-> D[j]]
  BY DEF DataVectors
<1> HIDE DEF D
<1>6. D \in Matrices(c, e)
  BY <1>4, <1>5 DEF Matrices
<1> QED BY <1>3, <1>4, <1>6 DEF D, e, mb

(* What fills up the last byte may be read as elements too.                 *)
LEMMA PaddedSizeIs ==
  PaddedSize \in Nat /\ ElementsPerChunk <= PaddedSize
BY RsSizes, BinaryPacks, PaddedIs DEF PaddedSize

(* What a node reads of the bytes of a vector. *)
LEMMA ReadIs ==
  ASSUME NEW v \in Vectors(ElementsPerChunk)
  PROVE  /\ ChunkElements(FieldElementsToBytes(v, networkBitsPerElement))
              = Pad(v, ElementsPerChunk, PaddedSize)
         /\ SubSeq(Pad(v, ElementsPerChunk, PaddedSize), 1, ElementsPerChunk) = v
<1> DEFINE e == ElementsPerChunk
           u == PaddedSize
           p == Pad(v, e, u)
<1>1. e \in Nat \ {0} /\ u \in Nat /\ e <= u /\ e \in Nat
  BY RsSizes, PaddedSizeIs
<1>2. ChunkElements(FieldElementsToBytes(v, networkBitsPerElement)) = p
  BY RsSizes, BinaryIsField, BinaryPacks, SplitOfPackPadded DEF ChunkElements, PaddedSize
<1>3. \A j \in 1 .. e : p[j] = v[j]
  <2>1. v \in Vectors(e)
    OBVIOUS
  <2> HIDE DEF e, u
  <2> QED BY <1>1, <2>1, BinaryIsField, PadIs
<1>4. v = [j \in 1 .. e |-> v[j]]
  BY DEF Vectors
<1>7. v \in Vectors(e)
  OBVIOUS
<1> HIDE DEF e, u, p
<1>5. SubSeq(p, 1, e) = [j \in 1 .. e |-> p[j]]
  <2>0. \A i \in 1 .. e : p[i] \in Elements
    BY <1>3, <1>7 DEF Vectors
  <2>1. \A i \in 1 .. e : 1 + i - 1 = i
    OBVIOUS
  <2>2. /\ SubSeq(p, 1, e) \in Seq(Elements) /\ Len(SubSeq(p, 1, e)) = e - 1 + 1
        /\ \A i \in 1 .. e - 1 + 1 : SubSeq(p, 1, e)[i] = p[1 + i - 1]
    BY <1>1, <2>0, SubSeqProperties
  <2>3. e - 1 + 1 = e
    BY <1>1
  <2>4. SubSeq(p, 1, e) \in Seq(Elements) /\ Len(SubSeq(p, 1, e)) = e
        /\ \A i \in 1 .. e : SubSeq(p, 1, e)[i] = p[i]
    BY <2>1, <2>2, <2>3
  <2>5. SubSeq(p, 1, e) \in [1 .. e -> Elements]
    BY ONLY <1>1, <2>4, SeqOfLen
  <2> QED BY <2>4, <2>5
<1>6. SubSeq(p, 1, e) = v
  BY <1>3, <1>4, <1>5
<1> QED BY <1>2, <1>6 DEF p, e, u

(* Every chunk, data or parity, is its row of the matrix times the vectors. *)
LEMMA ChunksAre ==
  ASSUME NEW c \in 1 .. MaxChunkCount, NEW message \in BitStrings(c * Size)
  PROVE  /\ GenerateThenAddChunks(message).chunkCount = c
         /\ DOMAIN GenerateThenAddChunks(message).chunks = 0 .. TotalChunks(c) - 1
         /\ \A i \in 0 .. TotalChunks(c) - 1 :
              GenerateThenAddChunks(message).chunks[i]
                = FieldElementsToBytes(Combination(EncodingMatrix[c][i + 1], DataVectors(message, c)),
                                       networkBitsPerElement)
<1> DEFINE n == TotalChunks(c)
           nb == networkBitsPerElement
           M == EncodingMatrix[c]
           D == DataVectors(message, c)
           e == ElementsPerChunk
           network(i) == FieldElementsToBytes(
                           SplitBitsToFieldElements(SubSeq(message, i * Size + 1, (i + 1) * Size),
                                                    messageBitsPerElement), nb)
           V == [j \in 1 .. c |-> SubSeq(ChunkElements(network(j - 1)), 1, e)]
           g == GenerateThenAddChunks(message)
<1>1. /\ n \in Nat \ {0} /\ c \in Nat \ {0} /\ c < n /\ c \in Nat
  BY VandermondeIs
<1>2. Size \in Nat \ {0} /\ e \in Nat \ {0}
  BY RsSizes DEF Size
<1>3. Len(message) \div Size = c
  <2>1. Size * c + 0 = c * Size /\ c * Size \in Nat /\ 0 \in 0 .. Size - 1
    BY <1>1, <1>2
  <2>2. Len(message) = c * Size
    BY <2>1, LenOf DEF BitStrings
  <2>3. (Size * c + 0) \div Size = c
    BY <1>1, <1>2, <2>1, DivUnique
  <2> QED BY <2>1, <2>2, <2>3
<1>4. g = [chunkCount |-> c,
           chunks |-> [i \in 0 .. n - 1 |->
                         IF i < c THEN network(i)
                         ELSE FieldElementsToBytes(Combination(M[i + 1], V), nb)]]
  <2> DEFINE size == ByteBits * MessageChunkSize
             q == Len(message) \div size
  <2>1. q = c
    BY <1>3 DEF Size
  <2>2. g = [chunkCount |-> q,
             chunks |-> [i \in Indices(q) |->
                IF i < q THEN network(i)
                ELSE FieldElementsToBytes(
                       Combination(EncodingMatrix[q][i + 1],
                                   [j \in 1 .. q |-> SubSeq(ChunkElements(network(j - 1)), 1, e)]), nb)]]
    BY DEF GenerateThenAddChunks, Size
  <2>3. Indices(c) = 0 .. n - 1
    <3>1. parityCount(c) \in Nat
      BY <1>1, ParityPositive
    <3>2. c + parityCount(c) - 1 = (c + parityCount(c)) - 1
      BY <1>1, <3>1
    <3> QED BY <3>2 DEF Indices, TotalChunks
  <2> HIDE DEF q, g, network, n, M
  <2> QED BY <2>1, <2>2, <2>3 DEF M
<1>5. D \in Matrices(c, e)
  BY <1>1, DataVectorsAre
<1>6. Systematic(M, c, n)
  BY EncodingMatrixIs
<1>7. ASSUME NEW j \in 1 .. c
      PROVE  network(j - 1) = FieldElementsToBytes(D[j], nb)
  <2>1. (j - 1) + 1 = j
    OBVIOUS
  <2>2. SubSeq(message, (j - 1) * Size + 1, ((j - 1) + 1) * Size) = Part(message, j, Size)
    BY <2>1 DEF Part
  <2> QED BY <2>2 DEF DataVectors
<1>8. V = D
  <2>1. ASSUME NEW j \in 1 .. c PROVE SubSeq(ChunkElements(network(j - 1)), 1, e) = D[j]
    <3>1. D[j] \in Vectors(e)
      BY <1>5 DEF Matrices
    <3> HIDE DEF network, D
    <3> QED BY <1>7, <3>1, ReadIs
  <2>2. D = [j \in 1 .. c |-> D[j]]
    BY <1>5 DEF Matrices
  <2> HIDE DEF network, D
  <2> QED BY <2>1, <2>2
<1> HIDE DEF g, V, n, M, D, network, nb
<1>9. g.chunkCount = c /\ DOMAIN g.chunks = 0 .. n - 1
  BY <1>4
<1>10. ASSUME NEW i \in 0 .. n - 1
       PROVE  g.chunks[i] = FieldElementsToBytes(Combination(M[i + 1], D), nb)
  <2>1. CASE i < c
    <3>1. i + 1 \in 1 .. c /\ (i + 1) - 1 = i
      BY <1>1, <2>1
    <3>2. M[i + 1] = UnitVector(c, i + 1)
      BY <1>6, <3>1 DEF Systematic
    <3>3. Combination(UnitVector(c, i + 1), D) = D[i + 1]
      BY <1>1, <1>2, <1>5, <3>1, BinaryIsField, CombinationRow
    <3>4. g.chunks[i] = network(i)
      BY <1>4, <2>1
    <3>5. network((i + 1) - 1) = FieldElementsToBytes(D[i + 1], nb)
      BY <1>7, <3>1
    <3> QED BY <3>1, <3>2, <3>3, <3>4, <3>5
  <2>2. CASE ~ (i < c)
    BY <1>4, <1>8, <2>2
  <2> QED BY <2>1, <2>2
<1> QED BY <1>9, <1>10 DEF g, n, M, D, nb

-----------------------------------------------------------------------------
(* What a node makes of the chunks.                                         *)

(* Reading is linear.                                                       *)
LEMMA ReadVectorsAre ==
  ASSUME NEW c \in Nat \ {0}, NEW message \in BitStrings(c * Size)
  PROVE  /\ ReadVectors(message, c) \in Matrices(c, PaddedSize)
         /\ ReadVectors(message, c)
              = Image([v \in Vectors(ElementsPerChunk) |-> Pad(v, ElementsPerChunk, PaddedSize)],
                      DataVectors(message, c))
<1> DEFINE e == ElementsPerChunk
           u == PaddedSize
           L == [v \in Vectors(e) |-> Pad(v, e, u)]
           D == DataVectors(message, c)
           P == ReadVectors(message, c)
<1>1. e \in Nat /\ u \in Nat /\ e <= u /\ c \in Nat
  BY RsSizes, PaddedSizeIs
<1>2. D \in Matrices(c, e)
  BY DataVectorsAre
<1>3. P = [j \in 1 .. c |-> Pad(D[j], e, u)]
  BY DEF ReadVectors
<1> HIDE DEF e, u, D, P
<1>4. DOMAIN D = 1 .. c /\ \A j \in 1 .. c : D[j] \in Vectors(e)
  BY <1>2 DEF Matrices
<1>5. P = Image(L, D)
  BY <1>3, <1>4 DEF Image
<1>6. Linear(L, e, u)
  <2> HIDE DEF L
  <2> QED BY <1>1, BinaryIsField, PadLinear DEF L
<1>7. P \in Matrices(c, u)
  <2> HIDE DEF L
  <2> QED BY <1>1, <1>2, <1>5, <1>6, ImageIs
<1> QED BY <1>5, <1>7 DEF P, D, u, e

(* The bytes of what was read, each chunk cut to its size, are the message. *)
LEMMA MessageBack ==
  ASSUME NEW c \in Nat \ {0}, NEW message \in BitStrings(c * Size)
  PROVE  Message(ReadVectors(message, c)) = message
<1> DEFINE e == ElementsPerChunk
           u == PaddedSize
           mb == messageBitsPerElement
           D == DataVectors(message, c)
           P == ReadVectors(message, c)
<1>1. /\ e \in Nat \ {0} /\ u \in Nat /\ e <= u /\ mb \in Nat \ {0} /\ Narrow(mb)
      /\ e * mb = Size /\ Size \in Nat \ {0} /\ c \in Nat /\ e \in Nat
  BY RsSizes, PaddedSizeIs DEF Size
<1>2. /\ D \in Matrices(c, e)
      /\ \A j \in 1 .. c :
           /\ Part(message, j, Size) \in BitStrings(Size)
           /\ \A k \in 1 .. e : D[j][k] = FromBits(Part(Part(message, j, Size), k, mb))
  BY DataVectorsAre
<1>3. P \in Matrices(c, u)
  BY ReadVectorsAre
<1>4. \A j \in 1 .. c : P[j] = Pad(D[j], e, u)
  BY DEF ReadVectors
<1>5. Message(P) = FlattenSeq([i \in DOMAIN P |-> SubSeq(FieldElementsToBytes(P[i], mb), 1, Size)])
  BY DEF Message, Size
<1> HIDE DEF e, u, mb, D, P
<1>6. ASSUME NEW j \in 1 .. c
      PROVE  SubSeq(FieldElementsToBytes(P[j], mb), 1, Size) = Part(message, j, Size)
  <2> DEFINE v == P[j]
             s == Part(message, j, Size)
  <2>1. v \in Vectors(u) /\ D[j] \in Vectors(e)
    BY <1>2, <1>3 DEF Matrices
  <2>2. s \in BitStrings(e * mb)
    BY <1>1, <1>2
  <2>3. \A k \in 1 .. e : v[k] = D[j][k]
    BY <1>1, <1>4, <2>1, BinaryIsField, PadIs
  <2>4. \A k \in 1 .. e : v[k] = FromBits(Part(s, k, mb))
    BY <1>2, <2>3
  <2> HIDE DEF v, s
  <2>5. SubSeq(FieldElementsToBytes(v, mb), 1, e * mb) = s
    BY <1>1, <2>1, <2>2, <2>4, BinaryPacks, CutOfPack
  <2> QED BY <1>1, <2>5 DEF v, s
<1>7. DOMAIN P = 1 .. c
  BY <1>3 DEF Matrices
<1>8. Message(P) = FlattenSeq([i \in 1 .. c |-> Part(message, i, Size)])
  BY <1>5, <1>6, <1>7
<1>9. FlattenSeq([i \in 1 .. c |-> Part(message, i, Size)]) = message
  BY <1>1, JoinParts
<1> QED BY <1>8, <1>9 DEF P

(* A chunk that is read is its row of the matrix times what is read of the  *)
(* data chunks.                                                             *)
LEMMA ReadChunks ==
  ASSUME NEW c \in 1 .. MaxChunkCount, NEW message \in BitStrings(c * Size),
         NEW i \in 0 .. TotalChunks(c) - 1
  PROVE  ChunkElements(GenerateThenAddChunks(message).chunks[i])
           = Combination(EncodingMatrix[c][i + 1], ReadVectors(message, c))
<1> DEFINE e == ElementsPerChunk
           u == PaddedSize
           L == [x \in Vectors(e) |-> Pad(x, e, u)]
           D == DataVectors(message, c)
           P == ReadVectors(message, c)
           n == TotalChunks(c)
           f == EncodingMatrix[c][i + 1]
           v == Combination(f, D)
<1>1. /\ e \in Nat \ {0} /\ e \in Nat /\ u \in Nat /\ e <= u /\ c \in Nat \ {0} /\ c \in Nat
      /\ n \in Nat
  BY RsSizes, PaddedSizeIs, VandermondeIs
<1>2. D \in Matrices(c, e) /\ P = Image(L, D)
  BY <1>1, DataVectorsAre, ReadVectorsAre
<1>3. f \in Vectors(c)
  <2>1. EncodingMatrix[c] \in Matrices(n, c)
    BY EncodingMatrixIs DEF Systematic
  <2>2. i + 1 \in 1 .. n
    BY <1>1
  <2> HIDE DEF n
  <2> QED BY <2>1, <2>2 DEF Matrices
<1>4. GenerateThenAddChunks(message).chunks[i] = FieldElementsToBytes(v, networkBitsPerElement)
  BY ChunksAre
<1> HIDE DEF D, f
<1>5. v \in Vectors(e)
  <2> HIDE DEF e
  <2> QED BY <1>1, <1>2, <1>3, BinaryIsField, CombinationIs
<1>6. ChunkElements(FieldElementsToBytes(v, networkBitsPerElement)) = Pad(v, e, u)
  <2> HIDE DEF v
  <2> QED BY <1>5, ReadIs
<1>7. Linear(L, e, u)
  <2> HIDE DEF e, u
  <2> QED BY <1>1, BinaryIsField, PadLinear
<1>8. L[v] = Combination(f, Image(L, D))
  <2> HIDE DEF e, u, L
  <2> QED BY <1>1, <1>2, <1>3, <1>7, BinaryIsField, LinearCombination
<1>9. L[v] = Pad(v, e, u)
  BY <1>5
<1> QED BY <1>2, <1>4, <1>6, <1>8, <1>9 DEF f

(* An entry with chunks of a message and no others.                         *)
KeepsChunksOf(e, message, c) ==
  /\ e.chunkCount = c
  /\ \A i \in DOMAIN e.chunks : /\ i \in 0 .. TotalChunks(c) - 1
                                /\ e.chunks[i] = GenerateThenAddChunks(message).chunks[i]

(* As many of them as there are data chunks, whichever and in whichever     *)
(* order, give the message.                                                 *)
THEOREM AnyOrderDecodes ==
  ASSUME NEW c \in 1 .. MaxChunkCount, NEW message \in BitStrings(c * Size),
         NEW e, KeepsChunksOf(e, message, c),
         NEW index \in [1 .. c -> DOMAIN e.chunks], IsInjective(index)
  PROVE  Decoded(e, index) = message
<1> DEFINE n == TotalChunks(c)
           M == EncodingMatrix[c]
           P == ReadVectors(message, c)
           rows == [i \in DOMAIN index |-> M[index[i] + 1]]
           R == [i \in DOMAIN index |-> ChunkElements(e.chunks[index[i]])]
           sel == [i \in 1 .. c |-> index[i] + 1]
           W == InvertMatrix(rows)
<1>1. n \in Nat \ {0} /\ n \in Nat /\ c \in Nat \ {0} /\ c \in Nat /\ PaddedSize \in Nat
  BY VandermondeIs, PaddedSizeIs
<1>2. M \in Matrices(n, c) /\ \A x \in Selections(c, n) : Indep(Selected(M, x), c, c)
  BY EncodingMatrixIs DEF Systematic
<1>3. P \in Matrices(c, PaddedSize)
  BY <1>1, ReadVectorsAre
<1>4. /\ DOMAIN index = 1 .. c
      /\ \A i \in 1 .. c : index[i] \in DOMAIN e.chunks /\ index[i] \in 0 .. n - 1
  BY DEF KeepsChunksOf
<1>5. sel \in Selections(c, n)
  <2>1. sel \in [1 .. c -> 1 .. n]
    <3>1. ASSUME NEW i \in 1 .. c PROVE index[i] + 1 \in 1 .. n
      <4>1. index[i] \in 0 .. n - 1
        BY <1>4
      <4> HIDE DEF n
      <4> QED BY <1>1, <4>1
    <3> HIDE DEF n
    <3> QED BY <3>1
  <2>2. ASSUME NEW k \in 1 .. c, NEW l \in 1 .. c, sel[k] = sel[l] PROVE k = l
    <3>1. index[k] + 1 = index[l] + 1 /\ index[k] \in Int /\ index[l] \in Int
      BY <1>1, <1>4, <2>2
    <3>2. index[k] = index[l]
      BY <3>1
    <3> QED BY <1>4, <3>2 DEF IsInjective
  <2>3. DOMAIN sel = 1 .. c
    OBVIOUS
  <2> HIDE DEF sel, n
  <2> QED BY <2>1, <2>2, <2>3 DEF Selections, IsInjective
<1>6. rows = Selected(M, sel)
  BY <1>4 DEF Selected
<1>7. \A i \in 1 .. c : R[i] = Combination(M[sel[i]], P)
  <2>1. ASSUME NEW i \in 1 .. c PROVE R[i] = Combination(M[sel[i]], P)
    <3> DEFINE j == index[i]
    <3>1. j \in 0 .. n - 1 /\ e.chunks[j] = GenerateThenAddChunks(message).chunks[j]
      BY <1>4 DEF KeepsChunksOf
    <3>2. R[i] = ChunkElements(e.chunks[j]) /\ sel[i] = j + 1
      BY <1>4
    <3> HIDE DEF j, R, sel
    <3>3. ChunkElements(GenerateThenAddChunks(message).chunks[j]) = Combination(M[j + 1], P)
      BY <3>1, ReadChunks
    <3> QED BY <3>1, <3>2, <3>3
  <2> QED BY <2>1
<1>8. Decoded(e, index) = Message(MatrixMultiply(W, R))
  <2>1. e.chunkCount = c
    BY DEF KeepsChunksOf
  <2> QED BY <2>1 DEF Decoded
<1>9. DOMAIN R = 1 .. c
  BY <1>4
<1> HIDE DEF n, M, P, R, sel, rows
<1>10. /\ rows \in Matrices(c, c) /\ Indep(rows, c, c)
       /\ \A i \in 1 .. c : sel[i] \in 1 .. n /\ rows[i] = M[sel[i]]
  BY <1>1, <1>2, <1>5, <1>6, SelectedIs
<1>11. W \in Matrices(c, c) /\ \A i \in 1 .. c : Combination(W[i], rows) = UnitVector(c, i)
  <2>1. IsLinearlyIndependent(rows)
    BY <1>1, <1>10, BinaryIsField, IndependenceDecided
  <2> QED BY <1>1, <1>10, <2>1, BinaryIsField, InverseFound
<1> HIDE DEF W
<1>12. R = MatrixMultiply(rows, P)
  <2>1. DOMAIN rows = 1 .. c /\ R = [i \in 1 .. c |-> R[i]]
    BY <1>9, <1>10 DEF Matrices, R
  <2> QED BY <1>7, <1>10, <2>1 DEF MatrixMultiply
<1>13. ASSUME NEW i \in 1 .. c PROVE Combination(W[i], R) = P[i]
  <2>1. W[i] \in Vectors(c)
    BY <1>11 DEF Matrices
  <2>2. Combination(Combination(W[i], rows), P) = Combination(W[i], R)
    BY <1>1, <1>3, <1>10, <1>12, <2>1, BinaryIsField, CombinationTwice
  <2>3. Combination(UnitVector(c, i), P) = P[i]
    BY <1>1, <1>3, BinaryIsField, CombinationRow
  <2> QED BY <1>11, <2>2, <2>3
<1>14. MatrixMultiply(W, R) = P
  <2>1. DOMAIN W = 1 .. c /\ P = [i \in 1 .. c |-> P[i]]
    BY <1>3, <1>11 DEF Matrices
  <2> QED BY <1>13, <2>1 DEF MatrixMultiply
<1>15. Message(P) = message
  BY <1>1, MessageBack DEF P
<1> QED BY <1>8, <1>14, <1>15

-----------------------------------------------------------------------------
(* What ReconstructMessage may return.                                      *)

(* A choice of that many is there, ...                                      *)
LEMMA SubsetOfSize ==
  ASSUME NEW S, IsFiniteSet(S), NEW k \in Nat, k <= Cardinality(S)
  PROVE  kSubset(k, S) # {}
<1> DEFINE n == Cardinality(S)
<1>1. n \in Nat
  BY FS_CardinalityType
<1>2. PICK b : b \in Bijection(1 .. n, S)
  <2>1. ExistsBijection(1 .. n, S)
    BY FS_CardinalityType
  <2> QED BY <2>1 DEF ExistsBijection
<1>3. k <= n
  OBVIOUS
<1> HIDE DEF n
<1>4. b \in [1 .. n -> S] /\ \A i, j \in 1 .. n : b[i] = b[j] => i = j
  <2>1. b \in [1 .. n -> S] /\ IsInjective(b)
    BY <1>2 DEF Bijection, Injection
  <2> QED BY <2>1 DEF IsInjective
<1>5. 1 .. k \subseteq 1 .. n
  BY <1>1, <1>3
<1> DEFINE s == {b[i] : i \in 1 .. k}
           f == [i \in 1 .. k |-> b[i]]
<1>6. f \in Bijection(1 .. k, s)
  <2>1. f \in [1 .. k -> s]
    OBVIOUS
  <2>2. \A i, j \in DOMAIN f : f[i] = f[j] => i = j
    BY <1>4, <1>5
  <2>3. \A x \in s : \E i \in 1 .. k : f[i] = x
    OBVIOUS
  <2> HIDE DEF f, s
  <2> QED BY <2>1, <2>2, <2>3 DEF Bijection, Injection, Surjection, IsInjective
<1>7. IsFiniteSet(1 .. k) /\ Cardinality(1 .. k) = k
  <2>1. 1 \in Int /\ k \in Int
    OBVIOUS
  <2>2. IsFiniteSet(1 .. k) /\ Cardinality(1 .. k) = IF 1 > k THEN 0 ELSE k - 1 + 1
    BY <2>1, FS_Interval
  <2> QED BY <2>2
<1>8. s \in SUBSET S
  BY <1>4, <1>5
<1> HIDE DEF f, s
<1>9. Cardinality(s) = k
  <2>1. ExistsBijection(1 .. k, s)
    BY <1>6 DEF ExistsBijection
  <2> QED BY <1>7, <2>1, FS_Bijection
<1> QED BY <1>8, <1>9 DEF kSubset

(* ... and an order for it.                                                 *)
LEMMA SetToSeqIs ==
  ASSUME NEW S, IsFiniteSet(S)
  PROVE  SetToSeq(S) \in [1 .. Cardinality(S) -> S] /\ IsInjective(SetToSeq(S))
<1>1. PICK b : b \in Bijection(1 .. Cardinality(S), S)
  <2>1. ExistsBijection(1 .. Cardinality(S), S)
    BY FS_CardinalityType
  <2> QED BY <2>1 DEF ExistsBijection
<1>2. b \in [1 .. Cardinality(S) -> S] /\ IsInjective(b)
  BY <1>1 DEF Bijection, Injection
<1> QED BY <1>2 DEF SetToSeq

(* From all the data chunks or from others, the answer is the message.      *)
LEMMA Reconstructs ==
  ASSUME NEW c \in 1 .. MaxChunkCount, NEW message \in BitStrings(c * Size),
         NEW e, KeepsChunksOf(e, message, c), Reconstructible(e)
  PROVE  ReconstructMessage(e) = {message}
<1> DEFINE n == TotalChunks(c)
           D == DOMAIN e.chunks
           M == EncodingMatrix[c]
           P == ReadVectors(message, c)
<1>1. /\ n \in Nat \ {0} /\ c \in Nat \ {0} /\ c < n /\ PaddedSize \in Nat /\ c \in Nat /\ n \in Nat
  BY VandermondeIs, PaddedSizeIs
<1>2. /\ e.chunkCount = c /\ D \subseteq 0 .. n - 1
      /\ \A i \in D : e.chunks[i] = GenerateThenAddChunks(message).chunks[i]
  BY DEF KeepsChunksOf
<1>3. c <= Cardinality(D)
  BY <1>2 DEF Reconstructible
<1>4. IsFiniteSet(D)
  <2>1. 0 \in Int /\ n - 1 \in Int
    BY <1>1
  <2>2. IsFiniteSet(0 .. n - 1)
    BY <2>1, FS_Interval
  <2> HIDE DEF n, D
  <2> QED BY <1>2, <2>2, FS_Subset
<1>5. CASE 0 .. c - 1 \subseteq D
  <2> DEFINE R == [i \in 1 .. c |-> ChunkElements(e.chunks[i - 1])]
  <2>1. ReconstructMessage(e) = {Message(R)}
    BY <1>2, <1>5 DEF ReconstructMessage
  <2>2. P \in Matrices(c, PaddedSize)
    BY <1>1, ReadVectorsAre
  <2>3. ASSUME NEW i \in 1 .. c PROVE R[i] = P[i]
    <3>1. i - 1 \in 0 .. c - 1 /\ (i - 1) + 1 = i
      BY <1>1
    <3>2. i - 1 \in D /\ i - 1 \in 0 .. n - 1
      BY <1>2, <1>5, <3>1
    <3>3. R[i] = ChunkElements(GenerateThenAddChunks(message).chunks[i - 1])
      BY <1>2, <3>2
    <3>4. ChunkElements(GenerateThenAddChunks(message).chunks[i - 1])
            = Combination(M[(i - 1) + 1], P)
      <4> DEFINE j == i - 1
      <4>1. j \in 0 .. n - 1
        BY <3>2
      <4> HIDE DEF j
      <4>2. ChunkElements(GenerateThenAddChunks(message).chunks[j]) = Combination(M[j + 1], P)
        BY <4>1, ReadChunks
      <4> QED BY <4>2 DEF j
    <3>5. M[i] = UnitVector(c, i)
      BY EncodingMatrixIs DEF Systematic
    <3> HIDE DEF R, P, M
    <3>6. Combination(UnitVector(c, i), P) = P[i]
      BY <1>1, <2>2, BinaryIsField, CombinationRow
    <3> QED BY <3>1, <3>3, <3>4, <3>5, <3>6
  <2>4. P = [i \in 1 .. c |-> P[i]]
    BY <2>2 DEF Matrices
  <2> HIDE DEF P
  <2>5. R = P
    BY <2>3, <2>4
  <2>6. Message(P) = message
    BY <1>1, MessageBack DEF P
  <2> QED BY <2>1, <2>5, <2>6
<1>6. CASE ~ (0 .. c - 1 \subseteq D)
  <2>1. ReconstructMessage(e) = {Decoded(e, SetToSeq(S)) : S \in kSubset(c, D)}
    BY <1>2, <1>6 DEF ReconstructMessage
  <2> HIDE DEF D
  <2>2. ASSUME NEW S \in kSubset(c, D) PROVE Decoded(e, SetToSeq(S)) = message
    <3>1. S \subseteq D /\ Cardinality(S) = c
      BY DEF kSubset
    <3>2. IsFiniteSet(S)
      BY <1>4, <3>1, FS_Subset
    <3> DEFINE index == SetToSeq(S)
    <3>3. index \in [1 .. c -> S] /\ IsInjective(index)
      BY <3>1, <3>2, SetToSeqIs
    <3> HIDE DEF index
    <3>4. index \in [1 .. c -> DOMAIN e.chunks]
      BY <3>1, <3>3 DEF D
    <3>5. Decoded(e, index) = message
      BY <3>3, <3>4, AnyOrderDecodes
    <3> QED BY <3>5 DEF index
  <2>3. kSubset(c, D) # {}
    BY <1>1, <1>3, <1>4, SubsetOfSize
  <2> QED BY <2>1, <2>2, <2>3
<1> QED BY <1>5, <1>6

-----------------------------------------------------------------------------
(* No node keeps anything but chunks of the message that was published.     *)
ContentInv ==
  published # None =>
    /\ CountOf(published) \in 1 .. MaxChunkCount
    /\ published \in BitStrings(CountOf(published) * Size)
    /\ \A n \in Nodes : \A i \in DOMAIN entry[n].chunks :
         entry[n].chunks[i] = GenerateThenAddChunks(published).chunks[i]

(* Initially nothing is published.                                          *)
LEMMA ContentStart == ASSUME Init PROVE ContentInv
BY DEF Init, ContentInv

(* A message is its chunks' bits. *)
LEMMA MessageIs ==
  ASSUME NEW message \in Seq({0, 1}) \ {<<>>}, Len(message) % (ByteBits * MessageChunkSize) = 0,
         Len(message) \div (ByteBits * MessageChunkSize) <= MaxChunkCount
  PROVE  /\ CountOf(message) \in 1 .. MaxChunkCount
         /\ message \in BitStrings(CountOf(message) * Size)
<1> DEFINE c == CountOf(message)
           length == Len(message)
<1>1. c \in Nat \ {0} /\ c <= MaxChunkCount
  BY CountPositive DEF CountOf
<1>2. c \in 1 .. MaxChunkCount
  <2>1. MaxChunkCount \in Nat
    BY EvaluationPointsAssumption
  <2> HIDE DEF c
  <2> QED BY <1>1, <2>1
<1>3. Size \in Nat \ {0}
  BY RsSizes DEF Size
<1>4. length \in Nat /\ length % Size = 0 /\ length \div Size = c
  BY DEF CountOf, Size
<1>5. length = Size * (length \div Size) + (length % Size)
  <2>1. length \in Int
    BY <1>4
  <2> HIDE DEF length
  <2> QED BY <1>3, <2>1, ModOf
<1>6. Size * (length \div Size) = c * Size /\ c * Size \in Nat
  <2> HIDE DEF c
  <2>1. Size * c = c * Size /\ c * Size \in Nat
    BY <1>1, <1>3
  <2> QED BY <1>4, <2>1
<1> DEFINE p == c * Size
<1>7. length = p /\ p \in Nat
  <2> HIDE DEF length, c
  <2> DEFINE q == Size * (length \div Size)
  <2>1. length = q + 0 /\ q = p /\ p \in Nat
    BY <1>4, <1>5, <1>6
  <2> HIDE DEF q, p
  <2> QED BY <2>1
<1>8. message \in Seq({0, 1}) /\ Len(message) = p
  BY <1>7
<1> HIDE DEF p
<1>9. message \in [1 .. p -> {0, 1}]
  BY ONLY <1>7, <1>8, SeqOfLen
<1> QED BY <1>2, <1>9 DEF p, BitStrings

(* Every step keeps it: Publish makes all chunks and Relay copies one.      *)
LEMMA ContentStep ==
  ASSUME GeneratorInv, DialInv, ChunkInv, ContentInv, [Next]_vars
  PROVE  ContentInv'
<1> DEFINE N == Nodes
<1>1. Nodes' = N /\ 0 \in N
  BY NextGenerates, SavedStays, ZeroIsNode
<1>2. entry = [n \in N |-> entry[n]]
  BY DEF ChunkInv
<1>3. ASSUME entry' = entry, published' = published PROVE ContentInv'
  BY <1>1, <1>3 DEF ContentInv
<1>4. CASE Publish
  <2>1. PICK message \in Messages(request.nodeCount) :
          /\ published' = message
          /\ entry' = [entry EXCEPT ![0] = GenerateThenAddChunks(message)]
    BY <1>4 DEF Publish
  <2>2. loaded[0] # None /\ published = None
    BY <1>4 DEF Publish
  <2>3. request.nodeCount \in 2 .. MaxSimulated
    <3>1. request.nodeCount <= MaxSimulated
      BY <1>1, <2>2 DEF DialInv, DialsOf
    <3>2. request.nodeCount \in Nat /\ request.nodeCount > 1 /\ MaxSimulated \in Nat
      BY ZeroIsNode, ShadowAssumption
    <3> DEFINE k == request.nodeCount
    <3>3. k \in Nat /\ k > 1 /\ k <= MaxSimulated
      BY <3>1, <3>2
    <3> HIDE DEF k
    <3>4. k \in 2 .. MaxSimulated
      BY <3>2, <3>3
    <3> QED BY <3>4 DEF k
  <2>4. /\ CountOf(message) \in 1 .. MaxChunkCount
        /\ message \in BitStrings(CountOf(message) * Size)
    <3>1. /\ message \in Seq({0, 1}) \ {<<>>}
          /\ Len(message) % (ByteBits * MessageChunkSize) = 0
          /\ Len(message) \div (ByteBits * MessageChunkSize) <= MaxChunkCount
      BY <2>3, ShadowAssumption
    <3> QED BY <3>1, MessageIs
  <2> DEFINE e == GenerateThenAddChunks(message)
  <2>5. entry'[0] = e /\ \A n \in N \ {0} : entry'[n] = NoChunks
    BY <1>1, <1>2, <2>1, <2>2 DEF ChunkInv
  <2>6. GenerateThenAddChunks(published)' = e /\ CountOf(published)' = CountOf(message)
    BY <2>1 DEF CountOf, GenerateThenAddChunks, ChunkElements
  <2>7. DOMAIN NoChunks.chunks = {}
    BY DEF NoChunks
  <2> HIDE DEF e, N
  <2>8. ASSUME NEW n \in N, NEW i \in DOMAIN entry'[n].chunks
        PROVE  entry'[n].chunks[i] = e.chunks[i]
    BY <2>5, <2>7, <2>8
  <2> QED BY <1>1, <2>1, <2>4, <2>6, <2>8 DEF ContentInv
<1>5. ASSUME NEW n \in N, NEW p \in N, NEW i, Relay(n, p, i) PROVE ContentInv'
  <2> DEFINE e == entry[p]
             c == Chunk(entry[n], i)
             g == GenerateThenAddChunks(published)
             after == VerifyThenAddChunk(e, c)
  <2>1. /\ i \in DOMAIN entry[n].chunks
        /\ entry' = [entry EXCEPT ![p] = after]
        /\ published' = published
    BY <1>5 DEF Relay
  <2>2. published # None
    <3>1. DOMAIN NoChunks.chunks = {}
      BY DEF NoChunks
    <3> QED BY <2>1, <3>1 DEF ChunkInv
  <2>3. /\ CountOf(published) \in 1 .. MaxChunkCount
        /\ published \in BitStrings(CountOf(published) * Size)
        /\ \A m \in N : \A j \in DOMAIN entry[m].chunks : entry[m].chunks[j] = g.chunks[j]
    BY <2>2 DEF ContentInv
  <2>4. c.index = i /\ c.data = g.chunks[i]
    BY <2>1, <2>3 DEF Chunk
  <2>5. \A j \in DOMAIN e.chunks : e.chunks[j] = g.chunks[j]
    BY <2>3
  <2>6. /\ entry'[p] = after /\ \A m \in N \ {p} : entry'[m] = entry[m]
    BY <1>2, <2>1
  <2>7. GenerateThenAddChunks(published)' = g
    BY <2>1
  <2> HIDE DEF e, c, g
  <2>8. \A j \in DOMAIN after.chunks : after.chunks[j] = g.chunks[j]
    <3>1. CASE after = e
      BY <2>5, <3>1
    <3>2. CASE after # e
      <4>1. after = [chunkCount |-> c.chunkCount, chunks |-> after.chunks]
        BY <3>2 DEF VerifyThenAddChunk
      <4>2. after.chunks \in {e.chunks, [j \in DOMAIN e.chunks \cup {i} |->
                                           IF j = i THEN c.data ELSE e.chunks[j]]}
        BY <2>4, <3>2 DEF VerifyThenAddChunk
      <4> HIDE DEF after
      <4> QED BY <2>4, <2>5, <4>2
    <3> QED BY <3>1, <3>2
  <2> HIDE DEF after, N
  <2>9. ASSUME NEW m \in N, NEW j \in DOMAIN entry'[m].chunks
        PROVE  entry'[m].chunks[j] = g.chunks[j]
    BY <2>3, <2>6, <2>8, <2>9
  <2> QED BY <1>1, <2>1, <2>3, <2>7, <2>9 DEF ContentInv
<1>6. ASSUME NEW n \in N, Load(n) PROVE ContentInv'
  BY <1>3, <1>6 DEF Load
<1>7. ASSUME NEW n \in N, connectToPeer(n) PROVE ContentInv'
  BY <1>3, <1>7 DEF connectToPeer
<1>8. CASE Generate /\ UNCHANGED nodeVars
  BY <1>3, <1>8 DEF nodeVars
<1>9. CASE UNCHANGED vars
  BY <1>3, <1>9 DEF vars, nodeVars
<1> QED BY <1>4, <1>5, <1>6, <1>7, <1>8, <1>9 DEF Next

(* Whatever chunks a node has, when they are enough it decodes what was     *)
(* published: Shadow's AnyChunksDecode.                                     *)
THEOREM ChunksDecode == Spec => []AnyChunksDecode
<1>1. Init => GeneratorInv /\ DialInv /\ ChunkInv /\ ContentInv
  BY GeneratorStart, DialStart, ChunkStart, ContentStart DEF Init
<1>2. GeneratorInv /\ DialInv /\ ChunkInv /\ ContentInv /\ [Next]_vars
        => GeneratorInv' /\ DialInv' /\ ChunkInv' /\ ContentInv'
  BY NextGenerates, GeneratorStep, DialStep, ChunkStep, ContentStep
<1>3. ChunkInv /\ ContentInv => AnyChunksDecode
  <2> SUFFICES ASSUME ChunkInv, ContentInv, NEW n \in Nodes, Reconstructible(entry[n])
               PROVE  ReconstructMessage(entry[n]) = {published}
    BY DEF AnyChunksDecode
  <2> DEFINE e == entry[n]
             c == CountOf(published)
  <2>1. published # None
    BY DEF ChunkInv, NoChunks, Reconstructible
  <2>2. /\ c \in 1 .. MaxChunkCount /\ published \in BitStrings(c * Size)
        /\ \A i \in DOMAIN e.chunks : e.chunks[i] = GenerateThenAddChunks(published).chunks[i]
    BY <2>1 DEF ContentInv
  <2>3. HasSome(e, c) /\ c \in Nat \ {0}
    BY <2>1 DEF ChunkInv
  <2>4. e.chunkCount = c /\ e.chunkCount > 0
    BY <2>3 DEF HasSome, Reconstructible
  <2>5. DOMAIN e.chunks \subseteq 0 .. TotalChunks(c) - 1
    <3>1. parityCount(c) \in Nat
      BY <2>3, ParityPositive
    <3> HIDE DEF c
    <3>2. c + parityCount(c) - 1 = (c + parityCount(c)) - 1
      BY <2>3, <3>1
    <3> QED BY <2>3, <3>2 DEF HasSome, Indices, TotalChunks
  <2>6. KeepsChunksOf(e, published, c)
    BY <2>2, <2>4, <2>5 DEF KeepsChunksOf
  <2> HIDE DEF c, e
  <2>7. Reconstructible(e)
    BY DEF e
  <2>8. ReconstructMessage(e) = {published}
    BY <2>2, <2>6, <2>7, Reconstructs
  <2> QED BY <2>8 DEF e
<1> QED BY <1>1, <1>2, <1>3, PTL DEF Spec
=============================================================================
