------------------------------- MODULE HostProofs -------------------------------
(***************************************************************************)
(* The bookkeeping of a host is right for any hosts and any connections    *)
(* between them.                                                           *)
(***************************************************************************)
EXTENDS Host, TLAPS

(* A goroutine only waits for a connection that ends at its host. *)
WatchersOwn == \A h \in Hosts : \A c \in watchers[h] : h \in Ends(c)

Bookkeeping == WatchersOwn /\ EntriesWatched /\ HandlersInTurns

IInv == TypeOK /\ Bookkeeping

-----------------------------------------------------------------------------
(* The peer of a connection at one of its ends is the other end. *)
LEMMA PeerIsOther ==
  ASSUME NEW c \in Conns, NEW h \in Ends(c)
  PROVE  /\ h \in Hosts /\ Peer(c, h) \in Hosts /\ Peer(c, h) # h
         /\ Ends(c) = {h, Peer(c, h)}
<1>1. \E p \in Ends(c) : p # h
  BY EndsAssumption DEF Ends
<1>2. Peer(c, h) \in Ends(c) /\ Peer(c, h) # h
  BY <1>1 DEF Peer
<1>3. Ends(c) = {Dialer[c], Listener[c]} /\ Ends(c) \subseteq Hosts
  BY EndsAssumption DEF Ends
<1> QED
  BY <1>2, <1>3

(* What the two callers of handleConnection take for the peer. *)
LEMMA PeerOfCaller ==
  ASSUME NEW c \in Conns
  PROVE  /\ Dialer[c] \in Ends(c) /\ Peer(c, Dialer[c]) = Listener[c]
         /\ Listener[c] \in Ends(c) /\ Peer(c, Listener[c]) = Dialer[c]
<1>1. Dialer[c] \in Ends(c) /\ Listener[c] \in Ends(c)
  BY DEF Ends
<1>2. Dialer[c] # Listener[c]
  BY EndsAssumption
<1>3. /\ Peer(c, Dialer[c]) # Dialer[c] /\ Ends(c) = {Dialer[c], Peer(c, Dialer[c])}
      /\ Peer(c, Listener[c]) # Listener[c] /\ Ends(c) = {Listener[c], Peer(c, Listener[c])}
  BY <1>1, PeerIsOther
<1> QED
  BY <1>1, <1>2, <1>3 DEF Ends

-----------------------------------------------------------------------------
(* Entering a connection for a peer who has none keeps the books. *)
LEMMA RegisterKeeps ==
  ASSUME IInv, NEW c \in Conns, NEW h \in Ends(c),
         ~Registered(h, Peer(c, h)), Register(h, c), handlersSet' = handlersSet
  PROVE  /\ connections' \in [Hosts -> [Hosts -> Conns \cup {None}]]
         /\ watchers' \in [Hosts -> SUBSET Conns]
         /\ known' \in [Hosts -> [Hosts -> {0, 1}]]
         /\ Bookkeeping'
<1> DEFINE q == Peer(c, h)
<1>1. h \in Hosts /\ q \in Hosts /\ q # h /\ Ends(c) = {h, q}
  BY PeerIsOther
<1>2. /\ connections' = [connections EXCEPT ![h][q] = c]
      /\ known' = [known EXCEPT ![h][q] = IF handlersSet[h] THEN @ + 1 ELSE @]
      /\ watchers' = [watchers EXCEPT ![h] = @ \cup {c}]
  BY DEF Register
<1>3. connections[h][q] = None
  BY DEF Registered
<1> HIDE DEF q
<1>4. /\ connections \in [Hosts -> [Hosts -> Conns \cup {None}]]
      /\ watchers \in [Hosts -> SUBSET Conns]
      /\ known \in [Hosts -> [Hosts -> {0, 1}]]
  BY DEF IInv, TypeOK
<1>5. known[h][q] = 0
  BY <1>1, <1>3 DEF IInv, Bookkeeping, HandlersInTurns, Registered
<1>6. /\ connections' \in [Hosts -> [Hosts -> Conns \cup {None}]]
      /\ watchers' \in [Hosts -> SUBSET Conns]
  BY <1>1, <1>2, <1>4
<1>7. known' \in [Hosts -> [Hosts -> {0, 1}]]
  <2>1. known' = [known EXCEPT ![h][q] = IF handlersSet[h] THEN 1 ELSE 0]
    BY <1>1, <1>2, <1>4, <1>5
  <2> QED
    BY <2>1, <1>1, <1>4
<1>8. WatchersOwn'
  BY <1>1, <1>2, <1>4 DEF IInv, Bookkeeping, WatchersOwn, Ends
<1>9. EntriesWatched'
  <2> SUFFICES ASSUME NEW g \in Hosts, NEW p \in Hosts, NEW d \in Conns
               PROVE  connections'[g][p] = d <=> d \in watchers'[g] /\ Ends(d) = {g, p}
    BY DEF EntriesWatched, Ends
  <2>1. connections[g][p] = d <=> d \in watchers[g] /\ Ends(d) = {g, p}
    BY DEF IInv, Bookkeeping, EntriesWatched
  <2>2. CASE g = h /\ p = q
    <3>1. connections'[g][p] = c /\ watchers'[g] = watchers[g] \cup {c}
      BY <2>2, <1>1, <1>2, <1>4
    <3>2. None # d
      BY EndsAssumption
    <3> QED
      BY <2>1, <2>2, <3>1, <3>2, <1>1, <1>3
  <2>3. CASE g = h /\ p # q
    <3>1. connections'[g][p] = connections[g][p] /\ watchers'[g] = watchers[g] \cup {c}
      BY <2>3, <1>1, <1>2, <1>4
    <3>2. Ends(c) # {g, p}
      BY <2>3, <1>1
    <3> QED
      BY <2>1, <3>1, <3>2
  <2>4. CASE g # h
    <3>1. connections'[g][p] = connections[g][p] /\ watchers'[g] = watchers[g]
      BY <2>4, <1>1, <1>2, <1>4
    <3> QED
      BY <2>1, <3>1
  <2> QED
    BY <2>2, <2>3, <2>4
<1>10. HandlersInTurns'
  <2> SUFFICES ASSUME NEW g \in Hosts, NEW p \in Hosts
               PROVE  known'[g][p] = IF handlersSet[g] /\ connections'[g][p] # None THEN 1 ELSE 0
    BY DEF HandlersInTurns, Registered
  <2>1. known[g][p] = IF handlersSet[g] /\ connections[g][p] # None THEN 1 ELSE 0
    BY DEF IInv, Bookkeeping, HandlersInTurns, Registered
  <2>2. CASE g = h /\ p = q
    <3>1. connections'[g][p] = c /\ known'[g][p] = IF handlersSet[g] THEN 1 ELSE 0
      BY <2>2, <1>1, <1>2, <1>4, <1>5
    <3>2. c # None
      BY EndsAssumption
    <3> QED
      BY <3>1, <3>2
  <2>3. CASE ~(g = h /\ p = q)
    <3>1. connections'[g][p] = connections[g][p] /\ known'[g][p] = known[g][p]
      BY <2>3, <1>1, <1>2, <1>4
    <3> QED
      BY <2>1, <3>1
  <2> QED
    BY <2>2, <2>3
<1> QED
  BY <1>6, <1>7, <1>8, <1>9, <1>10 DEF Bookkeeping

(* The goroutine of a connection that has ended removes its own entry. *)
LEMMA CleanUpKeeps ==
  ASSUME IInv, NEW h \in Hosts, NEW c \in Conns, CleanUp(h, c)
  PROVE  IInv'
<1> DEFINE q == Peer(c, h)
<1>1. c \in watchers[h] /\ h \in Ends(c)
  BY DEF CleanUp, IInv, Bookkeeping, WatchersOwn
<1>2. q \in Hosts /\ q # h /\ Ends(c) = {h, q}
  BY <1>1, PeerIsOther
<1>3. /\ connections' = [connections EXCEPT ![h][q] = None]
      /\ known' = [known EXCEPT ![h][q] = IF handlersSet[h] THEN @ - 1 ELSE @]
      /\ watchers' = [watchers EXCEPT ![h] = @ \ {c}]
      /\ UNCHANGED <<handlersSet, dial, accepting, accepted, listening, alive, closing>>
  BY DEF CleanUp
<1> HIDE DEF q
<1>4. /\ connections \in [Hosts -> [Hosts -> Conns \cup {None}]]
      /\ watchers \in [Hosts -> SUBSET Conns]
      /\ known \in [Hosts -> [Hosts -> {0, 1}]]
  BY DEF IInv, TypeOK
<1>5. connections[h][q] = c /\ c # None
  BY <1>1, <1>2, EndsAssumption DEF IInv, Bookkeeping, EntriesWatched
<1>6. known[h][q] = IF handlersSet[h] THEN 1 ELSE 0
  BY <1>2, <1>5 DEF IInv, Bookkeeping, HandlersInTurns, Registered
<1>7. known' = [known EXCEPT ![h][q] = 0]
  <2>1. (IF handlersSet[h] THEN known[h][q] - 1 ELSE known[h][q]) = 0
    BY <1>6
  <2>2. known' = [known EXCEPT ![h] = [known[h] EXCEPT ![q] =
                    IF handlersSet[h] THEN known[h][q] - 1 ELSE known[h][q]]]
    BY <1>2, <1>3, <1>4
  <2>3. known' = [known EXCEPT ![h] = [known[h] EXCEPT ![q] = 0]]
    BY <2>1, <2>2
  <2> QED
    BY <2>3
<1>8. TypeOK'
  BY <1>2, <1>3, <1>4, <1>7 DEF IInv, TypeOK
<1>9. WatchersOwn'
  BY <1>3, <1>4 DEF IInv, Bookkeeping, WatchersOwn, Ends
<1>10. EntriesWatched'
  <2> SUFFICES ASSUME NEW g \in Hosts, NEW p \in Hosts, NEW d \in Conns
               PROVE  connections'[g][p] = d <=> d \in watchers'[g] /\ Ends(d) = {g, p}
    BY DEF EntriesWatched, Ends
  <2>1. connections[g][p] = d <=> d \in watchers[g] /\ Ends(d) = {g, p}
    BY DEF IInv, Bookkeeping, EntriesWatched
  <2>2. CASE g = h /\ p = q
    <3>1. connections'[g][p] = None /\ watchers'[g] = watchers[g] \ {c}
      BY <2>2, <1>2, <1>3, <1>4
    <3>2. None # d
      BY EndsAssumption
    <3> QED
      BY <2>1, <2>2, <3>1, <3>2, <1>5
  <2>3. CASE g = h /\ p # q
    <3>1. connections'[g][p] = connections[g][p] /\ watchers'[g] = watchers[g] \ {c}
      BY <2>3, <1>2, <1>3, <1>4
    <3>2. Ends(c) # {g, p}
      BY <2>3, <1>2
    <3> QED
      BY <2>1, <3>1, <3>2
  <2>4. CASE g # h
    <3>1. connections'[g][p] = connections[g][p] /\ watchers'[g] = watchers[g]
      BY <2>4, <1>2, <1>3, <1>4
    <3> QED
      BY <2>1, <3>1
  <2> QED
    BY <2>2, <2>3, <2>4
<1>11. HandlersInTurns'
  <2> SUFFICES ASSUME NEW g \in Hosts, NEW p \in Hosts
               PROVE  known'[g][p] = IF handlersSet'[g] /\ connections'[g][p] # None THEN 1 ELSE 0
    BY DEF HandlersInTurns, Registered
  <2>1. known[g][p] = IF handlersSet[g] /\ connections[g][p] # None THEN 1 ELSE 0
    BY DEF IInv, Bookkeeping, HandlersInTurns, Registered
  <2>2. CASE g = h /\ p = q
    BY <2>2, <1>2, <1>3, <1>4, <1>7
  <2>3. CASE ~(g = h /\ p = q)
    <3>1. connections'[g][p] = connections[g][p] /\ known'[g][p] = known[g][p]
      BY <2>3, <1>2, <1>3, <1>4, <1>7
    <3> QED
      BY <2>1, <3>1, <1>3
  <2> QED
    BY <2>2, <2>3
<1> QED
  BY <1>8, <1>9, <1>10, <1>11 DEF IInv, Bookkeeping

-----------------------------------------------------------------------------
LEMMA InitIInv == Init => IInv
<1> SUFFICES ASSUME Init PROVE IInv
  OBVIOUS
<1>1. TypeOK
  BY DEF Init, TypeOK, DialPCs, ClosePCs
<1>2. WatchersOwn
  BY DEF Init, WatchersOwn
<1>3. EntriesWatched
  BY EndsAssumption DEF Init, EntriesWatched
<1>4. HandlersInTurns
  BY DEF Init, HandlersInTurns, Registered
<1> QED
  BY <1>1, <1>2, <1>3, <1>4 DEF IInv, Bookkeeping

(* The books as the state they are kept in. *)
LEMMA BooksUntouched ==
  ASSUME IInv, UNCHANGED <<connections, handlersSet, watchers, known>>
  PROVE  Bookkeeping'
BY DEF IInv, Bookkeeping, WatchersOwn, EntriesWatched, HandlersInTurns, Registered, Ends

LEMMA NextIInv == IInv /\ [Next]_vars => IInv'
<1> SUFFICES ASSUME IInv, [Next]_vars PROVE IInv'
  OBVIOUS
<1>1. ASSUME NEW c \in Conns, Connect(c) PROVE IInv'
  <2>1. UNCHANGED <<connections, handlersSet, watchers, known>>
    BY <1>1 DEF Connect
  <2>2. Ends(c) \subseteq Hosts
    BY EndsAssumption DEF Ends
  <2>3. TypeOK'
    BY <1>1, <2>2 DEF Connect, IInv, TypeOK, DialPCs
  <2> QED
    BY <2>1, <2>3, BooksUntouched DEF IInv
<1>2. ASSUME NEW c \in Conns, ConnectFails(c) PROVE IInv'
  <2>1. UNCHANGED <<connections, handlersSet, watchers, known>>
    BY <1>2 DEF ConnectFails
  <2>2. TypeOK'
    BY <1>2 DEF ConnectFails, IInv, TypeOK, DialPCs
  <2> QED
    BY <2>1, <2>2, BooksUntouched DEF IInv
<1>3. ASSUME NEW c \in Conns, ConnectHandle(c) PROVE IInv'
  <2>1. CASE Registered(Dialer[c], Listener[c])
    <3>1. UNCHANGED <<connections, handlersSet, watchers, known>>
      BY <1>3, <2>1 DEF ConnectHandle
    <3>2. TypeOK'
      BY <1>3, <2>1 DEF ConnectHandle, IInv, TypeOK, DialPCs
    <3> QED
      BY <3>1, <3>2, BooksUntouched DEF IInv
  <2>2. CASE ~Registered(Dialer[c], Listener[c])
    <3>1. Register(Dialer[c], c) /\ handlersSet' = handlersSet
      BY <1>3, <2>2 DEF ConnectHandle
    <3>2. /\ connections' \in [Hosts -> [Hosts -> Conns \cup {None}]]
          /\ watchers' \in [Hosts -> SUBSET Conns]
          /\ known' \in [Hosts -> [Hosts -> {0, 1}]]
          /\ Bookkeeping'
      BY <2>2, <3>1, PeerOfCaller, RegisterKeeps
    <3>3. dial' \in [Conns -> DialPCs]
          /\ UNCHANGED <<accepting, accepted, listening, alive, closing>>
      BY <1>3, <2>2 DEF ConnectHandle, IInv, TypeOK, DialPCs
    <3> QED
      BY <3>1, <3>2, <3>3 DEF IInv, TypeOK
  <2> QED
    BY <2>1, <2>2
<1>4. ASSUME NEW c \in Conns, Accept(c) PROVE IInv'
  <2>1. Listener[c] \in Hosts
    BY EndsAssumption
  <2>2. CASE Registered(Listener[c], Dialer[c])
    <3>1. UNCHANGED <<connections, handlersSet, watchers, known>>
      BY <1>4, <2>2 DEF Accept
    <3>2. TypeOK'
      BY <1>4, <2>1, <2>2 DEF Accept, IInv, TypeOK
    <3> QED
      BY <3>1, <3>2, BooksUntouched DEF IInv
  <2>3. CASE ~Registered(Listener[c], Dialer[c])
    <3>1. Register(Listener[c], c) /\ handlersSet' = handlersSet
      BY <1>4, <2>3 DEF Accept
    <3>2. /\ connections' \in [Hosts -> [Hosts -> Conns \cup {None}]]
          /\ watchers' \in [Hosts -> SUBSET Conns]
          /\ known' \in [Hosts -> [Hosts -> {0, 1}]]
          /\ Bookkeeping'
      BY <2>3, <3>1, PeerOfCaller, RegisterKeeps
    <3>3. accepted' \in SUBSET Conns
          /\ UNCHANGED <<accepting, dial, listening, alive, closing>>
      BY <1>4, <2>3 DEF Accept, IInv, TypeOK
    <3> QED
      BY <3>1, <3>2, <3>3 DEF IInv, TypeOK
  <2> QED
    BY <2>2, <2>3
<1>5. ASSUME NEW h \in Hosts, CloseRefused(h) PROVE IInv'
  <2>1. UNCHANGED <<connections, handlersSet, watchers, known>>
    BY <1>5 DEF CloseRefused
  <2>2. TypeOK'
    BY <1>5 DEF CloseRefused, IInv, TypeOK
  <2> QED
    BY <2>1, <2>2, BooksUntouched DEF IInv
<1>6. ASSUME NEW h \in Hosts, EndAcceptLoop(h) PROVE IInv'
  <2>1. UNCHANGED <<connections, handlersSet, watchers, known>>
    BY <1>6 DEF EndAcceptLoop
  <2>2. TypeOK'
    BY <1>6 DEF EndAcceptLoop, IInv, TypeOK
  <2> QED
    BY <2>1, <2>2, BooksUntouched DEF IInv
<1>7. ASSUME NEW h \in Hosts, SetPeerHandlers(h) PROVE IInv'
  <2>1. /\ handlersSet' = [handlersSet EXCEPT ![h] = TRUE]
        /\ UNCHANGED <<connections, watchers, dial, accepting, accepted, listening, alive, closing>>
    BY <1>7 DEF SetPeerHandlers
  <2>3. known' = [known EXCEPT ![h] = [p \in Hosts |-> IF connections[h][p] # None THEN 1 ELSE 0]]
    BY <1>7 DEF SetPeerHandlers, Registered
  <2>4. TypeOK'
    BY <2>1, <2>3 DEF IInv, TypeOK
  <2>5. UNCHANGED <<connections, watchers>> /\ WatchersOwn /\ EntriesWatched
    BY <2>1 DEF IInv, Bookkeeping
  <2>6. WatchersOwn'
    BY <2>5 DEF WatchersOwn, Ends
  <2>7. EntriesWatched'
    BY <2>5 DEF EntriesWatched, Ends
  <2>8. HandlersInTurns'
    <3> SUFFICES ASSUME NEW g \in Hosts, NEW p \in Hosts
                 PROVE  known'[g][p] = IF handlersSet'[g] /\ connections[g][p] # None THEN 1 ELSE 0
      BY <2>1 DEF HandlersInTurns, Registered
    <3>1. CASE g = h
      BY <3>1, <2>1, <2>3 DEF IInv, TypeOK
    <3>2. CASE g # h
      BY <3>2, <2>1, <2>3 DEF IInv, TypeOK, Bookkeeping, HandlersInTurns, Registered
    <3> QED
      BY <3>1, <3>2
  <2> QED
    BY <2>4, <2>6, <2>7, <2>8 DEF IInv, Bookkeeping
<1>8. ASSUME NEW h \in Hosts, CloseTransport(h) PROVE IInv'
  <2>1. UNCHANGED <<connections, handlersSet, watchers, known>>
    BY <1>8 DEF CloseTransport
  <2>2. TypeOK'
    BY <1>8 DEF CloseTransport, IInv, TypeOK, ClosePCs
  <2> QED
    BY <2>1, <2>2, BooksUntouched DEF IInv
<1>9. ASSUME NEW h \in Hosts, CloseReturn(h) PROVE IInv'
  <2>1. UNCHANGED <<connections, handlersSet, watchers, known>>
    BY <1>9 DEF CloseReturn
  <2>2. TypeOK'
    BY <1>9 DEF CloseReturn, IInv, TypeOK, ClosePCs
  <2> QED
    BY <2>1, <2>2, BooksUntouched DEF IInv
<1>10. ASSUME NEW c \in Conns, NEW h \in Hosts, CleanUp(h, c) PROVE IInv'
  BY <1>10, CleanUpKeeps
<1>11. ASSUME NEW c \in Conns, NEW h \in Hosts, NoticeEnd(c, h) \/ TimeOut(c, h) PROVE IInv'
  <2>1. UNCHANGED <<connections, handlersSet, watchers, known>>
    BY <1>11 DEF NoticeEnd, TimeOut
  <2>2. TypeOK'
    BY <1>11 DEF NoticeEnd, TimeOut, IInv, TypeOK
  <2> QED
    BY <2>1, <2>2, BooksUntouched DEF IInv
<1>12. CASE UNCHANGED vars
  <2>1. TypeOK'
    BY <1>12 DEF vars, IInv, TypeOK
  <2> QED
    BY <1>12, <2>1, BooksUntouched DEF vars, IInv
<1> QED
  BY <1>1, <1>2, <1>3, <1>4, <1>5, <1>6, <1>7, <1>8, <1>9, <1>10, <1>11, <1>12
  DEF Next, AcceptLoop

LEMMA Inductive == Spec => []IInv
BY InitIInv, NextIInv, PTL DEF Spec

-----------------------------------------------------------------------------
(* The variables keep their types, and a host never counts a peer twice. *)
THEOREM TypeCorrect == Spec => []TypeOK
<1>1. IInv => TypeOK
  BY DEF IInv
<1> QED
  BY Inductive, <1>1, PTL

(* The map of connections and the goroutines that wait for them agree:      *)
(* deleting by the peer's name (host.go:245) never hits a later connection. *)
THEOREM EntriesAreWatched == Spec => []EntriesWatched
<1>1. IInv => EntriesWatched
  BY DEF IInv, Bookkeeping
<1> QED
  BY Inductive, <1>1, PTL

(* addHandler and removeHandler are called in turns for every peer, however *)
(* connections come and go and however often SetPeerHandlers is called.     *)
THEOREM HandlersTakeTurns == Spec => []HandlersInTurns
<1>1. IInv => HandlersInTurns
  BY DEF IInv, Bookkeeping
<1> QED
  BY Inductive, <1>1, PTL
=============================================================================
