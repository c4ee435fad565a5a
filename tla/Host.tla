---------------------------------- MODULE Host ----------------------------------
(***************************************************************************)
(* Hosts (src/host/host.go) that connect to each other.  A connection is   *)
(* one dial with an end at each of two hosts; an end is alive until its    *)
(* context is done.  handleConnection is one critical section of the       *)
(* host's mutex, the calls of the peer handlers included, and so is what   *)
(* its goroutine does when the connection's context is done.  The          *)
(* transport is external: a handshake succeeds or fails, an end that is    *)
(* closed is noticed at the other end some time later, and connections in  *)
(* Failing may also end by themselves.                                     *)
(***************************************************************************)
EXTENDS Integers, FiniteSets

CONSTANTS
  Hosts, Conns,
  Dialer, Listener,  \* the hosts at the ends of a connection
  Failing,           \* connections that may time out
  Closing,           \* hosts that may be closed
  None               \* no connection

ASSUME EndsAssumption ==
  /\ Dialer \in [Conns -> Hosts] /\ Listener \in [Conns -> Hosts]
  /\ \A c \in Conns : Dialer[c] # Listener[c]
  /\ Failing \subseteq Conns /\ Closing \subseteq Hosts
  /\ None \notin Conns

VARIABLES
  connections,  \* host.connections
  handlersSet,  \* SetPeerHandlers has been called
  watchers,     \* connections whose goroutine of handleConnection runs
  dial,         \* the call of Connect for a connection
  accepting,    \* acceptLoop: the connection to be refused, or none
  accepted,     \* acceptLoop has returned from Accept with the connection
  listening,    \* acceptLoop has not ended
  alive,        \* the ends of a connection whose context is not done
  closing,      \* the call of Close
  known         \* history: calls of the addHandler that is set less those of
                \* the removeHandler set with it, for each peer

vars == <<connections, handlersSet, watchers, dial, accepting, accepted,
          listening, alive, closing, known>>

DialPCs == {"idle", "dialed", "connected", "refused", "failed"}
ClosePCs == {"open", "waiting", "closed"}

Ends(c) == {Dialer[c], Listener[c]}
Peer(c, h) == CHOOSE p \in Ends(c) : p # h

TypeOK ==
  /\ connections \in [Hosts -> [Hosts -> Conns \cup {None}]]
  /\ handlersSet \in [Hosts -> BOOLEAN]
  /\ watchers \in [Hosts -> SUBSET Conns]
  /\ dial \in [Conns -> DialPCs]
  /\ accepting \in [Hosts -> Conns \cup {None}]
  /\ accepted \in SUBSET Conns
  /\ listening \in [Hosts -> BOOLEAN]
  /\ alive \in [Conns -> SUBSET Hosts]
  /\ closing \in [Hosts -> ClosePCs]
  /\ known \in [Hosts -> [Hosts -> {0, 1}]]

Init ==
  /\ connections = [h \in Hosts |-> [p \in Hosts |-> None]]
  /\ handlersSet = [h \in Hosts |-> FALSE]
  /\ watchers = [h \in Hosts |-> {}]
  /\ dial = [c \in Conns |-> "idle"]
  /\ accepting = [h \in Hosts |-> None]
  /\ accepted = {}
  /\ listening = [h \in Hosts |-> TRUE]
  /\ alive = [c \in Conns |-> {}]
  /\ closing = [h \in Hosts |-> "open"]
  /\ known = [h \in Hosts |-> [p \in Hosts |-> 0]]

-----------------------------------------------------------------------------
(* Host *)

(* handleConnection registers a connection, tells the handler and starts    *)
(* the goroutine that waits for its end.                                    *)
Register(h, c) ==
  LET p == Peer(c, h) IN
  /\ connections' = [connections EXCEPT ![h][p] = c]
  /\ known' = [known EXCEPT ![h][p] = IF handlersSet[h] THEN @ + 1 ELSE @]
  /\ watchers' = [watchers EXCEPT ![h] = @ \cup {c}]

Registered(h, p) == connections[h][p] # None

(* Connect dials: the handshake succeeds between hosts that are not closed, *)
(* or fails, by the network, the caller's context or a closed host.         *)
Connect(c) ==
  /\ dial[c] = "idle"
  /\ \A h \in Ends(c) : closing[h] = "open"
  /\ dial' = [dial EXCEPT ![c] = "dialed"]
  /\ alive' = [alive EXCEPT ![c] = Ends(c)]
  /\ UNCHANGED <<connections, handlersSet, watchers, accepting, accepted,
                 listening, closing, known>>

ConnectFails(c) ==
  /\ dial[c] = "idle"
  /\ c \in Failing \/ \E h \in Ends(c) : closing[h] # "open"
  /\ dial' = [dial EXCEPT ![c] = "failed"]
  /\ UNCHANGED <<connections, handlersSet, watchers, accepting, accepted,
                 listening, alive, closing, known>>

(* Connect after the handshake.  A connection that is refused is not        *)
(* closed.  Mutant: it is not asked whether there is a connection.          *)
ConnectUnchecked(c) ==
  /\ dial[c] = "dialed"
  /\ Register(Dialer[c], c)
  /\ dial' = [dial EXCEPT ![c] = "connected"]
  /\ UNCHANGED <<handlersSet, accepting, accepted, listening, alive, closing>>

ConnectHandle(c) ==
  LET h == Dialer[c] IN
  /\ dial[c] = "dialed"
  /\ IF Registered(h, Listener[c])
     THEN /\ dial' = [dial EXCEPT ![c] = "refused"]
          /\ UNCHANGED <<connections, known, watchers>>
     ELSE /\ dial' = [dial EXCEPT ![c] = "connected"]
          /\ Register(h, c)
  /\ UNCHANGED <<handlersSet, accepting, accepted, listening, alive, closing>>

(* acceptLoop takes a connection, which may have ended in the queue, and    *)
(* handles it ...                                                           *)
Accept(c) ==
  LET h == Listener[c] IN
  /\ listening[h] /\ accepting[h] = None
  /\ dial[c] \in {"dialed", "connected", "refused"} /\ c \notin accepted
  /\ accepted' = accepted \cup {c}
  /\ IF Registered(h, Dialer[c])
     THEN /\ accepting' = [accepting EXCEPT ![h] = c]
          /\ UNCHANGED <<connections, known, watchers>>
     ELSE /\ Register(h, c)
          /\ UNCHANGED accepting
  /\ UNCHANGED <<handlersSet, dial, listening, alive, closing>>

(* ... and closes it if it was refused.                                     *)
CloseRefused(h) ==
  LET c == accepting[h] IN
  /\ c # None
  /\ alive' = [alive EXCEPT ![c] = @ \ {h}]
  /\ accepting' = [accepting EXCEPT ![h] = None]
  /\ UNCHANGED <<connections, handlersSet, watchers, dial, accepted, listening,
                 closing, known>>

EndAcceptLoop(h) ==
  /\ listening[h] /\ accepting[h] = None
  /\ closing[h] # "open"
  /\ listening' = [listening EXCEPT ![h] = FALSE]
  /\ UNCHANGED <<connections, handlersSet, watchers, dial, accepting, accepted,
                 alive, closing, known>>

(* The goroutine of handleConnection.  Mutants: the handler is told before  *)
(* there is one; the end of the host is awaited, not the connection's.      *)
CleanUpUnasked(h, c) ==
  LET p == Peer(c, h) IN
  /\ c \in watchers[h] /\ h \notin alive[c]
  /\ connections' = [connections EXCEPT ![h][p] = None]
  /\ known' = [known EXCEPT ![h][p] = @ - 1]
  /\ watchers' = [watchers EXCEPT ![h] = @ \ {c}]
  /\ UNCHANGED <<handlersSet, dial, accepting, accepted, listening, alive, closing>>

CleanUpAtClose(h, c) ==
  LET p == Peer(c, h) IN
  /\ c \in watchers[h] /\ h \notin alive[c] /\ closing[h] # "open"
  /\ connections' = [connections EXCEPT ![h][p] = None]
  /\ known' = [known EXCEPT ![h][p] = IF handlersSet[h] THEN @ - 1 ELSE @]
  /\ watchers' = [watchers EXCEPT ![h] = @ \ {c}]
  /\ UNCHANGED <<handlersSet, dial, accepting, accepted, listening, alive, closing>>

CleanUp(h, c) ==
  LET p == Peer(c, h) IN
  /\ c \in watchers[h] /\ h \notin alive[c]
  /\ connections' = [connections EXCEPT ![h][p] = None]
  /\ known' = [known EXCEPT ![h][p] = IF handlersSet[h] THEN @ - 1 ELSE @]
  /\ watchers' = [watchers EXCEPT ![h] = @ \ {c}]
  /\ UNCHANGED <<handlersSet, dial, accepting, accepted, listening, alive, closing>>

(* New handlers, which are told of those who are connected; it may be       *)
(* called any number of times.  Mutant: they hear only of those to come.    *)
SetPeerHandlersOnly(h) ==
  /\ handlersSet' = [handlersSet EXCEPT ![h] = TRUE]
  /\ known' = [known EXCEPT ![h] = [p \in Hosts |-> 0]]
  /\ UNCHANGED <<connections, watchers, dial, accepting, accepted, listening,
                 alive, closing>>

SetPeerHandlers(h) ==
  /\ handlersSet' = [handlersSet EXCEPT ![h] = TRUE]
  /\ known' = [known EXCEPT ![h] =
       [p \in Hosts |-> IF Registered(h, p) THEN 1 ELSE 0]]
  /\ UNCHANGED <<connections, watchers, dial, accepting, accepted, listening,
                 alive, closing>>

(* Close: transport.Close ends every connection at this host without        *)
(* telling the peers, then the context is cancelled, then it waits for      *)
(* acceptLoop and the goroutines.  The transport is taken to close without  *)
(* an error, after which Close would return at once (host.go:151).  Mutant: *)
(* the context is cancelled only.                                           *)
CancelOnly(h) ==
  /\ h \in Closing
  /\ closing[h] = "open"
  /\ closing' = [closing EXCEPT ![h] = "waiting"]
  /\ UNCHANGED <<connections, handlersSet, watchers, dial, accepting, accepted,
                 listening, alive, known>>

CloseTransport(h) ==
  /\ h \in Closing
  /\ closing[h] = "open"
  /\ closing' = [closing EXCEPT ![h] = "waiting"]
  /\ alive' = [c \in Conns |-> alive[c] \ {h}]
  /\ UNCHANGED <<connections, handlersSet, watchers, dial, accepting, accepted,
                 listening, known>>

(* Connect adds a goroutine to the wait group too (host.go:111), which ends *)
(* when the host's context is done, as it is here: nothing to wait for.     *)
CloseReturn(h) ==
  /\ closing[h] = "waiting"
  /\ ~listening[h] /\ watchers[h] = {}
  /\ closing' = [closing EXCEPT ![h] = "closed"]
  /\ UNCHANGED <<connections, handlersSet, watchers, dial, accepting, accepted,
                 listening, alive, known>>

-----------------------------------------------------------------------------
(* The transport *)

NoticeEnd(c, h) ==
  /\ h \in alive[c] /\ alive[c] # Ends(c)
  /\ alive' = [alive EXCEPT ![c] = @ \ {h}]
  /\ UNCHANGED <<connections, handlersSet, watchers, dial, accepting, accepted,
                 listening, closing, known>>

TimeOut(c, h) ==
  /\ c \in Failing /\ h \in alive[c]
  /\ alive' = [alive EXCEPT ![c] = @ \ {h}]
  /\ UNCHANGED <<connections, handlersSet, watchers, dial, accepting, accepted,
                 listening, closing, known>>

-----------------------------------------------------------------------------
AcceptLoop(h) ==
  \/ \E c \in Conns : Listener[c] = h /\ Accept(c)
  \/ CloseRefused(h) \/ EndAcceptLoop(h)

Next ==
  \/ \E c \in Conns : Connect(c) \/ ConnectHandle(c) \/ ConnectFails(c)
  \/ \E h \in Hosts : AcceptLoop(h) \/ SetPeerHandlers(h) \/ CloseTransport(h) \/ CloseReturn(h)
  \/ \E c \in Conns, h \in Hosts : CleanUp(h, c) \/ NoticeEnd(c, h) \/ TimeOut(c, h)

Spec == Init /\ [][Next]_vars

Progress ==
  \/ \E c \in Conns : ConnectHandle(c)
  \/ \E h \in Hosts : AcceptLoop(h) \/ CloseReturn(h)
  \/ \E c \in Conns, h \in Hosts : CleanUp(h, c) \/ NoticeEnd(c, h)

(* The goroutines that can run are run, and a closed end is noticed at the  *)
(* other one, by a frame or by the idle timeout.  Each of these steps is    *)
(* taken once at most for a connection or a host, so that fairness of them  *)
(* together is enough for each.                                             *)
Fairness == WF_vars(Progress)

FairSpec == Spec /\ Fairness

-----------------------------------------------------------------------------
(* What the code promises *)

(* A connection is in the map exactly while its goroutine waits for its     *)
(* end: no goroutine of an earlier connection removes the entry of a later  *)
(* one, which it only names by the peer.                                    *)
EntriesWatched ==
  \A h, p \in Hosts, c \in Conns :
    connections[h][p] = c <=> c \in watchers[h] /\ Ends(c) = {h, p}

(* The peer handlers are called in turns for each peer, whenever and however *)
(* often they are set: what PubSub adds and removes are the peers in the map.*)
HandlersInTurns ==
  \A h, p \in Hosts :
    known[h][p] = IF handlersSet[h] /\ Registered(h, p) THEN 1 ELSE 0

(* Close returns, whoever connects meanwhile.                               *)
CloseReturns == \A h \in Hosts : closing[h] = "waiting" ~> closing[h] = "closed"

(* A peer whose end of the connection is gone is forgotten.                 *)
DeadPeersForgotten ==
  \A h \in Hosts, c \in Conns :
    (c \in watchers[h] /\ Peer(c, h) \notin alive[c]) ~> c \notin watchers[h]

(* When nothing is left to do, two hosts have each other as peers, on the   *)
(* same connection, or neither has the other.                               *)
Quiet == ~ENABLED Progress
PeersAgree ==
  Quiet => \A h, p \in Hosts : connections[h][p] = connections[p][h]
=============================================================================
