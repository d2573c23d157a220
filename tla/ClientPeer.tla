------------------------------ MODULE ClientPeer ------------------------------
(***************************************************************************)
(* The client: the local programs of Socks5 share one ClientPeer.  Dial    *)
(* makes an InboundConnection under a random ID, enters it in              *)
(* connectionMapping and sends its Connect; recvRelay gives each block     *)
(* that comes back to the connection of its ID and drops blocks of unknown *)
(* ones; a goroutine per connection removes it when its context is done.   *)
(* When biRelay closes a connection, and when it returns, if it ever does, *)
(* is the matter of InboundConnection; here it may at any time, or never.  *)
(*                                                                         *)
(* Peer holds a copy of the ConnectionPool that NewConnectionPool made:    *)
(* the map is shared, mappingLock is not.  Dial and the removals use the   *)
(* copy, recvRelay the original.  An access to the map has a beginning and *)
(* an end here, and two that overlap, one of them a write, are a data      *)
(* race: the Go runtime may stop the program, or a lookup may miss.        *)
(***************************************************************************)
EXTENDS Socks5, FiniteSets

CONSTANTS
  IDs,        \* what rand.Uint32 may draw
  QueueSize,  \* SendQueueSize
  MaxAnswers  \* bound: blocks that the server sends to a connection

NoConn == "none"

ASSUME PeerAssumption ==
  /\ QueueSize \in Nat \ {0} /\ MaxAnswers \in Nat
  /\ IDs # {} /\ NoConn \notin Clients

Relay == <<"recvRelay">>

VARIABLES
  conn,       \* where the InboundConnection of each program is
  id,         \* its connection ID
  ctxDone,    \* its context is done
  remover,    \* the goroutine that removes it from the pool
  mapping,    \* connectionMapping: the program whose connection has the ID
  using,      \* the accesses to the map in progress
  sendQueue,  \* sendQueue of the pool
  opened,     \* connections whose Connect has reached the server
  answers,    \* blocks sent by the server to each connection
  incoming,   \* blocks in the recvQueue of the tunnel pool, by connection
  relay,      \* recvRelay: where it is, the block it has, what it found
  raced,      \* recvRelay's latest lookup has overlapped a write
  crashed     \* the runtime has stopped the program

connVars == <<conn, id, ctxDone>>
mapVars == <<remover, mapping, using>>
netVars == <<sendQueue, opened, answers, incoming>>
faultVars == <<raced, crashed>>
peerVars == <<connVars, mapVars, netVars, relay, faultVars>>
allVars == <<vars, peerVars>>

Accesses == [who : Clients \X {"dial", "remove"} \cup {Relay},
             lock : {"copy", "original"}, write : BOOLEAN]

PeerTypeOK ==
  /\ TypeOK
  /\ conn \in [Clients -> {"none", "new", "adding", "added", "open", "closed", "stopped"}]
  /\ id \in [Clients -> IDs]
  /\ ctxDone \in [Clients -> BOOLEAN]
  /\ remover \in [Clients -> {"none", "waiting", "removing", "done"}]
  /\ mapping \in [IDs -> Clients \cup {NoConn}]
  /\ using \subseteq Accesses
  /\ sendQueue \in Seq({"connect", "disconnect"} \X Clients)
  /\ opened \subseteq Clients
  /\ answers \in [Clients -> 0 .. MaxAnswers] /\ incoming \in [Clients -> 0 .. MaxAnswers]
  /\ relay \in [at : {"select", "lookup", "looked"}, owner : Clients \cup {NoConn},
               found : Clients \cup {NoConn}]
  /\ raced \in BOOLEAN /\ crashed \in BOOLEAN

AnyID == CHOOSE i \in IDs : TRUE
Selecting == [at |-> "select", owner |-> NoConn, found |-> NoConn]

PeerInit ==
  /\ Init
  /\ conn = [c \in Clients |-> "none"]
  /\ id = [c \in Clients |-> AnyID]
  /\ ctxDone = [c \in Clients |-> FALSE]
  /\ remover = [c \in Clients |-> "none"]
  /\ mapping = [i \in IDs |-> NoConn]
  /\ using = {}
  /\ sendQueue = <<>>
  /\ opened = {} /\ answers = [c \in Clients |-> 0] /\ incoming = [c \in Clients |-> 0]
  /\ relay = Selecting
  /\ raced = FALSE /\ crashed = FALSE

-----------------------------------------------------------------------------
(* Accesses to connectionMapping.                                          *)

\* Lock or RLock of one of the two mutexes, and the map is in use.
Begin(who, lock, write) ==
  LET access == [who |-> who, lock |-> lock, write |-> write] IN
  /\ \A a \in using : a.lock = lock => ~a.write /\ ~write
  /\ using' = using \cup {access}
  /\ raced' = IF who = Relay THEN \E a \in using : a.write
              ELSE raced \/ (write /\ \E a \in using : a.who = Relay)

\* Unlock.
End(who) == using' = {a \in using : a.who # who}

\* Two accesses overlap and one of them writes.
Racing == \E a, b \in using : a # b /\ (a.write \/ b.write)

\* "fatal error: concurrent map read and map write".
Crash ==
  /\ Racing /\ ~crashed
  /\ crashed' = TRUE
  /\ UNCHANGED <<vars, connVars, mapVars, netVars, relay, raced>>

-----------------------------------------------------------------------------
(* Dial.                                                                   *)

\* NewInboundConnection, whose ID may have been drawn before.
NewConnection(c, i) ==
  /\ stage[c] = "dial" /\ conn[c] = "none"
  /\ conn' = [conn EXCEPT ![c] = "new"]
  /\ id' = [id EXCEPT ![c] = i]
  /\ UNCHANGED <<vars, ctxDone, mapVars, netVars, relay, faultVars>>

\* addConnection, on the peer's copy of the pool.
AddBegins(c) ==
  /\ conn[c] = "new"
  /\ Begin(<<c, "dial">>, "copy", TRUE)
  /\ conn' = [conn EXCEPT ![c] = "adding"]
  /\ UNCHANGED <<vars, id, ctxDone, remover, mapping, netVars, relay, crashed>>

\* Mutant: no goroutine waits for the end of the context.
AddEndsForGood(c) ==
  /\ conn[c] = "adding"
  /\ End(<<c, "dial">>)
  /\ mapping' = [mapping EXCEPT ![id[c]] = c]
  /\ conn' = [conn EXCEPT ![c] = "added"]
  /\ UNCHANGED <<vars, id, ctxDone, remover, netVars, relay, faultVars>>

\* The entry is there; the goroutine that will remove it starts.
AddEnds(c) ==
  /\ conn[c] = "adding"
  /\ End(<<c, "dial">>)
  /\ mapping' = [mapping EXCEPT ![id[c]] = c]
  /\ conn' = [conn EXCEPT ![c] = "added"]
  /\ remover' = [remover EXCEPT ![c] = "waiting"]
  /\ UNCHANGED <<vars, id, ctxDone, netVars, relay, faultVars>>

\* sendQueue <- blk waits for room.
Send(kind, c) ==
  /\ Len(sendQueue) < QueueSize
  /\ sendQueue' = Append(sendQueue, <<kind, c>>)

\* Mutant: SendConnect comes before addConnection.
SendConnectFirst(c) ==
  /\ conn[c] \in {"new", "adding", "added"} /\ stage[c] = "dial"
  /\ Dial(c)
  /\ Send("connect", c)
  /\ conn' = [conn EXCEPT ![c] = IF @ = "added" THEN "open" ELSE @]
  /\ UNCHANGED <<id, ctxDone, mapVars, opened, answers, incoming, relay, faultVars>>

\* SendConnect, with which Dial is over.
SendConnect(c) ==
  /\ conn[c] = "added"
  /\ Dial(c)
  /\ Send("connect", c)
  /\ conn' = [conn EXCEPT ![c] = "open"]
  /\ UNCHANGED <<id, ctxDone, mapVars, opened, answers, incoming, relay, faultVars>>

-----------------------------------------------------------------------------
(* The end of a connection.                                                *)

\* The server's Disconnect, its last block, has come.
Disconnected(c) ==
  c \notin opened /\ answers[c] > 0 /\ incoming[c] = 0 /\ relay.owner # c

\* Mutant: only the caller that sets closed stops the connection.
CloseOnce(c) ==
  /\ conn[c] = "open"
  /\ \/ /\ Send("disconnect", c)
        /\ conn' = [conn EXCEPT ![c] = "closed"]
        /\ ctxDone' = [ctxDone EXCEPT ![c] = TRUE]
     \/ /\ Disconnected(c)
        /\ conn' = [conn EXCEPT ![c] = "stopped"]
        /\ UNCHANGED <<sendQueue, ctxDone>>
  /\ UNCHANGED <<vars, id, mapVars, opened, answers, incoming, relay, faultVars>>

\* Close, by a relay that fails or at the end of biRelay.  It sends a Disconnect
\* and closes the channels, unless a Disconnect read from the server has set
\* closed before; Stop ends the context.
Close(c) ==
  /\ conn[c] = "open"
  /\ \/ /\ Send("disconnect", c)
        /\ conn' = [conn EXCEPT ![c] = "closed"]
     \/ /\ Disconnected(c)
        /\ conn' = [conn EXCEPT ![c] = "stopped"]
        /\ UNCHANGED sendQueue
  /\ ctxDone' = [ctxDone EXCEPT ![c] = TRUE]
  /\ UNCHANGED <<vars, id, mapVars, opened, answers, incoming, relay, faultVars>>

\* Both relays have ended and the connection is closed: biRelay returns.
BiRelayReturns(c) ==
  /\ conn[c] \in {"closed", "stopped"}
  /\ RelayEnds(c)
  /\ UNCHANGED peerVars

\* The hole timeout of its OrderedRelay ends the context of a connection.
HoleStops(c) ==
  /\ conn[c] = "open" /\ ~ctxDone[c]
  /\ ctxDone' = [ctxDone EXCEPT ![c] = TRUE]
  /\ UNCHANGED <<vars, conn, id, mapVars, netVars, relay, faultVars>>

\* <-connCtx.Done(), then removeConnection on the copy of the pool.
RemoveBegins(c) ==
  /\ remover[c] = "waiting" /\ ctxDone[c]
  /\ Begin(<<c, "remove">>, "copy", TRUE)
  /\ remover' = [remover EXCEPT ![c] = "removing"]
  /\ UNCHANGED <<vars, connVars, mapping, netVars, relay, crashed>>

\* The entry of the ID is deleted, whichever connection has it.
RemoveEnds(c) ==
  /\ remover[c] = "removing"
  /\ End(<<c, "remove">>)
  /\ mapping' = [mapping EXCEPT ![id[c]] = NoConn]
  /\ remover' = [remover EXCEPT ![c] = "done"]
  /\ UNCHANGED <<vars, connVars, netVars, relay, faultVars>>

-----------------------------------------------------------------------------
(* The relays of the pool, and the server.                                 *)

\* sendRelay hands a block to the tunnels, which bring it to the server.
SendRelay ==
  /\ sendQueue # <<>>
  /\ sendQueue' = Tail(sendQueue)
  /\ opened' = IF Head(sendQueue)[1] = "connect" THEN opened \cup {Head(sendQueue)[2]}
               ELSE opened
  /\ UNCHANGED <<vars, connVars, mapVars, answers, incoming, relay, faultVars>>

\* The server sends to a connection that it knows, and a tunnel brings the
\* block: data, or the Disconnect with which it forgets the connection.
ServerAnswers(c) ==
  /\ c \in opened /\ answers[c] < MaxAnswers
  /\ answers' = [answers EXCEPT ![c] = @ + 1]
  /\ incoming' = [incoming EXCEPT ![c] = @ + 1]
  /\ opened' = opened \/ opened' = opened \ {c}
  /\ UNCHANGED <<vars, connVars, mapVars, sendQueue, relay, faultVars>>

\* recvRelay takes a block and looks its ID up in the original pool.
LookupBegins(c) ==
  /\ relay.at = "select" /\ incoming[c] > 0
  /\ Begin(Relay, "original", FALSE)
  /\ incoming' = [incoming EXCEPT ![c] = @ - 1]
  /\ relay' = [at |-> "lookup", owner |-> c, found |-> NoConn]
  /\ UNCHANGED <<vars, connVars, remover, mapping, sendQueue, opened, answers, crashed>>

LookupEnds ==
  /\ relay.at = "lookup"
  /\ End(Relay)
  /\ \E found \in {mapping[id[relay.owner]]} \cup (IF raced THEN {NoConn} ELSE {}) :
       relay' = [relay EXCEPT !.at = "looked", !.found = found]
  /\ UNCHANGED <<vars, connVars, remover, mapping, netVars, faultVars>>

\* RecvBlock of the connection found, or "Unknown connection".  To send to a
\* channel that Close has closed ends the program.
Deliver ==
  /\ relay.at = "looked"
  /\ relay' = Selecting
  /\ crashed' = (relay.found # NoConn /\ conn[relay.found] = "closed")
  /\ UNCHANGED <<vars, connVars, mapVars, netVars, raced>>

-----------------------------------------------------------------------------
\* The negotiation of a program, as in Socks5.
Negotiates(c) ==
  /\ Select(c) \/ Check(c) \/ Answer(c)
  /\ UNCHANGED peerVars

HearsFrom(c) ==
  /\ Receive(c) \/ Refuse(c)
  /\ UNCHANGED peerVars

\* The goroutine of a program up to biRelay, and its remover.
Works(c) ==
  \/ Negotiates(c) \/ \E i \in IDs : NewConnection(c, i)
  \/ AddBegins(c) \/ AddEnds(c) \/ SendConnect(c)

Removes(c) == RemoveBegins(c) \/ RemoveEnds(c)

Relays ==
  \/ SendRelay
  \/ \E c \in Clients : LookupBegins(c)
  \/ LookupEnds \/ Deliver

PeerNext ==
  \/ /\ ~crashed
     /\ \/ \E c \in Clients :
             \/ HearsFrom(c) \/ Works(c) \/ Close(c) \/ BiRelayReturns(c) \/ HoleStops(c)
             \/ Removes(c) \/ ServerAnswers(c)
        \/ Relays
  \/ Crash

PeerSpec == PeerInit /\ [][PeerNext]_allVars

\* The client does not stand still while one of its goroutines can run, and a
\* tunnel takes the blocks.  What the program and the server do, and whether
\* biRelay ends, is up to them.
Goroutines ==
  /\ ~crashed
  /\ (\E c \in Clients : Works(c) \/ Removes(c)) \/ Relays

PeerFairSpec == PeerSpec /\ WF_allVars(Goroutines)

-----------------------------------------------------------------------------
(* Properties.                                                             *)

\* Two connections have drawn the same ID.
Shares(c) == \E d \in Clients : d # c /\ conn[d] # "none" /\ id[d] = id[c]

\* A block from the server goes to the connection that asked for it.  It is
\* "Unknown" only after the connection has ended, or when the lookup raced with
\* a write under the other lock: the entry is made before the Connect is sent
\* and stays until the context is done.  Connections that drew the same random
\* ID are excepted.
ReplyFindsItsConnection ==
  relay.at = "looked" /\ ~Shares(relay.owner) =>
    \/ relay.found = relay.owner
    \/ /\ relay.found = NoConn
       /\ ctxDone[relay.owner] \/ raced

\* Every entry of connectionMapping is taken out again: it leads to a connection
\* of its ID whose remover has still to do so.  This survives two connections
\* that drew the same ID, although the later one takes the entry of the other
\* and the first removal deletes it for both.
EntriesAreRemoved ==
  \A i \in IDs :
    mapping[i] # NoConn =>
      id[mapping[i]] = i /\ remover[mapping[i]] \in {"waiting", "removing"}

Unmapped(c) == \A i \in IDs : mapping[i] # c

\* While a tunnel takes the blocks Dial does not hang, and a connection that has
\* ended, by Close from either side or by its context, leaves no entry in
\* connectionMapping.  How long biRelay goes on in between is not for the client
\* alone to say: it waits for the server's side too.
NothingLeftBehind ==
  <>[](crashed \/ \A c \in Clients :
                    /\ stage[c] # "dial"
                    /\ ctxDone[c] \/ stage[c] = "closed" => Unmapped(c))

\* mappingLock is there to keep lookups and changes of the map apart.
MapNeverRaces == ~Racing
=============================================================================
