--------------------------- MODULE ClientPeerProofs ---------------------------
(***************************************************************************)
(* For any number of local programs and IDs: ClientPeer implements Socks5, *)
(* nothing is dialled before the negotiation is complete, replies find     *)
(* their connections, and every entry of connectionMapping has a goroutine *)
(* that will remove it.                                                    *)
(***************************************************************************)
EXTENDS ClientPeer, SequenceTheorems, TLAPS

\* What has been written to a program whose negotiation has succeeded.
FullRun(c) ==
  CASE c \in Auth -> <<"password", "authSuccess", "success">>
    [] c \in Forward -> <<>>
    [] OTHER -> <<"none", "success">>

\* What has been written when a stage is reached.
WrittenAt(c, s) ==
  CASE s \in {"greeting", "select"} -> <<>>
    [] s \in {"login", "check"} -> <<"password">>
    [] s \in {"request", "reply"} ->
         IF c \in Auth THEN <<"password", "authSuccess">> ELSE <<"none">>
    [] OTHER -> FullRun(c)

\* The stages of a negotiation, with what each rests on.
StageInv(c) ==
  /\ stage[c] # "closed" => replies[c] = WrittenAt(c, stage[c])
  /\ stage[c] \in {"login", "check"} => c \in Auth
  /\ c \in Forward => stage[c] \in {"dial", "relay", "closed"}
  /\ stage[c] \notin {"greeting", "select", "closed"} /\ c \notin Forward => Needed(c) \in offered[c]
  /\ stage[c] \in {"request", "reply", "dial", "relay"} /\ c \in Auth => login[c] = "right"
  /\ stage[c] \in {"dial", "relay"} => ~Rejected(asked[c])
  /\ stage[c] \notin {"relay", "closed"} => dialed[c] = <<>>
  /\ stage[c] = "relay" => dialed[c] = <<Target(asked[c])>>

\* ServedByTheProtocol for one program.
Served(c) ==
  dialed[c] # <<>> =>
    /\ c \notin Forward => Needed(c) \in offered[c]
    /\ c \in Auth => login[c] = "right"
    /\ replies[c] = FullRun(c)
    /\ dialed[c] = <<Target(asked[c])>> /\ ~Rejected(asked[c])

ProtocolInv == \A c \in Clients : StageInv(c) /\ Served(c)

\* A reply is one more message.
LEMMA ReplyTyped ==
  ASSUME NEW c \in Clients, NEW what \in Messages,
         replies \in [Clients -> Seq(Messages)], Reply(c, what)
  PROVE  replies' \in [Clients -> Seq(Messages)]
<1>1. Append(replies[c], what) \in Seq(Messages)
  OBVIOUS
<1> QED
  BY <1>1 DEF Reply

\* The runs of the protocol grow by one message.
LEMMA Appends ==
  ASSUME NEW M, NEW x \in M, NEW y \in M, NEW z \in M
  PROVE  /\ Append(<<>>, x) = <<x>>
         /\ Append(<<x>>, y) = <<x, y>>
         /\ Append(<<x, y>>, z) = <<x, y, z>>
<1>1. Append(<<>>, x) = <<x>>
  OBVIOUS
<1>2. Append(<<x>>, y) = <<x, y>>
  <2> DEFINE s == Append(<<x>>, y)
             t == <<x, y>>
  <2>1. s \in Seq(M) /\ t \in Seq(M) /\ Len(s) = 2 /\ Len(t) = 2
    OBVIOUS
  <2>2. \A i \in 1 .. 2 : s[i] = t[i]
    OBVIOUS
  <2> QED
    BY <2>1, <2>2, SeqEqual, Zenon
<1>3. Append(<<x, y>>, z) = <<x, y, z>>
  <2> DEFINE s == Append(<<x, y>>, z)
             t == <<x, y, z>>
  <2>1. s \in Seq(M) /\ t \in Seq(M) /\ Len(s) = 3 /\ Len(t) = 3
    OBVIOUS
  <2>2. \A i \in 1 .. 3 : s[i] = t[i]
    OBVIOUS
  <2> QED
    BY <2>1, <2>2, SeqEqual, Zenon
<1> QED
  BY <1>1, <1>2, <1>3

LEMMA Runs ==
  /\ Append(<<>>, "none") = <<"none">>
  /\ Append(<<>>, "password") = <<"password">>
  /\ Append(<<"password">>, "authSuccess") = <<"password", "authSuccess">>
  /\ Append(<<"none">>, "success") = <<"none", "success">>
  /\ Append(<<"password", "authSuccess">>, "success") = <<"password", "authSuccess", "success">>
<1>1. {"none", "password", "authSuccess", "success"} \subseteq Messages
  BY DEF Messages
<1> QED
  BY <1>1, Appends, Zenon

\* The negotiation's state keeps its types.
LEMMA ListenerTypes == Spec => []TypeOK
<1> USE ClientsAssumption DEF Destination, NoRequest
<1>1. Init => TypeOK
  BY DEF Init, TypeOK
<1>2. TypeOK /\ [Next]_vars => TypeOK'
  <2> SUFFICES ASSUME TypeOK, [Next]_vars PROVE TypeOK'
    OBVIOUS
  <2> USE DEF TypeOK, Goes
  <2>1. ASSUME NEW c \in Clients, Refuse(c) PROVE TypeOK'
    BY <2>1 DEF Refuse
  <2>3. ASSUME NEW c \in Clients, NEW methods \in Offers, Greeting(c, methods) PROVE TypeOK'
    BY <2>3 DEF Greeting
  <2>4. ASSUME NEW c \in Clients, Select(c) PROVE TypeOK'
    <3>1. Needed(c) \in Messages
      BY DEF Needed, Messages
    <3>2. replies' \in [Clients -> Seq(Messages)]
      BY <2>4, <3>1, ReplyTyped DEF Select, Messages
    <3> QED
      BY <2>4, <3>2, Zenon DEF Select
  <2>5. ASSUME NEW c \in Clients, NEW l \in {"right", "wrong"}, Login(c, l) PROVE TypeOK'
    BY <2>5 DEF Login
  <2>6. ASSUME NEW c \in Clients, Check(c) PROVE TypeOK'
    <3>1. replies' \in [Clients -> Seq(Messages)]
      BY <2>6, ReplyTyped DEF Check, Messages
    <3> QED
      BY <2>6, <3>1, Zenon DEF Check
  <2>7. ASSUME NEW c \in Clients, NEW r \in Requests, Request(c, r) PROVE TypeOK'
    BY <2>7 DEF Request
  <2>8. ASSUME NEW c \in Clients, Answer(c) PROVE TypeOK'
    <3>1. RejectionOf(asked[c]) \in Messages
      BY DEF RejectionOf, Messages
    <3>2. replies' \in [Clients -> Seq(Messages)]
      BY <2>8, <3>1, ReplyTyped DEF Answer, Messages
    <3> QED
      BY <2>8, <3>2, Zenon DEF Answer
  <2>9. ASSUME NEW c \in Clients, Dial(c) PROVE TypeOK'
    BY <2>9 DEF Dial, Target
  <2>10. ASSUME NEW c \in Clients, RelayEnds(c) PROVE TypeOK'
    BY <2>10 DEF RelayEnds
  <2>11. ASSUME UNCHANGED vars PROVE TypeOK'
    BY <2>11 DEF vars
  <2> QED
    BY <2>1, <2>3, <2>4, <2>5, <2>6, <2>7, <2>8, <2>9, <2>10, <2>11
       DEF Next, Serve, Receive
<1> QED
  BY <1>1, <1>2, PTL DEF Spec

\* Dial comes after the whole negotiation: what is written, offered, sent and
\* asked at each stage is what that stage rests on.
THEOREM DialsAfterProtocol == Spec => []ServedByTheProtocol
<1> USE ClientsAssumption
<1>1. Init => ProtocolInv
  <2> SUFFICES ASSUME Init, NEW c \in Clients PROVE StageInv(c) /\ Served(c)
    BY Zenon DEF ProtocolInv
  <2>1. dialed[c] = <<>> /\ replies[c] = <<>>
    BY DEF Init
  <2>2. CASE c \in Forward
    <3>1. FullRun(c) = <<>>
      BY <2>2 DEF FullRun
    <3> QED
      BY <2>1, <2>2, <3>1 DEF Init, StageInv, Served, WrittenAt, Destination, Rejected
  <2>3. CASE c \notin Forward
    BY <2>1, <2>3 DEF Init, StageInv, Served, WrittenAt
  <2> QED
    BY <2>2, <2>3
<1>2. TypeOK /\ ProtocolInv /\ [Next]_vars => ProtocolInv'
  <2> SUFFICES ASSUME TypeOK, ProtocolInv, [Next]_vars, NEW d \in Clients
               PROVE  StageInv(d)' /\ Served(d)'
    BY DEF ProtocolInv
  <2>0. StageInv(d) /\ Served(d)
    BY DEF ProtocolInv
  <2> USE DEF TypeOK, Goes, Reply, StageInv, Served, Needed
  <2>1. ASSUME NEW c \in Clients, Refuse(c) PROVE StageInv(d)' /\ Served(d)'
    BY <2>0, <2>1 DEF Refuse, WrittenAt
  <2>3. ASSUME NEW c \in Clients, NEW methods \in Offers, Greeting(c, methods) PROVE StageInv(d)' /\ Served(d)'
    BY <2>0, <2>3 DEF Greeting, WrittenAt
  <2>4. ASSUME NEW c \in Clients, Select(c) PROVE StageInv(d)' /\ Served(d)'
    <3>1. CASE c # d
      BY <2>0, <2>4, <3>1, Zenon DEF Select, WrittenAt
    <3>2. CASE c = d
      <4>1. stage[d] = "select" /\ replies[d] = <<>> /\ dialed[d] = <<>> /\ d \notin Forward
        BY <2>0, <2>4, <3>2 DEF Select, WrittenAt
      <4>2. UNCHANGED <<offered, login, asked, dialed>>
        BY <2>4 DEF Select
      <4>3. CASE stage'[d] = "closed"
        BY <4>1, <4>2, <4>3
      <4>4. CASE stage'[d] # "closed"
        <5>1. /\ Needed(d) \in offered[d]
              /\ replies'[d] = Append(<<>>, Needed(d))
              /\ stage'[d] = IF d \in Auth THEN "login" ELSE "request"
          BY <2>4, <3>2, <4>1, <4>4 DEF Select
        <5>2. replies'[d] = WrittenAt(d, stage'[d])
          BY <5>1, Runs DEF WrittenAt
        <5> QED
          BY <4>1, <4>2, <5>1, <5>2, Zenon
      <4> QED
        BY <4>3, <4>4
    <3> QED
      BY <3>1, <3>2, Zenon
  <2>5. ASSUME NEW c \in Clients, NEW l \in {"right", "wrong"}, Login(c, l) PROVE StageInv(d)' /\ Served(d)'
    BY <2>0, <2>5 DEF Login, WrittenAt
  <2>6. ASSUME NEW c \in Clients, Check(c) PROVE StageInv(d)' /\ Served(d)'
    <3>1. CASE c # d
      BY <2>0, <2>6, <3>1, Zenon DEF Check, WrittenAt
    <3>2. CASE c = d
      <4>1. stage[d] = "check" /\ replies[d] = <<"password">> /\ dialed[d] = <<>> /\ d \in Auth
        BY <2>0, <2>6, <3>2 DEF Check, WrittenAt
      <4>2. UNCHANGED <<offered, login, asked, dialed>>
        BY <2>6 DEF Check
      <4>3. CASE stage'[d] = "closed"
        BY <2>0, <4>1, <4>2, <4>3
      <4>4. CASE stage'[d] # "closed"
        <5>1. /\ login[d] = "right" /\ stage'[d] = "request"
              /\ replies'[d] = Append(<<"password">>, "authSuccess")
          BY <2>6, <3>2, <4>1, <4>4 DEF Check
        <5>2. replies'[d] = WrittenAt(d, stage'[d])
          BY <4>1, <5>1, Runs DEF WrittenAt
        <5> QED
          BY <2>0, <4>1, <4>2, <5>1, <5>2, Zenon
      <4> QED
        BY <4>3, <4>4
    <3> QED
      BY <3>1, <3>2
  <2>7. ASSUME NEW c \in Clients, NEW r \in Requests, Request(c, r) PROVE StageInv(d)' /\ Served(d)'
    BY <2>0, <2>7 DEF Request, WrittenAt
  <2>8. ASSUME NEW c \in Clients, Answer(c) PROVE StageInv(d)' /\ Served(d)'
    <3>1. CASE c # d
      <4>1. stage'[d] = stage[d] /\ replies'[d] = replies[d]
        BY <2>8, <3>1 DEF Answer
      <4>2. UNCHANGED <<offered, login, asked, dialed>>
        BY <2>8 DEF Answer
      <4> QED
        BY <2>0, <4>1, <4>2 DEF WrittenAt
    <3>2. CASE c = d
      <4>1. /\ stage[d] = "reply" /\ dialed[d] = <<>> /\ d \notin Forward
            /\ replies[d] = IF d \in Auth THEN <<"password", "authSuccess">> ELSE <<"none">>
        BY <2>0, <2>8, <3>2 DEF Answer, WrittenAt
      <4>2. UNCHANGED <<offered, login, asked, dialed>>
        BY <2>8 DEF Answer
      <4>3. CASE stage'[d] = "closed"
        BY <2>0, <4>1, <4>2, <4>3
      <4>4. CASE stage'[d] # "closed"
        <5>1. /\ ~Rejected(asked[d]) /\ stage'[d] = "dial"
              /\ replies'[d] = Append(replies[d], "success")
          BY <2>8, <3>2, <4>1, <4>4 DEF Answer
        <5>2. replies'[d] = FullRun(d)
          BY <4>1, <5>1, Runs, Zenon DEF FullRun
        <5> QED
          BY <2>0, <4>1, <4>2, <5>1, <5>2 DEF WrittenAt, Rejected
      <4> QED
        BY <4>3, <4>4
    <3> QED
      BY <3>1, <3>2
  <2>9. ASSUME NEW c \in Clients, Dial(c) PROVE StageInv(d)' /\ Served(d)'
    <3>1. CASE c # d
      BY <2>0, <2>9, <3>1 DEF Dial, WrittenAt
    <3>2. CASE c = d
      BY <2>0, <2>9, <3>2, Appends DEF Dial, WrittenAt
    <3> QED
      BY <3>1, <3>2
  <2>10. ASSUME NEW c \in Clients, RelayEnds(c) PROVE StageInv(d)' /\ Served(d)'
    BY <2>0, <2>10 DEF RelayEnds, WrittenAt
  <2>11. ASSUME UNCHANGED vars PROVE StageInv(d)' /\ Served(d)'
    BY <2>0, <2>11 DEF vars
  <2> QED
    BY <2>1, <2>3, <2>4, <2>5, <2>6, <2>7, <2>8, <2>9, <2>10, <2>11, Zenon
       DEF Next, Serve, Receive
<1>3. ProtocolInv => ServedByTheProtocol
  BY DEF ProtocolInv, Served, FullRun, ServedByTheProtocol
<1> QED
  BY <1>1, <1>2, <1>3, ListenerTypes, PTL DEF Spec
-----------------------------------------------------------------------------
(* The composition.                                                        *)

\* Sharing a peer adds nothing to what a program sees: each step of ClientPeer
\* is a step of Socks5 or leaves its state alone.
THEOREM ImplementsSocks5 == PeerSpec => Spec
<1>1. PeerInit => Init
  BY DEF PeerInit
<1>2. [PeerNext]_allVars => [Next]_vars
  <2> SUFFICES ASSUME [PeerNext]_allVars PROVE [Next]_vars
    OBVIOUS
  <2>1. ASSUME NEW c \in Clients, HearsFrom(c) PROVE Next
    BY <2>1 DEF HearsFrom, Next
  <2>2. ASSUME NEW c \in Clients, Works(c) PROVE Next \/ UNCHANGED vars
    <3>1. CASE Negotiates(c)
      BY <3>1 DEF Negotiates, Next, Serve
    <3>2. CASE SendConnect(c)
      BY <3>2 DEF SendConnect, Next, Serve
    <3>3. CASE AddBegins(c) \/ AddEnds(c) \/ \E i \in IDs : NewConnection(c, i)
      BY <3>3, Zenon DEF AddBegins, AddEnds, NewConnection
    <3> QED
      BY <2>2, <3>1, <3>2, <3>3 DEF Works
  <2>3. ASSUME NEW c \in Clients,
               Close(c) \/ HoleStops(c) \/ Removes(c) \/ ServerAnswers(c)
        PROVE  UNCHANGED vars
    BY <2>3, Zenon DEF Close, HoleStops, Removes, RemoveBegins, RemoveEnds, ServerAnswers
  <2>4. ASSUME Relays \/ Crash PROVE UNCHANGED vars
    BY <2>4, Zenon DEF Relays, SendRelay, LookupBegins, LookupEnds, Deliver, Crash
  <2>5. ASSUME UNCHANGED allVars PROVE UNCHANGED vars
    BY <2>5 DEF allVars
  <2>6. ASSUME NEW c \in Clients, BiRelayReturns(c) PROVE Next
    BY <2>6 DEF BiRelayReturns, Next, Serve
  <2> QED
    BY <2>1, <2>2, <2>3, <2>4, <2>5, <2>6 DEF PeerNext
<1> QED
  BY <1>1, <1>2, PTL DEF PeerSpec, Spec
-----------------------------------------------------------------------------
(* Replies.                                                                *)

\* The types that the argument needs.
RouteTypes ==
  /\ conn \in [Clients -> {"none", "new", "adding", "added", "open", "closed", "stopped"}]
  /\ id \in [Clients -> IDs]
  /\ ctxDone \in [Clients -> BOOLEAN]
  /\ remover \in [Clients -> {"none", "waiting", "removing", "done"}]
  /\ mapping \in [IDs -> Clients \cup {NoConn}]
  /\ sendQueue \in Seq({"connect", "disconnect"} \X Clients)
  /\ opened \subseteq Clients
  /\ incoming \in [Clients -> Nat]
  /\ relay \in [at : {"select", "lookup", "looked"}, owner : Clients \cup {NoConn},
               found : Clients \cup {NoConn}]

Dialled == {c \in Clients : conn[c] \in {"open", "closed", "stopped"}}
Entered == {c \in Clients : conn[c] \in {"added", "open", "closed", "stopped"}}

\* The server knows a connection, and blocks for it are on their way, only
\* after its Connect was sent, and so after it was entered.
SentInv ==
  /\ \A k \in 1 .. Len(sendQueue) : sendQueue[k][2] \in Dialled
  /\ opened \subseteq Dialled
  /\ \A c \in Clients : incoming[c] > 0 => c \in Dialled
  /\ relay.at # "select" => relay.owner \in Dialled

\* An entry leads to a connection of its ID; a connection that was entered has
\* the entry while its context lives, but for connections with the same ID.
EntryInv ==
  /\ \A i \in IDs : mapping[i] # NoConn => mapping[i] \in Entered /\ id[mapping[i]] = i
  /\ \A c \in Entered : ~Shares(c) /\ ~ctxDone[c] => mapping[id[c]] = c
  /\ \A c \in Clients : remover[c] # "none" => c \in Entered
  /\ \A c \in Clients : remover[c] = "removing" => ctxDone[c]

RouteInv == RouteTypes /\ SentInv /\ EntryInv /\ ReplyFindsItsConnection

\* Connections only advance: what was sent stays sent.
LEMMA SentKept ==
  ASSUME SentInv, Dialled \subseteq Dialled', UNCHANGED <<sendQueue, opened, incoming, relay>>
  PROVE  SentInv'
  BY DEF SentInv

\* The same when a block of a connection joins sendQueue.
LEMMA SentAppends ==
  ASSUME RouteTypes, SentInv, Dialled \subseteq Dialled', UNCHANGED <<opened, incoming, relay>>,
         NEW kind \in {"connect", "disconnect"}, NEW c \in Clients, c \in Dialled',
         sendQueue' = Append(sendQueue, <<kind, c>>)
  PROVE  SentInv' /\ sendQueue' \in Seq({"connect", "disconnect"} \X Clients)
<1>1. <<kind, c>> \in {"connect", "disconnect"} \X Clients /\ <<kind, c>>[2] = c
  OBVIOUS
<1>2. sendQueue \in Seq({"connect", "disconnect"} \X Clients)
  BY DEF RouteTypes
<1> DEFINE b == <<kind, c>>
<1> HIDE DEF b
<1>3. /\ Len(sendQueue') = Len(sendQueue) + 1
      /\ \A k \in 1 .. Len(sendQueue) : sendQueue'[k] = sendQueue[k]
      /\ sendQueue'[Len(sendQueue) + 1] = b
      /\ sendQueue' \in Seq({"connect", "disconnect"} \X Clients)
  BY <1>1, <1>2 DEF b
<1>4. \A k \in 1 .. Len(sendQueue') : k \in 1 .. Len(sendQueue) \/ k = Len(sendQueue) + 1
  BY <1>2, <1>3
<1>5. \A k \in 1 .. Len(sendQueue') : sendQueue'[k][2] \in Dialled'
  BY <1>1, <1>3, <1>4 DEF SentInv, b
<1>6. \A d \in Clients : incoming'[d] > 0 => d \in Dialled'
  BY DEF SentInv
<1> QED
  BY <1>3, <1>5, <1>6 DEF SentInv

\* Entries are right as long as no connection is entered or removed.
LEMMA EntryKept ==
  ASSUME EntryInv, Entered' = Entered, UNCHANGED <<id, mapping>>,
         \A c \in Clients : ctxDone[c] => ctxDone'[c],
         \A c \in Clients : conn[c] # "none" => conn'[c] # "none",
         \A c \in Clients : remover'[c] = remover[c] \/ (remover[c] = "waiting" /\ ctxDone'[c])
  PROVE  EntryInv'
<1>1. \A c \in Clients : Shares(c) => Shares(c)'
  BY DEF Shares
<1>2. Entered \subseteq Clients
  BY DEF Entered
<1>3. \A i \in IDs : mapping'[i] # NoConn => mapping'[i] \in Entered' /\ id'[mapping'[i]] = i
  BY DEF EntryInv
<1>4. \A c \in Entered' : ~Shares(c)' /\ ~ctxDone'[c] => mapping'[id'[c]] = c
  BY <1>1, <1>2 DEF EntryInv
<1>5. \A c \in Clients : remover'[c] # "none" => c \in Entered'
  BY DEF EntryInv
<1>6. \A c \in Clients : remover'[c] = "removing" => ctxDone'[c]
  BY DEF EntryInv
<1> QED
  BY <1>3, <1>4, <1>5, <1>6 DEF EntryInv

\* A reply that has been looked up stays right while its connection ages.
LEMMA ReplyKept ==
  ASSUME ReplyFindsItsConnection, RouteTypes, SentInv, UNCHANGED <<relay, raced>>,
         \A c \in Dialled : id'[c] = id[c] /\ (ctxDone[c] => ctxDone'[c]),
         \A c \in Clients : conn[c] # "none" => conn'[c] # "none" /\ id'[c] = id[c]
  PROVE  ReplyFindsItsConnection'
<1> SUFFICES ASSUME relay.at = "looked", ~Shares(relay.owner)' PROVE ReplyFindsItsConnection'
  BY Zenon DEF ReplyFindsItsConnection
<1>1. relay.owner \in Dialled
  BY DEF SentInv
<1>2. Shares(relay.owner) => Shares(relay.owner)'
  BY <1>1 DEF Shares
<1> QED
  BY <1>1, <1>2 DEF ReplyFindsItsConnection

\* The steps that leave what RouteInv is about alone.
LEMMA RouteStutters ==
  ASSUME RouteInv,
         UNCHANGED <<conn, id, ctxDone, mapping, sendQueue, opened, incoming, relay>>,
         UNCHANGED <<raced, remover>>
  PROVE  RouteInv'
<1>1. Dialled' = Dialled /\ Entered' = Entered
  BY DEF Dialled, Entered
<1>2. RouteTypes'
  BY DEF RouteInv, RouteTypes
<1>3. SentInv' /\ EntryInv'
  BY <1>1, SentKept, EntryKept DEF RouteInv
<1>4. ReplyFindsItsConnection'
  BY ReplyKept DEF RouteInv
<1> QED
  BY <1>2, <1>3, <1>4 DEF RouteInv

\* The invariant that the two theorems below rest on.
LEMMA RouteInvariant == PeerSpec => []RouteInv
<1> USE PeerAssumption
<1>1. PeerInit => RouteInv
  <2> SUFFICES ASSUME PeerInit PROVE RouteInv
    OBVIOUS
  <2>1. AnyID \in IDs
    BY DEF AnyID
  <2>2. RouteTypes
    BY <2>1 DEF PeerInit, RouteTypes, Selecting
  <2> QED
    BY <2>2 DEF PeerInit, RouteInv, SentInv, EntryInv, ReplyFindsItsConnection, Dialled,
                Entered, Selecting
<1>2. RouteInv /\ [PeerNext]_allVars => RouteInv'
  <2> SUFFICES ASSUME RouteInv, [PeerNext]_allVars PROVE RouteInv'
    OBVIOUS
  <2> USE DEF RouteInv
  <2>1. ASSUME NEW c \in Clients, NEW i \in IDs, NewConnection(c, i) PROVE RouteInv'
    <3> USE <2>1 DEF NewConnection, mapVars, netVars, faultVars
    <3>1. RouteTypes'
      BY DEF RouteTypes
    <3>2. SentInv'
      <4>1. Dialled \subseteq Dialled'
        BY DEF RouteTypes, Dialled
      <4> QED
        BY <4>1, SentKept
    <3>3. EntryInv'
      <4>1. Entered' = Entered /\ c \notin Entered
        BY DEF RouteTypes, Entered
      <4>2. \A d \in Clients : conn[d] # "none" => id'[d] = id[d] /\ conn'[d] # "none"
        BY DEF RouteTypes
      <4>3. \A d \in Entered : d \in Clients /\ conn[d] # "none"
        BY DEF Entered
      <4>4. \A d \in Entered : Shares(d) => Shares(d)'
        BY <4>2, <4>3 DEF Shares
      <4> QED
        BY <4>1, <4>2, <4>3, <4>4 DEF EntryInv
    <3>4. ReplyFindsItsConnection'
      BY ReplyKept DEF RouteTypes, Dialled
    <3> QED
      BY <3>1, <3>2, <3>3, <3>4
  <2>2. ASSUME NEW c \in Clients, AddBegins(c) PROVE RouteInv'
    <3> USE <2>2 DEF AddBegins, netVars
    <3>1. RouteTypes'
      BY DEF RouteTypes
    <3>2. SentInv'
      <4>1. Dialled \subseteq Dialled'
        BY DEF RouteTypes, Dialled
      <4> QED
        BY <4>1, SentKept
    <3>3. EntryInv'
      <4>1. Entered' = Entered
        BY DEF RouteTypes, Entered
      <4> QED
        BY <4>1, EntryKept DEF RouteTypes
    <3>4. ReplyFindsItsConnection'
      <4>1. raced => raced'
        <5>1. <<c, "dial">> # Relay
          BY DEF Relay
        <5> QED
          BY <5>1, Zenon DEF Begin
      <4> QED
        BY <4>1, Zenon DEF RouteTypes, SentInv, Dialled, ReplyFindsItsConnection, Shares
    <3> QED
      BY <3>1, <3>2, <3>3, <3>4
  <2>3. ASSUME NEW c \in Clients, AddEnds(c) PROVE RouteInv'
    <3> USE <2>3 DEF AddEnds, netVars, faultVars
    <3>1. RouteTypes'
      BY DEF RouteTypes
    <3>2. SentInv'
      <4>1. Dialled \subseteq Dialled'
        BY DEF RouteTypes, Dialled
      <4> QED
        BY <4>1, SentKept, Zenon
    <3>3. EntryInv'
      <4>0. id' = id /\ ctxDone' = ctxDone /\ c \in Clients /\ id \in [Clients -> IDs]
        BY DEF RouteTypes
      <4>1. Entered' = Entered \cup {c} /\ c \notin Entered /\ Entered \subseteq Clients
        BY DEF RouteTypes, Entered
      <4>2. \A d \in Clients : Shares(d)' <=> Shares(d)
        BY DEF RouteTypes, Shares
      <4>3. \A i \in IDs : mapping'[i] = IF i = id[c] THEN c ELSE mapping[i]
        BY DEF RouteTypes
      <4>4. \A d \in Entered : id[d] = id[c] => Shares(d)
        BY <4>1 DEF Shares
      <4>5. \A i \in IDs : mapping'[i] # NoConn => mapping'[i] \in Entered' /\ id'[mapping'[i]] = i
        BY ONLY EntryInv, <4>0, <4>1, <4>3, Zenon DEF EntryInv
      <4>6. \A d \in Entered' : ~Shares(d)' /\ ~ctxDone'[d] => mapping'[id'[d]] = d
        BY ONLY EntryInv, <4>0, <4>1, <4>2, <4>3, <4>4, Zenon DEF EntryInv
      <4>7. \A d \in Clients : remover'[d] # "none" => d \in Entered'
        BY <4>1 DEF EntryInv, RouteTypes
      <4>8. \A d \in Clients : remover'[d] = "removing" => ctxDone'[d]
        BY <4>1 DEF EntryInv, RouteTypes
      <4> QED
        BY <4>5, <4>6, <4>7, <4>8, Zenon DEF EntryInv
    <3>4. ReplyFindsItsConnection'
      BY ReplyKept, Zenon DEF RouteTypes, Dialled
    <3> QED
      BY <3>1, <3>2, <3>3, <3>4
  <2>4. ASSUME NEW c \in Clients, SendConnect(c) PROVE RouteInv'
    <3> USE <2>4 DEF SendConnect, Send, mapVars, faultVars
    <3>1. Dialled \subseteq Dialled' /\ c \in Dialled'
      BY DEF RouteTypes, Dialled
    <3>2. SentInv' /\ RouteTypes'
      <4>1. SentInv' /\ sendQueue' \in Seq({"connect", "disconnect"} \X Clients)
        BY <3>1, SentAppends
      <4> QED
        BY <4>1 DEF RouteTypes
    <3>3. EntryInv'
      <4>1. Entered' = Entered
        BY DEF RouteTypes, Entered
      <4> QED
        BY <4>1, EntryKept DEF RouteTypes
    <3>4. ReplyFindsItsConnection'
      BY ReplyKept DEF RouteTypes, Dialled
    <3> QED
      BY <3>1, <3>2, <3>3, <3>4
  <2>5. ASSUME NEW c \in Clients, Close(c) \/ HoleStops(c) PROVE RouteInv'
    <3>0. /\ conn[c] = "open"
          /\ ctxDone' = [ctxDone EXCEPT ![c] = TRUE]
          /\ \E s \in {"open", "closed", "stopped"} : conn' = [conn EXCEPT ![c] = s]
          /\ UNCHANGED <<id, remover, mapping, opened, incoming, relay, raced>>
          /\ \/ UNCHANGED sendQueue
             \/ sendQueue' = Append(sendQueue, <<"disconnect", c>>)
      <4>1. CASE Close(c)
        BY <4>1 DEF Close, Send, mapVars, faultVars
      <4>2. CASE HoleStops(c)
        BY <4>2 DEF HoleStops, mapVars, netVars, faultVars, RouteTypes
      <4> QED
        BY <2>5, <4>1, <4>2
    <3>1. Dialled' = Dialled /\ Entered' = Entered /\ c \in Dialled'
      BY <3>0 DEF RouteTypes, Dialled, Entered
    <3>2. SentInv' /\ sendQueue' \in Seq({"connect", "disconnect"} \X Clients)
      <4>1. CASE UNCHANGED sendQueue
        BY <3>0, <3>1, <4>1, SentKept DEF RouteTypes
      <4>2. CASE sendQueue' = Append(sendQueue, <<"disconnect", c>>)
        BY <3>0, <3>1, <4>2, SentAppends
      <4> QED
        BY <3>0, <4>1, <4>2
    <3>3. RouteTypes'
      BY <3>0, <3>2 DEF RouteTypes
    <3>4. EntryInv'
      BY <3>0, <3>1, EntryKept DEF RouteTypes
    <3>5. ReplyFindsItsConnection'
      BY <3>0, ReplyKept DEF RouteTypes, Dialled
    <3> QED
      BY <3>2, <3>3, <3>4, <3>5
  <2>6. ASSUME NEW c \in Clients, RemoveBegins(c) PROVE RouteInv'
    <3> USE <2>6 DEF RemoveBegins, connVars, netVars
    <3>1. RouteTypes'
      BY DEF RouteTypes
    <3>2. SentInv'
      <4>1. Dialled \subseteq Dialled'
        BY DEF RouteTypes, Dialled
      <4> QED
        BY <4>1, SentKept
    <3>3. EntryInv'
      <4>1. Entered' = Entered
        BY DEF RouteTypes, Entered
      <4> QED
        BY <4>1, EntryKept DEF RouteTypes
    <3>4. ReplyFindsItsConnection'
      <4>1. raced => raced'
        <5>1. <<c, "remove">> # Relay
          BY DEF Relay
        <5> QED
          BY <5>1, Zenon DEF Begin
      <4> QED
        BY <4>1, Zenon DEF RouteTypes, SentInv, Dialled, ReplyFindsItsConnection, Shares
    <3> QED
      BY <3>1, <3>2, <3>3, <3>4
  <2>7. ASSUME NEW c \in Clients, RemoveEnds(c) PROVE RouteInv'
    <3> USE <2>7 DEF RemoveEnds, connVars, netVars, faultVars
    <3>1. RouteTypes'
      BY DEF RouteTypes
    <3>2. SentInv'
      <4>1. Dialled \subseteq Dialled'
        BY DEF RouteTypes, Dialled
      <4> QED
        BY <4>1, SentKept, Zenon
    <3>3. EntryInv'
      <4>1. c \in Entered /\ ctxDone[c] /\ conn[c] # "none"
        BY Zenon DEF RouteTypes, EntryInv, Entered
      <4>2. Entered' = Entered /\ Entered \subseteq Clients /\ id' = id /\ ctxDone' = ctxDone
        BY Zenon DEF Entered
      <4>r. \A d \in Clients : remover'[d] = IF d = c THEN "done" ELSE remover[d]
        BY DEF RouteTypes
      <4>3. \A i \in IDs : mapping'[i] = IF i = id[c] THEN NoConn ELSE mapping[i]
        BY DEF RouteTypes
      <4>4. \A d \in Clients : (Shares(d)' <=> Shares(d)) /\ (d # c /\ id[d] = id[c] => Shares(d))
        BY <4>1, Zenon DEF Shares
      <4>5. \A i \in IDs : mapping'[i] # NoConn => mapping'[i] \in Entered' /\ id'[mapping'[i]] = i
        BY ONLY EntryInv, <4>2, <4>3, Zenon DEF EntryInv
      <4>6. \A d \in Entered' : ~Shares(d)' /\ ~ctxDone'[d] => mapping'[id'[d]] = d
        <5> SUFFICES ASSUME NEW d \in Entered, ~Shares(d), ~ctxDone[d] PROVE mapping'[id[d]] = d
          BY <4>2, <4>4, Zenon
        <5>1. d \in Clients /\ id[d] \in IDs /\ mapping[id[d]] = d
          BY <4>2, Zenon DEF RouteTypes, EntryInv
        <5>2. id[d] # id[c]
          BY <4>1, <4>4, <5>1, Zenon
        <5> QED
          BY <4>3, <5>1, <5>2, Zenon
      <4>7. \A d \in Clients : remover'[d] # "none" => d \in Entered'
        BY ONLY EntryInv, <4>1, <4>2, <4>r, Zenon DEF EntryInv
      <4>8. \A d \in Clients : remover'[d] = "removing" => ctxDone'[d]
        BY ONLY EntryInv, <4>2, <4>r, Zenon DEF EntryInv
      <4> QED
        BY <4>5, <4>6, <4>7, <4>8, Zenon DEF EntryInv
    <3>4. ReplyFindsItsConnection'
      BY ReplyKept, Zenon DEF RouteTypes, Dialled
    <3> QED
      BY <3>1, <3>2, <3>3, <3>4
  <2>8. ASSUME SendRelay PROVE RouteInv'
    <3> USE <2>8 DEF SendRelay, connVars, mapVars, faultVars
    <3>q. /\ sendQueue \in Seq({"connect", "disconnect"} \X Clients)
          /\ sendQueue # <<>> /\ sendQueue' = Tail(sendQueue) /\ opened \subseteq Clients
          /\ \/ opened' = opened \cup {Head(sendQueue)[2]}
             \/ opened' = opened
      BY Zenon DEF RouteTypes
    <3>0. /\ Len(sendQueue) \in Nat /\ Len(sendQueue) > 0
          /\ Len(sendQueue') = Len(sendQueue) - 1
          /\ \A k \in 1 .. Len(sendQueue') : sendQueue'[k] = sendQueue[k + 1]
          /\ Head(sendQueue) = sendQueue[1] /\ sendQueue[1][2] \in Clients
          /\ sendQueue' \in Seq({"connect", "disconnect"} \X Clients)
      <4> DEFINE B == {"connect", "disconnect"} \X Clients
      <4>1. sendQueue \in Seq(B)
        BY <3>q, Zenon
      <4>2. \A b \in B : b[2] \in Clients
        OBVIOUS
      <4> HIDE DEF B
      <4>3. /\ Len(sendQueue) \in Nat /\ Len(sendQueue) > 0
            /\ Len(sendQueue') = Len(sendQueue) - 1
            /\ \A k \in 1 .. Len(sendQueue') : sendQueue'[k] = sendQueue[k + 1]
            /\ Head(sendQueue) = sendQueue[1] /\ sendQueue[1] \in B
            /\ sendQueue' \in Seq(B)
        BY ONLY <3>q, <4>1
      <4> QED
        BY <4>2, <4>3, Zenon DEF B
    <3>1. RouteTypes'
      <4>1. opened' \subseteq Clients
        BY ONLY <3>q, <3>0
      <4>2. UNCHANGED <<conn, id, ctxDone, remover, mapping, incoming, relay>>
        BY Zenon
      <4> QED
        BY ONLY RouteTypes, <3>0, <4>1, <4>2, Zenon DEF RouteTypes
    <3>2. SentInv'
      <4>1. Dialled' = Dialled
        BY Zenon DEF Dialled
      <4>2. \A k \in 1 .. Len(sendQueue') : sendQueue'[k][2] \in Dialled
        <5>1. \A k \in 1 .. Len(sendQueue') : k + 1 \in 1 .. Len(sendQueue)
          BY ONLY <3>0
        <5> QED
          BY ONLY SentInv, <3>0, <5>1, SMTT(20) DEF SentInv
      <4>3. opened' \subseteq Dialled
        <5>1. sendQueue[1][2] \in Dialled
          BY ONLY SentInv, <3>0 DEF SentInv
        <5> QED
          BY ONLY SentInv, <3>q, <3>0, <5>1 DEF SentInv
      <4> QED
        BY <4>1, <4>2, <4>3, Zenon DEF SentInv
    <3>3. EntryInv'
      <4>1. Entered' = Entered
        BY DEF Entered
      <4> QED
        BY <4>1, EntryKept, Zenon
    <3>4. ReplyFindsItsConnection'
      BY ReplyKept, Zenon DEF RouteTypes, Dialled
    <3> QED
      BY <3>1, <3>2, <3>3, <3>4, Zenon
  <2>9. ASSUME NEW c \in Clients, ServerAnswers(c) PROVE RouteInv'
    <3> USE <2>9 DEF ServerAnswers, connVars, mapVars, faultVars
    <3>1. RouteTypes'
      <4>1. incoming' \in [Clients -> Nat]
        <5>1. incoming \in [Clients -> Nat] /\ incoming' = [incoming EXCEPT ![c] = @ + 1]
          BY DEF RouteTypes
        <5> QED
          BY ONLY <5>1
      <4>2. UNCHANGED <<conn, id, ctxDone, remover, mapping, sendQueue, relay>>
        OBVIOUS
      <4>3. opened' \subseteq opened
        OBVIOUS
      <4> QED
        BY ONLY RouteTypes, <4>1, <4>2, <4>3 DEF RouteTypes
    <3>2. SentInv'
      BY Zenon DEF RouteTypes, SentInv, Dialled
    <3>3. EntryInv'
      <4>1. Entered' = Entered
        BY DEF Entered
      <4> QED
        BY <4>1, EntryKept
    <3>4. ReplyFindsItsConnection'
      BY ReplyKept, Zenon DEF RouteTypes, Dialled
    <3> QED
      BY <3>1, <3>2, <3>3, <3>4
  <2>10. ASSUME NEW c \in Clients, LookupBegins(c) PROVE RouteInv'
    <3>0. /\ relay' = [at |-> "lookup", owner |-> c, found |-> NoConn]
          /\ incoming' = [incoming EXCEPT ![c] = @ - 1] /\ incoming[c] > 0
          /\ UNCHANGED <<conn, id, ctxDone, remover, mapping, sendQueue, opened>>
      BY <2>10 DEF LookupBegins, connVars
    <3> USE <3>0
    <3>1. RouteTypes'
      <4>1. incoming' \in [Clients -> Nat]
        <5>1. incoming \in [Clients -> Nat]
          BY DEF RouteTypes
        <5> QED
          BY ONLY <3>0, <5>1
      <4>2. relay' \in [at : {"select", "lookup", "looked"}, owner : Clients \cup {NoConn},
                       found : Clients \cup {NoConn}]
        OBVIOUS
      <4> QED
        BY ONLY RouteTypes, <3>0, <4>1, <4>2, Zenon DEF RouteTypes
    <3>2. SentInv'
      <4>1. Dialled' = Dialled /\ c \in Dialled
        BY Zenon DEF Dialled, SentInv
      <4>2. \A d \in Clients : incoming'[d] > 0 => incoming[d] > 0
        BY DEF RouteTypes
      <4>3. relay'.owner = c
        OBVIOUS
      <4> QED
        BY <4>1, <4>2, <4>3, Zenon DEF SentInv
    <3>3. EntryInv'
      <4>1. Entered' = Entered
        BY Zenon DEF Entered
      <4> QED
        BY <4>1, EntryKept, Zenon
    <3>4. ReplyFindsItsConnection'
      BY Zenon DEF RouteTypes, SentInv, Dialled, ReplyFindsItsConnection, Shares
    <3> QED
      BY <3>1, <3>2, <3>3, <3>4
  <2>11. ASSUME LookupEnds PROVE RouteInv'
    <3> USE DEF connVars, netVars, faultVars
    <3>1. PICK found \in {mapping[id[relay.owner]]} \cup (IF raced THEN {NoConn} ELSE {}) :
            relay' = [relay EXCEPT !.at = "looked", !.found = found]
      BY <2>11, Zenon DEF LookupEnds
    <3>2. relay.owner \in Clients /\ relay.owner \in Entered /\ relay.owner \in Dialled
      BY <2>11 DEF LookupEnds, SentInv, Dialled, Entered
    <3>3. found = mapping[id[relay.owner]] \/ (found = NoConn /\ raced)
      BY <3>1
    <3>4. found \in Clients \cup {NoConn}
      BY <3>2, <3>3 DEF RouteTypes
    <3>5. relay' = [at |-> "looked", owner |-> relay.owner, found |-> found]
      BY <3>1, Zenon DEF RouteTypes
    <3>6. UNCHANGED <<conn, id, ctxDone, remover, mapping, sendQueue, opened, incoming, raced>>
      BY <2>11 DEF LookupEnds
    <3>7. RouteTypes'
      BY <3>2, <3>4, <3>5, <3>6, Zenon DEF RouteTypes
    <3>8. SentInv'
      BY <3>2, <3>5, <3>6, Zenon DEF SentInv, Dialled
    <3>9. EntryInv'
      <4>1. Entered' = Entered
        BY <3>6 DEF Entered
      <4> QED
        BY <3>6, <4>1, EntryKept, Zenon
    <3>10. ReplyFindsItsConnection'
      <4> SUFFICES ASSUME ~Shares(relay.owner), ~ctxDone[relay.owner]
                   PROVE  found = relay.owner \/ (found = NoConn /\ raced)
        <5>1. relay'.owner = relay.owner /\ relay'.found = found
          BY <3>5, Zenon
        <5>2. Shares(relay.owner)' <=> Shares(relay.owner)
          BY <3>5, <3>6, Zenon DEF Shares
        <5>3. mapping[id[relay.owner]] = NoConn \/ mapping[id[relay.owner]] = relay.owner
              \/ Shares(relay.owner)
          <6> DEFINE d == mapping[id[relay.owner]]
          <6>1. id[relay.owner] \in IDs
            BY <3>2 DEF RouteTypes
          <6>2. d # NoConn => d \in Clients /\ conn[d] # "none" /\ id[d] = id[relay.owner]
            BY <6>1, Zenon DEF EntryInv, Entered
          <6> HIDE DEF d
          <6>3. d = NoConn \/ d = relay.owner \/ Shares(relay.owner)
            BY <6>2, Zenon DEF Shares
          <6> QED
            BY <6>3 DEF d
        <5> QED
          BY <3>3, <3>6, <5>1, <5>2, <5>3, Zenon DEF ReplyFindsItsConnection
      <4>1. mapping[id[relay.owner]] = relay.owner
        BY <3>2 DEF EntryInv
      <4> QED
        BY <3>3, <4>1
    <3> QED
      BY <3>7, <3>8, <3>9, <3>10
  <2>12. ASSUME Deliver PROVE RouteInv'
    <3> USE <2>12 DEF Deliver, connVars, mapVars, netVars, faultVars, Selecting
    <3>1. RouteTypes'
      BY Zenon DEF RouteTypes
    <3>2. SentInv'
      BY Zenon DEF RouteTypes, SentInv, Dialled
    <3>3. EntryInv'
      <4>1. Entered' = Entered
        BY DEF Entered
      <4> QED
        BY <4>1, EntryKept, Zenon
    <3>4. ReplyFindsItsConnection'
      BY Zenon DEF RouteTypes, SentInv, Dialled, ReplyFindsItsConnection, Shares
    <3> QED
      BY <3>1, <3>2, <3>3, <3>4
  <2>13. ASSUME NEW c \in Clients, HearsFrom(c) \/ Negotiates(c) \/ BiRelayReturns(c)
         PROVE  RouteInv'
    BY <2>13, RouteStutters
       DEF HearsFrom, Negotiates, BiRelayReturns, peerVars, connVars, mapVars, netVars, faultVars
  <2>14. ASSUME Crash \/ UNCHANGED allVars PROVE RouteInv'
    BY <2>14, RouteStutters, Zenon
       DEF Crash, allVars, peerVars, connVars, mapVars, netVars, faultVars
  <2> QED
    BY <2>1, <2>2, <2>3, <2>4, <2>5, <2>6, <2>7, <2>8, <2>9, <2>10, <2>11, <2>12, <2>13,
       <2>14
       DEF PeerNext, Works, Removes, Relays
<1> QED
  BY <1>1, <1>2, PTL DEF PeerSpec

\* A reply reaches the connection that asked for it, is late, or was looked up
\* during a write: the order of addConnection and SendConnect carries it.
THEOREM RepliesRouted == PeerSpec => []ReplyFindsItsConnection
<1>1. RouteInv => ReplyFindsItsConnection
  BY DEF RouteInv
<1> QED
  BY <1>1, RouteInvariant, PTL

\* A remover is there for every entry.
Awaited ==
  \A i \in IDs : mapping[i] # NoConn => remover[mapping[i]] \in {"waiting", "removing"}

\* No entry of connectionMapping outlives the goroutine that removes it, however
\* many connections drew the same ID.
THEOREM EntriesTakenOut == PeerSpec => []EntriesAreRemoved
<1>1. PeerInit => Awaited
  BY DEF PeerInit, Awaited
<1>2. RouteInv /\ Awaited /\ [PeerNext]_allVars => Awaited'
  <2> SUFFICES ASSUME RouteTypes, EntryInv, Awaited, [PeerNext]_allVars PROVE Awaited'
    BY DEF RouteInv
  <2>1. ASSUME UNCHANGED <<mapping, remover>> PROVE Awaited'
    BY <2>1 DEF Awaited
  <2>2. ASSUME NEW c \in Clients, AddEnds(c) PROVE Awaited'
    <3>1. \A i \in IDs : mapping'[i] = IF i = id[c] THEN c ELSE mapping[i]
      BY <2>2 DEF AddEnds, RouteTypes
    <3>2. \A d \in Clients : remover'[d] = IF d = c THEN "waiting" ELSE remover[d]
      BY <2>2 DEF AddEnds, RouteTypes
    <3>3. \A i \in IDs : mapping[i] \in Clients \cup {NoConn}
      BY DEF RouteTypes
    <3> QED
      BY ONLY Awaited, <3>1, <3>2, <3>3, Zenon DEF Awaited
  <2>3. ASSUME NEW c \in Clients, RemoveBegins(c) PROVE Awaited'
    <3>1. \A d \in Clients : remover'[d] = IF d = c THEN "removing" ELSE remover[d]
      BY <2>3 DEF RemoveBegins, RouteTypes
    <3>2. mapping' = mapping /\ \A i \in IDs : mapping[i] \in Clients \cup {NoConn}
      BY <2>3 DEF RemoveBegins, RouteTypes
    <3> QED
      BY ONLY Awaited, <3>1, <3>2, Zenon DEF Awaited
  <2>4. ASSUME NEW c \in Clients, RemoveEnds(c) PROVE Awaited'
    <3>1. \A i \in IDs : mapping'[i] = IF i = id[c] THEN NoConn ELSE mapping[i]
      BY <2>4 DEF RemoveEnds, RouteTypes
    <3>2. \A d \in Clients : remover'[d] = IF d = c THEN "done" ELSE remover[d]
      BY <2>4 DEF RemoveEnds, RouteTypes
    <3>3. \A i \in IDs : mapping[i] # NoConn => mapping[i] \in Clients /\ id[mapping[i]] = i
      BY DEF RouteTypes, EntryInv
    <3> QED
      BY ONLY Awaited, <3>1, <3>2, <3>3, Zenon DEF Awaited
  <2>5. ASSUME NEW c \in Clients,
               \/ HearsFrom(c) \/ Negotiates(c) \/ \E i \in IDs : NewConnection(c, i)
               \/ AddBegins(c) \/ SendConnect(c) \/ Close(c) \/ BiRelayReturns(c)
               \/ HoleStops(c) \/ ServerAnswers(c)
        PROVE  Awaited'
    BY <2>1, <2>5, Zenon
       DEF HearsFrom, Negotiates, NewConnection, AddBegins, SendConnect, Close,
           BiRelayReturns, HoleStops, ServerAnswers, peerVars, mapVars
  <2>6. ASSUME Relays \/ Crash \/ UNCHANGED allVars PROVE Awaited'
    BY <2>1, <2>6, Zenon
       DEF Relays, SendRelay, LookupBegins, LookupEnds, Deliver, Crash, allVars, peerVars, mapVars
  <2> QED
    BY <2>2, <2>3, <2>4, <2>5, <2>6, Zenon DEF PeerNext, Works, Removes
<1>3. RouteInv /\ Awaited => EntriesAreRemoved
  BY DEF RouteInv, EntryInv, Awaited, EntriesAreRemoved
<1> QED
  BY <1>1, <1>2, <1>3, RouteInvariant, PTL DEF PeerSpec
=============================================================================
