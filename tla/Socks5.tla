-------------------------------- MODULE Socks5 --------------------------------
(***************************************************************************)
(* The listeners of the client.  ServeForwardSocks5 and handleSocks5Client *)
(* take an accepted local connection through the choice of a method, the   *)
(* password when one is configured and the request, then dial through the  *)
(* peer and relay; ServeForward dials its configured target at once.       *)
(* ClientPeer details the dial and what follows it.                        *)
(*                                                                         *)
(* The local program sends the messages of the protocol in any shape and   *)
(* may go away at any time, so that a read or a write fails.  A message is *)
(* kept as what the code tells apart in it.                                *)
(***************************************************************************)
EXTENDS Naturals, Sequences

CONSTANTS
  Clients,  \* accepted connections, each served by a goroutine of its own
  Auth,     \* those accepted on an address with a user name and a password
  Forward,  \* those accepted by ServeForward
  Offers,   \* the sets of methods that programs offer
  Requests  \* what they ask for: command and address type

Methods == {"none", "password"}
Messages == {"none", "password", "noAcceptable", "authSuccess", "authFailure", "success",
             "commandNotSupported", "addressTypeNotSupported"}
Commands == {"connect", "bind"}
AddrTypes == {"named", "ipv6", "unknown"}  \* an IPv4 address is named like a domain

ASSUME ClientsAssumption ==
  Auth \subseteq Clients /\ Forward \subseteq Clients /\ Auth \cap Forward = {}

ASSUME InputsAssumption ==
  Offers \subseteq SUBSET Methods /\ Requests \subseteq Commands \X AddrTypes

VARIABLES
  stage,     \* where handleSocks5Client is
  offered,   \* the methods it offered
  login,     \* what it sent as user name and password
  asked,     \* the request it sent: command and address type
  replies,   \* what has been written to it
  dialed     \* the targets given to Dial

vars == <<stage, offered, login, asked, replies, dialed>>

NoRequest == <<>>

\* The configured target of ServeForward.
Destination == <<"connect", "named">>

TypeOK ==
  /\ stage \in [Clients -> {"greeting", "select", "login", "check", "request", "reply",
                            "dial", "relay", "closed"}]
  /\ offered \in [Clients -> Offers \cup {{}}]
  /\ login \in [Clients -> {"none", "right", "wrong"}]
  /\ asked \in [Clients -> Requests \cup {Destination, NoRequest}]
  /\ replies \in [Clients -> Seq(Messages)]
  /\ dialed \in [Clients -> Seq([colons : BOOLEAN, brackets : BOOLEAN])]

Init ==
  /\ stage = [c \in Clients |-> IF c \in Forward THEN "dial" ELSE "greeting"]
  /\ offered = [c \in Clients |-> {}]
  /\ login = [c \in Clients |-> "none"]
  /\ asked = [c \in Clients |-> IF c \in Forward THEN Destination ELSE NoRequest]
  /\ replies = [c \in Clients |-> <<>>]
  /\ dialed = [c \in Clients |-> <<>>]

Goes(c, from, to) ==
  /\ stage[c] = from
  /\ stage' = [stage EXCEPT ![c] = to]

Reply(c, what) == replies' = [replies EXCEPT ![c] = Append(@, what)]

\* Close the connection and return: a message has the wrong version, or cannot
\* be read as the program has gone.
Refuse(c) ==
  /\ \E from \in {"greeting", "login", "request"} : Goes(c, from, "closed")
  /\ UNCHANGED <<offered, login, asked, replies, dialed>>

\* socks5Handshake reads the version and the methods.
Greeting(c, methods) ==
  /\ Goes(c, "greeting", "select")
  /\ offered' = [offered EXCEPT ![c] = methods]
  /\ UNCHANGED <<login, asked, replies, dialed>>

Needed(c) == IF c \in Auth THEN "password" ELSE "none"

\* Mutant: any offer is accepted.
SelectAny(c) ==
  /\ Reply(c, Needed(c))
  /\ Goes(c, "select", IF c \in Auth /\ "password" \in offered[c] THEN "login" ELSE "request")
  /\ UNCHANGED <<offered, login, asked, dialed>>

\* It answers with the method it needs, or that it accepts none of them.
Select(c) ==
  /\ \/ /\ Needed(c) \in offered[c]
        /\ Reply(c, Needed(c))
        /\ Goes(c, "select", IF c \in Auth THEN "login" ELSE "request")
     \/ /\ Needed(c) \notin offered[c]
        /\ Reply(c, "noAcceptable")
        /\ Goes(c, "select", "closed")
  /\ UNCHANGED <<offered, login, asked, dialed>>

\* performPasswordAuth reads the user name and the password, and compares.
Login(c, l) ==
  /\ Goes(c, "login", "check")
  /\ login' = [login EXCEPT ![c] = l]
  /\ UNCHANGED <<offered, asked, replies, dialed>>

Check(c) ==
  /\ \/ /\ login[c] = "right"
        /\ Reply(c, "authSuccess")
        /\ Goes(c, "check", "request")
     \/ /\ login[c] # "right"
        /\ Reply(c, "authFailure")
        /\ Goes(c, "check", "closed")
  /\ UNCHANGED <<offered, login, asked, dialed>>

\* socks5ProcessRequest reads the command and the address.
Request(c, r) ==
  /\ Goes(c, "request", "reply")
  /\ asked' = [asked EXCEPT ![c] = r]
  /\ UNCHANGED <<offered, login, replies, dialed>>

\* The request's error replies.
Rejected(r) == r[1] # "connect" \/ r[2] = "unknown"
RejectionOf(r) == IF r[1] # "connect" THEN "commandNotSupported" ELSE "addressTypeNotSupported"

\* It answers before anything is dialled.  An error of the write counts only
\* for success.
Answer(c) ==
  /\ stage[c] = "reply"
  /\ \/ /\ Rejected(asked[c])
        /\ Reply(c, RejectionOf(asked[c]))
        /\ Goes(c, "reply", "closed")
     \/ /\ ~Rejected(asked[c])
        /\ Reply(c, "success")
        /\ Goes(c, "reply", "dial")
     \/ /\ ~Rejected(asked[c])
        /\ Goes(c, "reply", "closed")
        /\ UNCHANGED replies
  /\ UNCHANGED <<offered, login, asked, dialed>>

\* host and port joined by a colon; the text of an IPv6 address has colons of
\* its own.
Target(r) == [colons |-> r[2] = "ipv6", brackets |-> FALSE]

\* What net.DialTimeout can split into a host and a port.
Splits(target) == target.colons => target.brackets

\* Dial sends a Connect through the peer; it does not wait for an answer.
Dial(c) ==
  /\ Goes(c, "dial", "relay")
  /\ dialed' = [dialed EXCEPT ![c] = Append(@, Target(asked[c]))]
  /\ UNCHANGED <<offered, login, asked, replies>>

\* biRelay returns (InboundConnection), and handleSocks5Client closes.
RelayEnds(c) ==
  /\ Goes(c, "relay", "closed")
  /\ UNCHANGED <<offered, login, asked, replies, dialed>>

Serve(c) == Select(c) \/ Check(c) \/ Answer(c) \/ Dial(c) \/ RelayEnds(c)

\* A message is read.
Receive(c) ==
  \/ \E methods \in Offers : Greeting(c, methods)
  \/ \E l \in {"right", "wrong"} : Login(c, l)
  \/ \E r \in Requests : Request(c, r)

Next == \E c \in Clients : Serve(c) \/ Receive(c) \/ Refuse(c)

Spec == Init /\ [][Next]_vars

-----------------------------------------------------------------------------
(* Properties.                                                             *)

\* What is written to a local program is a run of the protocol that fits what
\* it sent, and Dial is called only after the whole of it: the method that this
\* address needs and the program offered, the password's success if one is
\* configured and the right one came, then success for the target it asked for.
ServedByTheProtocol ==
  \A c \in Clients :
    dialed[c] # <<>> =>
      /\ c \notin Forward => Needed(c) \in offered[c]
      /\ c \in Auth => login[c] = "right"
      /\ replies[c] = CASE c \in Auth -> <<"password", "authSuccess", "success">>
                        [] c \in Forward -> <<>>
                        [] OTHER -> <<"none", "success">>
      /\ dialed[c] = <<Target(asked[c])>> /\ ~Rejected(asked[c])

\* The code "builds the target address" for each address type that it accepts:
\* every target that is dialled can be split into host and port again.
TargetIsDialable ==
  \A c \in Clients : \A i \in DOMAIN dialed[c] : Splits(dialed[c][i])
=============================================================================
