------------------------------ MODULE PeerGroup ------------------------------
(***************************************************************************)
(* How the server takes in tunnels and keeps one ServerPeer per peer ID.   *)
(* The handler of ServeThread checks and upgrades a request, the two ends  *)
(* exchange the peer ID, and the tunnel is added: the first one of a       *)
(* client makes the peer, later ones join its TunnelPool.  A pool that     *)
(* stays empty for EmptyPoolDestroySec is destroyed by its ServerManager   *)
(* through the peer's context, and a goroutine then deletes the peer from  *)
(* peerMapping by its ID.                                                  *)
(*                                                                         *)
(* One peer ID is modelled (different IDs share only the lock); its        *)
(* ServerPeers are numbered in the order in which they are made.  Notify   *)
(* runs under the pool's mutex and is part of the action that calls it.    *)
(***************************************************************************)
EXTENDS Naturals, FiniteSets

CONSTANTS
  Tunnels,     \* the tunnels the client ever opens
  Authorised,  \* those whose request has the configured key, or needs none
  MaxPeers     \* bound: ServerPeers made for the ID

ASSUME PeerGroupAssumption == MaxPeers \in Nat /\ Authorised \subseteq Tunnels

NoPeer == 0
Peers == 1 .. MaxPeers

VARIABLES
  made,       \* how many ServerPeers were made
  mapped,     \* pg.peerMapping[peerID], NoPeer when absent
  ctxDone,    \* the peer's context is done
  removing,   \* the peer's RemovePeer goroutine has not run yet
  triggered,  \* ServerManager.triggered
  countdown,  \* the countdown goroutine of the manager's latest trigger
  stale,      \* a countdown was cancelled only after its timer had fired
  state,      \* where each tunnel is
  peerOf,     \* the peer AddTunnel chose for it
  stopped     \* PeerGroup.Stop was called

peers == <<made, mapped, ctxDone, removing>>
managers == <<triggered, countdown, stale>>
tunnels == <<state, peerOf>>
vars == <<peers, managers, tunnels, stopped>>

\* The peer's tunnelMapping: a cancelled tunnel stays in it until removed.
Pool(p) == {t \in Tunnels : peerOf[t] = p /\ state[t] \in {"pooled", "dying"}}

TypeOK ==
  /\ made \in 0 .. MaxPeers /\ mapped \in 0 .. made
  /\ ctxDone \in [Peers -> BOOLEAN] /\ removing \in [Peers -> BOOLEAN]
  /\ triggered \in [Peers -> BOOLEAN] /\ stale \in [Peers -> BOOLEAN]
  /\ countdown \in [Peers -> {"off", "counting", "due"}]
  /\ state \in [Tunnels -> {"request", "handshake", "new", "found", "pooled", "dying",
                            "gone", "closed"}]
  /\ peerOf \in [Tunnels -> 0 .. made]
  /\ \A t \in Tunnels : peerOf[t] # NoPeer <=> state[t] \in {"found", "pooled", "dying", "gone"}
  /\ stopped \in BOOLEAN

Init ==
  /\ made = 0 /\ mapped = NoPeer
  /\ ctxDone = [p \in Peers |-> FALSE] /\ removing = [p \in Peers |-> FALSE]
  /\ triggered = [p \in Peers |-> FALSE] /\ stale = [p \in Peers |-> FALSE]
  /\ countdown = [p \in Peers |-> "off"]
  /\ state = [t \in Tunnels |-> "request"]
  /\ peerOf = [t \in Tunnels |-> NoPeer]
  /\ stopped = FALSE

-----------------------------------------------------------------------------
(* The listener and the exchange of the peer ID.                           *)

Moves(t, from, to) ==
  /\ state[t] = from
  /\ state' = [state EXCEPT ![t] = to]
  /\ UNCHANGED <<peers, managers, peerOf, stopped>>

\* The handler lets the request through and upgrades it to a WebSocket.
Upgrade(t) == t \in Authorised /\ Moves(t, "request", "handshake")

\* The key is missing or wrong ("Unauthorized"), or the upgrade fails.
Reject(t) == Moves(t, "request", "closed")

\* passiveExchangePeerID: the ID is read and sent back.
ExchangePeerID(t) == Moves(t, "handshake", "new")

\* Mutant: recvPeerID sets no read deadline, and the client says nothing.
ExchangeNeverFails(t) == FALSE /\ Moves(t, "handshake", "closed")

\* The read fails or its 30 seconds pass, or the write fails:
\* AddTunnelFromConn closes the connection.
ExchangeFails(t) == Moves(t, "handshake", "closed")

-----------------------------------------------------------------------------
(* PeerGroup.AddTunnel, in two steps: pg.lock covers the first only.       *)

\* The tunnel's peer is in peerMapping.
FindPeer(t) ==
  /\ state[t] = "new"
  /\ mapped # NoPeer
  /\ state' = [state EXCEPT ![t] = "found"]
  /\ peerOf' = [peerOf EXCEPT ![t] = mapped]
  /\ UNCHANGED <<peers, managers, stopped>>

\* It is not: make the peer, and the goroutine that will remove it.
MakePeer(t) ==
  /\ state[t] = "new"
  /\ mapped = NoPeer
  /\ made < MaxPeers
  /\ made' = made + 1
  /\ mapped' = made + 1
  /\ removing' = [removing EXCEPT ![made + 1] = TRUE]
  /\ state' = [state EXCEPT ![t] = "found"]
  /\ peerOf' = [peerOf EXCEPT ![t] = made + 1]
  /\ UNCHANGED <<ctxDone, managers, stopped>>

\* Mutant: AddTunnel does not notify the manager.
AddTunnelSilently(t) ==
  /\ state[t] = "found"
  /\ state' = [state EXCEPT ![t] = "pooled"]
  /\ UNCHANGED <<peers, managers, peerOf, stopped>>

\* Mutant: the countdown is not cancelled.
AddTunnelKeepsCountdown(t) ==
  /\ state[t] = "found"
  /\ state' = [state EXCEPT ![t] = "pooled"]
  /\ triggered' = [triggered EXCEPT ![peerOf[t]] = FALSE]
  /\ UNCHANGED <<peers, countdown, stale, peerOf, stopped>>

\* TunnelPool.AddTunnel after pg.lock is released; Notify finds the pool not
\* empty and cancels the countdown, too late if its timer has fired: select
\* may still choose the timer.
AddTunnel(t) ==
  LET p == peerOf[t] IN
  /\ state[t] = "found"
  /\ state' = [state EXCEPT ![t] = "pooled"]
  /\ triggered' = [triggered EXCEPT ![p] = FALSE]
  /\ countdown' = [countdown EXCEPT ![p] = "off"]
  /\ stale' = [stale EXCEPT ![p] = stale[p] \/ countdown[p] = "due"]
  /\ UNCHANGED <<peers, peerOf, stopped>>

-----------------------------------------------------------------------------
(* Tunnels and the ServerManager.                                          *)

\* closeThenCancel of a tunnel.
TunnelDies(t) ==
  /\ state[t] = "pooled"
  /\ state' = [state EXCEPT ![t] = "dying"]
  /\ UNCHANGED <<peers, managers, peerOf, stopped>>

\* Mutant: Notify is called before the tunnel is deleted from the pool.
RemoveTunnelNotifiesFirst(t) ==
  /\ state[t] = "dying"
  /\ state' = [state EXCEPT ![t] = "gone"]
  /\ UNCHANGED <<peers, managers, peerOf, stopped>>

\* TunnelPool.RemoveTunnel; Notify starts a countdown if that was the last.
RemoveTunnel(t) ==
  LET p == peerOf[t]
      trigger == Pool(p) = {t} /\ ~triggered[p] IN
  /\ state[t] = "dying"
  /\ state' = [state EXCEPT ![t] = "gone"]
  /\ triggered' = [triggered EXCEPT ![p] = triggered[p] \/ trigger]
  /\ countdown' = [countdown EXCEPT ![p] = IF trigger THEN "counting" ELSE @]
  /\ UNCHANGED <<peers, stale, peerOf, stopped>>

\* time.After(EmptyPoolDestroySec) fires.
TimerFires(p) ==
  /\ countdown[p] = "counting"
  /\ countdown' = [countdown EXCEPT ![p] = "due"]
  /\ UNCHANGED <<peers, triggered, stale, tunnels, stopped>>

\* The countdown goroutine takes the timer's branch: removePeerFunc.
Destroy(p) ==
  /\ countdown[p] = "due"
  /\ countdown' = [countdown EXCEPT ![p] = "off"]
  /\ ctxDone' = [ctxDone EXCEPT ![p] = TRUE]
  /\ UNCHANGED <<made, mapped, removing, triggered, stale, tunnels, stopped>>

\* A countdown cancelled after its timer fired takes either branch.
StaleDestroy(p) ==
  /\ stale[p]
  /\ stale' = [stale EXCEPT ![p] = FALSE]
  /\ ctxDone' = [ctxDone EXCEPT ![p] = TRUE]
  /\ UNCHANGED <<made, mapped, removing, triggered, countdown, tunnels, stopped>>

StaleEnds(p) ==
  /\ stale[p]
  /\ stale' = [stale EXCEPT ![p] = FALSE]
  /\ UNCHANGED <<peers, triggered, countdown, tunnels, stopped>>

\* Mutant: the goroutine does not wait for the context.
RemovePeerEarly(p) ==
  /\ removing[p]
  /\ removing' = [removing EXCEPT ![p] = FALSE]
  /\ mapped' = NoPeer
  /\ UNCHANGED <<made, ctxDone, managers, tunnels, stopped>>

\* The goroutine of AddTunnel: <-peerContext.Done(), then delete by ID.
RemovePeer(p) ==
  /\ removing[p]
  /\ ctxDone[p]
  /\ removing' = [removing EXCEPT ![p] = FALSE]
  /\ mapped' = NoPeer
  /\ UNCHANGED <<made, ctxDone, managers, tunnels, stopped>>

\* PeerGroup.Stop, when the server ends.
Stop ==
  /\ ~stopped
  /\ stopped' = TRUE
  /\ ctxDone' = [p \in Peers |-> ctxDone[p] \/ p = mapped]
  /\ UNCHANGED <<made, mapped, removing, managers, tunnels>>

Next ==
  \/ \E t \in Tunnels :
       \/ Upgrade(t) \/ Reject(t) \/ ExchangePeerID(t) \/ ExchangeFails(t)
       \/ FindPeer(t) \/ MakePeer(t) \/ AddTunnel(t) \/ TunnelDies(t) \/ RemoveTunnel(t)
  \/ \E p \in Peers :
       \/ TimerFires(p) \/ Destroy(p) \/ StaleDestroy(p) \/ StaleEnds(p)
       \/ RemovePeer(p)
  \/ Stop

Spec == Init /\ [][Next]_vars

\* Goroutines run, timers fire and AddTunnel finishes; tunnels need not die, and
\* a client need not send its ID: only the deadline ends the exchange.
Fairness ==
  /\ \A t \in Tunnels :
       /\ WF_vars(ExchangeFails(t)) /\ WF_vars(FindPeer(t) \/ MakePeer(t))
       /\ WF_vars(AddTunnel(t)) /\ WF_vars(RemoveTunnel(t))
  /\ \A p \in Peers :
       /\ WF_vars(TimerFires(p)) /\ WF_vars(Destroy(p)) /\ WF_vars(RemovePeer(p))
       /\ WF_vars(StaleDestroy(p) \/ StaleEnds(p))

FairSpec == Spec /\ Fairness

-----------------------------------------------------------------------------
(* Properties.                                                             *)

\* A client has one working peer: a peer that is not the mapped one is
\* stopped, so blocks of one client never go to two connection pools.
OneLivePeer == \A p \in 1 .. made : ~ctxDone[p] => mapped = p

\* triggered, changed by compare-and-swap from Notify calls on every change of
\* the pool, always tells whether the pool has become empty: a countdown runs
\* for every empty pool and for no other.
CountdownMatchesPool ==
  \A p \in 1 .. made :
    /\ triggered[p] => Pool(p) = {}
    /\ Pool(p) = {} /\ ~triggered[p] => \E t \in Tunnels : peerOf[t] = p /\ state[t] = "found"
    /\ triggered[p] /\ ~ctxDone[p] => countdown[p] # "off"

\* A peer that has tunnels is not destroyed by its countdown, unless the timer
\* had fired before the first of them was added: the cancellation in Notify and
\* the timer race in one select.
NotDestroyedInUse ==
  [][\A p \in Peers : ~ctxDone[p] /\ ctxDone'[p] /\ stopped' = stopped => Pool(p) = {} \/ stale[p]]_vars

\* Every connection that was upgraded joins a pool or is closed, also when the
\* client never sends its ID.
ConnectionSettles ==
  \A t \in Tunnels : state[t] = "handshake" ~> state[t] \in {"pooled", "closed"}

\* "If tunnelPool size is zero for more than EmptyPoolDestroySec, delete it":
\* an empty pool gets a tunnel again or its peer is unmapped.
EmptyPeerRemoved ==
  \A p \in Peers :
    (p = mapped /\ Pool(p) = {}) ~> (mapped # p \/ Pool(p) # {})

\* "Add a tunnel to it's peer; will create peer if not exists": until the
\* server ends, a tunnel in a pool belongs to a peer that runs.
TunnelServed ==
  ~stopped => \A t \in Tunnels : state[t] = "pooled" => ~ctxDone[peerOf[t]]
=============================================================================
