---------------------------- MODULE ClientManager ----------------------------
(***************************************************************************)
(* How a client keeps its TunnelPool filled.  DecreaseNotify runs once when *)
(* the pool is made and once more for every tunnel that is removed; the    *)
(* runs take turns under decreaseNotifyLock, and each dials as many        *)
(* tunnels as the pool lacked when it started.                             *)
(*                                                                         *)
(* tunnelMapping is modelled by how many tunnels in it work (live) and how *)
(* many are cancelled but not yet removed (dying).  An address stands for  *)
(* itself with and without the "ws://" that is put before it when dialed   *)
(* (failures store it back with it, and all comparisons are made with it). *)
(* retryweight only sets how long to sleep and is left out.                *)
(***************************************************************************)
EXTENDS Integers, Sequences, Functions

CONSTANTS
  TunnelNum,    \* how many tunnels the client wants
  Endpoints,    \* the configured server addresses, none of them empty
  Dead,         \* addresses that never answer
  RetryFailed,  \* the retry-failed setting
  MaxDeaths,    \* bound: tunnels that fail
  MaxErrors     \* bound: failed dials and handshakes at living addresses

ASSUME ManagerAssumption ==
  /\ TunnelNum \in Nat
  /\ Endpoints \in Seq(STRING) /\ Endpoints # <<>>
  /\ RetryFailed \in BOOLEAN
  /\ MaxDeaths \in Nat /\ MaxErrors \in Nat

VARIABLES
  live, dying,  \* the tunnels in tunnelMapping
  waiting,      \* DecreaseNotify goroutines that do not hold the lock yet
  notify,       \* where the one that holds it is; "idle": none does
  toCreate,     \* its tunnelToCreate
  lastfailed,   \* its lastfailed
  endpoints,    \* cm.endpoints, reordered by failures
  poolDone,     \* the pool's context is done
  deaths, errors

tunnelMapping == <<live, dying>>
manager == <<notify, toCreate, lastfailed, endpoints>>
bounds == <<deaths, errors>>
managerVars == <<tunnelMapping, waiting, manager, poolDone, bounds>>

Size == live + dying

\* The empty lastfailed.
NoneFailed == ""

ManagerTypeOK ==
  /\ live \in Nat /\ dying \in Nat /\ waiting \in Nat
  /\ notify \in {"idle", "loop", "dial", "handshake"}
  /\ toCreate \in Nat
  /\ lastfailed \in STRING \cup {NoneFailed}
  /\ endpoints \in Seq(STRING) /\ Len(endpoints) = Len(Endpoints)
  /\ poolDone \in BOOLEAN
  /\ deaths \in 0 .. MaxDeaths /\ errors \in 0 .. MaxErrors

\* NewTunnelPool starts the first DecreaseNotify.
ManagerInit ==
  /\ live = 0 /\ dying = 0
  /\ waiting = 1
  /\ notify = "idle"
  /\ toCreate = 0
  /\ lastfailed = NoneFailed
  /\ endpoints = Endpoints
  /\ poolDone = FALSE
  /\ deaths = 0 /\ errors = 0

-----------------------------------------------------------------------------
(* DecreaseNotify.                                                         *)

\* Mutant: tunnels that are cancelled but still in the pool are not counted.
StartCountsLive ==
  /\ waiting > 0
  /\ notify = "idle"
  /\ waiting' = waiting - 1
  /\ toCreate' = TunnelNum - live
  /\ lastfailed' = NoneFailed
  /\ notify' = "loop"
  /\ UNCHANGED <<tunnelMapping, endpoints, poolDone, bounds>>

\* Take the lock and count the tunnels; the pool's own mutex is not held.
Start ==
  /\ waiting > 0
  /\ notify = "idle"
  /\ waiting' = waiting - 1
  /\ toCreate' = TunnelNum - Size
  /\ lastfailed' = NoneFailed
  /\ notify' = "loop"
  /\ UNCHANGED <<tunnelMapping, endpoints, poolDone, bounds>>

\* All tunnels are made, or the pool is cancelled.
Return ==
  /\ notify = "loop"
  /\ toCreate = 0 \/ poolDone
  /\ notify' = "idle"
  /\ toCreate' = 0
  /\ UNCHANGED <<tunnelMapping, waiting, lastfailed, endpoints, poolDone, bounds>>

\* Another tunnel is needed and the pool is not cancelled.
BeginDial ==
  /\ notify = "loop"
  /\ toCreate > 0 /\ ~poolDone
  /\ notify' = "dial"
  /\ UNCHANGED <<tunnelMapping, waiting, toCreate, lastfailed, endpoints, poolDone, bounds>>

\* The address to dial, by its place in the list.
CurIndex == ((toCreate - 1) % Len(endpoints)) + 1

Swap(s, i, j) == [s EXCEPT ![i] = s[j], ![j] = s[i]]

\* The place that place i may change with: the last with the first, any other
\* with the one after it.
Neighbour(i) == IF i = Len(endpoints) THEN 1 ELSE i + 1

\* Without retry-failed, an address that fails twice in a row changes places.
MoveFailed(i) ==
  IF ~RetryFailed /\ lastfailed = endpoints[i]
  THEN Swap(endpoints, i, Neighbour(i))
  ELSE endpoints

DialFails ==
  /\ notify = "dial"
  /\ LET e == endpoints[CurIndex] IN
       /\ \/ e \in Dead /\ UNCHANGED errors
          \/ e \notin Dead /\ errors < MaxErrors /\ errors' = errors + 1
       /\ endpoints' = MoveFailed(CurIndex)
       /\ lastfailed' = e
  /\ notify' = "loop"
  /\ UNCHANGED <<tunnelMapping, waiting, toCreate, poolDone, deaths>>

DialOK ==
  /\ notify = "dial"
  /\ LET e == endpoints[CurIndex] IN
       /\ e \notin Dead
       /\ lastfailed' = IF lastfailed = e THEN NoneFailed ELSE lastfailed
  /\ notify' = "handshake"
  /\ UNCHANGED <<tunnelMapping, waiting, toCreate, endpoints, poolDone, bounds>>

\* Mutant: DecreaseNotify gives up.
HandshakeFailsReturns ==
  /\ notify = "handshake"
  /\ errors < MaxErrors
  /\ errors' = errors + 1
  /\ notify' = "idle"
  /\ toCreate' = 0
  /\ UNCHANGED <<tunnelMapping, waiting, lastfailed, endpoints, poolDone, deaths>>

\* NewActiveTunnel fails to exchange the peer IDs; try again.
HandshakeFails ==
  /\ notify = "handshake"
  /\ errors < MaxErrors
  /\ errors' = errors + 1
  /\ notify' = "loop"
  /\ UNCHANGED <<tunnelMapping, waiting, toCreate, lastfailed, endpoints, poolDone, deaths>>

\* AddTunnel.
AddTunnel ==
  /\ notify = "handshake"
  /\ live' = live + 1
  /\ toCreate' = toCreate - 1
  /\ notify' = "loop"
  /\ UNCHANGED <<dying, waiting, lastfailed, endpoints, poolDone, bounds>>

-----------------------------------------------------------------------------
(* The rest of the pool.                                                   *)

\* closeThenCancel of a tunnel.
TunnelDies ==
  /\ live > 0 /\ deaths < MaxDeaths
  /\ live' = live - 1
  /\ dying' = dying + 1
  /\ deaths' = deaths + 1
  /\ UNCHANGED <<waiting, manager, poolDone, errors>>

\* Mutant: no DecreaseNotify is started while one runs.
RemoveTunnelTryLock ==
  /\ dying > 0
  /\ dying' = dying - 1
  /\ waiting' = IF notify = "idle" THEN waiting + 1 ELSE waiting
  /\ UNCHANGED <<live, manager, poolDone, bounds>>

\* The goroutine waiting for that removes the tunnel and starts DecreaseNotify.
RemoveTunnel ==
  /\ dying > 0
  /\ dying' = dying - 1
  /\ waiting' = waiting + 1
  /\ UNCHANGED <<live, manager, poolDone, bounds>>

\* Peer.Stop.
Cancel ==
  /\ ~poolDone
  /\ poolDone' = TRUE
  /\ UNCHANGED <<tunnelMapping, waiting, manager, bounds>>

Manage ==
  \/ Start \/ Return \/ BeginDial \/ DialFails \/ DialOK
  \/ HandshakeFails \/ AddTunnel

ManagerNext ==
  \/ Start \/ Return \/ BeginDial \/ DialFails \/ DialOK
  \/ HandshakeFails \/ AddTunnel
  \/ TunnelDies \/ RemoveTunnel \/ Cancel

ManagerSpec == ManagerInit /\ [][ManagerNext]_managerVars

\* The goroutines keep running and every dial comes to an end.
ManagerFairSpec == ManagerSpec /\ WF_managerVars(Manage) /\ WF_managerVars(RemoveTunnel)

-----------------------------------------------------------------------------
(* Properties.                                                             *)

\* Although the pool is counted without its mutex and tunnels die meanwhile,
\* overlapping notifications never dial more than TunnelNum tunnels.
NeverTooMany == Size <= TunnelNum

\* No death goes unnoticed: a pool that lacks tunnels has a DecreaseNotify
\* under way or waiting for the lock, unless it was cancelled.
RefillPending == Size < TunnelNum => waiting > 0 \/ notify # "idle" \/ poolDone

\* Reordering on failure neither drops nor repeats a configured address.
EndpointsPermuted ==
  \E p \in Bijection(DOMAIN Endpoints, DOMAIN Endpoints) :
    endpoints = [i \in DOMAIN Endpoints |-> Endpoints[p[i]]]

\* DecreaseNotify turns to no other address: the one it dials never answers
\* and is retried for ever, or changes places only with a second dead one.
\* What stands elsewhere in the list is not tried before a tunnel is made.
Stuck ==
  /\ toCreate > 0
  /\ endpoints[CurIndex] \in Dead
  /\ RetryFailed \/ endpoints[Neighbour(CurIndex)] \in Dead

\* "Keep tunnelPool size above tunnelNum": when tunnels stop dying, the pool
\* fills up and stays full, unless it was cancelled or DecreaseNotify has come
\* to an address where it is stuck, whatever the other addresses do.
EventuallyFull == <>[](live = TunnelNum \/ poolDone \/ Stuck)
=============================================================================
