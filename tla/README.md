# A TLA+ verification of rabbit-mtcp-ws-socks5

rabbit carries many TCP connections over a small pool of WebSocket tunnels. A
client accepts local TCP connections (plain or SOCKS5), cuts what they send into
numbered blocks and spreads the blocks over all tunnels; the server puts the
blocks of each connection back in order, dials the target and answers in the
same way. This directory models that machinery in TLA+, checks it with TLC on
small instances, and proves the central parts with TLAPS for all sizes.

## 1. The system

### Parts, state and operations

| Part | Code | State | Operations |
| --- | --- | --- | --- |
| Block format | `block/block.go` | none | `Pack`, `NewBlockFromReader`, `NewDataBlocks`, constructors |
| Block processor | `connection/block_processor.go` | cache, `recvBlockID`, `lastRecvBlockID`, `sendBlockID` | `pack...`, `OrderedRelay` |
| Inbound connection (client) | `connection/inbound_connection.go`, `ring_buffer.go` | queues, ring buffer, closed flags, deadlines | `Read`, `Write`, `Close`, `CloseRead`, `CloseWrite`, `RecvBlock` |
| Outbound connection (server) | `connection/outbound_connection.go` | queues, socket, `closed`, context | `connect`, `RecvRelay`, `SendRelay`, two ways to close |
| Connection pool | `connection_pool/pool.go` | `connectionMapping`, connection count | `recvRelay`, `sendRelay`, `addConnection`, `removeConnection` |
| Tunnel | `tunnel_pool/tunnel.go` | context, connection, ping state | `OutboundRelay`, `InboundRelay`, `packThenSend`, `PingPong`, handshake |
| Tunnel pool | `tunnel_pool/pool.go` | `tunnelMapping`, three shared queues | `AddTunnel`, `RemoveTunnel` |
| Client manager | `tunnel_pool/manager.go` | list of addresses, lock | `DecreaseNotify` |
| Server manager | `tunnel_pool/manager.go` | `triggered`, countdown | `Notify` |
| Peers | `peer/*.go` | `peerMapping`, peer contexts, a copy of the connection pool | `PeerGroup.AddTunnel`, `RemovePeer`, `Stop`, `Dial` |
| Secure stream | `tunnel/*.go` | record buffers, nonces, leftover bytes | `ReadFrom`, `Read`, WebSocket adapter |
| Client listener | `client/client.go` | one goroutine per local connection | `ServeForward`, `handleSocks5Client`, `biRelay`, `relay` |
| Server listener | `server/server.go` | none | `ServeThread` |
| Statistics | `stats/stats.go` | counters, history | increments, `UpdateHistory`, `GetStats` |
| Command | `cmd/rabbit.go` | configuration, gauges | `LoadConfig`, `parseFlags`, `main`, status pages |
| Logger | `logger/` | none that is read back | log lines |

### How they interact

    local program                                                     target
         |                                                              |
    Socks5 / biRelay, ClientPeer                              OutboundConnection
         |                                                              |
    InboundConnection --- blockProcessor           blockProcessor --- orderedRecvQueue
         |    (sendQueue)                                 (recvQueue)   |
    TunnelPool  == OutboundRelay ==> tunnels ==> InboundRelay ==> ConnectionPool.recvRelay
         |                              |                               |
    ClientManager             SecureStream, KeepAlive           PeerGroup, ServerManager

`Program` starts either side and shows what it counts. The other direction uses
the same parts mirrored. Every arrow is a Go channel of
fixed capacity, every box runs in one or more goroutines, and contexts cancel
them from above.

### What is hard

Blocks of one connection overtake each other; tunnels die with blocks in them
and blocks are queued again; pools are counted without their lock while tunnels
come and go; peers are destroyed by a timer while tunnels join; channels are
closed under goroutines that send on them; one slow connection holds up a relay
that serves all; both relays of a connection end it at the same moment; several
goroutines write to one connection, with one deadline and one nonce; two copies
of a pool guard one map with two locks; and requests share the gauges they show.
`PROJECT.json` lists these hazards with the line where each bites and the property that covers it.

## 2. The modules

Each component module has its state, `Init`, one action per step of a goroutine,
`Next`, `Spec`, the fair `FairSpec` where liveness is checked, and its properties. In
`ClientManager`, `KeepAlive`, `Program` and `SecureStream` these names carry the
component's, since modules of proofs extend several components.
An action is what a goroutine does between two points where another one can
interfere: a channel operation, a lock, a context, an atomic, or I/O.
A definition with the comment `Mutant` is a plausible wrong version of the one
after it. It is no part of a specification; it serves to see that a property
notices the mistake. `MC...` modules only give constants their values.

**OrderedStream** is the abstract specification: payloads come out in the order
they were put in, none twice and none skipped, until the stream is closed.

**BlockProcessor** is one direction of a connection: the sender numbers blocks
modulo `IDSpace` (2^32 in the code), the network holds them as a set, so that it
reorders, and may lose them; copies of a block may come again and again, which is
also what keeps the timer of a hole from firing. `Receive` is one pass of `OrderedRelay`
up to its first send, `SendDirectly` and `SendFromCache` are its two blocking
sends, `Timeout` is the hole timer. The module implements `OrderedStream` with
`delivered` mapped to the payloads the reader has taken and `closed` to the
cancelled connection.

**TunnelRelay** is one direction of a pool: every tunnel's `OutboundRelay` takes
blocks off the shared queues (the retry queue first), `packThenSend` succeeds
or closes the tunnel and starts the retry goroutine, the wire is a FIFO per
tunnel, `InboundRelay` filters pings and pongs and pushes the rest. `Break`,
`SenderCloses` and `ReceiverCloses` end a tunnel at any time; the time limits of
pings and reads are among their causes. The module implements **BlockChannel**, the
abstract specification of a channel that reorders and loses blocks and repeats none:
`sent` is mapped to the blocks produced, `arrived` to those the other pool has taken and
`gone` to those lost. `BlockProcessor` works over such a channel, and also over one that
repeats blocks.

**KeepAlive** is those limits, second by second, at one end of a tunnel. `Begin`,
`WriteBegins`, `WriteSucceeds` or `WriteFails`, and `End` are `packThenSend`, which
`OutboundRelay` (`SendBlock`), `InboundRelay` (for a pong, in `Receive`) and
`PingPong` (`PingPongTick`, `PingPongCheck`) all go through: only the write itself is
under the mutex, and the deadline is the connection's. `Tick` lets a second pass
once no goroutine can run. The link gets stuck and recovers (`LinkChanges`), a full
`recvQueue` holds the reader (a branch of `Receive`, ended by `Release`). The mutex
goes to the goroutine that has waited longest: Go's goes over to its first waiter
after a millisecond, and those that came in the same second are taken in any order.
A read error, which closes the tunnel at once, is in `TunnelRelay`.

**ClientManager** is `DecreaseNotify`: goroutines that wait for the lock, the
unlocked count, dial, failure with the reordering of addresses, handshake,
`AddTunnel`. The pool is the number of working and of dying tunnels in it. An
address that fails twice in a row changes places with its neighbour in the list.

**PeerGroup** is the server's side of a tunnel's start and the map of one peer ID:
`ServeThread` upgrades or rejects a request, the peer ID is exchanged or the
deadline of the exchange passes, then `FindPeer` or `MakePeer` (under `pg.lock`)
and `AddTunnel` (after it), `Notify` with its two compare-and-swaps inside the
actions that call it, the countdown goroutine (also one whose timer had fired
when it was cancelled), `Destroy`, and the removal by ID.

**OutboundConnection** is the server's end of a connection: dial, `RecvRelay`
with read deadline and last reads, `SendRelay`, half closes, and
`closeThenCancel...` split at its compare-and-swap. Disconnects go on the pool's
bounded `sendQueue`, from which the pool's `sendRelay` takes them until the pool
has ended (`PoolEnds`); a hole timeout cancels the connection alone (`HoleCancels`).

**InboundConnection** is the client's end with the two `relay` goroutines of
`biRelay`: the three phases of `Read` (ring buffer, draining when closed,
waiting), `readBlock` cutting blocks at the slice's length, `Close` step by step
(swap, Disconnect, stop, close of both channels), and the relays that may still
send on these. A send on a closed channel sets `panicked` and ends everything. The
pool's `sendQueue` always has room here: what a full one does to a goroutine that
sends is in `OutboundConnection`, where the same queue is bounded.

**ConnectionPool** is `recvRelay` of the server: lookup, creation for unknown
IDs, the blocking `RecvBlock`, and per connection a compact `OrderedRelay`, the
consumer of its blocks and its removal. Connections are numbered, IDs are used
again by late blocks. A ping or pong that a tunnel's last read let through
(`ControlLeaksOnceAtTheEnd`) arrives as a block with number 0 under an ID of its own
(`ControlIDs`), and makes a connection as any block does.

**SecureStream** is a tunnel's byte stream after the handshake: `ReadFrom` of the
AEAD writer in its steps (fill the buffer, seal the size, seal the payload,
write), one buffer and one nonce for all goroutines, and the reader with its
leftover bytes; without a cipher, the WebSocket adapter with its mutex. Both
cases start in `Init`; `overlapped` remembers that two goroutines have been in
`ReadFrom` at the same time.

**ByteStreams** says what a sequence of blocks or records is as one stream of bytes, for
`InboundConnection` and `SecureStream`. (`SequencesExt` has the same operators and
brings `Bags` along, which makes every step of a proof slower.)

**Socks5** is the client's listener: `handleSocks5Client` for local programs that
send any message or none, also one that cannot be read because they have gone
(method, password, request, reply, dial), and `ServeForward`, which starts at the dial.

**ClientPeer** composes it with the peer that all programs share: `Dial` is the
creation of a connection under a random ID, its entry in `connectionMapping`, and
the Connect; `recvRelay` looks up what the server answers; a goroutine removes the
connection. `Close` sends a Disconnect and closes the channels unless the server's
Disconnect has come first, and then only ends the context; the hole timer may end it
too (`HoleStops`). When `biRelay` calls `Close` and when it returns is left open, as it
waits for both of its relays, which are the matter of `InboundConnection`. `Peer` holds a copy of the pool: the map is the same, the lock is not.
An access to the map therefore has a beginning and an end, and one that overlaps a
write of the other lock is a data race, which may end the program (`Crash`) or make
a lookup miss.

**Program** is the command: `LoadConfig` lays file and command line over the
defaults and turns the mode into small letters, `ParseFlags` checks the result and runs, `Shutdown` ends it. Meanwhile tunnels
count bytes modulo `2^Width` (`2^64` in the code), `UpdateHistory` samples them, and
each request to the status pages passes the access list, in which a bare address gets
`/32` appended whatever its family (`Covers`), and the login, reads the statistics, and for the metrics sets the gauges that all requests share.

The proofs are in the eight modules `...Proofs`. `PROJECT.json` maps each definition to its lines.

## 3. The runs

There is one passing run per component, with the safety and the liveness
properties together, and one run that ends in a counterexample. Bounds are the
constants of the `.cfg` files. Deadlock is not checked: all modelled behaviours
may end (everything delivered, every connection closed). What must go on is
stated as a liveness property instead.

### Runs that pass

| Run | Shows | Bounds and why they are enough | States |
| --- | --- | --- | --- |
| `block_order` | only copies are thrown away (`NothingDiscarded`), the hole timer closes only a connection with a hole (`KilledOnlyForHole`), the whole implements `OrderedStream` (`ImplementsStream`), a hole ends unless packets come in for ever (`HoleEnds`), each payload arrives unless one up to it is lost or the connection closes (`Delivered`) | 4 blocks, any number of copies, queues of 2 and 1: a block can be next, cached, copied, too old, both sends can block, and the timer of a hole can be started anew without end; 5 IDs, so none wraps | 248,907 |
| `tunnel_blocks` | a block is in one place at a time (`ExactlyOnePlace`), lost only if a tunnel failed (`LossNeedsFailure`), one ping or pong per tunnel may slip through at its end (`ControlLeaksOnceAtTheEnd`), and nothing is stuck while a tunnel works (`BlocksArriveOrAreLost`) | 2 tunnels that may both fail, queues of 1, so that all are full at times, and 2 blocks, each a connection's or a ping, so that a second ping could leak | 267,664 |
| `pool_refill` | never more than `tunnelNum` tunnels (`NeverTooMany`), no lost tunnel forgotten (`RefillPending`), the pool full in the end unless `DecreaseNotify` is stuck between dead neighbours in its list (`EventuallyFull`) | 3 tunnels, 3 addresses of which 2 dead, 3 deaths, 2 errors: notifications overlap, addresses are exchanged, and the dead ones come to be neighbours | 2,409 |
| `peer_lifecycle` | one live peer per client (`OneLivePeer`), a countdown exactly for an empty pool (`CountdownMatchesPool`), no peer in use destroyed but by a timer that had fired (`NotDestroyedInUse`), no connection stuck in its handshake (`ConnectionSettles`), an empty peer goes (`EmptyPeerRemoved`) | 4 requests, one without the key, 3 peers in turn: a tunnel can join a peer, its end and its successor | 15,092 |
| `outbound_end` | one Disconnect however many sides end the connection (`OneDisconnect`), after the target's normal end never before its data (`CompleteBeforeDisconnect`), socket, relays and client are all dealt with (`EndsCompletely`), but for a relay that has to send when the peer has ended and its queue is full | 2 data blocks, 2 chunks, sendQueue of 1 so that sends block | 398,988 |
| `inbound_stream` | no byte lost or repeated (`StreamIsKept`), one Disconnect (`ClosedOnce`), EOF only at the end, or once the context is over or a deadline has passed (`EOFIsComplete`), `biRelay` ends (`BiRelayEnds`) unless the program panics or a `Read` spins on the closed channel, see below | slices of 1 and 2 bytes against blocks of 1 to 3 bytes, so that blocks are cut and joined; a server that sends data after its Disconnect, as it does when one of its relays ends the connection while the other is sending; queues of 1 | 264,644 |
| `pool_mapping` | a live connection owns its ID's entry (`LiveIsMapped`), connections made by late blocks go, unless a ping or pong made them (`StrayLeaves`), a live connection holds up the relay only for a time (`SlowIsTemporary`) | 1 ID used by 2 connections in turn, 3 blocks and 2 pings against queues of 1, so that all queues fill; the proof covers many IDs and connections | 130,977 |
| `secure_records` | the bytes read are the bytes written (`BlocksArriveWhole`), every record opens (`RecordsOpen`), until two writes overlap in an encrypted tunnel | 2 writers, 3 blocks of 1, 3 or 4 bytes against records of 3 and reads of 1, 2 and 4; what follows an overlap is not explored | 17,361 |
| `client_peer` | dial only after the whole negotiation (`ServedByTheProtocol`), a reply reaches the connection that asked (`ReplyFindsItsConnection`), an entry of the map has a goroutine that removes it, also when two connections share an ID (`EntriesAreRemoved`), no dial hangs and nothing stays of a connection that has ended (`NothingLeftBehind`) | a SOCKS5 program with a password and a forwarded one, 2 IDs, so that both may draw the same, 1 answer each, sendQueue of 1 | 251,105 |
| `keep_alive` | a tunnel that answers is kept (`GoodTunnelStays`), a silent one is closed within three write limits of the time limit (`SilenceIsNoticed`), a writer is in `packThenSend` for three write limits at most (`SendsInThreeLimits`); the last two as long as no write has lost its deadline | limits of 2, 3 and 2 seconds and answers after 2, so that the last second counts; 5 faults: the link recovers twice while writers wait, so that one can come again before another has had its turn; 15 seconds of silence, where `SilenceIsNoticed` allows 11 | 3,224,199 |
| `program` | the program runs exactly when what is configured can work, and with that (`RunsAsConfigured`), pages only for allowed users and addresses, or IPv6 addresses near a bare one on the list (`PagesGuarded`), the rate is exact when samples are dropped and the counter wraps (`RateIsExact`), metrics are never older than the request (`MetricsAreCurrent`) | 11 setups that agree, disagree or are wrong, one with capitals, one with -1 tunnels; 2 IPv4 and 2 IPv6 addresses, these with the same first 32 bits; 2 requests at once; a counter of 2 bits that wraps, a history of 2 and 3 samples, so that the oldest is dropped | 1,051,965 |

Queues hold 64 blocks or so in the code and 1 or 2 here, which makes full queues
easier to reach.

The type invariants and `InOrder`, `CountersShowHole`, `EndpointsPermuted`,
`CountExact` and `ImplementsChannel` are in the modules and hold on the same instances; they are not in the
configurations because a stronger property is there or because they are proved.

### The run that finds a disagreement

`pool_stall` states what a comment of the code says and ends in a counterexample (the
finding of `PROJECT.json` quotes it): a connection that ends with full queues blocks
`recvRelay`, and with it every connection of the peer, for ever.

### Stated, and known not to hold

These properties are in the modules and in no configuration with these constants. Checking one with
the constants given here ends in a counterexample; the passing runs check the
strongest variant that holds. A property without a part of it is the formula with that
part left out.

| Property | Constants | Why it fails |
| --- | --- | --- |
| `KilledOnlyForHole` (BlockProcessor) | those of `block_order` with `IDSpace = 3` | `lastRecvBlockID` does not follow a wrapped block ID, so the hole timer closes a connection without a hole (after 2^32 blocks in the code) |
| `HoleEnds` (BlockProcessor) without its second disjunct | `block_order`'s | every packet makes a new timer (`block_processor.go:70`, the TODO at line 35): as long as later blocks keep coming, a hole stays open, as the "no packet comes within this limit" of `const.go:8` allows |
| `EventuallyFull` (ClientManager) without `Stuck` | `pool_refill`'s | with `retry-failed` off only neighbours in the list change places (`manager.go:153-161`), so that a missing tunnel is dialed at two dead addresses in turn for ever although a third would answer |
| `TunnelServed` (PeerGroup) | 2 tunnels, 2 peers | `AddTunnel` joins a peer after the lock is released, when it may have been destroyed; a timer that has fired is not undone |
| `ReadAllBeforeLeave` (OutboundConnection) | 1 data block, 1 chunk | the socket is closed before the context is cancelled, or an expired deadline fails the first of the last reads |
| `EndsCompletely` (OutboundConnection) without `Stranded` | `outbound_end`'s | `sendRelay` returns when the peer ends (`pool.go:136`); a relay, or the Disconnect, that finds `sendQueue` full then waits for ever (`connection.go:122`, `132`) |
| `StrayLeaves` (ConnectionPool) without `HoldsControl` | `pool_mapping`'s | `recvRelay` makes a connection for a leaked ping or pong (`pool.go:110`); its block 0 is forwarded, so that neither the hole timer nor a Connect ever ends it |
| `FailedBlockIsRetried` (TunnelRelay) | `tunnel_blocks`' | `packThenSend` cancels the tunnel's context before it starts the goroutine that queues the block again (`tunnel.go:233-240`), so that its `select` may drop the block although the queue has room |
| `WritesAreLimited` (KeepAlive) | `keep_alive`'s | one goroutine lifts the deadline (`tunnel.go:243`) between another's `SetWriteDeadline` and its `Write`; `const.go:10` says that a tunnel that cannot send a block within the limit is dead |
| `GoodTunnelStays` (KeepAlive) | `keep_alive`'s with `RoundTrip = 3` | an answer that takes the whole of `TunnelRecvTimeoutSec` may come in after the check of the same second |
| `NoPanic` (InboundConnection) | `inbound_stream`'s | `Close` closes channels on which `recvRelay` and `OrderedRelay` are about to send (`inbound_connection.go:198`) |
| `ReadReturns` (InboundConnection) | `Streams <- ShortStreams`, `BufferSizes = {2}`, no writes | a receive from the channel that `Close` closed is always ready, so the draining loop never ends |
| `RecvBytesExact` (InboundConnection) | `BufferSizes = {1}` | bytes that go through the ring buffer are not counted |
| `ConcurrentWritesReadable` (SecureStream) | 2 blocks, no constraint | two goroutines share the writer's buffer and nonce, which are above the adapter's mutex |
| `TargetIsDialable` (Socks5) | `client_peer`'s | an IPv6 host is joined to its port without brackets |
| `MapNeverRaces` (ClientPeer) | `client_peer`'s | `recvRelay` looks up under the original lock while `Dial` or a removal writes under the copy's |
| `TunnelNumberPositive` (Program) | `program`'s | "Tunnel number must be positive." (`rabbit.go:409`) is said of 0 only: a client with a negative number runs, without tunnels |
| `PagesForListed` (Program) | `program`'s | "/32" is appended to a bare IPv6 entry too (`rabbit.go:674`, `813`), which lets in every address with the same first 32 bits |
| `OptionsTakeEffect` (Program) | `program`'s | `-use-syslog` is parsed and never looked at; the size of the send queue is not passed on (`rabbit.go:370`) |
| `CountsAreCurrent` (Program) | `program`'s | the counts are `int32`, and their gauges are set only from an `int` (`rabbit.go:602-607`), so that they stay 0 |

Not claimed either: that a local program which goes away leaves nothing behind.
`biRelay` waits for both relays (`client.go:134`), the program's end reaches the server
only as the end of one direction, and a target that neither sends nor closes keeps the
other `Read` waiting, and with it the goroutine and the entry of the connection.
`NothingLeftBehind` is about connections that have ended.

### Fairness

Go runs every goroutine that can run. `TunnelRelay`, `ConnectionPool`,
`InboundConnection` and `ClientPeer` need only that the program as a whole does not stand still
while one of its goroutines can run, which is weaker; the others have weak
fairness for each goroutine's steps. Strong fairness is assumed in one place, the
`select` of `SendRelay` in which `ctx.Done()` stays ready while blocks come and go
(`SendRelayEnds`): Go chooses among ready cases at random, so a case that is ready
again and again is taken in the end. Timers and dials end (`time.After`,
`DialTimeout`). The environment is fair only where a property is about progress
through it: readers go on reading (`Take`, `Consume`), the pool takes a block off a full
`sendQueue` or ends (`PoolTakes` or `PoolEnds`, and nothing after the end), in `ClientPeer`
some tunnel takes blocks, a block in the network arrives or dies, a living address
answers after finitely many errors, a local program ends its side sooner or later (`WriterEnds`). Nothing makes `biRelay`
end in `ClientPeer`, or a tunnel fail, a program leave, a target close or a client send
its ID; these stay free to happen or not. `KeepAlive` needs no fairness: that a second
does not pass while a goroutine can run makes its time limits safety properties.

## 4. The proofs

Assumptions are the named `ASSUME` of each component module: capacities are
positive, bounds are naturals, the `Modulus` of `Program`'s counters is a positive
natural (that `2^Width` is one is beyond the provers), the IDs of `ConnectionPool` and the tunnels of
`TunnelRelay` are finite sets, and each stream that a server sends to
`InboundConnection` has at most one Disconnect for both directions, which is what
`DisconnectsOnce` proves of the server's end. TLC evaluates them in every run.

**BlockProcessorProofs**, under `NoWrap` (fewer blocks than IDs, which
the wrap described above shows to be necessary): `TypeCorrect`, `StreamInOrder`,
`NoBlockDiscarded`, `CountersAreTruthful`, `TimeoutKillsOnlyForHole` and
`Refinement` (of `OrderedStream`). `InOrder` is not inductive: that the next block
forwarded is the right one depends on where it waits. `IInv` adds that every
block anywhere is one that was packed (`AllGenuine`), that `recvBlockID` counts the
forwarded blocks and the cache holds only later ones (`Cursor`), and that
`lastRecvBlockID` is one past the highest block received (`Highest`), without
which the hole timer's test says nothing.

**PoolProofs** is about two components.

* `ConnectionPool`: `TypeCorrect`, `LiveConnectionsMapped`, `CountCorrect`. `MappingInv`
  says that an entry leads to a connection of its ID, that a connection not removed yet
  has its entry still, and that a removed one is over; so an ID has at most one connection
  that is not removed, and removing by ID removes that one. Cardinality of the mapped IDs
  changes by one with each entry.
* `ClientManager`: `ManagerTypes`, `PoolBounded`, `NoDeathForgotten`, `AddressesKept`, for
  any number of tunnels and addresses. The strengthening, `Accounting`, says that the
  pool and the tunnels still to be created never exceed `TunnelNum` together, and equal
  it when no notification waits: the unlocked count can be stale only while another
  `DecreaseNotify` is already waiting.

**ClientPeerProofs**: `DialsAfterProtocol`; `ImplementsSocks5`, the refinement from the
composition to the listener, for which sharing a peer adds no behaviour;
`EntriesTakenOut`; and `RepliesRouted`. For the first of these, `Awaited` says that the remover
of a connection in the map has not done its work, for which an entry has to lead to a
connection of its ID (`EntryInv`). For the last, `SentInv` says that whatever is queued, under way or
answered belongs to a connection that has been dialled, and `EntryInv` that a
connection entered in the map stays there until its context is done, unless another
has drawn its ID.

**EdgeProofs** is about the two outer edges of a process.

* `Program`: `ConfigHolds`, `PagesHold`, `RateHolds`, `MetricsHold`, for all setups, access
  lists, requests, counter widths and lengths of the history. `MergedIsWanted` shows that
  laying file and command line over the defaults gives the topmost value of each option,
  which `ConfigInv` keeps for as long as the program runs, and `ValidIsWorkable` that the
  checks of `parseFlags` are what `Workable` asks of the topmost values. `GuardInv` says that a request
  gets to a page only past the access list, as `Covers` widens it, and the login; `MetricsInv` that the statistics
  with which one request sets the gauges are current for every request at the metrics, so
  that it does not matter whose values these show. For the rate, `CountInv` says that the
  counter is the true count modulo `Modulus` and that true samples grow; `HistoryInv` that
  the history is the newest `HistorySize` of the true samples modulo `Modulus`, the one read
  and not yet stored apart. What the wrap does to a difference of counters (`Unwrap`), and
  dropping the oldest sample to the newest ones (`NewestLaw`), are lemmas.
* `OutboundConnection`: `DisconnectsOnce` and `AnswerIsComplete`. `TurnInv` says that of the
  two relays only the winner of the compare-and-swap gets to the Disconnect, and once;
  `CompleteInv` that the end of the connection precedes any Disconnect and that a relay at
  the target's EOF has queued all it has read.

**TunnelProofs** is about two components.

* `KeepAlive`: `SendsEnd`, for all limits. `ShareInv` says that the time a goroutine has
  been in `packThenSend` and what each of the two others may still take of the mutex before
  it (`Owes`: what is left of a write under way, a whole limit for one that has waited as
  long) add up to at most two limits, and with its own write to three. `GoodTunnelsStay`, for all limits with
  `RoundTrip < TunnelRecvTimeoutSec`; `AnswerInTime` says that before the first fault the
  time without a read and the time until the answer add up to at most `PingInterval` +
  1 + `RoundTrip`, and that past the interval a ping is on its way or answered.
  `SilenceNoticed`, for all limits: `SilenceInv` adds up the time since the last read and
  what the writer at work, or the deadline that stands, still has left (`WaitInv`), so
  that the ping's turn comes after at most two other writes and its own is over after
  three (`PingInv`). The bound follows for every order in which the mutex is handed over.
* `PeerGroup`: `OnePeerLives`, `CountdownCorrect`, `UsedPeersKept`, for any number of
  tunnels and peers. `MapInv` says that a peer is in the map exactly while its `RemovePeer`
  is still to come, so that a deletion by ID hits the peer it is meant for; `CountInv` that
  a countdown runs only for an empty pool and that an empty pool without one has a tunnel
  on its way.

**TunnelRelayProofs**, for any finite set of tunnels, any queues and any number of blocks:
`NoLossWithoutFailure`: a failed tunnel stays failed, and a block is given up, or waits
to be sent again, only once there is one. `OnePlace`: `Copies` counts the places of a
block in queues, hands and wires; each way to move a block has a lemma saying that
what one place loses another gains (`QueueToHand`, `HandToWire`, ...), and no step but
the one that produces a block changes the count (`CopiesKept`). `HandsInv`, that a
goroutine holds a block only between taking and passing it on, is needed for the
hands to be empty when they take one. `ControlLeaks`: pings and pongs are only on the
wire and in the hands of their own tunnel (`OwnInv`), and `InboundRelay` passes one on
only with its last read. `TunnelsAreAChannel` is the refinement of `BlockChannel`: a block
taken off `recvQueue`, cut from a wire or given up by a retry had its one place there
(`OnItsWay`), so it has been handed over and has neither arrived nor been lost before.

**SecureStreamProofs**: `NoncesAgree` and `ArriveWhole`, for any goroutines and any
lengths of blocks, records and reads. `Turns` says that until two goroutines overlap in
`ReadFrom` at most one is there, `FillInv` that it finds in the shared buffer what it has
put there, `NonceInv` that the writer's nonce is ahead of the reader's by two for each
record on the wire and by those of the record in the making, and `WholeInv` that what has
been read, kept and sent, with the rest of the block being written, is the blocks in the
order they began. The bytes of a sequence of records (`Joined`) are a recursive
function. Its laws (`JoinedAppend`, `JoinedConcat`, ...) are proved by induction on the
length, which the provers can follow for a set of numbers, though not for a predicate:
`SetInduction` comes from the least element of a set of naturals.

**InboundConnectionProofs**: `StreamKept`, `OneClose` and `EOFComplete`, for any streams
and any slices. `SeqInv` says what the queues hold and that `Read` looks for blocks only
with an empty ring buffer; `CloseInv` that only the goroutine whose swap succeeded gets to
the Disconnect; `EndInv` that a connection is closed for reading only once nothing of a
stream that ends with the server's shutdown is on its way, unless a deadline has passed.

Only model-checked: liveness and `ENABLED`, which the prover does not do. Every invariant
of the passing runs is proved.

## 5. What is not modelled

* Byte layout of blocks and the cut of data into blocks (`NewDataBlocks`): functions
  of bytes without state or a second actor.
* Ciphers, key derivation and salts: a sealed record is modelled as opening under its
  nonce only. The salts are exchanged by one goroutine before any relay starts.
* Durations, outside `KeepAlive`: a timer may fire at any time while it is set.
  `retryweight` and the latency figures only change durations or displays.
* Logging, TLS files, parsing of URLs, and the texts of the status pages: I/O and
  formatting. Of the options, `Program` has those that a decision depends on and two
  that get lost; the others are copied in the same way.
* Both ends of a connection in one module. The parts meet at channels, each of which
  is in the modules of both its ends, with every behaviour of the other side that
  those allow; their product would be far larger than the largest of these runs.
* A Disconnect lost with a tunnel while no later block follows: nothing in the code
  notices it, so no property can be stated beyond `Delivered`'s exception.
