------------------------------ MODULE KeepAlive ------------------------------
(***************************************************************************)
(* The time limits of a tunnel, at one of its ends.  PingPong looks once a *)
(* second how long nothing has been read, sends pings, and at last closes  *)
(* the tunnel.  OutboundRelay, InboundRelay (for pongs) and PingPong all   *)
(* write with packThenSend: SetWriteDeadline, Write, and SetWriteDeadline  *)
(* again to lift the limit.  The adapter's mutex covers Write alone, and   *)
(* the deadline belongs to the connection, not to the goroutine: Write     *)
(* goes by the one that is set when it begins.                             *)
(*                                                                         *)
(* Time is in seconds.  A goroutine that can run does so within the        *)
(* second; what takes longer is the network and a full recvQueue.          *)
(***************************************************************************)
EXTENDS Integers

CONSTANTS
  PingInterval, TunnelRecvTimeoutSec, TunnelBlockTimeoutSec,
  RoundTrip,  \* seconds until a ping is answered, while the link is good
  MaxFaults,  \* bound: changes of the link, and times InboundRelay is held
  Horizon     \* bound: seconds without anything read

ASSUME LimitsAssumption ==
  /\ {PingInterval, TunnelRecvTimeoutSec, TunnelBlockTimeoutSec} \subseteq Nat \ {0}
  /\ {RoundTrip, MaxFaults, Horizon} \subseteq Nat

Writers == {"OutboundRelay", "InboundRelay", "PingPong"}
None == -1

VARIABLES
  link,        \* good, or stuck: nothing arrives, and writes may block
  faults,      \* faults so far
  answer,      \* seconds until the answer to a ping arrives, or None
  idle,        \* seconds since LastActivity
  held,        \* InboundRelay waits for room in recvQueue
  pingPong,    \* PingPong: select, ping or check
  ticked,      \* the ticker of PingPong has fired
  step,        \* where each goroutine is in packThenSend
  since,       \* how many seconds each has been there
  limit,       \* seconds left to a Write in progress, or None
  deadline,    \* write deadline of the connection, in seconds, or None
  dead,        \* writes have failed, and go on failing
  closed,      \* closeThenCancel
  unlimited    \* a Write has begun without a deadline

network == <<link, faults, answer>>
reading == <<idle, held>>
writing == <<step, since, limit, deadline, dead, unlimited>>
keepAliveVars == <<network, reading, pingPong, ticked, writing, closed>>

KeepAliveInit ==
  /\ link = "good" /\ faults = 0 /\ answer = None
  /\ idle = 0 /\ held = FALSE
  /\ pingPong = "select" /\ ticked = FALSE
  /\ step = [g \in Writers |-> "none"] /\ since = [g \in Writers |-> 0]
  /\ limit = [g \in Writers |-> None]
  /\ deadline = None /\ dead = FALSE
  /\ unlimited = FALSE /\ closed = FALSE

-----------------------------------------------------------------------------
(* packThenSend.                                                           *)

\* Mutant: the limit for reading is taken.
BeginRecvTimeout(g) ==
  /\ step[g] = "none"
  /\ step' = [step EXCEPT ![g] = "set"]
  /\ deadline' = TunnelRecvTimeoutSec
  /\ UNCHANGED <<since, limit, dead, unlimited>>

\* SetWriteDeadline(now + TunnelBlockTimeoutSec).
Begin(g) ==
  /\ step[g] = "none"
  /\ step' = [step EXCEPT ![g] = "set"]
  /\ deadline' = TunnelBlockTimeoutSec
  /\ UNCHANGED <<since, limit, dead, unlimited>>

MutexFree == \A h \in Writers : step[h] # "write"

\* The adapter's Write takes the mutex, which goes to the one that has waited
\* longest (a waiter of sync.Mutex is passed over for a millisecond at most),
\* and the deadline as it is now.
WriteBegins(g) ==
  /\ step[g] = "set" /\ MutexFree
  /\ \A h \in Writers : step[h] = "set" => since[h] <= since[g]
  /\ step' = [step EXCEPT ![g] = "write"]
  /\ limit' = [limit EXCEPT ![g] = deadline]
  /\ unlimited' = (unlimited \/ deadline = None)
  /\ UNCHANGED <<network, reading, pingPong, ticked, since, deadline, dead, closed>>

\* The message is in the buffers of the connection: always while the link is
\* good, otherwise while there is room.  The other end answers a ping.
WriteSucceeds(g) ==
  /\ step[g] = "write" /\ ~dead /\ ~closed
  /\ step' = [step EXCEPT ![g] = "written"]
  /\ answer' = IF g = "PingPong" /\ link = "good" /\ answer = None THEN RoundTrip ELSE answer
  /\ UNCHANGED <<link, faults, reading, pingPong, ticked, since, limit, deadline, dead,
                 unlimited, closed>>

\* The deadline has passed, or the connection is closed or has failed before.
WriteFails(g) ==
  /\ step[g] = "write" /\ (limit[g] = 0 \/ dead \/ closed)
  /\ step' = [step EXCEPT ![g] = "failed"]
  /\ dead' = TRUE
  /\ UNCHANGED <<network, reading, pingPong, ticked, since, limit, deadline, unlimited,
                 closed>>

\* Mutant: after a ping, PingPong waits for the next tick.
EndOfPingWaits(g) ==
  /\ step[g] \in {"written", "failed"}
  /\ step' = [step EXCEPT ![g] = "none"]
  /\ limit' = [limit EXCEPT ![g] = None] /\ since' = [since EXCEPT ![g] = 0]
  /\ IF step[g] = "failed" /\ g = "OutboundRelay"
     THEN closed' = TRUE /\ UNCHANGED deadline
     ELSE deadline' = None /\ UNCHANGED closed
  /\ pingPong' = IF g = "PingPong" THEN "select" ELSE pingPong
  /\ UNCHANGED <<network, reading, ticked, dead, unlimited>>

\* The end of packThenSend: the deadline is lifted, also when a ping or a pong
\* could not be written; a block of OutboundRelay closes the tunnel instead.
End(g) ==
  /\ step[g] \in {"written", "failed"}
  /\ step' = [step EXCEPT ![g] = "none"]
  /\ limit' = [limit EXCEPT ![g] = None] /\ since' = [since EXCEPT ![g] = 0]
  /\ IF step[g] = "failed" /\ g = "OutboundRelay"
     THEN closed' = TRUE /\ UNCHANGED deadline
     ELSE deadline' = None /\ UNCHANGED closed
  /\ pingPong' = IF g = "PingPong" THEN "check" ELSE pingPong
  /\ UNCHANGED <<network, reading, ticked, dead, unlimited>>

-----------------------------------------------------------------------------
(* The goroutines.                                                         *)

\* OutboundRelay has a block to send.
SendBlock ==
  /\ ~closed
  /\ Begin("OutboundRelay")
  /\ UNCHANGED <<network, reading, pingPong, ticked, closed>>

\* The ticker: a ping if nothing has been read for long.
PingPongTick ==
  /\ ~closed /\ pingPong = "select" /\ ticked
  /\ ticked' = FALSE
  /\ \/ /\ idle > PingInterval
        /\ pingPong' = "ping"
        /\ Begin("PingPong")
     \/ /\ idle <= PingInterval
        /\ pingPong' = "check"
        /\ UNCHANGED writing
  /\ UNCHANGED <<network, reading, closed>>

\* Mutant: the answer has to arrive within the limit for the ping.
PingPongCheckEarly ==
  /\ pingPong = "check"
  /\ pingPong' = "select"
  /\ closed' = (closed \/ idle > TunnelRecvTimeoutSec)
  /\ UNCHANGED <<network, reading, ticked, writing>>

\* "PingPong timeout."
PingPongCheck ==
  /\ pingPong = "check"
  /\ pingPong' = "select"
  /\ closed' = (closed \/ idle > PingInterval + TunnelRecvTimeoutSec)
  /\ UNCHANGED <<network, reading, ticked, writing>>

Reads == ~closed /\ ~held /\ step["InboundRelay"] = "none"

\* InboundRelay reads the answer to a ping, or something that the other end
\* sends by itself: a pong or a block, a ping that it answers, or a block that
\* finds no room in recvQueue.
Receive ==
  /\ Reads /\ link = "good"
  /\ idle' = 0
  /\ \/ /\ answer' = None
        /\ UNCHANGED <<faults, held, writing>>
     \/ /\ Begin("InboundRelay")
        /\ UNCHANGED <<faults, answer, held>>
     \/ /\ faults < MaxFaults
        /\ faults' = faults + 1 /\ held' = TRUE
        /\ UNCHANGED <<answer, writing>>
  /\ UNCHANGED <<link, pingPong, ticked, closed>>

\* recvQueue has room again.
Release ==
  /\ held /\ held' = FALSE
  /\ UNCHANGED <<network, idle, pingPong, ticked, writing, closed>>

\* The link fails, or recovers; what was under way is lost.
LinkChanges ==
  /\ faults < MaxFaults
  /\ faults' = faults + 1
  /\ link' = IF link = "good" THEN "stuck" ELSE "good"
  /\ answer' = None
  /\ UNCHANGED <<reading, pingPong, ticked, writing, closed>>

-----------------------------------------------------------------------------

\* Something happens before the second is over.
Pending ==
  \/ (ticked /\ pingPong = "select") \/ pingPong = "check"
  \/ \E g \in Writers :
       \/ step[g] \in {"written", "failed"} \/ (step[g] = "set" /\ MutexFree)
       \/ step[g] = "write" /\ (link = "good" \/ limit[g] = 0 \/ dead)
  \/ answer = 0 /\ Reads

Less(n) == IF n > 0 THEN n - 1 ELSE n

\* A second passes, and the ticker fires.
Tick ==
  /\ ~closed /\ ~Pending /\ idle < Horizon
  /\ idle' = idle + 1 /\ ticked' = TRUE
  /\ answer' = Less(answer) /\ deadline' = Less(deadline)
  /\ limit' = [g \in Writers |-> Less(limit[g])]
  /\ since' = [g \in Writers |-> IF step[g] = "none" THEN 0 ELSE since[g] + 1]
  /\ UNCHANGED <<link, faults, held, pingPong, step, dead, unlimited, closed>>

KeepAliveNext ==
  \/ \E g \in Writers : WriteBegins(g) \/ WriteSucceeds(g) \/ WriteFails(g) \/ End(g)
  \/ SendBlock \/ PingPongTick \/ PingPongCheck \/ Receive \/ Release \/ LinkChanges \/ Tick

KeepAliveSpec == KeepAliveInit /\ [][KeepAliveNext]_keepAliveVars

-----------------------------------------------------------------------------
(* Properties.                                                             *)

\* PingPong closes no tunnel that works: as long as pings are answered within
\* TunnelRecvTimeoutSec, and the relay that reads the answers is not held up, a
\* ping always goes out and its answer comes in before the limit is passed.
GoodTunnelStays == closed => faults > 0

\* A tunnel over which nothing comes any more is closed soon after the time
\* limit, although the failed write of a ping is taken for a success and although
\* a ping may wait for the mutex behind the two other writers, each until its
\* deadline, and then for its own; unless a Write has lost its deadline.
SilenceIsNoticed ==
  ~closed /\ ~unlimited =>
    idle <= PingInterval + TunnelRecvTimeoutSec + 3 * TunnelBlockTimeoutSec

\* packThenSend comes back within three times the limit, with the message sent
\* or the connection dead: behind each of the two other writers it waits for one
\* Write at most, however often they come again, and a Write under way ends by
\* the deadline it began with, which the others' SetWriteDeadline cannot put off.
\* Only a Write that began after another writer had lifted the deadline is
\* without a limit, for itself and for those behind it.
SendsInThreeLimits ==
  ~unlimited => \A g \in Writers : since[g] <= 3 * TunnelBlockTimeoutSec

\* "If a tunnel cannot send a block within the limit, will treat it a dead
\* tunnel."
WritesAreLimited == ~unlimited
=============================================================================
