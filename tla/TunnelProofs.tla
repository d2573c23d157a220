---------------------------- MODULE TunnelProofs ----------------------------
(***************************************************************************)
(* The tunnels of a peer. For all timeouts, what the keep-alive of a       *)
(* tunnel closes and what it leaves open (KeepAlive); for any number of    *)
(* tunnels and of peers made one after the other, which peer has which     *)
(* tunnels and when it is destroyed (PeerGroup).                           *)
(***************************************************************************)
EXTENDS KeepAlive, PeerGroup, TLAPS

-----------------------------------------------------------------------------
(* A tunnel that is used: KeepAlive.                                       *)

\* Where a goroutine is in packThenSend.
Steps == {"none", "set", "write", "written", "failed"}

\* The types that the arguments below need.
KeepAliveTypes ==
  /\ step \in [Writers -> Steps] /\ limit \in [Writers -> Int]
  /\ since \in [Writers -> Nat] /\ \A g \in Writers : step[g] = "none" => since[g] = 0
  /\ faults \in Nat /\ idle \in Nat /\ answer \in Int /\ deadline \in Int
  /\ pingPong \in {"select", "ping", "check"}

\* The limits, one by one.
LEMMA Limits ==
  /\ PingInterval \in Nat /\ TunnelRecvTimeoutSec \in Nat /\ TunnelRecvTimeoutSec > 0
  /\ TunnelBlockTimeoutSec \in Nat /\ TunnelBlockTimeoutSec > 0
  /\ RoundTrip \in Nat
BY LimitsAssumption

\* Every step of the tunnel keeps the types of its state.
LEMMA KeepAliveTypesKept == KeepAliveSpec => []KeepAliveTypes
<1> USE Limits DEF Writers, None, Steps
<1>1. KeepAliveInit => KeepAliveTypes
  BY DEF KeepAliveInit, KeepAliveTypes
<1>2. KeepAliveTypes /\ [KeepAliveNext]_keepAliveVars => KeepAliveTypes'
  <2> SUFFICES ASSUME KeepAliveTypes, [KeepAliveNext]_keepAliveVars PROVE KeepAliveTypes'
    OBVIOUS
  <2> USE DEF KeepAliveTypes, network, reading, writing
  <2>1. ASSUME NEW g \in Writers, WriteBegins(g) PROVE KeepAliveTypes'
    BY <2>1 DEF WriteBegins
  <2>2. ASSUME NEW g \in Writers, WriteSucceeds(g) PROVE KeepAliveTypes'
    BY <2>2 DEF WriteSucceeds
  <2>3. ASSUME NEW g \in Writers, WriteFails(g) PROVE KeepAliveTypes'
    BY <2>3 DEF WriteFails
  <2>4. ASSUME NEW g \in Writers, End(g) PROVE KeepAliveTypes'
    BY <2>4 DEF End
  <2>5. CASE SendBlock
    BY <2>5 DEF SendBlock, Begin
  <2>6. CASE PingPongTick
    BY <2>6 DEF PingPongTick, Begin
  <2>7. CASE PingPongCheck
    BY <2>7 DEF PingPongCheck
  <2>8. CASE Receive
    BY <2>8 DEF Receive, Begin
  <2>9. CASE Release
    BY <2>9 DEF Release
  <2>10. CASE LinkChanges
    BY <2>10 DEF LinkChanges
  <2>11. CASE Tick
    BY <2>11 DEF Tick, Less
  <2>12. CASE UNCHANGED keepAliveVars
    BY <2>12 DEF keepAliveVars
  <2> QED
    BY <2>1, <2>2, <2>3, <2>4, <2>5, <2>6, <2>7, <2>8, <2>9, <2>10, <2>11, <2>12
       DEF KeepAliveNext
<1> QED
  BY <1>1, <1>2, PTL DEF KeepAliveSpec

\* A tunnel stays closed, and a Write that had no deadline is not forgotten.
LEMMA Latched ==
  [KeepAliveNext]_keepAliveVars => (closed => closed') /\ (unlimited => unlimited')
<1>1. ASSUME NEW g \in Writers, WriteBegins(g)
      PROVE  (closed => closed') /\ (unlimited => unlimited')
  BY ONLY <1>1, Zenon DEF WriteBegins
<1>2. ASSUME NEW g \in Writers, WriteSucceeds(g) \/ WriteFails(g)
      PROVE  (closed => closed') /\ (unlimited => unlimited')
  <2>1. UNCHANGED <<closed, unlimited>>
    BY ONLY <1>2, Zenon DEF WriteSucceeds, WriteFails
  <2> QED
    BY ONLY <2>1
<1>3. ASSUME NEW g \in Writers, End(g)
      PROVE  (closed => closed') /\ (unlimited => unlimited')
  BY ONLY <1>3, Zenon DEF End
<1>4. ASSUME SendBlock \/ PingPongTick \/ Receive
      PROVE  (closed => closed') /\ (unlimited => unlimited')
  <2>1. UNCHANGED <<closed, unlimited>>
    BY ONLY <1>4, Zenon DEF SendBlock, PingPongTick, Receive, Begin, writing
  <2> QED
    BY ONLY <2>1
<1>5. ASSUME PingPongCheck PROVE (closed => closed') /\ (unlimited => unlimited')
  BY ONLY <1>5, Zenon DEF PingPongCheck, writing
<1>6. ASSUME Release \/ LinkChanges \/ Tick \/ UNCHANGED keepAliveVars
      PROVE  (closed => closed') /\ (unlimited => unlimited')
  <2>1. UNCHANGED <<closed, unlimited>>
    BY ONLY <1>6, Zenon DEF Release, LinkChanges, Tick, keepAliveVars, writing
  <2> QED
    BY ONLY <2>1
<1> QED
  BY <1>1, <1>2, <1>3, <1>4, <1>5, <1>6, Zenon
     DEF KeepAliveNext

-----------------------------------------------------------------------------
(* Three writers.                                                          *)

\* The two writers beside g.
Others(g) == Writers \ {g}

\* How long the mutex may still be with h, or go to h, before g has it.
Owes(g, h) ==
  IF step[h] = "write" THEN limit[h]
  ELSE IF step[h] = "set" /\ since[g] <= since[h] THEN TunnelBlockTimeoutSec ELSE 0

\* A Write goes on for no longer than the limit.
LimitsInv ==
  /\ deadline <= TunnelBlockTimeoutSec /\ deadline >= -1
  /\ \A g \in Writers : step[g] = "write" => limit[g] <= TunnelBlockTimeoutSec /\ limit[g] >= 0

\* Who waits for the mutex has been there, and will be, for two Writes at most;
\* who has it, for a third; and no second passes once it is done.
ShareInv ==
  /\ \A g \in Writers : step[g] = "set" =>
       \A h, i \in Others(g) : h # i => since[g] + Owes(g, h) + Owes(g, i) <= 2 * TunnelBlockTimeoutSec
  /\ \A g \in Writers : step[g] = "write" => since[g] + limit[g] <= 3 * TunnelBlockTimeoutSec
  /\ \A g \in Writers : since[g] <= 3 * TunnelBlockTimeoutSec

\* The inductive invariant.
SendInv == ~unlimited => LimitsInv /\ ShareInv

\* Neither the writers nor the seconds take more than is counted.
LEMMA SendKept == KeepAliveTypes /\ SendInv /\ [KeepAliveNext]_keepAliveVars => SendInv'
<1> SUFFICES ASSUME KeepAliveTypes, SendInv, [KeepAliveNext]_keepAliveVars, ~unlimited'
             PROVE  LimitsInv' /\ ShareInv'
  BY DEF SendInv
<1>a. LimitsInv /\ ShareInv
  BY Latched, ~unlimited', Zenon DEF SendInv
<1>t. /\ step \in [Writers -> Steps] /\ limit \in [Writers -> Int]
      /\ since \in [Writers -> Nat] /\ \A g \in Writers : step[g] = "none" => since[g] = 0
      /\ deadline \in Int
  BY Zenon DEF KeepAliveTypes
<1>1. ASSUME NEW k \in Writers, WriteBegins(k) PROVE LimitsInv' /\ ShareInv'
  <2>1. /\ step[k] = "set" /\ \A h \in Writers : step[h] # "write"
        /\ \A h \in Writers : step[h] = "set" => since[h] <= since[k]
        /\ step' = [step EXCEPT ![k] = "write"]
        /\ limit' = [limit EXCEPT ![k] = deadline]
        /\ deadline # -1
        /\ UNCHANGED <<since, deadline>>
    BY <1>1, Zenon DEF WriteBegins, MutexFree, None
  <2>2. LimitsInv'
    BY ONLY Limits, <1>a, <1>t, <2>1 DEF LimitsInv, Writers, Steps
  <2>3. since[k] <= 2 * TunnelBlockTimeoutSec
    BY ONLY Limits, <1>a, <1>t, <2>1 DEF ShareInv, Others, Owes, Writers, Steps
  <2>4. ASSUME NEW g \in Writers, step'[g] = "set", NEW h \in Others(g), NEW i \in Others(g), h # i
        PROVE  since'[g] + Owes(g, h)' + Owes(g, i)' <= 2 * TunnelBlockTimeoutSec
    <3>1. step[g] = "set" /\ since[g] + Owes(g, h) + Owes(g, i) <= 2 * TunnelBlockTimeoutSec
      BY ONLY <1>a, <1>t, <2>1, <2>4 DEF ShareInv, Others
    <3>2. Owes(g, h)' <= Owes(g, h) /\ Owes(g, i)' <= Owes(g, i)
      BY ONLY Limits, <1>a, <1>t, <2>1, <3>1, <2>4 DEF LimitsInv, Owes, Others, Steps
    <3>3. Owes(g, h)' \in Int /\ Owes(g, h) \in Int /\ Owes(g, i)' \in Int /\ Owes(g, i) \in Int
      BY ONLY Limits, <1>t, <2>1, <2>4 DEF Owes, Others
    <3> QED
      BY ONLY Limits, <1>t, <2>1, <3>1, <3>2, <3>3
  <2>5. \A g \in Writers : step'[g] = "write" => since'[g] + limit'[g] <= 3 * TunnelBlockTimeoutSec
    BY ONLY Limits, <1>a, <1>t, <2>1, <2>3 DEF LimitsInv
  <2> QED
    BY <1>a, <2>1, <2>2, <2>4, <2>5 DEF ShareInv
<1>2. ASSUME NEW k \in Writers, WriteSucceeds(k) \/ WriteFails(k) \/ End(k)
      PROVE  LimitsInv' /\ ShareInv'
  <2>1. /\ step[k] \notin {"none", "set"}
        /\ \E r \in {"written", "failed", "none"} : step' = [step EXCEPT ![k] = r]
        /\ limit' = limit \/ limit' = [limit EXCEPT ![k] = -1]
        /\ since' = since \/ since' = [since EXCEPT ![k] = 0]
        /\ deadline' = deadline \/ deadline' = -1
    BY <1>2, Zenon DEF WriteSucceeds, WriteFails, End, None
  <2>2. LimitsInv'
    BY ONLY Limits, <1>a, <1>t, <2>1 DEF LimitsInv, Steps
  <2>4. ASSUME NEW g \in Writers, step'[g] = "set", NEW h \in Others(g), NEW i \in Others(g), h # i
        PROVE  since'[g] + Owes(g, h)' + Owes(g, i)' <= 2 * TunnelBlockTimeoutSec
    <3>1. /\ step[g] = "set" /\ since'[g] = since[g]
          /\ since[g] + Owes(g, h) + Owes(g, i) <= 2 * TunnelBlockTimeoutSec
      BY ONLY <1>a, <1>t, <2>1, <2>4 DEF ShareInv, Others
    <3>2. Owes(g, h)' <= Owes(g, h) /\ Owes(g, i)' <= Owes(g, i)
      BY ONLY Limits, <1>a, <1>t, <2>1, <3>1, <2>4 DEF LimitsInv, Owes, Others, Steps
    <3>3. Owes(g, h)' \in Int /\ Owes(g, h) \in Int /\ Owes(g, i)' \in Int /\ Owes(g, i) \in Int
      BY ONLY Limits, <1>t, <2>1, <2>4 DEF Owes, Others
    <3> QED
      BY ONLY Limits, <1>t, <3>1, <3>2, <3>3
  <2>5. /\ \A g \in Writers : step'[g] = "write" => since'[g] + limit'[g] <= 3 * TunnelBlockTimeoutSec
        /\ \A g \in Writers : since'[g] <= 3 * TunnelBlockTimeoutSec
    BY ONLY Limits, <1>a, <1>t, <2>1 DEF ShareInv, Steps
  <2> QED
    BY <2>2, <2>4, <2>5 DEF ShareInv
<1>3. ASSUME NEW k \in Writers, Begin(k) PROVE LimitsInv' /\ ShareInv'
  <2>1. /\ step[k] = "none" /\ step' = [step EXCEPT ![k] = "set"]
        /\ deadline' = TunnelBlockTimeoutSec /\ UNCHANGED <<since, limit>>
    BY <1>3, Zenon DEF Begin
  <2>2. LimitsInv'
    BY ONLY Limits, <1>a, <1>t, <2>1 DEF LimitsInv, Steps
  <2>4. ASSUME NEW g \in Writers, step'[g] = "set", NEW h \in Others(g), NEW i \in Others(g), h # i
        PROVE  since'[g] + Owes(g, h)' + Owes(g, i)' <= 2 * TunnelBlockTimeoutSec
    <3>0. h \in Writers /\ i \in Writers /\ h # g /\ i # g
      BY <2>4 DEF Others
    <3>1. Owes(g, h)' <= TunnelBlockTimeoutSec /\ Owes(g, i)' <= TunnelBlockTimeoutSec
      BY ONLY Limits, <1>a, <1>t, <2>1, <3>0 DEF LimitsInv, Owes
    <3>3. Owes(g, h)' \in Int /\ Owes(g, h) \in Int /\ Owes(g, i)' \in Int /\ Owes(g, i) \in Int
      BY ONLY Limits, <1>t, <2>1, <3>0 DEF Owes
    <3>4. CASE since[g] = 0
      BY ONLY Limits, <2>1, <3>1, <3>3, <3>4
    <3>5. CASE since[g] # 0
      <4>1. step[g] = "set" /\ since[g] + Owes(g, h) + Owes(g, i) <= 2 * TunnelBlockTimeoutSec
        BY ONLY <1>a, <1>t, <2>1, <2>4, <3>5 DEF ShareInv
      <4>2. Owes(g, h)' <= Owes(g, h) /\ Owes(g, i)' <= Owes(g, i)
        BY ONLY Limits, <1>t, <2>1, <3>0, <3>5 DEF Owes, Steps
      <4> QED
        BY ONLY Limits, <1>t, <2>1, <4>1, <4>2, <3>3
    <3> QED
      BY <3>4, <3>5
  <2>5. \A g \in Writers : step'[g] = "write" => since'[g] + limit'[g] <= 3 * TunnelBlockTimeoutSec
    BY ONLY <1>a, <1>t, <2>1 DEF ShareInv
  <2> QED
    BY <1>a, <2>1, <2>2, <2>4, <2>5 DEF ShareInv
<1>4. ASSUME UNCHANGED <<step, since, limit, deadline>> PROVE LimitsInv' /\ ShareInv'
  BY <1>a, <1>4 DEF LimitsInv, ShareInv, Owes, Others
<1>5. CASE SendBlock \/ PingPongTick \/ Receive
  <2>1. (\E k \in Writers : Begin(k)) \/ UNCHANGED <<step, since, limit, deadline>>
    BY <1>5 DEF SendBlock, PingPongTick, Receive, writing, Writers
  <2> QED
    BY <1>3, <1>4, <2>1, Zenon
<1>6. CASE PingPongCheck \/ Release \/ LinkChanges \/ UNCHANGED keepAliveVars
  <2>1. UNCHANGED <<step, since, limit, deadline>>
    BY <1>6, Zenon DEF PingPongCheck, Release, LinkChanges, keepAliveVars, writing
  <2> QED
    BY <1>4, <2>1, Zenon
<1>7. CASE Tick
  <2>1. /\ deadline' = Less(deadline)
        /\ limit' = [g \in Writers |-> Less(limit[g])]
        /\ since' = [g \in Writers |-> IF step[g] = "none" THEN 0 ELSE since[g] + 1]
        /\ UNCHANGED step
    BY <1>7, Zenon DEF Tick
  <2>2. /\ \A g \in Writers : /\ step[g] # "written" /\ step[g] # "failed"
                              /\ step[g] = "write" => limit[g] # 0
        /\ \A g \in Writers : step[g] = "set" => \E h \in Writers : step[h] = "write"
    BY <1>7, Zenon DEF Tick, Pending, MutexFree
  <2>3. \A g \in Writers : step[g] = "write" => limit'[g] = limit[g] - 1 /\ limit[g] > 0
    BY ONLY <1>a, <1>t, <2>1, <2>2 DEF LimitsInv, Less
  <2>4. LimitsInv'
    BY ONLY Limits, <1>a, <1>t, <2>1, <2>3 DEF LimitsInv, Less
  <2>5. ASSUME NEW g \in Writers, step'[g] = "set", NEW h \in Others(g), NEW i \in Others(g), h # i
        PROVE  /\ since'[g] + Owes(g, h)' + Owes(g, i)' <= 2 * TunnelBlockTimeoutSec
               /\ since'[g] <= 3 * TunnelBlockTimeoutSec
    <3>0. h \in Writers /\ i \in Writers /\ h # g /\ i # g
      BY <2>5 DEF Others
    <3>1. /\ step[g] = "set" /\ since'[g] = since[g] + 1
          /\ since[g] + Owes(g, h) + Owes(g, i) <= 2 * TunnelBlockTimeoutSec
      BY ONLY <1>a, <1>t, <2>1, <2>5 DEF ShareInv
    <3>2. step[h] = "write" \/ step[i] = "write"
      <4>1. PICK w \in Writers : step[w] = "write"
        BY <2>2, <3>1
      <4>2. w # g
        BY <3>1, <4>1
      <4>3. w = h \/ w = i
        BY ONLY <2>5, <3>0, <4>2 DEF Writers
      <4> QED
        BY <4>1, <4>3
    <3>3. /\ Owes(g, h)' <= Owes(g, h) /\ Owes(g, h)' \in Nat /\ Owes(g, h) \in Int
          /\ step[h] = "write" => Owes(g, h)' = Owes(g, h) - 1
      BY ONLY Limits, <1>t, <2>1, <2>3, <3>0, <3>1 DEF Owes, Steps
    <3>4. /\ Owes(g, i)' <= Owes(g, i) /\ Owes(g, i)' \in Nat /\ Owes(g, i) \in Int
          /\ step[i] = "write" => Owes(g, i)' = Owes(g, i) - 1
      BY ONLY Limits, <1>t, <2>1, <2>3, <3>0, <3>1 DEF Owes, Steps
    <3> QED
      BY ONLY Limits, <1>t, <3>1, <3>2, <3>3, <3>4
  <2>6. ASSUME NEW g \in Writers, step'[g] = "write"
        PROVE  /\ since'[g] + limit'[g] <= 3 * TunnelBlockTimeoutSec
               /\ since'[g] <= 3 * TunnelBlockTimeoutSec
    BY ONLY Limits, <1>a, <1>t, <2>1, <2>3, <2>6 DEF ShareInv
  <2>7. ASSUME NEW g \in Writers PROVE since'[g] <= 3 * TunnelBlockTimeoutSec
    <3>1. CASE step[g] = "none"
      BY ONLY Limits, <2>1, <3>1
    <3>2. CASE step[g] = "set"
      <4>1. \E h, i \in Others(g) : h # i
        BY DEF Others, Writers
      <4> QED
        BY ONLY <2>1, <2>5, <3>2, <4>1
    <3>3. CASE step[g] = "write"
      BY <2>1, <2>6, <3>3
    <3>4. step[g] \in {"none", "set", "write"}
      BY ONLY <1>t, <2>2, g \in Writers DEF Steps
    <3> QED
      BY <3>1, <3>2, <3>3, <3>4
  <2> QED
    BY <2>4, <2>5, <2>6, <2>7 DEF ShareInv
<1> QED
  BY <1>1, <1>2, <1>5, <1>6, <1>7, Zenon DEF KeepAliveNext

\* Whatever the limits, packThenSend comes back within three times
\* TunnelBlockTimeoutSec, for all three writers and however they interleave, as
\* long as no Write has begun without a deadline.
THEOREM SendsEnd == KeepAliveSpec => []SendsInThreeLimits
<1>1. KeepAliveInit => SendInv
  BY Limits DEF KeepAliveInit, SendInv, LimitsInv, ShareInv, None
<1>2. SendInv => SendsInThreeLimits
  BY Zenon DEF SendInv, ShareInv, SendsInThreeLimits
<1> QED
  BY <1>1, <1>2, SendKept, KeepAliveTypesKept, PTL DEF KeepAliveSpec

-----------------------------------------------------------------------------
(* A good tunnel.                                                          *)

\* Without a fault no write fails: deadlines are lifted within the second, so
\* that none passes.
NoFailure ==
  /\ link = "good" /\ ~held /\ ~dead /\ ~closed
  /\ \A g \in Writers :
       /\ step[g] # "failed" /\ limit[g] # 0
       /\ step[g] \in {"none", "set"} => limit[g] = None
  /\ deadline # 0
  /\ (\A g \in Writers : step[g] = "none") => deadline = None

\* PingPong sends its ping at the first tick after PingInterval, so that from
\* then on an answer is awaited, which comes within RoundTrip seconds.
AnswerInTime ==
  /\ pingPong = "ping" <=> step["PingPong"] # "none"
  /\ answer >= None
  /\ answer = None => idle <= PingInterval + 1
  /\ answer = None /\ idle = PingInterval + 1 =>
       ticked \/ step["PingPong"] \in {"set", "write"}
  /\ answer # None => idle + answer <= PingInterval + 1 + RoundTrip

\* What holds until the first fault.
GoodInv == faults = 0 => NoFailure /\ AnswerInTime

\* Whatever the limits, a tunnel whose pings are answered in less than
\* TunnelRecvTimeoutSec is not closed by PingPong, nor by a write that fails.
THEOREM GoodTunnelsStay ==
  ASSUME RoundTrip < TunnelRecvTimeoutSec
  PROVE  KeepAliveSpec => []GoodTunnelStays
<1> USE Limits DEF None, Steps
<1>1. KeepAliveInit => GoodInv
  BY DEF KeepAliveInit, GoodInv, NoFailure, AnswerInTime, Writers
<1>2. KeepAliveTypes /\ GoodInv /\ [KeepAliveNext]_keepAliveVars => GoodInv'
  <2> SUFFICES ASSUME KeepAliveTypes, GoodInv, [KeepAliveNext]_keepAliveVars, faults' = 0
               PROVE  NoFailure' /\ AnswerInTime'
    BY DEF GoodInv
  <2>0. faults = 0 /\ NoFailure /\ AnswerInTime
    <3>1. faults' \in {faults, faults + 1}
      BY DEF KeepAliveNext, keepAliveVars, network, WriteBegins, WriteSucceeds,
         WriteFails, End, SendBlock,
             PingPongTick, PingPongCheck, Receive, Release, LinkChanges, Tick
    <3> QED
      BY <3>1 DEF GoodInv, KeepAliveTypes
  <2> USE <2>0 DEF KeepAliveTypes, NoFailure, network, reading, writing
  <2>1. ASSUME NEW g \in Writers, WriteBegins(g) PROVE NoFailure' /\ AnswerInTime'
    <3>1. NoFailure'
      BY <2>1 DEF WriteBegins
    <3>2. AnswerInTime'
      BY <2>1 DEF WriteBegins, AnswerInTime, Writers
    <3> QED
      BY <3>1, <3>2
  <2>2. ASSUME NEW g \in Writers, WriteSucceeds(g) PROVE NoFailure' /\ AnswerInTime'
    <3>1. NoFailure'
      BY <2>2 DEF WriteSucceeds
    <3>2. AnswerInTime'
      BY <2>2 DEF WriteSucceeds, AnswerInTime, Writers
    <3> QED
      BY <3>1, <3>2
  <2>3. ASSUME NEW g \in Writers, WriteFails(g) PROVE FALSE
    <3>1. limit[g] = 0 \/ dead \/ closed
      BY <2>3, Zenon DEF WriteFails
    <3> QED
      BY ONLY <2>0, <3>1, Zenon DEF NoFailure
  <2>4. ASSUME NEW g \in Writers, End(g) PROVE NoFailure' /\ AnswerInTime'
    <3>0. step[g] = "written"
      BY <2>4 DEF End
    <3>1. deadline' = None /\ UNCHANGED closed
      <4>1. step[g] # "failed"
        BY <3>0
      <4> QED
        BY ONLY <2>4, <4>1, Zenon DEF End
    <3>2. NoFailure'
      BY <2>4, <3>1 DEF End
    <3>3. AnswerInTime'
      BY <2>4, <3>1 DEF End, AnswerInTime, Writers
    <3> QED
      BY <3>2, <3>3
  <2>5. ASSUME NEW g \in Writers, Begin(g), UNCHANGED <<link, held, closed>>
        PROVE  NoFailure'
    BY <2>5 DEF Begin
  <2>6. CASE SendBlock
    <3>1. NoFailure'
      BY <2>5, <2>6 DEF SendBlock, Writers
    <3>2. AnswerInTime'
      BY <2>6 DEF SendBlock, Begin, AnswerInTime, Writers
    <3> QED
      BY <3>1, <3>2
  <2>7. CASE PingPongTick
    <3>1. NoFailure'
      BY <2>5, <2>7 DEF PingPongTick, Writers
    <3>2. AnswerInTime'
      BY <2>7 DEF PingPongTick, Begin, AnswerInTime, Writers
    <3> QED
      BY <3>1, <3>2
  <2>8. CASE PingPongCheck
    <3>1. ~(idle > PingInterval + TunnelRecvTimeoutSec)
      BY DEF AnswerInTime
    <3>2. ~closed'
      BY <2>8, <3>1, Zenon DEF PingPongCheck
    <3>3. NoFailure'
      BY <2>8, <3>2 DEF PingPongCheck
    <3>4. AnswerInTime'
      BY <2>8 DEF PingPongCheck, AnswerInTime
    <3> QED
      BY <3>3, <3>4
  <2>9. CASE Receive
    <3>1. UNCHANGED held
      BY <2>9 DEF Receive
    <3>2. NoFailure'
      BY <2>5, <2>9, <3>1 DEF Receive, Writers
    <3>3. AnswerInTime'
      BY <2>9 DEF Receive, Begin, AnswerInTime, Writers
    <3> QED
      BY <3>2, <3>3
  <2>10. CASE Release
    BY <2>10 DEF Release
  <2>11. CASE LinkChanges
    BY <2>11 DEF LinkChanges
  <2>12. CASE Tick
    <3>1. \A g \in Writers : step[g] = "none"
      <4>1. \A g \in Writers : step[g] # "write" /\ step[g] # "written"
        BY <2>12 DEF Tick, Pending
      <4> QED
        BY <2>12, <4>1 DEF Tick, Pending, MutexFree
    <3>2. pingPong = "select" /\ ~ticked /\ answer # 0
      BY <2>12, <3>1 DEF Tick, Pending, Reads, AnswerInTime, Writers
    <3>3. NoFailure'
      BY <2>12, <3>1 DEF Tick, Less
    <3>4. AnswerInTime'
      BY <2>12, <3>1, <3>2 DEF Tick, Less, AnswerInTime, Writers
    <3> QED
      BY <3>3, <3>4
  <2>13. CASE UNCHANGED keepAliveVars
    BY <2>13 DEF keepAliveVars, AnswerInTime
  <2> QED
    BY <2>1, <2>2, <2>3, <2>4, <2>6, <2>7, <2>8, <2>9, <2>10, <2>11, <2>12, <2>13
       DEF KeepAliveNext
<1>3. KeepAliveTypes /\ GoodInv => GoodTunnelStays
  BY DEF KeepAliveTypes, GoodInv, NoFailure, GoodTunnelStays
<1> QED
  BY <1>1, <1>2, <1>3, KeepAliveTypesKept, PTL DEF KeepAliveSpec

-----------------------------------------------------------------------------
(* A silent tunnel.                                                        *)

\* The time that a Write may take.
B == TunnelBlockTimeoutSec

\* By how much the silence exceeds what PingPong waits for.
Over == idle - (PingInterval + TunnelRecvTimeoutSec + 1)

\* PingPong has not begun to write its ping.
Waiting == pingPong = "select" \/ step["PingPong"] = "set"

\* Those that have waited for the mutex for a second: they have it first.
starving == {g \in Writers : step[g] = "set" /\ since[g] > 0}

\* Who is among them after a step.
LEMMA Starving ==
  ASSUME KeepAliveTypes
  PROVE  /\ \A g \in Writers : WriteBegins(g) =>
              (starving # {} => g \in starving) /\ starving' = starving \ {g}
         /\ \A g \in Writers : WriteSucceeds(g) \/ WriteFails(g) \/ End(g) \/ Begin(g) =>
              UNCHANGED starving
         /\ UNCHANGED <<step, since>> => UNCHANGED starving
         /\ Tick => starving' = {g \in Writers : step[g] = "set"}
<1> USE DEF KeepAliveTypes, starving, Steps
<1>1. ASSUME NEW g \in Writers, WriteBegins(g)
      PROVE  (starving # {} => g \in starving) /\ starving' = starving \ {g}
  BY <1>1 DEF WriteBegins
<1>2. ASSUME NEW g \in Writers, WriteSucceeds(g) \/ WriteFails(g) \/ End(g) \/ Begin(g)
      PROVE  UNCHANGED starving
  BY <1>2 DEF WriteSucceeds, WriteFails, End, Begin
<1>3. ASSUME Tick PROVE starving' = {g \in Writers : step[g] = "set"}
  BY <1>3 DEF Tick
<1> QED
  BY <1>1, <1>2, <1>3

\* The writers of a tunnel that is open and has never written without a
\* deadline: deadlines are at most B seconds away, one goroutine writes at a
\* time, those that starve for the connection's mutex have set their deadline.
WritersInv ==
  /\ deadline <= B /\ deadline >= -1
  /\ \A g \in Writers : limit[g] <= B /\ limit[g] >= -1
  /\ \A g \in Writers : step[g] = "write" => limit[g] >= 0
  /\ \A g, h \in Writers : step[g] = "write" /\ step[h] = "write" => g = h
  /\ \A g \in starving : step[g] = "set"
  /\ pingPong = "ping" <=> step["PingPong"] # "none"
  /\ step["InboundRelay"] = "set" /\ idle > 0 => "InboundRelay" \in starving

\* How long the silence can have lasted: a ping is due after PingInterval, and
\* two other writes may come before its own.
PingInv ==
  /\ Over <= 3 * B - 1
  /\ step["PingPong"] = "write" => Over + limit["PingPong"] <= 3 * B - 1
  /\ Over >= 0 /\ pingPong = "select" => Over = 0 /\ ticked

\* While PingPong waits for the mutex, each of the others may write once, and
\* what a write may still take is counted from the deadline that stands.
WaitInv ==
  /\ Over <= 2 * B - 1
  /\ "PingPong" \notin starving => Over <= 0
  /\ step["InboundRelay"] = "set" =>
       /\ "OutboundRelay" \in starving => Over <= -1
       /\ Over <= B - 1
       /\ step["OutboundRelay"] # "set" => Over + deadline <= B
       /\ step["OutboundRelay"] = "write" => Over + limit["OutboundRelay"] <= B - 1
  /\ step["OutboundRelay"] = "write" => Over + limit["OutboundRelay"] <= 2 * B - 1
  /\ step["InboundRelay"] = "write" =>
       \/ Over + limit["InboundRelay"] <= B
       \/ /\ step["OutboundRelay"] = "set"
          /\ Over + limit["InboundRelay"] <= 2 * B - 1 /\ Over + deadline <= 2 * B - 1
  /\ step["InboundRelay"] # "set" /\ "OutboundRelay" \in starving => Over + deadline <= 2 * B - 1

\* The inductive invariant.
SilenceInv == ~closed /\ ~unlimited => WritersInv /\ PingInv /\ (Waiting => WaitInv)

\* Every second that passes and every write keeps the account.
LEMMA SilenceKept == KeepAliveTypes /\ SilenceInv /\ [KeepAliveNext]_keepAliveVars => SilenceInv'
<1> USE Limits DEF Writers, None, Steps
<1> SUFFICES ASSUME KeepAliveTypes, SilenceInv, [KeepAliveNext]_keepAliveVars, ~closed', ~unlimited'
             PROVE  WritersInv' /\ PingInv' /\ (Waiting' => WaitInv')
  BY DEF SilenceInv
<1> DEFINE Kept == WritersInv' /\ PingInv' /\ (Waiting' => WaitInv')
<1>a. ~closed /\ ~unlimited
  BY Latched, ~closed', ~unlimited', Zenon
<1>b. WritersInv /\ PingInv /\ (Waiting => WaitInv)
  BY <1>a, Zenon DEF SilenceInv
<1>t. /\ step \in [Writers -> Steps] /\ limit \in [Writers -> Int]
      /\ idle \in Nat /\ deadline \in Int /\ pingPong \in {"select", "ping", "check"}
  BY Zenon DEF KeepAliveTypes
<1>1. ASSUME NEW g \in Writers, WriteBegins(g) PROVE Kept
  <2>1. /\ step[g] = "set" /\ \A h \in Writers : step[h] # "write"
        /\ starving # {} => g \in starving
        /\ starving' = starving \ {g}
        /\ step' = [step EXCEPT ![g] = "write"]
        /\ limit' = [limit EXCEPT ![g] = deadline]
        /\ deadline # -1
        /\ UNCHANGED <<idle, deadline, pingPong, ticked>>
    BY <1>1, Starving, Zenon DEF WriteBegins, reading, MutexFree
  <2>2. WritersInv'
    BY ONLY Limits, <1>b, <1>t, <2>1 DEF WritersInv, Writers, Steps, B
  <2>3. PingInv'
    BY ONLY Limits, <1>b, <1>t, <2>1
       DEF WritersInv, PingInv, WaitInv, Waiting, Over, Writers, Steps, B
  <2>4. ASSUME Waiting' PROVE WaitInv'
    <3>1. Waiting /\ WaitInv
      BY ONLY <1>b, <1>t, <2>1, <2>4 DEF Waiting, Writers
    <3>2. CASE g = "OutboundRelay"
      BY ONLY Limits, <1>b, <1>t, <2>1, <2>4, <3>1, <3>2
         DEF WritersInv, PingInv, WaitInv, Over, Writers, Steps, B
    <3>3. CASE g = "InboundRelay"
      BY ONLY Limits, <1>b, <1>t, <2>1, <2>4, <3>1, <3>3
         DEF WritersInv, PingInv, WaitInv, Over, Writers, Steps, B
    <3>4. CASE g = "PingPong"
      BY ONLY Limits, <1>b, <1>t, <2>1, <2>4, <3>1, <3>4, Zenon
         DEF WritersInv, PingInv, WaitInv, Waiting, Over, Writers, Steps, B
    <3> QED
      BY <3>2, <3>3, <3>4 DEF Writers
  <2> QED
    BY <2>2, <2>3, <2>4, Zenon
<1>2. ASSUME NEW g \in Writers, WriteSucceeds(g) \/ WriteFails(g) PROVE Kept
  <2>1. /\ step[g] = "write" /\ \E r \in {"written", "failed"} : step' = [step EXCEPT ![g] = r]
        /\ UNCHANGED <<idle, starving, limit, deadline, pingPong, ticked>>
    BY <1>2, Starving, Zenon DEF WriteSucceeds, WriteFails, reading
  <2>2. WritersInv'
    BY ONLY Limits, <1>b, <1>t, <2>1 DEF WritersInv, Writers, Steps, B
  <2>3. PingInv'
    BY ONLY Limits, <1>b, <1>t, <2>1
       DEF WritersInv, PingInv, WaitInv, Waiting, Over, Writers, Steps, B
  <2>4. ASSUME Waiting' PROVE WaitInv'
    BY ONLY Limits, <1>b, <1>t, <2>1, <2>4
       DEF WritersInv, PingInv, WaitInv, Waiting, Over, Writers, Steps, B
  <2> QED
    BY <2>2, <2>3, <2>4, Zenon
<1>3. ASSUME NEW g \in Writers, End(g) PROVE Kept
  <2>1. /\ step[g] \in {"written", "failed"} /\ step' = [step EXCEPT ![g] = "none"]
        /\ limit' = [limit EXCEPT ![g] = -1]
        /\ (deadline' = -1 \/ deadline' = deadline)
        /\ pingPong' = IF g = "PingPong" THEN "check" ELSE pingPong
        /\ UNCHANGED <<idle, starving, ticked>>
    BY <1>3, Starving, Zenon DEF End, reading
  <2>2. WritersInv'
    BY ONLY Limits, <1>b, <1>t, <2>1 DEF WritersInv, Writers, Steps, B
  <2>3. PingInv'
    BY ONLY Limits, <1>b, <1>t, <2>1
       DEF WritersInv, PingInv, WaitInv, Waiting, Over, Writers, Steps, B
  <2>4. ASSUME Waiting' PROVE WaitInv'
    <3>1. Waiting /\ WaitInv /\ g # "PingPong"
      BY ONLY <1>b, <1>t, <2>1, <2>4 DEF Waiting, Writers
    <3>2. CASE g = "OutboundRelay"
      BY ONLY Limits, <1>b, <1>t, <2>1, <3>1, <3>2
         DEF WritersInv, PingInv, WaitInv, Waiting, Over, Writers, Steps, B
    <3>3. CASE g = "InboundRelay"
      BY ONLY Limits, <1>b, <1>t, <2>1, <3>1, <3>3
         DEF WritersInv, PingInv, WaitInv, Waiting, Over, Writers, Steps, B
    <3> QED
      BY <3>1, <3>2, <3>3 DEF Writers
  <2> QED
    BY <2>2, <2>3, <2>4, Zenon
<1>4. CASE SendBlock
  <2>1. /\ step["OutboundRelay"] = "none" /\ step' = [step EXCEPT !["OutboundRelay"] = "set"]
        /\ deadline' = TunnelBlockTimeoutSec
        /\ UNCHANGED <<idle, starving, limit, pingPong, ticked>>
    BY <1>4, Starving, Zenon DEF SendBlock, Begin, reading
  <2>2. WritersInv'
    BY ONLY Limits, <1>b, <1>t, <2>1 DEF WritersInv, Writers, Steps, B
  <2>3. PingInv'
    BY ONLY Limits, <1>b, <1>t, <2>1
       DEF WritersInv, PingInv, WaitInv, Waiting, Over, Writers, Steps, B
  <2>4. ASSUME Waiting' PROVE WaitInv'
    BY ONLY Limits, <1>b, <1>t, <2>1, <2>4
       DEF WritersInv, PingInv, WaitInv, Waiting, Over, Writers, Steps, B
  <2> QED
    BY <2>2, <2>3, <2>4, Zenon
<1>5. CASE PingPongTick
  <2>1. /\ pingPong = "select" /\ ticked /\ UNCHANGED <<idle, starving, limit>>
        /\ \/ /\ step["PingPong"] = "none" /\ step' = [step EXCEPT !["PingPong"] = "set"]
              /\ deadline' = TunnelBlockTimeoutSec /\ pingPong' = "ping"
           \/ /\ idle <= PingInterval /\ pingPong' = "check"
              /\ UNCHANGED <<step, deadline>>
    BY <1>5, Starving, Zenon DEF PingPongTick, Begin, reading, writing
  <2>2. WritersInv'
    <3>1. CASE step["PingPong"] = "none" /\ step' = [step EXCEPT !["PingPong"] = "set"] /\ deadline' = TunnelBlockTimeoutSec /\ pingPong' = "ping"
      BY ONLY Limits, <1>b, <1>t, <2>1, <3>1 DEF WritersInv, Writers, Steps, B
    <3>2. CASE pingPong' = "check" /\ UNCHANGED <<step, deadline>>
      BY ONLY Limits, <1>b, <1>t, <2>1, <3>2 DEF WritersInv, Writers, Steps, B
    <3> QED
      BY <2>1, <3>1, <3>2, Zenon
  <2>3. PingInv'
    BY ONLY Limits, <1>b, <1>t, <2>1
       DEF WritersInv, PingInv, WaitInv, Waiting, Over, Writers, Steps, B
  <2>4. ASSUME Waiting' PROVE WaitInv'
    BY ONLY Limits, <1>b, <1>t, <2>1, <2>4
       DEF WritersInv, PingInv, WaitInv, Waiting, Over, Writers, Steps, B
  <2> QED
    BY <2>2, <2>3, <2>4, Zenon
<1>6. CASE PingPongCheck
  <2>1. /\ pingPong = "check" /\ pingPong' = "select"
        /\ ~(idle > PingInterval + TunnelRecvTimeoutSec)
        /\ UNCHANGED <<idle, starving, limit, step, deadline, ticked>>
    BY <1>6, Starving, Zenon DEF PingPongCheck, reading, writing
  <2>2. WritersInv'
    BY ONLY Limits, <1>b, <1>t, <2>1 DEF WritersInv, Writers, Steps, B
  <2>3. PingInv'
    BY ONLY Limits, <1>b, <1>t, <2>1
       DEF WritersInv, PingInv, WaitInv, Waiting, Over, Writers, Steps, B
  <2>4. WaitInv'
    BY ONLY Limits, <1>b, <1>t, <2>1
       DEF WritersInv, PingInv, WaitInv, Waiting, Over, Writers, Steps, B
  <2> QED
    BY <2>2, <2>3, <2>4, Zenon
<1>7. CASE Receive
  <2>1. /\ idle' = 0 /\ UNCHANGED <<starving, limit, pingPong, ticked>>
        /\ \/ /\ step["InboundRelay"] = "none" /\ step' = [step EXCEPT !["InboundRelay"] = "set"]
              /\ deadline' = TunnelBlockTimeoutSec
           \/ UNCHANGED <<step, deadline>>
    BY <1>7, Starving, Zenon DEF Receive, Begin, writing
  <2>2. WritersInv'
    <3>1. CASE step["InboundRelay"] = "none" /\ step' = [step EXCEPT !["InboundRelay"] = "set"] /\ deadline' = TunnelBlockTimeoutSec
      BY ONLY Limits, <1>b, <1>t, <2>1, <3>1 DEF WritersInv, Writers, Steps, B
    <3>2. CASE UNCHANGED <<step, deadline>>
      BY ONLY Limits, <1>b, <1>t, <2>1, <3>2 DEF WritersInv, Writers, Steps, B
    <3> QED
      BY <2>1, <3>1, <3>2, Zenon
  <2>3. PingInv'
    BY ONLY Limits, <1>b, <1>t, <2>1, <2>2
       DEF WritersInv, PingInv, WaitInv, Waiting, Over, Writers, Steps, B
  <2>4. WaitInv'
    BY ONLY Limits, <1>b, <1>t, <2>1, <2>2
       DEF WritersInv, PingInv, WaitInv, Waiting, Over, Writers, Steps, B
  <2> QED
    BY <2>2, <2>3, <2>4, Zenon
<1>8. CASE Release \/ LinkChanges \/ UNCHANGED keepAliveVars
  <2>1. UNCHANGED <<idle, starving, limit, deadline, step, pingPong, ticked>>
    BY <1>8, Starving, Zenon DEF Release, LinkChanges, keepAliveVars, reading, writing
  <2> QED
    BY ONLY <1>b, <2>1 DEF WritersInv, PingInv, WaitInv, Waiting, Over, B
<1>9. CASE Tick
  <2>1. /\ idle' = idle + 1 /\ ticked'
        /\ deadline' = Less(deadline)
        /\ limit' = [g \in Writers |-> Less(limit[g])]
        /\ starving' = {g \in Writers : step[g] = "set"}
        /\ UNCHANGED <<step, pingPong>>
    BY <1>9, Starving, Zenon DEF Tick
  <2>2. /\ pingPong # "check" /\ ~(ticked /\ pingPong = "select")
        /\ \A g \in Writers : /\ step[g] \notin {"written", "failed"}
                              /\ step[g] = "set" => ~MutexFree
                              /\ step[g] = "write" => limit[g] # 0
    BY <1>9, Zenon DEF Tick, Pending
  <2>3. WritersInv'
    BY ONLY Limits, <1>b, <1>t, <2>1 DEF WritersInv, Writers, Steps, B, Less
  <2>4. PingInv'
    BY ONLY Limits, <1>b, <1>t, <2>1, <2>2, SMTT(20)
       DEF WritersInv, PingInv, WaitInv, Waiting, Over, Writers, Steps, B, Less, MutexFree
  <2>5. ASSUME Waiting' PROVE WaitInv'
    <3>1. Waiting /\ WaitInv
      BY ONLY <1>b, <1>t, <2>1, <2>5 DEF Waiting, Writers
    <3> QED
      BY ONLY Limits, <1>b, <1>t, <2>1, <2>2, <2>5, <3>1, SMTT(20)
         DEF WritersInv, PingInv, WaitInv, Waiting, Over, Writers, Steps, B, Less, MutexFree
  <2> QED
    BY <2>3, <2>4, <2>5, Zenon
<1> QED
  BY <1>1, <1>2, <1>3, <1>4, <1>5, <1>6, <1>7, <1>8, <1>9, Zenon DEF KeepAliveNext

\* Whatever the limits, a tunnel on which nothing arrives is closed after
\* PingInterval, TunnelRecvTimeoutSec and the time of at most three writes,
\* unless a Write has run without a deadline.
THEOREM SilenceNoticed == KeepAliveSpec => []SilenceIsNoticed
<1>1. KeepAliveInit => SilenceInv
  BY Limits
     DEF KeepAliveInit, SilenceInv, WritersInv, PingInv, WaitInv, Waiting, Over, Writers,
         starving, B, None
<1>2. KeepAliveTypes /\ SilenceInv => SilenceIsNoticed
  <2> SUFFICES ASSUME KeepAliveTypes, SilenceInv, ~closed, ~unlimited
               PROVE  idle <= PingInterval + TunnelRecvTimeoutSec + 3 * TunnelBlockTimeoutSec
    BY Zenon DEF SilenceIsNoticed
  <2>1. Over <= 3 * B - 1 /\ idle \in Nat
    BY Zenon DEF SilenceInv, PingInv, KeepAliveTypes
  <2> QED
    BY <2>1, Limits DEF Over, B
<1> QED
  BY <1>1, <1>2, SilenceKept, KeepAliveTypesKept, PTL DEF KeepAliveSpec

-----------------------------------------------------------------------------
(* The tunnels of the server's peers: PeerGroup.                           *)

\* A peer is in peerMapping exactly while its removal is still to come, so
\* that a deletion by ID finds the peer that it is meant for; a peer that is
\* not stopped has not been removed; what is not made yet is untouched.
MapInv ==
  /\ \A p \in Peers : removing[p] <=> mapped = p
  /\ \A p \in 1 .. made : ~ctxDone[p] => removing[p]

\* No tunnel of the pool is left.
Empty(p) == \A t \in Tunnels : peerOf[t] = p => state[t] \notin {"pooled", "dying"}

\* A countdown runs only for a pool that was found empty; an empty pool that
\* nobody has noticed is about to get a tunnel.
CountInv(p) ==
  /\ countdown[p] # "off" => triggered[p]
  /\ triggered[p] => Empty(p)
  /\ p <= made /\ Empty(p) /\ ~triggered[p] =>
       \E t \in Tunnels : peerOf[t] = p /\ state[t] = "found"
  /\ triggered[p] /\ ~ctxDone[p] => countdown[p] # "off"

PoolInv == \A p \in Peers : CountInv(p)

USE DEF Peers, NoPeer

\* What a request does before it asks for a peer.
LEMMA HandshakeStep ==
  ASSUME TypeOK, NEW t \in Tunnels,
         Upgrade(t) \/ Reject(t) \/ ExchangePeerID(t) \/ ExchangeFails(t)
  PROVE  /\ UNCHANGED <<made, mapped, ctxDone, removing, triggered, stale, countdown, peerOf, stopped>>
         /\ state' \in [Tunnels -> {"request", "handshake", "new", "found", "pooled", "dying",
                                    "gone", "closed"}]
         /\ \A u \in Tunnels : \/ state'[u] = state[u]
                               \/ /\ state[u] \in {"request", "handshake"}
                                  /\ state'[u] \in {"handshake", "new", "closed"}
<1>1. PICK from \in {"request", "handshake"}, to \in {"handshake", "new", "closed"} :
        Moves(t, from, to)
  BY Zenon DEF Upgrade, Reject, ExchangePeerID, ExchangeFails
<1>2. UNCHANGED <<made, mapped, ctxDone, removing, triggered, stale, countdown, peerOf, stopped>>
  BY <1>1, Zenon DEF Moves, peers, managers
<1>3. /\ state[t] = from /\ state' = [state EXCEPT ![t] = to]
      /\ state \in [Tunnels -> {"request", "handshake", "new", "found", "pooled", "dying",
                                "gone", "closed"}]
  BY <1>1 DEF Moves, TypeOK
<1> QED
  BY ONLY <1>1, <1>2, <1>3, t \in Tunnels

\* PeerGroup starts without peers, and every step keeps the types of its state.
THEOREM TypeCorrect == Spec => []TypeOK
<1> USE PeerGroupAssumption
<1>1. Init => TypeOK
  <2> SUFFICES ASSUME Init PROVE TypeOK
    OBVIOUS
  <2>1. made \in 0 .. MaxPeers /\ mapped \in 0 .. made
    BY DEF Init
  <2>2. peerOf \in [Tunnels -> 0 .. made]
    BY DEF Init
  <2>3. \A t \in Tunnels : peerOf[t] = NoPeer /\ state[t] = "request"
    BY DEF Init
  <2> QED
    BY <2>1, <2>2, <2>3, Zenon DEF Init, TypeOK
<1>2. TypeOK /\ [Next]_vars => TypeOK'
  <2> SUFFICES ASSUME TypeOK, [Next]_vars PROVE TypeOK'
    OBVIOUS
  <2> USE DEF TypeOK, peers, managers, tunnels
  <2>1. ASSUME NEW t \in Tunnels,
               Upgrade(t) \/ Reject(t) \/ ExchangePeerID(t) \/ ExchangeFails(t)
        PROVE TypeOK'
    BY ONLY TypeOK, <2>1, HandshakeStep, Zenon DEF TypeOK
  <2>2. ASSUME NEW t \in Tunnels, FindPeer(t) PROVE TypeOK'
    BY <2>2 DEF FindPeer
  <2>3. ASSUME NEW t \in Tunnels, MakePeer(t) PROVE TypeOK'
    <3>1. made' \in 1 .. MaxPeers /\ mapped' \in 1 .. made'
      BY <2>3 DEF MakePeer
    <3>2. peerOf' \in [Tunnels -> 0 .. made'] /\ peerOf'[t] # NoPeer
      BY <2>3 DEF MakePeer
    <3> QED
      BY <2>3, <3>1, <3>2 DEF MakePeer
  <2>4. ASSUME NEW t \in Tunnels, AddTunnel(t) PROVE TypeOK'
    BY <2>4 DEF AddTunnel
  <2>5. ASSUME NEW t \in Tunnels, TunnelDies(t) PROVE TypeOK'
    BY <2>5 DEF TunnelDies
  <2>6. ASSUME NEW t \in Tunnels, RemoveTunnel(t) PROVE TypeOK'
    BY <2>6 DEF RemoveTunnel
  <2>7. ASSUME NEW p \in Peers, TimerFires(p) PROVE TypeOK'
    BY <2>7 DEF TimerFires
  <2>8. ASSUME NEW p \in Peers, Destroy(p) PROVE TypeOK'
    BY <2>8 DEF Destroy
  <2>9. ASSUME NEW p \in Peers, StaleDestroy(p) \/ StaleEnds(p) PROVE TypeOK'
    BY <2>9, Zenon DEF StaleDestroy, StaleEnds
  <2>10. ASSUME NEW p \in Peers, RemovePeer(p) PROVE TypeOK'
    BY <2>10 DEF RemovePeer
  <2>11. ASSUME Stop PROVE TypeOK'
    BY <2>11 DEF Stop
  <2>12. ASSUME UNCHANGED vars PROVE TypeOK'
    BY <2>12 DEF vars
  <2> QED
    BY <2>1, <2>2, <2>3, <2>4, <2>5, <2>6, <2>7, <2>8, <2>9, <2>10, <2>11, <2>12, Zenon
       DEF Next
<1> QED
  BY <1>1, <1>2, PTL DEF Spec

\* RemovePeer deletes the peer that it was started for, never a newer one.
LEMMA MapInductive == Spec => []MapInv
<1> USE PeerGroupAssumption
<1>1. Init => MapInv
  BY DEF Init, MapInv
<1>2. TypeOK /\ MapInv /\ [Next]_vars => MapInv'
  <2> SUFFICES ASSUME TypeOK, MapInv, [Next]_vars PROVE MapInv'
    OBVIOUS
  <2> USE DEF TypeOK, MapInv, peers, managers, tunnels
  <2>1. ASSUME NEW t \in Tunnels, Upgrade(t) \/ Reject(t) \/ ExchangePeerID(t) \/ ExchangeFails(t) PROVE MapInv'
    <3>1. UNCHANGED <<made, mapped, ctxDone, removing>>
      BY ONLY TypeOK, <2>1, HandshakeStep
    <3> QED
      BY ONLY MapInv, <3>1 DEF MapInv
  <2>2. ASSUME NEW t \in Tunnels, FindPeer(t) PROVE MapInv'
    BY <2>2 DEF FindPeer
  <2>3. ASSUME NEW t \in Tunnels, MakePeer(t) PROVE MapInv'
    BY <2>3 DEF MakePeer
  <2>4. ASSUME NEW t \in Tunnels, AddTunnel(t) PROVE MapInv'
    BY <2>4 DEF AddTunnel
  <2>5. ASSUME NEW t \in Tunnels, TunnelDies(t) PROVE MapInv'
    BY <2>5 DEF TunnelDies
  <2>6. ASSUME NEW t \in Tunnels, RemoveTunnel(t) PROVE MapInv'
    BY <2>6 DEF RemoveTunnel
  <2>7. ASSUME NEW p \in Peers, TimerFires(p) PROVE MapInv'
    BY <2>7 DEF TimerFires
  <2>8. ASSUME NEW p \in Peers, Destroy(p) PROVE MapInv'
    BY <2>8 DEF Destroy
  <2>9. ASSUME NEW p \in Peers, StaleDestroy(p) \/ StaleEnds(p) PROVE MapInv'
    BY <2>9 DEF StaleDestroy, StaleEnds
  <2>10. ASSUME NEW p \in Peers, RemovePeer(p) PROVE MapInv'
    BY <2>10 DEF RemovePeer
  <2>11. ASSUME Stop PROVE MapInv'
    <3>1. \A p \in Peers : ctxDone[p] => ctxDone'[p]
      BY <2>11 DEF Stop
    <3> QED
      BY <2>11, <3>1 DEF Stop
  <2>12. ASSUME UNCHANGED vars PROVE MapInv'
    BY <2>12 DEF vars
  <2> QED
    BY <2>1, <2>2, <2>3, <2>4, <2>5, <2>6, <2>7, <2>8, <2>9, <2>10, <2>11, <2>12, Zenon
       DEF Next
<1> QED
  BY <1>1, <1>2, TypeCorrect, PTL DEF Spec

\* Pool as a set, and as what is left of it.
LEMMA EmptyPool == ASSUME NEW p PROVE Pool(p) = {} <=> Empty(p)
  BY DEF Pool, Empty

\* Notify, called on every change of a pool, keeps triggered and the countdown
\* in step with it.
LEMMA PoolInductive == Spec => []PoolInv
<1> USE PeerGroupAssumption
<1>1. Init => PoolInv
  BY DEF Init, PoolInv, CountInv, Empty
<1>2. TypeOK /\ PoolInv /\ [Next]_vars => PoolInv'
  <2> SUFFICES ASSUME TypeOK, PoolInv, [Next]_vars, NEW q \in Peers PROVE CountInv(q)'
    BY DEF PoolInv
  <2>0. CountInv(q)
    BY DEF PoolInv
  <2> USE DEF TypeOK, CountInv, peers, managers, tunnels
  <2>1. ASSUME NEW t \in Tunnels,
               Upgrade(t) \/ Reject(t) \/ ExchangePeerID(t) \/ ExchangeFails(t)
        PROVE CountInv(q)'
    <3>1. /\ UNCHANGED <<made, ctxDone, triggered, countdown, peerOf>>
          /\ \A u \in Tunnels : \/ state'[u] = state[u]
                                \/ /\ state[u] \in {"request", "handshake"}
                                   /\ state'[u] \in {"handshake", "new", "closed"}
      BY ONLY TypeOK, <2>1, HandshakeStep
    <3>2. Empty(q)' <=> Empty(q)
      BY ONLY <3>1 DEF Empty
    <3> QED
      BY ONLY <2>0, <3>1, <3>2, Zenon DEF CountInv
  <2>2. ASSUME NEW t \in Tunnels, FindPeer(t) PROVE CountInv(q)'
    BY <2>0, <2>2, Zenon DEF FindPeer, Empty
  <2>3. ASSUME NEW t \in Tunnels, MakePeer(t) PROVE CountInv(q)'
    <3>1. /\ made' = made + 1 /\ made \in Nat /\ state[t] = "new" /\ q \in Nat /\ t \in Tunnels
          /\ UNCHANGED <<ctxDone, triggered, countdown>>
      BY <2>3 DEF MakePeer
    <3>2. /\ peerOf'[t] = made + 1 /\ state'[t] = "found" /\ peerOf[t] = 0
          /\ \A u \in Tunnels : u # t => peerOf'[u] = peerOf[u] /\ state'[u] = state[u]
          /\ \A u \in Tunnels : peerOf[u] <= made
      <4>1. /\ peerOf' = [peerOf EXCEPT ![t] = made + 1] /\ peerOf \in [Tunnels -> 0 .. made]
            /\ state' = [state EXCEPT ![t] = "found"] /\ state[t] = "new"
            /\ state \in [Tunnels -> {"request", "handshake", "new", "found", "pooled", "dying",
                                      "gone", "closed"}]
        BY <2>3, Zenon DEF MakePeer
      <4>2. peerOf[t] = 0
        <5>1. state[t] \notin {"found", "pooled", "dying", "gone"}
          BY ONLY <4>1
        <5> QED
          BY <5>1, Zenon
      <4> QED
        BY ONLY <3>1, <4>1, <4>2
    <3>3. CASE q = made + 1
      <4>1. \A u \in Tunnels : peerOf'[u] = q => u = t
        BY ONLY <3>1, <3>2, <3>3
      <4>2. Empty(q)' /\ peerOf'[t] = q
        BY ONLY <3>2, <3>3, <4>1 DEF Empty
      <4> QED
        BY ONLY <2>0, <3>1, <3>2, <4>2, Zenon DEF CountInv
    <3>4. CASE q # made + 1
      <4>1. Empty(q)' <=> Empty(q)
        BY ONLY <3>1, <3>2, <3>4 DEF Empty
      <4>2. q <= made' <=> q <= made
        BY ONLY <3>1, <3>4
      <4>3. \A u \in Tunnels : peerOf[u] = q /\ state[u] = "found" => peerOf'[u] = q /\ state'[u] = "found"
        BY ONLY <3>1, <3>2
      <4> QED
        BY ONLY <2>0, <3>1, <4>1, <4>2, <4>3, Zenon DEF CountInv
    <3> QED
      BY <3>3, <3>4
  <2>4. ASSUME NEW t \in Tunnels, AddTunnel(t) PROVE CountInv(q)'
    BY <2>0, <2>4 DEF AddTunnel, Empty
  <2>5. ASSUME NEW t \in Tunnels, TunnelDies(t) PROVE CountInv(q)'
    BY <2>0, <2>5 DEF TunnelDies, Empty
  <2>6. ASSUME NEW t \in Tunnels, RemoveTunnel(t) PROVE CountInv(q)'
    <3>1. CASE q # peerOf[t]
      BY <2>0, <2>6, <3>1 DEF RemoveTunnel, Empty
    <3>2. CASE q = peerOf[t]
      <4>1. ~Empty(q) /\ ~triggered[q]
        BY <2>0, <2>6, <3>2 DEF RemoveTunnel, Empty
      <4>2. CASE Pool(q) = {t}
        <5>1. triggered'[q] /\ countdown'[q] = "counting"
          BY <2>6, <3>2, <4>1, <4>2, Zenon DEF RemoveTunnel
        <5>2. Empty(q)'
          BY <2>6, <4>2 DEF RemoveTunnel, Empty, Pool
        <5> QED
          BY <5>1, <5>2, Zenon
      <4>3. CASE Pool(q) # {t}
        <5>1. ~triggered'[q] /\ countdown'[q] = countdown[q]
          BY <2>6, <3>2, <4>1, <4>3 DEF RemoveTunnel
        <5>2. PICK u \in Tunnels : u # t /\ u \in Pool(q)
          BY <2>6, <3>2, <4>3 DEF RemoveTunnel, Pool
        <5>3. ~Empty(q)'
          BY <2>6, <5>2 DEF RemoveTunnel, Empty, Pool
        <5> QED
          BY <2>0, <4>1, <5>1, <5>3
      <4> QED
        BY <4>2, <4>3, Zenon
    <3> QED
      BY <3>1, <3>2, Zenon
  <2>7. ASSUME NEW p \in Peers, TimerFires(p) PROVE CountInv(q)'
    BY <2>0, <2>7 DEF TimerFires, Empty
  <2>8. ASSUME NEW p \in Peers, Destroy(p) PROVE CountInv(q)'
    BY <2>0, <2>8 DEF Destroy, Empty
  <2>9. ASSUME NEW p \in Peers, StaleDestroy(p) \/ StaleEnds(p) PROVE CountInv(q)'
    BY <2>0, <2>9 DEF StaleDestroy, StaleEnds, Empty
  <2>10. ASSUME NEW p \in Peers, RemovePeer(p) PROVE CountInv(q)'
    BY <2>0, <2>10 DEF RemovePeer, Empty
  <2>11. ASSUME Stop PROVE CountInv(q)'
    BY <2>0, <2>11 DEF Stop, Empty
  <2>12. ASSUME UNCHANGED vars PROVE CountInv(q)'
    BY <2>0, <2>12 DEF vars, Empty
  <2> QED
    BY <2>1, <2>2, <2>3, <2>4, <2>5, <2>6, <2>7, <2>8, <2>9, <2>10, <2>11, <2>12, Zenon
       DEF Next
<1> QED
  BY <1>1, <1>2, TypeCorrect, PTL DEF Spec

\* One live peer per client: blocks of one client never go to two pools.
THEOREM OnePeerLives == Spec => []OneLivePeer
<1>1. TypeOK /\ MapInv => OneLivePeer
  <2> SUFFICES ASSUME TypeOK, MapInv, NEW p \in 1 .. made, ~ctxDone[p] PROVE mapped = p
    BY DEF OneLivePeer
  <2>1. p \in Peers
    BY PeerGroupAssumption DEF TypeOK
  <2> QED
    BY <2>1 DEF MapInv
<1> QED
  BY <1>1, TypeCorrect, MapInductive, PTL

\* A countdown runs for every pool that has become empty and for no other.
THEOREM CountdownCorrect == Spec => []CountdownMatchesPool
<1>1. TypeOK /\ PoolInv => CountdownMatchesPool
  <2> SUFFICES ASSUME TypeOK, PoolInv, NEW p \in 1 .. made
               PROVE  /\ triggered[p] => Pool(p) = {}
                      /\ Pool(p) = {} /\ ~triggered[p] =>
                           \E t \in Tunnels : peerOf[t] = p /\ state[t] = "found"
                      /\ triggered[p] /\ ~ctxDone[p] => countdown[p] # "off"
    BY Zenon DEF CountdownMatchesPool
  <2>1. p \in Peers /\ p <= made
    BY PeerGroupAssumption DEF TypeOK
  <2> QED
    BY ONLY PoolInv, <2>1, EmptyPool, Zenon DEF PoolInv, CountInv
<1> QED
  BY <1>1, TypeCorrect, PoolInductive, PTL

\* The countdown destroys no peer in use, but for a timer that had fired.
THEOREM UsedPeersKept == Spec => NotDestroyedInUse
<1> DEFINE Kept == \A p \in Peers :
             ~ctxDone[p] /\ ctxDone'[p] /\ stopped' = stopped => Pool(p) = {} \/ stale[p]
<1>1. TypeOK /\ PoolInv /\ [Next]_vars => [Kept]_vars
  <2> SUFFICES ASSUME TypeOK, PoolInv, [Next]_vars PROVE Kept
    OBVIOUS
  <2> USE DEF TypeOK, peers, managers, tunnels
  <2>1. ASSUME NEW t \in Tunnels, Upgrade(t) \/ Reject(t) \/ ExchangePeerID(t) \/ ExchangeFails(t) PROVE Kept
    BY ONLY TypeOK, <2>1, HandshakeStep, Zenon
  <2>2. ASSUME NEW t \in Tunnels, FindPeer(t) PROVE Kept
    BY <2>2 DEF FindPeer
  <2>3. ASSUME NEW t \in Tunnels, MakePeer(t) PROVE Kept
    BY <2>3 DEF MakePeer
  <2>4. ASSUME NEW t \in Tunnels, AddTunnel(t) PROVE Kept
    BY <2>4 DEF AddTunnel
  <2>5. ASSUME NEW t \in Tunnels, TunnelDies(t) PROVE Kept
    BY <2>5 DEF TunnelDies
  <2>6. ASSUME NEW t \in Tunnels, RemoveTunnel(t) PROVE Kept
    BY <2>6 DEF RemoveTunnel
  <2>7. ASSUME NEW p \in Peers, TimerFires(p) PROVE Kept
    BY <2>7 DEF TimerFires
  <2>8. ASSUME NEW p \in Peers, Destroy(p) PROVE Kept
    BY <2>8, EmptyPool DEF Destroy, PoolInv, CountInv
  <2>9. ASSUME NEW p \in Peers, StaleDestroy(p) \/ StaleEnds(p) PROVE Kept
    BY <2>9, Zenon DEF StaleDestroy, StaleEnds
  <2>10. ASSUME NEW p \in Peers, RemovePeer(p) PROVE Kept
    BY <2>10 DEF RemovePeer
  <2>11. ASSUME Stop PROVE Kept
    BY <2>11 DEF Stop
  <2>12. ASSUME UNCHANGED vars PROVE Kept
    BY <2>12 DEF vars
  <2> QED
    BY <2>1, <2>2, <2>3, <2>4, <2>5, <2>6, <2>7, <2>8, <2>9, <2>10, <2>11, <2>12, Zenon
       DEF Next
<1> QED
  BY <1>1, TypeCorrect, PoolInductive, PTL DEF Spec, NotDestroyedInUse
=============================================================================
