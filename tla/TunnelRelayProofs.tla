------------------------- MODULE TunnelRelayProofs --------------------------
(***************************************************************************)
(* For any number of tunnels, any lengths of the queues and any number of  *)
(* blocks, where a block between two peers can be.                         *)
(***************************************************************************)
EXTENDS TunnelRelay, SequenceTheorems, FiniteSetTheorems, TLAPS

-----------------------------------------------------------------------------
(* Blocks between two peers: TunnelRelay.                                  *)

\* A sequence without its last element, what a connection that goes down leaves
\* of a wire.
Front(s) == SubSeq(s, 1, Len(s) - 1)

\* The last element, the block that is lost with the connection.
Last(s) == s[Len(s)]

\* What the first argument needs of the types.
Types ==
  /\ up \in [Tunnels -> BOOLEAN]
  /\ sendDone \in [Tunnels -> BOOLEAN]
  /\ recvDone \in [Tunnels -> BOOLEAN]

\* The connection is down, or one of the tunnel's two relays has ended.
Failed(t) == ~up[t] \/ sendDone[t] \/ recvDone[t]

\* A block is at risk only after a tunnel has failed.
LossInv == lost # {} \/ retrying # {} => \E t \in Tunnels : Failed(t)

\* A tunnel that has failed stays so: up, sendDone and recvDone change once.
LEMMA FailureStays ==
  ASSUME Types, [Next]_vars
  PROVE  Types' /\ \A t \in Tunnels : Failed(t) => Failed(t)'
<1> USE DEF Types, Failed
<1>1. ASSUME UNCHANGED <<up, sendDone, recvDone>>
      PROVE  Types' /\ \A t \in Tunnels : Failed(t) => Failed(t)'
  BY <1>1
<1>2. ASSUME NEW t \in Tunnels, SendFails(t) \/ SenderCloses(t)
      PROVE  Types' /\ \A u \in Tunnels : Failed(u) => Failed(u)'
  <2>1. /\ sendDone' = [sendDone EXCEPT ![t] = TRUE] /\ up' = [up EXCEPT ![t] = FALSE]
        /\ UNCHANGED recvDone
    BY <1>2 DEF SendFails, SenderCloses
  <2> QED
    BY <2>1
<1>3. ASSUME NEW t \in Tunnels, Break(t)
      PROVE  Types' /\ \A u \in Tunnels : Failed(u) => Failed(u)'
  <2>1. up' = [up EXCEPT ![t] = FALSE] /\ UNCHANGED <<sendDone, recvDone>>
    BY <1>3 DEF Break
  <2> QED
    BY <2>1
<1>4. ASSUME NEW t \in Tunnels, ReadFails(t) \/ ReceiverCloses(t)
      PROVE  Types' /\ \A u \in Tunnels : Failed(u) => Failed(u)'
  <2>1. /\ recvDone' = [recvDone EXCEPT ![t] = TRUE] /\ UNCHANGED sendDone
        /\ up' = up \/ up' = [up EXCEPT ![t] = FALSE]
    BY <1>4 DEF ReadFails, ReceiverCloses, tcp
  <2> QED
    BY <2>1, Zenon
<1>5. CASE \E t \in Tunnels :
             \/ OutboundEnds(t) \/ NotCancelled(t) \/ TakeRetry(t) \/ NoRetry(t)
             \/ TakeNormal(t) \/ SendOK(t) \/ SendControl(t) \/ WireLoses(t)
  BY <1>1, <1>5, Zenon
     DEF OutboundEnds, NotCancelled, TakeRetry, NoRetry, TakeNormal, SendOK,
                    SendControl, WireLoses, tcp
<1>6. CASE \E t \in Tunnels :
             InboundTop(t) \/ ReadBlock(t) \/ ReadLast(t) \/ ReadLastFails(t) \/ Push(t)
  BY <1>1, <1>6 DEF InboundTop, ReadBlock, ReadLast, ReadLastFails, Push, tcp
<1>7. CASE Produce \/ Consume \/ \E blk \in retrying : RetryQueued(blk) \/ RetryAbandoned(blk)
  BY <1>1, <1>7 DEF Produce, Consume, RetryQueued, RetryAbandoned, tcp
<1>8. CASE UNCHANGED vars
  BY <1>1, <1>8 DEF vars, tcp
<1> QED
  BY <1>2, <1>3, <1>4, <1>5, <1>6, <1>7, <1>8 DEF Next

\* Only a write that fails puts a block at risk, and closes its tunnel; a block
\* is lost from there, or with a connection that is down.
LEMMA LossKept == ASSUME Types, LossInv, [Next]_vars PROVE LossInv'
<1>1. \A t \in Tunnels : Failed(t) => Failed(t)'
  BY FailureStays
<1>2. ASSUME lost # {} \/ retrying # {} PROVE LossInv'
  BY <1>1, <1>2 DEF LossInv
<1>3. ASSUME UNCHANGED <<lost, retrying>> PROVE LossInv'
  BY <1>1, <1>3 DEF LossInv
<1>4. ASSUME NEW t \in Tunnels, SendFails(t) PROVE LossInv'
  <2>1. Failed(t)'
    BY <1>4 DEF SendFails, Types, Failed
  <2> QED
    BY <2>1 DEF LossInv
<1>5. ASSUME NEW t \in Tunnels, WireLoses(t) PROVE LossInv'
  <2>1. Failed(t)
    BY <1>5 DEF WireLoses, Failed
  <2> QED
    BY <1>1, <2>1 DEF LossInv
<1>6. CASE \E blk \in retrying : RetryQueued(blk) \/ RetryAbandoned(blk)
  BY <1>2, <1>6
<1>7. CASE \E t \in Tunnels :
             \/ OutboundEnds(t) \/ NotCancelled(t) \/ TakeRetry(t) \/ NoRetry(t)
             \/ TakeNormal(t) \/ SendOK(t) \/ SendControl(t) \/ SenderCloses(t) \/ Break(t)
  BY <1>3, <1>7, Zenon
     DEF OutboundEnds, NotCancelled, TakeRetry, NoRetry, TakeNormal, SendOK,
                    SendControl, SenderCloses, Break
<1>8. CASE \E t \in Tunnels :
             \/ InboundTop(t) \/ ReadBlock(t) \/ ReadFails(t) \/ ReadLast(t)
             \/ ReadLastFails(t) \/ Push(t) \/ ReceiverCloses(t)
  BY <1>3, <1>8 DEF InboundTop, ReadBlock, ReadFails, ReadLast, ReadLastFails, Push,
                    ReceiverCloses
<1>9. CASE Produce \/ Consume \/ UNCHANGED vars
  BY <1>3, <1>9 DEF Produce, Consume, vars
<1> QED
  BY <1>4, <1>5, <1>6, <1>7, <1>8, <1>9 DEF Next

\* Whatever the number of tunnels, no block is given up or lost while none of
\* them has failed.
THEOREM NoLossWithoutFailure == Spec => []LossNeedsFailure
<1>1. Init => Types /\ LossInv
  BY DEF Init, Types, LossInv
<1>2. Types /\ LossInv /\ [Next]_vars => (Types /\ LossInv)'
  BY FailureStays, LossKept
<1>3. LossInv => LossNeedsFailure
  BY DEF LossInv, LossNeedsFailure, Failed
<1> QED
  BY <1>1, <1>2, <1>3, PTL DEF Spec

-----------------------------------------------------------------------------
(* Counting the places of a block.                                         *)

\* Two finite sets without common elements.
LEMMA DisjointUnion ==
  ASSUME NEW S, NEW T, IsFiniteSet(S), IsFiniteSet(T), S \cap T = {}
  PROVE  IsFiniteSet(S \cup T) /\ Cardinality(S \cup T) = Cardinality(S) + Cardinality(T)
<1>1. IsFiniteSet(S \cup T)
      /\ Cardinality(S \cup T) = Cardinality(S) + Cardinality(T) - Cardinality(S \cap T)
  BY FS_Union
<1>2. Cardinality(S) \in Nat /\ Cardinality(T) \in Nat /\ Cardinality(S \cap T) = 0
  BY FS_CardinalityType, FS_EmptySet
<1> QED
  BY <1>1, <1>2

\* The places of one tunnel.
LEMMA Column ==
  ASSUME NEW t, NEW P, IsFiniteSet(P)
  PROVE  IsFiniteSet({t} \X P) /\ Cardinality({t} \X P) = Cardinality(P)
<1>1. IsFiniteSet({t}) /\ Cardinality({t}) = 1
  BY FS_Singleton
<1>2. IsFiniteSet({t} \X P) /\ Cardinality({t} \X P) = Cardinality({t}) * Cardinality(P)
  BY <1>1, FS_Product
<1>3. Cardinality(P) \in Nat
  BY FS_CardinalityType
<1> QED
  BY <1>1, <1>2, <1>3

\* A sequence holds a block a number of times.
LEMMA InType ==
  ASSUME NEW s \in Seq(Blocks), NEW b
  PROVE  IsFiniteSet(Places(s, b)) /\ In(s, b) \in Nat
<1>1. IsFiniteSet(1 .. Len(s))
  BY FS_Interval
<1>2. Places(s, b) \in SUBSET (1 .. Len(s))
  BY DEF Places
<1>3. IsFiniteSet(Places(s, b))
  BY <1>1, <1>2, FS_Subset, Zenon
<1> QED
  BY <1>3, FS_CardinalityType, Zenon DEF In

\* An empty queue holds nothing.
LEMMA InEmpty == \A b : In(<<>>, b) = 0
BY FS_EmptySet DEF In, Places

\* One block.
LEMMA InOne == \A e, b : In(<<e>>, b) = IF e = b THEN 1 ELSE 0
<1> SUFFICES ASSUME NEW e, NEW b PROVE In(<<e>>, b) = IF e = b THEN 1 ELSE 0
  BY Zenon
<1>1. CASE e = b
  <2>1. Places(<<e>>, b) = {1}
    BY <1>1 DEF Places
  <2> QED
    BY <1>1, <2>1, FS_Singleton, Zenon DEF In
<1>2. CASE e # b
  <2>1. Places(<<e>>, b) = {}
    BY <1>2 DEF Places
  <2> QED
    BY <1>2, <2>1, FS_EmptySet, Zenon DEF In
<1> QED
  BY <1>1, <1>2

\* A queue after a queue holds what the two hold.
LEMMA InConcat ==
  ASSUME NEW s \in Seq(Blocks), NEW r \in Seq(Blocks), NEW b
  PROVE  In(s \o r, b) = In(s, b) + In(r, b)
<1> DEFINE P == Places(s, b)
           R == Places(r, b)
           Q == {i \in Len(s) + 1 .. Len(s) + Len(r) : r[i - Len(s)] = b}
           f == [i \in R |-> i + Len(s)]
<1>1. IsFiniteSet(P) /\ IsFiniteSet(R) /\ Cardinality(P) \in Nat /\ Cardinality(R) \in Nat
  BY InType DEF In
<1>2. f \in Bijection(R, Q)
  <2>1. f \in [R -> Q]
    BY DEF Places
  <2>2. \A i, j \in R : f[i] = f[j] => i = j
    BY DEF Places
  <2>3. \A q \in Q : \E i \in R : f[i] = q
    <3> TAKE q \in Q
    <3>1. q - Len(s) \in R /\ f[q - Len(s)] = q
      BY DEF Places
    <3> QED
      BY <3>1, Zenon
  <2> QED
    BY ONLY <2>1, <2>2, <2>3, Zenon DEF Bijection, Injection, Surjection, IsInjective
<1>3. IsFiniteSet(Q) /\ Cardinality(Q) = Cardinality(R)
  BY <1>1, <1>2, FS_Bijection, Zenon DEF ExistsBijection
<1>4. P \cap Q = {} /\ Places(s \o r, b) = P \cup Q
  <2>1. P \cap Q = {}
    BY DEF Places
  <2>2. ASSUME NEW i PROVE i \in Places(s \o r, b) <=> i \in P \cup Q
    BY DEF Places
  <2> QED
    BY <2>1, <2>2
<1>5. In(s, b) = Cardinality(P) /\ In(r, b) = Cardinality(R)
  BY DEF In
<1> HIDE DEF P, Q, R
<1>6. Cardinality(P \cup Q) = Cardinality(P) + Cardinality(Q)
  BY <1>1, <1>3, <1>4, DisjointUnion, Zenon
<1> QED
  BY <1>3, <1>4, <1>5, <1>6 DEF In

\* The cells that hold a block are finitely many.
LEMMA OnType ==
  ASSUME NEW f \in [Tunnels -> Seq(Blocks)], NEW b, NEW T \in SUBSET Tunnels
  PROVE  IsFiniteSet(Cells(f, b, T))
<1> DEFINE C(t) == {t} \X Places(f[t], b)
           g == [t \in T |-> C(t)]
           U == {C(t) : t \in T}
<1>1. IsFiniteSet(T)
  BY ConstantsAssumption, FS_Subset, Zenon
<1>2. g \in Surjection(T, U)
  BY Zenon DEF Surjection
<1>3. IsFiniteSet(U)
  BY <1>1, <1>2, FS_Surjection, Zenon
<1>4. ASSUME NEW t \in T PROVE IsFiniteSet(C(t))
  BY InType, Column, Zenon
<1>5. \A X \in U : IsFiniteSet(X)
  BY <1>4, Zenon
<1> QED
  BY <1>3, <1>5, FS_UNION, Zenon DEF Cells

\* All tunnels together hold a block a number of times.
LEMMA OnNat ==
  ASSUME NEW f \in [Tunnels -> Seq(Blocks)], NEW b
  PROVE  On(f, b) \in Nat
<1>1. IsFiniteSet(Cells(f, b, Tunnels))
  BY OnType
<1> QED
  BY <1>1, FS_CardinalityType, Zenon DEF On

\* When the sequence of one tunnel changes, so does the number in all, by as
\* much.
Moved(f, g, u, b) == On(g, b) + In(f[u], b) = On(f, b) + In(g[u], b)

LEMMA OnUpdate ==
  ASSUME NEW f \in [Tunnels -> Seq(Blocks)], NEW g \in [Tunnels -> Seq(Blocks)],
         NEW u \in Tunnels, \A t \in Tunnels \ {u} : g[t] = f[t], NEW b
  PROVE  Moved(f, g, u, b)
<1> DEFINE T == Tunnels \ {u}
           C(h, t) == {t} \X Places(h[t], b)
           Rest == Cells(f, b, T)
<1>1. IsFiniteSet(Rest) /\ Cardinality(Rest) \in Nat
  <2>1. T \in SUBSET Tunnels
    OBVIOUS
  <2>2. IsFiniteSet(Rest)
    BY <2>1, OnType
  <2> QED
    BY <2>2, FS_CardinalityType, Zenon
<1>2. ASSUME NEW h \in [Tunnels -> Seq(Blocks)], \A t \in T : h[t] = f[t]
      PROVE  On(h, b) = Cardinality(Rest) + In(h[u], b) /\ In(h[u], b) \in Nat
  <2>1. IsFiniteSet(Places(h[u], b)) /\ In(h[u], b) \in Nat
    BY InType
  <2>2. IsFiniteSet(C(h, u)) /\ Cardinality(C(h, u)) = In(h[u], b)
    BY <2>1, Column, Zenon DEF In
  <2>3. Cells(h, b, Tunnels) = Rest \cup C(h, u) /\ Rest \cap C(h, u) = {}
    BY <1>2 DEF Cells
  <2>4. On(h, b) = Cardinality(Rest \cup C(h, u))
    BY <2>3, Zenon DEF On
  <2> HIDE DEF Rest, C
  <2>5. Cardinality(Rest \cup C(h, u)) = Cardinality(Rest) + Cardinality(C(h, u))
    BY <1>1, <2>2, <2>3, DisjointUnion, Zenon
  <2> QED
    BY <2>1, <2>2, <2>4, <2>5
<1> HIDE DEF Rest
<1>3. On(f, b) = Cardinality(Rest) + In(f[u], b) /\ In(f[u], b) \in Nat
  BY <1>2
<1>4. On(g, b) = Cardinality(Rest) + In(g[u], b) /\ In(g[u], b) \in Nat
  BY <1>2, Zenon
<1> QED
  BY <1>1, <1>3, <1>4 DEF Moved

-----------------------------------------------------------------------------
(* The types of the state.                                                 *)

\* Where a goroutine holds a block: only between taking and passing it on.
HandsInv ==
  \A t \in Tunnels :
    /\ outbound[t] \notin {"sendRetry", "sendNormal"} => outHand[t] = <<>>
    /\ inbound[t] \notin {"push", "pushLast"} => inHand[t] = <<>>

\* The two kinds of blocks.
LEMMA BlockTypes ==
  ASSUME NEW blk \in Blocks
  PROVE  /\ blk.type = "data" => blk \in DataBlocks
         /\ blk.type = "control" => blk \in ControlBlocks /\ blk.id \in Tunnels
BY DEF Blocks, DataBlocks, ControlBlocks

\* A sequence is its first element and the others.
LEMMA TailLaws ==
  ASSUME NEW S, NEW s \in Seq(S), s # <<>>
  PROVE  Head(s) \in S /\ Tail(s) \in Seq(S) /\ Len(Tail(s)) = Len(s) - 1 /\ s = <<Head(s)>> \o Tail(s)
OBVIOUS

\* The sizes of the queues, one by one.
LEMMA SizesAssumption == SendQueueSize \in Nat /\ RecvQueueSize \in Nat /\ MaxBlocks \in Nat
                         /\ SendQueueSize >= 1 /\ RecvQueueSize >= 1
BY ConstantsAssumption

\* Every step of the peers, the relays and the connections keeps the types.
LEMMA RelayTypes == Spec => [](TypeOK /\ HandsInv)
<1> USE SizesAssumption
<1>1. Init => TypeOK /\ HandsInv
  BY DEF Init, TypeOK, HandsInv
<1>2. TypeOK /\ HandsInv /\ [Next]_vars => (TypeOK /\ HandsInv)'
  <2> SUFFICES ASSUME TypeOK, HandsInv, [Next]_vars PROVE TypeOK' /\ HandsInv'
    OBVIOUS
  <2>0. /\ sendQueue \in Seq(DataBlocks) /\ Len(sendQueue) <= SendQueueSize
        /\ sendRetryQueue \in Seq(DataBlocks) /\ Len(sendRetryQueue) <= SendQueueSize
        /\ retrying \subseteq DataBlocks /\ lost \subseteq DataBlocks
        /\ inHand \in [Tunnels -> Seq(Blocks)] /\ \A t \in Tunnels : Len(inHand[t]) <= 1
        /\ inbound \in [Tunnels -> {"top", "read", "push", "last", "pushLast", "ended"}]
    BY Zenon DEF TypeOK
  <2>1. CASE Produce
    <3>1. [type |-> "data", id |-> produced] \in DataBlocks
      BY <2>1 DEF Produce, TypeOK, DataBlocks
    <3>2. /\ sendQueue' \in Seq(DataBlocks) /\ Len(sendQueue') <= SendQueueSize
          /\ produced' \in 0 .. MaxBlocks
      BY <2>1, <3>1 DEF Produce, TypeOK
    <3> QED
      BY <2>1, <3>2, Zenon
         DEF Produce, TypeOK, HandsInv, queues, outRelay, tcp, inRelay, pool
  <2>2. ASSUME NEW t \in Tunnels, OutboundEnds(t) \/ NotCancelled(t) \/ NoRetry(t)
        PROVE  TypeOK' /\ HandsInv'
    <3>1. /\ outbound' \in [Tunnels -> {"top", "retry", "normal", "sendRetry", "sendNormal", "ended"}]
          /\ \A u \in Tunnels : outbound[u] \in {"sendRetry", "sendNormal"} => outbound'[u] = outbound[u]
      BY <2>2, Zenon DEF OutboundEnds, NotCancelled, NoRetry, TypeOK
    <3>2. UNCHANGED <<counters, queues, outHand, retrying, sendDone, tcp, recvDone, inRelay, pool, lost>>
      BY <2>2, Zenon DEF OutboundEnds, NotCancelled, NoRetry
    <3> QED
      BY <3>1, <3>2, Zenon DEF TypeOK, HandsInv, counters, queues, tcp, inRelay, pool
  <2>3. ASSUME NEW t \in Tunnels, TakeRetry(t) \/ TakeNormal(t)
        PROVE  TypeOK' /\ HandsInv'
    <3>0. \/ /\ sendRetryQueue # <<>> /\ sendRetryQueue' = Tail(sendRetryQueue)
             /\ outHand' = [outHand EXCEPT ![t] = <<Head(sendRetryQueue)>>]
             /\ UNCHANGED sendQueue
          \/ /\ sendQueue # <<>> /\ sendQueue' = Tail(sendQueue)
             /\ outHand' = [outHand EXCEPT ![t] = <<Head(sendQueue)>>]
             /\ UNCHANGED sendRetryQueue
      BY <2>3, Zenon DEF TakeRetry, TakeNormal
    <3>1. PICK e \in DataBlocks, a \in {"sendRetry", "sendNormal"} :
               /\ outHand' = [outHand EXCEPT ![t] = <<e>>]
               /\ outbound' = [outbound EXCEPT ![t] = a]
      <4>1. \E e \in DataBlocks : outHand' = [outHand EXCEPT ![t] = <<e>>]
        BY <3>0 DEF TypeOK
      <4>2. \E a \in {"sendRetry", "sendNormal"} : outbound' = [outbound EXCEPT ![t] = a]
        BY <2>3 DEF TakeRetry, TakeNormal, TypeOK
      <4> QED
        BY <4>1, <4>2, Zenon
    <3>2. /\ outbound' \in [Tunnels -> {"top", "retry", "normal", "sendRetry", "sendNormal", "ended"}]
          /\ outHand' \in [Tunnels -> Seq(DataBlocks)]
          /\ \A u \in Tunnels : Len(outHand'[u]) <= 1
      BY <3>1 DEF TypeOK
    <3>3. \A u \in Tunnels : outbound'[u] \notin {"sendRetry", "sendNormal"} => outHand'[u] = <<>>
      BY <3>1 DEF TypeOK, HandsInv
    <3>4. /\ sendQueue' \in Seq(DataBlocks) /\ Len(sendQueue') <= SendQueueSize
          /\ sendRetryQueue' \in Seq(DataBlocks) /\ Len(sendRetryQueue') <= SendQueueSize
      <4>1. \A s \in Seq(DataBlocks) :
              s # <<>> /\ Len(s) <= SendQueueSize =>
                Tail(s) \in Seq(DataBlocks) /\ Len(Tail(s)) <= SendQueueSize
        BY TailLaws
      <4> QED
        BY ONLY <2>0, <3>0, <4>1, Zenon
    <3>5. UNCHANGED <<counters, retrying, sendDone, tcp, recvDone, inRelay, pool, lost>>
      BY <2>3, Zenon DEF TakeRetry, TakeNormal
    <3> QED
      BY <3>2, <3>3, <3>4, <3>5, Zenon DEF TypeOK, HandsInv, counters, tcp, inRelay, pool
  <2>4. ASSUME NEW t \in Tunnels, SendOK(t) \/ SendFails(t)
        PROVE  TypeOK' /\ HandsInv'
    <3>1. PICK a \in {"normal", "top"} :
               /\ outHand' = [outHand EXCEPT ![t] = <<>>]
               /\ outbound' = [outbound EXCEPT ![t] = a]
      BY <2>4, Zenon DEF SendOK, SendFails, AfterSend
    <3>2. /\ outbound' \in [Tunnels -> {"top", "retry", "normal", "sendRetry", "sendNormal", "ended"}]
          /\ outHand' \in [Tunnels -> Seq(DataBlocks)]
          /\ \A u \in Tunnels : Len(outHand'[u]) <= 1
      BY <3>1 DEF TypeOK
    <3>3. \A u \in Tunnels : outbound'[u] \notin {"sendRetry", "sendNormal"} => outHand'[u] = <<>>
      BY <3>1 DEF TypeOK, HandsInv
    <3>4. outHand[t] \in Seq(DataBlocks) /\ outHand[t] \in Seq(Blocks)
      BY DEF TypeOK, Blocks
    <3>5. /\ retrying' \subseteq DataBlocks /\ wire' \in [Tunnels -> Seq(Blocks)]
          /\ sendDone' \in [Tunnels -> BOOLEAN] /\ up' \in [Tunnels -> BOOLEAN]
      <4>1. CASE SendOK(t)
        <5>1. wire' = [wire EXCEPT ![t] = @ \o outHand[t]] /\ UNCHANGED <<retrying, sendDone, up>>
          BY <4>1, Zenon DEF SendOK
        <5> QED
          BY <3>4, <5>1 DEF TypeOK
      <4>2. CASE SendFails(t)
        <5>1. /\ sendDone' = [sendDone EXCEPT ![t] = TRUE] /\ up' = [up EXCEPT ![t] = FALSE]
              /\ retrying' = retrying \cup Range(outHand[t]) /\ UNCHANGED wire
          BY <4>2, Zenon DEF SendFails
        <5>2. Range(outHand[t]) \subseteq DataBlocks
          BY <3>4 DEF Range
        <5> QED
          BY <5>1, <5>2 DEF TypeOK
      <4> QED
        BY <2>4, <4>1, <4>2
    <3>7. UNCHANGED <<counters, queues, recvDone, inRelay, pool, lost>>
      BY <2>4, Zenon DEF SendOK, SendFails
    <3> QED
      BY <3>2, <3>3, <3>5, <3>7, Zenon DEF TypeOK, HandsInv, counters, queues, inRelay, pool
  <2>5. ASSUME NEW t \in Tunnels, SendControl(t)
        PROVE  TypeOK' /\ HandsInv'
    <3>1. [type |-> "control", id |-> t] \in Blocks
      BY DEF Blocks, ControlBlocks
    <3>2. controls' \in 0 .. MaxBlocks
      BY <2>5 DEF SendControl, TypeOK
    <3>3. wire' \in [Tunnels -> Seq(Blocks)]
      BY <2>5, <3>1 DEF SendControl, TypeOK
    <3> QED
      BY <2>5, <3>2, <3>3, Zenon
         DEF SendControl, TypeOK, HandsInv, queues, outRelay, inRelay, pool
  <2>6. ASSUME NEW t \in Tunnels, SenderCloses(t) \/ Break(t) \/ ReceiverCloses(t)
        PROVE  TypeOK' /\ HandsInv'
    <3>1. /\ sendDone' \in [Tunnels -> BOOLEAN] /\ up' \in [Tunnels -> BOOLEAN]
          /\ recvDone' \in [Tunnels -> BOOLEAN]
      BY <2>6, Zenon DEF SenderCloses, Break, ReceiverCloses, TypeOK
    <3>2. UNCHANGED <<counters, queues, outRelay, retrying, wire, inRelay, pool, lost>>
      BY <2>6, Zenon DEF SenderCloses, Break, ReceiverCloses
    <3> QED
      BY <3>1, <3>2, Zenon DEF TypeOK, HandsInv, counters, queues, outRelay, inRelay, pool
  <2>7. ASSUME NEW t \in Tunnels, WireLoses(t)
        PROVE  TypeOK' /\ HandsInv'
    <3>1. Front(wire[t]) \in Seq(Blocks)
      BY <2>7 DEF WireLoses, TypeOK, Front
    <3>2. wire' \in [Tunnels -> Seq(Blocks)] /\ lost' \subseteq DataBlocks
      BY <2>7, <3>1 DEF WireLoses, TypeOK
    <3> QED
      BY <2>7, <3>2, Zenon
         DEF WireLoses, TypeOK, HandsInv, counters, queues, outRelay, inRelay, pool
  <2>8. ASSUME NEW t \in Tunnels, InboundTop(t) \/ ReadFails(t) \/ ReadLastFails(t)
        PROVE  TypeOK' /\ HandsInv'
    <3>1. /\ inbound' \in [Tunnels -> {"top", "read", "push", "last", "pushLast", "ended"}]
          /\ recvDone' \in [Tunnels -> BOOLEAN]
          /\ \A u \in Tunnels : inbound[u] \in {"push", "pushLast"} => inbound'[u] = inbound[u]
      BY <2>8, Zenon DEF InboundTop, ReadFails, ReadLastFails, TypeOK
    <3>2. UNCHANGED <<counters, queues, outRelay, retrying, sendDone, tcp, inHand, pool, lost>>
      BY <2>8, Zenon DEF InboundTop, ReadFails, ReadLastFails
    <3> QED
      BY <3>1, <3>2, Zenon DEF TypeOK, HandsInv, counters, queues, outRelay, tcp, pool
  <2>9. ASSUME NEW t \in Tunnels, ReadBlock(t) \/ ReadLast(t)
        PROVE  TypeOK' /\ HandsInv'
    <3>1. wire[t] \in Seq(Blocks) /\ wire[t] # <<>> /\ wire' = [wire EXCEPT ![t] = Tail(@)]
      BY <2>9, Zenon DEF ReadBlock, ReadLast, TypeOK
    <3>2. wire' \in [Tunnels -> Seq(Blocks)]
      BY <3>1 DEF TypeOK
    <3>3. \/ /\ inbound' = [inbound EXCEPT ![t] = "top"]
             /\ inHand' = inHand /\ inHand[t] = <<>>
          \/ \E a \in {"push", "pushLast"} :
               /\ inbound' = [inbound EXCEPT ![t] = a]
               /\ inHand' = [inHand EXCEPT ![t] = <<Head(wire[t])>>]
      BY <2>9, Zenon DEF ReadBlock, ReadLast, HandsInv
    <3>4. /\ inbound' \in [Tunnels -> {"top", "read", "push", "last", "pushLast", "ended"}]
          /\ inHand' \in [Tunnels -> Seq(Blocks)]
          /\ \A u \in Tunnels : Len(inHand'[u]) <= 1
      <4>1. Head(wire[t]) \in Blocks
        BY <3>1
      <4> QED
        <5>1. CASE inbound' = [inbound EXCEPT ![t] = "top"] /\ inHand' = inHand
          BY ONLY <2>0, <5>1
        <5>2. ASSUME NEW a \in {"push", "pushLast"}, inbound' = [inbound EXCEPT ![t] = a],
                     inHand' = [inHand EXCEPT ![t] = <<Head(wire[t])>>]
              PROVE  /\ inbound' \in [Tunnels -> {"top", "read", "push", "last", "pushLast", "ended"}]
                     /\ inHand' \in [Tunnels -> Seq(Blocks)]
                     /\ \A u \in Tunnels : Len(inHand'[u]) <= 1
          BY ONLY <2>0, <4>1, <5>2, t \in Tunnels
        <5> QED
          BY <3>3, <5>1, <5>2
    <3>5. \A u \in Tunnels : inbound'[u] \notin {"push", "pushLast"} => inHand'[u] = <<>>
      BY <3>3, Zenon DEF TypeOK, HandsInv
    <3>6. UNCHANGED <<counters, queues, outRelay, retrying, sendDone, up, recvDone, pool, lost>>
      BY <2>9, Zenon DEF ReadBlock, ReadLast
    <3> QED
      BY <3>2, <3>4, <3>5, <3>6, Zenon
         DEF TypeOK, HandsInv, counters, queues, outRelay, pool
  <2>10. ASSUME NEW t \in Tunnels, Push(t)
         PROVE  TypeOK' /\ HandsInv'
    <3>1. /\ inHand' = [inHand EXCEPT ![t] = <<>>]
          /\ inbound' = [inbound EXCEPT ![t] = IF @ = "push" THEN "top" ELSE "ended"]
          /\ recvQueue' = recvQueue \o inHand[t] /\ Len(recvQueue) < RecvQueueSize
      BY <2>10, Zenon DEF Push
    <3>2. recvQueue' \in Seq(Blocks) /\ Len(recvQueue') <= RecvQueueSize
      BY <3>1 DEF TypeOK
    <3>3. /\ inbound' \in [Tunnels -> {"top", "read", "push", "last", "pushLast", "ended"}]
          /\ inHand' \in [Tunnels -> Seq(Blocks)]
          /\ \A u \in Tunnels : Len(inHand'[u]) <= 1
      BY <3>1 DEF TypeOK
    <3>4. \A u \in Tunnels : inbound'[u] \notin {"push", "pushLast"} => inHand'[u] = <<>>
      BY <3>1 DEF TypeOK, HandsInv
    <3>5. UNCHANGED <<counters, queues, outRelay, retrying, sendDone, tcp, recvDone, received, leaked, lost>>
      BY <2>10, Zenon DEF Push
    <3> QED
      BY <3>2, <3>3, <3>4, <3>5, Zenon DEF TypeOK, HandsInv, counters, queues, outRelay, tcp
  <2>11. ASSUME NEW blk \in retrying, RetryQueued(blk) \/ RetryAbandoned(blk)
         PROVE  TypeOK' /\ HandsInv'
    <3>1. /\ sendRetryQueue' \in Seq(DataBlocks) /\ Len(sendRetryQueue') <= SendQueueSize
          /\ retrying' \subseteq DataBlocks /\ lost' \subseteq DataBlocks
      <4>1. \/ /\ Len(sendRetryQueue) < SendQueueSize
               /\ sendRetryQueue' = Append(sendRetryQueue, blk) /\ UNCHANGED lost
            \/ lost' = lost \cup {blk} /\ UNCHANGED sendRetryQueue
        BY <2>11, Zenon DEF RetryQueued, RetryAbandoned, queues
      <4>2. retrying' = retrying \ {blk}
        BY <2>11, Zenon DEF RetryQueued, RetryAbandoned
      <4> QED
        <5>1. CASE sendRetryQueue' = Append(sendRetryQueue, blk) /\ UNCHANGED lost
                   /\ Len(sendRetryQueue) < SendQueueSize
          BY ONLY <2>0, <4>2, <5>1, blk \in retrying, SizesAssumption
        <5>2. CASE lost' = lost \cup {blk} /\ UNCHANGED sendRetryQueue
          BY ONLY <2>0, <4>2, <5>2, blk \in retrying
        <5> QED
          BY <4>1, <5>1, <5>2
    <3>2. UNCHANGED <<counters, sendQueue, outRelay, sendDone, tcp, recvDone, inRelay, pool>>
      BY <2>11, Zenon DEF RetryQueued, RetryAbandoned, queues
    <3> QED
      BY <3>1, <3>2, Zenon DEF TypeOK, HandsInv, counters, outRelay, tcp, inRelay, pool
  <2>12. CASE Consume
    <3>1. Head(recvQueue) \in Blocks /\ recvQueue' = Tail(recvQueue) /\ recvQueue # <<>>
      BY <2>12 DEF Consume, TypeOK
    <3>2. /\ Head(recvQueue).type = "data" => Head(recvQueue) \in DataBlocks
          /\ Head(recvQueue).type = "control" => Head(recvQueue).id \in Tunnels
      BY <3>1, BlockTypes
    <3>3. recvQueue' \in Seq(Blocks) /\ Len(recvQueue') <= RecvQueueSize
      BY <3>1 DEF TypeOK
    <3>4. received' \subseteq DataBlocks /\ leaked' \in [Tunnels -> Nat]
      <4>1. \/ received' = received \cup {Head(recvQueue)} /\ Head(recvQueue) \in DataBlocks
               /\ UNCHANGED leaked
            \/ /\ leaked' = [leaked EXCEPT ![Head(recvQueue).id] = @ + 1]
               /\ Head(recvQueue).id \in Tunnels /\ UNCHANGED received
        BY <2>12, <3>2, Zenon DEF Consume
      <4> QED
        BY <4>1 DEF TypeOK
    <3>5. UNCHANGED <<counters, queues, outRelay, retrying, sendDone, tcp, recvDone, inRelay, lost>>
      BY <2>12, Zenon DEF Consume
    <3> QED
      BY <3>3, <3>4, <3>5, Zenon
         DEF TypeOK, HandsInv, counters, queues, outRelay, tcp, inRelay
  <2>13. CASE UNCHANGED vars
    BY <2>13, Zenon
       DEF vars, TypeOK, HandsInv, counters, queues, outRelay, tcp, inRelay, pool
  <2> QED
    BY <2>1, <2>2, <2>3, <2>4, <2>5, <2>6, <2>7, <2>8, <2>9, <2>10, <2>11, <2>12, <2>13,
       Zenon
    DEF Next
<1> QED
  BY <1>1, <1>2, PTL DEF Spec

-----------------------------------------------------------------------------
(* What moves a block.                                                     *)

\* What a queue gives and takes.
LEMMA InHead ==
  ASSUME NEW s \in Seq(Blocks), s # <<>>, NEW b
  PROVE  In(s, b) = In(<<Head(s)>>, b) + In(Tail(s), b) /\ In(Tail(s), b) \in Nat
         /\ In(<<Head(s)>>, b) \in Nat
<1>1. Head(s) \in Blocks /\ <<Head(s)>> \in Seq(Blocks) /\ Tail(s) \in Seq(Blocks) /\ s = <<Head(s)>> \o Tail(s)
  BY TailLaws
<1>2. In(<<Head(s)>> \o Tail(s), b) = In(<<Head(s)>>, b) + In(Tail(s), b)
  BY <1>1, InConcat, Zenon
<1> QED
  BY <1>1, <1>2, InType, Zenon

\* A block that is queued.
LEMMA InAppend ==
  ASSUME NEW s \in Seq(Blocks), NEW e \in Blocks, NEW b
  PROVE  In(Append(s, e), b) = In(s, b) + In(<<e>>, b) /\ In(<<e>>, b) \in Nat
<1>1. <<e>> \in Seq(Blocks) /\ Append(s, e) = s \o <<e>>
  OBVIOUS
<1>2. In(s \o <<e>>, b) = In(s, b) + In(<<e>>, b)
  BY <1>1, InConcat, Zenon
<1> QED
  BY <1>1, <1>2, InType, Zenon

\* The block that a connection loses as it goes down.
LEMMA InLast ==
  ASSUME NEW s \in Seq(Blocks), s # <<>>, NEW b
  PROVE  In(s, b) = In(Front(s), b) + In(<<Last(s)>>, b) /\ In(Front(s), b) \in Nat
         /\ In(<<Last(s)>>, b) \in Nat
<1>1. Last(s) \in Blocks /\ <<Last(s)>> \in Seq(Blocks) /\ Front(s) \in Seq(Blocks) /\ s = Front(s) \o <<Last(s)>>
  BY DEF Front, Last
<1>2. In(Front(s) \o <<Last(s)>>, b) = In(Front(s), b) + In(<<Last(s)>>, b)
  BY <1>1, InConcat, Zenon
<1> QED
  BY <1>1, <1>2, InType, Zenon

\* A hand holds one block at most.
LEMMA InHand ==
  ASSUME NEW s \in Seq(Blocks), Len(s) <= 1, NEW b
  PROVE  In(s, b) = Holds(Range(s), b)
<1>1. CASE s = <<>>
  <2>1. Range(s) = {}
    BY <1>1 DEF Range
  <2>2. Holds(Range(s), b) = 0
    BY <2>1, Zenon DEF Holds
  <2> QED
    BY <1>1, <2>2, InEmpty, Zenon
<1>2. CASE s # <<>>
  <2>1. PICK e \in Blocks : s = <<e>>
    <3>1. s = <<Head(s)>> \o Tail(s) /\ Head(s) \in Blocks /\ Tail(s) = <<>>
      BY <1>2, TailLaws
    <3>2. <<Head(s)>> \o <<>> = <<Head(s)>>
      BY <3>1
    <3> QED
      BY <3>1, <3>2, Zenon
  <2>2. Range(s) = {e}
    BY <2>1 DEF Range
  <2>3. In(s, b) = IF e = b THEN 1 ELSE 0
    BY <2>1, InOne, Zenon
  <2>4. Holds(Range(s), b) = IF e = b THEN 1 ELSE 0
    BY <2>2 DEF Holds
  <2> QED
    BY <2>3, <2>4
<1> QED
  BY <1>1, <1>2

\* f with the sequence s for the tunnel t.
Put(f, t, s) == [f EXCEPT ![t] = s]

\* It has a sequence for each tunnel.
LEMMA PutType ==
  ASSUME NEW f \in [Tunnels -> Seq(Blocks)], NEW t \in Tunnels, NEW s \in Seq(Blocks)
  PROVE  Put(f, t, s) \in [Tunnels -> Seq(Blocks)]
BY DEF Put

\* What all tunnels hold after the change of one.
LEMMA OnPut ==
  ASSUME NEW f \in [Tunnels -> Seq(Blocks)], NEW t \in Tunnels, NEW s \in Seq(Blocks), NEW b
  PROVE  On(Put(f, t, s), b) = On(f, b) + In(s, b) - In(f[t], b)
<1> DEFINE g == Put(f, t, s)
<1>1. g \in [Tunnels -> Seq(Blocks)] /\ g[t] = s /\ \A u \in Tunnels \ {t} : g[u] = f[u]
  BY DEF Put
<1> HIDE DEF g
<1>2. On(g, b) + In(f[t], b) = On(f, b) + In(g[t], b)
  <2>1. Moved(f, g, t, b)
    BY <1>1, OnUpdate, Zenon
  <2> QED
    BY <2>1, Zenon DEF Moved
<1>3. On(f, b) \in Nat /\ On(g, b) \in Nat
  BY <1>1, OnNat, Zenon
<1>4. In(f[t], b) \in Nat /\ In(s, b) \in Nat
  BY InType
<1>5. On(g, b) + In(f[t], b) = On(f, b) + In(s, b)
  BY <1>1, <1>2, Zenon
<1>6. On(g, b) = On(f, b) + In(s, b) - In(f[t], b)
  BY ONLY <1>3, <1>4, <1>5
<1> QED
  BY <1>6, Zenon DEF g

\* The same, as one formula to be instantiated.
Counted(f, t, s, b) == On(Put(f, t, s), b) = On(f, b) + In(s, b) - In(f[t], b)

LEMMA PutCounted ==
  ASSUME NEW f \in [Tunnels -> Seq(Blocks)], NEW t \in Tunnels, NEW s \in Seq(Blocks), NEW b
  PROVE  Counted(f, t, s, b)
BY OnPut, Zenon DEF Counted

\* A block taken from a queue into an empty hand.
LEMMA QueueToHand ==
  ASSUME NEW q \in Seq(Blocks), q # <<>>, NEW f \in [Tunnels -> Seq(Blocks)],
         NEW t \in Tunnels, f[t] = <<>>, NEW b
  PROVE  In(Tail(q), b) + On(Put(f, t, <<Head(q)>>), b) = In(q, b) + On(f, b)
<1>1. <<Head(q)>> \in Seq(Blocks)
  BY TailLaws
<1>2. On(Put(f, t, <<Head(q)>>), b) = On(f, b) + In(<<Head(q)>>, b) - In(f[t], b)
  <2>1. Counted(f, t, <<Head(q)>>, b)
    BY <1>1, PutCounted, Zenon
  <2> QED
    BY <2>1, Zenon DEF Counted
<1>3. In(f[t], b) = 0
  BY InEmpty
<1>4. On(f, b) \in Nat
  BY OnNat
<1> QED
  BY <1>2, <1>3, <1>4, InHead

\* A hand emptied onto a wire.
Written(f, w, t, b) ==
  On(Put(f, t, <<>>), b) + On(Put(w, t, w[t] \o f[t]), b) = On(f, b) + On(w, b)

LEMMA HandToWire ==
  ASSUME NEW f \in [Tunnels -> Seq(Blocks)], NEW w \in [Tunnels -> Seq(Blocks)],
         NEW t \in Tunnels, NEW b
  PROVE  Written(f, w, t, b)
<1>1. /\ <<>> \in Seq(Blocks) /\ f[t] \in Seq(Blocks) /\ w[t] \in Seq(Blocks)
      /\ w[t] \o f[t] \in Seq(Blocks)
  OBVIOUS
<1>2. In(w[t] \o f[t], b) = In(w[t], b) + In(f[t], b)
  BY <1>1, InConcat
<1>3. On(Put(f, t, <<>>), b) = On(f, b) + In(<<>>, b) - In(f[t], b)
  <2>1. Counted(f, t, <<>>, b)
    BY <1>1, PutCounted, Zenon
  <2> QED
    BY <2>1, Zenon DEF Counted
<1>4. On(Put(w, t, w[t] \o f[t]), b) = On(w, b) + In(w[t] \o f[t], b) - In(w[t], b)
  <2>1. Counted(w, t, w[t] \o f[t], b)
    BY <1>1, PutCounted, Zenon
  <2> QED
    BY <2>1, Zenon DEF Counted
<1>5. On(f, b) \in Nat /\ On(w, b) \in Nat /\ In(f[t], b) \in Nat /\ In(w[t], b) \in Nat
  BY <1>1, OnNat, InType, Zenon
<1> QED
  BY <1>2, <1>3, <1>4, <1>5, InEmpty DEF Written

\* A hand emptied.
LEMMA HandCleared ==
  ASSUME NEW f \in [Tunnels -> Seq(Blocks)], NEW t \in Tunnels, NEW b
  PROVE  On(Put(f, t, <<>>), b) + In(f[t], b) = On(f, b)
<1>1. <<>> \in Seq(Blocks) /\ f[t] \in Seq(Blocks)
  OBVIOUS
<1>2. On(Put(f, t, <<>>), b) = On(f, b) + In(<<>>, b) - In(f[t], b)
  <2>1. Counted(f, t, <<>>, b)
    BY <1>1, PutCounted, Zenon
  <2> QED
    BY <2>1, Zenon DEF Counted
<1>3. On(f, b) \in Nat /\ In(f[t], b) \in Nat
  BY <1>1, OnNat, InType
<1> QED
  BY <1>2, <1>3, InEmpty

\* A hand emptied onto a queue.
LEMMA HandToQueue ==
  ASSUME NEW f \in [Tunnels -> Seq(Blocks)], NEW t \in Tunnels, NEW q \in Seq(Blocks), NEW b
  PROVE  On(Put(f, t, <<>>), b) + In(q \o f[t], b) = On(f, b) + In(q, b)
<1>1. f[t] \in Seq(Blocks)
  OBVIOUS
<1>2. In(q \o f[t], b) = In(q, b) + In(f[t], b)
  BY <1>1, InConcat
<1>3. On(f, b) \in Nat /\ In(f[t], b) \in Nat /\ In(q, b) \in Nat
  BY <1>1, OnNat, InType
<1>4. <<>> \in Seq(Blocks)
  OBVIOUS
<1>5. On(Put(f, t, <<>>), b) = On(f, b) + In(<<>>, b) - In(f[t], b)
  <2>1. Counted(f, t, <<>>, b)
    BY <1>4, PutCounted, Zenon
  <2> QED
    BY <2>1, Zenon DEF Counted
<1> QED
  BY <1>2, <1>3, <1>5, InEmpty

\* The oldest block read from a wire.
LEMMA WireRead ==
  ASSUME NEW w \in [Tunnels -> Seq(Blocks)], NEW t \in Tunnels, w[t] # <<>>, NEW b
  PROVE  On(Put(w, t, Tail(w[t])), b) + In(<<Head(w[t])>>, b) = On(w, b)
<1>1. w[t] \in Seq(Blocks) /\ Tail(w[t]) \in Seq(Blocks)
  BY TailLaws
<1>2. On(Put(w, t, Tail(w[t])), b) = On(w, b) + In(Tail(w[t]), b) - In(w[t], b)
  <2>1. Counted(w, t, Tail(w[t]), b)
    BY <1>1, PutCounted, Zenon
  <2> QED
    BY <2>1, Zenon DEF Counted
<1>3. In(w[t], b) = In(<<Head(w[t])>>, b) + In(Tail(w[t]), b) /\ In(Tail(w[t]), b) \in Nat
         /\ In(<<Head(w[t])>>, b) \in Nat
  BY <1>1, InHead
<1>4. On(w, b) \in Nat
  BY OnNat
<1> QED
  BY <1>2, <1>3, <1>4

\* ... into an empty hand.
LEMMA WireToHand ==
  ASSUME NEW w \in [Tunnels -> Seq(Blocks)], NEW t \in Tunnels, w[t] # <<>>,
         NEW f \in [Tunnels -> Seq(Blocks)], f[t] = <<>>, NEW b
  PROVE  On(Put(w, t, Tail(w[t])), b) + On(Put(f, t, <<Head(w[t])>>), b) = On(w, b) + On(f, b)
<1>1. On(Put(w, t, Tail(w[t])), b) + In(<<Head(w[t])>>, b) = On(w, b)
  BY WireRead, Zenon
<1>2. w[t] \in Seq(Blocks) /\ Tail(w[t]) \in Seq(Blocks) /\ <<Head(w[t])>> \in Seq(Blocks)
  BY TailLaws
<1>3. On(Put(f, t, <<Head(w[t])>>), b) = On(f, b) + In(<<Head(w[t])>>, b) - In(f[t], b)
  <2>1. Counted(f, t, <<Head(w[t])>>, b)
    BY <1>2, PutCounted, Zenon
  <2> QED
    BY <2>1, Zenon DEF Counted
<1>4. Put(w, t, Tail(w[t])) \in [Tunnels -> Seq(Blocks)]
  BY <1>2, PutType, Zenon
<1>5. /\ On(w, b) \in Nat /\ On(f, b) \in Nat /\ In(<<Head(w[t])>>, b) \in Nat
      /\ On(Put(w, t, Tail(w[t])), b) \in Nat
  BY <1>2, <1>4, OnNat, InType, Zenon
<1> QED
  BY <1>1, <1>3, <1>5, InEmpty

\* The newest block lost from a wire.
LEMMA WireCut ==
  ASSUME NEW w \in [Tunnels -> Seq(Blocks)], NEW t \in Tunnels, w[t] # <<>>, NEW b
  PROVE  On(Put(w, t, Front(w[t])), b) + In(<<Last(w[t])>>, b) = On(w, b)
<1>1. w[t] \in Seq(Blocks) /\ Front(w[t]) \in Seq(Blocks)
  BY DEF Front
<1>2. On(Put(w, t, Front(w[t])), b) = On(w, b) + In(Front(w[t]), b) - In(w[t], b)
  <2>1. Counted(w, t, Front(w[t]), b)
    BY <1>1, PutCounted, Zenon
  <2> QED
    BY <2>1, Zenon DEF Counted
<1>3. In(w[t], b) = In(Front(w[t]), b) + In(<<Last(w[t])>>, b) /\ In(Front(w[t]), b) \in Nat
         /\ In(<<Last(w[t])>>, b) \in Nat
  BY <1>1, InLast
<1>4. On(w, b) \in Nat
  BY OnNat
<1> QED
  BY <1>2, <1>3, <1>4

\* A block written to a wire.
LEMMA WireAppend ==
  ASSUME NEW w \in [Tunnels -> Seq(Blocks)], NEW t \in Tunnels, NEW e \in Blocks, NEW b
  PROVE  On(Put(w, t, Append(w[t], e)), b) = On(w, b) + In(<<e>>, b)
<1>1. w[t] \in Seq(Blocks) /\ Append(w[t], e) \in Seq(Blocks)
  OBVIOUS
<1>2. On(Put(w, t, Append(w[t], e)), b) = On(w, b) + In(Append(w[t], e), b) - In(w[t], b)
  <2>1. Counted(w, t, Append(w[t], e), b)
    BY <1>1, PutCounted, Zenon
  <2> QED
    BY <2>1, Zenon DEF Counted
<1>3. In(Append(w[t], e), b) = In(w[t], b) + In(<<e>>, b) /\ In(<<e>>, b) \in Nat
  BY <1>1, InAppend
<1>4. On(w, b) \in Nat /\ In(w[t], b) \in Nat
  BY <1>1, OnNat, InType
<1> QED
  BY <1>2, <1>3, <1>4

\* The numbers that Copies adds.
LEMMA Terms ==
  ASSUME TypeOK, NEW b
  PROVE  /\ In(sendQueue, b) \in Nat /\ In(sendRetryQueue, b) \in Nat
         /\ On(outHand, b) \in Nat /\ On(wire, b) \in Nat /\ On(inHand, b) \in Nat
         /\ In(recvQueue, b) \in Nat
         /\ Holds(retrying, b) \in {0, 1} /\ Holds(received, b) \in {0, 1}
         /\ Holds(lost, b) \in {0, 1}
<1>0. Seq(DataBlocks) \subseteq Seq(Blocks)
  BY DEF Blocks
<1>1. In(sendQueue, b) \in Nat /\ In(sendRetryQueue, b) \in Nat /\ In(recvQueue, b) \in Nat
  BY <1>0, InType DEF TypeOK
<1>2. /\ outHand \in [Tunnels -> Seq(Blocks)] /\ wire \in [Tunnels -> Seq(Blocks)]
      /\ inHand \in [Tunnels -> Seq(Blocks)]
  BY <1>0 DEF TypeOK
<1>3. On(outHand, b) \in Nat /\ On(wire, b) \in Nat /\ On(inHand, b) \in Nat
  BY <1>2, OnNat
<1>4. \A S : Holds(S, b) \in {0, 1}
  BY DEF Holds
<1> QED
  BY <1>1, <1>3, <1>4, Zenon

-----------------------------------------------------------------------------
(* Every block is in one place.                                            *)

\* No step but the one that produces a block changes the number of places that
\* the block is in: what one queue, goroutine or wire gives another takes.
LEMMA CopiesKept ==
  ASSUME TypeOK, TypeOK', HandsInv, Next, ~Produce, NEW b \in DataBlocks, Copies(b) <= 1
  PROVE  Copies(b)' = Copies(b)
<1> DEFINE Same == Copies(b)' = Copies(b)
           Counts == /\ In(sendQueue, b) \in Nat /\ In(sendRetryQueue, b) \in Nat
                     /\ On(outHand, b) \in Nat /\ On(wire, b) \in Nat /\ On(inHand, b) \in Nat
                     /\ In(recvQueue, b) \in Nat
                     /\ Holds(retrying, b) \in {0, 1} /\ Holds(received, b) \in {0, 1}
                     /\ Holds(lost, b) \in {0, 1}
<1>0. Counts
  BY Terms, Zenon
<1>p. Counts'
  <2>0. Seq(DataBlocks) \subseteq Seq(Blocks)
    BY DEF Blocks
  <2>1. In(sendQueue', b) \in Nat /\ In(sendRetryQueue', b) \in Nat /\ In(recvQueue', b) \in Nat
    BY <2>0, InType DEF TypeOK
  <2>2. /\ outHand' \in [Tunnels -> Seq(Blocks)] /\ wire' \in [Tunnels -> Seq(Blocks)]
        /\ inHand' \in [Tunnels -> Seq(Blocks)]
    BY <2>0 DEF TypeOK
  <2>3. On(outHand', b) \in Nat /\ On(wire', b) \in Nat /\ On(inHand', b) \in Nat
    BY <2>2, OnNat, Zenon
  <2>4. \A S : Holds(S, b) \in {0, 1}
    BY DEF Holds
  <2> QED
    BY <2>1, <2>3, <2>4, Zenon
<1>a. /\ sendQueue \in Seq(Blocks) /\ sendRetryQueue \in Seq(Blocks)
      /\ outHand \in [Tunnels -> Seq(Blocks)]
  <2>1. Seq(DataBlocks) \subseteq Seq(Blocks)
    BY DEF Blocks
  <2> QED
    BY <2>1 DEF TypeOK
<1>b. /\ wire \in [Tunnels -> Seq(Blocks)] /\ inHand \in [Tunnels -> Seq(Blocks)]
      /\ recvQueue \in Seq(Blocks)
      /\ \A t \in Tunnels : Len(outHand[t]) <= 1 /\ Len(inHand[t]) <= 1
  BY Zenon DEF TypeOK
<1>c. b \in Blocks
  BY Zenon DEF Blocks
<1>1. ASSUME UNCHANGED <<queues, outHand, retrying, wire, inHand, recvQueue, received, lost>>
      PROVE  Same
  BY <1>1, Zenon DEF Copies, queues
<1>2. ASSUME NEW t \in Tunnels, TakeRetry(t) PROVE Same
  <2>1. /\ outHand[t] = <<>> /\ sendRetryQueue # <<>>
        /\ sendRetryQueue' = Tail(sendRetryQueue)
        /\ outHand' = Put(outHand, t, <<Head(sendRetryQueue)>>)
        /\ UNCHANGED <<sendQueue, retrying, wire, inHand, recvQueue, received, lost>>
    BY <1>2, Zenon DEF TakeRetry, HandsInv, tcp, inRelay, pool, Put
  <2>2. In(sendRetryQueue', b) + On(outHand', b) = In(sendRetryQueue, b) + On(outHand, b)
    BY <1>a, <2>1, QueueToHand
  <2>k. /\ In(sendQueue', b) = In(sendQueue, b) /\ Holds(retrying', b) = Holds(retrying, b)
        /\ On(wire', b) = On(wire, b) /\ On(inHand', b) = On(inHand, b)
        /\ In(recvQueue', b) = In(recvQueue, b) /\ Holds(received', b) = Holds(received, b)
        /\ Holds(lost', b) = Holds(lost, b)
    BY <2>1, Zenon DEF queues
  <2> QED
    BY ONLY <1>0, <1>p, <2>k, <2>2 DEF Copies
<1>3. ASSUME NEW t \in Tunnels, TakeNormal(t) PROVE Same
  <2>1. /\ outHand[t] = <<>> /\ sendQueue # <<>>
        /\ sendQueue' = Tail(sendQueue)
        /\ outHand' = Put(outHand, t, <<Head(sendQueue)>>)
        /\ UNCHANGED <<sendRetryQueue, retrying, wire, inHand, recvQueue, received, lost>>
    BY <1>3 DEF TakeNormal, HandsInv, tcp, inRelay, pool, Put
  <2>2. In(sendQueue', b) + On(outHand', b) = In(sendQueue, b) + On(outHand, b)
    BY <1>a, <2>1, QueueToHand, Zenon
  <2>k. /\ In(sendRetryQueue', b) = In(sendRetryQueue, b) /\ Holds(retrying', b) = Holds(retrying, b)
        /\ On(wire', b) = On(wire, b) /\ On(inHand', b) = On(inHand, b)
        /\ In(recvQueue', b) = In(recvQueue, b) /\ Holds(received', b) = Holds(received, b)
        /\ Holds(lost', b) = Holds(lost, b)
    BY <2>1, Zenon DEF queues
  <2> QED
    BY ONLY <1>0, <1>p, <2>k, <2>2, SMTT(20) DEF Copies
<1>4. ASSUME NEW t \in Tunnels, SendOK(t) PROVE Same
  <2>1. /\ wire' = Put(wire, t, wire[t] \o outHand[t])
        /\ outHand' = Put(outHand, t, <<>>)
        /\ UNCHANGED <<queues, retrying, inHand, recvQueue, received, lost>>
    BY <1>4, Zenon DEF SendOK, inRelay, pool, Put
  <2>2. On(outHand', b) + On(wire', b) = On(outHand, b) + On(wire, b)
    <3>1. Written(outHand, wire, t, b)
      BY <1>a, <1>b, HandToWire, Zenon
    <3> QED
      BY <2>1, <3>1, Zenon DEF Written
  <2>k. /\ In(sendQueue', b) = In(sendQueue, b) /\ In(sendRetryQueue', b) = In(sendRetryQueue, b)
        /\ Holds(retrying', b) = Holds(retrying, b) /\ On(inHand', b) = On(inHand, b)
        /\ In(recvQueue', b) = In(recvQueue, b) /\ Holds(received', b) = Holds(received, b)
        /\ Holds(lost', b) = Holds(lost, b)
    BY <2>1, Zenon DEF queues
  <2> QED
    BY ONLY <1>0, <1>p, <2>k, <2>2 DEF Copies
<1>5. ASSUME NEW t \in Tunnels, SendFails(t) PROVE Same
  <2>1. /\ retrying' = retrying \cup Range(outHand[t])
        /\ outHand' = Put(outHand, t, <<>>)
        /\ UNCHANGED <<queues, wire, inHand, recvQueue, received, lost>>
    BY <1>5 DEF SendFails, inRelay, pool, Put
  <2>2. On(outHand', b) + In(outHand[t], b) = On(outHand, b)
    BY <1>a, <2>1, HandCleared
  <2>3. In(outHand[t], b) = Holds(Range(outHand[t]), b)
    BY <1>a, <1>b, InHand
  <2>4. In(outHand[t], b) \in Nat
    BY <1>a, InType
  <2>5. Holds(retrying, b) + In(outHand[t], b) <= 1
    BY <1>0, <1>p, <2>2, <2>4 DEF Copies
  <2>6. Holds(retrying', b) = Holds(retrying, b) + Holds(Range(outHand[t]), b)
    BY <2>1, <2>3, <2>5 DEF Holds
  <2>k. /\ In(sendQueue', b) = In(sendQueue, b) /\ In(sendRetryQueue', b) = In(sendRetryQueue, b)
        /\ On(wire', b) = On(wire, b) /\ On(inHand', b) = On(inHand, b)
        /\ In(recvQueue', b) = In(recvQueue, b) /\ Holds(received', b) = Holds(received, b)
        /\ Holds(lost', b) = Holds(lost, b)
    BY <2>1, Zenon DEF queues
  <2> QED
    <3>1. On(outHand', b) + Holds(retrying', b) = On(outHand, b) + Holds(retrying, b)
      BY ONLY <1>0, <1>p, <2>2, <2>3, <2>4, <2>6, SMTT(20)
    <3> QED
      BY ONLY <1>0, <1>p, <2>k, <3>1 DEF Copies
<1>6. ASSUME NEW blk \in retrying, RetryQueued(blk) PROVE Same
  <2>1. /\ blk \in Blocks
        /\ sendRetryQueue' = Append(sendRetryQueue, blk)
        /\ retrying' = retrying \ {blk}
        /\ UNCHANGED <<sendQueue, outHand, wire, inHand, recvQueue, received, lost>>
    BY <1>6 DEF RetryQueued, outRelay, tcp, inRelay, pool, TypeOK, Blocks
  <2>2. In(sendRetryQueue', b) = In(sendRetryQueue, b) + In(<<blk>>, b)
    BY <1>a, <2>1, InAppend
  <2>3. In(<<blk>>, b) = IF blk = b THEN 1 ELSE 0
    BY <2>1, InOne
  <2>4. Holds(retrying', b) + (IF blk = b THEN 1 ELSE 0) = Holds(retrying, b)
    BY <2>1, SMTT(20) DEF Holds
  <2> QED
    BY ONLY <1>0, <1>p, <2>1, <2>2, <2>3, <2>4, SMTT(20) DEF Copies
<1>7. ASSUME NEW blk \in retrying, RetryAbandoned(blk) PROVE Same
  <2>1. /\ retrying' = retrying \ {blk} /\ lost' = lost \cup {blk}
        /\ UNCHANGED <<queues, outHand, wire, inHand, recvQueue, received>>
    BY <1>7 DEF RetryAbandoned, outRelay, tcp, inRelay, pool
  <2>2. Holds(retrying', b) + (IF blk = b THEN 1 ELSE 0) = Holds(retrying, b)
    BY <2>1 DEF Holds
  <2>3. Holds(retrying, b) + Holds(lost, b) <= 1
    BY <1>0 DEF Copies
  <2>4. Holds(lost', b) = Holds(lost, b) + (IF blk = b THEN 1 ELSE 0)
    BY <2>1, <2>3 DEF Holds
  <2> QED
    BY <1>0, <1>p, <2>1, <2>2, <2>4 DEF Copies, queues
<1>8. ASSUME NEW t \in Tunnels, SendControl(t) PROVE Same
  <2> DEFINE c == [type |-> "control", id |-> t]
  <2>1. UNCHANGED <<queues, outHand, retrying, inHand, recvQueue, received, lost>>
    BY <1>8 DEF SendControl, outRelay, inRelay, pool
  <2>2. c \in Blocks /\ c # b
    BY DEF Blocks, ControlBlocks, DataBlocks
  <2>3. wire' = wire \/ wire' = Put(wire, t, Append(wire[t], c))
    BY <1>8 DEF SendControl, Put
  <2> HIDE DEF c
  <2>4. In(<<c>>, b) = 0
    BY <2>2, InOne
  <2>5. On(Put(wire, t, Append(wire[t], c)), b) = On(wire, b) + In(<<c>>, b)
    BY <1>b, <2>2, WireAppend, Zenon
  <2>6. On(wire', b) = On(wire, b)
    BY ONLY <1>0, <2>3, <2>4, <2>5, SMTT(20)
  <2> QED
    BY <2>1, <2>6, Zenon DEF Copies, queues
<1>9. ASSUME NEW t \in Tunnels, WireLoses(t) PROVE Same
  <2>1. /\ wire[t] # <<>> /\ wire' = Put(wire, t, Front(wire[t]))
        /\ lost' = lost \cup ({Last(wire[t])} \cap DataBlocks)
        /\ UNCHANGED <<queues, outHand, retrying, inHand, recvQueue, received>>
    BY <1>9, Zenon DEF WireLoses, outRelay, inRelay, pool, Put, Front, Last
  <2>2. Last(wire[t]) \in Blocks
    BY <1>b, <2>1 DEF Last
  <2>3. In(<<Last(wire[t])>>, b) = IF Last(wire[t]) = b THEN 1 ELSE 0
    BY <2>2, InOne
  <2>4. On(wire', b) + In(<<Last(wire[t])>>, b) = On(wire, b)
    BY <1>b, <2>1, WireCut, Zenon
  <2>5. wire' \in [Tunnels -> Seq(Blocks)]
    BY <1>b, <2>1 DEF Put, Front
  <2>6. On(wire', b) \in Nat
    BY <2>5, OnNat
  <2>7. Holds(lost, b) + In(<<Last(wire[t])>>, b) <= 1
    BY ONLY Copies(b) <= 1, <1>0, <1>p, <2>3, <2>4, <2>6, SMTT(20) DEF Copies
  <2>8. Holds(lost', b) = Holds(lost, b) + In(<<Last(wire[t])>>, b)
    BY <2>1, <2>3, <2>7 DEF Holds
  <2>k. /\ In(sendQueue', b) = In(sendQueue, b) /\ In(sendRetryQueue', b) = In(sendRetryQueue, b)
        /\ On(outHand', b) = On(outHand, b) /\ Holds(retrying', b) = Holds(retrying, b)
        /\ On(inHand', b) = On(inHand, b) /\ In(recvQueue', b) = In(recvQueue, b)
        /\ Holds(received', b) = Holds(received, b)
    BY <2>1, Zenon DEF queues
  <2> QED
    BY ONLY <1>0, <1>p, <2>k, <2>4, <2>8, <2>3 DEF Copies
<1>10. ASSUME NEW t \in Tunnels, ReadBlock(t) PROVE Same
  <2>1. /\ inHand[t] = <<>> /\ wire[t] # <<>> /\ wire' = Put(wire, t, Tail(wire[t]))
        /\ UNCHANGED <<queues, outHand, retrying, recvQueue, received, lost>>
    BY <1>10 DEF ReadBlock, HandsInv, outRelay, pool, Put
  <2>2. Head(wire[t]) \in Blocks
    BY <1>b, <2>1
  <2>3. \/ Head(wire[t]).type = "control" /\ inHand' = inHand
        \/ inHand' = Put(inHand, t, <<Head(wire[t])>>)
    BY <1>10 DEF ReadBlock, Put
  <2>4. CASE Head(wire[t]).type = "control" /\ inHand' = inHand
    <3>1. Head(wire[t]) # b
      BY <2>4 DEF DataBlocks
    <3>2. In(<<Head(wire[t])>>, b) = 0
      BY <2>2, <3>1, InOne
    <3>3. On(wire', b) + In(<<Head(wire[t])>>, b) = On(wire, b)
      BY <1>b, <2>1, WireRead, Zenon
    <3>4. wire' \in [Tunnels -> Seq(Blocks)]
      BY <1>b, <2>1 DEF Put
    <3>5. On(wire', b) \in Nat
      BY <3>4, OnNat
    <3>k. /\ In(sendQueue', b) = In(sendQueue, b) /\ In(sendRetryQueue', b) = In(sendRetryQueue, b)
          /\ On(outHand', b) = On(outHand, b) /\ Holds(retrying', b) = Holds(retrying, b)
          /\ In(recvQueue', b) = In(recvQueue, b) /\ Holds(received', b) = Holds(received, b)
          /\ Holds(lost', b) = Holds(lost, b) /\ On(inHand', b) = On(inHand, b)
      BY <2>1, <2>4, Zenon DEF queues
    <3>6. On(wire', b) = On(wire, b)
      BY ONLY <1>0, <1>p, <3>2, <3>3, <3>5, SMTT(20)
    <3> QED
      BY ONLY <1>0, <1>p, <3>k, <3>6 DEF Copies
  <2>5. CASE inHand' = Put(inHand, t, <<Head(wire[t])>>)
    <3>1. On(wire', b) + On(inHand', b) = On(wire, b) + On(inHand, b)
      BY <1>b, <2>1, <2>5, WireToHand, Zenon
    <3>k. /\ In(sendQueue', b) = In(sendQueue, b) /\ In(sendRetryQueue', b) = In(sendRetryQueue, b)
          /\ On(outHand', b) = On(outHand, b) /\ Holds(retrying', b) = Holds(retrying, b)
          /\ In(recvQueue', b) = In(recvQueue, b) /\ Holds(received', b) = Holds(received, b)
          /\ Holds(lost', b) = Holds(lost, b)
      BY <2>1, Zenon DEF queues
    <3> QED
      BY ONLY <1>0, <1>p, <3>k, <3>1 DEF Copies
  <2> QED
    BY <2>3, <2>4, <2>5
<1>11. ASSUME NEW t \in Tunnels, ReadLast(t) PROVE Same
  <2>1. /\ inHand[t] = <<>> /\ wire[t] # <<>> /\ wire' = Put(wire, t, Tail(wire[t]))
        /\ inHand' = Put(inHand, t, <<Head(wire[t])>>)
        /\ UNCHANGED <<queues, outHand, retrying, recvQueue, received, lost>>
    BY <1>11, Zenon DEF ReadLast, HandsInv, outRelay, pool, Put
  <2>2. On(wire', b) + On(inHand', b) = On(wire, b) + On(inHand, b)
    BY <1>b, <2>1, WireToHand, Zenon
  <2>k. /\ In(sendQueue', b) = In(sendQueue, b) /\ In(sendRetryQueue', b) = In(sendRetryQueue, b)
        /\ On(outHand', b) = On(outHand, b) /\ Holds(retrying', b) = Holds(retrying, b)
        /\ In(recvQueue', b) = In(recvQueue, b) /\ Holds(received', b) = Holds(received, b)
        /\ Holds(lost', b) = Holds(lost, b)
    BY <2>1, Zenon DEF queues
  <2> QED
    BY ONLY <1>0, <1>p, <2>k, <2>2 DEF Copies
<1>12. ASSUME NEW t \in Tunnels, Push(t) PROVE Same
  <2>1. /\ recvQueue' = recvQueue \o inHand[t] /\ inHand' = Put(inHand, t, <<>>)
        /\ UNCHANGED <<queues, outHand, retrying, wire, received, lost>>
    BY <1>12 DEF Push, outRelay, tcp, pool, Put
  <2>2. On(inHand', b) + In(recvQueue', b) = On(inHand, b) + In(recvQueue, b)
    BY <1>b, <2>1, HandToQueue, Zenon
  <2>k. /\ In(sendQueue', b) = In(sendQueue, b) /\ In(sendRetryQueue', b) = In(sendRetryQueue, b)
        /\ On(outHand', b) = On(outHand, b) /\ Holds(retrying', b) = Holds(retrying, b)
        /\ On(wire', b) = On(wire, b) /\ Holds(received', b) = Holds(received, b)
        /\ Holds(lost', b) = Holds(lost, b)
    BY <2>1, Zenon DEF queues
  <2> QED
    BY ONLY <1>0, <1>p, <2>k, <2>2 DEF Copies
<1>13. ASSUME Consume PROVE Same
  <2>1. /\ recvQueue # <<>> /\ recvQueue' = Tail(recvQueue)
        /\ UNCHANGED <<queues, outHand, retrying, wire, inHand, lost>>
    BY <1>13 DEF Consume, outRelay, tcp, inRelay
  <2>2. /\ In(<<Head(recvQueue)>>, b) \in Nat
        /\ In(recvQueue, b) = In(<<Head(recvQueue)>>, b) + In(recvQueue', b)
    BY <1>b, <2>1, InHead
  <2>3. In(<<Head(recvQueue)>>, b) = IF Head(recvQueue) = b THEN 1 ELSE 0
    <3>1. Head(recvQueue) \in Blocks
      BY <1>b, <2>1, TailLaws
    <3> QED
      BY <3>1, InOne
  <2>4. Holds(received, b) + In(<<Head(recvQueue)>>, b) <= 1
    BY <1>0, <1>p, <2>2, <2>3 DEF Copies
  <2>5. \/ Head(recvQueue).type = "control" /\ received' = received
        \/ received' = received \cup {Head(recvQueue)}
    BY <1>13, Zenon DEF Consume
  <2>6. Head(recvQueue).type = "control" => Head(recvQueue) # b
    BY DEF DataBlocks
  <2>7. Holds(received', b) = Holds(received, b) + In(<<Head(recvQueue)>>, b)
    BY <2>3, <2>4, <2>5, <2>6 DEF Holds
  <2>k. /\ In(sendQueue', b) = In(sendQueue, b) /\ In(sendRetryQueue', b) = In(sendRetryQueue, b)
        /\ On(outHand', b) = On(outHand, b) /\ Holds(retrying', b) = Holds(retrying, b)
        /\ On(wire', b) = On(wire, b) /\ On(inHand', b) = On(inHand, b)
        /\ Holds(lost', b) = Holds(lost, b)
    BY <2>1, Zenon DEF queues
  <2> QED
    BY ONLY <1>0, <1>p, <2>k, <2>2, <2>7, SMTT(20) DEF Copies
<1>14. ASSUME NEW t \in Tunnels,
              \/ OutboundEnds(t) \/ NotCancelled(t) \/ NoRetry(t) \/ SenderCloses(t)
              \/ Break(t) \/ InboundTop(t) \/ ReadFails(t) \/ ReadLastFails(t)
              \/ ReceiverCloses(t)
       PROVE  Same
  <2>1. UNCHANGED <<queues, outHand, retrying, wire, inHand, recvQueue, received, lost>>
    BY <1>14, Zenon DEF OutboundEnds, NotCancelled, NoRetry, SenderCloses, Break,
         InboundTop, ReadFails, ReadLastFails, ReceiverCloses, outRelay, tcp, inRelay, pool
  <2> QED
    BY <1>1, <2>1, Zenon
<1> QED
  BY <1>2, <1>3, <1>4, <1>5, <1>6, <1>7, <1>8, <1>9, <1>10, <1>11, <1>12, <1>13, <1>14,
     Zenon DEF Next

\* Empty sequences hold nothing.
LEMMA NothingOn ==
  ASSUME NEW f, \A t \in Tunnels : f[t] = <<>>, NEW b
  PROVE  On(f, b) = 0
<1>1. Cells(f, b, Tunnels) = {}
  BY DEF Cells, Places
<1> QED
  BY <1>1, FS_EmptySet, Zenon DEF On

\* For any number of tunnels and sizes of queues, whatever fails and when, a
\* block that the sending peer has produced is in one place: in a queue, in a
\* goroutine's hands, on a wire, received, or lost with a connection.  None is
\* duplicated by a retry, none vanishes.
THEOREM OnePlace == Spec => []ExactlyOnePlace
<1>1. Init => ExactlyOnePlace
  <2> SUFFICES ASSUME Init, NEW b \in DataBlocks PROVE Copies(b) = IF b.id < produced THEN 1 ELSE 0
    BY Zenon DEF ExactlyOnePlace
  <2>1. In(sendQueue, b) = 0 /\ In(sendRetryQueue, b) = 0 /\ In(recvQueue, b) = 0
    BY InEmpty, Zenon DEF Init
  <2>2. On(outHand, b) = 0 /\ On(wire, b) = 0 /\ On(inHand, b) = 0
    <3>1. \A t \in Tunnels : outHand[t] = <<>> /\ wire[t] = <<>> /\ inHand[t] = <<>>
      BY DEF Init
    <3> QED
      BY <3>1, NothingOn, Zenon
  <2>3. Holds(retrying, b) = 0 /\ Holds(received, b) = 0 /\ Holds(lost, b) = 0
    BY DEF Init, Holds
  <2>4. ~ (b.id < produced)
    BY SizesAssumption DEF Init, DataBlocks
  <2> QED
    BY ONLY <2>1, <2>2, <2>3, <2>4 DEF Copies
<1>2. ASSUME TypeOK, TypeOK', HandsInv, ExactlyOnePlace, [Next]_vars
      PROVE  ExactlyOnePlace'
  <2> SUFFICES ASSUME NEW b \in DataBlocks
               PROVE  Copies(b)' = IF b.id < produced' THEN 1 ELSE 0
    BY Zenon DEF ExactlyOnePlace
  <2>1. Copies(b) = IF b.id < produced THEN 1 ELSE 0
    BY <1>2, Zenon DEF ExactlyOnePlace
  <2>2. CASE Produce
    <3> DEFINE new == [type |-> "data", id |-> produced]
    <3>1. /\ sendQueue' = Append(sendQueue, new) /\ produced' = produced + 1
          /\ UNCHANGED <<sendRetryQueue, outHand, retrying, wire, inHand, recvQueue, received, lost>>
      BY <2>2, Zenon DEF Produce, outRelay, tcp, inRelay, pool
    <3>2. new \in Blocks /\ produced \in Nat /\ b.id \in Nat
      BY <1>2, <2>2, SizesAssumption DEF Blocks, DataBlocks, TypeOK, Produce
    <3>3. new = b <=> b.id = produced
      BY DEF DataBlocks
    <3> HIDE DEF new
    <3>4. sendQueue \in Seq(Blocks)
      BY <1>2 DEF TypeOK, Blocks
    <3>5. In(sendQueue', b) = In(sendQueue, b) + In(<<new>>, b)
      BY <3>1, <3>2, <3>4, InAppend
    <3>6. In(<<new>>, b) = IF new = b THEN 1 ELSE 0
      BY <3>2, InOne
    <3>7. /\ In(sendRetryQueue', b) = In(sendRetryQueue, b) /\ On(outHand', b) = On(outHand, b)
          /\ Holds(retrying', b) = Holds(retrying, b) /\ On(wire', b) = On(wire, b)
          /\ On(inHand', b) = On(inHand, b) /\ In(recvQueue', b) = In(recvQueue, b)
          /\ Holds(received', b) = Holds(received, b) /\ Holds(lost', b) = Holds(lost, b)
      BY <3>1, Zenon
    <3>8. /\ In(sendQueue, b) \in Nat /\ In(sendRetryQueue, b) \in Nat
          /\ On(outHand, b) \in Nat /\ On(wire, b) \in Nat /\ On(inHand, b) \in Nat
          /\ In(recvQueue, b) \in Nat
          /\ Holds(retrying, b) \in {0, 1} /\ Holds(received, b) \in {0, 1}
          /\ Holds(lost, b) \in {0, 1}
      BY <1>2, Terms, Zenon
    <3>9. Copies(b)' = Copies(b) + (IF b.id = produced THEN 1 ELSE 0)
      BY ONLY <3>3, <3>5, <3>6, <3>7, <3>8 DEF Copies
    <3> QED
      BY ONLY <2>1, <3>1, <3>2, <3>9
  <2>3. CASE Next /\ ~Produce
    <3>1. produced' = produced
      BY <2>3, Zenon
         DEF Next, OutboundEnds, NotCancelled, TakeRetry, NoRetry, TakeNormal, SendOK,
           SendFails, RetryQueued, RetryAbandoned, SendControl, SenderCloses, Break, WireLoses,
           InboundTop, ReadBlock, ReadFails, ReadLast, ReadLastFails, Push, ReceiverCloses, Consume,
           counters
    <3>2. Copies(b) <= 1
      BY <2>1
    <3> QED
      BY <1>2, <2>1, <2>3, <3>1, <3>2, CopiesKept, Zenon
  <2>4. CASE UNCHANGED vars
    BY <2>1, <2>4, Zenon DEF Copies, vars, counters, queues, outRelay, tcp, inRelay, pool
  <2> QED
    BY <1>2, <2>2, <2>3, <2>4, Zenon
<1> QED
  BY <1>1, <1>2, RelayTypes, PTL DEF Spec

-----------------------------------------------------------------------------
(* Pings and pongs.                                                        *)

\* The ping or pong of a tunnel.
Control(t) == [type |-> "control", id |-> t]

\* Of the pings and pongs, s holds only those of t.
Own(s, t) == \A i \in 1 .. Len(s) : s[i] \in ControlBlocks => s[i] = Control(t)

\* Pings and pongs stay in the tunnel that made them, and InboundRelay passes
\* none on.
OwnInv ==
  \A t \in Tunnels :
    /\ Own(wire[t], t) /\ Own(inHand[t], t)
    /\ inbound[t] = "push" => inHand[t] \in Seq(DataBlocks)

\* What a wire may take and give without holding another tunnel's pings.
LEMMA OwnLaws ==
  ASSUME NEW s \in Seq(Blocks), NEW t \in Tunnels, Own(s, t)
  PROVE  /\ \A d \in Seq(DataBlocks) : Own(s \o d, t)
         /\ Own(Append(s, Control(t)), t)
         /\ s # <<>> => Own(Tail(s), t) /\ Own(Front(s), t) /\ Own(<<Head(s)>>, t)
<1>1. ASSUME NEW d \in Seq(DataBlocks) PROVE Own(s \o d, t)
  <2>1. ASSUME NEW i \in 1 .. Len(s \o d), (s \o d)[i] \in ControlBlocks
        PROVE  (s \o d)[i] = Control(t)
    <3>1. d \in Seq(Blocks) /\ Len(s) \in Nat /\ Len(d) \in Nat /\ Len(s \o d) = Len(s) + Len(d)
      BY DEF Blocks
    <3>2. CASE i <= Len(s)
      <4>1. (s \o d)[i] = s[i] /\ i \in 1 .. Len(s)
        BY <3>1, <3>2
      <4> QED
        BY <2>1, <4>1, Zenon DEF Own
    <3>3. CASE i > Len(s)
      <4>1. (s \o d)[i] = d[i - Len(s)] /\ i - Len(s) \in 1 .. Len(d)
        BY <3>1, <3>3
      <4>2. (s \o d)[i] \in DataBlocks
        BY <4>1
      <4> QED
        BY <2>1, <4>2 DEF DataBlocks, ControlBlocks
    <3>4. i <= Len(s) \/ i > Len(s)
      BY <3>1
    <3> QED
      BY <3>2, <3>3, <3>4, Zenon
  <2> QED
    BY <2>1, Zenon DEF Own
<1>2. Own(Append(s, Control(t)), t)
  BY DEF Own
<1>3. ASSUME s # <<>> PROVE Own(Tail(s), t) /\ Own(Front(s), t) /\ Own(<<Head(s)>>, t)
  BY <1>3 DEF Own, Front
<1> QED
  BY <1>1, <1>2, <1>3

\* A sequence without pings and pongs of u.
LEMMA InOther ==
  ASSUME NEW s \in Seq(Blocks), NEW t \in Tunnels, NEW u \in Tunnels, u # t, Own(s, t)
  PROVE  In(s, Control(u)) = 0
<1>1. Control(u) \in ControlBlocks /\ Control(u) # Control(t)
  BY DEF Control, ControlBlocks
<1>2. Places(s, Control(u)) = {}
  BY <1>1 DEF Places, Own
<1> QED
  BY <1>2, FS_EmptySet, Zenon DEF In

\* Nor do data blocks contain one.
LEMMA InData ==
  ASSUME NEW s \in Seq(DataBlocks), NEW u \in Tunnels
  PROVE  In(s, Control(u)) = 0
<1>1. Control(u) \notin DataBlocks
  BY DEF Control, DataBlocks
<1>2. Places(s, Control(u)) = {}
  BY <1>1 DEF Places
<1> QED
  BY <1>2, FS_EmptySet, Zenon DEF In

\* Every step of the relays keeps this.
LEMMA OwnKept == Spec => []OwnInv
<1>1. Init => OwnInv
  BY DEF Init, OwnInv, Own
<1>2. ASSUME TypeOK, HandsInv, OwnInv, [Next]_vars PROVE OwnInv'
  <2>0. /\ wire \in [Tunnels -> Seq(Blocks)] /\ inHand \in [Tunnels -> Seq(Blocks)]
        /\ outHand \in [Tunnels -> Seq(DataBlocks)]
        /\ inbound \in [Tunnels -> {"top", "read", "push", "last", "pushLast", "ended"}]
    BY <1>2, Zenon DEF TypeOK
  <2>1. ASSUME NEW t \in Tunnels, \A u \in Tunnels \ {t} : wire'[u] = wire[u] /\ inHand'[u] = inHand[u] /\ inbound'[u] = inbound[u],
               Own(wire'[t], t), Own(inHand'[t], t),
               inbound'[t] = "push" => inHand'[t] \in Seq(DataBlocks)
        PROVE  OwnInv'
    BY <1>2, <2>1, Zenon DEF OwnInv
  <2>2. ASSUME NEW t \in Tunnels, SendOK(t) PROVE OwnInv'
    <3>1. /\ \A u \in Tunnels \ {t} : wire'[u] = wire[u]
          /\ wire'[t] = wire[t] \o outHand[t] /\ inHand' = inHand /\ inbound' = inbound
      BY <2>0, <2>2 DEF SendOK, inRelay
    <3>2. Own(wire[t] \o outHand[t], t)
      BY <1>2, <2>0, OwnLaws, Zenon DEF OwnInv
    <3> QED
      BY <1>2, <2>1, <3>1, <3>2, Zenon DEF OwnInv
  <2>3. ASSUME NEW t \in Tunnels, SendControl(t) PROVE OwnInv'
    <3>1. /\ \A u \in Tunnels \ {t} : wire'[u] = wire[u]
          /\ wire'[t] \in {wire[t], Append(wire[t], Control(t))} /\ inHand' = inHand /\ inbound' = inbound
      BY <2>0, <2>3 DEF SendControl, inRelay, Control
    <3>2. Own(Append(wire[t], Control(t)), t)
      BY <1>2, <2>0, OwnLaws, Zenon DEF OwnInv
    <3> QED
      BY <1>2, <2>1, <3>1, <3>2, Zenon DEF OwnInv
  <2>4. ASSUME NEW t \in Tunnels, WireLoses(t) PROVE OwnInv'
    <3>1. /\ \A u \in Tunnels \ {t} : wire'[u] = wire[u]
          /\ wire[t] # <<>> /\ wire'[t] = Front(wire[t]) /\ inHand' = inHand /\ inbound' = inbound
      BY <2>0, <2>4, Zenon DEF WireLoses, inRelay, Front
    <3>2. Own(Front(wire[t]), t)
      BY <1>2, <2>0, <3>1, OwnLaws, Zenon DEF OwnInv
    <3> QED
      BY <1>2, <2>1, <3>1, <3>2, Zenon DEF OwnInv
  <2>5. ASSUME NEW t \in Tunnels, ReadBlock(t) \/ ReadLast(t) PROVE OwnInv'
    <3>1. /\ \A u \in Tunnels \ {t} : wire'[u] = wire[u] /\ inHand'[u] = inHand[u] /\ inbound'[u] = inbound[u]
          /\ wire[t] # <<>> /\ wire'[t] = Tail(wire[t])
          /\ inbound'[t] = "push" => Head(wire[t]).type = "data" /\ inHand'[t] = <<Head(wire[t])>>
          /\ inHand'[t] \in {inHand[t], <<Head(wire[t])>>}
      BY <2>0, <2>5 DEF ReadBlock, ReadLast
    <3>2. Own(Tail(wire[t]), t) /\ Own(<<Head(wire[t])>>, t)
      BY <1>2, <2>0, <3>1, OwnLaws, Zenon DEF OwnInv
    <3>3. inbound'[t] = "push" => inHand'[t] \in Seq(DataBlocks)
      <4>1. Head(wire[t]) \in Blocks
        BY <2>0, <3>1, TailLaws, Zenon
      <4>2. Head(wire[t]).type = "data" => <<Head(wire[t])>> \in Seq(DataBlocks)
        BY <4>1, BlockTypes
      <4> QED
        BY <3>1, <4>2, Zenon
    <3> QED
      BY <1>2, <2>1, <3>1, <3>2, <3>3, Zenon DEF OwnInv
  <2>6. ASSUME NEW t \in Tunnels, Push(t) PROVE OwnInv'
    <3>1. /\ \A u \in Tunnels \ {t} : inHand'[u] = inHand[u] /\ inbound'[u] = inbound[u]
          /\ wire' = wire /\ inHand'[t] = <<>> /\ inbound'[t] # "push"
      BY <2>0, <2>6 DEF Push, tcp
    <3>2. Own(<<>>, t)
      BY DEF Own
    <3> QED
      BY <1>2, <2>1, <3>1, <3>2, Zenon DEF OwnInv
  <2>7. ASSUME NEW t \in Tunnels, InboundTop(t) \/ ReadFails(t) \/ ReadLastFails(t) PROVE OwnInv'
    <3>1. /\ \A u \in Tunnels \ {t} : inbound'[u] = inbound[u]
          /\ wire' = wire /\ inHand' = inHand /\ inbound'[t] # "push"
      BY <2>0, <2>7, Zenon DEF InboundTop, ReadFails, ReadLastFails, tcp
    <3> QED
      BY <1>2, <2>1, <3>1, Zenon DEF OwnInv
  <2>8. ASSUME UNCHANGED <<wire, inHand, inbound>> PROVE OwnInv'
    BY <1>2, <2>8, Zenon DEF OwnInv
  <2>9. CASE \/ Produce \/ Consume \/ UNCHANGED vars
             \/ \E blk \in retrying : RetryQueued(blk) \/ RetryAbandoned(blk)
    BY <2>8, <2>9, Zenon
       DEF Produce, Consume, RetryQueued, RetryAbandoned, vars, tcp, inRelay
  <2>10. ASSUME NEW t \in Tunnels,
                \/ OutboundEnds(t) \/ NotCancelled(t) \/ TakeRetry(t) \/ NoRetry(t)
                \/ TakeNormal(t) \/ SendFails(t) \/ SenderCloses(t) \/ Break(t)
                \/ ReceiverCloses(t)
         PROVE  OwnInv'
    BY <2>8, <2>10, Zenon DEF OutboundEnds, NotCancelled, TakeRetry, NoRetry, TakeNormal,
         SendFails, SenderCloses, Break, ReceiverCloses, tcp, inRelay
  <2> QED
    BY <1>2, <2>2, <2>3, <2>4, <2>5, <2>6, <2>7, <2>9, <2>10, Zenon DEF Next
<1> QED
  BY <1>1, <1>2, RelayTypes, PTL DEF Spec

\* For any number of tunnels and sizes of queues, a ping or pong reaches the
\* peer's receive queue only from the InboundRelay of its own tunnel that ends,
\* and once.
THEOREM ControlLeaks == Spec => []ControlLeaksOnceAtTheEnd
<1> DEFINE n(t) == leaked[t] + In(recvQueue, Control(t))
           Once(t) == n(t) <= 1 /\ (n(t) = 1 => inbound[t] = "ended")
<1>0. ControlLeaksOnceAtTheEnd <=> \A t \in Tunnels : Once(t)
  BY Zenon DEF ControlLeaksOnceAtTheEnd, Control
<1>1. Init => ControlLeaksOnceAtTheEnd
  <2> SUFFICES ASSUME Init, NEW t \in Tunnels PROVE Once(t)
    BY <1>0, Zenon
  <2>1. leaked[t] = 0 /\ recvQueue = <<>>
    BY DEF Init
  <2>2. In(recvQueue, Control(t)) = 0
    BY <2>1, InEmpty, Zenon
  <2> QED
    BY ONLY <2>1, <2>2
<1>2. ASSUME TypeOK, TypeOK', HandsInv, OwnInv, ControlLeaksOnceAtTheEnd, [Next]_vars
      PROVE  ControlLeaksOnceAtTheEnd'
  <2>p. ControlLeaksOnceAtTheEnd' <=> \A t \in Tunnels : Once(t)'
    BY Zenon DEF ControlLeaksOnceAtTheEnd, Control
  <2> SUFFICES ASSUME NEW u \in Tunnels PROVE Once(u)'
    BY <2>p, Zenon
  <2>0. Once(u)
    BY <1>0, <1>2, Zenon
  <2>a. /\ recvQueue \in Seq(Blocks) /\ inHand \in [Tunnels -> Seq(Blocks)]
        /\ leaked \in [Tunnels -> Nat]
        /\ inbound \in [Tunnels -> {"top", "read", "push", "last", "pushLast", "ended"}]
    BY <1>2, Zenon DEF TypeOK
  <2>b. In(recvQueue, Control(u)) \in Nat /\ leaked[u] \in Nat
    BY <2>a, InType
  <2>1. ASSUME leaked' = leaked, recvQueue' = recvQueue, inbound[u] = "ended" => inbound'[u] = "ended"
        PROVE  Once(u)'
    <3>1. n(u)' = n(u)
      BY <2>1, Zenon
    <3> HIDE DEF n
    <3> QED
      BY <2>0, <2>1, <3>1, Zenon
  <2>2. ASSUME NEW t \in Tunnels, Push(t) PROVE Once(u)'
    <3>1. /\ recvQueue' = recvQueue \o inHand[t] /\ leaked' = leaked
          /\ inbound[t] \in {"push", "pushLast"}
          /\ inbound'[t] = (IF inbound[t] = "push" THEN "top" ELSE "ended")
          /\ u # t => inbound'[u] = inbound[u]
      BY <2>2, <2>a DEF Push
    <3>2. In(recvQueue', Control(u)) = In(recvQueue, Control(u)) + In(inHand[t], Control(u))
      BY <2>a, <3>1, InConcat, SMTT(20)
    <3>3. CASE u # t
      <4>1. In(inHand[t], Control(u)) = 0
        BY <1>2, <2>a, <3>3, InOther DEF OwnInv
      <4> QED
        BY ONLY <2>0, <2>b, <3>1, <3>2, <3>3, <4>1, SMTT(20)
    <3>4. CASE u = t
      <4>1. n(u) = 0
        BY ONLY <2>0, <2>b, <3>1, <3>4, SMTT(20)
      <4>2. CASE inbound[t] = "push"
        <5>1. In(inHand[t], Control(u)) = 0
          BY <1>2, <4>2, InData DEF OwnInv
        <5>2. leaked'[u] = leaked[u]
          BY <3>1, Zenon
        <5>3. n(u)' = 0
          BY ONLY <2>b, <3>2, <4>1, <5>1, <5>2, SMTT(20)
        <5> QED
          BY <5>3
      <4>3. CASE inbound[t] = "pushLast"
        <5>1. In(inHand[t], Control(u)) = Holds(Range(inHand[t]), Control(u))
          BY <1>2, <2>a, InHand DEF TypeOK
        <5>2. In(inHand[t], Control(u)) \in {0, 1}
          BY <5>1 DEF Holds
        <5>3. inbound'[u] = "ended"
          BY <3>1, <3>4, <4>3
        <5> QED
          BY ONLY <2>b, <3>1, <3>2, <4>1, <5>2, <5>3, SMTT(20)
      <4> QED
        BY <3>1, <4>2, <4>3, Zenon
    <3> QED
      BY <3>3, <3>4
  <2>3. ASSUME Consume PROVE Once(u)'
    <3>1. recvQueue # <<>> /\ recvQueue' = Tail(recvQueue) /\ inbound' = inbound
      BY <2>3, Zenon DEF Consume, inRelay
    <3>2. /\ In(recvQueue, Control(u)) = In(<<Head(recvQueue)>>, Control(u)) + In(recvQueue', Control(u))
          /\ In(recvQueue', Control(u)) \in Nat
      BY <2>a, <3>1, InHead
    <3>3. Head(recvQueue) \in Blocks
      BY <2>a, <3>1, TailLaws
    <3>4. In(<<Head(recvQueue)>>, Control(u)) = IF Head(recvQueue) = Control(u) THEN 1 ELSE 0
      BY <3>3, InOne
    <3>5. CASE Head(recvQueue).type = "data" /\ leaked' = leaked
      <4>1. Head(recvQueue) # Control(u)
        BY <3>5 DEF Control
      <4>2. n(u)' = n(u)
        BY <2>b, <3>2, <3>4, <3>5, <4>1
      <4> QED
        BY <2>0, <3>1, <4>2, Zenon
    <3>6. CASE Head(recvQueue).type = "control" /\ leaked' = [leaked EXCEPT ![Head(recvQueue).id] = @ + 1]
      <4>1. Head(recvQueue) = Control(u) <=> Head(recvQueue).id = u
        BY <3>3, <3>6 DEF Control, Blocks, DataBlocks, ControlBlocks
      <4>2. leaked'[u] = leaked[u] + (IF Head(recvQueue).id = u THEN 1 ELSE 0)
        BY <2>a, <3>6
      <4>3. n(u)' = n(u)
        BY ONLY <2>b, <3>2, <3>4, <4>1, <4>2
      <4> QED
        BY <2>0, <3>1, <4>3, Zenon
    <3> QED
      BY <2>3, <3>5, <3>6, Zenon DEF Consume
  <2>4. ASSUME NEW t \in Tunnels,
               InboundTop(t) \/ ReadBlock(t) \/ ReadFails(t) \/ ReadLast(t) \/ ReadLastFails(t)
        PROVE  Once(u)'
    <3>1. leaked' = leaked /\ recvQueue' = recvQueue
      BY <2>4, Zenon DEF InboundTop, ReadBlock, ReadFails, ReadLast, ReadLastFails, pool
    <3>2. inbound[u] = "ended" => inbound'[u] = "ended"
      BY <2>4, <2>a, Zenon DEF InboundTop, ReadBlock, ReadFails, ReadLast, ReadLastFails
    <3> QED
      BY <2>1, <3>1, <3>2, Zenon
  <2>5. ASSUME NEW t \in Tunnels,
               \/ OutboundEnds(t) \/ NotCancelled(t) \/ TakeRetry(t) \/ NoRetry(t)
               \/ TakeNormal(t) \/ SendOK(t) \/ SendFails(t) \/ SendControl(t) \/ SenderCloses(t)
               \/ Break(t) \/ WireLoses(t) \/ ReceiverCloses(t)
        PROVE  Once(u)'
    <3>1. UNCHANGED <<inbound, leaked, recvQueue>>
      BY <2>5, Zenon DEF OutboundEnds, NotCancelled, TakeRetry, NoRetry, TakeNormal, SendOK,
           SendFails, SendControl, SenderCloses, Break, WireLoses, ReceiverCloses, inRelay, pool
    <3> QED
      BY <2>1, <3>1, Zenon
  <2>6. CASE \/ Produce \/ UNCHANGED vars
             \/ \E blk \in retrying : RetryQueued(blk) \/ RetryAbandoned(blk)
    <3>1. UNCHANGED <<inbound, leaked, recvQueue>>
      BY <2>6, Zenon DEF Produce, RetryQueued, RetryAbandoned, vars, inRelay, pool
    <3> QED
      BY <2>1, <3>1, Zenon
  <2> QED
    BY <1>2, <2>2, <2>3, <2>4, <2>5, <2>6, Zenon DEF Next
<1> QED
  BY <1>1, <1>2, RelayTypes, OwnKept, PTL DEF Spec

-----------------------------------------------------------------------------
(* The tunnels together are a channel.                                     *)

\* A block that is still on its way has been handed over, and has neither arrived
\* nor been lost.
LEMMA OnItsWay ==
  ASSUME TypeOK, ExactlyOnePlace, NEW b \in DataBlocks,
         Holds(retrying, b) > 0 \/ On(wire, b) > 0 \/ In(recvQueue, b) > 0
  PROVE  b \in Channel!UnderWay
<1>1. Copies(b) = IF b.id < produced THEN 1 ELSE 0
  BY Zenon DEF ExactlyOnePlace
<1>2. /\ In(sendQueue, b) \in Nat /\ In(sendRetryQueue, b) \in Nat
      /\ On(outHand, b) \in Nat /\ On(wire, b) \in Nat /\ On(inHand, b) \in Nat
      /\ In(recvQueue, b) \in Nat
      /\ Holds(retrying, b) \in {0, 1} /\ Holds(received, b) \in {0, 1}
      /\ Holds(lost, b) \in {0, 1}
  BY Terms, Zenon
<1>3. Holds(received, b) # 1 /\ Holds(lost, b) # 1 /\ b.id < produced
  BY ONLY <1>1, <1>2, Holds(retrying, b) > 0 \/ On(wire, b) > 0 \/ In(recvQueue, b) > 0
     DEF Copies
<1> QED
  BY <1>3, Zenon DEF Holds, Channel!UnderWay, Handed

LEMMA ChannelStep ==
  ASSUME TypeOK, ExactlyOnePlace, [Next]_vars
  PROVE  [Channel!Next]_Channel!vars
<1>1. ASSUME Produce PROVE Channel!Send
  <2> DEFINE new == [type |-> "data", id |-> produced]
  <2>1. produced' = produced + 1 /\ produced \in Nat /\ produced < MaxBlocks
    BY <1>1, SizesAssumption DEF Produce, TypeOK
  <2>2. new \in DataBlocks /\ ~ (new.id < produced)
    BY <2>1, SizesAssumption DEF DataBlocks
  <2>3. ASSUME NEW b \in DataBlocks PROVE b.id < produced + 1 <=> b.id < produced \/ b = new
    BY <2>1, SizesAssumption DEF DataBlocks
  <2> HIDE DEF new
  <2>4. Handed' = Handed \cup {new}
    BY <2>1, <2>2, <2>3, Zenon DEF Handed
  <2>5. new \in DataBlocks \ Handed
    BY <2>2, Zenon DEF Handed
  <2>6. received' = received /\ lost' = lost
    BY <1>1, Zenon DEF Produce, pool
  <2> QED
    BY <2>4, <2>5, <2>6, Zenon DEF Channel!Send
<1>2. ASSUME Consume PROVE [Channel!Next]_Channel!vars
  <2> DEFINE b == Head(recvQueue)
  <2>1. /\ recvQueue # <<>> /\ produced' = produced /\ lost' = lost
        /\ \/ b.type = "data" /\ received' = received \cup {b}
           \/ received' = received
    BY <1>2, Zenon DEF Consume, counters
  <2>2. Handed' = Handed
    BY <2>1, Zenon DEF Handed
  <2>3. CASE received' = received
    BY <2>1, <2>2, <2>3, Zenon DEF Channel!vars
  <2>4. CASE b.type = "data" /\ received' = received \cup {b}
    <3>1. recvQueue \in Seq(Blocks)
      BY DEF TypeOK
    <3>2. b \in Blocks
      BY <2>1, <3>1, TailLaws
    <3>3. b \in DataBlocks
      BY <2>4, <3>2 DEF Blocks, ControlBlocks
    <3>4. In(recvQueue, b) = In(<<b>>, b) + In(Tail(recvQueue), b) /\ In(Tail(recvQueue), b) \in Nat
      BY <2>1, <3>1, InHead, Zenon
    <3>5. In(<<b>>, b) = 1
      BY InOne, Zenon
    <3> HIDE DEF b
    <3>6. In(recvQueue, b) > 0
      BY ONLY <3>4, <3>5
    <3>7. b \in Channel!UnderWay
      BY <3>3, <3>6, OnItsWay, Zenon
    <3> QED
      BY <2>1, <2>2, <2>4, <3>7, Zenon DEF Channel!Arrive, Channel!Next
  <2> QED
    BY <2>1, <2>3, <2>4
<1>3. ASSUME NEW t \in Tunnels, WireLoses(t) PROVE [Channel!Next]_Channel!vars
  <2> DEFINE b == Last(wire[t])
  <2>1. /\ wire[t] # <<>> /\ produced' = produced /\ received' = received
        /\ lost' = lost \cup ({b} \cap DataBlocks)
    BY <1>3, Zenon DEF WireLoses, counters, pool, Last
  <2>2. Handed' = Handed
    BY <2>1, Zenon DEF Handed
  <2>3. CASE b \notin DataBlocks
    <3>1. lost' = lost
      BY <2>1, <2>3, Zenon
    <3> QED
      BY <2>1, <2>2, <3>1, Zenon DEF Channel!vars
  <2>4. CASE b \in DataBlocks
    <3>1. wire \in [Tunnels -> Seq(Blocks)]
      BY DEF TypeOK
    <3>2. On(Put(wire, t, Front(wire[t])), b) + In(<<b>>, b) = On(wire, b)
      BY <2>1, <3>1, WireCut, Zenon
    <3>3. Front(wire[t]) \in Seq(Blocks)
      BY <2>1, <3>1 DEF Front
    <3>4. On(Put(wire, t, Front(wire[t])), b) \in Nat
      BY <3>1, <3>3, PutType, OnNat, Zenon
    <3>5. In(<<b>>, b) = 1
      BY InOne, Zenon
    <3> HIDE DEF b
    <3>6. On(wire, b) > 0
      BY ONLY <3>2, <3>4, <3>5
    <3>7. b \in Channel!UnderWay
      BY <2>4, <3>6, OnItsWay, Zenon
    <3>8. lost' = lost \cup {b}
      BY <2>1, <2>4, Zenon
    <3> QED
      BY <2>1, <2>2, <3>7, <3>8, Zenon DEF Channel!Lose, Channel!Next
  <2> QED
    BY <2>3, <2>4
<1>4. ASSUME NEW b \in retrying, RetryAbandoned(b) PROVE Channel!Lose
  <2>1. produced' = produced /\ received' = received /\ lost' = lost \cup {b}
    BY <1>4, Zenon DEF RetryAbandoned, counters, pool
  <2>2. Handed' = Handed
    BY <2>1, Zenon DEF Handed
  <2>3. b \in DataBlocks /\ Holds(retrying, b) > 0
    BY DEF TypeOK, Holds
  <2>4. b \in Channel!UnderWay
    BY <2>3, OnItsWay, Zenon
  <2> QED
    BY <2>1, <2>2, <2>4, Zenon DEF Channel!Lose
<1>5. ASSUME UNCHANGED <<produced, received, lost>> PROVE UNCHANGED Channel!vars
  <2>1. Handed' = Handed
    BY <1>5, Zenon DEF Handed
  <2> QED
    BY <1>5, <2>1, Zenon DEF Channel!vars
<1>6. ASSUME NEW t \in Tunnels,
             \/ OutboundEnds(t) \/ NotCancelled(t) \/ TakeRetry(t) \/ NoRetry(t)
             \/ TakeNormal(t) \/ SendOK(t) \/ SendFails(t)
             \/ SendControl(t) \/ SenderCloses(t) \/ Break(t)
      PROVE  UNCHANGED <<produced, received, lost>>
  BY <1>6, Zenon
     DEF OutboundEnds, NotCancelled, TakeRetry, NoRetry, TakeNormal, SendOK, SendFails,
         SendControl, SenderCloses, Break, counters, pool
<1>7. ASSUME NEW t \in Tunnels,
             \/ InboundTop(t) \/ ReadBlock(t) \/ ReadFails(t) \/ ReadLast(t)
             \/ ReadLastFails(t) \/ Push(t) \/ ReceiverCloses(t)
      PROVE  UNCHANGED <<produced, received, lost>>
  BY <1>7, Zenon
     DEF InboundTop, ReadBlock, ReadFails, ReadLast, ReadLastFails, Push, ReceiverCloses,
         counters, pool
<1>8. ASSUME NEW b \in retrying, RetryQueued(b) PROVE UNCHANGED <<produced, received, lost>>
  BY <1>8, Zenon DEF RetryQueued, counters, pool
<1>9. ASSUME UNCHANGED vars PROVE UNCHANGED <<produced, received, lost>>
  BY <1>9, Zenon DEF vars, counters, pool
<1>10. CASE Next
  BY <1>1, <1>2, <1>3, <1>4, <1>5, <1>6, <1>7, <1>8, <1>10, Zenon DEF Next, Channel!Next
<1>11. CASE UNCHANGED vars
  BY <1>5, <1>9, <1>11, Zenon
<1> QED
  BY <1>10, <1>11, Zenon

\* The tunnels of a pool, for any number of them and whichever fail, are a channel
\* that delivers each block at most once: retries after a failed packThenSend
\* never repeat a block that has arrived or been given up.
THEOREM TunnelsAreAChannel == Spec => ImplementsChannel
<1>1. Init => Channel!Init
  <2> SUFFICES ASSUME Init PROVE Handed = {}
    BY Zenon DEF Init, Channel!Init
  <2>1. \A b \in DataBlocks : ~ (b.id < produced)
    BY SizesAssumption DEF Init, DataBlocks
  <2> QED
    BY <2>1, Zenon DEF Handed
<1>2. TypeOK /\ ExactlyOnePlace /\ [Next]_vars => [Channel!Next]_Channel!vars
  BY ChannelStep, Zenon
<1> QED
  BY <1>1, <1>2, RelayTypes, OnePlace, PTL DEF Spec, ImplementsChannel, Channel!Spec
=============================================================================
