----------------------------- MODULE PoolProofs ------------------------------
(***************************************************************************)
(* The two pools of a process. For any set of IDs and any queue size, its  *)
(* connections and their count (ConnectionPool); for every size of the     *)
(* pool of tunnels, the bookkeeping of its refills (ClientManager).        *)
(***************************************************************************)
EXTENDS ConnectionPool, ClientManager, FiniteSetTheorems, SequenceTheorems, TLAPS

-----------------------------------------------------------------------------
(* The connections: ConnectionPool.                                        *)

MappedIDs == {c \in IDs : mapping[c] # None}

\* An entry leads to a connection of its ID, and a connection that has not been
\* removed, though it may be over, has its entry still.
MappingInv ==
  /\ \A c \in IDs : mapping[c] # None => mapping[c] <= made /\ idOf[mapping[c]] = c
  /\ \A i \in Conns : i <= made => removed[i] \/ mapping[idOf[i]] = i
  /\ \A i \in Conns : removed[i] => ctxDone[i] /\ i <= made

\* OrderedRelay sends a block that it has.
RelayInv == \A i \in Conns : relay[i] = "push" => recvBlockID[i] \in cache[i]

IInv == TypeOK /\ MappingInv /\ RelayInv /\ CountExact

LEMMA MappedFinite == ASSUME TypeOK PROVE IsFiniteSet(MappedIDs)
BY FS_Subset, ConstantsAssumption DEF MappedIDs

\* The pool starts empty.
LEMMA InitInv == Init => IInv
<1> SUFFICES ASSUME Init PROVE IInv
  OBVIOUS
<1>1. (CHOOSE c \in IDs : TRUE) \in IDs
  BY ConstantsAssumption
<1>2. TypeOK
  <2>1. 1 \in Conns /\ 0 \in 0..LastBlock /\ 0 \in 0..(LastBlock + 1) /\ 0 \in 0..MaxConns
    BY ConstantsAssumption DEF Conns
  <2>2. hand \in Conns \X (0..LastBlock)
    BY <2>1 DEF Init
  <2>3. <<>> \in Seq(0..LastBlock)
    OBVIOUS
  <2>4. /\ recvQueue \in [Conns -> Seq(0..LastBlock)]
        /\ orderedRecvQueue \in [Conns -> Seq(0..LastBlock)]
    BY <2>3 DEF Init
  <2>5. /\ idOf \in [Conns -> IDs] /\ mapping \in [IDs -> Conns \cup {None}]
        /\ recvBlockID \in [Conns -> 0..(LastBlock + 1)] /\ made \in 0..MaxConns
        /\ cache \in [Conns -> SUBSET (0..LastBlock)] /\ count \in Nat
    BY <1>1, <2>1 DEF Init
  <2> QED
    BY <2>2, <2>4, <2>5, Zenon DEF Init, TypeOK
<1>3. MappingInv /\ RelayInv
  BY ConstantsAssumption DEF Init, MappingInv, RelayInv, Conns, None
<1>4. MappedIDs = {}
  BY DEF Init, MappedIDs, None
<1>5. CountExact
  BY <1>4, FS_EmptySet, Zenon DEF Init, CountExact, MappedIDs
<1> QED
  BY <1>2, <1>3, <1>5 DEF IInv

\* A ping or a pong is a block with an ID and a number like any other.
LEMMA BlockType ==
  ASSUME NEW blk \in Blocks PROVE blk[1] \in IDs /\ BlockID(blk) \in 0..LastBlock
<1>1. blk[1] \in IDs /\ (blk[1] \notin ControlIDs => blk[2] \in 0..LastBlock)
  BY ConstantsAssumption, Zenon DEF Blocks
<1>2. 0 \in 0..LastBlock
  BY ConstantsAssumption
<1> QED
  BY <1>1, <1>2, Zenon DEF BlockID

\* BeginDelivery keeps the types of what it changes.
LEMMA BeginType ==
  ASSUME TypeOK, NEW blk \in Blocks, NEW i \in Conns, BeginDelivery(i, blk)
  PROVE  /\ pending' \subseteq Blocks
         /\ recvRelay' \in {"select", "deliver", "ended"}
         /\ hand' \in Conns \X (0..LastBlock)
         /\ consumer' \in [Conns -> {"none", "dialing", "on", "ended"}]
BY BlockType DEF TypeOK, BeginDelivery

LEMMA FindInv == ASSUME IInv, NEW blk \in Blocks, Find(blk) PROVE IInv'
<1>1. blk[1] \in IDs /\ mapping[blk[1]] \in Conns
  BY BlockType DEF IInv, TypeOK, Find
<1>2. TypeOK'
  BY <1>1, BeginType, Zenon DEF IInv, TypeOK, Find, mapVars, makeVars, relayVars
<1>3. MappingInv' /\ RelayInv' /\ CountExact'
  BY DEF IInv, MappingInv, RelayInv, CountExact, Find, mapVars, makeVars, relayVars
<1> QED
  BY <1>2, <1>3 DEF IInv

\* The new connection takes an entry that no connection has.
LEMMA CreateInv == ASSUME IInv, NEW blk \in Blocks, Create(blk) PROVE IInv'
<1> DEFINE n == made + 1
<1>1. blk[1] \in IDs /\ n \in Conns /\ n # None /\ made \in Nat
  BY BlockType, ConstantsAssumption DEF IInv, TypeOK, Create, Conns, None
<1>2. /\ mapping' = [mapping EXCEPT ![blk[1]] = n]
      /\ idOf' = [idOf EXCEPT ![n] = blk[1]]
      /\ made' = n /\ removed' = removed /\ count' = count + 1
      /\ mapping[blk[1]] = None
      /\ ctxDone' = [ctxDone EXCEPT ![n] = stopped]
  BY DEF Create
<1>3. TypeOK'
  <2>1. count' \in Nat /\ made' \in 0..MaxConns
    BY <1>1, <1>2, ConstantsAssumption DEF IInv, TypeOK, Conns
  <2> HIDE DEF n
  <2>2. /\ pending' \subseteq Blocks
        /\ recvRelay' \in {"select", "deliver", "ended"}
        /\ hand' \in Conns \X (0..LastBlock)
        /\ consumer' \in [Conns -> {"none", "dialing", "on", "ended"}]
    BY <1>1, BeginType DEF n, IInv, Create
  <2>3. relay' = [relay EXCEPT ![n] = "select"]
        /\ UNCHANGED <<stopped, recvQueue, orderedRecvQueue, cache, recvBlockID>>
    BY DEF n, Create
  <2> QED
    BY <1>1, <1>2, <2>1, <2>2, <2>3, Zenon DEF IInv, TypeOK
<1>4. MappingInv'
  <2>1. \A c \in IDs : mapping'[c] # None => mapping'[c] <= made' /\ idOf'[mapping'[c]] = c
    <3> SUFFICES ASSUME NEW c \in IDs, mapping'[c] # None
                 PROVE  mapping'[c] <= made' /\ idOf'[mapping'[c]] = c
      OBVIOUS
    <3>1. CASE c = blk[1]
      BY <3>1, <1>1, <1>2 DEF IInv, TypeOK
    <3>2. CASE c # blk[1]
      <4>1. mapping'[c] = mapping[c] /\ mapping[c] \in Conns /\ mapping[c] <= made
        BY <3>2, <1>1, <1>2 DEF IInv, TypeOK, MappingInv
      <4>2. mapping[c] # n /\ mapping[c] <= n
        BY <4>1, <1>1 DEF Conns
      <4> QED
        BY <4>1, <4>2, <1>1, <1>2 DEF IInv, TypeOK, MappingInv
    <3> QED
      BY <3>1, <3>2
  <2>2. \A i \in Conns : i <= made' => removed'[i] \/ mapping'[idOf'[i]] = i
    <3> SUFFICES ASSUME NEW i \in Conns, i <= n, ~removed[i]
                 PROVE  mapping'[idOf'[i]] = i
      BY <1>2
    <3>1. CASE i = n
      BY <3>1, <1>1, <1>2 DEF IInv, TypeOK
    <3>2. CASE i # n
      <4>1. i <= made /\ i # None
        BY <3>2, <1>1 DEF Conns, None
      <4>2. mapping[idOf[i]] = i /\ idOf'[i] = idOf[i] /\ idOf[i] \in IDs
        BY <4>1, <3>2, <1>1, <1>2 DEF IInv, TypeOK, MappingInv
      <4> QED
        BY <4>1, <4>2, <1>1, <1>2 DEF IInv, TypeOK
    <3> QED
      BY <3>1, <3>2
  <2>3. \A i \in Conns : removed'[i] => ctxDone'[i] /\ i <= made'
    <3> SUFFICES ASSUME NEW i \in Conns, removed[i] PROVE ctxDone'[i] /\ i <= n
      BY <1>2
    <3>1. ctxDone[i] /\ i <= made
      BY DEF IInv, MappingInv
    <3>2. i # n /\ i <= n
      BY <3>1, <1>1 DEF Conns
    <3> QED
      BY <3>1, <3>2, <1>1, <1>2 DEF IInv, TypeOK
  <2> QED
    BY <2>1, <2>2, <2>3 DEF MappingInv
<1>5. RelayInv'
  BY <1>1 DEF IInv, TypeOK, RelayInv, Create
<1>6. CountExact'
  <2>1. MappedIDs' = MappedIDs \cup {blk[1]} /\ blk[1] \notin MappedIDs
    BY <1>1, <1>2 DEF IInv, TypeOK, MappedIDs
  <2>2. Cardinality(MappedIDs') = Cardinality(MappedIDs) + 1
    BY <2>1, MappedFinite, FS_AddElement, Zenon DEF IInv
  <2> QED
    BY <2>2, <1>2 DEF IInv, CountExact, MappedIDs
<1> QED
  BY <1>3, <1>4, <1>5, <1>6 DEF IInv

LEMMA DeliverInv == ASSUME IInv, Deliver PROVE IInv'
<1>1. hand[1] \in Conns /\ hand[2] \in 0..LastBlock
  BY DEF IInv, TypeOK
<1>2. Append(recvQueue[hand[1]], hand[2]) \in Seq(0..LastBlock)
  BY <1>1 DEF IInv, TypeOK
<1>3. TypeOK'
  BY <1>1, <1>2 DEF IInv, TypeOK, Deliver, mapVars, makeVars, relayVars
<1>4. MappingInv' /\ RelayInv' /\ CountExact'
  BY DEF IInv, MappingInv, RelayInv, CountExact, Deliver, mapVars, makeVars, relayVars
<1> QED
  BY <1>3, <1>4 DEF IInv

LEMMA StopInv == ASSUME IInv, RecvRelayEnds \/ Stop PROVE IInv'
<1>1. TypeOK'
  BY Zenon DEF IInv, TypeOK, RecvRelayEnds, Stop, poolVars, mapVars, makeVars, relayVars
<1>2. RelayInv' /\ CountExact'
  BY DEF IInv, RelayInv, CountExact, RecvRelayEnds, Stop, mapVars, relayVars
<1>3. MappingInv'
  BY DEF IInv, TypeOK, MappingInv, RecvRelayEnds, Stop, mapVars, makeVars
<1> QED
  BY <1>1, <1>2, <1>3 DEF IInv

\* The entry that removeConnection deletes is the connection's own.
LEMMA RemoveInv == ASSUME IInv, NEW i \in Conns, RemoveConnection(i) PROVE IInv'
<1>1. /\ i \in Nat /\ i # None /\ idOf[i] \in IDs /\ mapping[idOf[i]] = i
      /\ i <= made /\ ctxDone[i]
  BY DEF IInv, TypeOK, MappingInv, RemoveConnection, Conns, None
<1>2. /\ mapping' = [mapping EXCEPT ![idOf[i]] = None]
      /\ removed' = [removed EXCEPT ![i] = TRUE]
      /\ count' = count - 1
      /\ UNCHANGED <<made, idOf, ctxDone, stopped, recvQueue, orderedRecvQueue, relay,
                     cache, recvBlockID, consumer, pending, recvRelay, hand>>
  BY <1>1 DEF RemoveConnection, poolVars, makeVars, relayVars
<1>3. MappedIDs' = MappedIDs \ {idOf[i]} /\ idOf[i] \in MappedIDs
  BY <1>1, <1>2 DEF IInv, TypeOK, MappedIDs
<1>4. CountExact' /\ count' \in Nat
  <2>1. Cardinality(MappedIDs') = Cardinality(MappedIDs) - 1 /\ IsFiniteSet(MappedIDs')
    BY <1>3, MappedFinite, FS_RemoveElement DEF IInv
  <2>2. Cardinality(MappedIDs') \in Nat
    BY <2>1, FS_CardinalityType
  <2> QED
    BY <1>2, <2>1, <2>2, Zenon DEF IInv, CountExact, MappedIDs
<1>5. TypeOK'
  BY <1>1, <1>2, <1>4, Zenon DEF IInv, TypeOK
<1>6. MappingInv'
  <2>1. \A c \in IDs : mapping'[c] # None => mapping'[c] = mapping[c] /\ c # idOf[i]
    BY <1>1, <1>2 DEF IInv, TypeOK
  <2>2. \A j \in Conns : j <= made /\ ~removed'[j] => mapping'[idOf[j]] = j
    <3> SUFFICES ASSUME NEW j \in Conns, j <= made, ~removed'[j]
                 PROVE  mapping'[idOf[j]] = j
      OBVIOUS
    <3>1. j # i /\ ~removed[j]
      BY <1>2 DEF IInv, TypeOK
    <3>2. mapping[idOf[j]] = j /\ idOf[j] \in IDs
      BY <3>1 DEF IInv, TypeOK, MappingInv
    <3> QED
      BY <1>1, <1>2, <3>1, <3>2 DEF IInv, TypeOK
  <2>3. \A j \in Conns : removed'[j] => ctxDone'[j] /\ j <= made'
    BY <1>1, <1>2 DEF IInv, TypeOK, MappingInv
  <2> QED
    BY <1>2, <2>1, <2>2, <2>3 DEF IInv, MappingInv
<1>7. RelayInv'
  BY <1>2 DEF IInv, RelayInv
<1> QED
  BY <1>4, <1>5, <1>6, <1>7 DEF IInv

LEMMA RelayAfterInv ==
  ASSUME IInv, NEW i \in Conns, NEW next \in Nat, NEW blocks \in SUBSET (0..LastBlock),
         RelayAfter(i, next, blocks), recvBlockID' \in [Conns -> 0..(LastBlock + 1)],
         recvBlockID'[i] = next,
         \A j \in Conns : j # i => recvBlockID'[j] = recvBlockID[j]
  PROVE  /\ cache' \in [Conns -> SUBSET (0..LastBlock)]
         /\ relay' \in [Conns -> {"off", "select", "push", "ended"}]
         /\ RelayInv'
BY Zenon DEF IInv, TypeOK, RelayInv, RelayAfter

LEMMA RelayStepInv ==
  ASSUME IInv, NEW i \in Conns,
         RelayTake(i) \/ RelayPush(i) \/ RelayTimeout(i) \/ RelayEnds(i)
  PROVE  IInv'
<1>0. UNCHANGED <<poolVars, mapVars, makeVars, stopped, consumer>>
  BY Zenon DEF RelayTake, RelayPush, RelayTimeout, RelayEnds
<1>1. CASE RelayTake(i)
  <2>1. Head(recvQueue[i]) \in 0..LastBlock /\ Tail(recvQueue[i]) \in Seq(0..LastBlock)
    <3>1. recvQueue[i] \in Seq(0..LastBlock) /\ recvQueue[i] # <<>>
      BY <1>1 DEF IInv, TypeOK, RelayTake
    <3> QED
      BY <3>1, HeadTailProperties, Zenon
  <2>2. /\ Cached(i) \in SUBSET (0..LastBlock)
        /\ recvBlockID[i] \in Nat
    <3>1. /\ cache \in [Conns -> SUBSET (0..LastBlock)] /\ LastBlock \in Nat /\ i \in Conns
          /\ recvBlockID \in [Conns -> 0..(LastBlock + 1)]
      BY ConstantsAssumption, Zenon DEF IInv, TypeOK
    <3> QED
      BY ONLY <2>1, <3>1 DEF Cached
  <2>3. /\ cache' \in [Conns -> SUBSET (0..LastBlock)]
        /\ relay' \in [Conns -> {"off", "select", "push", "ended"}]
        /\ RelayInv'
    BY <1>1, <2>2, RelayAfterInv, Zenon DEF IInv, TypeOK, RelayTake
  <2>4. TypeOK'
    BY <1>0, <1>1, <2>1, <2>3, Zenon
       DEF IInv, TypeOK, RelayTake, poolVars, mapVars, makeVars
  <2>5. MappingInv' /\ CountExact'
    <3>1. UNCHANGED <<mapping, count, removed, made, idOf, ctxDone>>
      BY <1>0, <1>1, Zenon DEF RelayTake, mapVars, makeVars
    <3>2. MappingInv /\ CountExact
      BY Zenon DEF IInv
    <3> QED
      BY ONLY <3>1, <3>2 DEF MappingInv, CountExact
  <2> QED
    BY <2>3, <2>4, <2>5 DEF IInv
<1>2. CASE RelayPush(i)
  <2>1. recvBlockID[i] \in 0..LastBlock /\ recvBlockID[i] + 1 \in 0..(LastBlock + 1)
    BY <1>2, ConstantsAssumption, SMTT(20) DEF IInv, TypeOK, RelayInv, RelayPush
  <2>2. /\ Append(orderedRecvQueue[i], recvBlockID[i]) \in Seq(0..LastBlock)
        /\ cache[i] \ {recvBlockID[i]} \in SUBSET (0..LastBlock)
        /\ recvBlockID[i] + 1 \in Nat
    BY <2>1, ConstantsAssumption DEF IInv, TypeOK
  <2>3. recvBlockID' = [recvBlockID EXCEPT ![i] = recvBlockID[i] + 1]
    BY <1>2 DEF RelayPush
  <2>4. /\ recvBlockID' \in [Conns -> 0..(LastBlock + 1)]
        /\ recvBlockID'[i] = recvBlockID[i] + 1
        /\ \A j \in Conns : j # i => recvBlockID'[j] = recvBlockID[j]
    BY <2>1, <2>3 DEF IInv, TypeOK
  <2>5. /\ cache' \in [Conns -> SUBSET (0..LastBlock)]
        /\ relay' \in [Conns -> {"off", "select", "push", "ended"}]
        /\ RelayInv'
    BY <1>2, <2>2, <2>4, RelayAfterInv, Zenon DEF RelayPush
  <2>6. TypeOK'
    <3>1. TypeOK /\ i \in Conns
      BY Zenon DEF IInv
    <3>2. orderedRecvQueue' \in [Conns -> Seq(0..LastBlock)]
      <4>1. /\ orderedRecvQueue' =
                  [orderedRecvQueue EXCEPT ![i] = Append(orderedRecvQueue[i], recvBlockID[i])]
            /\ orderedRecvQueue \in [Conns -> Seq(0..LastBlock)]
        BY <1>2, <3>1, Zenon DEF RelayPush, TypeOK
      <4> QED
        BY ONLY <2>2, <3>1, <4>1, Zenon
    <3>3. UNCHANGED <<pending, recvRelay, hand, mapping, count, removed, made, idOf, stopped,
                      ctxDone, recvQueue, consumer>>
      BY <1>0, <1>2, Zenon DEF RelayPush, poolVars, mapVars, makeVars
    <3> QED
      BY ONLY <2>4, <2>5, <3>1, <3>2, <3>3, Zenon DEF TypeOK
  <2>7. MappingInv' /\ CountExact'
    <3>1. UNCHANGED <<mapping, count, removed, made, idOf, ctxDone>>
      BY <1>0, <1>2, Zenon DEF RelayPush, mapVars, makeVars
    <3>2. MappingInv /\ CountExact
      BY Zenon DEF IInv
    <3> QED
      BY ONLY <3>1, <3>2 DEF MappingInv, CountExact
  <2> QED
    BY <2>5, <2>6, <2>7 DEF IInv
<1>3. CASE RelayTimeout(i) \/ RelayEnds(i)
  <2>1. TypeOK'
    BY <1>0, <1>3, Zenon
       DEF IInv, TypeOK, RelayTimeout, RelayEnds, poolVars, mapVars, makeVars, relayVars
  <2>2. \A j \in Conns : ctxDone[j] => ctxDone'[j]
    BY <1>3 DEF IInv, TypeOK, RelayTimeout, RelayEnds
  <2>4. MappingInv' /\ CountExact'
    BY <1>0, <2>2, Zenon DEF IInv, MappingInv, CountExact, mapVars, makeVars
  <2>3. RelayInv'
    BY <1>3 DEF IInv, TypeOK, RelayInv, RelayTimeout, RelayEnds, relayVars
  <2> QED
    BY <2>1, <2>3, <2>4 DEF IInv
<1> QED
  BY <1>1, <1>2, <1>3

LEMMA ConsumerInv ==
  ASSUME IInv, NEW i \in Conns,
         DialEnds(i) \/ Consume(i) \/ TargetEnds(i) \/ ConsumerEnds(i)
  PROVE  IInv'
<1>1. UNCHANGED <<poolVars, mapVars, makeVars, stopped, recvQueue, relayVars>>
  BY DEF DialEnds, Consume, TargetEnds, ConsumerEnds
<1>2. /\ ctxDone' \in [Conns -> BOOLEAN]
      /\ \A j \in Conns : ctxDone[j] => ctxDone'[j]
      /\ consumer' \in [Conns -> {"none", "dialing", "on", "ended"}]
  BY Zenon DEF IInv, TypeOK, DialEnds, Consume, TargetEnds, ConsumerEnds
<1>3. orderedRecvQueue' \in [Conns -> Seq(0..LastBlock)]
  <2>1. CASE Consume(i)
    <3>1. orderedRecvQueue[i] \in Seq(0..LastBlock) /\ orderedRecvQueue[i] # <<>>
      BY <2>1 DEF IInv, TypeOK, Consume
    <3>2. Tail(orderedRecvQueue[i]) \in Seq(0..LastBlock)
      BY <3>1, HeadTailProperties, Zenon
    <3> QED
      BY <2>1, <3>2 DEF IInv, TypeOK, Consume
  <2>2. CASE DialEnds(i) \/ TargetEnds(i) \/ ConsumerEnds(i)
    BY <2>2 DEF IInv, TypeOK, DialEnds, TargetEnds, ConsumerEnds
  <2> QED
    BY <2>1, <2>2
<1>4. TypeOK'
  BY <1>1, <1>2, <1>3 DEF IInv, TypeOK, poolVars, mapVars, makeVars, relayVars
<1>5. MappingInv' /\ RelayInv' /\ CountExact'
  BY <1>1, <1>2 DEF IInv, MappingInv, RelayInv, CountExact, mapVars, makeVars, relayVars
<1> QED
  BY <1>4, <1>5 DEF IInv

LEMMA StepInv == IInv /\ [Next]_vars => IInv'
<1> SUFFICES ASSUME IInv, [Next]_vars PROVE IInv'
  OBVIOUS
<1>1. CASE \E blk \in Blocks : Find(blk) \/ Create(blk)
  BY <1>1, FindInv, CreateInv
<1>2. CASE Deliver \/ RecvRelayEnds \/ Stop
  BY <1>2, DeliverInv, StopInv
<1>3. CASE \E i \in Conns : RemoveConnection(i) \/ ConnStep(i)
  BY <1>3, RemoveInv, RelayStepInv, ConsumerInv, Zenon DEF ConnStep
<1>4. CASE UNCHANGED vars
  BY <1>4 DEF IInv, TypeOK, MappingInv, RelayInv, CountExact, vars, poolVars, mapVars,
              makeVars, relayVars
<1> QED
  BY <1>1, <1>2, <1>3, <1>4 DEF Next

\* The inductive invariant holds in every reachable state.
THEOREM Invariance == Spec => []IInv
BY InitInv, StepInv, PTL DEF Spec

\* Type correctness; in particular the connection count is never negative.
THEOREM TypeCorrect == Spec => []TypeOK
<1>1. IInv => TypeOK
  BY DEF IInv
<1> QED
  BY <1>1, Invariance, PTL

\* A connection whose context is not done owns the entry of its ID: recvRelay
\* never creates a second connection beside it, and removeConnection, which
\* deletes by ID, never deletes it.
THEOREM LiveConnectionsMapped == Spec => []LiveIsMapped
<1>1. IInv => LiveIsMapped
  <2> SUFFICES ASSUME IInv, NEW i \in 1..made, ~ctxDone[i] PROVE mapping[idOf[i]] = i
    BY DEF LiveIsMapped
  <2>1. made \in Nat /\ made <= MaxConns /\ MaxConns \in Nat
    BY ConstantsAssumption DEF IInv, TypeOK
  <2>2. i \in Conns /\ i <= made
    BY <2>1 DEF Conns
  <2> QED
    BY <2>2 DEF IInv, MappingInv
<1> QED
  BY <1>1, Invariance, PTL

\* The connection count that stats report is the size of connectionMapping.
THEOREM CountCorrect == Spec => []CountExact
<1>1. IInv => CountExact
  BY DEF IInv
<1> QED
  BY <1>1, Invariance, PTL

-----------------------------------------------------------------------------
(* The pool: ClientManager.                                                *)

\* What the running DecreaseNotify still has to create fits in the pool, and
\* if no other run is waiting it fills the pool exactly: a tunnel removed
\* after the count always leaves a run waiting.
Accounting ==
  /\ notify = "idle" => toCreate = 0
  /\ notify \in {"dial", "handshake"} => toCreate > 0
  /\ Size + toCreate <= TunnelNum
  /\ notify # "idle" /\ waiting = 0 => Size + toCreate = TunnelNum
  /\ notify = "idle" /\ waiting = 0 => Size = TunnelNum \/ poolDone

\* The inductive invariant.
ManagerInv == ManagerTypeOK /\ Accounting /\ EndpointsPermuted

-----------------------------------------------------------------------------
(* Every step keeps the account.                                           *)

\* Exchanging two places of a sequence.
LEMMA SwapSeq ==
  ASSUME NEW S, NEW s \in Seq(S), NEW i \in 1 .. Len(s), NEW j \in 1 .. Len(s)
  PROVE  /\ Swap(s, i, j) \in Seq(S) /\ Len(Swap(s, i, j)) = Len(s)
         /\ \A k \in 1 .. Len(s) :
              Swap(s, i, j)[k] = IF k = j THEN s[i] ELSE IF k = i THEN s[j] ELSE s[k]
<1>1. DOMAIN s = 1 .. Len(s) /\ s[i] \in S /\ s[j] \in S /\ Len(s) \in Nat
  BY LenProperties, ElementOfSeq
<1>2. /\ Swap(s, i, j) \in [1 .. Len(s) -> S]
      /\ \A k \in 1 .. Len(s) :
           Swap(s, i, j)[k] = IF k = j THEN s[i] ELSE IF k = i THEN s[j] ELSE s[k]
  BY <1>1, LenProperties DEF Swap
<1>. QED  BY <1>1, <1>2, SMT

\* Exchanging two places of a permuted list gives a permuted list.
LEMMA SwapPermuted ==
  ASSUME ManagerTypeOK, EndpointsPermuted, NEW i \in 1 .. Len(endpoints),
         NEW j \in 1 .. Len(endpoints), endpoints' = Swap(endpoints, i, j)
  PROVE  EndpointsPermuted'
<1>. DEFINE D == DOMAIN Endpoints
<1>1. D = 1 .. Len(endpoints) /\ i \in D /\ j \in D
  BY ManagerAssumption, LenProperties DEF ManagerTypeOK
<1>2. PICK p \in Bijection(D, D) : endpoints = [k \in D |-> Endpoints[p[k]]]
  BY DEF EndpointsPermuted
<1>3. p \in [D -> D] /\ (\A a, b \in D : p[a] = p[b] => a = b)
      /\ \A b \in D : \E a \in D : p[a] = b
  BY <1>2 DEF Bijection, Injection, Surjection, IsInjective
<1>. DEFINE q == [k \in D |-> IF k = j THEN p[i] ELSE IF k = i THEN p[j] ELSE p[k]]
<1>4. q \in [D -> D] /\ \A a, b \in D : q[a] = q[b] => a = b
  BY <1>1, <1>3, Zenon
<1>5. ASSUME NEW b \in D PROVE \E a \in D : q[a] = b
  <2>1. PICK a \in D : p[a] = b
    BY <1>3
  <2>2. CASE a = i
    BY <1>1, <2>1, <2>2
  <2>3. CASE a = j
    BY <1>1, <2>1, <2>3
  <2>4. CASE a # i /\ a # j
    BY <2>1, <2>4
  <2>. QED  BY <2>2, <2>3, <2>4
<1>6. q \in Bijection(D, D)
  BY <1>4, <1>5, Zenon DEF Bijection, Injection, Surjection, IsInjective
<1>7. Swap(endpoints, i, j) = [k \in D |-> Endpoints[q[k]]]
  BY <1>1, <1>2, Zenon DEF Swap
<1>. QED  BY <1>6, <1>7, Zenon DEF EndpointsPermuted

\* A pool that starts lacks all its tunnels, and one run is on its way to
\* create them.
LEMMA ManagerStarts == ManagerInit => ManagerInv
<1>. SUFFICES ASSUME ManagerInit PROVE ManagerInv
  OBVIOUS
<1>. USE ManagerAssumption
<1>1. ManagerTypeOK
  <2>1. endpoints \in Seq(STRING) /\ Len(endpoints) = Len(Endpoints) /\ poolDone \in BOOLEAN
    BY Zenon DEF ManagerInit
  <2>. QED  BY <2>1, SMT DEF ManagerInit, ManagerTypeOK
<1>2. Accounting
  BY SMT DEF ManagerInit, Accounting, Size
<1>3. EndpointsPermuted
  <2>. DEFINE D == DOMAIN Endpoints
              id == [i \in D |-> i]
  <2>1. id \in Bijection(D, D)
    BY DEF Bijection, Injection, Surjection, IsInjective
  <2>2. Endpoints = [i \in D |-> Endpoints[i]]
    BY LenProperties
  <2>3. endpoints = [i \in D |-> Endpoints[id[i]]]
    BY <2>2 DEF ManagerInit
  <2>. QED  BY <2>1, <2>3 DEF EndpointsPermuted
<1>. QED  BY <1>1, <1>2, <1>3 DEF ManagerInv

\* A failed dial is the only step that reorders the addresses.
LEMMA DialFailsKeeps == ASSUME ManagerInv, DialFails PROVE ManagerInv'
<1>. USE ManagerAssumption
<1>1. Len(endpoints) \in Nat \ {0} /\ endpoints \in Seq(STRING) /\ toCreate \in Nat
  BY EmptySeq, SMT DEF ManagerInv, ManagerTypeOK
<1>2. CurIndex \in 1 .. Len(endpoints)
  <2>1. toCreate - 1 \in Int /\ (toCreate - 1) % Len(endpoints) \in 0 .. Len(endpoints) - 1
    BY <1>1, SMT
  <2>. QED  BY <1>1, <2>1, SMT DEF CurIndex
<1>3. \/ endpoints' = endpoints
      \/ \E j \in 1 .. Len(endpoints) : endpoints' = Swap(endpoints, CurIndex, j)
  BY <1>1, <1>2, SMT DEF DialFails, MoveFailed, Neighbour
<1>4. endpoints' \in Seq(STRING) /\ Len(endpoints') = Len(endpoints)
  BY <1>1, <1>2, <1>3, SwapSeq
<1>5. /\ notify = "dial" /\ notify' = "loop" /\ lastfailed' = endpoints[CurIndex]
      /\ errors' \in {errors, errors + 1} /\ (errors' = errors \/ errors < MaxErrors)
      /\ UNCHANGED <<live, dying, waiting, toCreate, poolDone, deaths>>
  BY DEF DialFails, tunnelMapping
<1>6. ManagerTypeOK'
  BY <1>1, <1>2, <1>4, <1>5, ElementOfSeq, SMT DEF ManagerInv, ManagerTypeOK
<1>7. Accounting'
  BY <1>5, SMT DEF ManagerInv, ManagerTypeOK, Accounting, Size
<1>8. EndpointsPermuted'
  BY <1>2, <1>3, SwapPermuted DEF ManagerInv, EndpointsPermuted
<1>. QED  BY <1>6, <1>7, <1>8 DEF ManagerInv

\* The other steps move a tunnel from what is to be created to the pool, or out
\* of the pool with a run that is to replace it.
LEMMA OtherStepsKeep == ASSUME ManagerInv, [ManagerNext]_managerVars, ~DialFails PROVE ManagerInv'
<1>. USE ManagerAssumption
<1>1. UNCHANGED endpoints
  BY Zenon DEF ManagerNext, Start, Return, BeginDial, DialOK, HandshakeFails, AddTunnel,
         TunnelDies, RemoveTunnel, Cancel, managerVars, manager
<1>2. EndpointsPermuted'
  BY <1>1 DEF ManagerInv, EndpointsPermuted
<1>3. ManagerTypeOK' /\ Accounting'
  <2>. USE DEF ManagerInv, ManagerTypeOK, Accounting, Size, tunnelMapping, bounds
  <2>1. CASE Start
    BY <2>1, SMT DEF Start
  <2>2. CASE Return
    BY <2>2, SMT DEF Return
  <2>3. CASE BeginDial
    BY <2>3, SMT DEF BeginDial
  <2>4. CASE DialOK
    BY <2>4, SMT DEF DialOK
  <2>5. CASE HandshakeFails
    BY <2>5, SMT DEF HandshakeFails
  <2>6. CASE AddTunnel
    BY <2>6, SMT DEF AddTunnel
  <2>7. CASE TunnelDies
    <3>1. /\ live > 0 /\ deaths < MaxDeaths /\ live' = live - 1 /\ dying' = dying + 1
          /\ deaths' = deaths + 1
          /\ UNCHANGED <<waiting, notify, toCreate, lastfailed, endpoints, poolDone, errors>>
      BY ONLY <2>7, Zenon DEF TunnelDies, manager
    <3>2. ManagerTypeOK /\ Accounting
      BY ONLY ManagerInv, Zenon DEF ManagerInv
    <3>3. /\ live' \in Nat /\ dying' \in Nat /\ deaths' \in 0 .. MaxDeaths
          /\ live' + dying' = live + dying
      BY ONLY ManagerAssumption, <3>1, <3>2, SMT DEF ManagerTypeOK
    <3>4. ManagerTypeOK'
      BY ONLY <3>1, <3>2, <3>3, Zenon DEF ManagerTypeOK
    <3>5. Accounting'
      BY ONLY <3>1, <3>2, <3>3, Zenon DEF Accounting, Size
    <3>. QED  BY <3>4, <3>5, Zenon
  <2>8. CASE RemoveTunnel
    BY <2>8, SMT DEF RemoveTunnel, manager
  <2>9. CASE Cancel
    BY <2>9, SMT DEF Cancel, manager
  <2>10. CASE UNCHANGED managerVars
    BY <2>10, SMT DEF managerVars, manager
  <2>. QED  BY <2>1, <2>2, <2>3, <2>4, <2>5, <2>6, <2>7, <2>8, <2>9, <2>10, Zenon DEF ManagerNext
<1>. QED  BY <1>2, <1>3 DEF ManagerInv

-----------------------------------------------------------------------------
(* The theorems about the pool.                                            *)

\* The manager's bookkeeping is consistent in every reachable state.
THEOREM ManagerInvariance == ManagerSpec => []ManagerInv
<1>1. ManagerInit => ManagerInv
  BY ManagerStarts
<1>2. ManagerInv /\ [ManagerNext]_managerVars => ManagerInv'
  BY DialFailsKeeps, OtherStepsKeep
<1>. QED  BY <1>1, <1>2, PTL DEF ManagerSpec

\* The counters stay natural numbers: no run counts below zero.
THEOREM ManagerTypes == ManagerSpec => []ManagerTypeOK
<1>1. ManagerInv => ManagerTypeOK
  BY DEF ManagerInv
<1>. QED  BY <1>1, ManagerInvariance, PTL

\* Overlapping DecreaseNotify runs never put more than TunnelNum tunnels in
\* the pool.
THEOREM PoolBounded == ManagerSpec => []NeverTooMany
<1>1. ManagerInv => NeverTooMany
  <2>1. ManagerInv => /\ live \in Nat /\ dying \in Nat /\ toCreate \in Nat
                /\ (live + dying) + toCreate <= TunnelNum
    BY DEF ManagerInv, ManagerTypeOK, Accounting, Size
  <2>2. ManagerInv => live + dying <= TunnelNum
    BY <2>1, ManagerAssumption, SMT
  <2>. QED  BY <2>2 DEF NeverTooMany, Size
<1>. QED  BY <1>1, ManagerInvariance, PTL

\* A pool that lacks tunnels has a DecreaseNotify to fill it, or is cancelled.
THEOREM NoDeathForgotten == ManagerSpec => []RefillPending
<1>1. ManagerInv => RefillPending
  BY SMT DEF ManagerInv, ManagerTypeOK, Accounting, RefillPending, Size
<1>. QED  BY <1>1, ManagerInvariance, PTL

\* The failure handling only permutes the configured addresses.
THEOREM AddressesKept == ManagerSpec => []EndpointsPermuted
<1>1. ManagerInv => EndpointsPermuted
  BY DEF ManagerInv
<1>. QED  BY <1>1, ManagerInvariance, PTL

=============================================================================
