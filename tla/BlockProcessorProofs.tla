------------------------ MODULE BlockProcessorProofs ------------------------
(***************************************************************************)
(* What OrderedRelay guarantees for every queue capacity and every number  *)
(* of blocks that does not exhaust the uint32 block IDs.                   *)
(***************************************************************************)
EXTENDS BlockProcessor, SequenceTheorems, TLAPS

\* The connection sends fewer blocks than there are block IDs.
NoWrap == MaxBlocks < IDSpace

\* A block as the sender packed it; without a wrap its ID is its number.
Genuine(blk) == blk.Data \in 0 .. sendBlockID - 1 /\ blk.BlockID = blk.Data

\* Every block anywhere is one that was packed.
AllGenuine ==
  /\ \A blk \in net \cup lost : Genuine(blk)
  /\ \A i \in DOMAIN recvQueue : Genuine(recvQueue[i])
  /\ \A i \in DOMAIN direct : Genuine(direct[i])
  /\ \A i \in DOMAIN cache : Genuine(cache[i]) /\ cache[i].BlockID = i
  /\ \A i \in DOMAIN out : Genuine(out[i])

\* recvBlockID counts what was forwarded; the block being sent directly is the
\* next one, and the cache holds only later ones.
Cursor ==
  /\ recvBlockID = Len(out)
  /\ relay = "direct" => Len(direct) = 1 /\ direct[1].BlockID = recvBlockID
  /\ relay # "direct" => direct = <<>>
  /\ \A i \in DOMAIN cache : i >= recvBlockID
  /\ relay # "drain" => recvBlockID \notin DOMAIN cache

\* lastRecvBlockID is one past the last block that was forwarded, is being
\* forwarded or is cached, whichever is highest.
Highest ==
  /\ \A i \in DOMAIN cache : i < lastRecvBlockID
  /\ recvBlockID <= lastRecvBlockID
  /\ relay = "direct" => recvBlockID < lastRecvBlockID
  /\ \/ relay # "direct" /\ lastRecvBlockID = recvBlockID
     \/ relay = "direct" /\ lastRecvBlockID = recvBlockID + 1
     \/ lastRecvBlockID - 1 \in DOMAIN cache

\* The inductive invariant.
IInv == TypeOK /\ AllGenuine /\ Cursor /\ Highest /\ InOrder /\ NothingDiscarded

-----------------------------------------------------------------------------
(* Arithmetic and queues.                                                  *)

\* uint32 arithmetic below the wrap is ordinary arithmetic.
LEMMA SmallMod == ASSUME NEW m \in Nat \ {0}, NEW n \in 0 .. m - 1
                  PROVE  n % m = n
  BY SMT

LEMMA QueueLength ==
  ASSUME TypeOK PROVE Len(OrderedRecvQueue) = Len(out) - taken
<1>1. \A i \in taken + 1 .. Len(out) : out[i] \in Blocks
  BY DEF TypeOK
<1>. QED  BY <1>1, SubSeqProperties, SMT DEF OrderedRecvQueue, TypeOK

-----------------------------------------------------------------------------
(* The inductive invariant.                                                *)

LEMMA InitInvariant == ASSUME NoWrap PROVE Init => IInv
<1>. SUFFICES ASSUME Init PROVE IInv
  OBVIOUS
<1>. USE ConstantsAssumption
<1>1. /\ DOMAIN cache = {} /\ cache \in [DOMAIN cache -> Blocks]
      /\ recvQueue \in Seq(Blocks) /\ Len(recvQueue) = 0 /\ DOMAIN recvQueue = {}
      /\ direct \in Seq(Blocks) /\ Len(direct) = 0 /\ DOMAIN direct = {}
      /\ out \in Seq(Blocks) /\ Len(out) = 0 /\ DOMAIN out = {}
  BY DEF Init
<1>2. /\ sendBlockID = 0 /\ net = {} /\ lost = {} /\ taken = 0
      /\ recvBlockID = 0 /\ lastRecvBlockID = 0 /\ relay = "select"
      /\ direct = <<>> /\ cancelled \in BOOLEAN
  BY Zenon DEF Init
<1>3. TypeOK
  BY <1>1, <1>2, SMT DEF TypeOK, BlockIDs
<1>4. AllGenuine /\ InOrder
  BY <1>1, <1>2 DEF AllGenuine, InOrder
<1>5. NothingDiscarded
  BY <1>2, SMT DEF NothingDiscarded
<1>6. Cursor /\ Highest
  BY <1>1, <1>2, SMT DEF Cursor, Highest
<1>. QED  BY <1>3, <1>4, <1>5, <1>6 DEF IInv

\* The blocks a Pack or a tunnel step moves stay genuine, and none is lost
\* sight of; the receiver's state does not change.
LEMMA PackInvariant == ASSUME NoWrap, IInv, Pack PROVE IInv'
<1>. USE ConstantsAssumption DEF NoWrap
<1>1. sendBlockID \in 0 .. IDSpace - 1
  <2>1. sendBlockID \in 0 .. MaxBlocks /\ sendBlockID < MaxBlocks
    BY Zenon DEF IInv, TypeOK, Pack
  <2>2. MaxBlocks \in Nat /\ IDSpace \in Nat /\ MaxBlocks < IDSpace
    BY DEF ConstantsAssumption
  <2>. QED  BY ONLY <2>1, <2>2, SMT
<1>2. sendBlockID % IDSpace = sendBlockID
  BY <1>1, SmallMod
<1>. PICK blk : blk = NewBlock(sendBlockID)
  OBVIOUS
<1>3. blk \in Blocks /\ blk.BlockID = sendBlockID /\ blk.Data = sendBlockID
  BY <1>1, <1>2, SMT DEF NewBlock, Blocks, BlockIDs
<1>4. /\ sendBlockID' = sendBlockID + 1 /\ sendBlockID < MaxBlocks
      /\ net' = net \cup {blk}
      /\ UNCHANGED <<lost, recvQueue, direct, cache, recvBlockID,
                     lastRecvBlockID, relay, out, taken, cancelled>>
  BY DEF Pack, processor
<1>5. TypeOK'
  <2>1. TypeOK
    BY Zenon DEF IInv
  <2>2. sendBlockID' \in 0 .. MaxBlocks /\ net' \subseteq Blocks
    <3>1. sendBlockID \in 0 .. MaxBlocks /\ net \subseteq Blocks /\ MaxBlocks \in Nat
      BY ONLY ConstantsAssumption, <2>1, Zenon DEF TypeOK, ConstantsAssumption
    <3>. QED  BY ONLY <1>3, <1>4, <3>1, SMT
  <2>. QED  BY ONLY <1>4, <2>1, <2>2, Zenon DEF TypeOK
<1>6. AllGenuine'
  <2>1. ASSUME NEW b, Genuine(b) PROVE Genuine(b)'
    BY <1>1, <1>4, <2>1, SMT DEF Genuine
  <2>2. Genuine(blk)'
    BY <1>1, <1>3, <1>4, SMT DEF Genuine
  <2>. QED  BY <1>4, <2>1, <2>2, SMT DEF IInv, AllGenuine
<1>7. Cursor' /\ Highest' /\ InOrder'
  BY <1>4, SMT DEF IInv, Cursor, Highest, InOrder
<1>8. NothingDiscarded'
  BY <1>1, <1>3, <1>4, SMT DEF IInv, NothingDiscarded, Held
<1>. QED  BY <1>5, <1>6, <1>7, <1>8 DEF IInv

LEMMA LoseInvariant ==
  ASSUME NoWrap, IInv, NEW blk \in net, Lose(blk) PROVE IInv'
<1>. USE ConstantsAssumption DEF NoWrap
<1>1. TypeOK'
  BY SMT DEF IInv, TypeOK, Lose, processor
<1>2. AllGenuine'
  BY SMT DEF IInv, AllGenuine, Genuine, Lose, processor
<1>3. Cursor' /\ Highest' /\ InOrder'
  BY SMT DEF IInv, Cursor, Highest, InOrder, Lose, processor
<1>4. NothingDiscarded'
  BY SMT DEF IInv, NothingDiscarded, Held, Lose, processor
<1>. QED  BY <1>1, <1>2, <1>3, <1>4 DEF IInv

\* A block put on recvQueue, whether or not a copy stays behind.
LEMMA EnqueueInvariant ==
  ASSUME NoWrap, IInv, NEW blk \in Blocks, Genuine(blk),
         recvQueue' = Append(recvQueue, blk), Len(recvQueue) < RecvQueueSize,
         net \ {blk} \subseteq net', net' \subseteq net,
         UNCHANGED <<sendBlockID, lost, processor, out, taken, cancelled>>
  PROVE  IInv'
<1>. USE ConstantsAssumption DEF NoWrap
<1>1. /\ recvQueue' = Append(recvQueue, blk)
      /\ Len(recvQueue) < RecvQueueSize
      /\ net \ {blk} \subseteq net' /\ net' \subseteq net
      /\ UNCHANGED <<sendBlockID, lost, processor, out, taken, cancelled>>
  OBVIOUS
<1>2. blk \in Blocks /\ recvQueue \in Seq(Blocks)
  BY DEF IInv, TypeOK
<1>3. /\ recvQueue' \in Seq(Blocks)
      /\ Len(recvQueue') = Len(recvQueue) + 1
      /\ \A i \in 1 .. Len(recvQueue) : recvQueue'[i] = recvQueue[i]
      /\ recvQueue'[Len(recvQueue) + 1] = blk
  BY <1>1, <1>2, SMT
<1>4. TypeOK'
  <2>1. TypeOK
    BY Zenon DEF IInv
  <2>2. net' \subseteq Blocks /\ Len(recvQueue') <= RecvQueueSize
    <3>1. net \subseteq Blocks /\ Len(recvQueue) \in Nat /\ RecvQueueSize \in Nat
      BY ONLY ConstantsAssumption, <1>2, <2>1, SMT DEF TypeOK
    <3>. QED  BY ONLY <1>1, <1>3, <3>1, SMT
  <2>. QED  BY ONLY <1>1, <1>3, <2>1, <2>2, Zenon DEF TypeOK, processor
<1>5. AllGenuine'
  BY <1>1, <1>2, <1>3, SMT DEF IInv, AllGenuine, Genuine, processor
<1>6. Cursor' /\ Highest' /\ InOrder'
  BY <1>1, SMT DEF IInv, Cursor, Highest, InOrder, processor
<1>7. NothingDiscarded'
  <2>. SUFFICES ASSUME NEW n \in 0 .. sendBlockID - 1 PROVE Held(n)'
    BY <1>1 DEF NothingDiscarded
  <2>1. Held(n)
    BY DEF IInv, NothingDiscarded
  <2>2. CASE blk.Data = n
    BY <2>2, <1>2, <1>3, SMT DEF Held
  <2>3. CASE blk.Data # n
    BY <2>1, <2>3, <1>1, <1>2, <1>3, SMT DEF Held, processor
  <2>. QED  BY <2>2, <2>3
<1>. QED  BY <1>4, <1>5, <1>6, <1>7 DEF IInv

LEMMA RecvBlockInvariant ==
  ASSUME NoWrap, IInv, NEW blk \in net, RecvBlock(blk) PROVE IInv'
<1>1. blk \in Blocks /\ Genuine(blk)
  BY Zenon DEF IInv, TypeOK, AllGenuine
<1>. QED  BY <1>1, EnqueueInvariant, Zenon DEF RecvBlock

\* A further copy is as genuine as the block that was packed.
LEMMA RecvDuplicateInvariant ==
  ASSUME NoWrap, IInv, NEW n \in 0 .. sendBlockID - 1, RecvDuplicate(n)
  PROVE  IInv'
<1>1. n \in 0 .. IDSpace - 1 /\ n \in Nat
  <2>1. sendBlockID \in 0 .. MaxBlocks
    BY Zenon DEF IInv, TypeOK
  <2>. QED  BY <2>1, ConstantsAssumption, SMT DEF NoWrap
<1>2. n % IDSpace = n
  BY <1>1, ConstantsAssumption, SmallMod
<1>3. NewBlock(n) \in Blocks /\ Genuine(NewBlock(n))
  BY <1>1, <1>2, SMT DEF NewBlock, Blocks, BlockIDs, Genuine
<1>4. net \ {NewBlock(n)} \subseteq net' /\ net' \subseteq net
  BY Zenon DEF RecvDuplicate, sender
<1>. QED  BY <1>3, <1>4, EnqueueInvariant, Zenon DEF RecvDuplicate, sender

\* The counters are naturals below IDSpace.
LEMMA Numbers ==
  ASSUME NoWrap, TypeOK
  PROVE  /\ IDSpace \in Nat /\ sendBlockID \in Nat /\ sendBlockID < IDSpace
         /\ recvBlockID \in Nat /\ lastRecvBlockID \in Nat
         /\ lastRecvBlockID < IDSpace
         /\ Len(out) \in Nat /\ DOMAIN out = 1 .. Len(out)
         /\ \A i \in DOMAIN cache : i \in Nat
<1>1. /\ sendBlockID \in 0 .. MaxBlocks /\ DOMAIN cache \subseteq BlockIDs
      /\ recvBlockID \in BlockIDs /\ lastRecvBlockID \in BlockIDs
      /\ out \in Seq(Blocks)
  BY Zenon DEF TypeOK
<1>2. Len(out) \in Nat /\ DOMAIN out = 1 .. Len(out)
  BY <1>1, LenProperties, Zenon
<1>. QED  BY <1>1, <1>2, ConstantsAssumption, SMT DEF NoWrap, BlockIDs

\* Below the wrap, IDs in the stream count like naturals.
LEMMA IncBelowWrap ==
  ASSUME NoWrap, TypeOK, NEW id \in Nat, id < sendBlockID
  PROVE  Inc(id) = id + 1
<1>0. sendBlockID \in Nat /\ IDSpace \in Nat /\ sendBlockID < IDSpace
  BY Numbers, Zenon
<1>1. id + 1 \in 0 .. IDSpace - 1
  BY <1>0, SMT
<1>. QED  BY <1>1, ConstantsAssumption, SmallMod DEF Inc

\* A block taken off recvQueue is forwarded, thrown away or cached.
LEMMA ReceiveInvariant == ASSUME NoWrap, IInv, Receive PROVE IInv'
<1>. USE ConstantsAssumption DEF NoWrap
<1>. PICK blk : blk = Head(recvQueue)
  OBVIOUS
<1>0. recvQueue \in Seq(Blocks) /\ recvQueue # <<>>
  BY DEF IInv, TypeOK, Receive
<1>n. /\ IDSpace \in Nat /\ sendBlockID \in Nat /\ sendBlockID < IDSpace
      /\ recvBlockID \in Nat /\ lastRecvBlockID \in Nat
      /\ lastRecvBlockID < IDSpace
      /\ Len(out) \in Nat /\ DOMAIN out = 1 .. Len(out)
      /\ \A i \in DOMAIN cache : i \in Nat
  BY Numbers DEF IInv
<1>1. /\ recvQueue' \in Seq(Blocks) /\ Len(recvQueue') = Len(recvQueue) - 1
      /\ \A i \in 1 .. Len(recvQueue') : recvQueue'[i] = recvQueue[i + 1]
      /\ blk = recvQueue[1] /\ blk \in Blocks /\ Len(recvQueue) >= 1
  BY <1>0, HeadTailProperties, SMT DEF Receive
<1>2. Genuine(blk)
  BY <1>0, <1>1, SMT DEF IInv, AllGenuine
<1>3. Inc(blk.BlockID) = blk.BlockID + 1 /\ blk.BlockID \in 0 .. sendBlockID - 1
  <2>1. blk.BlockID \in 0 .. sendBlockID - 1
    BY <1>2, Zenon DEF Genuine
  <2>2. blk.BlockID \in Nat /\ blk.BlockID < sendBlockID
    BY <2>1, <1>n, SMT
  <2>3. TypeOK
    BY Zenon DEF IInv
  <2>. QED  BY <2>1, <2>2, <2>3, IncBelowWrap, Zenon
<1>4. /\ relay = "select" /\ direct = <<>>
      /\ lastRecvBlockID' = IF blk.BlockID + 1 > lastRecvBlockID
                            THEN blk.BlockID + 1 ELSE lastRecvBlockID
      /\ UNCHANGED <<sendBlockID, net, lost, recvBlockID, out, taken, cancelled>>
  BY <1>3 DEF Receive, LastRecv, sender, IInv, Cursor
<1>5. /\ lastRecvBlockID' \in BlockIDs
      /\ lastRecvBlockID' >= lastRecvBlockID /\ lastRecvBlockID' > blk.BlockID
      /\ lastRecvBlockID' \in {lastRecvBlockID, blk.BlockID + 1}
  BY <1>n, <1>3, <1>4, SMT DEF BlockIDs
<1>6. \A i \in DOMAIN recvQueue' : Genuine(recvQueue'[i])
  BY <1>1, SMT DEF IInv, AllGenuine
<1>7. InOrder'
  BY <1>4 DEF IInv, InOrder
<1>8. ASSUME NEW n \in 0 .. sendBlockID - 1, Held(n),
             \/ n # blk.Data
             \/ \E i \in DOMAIN direct' : direct'[i].Data = n
             \/ \E i \in DOMAIN cache' : cache'[i].Data = n
             \/ \E i \in DOMAIN out : out[i].Data = n,
             \A i \in DOMAIN cache :
                \E j \in DOMAIN cache' : cache'[j].Data = cache[i].Data
      PROVE  Held(n)'
  <2>1. CASE n # blk.Data /\ \E i \in DOMAIN recvQueue : recvQueue[i].Data = n
    <3>1. PICK i \in 2 .. Len(recvQueue) : recvQueue[i].Data = n
      BY <2>1, <1>0, <1>1, SMT
    <3>2. i - 1 \in DOMAIN recvQueue' /\ recvQueue'[i - 1].Data = n
      BY <3>1, <1>1, SMT
    <3>. QED  BY <3>2 DEF Held
  <2>2. CASE ~ \E i \in DOMAIN recvQueue : recvQueue[i].Data = n
    BY <1>8, <2>2, <1>4 DEF Held
  <2>3. CASE n = blk.Data
    BY <1>8, <2>3, <1>4 DEF Held
  <2>. QED  BY <2>1, <2>2, <2>3
<1>9. CASE /\ blk.BlockID = recvBlockID
           /\ relay' = "direct" /\ direct' = <<blk>> /\ cache' = cache
  <2>1. direct' \in Seq(Blocks) /\ Len(direct') = 1 /\ direct'[1] = blk /\ DOMAIN direct' = {1}
    BY <1>1, <1>9, SMT
  <2>2. TypeOK'
    <3>1. TypeOK
      BY Zenon DEF IInv
    <3>2. Len(recvQueue') <= RecvQueueSize /\ Len(direct') <= 1
      <4>1. Len(recvQueue) <= RecvQueueSize /\ RecvQueueSize \in Nat
        BY ONLY ConstantsAssumption, <3>1, Zenon DEF TypeOK, ConstantsAssumption
      <4>2. Len(recvQueue) \in Nat
        BY ONLY <1>0, LenProperties
      <4>. QED  BY ONLY <1>1, <2>1, <4>1, <4>2, SMT
    <3>. QED  BY ONLY <1>1, <1>4, <1>5, <1>9, <2>1, <3>1, <3>2, Zenon DEF TypeOK
  <2>3. AllGenuine'
    BY <1>2, <1>4, <1>6, <1>9, <2>1, SMT DEF IInv, AllGenuine, Genuine
  <2>4. Cursor'
    BY <1>4, <1>9, <2>1, SMT DEF IInv, Cursor
  <2>5. Highest'
    BY <1>n, <1>3, <1>4, <1>9, SMT DEF IInv, Highest
  <2>6. NothingDiscarded'
    BY <1>4, <1>8, <1>9, <2>1 DEF IInv, NothingDiscarded
  <2>. QED  BY <1>7, <2>2, <2>3, <2>4, <2>5, <2>6 DEF IInv
<1>10. CASE /\ blk.BlockID < recvBlockID
            /\ UNCHANGED <<relay, direct, cache>>
  <2>1. \E i \in DOMAIN out : out[i].Data = blk.Data
    <3>1. blk.BlockID + 1 \in DOMAIN out
      BY <1>n, <1>3, <1>10, SMT DEF IInv, Cursor
    <3>2. out[blk.BlockID + 1].Data = blk.Data
      BY <3>1, <1>2, <1>3, SMT DEF IInv, InOrder, Genuine
    <3>. QED  BY <3>1, <3>2
  <2>2. lastRecvBlockID' = lastRecvBlockID
    BY <1>n, <1>3, <1>4, <1>10, SMT DEF IInv, Highest
  <2>3. TypeOK'
    <3>1. TypeOK
      BY Zenon DEF IInv
    <3>2. Len(recvQueue') <= RecvQueueSize
      <4>1. Len(recvQueue) <= RecvQueueSize /\ RecvQueueSize \in Nat
        BY ONLY ConstantsAssumption, <3>1, Zenon DEF TypeOK, ConstantsAssumption
      <4>2. Len(recvQueue) \in Nat
        BY ONLY <1>0, LenProperties
      <4>. QED  BY ONLY <1>1, <4>1, <4>2, SMT
    <3>. QED  BY ONLY <1>1, <1>4, <1>5, <1>10, <3>1, <3>2, Zenon DEF TypeOK
  <2>4. AllGenuine' /\ Cursor' /\ Highest'
    <3>1. AllGenuine'
      BY <1>4, <1>6, <1>10, Zenon DEF IInv, AllGenuine, Genuine
    <3>2. Cursor' /\ Highest'
      BY <1>4, <1>10, <2>2, SMT DEF IInv, Cursor, Highest
    <3>. QED  BY <3>1, <3>2
  <2>5. NothingDiscarded'
    BY <1>4, <1>8, <1>10, <2>1 DEF IInv, NothingDiscarded
  <2>. QED  BY <1>7, <2>3, <2>4, <2>5 DEF IInv
<1>11. CASE /\ blk.BlockID > recvBlockID
            /\ cache' = Put(cache, blk.BlockID, blk)
            /\ UNCHANGED <<relay, direct>>
  <2>1. /\ DOMAIN cache' = DOMAIN cache \cup {blk.BlockID}
        /\ \A i \in DOMAIN cache' : cache'[i] = IF i = blk.BlockID THEN blk ELSE cache[i]
        /\ cache' \in [DOMAIN cache' -> Blocks]
    BY <1>1, <1>11 DEF Put, IInv, TypeOK
  <2>2. blk.BlockID \in BlockIDs
    BY <1>1 DEF Blocks
  <2>3. TypeOK'
    BY <1>1, <1>4, <1>5, <1>11, <2>1, <2>2, SMT DEF IInv, TypeOK
  <2>4. AllGenuine'
    BY <1>2, <1>4, <1>6, <1>11, <2>1 DEF IInv, AllGenuine, Genuine
  <2>5. Cursor'
    BY <1>3, <1>4, <1>11, <2>1, SMT DEF IInv, Cursor
  <2>6. Highest'
    <3>1. /\ \A i \in DOMAIN cache : i < lastRecvBlockID
          /\ lastRecvBlockID = recvBlockID \/ lastRecvBlockID - 1 \in DOMAIN cache
      BY <1>4, Zenon DEF IInv, Highest
    <3>2. blk.BlockID \in Nat /\ recvBlockID < blk.BlockID
      BY <1>n, <1>3, <1>11, SMT
    <3>3. \A i \in DOMAIN cache' : i < lastRecvBlockID'
      BY <3>1, <3>2, <1>n, <1>5, <2>1, SMT DEF BlockIDs
    <3>4. recvBlockID' < lastRecvBlockID' /\ relay' = relay
      BY <3>2, <1>n, <1>4, <1>5, <1>11, SMT DEF BlockIDs
    <3>5. lastRecvBlockID' - 1 \in DOMAIN cache'
      <4>1. CASE lastRecvBlockID' = blk.BlockID + 1
        <5>1. lastRecvBlockID' - 1 = blk.BlockID
          BY <4>1, <3>2, SMT
        <5>. QED  BY <5>1, <2>1, Zenon
      <4>2. CASE lastRecvBlockID' = lastRecvBlockID
        <5>1. lastRecvBlockID # recvBlockID
          BY <4>2, <3>2, <1>n, <1>5, SMT
        <5>. QED  BY <4>2, <5>1, <3>1, <2>1, Zenon
      <4>. QED  BY <4>1, <4>2, <1>5, Zenon
    <3>6. recvBlockID' <= lastRecvBlockID'
      BY <3>4, <1>n, <1>4, <1>5, SMT DEF BlockIDs
    <3>. QED  BY <3>3, <3>4, <3>5, <3>6, Zenon DEF Highest
  <2>7. NothingDiscarded'
    <3>1. \A i \in DOMAIN cache : cache'[i].Data = cache[i].Data
      BY <1>2, <2>1 DEF IInv, AllGenuine, Genuine
    <3>2. cache'[blk.BlockID].Data = blk.Data /\ blk.BlockID \in DOMAIN cache'
      BY <2>1
    <3>. QED  BY <1>4, <1>8, <2>1, <3>1, <3>2 DEF IInv, NothingDiscarded
  <2>. QED  BY <1>7, <2>3, <2>4, <2>5, <2>6, <2>7 DEF IInv
<1>12. blk.BlockID > recvBlockID <=> ~IsNext(blk) /\ ~TooOld(blk)
  BY <1>n, <1>3, SMT DEF IsNext, TooOld
<1>. QED  BY <1>9, <1>10, <1>11, <1>12 DEF Receive, IsNext, TooOld

\* What a send on orderedRecvQueue does, whether the block comes straight off
\* recvQueue or out of the cache.
LEMMA ForwardInvariant ==
  ASSUME NoWrap, IInv, NEW blk \in Blocks, Genuine(blk),
         blk.BlockID = recvBlockID,
         Len(OrderedRecvQueue) < OrderedRecvQueueSize,
         out' = Append(out, blk), recvBlockID' = Inc(recvBlockID), taken' = taken
  PROVE  /\ out' \in Seq(Blocks) /\ Len(out') = Len(out) + 1
         /\ DOMAIN out' = 1 .. Len(out) + 1
         /\ \A i \in 1 .. Len(out) : out'[i] = out[i]
         /\ out'[Len(out) + 1] = blk
         /\ recvBlockID' = recvBlockID + 1 /\ recvBlockID' = Len(out')
         /\ recvBlockID' \in BlockIDs
         /\ taken' \in 0 .. Len(out') /\ Len(out') - taken' <= OrderedRecvQueueSize
         /\ InOrder'
<1>1. out \in Seq(Blocks) /\ taken \in 0 .. Len(out)
  BY DEF IInv, TypeOK
<1>2. recvBlockID = Len(out) /\ blk.Data = recvBlockID /\ recvBlockID < sendBlockID
  BY Numbers, SMT DEF IInv, Cursor, Genuine
<1>3. recvBlockID' = recvBlockID + 1
  BY <1>2, Numbers, IncBelowWrap DEF IInv
<1>4. /\ out' \in Seq(Blocks) /\ Len(out') = Len(out) + 1
      /\ DOMAIN out' = 1 .. Len(out) + 1
      /\ \A i \in 1 .. Len(out) : out'[i] = out[i]
      /\ out'[Len(out) + 1] = blk
  BY <1>1, SMT
<1>5. taken' \in 0 .. Len(out') /\ Len(out') - taken' <= OrderedRecvQueueSize
  BY <1>1, <1>4, QueueLength, ConstantsAssumption, SMT DEF IInv
<1>6. recvBlockID' \in BlockIDs
  BY <1>2, <1>3, Numbers, SMT DEF IInv, BlockIDs
<1>7. InOrder'
  BY <1>1, <1>2, <1>4, SMT DEF IInv, InOrder
<1>. QED  BY <1>2, <1>3, <1>4, <1>5, <1>6, <1>7

LEMMA SendDirectlyInvariant == ASSUME NoWrap, IInv, SendDirectly PROVE IInv'
<1>. USE ConstantsAssumption
<1>. PICK blk : blk = Head(direct)
  OBVIOUS
<1>1. /\ direct \in Seq(Blocks) /\ Len(direct) = 1 /\ DOMAIN direct = {1}
      /\ blk = direct[1] /\ blk \in Blocks /\ blk.BlockID = recvBlockID
  <2>1. direct \in Seq(Blocks) /\ Len(direct) = 1 /\ direct[1].BlockID = recvBlockID
    <3>1. direct \in Seq(Blocks)
      BY Zenon DEF IInv, TypeOK
    <3>2. relay = "direct"
      BY Zenon DEF SendDirectly
    <3>3. Len(direct) = 1 /\ direct[1].BlockID = recvBlockID
      BY <3>2, Zenon DEF IInv, Cursor
    <3>. QED  BY <3>1, <3>3
  <2>2. DOMAIN direct = 1 .. 1 /\ direct[1] \in Blocks
    <3>1. DOMAIN direct = 1 .. 1
      BY <2>1, LenProperties, Zenon
    <3>2. 1 \in 1 .. Len(direct)
      BY <2>1, SMT
    <3>. QED  BY <2>1, <3>1, <3>2, ElementOfSeq, Zenon
  <2>3. 1 .. 1 = {1}
    BY SMT
  <2>4. Head(direct) = direct[1]
    BY <2>1, SMT
  <2>. QED  BY <2>1, <2>2, <2>3, <2>4
<1>2. Genuine(blk)
  BY <1>1 DEF IInv, AllGenuine
<1>3. /\ relay = "direct" /\ relay' = "drain" /\ direct' = <<>>
      /\ UNCHANGED <<sendBlockID, net, lost, recvQueue, cache,
                     lastRecvBlockID, taken, cancelled>>
  BY DEF SendDirectly, sender
<1>4. /\ out' \in Seq(Blocks) /\ Len(out') = Len(out) + 1
      /\ DOMAIN out' = 1 .. Len(out) + 1
      /\ \A i \in 1 .. Len(out) : out'[i] = out[i]
      /\ out'[Len(out) + 1] = blk
      /\ recvBlockID' = recvBlockID + 1 /\ recvBlockID' = Len(out')
      /\ recvBlockID' \in BlockIDs
      /\ taken' \in 0 .. Len(out') /\ Len(out') - taken' <= OrderedRecvQueueSize
      /\ InOrder'
  BY <1>1, <1>2, ForwardInvariant DEF SendDirectly
<1>5. direct' \in Seq(Blocks) /\ Len(direct') = 0 /\ DOMAIN direct' = {}
  BY <1>3
<1>n. /\ recvBlockID \in Nat /\ lastRecvBlockID \in Nat
      /\ Len(out) \in Nat /\ DOMAIN out = 1 .. Len(out)
      /\ \A i \in DOMAIN cache : i \in Nat
  BY Numbers DEF IInv
<1>6. TypeOK'
  <2>1. /\ relay' \in {"select", "direct", "drain", "stopped"}
        /\ direct' \in Seq(Blocks) /\ Len(direct') <= 1
    BY <1>3, <1>5, SMT
  <2>2. UNCHANGED <<sendBlockID, net, lost, recvQueue, cache,
                    lastRecvBlockID, cancelled>>
    BY <1>3
  <2>. QED  BY <1>4, <2>1, <2>2, Zenon DEF IInv, TypeOK
<1>7. AllGenuine'
  BY <1>n, <1>2, <1>3, <1>4, <1>5, SMT DEF IInv, AllGenuine, Genuine
<1>8. Cursor'
  BY <1>n, <1>3, <1>4, <1>5, SMT DEF IInv, Cursor
<1>9. Highest'
  BY <1>n, <1>3, <1>4, SMT DEF IInv, Highest, Cursor
<1>10. NothingDiscarded'
  <2>. SUFFICES ASSUME NEW n \in 0 .. sendBlockID - 1 PROVE Held(n)'
    BY <1>3 DEF NothingDiscarded
  <2>1. Held(n)
    BY DEF IInv, NothingDiscarded
  <2>2. (\E i \in DOMAIN direct \cup DOMAIN out : blk.Data = n) => Held(n)'
    BY <1>n, <1>4, SMT DEF Held
  <2>3. (\E i \in DOMAIN out : out[i].Data = n) => Held(n)'
    BY <1>n, <1>4, SMT DEF Held
  <2>. QED  BY <1>1, <1>3, <2>1, <2>2, <2>3 DEF Held
<1>. QED  BY <1>4, <1>6, <1>7, <1>8, <1>9, <1>10 DEF IInv

LEMMA SendFromCacheInvariant == ASSUME NoWrap, IInv, SendFromCache PROVE IInv'
<1>. USE ConstantsAssumption
<1>. PICK blk : blk = cache[recvBlockID]
  OBVIOUS
<1>1. blk \in Blocks /\ Genuine(blk) /\ blk.BlockID = recvBlockID
  BY Zenon DEF IInv, TypeOK, AllGenuine, SendFromCache
<1>2. /\ relay = "drain" /\ recvBlockID \in DOMAIN cache
      /\ UNCHANGED <<sendBlockID, net, lost, recvQueue, direct,
                     lastRecvBlockID, taken, relay, cancelled>>
  BY DEF SendFromCache, sender
<1>3. /\ DOMAIN cache' = DOMAIN cache \ {recvBlockID}
      /\ \A i \in DOMAIN cache' : cache'[i] = cache[i]
      /\ cache' \in [DOMAIN cache' -> Blocks]
  BY DEF SendFromCache, Delete, IInv, TypeOK
<1>4. /\ out' \in Seq(Blocks) /\ Len(out') = Len(out) + 1
      /\ DOMAIN out' = 1 .. Len(out) + 1
      /\ \A i \in 1 .. Len(out) : out'[i] = out[i]
      /\ out'[Len(out) + 1] = blk
      /\ recvBlockID' = recvBlockID + 1 /\ recvBlockID' = Len(out')
      /\ recvBlockID' \in BlockIDs
      /\ taken' \in 0 .. Len(out') /\ Len(out') - taken' <= OrderedRecvQueueSize
      /\ InOrder'
  BY <1>1, ForwardInvariant DEF SendFromCache
<1>n. /\ recvBlockID \in Nat /\ lastRecvBlockID \in Nat
      /\ Len(out) \in Nat /\ DOMAIN out = 1 .. Len(out)
      /\ \A i \in DOMAIN cache : i \in Nat
  BY Numbers DEF IInv
<1>5. TypeOK'
  <2>1. DOMAIN cache' \subseteq BlockIDs
    BY <1>3, Zenon DEF IInv, TypeOK
  <2>. QED  BY <1>2, <1>3, <1>4, <2>1, Zenon DEF IInv, TypeOK
<1>6. AllGenuine'
  <2>1. \A i \in DOMAIN out' : Genuine(out'[i])
    <3>1. \A i \in DOMAIN out : Genuine(out[i])
      BY Zenon DEF IInv, AllGenuine
    <3> QED
      BY <1>n, <1>1, <1>4, <3>1, SMT
  <2>. QED  BY <1>2, <1>3, <2>1 DEF IInv, AllGenuine, Genuine
<1>7. Cursor'
  BY <1>n, <1>2, <1>3, <1>4, SMT DEF IInv, Cursor
<1>8. Highest'
  <2>1. /\ \A i \in DOMAIN cache : i < lastRecvBlockID
        /\ lastRecvBlockID = recvBlockID \/ lastRecvBlockID - 1 \in DOMAIN cache
    BY <1>2, Zenon DEF IInv, Highest
  <2>2. /\ recvBlockID < lastRecvBlockID /\ recvBlockID' = recvBlockID + 1
        /\ lastRecvBlockID' = lastRecvBlockID
    BY <2>1, <1>2, <1>4, Zenon
  <2>3. \A i \in DOMAIN cache' : i < lastRecvBlockID'
    BY <2>1, <2>2, <1>3, Zenon
  <2>4. recvBlockID' <= lastRecvBlockID' /\ lastRecvBlockID # recvBlockID
    BY <2>2, <1>n, SMT
  <2>5. lastRecvBlockID - 1 = recvBlockID => lastRecvBlockID' = recvBlockID'
    BY <2>2, <1>n, SMT
  <2>6. lastRecvBlockID - 1 # recvBlockID => lastRecvBlockID' - 1 \in DOMAIN cache'
    BY <2>1, <2>2, <2>4, <1>3, Zenon
  <2>. QED  BY <1>2, <2>3, <2>4, <2>5, <2>6, Zenon DEF Highest
<1>9. NothingDiscarded'
  <2>. SUFFICES ASSUME NEW n \in 0 .. sendBlockID - 1 PROVE Held(n)'
    BY <1>2 DEF NothingDiscarded
  <2>1. Held(n)
    BY DEF IInv, NothingDiscarded
  <2>0. Len(out) + 1 \in DOMAIN out' /\ DOMAIN out \subseteq DOMAIN out'
    BY <1>n, <1>4, SMT
  <2>2. blk.Data = n => Held(n)'
    BY <2>0, <1>4, Zenon DEF Held
  <2>3. (\E i \in DOMAIN out : out[i].Data = n) => Held(n)'
    BY <2>0, <1>n, <1>4, Zenon DEF Held
  <2>4. (\E i \in DOMAIN cache : cache[i].Data = n) => Held(n)'
    BY <1>3, <2>2 DEF Held
  <2>. QED  BY <1>2, <2>1, <2>3, <2>4, Zenon DEF Held
<1>. QED  BY <1>4, <1>5, <1>6, <1>7, <1>8, <1>9 DEF IInv

\* The steps that only move control, the reader's cursor or the context.
LEMMA OtherInvariant ==
  ASSUME NoWrap, IInv,
         CacheExhausted \/ Timeout \/ RelayStops \/ Take \/ Stop \/ UNCHANGED vars
  PROVE  IInv'
<1>. USE ConstantsAssumption
<1>1. /\ UNCHANGED <<sendBlockID, net, lost, recvQueue, direct, cache,
                     recvBlockID, lastRecvBlockID, out>>
      /\ taken' \in 0 .. Len(out) /\ Len(out) - taken' <= OrderedRecvQueueSize
      /\ cancelled' \in BOOLEAN
      /\ relay' \in {"select", "direct", "drain", "stopped"}
      /\ relay' = "direct" <=> relay = "direct"
      /\ relay' = "drain" \/ relay' = relay \/ recvBlockID \notin DOMAIN cache
  <2>0. /\ taken \in 0 .. Len(out) /\ Len(out) - taken <= OrderedRecvQueueSize
        /\ relay \in {"select", "direct", "drain", "stopped"}
        /\ cancelled \in BOOLEAN /\ out \in Seq(Blocks)
    BY Zenon DEF IInv, TypeOK
  <2>1. CASE CacheExhausted \/ RelayStops
    <3>1. relay # "drain" => recvBlockID \notin DOMAIN cache
      BY Zenon DEF IInv, Cursor
    <3>2. CASE CacheExhausted
      BY <2>0, <3>2, SMT DEF CacheExhausted, sender
    <3>3. CASE RelayStops
      BY <2>0, <3>1, <3>3, SMT DEF RelayStops, sender
    <3>. QED  BY <2>1, <3>2, <3>3
  <2>2. CASE Timeout
    <3>1. cancelled' \in BOOLEAN
      BY <2>0, <2>2 DEF Timeout
    <3>. QED  BY <2>0, <2>2, <3>1, SMT DEF Timeout, sender, processor
  <2>3. CASE Take
    BY <2>0, <2>3, SMT DEF Take, sender, processor
  <2>4. CASE Stop
    BY <2>0, <2>4, SMT DEF Stop, sender, processor
  <2>5. CASE UNCHANGED vars
    BY <2>0, <2>5 DEF vars
  <2>. QED  BY <2>1, <2>2, <2>3, <2>4, <2>5
<1>2. TypeOK'
  BY <1>1, SMT DEF IInv, TypeOK
<1>3. AllGenuine' /\ InOrder'
  BY <1>1, Zenon DEF IInv, AllGenuine, Genuine, InOrder
<1>6. Highest'
  BY <1>1, SMT DEF IInv, Highest
<1>4. Cursor'
  BY <1>1, SMT DEF IInv, Cursor
<1>5. NothingDiscarded'
  BY <1>1 DEF IInv, NothingDiscarded, Held
<1>. QED  BY <1>2, <1>3, <1>4, <1>5, <1>6 DEF IInv

LEMMA NextInvariant == ASSUME NoWrap, IInv, [Next]_vars PROVE IInv'
  BY PackInvariant, LoseInvariant, RecvBlockInvariant, RecvDuplicateInvariant,
     ReceiveInvariant, SendDirectlyInvariant, SendFromCacheInvariant,
     OtherInvariant, Zenon
  DEF Next

-----------------------------------------------------------------------------
(* The theorems.                                                           *)

\* IInv holds throughout: OrderedRelay never leaves a consistent state.
THEOREM Invariance == ASSUME NoWrap PROVE Spec => []IInv
<1>1. Init => IInv
  BY InitInvariant
<1>2. IInv /\ [Next]_vars => IInv'
  BY NextInvariant
<1>. QED  BY <1>1, <1>2, PTL DEF Spec

\* Every variable keeps its type and no channel exceeds its capacity.
THEOREM TypeCorrect == ASSUME NoWrap PROVE Spec => []TypeOK
<1>1. IInv => TypeOK
  BY DEF IInv
<1>. QED  BY <1>1, Invariance, PTL

\* The reader gets the sender's stream from its start, in order, without gap
\* or repetition, whatever the tunnels do to the blocks (OrderedRelay).
THEOREM StreamInOrder == ASSUME NoWrap PROVE Spec => []InOrder
<1>1. IInv => InOrder
  BY DEF IInv
<1>. QED  BY <1>1, Invariance, PTL

\* OrderedRelay discards nothing but copies.
THEOREM NoBlockDiscarded == ASSUME NoWrap PROVE Spec => []NothingDiscarded
<1>1. IInv => NothingDiscarded
  BY DEF IInv
<1>. QED  BY <1>1, Invariance, PTL

\* Comparing recvBlockID with lastRecvBlockID tells whether there is a hole.
THEOREM CountersAreTruthful == ASSUME NoWrap PROVE Spec => []CountersShowHole
<1>1. IInv => CountersShowHole
  <2>. SUFFICES ASSUME IInv, relay = "select"
                PROVE  recvBlockID # lastRecvBlockID <=> DOMAIN cache # {}
    BY DEF CountersShowHole
  <2>1. /\ recvBlockID \in Nat /\ lastRecvBlockID \in Nat
        /\ \A i \in DOMAIN cache : i \in Nat
    BY Numbers DEF IInv
  <2>. QED  BY <2>1, SMT DEF IInv, Cursor, Highest
<1>. QED  BY <1>1, Invariance, PTL

\* The packet timeout kills a connection only when a later block has arrived
\* and the next one has not.
THEOREM TimeoutKillsOnlyForHole == ASSUME NoWrap PROVE Spec => KilledOnlyForHole
<1>1. IInv /\ [Next]_vars => [Timeout /\ cancelled' # cancelled => Hole]_vars
  <2>. SUFFICES ASSUME IInv, Timeout, cancelled' # cancelled PROVE Hole
    OBVIOUS
  <2>1. relay = "select" /\ recvBlockID # lastRecvBlockID
    BY DEF Timeout, IInv, TypeOK
  <2>2. /\ recvBlockID \in Nat /\ lastRecvBlockID \in Nat
        /\ \A i \in DOMAIN cache : i \in Nat
    BY Numbers DEF IInv
  <2>3. /\ \A i \in DOMAIN cache : cache[i].Data = i
        /\ recvBlockID = Len(out) /\ recvBlockID \notin DOMAIN cache
        /\ \A i \in DOMAIN cache : i >= recvBlockID
    BY <2>1 DEF IInv, AllGenuine, Genuine, Cursor
  <2>4. lastRecvBlockID - 1 \in DOMAIN cache
    BY <2>1 DEF IInv, Highest
  <2>. QED  BY <2>2, <2>3, <2>4, SMT DEF Hole
<1>. QED  BY <1>1, Invariance, PTL DEF Spec, KilledOnlyForHole

\* A step of the block processor is a step of the ordered stream it promises,
\* or none at all.
LEMMA StreamStep ==
  ASSUME NoWrap, IInv, [Next]_vars PROVE [Stream!Next]_Stream!vars
<1>. DEFINE got == [i \in 1 .. taken |-> out[i].Data]
<1>0. /\ out \in Seq(Blocks) /\ DOMAIN out = 1 .. Len(out) /\ Len(out) \in Nat
      /\ taken \in 0 .. Len(out) /\ sendBlockID \in Nat
  BY Numbers DEF IInv, TypeOK
<1>1. CASE Pack
  <2>1. Stream!Put
    BY <1>1 DEF Pack, Stream!Put
  <2>. QED  BY <2>1 DEF Stream!Next
<1>2. CASE Take
  <2>1. out[taken + 1].Data = taken /\ taken < sendBlockID
    <3>1. taken < Len(out)
      BY <1>2, Zenon DEF Take
    <3>2. taken + 1 \in DOMAIN out /\ (taken + 1) - 1 = taken
      BY ONLY <1>0, <3>1, SMT
    <3>3. out[taken + 1].Data = taken
      BY <3>2, Zenon DEF IInv, InOrder
    <3>4. taken \in 0 .. sendBlockID - 1
      BY <3>2, <3>3, Zenon DEF IInv, AllGenuine, Genuine
    <3>. QED  BY ONLY <1>0, <3>3, <3>4, SMT
  <2>2. \A i \in 1 .. taken : out[i].Data \in Nat
    BY <1>0, SMT DEF IInv, InOrder
  <2>3. got \in Seq(Nat) /\ Len(got) = taken
    BY <1>0, <2>2, SMT
  <2>4. [i \in 1 .. taken + 1 |-> out[i].Data] = Append(got, taken)
    <3>1. /\ Append(got, taken) \in Seq(Nat) /\ Len(Append(got, taken)) = taken + 1
          /\ \A i \in 1 .. taken : Append(got, taken)[i] = got[i]
          /\ Append(got, taken)[taken + 1] = taken
      BY <1>0, <2>3, SMT
    <3>2. \A i \in 1 .. taken : got[i] = out[i].Data
      OBVIOUS
    <3>3. Append(got, taken) = [i \in 1 .. taken + 1 |-> Append(got, taken)[i]]
      BY <3>1, LenProperties
    <3>4. \A i \in 1 .. taken + 1 : Append(got, taken)[i] = out[i].Data
      BY <1>0, <2>1, <3>1, <3>2, SMT
    <3>. QED  BY <3>3, <3>4, Zenon
  <2>5. [i \in 1 .. taken |-> out[i].Data]' = Append(got, Len(got))
    BY <1>2, <2>3, <2>4, Zenon DEF Take
  <2>6. Stream!Get
    BY <1>2, <2>1, <2>3, <2>5, Zenon DEF Take, sender, Stream!Get
  <2>. QED  BY <2>6 DEF Stream!Next
<1>3. CASE Timeout \/ Stop
  <2>1. /\ UNCHANGED <<sendBlockID, taken, out>>
        /\ cancelled' = TRUE \/ cancelled' = cancelled
    BY <1>3, Zenon DEF Timeout, Stop, sender, IInv, TypeOK
  <2>2. CASE cancelled' = cancelled
    BY <2>1, <2>2 DEF Stream!vars
  <2>3. CASE cancelled' # cancelled
    <3>1. Stream!Close
      BY <2>1, <2>3, Zenon DEF Stream!Close, IInv, TypeOK
    <3>. QED  BY <3>1 DEF Stream!Next
  <2>. QED  BY <2>2, <2>3
<1>4. CASE \/ \E blk \in net : Lose(blk) \/ RecvBlock(blk)
           \/ \E n \in 0 .. sendBlockID - 1 : RecvDuplicate(n)
           \/ Receive \/ CacheExhausted \/ RelayStops \/ UNCHANGED vars
  <2>1. UNCHANGED <<sendBlockID, taken, out, cancelled>>
    BY <1>4 DEF Lose, RecvBlock, RecvDuplicate, Receive, CacheExhausted,
                RelayStops, vars, sender
  <2>. QED  BY <2>1 DEF Stream!vars
<1>5. CASE SendDirectly \/ SendFromCache
  <2>1. UNCHANGED <<sendBlockID, taken, cancelled>>
    BY <1>5 DEF SendDirectly, SendFromCache, sender
  <2>2. \E blk : out' = Append(out, blk)
    BY <1>5 DEF SendDirectly, SendFromCache
  <2>3. \A i \in 1 .. taken : out'[i] = out[i]
    BY <1>0, <2>2, SMT
  <2>4. [i \in 1 .. taken |-> out[i].Data]' = got
    BY <2>1, <2>3
  <2>. QED  BY <2>1, <2>4 DEF Stream!vars
<1>. QED  BY <1>1, <1>2, <1>3, <1>4, <1>5 DEF Next

\* One direction of a connection implements the ordered stream.
THEOREM Refinement == ASSUME NoWrap PROVE Spec => ImplementsStream
<1>1. Init => Stream!Init
  <2>. SUFFICES ASSUME Init PROVE [i \in 1 .. taken |-> out[i].Data] = <<>>
    BY DEF Init, Stream!Init
  <2>1. 1 .. taken = {}
    BY SMT DEF Init
  <2>. QED  BY <2>1
<1>2. IInv /\ [Next]_vars => [Stream!Next]_Stream!vars
  BY StreamStep
<1>. QED  BY <1>1, <1>2, Invariance, PTL DEF Spec, ImplementsStream, Stream!Spec

=============================================================================
