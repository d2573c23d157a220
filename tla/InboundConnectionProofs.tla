----------------------- MODULE InboundConnectionProofs ----------------------
(***************************************************************************)
(* For every set of streams that a server sends, of any length, and for    *)
(* any sizes of the application's buffers: the connection hands on the     *)
(* bytes of the stream in order (StreamKept), tells the server once that   *)
(* it is closed (OneClose), and ends a stream that nothing has cut short   *)
(* only after its last byte (EOFComplete).                                 *)
(***************************************************************************)
EXTENDS InboundConnection, SecureStreamProofs

-----------------------------------------------------------------------------
(* Bytes and blocks.                                                       *)

\* The data of the blocks s.
Datas(s) == [i \in DOMAIN s |-> s[i].data]

\* The data of two sequences of blocks are those of the first, then those of
\* the second.
LEMMA DatasLaws ==
  /\ \A s \in Seq(Blocks) : Datas(s) \in Seq(Seq(Nat))
  /\ \A s, t \in Seq(Blocks) : Datas(s \o t) = Datas(s) \o Datas(t)
  /\ \A b \in Blocks : Datas(<<b>>) = <<b.data>> /\ b.data \in Seq(Nat)
  /\ Datas(<<>>) = <<>>
<1>0. \A b \in Blocks : b.data \in Seq(Nat)
  BY DEF Blocks
<1>1. ASSUME NEW s \in Seq(Blocks)
      PROVE  /\ Datas(s) \in Seq(Seq(Nat)) /\ Len(Datas(s)) = Len(s)
             /\ \A i \in 1 .. Len(s) : Datas(s)[i] = s[i].data
  <2>1. Datas(s) \in Seq(Seq(Nat))
    BY <1>0 DEF Datas
  <2>2. Len(Datas(s)) = Len(s)
    BY DEF Datas
  <2>3. \A i \in 1 .. Len(s) : Datas(s)[i] = s[i].data
    BY DEF Datas
  <2> QED
    BY <2>1, <2>2, <2>3
<1>2. ASSUME NEW s \in Seq(Blocks), NEW t \in Seq(Blocks) PROVE Datas(s \o t) = Datas(s) \o Datas(t)
  <2> DEFINE c == s \o t
             p == Datas(s)
             q == Datas(t)
             u == Datas(c)
             v == p \o q
  <2>1. /\ c \in Seq(Blocks) /\ Len(c) = Len(s) + Len(t)
        /\ \A i \in 1 .. Len(s) + Len(t) : c[i] = IF i <= Len(s) THEN s[i] ELSE t[i - Len(s)]
    BY ConcatProperties
  <2> HIDE DEF c
  <2>2. u \in Seq(Seq(Nat)) /\ Len(u) = Len(s) + Len(t) /\ \A i \in 1 .. Len(s) + Len(t) : u[i] = c[i].data
    BY <1>1, <2>1, Zenon
  <2>3. p \in Seq(Seq(Nat)) /\ Len(p) = Len(s) /\ \A i \in 1 .. Len(s) : p[i] = s[i].data
    BY <1>1, Zenon
  <2>4. q \in Seq(Seq(Nat)) /\ Len(q) = Len(t) /\ \A i \in 1 .. Len(t) : q[i] = t[i].data
    BY <1>1, Zenon
  <2> HIDE DEF p, q, u
  <2>5. /\ v \in Seq(Seq(Nat)) /\ Len(v) = Len(s) + Len(t)
        /\ \A i \in 1 .. Len(s) + Len(t) : v[i] = IF i <= Len(s) THEN p[i] ELSE q[i - Len(s)]
    BY <2>3, <2>4, ConcatProperties
  <2> HIDE DEF v
  <2>6. ASSUME NEW i \in 1 .. Len(s) + Len(t) PROVE u[i] = v[i]
    <3>1. Len(s) \in Nat /\ Len(t) \in Nat
      OBVIOUS
    <3>2. CASE i <= Len(s)
      <4>1. i \in 1 .. Len(s)
        BY <3>1, <3>2
      <4> QED
        BY <2>1, <2>2, <2>3, <2>5, <3>2, <4>1, Zenon
    <3>3. CASE ~(i <= Len(s))
      <4>1. i - Len(s) \in 1 .. Len(t)
        BY <3>1, <3>3
      <4> QED
        BY <2>1, <2>2, <2>4, <2>5, <3>3, <4>1, Zenon
    <3> QED
      BY <3>2, <3>3, Zenon
  <2>7. u = v
    BY <2>2, <2>5, <2>6, SeqEqual, Zenon
  <2> QED
    BY <2>7 DEF u, v, p, q, c
<1>3. ASSUME NEW b \in Blocks PROVE Datas(<<b>>) = <<b.data>>
  BY DEF Datas
<1>4. Datas(<<>>) = <<>>
  BY DEF Datas
<1> QED
  BY <1>0, <1>1, <1>2, <1>3, <1>4

\* So are their bytes: it makes no difference which queue a block is in.
LEMMA BytesLaws ==
  /\ \A s \in Seq(Blocks) : BytesOf(s) \in Seq(Nat)
  /\ \A s, t \in Seq(Blocks) : BytesOf(s \o t) = BytesOf(s) \o BytesOf(t)
  /\ \A b \in Blocks : BytesOf(<<b>>) = b.data
  /\ BytesOf(<<>>) = <<>>
<1>0. \A s : BytesOf(s) = Joined(Datas(s))
  BY Zenon DEF BytesOf, Datas
<1>1. ASSUME NEW s \in Seq(Blocks) PROVE BytesOf(s) \in Seq(Nat)
  BY <1>0, DatasLaws, JoinedType, Zenon
<1>2. ASSUME NEW s \in Seq(Blocks), NEW t \in Seq(Blocks) PROVE BytesOf(s \o t) = BytesOf(s) \o BytesOf(t)
  <2>1. Joined(Datas(s) \o Datas(t)) = Joined(Datas(s)) \o Joined(Datas(t))
    BY DatasLaws, JoinedConcat, Zenon
  <2> QED
    BY <1>0, <2>1, DatasLaws, Zenon
<1>3. ASSUME NEW b \in Blocks PROVE BytesOf(<<b>>) = b.data
  <2>0. \A x \in Seq(Nat) : Append(<<>>, x) = <<x>> /\ <<>> \o x = x
    OBVIOUS
  <2>1. <<>> \in Seq(Seq(Nat)) /\ b.data \in Seq(Nat) /\ Append(<<>>, b.data) = <<b.data>>
        /\ <<>> \o b.data = b.data
    <3>1. <<>> \in Seq(Seq(Nat))
      OBVIOUS
    <3> QED
      BY <2>0, <3>1, DatasLaws, Zenon
  <2>2. Joined(Append(<<>>, b.data)) = Joined(<<>>) \o b.data
    BY <2>1, JoinedAppend, Zenon
  <2>3. Datas(<<b>>) = <<b.data>>
    BY DatasLaws, Zenon
  <2> QED
    BY <1>0, <2>1, <2>2, <2>3, JoinedNone, Zenon
<1>4. BytesOf(<<>>) = <<>>
  BY <1>0, DatasLaws, JoinedNone, Zenon
<1> QED
  BY <1>1, <1>2, <1>3, <1>4, Zenon

-----------------------------------------------------------------------------
(* The queues and Read.                                                    *)

\* The blocks that Read has not taken, the next one first.
Rest == orderedRecvQueue \o relayHand \o recvQueue \o recvRelay \o arriving

\* The queues hold blocks.  relay holds one only while it sends it; Read looks
\* for blocks only with an empty dataBuffer and room in its slice, and has
\* bytes of its own only while it does.
SeqInv ==
  /\ stream \in Seq(Blocks)
  /\ arriving \in Seq(Blocks)
  /\ recvRelay \in Seq(Blocks)
  /\ recvQueue \in Seq(Blocks)
  /\ orderedRecvQueue \in Seq(Blocks)
  /\ relayHand \in Seq(Blocks)
  /\ got \in Seq(Nat)
  /\ dataBuffer \in Seq(Nat)
  /\ returned \in Seq(Nat)
  /\ size \in Nat
  /\ relay # "send" => relayHand = <<>>
  /\ reader \in {"drain", "wait", "more"} => dataBuffer = <<>> /\ Len(got) < size
  /\ reader \notin {"drain", "more"} => got = <<>>

\* Sequences of bytes.
LEMMA NatSeqs ==
  /\ \A s \in Seq(Nat) : Len(s) \in Nat /\ s \o <<>> = s /\ <<>> \o s = s /\ (s = <<>> <=> Len(s) = 0)
  /\ \A s, t \in Seq(Nat) : s \o t \in Seq(Nat) /\ Len(s \o t) = Len(s) + Len(t)
  /\ <<>> \in Seq(Nat) /\ Len(<<>>) = 0
OBVIOUS

\* Sequences of blocks; a closed queue yields a zero block, which has no data.
LEMMA BlockSeqs ==
  /\ \A s \in Seq(Blocks) : s # <<>> => Head(s) \in Blocks /\ Tail(s) \in Seq(Blocks) /\ <<Head(s)>> \in Seq(Blocks)
                                         /\ <<Head(s)>> \o Tail(s) = s
  /\ \A s, t \in Seq(Blocks) : s \o t \in Seq(Blocks)
  /\ <<>> \in Seq(Blocks) /\ <<ZeroBlock>> \in Seq(Blocks) /\ ZeroBlock \in Blocks /\ ZeroBlock.data = <<>>
<1>1. \A s \in Seq(Blocks) : s # <<>> => Head(s) \in Blocks /\ Tail(s) \in Seq(Blocks) /\ <<Head(s)>> \in Seq(Blocks)
  OBVIOUS
<1>2. \A s \in Seq(Blocks) : s # <<>> => <<Head(s)>> \o Tail(s) = s
  BY HeadTailProperties
<1>3. ZeroBlock \in Blocks /\ ZeroBlock.data = <<>>
  BY DEF ZeroBlock, Shutdown, Blocks
<1>4. <<ZeroBlock>> \in Seq(Blocks)
  BY <1>3
<1>5. \A s, t \in Seq(Blocks) : s \o t \in Seq(Blocks)
  OBVIOUS
<1> QED
  BY <1>1, <1>2, <1>3, <1>4, <1>5

\* What fits in n places and what remains make up s.
LEMMA FitsLaw ==
  ASSUME NEW s \in Seq(Nat), NEW n \in Nat
  PROVE  LET f == SubSeq(s, 1, Min({n, Len(s)}))
             r == SubSeq(s, Len(f) + 1, Len(s))
         IN  /\ f \in Seq(Nat) /\ r \in Seq(Nat) /\ f \o r = s
             /\ Len(f) <= n /\ Len(f) <= Len(s)
             /\ (Len(f) = Len(s) \/ Len(f) = n)
             /\ Len(f) + Len(r) = Len(s)
<1> DEFINE k == Min({n, Len(s)})
<1>1. k = IF n <= Len(s) THEN n ELSE Len(s)
  BY MinOfTwo
<1> HIDE DEF k
<1>2. k \in Nat /\ k <= Len(s) /\ k <= n /\ (k = Len(s) \/ k = n)
  BY <1>1
<1>3. /\ SubSeq(s, 1, k) \o SubSeq(s, k + 1, Len(s)) = s
      /\ SubSeq(s, 1, k) \in Seq(Nat) /\ SubSeq(s, k + 1, Len(s)) \in Seq(Nat)
      /\ Len(SubSeq(s, 1, k)) = k /\ Len(SubSeq(s, k + 1, Len(s))) = Len(s) - k
  BY <1>2, CutSeq, Zenon
<1>4. Len(s) \in Nat
  OBVIOUS
<1> DEFINE f == SubSeq(s, 1, k)
           r == SubSeq(s, Len(f) + 1, Len(s))
<1>5. /\ f \in Seq(Nat) /\ r \in Seq(Nat) /\ f \o r = s
      /\ Len(f) <= n /\ Len(f) <= Len(s)
      /\ (Len(f) = Len(s) \/ Len(f) = n)
      /\ Len(f) + Len(r) = Len(s)
  <2> DEFINE q == SubSeq(s, k + 1, Len(s))
  <2>1. Len(f) = k /\ f \in Seq(Nat) /\ q \in Seq(Nat) /\ f \o q = s /\ Len(q) = Len(s) - k
    BY <1>3, Zenon
  <2>2. r = q
    BY <2>1, Zenon
  <2> HIDE DEF f, q, r
  <2> QED
    <3>1. f \in Seq(Nat) /\ r \in Seq(Nat) /\ f \o r = s
      BY <2>1, <2>2, Zenon
    <3>2. Len(f) = k /\ Len(r) = Len(s) - k
      BY <2>1, <2>2, Zenon
    <3>3. /\ Len(f) <= n /\ Len(f) <= Len(s) /\ (Len(f) = Len(s) \/ Len(f) = n)
          /\ Len(f) + Len(r) = Len(s)
      BY ONLY n \in Nat, <1>2, <1>4, <3>2
    <3> QED
      BY <3>1, <3>3, Zenon
<1> QED
  BY <1>5, Zenon DEF k

-----------------------------------------------------------------------------
(* Close.                                                                  *)

\* Where a goroutine is in Close.
Places == {"no", "swap", "disconnect", "closeRecv", "closeOrdered", "stop", "done"}

\* The types of the blocks that the connection sends.
Messages == {"data", "shutRead", "shutWrite", "shutBoth"}

\* The server has been told that the connection is closed.
Told == "shutBoth" \in Range(sent)

\* Close: only the goroutine whose swap of closed succeeds goes on to send the
\* shutdown.  A Read or Write that runs into its deadline closes the
\* connection; the main goroutine does after both copies have ended.
CloseInv ==
  /\ closing \in [Goroutines -> Places]
  /\ sent \in Seq(Messages)
  /\ closing["reader"] \notin {"no", "done"} => reader = "closing"
  /\ closing["writer"] \notin {"no", "done"} => writer = "closing"
  /\ closing["main"] # "no" => reader = "ended" /\ writer = "ended"
  /\ closing["reader"] # "no" => expired
  /\ closing["writer"] # "no" => expired
  /\ \A g \in Goroutines : closing[g] \notin {"no", "swap"} => closed
  /\ Told => closed
  /\ \A g, h \in Goroutines : closing[g] = "disconnect" /\ closing[h] = "disconnect" => g = h
  /\ \A g \in Goroutines : closing[g] = "disconnect" => ~Told
  /\ \A i, j \in DOMAIN sent : sent[i] = "shutBoth" /\ sent[j] = "shutBoth" => i = j

-----------------------------------------------------------------------------
(* What a Read does.                                                       *)

\* The bytes f go from the ring buffer to a slice of n bytes.
ReadsBuffer(n, f) ==
  /\ f \o dataBuffer' = dataBuffer /\ dataBuffer' \in Seq(Nat) /\ size' = n
  /\ \/ returned' = returned \o f /\ got' = <<>> /\ reader' \in {"idle", "copy"}
     \/ /\ returned' = returned /\ got' = f /\ dataBuffer' = <<>> /\ Len(f) < n
        /\ \/ reader' = "drain" /\ (closed \/ readClosed)
           \/ reader' = "wait" /\ f = <<>>
           \/ reader' = "more"

\* Read first takes what dataBuffer holds.
LEMMA BeginFacts ==
  ASSUME SeqInv, NEW n \in BufferSizes, ReadBegin(n)
  PROVE  \E f \in Seq(Nat) : ReadsBuffer(n, f)
<1> DEFINE f == Buffered(n)
<1>1. n \in Nat /\ n # 0 /\ dataBuffer \in Seq(Nat)
  BY ConstantsAssumption DEF SeqInv
<1>2. dataBuffer' = SubSeq(dataBuffer, Len(f) + 1, Len(dataBuffer)) /\ size' = n
  BY Zenon DEF ReadBegin
<1>3. /\ f \in Seq(Nat) /\ dataBuffer' \in Seq(Nat) /\ f \o dataBuffer' = dataBuffer
      /\ Len(f) <= n /\ Len(f) <= Len(dataBuffer)
      /\ (Len(f) = Len(dataBuffer) \/ Len(f) = n)
      /\ Len(f) + Len(dataBuffer') = Len(dataBuffer)
  BY <1>1, <1>2, FitsLaw, Zenon DEF Buffered
<1>4. \/ Len(f) = n /\ returned' = returned \o f /\ got' = <<>> /\ reader' \in {"idle", "copy"}
      \/ /\ Len(f) # n /\ returned' = returned /\ got' = f
         /\ \/ reader' = "drain" /\ (closed \/ readClosed)
            \/ reader' = "wait" /\ f = <<>>
            \/ reader' = "more"
  BY Zenon DEF ReadBegin, Return
<1> HIDE DEF f
<1>5. Len(f) # n => dataBuffer' = <<>> /\ Len(f) < n
  <2>1. Len(f) \in Nat /\ (dataBuffer' = <<>> <=> Len(dataBuffer') = 0) /\ Len(dataBuffer') \in Nat
    BY <1>3, NatSeqs, Zenon
  <2> QED
    BY ONLY <1>1, <1>3, <2>1
<1>6. ReadsBuffer(n, f)
  BY <1>2, <1>3, <1>4, <1>5, Zenon DEF ReadsBuffer
<1> QED
  BY <1>3, <1>6, Zenon

\* Of the next block's bytes f fit into the slice and r go to the ring buffer.
ReadsBlock(f, r) ==
  LET blk == Head(orderedRecvQueue) IN
  /\ f \o r = blk.data /\ dataBuffer = <<>> /\ dataBuffer' = r
  /\ \/ returned' = returned \o (got \o f) /\ got' = <<>> /\ reader' \in {"idle", "copy"}
     \/ /\ returned' = returned /\ got = <<>> /\ f = <<>> /\ r = <<>> /\ got' = <<>>
        /\ reader' = "eof" /\ blk.type \in {"shutBoth", "shutWrite"}
     \/ /\ returned' = returned /\ got' = got \o f /\ r = <<>> /\ Len(got') < size
        /\ \/ reader' = "more"
           \/ reader = "drain" /\ reader' = "drain"

\* The block that Read takes is split into what fits and what goes to
\* dataBuffer, the latter only when the slice is full.
LEMMA TakeFacts ==
  ASSUME SeqInv, ReadTake
  PROVE  \E f \in Seq(Nat), r \in Seq(Nat) : ReadsBlock(f, r)
<1> DEFINE blk == Head(orderedRecvQueue)
           d == blk.data
           f == Fits(blk)
           n == size - Len(got)
           r == SubSeq(d, Len(f) + 1, Len(d))
<1>1. /\ reader \in {"drain", "wait", "more"} /\ dataBuffer = <<>>
      /\ Len(got) < size /\ got \in Seq(Nat) /\ Len(got) \in Nat /\ size \in Nat
  BY NatSeqs DEF ReadTake, SeqInv
<1>2. n \in Nat /\ n # 0
  BY <1>1
<1>3. d \in Seq(Nat)
  BY BlockSeqs, DatasLaws, Zenon DEF ReadTake, SeqInv
<1>4. dataBuffer' = IF Len(f) < Len(d) THEN r ELSE dataBuffer
  BY Zenon DEF ReadTake, ReadBlock
<1>5. /\ f \in Seq(Nat) /\ r \in Seq(Nat) /\ f \o r = d
      /\ Len(f) <= n /\ Len(f) <= Len(d) /\ (Len(f) = Len(d) \/ Len(f) = n)
      /\ Len(f) + Len(r) = Len(d)
  BY <1>2, <1>3, FitsLaw, Zenon DEF Fits
<1>6. \/ /\ reader = "wait" /\ got \o f = <<>> /\ got' = <<>> /\ returned' = returned /\ reader' = "eof"
         /\ (Len(got \o f) = size \/ blk.type \in {"shutBoth", "shutWrite"})
      \/ returned' = returned \o (got \o f) /\ got' = <<>> /\ reader' \in {"idle", "copy"}
      \/ /\ Len(got \o f) # size /\ returned' = returned /\ got' = got \o f
         /\ (reader' = IF reader = "wait" THEN "more" ELSE reader)
  BY Zenon DEF ReadTake, Return, ReturnEOF
<1> HIDE DEF f, r
<1>7. /\ Len(f) \in Nat /\ Len(r) \in Nat /\ Len(d) \in Nat /\ (r = <<>> <=> Len(r) = 0)
      /\ Len(got \o f) = Len(got) + Len(f) /\ (f = <<>> <=> Len(f) = 0) /\ (got = <<>> <=> Len(got) = 0)
      /\ (got \o f = <<>> <=> Len(got \o f) = 0)
  BY <1>1, <1>3, <1>5, NatSeqs, Zenon
<1> HIDE DEF d
<1>8. dataBuffer' = r
  <2>1. ~(Len(f) < Len(d)) => r = <<>>
    BY ONLY <1>5, <1>7
  <2> QED
    BY <1>1, <1>4, <2>1, Zenon
<1>9. Len(got \o f) # size => Len(got \o f) < size /\ r = <<>>
  <2>1. /\ Len(f) <= n /\ (Len(f) = Len(d) \/ Len(f) = n) /\ Len(f) + Len(r) = Len(d)
    BY <1>5, Zenon
  <2> QED
    BY ONLY <1>1, <1>2, <1>7, <2>1 DEF n
<1>10. got \o f = <<>> => got = <<>> /\ f = <<>> /\ Len(got \o f) # size
  BY ONLY <1>1, <1>7
<1>11. ReadsBlock(f, r)
  <2>1. f \o r = Head(orderedRecvQueue).data
    BY <1>5, Zenon DEF d
  <2>2. \/ returned' = returned \o (got \o f) /\ got' = <<>> /\ reader' \in {"idle", "copy"}
        \/ /\ returned' = returned /\ got = <<>> /\ f = <<>> /\ r = <<>> /\ got' = <<>>
           /\ reader' = "eof" /\ blk.type \in {"shutBoth", "shutWrite"}
        \/ /\ returned' = returned /\ got' = got \o f /\ r = <<>> /\ Len(got') < size
           /\ \/ reader' = "more"
              \/ reader = "drain" /\ reader' = "drain"
    <3>1. (reader' = IF reader = "wait" THEN "more" ELSE reader) => reader' = "more" \/ (reader = "drain" /\ reader' = "drain")
      BY ONLY <1>1
    <3> QED
      BY ONLY <1>6, <1>9, <1>10, <3>1, Zenon
  <2> QED
    BY <1>1, <1>8, <2>1, <2>2, Zenon DEF ReadsBlock
<1> QED
  BY <1>5, <1>11, Zenon

\* Every step keeps the queues and Read's local variables in order.
LEMMA SeqStep == ASSUME SeqInv, CloseInv, Next PROVE SeqInv'
<1> USE DEF SeqInv, pool, ordering, arrival, queues, flags, reading, relays, client
<1>1. CASE LookUp
  BY <1>1, BlockSeqs DEF LookUp
<1>2. CASE RecvBlock
  <2>1. /\ \/ recvQueue' = recvQueue /\ recvRelay' = recvRelay
           \/ recvQueue' = recvQueue \o recvRelay /\ recvRelay' = <<>>
        /\ UNCHANGED <<stream, arriving, orderedRecvQueue, relayHand, got, dataBuffer,
                       returned, size, relay, reader>>
    BY <1>2, Zenon DEF RecvBlock
  <2>2. recvQueue' \in Seq(Blocks) /\ recvRelay' \in Seq(Blocks)
    BY <2>1, BlockSeqs, Zenon
  <2> QED
    BY <2>1, <2>2, Zenon
<1>3. CASE RelayTake
  BY <1>3, BlockSeqs, Zenon DEF RelayTake
<1>4. CASE RelaySend
  <2>1. /\ \/ orderedRecvQueue' = orderedRecvQueue /\ relayHand' = relayHand /\ relay' = relay
           \/ orderedRecvQueue' = orderedRecvQueue \o relayHand /\ relayHand' = <<>>
        /\ UNCHANGED <<stream, arriving, recvRelay, recvQueue, got, dataBuffer, returned,
                       size, reader>>
    BY <1>4, Zenon DEF RelaySend
  <2>2. /\ orderedRecvQueue' \in Seq(Blocks) /\ relayHand' \in Seq(Blocks)
        /\ relay' # "send" => relayHand' = <<>>
    BY <2>1, BlockSeqs, Zenon
  <2> QED
    BY <2>1, <2>2, Zenon
<1>5. CASE RelayEnds
  BY <1>5 DEF RelayEnds
<1>6. CASE RemoveConnection
  BY <1>6 DEF RemoveConnection
<1>8. CASE ReadZero
  BY <1>8 DEF ReadZero
<1>9. CASE ReadDone
  BY <1>9, NatSeqs, Zenon DEF ReadDone, Return, ReturnEOF
<1>10. CASE ReadDefault
  BY <1>10, NatSeqs, Zenon DEF ReadDefault, Return, ReturnEOF
<1>11. CASE CopyOut \/ CopyOutFails \/ ReaderEnds
  BY <1>11, Zenon DEF CopyOut, CopyOutFails, ReaderEnds
<1>12. CASE WriteSends \/ WriterEnds \/ WriterFails \/ BiRelayCloses \/ WriteChecks \/ Cancelled
  BY <1>12, Zenon
     DEF WriteSends, WriterEnds, WriterFails, BiRelayCloses, WriteChecks, Cancelled
<1>13. ASSUME NEW g \in Goroutines, Close(g) PROVE SeqInv'
  <2>1. /\ UNCHANGED <<stream, arriving, recvRelay, recvQueue, orderedRecvQueue, relayHand, relay>>
        /\ UNCHANGED <<got, dataBuffer, returned, size>>
        /\ reader' = reader \/ (g = "reader" /\ reader' = "ended")
    <3>1. \E from, to : CloseGoes(g, from, to)
      BY <1>13, Zenon
         DEF Close, CloseSwaps, CloseDisconnects, CloseRecvQueue, CloseOrderedRecvQueue,
         CloseStops
    <3>2. reader' = reader \/ reader' = IF g = "reader" THEN "ended" ELSE reader
      BY <1>13, Zenon
         DEF Close, CloseSwaps, CloseDisconnects, CloseRecvQueue, CloseOrderedRecvQueue,
         CloseStops
    <3>3. /\ UNCHANGED <<stream, arriving, recvRelay, recvQueue, orderedRecvQueue, relayHand, relay>>
          /\ UNCHANGED <<got, dataBuffer, returned, size>>
      BY <3>1, Zenon DEF CloseGoes
    <3>4. reader' = reader \/ (g = "reader" /\ reader' = "ended")
      BY ONLY <3>2
    <3> QED
      BY <3>3, <3>4, Zenon
  <2>2. g = "reader" /\ reader' # reader => reader = "closing"
    BY <1>13, Zenon
       DEF Close, CloseSwaps, CloseDisconnects, CloseRecvQueue, CloseOrderedRecvQueue,
       CloseStops, CloseGoes, CloseInv
  <2> QED
    BY <2>1, <2>2
<1>14. ASSUME NEW n \in BufferSizes, ReadBegin(n) PROVE SeqInv'
  <2>1. PICK f \in Seq(Nat) : ReadsBuffer(n, f)
    BY <1>14, BeginFacts, Zenon
  <2>2. returned' \in Seq(Nat) /\ got' \in Seq(Nat)
    <3>1. returned \in Seq(Nat) /\ returned \o f \in Seq(Nat) /\ <<>> \in Seq(Nat)
      BY NatSeqs, Zenon
    <3> QED
      BY <2>1, <3>1, Zenon DEF ReadsBuffer
  <2>3. n \in Nat
    BY ConstantsAssumption
  <2>4. /\ UNCHANGED <<stream, arriving, recvRelay, recvQueue, orderedRecvQueue, relayHand, relay>>
    BY <1>14, Zenon DEF ReadBegin
  <2>5. dataBuffer' \in Seq(Nat) /\ size' = n
    BY <2>1, Zenon DEF ReadsBuffer
  <2>6. /\ reader' \in {"drain", "wait", "more"} => dataBuffer' = <<>> /\ Len(got') < n
        /\ reader' \notin {"drain", "more"} => got' = <<>>
    BY ONLY <2>1 DEF ReadsBuffer
  <2> QED
    BY ONLY SeqInv, <2>2, <2>3, <2>4, <2>5, <2>6
<1>7. CASE ReadTake
  <2>1. PICK f \in Seq(Nat), r \in Seq(Nat) : ReadsBlock(f, r)
    BY <1>7, TakeFacts, Zenon
  <2>2. returned' \in Seq(Nat) /\ got' \in Seq(Nat)
    <3>1. /\ returned \in Seq(Nat) /\ got \o f \in Seq(Nat) /\ <<>> \in Seq(Nat)
          /\ returned \o (got \o f) \in Seq(Nat)
      BY NatSeqs, Zenon
    <3> QED
      BY <2>1, <3>1, Zenon DEF ReadsBlock
  <2>4. /\ UNCHANGED <<stream, arriving, recvRelay, recvQueue, relayHand, relay, size>>
        /\ orderedRecvQueue # <<>> /\ orderedRecvQueue' = Tail(orderedRecvQueue)
    BY <1>7, Zenon DEF ReadTake
  <2>5. dataBuffer' \in Seq(Nat) /\ orderedRecvQueue' \in Seq(Blocks)
    BY <2>1, <2>4, BlockSeqs, Zenon DEF ReadsBlock
  <2>6. /\ reader' \in {"drain", "wait", "more"} => dataBuffer' = <<>> /\ Len(got') < size'
        /\ reader' \notin {"drain", "more"} => got' = <<>>
    BY ONLY <2>1, <2>4 DEF ReadsBlock
  <2> QED
    BY ONLY SeqInv, <2>2, <2>4, <2>5, <2>6
<1> QED
  BY <1>1, <1>2, <1>3, <1>4, <1>5, <1>6, <1>7, <1>8, <1>9, <1>10, <1>11, <1>12, <1>13,
     <1>14, Zenon DEF Next, Work

-----------------------------------------------------------------------------
(* The blocks on their way.                                                *)

\* In which order queues are joined makes no difference.
LEMMA BlocksAssoc == \A a, b, c \in Seq(Blocks) : Assoc(a, b, c)
BY ConcatLaws, Zenon

\* An empty queue adds nothing.
LEMMA BlocksNone == \A a \in Seq(Blocks) : a \o <<>> = a /\ <<>> \o a = a
OBVIOUS

\* In which order pieces of the stream are joined makes no difference.
LEMMA BytesAssoc == \A a, b, c \in Seq(Nat) : Assoc(a, b, c)
BY ConcatLaws, Zenon

\* What is on its way is a sequence of blocks.
LEMMA RestType == ASSUME SeqInv PROVE Rest \in Seq(Blocks)
BY BlockSeqs, Zenon DEF SeqInv, Rest

\* The goroutines that bring the blocks change nothing of what is on its way but
\* for the zero block.
Hands == \/ LookUp \/ RecvBlock \/ RelayTake \/ RelaySend \/ RelayEnds \/ RemoveConnection

\* The goroutines move blocks from queue to queue and keep their order.  From a
\* recvQueue that is closed and empty relay takes a zero block.
LEMMA HandsKeep ==
  ASSUME SeqInv, Hands
  PROVE  \/ Rest' = Rest
         \/ /\ "recvQueue" \in isClosed /\ recvQueue = <<>> /\ relayHand = <<>>
            /\ Rest = orderedRecvQueue \o recvRelay \o arriving
            /\ Rest' = orderedRecvQueue \o <<ZeroBlock>> \o recvRelay \o arriving
<1> USE DEF pool, ordering, arrival, queues, client
<1> DEFINE o == orderedRecvQueue
           h == relayHand
           q == recvQueue
           r == recvRelay
           a == arriving
<1>0. o \in Seq(Blocks) /\ h \in Seq(Blocks) /\ q \in Seq(Blocks) /\ r \in Seq(Blocks) /\ a \in Seq(Blocks)
  BY Zenon DEF SeqInv
<1>1. CASE LookUp
  <2> DEFINE p == o \o h \o q
  <2>1. a # <<>> /\ r = <<>> /\ r' = <<Head(a)>> /\ a' = Tail(a) /\ o' = o /\ h' = h /\ q' = q
    BY <1>1, Zenon DEF LookUp
  <2>2. p \in Seq(Blocks) /\ <<Head(a)>> \in Seq(Blocks) /\ Tail(a) \in Seq(Blocks) /\ <<Head(a)>> \o Tail(a) = a
    BY <1>0, <2>1, BlockSeqs, Zenon
  <2>3. (p \o <<Head(a)>>) \o Tail(a) = p \o a
    <3> HIDE DEF p, a
    <3>1. (p \o <<Head(a)>>) \o Tail(a) = p \o (<<Head(a)>> \o Tail(a))
      <4>1. Assoc(p, <<Head(a)>>, Tail(a))
        BY <2>2, BlocksAssoc, Zenon
      <4> QED
        BY <4>1, Zenon DEF Assoc
    <3> QED
      BY <2>2, <3>1, Zenon
  <2>4. (p \o <<>>) \o a = p \o a
    BY <2>2, BlocksNone, Zenon
  <2>5. Rest = (p \o <<>>) \o a /\ Rest' = (p \o <<Head(a)>>) \o Tail(a)
    BY <2>1, Zenon DEF Rest
  <2> QED
    BY <2>3, <2>4, <2>5, Zenon
<1>2. CASE RecvBlock
  <2>1. CASE q' = q \o r /\ r' = <<>>
    <3> DEFINE p == o \o h
    <3>1. o' = o /\ h' = h /\ a' = a
      BY <1>2, Zenon DEF RecvBlock
    <3>2. p \in Seq(Blocks) /\ q \o r \in Seq(Blocks) /\ p \o (q \o r) \in Seq(Blocks)
      BY <1>0, BlockSeqs, Zenon
    <3>3. (p \o q) \o r = p \o (q \o r) /\ (p \o (q \o r)) \o <<>> = p \o (q \o r)
      <4> HIDE DEF p, q, r
      <4>1. (p \o q) \o r = p \o (q \o r)
        <5>1. p \in Seq(Blocks) /\ q \in Seq(Blocks) /\ r \in Seq(Blocks)
          BY <1>0, <3>2, Zenon
        <5>2. Assoc(p, q, r)
          BY ONLY <5>1, BlocksAssoc, Zenon
        <5> QED
          BY <5>2, Zenon DEF Assoc
      <4> QED
        BY <3>2, <4>1, BlocksNone, Zenon
    <3>4. Rest = ((p \o q) \o r) \o a /\ Rest' = ((p \o (q \o r)) \o <<>>) \o a
      BY <2>1, <3>1, Zenon DEF Rest
    <3> QED
      BY <3>3, <3>4, Zenon
  <2>2. CASE q' = q /\ r' = r
    BY <1>2, <2>2, Zenon DEF RecvBlock, Rest
  <2> QED
    BY <1>2, <2>1, <2>2, Zenon DEF RecvBlock
<1>3. CASE RelayTake
  <2>1. h = <<>> /\ o' = o /\ r' = r /\ a' = a
    BY <1>3, Zenon DEF RelayTake, SeqInv
  <2>2. CASE q # <<>> /\ h' = <<Head(q)>> /\ q' = Tail(q)
    <3>1. <<Head(q)>> \in Seq(Blocks) /\ Tail(q) \in Seq(Blocks) /\ <<Head(q)>> \o Tail(q) = q
      BY <1>0, <2>2, BlockSeqs, Zenon
    <3>2. (o \o <<Head(q)>>) \o Tail(q) = o \o q /\ (o \o <<>>) \o q = o \o q
      <4> HIDE DEF o, q
      <4>1. (o \o <<Head(q)>>) \o Tail(q) = o \o (<<Head(q)>> \o Tail(q))
        <5> DEFINE x == <<Head(q)>>
                   y == Tail(q)
        <5>1. o \in Seq(Blocks) /\ x \in Seq(Blocks) /\ y \in Seq(Blocks)
          BY <1>0, <3>1, Zenon
        <5> HIDE DEF x, y
        <5>2. (o \o x) \o y = o \o (x \o y)
          <6>1. Assoc(o, x, y)
            BY ONLY <5>1, BlocksAssoc, Zenon
          <6> QED
            BY <6>1, Zenon DEF Assoc
        <5> QED
          BY <5>2, Zenon DEF x, y
      <4>2. o \o <<>> = o
        BY <1>0, BlocksNone, Zenon
      <4> QED
        BY <3>1, <4>1, <4>2, Zenon
    <3>3. Rest = (o \o <<>>) \o q \o r \o a /\ Rest' = (o \o <<Head(q)>>) \o Tail(q) \o r \o a
      BY <2>1, <2>2, Zenon DEF Rest
    <3> QED
      BY <3>2, <3>3, Zenon
  <2>3. CASE q = <<>> /\ "recvQueue" \in isClosed /\ h' = <<ZeroBlock>> /\ q' = q
    <3>1. (o \o <<>>) \o <<>> = o
      BY <1>0, BlocksNone, Zenon
    <3>2. (o \o <<ZeroBlock>>) \o <<>> = o \o <<ZeroBlock>>
      BY <1>0, BlocksNone, BlockSeqs, Zenon
    <3>3. Rest = (o \o <<>>) \o <<>> \o r \o a /\ Rest' = (o \o <<ZeroBlock>>) \o <<>> \o r \o a
      BY <2>1, <2>3, Zenon DEF Rest
    <3> QED
      BY <2>1, <2>3, <3>1, <3>2, <3>3, Zenon
  <2> QED
    BY <1>3, <2>2, <2>3, Zenon DEF RelayTake
<1>4. CASE RelaySend
  <2>0. q' = q /\ r' = r /\ a' = a
    BY <1>4, Zenon DEF RelaySend
  <2>1. CASE o' = o \o h /\ h' = <<>>
    <3>1. (o \o h) \o <<>> = o \o h
      BY <1>0, BlockSeqs, BlocksNone, Zenon
    <3>2. Rest = (o \o h) \o q \o r \o a /\ Rest' = ((o \o h) \o <<>>) \o q \o r \o a
      BY <2>0, <2>1, Zenon DEF Rest
    <3> QED
      BY <3>1, <3>2, Zenon
  <2>2. CASE o' = o /\ h' = h
    BY <2>0, <2>2, Zenon DEF Rest
  <2> QED
    BY <1>4, <2>1, <2>2, Zenon DEF RelaySend
<1>5. CASE RelayEnds
  BY <1>5, Zenon DEF RelayEnds, Rest
<1>6. CASE RemoveConnection
  BY <1>6, Zenon DEF RemoveConnection, Rest
<1> QED
  BY <1>1, <1>2, <1>3, <1>4, <1>5, <1>6, Zenon DEF Hands

\* They neither add nor lose a byte.
LEMMA BytesRest ==
  ASSUME SeqInv, Hands
  PROVE  BytesOf(Rest)' = BytesOf(Rest)
<1>1. CASE Rest' = Rest
  BY <1>1, Zenon DEF BytesOf
<1>2. CASE /\ Rest = orderedRecvQueue \o recvRelay \o arriving
           /\ Rest' = orderedRecvQueue \o <<ZeroBlock>> \o recvRelay \o arriving
  <2> DEFINE o == orderedRecvQueue
             r == recvRelay
             a == arriving
             z == <<ZeroBlock>>
  <2>1. o \in Seq(Blocks) /\ r \in Seq(Blocks) /\ a \in Seq(Blocks) /\ z \in Seq(Blocks) /\ o \o z \in Seq(Blocks)
        /\ o \o r \in Seq(Blocks) /\ o \o z \o r \in Seq(Blocks)
    BY BlockSeqs, Zenon DEF SeqInv
  <2>2. BytesOf(z) = <<>>
    BY BlockSeqs, BytesLaws, Zenon
  <2>3. BytesOf(o \o r \o a) = BytesOf(o) \o BytesOf(r) \o BytesOf(a)
    <3>1. BytesOf(o \o r \o a) = BytesOf(o \o r) \o BytesOf(a)
      BY <2>1, BytesLaws, Zenon
    <3>2. BytesOf(o \o r) = BytesOf(o) \o BytesOf(r)
      BY <2>1, BytesLaws, Zenon
    <3> QED
      BY <3>1, <3>2, Zenon
  <2>4. BytesOf(o \o z \o r \o a) = BytesOf(o) \o BytesOf(z) \o BytesOf(r) \o BytesOf(a)
    <3>1. BytesOf(o \o z \o r \o a) = BytesOf(o \o z \o r) \o BytesOf(a)
      BY <2>1, BytesLaws, Zenon
    <3>2. BytesOf(o \o z \o r) = BytesOf(o \o z) \o BytesOf(r)
      BY <2>1, BytesLaws, Zenon
    <3>3. BytesOf(o \o z) = BytesOf(o) \o BytesOf(z)
      BY <2>1, BytesLaws, Zenon
    <3> QED
      BY <3>1, <3>2, <3>3, Zenon
  <2>5. BytesOf(o) \in Seq(Nat)
    BY <2>1, BytesLaws, Zenon
  <2>6. BytesOf(o) \o <<>> = BytesOf(o)
    BY <2>5, NatSeqs, Zenon
  <2>7. BytesOf(Rest') = BytesOf(Rest)
    BY <1>2, <2>2, <2>3, <2>4, <2>6, Zenon
  <2> QED
    BY <2>7, Zenon DEF BytesOf
<1> QED
  BY <1>1, <1>2, HandsKeep, Zenon

-----------------------------------------------------------------------------
(* One shutdown.                                                           *)

\* What one more message makes of those sent.
LEMMA SentLaws ==
  ASSUME NEW s \in Seq(Messages), NEW x \in Messages
  PROVE  /\ Append(s, x) \in Seq(Messages)
         /\ "shutBoth" \in Range(Append(s, x)) <=> "shutBoth" \in Range(s) \/ x = "shutBoth"
         /\ /\ \A i, j \in DOMAIN s : s[i] = "shutBoth" /\ s[j] = "shutBoth" => i = j
            /\ x = "shutBoth" => "shutBoth" \notin Range(s)
            => LET t == Append(s, x)
               IN \A i, j \in DOMAIN t : t[i] = "shutBoth" /\ t[j] = "shutBoth" => i = j
<1> DEFINE t == Append(s, x)
<1>1. /\ t \in Seq(Messages) /\ DOMAIN t = 1 .. Len(s) + 1 /\ DOMAIN s = 1 .. Len(s) /\ Len(s) \in Nat
      /\ t[Len(s) + 1] = x /\ \A i \in 1 .. Len(s) : t[i] = s[i]
  OBVIOUS
<1> HIDE DEF t
<1>2. "shutBoth" \in Range(t) <=> "shutBoth" \in Range(s) \/ x = "shutBoth"
  BY <1>1 DEF Range
<1>3. ASSUME \A i, j \in DOMAIN s : s[i] = "shutBoth" /\ s[j] = "shutBoth" => i = j,
             x = "shutBoth" => "shutBoth" \notin Range(s)
      PROVE  \A i, j \in DOMAIN t : t[i] = "shutBoth" /\ t[j] = "shutBoth" => i = j
  BY <1>1, <1>3 DEF Range
<1> QED
  BY <1>1, <1>2, <1>3 DEF t

\* Every step keeps the protocol of Close: the swap lets one goroutine pass.
LEMMA CloseStep == ASSUME CloseInv, SeqInv, Next PROVE CloseInv'
<1> USE DEF pool, ordering, arrival, queues, flags, reading, relays, client
<1>1. CASE Hands
  <2>1. UNCHANGED <<closing, sent, reader, writer, expired, closed>>
    BY <1>1, Zenon
       DEF Hands, LookUp, RecvBlock, RelayTake, RelaySend, RelayEnds, RemoveConnection
  <2> QED
    BY <2>1 DEF CloseInv, Told
<1>2. ASSUME NEW n \in BufferSizes, ReadBegin(n) PROVE CloseInv'
  <2>1. reader = "idle" /\ reader' \notin {"closing", "ended"} /\ UNCHANGED <<closing, sent, writer, expired, closed>>
    BY <1>2, Zenon DEF ReadBegin, Return
  <2> QED
    BY <2>1 DEF CloseInv, Told
<1>3. CASE ReadTake
  <2>1. /\ reader \in {"drain", "wait", "more"} /\ reader' \notin {"closing", "ended"}
        /\ UNCHANGED <<closing, sent, writer, expired>> /\ (closed => closed')
    BY <1>3, Zenon DEF ReadTake, Return, ReturnEOF, ReadBlock
  <2> QED
    BY <2>1 DEF CloseInv, Told
<1>4. CASE ReadZero \/ ReadDone \/ ReadDefault \/ CopyOut
  <2>1. /\ reader \notin {"closing", "ended"} /\ reader' \notin {"closing", "ended"}
        /\ UNCHANGED <<closing, sent, writer, expired, closed>>
    BY <1>4, Zenon DEF ReadZero, ReadDone, ReadDefault, CopyOut, Return, ReturnEOF
  <2> QED
    BY <2>1 DEF CloseInv, Told
<1>5. CASE CopyOutFails
  <2>1. /\ reader = "copy" /\ reader' = "closing" /\ expired' = TRUE
        /\ closing' = [closing EXCEPT !["reader"] = "swap"]
        /\ UNCHANGED <<sent, writer, closed>>
    BY <1>5, Zenon DEF CopyOutFails, RelayError, SetDeadline
  <2> QED
    BY <2>1 DEF CloseInv, Told, Goroutines, Places
<1>6. CASE WriterFails \/ WriteChecks
  <2>1. /\ writer = "idle"
        /\ \/ /\ writer' = "closing" /\ expired' = TRUE
              /\ closing' = [closing EXCEPT !["writer"] = "swap"]
           \/ writer' = "send" /\ UNCHANGED <<closing, expired>>
        /\ UNCHANGED <<sent, reader, closed>>
    BY <1>6, Zenon DEF WriterFails, WriteChecks, RelayError, SetDeadline
  <2> QED
    BY <2>1 DEF CloseInv, Told, Goroutines, Places
<1>7. CASE ReaderEnds
  <2>1. /\ reader = "eof" /\ reader' = "ended" /\ sent' = Append(sent, "shutRead")
        /\ UNCHANGED <<closing, writer, expired, closed>>
    BY <1>7, Zenon DEF ReaderEnds, CloseRead
  <2> QED
    BY <2>1, SentLaws DEF CloseInv, Told, Messages
<1>8. CASE WriteSends \/ WriterEnds
  <2>1. /\ writer \in {"send", "idle"} /\ writer' \in {"idle", "ended"}
        /\ (sent' = Append(sent, "data") \/ sent' = Append(sent, "shutWrite"))
        /\ UNCHANGED <<closing, reader, expired, closed>>
    BY <1>8, Zenon DEF WriteSends, WriterEnds, CloseWrite
  <2>2. CASE sent' = Append(sent, "data")
    BY <2>1, <2>2, SentLaws, SMTT(20) DEF CloseInv, Told, Messages
  <2>3. CASE sent' = Append(sent, "shutWrite")
    BY <2>1, <2>3, SentLaws DEF CloseInv, Told, Messages
  <2> QED
    BY <2>1, <2>2, <2>3, Zenon
<1>9. CASE BiRelayCloses
  <2>1. /\ reader = "ended" /\ writer = "ended" /\ closing["main"] = "no"
        /\ closing' = [closing EXCEPT !["main"] = "swap"]
        /\ UNCHANGED <<sent, reader, writer, expired, closed>>
    BY <1>9, Zenon DEF BiRelayCloses
  <2> QED
    BY <2>1 DEF CloseInv, Told, Goroutines, Places
<1>10. ASSUME NEW g \in Goroutines, Close(g) PROVE CloseInv'
  <2>0. expired' = expired
    <3>1. \E from, to : CloseGoes(g, from, to)
      BY <1>10, Zenon
         DEF Close, CloseSwaps, CloseDisconnects, CloseRecvQueue, CloseOrderedRecvQueue,
         CloseStops
    <3> QED
      BY <3>1, Zenon DEF CloseGoes
  <2>1. CASE CloseSwaps(g)
    <3>1. /\ closing[g] = "swap" /\ closing' = [closing EXCEPT ![g] = IF closed THEN "stop" ELSE "disconnect"]
          /\ closed' = TRUE /\ UNCHANGED <<reader, writer, sent>>
      BY <2>1, Zenon DEF CloseSwaps, CloseGoes
    <3> QED
      BY <2>0, <3>1 DEF CloseInv, Told, Goroutines, Places
  <2>2. CASE CloseDisconnects(g)
    <3>1. /\ closing[g] = "disconnect" /\ closing' = [closing EXCEPT ![g] = "closeRecv"]
          /\ sent' = Append(sent, "shutBoth") /\ UNCHANGED <<reader, writer, closed>>
      BY <2>2, Zenon DEF CloseDisconnects, CloseGoes
    <3> QED
      BY <2>0, <3>1, SentLaws DEF CloseInv, Told, Goroutines, Places, Messages
  <2>3. CASE CloseRecvQueue(g) \/ CloseOrderedRecvQueue(g)
    <3>1. /\ closing[g] \in {"closeRecv", "closeOrdered"}
          /\ (closing' = [closing EXCEPT ![g] = "closeOrdered"] \/ closing' = [closing EXCEPT ![g] = "stop"])
          /\ UNCHANGED <<reader, writer, sent, closed>>
      BY <2>3, Zenon DEF CloseRecvQueue, CloseOrderedRecvQueue, CloseGoes
    <3> QED
      BY <2>0, <3>1 DEF CloseInv, Told, Goroutines, Places
  <2>4. CASE CloseStops(g)
    <3>1. /\ closing[g] = "stop" /\ closing' = [closing EXCEPT ![g] = "done"]
          /\ reader' = (IF g = "reader" THEN "ended" ELSE reader)
          /\ writer' = (IF g = "writer" THEN "ended" ELSE writer)
          /\ UNCHANGED <<sent, closed>>
      BY <2>4, Zenon DEF CloseStops, CloseGoes
    <3> QED
      BY <2>0, <3>1 DEF CloseInv, Told, Goroutines, Places
  <2> QED
    BY <1>10, <2>1, <2>2, <2>3, <2>4, Zenon DEF Close
<1>11. CASE Cancelled
  <2>1. UNCHANGED <<closing, sent, reader, writer, expired, closed>>
    BY <1>11, Zenon DEF Cancelled
  <2> QED
    BY <2>1 DEF CloseInv, Told
<1> QED
  BY <1>1, <1>2, <1>3, <1>4, <1>5, <1>6, <1>7, <1>8, <1>9, <1>10, <1>11, Zenon
     DEF Next, Work, Hands

-----------------------------------------------------------------------------
(* The stream is kept.                                                     *)

\* Read takes the first of the blocks on their way.
LEMMA TakeRest ==
  ASSUME SeqInv, ReadTake
  PROVE  /\ Head(orderedRecvQueue) \in Blocks /\ Rest' \in Seq(Blocks)
         /\ Rest = <<Head(orderedRecvQueue)>> \o Rest'
<1> DEFINE b == <<Head(orderedRecvQueue)>>
           t == Tail(orderedRecvQueue)
           h == relayHand
           q == recvQueue
           r == recvRelay
           a == arriving
<1>0. /\ h \in Seq(Blocks) /\ q \in Seq(Blocks) /\ r \in Seq(Blocks) /\ a \in Seq(Blocks)
      /\ Head(orderedRecvQueue) \in Blocks /\ b \in Seq(Blocks) /\ t \in Seq(Blocks) /\ orderedRecvQueue = b \o t
  BY BlockSeqs, Zenon DEF SeqInv, ReadTake
<1>1. Rest = (b \o t) \o h \o q \o r \o a
  BY <1>0, Zenon DEF Rest
<1>2. Rest' = t \o h \o q \o r \o a
  BY Zenon DEF Rest, ReadTake, arrival, pool, ordering
<1> HIDE DEF b, t, h, q, r, a
<1> DEFINE t1 == t \o h
           t2 == t1 \o q
           t3 == t2 \o r
           t4 == t3 \o a
<1>3. t1 \in Seq(Blocks) /\ t2 \in Seq(Blocks) /\ t3 \in Seq(Blocks) /\ t4 \in Seq(Blocks)
  BY <1>0, BlockSeqs, Zenon
<1>4. (b \o t) \o h = b \o t1
  <2>1. b \in Seq(Blocks) /\ t \in Seq(Blocks) /\ h \in Seq(Blocks)
    BY <1>0, Zenon
  <2>2. Assoc(b, t, h)
    BY ONLY <2>1, BlocksAssoc, Zenon
  <2> QED
    BY <2>2, Zenon DEF Assoc
<1> HIDE DEF t1
<1>5. (b \o t1) \o q = b \o t2
  <2>1. b \in Seq(Blocks) /\ t1 \in Seq(Blocks) /\ q \in Seq(Blocks)
    BY <1>0, <1>3, Zenon
  <2>2. Assoc(b, t1, q)
    BY ONLY <2>1, BlocksAssoc, Zenon
  <2> QED
    BY <2>2, Zenon DEF Assoc
<1> HIDE DEF t2
<1>6. (b \o t2) \o r = b \o t3
  <2>1. b \in Seq(Blocks) /\ t2 \in Seq(Blocks) /\ r \in Seq(Blocks)
    BY <1>0, <1>3, Zenon
  <2>2. Assoc(b, t2, r)
    BY ONLY <2>1, BlocksAssoc, Zenon
  <2> QED
    BY <2>2, Zenon DEF Assoc
<1> HIDE DEF t3
<1>7. (b \o t3) \o a = b \o t4
  <2>1. b \in Seq(Blocks) /\ t3 \in Seq(Blocks) /\ a \in Seq(Blocks)
    BY <1>0, <1>3, Zenon
  <2>2. Assoc(b, t3, a)
    BY ONLY <2>1, BlocksAssoc, Zenon
  <2> QED
    BY <2>2, Zenon DEF Assoc
<1>8. Rest = b \o Rest'
  BY <1>1, <1>2, <1>4, <1>5, <1>6, <1>7, Zenon DEF t1, t2, t3
<1> QED
  BY <1>0, <1>2, <1>3, <1>8, Zenon DEF b, t1, t2, t3

\* Its data are the next bytes of the stream.
LEMMA TakeBytes ==
  ASSUME SeqInv, ReadTake
  PROVE  BytesOf(Rest) = Head(orderedRecvQueue).data \o BytesOf(Rest)'
<1> DEFINE b == Head(orderedRecvQueue)
<1>1. b \in Blocks /\ <<b>> \in Seq(Blocks) /\ Rest' \in Seq(Blocks) /\ Rest = <<b>> \o Rest'
  BY TakeRest
<1> HIDE DEF b
<1>2. BytesOf(<<b>> \o Rest') = BytesOf(<<b>>) \o BytesOf(Rest')
  BY <1>1, BytesLaws, Zenon
<1>3. BytesOf(<<b>>) = b.data
  BY <1>1, BytesLaws, Zenon
<1>4. BytesOf(Rest)' = BytesOf(Rest')
  BY Zenon DEF BytesOf
<1> QED
  BY <1>1, <1>2, <1>3, <1>4, Zenon DEF b

\* No step touches what the server has sent.
LEMMA StreamStays == ASSUME Next PROVE stream' = stream
<1> USE DEF pool, ordering, arrival, queues, flags, reading, relays, client
<1>1. \A g \in Goroutines : Close(g) => stream' = stream
  BY Zenon
     DEF Close, CloseSwaps, CloseDisconnects, CloseRecvQueue, CloseOrderedRecvQueue,
     CloseStops, CloseGoes
<1>2. \A n \in BufferSizes : ReadBegin(n) => stream' = stream
  BY Zenon DEF ReadBegin
<1>3. (LookUp \/ RecvBlock \/ RelayTake \/ RelaySend \/ RelayEnds \/ RemoveConnection) => stream' = stream
  BY Zenon DEF LookUp, RecvBlock, RelayTake, RelaySend, RelayEnds, RemoveConnection
<1>4. (ReadTake \/ ReadZero \/ ReadDone \/ ReadDefault \/ CopyOut \/ CopyOutFails \/ ReaderEnds) => stream' = stream
  BY Zenon
     DEF ReadTake, ReadZero, ReadDone, ReadDefault, CopyOut, CopyOutFails, ReaderEnds
<1>5. (WriteSends \/ WriterEnds \/ WriterFails \/ BiRelayCloses \/ WriteChecks \/ Cancelled) => stream' = stream
  BY Zenon DEF WriteSends, WriterEnds, WriterFails, BiRelayCloses, WriteChecks, Cancelled
<1> QED
  BY <1>1, <1>2, <1>3, <1>4, <1>5, Zenon DEF Next, Work

\* Every step keeps the bytes of the stream in order.
LEMMA KeptStep ==
  ASSUME SeqInv, SeqInv', CloseInv, Next, StreamIsKept
  PROVE  StreamIsKept'
<1> USE DEF pool, ordering, arrival, queues, flags, reading, relays, client
<1> DEFINE B == BytesOf(Rest)
<1>0. /\ B \in Seq(Nat) /\ B' \in Seq(Nat) /\ BytesOf(stream)' = BytesOf(stream')
      /\ returned \in Seq(Nat) /\ got \in Seq(Nat) /\ dataBuffer \in Seq(Nat)
  <2>1. Rest \in Seq(Blocks) /\ Rest' \in Seq(Blocks)
    BY BlockSeqs, Zenon DEF SeqInv, Rest
  <2>2. B' = BytesOf(Rest')
    BY Zenon DEF BytesOf
  <2>3. BytesOf(stream)' = BytesOf(stream')
    BY Zenon DEF BytesOf
  <2> QED
    BY <2>1, <2>2, <2>3, BytesLaws, Zenon DEF SeqInv
<1>1. returned \o got \o dataBuffer \o B = BytesOf(stream)
  BY Zenon DEF StreamIsKept, Rest
<1>2. SUFFICES /\ returned' \o got' \o dataBuffer' \o B' = returned \o got \o dataBuffer \o B
               /\ stream' = stream
  <2>1. B' = BytesOf(orderedRecvQueue \o relayHand \o recvQueue \o recvRelay \o arriving)'
    BY Zenon DEF Rest, BytesOf
  <2> HIDE DEF B
  <2> QED
    BY <1>0, <1>1, <1>2, <2>1, Zenon DEF StreamIsKept
<1>3. stream' = stream
  BY StreamStays
<1>4. SUFFICES returned' \o got' \o dataBuffer' \o B' = returned \o got \o dataBuffer \o B
  BY <1>3
<1>5. CASE Hands
  <2>1. B' = B
    BY <1>5, BytesRest, Zenon
  <2>2. UNCHANGED <<returned, got, dataBuffer>>
    BY <1>5, Zenon
       DEF Hands, LookUp, RecvBlock, RelayTake, RelaySend, RelayEnds, RemoveConnection
  <2> HIDE DEF B
  <2> QED
    BY <2>1, <2>2, Zenon
<1>6. ASSUME NEW n \in BufferSizes, ReadBegin(n)
      PROVE  returned' \o got' \o dataBuffer' \o B' = returned \o got \o dataBuffer \o B
  <2>1. PICK f \in Seq(Nat) : ReadsBuffer(n, f)
    BY <1>6, BeginFacts, Zenon
  <2>2. got = <<>>
    BY <1>6 DEF ReadBegin, SeqInv
  <2>3. B' = B
    BY <1>6, Zenon DEF ReadBegin, Rest, BytesOf
  <2> HIDE DEF B
  <2>4. (returned \o f) \o dataBuffer' = returned \o dataBuffer
    <3>1. dataBuffer' \in Seq(Nat) /\ f \o dataBuffer' = dataBuffer
      BY <2>1, Zenon DEF ReadsBuffer
    <3>2. (returned \o f) \o dataBuffer' = returned \o (f \o dataBuffer')
      <4>1. returned \in Seq(Nat) /\ f \in Seq(Nat) /\ dataBuffer' \in Seq(Nat)
        BY <1>0, <2>1, <3>1, Zenon
      <4>2. Assoc(returned, f, dataBuffer')
        BY ONLY <4>1, BytesAssoc, Zenon
      <4> QED
        BY <4>2, Zenon DEF Assoc
    <3> QED
      BY <3>1, <3>2, Zenon
  <2>5. returned' \o got' = returned \o f
    <3>1. returned \o f \in Seq(Nat) /\ (returned \o f) \o <<>> = returned \o f
      BY <1>0, NatSeqs, Zenon
    <3> QED
      BY <2>1, <3>1, Zenon DEF ReadsBuffer
  <2>6. returned \o got = returned
    BY <1>0, <2>2, NatSeqs, Zenon
  <2> QED
    BY <2>3, <2>4, <2>5, <2>6, Zenon
<1>7. CASE ReadTake
  <2>1. PICK f \in Seq(Nat), r \in Seq(Nat) : ReadsBlock(f, r)
    BY <1>7, TakeFacts, Zenon
  <2>2. B = (f \o r) \o B' /\ dataBuffer = <<>> /\ dataBuffer' = r
    BY <1>7, <2>1, TakeBytes, Zenon DEF ReadsBlock
  <2> HIDE DEF B
  <2> DEFINE p == returned \o got
  <2>3. p \in Seq(Nat) /\ p \o <<>> = p /\ f \o r \in Seq(Nat)
    BY <1>0, NatSeqs, Zenon
  <2>4. returned' \o got' = p \o f
    <3>1. returned \o (got \o f) = p \o f /\ (p \o f) \o <<>> = p \o f
      <4>1. returned \o (got \o f) = p \o f
        <5>1. returned \in Seq(Nat) /\ got \in Seq(Nat) /\ f \in Seq(Nat)
          BY <1>0, <2>1, Zenon
        <5>2. Assoc(returned, got, f)
          BY ONLY <5>1, BytesAssoc, Zenon
        <5> QED
          BY <5>2, Zenon DEF Assoc
      <4> QED
        BY <2>3, <4>1, NatSeqs, Zenon
    <3>2. CASE returned' = returned \o (got \o f) /\ got' = <<>>
      BY <3>1, <3>2, Zenon
    <3>3. CASE returned' = returned /\ got' = got \o f
      BY <3>1, <3>3, Zenon
    <3>4. CASE returned' = returned /\ got = <<>> /\ f = <<>> /\ got' = <<>>
      <4>1. p = returned /\ p \o f = p /\ returned \o <<>> = returned
        BY <1>0, <3>4, NatSeqs, Zenon
      <4> QED
        BY <3>4, <4>1, Zenon
    <3> QED
      BY <2>1, <3>2, <3>3, <3>4, Zenon DEF ReadsBlock
  <2> HIDE DEF p
  <2>5. (p \o f) \o r = p \o (f \o r) /\ (p \o (f \o r)) \o B' = p \o ((f \o r) \o B')
    <3>1. (p \o f) \o r = p \o (f \o r)
      <4>1. p \in Seq(Nat) /\ f \in Seq(Nat) /\ r \in Seq(Nat)
        BY <2>1, <2>3, Zenon
      <4>2. Assoc(p, f, r)
        BY ONLY <4>1, BytesAssoc, Zenon
      <4> QED
        BY <4>2, Zenon DEF Assoc
    <3> DEFINE x == f \o r
               y == B'
    <3>0. y \in Seq(Nat)
      BY <1>0, Zenon
    <3> HIDE DEF x, y
    <3>2. x \in Seq(Nat)
      BY <2>3 DEF x
    <3>3. (p \o x) \o y = p \o (x \o y)
      <4>1. p \in Seq(Nat) /\ x \in Seq(Nat) /\ y \in Seq(Nat)
        BY <2>3, <3>0, <3>2, Zenon
      <4>2. Assoc(p, x, y)
        BY ONLY <4>1, BytesAssoc, Zenon
      <4> QED
        BY <4>2, Zenon DEF Assoc
    <3> QED
      BY <3>1, <3>3, Zenon DEF x, y
  <2> QED
    BY <2>2, <2>3, <2>4, <2>5, Zenon DEF p
<1>8. CASE ReadDone \/ ReadDefault
  <2>1. B' = B /\ dataBuffer' = dataBuffer
    BY <1>8, Zenon DEF ReadDone, ReadDefault, Rest, BytesOf
  <2> HIDE DEF B
  <2>2. CASE got = <<>> /\ got' = got /\ returned' = returned
    BY <2>1, <2>2, Zenon
  <2>3. CASE returned' = returned \o got /\ got' = <<>>
    <3>1. returned \o got \in Seq(Nat) /\ (returned \o got) \o <<>> = returned \o got
      BY <1>0, NatSeqs, Zenon
    <3> QED
      BY <2>1, <2>3, <3>1, Zenon
  <2>4. reader = "wait" => got = <<>>
    BY DEF SeqInv
  <2> QED
    BY <1>8, <2>2, <2>3, <2>4, Zenon DEF ReadDone, ReadDefault, Return, ReturnEOF
<1>9. CASE ReadZero \/ CopyOut \/ CopyOutFails \/ ReaderEnds
  <2>1. B' = B /\ UNCHANGED <<returned, got, dataBuffer>>
    BY <1>9, Zenon DEF ReadZero, CopyOut, CopyOutFails, ReaderEnds, Rest, BytesOf
  <2> HIDE DEF B
  <2> QED
    BY <2>1, Zenon
<1>10. CASE WriteSends \/ WriterEnds \/ WriterFails \/ BiRelayCloses \/ WriteChecks \/ Cancelled
  <2>1. B' = B /\ UNCHANGED <<returned, got, dataBuffer>>
    BY <1>10, Zenon
       DEF WriteSends, WriterEnds, WriterFails, BiRelayCloses, WriteChecks, Cancelled,
       Rest, BytesOf
  <2> HIDE DEF B
  <2> QED
    BY <2>1, Zenon
<1>11. ASSUME NEW g \in Goroutines, Close(g)
       PROVE  returned' \o got' \o dataBuffer' \o B' = returned \o got \o dataBuffer \o B
  <2>0. \E from, to : CloseGoes(g, from, to)
    BY <1>11, Zenon
       DEF Close, CloseSwaps, CloseDisconnects, CloseRecvQueue, CloseOrderedRecvQueue,
       CloseStops
  <2>1. B' = B /\ UNCHANGED <<returned, got, dataBuffer>>
    BY <2>0, Zenon DEF CloseGoes, Rest, BytesOf
  <2> HIDE DEF B
  <2> QED
    BY <2>1, Zenon
<1> QED
  BY <1>5, <1>6, <1>7, <1>8, <1>9, <1>10, <1>11, Zenon DEF Next, Work, Hands

-----------------------------------------------------------------------------
(* The end of the stream.                                                  *)

\* The blocks of two queues are those of the one and those of the other.
LEMMA SetLaws ==
  /\ \A s, t \in Seq(Blocks) : Range(s \o t) = Range(s) \cup Range(t)
  /\ \A b \in Blocks : Range(<<b>>) = {b}
  /\ \A s \in Seq(Blocks) : Range(s) \subseteq Blocks
  /\ Range(<<>>) = {}
<1>1. ASSUME NEW s \in Seq(Blocks), NEW t \in Seq(Blocks) PROVE Range(s \o t) = Range(s) \cup Range(t)
  <2> DEFINE c == s \o t
  <2>1. /\ c \in Seq(Blocks) /\ Len(c) = Len(s) + Len(t) /\ Len(s) \in Nat /\ Len(t) \in Nat
        /\ \A i \in 1 .. Len(s) + Len(t) : c[i] = IF i <= Len(s) THEN s[i] ELSE t[i - Len(s)]
    BY ConcatProperties
  <2>2. DOMAIN c = 1 .. Len(s) + Len(t) /\ DOMAIN s = 1 .. Len(s) /\ DOMAIN t = 1 .. Len(t)
    BY <2>1
  <2> HIDE DEF c
  <2>3. ASSUME NEW x \in Range(c) PROVE x \in Range(s) \cup Range(t)
    <3>1. PICK i \in 1 .. Len(s) + Len(t) : x = c[i]
      BY <2>2 DEF Range
    <3>2. CASE i <= Len(s)
      <4>1. i \in DOMAIN s /\ x = s[i]
        BY <2>1, <2>2, <3>1, <3>2
      <4> QED
        BY <4>1 DEF Range
    <3>3. CASE ~(i <= Len(s))
      <4>1. i - Len(s) \in DOMAIN t /\ x = t[i - Len(s)]
        BY <2>1, <2>2, <3>1, <3>3
      <4> QED
        BY <4>1 DEF Range
    <3> QED
      BY <3>2, <3>3
  <2>4. ASSUME NEW x \in Range(s) PROVE x \in Range(c)
    BY <2>1, <2>2 DEF Range
  <2>5. ASSUME NEW x \in Range(t) PROVE x \in Range(c)
    <3>1. PICK i \in 1 .. Len(t) : x = t[i]
      BY <2>2 DEF Range
    <3>2. Len(s) + i \in 1 .. Len(s) + Len(t) /\ ~(Len(s) + i <= Len(s)) /\ (Len(s) + i) - Len(s) = i
      BY <2>1, <3>1
    <3>3. c[Len(s) + i] = x
      BY <2>1, <3>1, <3>2
    <3> QED
      BY <2>2, <3>2, <3>3 DEF Range
  <2> QED
    BY <2>3, <2>4, <2>5 DEF c
<1>2. ASSUME NEW b \in Blocks PROVE Range(<<b>>) = {b}
  BY DEF Range
<1>3. ASSUME NEW s \in Seq(Blocks) PROVE Range(s) \subseteq Blocks
  BY DEF Range
<1>4. Range(<<>>) = {}
  BY DEF Range
<1> QED
  BY <1>1, <1>2, <1>3, <1>4

\* What may come after what, in a stream that ends with the server's shutdown if
\* ends is true, and in any other.
Follows(x, y, ends) ==
  /\ ends /\ x.type \in {"shutWrite", "shutBoth"} => y.data = <<>>
  /\ x.type = "shutBoth" => y.type # "shutBoth"

\* Every block of s may come after those before it.
Orderly(s, ends) == \A i, j \in DOMAIN s : i < j => Follows(s[i], s[j], ends)

\* Two queues in turn are orderly when both are, and every block of the second
\* may follow every block of the first.
LEMMA OrderlyLaw ==
  ASSUME NEW s \in Seq(Blocks), NEW t \in Seq(Blocks), NEW ends
  PROVE  Orderly(s \o t, ends) <=> /\ Orderly(s, ends) /\ Orderly(t, ends)
                             /\ \A x \in Range(s), y \in Range(t) : Follows(x, y, ends)
<1> DEFINE c == s \o t
<1>1. /\ c \in Seq(Blocks) /\ Len(c) = Len(s) + Len(t) /\ Len(s) \in Nat /\ Len(t) \in Nat
      /\ \A i \in 1 .. Len(s) + Len(t) : c[i] = IF i <= Len(s) THEN s[i] ELSE t[i - Len(s)]
  BY ConcatProperties
<1>2. DOMAIN c = 1 .. Len(s) + Len(t) /\ DOMAIN s = 1 .. Len(s) /\ DOMAIN t = 1 .. Len(t)
  BY <1>1
<1> HIDE DEF c
<1>3. ASSUME NEW i \in 1 .. Len(s) PROVE i \in DOMAIN c /\ c[i] = s[i]
  BY <1>1, <1>2
<1>4. ASSUME NEW i \in 1 .. Len(t) PROVE Len(s) + i \in DOMAIN c /\ c[Len(s) + i] = t[i]
  <2>1. /\ Len(s) + i \in 1 .. Len(s) + Len(t) /\ ~(Len(s) + i <= Len(s))
        /\ (Len(s) + i) - Len(s) = i
    BY <1>1
  <2>2. c[Len(s) + i] = IF Len(s) + i <= Len(s) THEN s[Len(s) + i] ELSE t[(Len(s) + i) - Len(s)]
    BY <1>1, <2>1, Zenon
  <2> QED
    BY <1>2, <2>1, <2>2, Zenon
<1>5. ASSUME Orderly(c, ends) PROVE Orderly(s, ends)
  BY <1>2, <1>3, <1>5 DEF Orderly
<1>6. ASSUME Orderly(c, ends) PROVE Orderly(t, ends)
  <2>1. ASSUME NEW i \in 1 .. Len(t), NEW j \in 1 .. Len(t), i < j PROVE Follows(t[i], t[j], ends)
    <3>1. Len(s) + i < Len(s) + j
      BY <1>1, <2>1
    <3>2. Len(s) + i \in DOMAIN c /\ Len(s) + j \in DOMAIN c /\ c[Len(s) + i] = t[i] /\ c[Len(s) + j] = t[j]
      BY <1>4
    <3>3. Follows(c[Len(s) + i], c[Len(s) + j], ends)
      BY <1>6, <3>1, <3>2, Zenon DEF Orderly
    <3> QED
      BY <3>2, <3>3, Zenon
  <2> QED
    BY <1>2, <2>1, Zenon DEF Orderly
<1>7. ASSUME Orderly(c, ends), NEW x \in Range(s), NEW y \in Range(t) PROVE Follows(x, y, ends)
  <2>1. PICK i \in 1 .. Len(s) : x = s[i]
    BY <1>2 DEF Range
  <2>2. PICK j \in 1 .. Len(t) : y = t[j]
    BY <1>2 DEF Range
  <2>3. i < Len(s) + j
    BY <1>1
  <2>4. Follows(c[i], c[Len(s) + j], ends)
    BY <1>3, <1>4, <1>7, <2>3, Zenon DEF Orderly
  <2> QED
    BY <1>3, <1>4, <2>1, <2>2, <2>4, Zenon
<1>8. ASSUME Orderly(s, ends), Orderly(t, ends), \A x \in Range(s), y \in Range(t) : Follows(x, y, ends),
             NEW i \in DOMAIN c, NEW j \in DOMAIN c, i < j
      PROVE  Follows(c[i], c[j], ends)
  <2>1. CASE j <= Len(s)
    <3>1. i \in DOMAIN s /\ j \in DOMAIN s /\ c[i] = s[i] /\ c[j] = s[j]
      BY <1>1, <1>2, <1>8, <2>1
    <3> QED
      BY <1>8, <3>1, Zenon DEF Orderly
  <2>2. CASE ~(i <= Len(s))
    <3>1. i - Len(s) \in DOMAIN t /\ j - Len(s) \in DOMAIN t /\ c[i] = t[i - Len(s)] /\ c[j] = t[j - Len(s)]
          /\ i - Len(s) < j - Len(s)
      BY <1>1, <1>2, <1>8, <2>2
    <3> QED
      BY <1>8, <3>1, Zenon DEF Orderly
  <2>3. CASE i <= Len(s) /\ ~(j <= Len(s))
    <3>1. i \in DOMAIN s /\ c[i] = s[i] /\ j - Len(s) \in DOMAIN t /\ c[j] = t[j - Len(s)]
      BY <1>1, <1>2, <1>8, <2>3
    <3>2. c[i] \in Range(s) /\ c[j] \in Range(t)
      BY <3>1 DEF Range
    <3> QED
      BY <1>8, <3>2, Zenon
  <2> QED
    BY <1>1, <1>2, <1>8, <2>1, <2>2, <2>3, Zenon
<1>9. ASSUME Orderly(s, ends), Orderly(t, ends), \A x \in Range(s), y \in Range(t) : Follows(x, y, ends)
      PROVE  Orderly(c, ends)
  BY <1>8, <1>9, Zenon DEF Orderly
<1> QED
  BY <1>5, <1>6, <1>7, <1>9, Zenon DEF c

\* A zero block may come anywhere.
LEMMA ZeroFollows ==
  ASSUME NEW ends
  PROVE  /\ Orderly(<<ZeroBlock>>, ends)
         /\ \A x \in Blocks : Follows(x, ZeroBlock, ends) /\ Follows(ZeroBlock, x, ends)
         /\ ZeroBlock # Shutdown("shutBoth")
<1>1. Orderly(<<ZeroBlock>>, ends)
  BY DEF Orderly
<1>2. \A x \in Blocks : Follows(x, ZeroBlock, ends) /\ Follows(ZeroBlock, x, ends)
  BY DEF Follows, ZeroBlock, Shutdown
<1>3. ZeroBlock # Shutdown("shutBoth")
  BY DEF ZeroBlock, Shutdown
<1> QED
  BY <1>1, <1>2, <1>3

\* Blocks without data have no bytes.
LEMMA NoBytes ==
  ASSUME NEW s \in Seq(Blocks), \A y \in Range(s) : y.data = <<>>
  PROVE  BytesOf(s) = <<>>
<1>1. Datas(s) \in Seq(Seq(Nat))
  BY DatasLaws
<1>2. \A i \in 1 .. Len(Datas(s)) : Datas(s)[i] = <<>>
  BY DEF Datas, Range
<1>3. Joined(Datas(s)) = <<>>
  BY <1>1, <1>2, JoinedNothing, Zenon
<1> QED
  BY <1>3, Zenon DEF BytesOf, Datas

\* A shutBoth is among the blocks s.
Both(s) == Shutdown("shutBoth") \in Range(s)

\* What is on its way is orderly.
RestOrderly == Orderly(Rest, EndsLast(stream))

\* Of a stream that ends with the server's shutdown, no data are on their way.
NoMore == BytesOf(Rest) = <<>> \/ ~EndsLast(stream)

\* The end of the stream.  The connection is marked closed for reading
\* only when no data are on their way, unless the context or a deadline has
\* ended it; and it is closed by the server's shutBoth, which is no longer on
\* its way, or by its own, which the server has been sent.
EndInv ==
  /\ RestOrderly
  /\ reader = "drain" => closed \/ readClosed
  /\ closed \/ readClosed => expired \/ reader = "ended" \/ NoMore
  /\ closed => (\E g \in Goroutines : closing[g] = "disconnect") \/ Told \/ ~Both(Rest)

\* The goroutines that bring the blocks.
LEMMA HandsOrderly ==
  ASSUME SeqInv, Hands, stream' = stream
  PROVE  (RestOrderly => RestOrderly') /\ (Both(Rest)' => Both(Rest))
<1> DEFINE ends == EndsLast(stream)
<1>0. RestOrderly' = Orderly(Rest', ends) /\ RestOrderly = Orderly(Rest, ends) /\ Both(Rest)' = Both(Rest')
  <2>1. EndsLast(stream)' = ends
    BY Zenon DEF EndsLast
  <2> QED
    BY <2>1, Zenon DEF RestOrderly, Orderly, Follows, Both, Range
<1> HIDE DEF ends
<1>1. CASE Rest' = Rest
  BY <1>0, <1>1, Zenon
<1>2. CASE /\ Rest = orderedRecvQueue \o recvRelay \o arriving
           /\ Rest' = orderedRecvQueue \o <<ZeroBlock>> \o recvRelay \o arriving
  <2> DEFINE o == orderedRecvQueue
             r == recvRelay
             a == arriving
             z == <<ZeroBlock>>
  <2>1. o \in Seq(Blocks) /\ r \in Seq(Blocks) /\ a \in Seq(Blocks) /\ z \in Seq(Blocks) /\ o \o z \in Seq(Blocks)
        /\ o \o r \in Seq(Blocks) /\ o \o z \o r \in Seq(Blocks)
    BY BlockSeqs, Zenon DEF SeqInv
  <2>2. /\ Range(o \o r) = Range(o) \cup Range(r) /\ Range(o \o z) = Range(o) \cup {ZeroBlock}
        /\ Range(o \o r \o a) = Range(o \o r) \cup Range(a)
        /\ Range(o) \subseteq Blocks /\ Range(r) \subseteq Blocks /\ Range(a) \subseteq Blocks
        /\ Range(z) = {ZeroBlock}
    <3>1. Range(z) = {ZeroBlock}
      BY SetLaws, BlockSeqs, Zenon
    <3>2. Range(o \o r) = Range(o) \cup Range(r)
      BY <2>1, SetLaws, Zenon
    <3>3. Range(o \o z) = Range(o) \cup Range(z)
      BY <2>1, SetLaws, Zenon
    <3>4. Range(o \o r \o a) = Range(o \o r) \cup Range(a)
      BY <2>1, SetLaws, Zenon
    <3>5. Range(o) \subseteq Blocks /\ Range(r) \subseteq Blocks /\ Range(a) \subseteq Blocks
      BY <2>1, SetLaws, Zenon
    <3> QED
      BY <3>1, <3>2, <3>3, <3>4, <3>5, Zenon
  <2>3. /\ Range(o \o z \o r) = Range(o) \cup {ZeroBlock} \cup Range(r)
        /\ Range(o \o z \o r \o a) = Range(o) \cup {ZeroBlock} \cup Range(r) \cup Range(a)
    <3>1. Range(o \o z \o r) = Range(o \o z) \cup Range(r)
      BY <2>1, SetLaws, Zenon
    <3>2. Range(o \o z \o r \o a) = Range(o \o z \o r) \cup Range(a)
      BY <2>1, SetLaws, Zenon
    <3> QED
      BY <2>2, <3>1, <3>2, Zenon
  <2>4. Both(o \o z \o r \o a) => Both(o \o r \o a)
    BY <2>2, <2>3, ZeroFollows, Zenon DEF Both
  <2>5. ASSUME Orderly(o \o r \o a, ends) PROVE Orderly(o \o z \o r \o a, ends)
    <3>1. Orderly(o \o r, ends) /\ Orderly(a, ends) /\ \A x \in Range(o \o r), y \in Range(a) : Follows(x, y, ends)
      BY <2>1, <2>5, OrderlyLaw, Zenon
    <3>2. Orderly(o, ends) /\ Orderly(r, ends) /\ \A x \in Range(o), y \in Range(r) : Follows(x, y, ends)
      BY <2>1, <3>1, OrderlyLaw, Zenon
    <3>3. Orderly(o \o z, ends)
      <4>1. \A x \in Range(o), y \in Range(z) : Follows(x, y, ends)
        BY <2>2, ZeroFollows
      <4> QED
        BY <2>1, <3>2, <4>1, ZeroFollows, OrderlyLaw, Zenon
    <3>4. Orderly(o \o z \o r, ends)
      <4>1. \A x \in Range(o \o z), y \in Range(r) : Follows(x, y, ends)
        BY <2>2, <3>2, ZeroFollows
      <4> QED
        BY <2>1, <3>2, <3>3, <4>1, OrderlyLaw, Zenon
    <3>5. \A x \in Range(o \o z \o r), y \in Range(a) : Follows(x, y, ends)
      BY <2>2, <2>3, <3>1, ZeroFollows
    <3> QED
      BY <2>1, <3>1, <3>4, <3>5, OrderlyLaw, Zenon
  <2> QED
    BY <1>0, <1>2, <2>4, <2>5, Zenon
<1> QED
  BY <1>1, <1>2, HandsKeep, Zenon

\* Read takes a block: none of the kind that may not follow it is left.
LEMMA TakeOrderly ==
  ASSUME SeqInv, ReadTake, RestOrderly, stream' = stream
  PROVE  LET b == Head(orderedRecvQueue) IN
         /\ RestOrderly'
         /\ Both(Rest)' => Both(Rest)
         /\ b.type \in {"shutWrite", "shutBoth"} => NoMore'
         /\ b.type = "shutBoth" => ~Both(Rest)'
<1> DEFINE b == Head(orderedRecvQueue)
           R == Rest'
           ends == EndsLast(stream)
<1>0. /\ RestOrderly' = Orderly(R, ends) /\ Orderly(Rest, ends) /\ Both(Rest)' = Both(R)
      /\ NoMore' = (BytesOf(R) = <<>> \/ ~ends)
  <2>1. EndsLast(stream)' = ends
    BY Zenon DEF EndsLast
  <2>2. RestOrderly' = Orderly(R, ends) /\ Orderly(Rest, ends) /\ Both(Rest)' = Both(R)
    BY <2>1, Zenon DEF RestOrderly, Orderly, Follows, Both, Range
  <2>3. NoMore' = (BytesOf(R) = <<>> \/ ~ends)
    BY <2>1, Zenon DEF NoMore, BytesOf
  <2> QED
    BY <2>2, <2>3, Zenon
<1>1. b \in Blocks /\ <<b>> \in Seq(Blocks) /\ R \in Seq(Blocks) /\ Rest = <<b>> \o R
  BY TakeRest
<1> HIDE DEF b, R, ends
<1>2. Range(<<b>>) = {b} /\ Range(Rest) = {b} \cup Range(R)
  BY <1>1, SetLaws, Zenon
<1>3. Orderly(R, ends) /\ \A y \in Range(R) : Follows(b, y, ends)
  BY <1>0, <1>1, <1>2, OrderlyLaw, Zenon
<1>4. b.type \in {"shutWrite", "shutBoth"} => BytesOf(R) = <<>> \/ ~ends
  BY <1>1, <1>3, NoBytes, Zenon DEF Follows
<1>5. b.type = "shutBoth" => ~Both(R)
  BY <1>3 DEF Both, Follows, Shutdown
<1>6. Both(R) => Both(Rest)
  BY <1>2 DEF Both
<1> QED
  BY <1>0, <1>3, <1>4, <1>5, <1>6, Zenon DEF b

\* Every step keeps this: a shutdown is taken after all the data before it, and
\* none follow.
LEMMA EndStep ==
  ASSUME SeqInv, SeqInv', CloseInv, CloseInv', EndInv, Next
  PROVE  EndInv'
<1> USE DEF pool, ordering, arrival, queues, flags, reading, relays, client
<1> DEFINE Calls == \E g \in Goroutines : closing[g] = "disconnect"
           Same == UNCHANGED <<orderedRecvQueue, relayHand, recvQueue, recvRelay, arriving>>
<1>s. stream' = stream /\ EndsLast(stream)' = EndsLast(stream)
  BY StreamStays, Zenon DEF EndsLast
<1>0. ASSUME Same PROVE RestOrderly' = RestOrderly /\ Both(Rest)' = Both(Rest) /\ NoMore' = NoMore
  <2>1. Rest' = Rest
    BY <1>0, Zenon DEF Rest
  <2>2. RestOrderly' = RestOrderly
    BY <1>s, <2>1, Zenon DEF RestOrderly, Orderly, Follows
  <2>3. Both(Rest)' = Both(Rest)
    BY <2>1, Zenon DEF Both, Range
  <2>4. NoMore' = NoMore
    BY <1>s, <2>1, Zenon DEF NoMore, BytesOf
  <2> QED
    BY <2>2, <2>3, <2>4, Zenon
<1>1. CASE Hands
  <2>1. UNCHANGED <<closing, sent, reader, expired, closed, readClosed>>
    BY <1>1, Zenon
       DEF Hands, LookUp, RecvBlock, RelayTake, RelaySend, RelayEnds, RemoveConnection
  <2>2. NoMore' = NoMore /\ (RestOrderly => RestOrderly') /\ (Both(Rest)' => Both(Rest))
    <3>1. NoMore' = NoMore
      BY <1>1, <1>s, BytesRest, Zenon DEF NoMore
    <3> QED
      BY <1>1, <1>s, <3>1, HandsOrderly, Zenon
  <2> QED
    BY <2>1, <2>2 DEF EndInv, Told
<1>2. ASSUME NEW n \in BufferSizes, ReadBegin(n) PROVE EndInv'
  <2>1. Same /\ UNCHANGED <<closing, sent, expired, closed, readClosed>>
    BY <1>2, Zenon DEF ReadBegin
  <2>2. PICK f \in Seq(Nat) : ReadsBuffer(n, f)
    BY <1>2, BeginFacts, Zenon
  <2>3. reader = "idle" /\ (reader' = "drain" => closed \/ readClosed)
    BY <1>2, <2>2 DEF ReadBegin, ReadsBuffer
  <2> QED
    BY <1>0, <2>1, <2>3 DEF EndInv, Told
<1>3. CASE ReadTake
  <2> DEFINE b == Head(orderedRecvQueue)
  <2>1. /\ closed' = (closed \/ b.type = "shutBoth")
        /\ readClosed' = (readClosed \/ b.type = "shutWrite")
        /\ UNCHANGED <<closing, sent, expired>>
        /\ reader \in {"drain", "wait", "more"}
    BY <1>3, Zenon DEF ReadTake, ReadBlock
  <2>2. PICK f \in Seq(Nat), r \in Seq(Nat) : ReadsBlock(f, r)
    BY <1>3, TakeFacts, Zenon
  <2>3. reader' = "drain" => reader = "drain"
    BY <2>2 DEF ReadsBlock
  <2>4. /\ RestOrderly' /\ (Both(Rest)' => Both(Rest))
        /\ b.type \in {"shutWrite", "shutBoth"} => NoMore'
        /\ b.type = "shutBoth" => ~Both(Rest)'
    BY <1>3, <1>s, TakeOrderly, Zenon DEF EndInv
  <2>5. NoMore => NoMore'
    <3>1. BytesOf(Rest) = b.data \o BytesOf(Rest)'
      BY <1>3, TakeBytes
    <3>2. b.data \in Seq(Nat)
      BY <1>3, TakeRest, DatasLaws
    <3>3. BytesOf(Rest)' \in Seq(Nat)
      <4>1. BytesOf(Rest)' = BytesOf(Rest')
        BY Zenon DEF BytesOf
      <4> QED
        BY <1>3, <4>1, TakeRest, BytesLaws, Zenon
    <3> DEFINE d == b.data
               e == BytesOf(Rest)'
    <3>4. d \in Seq(Nat) /\ e \in Seq(Nat)
      BY <3>2, <3>3
    <3> HIDE DEF d, e
    <3>5. d \o e = <<>> => e = <<>>
      BY <3>4, ConcatEqualIffEmpty
    <3>6. BytesOf(Rest) = <<>> => BytesOf(Rest)' = <<>>
      BY <3>1, <3>5 DEF d, e
    <3> QED
      BY <1>s, <3>6, Zenon DEF NoMore
  <2> HIDE DEF b
  <2>6. reader' = "drain" => closed' \/ readClosed'
    BY <2>1, <2>3, Zenon DEF EndInv
  <2>7. ASSUME closed' \/ readClosed' PROVE expired' \/ reader' = "ended" \/ NoMore'
    <3>1. expired' = expired
      BY <2>1
    <3>2. CASE closed \/ readClosed
      BY <2>1, <2>5, <3>1, <3>2 DEF EndInv
    <3>3. CASE b.type \in {"shutWrite", "shutBoth"}
      BY <2>4, <3>3, Zenon
    <3> QED
      BY <2>1, <2>7, <3>2, <3>3, Zenon
  <2>8. ASSUME closed' PROVE Calls' \/ Told' \/ ~Both(Rest)'
    <3>1. Calls' = Calls /\ Told' = Told
      BY <2>1, Zenon DEF Told
    <3>2. CASE closed
      BY <2>4, <3>1, <3>2 DEF EndInv
    <3>3. CASE b.type = "shutBoth"
      BY <2>4, <3>3, Zenon
    <3> QED
      BY <2>1, <2>8, <3>2, <3>3, Zenon
  <2> QED
    BY <2>4, <2>6, <2>7, <2>8, Zenon DEF EndInv
<1>4. CASE ReadZero \/ ReadDone \/ ReadDefault \/ CopyOut \/ CopyOutFails \/ ReaderEnds
  <2>1. /\ Same /\ UNCHANGED <<closed, readClosed>>
        /\ reader \notin {"ended"} /\ reader' # "drain"
    BY <1>4, Zenon
       DEF ReadZero, ReadDone, ReadDefault, CopyOut, CopyOutFails, ReaderEnds, Return,
       ReturnEOF
  <2>2. expired => expired'
    BY <1>4, Zenon
       DEF ReadZero, ReadDone, ReadDefault, CopyOut, CopyOutFails, ReaderEnds, RelayError,
       SetDeadline
  <2>3. closing' = closing \/ (reader = "copy" /\ closing' = [closing EXCEPT !["reader"] = "swap"])
    BY <1>4, Zenon
       DEF ReadZero, ReadDone, ReadDefault, CopyOut, CopyOutFails, ReaderEnds, RelayError
  <2>4. Told => Told'
    <3>1. sent' = sent \/ sent' = Append(sent, "shutRead")
      BY <1>4, Zenon
         DEF ReadZero, ReadDone, ReadDefault, CopyOut, CopyOutFails, ReaderEnds, CloseRead
    <3> QED
      BY <3>1, SentLaws, Zenon DEF Told, CloseInv, Messages
  <2>5. Calls => Calls'
    BY <2>3 DEF CloseInv, Goroutines
  <2> HIDE DEF Calls, Same
  <2> QED
    BY <1>0, <2>1, <2>2, <2>4, <2>5 DEF EndInv, Calls
<1>5. CASE WriteSends \/ WriterEnds \/ WriterFails \/ BiRelayCloses \/ WriteChecks \/ Cancelled
  <2>1. /\ Same /\ UNCHANGED <<closed, readClosed, reader>>
    BY <1>5, Zenon
       DEF WriteSends, WriterEnds, WriterFails, BiRelayCloses, WriteChecks, Cancelled
  <2>2. expired => expired'
    BY <1>5, Zenon
       DEF WriteSends, WriterEnds, WriterFails, BiRelayCloses, WriteChecks, Cancelled,
       RelayError, SetDeadline
  <2>3. \/ closing' = closing
        \/ writer = "idle" /\ closing' = [closing EXCEPT !["writer"] = "swap"]
        \/ closing["main"] = "no" /\ closing' = [closing EXCEPT !["main"] = "swap"]
    BY <1>5, Zenon
       DEF WriteSends, WriterEnds, WriterFails, BiRelayCloses, WriteChecks, Cancelled,
       RelayError
  <2>4. Told => Told'
    <3>1. sent' = sent \/ sent' = Append(sent, "shutWrite") \/ sent' = Append(sent, "data")
      BY <1>5, Zenon
         DEF WriteSends, WriterEnds, WriterFails, BiRelayCloses, WriteChecks, Cancelled,
         CloseWrite
    <3> QED
      BY <3>1, SentLaws, Zenon DEF Told, CloseInv, Messages
  <2>5. Calls => Calls'
    BY <2>3 DEF CloseInv, Goroutines
  <2> HIDE DEF Calls, Same
  <2> QED
    BY <1>0, <2>1, <2>2, <2>4, <2>5, Zenon DEF EndInv, Calls
<1>6. ASSUME NEW g \in Goroutines, Close(g) PROVE EndInv'
  <2>0. \E from, to : CloseGoes(g, from, to)
    BY <1>6, Zenon
       DEF Close, CloseSwaps, CloseDisconnects, CloseRecvQueue, CloseOrderedRecvQueue,
       CloseStops
  <2>1. /\ Same /\ UNCHANGED <<expired, readClosed>>
    BY <2>0, Zenon DEF CloseGoes
  <2>2. closing \in [Goroutines -> Places] /\ sent \in Seq(Messages)
    BY DEF CloseInv
  <2>3. CASE CloseSwaps(g)
    <3>1. /\ closing[g] = "swap" /\ closing' = [closing EXCEPT ![g] = IF closed THEN "stop" ELSE "disconnect"]
          /\ closed' = TRUE /\ UNCHANGED <<reader, sent>>
      BY <2>3, Zenon DEF CloseSwaps, CloseGoes
    <3>2. expired \/ reader = "ended"
      BY <3>1 DEF CloseInv, Goroutines
    <3>3. Calls' \/ Told' \/ ~Both(Rest)'
      <4>1. CASE ~closed
        BY <2>2, <3>1, <4>1, Zenon
      <4>2. CASE closed
        <5>1. Calls => Calls'
          BY <2>2, <3>1, <4>2
        <5>2. Told' = Told /\ Both(Rest)' = Both(Rest)
          BY <1>0, <2>1, <3>1, Zenon DEF Told
        <5> QED
          BY <4>2, <5>1, <5>2 DEF EndInv
      <4> QED
        BY <4>1, <4>2
    <3>4. RestOrderly' /\ (reader' = "drain" => closed' \/ readClosed')
      BY <1>0, <2>1, <3>1 DEF EndInv
    <3>5. expired' \/ reader' = "ended" \/ NoMore'
      BY <2>1, <3>1, <3>2
    <3> QED
      BY <3>3, <3>4, <3>5, Zenon DEF EndInv
  <2>4. CASE ~CloseSwaps(g)
    <3>1. closed' = closed /\ (reader' = reader \/ (closing[g] = "stop" /\ reader' = "ended"))
      BY <1>6, <2>4, Zenon
         DEF Close, CloseDisconnects, CloseRecvQueue, CloseOrderedRecvQueue, CloseStops,
         CloseGoes
    <3>2. (Calls \/ Told) => (Calls' \/ Told')
      <4>1. CASE CloseDisconnects(g)
        <5>1. sent' = Append(sent, "shutBoth")
          BY <4>1, Zenon DEF CloseDisconnects
        <5> QED
          BY <2>2, <5>1, SentLaws DEF Told, Messages
      <4>2. CASE ~CloseDisconnects(g)
        <5>1. sent' = sent /\ closing[g] # "disconnect" /\ \E to \in Places : closing' = [closing EXCEPT ![g] = to]
          BY <1>6, <2>4, <4>2, Zenon
             DEF Close, CloseRecvQueue, CloseOrderedRecvQueue, CloseStops, CloseGoes, Places
        <5> QED
          BY <2>2, <5>1 DEF Told
      <4> QED
        BY <4>1, <4>2, Zenon
    <3>3. RestOrderly' = RestOrderly /\ Both(Rest)' = Both(Rest) /\ NoMore' = NoMore
      BY <1>0, <2>1, Zenon
    <3> HIDE DEF Calls, Same
    <3>4. expired' = expired /\ readClosed' = readClosed
      BY <2>1
    <3>5. closed => (Calls \/ Told \/ ~Both(Rest))
      BY Zenon DEF EndInv, Calls
    <3>6. closed' => (Calls' \/ Told' \/ ~Both(Rest)')
      BY <3>1, <3>2, <3>3, <3>5, Zenon
    <3>7. closed' \/ readClosed' => expired' \/ reader' = "ended" \/ NoMore'
      BY <3>1, <3>3, <3>4, Zenon DEF EndInv
    <3>8. RestOrderly' /\ (reader' = "drain" => closed' \/ readClosed')
      BY <3>1, <3>3, <3>4 DEF EndInv
    <3> QED
      BY <3>6, <3>7, <3>8, Zenon DEF EndInv, Calls
  <2> QED
    BY <2>3, <2>4
<1> QED
  BY <1>1, <1>2, <1>3, <1>4, <1>5, <1>6, Zenon DEF Next, Work, Hands

-----------------------------------------------------------------------------
(* The theorems.                                                           *)

\* The inductive invariant.
InboundInv == SeqInv /\ CloseInv /\ EndInv /\ StreamIsKept

\* It holds when the application has connected.
LEMMA InboundInit == Init => InboundInv
<1> SUFFICES ASSUME Init PROVE InboundInv
  OBVIOUS
<1>1. stream \in Seq(Blocks) /\ Orderly(stream, EndsLast(stream))
  <2>1. stream \in Seq(Blocks) /\ OneEnd(stream)
    BY ConstantsAssumption DEF Init
  <2>2. ASSUME NEW i \in DOMAIN stream, NEW j \in DOMAIN stream, i < j
        PROVE  Follows(stream[i], stream[j], EndsLast(stream))
    <3>1. i # j
      BY <2>1, <2>2
    <3> QED
      BY <2>1, <2>2, <3>1, Zenon DEF Follows, OneEnd, EndsLast
  <2> QED
    BY <2>1, <2>2, Zenon DEF Orderly
<1>2. Rest = stream
  <2>1. <<>> \o <<>> = <<>>
    OBVIOUS
  <2>2. <<>> \o stream = stream
    BY <1>1, BlocksNone, Zenon
  <2> QED
    BY <2>1, <2>2, Zenon DEF Init, Rest
<1>3. SeqInv
  BY <1>1 DEF Init, SeqInv
<1>4. CloseInv
  BY DEF Init, CloseInv, Told, Range, Goroutines, Places, Messages
<1>5. EndInv
  BY <1>1, <1>2 DEF Init, EndInv, RestOrderly
<1>6. StreamIsKept
  <2>1. BytesOf(stream) \in Seq(Nat)
    BY <1>1, BytesLaws
  <2>2. <<>> \o <<>> = <<>> /\ <<>> \o BytesOf(stream) = BytesOf(stream)
    BY <2>1, NatSeqs
  <2> QED
    BY <1>2, <2>2, Zenon DEF Init, StreamIsKept, Rest
<1> QED
  BY <1>3, <1>4, <1>5, <1>6 DEF InboundInv

\* It depends on nothing but the variables.
LEMMA InboundStutter == ASSUME InboundInv, UNCHANGED vars PROVE InboundInv'
<1> USE DEF vars, pool, ordering, arrival, queues, flags, reading, relays, client
<1>1. SeqInv'
  BY Zenon DEF InboundInv, SeqInv
<1>2. CloseInv'
  BY Zenon DEF InboundInv, CloseInv, Told, Range
<1>3. EndInv'
  <2>1. Rest' = Rest /\ UNCHANGED <<reader, closed, readClosed, expired, closing, sent>>
    BY Zenon DEF Rest
  <2>2. RestOrderly' = RestOrderly
    BY <2>1, Zenon DEF RestOrderly, Orderly, Follows, EndsLast
  <2>4. NoMore' = NoMore
    BY <2>1, Zenon DEF NoMore, BytesOf, EndsLast
  <2>3. Both(Rest)' = Both(Rest) /\ Told' = Told
    BY <2>1, Zenon DEF Told, Both, Range
  <2> QED
    BY <2>1, <2>2, <2>3, <2>4 DEF InboundInv, EndInv
<1>4. StreamIsKept'
  BY Zenon DEF InboundInv, StreamIsKept, BytesOf
<1> QED
  BY <1>1, <1>2, <1>3, <1>4 DEF InboundInv

\* The queues, Read and Close agree in every reachable state.
LEMMA InboundKept == Spec => []InboundInv
<1>1. InboundInv /\ [Next]_vars => InboundInv'
  <2> SUFFICES ASSUME InboundInv, Next PROVE InboundInv'
    BY InboundStutter
  <2>1. SeqInv /\ CloseInv /\ EndInv /\ StreamIsKept
    BY DEF InboundInv
  <2>2. SeqInv'
    BY <2>1, SeqStep
  <2>3. CloseInv'
    BY <2>1, CloseStep
  <2>4. EndInv'
    BY <2>1, <2>2, <2>3, EndStep
  <2>5. StreamIsKept'
    BY <2>1, <2>2, KeptStep
  <2> QED
    BY <2>2, <2>3, <2>4, <2>5 DEF InboundInv
<1> QED
  BY <1>1, InboundInit, PTL DEF Spec

\* For any stream and any sizes of the slices given to Read, what Read has
\* returned, what it and dataBuffer hold and what is on its way are the bytes
\* of the stream in order: none is lost, repeated or reordered.
THEOREM StreamKept == Spec => []StreamIsKept
<1>1. InboundInv => StreamIsKept
  BY DEF InboundInv
<1> QED
  BY <1>1, InboundKept, PTL

\* Whichever goroutines call Close, and when, the server is told at most once
\* that the connection is closed; and when biRelay is done it has been told, or
\* its own shutBoth has been taken.
THEOREM OneClose == Spec => []ClosedOnce
<1>1. ASSUME InboundInv PROVE ClosedOnce
  <2>1. CloseInv /\ EndInv
    BY <1>1 DEF InboundInv
  <2>2. ASSUME closing["main"] = "done"
        PROVE "shutBoth" \in Range(sent)
         \/ Shutdown("shutBoth") \notin
              Range(orderedRecvQueue \o relayHand \o recvQueue \o recvRelay \o arriving)
    <3>1. closed /\ reader = "ended" /\ writer = "ended"
      BY <2>1, <2>2 DEF CloseInv, Goroutines
    <3>2. \A g \in Goroutines : closing[g] # "disconnect"
      BY <2>1, <2>2, <3>1 DEF CloseInv, Goroutines
    <3> QED
      BY <2>1, <3>1, <3>2, Zenon DEF EndInv, Told, Both, Rest
  <2>3. \A i, j \in DOMAIN sent : sent[i] = "shutBoth" /\ sent[j] = "shutBoth" => i = j
    BY <2>1, Zenon DEF CloseInv
  <2> QED
    BY <2>2, <2>3, Zenon DEF ClosedOnce
<1>2. InboundInv => ClosedOnce
  BY <1>1
<1> QED
  BY <1>2, InboundKept, PTL

\* A step of Read that reports the end.
LEMMA EOFStep ==
  ASSUME InboundInv, InboundInv', Next, reader # "eof", reader' = "eof", EndsLast(stream)
  PROVE  ctxDone \/ expired \/ returned = BytesOf(stream)
<1> USE DEF pool, ordering, arrival, queues, flags, reading, relays, client
<1> DEFINE B == BytesOf(Rest)
<1>s. stream' = stream /\ EndsLast(stream)'
  BY StreamStays, Zenon DEF EndsLast
<1>0. SeqInv /\ EndInv /\ CloseInv /\ SeqInv' /\ StreamIsKept /\ returned \in Seq(Nat)
  BY DEF InboundInv, SeqInv
<1>1. ASSUME got = <<>>, dataBuffer = <<>>, B = <<>> PROVE returned = BytesOf(stream)
  <2>1. returned \o <<>> = returned
    BY <1>0, NatSeqs, Zenon
  <2> QED
    BY <1>0, <1>1, <2>1, Zenon DEF StreamIsKept, Rest
<1>2. CASE ReadTake
  <2>1. PICK f \in Seq(Nat), r \in Seq(Nat) : ReadsBlock(f, r)
    BY <1>0, <1>2, TakeFacts, Zenon
  <2>2. /\ got = <<>> /\ dataBuffer = <<>> /\ f \o r = Head(orderedRecvQueue).data /\ f = <<>> /\ r = <<>>
        /\ Head(orderedRecvQueue).type \in {"shutBoth", "shutWrite"}
    BY <2>1 DEF ReadsBlock
  <2>3. B' = <<>>
    BY <1>0, <1>2, <1>s, <2>2, TakeOrderly, Zenon DEF EndInv, NoMore
  <2>4. B = Head(orderedRecvQueue).data \o B'
    BY <1>0, <1>2, TakeBytes, Zenon
  <2>5. <<>> \o <<>> = <<>>
    OBVIOUS
  <2>6. B = <<>>
    BY <2>2, <2>3, <2>4, <2>5, Zenon
  <2> QED
    BY <1>1, <2>2, <2>6, Zenon
<1>3. CASE ReadDone
  BY <1>3, Zenon DEF ReadDone
<1>4. CASE ReadDefault
  <2>1. reader = "drain" /\ got = <<>>
    BY <1>4 DEF ReadDefault, Return
  <2>2. dataBuffer = <<>>
    BY <1>0, <2>1 DEF SeqInv
  <2>3. expired \/ B = <<>>
    BY <1>0, <2>1 DEF EndInv, NoMore
  <2> QED
    BY <1>1, <2>1, <2>2, <2>3, Zenon
<1>5. ~Hands
  BY Zenon DEF Hands, LookUp, RecvBlock, RelayTake, RelaySend, RelayEnds, RemoveConnection
<1>6. ~(ReadZero \/ CopyOut \/ CopyOutFails \/ ReaderEnds)
  BY Zenon DEF ReadZero, CopyOut, CopyOutFails, ReaderEnds
<1>7. ~(WriteSends \/ WriterEnds \/ WriterFails \/ BiRelayCloses \/ WriteChecks \/ Cancelled)
  BY Zenon DEF WriteSends, WriterEnds, WriterFails, BiRelayCloses, WriteChecks, Cancelled
<1>8. \A n \in BufferSizes : ~ReadBegin(n)
  BY DEF ReadBegin, Return
<1>9. ASSUME NEW g \in Goroutines, Close(g) PROVE FALSE
  <2>1. reader' = reader \/ reader' = "ended"
    BY <1>9
       DEF Close, CloseSwaps, CloseDisconnects, CloseRecvQueue, CloseOrderedRecvQueue,
       CloseStops
  <2> QED
    BY <2>1
<1> QED
  BY <1>2, <1>3, <1>4, <1>5, <1>6, <1>7, <1>8, <1>9, Zenon DEF Next, Work, Hands

\* Whatever the slices, Read returns io.EOF only after the last byte of a stream
\* that ends with the server's shutdown, unless the connection's context is done
\* or a deadline has passed.
THEOREM EOFComplete == Spec => EOFIsComplete
<1>1. InboundInv /\ InboundInv' /\ [Next]_vars =>
        [reader # "eof" /\ reader' = "eof" /\ EndsLast(stream) =>
           ctxDone \/ expired \/ returned = BytesOf(stream)]_vars
  BY EOFStep
<1> QED
  BY <1>1, InboundKept, PTL DEF Spec, EOFIsComplete
=============================================================================
