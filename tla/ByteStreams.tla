----------------------------- MODULE ByteStreams -----------------------------
(***************************************************************************)
(* What sequences of blocks or records amount to as one stream of bytes.   *)
(* (SequencesExt has both operators, and with them the module Bags, which  *)
(* every step of a proof would carry along.)                               *)
(***************************************************************************)
EXTENDS Naturals, Sequences

\* The sequences of seqs, one after the other.
Joined(seqs) ==
  LET upTo[n \in 0..Len(seqs)] == IF n = 0 THEN <<>> ELSE upTo[n - 1] \o seqs[n]
  IN  upTo[Len(seqs)]

IsPrefix(s, t) == Len(s) <= Len(t) /\ s = SubSeq(t, 1, Len(s))
=============================================================================
