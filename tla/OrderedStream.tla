---------------------------- MODULE OrderedStream ----------------------------
(***************************************************************************)
(* What one direction of a tunnelled connection promises to the program    *)
(* that reads it: the payloads come out in the order they were put in,     *)
(* none twice and none skipped, until the stream is closed; a stream may   *)
(* be closed with payloads still undelivered.  Payloads are numbered by    *)
(* the order in which the sender hands them over.                          *)
(***************************************************************************)
EXTENDS Naturals, Sequences

VARIABLES sent,       \* how many payloads the sender has handed over
          delivered,  \* the payloads the reader has got, oldest first
          closed      \* the stream has been torn down

vars == <<sent, delivered, closed>>

TypeOK ==
  /\ sent \in Nat
  /\ delivered \in Seq(Nat)
  /\ closed \in BOOLEAN

Init ==
  /\ sent = 0
  /\ delivered = <<>>
  /\ closed = FALSE

Put ==
  /\ sent' = sent + 1
  /\ UNCHANGED <<delivered, closed>>

\* The only payload that may come out is the one after the last delivered.
Get ==
  /\ Len(delivered) < sent
  /\ delivered' = Append(delivered, Len(delivered))
  /\ UNCHANGED <<sent, closed>>

Close ==
  /\ ~closed
  /\ closed' = TRUE
  /\ UNCHANGED <<sent, delivered>>

Next == Put \/ Get \/ Close

Spec == Init /\ [][Next]_vars
=============================================================================
