---------------------------- MODULE RecordPipe ----------------------------
(***************************************************************************)
(* What framing promises to the protocol above it (attest.Conn), for one   *)
(* direction of one connection: the records taken from it are the records  *)
(* put into it, whole, each once and in their order.  It may stop at any   *)
(* point, and promises nothing about when.                                 *)
(***************************************************************************)
EXTENDS Naturals, Sequences

VARIABLES sent, got

PipeInit == sent = <<>> /\ got = <<>>

Put == /\ Len(sent') = Len(sent) + 1
       /\ SubSeq(sent', 1, Len(sent)) = sent
       /\ UNCHANGED got

Get == /\ Len(got) < Len(sent)
       /\ got' = Append(got, sent[Len(got) + 1])
       /\ UNCHANGED sent

PipeSpec == PipeInit /\ [][Put \/ Get]_<<sent, got>>
=============================================================================
