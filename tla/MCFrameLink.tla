---------------------------- MODULE MCFrameLink ----------------------------
(* The framing on a small connection.  A stranger's fragments break each of *)
(* the reassembler's rules: no payload, a reserved flag, a wrong number, a *)
(* start inside a record, a continuation outside one, a length of zero,    *)
(* beyond the limit or changed, and an overrun.                            *)
EXTENDS FrameLink

Stray(n) == [i \in 1 .. n |-> <<0, i>>]

MCForeign ==
  [total : {0, 2, 4}, flags : {0, 1}, seq : {0, 1}, payload : {Stray(1), Stray(2)}]
    \union [total : {2}, flags : {1, 2}, seq : {0}, payload : {<<>>, Stray(1)}]
=============================================================================
