---------------------------- MODULE MCFramedStdio ----------------------------
(* Payloads of every length up to one over the cap, told apart by content. *)
EXTENDS FramedStdio

MCPayloads == {<<>>, <<1>>, <<0, 1>>, <<1, 0>>, <<1, 1, 1>>}
=============================================================================
