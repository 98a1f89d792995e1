------------------------------ MODULE MCVector ------------------------------
(***************************************************************************)
(* Two items, batches of up to three of them.                              *)
(***************************************************************************)
EXTENDS Vector

MCBatches == {<<>>, <<"b">>, <<"a", "b">>, <<"b", "a", "a">>}
=============================================================================
