-------------------------- MODULE MCBlockProcessor --------------------------
(* BlockProcessor with small queues, so that both fill up. *)
EXTENDS BlockProcessor, TLC
=============================================================================
