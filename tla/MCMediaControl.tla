---------------------------- MODULE MCMediaControl ----------------------------
(* Two emitters, three events and two players. *)
EXTENDS MediaControl

CONSTANTS manager, processor

MCMaxEvents == [e \in Emitter |-> IF e = processor THEN 2 ELSE 1]
=============================================================================
