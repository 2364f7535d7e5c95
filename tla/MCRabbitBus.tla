------------------------------ MODULE MCRabbitBus ------------------------------
(* Small instances of RabbitBus.                                             *)
EXTENDS RabbitBus

CONSTANTS s1, s2, m1
==============================================================================
