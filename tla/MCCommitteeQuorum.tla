-------------------------- MODULE MCCommitteeQuorum ---------------------------
(* Small instances of CommitteeQuorum.                                       *)
EXTENDS CommitteeQuorum

CONSTANTS v1, v2, w1, w2
===============================================================================
