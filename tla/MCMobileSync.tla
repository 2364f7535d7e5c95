----------------------------- MODULE MCMobileSync -----------------------------
(* Small instances of MobileSync.                                            *)
EXTENDS MobileSync

CONSTANTS a, b, n, timer, online
===============================================================================
