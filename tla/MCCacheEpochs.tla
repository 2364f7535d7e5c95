----------------------------- MODULE MCCacheEpochs -----------------------------
(* Small instances of CacheEpochs.                                           *)
EXTENDS CacheEpochs

CONSTANTS api, worker, k1, k2
===============================================================================
