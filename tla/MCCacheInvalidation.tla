------------------------- MODULE MCCacheInvalidation -------------------------
(* Instances of CacheInvalidation for TLC.                                 *)
EXTENDS CacheInvalidation, TLC

CONSTANTS r1, r2, k1, k2, o1, o2, a, b, src, lib

(* Two files in directories of their own; one body mentions both.          *)
MCDirOf == (a :> src) @@ (b :> lib)
MCMentions == (o1 :> {a}) @@ (o2 :> {a, b})
MCCompress == (o1 :> {k1, k2}) @@ (o2 :> {k2})

(* A directory is replaced, and a file written twice, under one request.   *)
Bounds == /\ replaced' # {} => arrivals' <= 1
          /\ writes' > 1 => arrivals' <= 1
=============================================================================
