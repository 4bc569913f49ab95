--------------------------- MODULE MCIDAllocator ---------------------------
(* Two instances of the registry, one of them serving two requests.        *)
EXTENDS IDAllocator, TLC

CONSTANTS i1, i2, c1, c2, c3

HomeOf == c1 :> i1 @@ c2 :> i1 @@ c3 :> i2
=============================================================================
