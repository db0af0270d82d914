--------------------------- MODULE MCCatalogCache ---------------------------
(* Two requests in one worker process and one in another. *)
EXTENDS CatalogCache

CONSTANTS w1, w2, r1, r2, r3

MCWorkerOf == [r \in {r1, r2, r3} |-> IF r = r3 THEN w2 ELSE w1]
=============================================================================
