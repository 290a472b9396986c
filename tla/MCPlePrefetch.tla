--------------------------- MODULE MCPlePrefetch ---------------------------
(* Four batches let each slot be taken twice, once while its last job is   *)
(* stuck; sizes 1 and 2 fit a slot and can be mistaken for each other when *)
(* padded, 3 is not prefetched.                                            *)
EXTENDS PlePrefetch

MCSizes == 1 .. 3
=============================================================================
