------------------------- MODULE MCTableRegistry -------------------------
(* Two request threads and two builder threads racing on one table slot. *)
EXTENDS TableRegistry

CONSTANTS r1, r2, w1, w2

MCReaders == {r1, r2}
MCWriters == {w1, w2}

=============================================================================
