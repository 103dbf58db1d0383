---------------------------- MODULE MCCsvIngest ----------------------------
(* CsvIngest with two row keys as model values. *)
EXTENDS CsvIngest

CONSTANTS k1, k2

MCKeys == {k1, k2}
====
