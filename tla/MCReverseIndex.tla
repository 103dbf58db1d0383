------------------------- MODULE MCReverseIndex -------------------------
(* Four phones, two routing targets and a 2-bit `next` field             *)
(* (MAXROWS = 3), so a fourth row reaches the row limit.  Targets are    *)
(* small naturals standing for 10-digit numbers: only their order        *)
(* matters to Data::build.                                               *)
EXTENDS ReverseIndex
CONSTANTS p1, p2, p3, p4
MCPhones == {p1, p2, p3, p4}
=============================================================================
