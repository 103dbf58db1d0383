------------------------- MODULE MCQueryComposition -------------------------
EXTENDS QueryComposition

CONSTANTS p1, p2

MCTableOrder == <<"dnc", "tollfree", "youmail">>
MCRequest == <<p1, p2>>

\* Version 1 of a table holds p1 only, version 2 holds p2 only, so a batch
\* that mixed them would show; the null slot holds nothing.
MCContents(t, v) == CASE v = 1 -> {p1}
                      [] v = 2 -> {p2}
                      [] OTHER -> {}
====
