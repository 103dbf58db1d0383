---------------------------- MODULE MCQueryBatch ----------------------------
(* QueryBatch over three phones of NPA 201/202: one covered by rows of   *)
(* every granularity, one only by its NPA and NPA-NXX, one by none.      *)
EXTENDS QueryBatch

MCDnoRows ==
  { [level |-> "dno_npa",       npa |-> 201, nxx |-> 0,   x |-> 0, line |-> 0],
    [level |-> "dno_npa_nxx",   npa |-> 201, nxx |-> 555, x |-> 0, line |-> 0],
    [level |-> "dno_npa_nxx_x", npa |-> 201, nxx |-> 555, x |-> 1, line |-> 0],
    [level |-> "dno",           npa |-> 201, nxx |-> 555, x |-> 1, line |-> 234] }

MCLergRows ==
  { [npa |-> 201, nxx |-> 555, x |-> 0, hasX |-> FALSE],
    [npa |-> 201, nxx |-> 555, x |-> 1, hasX |-> TRUE],
    [npa |-> 202, nxx |-> 555, x |-> 0, hasX |-> FALSE] }
====
