----------------------------- MODULE QueryBatch -----------------------------
(***************************************************************************)
(* The prefix-keyed lookups of one /target request: the DNO and LERG part *)
(* of TargetHandler::onQueryComplete (src/callfwd/ApiHandler.cpp) with    *)
(* DnoMapping::Data::getDNOs and LergMapping::Data::getLergs, and the     *)
(* ingest key each table's Builder computes for a row.                    *)
(*                                                                         *)
(* Phones are real 10-digit numbers below 2^31 (NPA 201/202), so every    *)
(* division and product is the code's own.  The US/CA routing numbers     *)
(* come from PhoneMapping::getRNs, which is not in src/: they are inputs. *)
(* A batched lookup processes min(N, prefetch) keys per window; one       *)
(* window (prehash loop and fill loop) is one step.                        *)
(***************************************************************************)
EXTENDS Naturals, Sequences, FiniteSets, SequencesExt

CONSTANTS
  Phones,          \* phone numbers a request may carry
  USRNs,           \* routing numbers getUS().getRNs may return, besides NONE
  CARNs,           \* routing numbers getCA().getRNs may return, besides NONE
  DnoRowChoices,   \* DNO rows the loaded files may hold
  LergRowChoices,  \* LERG rows the loaded file may hold
  MaxBatch,        \* bound on N, the phones of one request
  PrefetchValues,  \* values of --dno/lerg_f14map_prefetch
  OutInit          \* values the dno column holds before getDNOs

NONE == 0   \* PhoneNumber::NONE, and the absent lerg_key

\* `CHECK(FLAGS_dno_f14map_prefetch > 0)` in every DnoMapping constructor.
ASSUME PrefetchValues \subseteq Nat \ {0}

(* Digit groups of a 10-digit phone: NPA, NXX, X (the thousands digit).   *)
Npa(p) == p \div 10000000
Nxx(p) == (p \div 10000) % 1000
Xd(p)  == (p \div 1000) % 10

-----------------------------------------------------------------------------
(* Ingest keys.  A DNO row is [level, npa, nxx, x, line]: the hyphenated   *)
(* prefix of its file (`201`, `201-555`, `201-555-1`, `201-555-1234`).     *)
(* A LERG row is [npa, nxx, x, hasX], hasX false for an empty x column.     *)

\* DnoMapping::Builder::fromCSV: stoll(deleteCharacter(parts[0], '-')).
DnoRowKey(r) ==
  CASE r.level = "dno_npa"       -> r.npa
    [] r.level = "dno_npa_nxx"   -> r.npa * 1000 + r.nxx
    [] r.level = "dno_npa_nxx_x" -> (r.npa * 1000 + r.nxx) * 10 + r.x
    [] r.level = "dno"           -> ((r.npa * 1000 + r.nxx) * 10 + r.x) * 1000 + r.line

\* The dictionary `dnotype` selects in DnoMapping::Builder::addRow.
DnoDict(rows, level) == {DnoRowKey(r) : r \in {q \in rows : q.level = level}}

\* LergMapping::Builder::addRow: the key of dic_npa_nxx (x empty) or of
\* dic_npa_nxx_x.
LergKey(r) ==
  IF ~r.hasX THEN r.npa * 1000 + r.nxx
  ELSE r.npa * 10000 + r.nxx * 10 + r.x

LergDict(rows, fine) == {LergKey(r) : r \in {q \in rows : q.hasX = fine}}

-----------------------------------------------------------------------------
(* One key of the fill loops.                                              *)

\* getDNOs prehash loop: the four keys of pn[i], in the order the fill
\* loop probes them -- NPA, NPA-NXX, NPA-NXX-X, identity.
DnoProbes(p) ==
  << <<"dno_npa", p \div 10000000>>, <<"dno_npa_nxx", p \div 10000>>,
     <<"dno_npa_nxx_x", p \div 1000>>, <<"dno", p>> >>

\* Mutant of DnoFill: the NPA-NXX and NPA-NXX-X divisors exchanged.
DnoFillSwappedDivisors(v, p, rows) ==
  FoldLeft(LAMBDA a, lv : IF a = 0 THEN (IF lv[2] \in DnoDict(rows, lv[1]) THEN 1 ELSE 0) ELSE a,
           v, << <<"dno_npa", p \div 10000000>>, <<"dno_npa_nxx", p \div 1000>>,
                 <<"dno_npa_nxx_x", p \div 10000>>, <<"dno", p>> >>)

\* Mutant of DnoFill: the found key is stored instead of 1.
DnoFillKey(v, p, rows) ==
  FoldLeft(LAMBDA a, lv : IF a = 0 THEN (IF lv[2] \in DnoDict(rows, lv[1]) THEN lv[2] ELSE 0) ELSE a,
           v, DnoProbes(p))

\* getDNOs fill loop body: for each probe, `if (dno[i] == 0)` look the key
\* up and set dno[i] to 1 on a hit, 0 on a miss.  (Two probes compare the
\* iterator with dict.cend(), another map's end; F14's end() is the null
\* ItemIter for every map, so the test is the intended one.)
DnoFill(v, p, rows) ==
  FoldLeft(LAMBDA a, lv : IF a = 0 THEN (IF lv[2] \in DnoDict(rows, lv[1]) THEN 1 ELSE 0) ELSE a,
           v, DnoProbes(p))

\* getLergs, fill loop body: dic_npa_nxx_x at key/1000, and when that
\* leaves lerg_key 0, dic_npa_nxx at key/10000.
LergFill(k, rows) ==
  LET k7 == k \div 1000
      a  == IF k7 \in LergDict(rows, TRUE) THEN k7 ELSE NONE
  IN IF a # NONE THEN a
     ELSE IF k7 \div 10 \in LergDict(rows, FALSE) THEN k7 \div 10 ELSE NONE

\* Mutant of LergKeyOf: the CA routing number is preferred.
LergKeyCaFirst(e) ==
  IF e.ca # NONE THEN e.ca ELSE IF e.us # NONE THEN e.us ELSE e.pn

\* onQueryComplete: `rn = us_rn_[i]; if (rn == NONE) rn = ca_rn_[i];`
\* the search key is rn when it is not NONE, else pn_[i].
LergKeyOf(e) ==
  IF e.us # NONE THEN e.us ELSE IF e.ca # NONE THEN e.ca ELSE e.pn

\* Mutant of WindowSize: one key fewer per window.
WindowSizeShort(n, pf) == IF n < pf THEN n - 1 ELSE pf - 1

\* `size_t M = std::min<size_t>(N, FLAGS_..._f14map_prefetch)`
WindowSize(n, pf) == IF n < pf THEN n ELSE pf

-----------------------------------------------------------------------------
VARIABLES
  req,       \* per phone i: [pn |-> pn_[i], us |-> us_rn_[i], ca |-> ca_rn_[i]]
  dnoRows,   \* rows of the published DNO version
  lergRows,  \* rows of the published LERG version
  prefetch,  \* the prefetch flag
  stage,     \* "dno", "lergkey", "lerg", "done"
  pos,       \* keys already processed by the running lookup (`pn += M`)
  n,         \* keys left (`N -= M`)
  dnoOut,    \* us_dno_
  lergKey,   \* lerg_search_key
  lergOut    \* us_lerg_[i].lerg_key

vars == <<req, dnoRows, lergRows, prefetch, stage, pos, n, dnoOut, lergKey, lergOut>>

Entries == [pn : Phones, us : {NONE} \cup USRNs, ca : {NONE} \cup CARNs]
Requests == UNION {[1 .. k -> Entries] : k \in 1 .. MaxBatch}

\* onQueryComplete after the getRNs calls: us_dno_.resize(N) (zero-filled
\* for a fresh handler; OutInit models the caller's column), us_lerg_ and
\* lerg_search_key resized.
Init ==
  /\ req \in Requests
  /\ dnoRows \in SUBSET DnoRowChoices
  /\ lergRows \in SUBSET LergRowChoices
  /\ prefetch \in PrefetchValues
  /\ stage = "dno" /\ pos = 0 /\ n = Len(req)
  /\ dnoOut \in [1 .. Len(req) -> OutInit]
  /\ lergKey = [i \in 1 .. Len(req) |-> 0]
  /\ lergOut = [i \in 1 .. Len(req) |-> NONE]

InWindow(i) == pos < i /\ i <= pos + WindowSize(n, prefetch)

\* One pass of getDNOs' `while (N > 0)`: prehash and fill M keys.
DnoWindow ==
  /\ stage = "dno" /\ n > 0
  /\ dnoOut' = [i \in DOMAIN dnoOut |->
                  IF InWindow(i) THEN DnoFill(dnoOut[i], req[i].pn, dnoRows) ELSE dnoOut[i]]
  /\ pos' = pos + WindowSize(n, prefetch)
  /\ n' = n - WindowSize(n, prefetch)
  /\ UNCHANGED <<req, dnoRows, lergRows, prefetch, stage, lergKey, lergOut>>

\* getDNOs returns (N == 0); onQueryComplete goes on to the LERG key.
DnoDone ==
  /\ stage = "dno" /\ n = 0
  /\ stage' = "lergkey" /\ pos' = 0 /\ n' = Len(req)
  /\ UNCHANGED <<req, dnoRows, lergRows, prefetch, dnoOut, lergKey, lergOut>>

\* The `for (i < N)` loop filling lerg_search_key.
ComposeLergKey ==
  /\ stage = "lergkey"
  /\ lergKey' = [i \in 1 .. Len(req) |-> LergKeyOf(req[i])]
  /\ stage' = "lerg"
  /\ UNCHANGED <<req, dnoRows, lergRows, prefetch, pos, n, dnoOut, lergOut>>

\* One pass of getLergs' `while (N > 0)`.
LergWindow ==
  /\ stage = "lerg" /\ n > 0
  /\ lergOut' = [i \in DOMAIN lergOut |->
                   IF InWindow(i) THEN LergFill(lergKey[i], lergRows) ELSE lergOut[i]]
  /\ pos' = pos + WindowSize(n, prefetch)
  /\ n' = n - WindowSize(n, prefetch)
  /\ UNCHANGED <<req, dnoRows, lergRows, prefetch, stage, dnoOut, lergKey>>

LergDone ==
  /\ stage = "lerg" /\ n = 0
  /\ stage' = "done"
  /\ UNCHANGED <<req, dnoRows, lergRows, prefetch, pos, n, dnoOut, lergKey, lergOut>>

Next == DnoWindow \/ DnoDone \/ ComposeLergKey \/ LergWindow \/ LergDone

\* The request's event-base thread runs onQueryComplete to its end.
Spec == Init /\ [][Next]_vars /\ WF_vars(Next)

-----------------------------------------------------------------------------
(* Properties, against spec.md 4.5, 4.6 and 4.11 stated on digit groups.  *)

TypeOK ==
  /\ stage \in {"dno", "lergkey", "lerg", "done"}
  /\ pos \in 0 .. MaxBatch /\ n \in 0 .. MaxBatch
  /\ dnoOut \in [1 .. Len(req) -> {0, 1} \cup OutInit]
  /\ lergOut \in [1 .. Len(req) -> {NONE} \cup {LergKey(r) : r \in LergRowChoices}]

\* A DNO row covers a phone when the phone's digit groups agree with the
\* row on every group of the row's granularity.
DnoCovers(r, p) ==
  /\ Npa(p) = r.npa
  /\ r.level # "dno_npa" => Nxx(p) = r.nxx
  /\ r.level \in {"dno_npa_nxx_x", "dno"} => Xd(p) = r.x
  /\ r.level = "dno" => p % 1000 = r.line

\* spec 4.11: the LERG key is us_rn, else ca_rn, else pn.
SpecLergKey(e) == CASE e.us # NONE -> e.us [] e.ca # NONE -> e.ca [] OTHER -> e.pn

\* spec 4.6: the NPA-NXX-X row of the key if any, else its NPA-NXX row.
SpecLerg(k, rows) ==
  LET fine   == {r \in rows : r.hasX /\ <<r.npa, r.nxx, r.x>> = <<Npa(k), Nxx(k), Xd(k)>>}
      coarse == {r \in rows : ~r.hasX /\ <<r.npa, r.nxx>> = <<Npa(k), Nxx(k)>>}
  IN IF fine # {} THEN LergKey(CHOOSE r \in fine : TRUE)
     ELSE IF coarse # {} THEN LergKey(CHOOSE r \in coarse : TRUE)
     ELSE NONE

\* Once getDNOs has returned, every phone's DNO flag is 1 exactly when a
\* row of some granularity covers it (spec 4.5), whatever the prefetch
\* window splits and whatever the loaded rows: the row keys built at
\* ingest and the keys divided out at lookup agree.
DnoMatchesSpec ==
  stage # "dno" =>
    \A i \in 1 .. Len(req) :
      dnoOut[i] = IF \E r \in dnoRows : DnoCovers(r, req[i].pn) THEN 1 ELSE 0

\* When the request completes, every phone's LERG record is the finest
\* row covering its composed key (routing number first, spec 4.11).
LergMatchesSpec ==
  stage = "done" =>
    \A i \in 1 .. Len(req) : lergOut[i] = SpecLerg(SpecLergKey(req[i]), lergRows)

\* The batched lookups terminate: every window makes progress.
BatchCompletes == <>(stage = "done")

====
