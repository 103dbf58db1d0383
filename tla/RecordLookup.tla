---------------------------- MODULE RecordLookup ----------------------------
(***************************************************************************)
(* The seven single-dictionary tables of src/callfwd: DNC and Toll-free   *)
(* (membership, the lookup writes 1 or 0) and Youmail, Geo, FTC, F404 and *)
(* F606 (records; a miss zeroes the record's key field and leaves the     *)
(* rest as it was).  One load of one table by Builder::addRow, then       *)
(* Builder::commit, then one batched Data::getX over a request, in windows *)
(* of min(N, prefetch) keys.                                               *)
(*                                                                         *)
(* Geo is keyed by NPA-NXX, pn / 10000; the others by the phone itself.   *)
(* A row is its key column, as addRow has parsed it, and a payload model  *)
(* value standing for the other columns.  F404 and F606 return silently   *)
(* on a duplicate key or a full table; the others throw, which ends the   *)
(* load.                                                                   *)
(***************************************************************************)
EXTENDS Naturals, Sequences, FiniteSets, TLC

CONSTANTS
  Tables,          \* tables that may be loaded
  Phones,          \* phones a request may carry (10-digit integers)
  RowPhones,       \* phones whose key a CSV row may carry
  Payloads,        \* payload model values
  NoPayload,       \* the payload fields of a zero-filled record
  MaxRows,         \* stands for MAXROWS
  MaxAdds,         \* bound on addRow calls
  MaxBatch,        \* bound on the phones of one request
  PrefetchValues   \* values of FLAGS_x_f14map_prefetch

ASSUME PrefetchValues \subseteq Nat \ {0} /\ NoPayload \notin Payloads

MemberTables == {"dnc", "tollfree"}
LenientTables == {"f404", "f606"}

\* The key a table's getX looks a phone up by (GeoMapping: `pn[i] / 10000`).
Key(t, p) == IF t = "geo" THEN p \div 10000 ELSE p

Rows(t) == [key : {Key(t, p) : p \in RowPhones}, v : Payloads]
Outputs == [key : Nat, v : Payloads \cup {NoPayload}]
Requests == UNION {[1 .. n -> Phones] : n \in 1 .. MaxBatch}

VARIABLES
  table,     \* the table being loaded and queried
  phase,     \* "load", "failed" (addRow threw), "lookup", "done"
  dict,      \* Data::dict: key -> payload
  nrows,     \* pnColumn.size()
  offered,   \* rows addRow returned from without throwing
  req,       \* the phones of the request
  prefetch,  \* FLAGS_x_f14map_prefetch
  pos,       \* keys already looked up
  out        \* the output column

vars == <<table, phase, dict, nrows, offered, req, prefetch, pos, out>>

Init ==
  /\ table \in Tables
  /\ phase = "load"
  /\ dict = [k \in {} |-> NoPayload]
  /\ nrows = 0
  /\ offered = <<>>
  /\ req \in Requests
  /\ prefetch \in PrefetchValues
  /\ pos = 0
  \* onQueryComplete resizes a fresh column: records are zero-filled.
  /\ out = [i \in DOMAIN req |-> [key |-> 0, v |-> NoPayload]]

-----------------------------------------------------------------------------
(* Builder::addRow                                                         *)

Insert(r) ==
  /\ dict' = (r.key :> r.v) @@ dict
  /\ nrows' = nrows + 1

\* Mutant: the row limit is tested with > instead of >=.
AddRowLateLimit(r) ==
  /\ phase = "load" /\ Len(offered) < MaxAdds
  /\ IF r.key \in DOMAIN dict \/ nrows > MaxRows
       THEN /\ IF table \in LenientTables
                 THEN offered' = Append(offered, r) /\ UNCHANGED phase
               ELSE phase' = "failed" /\ UNCHANGED offered
            /\ UNCHANGED <<dict, nrows>>
     ELSE /\ Insert(r) /\ offered' = Append(offered, r) /\ UNCHANGED phase
  /\ UNCHANGED <<table, req, prefetch, pos, out>>

\* Mutant: a duplicate key is dropped silently by a throwing table.
AddRowDupIgnored(r) ==
  /\ phase = "load" /\ Len(offered) < MaxAdds
  /\ IF r.key \in DOMAIN dict \/ nrows >= MaxRows
       THEN /\ phase' = IF r.key \in DOMAIN dict THEN phase ELSE "failed"
            /\ offered' = IF r.key \in DOMAIN dict THEN Append(offered, r) ELSE offered
            /\ UNCHANGED <<dict, nrows>>
     ELSE /\ Insert(r) /\ offered' = Append(offered, r) /\ UNCHANGED phase
  /\ UNCHANGED <<table, req, prefetch, pos, out>>

\* DncMapping, TollFreeMapping, YoumailMapping, GeoMapping, FtcMapping:
\* `if (dict.count(key)) throw`, `if (pnColumn.size() >= MAXROWS) throw`,
\* else emplace and append.  F404Mapping, F606Mapping: the same two tests
\* `return *this` instead of throwing.
AddRow(r) ==
  /\ phase = "load" /\ Len(offered) < MaxAdds
  /\ IF r.key \in DOMAIN dict \/ nrows >= MaxRows
       THEN /\ IF table \in LenientTables
                 THEN offered' = Append(offered, r) /\ UNCHANGED phase
               ELSE phase' = "failed" /\ UNCHANGED offered
            /\ UNCHANGED <<dict, nrows>>
     ELSE /\ Insert(r) /\ offered' = Append(offered, r) /\ UNCHANGED phase
  /\ UNCHANGED <<table, req, prefetch, pos, out>>

\* Builder::commit: build the draft and publish it.
Commit ==
  /\ phase = "load"
  /\ phase' = "lookup"
  /\ UNCHANGED <<table, dict, nrows, offered, req, prefetch, pos, out>>

-----------------------------------------------------------------------------
(* Data::getX: the fill step of each table for one key                     *)

FillDnc(p, o) == [o EXCEPT !.key = IF p \in DOMAIN dict THEN 1 ELSE 0]
FillTollFree(p, o) == [o EXCEPT !.key = IF p \in DOMAIN dict THEN 1 ELSE 0]

\* A record hit copies the stored record; a miss zeroes the key field.
FillRecord(k, o) ==
  IF k \in DOMAIN dict THEN [key |-> k, v |-> dict[k]] ELSE [o EXCEPT !.key = 0]

FillYoumail(p, o) == FillRecord(p, o)
FillFtc(p, o) == FillRecord(p, o)
FillF404(p, o) == FillRecord(p, o)
FillF606(p, o) == FillRecord(p, o)

\* Mutant: the NPA-NXX-X divisor in place of NPA-NXX.
FillGeoThreeDigits(p, o) == FillRecord(p \div 1000, o)

FillGeo(p, o) == FillRecord(p \div 10000, o)

Fill(p, o) ==
  CASE table = "dnc"      -> FillDnc(p, o)
    [] table = "tollfree" -> FillTollFree(p, o)
    [] table = "youmail"  -> FillYoumail(p, o)
    [] table = "geo"      -> FillGeo(p, o)
    [] table = "ftc"      -> FillFtc(p, o)
    [] table = "f404"     -> FillF404(p, o)
    [] table = "f606"     -> FillF606(p, o)

\* `M = std::min(N, prefetch)` keys per pass.
WindowSize(n, pf) == IF n < pf THEN n ELSE pf

\* One pass of the `while (N > 0)` loop: prehash M keys, then find each
\* and fill its output, then advance pn, out and N by M.
\* Mutant: `N -= M` left out of the loop, so pos never advances.
LookupWindowNoAdvance ==
  /\ phase = "lookup" /\ pos < Len(req)
  /\ LET m == WindowSize(Len(req) - pos, prefetch) IN
       out' = [i \in DOMAIN out |->
                IF pos < i /\ i <= pos + m THEN Fill(req[i], out[i]) ELSE out[i]]
  /\ UNCHANGED <<table, phase, dict, nrows, offered, req, prefetch, pos>>

LookupWindow ==
  /\ phase = "lookup" /\ pos < Len(req)
  /\ LET m == WindowSize(Len(req) - pos, prefetch) IN
       /\ out' = [i \in DOMAIN out |->
                   IF pos < i /\ i <= pos + m THEN Fill(req[i], out[i]) ELSE out[i]]
       /\ pos' = pos + m
  /\ UNCHANGED <<table, phase, dict, nrows, offered, req, prefetch>>

LookupDone ==
  /\ phase = "lookup" /\ pos = Len(req)
  /\ phase' = "done"
  /\ UNCHANGED <<table, dict, nrows, offered, req, prefetch, pos, out>>

Next ==
  \/ \E r \in Rows(table) : AddRow(r)
  \/ Commit
  \/ LookupWindow
  \/ LookupDone

\* getX is one call that runs its while loop to the end, so the lookup
\* steps are weakly fair; the loader may stop before commit, so the load
\* steps are not.
Spec == Init /\ [][Next]_vars /\ WF_vars(LookupWindow \/ LookupDone)

-----------------------------------------------------------------------------
(* Properties                                                              *)

TypeOK ==
  /\ table \in Tables
  /\ phase \in {"load", "failed", "lookup", "done"}
  /\ DOMAIN dict \subseteq {Key(table, p) : p \in RowPhones}
  /\ \A k \in DOMAIN dict : dict[k] \in Payloads
  /\ nrows = Cardinality(DOMAIN dict) /\ nrows <= MaxRows
  /\ offered \in Seq(Rows(table)) /\ Len(offered) <= MaxAdds
  /\ pos \in 0 .. Len(req)
  /\ out \in [DOMAIN req -> Outputs]

\* spec 3 and 4.6/4.7: the key a table is looked up by, and what a hit and
\* the absent marker are (membership: 1 and 0; record: the stored key and
\* payload, and a record whose key field is 0).
SpecKey(t, p) == IF t = "geo" THEN p \div 10^4 ELSE p
SpecAnswer(t, p, o) ==
  LET k == SpecKey(t, p) IN
    IF t \in MemberTables THEN [o EXCEPT !.key = IF k \in DOMAIN dict THEN 1 ELSE 0]
    ELSE IF k \in DOMAIN dict THEN [key |-> k, v |-> dict[k]]
    ELSE [o EXCEPT !.key = 0]

\* spec 4.2: whatever the request length and the prefetch window, the
\* batched lookup answers every phone as a single lookup of its own key
\* would, and touches each output exactly once.
LookupMatchesSpec ==
  phase = "done" =>
    \A i \in DOMAIN req : out[i] = SpecAnswer(table, req[i], [key |-> 0, v |-> NoPayload])

\* spec 8: every row inserted without an error is found by a later lookup
\* with its payload.  F404 and F606 drop a duplicate or overflowing row
\* without an error (F404Mapping.cpp:137), so this is claimed only of the
\* tables whose addRow throws.
InsertedRowsFound ==
  table \notin LenientTables /\ phase \in {"lookup", "done"} =>
    \A j \in DOMAIN offered :
      offered[j].key \in DOMAIN dict /\ dict[offered[j].key] = offered[j].v

\* The batched getX returns: once the table is committed, every lookup
\* reaches the end of the request, whatever its length and the prefetch
\* window (the `while (N > 0)` loop with `N -= M`).
LookupCompletes == phase = "lookup" ~> phase = "done"
====
