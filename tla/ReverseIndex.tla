---------------------------- MODULE ReverseIndex ----------------------------
(***************************************************************************)
(* The packed reverse index of a mapping (src/callfwd/DncMapping.cpp;     *)
(* the same code is in every *Mapping.cpp that keeps pnColumn/xxxIndex).  *)
(*                                                                         *)
(* Builder::addRow appends {pn, MAXROWS} to pnColumn and {target, MAXROWS} *)
(* to the target column after rejecting a duplicate pn or a full table.   *)
(* Data::build then numbers the target column (next = row), stable-sorts  *)
(* it by (target, next), wires pnColumn[sorted[i].next].next to           *)
(* sorted[i+1].next and collapses the sorted column to one entry per      *)
(* target.  The `next` bitfield is 30 bits wide in the code; here it is   *)
(* NextBits wide, so MAXROWS = 2^NextBits - 1 and a stored row number is  *)
(* truncated modulo 2^NextBits exactly as the bitfield truncates it.      *)
(* Rows are numbered from 0 as in the code; sequences are 1-based.        *)
(***************************************************************************)
EXTENDS Naturals, Sequences, FiniteSets, TLC

CONSTANTS
  Phones,     \* phone numbers offered to addRow
  Targets,    \* target values (rn / dnc) offered to addRow; naturals
  NextBits,   \* width of the `next` bitfield
  MaxAdds     \* bound on addRow calls

ASSUME Targets \subseteq Nat /\ NextBits \in Nat \ {0}

MAXROWS == 2^NextBits - 1
Field(n) == n % 2^NextBits          \* assignment to a NextBits-wide bitfield

VARIABLES
  dict,       \* the F14 map pn -> target
  pnColumn,   \* sequence of [phone, next]
  tgtColumn,  \* the target column (dncIndex): sequence of [phone, next]
  phase,      \* "loading" until Data::build has run, then "built"
  lastError,  \* "none", "duplicate" or "overflow": the last addRow throw
  adds        \* addRow calls made

vars == <<dict, pnColumn, tgtColumn, phase, lastError, adds>>

Init ==
  /\ dict = [p \in {} |-> 0]
  /\ pnColumn = <<>>
  /\ tgtColumn = <<>>
  /\ phase = "loading"
  /\ lastError = "none"
  /\ adds = 0

\* Mutant: the row limit is checked with > instead of >=.
AddRowLateLimit(pn, t) ==
  /\ phase = "loading"
  /\ adds < MaxAdds
  /\ adds' = adds + 1
  /\ IF pn \in DOMAIN dict
       THEN /\ lastError' = "duplicate"
            /\ UNCHANGED <<dict, pnColumn, tgtColumn>>
     ELSE IF Len(pnColumn) > MAXROWS
       THEN /\ lastError' = "overflow"
            /\ UNCHANGED <<dict, pnColumn, tgtColumn>>
     ELSE /\ dict' = [q \in DOMAIN dict \cup {pn} |-> IF q = pn THEN t ELSE dict[q]]
          /\ pnColumn' = Append(pnColumn, [phone |-> pn, next |-> MAXROWS])
          /\ tgtColumn' = Append(tgtColumn, [phone |-> t, next |-> MAXROWS])
          /\ lastError' = "none"
  /\ UNCHANGED phase

\* Builder::addRow(pn, dnc): throw on a duplicate key, then on a full
\* table; otherwise insert into the map and append to both columns.
AddRow(pn, t) ==
  /\ phase = "loading"
  /\ adds < MaxAdds
  /\ adds' = adds + 1
  /\ IF pn \in DOMAIN dict
       THEN /\ lastError' = "duplicate"
            /\ UNCHANGED <<dict, pnColumn, tgtColumn>>
     ELSE IF Len(pnColumn) >= MAXROWS
       THEN /\ lastError' = "overflow"
            /\ UNCHANGED <<dict, pnColumn, tgtColumn>>
     ELSE /\ dict' = [q \in DOMAIN dict \cup {pn} |-> IF q = pn THEN t ELSE dict[q]]
          /\ pnColumn' = Append(pnColumn, [phone |-> pn, next |-> MAXROWS])
          /\ tgtColumn' = Append(tgtColumn, [phone |-> t, next |-> MAXROWS])
          /\ lastError' = "none"
  /\ UNCHANGED phase

-----------------------------------------------------------------------------
(* Data::build, one operator per loop of the code.                         *)

\* `for i < N: tgtColumn[i].next = i`
Numbered(tc) == [i \in 1 .. Len(tc) |-> [tc[i] EXCEPT !.next = Field(i - 1)]]

\* `std::stable_sort(..., cmp)`, cmp ordering by (phone, next); ties keep
\* their original order, so the position is the last sort key.
SortedByTarget(tc) ==
  LET pos == SortSeq([i \in 1 .. Len(tc) |-> i],
                     LAMBDA a, b : \/ tc[a].phone < tc[b].phone
                                   \/ /\ tc[a].phone = tc[b].phone
                                      /\ \/ tc[a].next < tc[b].next
                                         \/ tc[a].next = tc[b].next /\ a < b)
  IN [i \in 1 .. Len(tc) |-> tc[pos[i]]]

\* `for i + 1 < N: pnColumn[s[i].next].next = s[i+1].next`, in order.
RECURSIVE WireFrom(_, _, _)
WireFrom(pc, s, i) ==
  IF i >= Len(s) THEN pc
  ELSE WireFrom([pc EXCEPT ![s[i].next + 1].next = Field(s[i + 1].next)], s, i + 1)

\* `std::unique(..., equal)` + erase: keep the first of each run of phones.
UniqueByPhone(s) ==
  LET firsts == SelectSeq([i \in 1 .. Len(s) |-> i],
                          LAMBDA i : i = 1 \/ s[i].phone # s[i - 1].phone)
  IN [j \in 1 .. Len(firsts) |-> s[firsts[j]]]

\* Builder::commit / build(): `data->build()` runs once on the draft.
Build ==
  /\ phase = "loading"
  /\ LET s == SortedByTarget(Numbered(tgtColumn))
     IN /\ pnColumn' = WireFrom(pnColumn, s, 1)
        /\ tgtColumn' = UniqueByPhone(s)
  /\ phase' = "built"
  /\ UNCHANGED <<dict, lastError, adds>>

Next ==
  \/ \E pn \in Phones, t \in Targets : AddRow(pn, t)
  \/ Build

Spec == Init /\ [][Next]_vars

-----------------------------------------------------------------------------
(* Properties                                                              *)

TypeOK ==
  /\ DOMAIN dict \subseteq Phones /\ \A p \in DOMAIN dict : dict[p] \in Targets
  /\ pnColumn \in Seq([phone : Phones, next : 0 .. MAXROWS])
  /\ Len(pnColumn) <= MAXROWS
  /\ tgtColumn \in Seq([phone : Targets, next : 0 .. MAXROWS])
  /\ phase \in {"loading", "built"}
  /\ lastError \in {"none", "duplicate", "overflow"}
  /\ adds \in 0 .. MaxAdds

\* Target of row j (0-based), as the map records it.
RowTarget(j) == dict[pnColumn[j + 1].phone]

\* The row numbers met following `next` from row n until the MAXROWS
\* sentinel; `fuel` stops a walk that would loop.
RECURSIVE ChainFrom(_, _)
ChainFrom(n, fuel) ==
  IF n = MAXROWS \/ fuel = 0 \/ n >= Len(pnColumn) THEN <<>>
  ELSE <<n>> \o ChainFrom(pnColumn[n + 1].next, fuel - 1)

\* Reference: all rows ordered by target, ties in insertion order.
RowsByTarget ==
  SortSeq([i \in 1 .. Len(pnColumn) |-> i - 1],
          LAMBDA a, b : RowTarget(a) < RowTarget(b) \/ (RowTarget(a) = RowTarget(b) /\ a < b))

FirstRowOf(t) == CHOOSE j \in 0 .. Len(pnColumn) - 1 :
                   /\ RowTarget(j) = t
                   /\ \A k \in 0 .. j - 1 : RowTarget(k) # t

\* After Data::build the index is what a reverse scan relies on: the
\* collapsed target column holds each target once, in increasing order,
\* each entry naming the first row inserted with that target; and the
\* `next` links, followed from the first entry, visit every row exactly
\* once, ordered by target and then by insertion, ending at MAXROWS.
IndexWellFormed ==
  phase = "built" =>
    /\ {e.phone : e \in {tgtColumn[i] : i \in 1 .. Len(tgtColumn)}}
         = {dict[p] : p \in DOMAIN dict}
    /\ \A i \in 1 .. Len(tgtColumn) - 1 : tgtColumn[i].phone < tgtColumn[i + 1].phone
    /\ \A i \in 1 .. Len(tgtColumn) : tgtColumn[i].next = FirstRowOf(tgtColumn[i].phone)
    /\ Len(pnColumn) > 0 =>
         ChainFrom(tgtColumn[1].next, Len(pnColumn) + 1) = RowsByTarget

-----------------------------------------------------------------------------
(* spec.md 4.3: inverse_rns walks the collapsed column from the first      *)
(* entry >= lo and, for each entry below hi, follows the list rooted at    *)
(* its `next` "until primary[j].next == SENTINEL".                         *)

SpecInverseScan(lo, hi) ==
  LET heads == SelectSeq(tgtColumn, LAMBDA e : lo <= e.phone /\ e.phone < hi)
      RECURSIVE Cat(_)
      Cat(i) == IF i > Len(heads) THEN <<>>
                ELSE ChainFrom(heads[i].next, Len(pnColumn) + 1) \o Cat(i + 1)
  IN Cat(1)

\* spec.md 8: a reverse scan over the whole range yields exactly the
\* inserted pairs, each once.
SpecFullScanExact ==
  phase = "built" =>
    LET lo == 0
        hi == 1 + (CHOOSE m \in Targets : \A t \in Targets : t <= m)
        sc == SpecInverseScan(lo, hi)
    IN /\ Len(sc) = Len(pnColumn)
       /\ {sc[i] : i \in 1 .. Len(sc)} = 0 .. Len(pnColumn) - 1

=============================================================================
