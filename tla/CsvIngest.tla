----------------------------- MODULE CsvIngest -----------------------------
(***************************************************************************)
(* Chunked CSV ingest of one table: Builder::fromCSV(in, line, limit) of  *)
(* each src/callfwd/*Mapping.cpp, with the part of Builder::addRow that   *)
(* decides whether a row is inserted, rejected or ignored.  The loader    *)
(* that calls fromCSV repeatedly until the stream is exhausted is not in  *)
(* src/; it is modelled from spec.md 4.8 ("consume up to limit lines;    *)
(* update line").                                                          *)
(*                                                                         *)
(* A line is abstracted to what the per-table code looks at:              *)
(*   lead   - its first character: "digit" (0 and 2-9), "one", "plus",    *)
(*            "alpha" (a header or other text) or "empty" (blank line,    *)
(*            where linebuf[0] is the terminating NUL);                    *)
(*   fields - 1 + the number of commas;                                    *)
(*   comma  - whether the line ends with a comma;                         *)
(*   key    - the key addRow derives from it (model value).               *)
(* std::getline(ss, part, ',') yields no part for an empty line and drops *)
(* only a final empty field; folly::split keeps every field.              *)
(* Payload columns are not modelled: only whether they exist is.          *)
(***************************************************************************)
EXTENDS Naturals, FiniteSets

CONSTANTS
  LoadTables,   \* tables whose fromCSV may run: "dnc", "tollfree", "dno",
                \* "lerg", "youmail", "geo", "ftc", "f404" or "f606"
  Leads,        \* first-character classes the input may contain
  FieldCounts,  \* field counts the input may contain
  Keys,         \* keys the rows may carry
  Limit,        \* the `limit` the loader passes to fromCSV
  MaxLines      \* bound on the length of the input stream

Tables == {"dnc", "tollfree", "dno", "lerg", "youmail", "geo", "ftc", "f404", "f606"}

ASSUME /\ LoadTables \subseteq Tables /\ LoadTables # {}
       /\ Leads \subseteq {"digit", "one", "plus", "alpha", "empty"}
       /\ FieldCounts \subseteq Nat \ {0}
       /\ Limit \in Nat \ {0} /\ MaxLines \in Nat

Lines == {l \in [lead : Leads, fields : FieldCounts, comma : BOOLEAN, key : Keys] :
            /\ l.comma => l.fields >= 2
            /\ l.lead = "empty" => l.fields = 1 /\ ~l.comma}

\* The parts the `while (std::getline(ss, part, ','))` loop produces.
GetlineParts(l) ==
  IF l.lead = "empty" THEN 0 ELSE l.fields - (IF l.comma THEN 1 ELSE 0)

\* `linebuf[0] >= '0' && linebuf[0] <= '9'`
DigitLead(l) == l.lead \in {"digit", "one"}

\* std::stoll accepts a leading sign, then digits.
StollParses(l) == l.lead \in {"digit", "one", "plus"}

\* Outcome of the dictionary check in addRow: `dupKind` when the key is
\* already in the dictionary d, otherwise the row is inserted.
Insert(l, d, dupKind) == IF l.key \in d THEN dupKind ELSE "add"

(***************************************************************************)
(* Per-table handling of one line read by fromCSV.  Each returns "skip",  *)
(* "add", "ignore" (addRow returns without inserting), "error" (an        *)
(* exception leaves fromCSV) or "ub" (addRow indexes past the end of the  *)
(* parts vector).                                                          *)
(***************************************************************************)

\* DncMapping: folly::split into uint64_t converts every field (a header
\* or blank line throws a ConversionError); exactly one column is allowed.
DncLine(l, d) ==
  IF l.fields = 1 /\ DigitLead(l) THEN Insert(l, d, "error") ELSE "error"

\* TollFreeMapping: skip a non-digit line; exactly 3 parts; stoll(parts[0]).
TollFreeLine(l, d) ==
  IF ~DigitLead(l) THEN "skip"
  ELSE IF GetlineParts(l) = 3 THEN Insert(l, d, "error") ELSE "error"

\* DnoMapping: as TollFree; the dictionary is the one `dnotype` names.
DnoLine(l, d) ==
  IF ~DigitLead(l) THEN "skip"
  ELSE IF GetlineParts(l) = 3 THEN Insert(l, d, "error") ELSE "error"

\* Mutants of LergLine: the skip test dropped; a duplicate ignored as
\* F404Mapping does.
LergLineNoSkip(l, d) ==
  IF GetlineParts(l) = 10 /\ StollParses(l) THEN Insert(l, d, "error") ELSE "error"
LergLineDupIgnored(l, d) ==
  IF ~DigitLead(l) THEN "skip"
  ELSE IF GetlineParts(l) = 10 THEN Insert(l, d, "ignore") ELSE "error"

\* LergMapping: skip a non-digit line; exactly 10 parts; addRow checks
\* the dictionary the x column selects, then the row limit.
LergLine(l, d) ==
  IF ~DigitLead(l) THEN "skip"
  ELSE IF GetlineParts(l) = 10 THEN Insert(l, d, "error") ELSE "error"

\* YoumailMapping: skip a line not starting with '+'; 5 parts, or 4 when
\* the line ends with ','; addRow strips "+1" and reads rowbuf[0..3] and,
\* for 5 parts, rowbuf[4].
YoumailLine(l, d) ==
  IF l.lead # "plus" THEN "skip"
  ELSE IF GetlineParts(l) = 5 \/ (GetlineParts(l) = 4 /\ l.comma)
         THEN Insert(l, d, "error")
       ELSE "error"

\* GeoMapping: no skip; at least 19 parts; addRow does stoll(rowbuf[0]),
\* the duplicate check, then reads rowbuf[1], [6], [9], [10], [11], [19].
GeoLine(l, d) ==
  IF GetlineParts(l) < 19 THEN "error"
  ELSE IF ~StollParses(l) THEN "error"
  ELSE IF l.key \in d THEN "error"
  ELSE IF GetlineParts(l) < 20 THEN "ub"
  ELSE "add"

\* FtcMapping: split, then skip a non-digit line; at least 5 parts; addRow
\* does stoll(rowbuf[1]), the duplicate check, then reads [2], [3], [5].
FtcLine(l, d) ==
  IF ~DigitLead(l) THEN "skip"
  ELSE IF GetlineParts(l) < 5 THEN "error"
  ELSE IF l.key \in d THEN "error"
  ELSE IF GetlineParts(l) < 6 THEN "ub"
  ELSE "add"

\* F404Mapping: skip a line not starting with '1'; at least 3 parts;
\* addRow returns silently on a duplicate key (the throw is commented out).
F404Line(l, d) ==
  IF l.lead # "one" THEN "skip"
  ELSE IF GetlineParts(l) >= 3 THEN Insert(l, d, "ignore") ELSE "error"

\* F606Mapping: the same code as F404Mapping.
F606Line(l, d) ==
  IF l.lead # "one" THEN "skip"
  ELSE IF GetlineParts(l) >= 3 THEN Insert(l, d, "ignore") ELSE "error"

HandleLine(t, l, d) ==
  CASE t = "dnc"      -> DncLine(l, d)
    [] t = "tollfree" -> TollFreeLine(l, d)
    [] t = "dno"      -> DnoLine(l, d)
    [] t = "lerg"     -> LergLine(l, d)
    [] t = "youmail"  -> YoumailLine(l, d)
    [] t = "geo"      -> GeoLine(l, d)
    [] t = "ftc"      -> FtcLine(l, d)
    [] t = "f404"     -> F404Line(l, d)
    [] t = "f606"     -> F606Line(l, d)

-----------------------------------------------------------------------------
(* The fromCSV loop `for (limit += line; line < limit; ++line)` and the   *)
(* loader around it.                                                       *)

VARIABLES
  table,      \* the table being loaded
  status,     \* "idle" (between calls), "reading" (inside fromCSV),
              \* "done", "failed" (an exception) or "ub"
  line,       \* the caller's `line` counter, passed by reference
  callEnd,    \* `limit` after `limit += line`
  callStart,  \* `line` when the current call began
  nread,      \* lines std::getline has consumed from the stream
  atEOF,      \* in.peek() has returned EOF
  dict,       \* keys in the draft's dictionary
  last        \* the last line handled and what happened to it

vars == <<table, status, line, callEnd, callStart, nread, atEOF, dict, last>>

NoLine == [lead |-> "empty", fields |-> 1, comma |-> FALSE, key |-> CHOOSE k \in Keys : TRUE]

Init ==
  /\ table \in LoadTables
  /\ status = "idle"
  /\ line = 0 /\ callEnd = 0 /\ callStart = 0 /\ nread = 0
  /\ atEOF = FALSE
  /\ dict = {}
  /\ last = [line |-> NoLine, kind |-> "none", dup |-> FALSE]

\* Mutants of CallEnd: `limit` taken as an absolute line number; the
\* offset added twice.
CallEndNoOffset(ln, limit) == limit
CallEndDoubleOffset(ln, limit) == ln + ln + limit

\* `limit += line`
CallEnd(ln, limit) == ln + limit

\* Mutant of InChunk: the loop runs while line <= limit.
InChunkInclusive(ln, end) == ln <= end

\* The loop condition `line < limit`.
InChunk(ln, end) == ln < end

\* The loader calls fromCSV(in, line, Limit) while the stream has data.
Call ==
  /\ status = "idle" /\ ~atEOF
  /\ callStart' = line
  /\ callEnd' = CallEnd(line, Limit)
  /\ status' = "reading"
  /\ UNCHANGED <<table, line, nread, atEOF, dict, last>>

\* The loop condition fails: fromCSV returns after `limit` lines.
ChunkFull ==
  /\ status = "reading" /\ ~InChunk(line, callEnd)
  /\ status' = "idle"
  /\ UNCHANGED <<table, line, callEnd, callStart, nread, atEOF, dict, last>>

\* `if (in.peek() == EOF) break;` -- the stream may end after any line and
\* must end after MaxLines.
PeekEOF ==
  /\ status = "reading" /\ InChunk(line, callEnd)
  /\ status' = "idle" /\ atEOF' = TRUE
  /\ UNCHANGED <<table, line, callEnd, callStart, nread, dict, last>>

\* std::getline, then the table's handling of the line; `++line` runs for
\* a handled or skipped line, an exception leaves `line` at the failing
\* line.
ReadLine(l) ==
  /\ status = "reading" /\ InChunk(line, callEnd)
  /\ nread < MaxLines
  /\ nread' = nread + 1
  /\ LET k == HandleLine(table, l, dict) IN
       /\ last' = [line |-> l, kind |-> k, dup |-> l.key \in dict]
       /\ dict' = IF k = "add" THEN dict \cup {l.key} ELSE dict
       /\ CASE k = "error" -> status' = "failed" /\ line' = line
            [] k = "ub"    -> status' = "ub" /\ line' = line
            [] OTHER       -> status' = status /\ line' = line + 1
  /\ UNCHANGED <<table, callEnd, callStart, atEOF>>

\* The loader stops once a call has met the end of the stream.
Finish ==
  /\ status = "idle" /\ atEOF
  /\ status' = "done"
  /\ UNCHANGED <<table, line, callEnd, callStart, nread, atEOF, dict, last>>

Next ==
  \/ Call
  \/ ChunkFull
  \/ PeekEOF
  \/ \E l \in Lines : ReadLine(l)
  \/ Finish

\* A single loader thread that is never descheduled forever.
Spec == Init /\ [][Next]_vars /\ WF_vars(Next)

-----------------------------------------------------------------------------
(* Properties                                                              *)

TypeOK ==
  /\ table \in LoadTables
  /\ status \in {"idle", "reading", "done", "failed", "ub"}
  /\ {line, callEnd, callStart, nread} \subseteq 0 .. MaxLines + Limit
  /\ atEOF \in BOOLEAN
  /\ dict \subseteq Keys
  /\ last.kind \in {"none", "skip", "add", "ignore", "error", "ub"}

\* spec.md 6: a line that does not start with a digit ('+' for Youmail,
\* '1' for F404/F606) is not data.
SpecDataLine(l) ==
  CASE table = "youmail"          -> l.lead = "plus"
    [] table \in {"f404", "f606"} -> l.lead = "one"
    [] OTHER                      -> DigitLead(l)

\* spec.md 4.8/6: fromCSV skips blank lines and lines that do not start
\* with the table's data character -- a header never inserts a row or
\* aborts the load.
NonDataLinesSkipped ==
  last.kind # "none" /\ ~SpecDataLine(last.line) => last.kind = "skip"

\* spec.md 6 gives each table's columns: addRow never indexes a column
\* that the line does not have, whatever line count fromCSV accepted.
NoMissingColumnRead == status # "ub"

\* spec.md 4.8/8: a data row whose key is already in the dictionary fails
\* the load with DuplicateKey; it is never inserted or dropped silently.
DuplicateKeyRejected ==
  last.dup /\ SpecDataLine(last.line) => last.kind = "error"

\* spec.md 4.8: each fromCSV call consumes at most `limit` lines, and when
\* it returns normally `line` has advanced by exactly the lines it read.
ChunkHonoursLimit ==
  /\ status = "reading" => nread - callStart <= Limit
  /\ status \in {"idle", "done"} => line = nread

\* The loader's repeated fromCSV calls end: the load completes or fails.
LoadTerminates == <>(status \in {"done", "failed", "ub"})

====
