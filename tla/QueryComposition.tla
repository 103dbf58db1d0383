-------------------------- MODULE QueryComposition --------------------------
(***************************************************************************)
(* One /target request (TargetHandler::onQueryComplete) against several    *)
(* tables whose slots are being republished by their loaders meanwhile.   *)
(*                                                                         *)
(* The handler runs in the order of the code: it reads isAvailable() of    *)
(* every table, resizes the output column of each available table, then  *)
(* table by table builds a temporary mapping from the slot (getX():       *)
(* get_protected), runs the batched lookup through it and drops it, and   *)
(* finally assembles one row per phone, where a table's field is absent   *)
(* when `!xAvailable || us_x_[i] == 0`.  Each table has one loader that   *)
(* publishes a new version with Builder::commit (global.exchange).        *)
(*                                                                         *)
(* A version is a natural (0 is the null slot); what it holds is          *)
(* Contents(t, v), a set of phones.  The lookup takes one key per step so *)
(* that commits interleave with it; the prefetch window is checked in    *)
(* RecordLookup and the protection protocol and reclamation in           *)
(* TableRegistry.                                                          *)
(***************************************************************************)
EXTENDS Integers, Sequences, FiniteSets

CONSTANTS
  TableOrder,    \* the tables in the order onQueryComplete visits them
  Request,       \* pn_: the phones of the request, a sequence
  MaxVersion,    \* bound on the versions each loader publishes
  Contents(_, _) \* Contents(t, v): the phones version v of table t holds

Tables == {TableOrder[k] : k \in DOMAIN TableOrder}
N == Len(Request)
NULL == 0
NoHandle == -1   \* no temporary mapping exists
Versions == 0 .. MaxVersion

VARIABLES
  slot,     \* per table: the std::atomic<Data*> global (a version or NULL)
  stage,    \* "check", "lookup", "rows", "done"
  k,        \* index into TableOrder of the table being checked / looked up
  avail,    \* per table: xAvailable
  availV,   \* per table: the slot isAvailable() saw (history)
  col,      \* per table: us_x_, the output column (<<>> when not resized)
  handle,   \* per table: data_ of the temporary mapping, or NoHandle
  pos,      \* per table: keys of the batch looked up so far
  seen,     \* per table and key: the version that key was looked up in
  row,      \* next row of the output loop
  resp,     \* the assembled rows: per row, per table "present" / "absent"
  ub        \* an out-of-range element of an output column was read

vars == <<slot, stage, k, avail, availV, col, handle, pos, seen, row, resp, ub>>

Init ==
  /\ slot \in [Tables -> Versions]
  /\ stage = "check"
  /\ k = 1
  /\ avail = [t \in Tables |-> FALSE]
  /\ availV = [t \in Tables |-> NULL]
  /\ col = [t \in Tables |-> <<>>]
  /\ handle = [t \in Tables |-> NoHandle]
  /\ pos = [t \in Tables |-> 0]
  /\ seen = [t \in Tables |-> [i \in 1 .. N |-> NULL]]
  /\ row = 1
  /\ resp = <<>>
  /\ ub = FALSE

-----------------------------------------------------------------------------
(* The loaders                                                             *)

\* Builder::commit: `global.exchange(data.release())` publishes the next
\* version and retires the veteran (the retire is TableRegistry's).
Commit(t) ==
  /\ slot[t] < MaxVersion
  /\ slot' = [slot EXCEPT ![t] = @ + 1]
  /\ UNCHANGED <<stage, k, avail, availV, col, handle, pos, seen, row, resp, ub>>

-----------------------------------------------------------------------------
(* The handler                                                             *)

\* Mutant: the copy-pasted if/else sets the flag to true in both branches.
CheckAvailableAlways ==
  /\ stage = "check" /\ k <= Len(TableOrder)
  /\ LET t == TableOrder[k] IN
       /\ avail' = [avail EXCEPT ![t] = TRUE]
       /\ availV' = [availV EXCEPT ![t] = slot[t]]
  /\ k' = k + 1
  /\ UNCHANGED <<slot, stage, col, handle, pos, seen, row, resp, ub>>

\* `if (LIKELY(XMapping::isAvailable())) xAvailable = true; else ... false;`
CheckAvailable ==
  /\ stage = "check" /\ k <= Len(TableOrder)
  /\ LET t == TableOrder[k] IN
       /\ avail' = [avail EXCEPT ![t] = slot[t] # NULL]
       /\ availV' = [availV EXCEPT ![t] = slot[t]]
  /\ k' = k + 1
  /\ UNCHANGED <<slot, stage, col, handle, pos, seen, row, resp, ub>>

\* Mutant: the columns are sized one short, `resize(N - 1)`.
ResizeShort ==
  /\ stage = "check" /\ k > Len(TableOrder)
  /\ col' = [t \in Tables |-> IF avail[t] THEN [i \in 1 .. N - 1 |-> 0] ELSE <<>>]
  /\ stage' = "lookup"
  /\ k' = 1
  /\ UNCHANGED <<slot, avail, availV, handle, pos, seen, row, resp, ub>>

\* `if (xAvailable) us_x_.resize(N);`: a value-initialised column.
Resize ==
  /\ stage = "check" /\ k > Len(TableOrder)
  /\ col' = [t \in Tables |-> IF avail[t] THEN [i \in 1 .. N |-> 0] ELSE <<>>]
  /\ stage' = "lookup"
  /\ k' = 1
  /\ UNCHANGED <<slot, avail, availV, handle, pos, seen, row, resp, ub>>

\* `if (xAvailable)` is false: the table's lookup is skipped.
SkipTable ==
  /\ stage = "lookup" /\ k <= Len(TableOrder)
  /\ ~avail[TableOrder[k]]
  /\ k' = k + 1
  /\ UNCHANGED <<slot, stage, avail, availV, col, handle, pos, seen, row, resp, ub>>

\* `XMapping::getX()`: the mapping constructor takes
\* `holder_.get_protected(global)`, the slot as it is now.
GetHandle ==
  /\ stage = "lookup" /\ k <= Len(TableOrder)
  /\ LET t == TableOrder[k] IN
       /\ avail[t] /\ handle[t] = NoHandle /\ pos[t] = 0
       /\ handle' = [handle EXCEPT ![t] = slot[t]]
  /\ UNCHANGED <<slot, stage, k, avail, availV, col, pos, seen, row, resp, ub>>

\* Mutant: each key re-reads the slot (a getX() per window) instead of
\* the version the mapping holds.
LookupKeyReload ==
  /\ stage = "lookup" /\ k <= Len(TableOrder)
  /\ LET t == TableOrder[k]
         i == pos[t] + 1 IN
       /\ avail[t] /\ handle[t] # NoHandle /\ pos[t] < N
       /\ col' = [col EXCEPT ![t][i] = IF Request[i] \in Contents(t, slot[t]) THEN 1 ELSE 0]
       /\ seen' = [seen EXCEPT ![t][i] = slot[t]]
       /\ pos' = [pos EXCEPT ![t] = i]
  /\ UNCHANGED <<slot, stage, k, avail, availV, handle, row, resp, ub>>

\* getXs(N, pn_.data(), us_x_.data()) on data_: one key of the batch is
\* found (1) or not (0) in the version the mapping protects.  Nothing
\* tests data_ for null: a lookup through a NULL slot is a null
\* dereference, recorded in `seen` as a key looked up in version NULL.
LookupKey ==
  /\ stage = "lookup" /\ k <= Len(TableOrder)
  /\ LET t == TableOrder[k]
         i == pos[t] + 1 IN
       /\ avail[t] /\ handle[t] # NoHandle /\ pos[t] < N
       /\ col' = [col EXCEPT ![t][i] = IF Request[i] \in Contents(t, handle[t]) THEN 1 ELSE 0]
       /\ seen' = [seen EXCEPT ![t][i] = handle[t]]
       /\ pos' = [pos EXCEPT ![t] = i]
  /\ UNCHANGED <<slot, stage, k, avail, availV, handle, row, resp, ub>>

\* The temporary mapping is destroyed once getXs returns; the next table.
ReleaseHandle ==
  /\ stage = "lookup" /\ k <= Len(TableOrder)
  /\ LET t == TableOrder[k] IN
       /\ avail[t] /\ pos[t] = N
       /\ handle' = [handle EXCEPT ![t] = NoHandle]
  /\ k' = k + 1
  /\ UNCHANGED <<slot, stage, avail, availV, col, pos, seen, row, resp, ub>>

\* ResponseBuilder(...).status(200).send(): the row loop starts.
StartRows ==
  /\ stage = "lookup" /\ k > Len(TableOrder)
  /\ stage' = "rows"
  /\ UNCHANGED <<slot, k, avail, availV, col, handle, pos, seen, row, resp, ub>>

\* Mutant: `us_x_[i] == 0 || !xAvailable`, the operands swapped.
ColumnReadSwapped(t, i) == TRUE

\* `!xAvailable || us_x_[i] == 0`: the column is read only when the table
\* was available.
ColumnRead(t, i) == avail[t]

\* The field of table t in row i: absent unless available and found.
Field(t, i) ==
  IF ~avail[t] THEN "absent" ELSE IF col[t][i] = 0 THEN "absent" ELSE "present"

\* One iteration of `for (size_t i = 0; i < N; ++i)`: every table's field
\* of the row is formatted and appended to the record.
AssembleRow ==
  /\ stage = "rows" /\ row <= N
  /\ resp' = Append(resp, [t \in Tables |-> Field(t, row)])
  /\ ub' = (ub \/ \E t \in Tables : ColumnRead(t, row) /\ row \notin DOMAIN col[t])
  /\ row' = row + 1
  /\ UNCHANGED <<slot, stage, k, avail, availV, col, handle, pos, seen>>

\* `downstream_->sendBody(...); downstream_->sendEOM();`
SendRecord ==
  /\ stage = "rows" /\ row > N
  /\ stage' = "done"
  /\ UNCHANGED <<slot, k, avail, availV, col, handle, pos, seen, row, resp, ub>>

Handler ==
  \/ CheckAvailable \/ Resize \/ SkipTable \/ GetHandle \/ LookupKey
  \/ ReleaseHandle \/ StartRows \/ AssembleRow \/ SendRecord

Next == Handler \/ \E t \in Tables : Commit(t)

\* The request runs on a worker thread that is never blocked (onQueryComplete
\* takes no lock), so the handler is weakly fair; the loaders are not.
Spec == Init /\ [][Next]_vars /\ WF_vars(Handler)

-----------------------------------------------------------------------------
(* Properties                                                              *)

TypeOK ==
  /\ slot \in [Tables -> Versions]
  /\ stage \in {"check", "lookup", "rows", "done"}
  /\ k \in 1 .. Len(TableOrder) + 1
  /\ avail \in [Tables -> BOOLEAN] /\ availV \in [Tables -> Versions]
  /\ \A t \in Tables : col[t] \in {<<>>} \cup [1 .. N -> {0, 1}]
  /\ handle \in [Tables -> Versions \cup {NoHandle}] /\ pos \in [Tables -> 0 .. N]
  /\ seen \in [Tables -> [1 .. N -> Versions]]
  /\ row \in 1 .. N + 1 /\ resp \in Seq([Tables -> {"present", "absent"}])
  /\ ub \in BOOLEAN

\* The row loop never reads an element of an output column that was not
\* resized because its table was unavailable at the top of the request.
NoUnsizedColumnRead == ~ub

\* spec 5 and 8: within one protected handle all reads see one version,
\* whatever loader commits while the batch is being looked up.
OneVersionPerLookup ==
  \A t \in Tables : \A i, j \in 1 .. pos[t] : seen[t][i] = seen[t][j]

\* spec 4.11 and 8: every field of the answer is "present" exactly when the
\* table was available and the phone is in one non-null version of it
\* that was published no earlier than the isAvailable() check, and
\* "absent" for a table that was unavailable, however the loaders'
\* commits interleave with the request.
ResponseMatchesSnapshot ==
  stage = "done" =>
    \A i \in 1 .. N, t \in Tables :
      IF avail[t]
        THEN /\ seen[t][i] # NULL /\ availV[t] <= seen[t][i]
             /\ resp[i][t] = IF Request[i] \in Contents(t, seen[t][i])
                               THEN "present" ELSE "absent"
        ELSE resp[i][t] = "absent"
====
