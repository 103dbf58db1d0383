--------------------------- MODULE TableRegistry ---------------------------
(***************************************************************************)
(* One table's version registry (src/callfwd/DncMapping.cpp; the nine     *)
(* other *Mapping.cpp files repeat the same code line for line).          *)
(*                                                                         *)
(* `global` is the std::atomic<Data*> slot of the table.  A writer thread  *)
(* runs Builder::commit: it swaps a fresh Data into the builder, builds   *)
(* the indexes of the old draft, publishes it with global.exchange and    *)
(* retires the veteran to folly's hazard-pointer domain.  It may instead  *)
(* run Builder::build, which returns a private mapping protected by its   *)
(* own holder and retired at once.  A reader thread is one request of     *)
(* TargetHandler::onQueryComplete: it checks isAvailable(), then builds a *)
(* DncMapping from the slot (hazptr_holder::get_protected: load, publish  *)
(* the hazard pointer, re-load and compare, retry), runs the batched      *)
(* lookup on the protected Data and drops the holder.  The domain frees a *)
(* retired Data that no hazard pointer protects.                           *)
(*                                                                         *)
(* Versions are the naturals 1..MaxVersion in creation order; NULL is 0.  *)
(***************************************************************************)
EXTENDS Naturals, FiniteSets

CONSTANTS
  Readers,     \* request-handling threads
  Writers,     \* threads running Builder::commit / Builder::build
  MaxVersion   \* bound on the number of Data objects ever built

ASSUME MaxVersion \in Nat \ {0}

NULL == 0
VersionIds == 1 .. MaxVersion
Threads == Readers \cup Writers

VARIABLES
  global,       \* the atomic slot: NULL or the published version
  vstate,       \* per version: "unused", "building" (Data::build running), "built"
  nextId,       \* next version id to allocate (make_unique<Data>)
  retireCount,  \* number of retire() calls made on each version
  freed,        \* versions the hazard-pointer domain has deleted
  hazptr,       \* per thread: the version its hazptr_holder protects, or NULL
  rpc,          \* reader program counter
  ptr,          \* reader: pointer being protected / data_ of the mapping
  avail,        \* reader: the request's dncAvailable flag
  wpc,          \* writer program counter
  wdata,        \* writer: the Data swapped out of the builder
  veteran       \* writer: the previous occupant returned by exchange

vars == <<global, vstate, nextId, retireCount, freed, hazptr,
          rpc, ptr, avail, wpc, wdata, veteran>>

ReaderPCs == {"idle", "load", "protect", "validate", "reading", "release", "skip"}
WriterPCs == {"idle", "c_build", "c_exchange", "c_retire",
              "l_build", "l_reset", "l_retire", "l_using"}

Init ==
  /\ global = NULL
  /\ vstate = [v \in VersionIds |-> "unused"]
  /\ nextId = 1
  /\ retireCount = [v \in VersionIds |-> 0]
  /\ freed = {}
  /\ hazptr = [t \in Threads |-> NULL]
  /\ rpc = [r \in Readers |-> "idle"]
  /\ ptr = [r \in Readers |-> NULL]
  /\ avail = [r \in Readers |-> FALSE]
  /\ wpc = [w \in Writers |-> "idle"]
  /\ wdata = [w \in Writers |-> NULL]
  /\ veteran = [w \in Writers |-> NULL]

ReaderVars == <<rpc, ptr, avail>>
WriterVars == <<wpc, wdata, veteran>>

-----------------------------------------------------------------------------
(* Reader: one table's part of TargetHandler::onQueryComplete.             *)

\* `dncAvailable = DncMapping::isAvailable()`: the slot is non-null.
CheckAvailable(r) ==
  /\ rpc[r] = "idle"
  /\ avail' = [avail EXCEPT ![r] = (global # NULL)]
  /\ rpc' = [rpc EXCEPT ![r] = IF global # NULL THEN "load" ELSE "skip"]
  /\ UNCHANGED <<global, vstate, nextId, retireCount, freed, hazptr, ptr, WriterVars>>

\* The table is not available: its lookup and fields are skipped.
SkipTable(r) ==
  /\ rpc[r] = "skip"
  /\ rpc' = [rpc EXCEPT ![r] = "idle"]
  /\ UNCHANGED <<global, vstate, nextId, retireCount, freed, hazptr, ptr, avail, WriterVars>>

\* get_protected: `T* ptr = src.load()`.
LoadSlot(r) ==
  /\ rpc[r] = "load"
  /\ ptr' = [ptr EXCEPT ![r] = global]
  /\ rpc' = [rpc EXCEPT ![r] = "protect"]
  /\ UNCHANGED <<global, vstate, nextId, retireCount, freed, hazptr, avail, WriterVars>>

\* Mutant: the hazard pointer is published but never re-checked against
\* the slot (a reader that trusts its first load).
ProtectNoRecheck(r) ==
  /\ rpc[r] = "protect"
  /\ hazptr' = [hazptr EXCEPT ![r] = ptr[r]]
  /\ rpc' = [rpc EXCEPT ![r] = "reading"]
  /\ UNCHANGED <<global, vstate, nextId, retireCount, freed, ptr, avail, WriterVars>>

\* try_protect: publish the hazard pointer for the loaded value.
Protect(r) ==
  /\ rpc[r] = "protect"
  /\ hazptr' = [hazptr EXCEPT ![r] = ptr[r]]
  /\ rpc' = [rpc EXCEPT ![r] = "validate"]
  /\ UNCHANGED <<global, vstate, nextId, retireCount, freed, ptr, avail, WriterVars>>

\* Mutant: on a mismatch the retry keeps the stale pointer.
ValidateKeepStale(r) ==
  /\ rpc[r] = "validate"
  /\ IF global = ptr[r]
       THEN /\ rpc' = [rpc EXCEPT ![r] = "reading"]
            /\ UNCHANGED <<hazptr, ptr>>
       ELSE /\ hazptr' = [hazptr EXCEPT ![r] = NULL]
            /\ rpc' = [rpc EXCEPT ![r] = "protect"]
            /\ UNCHANGED ptr
  /\ UNCHANGED <<global, vstate, nextId, retireCount, freed, avail, WriterVars>>

\* try_protect: re-load the slot; on a mismatch reset the protection and
\* retry with the newly loaded value.
Validate(r) ==
  /\ rpc[r] = "validate"
  /\ IF global = ptr[r]
       THEN /\ rpc' = [rpc EXCEPT ![r] = "reading"]
            /\ UNCHANGED <<hazptr, ptr>>
       ELSE /\ ptr' = [ptr EXCEPT ![r] = global]
            /\ hazptr' = [hazptr EXCEPT ![r] = NULL]
            /\ rpc' = [rpc EXCEPT ![r] = "protect"]
  /\ UNCHANGED <<global, vstate, nextId, retireCount, freed, avail, WriterVars>>

\* getDNCs(N, pn, dnc) on data_: the batched lookup dereferences ptr[r].
Lookup(r) ==
  /\ rpc[r] = "reading"
  /\ rpc' = [rpc EXCEPT ![r] = "release"]
  /\ UNCHANGED <<global, vstate, nextId, retireCount, freed, hazptr, ptr, avail, WriterVars>>

\* The temporary DncMapping is destroyed: its holder clears the hazard.
Release(r) ==
  /\ rpc[r] = "release"
  /\ hazptr' = [hazptr EXCEPT ![r] = NULL]
  /\ ptr' = [ptr EXCEPT ![r] = NULL]
  /\ rpc' = [rpc EXCEPT ![r] = "idle"]
  /\ UNCHANGED <<global, vstate, nextId, retireCount, freed, avail, WriterVars>>

-----------------------------------------------------------------------------
(* Writer: Builder::commit and Builder::build.                             *)

\* Mutant: commit publishes the draft without calling data->build().
SwapDraftNoBuild(w, mode) ==
  /\ wpc[w] = "idle"
  /\ nextId <= MaxVersion
  /\ wdata' = [wdata EXCEPT ![w] = nextId]
  /\ vstate' = [vstate EXCEPT ![nextId] = "building"]
  /\ nextId' = nextId + 1
  /\ wpc' = [wpc EXCEPT ![w] = IF mode = "commit" THEN "c_exchange" ELSE "l_build"]
  /\ UNCHANGED <<global, retireCount, freed, hazptr, veteran, ReaderVars>>

\* `auto data = make_unique<Data>(); std::swap(data, data_);`: the draft
\* leaves the builder and a fresh one replaces it (commit or build()).
SwapDraft(w, mode) ==
  /\ wpc[w] = "idle"
  /\ nextId <= MaxVersion
  /\ wdata' = [wdata EXCEPT ![w] = nextId]
  /\ vstate' = [vstate EXCEPT ![nextId] = "building"]
  /\ nextId' = nextId + 1
  /\ wpc' = [wpc EXCEPT ![w] = IF mode = "commit" THEN "c_build" ELSE "l_build"]
  /\ UNCHANGED <<global, retireCount, freed, hazptr, veteran, ReaderVars>>

\* `data->build()`: Data::build sorts and wires the reverse index.
BuildData(w) ==
  /\ wpc[w] \in {"c_build", "l_build"}
  /\ vstate' = [vstate EXCEPT ![wdata[w]] = "built"]
  /\ wpc' = [wpc EXCEPT ![w] = IF wpc[w] = "c_build" THEN "c_exchange" ELSE "l_reset"]
  /\ UNCHANGED <<global, nextId, retireCount, freed, hazptr, wdata, veteran, ReaderVars>>

\* `Data *veteran = global.exchange(data.release())`: one atomic step.
Exchange(w) ==
  /\ wpc[w] = "c_exchange"
  /\ veteran' = [veteran EXCEPT ![w] = global]
  /\ global' = wdata[w]
  /\ wpc' = [wpc EXCEPT ![w] = "c_retire"]
  /\ UNCHANGED <<vstate, nextId, retireCount, freed, hazptr, wdata, ReaderVars>>

\* Mutant: the veteran is dropped without retire().
RetireVeteranLeak(w) ==
  /\ wpc[w] = "c_retire"
  /\ wpc' = [wpc EXCEPT ![w] = "idle"]
  /\ wdata' = [wdata EXCEPT ![w] = NULL]
  /\ veteran' = [veteran EXCEPT ![w] = NULL]
  /\ UNCHANGED <<global, vstate, nextId, retireCount, freed, hazptr, ReaderVars>>

\* `if (veteran) veteran->retire();`
RetireVeteran(w) ==
  /\ wpc[w] = "c_retire"
  /\ retireCount' = IF veteran[w] # NULL
                      THEN [retireCount EXCEPT ![veteran[w]] = @ + 1]
                      ELSE retireCount
  /\ wpc' = [wpc EXCEPT ![w] = "idle"]
  /\ wdata' = [wdata EXCEPT ![w] = NULL]
  /\ veteran' = [veteran EXCEPT ![w] = NULL]
  /\ UNCHANGED <<global, vstate, nextId, freed, hazptr, ReaderVars>>

HolderReset(w) ==
  /\ wpc[w] = "l_reset"
  /\ hazptr' = [hazptr EXCEPT ![w] = wdata[w]]
  /\ wpc' = [wpc EXCEPT ![w] = "l_retire"]
  /\ UNCHANGED <<global, vstate, nextId, retireCount, freed, wdata, veteran, ReaderVars>>

\* DncMapping(unique_ptr<Data>): `data->retire(); data_ = data.release();`
RetireOwned(w) ==
  /\ wpc[w] = "l_retire"
  /\ retireCount' = [retireCount EXCEPT ![wdata[w]] = @ + 1]
  /\ wpc' = [wpc EXCEPT ![w] = "l_using"]
  /\ UNCHANGED <<global, vstate, nextId, freed, hazptr, wdata, veteran, ReaderVars>>

\* Mutant: the private mapping goes away without destroying its holder
\* (a leaked or released DncMapping): its hazard pointer stays published.
DropOwnedKeepHolder(w) ==
  /\ wpc[w] = "l_using"
  /\ wdata' = [wdata EXCEPT ![w] = NULL]
  /\ wpc' = [wpc EXCEPT ![w] = "idle"]
  /\ UNCHANGED <<global, vstate, nextId, retireCount, freed, hazptr, veteran, ReaderVars>>

\* The private mapping returned by build() is destroyed: the defaulted
\* ~DncMapping destroys holder_, which clears its hazard pointer.
DropOwned(w) ==
  /\ wpc[w] = "l_using"
  /\ hazptr' = [hazptr EXCEPT ![w] = NULL]
  /\ wdata' = [wdata EXCEPT ![w] = NULL]
  /\ wpc' = [wpc EXCEPT ![w] = "idle"]
  /\ UNCHANGED <<global, vstate, nextId, retireCount, freed, veteran, ReaderVars>>

-----------------------------------------------------------------------------
(* The hazard-pointer domain deletes a retired object no holder protects.  *)

Protected(v) == \E t \in Threads : hazptr[t] = v

Reclaim(v) ==
  /\ retireCount[v] > 0
  /\ v \notin freed
  /\ ~Protected(v)
  /\ freed' = freed \cup {v}
  /\ UNCHANGED <<global, vstate, nextId, retireCount, hazptr, ReaderVars, WriterVars>>

ReaderStep(r) ==
  \/ CheckAvailable(r) \/ SkipTable(r) \/ LoadSlot(r) \/ Protect(r)
  \/ Validate(r) \/ Lookup(r) \/ Release(r)

WriterStep(w) ==
  \/ \E mode \in {"commit", "build"} : SwapDraft(w, mode)
  \/ BuildData(w) \/ Exchange(w) \/ RetireVeteran(w)
  \/ HolderReset(w) \/ RetireOwned(w) \/ DropOwned(w)

Next ==
  \/ \E r \in Readers : ReaderStep(r)
  \/ \E w \in Writers : WriterStep(w)
  \/ \E v \in VersionIds : Reclaim(v)

\* Threads are scheduled by the OS: every runnable thread eventually runs.
Fairness ==
  /\ \A r \in Readers : WF_vars(ReaderStep(r))
  /\ \A w \in Writers : WF_vars(WriterStep(w))

Spec == Init /\ [][Next]_vars /\ Fairness

-----------------------------------------------------------------------------
(* Properties                                                              *)

\* Every variable stays in its range, and a writer thread that finished a
\* commit or dropped the mapping of a build() keeps no Data and no hazard.
TypeOK ==
  /\ global \in VersionIds \cup {NULL}
  /\ vstate \in [VersionIds -> {"unused", "building", "built"}]
  /\ nextId \in 1 .. MaxVersion + 1
  /\ retireCount \in [VersionIds -> Nat]
  /\ freed \subseteq VersionIds
  /\ hazptr \in [Threads -> VersionIds \cup {NULL}]
  /\ rpc \in [Readers -> ReaderPCs]
  /\ ptr \in [Readers -> VersionIds \cup {NULL}]
  /\ avail \in [Readers -> BOOLEAN]
  /\ wpc \in [Writers -> WriterPCs]
  /\ wdata \in [Writers -> VersionIds \cup {NULL}]
  /\ veteran \in [Writers -> VersionIds \cup {NULL}]
  \* A writer between two operations owns no Data and holds no hazard.
  /\ \A w \in Writers :
       wpc[w] = "idle" => wdata[w] = NULL /\ veteran[w] = NULL /\ hazptr[w] = NULL

ReadersSeeBuilt ==
  \A r \in Readers : rpc[r] = "reading" => vstate[ptr[r]] = "built"

\* Each Data is retired at most once (no double delete), and every Data
\* that is no longer published nor held by a writer mid-commit has been
\* retired (no leak), also when two commits race on the slot.
RetiredExactlyOnce ==
  \A v \in VersionIds :
    /\ retireCount[v] <= 1
    /\ ( /\ vstate[v] = "built"
         /\ v # global
         /\ \A w \in Writers : v \notin {wdata[w], veteran[w]} )
       => retireCount[v] = 1

\* Refinement: the slot, with readers' handles and deleted versions, behaves
\* as VersionSlot.  A reader's handle is the pointer get_protected returned,
\* from the moment the re-check succeeds until the holder is destroyed: the
\* handle must be the slot's value at the instant it is taken, and no
\* version is deleted while current or held.
HeldHandle == [r \in Readers |->
                 IF rpc[r] \in {"reading", "release"} THEN ptr[r] ELSE NULL]

Abstract == INSTANCE VersionSlot WITH slot <- global, held <- HeldHandle, dead <- freed

ImplementsVersionSlot == Abstract!Spec

\* A reader that starts a lookup finishes it: the get_protected retry
\* loop terminates once the slot stops changing.
ReaderCompletes ==
  \A r \in Readers : rpc[r] = "load" ~> rpc[r] = "idle"

=============================================================================
