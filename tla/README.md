# Verification of monorel

monorel is a small relational database in C, a stack of five single-threaded
libraries.  This directory holds TLA+ modules that model all five, the TLC
configurations that check them on small instances, and TLAPS proofs about all
of them, among them that BF, PF, HF and AM implement what they promise.

Paths below are relative to `src/`.

## 1. The system

```
FE  relations, catalogs, DDL and DML calls          fe/fe.c
AM  B+ tree indexes            HF  heap files       am/am.c   hf/hf.c, hf/bitmap.c
PF  paged files, table of open files                pf/pf.c
BF  buffer pool of page frames                      bf/bf.c
    Unix files (open, creat, pread, pwrite, remove)
```

Every layer calls only the one below (FE calls HF and AM; HF and AM call PF).
There are no threads and no callbacks.  What makes the code hard is shared state
and sequences of calls: page pointers into frames that may change hands, pins
that must be given back, table entries and descriptors that are used again,
headers cached in memory, calls that fail half way, a process that dies between
two writes.

| part | state | operations | right when |
|---|---|---|---|
| BF | `BF_MAX_BUFS` frames; free list and LRU list (sharing link fields); hash table | `BF_Init`, `BF_AllocBuf`, `BF_GetBuf`, `BF_UnpinBuf`, `BF_TouchBuf`, `BF_FlushBuf` | a page is in one frame; a pinned page stays; a page never reads differently because it was evicted; eviction is by recency; no frame is lost |
| PF | file table: valid, inode (the index), name, Unix descriptor, page count, scan cursor, `hdrchanged`; the header of each file | create, destroy, open, close, alloc, first/next/this/header page, dirty, unpin | the page count matches the pages that can be read, also after a crash; an entry used again carries nothing over; a file is open once |
| HF | table of open files with a cached header (page count, heads of the free and the full page list); scan table; in each page `next`, `prev`, `nr_rec`, a bitmap | create, destroy, open, close, insert, delete, get this/first/next, open/next/close scan | ids stay with their records; a scan sees each matching record once; the free list holds pages with room |
| bitmap | a bit per slot | set, clear, get | agrees with `nr_rec` |
| AM | index table, scan table, B+ tree nodes of fan-out 4 (leaves linked), lazy deletion | create, destroy, open, close, insert, delete, scans | every key stays reachable and in order through splits; a scan returns each matching entry once; every call returns |
| FE | two catalog files and their descriptors; the relations' files and indexes | `DBcreate/connect/close/destroy`, create/destroy/load table, build/drop index, insert, delete, select, join, print | catalogs, files and indexes describe the same tables, also when a call fails half way; the answers are those of the relations |

Names in the code that have no state of interest and are not modelled:
`BF_ShowBuf`, `BF_ShowHash`, `*_PrintError`, `printTree`, `HelpTable` (they only
print), `HF_ValidRecId` (a range test that no function of `hf.c` calls),
`AM_LowerBound` and `AM_LowerBoundRec` (called by nothing), the test programs and
the Makefiles.

## 2. The modules

| module | what it is |
|---|---|
| `BFPool` | the frames, lists and hash table of `bf.c` as operators on a pool value |
| `BF` | the buffer manager under any caller: one action per path of a call |
| `PagedStore` | what BF promises: pages with contents and a durable copy |
| `BFClient` | BF under callers that keep the rules of `document/monorel_bf.pdf`; refines `PagedStore` |
| `BFPool_proofs` | lemmas on the operators of `BFPool`, for PF and BF alike |
| `BFClient_proofs` | theorems about BF under any caller: the types, the lists, pinned pages; and under callers that keep the rules: pins, the refinement, lost frames, the order of use |
| `PF` | the file layer over `BFPool`, the directory and Unix descriptors, under any caller |
| `FileStore` | what PF promises: named files, each a sequence of pages |
| `PFClient` | PF under callers that keep the rules and scan their files; refines `FileStore` |
| `HFPages` | data pages: slots, and the two circular page lists |
| `HF` | the heap files under any caller |
| `RecordStore` | what HF promises: named files, each a function from ids to records |
| `HFClient` | HF under callers that keep the rules; refines `RecordStore` |
| `AMTree` | the B+ tree of an index file as a value: search, place, split |
| `AM` | the index layer under any caller; loops and recursions one turn per action |
| `IndexStore` | what AM promises: named indexes, each a set of (value, id) pairs |
| `AMClient` | AM under callers that keep the rules; refines `IndexStore` |
| `FETables` | the catalogs, relations' files and indexes, and the work of a call on them |
| `FE` | the calls of the front end, and each way out of them that reports an error |
| `Relations` | what FE promises: named tables, each a bag of rows, and what a query answers |
| `FEClient` | FE under callers that keep the rules; refines `Relations` |
| `PFClient_proofs` | theorems about PF under any caller: the file table, the types; and under callers that keep the rules: pages, pins, scans, the refinement |
| `HF_proofs` | theorems about HF under callers that keep the rules: the file table, the lists and counts, scans, the refinement |
| `AMTree_proofs` | lemmas on the shape of a tree: where searches lead and what splits make of nodes, links and parents; on comparing and placing the values of a node |
| `AM_proofs` | lemmas on the order of the values in a tree; theorems about AM under callers that keep the rules: the tables, the shape and the order of the trees |
| `AMStore_proofs` | lemmas on walks along the leaves and on what insertions and deletions do to pairs and positions; theorems about AM: the refinement, scans |
| `FE_proofs` | theorems about FE under callers that keep the rules: catalogs, index files, index entries, errors |
| `MC...` | constants and views for TLC |

`PF` is composed with the pool by calling `BFPool`'s operators inside PF's
actions, for one PF call makes several BF calls (`PF_AllocPage` allocates and
touches, `PF_UnpinPage` may touch and unpins) and all of them belong to one
action.  `HF` stands on what `PFClient` shows of PF: `file[n]` is the sequence
of pages `FileStore` promises.  HF gives every pin back before a call returns,
so pins do not appear in it.  `AM` stands on the same promise of PF, an index
file being its tree.  `FE` stands on what `RecordStore` and `IndexStore` promise
of HF and AM: a relation's file is a function from ids to rows, an index the bag of
its (value, id) pairs.  The second promise holds for indexes that have got no value
more than `MaxCopies` times, and FE's callers keep to no such limit; so an index also
has the numbers of entries it ever got of each value (`entered`), and once one of them is
above `MaxCopies` (`~Few`) a deletion may miss any entry of the index.

### Correspondence with the code

* A call is one action per path: `GetBufHit`, `GetBufMiss`, `GetBufUnread` and
  `GetBufNoMem` are the four ways through `BF_GetBuf`.  `rc` (BF, PF) and `res`
  (HF) hold what the call returned.
* `BF_FlushBuf` and `PF_CloseFile` are the calls that write several times.  They
  are one step per page (`flushing`, `closing`), so that the process can die, or
  a write fail, between two of them.  No other call runs meanwhile.
* The lists are sequences, the hash table a set of entries: a chain is only ever
  searched by key, so the buckets do not matter.  The order in which the code
  walks a list (`evict_policy` from the head, `BF_FlushBuf` from its end) is
  kept.
* The pin count is a C short: `ShortInc` and `ShortDec` wrap at `SHORT_MAX`.
* A file's header is `header[i]`; -1 stands for a file too short to hold one,
  which `PF_CreateFile` leaves behind when the table is full.
* Unix descriptors are handed out lowest first from 3; the directory maps names
  to files, so that a file can be removed while it is open.
* The contents of a page are one value in BF and PF; in HF a page is its
  `next`, `prev`, `nr_rec` and its slots, a slot without a record being a bit
  that is clear.  A record is the one attribute that conditions read.
* `HF_DeletePageList` and `HF_InsertPageList` write back the copies the C code
  has made of the page formats, in its order, so that two copies of one page
  overwrite each other as they do there.
* A page of an index is a node: a leaf with its `rec` and the links `prev` and
  `next`, or an inner node with `keys` and `child`, each with `parent`.  Page 0 of
  the file holds the header, so 0 stands for "no node" (`NoNode`), as it does in
  the code.  `AM_CompAttVal` subtracts ints and wraps
  beyond `INT_MAX`.
* An AM call that loops or recurses (the climb of a split, `AM_DeleteEntry`,
  `AM_FindNextEntry`) is a running call in `call`, one action per turn, and no
  other call starts before it returns.  That makes its termination a liveness
  property and not an assumption.
* `d` in FE is the database: `relcat`, `attrcat` (by place in its file, which is
  what `BuildIndex` confuses), `recs`, `index` (of each index file, `entries` and
  `entered`), and the set `opened` of relations that an error left open.  A call is
  one action; a way out of it that reports an error for reasons of its own is an
  action of its own (`InsertUnknown`, `LoadUnwritable`, `JoinUnknown`), with all it
  has done by then.
* A set of slots is put in order by `InOrder`, without recursion: the i-th element is
  the one that i - 1 others are below.  `Scanned` is the order in which a scan of a
  file meets its slots, `AttrList` that of `qsort_compare`; `HF_InsertRecs` is any
  number of insertions, which take the free slots in that order; and `JoinRows`
  numbers the turns of the two nested scans.
* `Delete` looks at nothing that `AM_DeleteEntry` returns (`fe/fe.c:787`).  `missed`
  is, for each index, the deleted rows whose entries were not found.  Which these
  are depends on the shape of the tree; the model lets them be any once the index
  is not `Few`, which is more than the code can do.
* `did` in FE is the last call with its arguments, what it returned and what it
  printed; that is what `Relations` judges.  `DBdestroy` returns nothing; where it
  refuses, which it only prints, `did.ret` is -1.
* `*pagenum` of a scan in PF is `at`, which a call that fails leaves alone; `again`
  remembers that `PF_GetFirstPage` failed after it had set the cursor back
  (`pf/pf.c:309`).

Definitions named `Bug...` are faulty variants of the definition that follows;
no specification uses them.  `PROJECT.json` pairs each with the property that
fails when it takes its definition's place.

## 3. What is checked

Deadlock is checked in every run: none of the specifications can stop.

| run | instance | shows |
|---|---|---|
| `bf_any_caller` | 2 frames, 2 files, pages 1 and 2 by the requests of `MCReqs`, pins from -2 to 1, failing reads and writes, crashes | `TypeOK`, `PoolInv`, `PinnedPagesStay` for callers that keep no rule at all, e.g. unpin what they have not pinned |
| `bf_client` | the same files, up to 2 pins on a page, working disks | pointers stay valid; clean pages equal their file; the LRU list is the order of use and evictions follow it; no frame is lost; a request fails only when everything is pinned; BF implements `PagedStore` |
| `pf_any_caller` | 2 table entries, 2 names of which one is a prefix of the other, 4 Unix files, 3 Unix descriptors to hand out, 1 page to a file, 1 frame | `TypeOK`, `EntriesApart`, also for callers that destroy open files and allocate on closed descriptors |
| `pf_client` | 1 table entry for 2 files, 1 frame, 1 Unix descriptor to hand out, crashes, a scan of each file; files of 2 pages of 2 values, or of 3 pages of one | every page below a file's count can be read, open or closed, after any crash; pins agree with what the caller holds; no entry inherits pages; a scan meets the pages in order, each once, and ends after the last, whatever is called in between, but starts again at page 0 after a `PF_GetFirstPage` that failed; PF implements `FileStore` |
| `hf_records` | 1 file, 2 pages of 2 records, values 0 and 1, one scan (all records, or those below 1); or 2 files of 1 record, 2 scans | counts, scans, owners of descriptors and `RecordStore`, under any order of insertions, deletions, scans, closes and opens |
| `am_index` | `Small`: 1 index of up to 7 entries of 4 values and 2 ids, at most 2 of a value and 2 deleted ones; 1 index of up to 6 entries and a scan with any condition and value; 2 indexes of 1 entry, 2 scans | every value can be found, scans are exact, descriptors and scans lead to their own index, AM implements `IndexStore`, under any order of insertions, deletions, closes, opens, destructions |
| `am_large` | `Large`: 60 values in the 60 orders `i * a % 61`, up and down among them; 40 values with scans from below and from above; 12 values in 3 orders with every scan; one deletion; fairness | trees of up to four levels keep their shape, their order, their links and their parents; scans are exact across many leaves; every call returns |
| `fe_relations` | `Tables`: 2 tables, one of 1 or 2 and one of 2 attributes, 2 rows to a table, 4 places in attrcat, 2 data files; `Entries`: 1 table of up to 3 rows with an index that gets up to 4 entries; `Queries`: 3 tables, up to 4 rows, selections and joins, printed or into a table | counts, marks and files agree after every call; every row has its entries, and an index that got no value more than `MaxCopies` times has no others; FE implements `Relations` |
| `fe_wrong_calls` | `Mistakes`: 2 tables, 1 attribute indexed; unknown names, a data file that cannot be written | errors lose no row and no index entry; a call that succeeds leaves nothing open and no temporary relation; a file that no catalog knows comes from a `DestroyTable` that reports an error only |
| `hf_insert_reopen` | 1 file, 2 pages of 1 record, any caller | **violated** `FreePageHasRoom` |
| `am_copies` | up to 4 entries of a value | **violated** `SearchFinds` |
| `fe_index_order` | indexes built and dropped in any order on 2 tables | **violated** `FlagsIndexes` |

The modules `...Client` have a constant `Bounds`, a set of instances, and a
variable `bound` that takes one of them at the start and never changes.  One run
thus checks several instances that would be too large combined: many entries
without scans, few with.

### Why the bounds are enough

Two frames are the least with which there is a choice of victim, with which a
page can be pinned while another is evicted, and with which a LRU list has an
order; one frame (PF) makes every second page request an eviction.  Two requests
on one file and one on another give pages of one file that are and are not
flushed together.  One table entry makes two files share it; two make a second
open possible.  Two record slots on two pages give a page that is empty, half
full and full, lists of zero, one and two pages, and scans that cross a page.
`Fd`, `UnixFd` and `PageNum` are the numbers that descriptors and pages of Unix
files may have; in the proofs they are any sets of naturals that hold the entries
of the file table and the pages of a file.
The counters are bounded by `MaxPins`, `MaxPages`, `MaxUnixFd` and by the fields of
`bound`; each is a guard on the call that would pass it.  The views leave out
`rc`, `res`, `did` and `boot`, which no action reads; properties read them only in
the step that sets them.  The views `Essence` of `pf_any_caller`, `pf_client` and
`am_index` also identify states that differ only in which Unix file is which, or
in remains that no call can reach.

In AM seven entries fill a leaf, split it, and split one of the halves, under
every order of insertions and with deleted entries among them; inner splits need
more entries than all orders can be tried for, so `am_large` takes 60 fixed
orders of 60 values and three root splits.  In `bound`, `load` is what an index is
filled with first, `entries` and `deleted` bound a tree, `scans` the open scans,
`ops` their conditions.  The two ids are interchangeable (`SYMMETRY` in `am_index`,
whose properties are safety properties; `am_large`, which checks termination, has
neither symmetry nor view).  In AM, `MaxCopies` and `Limit` are no bounds but rules,
without which the properties are false; `am_copies` raises the first.

In FE two tables let one table's catalog records move into the hole another one
leaves; two attributes tell an indexed from a plain one; two rows let a deletion
take one and leave one.  In `Entries` rows are deleted and come back, so that an
index gets a value three times although there are never more than three rows, and
deletions may miss.  `Slot` and `slots` bound attrcat, `RecId` and `rows` a relation,
`entries` what an index ever gets; each is a guard on the call that would pass it.
`tables`, `attrs` and `locked` (tables whose data file cannot be written) and the
sets `schemas`, `inserts`, `sels`, `selects`, `joins`, `files` of `bound` are what
the calls are made with.  In FE `MaxCopies` is a constant of the layer below and no
rule: it is 2, as many entries of a value as AM bears with its fan-out of 4
(`FANOUT - FANOUT \div 2`, section 4).

### Rules that callers keep and no document states

`HFClient`, `AMClient` and `FEClient` are about callers that do as the documents
say.  What else they must do for the properties to hold is the other half of the
result:

* AM: an index never holds more than `MaxCopies` entries of a value (two, with
  fan-out 4), deleted ones included; a scan for smaller values is opened for a
  value that is there at most once, one for other values for a value that is not
  there; a scan that has ended is not asked again.
* FE: an index is built for an attribute that has none and dropped for one that
  has one, and only while the attribute's catalog record lies at the place where
  `BuildIndex` looks; a table that Select fills has no index; no page fills up; no
  table has the name of a temporary relation of Select or Join.

FE itself does not keep AM's rule on copies, and `FEClient` does not ask its callers to:
how often a value is entered is up to the data.

### The violated properties

* `hf_insert_reopen`: `HF_InsertRec` writes the header when it adds a page and
  not when the page changes lists; after a close and an open the free list
  starts at a full page and every insertion is refused.  Records are not lost:
  `hf_records` checks `CountsAgree` and `RecordStore` over the same behaviours.
* `am_copies`: a split goes through the middle of a leaf even if the entries of
  one value are on both sides.  One split does no harm.  When the left half splits
  once more, and the same value goes up, `AM_Insert` puts the new leaf behind the old
  right half in the parent, under an equal key, although the new leaf comes before
  it in the list of leaves.  In the run, leaves 2, 3 and 4 have the values 0 0 0,
  1 2 and 1 1, under the keys 1 and 1: a search for 1 ends at leaf 4, which has
  two of them, but so does a search for 2, and no search reaches leaf 3.
* `fe_index_order`: `BuildIndex` and `DropIndex` look an attribute up in a sorted
  list and its record id in an unsorted one.

### What the code does not keep

What the passing runs claim depends on the rules above because of what follows.
Each was seen as a TLC counterexample when the rule it is behind was lifted; the
models have the code's behaviour in them.

* `BF_GetBuf` takes a frame off the free list and returns `BFE_UNIX` without
  giving it back when the read fails (`bf/bf.c:326`).  After as many failed reads
  as there are frames, requests fail with no page pinned.  With `READ_FAILS` true
  `NoFrameLost` and `NoMemOnlyWhenBusy` fail.
* `BF_FlushBuf` ignores `flush_page`'s result (`bf/bf.c:434`), drops the page and
  returns `BFE_OK`: with `WRITE_FAILS` true a change is lost silently.
* When the neighbours of a page are one page, `_HF_InsertPageList` and
  `_HF_DeletePageList` write two copies of its format and lose the first change
  (`hf/hf.c:828`, 776).  A list then does not lead back to where it came from.
  What this costs is space: `hf_records` shows that no record is lost by it.
* `HF_CloseFile` closes the PF file, then finds the scan and fails
  (`hf/hf.c:199`); the entry stays valid over a closed PF file.
* Closing one scan clears the one mark of the file, and the file can be closed
  under the other scan (`hf/hf.c:627`, `am/am.c:1095`).
* Ints are compared by the sign of their difference, which wraps (`hf/hf.c:660`,
  `am/am.c:541`): `Wrap`, at the width that `INT_MAX` gives.
* A scan of an index for smaller values starts in the leaf that the value itself
  leads to and gives up when the neighbour ends in the value (`am/am.c:177`); one
  for other values ends at the first entry of the value (`am/am.c:161`).
* A scan's value is copied with `strlen`, although it is binary (`am/am.c:1002`):
  `Copied`.  The values of the
  passing runs are single bytes that are not zero.
* `Delete` ignores `AME_RECNOTFOUND` (`fe/fe.c:787`), which AM may return for an
  entry that is there once a value has been entered more than `MaxCopies` times.
  Entries then stay whose rows are gone.  The model has this, and `IndexesAgree` says
  what is left: no row is without its entry.
* Dropping an index that is not there is counted: `indexcnt` becomes -1
  (`fe/fe.c:500`).
* An insertion that fails leaves the relation open (`fe/fe.c:669`); `DestroyTable`
  then empties the catalogs and cannot remove the file.
* Select with an unknown attribute in its condition and no result relation returns
  with its temporary relation created, catalogued and open (`fe/fe.c:904`).
  `LeftoversAreReported` says that this takes a call that reports an error.
* Select enters rows in no index of the table it fills (`fe/fe.c:935`).
* Insert does not look at what `HF_InsertRec` returns (`fe/fe.c:688`): after
  `hf_insert_reopen` it reports success for a row that is lost (`InsertLost`).
* A name given twice in an insertion makes up for one that is missing
  (`fe/fe.c:633`).
* Join ignores its operator (as the comment at `fe/fe.c:959` says), compares
  numbers with `strncmp` (`fe/fe.c:1042`: `Same`), and projects by attribute name
  alone (`fe/fe.c:1069`).

### Differences from the documents that no run is about

They are in the models, as the code has them:

* `PF_AllocPage` does not test that its descriptor is open (`pf/pf.c:216`).
* `PF_DestroyFile` removes a file that is open (`pf/pf.c:115`); the document says
  the file should not be.
* `PF_OpenFile` refuses a second open with `PFE_FTABFULL` (`pf/pf.c:159`); the
  comment at `pf/pf.c:122` says that several are allowed.
* `PF_SearchTable` compares with `strncmp` over the new name (`pf/pf.c:28`): a
  file cannot be opened while one is open whose name begins with its name.
* Every refused open leaks a Unix descriptor (`pf/pf.c:149`, 156, 159).
* `PF_GetNextPage` goes by a cursor of the file, not by `*pagenum`
  (`pf/pf.c:338`).  `pf_client` is therefore about callers that pass the page
  number they got from the scan itself.
* `PF_GetFirstPage` sets the cursor back before it tries to get the page
  (`pf/pf.c:309`).  If it fails, `*pagenum` is what it was and the next
  `PF_GetNextPage` gets page 0, which is not "the page right after the one referred
  to by pageNum" (section 3.2 of the document).  `NextIsRightAfter` says both.
* `CreateTable` creates the relation's file before it enters the catalogs
  (`fe/fe.c:302`); the document has it the other way round.
* `Join` returns 0 whatever the Select inside it said (`fe/fe.c:1094`).

### Fairness

`am_large` is the one run with a liveness property.  Its specification is

    FairSpec == ASpec /\ WF_avars(ARunning)

that is, weak fairness of the turns of a running call and of nothing else: the
program is one thread, and once it has entered a call nothing but that call can
run, so it goes on until it returns.  Callers need not make any call.  The
property, `CallsReturn`, is not a matter of counting: `AM_FindNextEntry` walks
links and turns round, `AM_DeleteEntry` walks along equal values, and a climb
follows `parent` links that splits rewrite.

BF, PF, HF and FE assume no fairness: every loop in them is over a fixed table or
list and is one action (or a fixed number of them), and nothing waits.  What must
eventually happen is up to the caller.  The safety form of the liveness question
PF raises, whether a caller that gives back its pins can always close its file,
is `PinsAgree`.

## 4. What is proved

Every theorem is about every value of the constants: any number of frames, table
entries, files, names, requests and pins.

| theorem | statement | of the specification |
|---|---|---|
| `BFClient_proofs!TypeCorrect` | `[]TypeOK` | BF under any caller, failing reads and writes, crashes |
| `BFClient_proofs!PoolInvariant` | `[]PoolInv` | the same |
| `BFClient_proofs!PinnedStay` | `PinnedPagesStay` | the same |
| `BFClient_proofs!PointersStayValid` | `[]PointersValid` | BF under callers that keep the rules, failing reads and writes, crashes |
| `BFClient_proofs!CleanPagesAreOnDisk` | `[]CleanIsOnDisk` | the same, if writes do not fail |
| `BFClient_proofs!PoolIsPagedStore` | `ImplementsPagedStore` | the same, if writes do not fail |
| `BFClient_proofs!NoFrameIsLost` | `[]NoFrameLost` | the same, if reads do not fail |
| `BFClient_proofs!RefusedOnlyWhenBusy` | `NoMemOnlyWhenBusy` | the same, if reads and writes do not fail |
| `BFClient_proofs!LruIsOrderOfUse` | `[]LruIsRecency` | the same, failing reads and writes |
| `BFClient_proofs!EvictionIsLru` | `EvictsLeastRecent` | the same, failing reads and writes |
| `PFClient_proofs!FilesOfOpenEntries` | `[]EntriesApart` | PF under any caller, crashes |
| `PFClient_proofs!TypesKept` | `[]TypeOK` | the same |
| `PFClient_proofs!CountedPagesCanBeRead` | `[]PagesReadable` | PF under callers that keep the rules, crashes |
| `PFClient_proofs!PoolCountsPins` | `[]PinsAgree` | the same |
| `PFClient_proofs!ClosedFilesLeaveThePool` | `[]NoStalePages` | the same |
| `PFClient_proofs!ScansAreInOrder` | `NextIsRightAfter` | the same |
| `PFClient_proofs!ScansAreComplete` | `EndsAtLastPage` | the same |
| `PFClient_proofs!PFIsFileStore` | `ImplementsFileStore` | the same |
| `HF_proofs!OwnsFile` | `[]EntryOwnsFile` | HF under callers that keep the rules |
| `HF_proofs!WellTyped` | `[]TypeOK` | the same |
| `HF_proofs!Counts` | `[]CountsAgree` | the same |
| `HF_proofs!Exactness` | `ScansExact` | the same, if no difference of two values overflows |
| `HF_proofs!IsRecordStore` | `ImplementsRecordStore` | the same |
| `AM_proofs!OwnsFile` | `[]EntryOwnsFile` | AM under callers that keep the rules |
| `AM_proofs!TypesHold` | `[]TypeOK` | the same |
| `AM_proofs!ParentsHold` | `[]ParentsAgree` | the same |
| `AM_proofs!SearchesFind` | `[]SearchFinds` | the same, if no difference of two values overflows and no value has more entries than half a leaf |
| `AM_proofs!LeavesInOrder` | `[]LeavesLinked` | the same |
| `AMStore_proofs!IsIndexStore` | `ImplementsIndexStore` | the same |
| `AMStore_proofs!ScansAreExact` | `ScansExact` | the same, if moreover values survive being copied into the scan table, and scans under `LT_OP` and `NE_OP` keep to `Limits` (below) |
| `FE_proofs!CatalogsCount` | `[]CountsIndexes` | FE under callers that keep the rules |
| `FE_proofs!MarksAreIndexes` | `[]FlagsIndexes` | the same |
| `FE_proofs!IndexesFollowRows` | `[]IndexesAgree` | the same |
| `FE_proofs!FilesAreDescribed` | `LeftoversAreReported` | the same |
| `FE_proofs!ErrorsLoseNothing` | `ErrorsKeepRows` | the same |
| `FE_proofs!SuccessLeavesNothingOpen` | `SuccessCloses` | the same |

The assumptions are those of the modules, evaluated by TLC on every run:
`PoolAssumption` and `BFAssumption` (there is at least one frame, zero is a page
content, descriptors and page numbers are naturals, each Unix descriptor has one
file behind it), `ClientAssumption` (pins fit the short that counts them, a page has
one name among the requests), `PFAssumption`, `CallerAssumption` (pins fit the
short; what stands for a missing file is no sequence of pages), `HFAssumption`,
`TreeAssumption` (a fanout of at least 4), `AMAssumption` (what stands for a missing
file is no tree; what stands for the end of a scan is no id and no pair),
`FilesAssumption` and `NamesAssumption` (the slots of a page are
finitely many naturals and `MaxCopies` is a natural; no table has the name of a
temporary relation) and the
`BoundsAssumption` of HF's, AM's and FE's callers.

### BF under any caller

The inductive invariant is

    IInv == PoolOK(pool) /\ TypeOK /\ FlushUnpinned

`PoolOK` joins the four parts of `PoolInv` with the type of the pool, for none of
them is inductive by itself: that a page found through the hash table is on the
LRU list needs `HashMatchesLru`; that `hash_delete` removes the one entry of a
frame needs `OneFramePerPage`; that a frame taken from the free list can be
linked into the LRU list needs `ListsDisjoint`, and that it then has the right
count needs `FreeFramesBlank`.  `FlushUnpinned` says that while `BF_FlushBuf`
runs no page of its file is pinned; its test is made once at the start
(`bf/bf.c:416`), and it is what makes `PinnedPagesStay` hold for the pages it
drops.

The proof follows the code from below: list and hash primitives
(`LruDeleteElements`, `LruTouchOK`, `DiscardOK`), finding room (`VictimOK`,
`MakeRoomOK`, `TakeFree`), linking a page (`LinkOK`), then one lemma per
operation (`GetHitOK`, `GetMissOK`, `GetUnreadOK`, `AllocOK`, `UnpinOK`,
`TouchOK`, `StoreOK`), the action lemmas (`CallOK`, `StorePageOK`,
`FlushPageOK`) and `NextIInv`.

### BF under callers that keep the rules

    CInv == IInv /\ PinsTyped /\ Agree(pool, pins, ptr)

`Agree` is `PointersValid` said frame by frame instead of request by request: a
frame that holds a page counts the pins its callers have, and a page that is
pinned is in the frame its last pointer named.  In this form a step that changes
one frame disturbs one request, and that a pinned page is never the victim
follows: its count is not zero.  The lemmas say what an operation does to the
linked frames (`Changed`, `Dropped`, `Linked`, `SameLinked`), and one proof for
each kind of effect serves all calls that have it.

    SInv == CInv /\ use \in ... /\ Safe(pool, disk, pins, ptr, use)

is what the refinement needs beyond that.  A frame without its dirty mark equals
the disk, but for stores that a caller has yet to mark (`CleanSame`), and a page
without pins has been marked (`Marked`); so what eviction drops is on the disk.
A linked page was asked for by its own descriptor (`Named`), so what eviction
writes goes to its own file.  And files have no holes, as they are read
(`InOrder`) and on the disk (`FilesWhole`): a page written past the end of a file
fills the gap with zeros, which would otherwise be pages that could not be read
before and can be read after.  `SameView` and `WroteBack` state what a call of the
pool may do to what is read; each action of `CNext` is then an action of
`PagedStore` or a stuttering step.

`~WRITE_FAILS` is a hypothesis of both theorems and no convenience: when a write
fails, `BF_FlushBuf` drops the page all the same (`bf/bf.c:434`), and both
statements are false.

    FInv == CInv /\ FramesKept(pool)

says that every frame is on one of the two lists.  A frame leaves the free list
for a page that cannot be read, and `BF_GetBuf` does not put it back
(`bf/bf.c:326`), whence `~READ_FAILS`; that a page which exists can still be read
after its frame's last page was written out is `StillReadable`.  With `SInv`, a
request that finds no frame (`NoRoom`) finds all of them in the LRU list with a
count that is not zero, and `Agree` turns counts into pins.

    LInv == CInv /\ Ordered(pool, older) /\ Current(pool, older)

`older` is a history variable of `BFClient`: the pairs of buffered pages of which
the first was used before the second.  `Ordered` says that it is the order of the
LRU list, `Current` that it forgets pages that leave, without which a page that
comes back would be older than pages used meanwhile.  Eviction takes the first
frame of the list that no one has pinned (`bf/bf.c:46`), so it follows the order of
use.

### PF under any caller

    TInv == PoolOK(pool) /\ TypeOK /\ PInv

PF's calls are composed of several of BF's, so `BFPool_proofs` states what each
operation on a pool preserves without regard to which module calls it.  That
`numpages` and the cursor stay within `0..MaxPages` needs the header of the file
an entry is opened on to be in that range, and `PF_CloseFile` to write one that
is, which needs `PInv` to know which file that is.

### PF under callers that keep the rules

    KInv == TInv /\ types of pins and use /\ Sound(pool, disk, pf_table, pins, use)
            /\ HeadersTrue /\ HeadersFit /\ ClosingUnpinned

    Sound == World /\ Owned /\ Counted /\ Marked /\ Clean /\ There

`PagesReadable` is about what is in the files, and an open file's pages may be
nowhere but in the pool; so the invariant has to say which (`There`), that what
leaves the pool has been marked or is in its file (`Clean`, `Marked`), that it is
written to the file it belongs to (`Owned`, with the `EntriesApart` of the table in
`World`), and that pages somebody has pinned do not leave at all (`Counted`).
`HeadersTrue` says of a file that is closed what `There` says of one that is open,
and `HeadersFit` relates the two: an open file's header on disk is never above the
count in memory, so that a crash leaves a file with fewer pages than it had, all
of which can be read.  This is where the order in `PF_CloseFile`, pages first and
header after, is used.  `ClosingUnpinned` is `BF_FlushBuf`'s test, which is made
once at the start and has to hold until the last page is written.

The lemmas say what a step may do to a pool and a disk: `SameRead` (no page of an
open file reads differently), `DataKept` (no page of a Unix file is lost, files
that are not open stay).  Making room, reading, flushing and marking have both.
Scans need `Cursors`: an open entry's cursor is at the page that is due, the one
after the page its scan got last, or page 0 if a `PF_GetFirstPage` has failed since
(`Due`).  For the refinement, `FileNow` says what a name's pages are now, `FileStays`
when they stay; `StoreActions` and `StoreCrash` translate the
actions of `FileStore` into statements on these.  TLC checked every part of `KInv`
and `Cursors` as invariants of the instance of `pf_client` before they were proved.

### HF under callers that keep the rules

    RInv == HInv /\ Shapes /\ Files

`HInv` is the table, below.  `Files` says of every file, and of the header that HF
has in memory for an open one, that list heads and links are pages of the file or
0, that the header counts the pages, and that each page counts its records
(`HeapOK`).  That is less than one would like to say of the two lists, and as
much as is true: `HF_InsertPageList` and `HF_DeletePageList` write stale copies
when the neighbours of a page are one page, and the lists do not stay lists.  The
proof follows the writes in their order (`DeletePageListOK`, `InsertPageListOK`,
`WriteBackOK`), each of which keeps links within the pages and leaves counts and
records alone.

    ScanInv == the ghosts' domains /\ \A sd \in OpenScans : ScanOK(sd)

`ScanOK`: what a scan still owes is there, satisfies its condition and lies
behind its cursor; what it has returned does not lie behind it.  Deletions take
from what is owed, insertions are not owed.  `Exactness` has the hypothesis
`DifferencesFit`, since `hf/hf.c:660` compares by the sign of an int difference,
which is wrong for values too far apart; within it (`ConditionHolds`) each of the
six operators is what its name says.

For the refinement, `RecordsOf` of a file changes under one id by an insertion
and a deletion (`InsertEffect`, `DeleteEffect`) and not at all by what relinks
pages.

### The tables of PF, HF and AM

The proofs about the tables have one shape.  The invariant joins the types of the tables to
the property and to what makes it inductive:

    PInv == Tables /\ EntriesNamed /\ FilesApart /\ NamesApart /\ NamesKept /\ ClosesOpen
    HInv == Tables /\ OpenNamed /\ NamesApart /\ EntryOwnsFile
    AInv == Tables /\ OpenNamed /\ NamesApart /\ EntryOwnsFile

In PF the search goes by name and the property is about files.  That no two
entries have one file needs both that no two names lead to one file (`NamesApart`)
and that the name a file has now, if any, is the one its entry was opened under
(`NamesKept`), which has to survive `PF_DestroyFile` of an open file: the name
goes, the file stays, and a file created under the name is another.  `ClosesOpen`
is about a close between its steps.  In HF and AM an open entry holds a PF
descriptor that PF has under the same name, and no two entries the same name;
PF's descriptors are chosen among those that are not in use, and a close gives
its own one back.  AM's scans hold the PF descriptor as well, and `AInv` needs
that an index with scans is not closed.

The searches for a table entry are `CHOOSE` expressions; the lemmas `LeastOf` and
`GreatestOf` say that they find something when there is something to find.

### The trees of AM

    TInv == AInv /\ TreesGood /\ OpenHave /\ ScansIn /\ CallOK /\ types

`TreesGood` says that every index file holds a tree of good shape, and is the
heart of the matter:

    Shape(t, lev, old, after) == Pages /\ Linked /\ Begun /\ Family /\ Pending

for some `lev`, the level of each node.  `Pages`: a node of level 0 is a leaf, any
other an inner node with one key less than children, and no more than `FANOUT`.
`Linked`: next and previous nodes are of the same level and name each other.
`Family`: the children of an inner node are one level below, name it as parent,
and every node but the root is a child of its parent.  A split leaves, between
two turns of its climb, one node that is nobody's child: `after`, split off
`old`.  `Family` leaves it out and `Pending` says that the two have one level and
one parent, which is where the climb goes on (`CallOK`: `call.offset` is the
parent of `call.old`).  Without it no step of the climb could be proved: that the
node above is an inner node, that it is the parent of `old`, and that a split of
the root is the only one with no node above.

`AMTree_proofs` states for each operator what it does to the shape: `PlaceShape`,
`SplitLeafShape`, `PlaceKeyShape`, `SplitInternalShape`, `NewRootShape`,
`MarkShape`.  The two splits are proved in three layers: which entry or key is at
which place of the two halves (`Halves`, `NodeHalves`), what linking the new page
and giving its children a new parent change (`CreateNodeIs`, `ResetIs`), and what
the shape makes of it (`LinksGrow`, `HalvesShared`, `HalvedShape`).  A search
goes one level down at each step (`PathGoesDown`), so that it ends in a leaf
whose parent is what `AM_SearchIndex` finds (`SearchEnds`); the recursive
function `Path` is unfolded by building it level by level (`PrefixExists`), as
induction over an operator is out of the provers' reach.

`ScansIn` is what ties scans to trees: a position that a scan or a deletion
remembers is an entry of the tree it belongs to, or behind the list.  It needs
the rule that entries are not inserted while a scan of the index is open, and
that a deletion marks its entry and moves none.

None of this needs values to be in order: `TypeOK` and `ParentsAgree` hold
whatever the comparison of two keys says, wrapped differences included.  Order
is the second half of what makes a tree good:

    Good(t, old, after, key) == \E lev : Shape(t, lev, old, after) /\ (Fits => Sound)
    Sound == CopiesOK /\ \E low, high : Ordered(t, lev, low, high, old, after, key)

`low[o]` and `high[o]` say between which values lies what is below node `o`:
the bounds of the root are `Bottom` and `Top`, the keys of an inner node cut its
range into those of its children (`Chain`), and the ranges of the leaves meet
along their list.  A leaf's first entry has the value of its lower bound, but for
the first leaf's (`LeafOrder`); its last may equal the upper bound, for entries of
one value may lie on both sides of a split, of which a search finds the right
one.  While a split climbs, the node above `old` takes `old` to reach as far as
`after` does, and `key` is where they meet.  A search then ends in the one leaf
whose range has the value (`SearchWithin`, `SearchOnly`), and if an entry lies at
the end of its leaf's range, the next leaf begins with its value (`ValueFound`).

`Fits` has two parts.  `DifferencesFit` says that the subtraction of
`AM_CompAttVal` does not overflow (`am/am.c:541`).  `FewCopies`, which is
`MaxCopies <= FANOUT - FANOUT \div 2`, says that no value has more entries than
the smaller part of a split leaf: then the halves meet strictly inside the range
of the leaf (`SplitInside`).  With more copies `key` may equal the upper bound, which
is a key of the parent already; there the right half goes behind the leaf that
follows it, that leaf cannot be reached any more, and `SearchFinds` is false: that is
`am_copies`, the one run of AM that does not satisfy `Fits`.  `CopiesOK`
carries the callers' rule through the splits, for which the entries of a value
are counted before and after (`PlacesFinite` and the lemmas on `Copies`).

### The pairs of AM, and its scans

Both theorems of `AMStore_proofs` stand on one order of the entries of a tree:
`Before(low, o, i, pos)` and `After`, by leaf (the lower bounds of the leaves rise
along their list) and in a leaf by place.  `NeighbourLeft` and `NeighbourRight` say
that one step of a walk passes over nothing: what lies before a position lies
before its left neighbour or is that neighbour.

    SInv == TInv /\ OnceEach /\ DeletionKnows

is what the refinement of `IndexStore` needs.  `OnceEach`: an index holds a pair at
most once, deleted entries aside; without it the deletion of one entry would not
take the pair out.  `DeletionKnows` is about a deletion between its turns.  It
starts in the middle of the entries of its value and looks to the left first:
while it goes left its pair, if it is there at all, is before the position it
has reached (`SoughtBefore`); once it has turned and goes right it is not there,
because `AM_DeleteEntry` starts from the last entry of the value in the leaf
where a search ends, and nothing of that value is behind it.  That
`AME_RECNOTFOUND` tells the truth is this invariant at the end of the walk.
`Grafts` says of an insertion, in a leaf with room or in one that is split, that
the new tree has the old entries and one more, in the old order (`PlaceGrafts`,
`SplitGrafts`); `InsertedSeen` and `MarkLive` turn that, and a deletion, into a
change of the set of pairs.  A climb moves keys and changes no leaf.

    KInv == SInv /\ Knowing

adds what a scan that has not ended knows.  `Asks`: what it has to return (`due`) are
the pairs now in the tree that satisfy its condition.  `Stood`: going left, it has
returned exactly those from its position up to `org`, where it started
(`LeftOf`); going right, exactly those up to its position (`RightOf`).  `org` is the last
match of its leaf, and what lies between `org` and the end of the matches is found
only after the turn, for which `OrgOK` keeps `org` in place while entries around it
are deleted.  A deletion changes `due` and marks one entry, no position moves
(`MarkKnows`).  For the step itself, `LeftKnows` and `RightKnows` say that if the next
entry fails the condition, no entry further on satisfies it: true of a condition
that holds of an interval of values, which is why there are hypotheses.

* `ValuesCopied`: `Copied(old, v) = v` for whatever an earlier scan may have left.
  `am/am.c:1002` copies a binary value with `strlen`.
* `Limits`: a scan under `LT_OP` is for a value with at most one entry, one under
  `NE_OP` for a value with none.  With two entries of the value at the two sides of
  a split, the scan under `LT_OP` starts in a leaf that has no match, steps to
  the left onto the other entry, and ends with nothing returned
  (`am/am.c:177`).  The values other than v are no interval: the walk ends at the
  first entry of v (`am/am.c:161`), and what is beyond is never returned.  With a
  larger limit the property is false; the other four conditions are unrestricted,
  up to `MaxCopies`.

The instances of `am_index` and `am_large` satisfy all of them, so that TLC has
checked both theorems on states that meet their hypotheses.

### FE under callers that keep the rules

    FInv == CatInv(d) /\ JOIN_TMP_FILE_MARK \notin DOMAIN d.recs /\ bound \in Bounds

    CatInv(e) == Shape(e) /\ Records(e) /\ Catalogs(e) /\ Files(e) /\ IndexFiles(e)

The properties speak of `AttrList`, which `Search_AttrCatalog` collects in the
order of the file and sorts by offset; an invariant about lists would have to be
proved again wherever a record moves.  `CatInv` is about the records instead:
`Catalogs` says that the records of a relation, at whatever slots, number its
attributes from 0 without gaps or repetition (`Numbered`), and that `indexcnt` is
the number of those that are marked; `IndexFiles` that the index files are those
of the marked records (`Keys`), each with the entries of the rows (`Follows`); `Records`
that
a record belongs to a relation of relcat, without which the slots of a destroyed
table would come back to life under its name.  `InOrderNumbers` then gives the
list (`ListIs`): a set with ranks `0..n-1` is put in order by the ranks themselves.
From it follow `InvCounts`, `InvFlags`, `InvAgree`.

`Follows(x, P)` is `IndexesAgree` for one index `x` and the pairs `P` of its rows: it
has them all, and as long as it is `Few` no other and each once.  `GrownFollows`
and `ErasedFollows` show that insertions and deletions keep it.  Two things make
it inductive: `entered` never shrinks, so that an index that is `Few` now has been
all along, and a deletion that misses leaves more than it should and never less.

For each function of `FETables` there is a lemma that it keeps `CatInv`
(`CreatedKeeps`, `DestroyedKeeps`, `FilledKeeps`, `StoredKeeps`, `ErasedKeeps`,
`BuiltKeeps`, `DroppedKeeps`).  The hard ones are `Reflagged`'s, where the record of
one attribute is taken out of its slot, marked and put into the first free one
(`MovedRecord`, `MovedNumbers`, `MovedKeys`).  There the callers' rule `InPlace` is
needed: `i` is a place in the sorted list, `RecIds(d, r)[i]` one in the order of the
file, and only the rule makes them the same attribute's.  `CBuild` and `CDrop`
also keep `indexcnt` true, which the code changes without looking at the mark.
Select is read off its ways out (`SelectedReturns`): all that it may leave, from
any of them, is `Returns`.  Join is Select on a relation of pairs that is not there
before and after (`PairsAre`, `JoinKeeps`), for which `FInv` says that no such
relation is left.

    Step == Keeps /\ Closes /\ Spares /\ Describes /\ Tidies

is what one call does, proved for each (`CallStep`); the three properties of steps
follow from it.  That no file is ever unknown to the catalogs would be false: an
insertion that names an unknown attribute leaves the relation open, and
`DestroyTable` of an open relation clears the catalogs and leaves the file
(`fe/fe.c:334-355`).  `Describes` shows that there is no other way, and `Tidies` that
a call that succeeds leaves no temporary relation; the hard case of both is Join,
whose relation of pairs is destroyed with its file because `FInv` says that it was
neither there nor open before.

### Only model-checked

Two properties of the runs are stated by no theorem.  `CallsReturn` is liveness
under fairness, which is out of the prover's reach.  `ImplementsRelations` speaks of
the bag of rows of a file, which is a fold over a set: that putting a record into
one slot adds one row to the bag needs an induction over data that none of
the installed provers can do.  What FE's proofs say of rows is said of
records at their slots instead (`IndexesAgree`, `ErrorsKeepRows`).

## 5. Not modelled

* Bits within a word, alignment and layout of pages, record sizes (a page holds
  `NrRec` records), attribute offsets; `REAL_TYPE` and `STRING_TYPE` conditions,
  which differ from `INT_TYPE` in the comparison only.
* In HF: process deaths (a PF property); the pointers that unchecked
  `PF_GetThisPage` calls leave uninitialised when a page cannot be had, which is
  undefined behaviour (`Usable` and `HasPage` keep to calls that get their page);
  a file created under the name of a removed file that PF still has open.
* In PF: a `pwrite` of the header that fails, and I/O errors other than reading
  past the end (BF covers both for data pages).
* In AM: a walk that runs past an edge of the leaves once more and reads the
  header page as a leaf (callers that ask an ended scan again); destroying an open
  index, and calls on a descriptor whose PF file is closed (both modelled in PF);
  a scan with a null value; PF calls that fail inside `AM_Map` and `AM_Unmap`;
  names that run into one another (`fileName` "a1" with index 2 and "a" with
  index 12); `isUnique`, which the code ignores; `REAL_TYPE` and `STRING_TYPE`
  keys, which differ in the comparison only; process deaths.
* In FE, calls whose outcome the code leaves to chance: a relation that is not in
  relcat (an uninitialised descriptor is used), `BuildIndex` and `Join` of a
  relation that is open already (a negative number indexes a table), more marked
  attributes than `indexcnt` (a heap overrun), a join of a relation with itself, a
  result relation of another width, `DropIndex` without a name.
* In FE, for the size of the model: catalogs that fill up; names "relcat" and
  "attrcat" and names that begin with one another; `DBconnect` twice, `DBcreate`
  while connected, `DBclose` when not connected; destroying a database in which
  relations are open; a data file in which the last row is short (`LoadTable` enters
  it with the end of the row before) or whose `read` fails (`LoadTable` never
  returns: `fe/fe.c:584` stops at 0 only); a crash while connected, whose effect is that of BF and PF;
  types and lengths of attributes, which rows of equal width stand for;
  `PrintTable`'s test of the catalog descriptors, which is never true
  (`HelpTable` prints only).

## 6. Plan

Done: BF, PF and HF (model, refinement, scans, all proved), AM (model,
refinement, scans, termination; all but termination proved), FE (model,
refinement; catalogs, index files, index entries and errors proved).

Next, in this order:

1. PF failures under HF: frames that run out while an HF call holds three pages.
2. A crash while FE is connected, over what PF promises after one.
