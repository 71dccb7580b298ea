------------------------------ MODULE HFPages -------------------------------
(***************************************************************************)
(* The data pages of a heap file (hf/hf.c) as operators: records in slots, *)
(* and the circular lists of free and of full pages that are threaded      *)
(* through the page formats.                                               *)
(*                                                                         *)
(* pages[p] is the data page with PF page number p; page 0 is the header   *)
(* page and doubles as the end of an empty list.  A slot holds NoRec when  *)
(* its bit in the page's bitmap is clear.  Record ids number the pages     *)
(* from 0.                                                                 *)
(*                                                                         *)
(* Definitions named Bug... are faulty variants, as in BFPool.             *)
(***************************************************************************)
EXTENDS Integers, Sequences

CONSTANTS NrRec,   \* records that fit a page: HFHeader.nr_rec
          NoRec    \* a slot whose bit is clear

ASSUME PagesAssumption == NrRec \in Nat \ {0}

HF_HEADER_PAGE_NUM == 0

Slot == 0..(NrRec - 1)

\* A page from PF_AllocPage is zero; HF_InitList links it to itself.
NewPage(p) ==
  [next |-> p, prev |-> p, nr_rec |-> 0, rec |-> [j \in Slot |-> NoRec]]

HF_InitList(pages, p) == [pages EXCEPT ![p].next = p, ![p].prev = p]

-----------------------------------------------------------------------------
(* Lists.  The code reads the formats of all the pages involved, changes    *)
(* its copies and writes them back in the order given; when the neighbours  *)
(* are one page it writes two copies of one format, and the second wins.    *)

\* _HF_DeletePageList: the head and the pages without page p.
HF_DeletePageList(head, pages, p) ==
  LET prev == pages[p].prev
      next == pages[p].next
      prev_format == IF next = p THEN HF_InitList(pages, prev)[prev]
                     ELSE IF prev = p THEN pages[prev]
                     ELSE [pages[prev] EXCEPT !.next = next]
      next_format == IF next = p THEN pages[next]
                     ELSE IF prev = p THEN HF_InitList(pages, next)[next]
                     ELSE [pages[next] EXCEPT !.prev = prev]
      format == HF_InitList(pages, p)[p]
  IN IF prev = p /\ next = p
     THEN [head |-> HF_HEADER_PAGE_NUM, pages |-> pages]
     ELSE [head  |-> IF head # p THEN head ELSE IF next # p THEN next ELSE prev,
           pages |-> [pages EXCEPT ![prev] = prev_format,
                                   ![next] = next_format,
                                   ![p] = format]]

\* _HF_InsertPageList: page p goes behind the head.
HF_InsertPageList(head, pages, p) ==
  IF head = HF_HEADER_PAGE_NUM
  THEN [head |-> p, pages |-> HF_InitList(pages, p)]
  ELSE LET next == pages[head].next
           format == [pages[p] EXCEPT !.next = next, !.prev = head]
           prev_format == [pages[head] EXCEPT !.next = p]
           next_format == [pages[next] EXCEPT !.prev = p]
       IN [head |-> head,
           pages |-> [pages EXCEPT ![p] = format,
                                   ![head] = prev_format,
                                   ![next] = next_format]]

-----------------------------------------------------------------------------
(* Records. *)

FreeSlots(page) == {j \in Slot : page.rec[j] = NoRec}

\* the record goes behind the last one, as if none had been deleted
BugFreeSlotByCount(page) == page.nr_rec

FreeSlot(page) == CHOOSE j \in FreeSlots(page) : \A k \in FreeSlots(page) : j <= k

Put(page, j, v) == [page EXCEPT !.rec[j] = v, !.nr_rec = @ + 1]

Clear(page, j) == [page EXCEPT !.rec[j] = NoRec, !.nr_rec = @ - 1]

\* The ids of the records stored in the first n pages.
Stored(pages, n) ==
  {id \in (0..(n - 1)) \X Slot : pages[id[1] + 1].rec[id[2]] # NoRec}

BugBeforeOrAt(id, k) == id[1] < k[1] \/ (id[1] = k[1] /\ id[2] <= k[2])

\* The order of a scan: page by page, slot by slot.
Before(id, k) == id[1] < k[1] \/ (id[1] = k[1] /\ id[2] < k[2])

Earliest(ids) == CHOOSE id \in ids : \A k \in ids : k = id \/ Before(id, k)
=============================================================================
