------------------------------ MODULE FirstFit ------------------------------
(***************************************************************************)
(* The first-fit page allocator (default_pmm.c), as functions of records   *)
(* that hold what it reads and changes:                                    *)
(*   free_list   the free blocks, [base, property] each                    *)
(*   PageProperty   the pages with that flag                               *)
(*   nr_free                                                               *)
(*   ref         of each page, page->ref                                   *)
(*   page        what the last allocation returned, 0 for NULL             *)
(*   res         "ok", or where the kernel has stopped                     *)
(* A function that is called after the kernel has stopped does nothing.    *)
(***************************************************************************)
EXTENDS Integers, Sequences, FiniteSets, SequencesExt

CONSTANT NPages   \* the pages that page_init finds, in one region

ASSUME PagesAssumption == NPages \in Nat \ {0}

Page == 1 .. NPages
NULL == 0

Block(base, n) == [base |-> base, property |-> n]
PagesOf(b) == b.base .. b.base + b.property - 1

\* default_init_memmap of all pages.
default_init_memmap ==
    [free_list |-> <<Block(1, NPages)>>, PageProperty |-> {1}, nr_free |-> NPages,
     ref |-> [p \in Page |-> 0], page |-> NULL, res |-> "ok"]

\* The first n pages of the i-th block leave the list.
Take(s, i, n) ==
    LET b == s.free_list[i]
    IN  [s EXCEPT !.free_list =
            IF b.property > n
            THEN ReplaceAt(@, i, Block(b.base + n, b.property - n)) ELSE RemoveAt(@, i),
         !.PageProperty = (@ \cup (IF b.property > n THEN {b.base + n} ELSE {})) \ {b.base},
         !.nr_free = @ - n,
         !.page = b.base]

\* default_alloc_pages: from the first block that is long enough.
default_alloc_pages(s, n) ==
    LET fits == {i \in DOMAIN s.free_list : s.free_list[i].property >= n}
    IN  IF n > s.nr_free \/ fits = {} THEN [s EXCEPT !.page = NULL]
        ELSE Take(s, Min(fits), n)

\* alloc_pages: for one page that is not there it asks swap_out, which follows
\* check_mm_struct, a null pointer since the tests at boot.
alloc_pages(s, n) ==
    LET t == default_alloc_pages(s, n)
    IN  IF s.res # "ok" THEN s
        ELSE IF t.page = NULL /\ n = 1 THEN [t EXCEPT !.res = "swap_out(NULL)"]
        ELSE t

alloc_page(s) == alloc_pages(s, 1)

\* The k-th block of the list, if there is one, ends where base begins.
Before(list, k, base) ==
    k > 0 /\ list[k].base + list[k].property = base

\* Mutant: two blocks that become one both keep the flag.
FlagsAfterFree_Both(s, before, behind, base, next) == s.PageProperty \cup {base}

\* PageProperty when the block at base is freed, and merged as said.
FlagsAfterFree(s, before, behind, base, next) ==
    (s.PageProperty \cup {base})
        \ ((IF before THEN {base} ELSE {}) \cup (IF behind THEN {next} ELSE {}))

\* How many blocks of the list are in front of base.
InFront(list, base) ==
    LET above == {i \in DOMAIN list : base < list[i].base}
    IN  (IF above = {} THEN Len(list) + 1 ELSE Min(above)) - 1

\* The block at base gets its place after the k-th, or is merged with it.
PutBlock(list, k, base, n) ==
    IF Before(list, k, base)
    THEN ReplaceAt(list, k, Block(list[k].base, list[k].property + n))
    ELSE InsertAt(list, k + 1, Block(base, n))

\* The j-th block ends where the next one begins; they become one.
Behind(list, j) ==
    j < Len(list) /\ list[j].base + list[j].property = list[j + 1].base
Merge(list, j) ==
    RemoveAt(ReplaceAt(list, j, Block(list[j].base, list[j].property + list[j + 1].property)),
             j + 1)

\* default_free_pages: the list stays sorted, and a block is merged with the one
\* before it and the one behind it.
default_free_pages(s, base, n) ==
    LET k == InFront(s.free_list, base)
        before == Before(s.free_list, k, base)
        list == PutBlock(s.free_list, k, base, n)
        j == IF before THEN k ELSE k + 1
        behind == Behind(list, j)
    IN  IF s.res # "ok" THEN s
        ELSE IF s.PageProperty \cap (base .. base + n - 1) # {}
        THEN [s EXCEPT !.res = "!PageProperty(p)"]
        ELSE [s EXCEPT !.free_list = IF behind THEN Merge(list, j) ELSE list,
              !.PageProperty = FlagsAfterFree(s, before, behind, base,
                                         IF behind THEN list[j + 1].base ELSE base),
              !.ref = [p \in Page |-> IF p \in base .. base + n - 1 THEN 0 ELSE @[p]],
              !.nr_free = @ + n]

free_page(s, p) == default_free_pages(s, p, 1)

-----------------------------------------------------------------------------
FreePages(s) == UNION {PagesOf(s.free_list[i]) : i \in DOMAIN s.free_list}

\* The list stands for a set of pages: sorted by address, its blocks apart by at
\* least a page, with a flag at the head of each and at no other page.
ListSound(s) ==
    /\ \A i \in 1 .. Len(s.free_list) - 1 :
         s.free_list[i].base + s.free_list[i].property < s.free_list[i + 1].base
    /\ \A i \in DOMAIN s.free_list : s.free_list[i].property > 0
    /\ FreePages(s) \subseteq Page
    /\ s.PageProperty = {s.free_list[i].base : i \in DOMAIN s.free_list}
    /\ s.nr_free = Cardinality(FreePages(s))
=============================================================================
