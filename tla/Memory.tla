------------------------------- MODULE Memory -------------------------------
(***************************************************************************)
(* The pages of processes: kernel stacks, file tables, page directories,   *)
(* page tables and user pages (pmm.c, vmm.c, and proc.c where it makes and *)
(* frees them), on the first-fit allocator.                                *)
(*                                                                         *)
(* Each operation is one step: the kernel is not preemptible, and no       *)
(* handler of an interrupt allocates.  The small objects of kmalloc live   *)
(* in pages that it never gives back and are left out.                     *)
(***************************************************************************)
EXTENDS FirstFit

CONSTANTS
    Proc,
    NVa,          \* the user part of the address space is 0 .. NVa - 1
    NPte,         \* entries of a page table
    Programs,     \* bound: executables, each the sequence of its segments; a segment is
                  \* its pages, <<start, end>>, wherever its header says
    Stack,        \* the area of the user stack; areas are <<start, end>>
    StackLoaded,  \* the pages at its end that load_icode allocates
    MaxArgs       \* bound: arguments of exec

Va == 0 .. NVa - 1
Pdx(va) == va \div NPte
Pdxs == {Pdx(va) : va \in Va}

ASSUME MemoryAssumption ==
    /\ NVa \in Nat /\ NPte \in Nat \ {0} /\ MaxArgs \in Nat
    /\ Stack \in Va \X (1 .. NVa)
    /\ StackLoaded \in 1 .. Stack[2] - Stack[1]
    /\ Programs \subseteq Seq(Int \X Int)

VARIABLES
    free_list, PageProperty, nr_free, ref,
    kstack,   \* of each process, the first of its two pages, or NULL
    filesp,   \* of each process, the page of its file table, or NULL
    mm,       \* of each process, its mm_struct, or NoMM
    halted    \* "ok", or where the kernel has stopped

vars == <<free_list, PageProperty, nr_free, ref, kstack, filesp, mm, halted>>

KSTACKPAGE == 2

\* mm_create and setup_pgdir; vmas is mmap_list.
NewMM(pgdir) ==
    [pgdir |-> pgdir, pde |-> [i \in Pdxs |-> NULL], pte |-> [va \in Va |-> NULL],
     vmas |-> <<>>]
NoMM == NewMM(NULL)

TypeOK ==
    /\ nr_free \in 0 .. NPages
    /\ PageProperty \subseteq Page
    /\ ref \in [Page -> Nat]
    /\ {kstack, filesp} \subseteq [Proc -> Page \cup {NULL}]
    /\ \A p \in Proc :
         /\ mm[p].pgdir \in Page \cup {NULL}
         /\ mm[p].pde \in [Pdxs -> Page \cup {NULL}]
         /\ mm[p].pte \in [Va -> Page \cup {NULL}]

Unused(p) == kstack[p] = NULL
Zombie(p) == kstack[p] # NULL /\ filesp[p] = NULL
Alive(p) == filesp[p] # NULL

-----------------------------------------------------------------------------
(***************************************************************************)
(* The functions of pmm.c, vmm.c and proc.c on one address space, field    *)
(* mm of the record of the allocator; args are the buffers of exec.        *)
(***************************************************************************)
Start(m) ==
    [free_list |-> free_list, PageProperty |-> PageProperty, nr_free |-> nr_free,
     ref |-> ref, page |-> NULL, res |-> halted, mm |-> m, args |-> <<>>]
Ok(s) == s.res = "ok"

\* A loop: the function Step for one member of the sequence xs after the other.
Each(Step(_, _), s, xs) ==
    LET pass[k \in 0 .. Len(xs)] == IF k = 0 THEN s ELSE Step(pass[k - 1], xs[k])
    IN  pass[Len(xs)]

set_page_ref(s, page, n) == [s EXCEPT !.ref[page] = n]
SetPde(s, va, page) == [s EXCEPT !.mm.pde[Pdx(va)] = page]
SetPte(s, va, page) == [s EXCEPT !.mm.pte[va] = page]

\* get_pte with create: the page table for va is made if it is not there.
get_pte(s, va) ==
    LET t == alloc_page(s)
    IN  IF s.mm.pde[Pdx(va)] # NULL \/ ~Ok(s) THEN s
        ELSE IF ~Ok(t) THEN t
        ELSE SetPde(set_page_ref(t, t.page, 1), va, t.page)

\* page_remove_pte: the last reference frees the page.
page_remove_pte(s, va) ==
    LET page == s.mm.pte[va]
        t == set_page_ref(s, page, s.ref[page] - 1)
        u == IF t.ref[page] = 0 THEN free_page(t, page) ELSE t
    IN  IF page = NULL \/ ~Ok(s) THEN s ELSE SetPte(u, va, NULL)

page_insert(s, page, va) ==
    LET t == get_pte(s, va)
        u == set_page_ref(t, page, t.ref[page] + 1)
        v == IF t.mm.pte[va] = page THEN t ELSE page_remove_pte(u, va)
    IN  IF Ok(t) THEN SetPte(v, va, page) ELSE t

\* pgdir_alloc_page: the page first, and then a page table for it.
pgdir_alloc_page(s, va) ==
    LET t == alloc_page(s)
    IN  IF Ok(t) THEN page_insert(t, t.page, va) ELSE t

PagesIn(area) == [i \in 1 .. area[2] - area[1] |-> area[1] + i - 1]

unmap_range(s, area) == Each(page_remove_pte, s, PagesIn(area))

\* exit_range: the page tables of an area, unless an earlier one had them too.
exit_table(s, va) ==
    LET table == s.mm.pde[Pdx(va)]
    IN  IF table = NULL THEN s ELSE SetPde(free_page(s, table), va, NULL)
exit_range(s, area) == Each(exit_table, s, PagesIn(area))

exit_mmap(s) == Each(exit_range, Each(unmap_range, s, s.mm.vmas), s.mm.vmas)

\* exit_mmap, put_pgdir and mm_destroy, as do_exit, do_execve and load_icode call them.
FreeMM(s) ==
    IF s.mm = NoMM THEN s ELSE [free_page(exit_mmap(s), s.mm.pgdir) EXCEPT !.mm = NoMM]

check_vma_overlap(prev, next) == prev[2] <= next[1]

\* insert_vma_struct: in front of the first area that starts later.  The kernel stops
\* if the area overlaps that one, or the one before it.
insert_vma_struct(s, area) ==
    LET vmas == s.mm.vmas
        later == {i \in DOMAIN vmas : area[1] < vmas[i][1]}
        k == IF later = {} THEN Len(vmas) + 1 ELSE Min(later)
    IN  IF ~Ok(s) THEN s
        ELSE IF /\ area[1] < area[2]
                /\ k > 1 => check_vma_overlap(vmas[k - 1], area)
                /\ k <= Len(vmas) => check_vma_overlap(area, vmas[k])
        THEN [s EXCEPT !.mm.vmas = InsertAt(vmas, k, area)]
        ELSE [s EXCEPT !.res = "check_vma_overlap"]

\* Mutant: the first address of an area is not in it.
find_vma_After(vmas, va) == {i \in DOMAIN vmas : vmas[i][1] < va /\ va < vmas[i][2]}

\* find_vma: where in mmap_list the area of va is.
find_vma(vmas, va) == {i \in DOMAIN vmas : vmas[i][1] <= va /\ va < vmas[i][2]}

USER_ACCESS(area) == 0 <= area[1] /\ area[1] < area[2] /\ area[2] <= NVa

\* mm_map.  It refuses with -E_INVAL, and then nothing more is done until load_icode
\* gives up.
mm_map(s, area) ==
    IF Ok(s) /\ (~USER_ACCESS(area) \/ find_vma(s.mm.vmas, area[1]) # {})
    THEN [s EXCEPT !.res = "-E_INVAL"]
    ELSE insert_vma_struct(s, area)

\* copy_range, from the address space m: one page, and all of an area.
From(m, xs) == [i \in DOMAIN xs |-> <<m, xs[i]>>]

copy_page(s, x) ==
    LET va == x[2]
        t == get_pte(s, va)
        u == alloc_page(t)
    IN  IF x[1].pte[va] = NULL THEN s
        ELSE IF Ok(u) THEN page_insert(u, u.page, va) ELSE u

copy_range(s, m, area) == Each(copy_page, s, From(m, PagesIn(area)))

\* dup_mmap: the areas from the last one to the first.
copy_area(s, x) == copy_range(insert_vma_struct(s, x[2]), x[1], x[2])
dup_mmap(s, m) == Each(copy_area, s, From(m, Reverse(m.vmas)))

setup_pgdir(s) ==
    LET t == alloc_page(s) IN IF Ok(t) THEN [t EXCEPT !.mm = NewMM(t.page)] ELSE t

\* A page that is allocated, and freed again with nothing in between.
Borrow(s) == IF Ok(alloc_page(s)) THEN s ELSE alloc_page(s)

\* load_icode of a segment, up to its n-th page, and of the first i segments of an
\* executable with n pages of the next one.
load_page(s, va) == Borrow(pgdir_alloc_page(s, va))
LoadSome(s, seg, n) ==
    Each(load_page, mm_map(s, seg), SubSeq(PagesIn(seg), 1, n))
load_segment(s, seg) == LoadSome(s, seg, Len(PagesIn(seg)))
LoadPages(s, prog, i, n) ==
    LET t == Each(load_segment, Borrow(setup_pgdir(s)), SubSeq(prog, 1, i))
    IN  IF n = 0 THEN t ELSE LoadSome(t, prog[i + 1], n)

\* load_icode, with the pages at the top of the stack.
load_icode(s, prog) ==
    Each(pgdir_alloc_page, mm_map(LoadPages(s, prog, Len(prog), 0), Stack),
         [i \in 1 .. StackLoaded |-> Stack[2] - i])

\* How far load_icode may get before it finds the file too short or no executable.
Stops(prog) ==
    {<<i, 0>> : i \in 0 .. Len(prog)}
        \cup UNION {{<<i - 1, n>> : n \in 1 .. prog[i][2] - prog[i][1] - 1} : i \in DOMAIN prog}

\* The label bad_cleanup_mmap.
GivesUp(s) == IF s.res = "-E_INVAL" THEN [s EXCEPT !.res = "ok"] ELSE s

\* Mutant: a program that turns out not to be one leaves its pages behind.
load_icode_fails_Unmapped(s, prog, i, n) ==
    LET t == GivesUp(LoadPages(s, prog, i, n))
    IN  [free_page(t, t.mm.pgdir) EXCEPT !.mm = NoMM]

\* load_icode that stops there, or at the first area before that mm_map refuses: it
\* frees what it has.
load_icode_fails(s, prog, i, n) == FreeMM(GivesUp(LoadPages(s, prog, i, n)))

\* copy_kargv and put_kargv: a page for each argument.
copy_string(s, i) ==
    LET t == alloc_page(s) IN IF Ok(t) THEN [t EXCEPT !.args = Append(@, t.page)] ELSE t
copy_kargv(s, argc) == Each(copy_string, s, [i \in 1 .. argc |-> i])
put_kargv(s) == Each(free_page, s, Reverse(s.args))

-----------------------------------------------------------------------------
\* What is left of s once the operation of p is over.
Becomes(r) ==
    \E s \in {r} :
        /\ free_list' = s.free_list
        /\ PageProperty' = s.PageProperty
        /\ nr_free' = s.nr_free
        /\ ref' = s.ref
        /\ halted' = s.res

Running == halted = "ok"

Ready(p) == Running /\ Alive(p)

\* do_fork of q: setup_kstack, copy_files, copy_mm.  The parent has the address
\* space m, or is initproc and has none.  Without two pages for a stack it fails
\* before it has changed anything.
do_fork(m, q) ==
    LET s == alloc_pages(Start(NoMM), KSTACKPAGE)
        t == alloc_page(s)
        u == IF m = NoMM \/ ~Ok(t) THEN t ELSE dup_mmap(setup_pgdir(t), m)
    IN  /\ Running
        /\ Unused(q)
        /\ s.page # NULL
        /\ Becomes(u)
        /\ kstack' = [kstack EXCEPT ![q] = s.page]
        /\ filesp' = [filesp EXCEPT ![q] = t.page]
        /\ mm' = [mm EXCEPT ![q] = u.mm]

\* The end of p, with the allocator and its address space as in s: do_exit.
Exits(p, s) ==
    /\ Becomes(free_page(FreeMM(s), filesp[p]))
    /\ mm' = [mm EXCEPT ![p] = NoMM]
    /\ filesp' = [filesp EXCEPT ![p] = NULL]
    /\ UNCHANGED kstack

do_exit(p) == Ready(p) /\ Exits(p, Start(mm[p]))

\* do_wait: the kernel stack of a zombie.
do_wait(p) ==
    /\ Running
    /\ Zombie(p)
    /\ Becomes(default_free_pages(Start(NoMM), kstack[p], KSTACKPAGE))
    /\ kstack' = [kstack EXCEPT ![p] = NULL]
    /\ UNCHANGED <<filesp, mm>>

\* do_execve: the arguments, the path, and then the old address space goes before
\* it is known that there will be a new one.
do_execve(p, argc, prog) ==
    /\ Ready(p)
    /\ \E s \in {FreeMM(Borrow(copy_kargv(Start(mm[p]), argc)))} :
         \/ \E t \in {put_kargv(load_icode(s, prog))} :
              /\ t.res # "-E_INVAL"
              /\ Becomes(t)
              /\ mm' = [mm EXCEPT ![p] = t.mm]
              /\ UNCHANGED <<kstack, filesp>>
         \/ \E stop \in Stops(prog) :
              Exits(p, put_kargv(load_icode_fails(s, prog, stop[1], stop[2])))

\* do_execve of a path that does not exist.
ExecNothing(p, argc) ==
    /\ Ready(p)
    /\ Exits(p, put_kargv(Borrow(copy_kargv(Start(mm[p]), argc))))

\* do_pgfault: the first access to a page of the stack.
do_pgfault(p, va) ==
    LET s == pgdir_alloc_page(get_pte(Start(mm[p]), va), va)
    IN  /\ Ready(p)
        /\ find_vma(mm[p].vmas, va) # {}
        /\ mm[p].pte[va] = NULL
        /\ Becomes(s)
        /\ mm' = [mm EXCEPT ![p] = s.mm]
        /\ UNCHANGED <<kstack, filesp>>

-----------------------------------------------------------------------------
\* The pages that boot has left, and no process but initproc.
Init ==
    /\ free_list = default_init_memmap.free_list
    /\ PageProperty = default_init_memmap.PageProperty
    /\ nr_free = default_init_memmap.nr_free
    /\ ref = default_init_memmap.ref
    /\ kstack = [p \in Proc |-> NULL]
    /\ filesp = [p \in Proc |-> NULL]
    /\ mm = [p \in Proc |-> NoMM]
    /\ halted = "ok"

Next ==
    \E p \in Proc :
        \/ do_fork(NoMM, p)
        \/ \E q \in Proc : Ready(q) /\ do_fork(mm[q], p)
        \/ do_exit(p)
        \/ do_wait(p)
        \/ \E argc \in 1 .. MaxArgs :
             ExecNothing(p, argc) \/ \E prog \in Programs : do_execve(p, argc, prog)
        \/ \E va \in Va : do_pgfault(p, va)

Spec == Init /\ [][Next]_vars

-----------------------------------------------------------------------------
Mem == Start(NoMM)

\* After any order of allocations and frees of one and of two pages the free list
\* is sorted, merged and counted, with flags where they belong; and no assertion of
\* default_free_pages has failed: the kernel stops for want of a page, or at areas of an
\* executable that overlap (see OnlyCrossingStops), and nowhere else.
FreeListSound ==
    /\ TypeOK
    /\ halted \in {"ok", "swap_out(NULL)", "check_vma_overlap"}
    /\ Running => ListSound(Mem)

\* An area that load_icode maps, of a segment or the stack, starts in front of one it has
\* mapped before and reaches into it.  (One that starts inside another is refused.)
Crosses(prog) ==
    LET areas == Append(prog, Stack)
    IN  \E i, j \in DOMAIN areas :
          i < j /\ areas[j][1] < areas[i][1] /\ areas[i][1] < areas[j][2]

\* The assertions of insert_vma_struct fail in an exec of such an executable only: not
\* when areas touch, not of an executable that mm_map refuses, and never when dup_mmap
\* builds the list of a child anew, from the last area of its parent to the first.
OnlyCrossingStops ==
    [][Running /\ halted' = "check_vma_overlap" =>
         \E p \in Proc, argc \in 1 .. MaxArgs, prog \in Programs :
           Crosses(prog) /\ do_execve(p, argc, prog)]_vars

\* Two pages for a kernel stack are found if there are two next to each other, though
\* a block ends where the next one begins.
StackIsFound ==
    LET free == FreePages(Mem)
    IN  Running =>
          (alloc_pages(Mem, KSTACKPAGE).page = NULL <=> ~\E p \in free : p + 1 \in free)

\* The pages that p has, each with what it has it for.
Uses(p) ==
    LET kernel == {<<"files", 0, filesp[p]>>, <<"pgdir", 0, mm[p].pgdir>>}
        stack == {<<"kstack", i, kstack[p] + i>> : i \in 0 .. KSTACKPAGE - 1}
        tables == {<<"table", i, mm[p].pde[i]>> : i \in Pdxs}
        user == {<<"user", va, mm[p].pte[va]>> : va \in Va}
    IN  {u \in kernel \cup tables \cup user : u[3] # NULL}
            \cup IF kstack[p] = NULL THEN {} ELSE stack

\* A page is free or has one user, never two, and none is lost: not when exec fails
\* half way, when fork fails or when processes exit in any order.  A page is mapped
\* where there is a table for it and nowhere else.
EveryPageHasOneUser ==
    LET used == UNION {{p} \X Uses(p) : p \in Proc}
        pages == {u[2][3] : u \in used}
    IN  Running =>
          /\ Cardinality(used) = Cardinality(pages)
          /\ pages = Page \ FreePages(Mem)
          /\ \A p \in Proc : \A va \in Va : mm[p].pte[va] # NULL =>
               mm[p].pde[Pdx(va)] # NULL /\ ref[mm[p].pte[va]] = 1
=============================================================================
