------------------------------ MODULE PhysMem ------------------------------
(***************************************************************************)
(* The physical page allocator of kernel/mem/physmem.c as operators on     *)
(* the set of free pages, which is what phys_bitmap stands for: page p is  *)
(* free when its bit is 1.  Components that own pages keep the set in a    *)
(* variable of their own and apply these operators to it.                  *)
(***************************************************************************)
EXTENDS Integers

CONSTANT NUM_PAGES            \* pages of physical memory (PHYS_MEM_SIZE / PAGE_SIZE)

ASSUME NumPagesAssumption == NUM_PAGES \in Nat

Page == 0 .. NUM_PAGES - 1

\* What physmem_alloc_page returns when memory is exhausted (the address 0),
\* and what a resource field of a process holds before its page is allocated.
NoPage == -1

\* physmem_init: pages below first_free_page, which the code clamps to
\* NUM_PAGES, hold the kernel image; the others are free.
InitiallyFree(first_free_page) == {p \in Page : first_free_page <= p}

\* The page at which physmem_alloc_page's scan of the bitmap stops.
IsFirstFree(free, p) == p \in free /\ \A q \in free : p <= q

\* physmem_alloc_page: first fit, and 0 when the scan finds no page.
AllocPage(free) ==
    IF \E p \in Page : IsFirstFree(free, p)
    THEN CHOOSE p \in Page : IsFirstFree(free, p)
    ELSE NoPage

\* free_physical_page, applied to each page of a set: an address outside
\* physical memory (NoPage among them) is refused, a free page stays free.
FreePages(free, pages) == free \cup (pages \cap Page)
=============================================================================
