------------------------------- MODULE Paging -------------------------------
(***************************************************************************)
(* The page tables of kernel/mem/paging.c: three levels of tables in pages *)
(* of the allocator, read and written by software as walk() does.  Memory  *)
(* that was used before has any contents; it may run out within a walk.    *)
(*                                                                         *)
(* A call is one action.  An entry stands for its PTE_V bit and the page   *)
(* PTE_ADDR gives; the other flags are not modelled.  Tables are addressed *)
(* as they are before switch_page_table: physically.  Callers release only *)
(* tables in which nothing was ever mapped, as free_proc does.             *)
(*                                                                         *)
(* What gets mapped need not be memory of the allocator: paging_init maps  *)
(* the physical pages from 0 to 128 MB, the allocator's begin at 2 GB.     *)
(***************************************************************************)
EXTENDS PhysMem, FiniteSets

CONSTANTS
    Space,          \* page tables in use, by the pointer that holds their root
    Vpn,            \* indices within one table (512 in the code)
    Vaddr,          \* virtual pages: <<VPN2, VPN1, VPN0>>
    Target,         \* physical pages that get mapped, any at all
    ZeroPage,       \* physical page 0
    NoSpace         \* a page table that does not exist, for AddressMap

ASSUME VaddrAssumption == Vaddr \subseteq Vpn \X Vpn \X Vpn
ASSUME TargetAssumption == NoPage \notin Target
ASSUME NoSpaceAssumption == \A D \in SUBSET Vaddr : NoSpace \notin [D -> Page \cup Target]

VARIABLES
    root,           \* root[s]: the page of the root table, or NoPage for NULL
    table,          \* table[g]: contents of page g read as a table
    unused          \* free pages, in a memory of this component's own

pagingVars == <<root, table, unused>>

\* An entry without PTE_V reads as NoPage.
Pte == Page \cup Target \cup {NoPage}

PagingTypeOK ==
    /\ root \in [Space -> Page \cup {NoPage}]
    /\ table \in [Page -> [Vpn -> Pte]]
    /\ unused \in SUBSET Page

\* Memory holds anything (the same in every entry, to keep runs small);
\* the pages of the kernel image are left out.
PagingInit ==
    /\ root = [s \in Space |-> NoPage]
    /\ \E x \in Pte : table = [g \in Page |-> [i \in Vpn |-> x]]
    /\ unused = InitiallyFree(0)

\* The loop that zeroes a new table.
Cleared(contents) == [i \in Vpn |-> NoPage]

-----------------------------------------------------------------------------
(***************************************************************************)
(* walk                                                                    *)
(***************************************************************************)

\* The state of a walk: the table it has reached (NoPage once it has given
\* up), the memory and the free pages it leaves.
WalkFrom(s) == [at |-> root[s], mem |-> table, left |-> unused]

DownKeepingPage(w, i) ==
    IF w.at = NoPage THEN w
    ELSE IF w.mem[w.at][i] # NoPage THEN [w EXCEPT !.at = w.mem[w.at][i]]
    ELSE LET g == AllocPage(w.left)
         IN  IF g = NoPage THEN [w EXCEPT !.at = NoPage]
             ELSE [at   |-> g,
                   mem  |-> [w.mem EXCEPT ![w.at][i] = g, ![g] = Cleared(@)],
                   left |-> w.left]

\* One level down with alloc = 1, through a new table where there is none.
Down(w, i) ==
    IF w.at = NoPage THEN w
    ELSE IF w.mem[w.at][i] # NoPage THEN [w EXCEPT !.at = w.mem[w.at][i]]
    ELSE LET g == AllocPage(w.left)
         IN  IF g = NoPage THEN [w EXCEPT !.at = NoPage]
             ELSE [at   |-> g,
                   mem  |-> [w.mem EXCEPT ![w.at][i] = g, ![g] = Cleared(@)],
                   left |-> w.left \ {g}]

\* walk(..., 1), up to the last table.
Walk(s, v) == Down(Down(WalkFrom(s), v[1]), v[2])

\* walk(..., 0): one level, the last table, and the entry it ends at.
Entry(t, i) == IF t = NoPage THEN NoPage ELSE table[t][i]
LastTable(s, v) == Entry(Entry(root[s], v[1]), v[2])
LastEntry(s, v) == Entry(LastTable(s, v), v[3])

\* walk_page_table: 0 for what is not mapped, as for what is mapped to page 0.
WalkPageTable(s, v) == IF LastEntry(s, v) = NoPage THEN ZeroPage ELSE LastEntry(s, v)

-----------------------------------------------------------------------------
(***************************************************************************)
(* The operations                                                          *)
(***************************************************************************)

\* create_page_table; with no page it returns NULL and changes nothing.
CreatePageTable(s) ==
    LET g == AllocPage(unused)
    IN  /\ root[s] = NoPage /\ g # NoPage
        /\ root' = [root EXCEPT ![s] = g]
        /\ table' = [table EXCEPT ![g] = Cleared(@)]
        /\ unused' = unused \ {g}

\* free_page_table releases the page of the root.
FreePageTable(s) ==
    /\ root[s] # NoPage
    /\ \A i \in Vpn : table[root[s]][i] = NoPage
    /\ unused' = FreePages(unused, {root[s]})
    /\ root' = [root EXCEPT ![s] = NoPage]
    /\ UNCHANGED table

IsUnmappedIgnored(pte) == TRUE

\* map_page refuses an entry that has PTE_V.
IsUnmapped(pte) == pte = NoPage

\* map_page.  Tables made by a walk that fails stay where they are.
MapPage(s, v, t) ==
    /\ root[s] # NoPage
    /\ LET w == Walk(s, v)
       IN  /\ unused' = w.left
           /\ table' = IF w.at # NoPage /\ IsUnmapped(w.mem[w.at][v[3]])
                       THEN [w.mem EXCEPT ![w.at][v[3]] = t]
                       ELSE w.mem
    /\ UNCHANGED root

\* unmap_page.
UnmapPage(s, v) ==
    /\ LastEntry(s, v) # NoPage
    /\ table' = [table EXCEPT ![LastTable(s, v)][v[3]] = NoPage]
    /\ UNCHANGED <<root, unused>>

PagingNext ==
    \E s \in Space :
        \/ CreatePageTable(s) \/ FreePageTable(s)
        \/ \E v \in Vaddr : UnmapPage(s, v) \/ \E t \in Target : MapPage(s, v, t)

PagingSpec == PagingInit /\ [][PagingNext]_pagingVars

-----------------------------------------------------------------------------
(***************************************************************************)
(* Properties                                                              *)
(***************************************************************************)

\* What leads to page g as a table: a pointer to a root, an entry of a root
\* by its space and index, an entry of a table below it.
LeadsTo(g) ==
    {s \in Space : root[s] = g}
      \cup {x \in Space \X Vpn : Entry(root[x[1]], x[2]) = g}
      \cup {x \in Space \X Vpn \X Vpn : Entry(Entry(root[x[1]], x[2]), x[3]) = g}

\* A page that is not free is a table at exactly one place of one space, and
\* nothing leads to a free one: whatever walk() builds, also when it runs out
\* of memory half-way, no table is shared, lost, or left in a released page.
TablePages == \A g \in Page : Cardinality(LeadsTo(g)) = IF g \in unused THEN 0 ELSE 1

\* The mappings the entries with PTE_V make up.
Mappings ==
    [s \in Space |->
        IF root[s] = NoPage THEN NoSpace
        ELSE [v \in {u \in Vaddr : LastEntry(s, u) # NoPage} |-> LastEntry(s, v)]]

\* The tables of a space are a mapping that only map_page() and unmap_page()
\* change, at their page and in their space: a map_page() that fails changes
\* none, and neither does a table made of used memory.
A == INSTANCE AddressMap WITH map <- Mappings
IsAddressMap == A!Spec

-----------------------------------------------------------------------------
(***************************************************************************)
(* What the documentation says, and the code does not do                   *)
(***************************************************************************)

\* paging.c:110, "Translate virtual address to physical address": the answer of
\* walk_page_table tells a page that has a translation from one that has none.
\* After map_page to physical page 0 it does not (walk_page_table).
AnswerTellsMapped ==
    \A s \in Space, u, v \in Vaddr :
        LastEntry(s, u) # NoPage /\ LastEntry(s, v) = NoPage =>
            WalkPageTable(s, u) # WalkPageTable(s, v)
=============================================================================
