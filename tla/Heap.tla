-------------------------------- MODULE Heap --------------------------------
(***************************************************************************)
(* The kernel's heap (triad_mm.c).  Addresses and sizes are in granules of *)
(* 16 bytes, relative to heap_base: every size is rounded up to a granule  *)
(* and an MmBlock header fills exactly one.                                *)
(*                                                                         *)
(* The list that starts at free_list holds every block ever carved, free   *)
(* or not.  Blocks are appended at heap_ptr, which only grows, and a split *)
(* puts the remainder right behind its block, so list order is address     *)
(* order and the links are left out.                                       *)
(*                                                                         *)
(* One call is one step: the kernel's allocations are all made by the main *)
(* thread.  The clients follow two rules the callers of the shipped kernel *)
(* keep: a block is freed by its owner, once; and the block last carved    *)
(* before an aligned region (the page bitmap, the boot address space, the  *)
(* buffers of the drivers) is never freed.                                 *)
(***************************************************************************)
EXTENDS Integers, FiniteSets

CONSTANTS
    Total,          \* heap_total
    PageG,          \* PAGE_SIZE
    Requests        \* bound: the sizes the clients ask for, rounded up

ASSUME TotalAssumption   == Total \in Nat
ASSUME PageAssumption    == PageG \in Nat \ {0}
ASSUME RequestAssumption == Requests \subseteq Nat \ {0}

Aligns   == {1, PageG}

VARIABLES
    size,           \* size of the block headed at each address of its domain
    freed,          \* the headers whose free_flag is set
    regions,        \* what alloc_aligned has handed out, [lo, hi)
    top,            \* heap_ptr
    used,           \* heap_used
    guard,          \* heap_guard_enabled
    pinned          \* the blocks an aligned region follows

vars == <<size, freed, regions, top, used, guard, pinned>>

Blocks == DOMAIN size
End(b) == b + 1 + size[b]           \* the first granule behind block b

TypeOK ==
    /\ Blocks \subseteq Nat
    /\ size \in [Blocks -> Nat \ {0}]
    /\ freed \subseteq Blocks
    /\ regions \subseteq [lo : Nat, hi : Nat]
    /\ top \in Nat
    /\ used \in Nat
    /\ guard \in BOOLEAN
    /\ pinned \subseteq Blocks \ freed

Init ==
    /\ size = [b \in {} |-> 0]
    /\ freed = {}
    /\ regions = {}
    /\ top = 0
    /\ used = 0
    /\ guard = FALSE
    /\ pinned = {}

EnableGuardPages ==
    /\ ~guard
    /\ guard' = TRUE
    /\ UNCHANGED <<size, freed, regions, top, used, pinned>>

-----------------------------------------------------------------------------
(* triad_mm_alloc: first fit, else from the top of the heap.               *)

Fits(b, n) == b \in freed /\ size[b] >= n + 1

FirstFit(b, n) ==
    /\ Fits(b, n)
    /\ \A c \in Blocks : Fits(c, n) => b <= c

\* The header of the remainder, and the sizes once it is split off.
Remainder(b, n) == b + 1 + n

\* Mutant: the remainder is not charged for its own header.
SplitForgetsHeader(b, n) ==
    [c \in Blocks \cup {Remainder(b, n)} |->
        IF c = b THEN n
        ELSE IF c = Remainder(b, n) THEN size[b] - n
        ELSE size[c]]

Split(b, n) ==
    [c \in Blocks \cup {Remainder(b, n)} |->
        IF c = b THEN n
        ELSE IF c = Remainder(b, n) THEN size[b] - n - 1
        ELSE size[c]]

AllocReuse(n) ==
    /\ \E b \in Blocks :
          /\ FirstFit(b, n)
          /\ IF size[b] >= n + 3
               THEN /\ size' = Split(b, n)
                    /\ freed' = (freed \ {b}) \cup {Remainder(b, n)}
               ELSE /\ freed' = freed \ {b}
                    /\ UNCHANGED size
    /\ UNCHANGED <<regions, top, used, guard, pinned>>

\* A guard page is asked of the page allocator, not cut from the heap: it
\* counts in the limit only.
GuardCharge == IF guard THEN PageG ELSE 0

\* Mutant: the header is not counted against the limit.
RoomForPayload(n) == used + n + GuardCharge <= Total

RoomFor(n) == used + n + 1 + GuardCharge <= Total

AllocTop(n) ==
    /\ \A b \in Blocks : ~Fits(b, n)
    /\ RoomFor(n)
    /\ size' = [c \in Blocks \cup {top} |-> IF c = top THEN n ELSE size[c]]
    /\ top' = top + n + 1
    /\ used' = used + n + 1
    /\ UNCHANGED <<freed, regions, guard, pinned>>

\* No room: NULL, and nothing changes.
AllocFail(n) ==
    /\ \A b \in Blocks : ~Fits(b, n)
    /\ ~RoomFor(n)
    /\ UNCHANGED vars

-----------------------------------------------------------------------------
(* triad_mm_alloc_aligned: always from the top, never given back.  The     *)
(* guard page is charged to heap_used here.                                *)

AlignUp(p, a) == p + ((a - (p % a)) % a)

Last == {b \in Blocks : \A c \in Blocks : c <= b}

AllocAligned(m, a) ==
    LET p     == AlignUp(top, a)
        n     == AlignUp(m, a)
        total == (p - top) + n + GuardCharge
    IN  /\ used + total <= Total
        /\ regions' = regions \cup {[lo |-> p, hi |-> p + n]}
        /\ top' = p + n
        /\ used' = used + total
        /\ Last \cap freed = {}
        /\ pinned' = pinned \cup Last
        /\ UNCHANGED <<size, freed, guard>>

-----------------------------------------------------------------------------
(* triad_mm_free: the block absorbs a free successor in the list, then a   *)
(* free predecessor absorbs the block.                                     *)

\* Mutant: the successor is absorbed without looking at its free_flag.
AfterAny(b) ==
    {c \in Blocks : /\ b < c
                    /\ \A d \in Blocks : d <= b \/ c <= d}

After(b) ==
    {c \in freed : /\ b < c
                   /\ \A d \in Blocks : d <= b \/ c <= d}

\* Mutant: a free predecessor is not looked for.
BeforeNone(b) == {}

Before(b) ==
    {c \in freed : /\ c < b
                   /\ \A d \in Blocks : d <= c \/ b <= d}

\* The size of b with every header of gone absorbed.
Absorbed(sz, gone) == sz + (IF gone = {} THEN 0
                            ELSE 1 + size[CHOOSE c \in gone : TRUE])

Free(b) ==
    LET n == Absorbed(size[b], After(b))
    IN  /\ b \in Blocks \ (freed \cup pinned)
        /\ IF Before(b) = {}
             THEN /\ size' = [c \in Blocks \ After(b) |->
                                 IF c = b THEN n ELSE size[c]]
                  /\ freed' = (freed \ After(b)) \cup {b}
             ELSE /\ size' = [c \in Blocks \ (After(b) \cup {b}) |->
                                 IF c \in Before(b) THEN size[c] + n + 1
                                 ELSE size[c]]
                  /\ freed' = freed \ After(b)
        /\ UNCHANGED <<regions, top, used, guard, pinned>>

\* triad_mm_realloc to a smaller size: the tail is cut off the block and
\* belongs to no block any more.  (To a larger one it is an alloc, a copy and
\* a free.)  The kernel has no caller of it.
ReallocShrink(b, n) ==
    /\ b \in Blocks \ freed
    /\ n < size[b]
    /\ size' = [size EXCEPT ![b] = n]
    /\ UNCHANGED <<freed, regions, top, used, guard, pinned>>

-----------------------------------------------------------------------------
Alloc(n) == AllocReuse(n) \/ AllocTop(n) \/ AllocFail(n)

Next ==
    \/ EnableGuardPages
    \/ \E n \in Requests : Alloc(n)
    \/ \E n \in Requests, a \in Aligns : AllocAligned(n, a)
    \/ \E b \in Blocks : Free(b)
    \/ \E b \in Blocks, n \in Requests : ReallocShrink(b, n)

Spec == Init /\ [][Next]_vars

-----------------------------------------------------------------------------
(* Properties.                                                             *)

\* No two blocks overlap, header included, whatever splits, merges and shrinks
\* came before, and no block overlaps a page table or another aligned region.
BlocksApart  == \A b, c \in Blocks : b < c => End(b) <= c
RegionsApart ==
    /\ \A r \in regions, b \in Blocks : End(b) <= r.lo \/ r.hi <= b
    /\ \A r, s \in regions : r = s \/ r.hi <= s.lo \/ s.hi <= r.lo
NoOverlap    == BlocksApart /\ RegionsApart

\* heap_used, which only grows, is at least what has been carved from the heap,
\* so the limit check keeps heap_ptr inside the heap (triad_mm_alloc compares
\* heap_used, not heap_ptr, with heap_total).
WithinHeap ==
    /\ \A b \in Blocks : End(b) <= top
    /\ \A r \in regions : r.lo < r.hi /\ r.hi <= top
    /\ top <= used
    /\ used <= Total

\* Coalescing is complete: two free blocks never follow one another in the
\* list, though free looks only one block ahead and one behind.
NoFreeNeighbours ==
    \A b, c \in freed :
        b < c => \E d \in Blocks \ freed : b < d /\ d < c

\* The heap is an allocator as Memory describes it: what is handed out is apart
\* from all that already is, and one free gives back that block and no other.
Owned == {[lo |-> b + 1, hi |-> End(b)] : b \in Blocks \ freed} \cup regions

Mem == INSTANCE Memory WITH owned <- Owned

Implements == Mem!Spec
=============================================================================
