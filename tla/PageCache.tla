------------------------------ MODULE PageCache ------------------------------
(***************************************************************************)
(* pagecache_impl_t: C-kern/memory/pagecache_impl.c.  Pages of several     *)
(* sizes are cut out of large blocks which are mapped from the operating   *)
(* system.  A block consists of sub-blocks, every sub-block of pages of    *)
(* one size.  There is no memory besides the pages: the description of a   *)
(* sub-block (subheader_t) lies on one of its free pages and moves when    *)
(* that page is allocated as the last one, block_t lies on the first pages *)
(* of sub-block 0, and a free page holds its node of the list it is in.    *)
(*                                                                         *)
(* A page cache is used by one thread; the actions are whole calls.  Sizes *)
(* are counted in pieces of memory; a page is named by its block, its      *)
(* sub-block, the piece it starts with and its size.  blocklist is the set *)
(* of mapped blocks.                                                       *)
(***************************************************************************)
EXTENDS LinkedList, Integers, FiniteSets, SequencesExt

CONSTANTS Blocks,      \* places where the operating system maps blocks
          PageSizes,   \* the sizes of pages (pagesize_e)
          SmallSize,   \* size of the pages of sub-block 0 (pagesize_4096)
          BlockPages,  \* pages which block_t occupies in sub-block 0
          SubSize,     \* pagecache_impl_SUBBLOCKSIZE
          NrSubblocks, \* pagecache_impl_NRSUBBLOCKS
          MaxAllocated \* bound: sizeallocated

ASSUME PageCacheAssumption ==
    /\ SubSize \in Nat /\ PageSizes \subseteq {n \in 1 .. SubSize : SubSize % n = 0}
    /\ SmallSize \in PageSizes
    /\ BlockPages \in 1 .. (SubSize \div SmallSize) - 1
    /\ NrSubblocks \in Nat \ {0, 1}
    /\ MaxAllocated \in Nat

VARIABLES cache,  \* the blocks, the lists of blocks and sizeallocated
          held    \* pages which the clients hold

vars == <<cache, held>>

Subblocks == 0 .. NrSubblocks - 1
NrPages(size) == SubSize \div size

NoSize == 0  \* pagesize__NROF: the sub-block has no pages
NoBlock == [nrused |-> -1]
Mapped(c) == {b \in Blocks : c.blocks[b] # NoBlock}

Page(b, s, i, size) == [block |-> b, sub |-> s, first |-> i * size, size |-> size]
PageIndex(p) == p.first \div p.size

FreeCache == [blocks          |-> [b \in Blocks |-> NoBlock],
              unusedblocklist |-> <<>>,
              freeblocklist   |-> [size \in PageSizes |-> <<>>],
              sizeallocated   |-> 0]

Init == cache = FreeCache /\ held = {}

-----------------------------------------------------------------------------
(* subheader_t.  header is the index plus one of the page it lies on; pages *)
(* from nextfree on were never used.                                       *)

\* A sub-block whose pages are free from index i on.
InitFree(size, i) == [pgsize |-> size, header |-> i + 1, freepages |-> <<>>,
                      nextfree |-> i + 1, nrused |-> i]

\* A sub-block whose only free page has index i.  Mistake: the page counts as used.
InitUsedBug(size, i) == [pgsize |-> size, header |-> i + 1, freepages |-> <<>>,
                         nextfree |-> NrPages(size), nrused |-> NrPages(size)]

InitUsed(size, i) == [pgsize |-> size, header |-> i + 1, freepages |-> <<>>,
                      nextfree |-> NrPages(size), nrused |-> NrPages(size) - 1]

\* A sub-block without use; more than these two members is never read.
InitUnused == [pgsize |-> NoSize, header |-> 1, freepages |-> <<>>, nextfree |-> 0, nrused |-> 0]
NeverUsed == [InitUnused EXCEPT !.header = 0]

\* The page the next allocation takes: the page of the header comes last.
NextPage(sub) == IF sub.freepages # <<>> THEN Head(sub.freepages)
                 ELSE IF sub.nextfree < NrPages(sub.pgsize) THEN sub.nextfree
                 ELSE sub.header - 1

AllocPage(sub) ==
    IF sub.freepages # <<>>
    THEN [sub EXCEPT !.freepages = Tail(@), !.nrused = @ + 1]
    ELSE IF sub.nextfree < NrPages(sub.pgsize)
    THEN [sub EXCEPT !.nextfree = @ + 1, !.nrused = @ + 1]
    ELSE [sub EXCEPT !.header = 0, !.nrused = @ + 1]

\* The first lines of freepage_subheader: the page with index i is free already.
\* Free pages keep their marker, clients do not write into pages they released.
\* Mistake: the page of the header looks like a used one.
IsFreeBug(sub, i) == \/ i >= sub.nextfree
                     \/ i \in ToSet(sub.freepages)

IsFree(sub, i) == \/ i >= sub.nextfree
                  \/ i = sub.header - 1
                  \/ i \in ToSet(sub.freepages)

FreePage(sub, i) == [sub EXCEPT !.freepages = <<i>> \o @, !.nrused = @ - 1]

-----------------------------------------------------------------------------
(* block_t.  The operators return the cache after the call.                *)

NewBlock(c, b) ==
    [c EXCEPT !.blocks[b] = [sub |-> [s \in Subblocks |-> IF s = 0 THEN InitFree(SmallSize, BlockPages)
                                                          ELSE NeverUsed],
                             freesublist |-> [size \in PageSizes |-> IF size = SmallSize THEN <<0>> ELSE <<>>],
                             unusedsublist |-> <<>>,
                             nextunused |-> 1,
                             nrused |-> 0],
              !.unusedblocklist = <<b>> \o @,
              !.freeblocklist[SmallSize] = <<b>> \o @]

\* delete_block for every block of a set.
DeleteBlocks(c, set) ==
    LET Rest(list) == Kept(list, Blocks \ set)
    IN [c EXCEPT !.blocks = [b \in Blocks |-> IF b \in set THEN NoBlock ELSE @[b]],
                 !.unusedblocklist = Rest(@),
                 !.freeblocklist = [size \in PageSizes |-> Rest(@[size])]]

\* The sub-block of block b which allocpage_block uses.
FirstFree(c, b, size) == Head(c.blocks[b].freesublist[size])

\* If sub-block s was the last of its list the block leaves the list of blocks.
LeaveFreeList(c, b, s, size) ==
    [c EXCEPT !.blocks[b].freesublist[size] = Without(@, s),
              !.freeblocklist[size] = IF Len(c.blocks[b].freesublist[size]) = 1 THEN Without(@, b) ELSE @]

EnterFreeList(c, b, s, size) ==
    [c EXCEPT !.blocks[b].freesublist[size] = <<s>> \o @,
              !.freeblocklist[size] = IF c.blocks[b].freesublist[size] = <<>> THEN <<b>> \o @ ELSE @]

EnterUnusedList(c, b, s) ==
    [c EXCEPT !.blocks[b].unusedsublist = <<s>> \o @,
              !.unusedblocklist = IF b \in ToSet(@) THEN @ ELSE <<b>> \o @]

\* Of allocpage_block: what follows the call of allocpage_subheader.
AfterAlloc(c, b, s, size) == IF c.blocks[b].sub[s].header = 0 THEN LeaveFreeList(c, b, s, size) ELSE c

AllocBlock(c, b, s, size) ==
    AfterAlloc([c EXCEPT !.blocks[b].sub[s] = AllocPage(@), !.blocks[b].nrused = @ + 1], b, s, size)

\* The sub-block allocunused_block takes.
UnusedSub(blk) == IF blk.unusedsublist = <<>> THEN blk.nextunused ELSE Head(blk.unusedsublist)

\* Mistake: the block leaves the list although one of its sub-blocks is unused.
LeaveUnusedBug(blk) == IF blk.unusedsublist = <<>> THEN [blk EXCEPT !.nextunused = @ + 1]
                       ELSE [blk EXCEPT !.unusedsublist = <<>>]

LeaveUnused(blk) == IF blk.unusedsublist = <<>> THEN [blk EXCEPT !.nextunused = @ + 1]
                    ELSE [blk EXCEPT !.unusedsublist = Tail(@)]

UsedUp(blk) == blk.unusedsublist = <<>> /\ blk.nextunused = NrSubblocks

TakeUnused(c, b, s, size) ==
    [c EXCEPT !.blocks[b] = [LeaveUnused(@) EXCEPT !.sub[s] = InitFree(size, 0)],
              !.unusedblocklist = IF UsedUp(LeaveUnused(c.blocks[b])) THEN Without(@, b) ELSE @]

\* releasepage_block for page i of sub-block s which is in use.
ReleaseUsed(c, b, s, i, size) ==
    IF c.blocks[b].sub[s].nrused = 1
    THEN EnterUnusedList(LeaveFreeList([c EXCEPT !.blocks[b].sub[s] = InitUnused], b, s, size), b, s)
    ELSE [c EXCEPT !.blocks[b].sub[s] = FreePage(@, i)]

\* The same for a sub-block without header: all its pages were used.
ReleaseFull(c, b, s, i, size) ==
    IF InitUsed(size, i).nrused > 0
    THEN EnterFreeList([c EXCEPT !.blocks[b].sub[s] = InitUsed(size, i)], b, s, size)
    ELSE EnterUnusedList([c EXCEPT !.blocks[b].sub[s] = InitUnused], b, s)

Counted(c, b, size) == [c EXCEPT !.blocks[b].nrused = @ - 1, !.sizeallocated = @ - size]

ReleaseBlock(c, b, s, i, size) ==
    Counted(IF c.blocks[b].sub[s].header # 0 THEN ReleaseUsed(c, b, s, i, size)
                                             ELSE ReleaseFull(c, b, s, i, size), b, size)

\* A block without used pages is returned to the system unless nothing is
\* allocated any more.  Mistake: the second test is the wrong way round.
AfterReleaseBug(c, b) == IF c.blocks[b].nrused = 0 /\ c.sizeallocated = 0 THEN DeleteBlocks(c, {b}) ELSE c

AfterRelease(c, b) == IF c.blocks[b].nrused = 0 /\ c.sizeallocated > 0 THEN DeleteBlocks(c, {b}) ELSE c

-----------------------------------------------------------------------------
(* pagecache_impl_t *)

\* allocpage_block in the cache c, in which sub-block s has a free page.
Allocate(c, b, s, size) ==
    /\ c.sizeallocated + size <= MaxAllocated
    /\ cache' = [AllocBlock(c, b, s, size) EXCEPT !.sizeallocated = @ + size]
    /\ held' = held \cup {Page(b, s, NextPage(c.blocks[b].sub[s]), size)}

\* allocunused_block
AllocateUnused(c, b, s, size) == Allocate(EnterFreeList(TakeUnused(c, b, s, size), b, s, size), b, s, size)

AllocFreePage(size) ==
    /\ cache.freeblocklist[size] # <<>>
    /\ LET b == Head(cache.freeblocklist[size])
       IN Allocate(cache, b, FirstFree(cache, b, size), size)

AllocUnusedSubblock(size) ==
    /\ cache.freeblocklist[size] = <<>>
    /\ cache.unusedblocklist # <<>>
    /\ LET b == Head(cache.unusedblocklist)
       IN AllocateUnused(cache, b, UnusedSub(cache.blocks[b]), size)

\* The operating system maps the new block at b.  (If it refuses, nothing changed.)
AllocNewBlock(size, b) ==
    /\ cache.freeblocklist[size] = <<>>
    /\ cache.unusedblocklist = <<>>
    /\ b \notin Mapped(cache)
    /\ IF size = SmallSize THEN Allocate(NewBlock(cache, b), b, 0, size)
       ELSE AllocateUnused(NewBlock(cache, b), b, 1, size)

\* Pages of mapped memory, allocated or not, whole or parts of pages of another
\* size, except the memory of block_t.
Pages == {p \in [block : Mapped(cache), sub : Subblocks, first : 0 .. SubSize - 1, size : PageSizes] :
             /\ p.first + p.size <= SubSize
             /\ p.sub = 0 => p.first >= BlockPages * SmallSize}

\* What releasepage_pagecacheimpl does not reject with EINVAL ...
Fits(p) == LET size == cache.blocks[p.block].sub[p.sub].pgsize
           IN size # NoSize /\ p.size = size /\ p.first % size = 0

\* ... nor with EALREADY.
Accepts(p) == LET sub == cache.blocks[p.block].sub[p.sub]
              IN Fits(p) /\ ~(sub.header # 0 /\ IsFree(sub, PageIndex(p)))

Release(p) ==
    /\ Accepts(p)
    /\ cache' = AfterRelease(ReleaseBlock(cache, p.block, p.sub, PageIndex(p), p.size), p.block)
    /\ held' = held \ {p}

\* emptycache_pagecacheimpl
Empty == /\ cache' = DeleteBlocks(cache, {b \in Mapped(cache) : cache.blocks[b].nrused = 0})
         /\ UNCHANGED held

\* free_pagecacheimpl; ENOTEMPTY tells the client that its pages are lost.
Free == cache' = FreeCache /\ held' = {}

Next == \/ \E size \in PageSizes : \/ AllocFreePage(size)
                                   \/ AllocUnusedSubblock(size)
                                   \/ \E b \in Blocks : AllocNewBlock(size, b)
        \/ \E p \in Pages : Release(p)
        \/ Empty
        \/ Free

Spec == Init /\ [][Next]_vars

-----------------------------------------------------------------------------
(* Properties *)

\* The indexes of the pages of a sub-block which clients hold, and the pages of a block.
HeldIn(pages, b, s) == {PageIndex(p) : p \in {q \in pages : q.block = b /\ q.sub = s}}

InBlock(pages, b) == {p \in pages : p.block = b}

\* Indexes of the pages at the start of a sub-block which block_t occupies.
Reserved(s) == IF s = 0 THEN 0 .. BlockPages - 1 ELSE {}

\* The memory of pages, in pieces.
Occupied(pages) ==
    UNION {{<<p.block, p.sub, k>> : k \in p.first .. p.first + p.size - 1} : p \in pages}

\* Every page below nextfree is in one place: it is in the list of free pages,
\* the header lies on it, or it is used, by a client or by block_t.
SubAccounted(sub, s, pages) ==
    /\ sub.header <= sub.nextfree /\ sub.nextfree <= NrPages(sub.pgsize)
    /\ ToSet(sub.freepages) \subseteq (0 .. sub.nextfree - 1) \ {sub.header - 1}
    /\ pages \cap Reserved(s) = {}
    /\ pages \cup Reserved(s) = (0 .. sub.nextfree - 1) \ ({sub.header - 1} \cup ToSet(sub.freepages))
    /\ sub.nrused = Cardinality(pages \cup Reserved(s))

BlockAccounted(blk, b, pages) ==
    /\ blk.nrused = Cardinality(InBlock(pages, b))
    /\ \A p \in InBlock(pages, b) : p.size = blk.sub[p.sub].pgsize
    /\ \A s \in Subblocks : IF blk.sub[s].pgsize = NoSize THEN HeldIn(pages, b, s) = {}
                            ELSE SubAccounted(blk.sub[s], s, HeldIn(pages, b, s))

\* Every page of a sub-block in use is in exactly one place: no header and no
\* list node is written over a page somebody holds, and no page is lost.  The
\* counters of pages agree with what the clients hold.
PagesAccounted ==
    /\ \A p \in held : p.block \in Mapped(cache)
    /\ cache.sizeallocated = Cardinality(Occupied(held))
    /\ \A b \in Mapped(cache) : BlockAccounted(cache.blocks[b], b, held)

\* The lists of a block.
BlockLists(blk) ==
    /\ IsInjective(blk.unusedsublist)
    /\ ToSet(blk.unusedsublist) = {s \in 1 .. blk.nextunused - 1 : blk.sub[s].pgsize = NoSize}
    /\ \A s \in Subblocks : s >= blk.nextunused => blk.sub[s].pgsize = NoSize
    /\ \A size \in PageSizes :
          /\ IsInjective(blk.freesublist[size])
          /\ ToSet(blk.freesublist[size])
                 = {s \in Subblocks : blk.sub[s].pgsize = size /\ blk.sub[s].header # 0}

\* The lists of blocks.
CacheLists(c) ==
    /\ IsInjective(c.unusedblocklist)
    /\ ToSet(c.unusedblocklist) = {b \in Mapped(c) : ~UsedUp(c.blocks[b])}
    /\ \A size \in PageSizes :
          /\ IsInjective(c.freeblocklist[size])
          /\ ToSet(c.freeblocklist[size]) = {b \in Mapped(c) : c.blocks[b].freesublist[size] # <<>>}

\* A free page is found without a search, and is not missed before another
\* block is mapped: a block is in the list of a page size exactly if it lists
\* a sub-block with such pages, that are those with a header, and in the list
\* of unused sub-blocks exactly if it has one.
ListsComplete == CacheLists(cache) /\ \A b \in Mapped(cache) : BlockLists(cache.blocks[b])

\* releasepage_pagecacheimpl finds out what is wrong: it accepts exactly the
\* pages which are allocated, whatever became of the memory of a page which
\* was released before.
AcceptsAllocated == {p \in Pages : Accepts(p)} = held

\* Memory goes back to the system: while pages are allocated no block is
\* without used pages, and otherwise one block is kept at most.
OneIdleBlock ==
    IF held # {} THEN \A b \in Mapped(cache) : cache.blocks[b].nrused > 0
    ELSE \A a, b \in Mapped(cache) : a = b

-----------------------------------------------------------------------------
(* The inductive invariant *)

SubHeaders == [pgsize : PageSizes \cup {NoSize}, header : Nat, freepages : Seq(Nat),
               nextfree : Nat, nrused : Nat]

BlockRecords == [sub : [Subblocks -> SubHeaders],
                 freesublist : [PageSizes -> Seq(Subblocks)],
                 unusedsublist : Seq(Subblocks),
                 nextunused : 1 .. NrSubblocks,
                 nrused : Nat]

Caches == [blocks : [Blocks -> BlockRecords \cup {NoBlock}],
           unusedblocklist : Seq(Blocks),
           freeblocklist : [PageSizes -> Seq(Blocks)],
           sizeallocated : Nat]

\* A page starts at a multiple of its size.
AllPages == {p \in [block : Blocks, sub : Subblocks, first : Nat, size : PageSizes] :
                PageIndex(p) \in Nat /\ p.first = PageIndex(p) * p.size}

TypeOK == /\ cache \in Caches
          /\ held \subseteq AllPages /\ IsFiniteSet(held) /\ IsFiniteSet(Occupied(held))

\* A header remains on the last free page.
SubShape(sub, s) ==
    /\ s = 0 => sub.pgsize = SmallSize
    /\ IsInjective(sub.freepages)
    /\ sub.pgsize # NoSize /\ sub.header = 0 => sub.freepages = <<>> /\ sub.nextfree = NrPages(sub.pgsize)

\* Sub-block s goes back to the unused ones with its last page.
InUse(sub, b, s, pages) == s # 0 /\ sub.pgsize # NoSize => HeldIn(pages, b, s) # {}

SubsInv == \A b \in Mapped(cache) : \A s \in Subblocks :
              /\ SubShape(cache.blocks[b].sub[s], s)
              /\ InUse(cache.blocks[b].sub[s], b, s, held)

CacheInv == TypeOK /\ PagesAccounted /\ ListsComplete /\ SubsInv /\ OneIdleBlock

=============================================================================
