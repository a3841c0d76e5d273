--------------------------- MODULE PageCacheProofs ---------------------------
(***************************************************************************)
(* Proofs about PageCache, for any set of blocks, any page sizes which     *)
(* divide the size of a sub-block and any number of sub-blocks.            *)
(***************************************************************************)
EXTENDS PageCache, WaitListLemmas

-----------------------------------------------------------------------------
(* Sizes and indexes *)

\* A sub-block consists of whole pages.
LEMMA Sizes ==
    ASSUME NEW size \in PageSizes
    PROVE  /\ size \in Nat \ {0} /\ size # NoSize
           /\ NrPages(size) \in Nat \ {0} /\ NrPages(size) * size = SubSize /\ SubSize \in Nat
<1>1. SubSize \in Nat /\ size \in 1 .. SubSize /\ SubSize % size = 0
  BY PageCacheAssumption
<1> DEFINE n == SubSize \div size
<1>2. n \in Nat /\ n * size = SubSize
  BY <1>1
<1>3. n # 0
  BY <1>1, <1>2
<1> QED BY <1>1, <1>2, <1>3 DEF NrPages, NoSize

\* A multiple is divided without rest.
LEMMA Multiple ==
    ASSUME NEW i \in Nat, NEW m \in Nat \ {0}
    PROVE  (i * m) % m = 0
<1> DEFINE a == i * m
<1>1. a \in Nat /\ a \div m = i
  OBVIOUS
<1> HIDE DEF a
<1>2. a % m = a - m * (a \div m)
  BY <1>1
<1>3. m * i = a
  BY DEF a
<1> QED BY <1>1, <1>2, <1>3 DEF a

\* Sub-block 0 has room for block_t and one page more.
LEMMA SmallPages ==
    /\ SmallSize \in PageSizes /\ BlockPages \in Nat \ {0} /\ BlockPages < NrPages(SmallSize)
    /\ NrSubblocks \in Nat /\ NrSubblocks >= 2 /\ 0 \in Subblocks /\ 1 \in Subblocks
<1>1. SmallSize \in PageSizes /\ BlockPages \in 1 .. NrPages(SmallSize) - 1
  BY PageCacheAssumption DEF NrPages
<1>2. NrPages(SmallSize) \in Nat
  BY <1>1, Sizes
<1> QED BY <1>1, <1>2, PageCacheAssumption DEF Subblocks

\* The page with an index.
LEMMA PageAt ==
    ASSUME NEW b \in Blocks, NEW s \in Subblocks, NEW i \in Nat, NEW size \in PageSizes
    PROVE  LET p == Page(b, s, i, size)
           IN /\ p \in AllPages /\ PageIndex(p) = i
              /\ p.block = b /\ p.sub = s /\ p.first = i * size /\ p.size = size
<1>1. size \in Nat \ {0}
  BY Sizes
<1>2. i * size \in Nat /\ (i * size) \div size = i
  BY <1>1
<1> DEFINE p == Page(b, s, i, size)
           first == i * size
<1>3. p = [block |-> b, sub |-> s, first |-> first, size |-> size]
  BY DEF Page
<1> HIDE DEF first
<1>4. /\ p \in [block : Blocks, sub : Subblocks, first : Nat, size : PageSizes]
      /\ p.block = b /\ p.sub = s /\ p.first = first /\ p.size = size
  BY <1>2, <1>3 DEF first
<1> HIDE DEF p
<1>5. PageIndex(p) = i
  BY <1>2, <1>4 DEF PageIndex, first
<1> QED BY <1>2, <1>4, <1>5 DEF AllPages, p, first

\* A page is known by its place.
LEMMA SamePage ==
    ASSUME NEW p \in AllPages, NEW q \in AllPages, p.block = q.block, p.sub = q.sub,
           p.size = q.size, PageIndex(p) = PageIndex(q)
    PROVE  p = q
<1>1. p.first = q.first
  BY DEF AllPages
<1> QED BY <1>1 DEF AllPages

\* The members of a page.
LEMMA PageType ==
    ASSUME NEW p \in AllPages
    PROVE  /\ p.block \in Blocks /\ p.sub \in Subblocks /\ p.first \in Nat /\ p.size \in PageSizes
           /\ p.size \in Nat \ {0} /\ PageIndex(p) \in Nat /\ p.first = PageIndex(p) * p.size
<1>1. p.block \in Blocks /\ p.sub \in Subblocks /\ p.first \in Nat /\ p.size \in PageSizes
  BY DEF AllPages
<1>2. PageIndex(p) \in Nat /\ p.first = PageIndex(p) * p.size
  BY DEF AllPages
<1> QED BY <1>1, <1>2, Sizes

-----------------------------------------------------------------------------
(* The pages clients hold *)

\* A page is allocated.
LEMMA HeldAdd ==
    ASSUME NEW h \in SUBSET AllPages, NEW p \in AllPages, NEW b \in Blocks, NEW s \in Subblocks
    PROVE  /\ p.block = b /\ p.sub = s => HeldIn(h \cup {p}, b, s) = HeldIn(h, b, s) \cup {PageIndex(p)}
           /\ ~(p.block = b /\ p.sub = s) => HeldIn(h \cup {p}, b, s) = HeldIn(h, b, s)
BY DEF HeldIn

\* A page is released.
LEMMA HeldRemove ==
    ASSUME NEW h \in SUBSET AllPages, NEW p \in h, NEW b \in Blocks, NEW s \in Subblocks,
           \A q \in h : q.block = p.block /\ q.sub = p.sub => q.size = p.size
    PROVE  /\ PageIndex(p) \in HeldIn(h, p.block, p.sub)
           /\ p.block = b /\ p.sub = s => HeldIn(h \ {p}, b, s) = HeldIn(h, b, s) \ {PageIndex(p)}
           /\ ~(p.block = b /\ p.sub = s) => HeldIn(h \ {p}, b, s) = HeldIn(h, b, s)
<1>1. \A q \in h : q.block = p.block /\ q.sub = p.sub /\ PageIndex(q) = PageIndex(p) => q = p
  BY SamePage
<1> QED BY <1>1 DEF HeldIn

\* The pages of a block.
LEMMA InBlockAdd ==
    ASSUME NEW h \in SUBSET AllPages, IsFiniteSet(h), NEW p \in AllPages, p \notin h, NEW b \in Blocks
    PROVE  /\ IsFiniteSet(h \cup {p}) /\ Cardinality(InBlock(h, b)) \in Nat
           /\ p.block = b => /\ InBlock(h \cup {p}, b) = InBlock(h, b) \cup {p}
                             /\ Cardinality(InBlock(h \cup {p}, b)) = Cardinality(InBlock(h, b)) + 1
           /\ p.block # b => InBlock(h \cup {p}, b) = InBlock(h, b)
<1>1. /\ InBlock(h, b) \subseteq h /\ p \notin InBlock(h, b)
      /\ p.block = b => InBlock(h \cup {p}, b) = InBlock(h, b) \cup {p}
      /\ p.block # b => InBlock(h \cup {p}, b) = InBlock(h, b)
  BY DEF InBlock
<1>2. IsFiniteSet(InBlock(h, b)) /\ Cardinality(InBlock(h, b)) \in Nat
  BY <1>1, FS_Subset, FS_CardinalityType
<1>3. Cardinality(InBlock(h, b) \cup {p}) = Cardinality(InBlock(h, b)) + 1
  BY <1>1, <1>2, FS_AddElement
<1>4. IsFiniteSet(h \cup {p})
  BY FS_AddElement
<1> QED BY <1>1, <1>2, <1>3, <1>4

\* A page less: nrused of its block goes down, the other blocks keep theirs.
LEMMA InBlockRemove ==
    ASSUME NEW h \in SUBSET AllPages, IsFiniteSet(h), NEW p \in h, NEW b \in Blocks
    PROVE  /\ IsFiniteSet(h \ {p}) /\ Cardinality(InBlock(h \ {p}, b)) \in Nat
           /\ p.block = b => /\ InBlock(h \ {p}, b) = InBlock(h, b) \ {p}
                             /\ Cardinality(InBlock(h, b)) = Cardinality(InBlock(h \ {p}, b)) + 1
           /\ p.block # b => InBlock(h \ {p}, b) = InBlock(h, b)
<1> DEFINE g == h \ {p}
<1>1. IsFiniteSet(g)
  BY FS_RemoveElement
<1>2. h = g \cup {p} /\ p \notin g /\ g \in SUBSET AllPages /\ p \in AllPages
  OBVIOUS
<1>3. /\ p.block = b => InBlock(g, b) = InBlock(h, b) \ {p}
      /\ p.block # b => InBlock(g, b) = InBlock(h, b)
  BY DEF InBlock
<1> HIDE DEF g
<1>. g \in SUBSET AllPages /\ p \in AllPages
  BY <1>2
<1>4. /\ Cardinality(InBlock(g, b)) \in Nat
      /\ p.block = b => Cardinality(InBlock(g \cup {p}, b)) = Cardinality(InBlock(g, b)) + 1
  <2>1. Cardinality(InBlock(g, b)) \in Nat
    BY <1>1, <1>2, InBlockAdd
  <2>2. p.block = b => Cardinality(InBlock(g \cup {p}, b)) = Cardinality(InBlock(g, b)) + 1
    BY <1>1, <1>2, InBlockAdd
  <2> QED BY <2>1, <2>2
<1>5. p.block = b => Cardinality(InBlock(h, b)) = Cardinality(InBlock(g, b)) + 1
  BY <1>2, <1>4
<1> QED BY <1>1, <1>3, <1>4, <1>5 DEF g

\* A block without used pages is no page's block.
LEMMA InBlockNone ==
    ASSUME NEW h \in SUBSET AllPages, IsFiniteSet(h), NEW b \in Blocks
    PROVE  Cardinality(InBlock(h, b)) = 0 <=> \A q \in h : q.block # b
<1>1. InBlock(h, b) \subseteq h
  BY DEF InBlock
<1>2. IsFiniteSet(InBlock(h, b))
  BY <1>1, FS_Subset
<1>3. Cardinality(InBlock(h, b)) = 0 <=> InBlock(h, b) = {}
  BY <1>2, FS_EmptySet
<1> QED BY <1>3 DEF InBlock

\* The memory of a page.
Pieces(p) == {<<p.block, p.sub, k>> : k \in p.first .. p.first + p.size - 1}

\* A page occupies as many pieces as its size says.
LEMMA PiecesCount ==
    ASSUME NEW p \in AllPages
    PROVE  IsFiniteSet(Pieces(p)) /\ Cardinality(Pieces(p)) = p.size /\ Pieces(p) # {}
<1> DEFINE I == p.first .. p.first + p.size - 1
           f == [k \in I |-> <<p.block, p.sub, k>>]
<1>1. p.first \in Nat /\ p.size \in Nat \ {0}
  BY PageType
<1>2. IsFiniteSet(I) /\ Cardinality(I) = p.size /\ p.first \in I
  <2>1. p.first \in Int /\ p.first + p.size - 1 \in Int /\ ~(p.first > p.first + p.size - 1)
    BY <1>1
  <2>2. IsFiniteSet(I) /\ Cardinality(I) = (p.first + p.size - 1) - p.first + 1
    BY <2>1, FS_Interval
  <2> QED BY <1>1, <2>2
<1>3. f \in Bijection(I, Pieces(p))
  BY DEF Bijection, Injection, Surjection, Pieces, IsInjective
<1> HIDE DEF f
<1>4. ExistsBijection(I, Pieces(p))
  BY <1>3 DEF ExistsBijection
<1>5. Pieces(p) # {}
  BY <1>2 DEF Pieces
<1> HIDE DEF I
<1> QED BY <1>2, <1>4, <1>5, FS_Bijection

\* Two pages of the same size have no memory in common.
LEMMA PiecesDisjoint ==
    ASSUME NEW p \in AllPages, NEW q \in AllPages, p # q,
           p.block = q.block /\ p.sub = q.sub => p.size = q.size
    PROVE  Pieces(p) \cap Pieces(q) = {}
<1> SUFFICES ASSUME NEW b, NEW s, NEW k, <<b, s, k>> \in Pieces(p), <<b, s, k>> \in Pieces(q)
             PROVE  FALSE
  BY DEF Pieces
<1>1. /\ p.block = b /\ p.sub = s /\ k \in p.first .. p.first + p.size - 1
      /\ q.block = b /\ q.sub = s /\ k \in q.first .. q.first + q.size - 1
  BY DEF Pieces
<1>2. PageIndex(p) # PageIndex(q)
  BY <1>1, SamePage
<1> DEFINE i == PageIndex(p)
           j == PageIndex(q)
           m == p.size
<1>3. /\ i \in Nat /\ j \in Nat /\ m \in Nat \ {0} /\ i # j
      /\ k \in i * m .. i * m + m - 1 /\ k \in j * m .. j * m + m - 1
  BY <1>1, <1>2, PageType
<1> HIDE DEF i, j, m
<1>4. CASE i < j
  <2>1. (i + 1) * m <= j * m
    BY <1>3, <1>4
  <2>2. (i + 1) * m = i * m + m
    BY <1>3
  <2> QED BY <1>3, <2>1, <2>2
<1>5. CASE j < i
  <2>1. (j + 1) * m <= i * m
    BY <1>3, <1>5
  <2>2. (j + 1) * m = j * m + m
    BY <1>3
  <2> QED BY <1>3, <2>1, <2>2
<1> QED BY <1>3, <1>4, <1>5

\* sizeallocated after an allocation: a page which nobody holds adds its size, as it
\* shares no piece with the pages of its sub-block.
LEMMA OccupiedAdd ==
    ASSUME NEW h \in SUBSET AllPages, IsFiniteSet(Occupied(h)), NEW p \in AllPages, p \notin h,
           \A q \in h : q.block = p.block /\ q.sub = p.sub => q.size = p.size
    PROVE  /\ IsFiniteSet(Occupied(h \cup {p})) /\ Cardinality(Occupied(h)) \in Nat
           /\ Cardinality(Occupied(h \cup {p})) = Cardinality(Occupied(h)) + p.size
           /\ p.size \in Nat \ {0}
<1>1. \A g : Occupied(g) = UNION {Pieces(q) : q \in g}
  BY DEF Occupied, Pieces
<1>2. Occupied(h \cup {p}) = Occupied(h) \cup Pieces(p)
  BY <1>1
<1>3. Occupied(h) \cap Pieces(p) = {}
  <2>1. \A q \in h : Pieces(q) \cap Pieces(p) = {}
    BY PiecesDisjoint
  <2> QED BY <1>1, <2>1
<1>4. IsFiniteSet(Pieces(p)) /\ Cardinality(Pieces(p)) = p.size
  BY PiecesCount
<1>5. Cardinality(Occupied(h)) \in Nat
  BY FS_CardinalityType
<1>6. Cardinality({}) = 0
  BY FS_EmptySet
<1>7. /\ IsFiniteSet(Occupied(h) \cup Pieces(p))
      /\ Cardinality(Occupied(h) \cup Pieces(p)) = Cardinality(Occupied(h)) + p.size - 0
  BY <1>3, <1>4, <1>6, FS_Union
<1>8. p.size \in Nat \ {0}
  BY PageType
<1>9. Cardinality(Occupied(h) \cup Pieces(p)) = Cardinality(Occupied(h)) + p.size
  BY <1>5, <1>7, <1>8
<1> QED BY <1>2, <1>5, <1>7, <1>8, <1>9

\* sizeallocated after a release: the size of the page less, and 0 exactly if no page
\* is held any more.
LEMMA OccupiedRemove ==
    ASSUME NEW h \in SUBSET AllPages, IsFiniteSet(Occupied(h)), NEW p \in h,
           \A q \in h : q.block = p.block /\ q.sub = p.sub => q.size = p.size
    PROVE  /\ IsFiniteSet(Occupied(h \ {p})) /\ Cardinality(Occupied(h \ {p})) \in Nat
           /\ Cardinality(Occupied(h \ {p})) = Cardinality(Occupied(h)) - p.size
           /\ p.size \in Nat \ {0}
           /\ Cardinality(Occupied(h \ {p})) = 0 <=> h \ {p} = {}
<1> DEFINE g == h \ {p}
<1>1. g \in SUBSET AllPages /\ h = g \cup {p} /\ p \notin g /\ p \in AllPages
  OBVIOUS
<1>2. Occupied(g) \subseteq Occupied(h)
  BY DEF Occupied
<1>3. IsFiniteSet(Occupied(g))
  BY <1>2, FS_Subset
<1>4. \A q \in g : q.block = p.block /\ q.sub = p.sub => q.size = p.size
  OBVIOUS
<1> HIDE DEF g
<1>5. /\ Cardinality(Occupied(g)) \in Nat /\ p.size \in Nat \ {0}
      /\ Cardinality(Occupied(h)) = Cardinality(Occupied(g)) + p.size
  BY <1>1, <1>3, <1>4, OccupiedAdd
<1>6. Cardinality(Occupied(g)) = 0 <=> g = {}
  <2>1. Cardinality(Occupied(g)) = 0 <=> Occupied(g) = {}
    BY <1>3, FS_EmptySet
  <2>2. Occupied(g) = UNION {Pieces(q) : q \in g}
    BY DEF Occupied, Pieces
  <2>3. \A q \in g : Pieces(q) # {}
    BY <1>1, PiecesCount
  <2> QED BY <2>1, <2>2, <2>3
<1> QED BY <1>3, <1>5, <1>6 DEF g

-----------------------------------------------------------------------------
(* A sub-block *)

\* Sub-block s describes its pages if clients hold the pages with the indexes U.
SubOK(sub, s, U) ==
    /\ sub \in SubHeaders
    /\ SubShape(sub, s)
    /\ IF sub.pgsize = NoSize THEN U = {} ELSE SubAccounted(sub, s, U)

\* What SubOK says of a sub-block in use.
LEMMA SubMembers ==
    ASSUME NEW sub, NEW s \in Subblocks, NEW U, SubOK(sub, s, U), sub.pgsize # NoSize
    PROVE  /\ sub.pgsize \in PageSizes /\ sub.header \in Nat /\ sub.freepages \in Seq(Nat)
           /\ sub.nextfree \in Nat /\ sub.nrused \in Nat /\ NrPages(sub.pgsize) \in Nat \ {0}
           /\ IsInjective(sub.freepages)
           /\ s = 0 => sub.pgsize = SmallSize
           /\ sub.header = 0 => sub.freepages = <<>> /\ sub.nextfree = NrPages(sub.pgsize)
           /\ sub.header <= sub.nextfree /\ sub.nextfree <= NrPages(sub.pgsize)
           /\ ToSet(sub.freepages) \subseteq (0 .. sub.nextfree - 1) \ {sub.header - 1}
           /\ U \cap Reserved(s) = {}
           /\ U \cup Reserved(s) = (0 .. sub.nextfree - 1) \ ({sub.header - 1} \cup ToSet(sub.freepages))
           /\ sub.nrused = Cardinality(U \cup Reserved(s))
           /\ IsFiniteSet(U \cup Reserved(s))
           /\ U \subseteq 0 .. NrPages(sub.pgsize) - 1
<1>1. /\ sub.pgsize \in PageSizes /\ sub.header \in Nat /\ sub.freepages \in Seq(Nat)
      /\ sub.nextfree \in Nat /\ sub.nrused \in Nat
  BY DEF SubOK, SubHeaders
<1>2. NrPages(sub.pgsize) \in Nat \ {0}
  BY <1>1, Sizes
<1>3. SubAccounted(sub, s, U) /\ SubShape(sub, s)
  BY DEF SubOK
<1>4. U \cup Reserved(s) \subseteq 0 .. sub.nextfree - 1
  BY <1>3 DEF SubAccounted
<1>5. IsFiniteSet(U \cup Reserved(s))
  <2>1. IsFiniteSet(0 .. sub.nextfree - 1)
    BY <1>1, FS_Interval
  <2> QED BY <1>4, <2>1, FS_Subset
<1>6. U \subseteq 0 .. NrPages(sub.pgsize) - 1
  BY <1>1, <1>2, <1>3, <1>4 DEF SubAccounted
<1> QED BY <1>1, <1>2, <1>3, <1>5, <1>6 DEF SubAccounted, SubShape

\* The reserved pages are the pages of block_t.
LEMMA ReservedPages ==
    ASSUME NEW s \in Subblocks
    PROVE  /\ Reserved(s) \subseteq Nat
           /\ s # 0 => Reserved(s) = {}
           /\ s = 0 => 0 \in Reserved(s) /\ Reserved(s) = 0 .. BlockPages - 1
           /\ IsFiniteSet(Reserved(s))
           /\ Cardinality(Reserved(s)) = IF s = 0 THEN BlockPages ELSE 0
<1>1. BlockPages \in Nat \ {0}
  BY SmallPages
<1>2. IsFiniteSet(0 .. BlockPages - 1) /\ Cardinality(0 .. BlockPages - 1) = BlockPages
  <2>1. 0 \in Int /\ BlockPages - 1 \in Int /\ ~(0 > BlockPages - 1)
    BY <1>1
  <2>2. /\ IsFiniteSet(0 .. BlockPages - 1)
        /\ Cardinality(0 .. BlockPages - 1) = (BlockPages - 1) - 0 + 1
    BY <2>1, FS_Interval
  <2> QED BY <1>1, <2>2
<1> QED BY <1>1, <1>2, FS_EmptySet DEF Reserved

\* allocpage_subheader: the page was free, and all others keep their place.
LEMMA AllocPageOK ==
    ASSUME NEW sub, NEW s \in Subblocks, NEW U, SubOK(sub, s, U),
           sub.pgsize # NoSize, sub.header # 0
    PROVE  LET r == AllocPage(sub)
               i == NextPage(sub)
           IN /\ SubOK(r, s, U \cup {i}) /\ r.pgsize = sub.pgsize
              /\ r.header \in {0, sub.header}
              /\ i \in Nat /\ i < NrPages(sub.pgsize) /\ i \notin U \cup Reserved(s)
<1> DEFINE r == AllocPage(sub)
           i == NextPage(sub)
           n == NrPages(sub.pgsize)
           used == U \cup Reserved(s)
           free == ToSet(sub.freepages)
<1>1. /\ sub \in SubHeaders
      /\ sub.pgsize \in PageSizes /\ sub.header \in Nat \ {0} /\ sub.freepages \in Seq(Nat)
      /\ sub.nextfree \in Nat /\ sub.nrused \in Nat /\ n \in Nat \ {0}
      /\ IsInjective(sub.freepages) /\ (s = 0 => sub.pgsize = SmallSize)
      /\ sub.header <= sub.nextfree /\ sub.nextfree <= n
      /\ free \subseteq (0 .. sub.nextfree - 1) \ {sub.header - 1}
      /\ U \cap Reserved(s) = {}
      /\ used = (0 .. sub.nextfree - 1) \ ({sub.header - 1} \cup free)
      /\ sub.nrused = Cardinality(used) /\ IsFiniteSet(used)
  BY SubMembers DEF SubOK
<1>2. \A j : j \notin used => Cardinality(used \cup {j}) = sub.nrused + 1
  BY <1>1, FS_AddElement
<1>3. (U \cup {i}) \cup Reserved(s) = used \cup {i}
  OBVIOUS
<1> HIDE DEF i, r, n, used, free
<1>4. CASE sub.freepages # <<>>
  <2>1. i = Head(sub.freepages) /\ r = [sub EXCEPT !.freepages = Tail(@), !.nrused = @ + 1]
    BY <1>4 DEF i, r, NextPage, AllocPage
  <2>2. /\ i \in free /\ Tail(sub.freepages) \in Seq(Nat) /\ IsInjective(Tail(sub.freepages))
        /\ ToSet(Tail(sub.freepages)) = free \ {i}
    BY <1>1, <1>4, <2>1, TailList DEF free
  <2>3. i \in 0 .. sub.nextfree - 1 /\ i # sub.header - 1 /\ i \notin used
    BY <1>1, <2>2
  <2>4. r \in SubHeaders
    <3> DEFINE fl == Tail(sub.freepages)
               nr == sub.nrused + 1
    <3>1. fl \in Seq(Nat) /\ nr \in Nat /\ r = [sub EXCEPT !.freepages = fl, !.nrused = nr]
      BY <1>1, <2>1, <2>2
    <3> HIDE DEF fl, nr
    <3> QED BY <1>1, <3>1 DEF SubHeaders
  <2>5. /\ r.pgsize = sub.pgsize /\ r.header = sub.header /\ r.nextfree = sub.nextfree
        /\ r.nrused = sub.nrused + 1 /\ r.freepages = Tail(sub.freepages)
    BY <1>1, <2>1 DEF SubHeaders
  <2>6. used \cup {i} = (0 .. r.nextfree - 1) \ ({r.header - 1} \cup ToSet(r.freepages))
    BY <1>1, <2>2, <2>3, <2>5
  <2>7. SubAccounted(r, s, U \cup {i})
    <3>1. r.nrused = Cardinality(used \cup {i})
      BY <1>2, <2>3, <2>5
    <3>2. /\ r.header <= r.nextfree /\ r.nextfree <= NrPages(r.pgsize)
          /\ ToSet(r.freepages) \subseteq (0 .. r.nextfree - 1) \ {r.header - 1}
      BY <1>1, <2>2, <2>5 DEF n
    <3>3. (U \cup {i}) \cap Reserved(s) = {}
      BY <1>1, <2>3 DEF used
    <3> QED BY <1>3, <2>6, <3>1, <3>2, <3>3 DEF SubAccounted
  <2>8. SubShape(r, s)
    BY <1>1, <2>2, <2>5 DEF SubShape
  <2>9. i \in Nat /\ i < n
    BY <1>1, <2>3
  <2> QED BY <1>1, <2>3, <2>4, <2>5, <2>7, <2>8, <2>9 DEF SubOK, i, r, n, used
<1>5. CASE sub.freepages = <<>> /\ sub.nextfree < n
  <2>1. i = sub.nextfree /\ r = [sub EXCEPT !.nextfree = @ + 1, !.nrused = @ + 1]
    BY <1>5 DEF i, r, n, NextPage, AllocPage
  <2>2. free = {}
    BY <1>5, EmptyList DEF free
  <2>3. i \in Nat /\ i < n /\ i # sub.header - 1 /\ i \notin used
    BY <1>1, <1>5, <2>1
  <2>4. r \in SubHeaders
    <3> DEFINE nx == sub.nextfree + 1
               nr == sub.nrused + 1
    <3>1. nx \in Nat /\ nr \in Nat /\ r = [sub EXCEPT !.nextfree = nx, !.nrused = nr]
      BY <1>1, <2>1
    <3> HIDE DEF nx, nr
    <3> QED BY <1>1, <3>1 DEF SubHeaders
  <2>5. /\ r.pgsize = sub.pgsize /\ r.header = sub.header /\ r.nextfree = sub.nextfree + 1
        /\ r.nrused = sub.nrused + 1 /\ r.freepages = sub.freepages
    BY <1>1, <2>1 DEF SubHeaders
  <2>6. used \cup {i} = (0 .. r.nextfree - 1) \ ({r.header - 1} \cup ToSet(r.freepages))
    <3>1. 0 .. r.nextfree - 1 = (0 .. sub.nextfree - 1) \cup {i}
      BY <1>1, <2>1, <2>5
    <3>2. ToSet(r.freepages) = {}
      BY <2>2, <2>5 DEF free
    <3> QED BY <1>1, <2>2, <2>3, <2>5, <3>1, <3>2
  <2>7. SubAccounted(r, s, U \cup {i})
    <3>1. r.nrused = Cardinality(used \cup {i})
      BY <1>2, <2>3, <2>5
    <3>2. /\ r.header <= r.nextfree /\ r.nextfree <= NrPages(r.pgsize)
      BY <1>1, <1>5, <2>5 DEF n
    <3>3. ToSet(r.freepages) = {}
      BY <2>2, <2>5 DEF free
    <3>4. (U \cup {i}) \cap Reserved(s) = {}
      BY <1>1, <2>3 DEF used
    <3> QED BY <1>3, <2>6, <3>1, <3>2, <3>3, <3>4 DEF SubAccounted
  <2>8. SubShape(r, s)
    BY <1>1, <2>5 DEF SubShape
  <2> QED BY <1>1, <2>3, <2>4, <2>5, <2>7, <2>8 DEF SubOK, i, r, n, used
<1>6. CASE sub.freepages = <<>> /\ ~(sub.nextfree < n)
  <2>1. i = sub.header - 1 /\ r = [sub EXCEPT !.header = 0, !.nrused = @ + 1]
    BY <1>6 DEF i, r, n, NextPage, AllocPage
  <2>2. free = {}
    BY <1>6, EmptyList DEF free
  <2>3. i \in Nat /\ i < n /\ i < sub.nextfree /\ i \notin used
    BY <1>1, <2>1
  <2>4. r \in SubHeaders
    <3> DEFINE nr == sub.nrused + 1
    <3>1. nr \in Nat /\ r = [sub EXCEPT !.header = 0, !.nrused = nr]
      BY <1>1, <2>1
    <3> HIDE DEF nr
    <3> QED BY <1>1, <3>1 DEF SubHeaders
  <2>5. /\ r.pgsize = sub.pgsize /\ r.header = 0 /\ r.nextfree = sub.nextfree
        /\ r.nrused = sub.nrused + 1 /\ r.freepages = sub.freepages
    BY <1>1, <2>1 DEF SubHeaders
  <2>6. used \cup {i} = (0 .. r.nextfree - 1) \ ({r.header - 1} \cup ToSet(r.freepages))
    <3>1. r.header - 1 \notin 0 .. r.nextfree - 1
      BY <2>5
    <3>2. ToSet(r.freepages) = {}
      BY <2>2, <2>5 DEF free
    <3>3. i \in 0 .. r.nextfree - 1
      BY <1>1, <2>3, <2>5
    <3> QED BY <1>1, <2>1, <2>2, <2>5, <3>1, <3>2, <3>3
  <2>7. SubAccounted(r, s, U \cup {i})
    <3>1. r.nrused = Cardinality(used \cup {i})
      BY <1>2, <2>3, <2>5
    <3>2. /\ r.header <= r.nextfree /\ r.nextfree <= NrPages(r.pgsize)
      BY <1>1, <2>5 DEF n
    <3>3. ToSet(r.freepages) = {}
      BY <2>2, <2>5 DEF free
    <3>4. (U \cup {i}) \cap Reserved(s) = {}
      BY <1>1, <2>3 DEF used
    <3> QED BY <1>3, <2>6, <3>1, <3>2, <3>3, <3>4 DEF SubAccounted
  <2>8. SubShape(r, s)
    BY <1>1, <1>6, <2>5 DEF SubShape, n
  <2> QED BY <1>1, <2>3, <2>4, <2>5, <2>7, <2>8 DEF SubOK, i, r, n, used
<1> QED BY <1>4, <1>5, <1>6 DEF i, r, n, used

\* freepage_subheader: the page was used, and all others keep their place.
LEMMA FreePageOK ==
    ASSUME NEW sub, NEW s \in Subblocks, NEW U, SubOK(sub, s, U),
           sub.pgsize # NoSize, sub.header # 0, NEW i \in U
    PROVE  LET r == FreePage(sub, i)
           IN SubOK(r, s, U \ {i}) /\ r.pgsize = sub.pgsize /\ r.header = sub.header
<1> DEFINE r == FreePage(sub, i)
           n == NrPages(sub.pgsize)
           used == U \cup Reserved(s)
           free == ToSet(sub.freepages)
           fl == <<i>> \o sub.freepages
           nr == sub.nrused - 1
<1>1. /\ sub \in SubHeaders
      /\ sub.pgsize \in PageSizes /\ sub.header \in Nat \ {0} /\ sub.freepages \in Seq(Nat)
      /\ sub.nextfree \in Nat /\ sub.nrused \in Nat /\ n \in Nat \ {0}
      /\ IsInjective(sub.freepages) /\ (s = 0 => sub.pgsize = SmallSize)
      /\ sub.header <= sub.nextfree /\ sub.nextfree <= n
      /\ free \subseteq (0 .. sub.nextfree - 1) \ {sub.header - 1}
      /\ U \cap Reserved(s) = {}
      /\ used = (0 .. sub.nextfree - 1) \ ({sub.header - 1} \cup free)
      /\ sub.nrused = Cardinality(used) /\ IsFiniteSet(used)
  BY SubMembers DEF SubOK
<1>2. Cardinality(used \ {i}) = nr /\ nr \in Nat
  <2>1. Cardinality(used \ {i}) = sub.nrused - 1 /\ IsFiniteSet(used \ {i})
    <3>1. i \in used
      OBVIOUS
    <3>2. IsFiniteSet(used) /\ sub.nrused = Cardinality(used)
      BY <1>1
    <3> QED BY ONLY <3>1, <3>2, FS_RemoveElement
  <2>2. Cardinality(used \ {i}) \in Nat
    BY <2>1, FS_CardinalityType
  <2> QED BY <2>1, <2>2
<1>3. (U \ {i}) \cup Reserved(s) = used \ {i} /\ i \in used
  BY <1>1
<1>4. r = [sub EXCEPT !.freepages = fl, !.nrused = nr]
  BY DEF FreePage
<1> HIDE DEF r, n, used, free, nr
<1>5. i \in Nat /\ i \in 0 .. sub.nextfree - 1 /\ i # sub.header - 1 /\ i \notin free
  BY <1>1, <1>3
<1>6. fl \in Seq(Nat) /\ ToSet(fl) = free \cup {i} /\ IsInjective(fl)
  BY <1>1, <1>5, PushList DEF free
<1> HIDE DEF fl
<1>7. r \in SubHeaders
  BY <1>1, <1>2, <1>4, <1>6 DEF SubHeaders
<1>8. /\ r.pgsize = sub.pgsize /\ r.header = sub.header /\ r.nextfree = sub.nextfree
      /\ r.nrused = nr /\ r.freepages = fl
  BY <1>1, <1>4 DEF SubHeaders
<1>9. SubAccounted(r, s, U \ {i})
  <2>1. used \ {i} = (0 .. r.nextfree - 1) \ ({r.header - 1} \cup ToSet(r.freepages))
    BY <1>1, <1>6, <1>8
  <2>2. r.nrused = Cardinality(used \ {i})
    BY <1>2, <1>8
  <2>3. /\ r.header <= r.nextfree /\ r.nextfree <= NrPages(r.pgsize)
        /\ ToSet(r.freepages) \subseteq (0 .. r.nextfree - 1) \ {r.header - 1}
    BY <1>1, <1>5, <1>6, <1>8 DEF n
  <2>4. (U \ {i}) \cap Reserved(s) = {}
    BY <1>1
  <2> QED BY <1>3, <2>1, <2>2, <2>3, <2>4 DEF SubAccounted
<1>10. SubShape(r, s)
  BY <1>1, <1>6, <1>8 DEF SubShape
<1> QED BY <1>1, <1>7, <1>8, <1>9, <1>10 DEF SubOK, r

\* initused_subheader: the only free page is the one which was released.
LEMMA InitUsedOK ==
    ASSUME NEW sub, NEW s \in Subblocks, NEW U, SubOK(sub, s, U),
           sub.pgsize # NoSize, sub.header = 0, NEW i \in U
    PROVE  LET r == InitUsed(sub.pgsize, i)
           IN /\ SubOK(r, s, U \ {i}) /\ r.pgsize = sub.pgsize /\ r.header # 0
              /\ r.nrused = NrPages(sub.pgsize) - 1
<1> DEFINE r == InitUsed(sub.pgsize, i)
           n == NrPages(sub.pgsize)
           used == U \cup Reserved(s)
           hd == i + 1
           nr == n - 1
<1>1. /\ sub.pgsize \in PageSizes /\ n \in Nat \ {0} /\ (s = 0 => sub.pgsize = SmallSize)
      /\ sub.header = 0 /\ sub.freepages = <<>> /\ sub.nextfree = n
      /\ U \cap Reserved(s) = {}
      /\ used = (0 .. sub.nextfree - 1) \ ({sub.header - 1} \cup ToSet(sub.freepages))
      /\ IsFiniteSet(used)
  BY SubMembers
<1>2. ToSet(<<>>) = {} /\ IsInjective(<<>>)
  BY EmptyList
<1>3. used = 0 .. n - 1
  BY <1>1, <1>2
<1>4. Cardinality(used \ {i}) = nr
  <2>1. 0 \in Int /\ n - 1 \in Int /\ ~(0 > n - 1)
    BY <1>1
  <2>2. Cardinality(0 .. n - 1) = (n - 1) - 0 + 1
    BY <2>1, FS_Interval
  <2>3. Cardinality(used) = n /\ i \in used
    <3>1. Cardinality(0 .. n - 1) = n
      BY <1>1, <2>2
    <3> QED BY <1>3, <3>1
  <2>4. Cardinality(used \ {i}) = Cardinality(used) - 1
    BY <1>1, <2>3, FS_RemoveElement
  <2> QED BY <2>3, <2>4
<1>5. (U \ {i}) \cup Reserved(s) = used \ {i}
  BY <1>1
<1>6. i \in 0 .. n - 1
  BY <1>3
<1> HIDE DEF r, n, used, hd, nr
<1>7. hd \in Nat /\ hd - 1 = i /\ hd # 0 /\ hd <= n /\ nr \in Nat /\ nr = n - 1
  BY <1>1, <1>6 DEF hd, nr
<1>8. r = [pgsize |-> sub.pgsize, header |-> hd, freepages |-> <<>>, nextfree |-> n, nrused |-> nr]
  BY DEF r, InitUsed, hd, nr, n
<1>9. r \in SubHeaders
  BY <1>1, <1>7, <1>8 DEF SubHeaders
<1>10. /\ r.pgsize = sub.pgsize /\ r.header = hd /\ r.freepages = <<>> /\ r.nextfree = n
       /\ r.nrused = nr
  BY <1>8
<1>11. SubAccounted(r, s, U \ {i})
  <2>1. used \ {i} = (0 .. r.nextfree - 1) \ ({r.header - 1} \cup ToSet(r.freepages))
    BY <1>2, <1>3, <1>7, <1>10
  <2>2. r.nrused = Cardinality(used \ {i})
    BY <1>4, <1>10
  <2>3. /\ r.header <= r.nextfree /\ r.nextfree <= NrPages(r.pgsize) /\ ToSet(r.freepages) = {}
    BY <1>1, <1>2, <1>7, <1>10 DEF n
  <2>4. (U \ {i}) \cap Reserved(s) = {}
    BY <1>1
  <2> QED BY <1>5, <2>1, <2>2, <2>3, <2>4 DEF SubAccounted
<1>12. SubShape(r, s)
  BY <1>1, <1>2, <1>7, <1>10 DEF SubShape
<1>13. r.pgsize # NoSize
  BY <1>1, <1>10, Sizes
<1> QED BY <1>7, <1>9, <1>10, <1>11, <1>12, <1>13 DEF SubOK, r, n

\* initfree_subheader: pages from i on are free, those before are block_t.
LEMMA InitFreeOK ==
    ASSUME NEW s \in Subblocks, NEW size \in PageSizes, s = 0 => size = SmallSize,
           NEW i \in Nat, i = IF s = 0 THEN BlockPages ELSE 0
    PROVE  LET r == InitFree(size, i)
           IN SubOK(r, s, {}) /\ r.pgsize = size /\ r.header # 0
<1> DEFINE r == InitFree(size, i)
           k == i + 1
           n == NrPages(size)
<1>1. n \in Nat \ {0} /\ size # NoSize
  BY Sizes
<1>2. k \in Nat /\ k # 0 /\ k <= n /\ k - 1 = i
  BY <1>1, SmallPages
<1>3. Reserved(s) = 0 .. i - 1 /\ Cardinality(Reserved(s)) = i
  <2>1. CASE s = 0
    BY <2>1, ReservedPages
  <2>2. CASE s # 0
    <3>1. i = 0 /\ Reserved(s) = {} /\ Cardinality(Reserved(s)) = 0
      BY <2>2, ReservedPages
    <3> QED BY <3>1
  <2> QED BY <2>1, <2>2
<1>4. ToSet(<<>>) = {} /\ IsInjective(<<>>)
  BY EmptyList
<1>5. r = [pgsize |-> size, header |-> k, freepages |-> <<>>, nextfree |-> k, nrused |-> i]
  BY DEF InitFree
<1> HIDE DEF r, k, n
<1>6. r \in SubHeaders
  BY <1>2, <1>5 DEF SubHeaders
<1>7. r.pgsize = size /\ r.header = k /\ r.freepages = <<>> /\ r.nextfree = k /\ r.nrused = i
  BY <1>5
<1>8. SubAccounted(r, s, {})
  <2>1. 0 .. i - 1 = (0 .. k - 1) \ {k - 1}
    BY <1>2
  <2>2. {} \cup Reserved(s) = (0 .. r.nextfree - 1) \ ({r.header - 1} \cup ToSet(r.freepages))
    BY <1>3, <1>4, <1>7, <2>1
  <2>3. r.header <= r.nextfree /\ r.nextfree <= NrPages(r.pgsize) /\ ToSet(r.freepages) = {}
    BY <1>2, <1>4, <1>7 DEF n
  <2>4. r.nrused = Cardinality({} \cup Reserved(s))
    BY <1>3, <1>7
  <2> QED BY <2>2, <2>3, <2>4 DEF SubAccounted
<1>9. SubShape(r, s)
  BY <1>2, <1>4, <1>7 DEF SubShape
<1> QED BY <1>1, <1>2, <1>6, <1>7, <1>8, <1>9 DEF SubOK, r

\* A sub-block without use, initunused_subheader or as new_block leaves it.
LEMMA UnusedOK ==
    ASSUME NEW s \in Subblocks, s # 0
    PROVE  /\ SubOK(InitUnused, s, {}) /\ InitUnused.pgsize = NoSize
           /\ SubOK(NeverUsed, s, {}) /\ NeverUsed.pgsize = NoSize
<1>1. IsInjective(<<>>)
  BY EmptyList
<1>2. InitUnused \in SubHeaders /\ InitUnused.pgsize = NoSize /\ InitUnused.freepages = <<>>
  BY DEF SubHeaders, InitUnused
<1>3. NeverUsed \in SubHeaders /\ NeverUsed.pgsize = NoSize /\ NeverUsed.freepages = <<>>
  BY <1>2 DEF SubHeaders, NeverUsed, InitUnused
<1> QED BY <1>1, <1>2, <1>3 DEF SubOK, SubShape

\* The tests of releasepage_block and freepage_subheader tell free pages from used ones.
LEMMA IsFreeExact ==
    ASSUME NEW sub, NEW s \in Subblocks, NEW U, SubOK(sub, s, U), sub.pgsize # NoSize,
           NEW i \in 0 .. NrPages(sub.pgsize) - 1
    PROVE  sub.header # 0 /\ IsFree(sub, i) <=> i \notin U \cup Reserved(s)
<1> DEFINE n == NrPages(sub.pgsize)
           used == U \cup Reserved(s)
           free == ToSet(sub.freepages)
<1>1. /\ sub.header \in Nat /\ sub.nextfree \in Nat /\ n \in Nat \ {0}
      /\ sub.header = 0 => sub.freepages = <<>> /\ sub.nextfree = n
      /\ sub.header <= sub.nextfree /\ sub.nextfree <= n
      /\ free \subseteq (0 .. sub.nextfree - 1) \ {sub.header - 1}
      /\ used = (0 .. sub.nextfree - 1) \ ({sub.header - 1} \cup free)
      /\ i \in 0 .. n - 1
  BY SubMembers
<1>2. sub.header = 0 => free = {}
  BY <1>1, EmptyList
<1> HIDE DEF n, used, free
<1>3. IsFree(sub, i) <=> i >= sub.nextfree \/ i = sub.header - 1 \/ i \in free
  BY DEF IsFree, free
<1>4. CASE sub.header = 0
  BY <1>1, <1>2, <1>4 DEF used
<1>5. CASE sub.header # 0
  BY <1>1, <1>3, <1>5 DEF used
<1> QED BY <1>4, <1>5

\* A sub-block all of whose pages are free again does not contain block_t.
LEMMA LastPage ==
    ASSUME NEW sub, NEW s \in Subblocks, NEW U, SubOK(sub, s, U), sub.pgsize # NoSize,
           NEW i \in U, sub.nrused = 1 \/ (sub.header = 0 /\ NrPages(sub.pgsize) = 1)
    PROVE  s # 0 /\ U = {i}
<1> DEFINE n == NrPages(sub.pgsize)
           used == U \cup Reserved(s)
<1>1. /\ sub.header = 0 => sub.freepages = <<>> /\ sub.nextfree = n
      /\ U \cap Reserved(s) = {} /\ n \in Nat
      /\ used = (0 .. sub.nextfree - 1) \ ({sub.header - 1} \cup ToSet(sub.freepages))
      /\ sub.nrused = Cardinality(used) /\ IsFiniteSet(used)
  BY SubMembers
<1>2. used = {i}
  <2>1. CASE sub.nrused = 1
    <3>1. PICK j : used = {j}
      BY <1>1, <2>1, FS_Singleton
    <3> QED BY <3>1
  <2>2. CASE sub.header = 0 /\ NrPages(sub.pgsize) = 1
    <3>1. used \subseteq 0 .. 0
      BY <1>1, <2>2
    <3> QED BY <3>1
  <2> QED BY <2>1, <2>2
<1>3. s # 0
  <2> SUFFICES ASSUME s = 0 PROVE FALSE
    OBVIOUS
  <2>1. 0 \in Reserved(s)
    BY ReservedPages
  <2> QED BY <1>1, <1>2, <2>1
<1> QED BY <1>1, <1>2, <1>3, ReservedPages

-----------------------------------------------------------------------------
(* A block *)

\* Block b describes its pages if clients hold the pages h.
BlockOK(blk, b, h) ==
    /\ blk \in BlockRecords
    /\ blk.nrused = Cardinality(InBlock(h, b))
    /\ \A p \in InBlock(h, b) : p.size = blk.sub[p.sub].pgsize
    /\ \A s \in Subblocks : SubOK(blk.sub[s], s, HeldIn(h, b, s))
    /\ BlockLists(blk)

\* The members of block_t.
LEMMA BlockType ==
    ASSUME NEW blk \in BlockRecords
    PROVE  /\ blk.sub \in [Subblocks -> SubHeaders]
           /\ blk.freesublist \in [PageSizes -> Seq(Subblocks)]
           /\ blk.unusedsublist \in Seq(Subblocks)
           /\ blk.nextunused \in 1 .. NrSubblocks /\ blk.nrused \in Nat /\ NrSubblocks \in Nat
           /\ blk # NoBlock
<1>1. blk.nrused # -1
  BY DEF BlockRecords
<1>2. NoBlock.nrused = -1
  BY DEF NoBlock
<1> QED BY <1>1, <1>2, SmallPages DEF BlockRecords

\* One sub-block of a block is changed, and with it the pages clients hold there.
LEMMA ChangedSub ==
    ASSUME NEW blk \in BlockRecords, NEW b \in Blocks, NEW h \in SUBSET AllPages, BlockOK(blk, b, h),
           NEW s \in Subblocks, NEW r \in BlockRecords, NEW g \in SUBSET AllPages,
           \A t \in Subblocks \ {s} : r.sub[t] = blk.sub[t] /\ HeldIn(g, b, t) = HeldIn(h, b, t),
           SubOK(r.sub[s], s, HeldIn(g, b, s)),
           \A p \in InBlock(g, b) : /\ p.sub \in Subblocks
                                    /\ p.sub = s => p.size = r.sub[s].pgsize
                                    /\ p.sub # s => p \in InBlock(h, b),
           r.nrused = Cardinality(InBlock(g, b)),
           BlockLists(r)
    PROVE  BlockOK(r, b, g)
BY DEF BlockOK

\* The lists of a block are changed as a change of sub-block s demands.
ListsFollow(blk, r, s) ==
    /\ \A t \in Subblocks \ {s} : r.sub[t] = blk.sub[t]
    /\ r.nextunused = blk.nextunused \/ (s = blk.nextunused /\ r.nextunused = s + 1)
    /\ s < r.nextunused
    /\ IsInjective(r.unusedsublist)
    /\ s # 0 /\ r.sub[s].pgsize = NoSize
          => ToSet(r.unusedsublist) = ToSet(blk.unusedsublist) \cup {s}
    /\ ~(s # 0 /\ r.sub[s].pgsize = NoSize)
          => ToSet(r.unusedsublist) = ToSet(blk.unusedsublist) \ {s}
    /\ \A size \in PageSizes :
          /\ IsInjective(r.freesublist[size])
          /\ r.sub[s].pgsize = size /\ r.sub[s].header # 0
                => ToSet(r.freesublist[size]) = ToSet(blk.freesublist[size]) \cup {s}
          /\ ~(r.sub[s].pgsize = size /\ r.sub[s].header # 0)
                => ToSet(r.freesublist[size]) = ToSet(blk.freesublist[size]) \ {s}

\* The lists stay complete if they follow the change of one sub-block.
LEMMA ChangedLists ==
    ASSUME NEW blk \in BlockRecords, BlockLists(blk), NEW s \in Subblocks, NEW r \in BlockRecords,
           ListsFollow(blk, r, s)
    PROVE  BlockLists(r)
<1>. /\ \A t \in Subblocks \ {s} : r.sub[t] = blk.sub[t]
     /\ r.nextunused = blk.nextunused \/ (s = blk.nextunused /\ r.nextunused = s + 1)
     /\ s < r.nextunused
  BY DEF ListsFollow
<1>0. /\ r.nextunused \in 1 .. NrSubblocks /\ blk.nextunused \in 1 .. NrSubblocks
      /\ NrSubblocks \in Nat
  BY BlockType
<1> DEFINE Unused(k) == {t \in 1 .. k.nextunused - 1 : k.sub[t].pgsize = NoSize}
<1>1. s \in Nat /\ \A t \in Nat : t < NrSubblocks => t \in Subblocks
  BY <1>0 DEF Subblocks
<1>2. ToSet(blk.unusedsublist) = Unused(blk)
  BY DEF BlockLists
<1>3. ASSUME NEW t PROVE t \in ToSet(r.unusedsublist) <=> t \in Unused(r)
  <2>1. CASE t = s
    BY <1>0, <1>1, <2>1 DEF ListsFollow
  <2>2. CASE t # s
    <3>1. t \in ToSet(r.unusedsublist) <=> t \in Unused(blk)
      BY <1>2, <2>2 DEF ListsFollow
    <3>2. t \in 1 .. blk.nextunused - 1 <=> t \in 1 .. r.nextunused - 1
      BY <1>0, <1>1, <2>2
    <3>3. t \in 1 .. r.nextunused - 1 => r.sub[t] = blk.sub[t]
      BY <1>0, <1>1, <2>2
    <3> QED BY <3>1, <3>2, <3>3
  <2> QED BY <2>1, <2>2
<1>4. ToSet(r.unusedsublist) = Unused(r)
  BY <1>3
<1>5. ASSUME NEW t \in Subblocks, t >= r.nextunused PROVE r.sub[t].pgsize = NoSize
  <2>1. t \in Nat /\ t # s /\ t >= blk.nextunused
    BY <1>0, <1>1, <1>5 DEF Subblocks
  <2>2. blk.sub[t].pgsize = NoSize
    BY <2>1 DEF BlockLists
  <2> QED BY <2>1, <2>2
<1>6. ASSUME NEW size \in PageSizes
      PROVE  ToSet(r.freesublist[size])
                = {t \in Subblocks : r.sub[t].pgsize = size /\ r.sub[t].header # 0}
  <2> DEFINE F == ToSet(blk.freesublist[size])
             G == ToSet(r.freesublist[size])
  <2>1. F = {t \in Subblocks : blk.sub[t].pgsize = size /\ blk.sub[t].header # 0}
    BY DEF BlockLists
  <2>2. CASE r.sub[s].pgsize = size /\ r.sub[s].header # 0
    <3>1. G = F \cup {s}
      BY <2>2 DEF ListsFollow
    <3> HIDE DEF F, G
    <3>2. G = {t \in Subblocks : r.sub[t].pgsize = size /\ r.sub[t].header # 0}
      BY <2>1, <2>2, <3>1
    <3> QED BY <3>2 DEF G
  <2>3. CASE ~(r.sub[s].pgsize = size /\ r.sub[s].header # 0)
    <3>1. G = F \ {s}
      BY <2>3 DEF ListsFollow
    <3> HIDE DEF F, G
    <3>2. G = {t \in Subblocks : r.sub[t].pgsize = size /\ r.sub[t].header # 0}
      BY <2>1, <2>3, <3>1
    <3> QED BY <3>2 DEF G
  <2> QED BY <2>2, <2>3
<1> QED BY <1>4, <1>5, <1>6 DEF BlockLists, ListsFollow

\* What is known of a sub-block in use.
LEMMA UsedSub ==
    ASSUME NEW blk, NEW b \in Blocks, NEW h \in SUBSET AllPages, BlockOK(blk, b, h),
           NEW s \in Subblocks, blk.sub[s].pgsize # NoSize
    PROVE  /\ blk.sub[s].pgsize \in PageSizes
           /\ SubOK(blk.sub[s], s, HeldIn(h, b, s))
           /\ s < blk.nextunused
           /\ s \notin ToSet(blk.unusedsublist)
           /\ \A size \in PageSizes : s \in ToSet(blk.freesublist[size])
                 <=> size = blk.sub[s].pgsize /\ blk.sub[s].header # 0
<1>1. SubOK(blk.sub[s], s, HeldIn(h, b, s)) /\ BlockLists(blk) /\ blk \in BlockRecords
  BY DEF BlockOK
<1>2. blk.sub[s].pgsize \in PageSizes
  BY <1>1, SubMembers
<1>3. blk.nextunused \in Nat /\ s \in Nat
  BY <1>1, BlockType DEF Subblocks
<1>4. s < blk.nextunused
  BY <1>1, <1>3 DEF BlockLists
<1> QED BY <1>1, <1>2, <1>4 DEF BlockLists

\* A block whose pages stay the same.
LEMMA OtherBlock ==
    ASSUME NEW blk, NEW b \in Blocks, NEW h \in SUBSET AllPages, BlockOK(blk, b, h),
           NEW g \in SUBSET AllPages, InBlock(g, b) = InBlock(h, b)
    PROVE  BlockOK(blk, b, g)
<1>1. \A s : HeldIn(g, b, s) = HeldIn(h, b, s)
  <2>1. \A s : {q \in g : q.block = b /\ q.sub = s} = {q \in h : q.block = b /\ q.sub = s}
    BY DEF InBlock
  <2> QED BY <2>1 DEF HeldIn
<1> QED BY <1>1 DEF BlockOK

\* r is what allocpage_block makes of a block if it takes a page of sub-block s.
AllocResult(blk, r, s, size) ==
    /\ r \in BlockRecords
    /\ r.sub = [blk.sub EXCEPT ![s] = AllocPage(blk.sub[s])]
    /\ r.freesublist = IF AllocPage(blk.sub[s]).header = 0
                       THEN [blk.freesublist EXCEPT ![size] = Without(blk.freesublist[size], s)]
                       ELSE blk.freesublist
    /\ r.unusedsublist = blk.unusedsublist /\ r.nextunused = blk.nextunused
    /\ r.nrused = blk.nrused + 1

\* allocpage_block
LEMMA BlockAlloc ==
    ASSUME NEW blk, NEW b \in Blocks, NEW h \in SUBSET AllPages, IsFiniteSet(h), BlockOK(blk, b, h),
           NEW s \in Subblocks, NEW size \in PageSizes,
           blk.sub[s].pgsize = size, blk.sub[s].header # 0,
           NEW r, AllocResult(blk, r, s, size)
    PROVE  LET p == Page(b, s, NextPage(blk.sub[s]), size)
           IN p \in AllPages /\ p \notin h /\ p.block = b /\ p.sub = s /\ BlockOK(r, b, h \cup {p})
<1> DEFINE sub == blk.sub[s]
           i == NextPage(sub)
           U == HeldIn(h, b, s)
           p == Page(b, s, i, size)
           g == h \cup {p}
<1>1. /\ SubOK(sub, s, U) /\ s < blk.nextunused /\ s \notin ToSet(blk.unusedsublist)
      /\ s \in ToSet(blk.freesublist[size]) /\ size # NoSize
      /\ \A k \in PageSizes \ {size} : s \notin ToSet(blk.freesublist[k])
  <2>1. blk.sub[s].pgsize # NoSize /\ size # NoSize
    BY Sizes
  <2>2. /\ SubOK(sub, s, U) /\ s < blk.nextunused /\ s \notin ToSet(blk.unusedsublist)
        /\ \A k \in PageSizes : s \in ToSet(blk.freesublist[k])
              <=> k = blk.sub[s].pgsize /\ blk.sub[s].header # 0
    BY <2>1, UsedSub
  <2> HIDE DEF sub, U
  <2> QED BY <2>1, <2>2
<1>2. /\ SubOK(AllocPage(sub), s, U \cup {i}) /\ AllocPage(sub).pgsize = size
      /\ i \in Nat /\ i \notin U
  BY <1>1, AllocPageOK
<1>3. p \in AllPages /\ PageIndex(p) = i /\ p.block = b /\ p.sub = s /\ p.size = size
  BY <1>2, PageAt
<1> HIDE DEF p
<1>4. p \notin h
  <2> SUFFICES ASSUME p \in h PROVE FALSE
    OBVIOUS
  <2>1. i \in U
    BY <1>3 DEF HeldIn
  <2> QED BY <1>2, <2>1
<1>5. /\ blk \in BlockRecords /\ BlockLists(blk) /\ blk.nrused = Cardinality(InBlock(h, b))
      /\ \A q \in InBlock(h, b) : q.size = blk.sub[q.sub].pgsize
  BY DEF BlockOK
<1> HIDE DEF i, U, sub
<1>0. /\ r \in BlockRecords /\ r.sub = [blk.sub EXCEPT ![s] = AllocPage(sub)]
      /\ r.freesublist = IF AllocPage(sub).header = 0
                         THEN [blk.freesublist EXCEPT ![size] = Without(blk.freesublist[size], s)]
                         ELSE blk.freesublist
      /\ r.unusedsublist = blk.unusedsublist /\ r.nextunused = blk.nextunused
      /\ r.nrused = blk.nrused + 1
  BY DEF AllocResult, sub
<1>6. /\ blk.sub \in [Subblocks -> SubHeaders] /\ blk.freesublist \in [PageSizes -> Seq(Subblocks)]
      /\ blk.nextunused \in 1 .. NrSubblocks /\ NrSubblocks \in Nat
  BY <1>5, BlockType
<1>7. ASSUME NEW t \in Subblocks
      PROVE  /\ t = s => HeldIn(g, b, t) = U \cup {i}
             /\ t # s => HeldIn(g, b, t) = HeldIn(h, b, t)
  BY <1>3, HeldAdd DEF U
<1>8. InBlock(g, b) = InBlock(h, b) \cup {p} /\ Cardinality(InBlock(g, b)) = blk.nrused + 1
  <2>1. /\ InBlock(g, b) = InBlock(h, b) \cup {p}
        /\ Cardinality(InBlock(g, b)) = Cardinality(InBlock(h, b)) + 1
    BY <1>3, <1>4, InBlockAdd
  <2> QED BY <1>5, <2>1
<1>9. /\ \A t \in Subblocks \ {s} : r.sub[t] = blk.sub[t]
      /\ r.sub[s] = AllocPage(sub)
  BY <1>0, <1>6
<1>. g \in SUBSET AllPages
  BY <1>3
<1> HIDE DEF g
<1>10. ASSUME NEW q \in InBlock(g, b)
       PROVE  /\ q.sub \in Subblocks
              /\ q.sub = s => q.size = r.sub[s].pgsize
              /\ q.sub # s => q \in InBlock(h, b)
  <2>1. CASE q = p
    BY <1>2, <1>3, <1>9, <2>1
  <2>2. CASE q \in InBlock(h, b)
    <3>1. q \in AllPages
      BY <2>2 DEF InBlock
    <3>2. q.sub \in Subblocks /\ q.size = blk.sub[q.sub].pgsize
      BY <1>5, <2>2, <3>1, PageType
    <3> QED BY <1>2, <1>9, <2>2, <3>2 DEF sub
  <2> QED BY <1>8, <2>1, <2>2
<1>11. ASSUME NEW k \in PageSizes
       PROVE  /\ IsInjective(r.freesublist[k])
              /\ r.sub[s].pgsize = k /\ r.sub[s].header # 0
                    => ToSet(r.freesublist[k]) = ToSet(blk.freesublist[k]) \cup {s}
              /\ ~(r.sub[s].pgsize = k /\ r.sub[s].header # 0)
                    => ToSet(r.freesublist[k]) = ToSet(blk.freesublist[k]) \ {s}
  <2>1. IsInjective(blk.freesublist[k]) /\ blk.freesublist[k] \in Seq(Subblocks)
    BY <1>5, <1>6 DEF BlockLists
  <2>2. CASE AllocPage(sub).header # 0 \/ k # size
    <3>1. r.freesublist[k] = blk.freesublist[k]
      BY <1>0, <1>6, <2>2
    <3>2. k = size => s \in ToSet(blk.freesublist[k])
      BY <1>1
    <3>3. k # size => s \notin ToSet(blk.freesublist[k])
      BY <1>1
    <3>4. r.sub[s].pgsize = k /\ r.sub[s].header # 0 <=> k = size
      BY <1>2, <1>9, <2>2
    <3> QED BY <2>1, <3>1, <3>2, <3>3, <3>4
  <2>3. CASE AllocPage(sub).header = 0 /\ k = size
    <3>1. r.freesublist[k] = Without(blk.freesublist[k], s)
      BY <1>0, <1>6, <2>3
    <3>2. IsInjective(r.freesublist[k]) /\ ToSet(r.freesublist[k]) = ToSet(blk.freesublist[k]) \ {s}
      BY <2>1, <3>1, WithoutList
    <3>3. ~(r.sub[s].pgsize = k /\ r.sub[s].header # 0)
      BY <1>9, <2>3
    <3> QED BY <3>2, <3>3
  <2> QED BY <2>2, <2>3
<1>12. BlockLists(r)
  <2>1. r.sub[s].pgsize # NoSize
    BY <1>1, <1>2, <1>9
  <2>2. /\ IsInjective(r.unusedsublist)
        /\ ToSet(r.unusedsublist) = ToSet(blk.unusedsublist) \ {s}
    BY <1>0, <1>1, <1>5 DEF BlockLists
  <2>3. r.nextunused = blk.nextunused /\ s < r.nextunused
    BY <1>0, <1>1
  <2>4. ListsFollow(blk, r, s)
    <3>1. /\ r.nextunused = blk.nextunused \/ (s = blk.nextunused /\ r.nextunused = s + 1)
          /\ s < r.nextunused
      BY <2>3
    <3>2. /\ IsInjective(r.unusedsublist)
          /\ s # 0 /\ r.sub[s].pgsize = NoSize
                => ToSet(r.unusedsublist) = ToSet(blk.unusedsublist) \cup {s}
          /\ ~(s # 0 /\ r.sub[s].pgsize = NoSize)
                => ToSet(r.unusedsublist) = ToSet(blk.unusedsublist) \ {s}
      BY <2>1, <2>2
    <3> QED BY <1>9, <1>11, <3>1, <3>2 DEF ListsFollow
  <2>5. r \in BlockRecords /\ blk \in BlockRecords /\ BlockLists(blk)
    BY <1>0, <1>5
  <2> QED BY <2>4, <2>5, ChangedLists
<1>13. BlockOK(r, b, g)
  <2>1. \A t \in Subblocks \ {s} : r.sub[t] = blk.sub[t] /\ HeldIn(g, b, t) = HeldIn(h, b, t)
    BY <1>7, <1>9
  <2>2. SubOK(r.sub[s], s, HeldIn(g, b, s))
    BY <1>2, <1>7, <1>9
  <2>3. r.nrused = Cardinality(InBlock(g, b))
    BY <1>0, <1>8
  <2> QED BY <1>0, <1>5, <1>10, <1>12, <2>1, <2>2, <2>3, ChangedSub
<1> QED BY <1>3, <1>4, <1>13 DEF g, p, i, sub

\* releasepage_block: whatever happens to the sub-block, the block describes the
\* pages which remain.
LEMMA BlockReleased ==
    ASSUME NEW blk, NEW b \in Blocks, NEW h \in SUBSET AllPages, IsFiniteSet(h), BlockOK(blk, b, h),
           NEW p \in h, p.block = b, NEW s \in Subblocks, p.sub = s, NEW r \in BlockRecords,
           SubOK(r.sub[s], s, HeldIn(h, b, s) \ {PageIndex(p)}),
           r.sub[s].pgsize \in {blk.sub[s].pgsize, NoSize},
           r.nrused = blk.nrused - 1, ListsFollow(blk, r, s)
    PROVE  BlockOK(r, b, h \ {p})
<1> DEFINE g == h \ {p}
           U == HeldIn(h, b, s) \ {PageIndex(p)}
<1>1. /\ blk \in BlockRecords /\ BlockLists(blk) /\ blk.nrused = Cardinality(InBlock(h, b))
      /\ \A q \in InBlock(h, b) : q.size = blk.sub[q.sub].pgsize
  BY DEF BlockOK
<1>2. \A q \in h : q.block = p.block /\ q.sub = p.sub => q.size = p.size
  BY <1>1 DEF InBlock
<1>3. /\ HeldIn(g, b, s) = U
      /\ \A t \in Subblocks \ {s} : HeldIn(g, b, t) = HeldIn(h, b, t)
  <2>1. HeldIn(g, b, s) = U
    BY <1>2, HeldRemove
  <2>2. ASSUME NEW t \in Subblocks \ {s} PROVE HeldIn(g, b, t) = HeldIn(h, b, t)
    BY <1>2, HeldRemove
  <2> HIDE DEF g, U
  <2> QED BY <2>1, <2>2
<1>4. InBlock(g, b) \subseteq InBlock(h, b) /\ r.nrused = Cardinality(InBlock(g, b))
  <2>1. /\ InBlock(g, b) = InBlock(h, b) \ {p}
        /\ Cardinality(InBlock(h, b)) = Cardinality(InBlock(g, b)) + 1
        /\ Cardinality(InBlock(g, b)) \in Nat
    BY ONLY h \in SUBSET AllPages, IsFiniteSet(h), p \in h, b \in Blocks, p.block = b, InBlockRemove
  <2> HIDE DEF g
  <2> QED BY <1>1, <2>1
<1>. g \in SUBSET AllPages
  OBVIOUS
<1>5. r.sub[s].pgsize = NoSize => U = {}
  BY DEF SubOK
<1> HIDE DEF g, U
<1>6. ASSUME NEW q \in InBlock(g, b)
      PROVE  /\ q.sub \in Subblocks
             /\ q.sub = s => q.size = r.sub[s].pgsize
             /\ q.sub # s => q \in InBlock(h, b)
  <2>1. q \in InBlock(h, b) /\ q \in g /\ q \in AllPages /\ q.block = b
    BY <1>4 DEF InBlock
  <2>2. q.sub \in Subblocks /\ q.size = blk.sub[q.sub].pgsize
    BY <1>1, <2>1, PageType
  <2>3. q.sub = s => PageIndex(q) \in HeldIn(g, b, s)
    BY <2>1 DEF HeldIn
  <2>4. q.sub = s => U # {}
    BY <1>3, <2>3
  <2>5. q.sub = s => r.sub[s].pgsize = blk.sub[s].pgsize
    BY <1>5, <2>4
  <2> QED BY <2>1, <2>2, <2>5
<1>7. BlockLists(r)
  BY <1>1, ChangedLists
<1>8. \A t \in Subblocks \ {s} : r.sub[t] = blk.sub[t] /\ HeldIn(g, b, t) = HeldIn(h, b, t)
  BY <1>3 DEF ListsFollow
<1>9. SubOK(r.sub[s], s, HeldIn(g, b, s))
  BY <1>3 DEF U
<1>10. BlockOK(r, b, g)
  BY <1>1, <1>4, <1>6, <1>7, <1>8, <1>9, ChangedSub
<1> QED BY <1>10 DEF g

\* r is what releasepage_block makes of a block if page i of sub-block s is released,
\* except for the counter of the block.
ReleaseResult(blk, r, s, i, size) ==
    LET sub == blk.sub[s]
        last == (sub.header # 0 /\ sub.nrused = 1) \/ (sub.header = 0 /\ NrPages(size) = 1)
    IN /\ r \in BlockRecords
       /\ r.nextunused = blk.nextunused
       /\ last => /\ r.sub = [blk.sub EXCEPT ![s] = InitUnused]
                  /\ r.unusedsublist = <<s>> \o blk.unusedsublist
       /\ ~last => r.unusedsublist = blk.unusedsublist
       /\ last /\ sub.header # 0
             => r.freesublist = [blk.freesublist EXCEPT ![size] = Without(blk.freesublist[size], s)]
       /\ last /\ sub.header = 0 => r.freesublist = blk.freesublist
       /\ ~last /\ sub.header # 0 => /\ r.sub = [blk.sub EXCEPT ![s] = FreePage(sub, i)]
                                     /\ r.freesublist = blk.freesublist
       /\ ~last /\ sub.header = 0
             => /\ r.sub = [blk.sub EXCEPT ![s] = InitUsed(size, i)]
                /\ r.freesublist = [blk.freesublist EXCEPT ![size] = <<s>> \o blk.freesublist[size]]

\* releasepage_block
LEMMA BlockRelease ==
    ASSUME NEW blk, NEW b \in Blocks, NEW h \in SUBSET AllPages, IsFiniteSet(h), BlockOK(blk, b, h),
           NEW p \in h, p.block = b, NEW s \in Subblocks, p.sub = s, NEW r,
           ReleaseResult(blk, r, s, PageIndex(p), p.size), r.nrused = blk.nrused - 1
    PROVE  BlockOK(r, b, h \ {p})
<1> DEFINE i == PageIndex(p)
           size == p.size
           sub == blk.sub[s]
           U == HeldIn(h, b, s)
           F == blk.freesublist
           last == (sub.header # 0 /\ sub.nrused = 1) \/ (sub.header = 0 /\ NrPages(size) = 1)
<1>1. /\ blk \in BlockRecords /\ BlockLists(blk) /\ SubOK(sub, s, U)
      /\ sub.pgsize = size /\ size \in PageSizes /\ size # NoSize /\ i \in U
  <2>1. blk \in BlockRecords /\ BlockLists(blk) /\ SubOK(sub, s, U) /\ sub.pgsize = size
    BY DEF BlockOK, InBlock
  <2>2. i \in U
    BY DEF HeldIn
  <2>3. size \in PageSizes
    BY PageType
  <2> QED BY <2>1, <2>2, <2>3, Sizes
<1>2. /\ s < blk.nextunused /\ s \notin ToSet(blk.unusedsublist)
      /\ \A k \in PageSizes : s \in ToSet(F[k]) <=> k = size /\ sub.header # 0
  <2>1. blk.sub[s].pgsize # NoSize
    BY <1>1
  <2>2. s < blk.nextunused /\ s \notin ToSet(blk.unusedsublist)
    BY <2>1, UsedSub
  <2> HIDE DEF i, size, sub, U, F, last
  <2>3. ASSUME NEW k \in PageSizes
        PROVE  s \in ToSet(blk.freesublist[k]) <=> k = blk.sub[s].pgsize /\ blk.sub[s].header # 0
    BY ONLY BlockOK(blk, b, h), b \in Blocks, h \in SUBSET AllPages, s \in Subblocks,
            k \in PageSizes, <2>1, UsedSub
  <2> QED BY <1>1, <2>2, <2>3 DEF F, sub
<1>3. /\ r \in BlockRecords
      /\ r.nextunused = blk.nextunused /\ r.nrused = blk.nrused - 1
      /\ last => /\ r.sub = [blk.sub EXCEPT ![s] = InitUnused]
                 /\ r.unusedsublist = <<s>> \o blk.unusedsublist
      /\ ~last => r.unusedsublist = blk.unusedsublist
      /\ last /\ sub.header # 0 => r.freesublist = [F EXCEPT ![size] = Without(F[size], s)]
      /\ last /\ sub.header = 0 => r.freesublist = F
      /\ ~last /\ sub.header # 0 => /\ r.sub = [blk.sub EXCEPT ![s] = FreePage(sub, i)]
                                    /\ r.freesublist = F
      /\ ~last /\ sub.header = 0 => /\ r.sub = [blk.sub EXCEPT ![s] = InitUsed(size, i)]
                                    /\ r.freesublist = [F EXCEPT ![size] = <<s>> \o F[size]]
  BY DEF ReleaseResult
<1>4. /\ blk.sub \in [Subblocks -> SubHeaders] /\ F \in [PageSizes -> Seq(Subblocks)]
      /\ blk.unusedsublist \in Seq(Subblocks)
  BY <1>1, BlockType
<1>5. last => s # 0 /\ U = {i}
  BY <1>1, LastPage
<1>6. /\ last => r.sub[s] = InitUnused
      /\ ~last /\ sub.header # 0 => r.sub[s] = FreePage(sub, i)
      /\ ~last /\ sub.header = 0 => r.sub[s] = InitUsed(size, i)
      /\ \A t \in Subblocks \ {s} : r.sub[t] = blk.sub[t]
  BY <1>3, <1>4
<1> HIDE DEF i, size, sub, U, F, last
<1>7. /\ SubOK(r.sub[s], s, U \ {i})
      /\ last => r.sub[s].pgsize = NoSize
      /\ ~last => r.sub[s].pgsize = size /\ r.sub[s].header # 0
  <2>1. CASE last
    <3>1. SubOK(InitUnused, s, {}) /\ InitUnused.pgsize = NoSize /\ U \ {i} = {}
      BY <1>5, <2>1, UnusedOK
    <3> QED BY <1>6, <2>1, <3>1
  <2>2. CASE ~last /\ sub.header # 0
    <3>1. /\ SubOK(FreePage(sub, i), s, U \ {i})
          /\ FreePage(sub, i).pgsize = size /\ FreePage(sub, i).header # 0
      BY <1>1, <2>2, FreePageOK
    <3> QED BY <1>6, <2>2, <3>1
  <2>3. CASE ~last /\ sub.header = 0
    <3>1. SubOK(InitUsed(sub.pgsize, i), s, U \ {i})
      BY <1>1, <2>3, InitUsedOK
    <3>2. InitUsed(sub.pgsize, i).pgsize = sub.pgsize /\ InitUsed(sub.pgsize, i).header # 0
      BY <1>1, <2>3, InitUsedOK
    <3> QED BY <1>1, <1>6, <2>3, <3>1, <3>2
  <2> QED BY <2>1, <2>2, <2>3
<1>8. /\ IsInjective(r.unusedsublist)
      /\ s # 0 /\ r.sub[s].pgsize = NoSize
            => ToSet(r.unusedsublist) = ToSet(blk.unusedsublist) \cup {s}
      /\ ~(s # 0 /\ r.sub[s].pgsize = NoSize)
            => ToSet(r.unusedsublist) = ToSet(blk.unusedsublist) \ {s}
  <2>1. IsInjective(blk.unusedsublist)
    BY <1>1 DEF BlockLists
  <2>2. CASE last
    <3>1. /\ IsInjective(<<s>> \o blk.unusedsublist)
          /\ ToSet(<<s>> \o blk.unusedsublist) = ToSet(blk.unusedsublist) \cup {s}
      BY <1>2, <1>4, <2>1, PushList
    <3> QED BY <1>3, <1>5, <1>7, <2>2, <3>1
  <2>3. CASE ~last
    <3>1. r.sub[s].pgsize # NoSize
      BY <1>1, <1>7, <2>3
    <3> QED BY <1>2, <1>3, <2>1, <2>3, <3>1
  <2> QED BY <2>2, <2>3
<1>9. ASSUME NEW k \in PageSizes
      PROVE  /\ IsInjective(r.freesublist[k])
             /\ r.sub[s].pgsize = k /\ r.sub[s].header # 0
                   => ToSet(r.freesublist[k]) = ToSet(F[k]) \cup {s}
             /\ ~(r.sub[s].pgsize = k /\ r.sub[s].header # 0)
                   => ToSet(r.freesublist[k]) = ToSet(F[k]) \ {s}
  <2>1. /\ IsInjective(F[k]) /\ F[k] \in Seq(Subblocks) /\ k # NoSize
        /\ s \in ToSet(F[k]) <=> k = size /\ sub.header # 0
    BY <1>1, <1>2, <1>4, Sizes DEF BlockLists, F
  <2>2. CASE last /\ sub.header # 0 /\ k = size
    <3>1. r.freesublist[k] = Without(F[k], s)
      BY <1>3, <1>4, <2>2
    <3>2. IsInjective(r.freesublist[k]) /\ ToSet(r.freesublist[k]) = ToSet(F[k]) \ {s}
      BY <2>1, <3>1, WithoutList
    <3>3. r.sub[s].pgsize # k
      BY <1>7, <2>1, <2>2
    <3> QED BY <3>2, <3>3
  <2>3. CASE ~last /\ sub.header = 0 /\ k = size
    <3>1. r.freesublist[k] = <<s>> \o F[k]
      BY <1>3, <1>4, <2>3
    <3>2. IsInjective(r.freesublist[k]) /\ ToSet(r.freesublist[k]) = ToSet(F[k]) \cup {s}
      BY <2>1, <2>3, <3>1, PushList
    <3>3. r.sub[s].pgsize = k /\ r.sub[s].header # 0
      BY <1>7, <2>3
    <3> QED BY <3>2, <3>3
  <2>4. CASE k # size
    <3>1. r.freesublist[k] = F[k]
      BY <1>3, <1>4, <2>4
    <3>2. r.sub[s].pgsize # k
      BY <1>7, <2>1, <2>4
    <3> QED BY <2>1, <2>4, <3>1, <3>2
  <2>5. CASE last /\ sub.header = 0 /\ k = size
    <3>1. r.freesublist[k] = F[k]
      BY <1>3, <2>5
    <3>2. r.sub[s].pgsize # k
      BY <1>7, <2>1, <2>5
    <3> QED BY <2>1, <2>5, <3>1, <3>2
  <2>6. CASE ~last /\ sub.header # 0 /\ k = size
    <3>1. r.freesublist[k] = F[k]
      BY <1>3, <2>6
    <3>2. r.sub[s].pgsize = k /\ r.sub[s].header # 0
      BY <1>7, <2>6
    <3> QED BY <2>1, <2>6, <3>1, <3>2
  <2> QED BY <2>2, <2>3, <2>4, <2>5, <2>6
<1>10. ListsFollow(blk, r, s)
  <2>1. r.nextunused = blk.nextunused /\ s < r.nextunused
    BY <1>2, <1>3
  <2>2. r.nextunused = blk.nextunused \/ (s = blk.nextunused /\ r.nextunused = s + 1)
    BY <2>1
  <2> QED BY <1>6, <1>8, <1>9, <2>1, <2>2 DEF ListsFollow, F
<1>11. r.sub[s].pgsize \in {blk.sub[s].pgsize, NoSize}
  BY <1>1, <1>7 DEF sub
<1>12. SubOK(r.sub[s], s, HeldIn(h, b, s) \ {PageIndex(p)})
  BY <1>7 DEF U, i
<1> QED BY <1>3, <1>10, <1>11, <1>12, BlockReleased

\* The sub-block which allocunused_block takes is one without use.
LEMMA UnusedIs ==
    ASSUME NEW blk, NEW b \in Blocks, NEW h \in SUBSET AllPages, BlockOK(blk, b, h), ~UsedUp(blk)
    PROVE  LET s == UnusedSub(blk)
           IN s \in Subblocks /\ s # 0 /\ blk.sub[s].pgsize = NoSize /\ HeldIn(h, b, s) = {}
<1> DEFINE s == UnusedSub(blk)
<1>1. blk \in BlockRecords /\ BlockLists(blk)
  BY DEF BlockOK
<1>2. /\ blk.unusedsublist \in Seq(Subblocks) /\ IsInjective(blk.unusedsublist)
      /\ blk.nextunused \in 1 .. NrSubblocks /\ NrSubblocks \in Nat
      /\ ToSet(blk.unusedsublist) = {t \in 1 .. blk.nextunused - 1 : blk.sub[t].pgsize = NoSize}
      /\ \A t \in Subblocks : t >= blk.nextunused => blk.sub[t].pgsize = NoSize
  BY <1>1, BlockType DEF BlockLists
<1>3. s \in Subblocks /\ s # 0 /\ blk.sub[s].pgsize = NoSize
  <2>1. CASE blk.unusedsublist = <<>>
    <3>1. s = blk.nextunused /\ blk.nextunused # NrSubblocks
      BY <2>1 DEF UnusedSub, UsedUp
    <3> HIDE DEF s
    <3>2. s \in Subblocks /\ s # 0 /\ s >= blk.nextunused
      BY <1>2, <3>1 DEF Subblocks
    <3> QED BY <1>2, <3>2
  <2>2. CASE blk.unusedsublist # <<>>
    <3>1. s = Head(blk.unusedsublist)
      BY <2>2 DEF UnusedSub
    <3>2. Head(blk.unusedsublist) \in Subblocks
      BY <1>2, <2>2, TailList
    <3>3. Head(blk.unusedsublist) \in ToSet(blk.unusedsublist)
      BY <1>2, <2>2, TailList
    <3> HIDE DEF s
    <3>4. s \in {t \in 1 .. blk.nextunused - 1 : blk.sub[t].pgsize = NoSize}
      BY <1>2, <3>1, <3>3
    <3> QED BY <1>2, <3>1, <3>2, <3>4
  <2> QED BY <2>1, <2>2
<1> HIDE DEF s
<1>4. SubOK(blk.sub[s], s, HeldIn(h, b, s))
  BY <1>3 DEF BlockOK
<1>5. HeldIn(h, b, s) = {}
  BY <1>3, <1>4 DEF SubOK
<1> QED BY <1>3, <1>5 DEF s

\* r is what allocunused_block makes of a block before it allocates the page.
TakeResult(blk, r, s, size) ==
    /\ r \in BlockRecords
    /\ r.sub = [blk.sub EXCEPT ![s] = InitFree(size, 0)]
    /\ r.freesublist = [blk.freesublist EXCEPT ![size] = <<s>> \o blk.freesublist[size]]
    /\ blk.unusedsublist = <<>> => r.unusedsublist = <<>> /\ r.nextunused = blk.nextunused + 1
    /\ blk.unusedsublist # <<>> => /\ r.unusedsublist = Tail(blk.unusedsublist)
                                   /\ r.nextunused = blk.nextunused
    /\ r.nrused = blk.nrused

\* allocunused_block: the sub-block is listed as a free one and no longer as unused.
LEMMA BlockTake ==
    ASSUME NEW blk, NEW b \in Blocks, NEW h \in SUBSET AllPages, BlockOK(blk, b, h), ~UsedUp(blk),
           NEW s \in Subblocks, s = UnusedSub(blk), NEW size \in PageSizes,
           NEW r, TakeResult(blk, r, s, size)
    PROVE  BlockOK(r, b, h) /\ r.sub[s].pgsize = size /\ r.sub[s].header # 0
<1>1. /\ r \in BlockRecords
      /\ r.sub = [blk.sub EXCEPT ![s] = InitFree(size, 0)]
      /\ r.freesublist = [blk.freesublist EXCEPT ![size] = <<s>> \o blk.freesublist[size]]
      /\ blk.unusedsublist = <<>> => r.unusedsublist = <<>> /\ r.nextunused = blk.nextunused + 1
      /\ blk.unusedsublist # <<>> => /\ r.unusedsublist = Tail(blk.unusedsublist)
                                     /\ r.nextunused = blk.nextunused
      /\ r.nrused = blk.nrused
  BY DEF TakeResult
<1>2. /\ blk \in BlockRecords /\ BlockLists(blk) /\ blk.nrused = Cardinality(InBlock(h, b))
      /\ \A q \in InBlock(h, b) : q.size = blk.sub[q.sub].pgsize
  BY DEF BlockOK
<1>3. s # 0 /\ blk.sub[s].pgsize = NoSize /\ HeldIn(h, b, s) = {}
  BY UnusedIs
<1>4. /\ blk.sub \in [Subblocks -> SubHeaders] /\ blk.freesublist \in [PageSizes -> Seq(Subblocks)]
      /\ blk.unusedsublist \in Seq(Subblocks) /\ IsInjective(blk.unusedsublist)
      /\ blk.nextunused \in 1 .. NrSubblocks /\ NrSubblocks \in Nat
      /\ ToSet(blk.unusedsublist) = {t \in 1 .. blk.nextunused - 1 : blk.sub[t].pgsize = NoSize}
  BY <1>2, BlockType DEF BlockLists
<1>5. /\ r.sub[s] = InitFree(size, 0)
      /\ \A t \in Subblocks \ {s} : r.sub[t] = blk.sub[t]
  BY <1>1, <1>4
<1>6. SubOK(r.sub[s], s, {}) /\ r.sub[s].pgsize = size /\ r.sub[s].header # 0 /\ size # NoSize
  <2>1. SubOK(InitFree(size, 0), s, {})
    BY <1>3, InitFreeOK
  <2>2. InitFree(size, 0).pgsize = size /\ InitFree(size, 0).header # 0
    BY <1>3, InitFreeOK
  <2>3. size # NoSize
    BY Sizes
  <2> QED BY <1>5, <2>1, <2>2, <2>3
<1>7. /\ r.nextunused = blk.nextunused \/ (s = blk.nextunused /\ r.nextunused = s + 1)
      /\ s < r.nextunused
      /\ IsInjective(r.unusedsublist)
      /\ ToSet(r.unusedsublist) = ToSet(blk.unusedsublist) \ {s}
  <2>1. CASE blk.unusedsublist = <<>>
    <3>1. s = blk.nextunused /\ r.nextunused = s + 1 /\ r.unusedsublist = <<>>
      BY <1>1, <2>1 DEF UnusedSub
    <3>2. IsInjective(<<>>) /\ ToSet(<<>>) = {}
      BY EmptyList
    <3>3. s < s + 1
      BY <1>4, <3>1
    <3> QED BY <2>1, <3>1, <3>2, <3>3
  <2>2. CASE blk.unusedsublist # <<>>
    <3>1. /\ s = Head(blk.unusedsublist) /\ r.nextunused = blk.nextunused
          /\ r.unusedsublist = Tail(blk.unusedsublist)
      BY <1>1, <2>2 DEF UnusedSub
    <3>2. /\ Head(blk.unusedsublist) \in ToSet(blk.unusedsublist)
          /\ IsInjective(Tail(blk.unusedsublist))
          /\ ToSet(Tail(blk.unusedsublist)) = ToSet(blk.unusedsublist) \ {Head(blk.unusedsublist)}
      BY <1>4, <2>2, TailList
    <3>3. s \in 1 .. blk.nextunused - 1
      BY <1>4, <3>1, <3>2
    <3>4. s < blk.nextunused
      BY <1>4, <3>3
    <3> QED BY <3>1, <3>2, <3>4
  <2> QED BY <2>1, <2>2
<1>8. ASSUME NEW k \in PageSizes
      PROVE  /\ IsInjective(r.freesublist[k])
             /\ r.sub[s].pgsize = k /\ r.sub[s].header # 0
                   => ToSet(r.freesublist[k]) = ToSet(blk.freesublist[k]) \cup {s}
             /\ ~(r.sub[s].pgsize = k /\ r.sub[s].header # 0)
                   => ToSet(r.freesublist[k]) = ToSet(blk.freesublist[k]) \ {s}
  <2>1. IsInjective(blk.freesublist[k]) /\ blk.freesublist[k] \in Seq(Subblocks)
    BY <1>2, <1>4 DEF BlockLists
  <2>2. s \notin ToSet(blk.freesublist[k])
    <3>1. k # NoSize
      BY Sizes
    <3> QED BY <1>2, <1>3, <3>1 DEF BlockLists
  <2>3. CASE k = size
    <3>1. r.freesublist[k] = <<s>> \o blk.freesublist[k]
      BY <1>1, <1>4, <2>3
    <3>2. /\ IsInjective(r.freesublist[k])
          /\ ToSet(r.freesublist[k]) = ToSet(blk.freesublist[k]) \cup {s}
      BY <2>1, <2>2, <3>1, PushList
    <3> QED BY <1>6, <2>3, <3>2
  <2>4. CASE k # size
    <3>1. r.freesublist[k] = blk.freesublist[k]
      BY <1>1, <1>4, <2>4
    <3> QED BY <1>6, <2>1, <2>2, <2>4, <3>1
  <2> QED BY <2>3, <2>4
<1>9. BlockLists(r)
  <2>1. /\ s # 0 /\ r.sub[s].pgsize = NoSize
              => ToSet(r.unusedsublist) = ToSet(blk.unusedsublist) \cup {s}
        /\ ~(s # 0 /\ r.sub[s].pgsize = NoSize)
              => ToSet(r.unusedsublist) = ToSet(blk.unusedsublist) \ {s}
    BY <1>6, <1>7
  <2>2. ListsFollow(blk, r, s)
    BY <1>5, <1>7, <1>8, <2>1 DEF ListsFollow
  <2>3. r \in BlockRecords /\ blk \in BlockRecords /\ BlockLists(blk)
    BY <1>1, <1>2
  <2> QED BY <2>2, <2>3, ChangedLists
<1>10. ASSUME NEW q \in InBlock(h, b)
       PROVE  q.sub \in Subblocks /\ q.sub # s
  <2>1. q \in h /\ q \in AllPages /\ q.block = b
    BY DEF InBlock
  <2>2. q.sub \in Subblocks
    BY <2>1, PageType
  <2>3. q.sub = s => PageIndex(q) \in HeldIn(h, b, s)
    BY <2>1 DEF HeldIn
  <2> QED BY <1>3, <2>2, <2>3
<1>11. SubOK(r.sub[s], s, HeldIn(h, b, s))
  BY <1>3, <1>6
<1>12. BlockOK(r, b, h)
  <2>1. \A t \in Subblocks \ {s} : r.sub[t] = blk.sub[t] /\ HeldIn(h, b, t) = HeldIn(h, b, t)
    BY <1>5
  <2>2. \A p \in InBlock(h, b) : /\ p.sub \in Subblocks
                                 /\ p.sub = s => p.size = r.sub[s].pgsize
                                 /\ p.sub # s => p \in InBlock(h, b)
    BY <1>10
  <2>3. r \in BlockRecords /\ blk \in BlockRecords /\ r.nrused = Cardinality(InBlock(h, b))
    BY <1>1, <1>2
  <2> QED BY <1>9, <1>11, <2>1, <2>2, <2>3, ChangedSub
<1> QED BY <1>6, <1>12

\* The block new_block makes.
FreshBlock == [sub |-> [s \in Subblocks |-> IF s = 0 THEN InitFree(SmallSize, BlockPages)
                                            ELSE NeverUsed],
               freesublist |-> [size \in PageSizes |-> IF size = SmallSize THEN <<0>> ELSE <<>>],
               unusedsublist |-> <<>>,
               nextunused |-> 1,
               nrused |-> 0]

\* new_block: a block which no client holds a page of.
LEMMA BlockNew ==
    ASSUME NEW b \in Blocks, NEW h \in SUBSET AllPages, IsFiniteSet(h), \A q \in h : q.block # b
    PROVE  /\ BlockOK(FreshBlock, b, h) /\ FreshBlock \in BlockRecords
           /\ ~UsedUp(FreshBlock) /\ UnusedSub(FreshBlock) = 1
           /\ FreshBlock.sub[0].pgsize = SmallSize /\ FreshBlock.sub[0].header # 0
<1> DEFINE sub == [s \in Subblocks |-> IF s = 0 THEN InitFree(SmallSize, BlockPages) ELSE NeverUsed]
           fl == [size \in PageSizes |-> IF size = SmallSize THEN <<0>> ELSE <<>>]
           k == FreshBlock
<1>1. k = [sub |-> sub, freesublist |-> fl, unusedsublist |-> <<>>, nextunused |-> 1, nrused |-> 0]
  BY DEF FreshBlock
<1>2. /\ SmallSize \in PageSizes /\ BlockPages \in Nat \ {0}
      /\ NrSubblocks \in Nat /\ NrSubblocks >= 2 /\ 0 \in Subblocks /\ 1 \in Subblocks
      /\ SmallSize # NoSize
  BY SmallPages, Sizes
<1>3. /\ SubOK(sub[0], 0, {}) /\ sub[0].pgsize = SmallSize /\ sub[0].header # 0
  <2>1. sub[0] = InitFree(SmallSize, BlockPages)
    BY <1>2
  <2>2. /\ SubOK(InitFree(SmallSize, BlockPages), 0, {})
        /\ InitFree(SmallSize, BlockPages).pgsize = SmallSize
        /\ InitFree(SmallSize, BlockPages).header # 0
    BY <1>2, InitFreeOK
  <2> QED BY <2>1, <2>2
<1>4. ASSUME NEW s \in Subblocks, s # 0 PROVE SubOK(sub[s], s, {}) /\ sub[s].pgsize = NoSize
  <2>1. sub[s] = NeverUsed
    BY <1>4
  <2>2. SubOK(NeverUsed, s, {}) /\ NeverUsed.pgsize = NoSize
    BY <1>4, UnusedOK
  <2> QED BY <2>1, <2>2
<1>5. \A s \in Subblocks : SubOK(sub[s], s, {})
  BY <1>3, <1>4
<1>6. sub \in [Subblocks -> SubHeaders]
  <2>1. \A s \in Subblocks : sub[s] \in SubHeaders
    BY <1>5 DEF SubOK
  <2>2. sub = [s \in Subblocks |-> sub[s]]
    OBVIOUS
  <2> HIDE DEF sub
  <2> QED BY <2>1, <2>2
<1>7. ASSUME NEW size \in PageSizes
      PROVE  /\ fl[size] \in Seq(Subblocks) /\ IsInjective(fl[size])
             /\ ToSet(fl[size]) = {s \in Subblocks : sub[s].pgsize = size /\ sub[s].header # 0}
  <2>1. size # NoSize
    BY Sizes
  <2>2. CASE size = SmallSize
    <3>1. fl[size] = <<0>>
      BY <2>2
    <3>2. <<0>> \in Seq(Subblocks) /\ IsInjective(<<0>>) /\ ToSet(<<0>>) = {0}
      BY <1>2 DEF IsInjective, ToSet
    <3> HIDE DEF sub, fl
    <3> QED BY <1>2, <1>3, <1>4, <2>1, <2>2, <3>1, <3>2
  <2>3. CASE size # SmallSize
    <3>1. fl[size] = <<>>
      BY <2>3
    <3>2. <<>> \in Seq(Subblocks) /\ IsInjective(<<>>) /\ ToSet(<<>>) = {}
      BY EmptyList
    <3> HIDE DEF sub, fl
    <3> QED BY <1>2, <1>3, <1>4, <2>1, <2>3, <3>1, <3>2
  <2> QED BY <2>2, <2>3
<1>8. fl \in [PageSizes -> Seq(Subblocks)]
  BY <1>7
<1>9. k.sub = sub /\ k.freesublist = fl /\ k.unusedsublist = <<>> /\ k.nextunused = 1 /\ k.nrused = 0
  BY <1>1
<1> HIDE DEF sub, fl
<1>10. k \in BlockRecords
  BY <1>1, <1>2, <1>6, <1>8 DEF BlockRecords
<1> HIDE DEF k
<1>11. BlockLists(k)
  <2>1. IsInjective(<<>>) /\ ToSet(<<>>) = {}
    BY EmptyList
  <2>2. {s \in 1 .. 1 - 1 : sub[s].pgsize = NoSize} = {}
    OBVIOUS
  <2>3. \A s \in Subblocks : s >= 1 => sub[s].pgsize = NoSize
    BY <1>4
  <2> QED BY <1>7, <1>9, <2>1, <2>2, <2>3 DEF BlockLists
<1>12. \A s \in Subblocks : HeldIn(h, b, s) = {}
  BY DEF HeldIn
<1>13. InBlock(h, b) = {}
  BY DEF InBlock
<1>14. k.nrused = Cardinality(InBlock(h, b))
  BY <1>9, <1>13, FS_EmptySet
<1>15. BlockOK(k, b, h)
  BY <1>5, <1>9, <1>10, <1>11, <1>12, <1>13, <1>14 DEF BlockOK
<1>16. ~UsedUp(k) /\ UnusedSub(k) = 1
  BY <1>2, <1>9 DEF UsedUp, UnusedSub
<1> QED BY <1>3, <1>9, <1>10, <1>15, <1>16 DEF k

-----------------------------------------------------------------------------
(* The lists of blocks *)

\* The cache has its type and complete lists of blocks.
ListsOK(c) == c \in Caches /\ CacheLists(c)

\* The lists of blocks after block b became k.
ListsFit(c, b, k, u, f) ==
    /\ u \in Seq(Blocks) /\ IsInjective(u)
    /\ UsedUp(k) => ToSet(u) = ToSet(c.unusedblocklist) \ {b}
    /\ ~UsedUp(k) => ToSet(u) = ToSet(c.unusedblocklist) \cup {b}
    /\ f \in [PageSizes -> Seq(Blocks)]
    /\ \A size \in PageSizes :
          /\ IsInjective(f[size])
          /\ k.freesublist[size] = <<>> => ToSet(f[size]) = ToSet(c.freeblocklist[size]) \ {b}
          /\ k.freesublist[size] # <<>> => ToSet(f[size]) = ToSet(c.freeblocklist[size]) \cup {b}

\* r is the cache c with k as its block b, and with the lists of blocks this demands.
Placed(c, r, b, k) ==
    /\ ListsOK(r) /\ r.blocks[b] = k
    /\ \A a \in Blocks \ {b} : r.blocks[a] = c.blocks[a]
    /\ Mapped(r) = Mapped(c) \cup {b} /\ r.sizeallocated = c.sizeallocated

\* The parts of a cache.
LEMMA CacheType ==
    ASSUME NEW c, ListsOK(c)
    PROVE  /\ c \in Caches /\ c.blocks \in [Blocks -> BlockRecords \cup {NoBlock}]
           /\ c.unusedblocklist \in Seq(Blocks) /\ IsInjective(c.unusedblocklist)
           /\ ToSet(c.unusedblocklist) = {b \in Mapped(c) : ~UsedUp(c.blocks[b])}
           /\ c.freeblocklist \in [PageSizes -> Seq(Blocks)]
           /\ \A size \in PageSizes :
                 /\ IsInjective(c.freeblocklist[size])
                 /\ ToSet(c.freeblocklist[size])
                       = {b \in Mapped(c) : c.blocks[b].freesublist[size] # <<>>}
           /\ c.sizeallocated \in Nat
           /\ Mapped(c) \subseteq Blocks /\ \A b \in Mapped(c) : c.blocks[b] \in BlockRecords
<1>1. c \in Caches /\ CacheLists(c)
  BY DEF ListsOK
<1>2. c.blocks \in [Blocks -> BlockRecords \cup {NoBlock}]
  BY <1>1 DEF Caches
<1>3. Mapped(c) \subseteq Blocks /\ \A b \in Mapped(c) : c.blocks[b] \in BlockRecords
  BY <1>2 DEF Mapped
<1> QED BY <1>1, <1>2, <1>3 DEF Caches, CacheLists

\* A block is replaced.
LEMMA PutBlock ==
    ASSUME NEW c, ListsOK(c), NEW b \in Blocks, NEW k \in BlockRecords, NEW u, NEW f,
           ListsFit(c, b, k, u, f), NEW r,
           r = [c EXCEPT !.blocks = [c.blocks EXCEPT ![b] = k], !.unusedblocklist = u,
                         !.freeblocklist = f]
    PROVE  Placed(c, r, b, k)
<1>1. /\ c \in Caches /\ c.blocks \in [Blocks -> BlockRecords \cup {NoBlock}]
      /\ ToSet(c.unusedblocklist) = {a \in Mapped(c) : ~UsedUp(c.blocks[a])}
      /\ \A size \in PageSizes :
            ToSet(c.freeblocklist[size]) = {a \in Mapped(c) : c.blocks[a].freesublist[size] # <<>>}
  BY CacheType
<1> DEFINE bs == [c.blocks EXCEPT ![b] = k]
<1>2. /\ bs \in [Blocks -> BlockRecords \cup {NoBlock}] /\ bs[b] = k
      /\ \A a \in Blocks \ {b} : bs[a] = c.blocks[a]
  BY <1>1
<1>3. k # NoBlock
  BY BlockType
<1>4. r = [c EXCEPT !.blocks = bs, !.unusedblocklist = u, !.freeblocklist = f]
  OBVIOUS
<1>5. /\ u \in Seq(Blocks) /\ IsInjective(u) /\ f \in [PageSizes -> Seq(Blocks)]
      /\ UsedUp(k) => ToSet(u) = ToSet(c.unusedblocklist) \ {b}
      /\ ~UsedUp(k) => ToSet(u) = ToSet(c.unusedblocklist) \cup {b}
      /\ \A size \in PageSizes :
            /\ IsInjective(f[size])
            /\ k.freesublist[size] = <<>> => ToSet(f[size]) = ToSet(c.freeblocklist[size]) \ {b}
            /\ k.freesublist[size] # <<>> => ToSet(f[size]) = ToSet(c.freeblocklist[size]) \cup {b}
  BY DEF ListsFit
<1> HIDE DEF bs
<1>6. /\ r \in Caches /\ r.blocks = bs /\ r.unusedblocklist = u /\ r.freeblocklist = f
      /\ r.sizeallocated = c.sizeallocated
  BY <1>1, <1>2, <1>4, <1>5 DEF Caches
<1>7. Mapped(r) = Mapped(c) \cup {b}
  BY <1>2, <1>3, <1>6 DEF Mapped
<1>8. ToSet(u) = {a \in Mapped(r) : ~UsedUp(bs[a])}
  <2>1. \A a \in Mapped(c) \ {b} : bs[a] = c.blocks[a]
    BY <1>2 DEF Mapped
  <2>2. CASE UsedUp(k)
    BY <1>1, <1>2, <1>5, <1>7, <2>1, <2>2
  <2>3. CASE ~UsedUp(k)
    BY <1>1, <1>2, <1>5, <1>7, <2>1, <2>3
  <2> QED BY <2>2, <2>3
<1>9. ASSUME NEW size \in PageSizes
      PROVE  IsInjective(f[size]) /\ ToSet(f[size]) = {a \in Mapped(r) : bs[a].freesublist[size] # <<>>}
  <2> DEFINE F == ToSet(c.freeblocklist[size])
             G == ToSet(f[size])
  <2>1. \A a \in Mapped(c) \ {b} : bs[a] = c.blocks[a]
    BY <1>2 DEF Mapped
  <2>2. /\ IsInjective(f[size])
        /\ F = {a \in Mapped(c) : c.blocks[a].freesublist[size] # <<>>}
        /\ k.freesublist[size] = <<>> => G = F \ {b}
        /\ k.freesublist[size] # <<>> => G = F \cup {b}
    BY <1>1, <1>5
  <2> HIDE DEF F, G
  <2>3. G = {a \in Mapped(r) : bs[a].freesublist[size] # <<>>}
    BY <1>2, <1>7, <2>1, <2>2
  <2> QED BY <2>2, <2>3 DEF G
<1>10. CacheLists(r)
  <2>1. /\ IsInjective(r.unusedblocklist)
        /\ ToSet(r.unusedblocklist) = {a \in Mapped(r) : ~UsedUp(r.blocks[a])}
    BY <1>5, <1>6, <1>8
  <2>2. ASSUME NEW size \in PageSizes
        PROVE  /\ IsInjective(r.freeblocklist[size])
               /\ ToSet(r.freeblocklist[size]) = {a \in Mapped(r) : r.blocks[a].freesublist[size] # <<>>}
    BY <1>6, <1>9
  <2> QED BY <2>1, <2>2 DEF CacheLists
<1> QED BY <1>2, <1>6, <1>7, <1>10 DEF Placed, ListsOK

\* What changes no list of a block changes no list of blocks.
LEMMA SubChanged ==
    ASSUME NEW c, ListsOK(c), NEW b \in Mapped(c), NEW k \in BlockRecords,
           k.freesublist = c.blocks[b].freesublist, k.unusedsublist = c.blocks[b].unusedsublist,
           k.nextunused = c.blocks[b].nextunused,
           NEW r, r = [c EXCEPT !.blocks = [c.blocks EXCEPT ![b] = k]]
    PROVE  Placed(c, r, b, k)
<1> DEFINE u == c.unusedblocklist
           f == c.freeblocklist
<1>1. /\ c \in Caches /\ b \in Blocks /\ u \in Seq(Blocks) /\ IsInjective(u)
      /\ ToSet(u) = {a \in Mapped(c) : ~UsedUp(c.blocks[a])}
      /\ f \in [PageSizes -> Seq(Blocks)]
      /\ \A size \in PageSizes :
            /\ IsInjective(f[size])
            /\ ToSet(f[size]) = {a \in Mapped(c) : c.blocks[a].freesublist[size] # <<>>}
  BY CacheType
<1> HIDE DEF u, f
<1>2. UsedUp(k) <=> UsedUp(c.blocks[b])
  BY DEF UsedUp
<1>3. ListsFit(c, b, k, u, f)
  <2>1. /\ UsedUp(k) => ToSet(u) = ToSet(u) \ {b}
        /\ ~UsedUp(k) => ToSet(u) = ToSet(u) \cup {b}
    BY <1>1, <1>2
  <2>2. ASSUME NEW size \in PageSizes
        PROVE  /\ k.freesublist[size] = <<>> => ToSet(f[size]) = ToSet(f[size]) \ {b}
               /\ k.freesublist[size] # <<>> => ToSet(f[size]) = ToSet(f[size]) \cup {b}
    BY <1>1
  <2> QED BY <1>1, <2>1, <2>2 DEF ListsFit, u, f
<1>4. r = [c EXCEPT !.blocks = [c.blocks EXCEPT ![b] = k], !.unusedblocklist = u, !.freeblocklist = f]
  BY <1>1 DEF Caches, u, f
<1> QED BY <1>1, <1>3, <1>4, PutBlock

\* The counter of the cache is in no list.
LEMMA SizeChanged ==
    ASSUME NEW c, ListsOK(c), NEW n \in Nat, NEW r, r = [c EXCEPT !.sizeallocated = n]
    PROVE  /\ ListsOK(r) /\ r.blocks = c.blocks /\ Mapped(r) = Mapped(c) /\ r.sizeallocated = n
           /\ r.unusedblocklist = c.unusedblocklist /\ r.freeblocklist = c.freeblocklist
<1>1. c \in Caches /\ CacheLists(c)
  BY DEF ListsOK
<1>2. /\ r \in Caches /\ r.blocks = c.blocks /\ r.sizeallocated = n
      /\ r.unusedblocklist = c.unusedblocklist /\ r.freeblocklist = c.freeblocklist
  BY <1>1 DEF Caches
<1>3. Mapped(r) = Mapped(c)
  BY <1>2 DEF Mapped
<1> QED BY <1>1, <1>2, <1>3 DEF ListsOK, CacheLists

\* Unlinking the only member, and no other, leaves an empty list.
LEMMA OnlyMember ==
    ASSUME NEW S, NEW list \in Seq(S), IsInjective(list), NEW e \in ToSet(list)
    PROVE  Len(list) = 1 <=> Without(list, e) = <<>>
<1>1. Len(list) \in Nat /\ DOMAIN list = 1 .. Len(list)
  OBVIOUS
<1>2. Without(list, e) = <<>> <=> ToSet(list) \ {e} = {}
  <2>1. Without(list, e) \in Seq(S) /\ ToSet(Without(list, e)) = ToSet(list) \ {e}
    BY WithoutList
  <2> QED BY <2>1, NonEmptyList
<1>3. ASSUME Len(list) = 1 PROVE ToSet(list) \ {e} = {}
  <2>1. DOMAIN list = {1}
    BY <1>1, <1>3
  <2>2. ToSet(list) = {list[1]}
    BY <2>1 DEF ToSet
  <2> QED BY <2>2
<1>4. ASSUME ToSet(list) \ {e} = {} PROVE Len(list) = 1
  <2>1. \A i \in DOMAIN list : list[i] = e
    BY <1>4 DEF ToSet
  <2>2. DOMAIN list # {}
    BY DEF ToSet
  <2>3. \A i, j \in DOMAIN list : i = j
    BY <2>1 DEF IsInjective
  <2>4. 1 \in DOMAIN list /\ Len(list) \in DOMAIN list
    BY <1>1, <2>2
  <2> QED BY <2>3, <2>4
<1> QED BY <1>2, <1>3, <1>4

\* A sub-block leaves the list of its page size.
LEMMA LeaveFreeListIs ==
    ASSUME NEW c, ListsOK(c), NEW b \in Mapped(c), NEW size \in PageSizes,
           IsInjective(c.blocks[b].freesublist[size]),
           NEW s \in ToSet(c.blocks[b].freesublist[size]),
           NEW fl, fl = [c.blocks[b].freesublist EXCEPT ![size] = Without(c.blocks[b].freesublist[size], s)],
           NEW k, k = [c.blocks[b] EXCEPT !.freesublist = fl]
    PROVE  k \in BlockRecords /\ Placed(c, LeaveFreeList(c, b, s, size), b, k)
<1> DEFINE blk == c.blocks[b]
           old == blk.freesublist[size]
           new == Without(old, s)
           u == c.unusedblocklist
           f == c.freeblocklist
           fs == IF Len(old) = 1 THEN Without(f[size], b) ELSE f[size]
           ff == [f EXCEPT ![size] = fs]
           r == LeaveFreeList(c, b, s, size)
<1>1. /\ c \in Caches /\ c.blocks \in [Blocks -> BlockRecords \cup {NoBlock}] /\ b \in Blocks
      /\ blk \in BlockRecords /\ u \in Seq(Blocks) /\ IsInjective(u)
      /\ ToSet(u) = {a \in Mapped(c) : ~UsedUp(c.blocks[a])}
      /\ f \in [PageSizes -> Seq(Blocks)]
      /\ \A z \in PageSizes :
            /\ IsInjective(f[z])
            /\ ToSet(f[z]) = {a \in Mapped(c) : c.blocks[a].freesublist[z] # <<>>}
  BY CacheType
<1>2. blk.freesublist \in [PageSizes -> Seq(Subblocks)] /\ old \in Seq(Subblocks)
  BY <1>1, BlockType
<1>3. new \in Seq(Subblocks) /\ (Len(old) = 1 <=> new = <<>>) /\ old # <<>>
  <2>1. new \in Seq(Subblocks)
    BY <1>2, WithoutList
  <2>2. Len(old) = 1 <=> new = <<>>
    BY <1>2, OnlyMember
  <2>3. old # <<>>
    BY EmptyList
  <2> QED BY <2>1, <2>2, <2>3
<1>4. fl = [blk.freesublist EXCEPT ![size] = new] /\ k = [blk EXCEPT !.freesublist = fl]
  OBVIOUS
<1>5. r = [c EXCEPT !.blocks = [c.blocks EXCEPT ![b] = k], !.unusedblocklist = u, !.freeblocklist = ff]
  BY <1>1, <1>2, <1>4 DEF LeaveFreeList, Caches, BlockRecords
<1>6. fs \in Seq(Blocks) /\ IsInjective(fs)
      /\ (new = <<>> => ToSet(fs) = ToSet(f[size]) \ {b})
      /\ (new # <<>> => ToSet(fs) = ToSet(f[size]) \cup {b})
  <2>1. b \in ToSet(f[size]) /\ f[size] \in Seq(Blocks) /\ IsInjective(f[size])
    BY <1>1, <1>3
  <2>2. CASE Len(old) = 1
    <3>1. fs = Without(f[size], b)
      BY <2>2
    <3>2. /\ Without(f[size], b) \in Seq(Blocks) /\ IsInjective(Without(f[size], b))
          /\ ToSet(Without(f[size], b)) = ToSet(f[size]) \ {b}
      BY <2>1, WithoutList
    <3> HIDE DEF fs, f, new, old
    <3> QED BY <1>3, <2>2, <3>1, <3>2
  <2>3. CASE Len(old) # 1
    <3>1. fs = f[size]
      BY <2>3
    <3> HIDE DEF fs, f, new, old
    <3> QED BY <1>3, <2>1, <2>3, <3>1
  <2> QED BY <2>2, <2>3
<1> HIDE DEF blk, old, new, u, f, fs
<1>7. ff \in [PageSizes -> Seq(Blocks)] /\ ff[size] = fs /\ \A z \in PageSizes \ {size} : ff[z] = f[z]
  BY <1>1, <1>6
<1>8. /\ fl \in [PageSizes -> Seq(Subblocks)] /\ fl[size] = new
      /\ \A z \in PageSizes \ {size} : fl[z] = blk.freesublist[z]
  BY <1>2, <1>3, <1>4
<1> HIDE DEF ff, r
<1>9. /\ k \in BlockRecords /\ k.freesublist = fl /\ k.unusedsublist = blk.unusedsublist
      /\ k.nextunused = blk.nextunused
  BY <1>1, <1>4, <1>8 DEF BlockRecords
<1>10. ListsFit(c, b, k, u, ff)
  <2>1. /\ UsedUp(k) => ToSet(u) = ToSet(u) \ {b}
        /\ ~UsedUp(k) => ToSet(u) = ToSet(u) \cup {b}
    <3>1. UsedUp(k) <=> UsedUp(c.blocks[b])
      BY <1>9 DEF UsedUp, blk
    <3> QED BY <1>1, <3>1
  <2>2. ASSUME NEW z \in PageSizes
        PROVE  /\ IsInjective(ff[z])
               /\ k.freesublist[z] = <<>> => ToSet(ff[z]) = ToSet(f[z]) \ {b}
               /\ k.freesublist[z] # <<>> => ToSet(ff[z]) = ToSet(f[z]) \cup {b}
    <3>1. CASE z = size
      BY <1>6, <1>7, <1>8, <1>9, <3>1
    <3>2. CASE z # size
      <4>1. ff[z] = f[z] /\ k.freesublist[z] = c.blocks[b].freesublist[z]
        BY <1>7, <1>8, <1>9, <3>2 DEF blk
      <4>2. IsInjective(f[z]) /\ (b \in ToSet(f[z]) <=> c.blocks[b].freesublist[z] # <<>>)
        BY <1>1
      <4> QED BY <4>1, <4>2
    <3> QED BY <3>1, <3>2
  <2> QED BY <1>1, <1>7, <2>1, <2>2 DEF ListsFit, u, f
<1>11. Placed(c, r, b, k)
  BY <1>1, <1>5, <1>9, <1>10, PutBlock
<1> QED BY <1>9, <1>11 DEF r

\* A sub-block enters the list of its page size.
LEMMA EnterFreeListIs ==
    ASSUME NEW c, ListsOK(c), NEW b \in Mapped(c), NEW size \in PageSizes, NEW s \in Subblocks,
           NEW fl, fl = [c.blocks[b].freesublist EXCEPT ![size] = <<s>> \o c.blocks[b].freesublist[size]],
           NEW k, k = [c.blocks[b] EXCEPT !.freesublist = fl]
    PROVE  k \in BlockRecords /\ Placed(c, EnterFreeList(c, b, s, size), b, k)
<1> DEFINE blk == c.blocks[b]
           old == blk.freesublist[size]
           new == <<s>> \o old
           u == c.unusedblocklist
           f == c.freeblocklist
           fs == IF old = <<>> THEN <<b>> \o f[size] ELSE f[size]
           ff == [f EXCEPT ![size] = fs]
           r == EnterFreeList(c, b, s, size)
<1>1. /\ c \in Caches /\ c.blocks \in [Blocks -> BlockRecords \cup {NoBlock}] /\ b \in Blocks
      /\ blk \in BlockRecords /\ u \in Seq(Blocks) /\ IsInjective(u)
      /\ ToSet(u) = {a \in Mapped(c) : ~UsedUp(c.blocks[a])}
      /\ f \in [PageSizes -> Seq(Blocks)]
      /\ \A z \in PageSizes :
            /\ IsInjective(f[z])
            /\ ToSet(f[z]) = {a \in Mapped(c) : c.blocks[a].freesublist[z] # <<>>}
  BY CacheType
<1>2. blk.freesublist \in [PageSizes -> Seq(Subblocks)] /\ old \in Seq(Subblocks)
  BY <1>1, BlockType
<1>3. new \in Seq(Subblocks) /\ new # <<>>
  BY <1>2, PushList
<1>4. fl = [blk.freesublist EXCEPT ![size] = new] /\ k = [blk EXCEPT !.freesublist = fl]
  OBVIOUS
<1>5. r = [c EXCEPT !.blocks = [c.blocks EXCEPT ![b] = k], !.unusedblocklist = u, !.freeblocklist = ff]
  BY <1>1, <1>2, <1>4 DEF EnterFreeList, Caches, BlockRecords
<1>6. fs \in Seq(Blocks) /\ IsInjective(fs) /\ ToSet(fs) = ToSet(f[size]) \cup {b}
  <2>1. /\ f[size] \in Seq(Blocks) /\ IsInjective(f[size])
        /\ b \in ToSet(f[size]) <=> old # <<>>
    BY <1>1
  <2>2. CASE old = <<>>
    <3>1. fs = <<b>> \o f[size]
      BY <2>2
    <3>2. /\ <<b>> \o f[size] \in Seq(Blocks) /\ IsInjective(<<b>> \o f[size])
          /\ ToSet(<<b>> \o f[size]) = ToSet(f[size]) \cup {b}
      BY <1>1, <2>1, <2>2, PushList
    <3> HIDE DEF fs, f, new, old
    <3> QED BY <3>1, <3>2
  <2>3. CASE old # <<>>
    <3>1. fs = f[size]
      BY <2>3
    <3> HIDE DEF fs, f, new, old
    <3> QED BY <2>1, <2>3, <3>1
  <2> QED BY <2>2, <2>3
<1> HIDE DEF blk, old, new, u, f, fs
<1>7. ff \in [PageSizes -> Seq(Blocks)] /\ ff[size] = fs /\ \A z \in PageSizes \ {size} : ff[z] = f[z]
  BY <1>1, <1>6
<1>8. /\ fl \in [PageSizes -> Seq(Subblocks)] /\ fl[size] = new
      /\ \A z \in PageSizes \ {size} : fl[z] = blk.freesublist[z]
  BY <1>2, <1>3, <1>4
<1> HIDE DEF ff, r
<1>9. /\ k \in BlockRecords /\ k.freesublist = fl /\ k.unusedsublist = blk.unusedsublist
      /\ k.nextunused = blk.nextunused
  BY <1>1, <1>4, <1>8 DEF BlockRecords
<1>10. ListsFit(c, b, k, u, ff)
  <2>1. /\ UsedUp(k) => ToSet(u) = ToSet(u) \ {b}
        /\ ~UsedUp(k) => ToSet(u) = ToSet(u) \cup {b}
    <3>1. UsedUp(k) <=> UsedUp(c.blocks[b])
      BY <1>9 DEF UsedUp, blk
    <3> QED BY <1>1, <3>1
  <2>2. ASSUME NEW z \in PageSizes
        PROVE  /\ IsInjective(ff[z])
               /\ k.freesublist[z] = <<>> => ToSet(ff[z]) = ToSet(f[z]) \ {b}
               /\ k.freesublist[z] # <<>> => ToSet(ff[z]) = ToSet(f[z]) \cup {b}
    <3>1. CASE z = size
      BY <1>3, <1>6, <1>7, <1>8, <1>9, <3>1
    <3>2. CASE z # size
      <4>1. ff[z] = f[z] /\ k.freesublist[z] = c.blocks[b].freesublist[z]
        BY <1>7, <1>8, <1>9, <3>2 DEF blk
      <4>2. IsInjective(f[z]) /\ (b \in ToSet(f[z]) <=> c.blocks[b].freesublist[z] # <<>>)
        BY <1>1
      <4> QED BY <4>1, <4>2
    <3> QED BY <3>1, <3>2
  <2> QED BY <1>1, <1>7, <2>1, <2>2 DEF ListsFit, u, f
<1>11. Placed(c, r, b, k)
  BY <1>1, <1>5, <1>9, <1>10, PutBlock
<1> QED BY <1>9, <1>11 DEF r

\* Only the list of unused sub-blocks changes.
LEMMA UnusedChanged ==
    ASSUME NEW c, ListsOK(c), NEW b \in Mapped(c), NEW k \in BlockRecords,
           k.freesublist = c.blocks[b].freesublist,
           NEW u \in Seq(Blocks), IsInjective(u),
           UsedUp(k) => ToSet(u) = ToSet(c.unusedblocklist) \ {b},
           ~UsedUp(k) => ToSet(u) = ToSet(c.unusedblocklist) \cup {b},
           NEW r, r = [c EXCEPT !.blocks = [c.blocks EXCEPT ![b] = k], !.unusedblocklist = u]
    PROVE  Placed(c, r, b, k)
<1> DEFINE f == c.freeblocklist
<1>1. /\ c \in Caches /\ b \in Blocks /\ f \in [PageSizes -> Seq(Blocks)]
      /\ \A size \in PageSizes :
            /\ IsInjective(f[size])
            /\ ToSet(f[size]) = {a \in Mapped(c) : c.blocks[a].freesublist[size] # <<>>}
  BY CacheType
<1> HIDE DEF f
<1>2. ListsFit(c, b, k, u, f)
  <2>1. ASSUME NEW size \in PageSizes
        PROVE  /\ k.freesublist[size] = <<>> => ToSet(f[size]) = ToSet(f[size]) \ {b}
               /\ k.freesublist[size] # <<>> => ToSet(f[size]) = ToSet(f[size]) \cup {b}
    BY <1>1
  <2> QED BY <1>1, <2>1 DEF ListsFit, f
<1>3. r = [c EXCEPT !.blocks = [c.blocks EXCEPT ![b] = k], !.unusedblocklist = u, !.freeblocklist = f]
  BY <1>1 DEF Caches, f
<1> QED BY <1>1, <1>2, <1>3, PutBlock

\* A sub-block enters the list of the unused ones.
LEMMA EnterUnusedListIs ==
    ASSUME NEW c, ListsOK(c), NEW b \in Mapped(c), NEW s \in Subblocks,
           NEW list, list = <<s>> \o c.blocks[b].unusedsublist,
           NEW k, k = [c.blocks[b] EXCEPT !.unusedsublist = list]
    PROVE  k \in BlockRecords /\ Placed(c, EnterUnusedList(c, b, s), b, k)
<1> DEFINE blk == c.blocks[b]
           old == c.unusedblocklist
           u == IF b \in ToSet(old) THEN old ELSE <<b>> \o old
           r == EnterUnusedList(c, b, s)
<1>1. /\ c \in Caches /\ c.blocks \in [Blocks -> BlockRecords \cup {NoBlock}] /\ b \in Blocks
      /\ blk \in BlockRecords /\ old \in Seq(Blocks) /\ IsInjective(old)
  BY CacheType
<1>2. list \in Seq(Subblocks) /\ list # <<>>
  <2>1. blk.unusedsublist \in Seq(Subblocks)
    BY <1>1, BlockType
  <2> QED BY <2>1, PushList
<1>3. k = [blk EXCEPT !.unusedsublist = list]
  OBVIOUS
<1>4. r = [c EXCEPT !.blocks = [c.blocks EXCEPT ![b] = k], !.unusedblocklist = u]
  BY <1>1, <1>3 DEF EnterUnusedList, Caches, BlockRecords
<1>5. u \in Seq(Blocks) /\ IsInjective(u) /\ ToSet(u) = ToSet(old) \cup {b}
  <2>1. CASE b \in ToSet(old)
    BY <1>1, <2>1
  <2>2. CASE b \notin ToSet(old)
    <3>1. u = <<b>> \o old
      BY <2>2
    <3>2. old \in Seq(Blocks) /\ IsInjective(old) /\ b \notin ToSet(old) /\ b \in Blocks
      BY <1>1, <2>2
    <3> HIDE DEF u, old
    <3>3. <<b>> \o old \in Seq(Blocks)
      BY <3>2, PushList
    <3>4. IsInjective(<<b>> \o old)
      BY <3>2, PushList
    <3>5. ToSet(<<b>> \o old) = ToSet(old) \cup {b}
      <4>1. old \in Seq(Blocks) /\ b \in Blocks
        BY <3>2
      <4> QED BY ONLY <4>1, PushList
    <3> QED BY <3>1, <3>3, <3>4, <3>5
  <2> QED BY <2>1, <2>2
<1> HIDE DEF blk, old, u, r
<1>6. k \in BlockRecords /\ k.freesublist = blk.freesublist /\ k.unusedsublist = list
  BY <1>1, <1>2, <1>3 DEF BlockRecords
<1>7. ~UsedUp(k)
  BY <1>2, <1>6 DEF UsedUp
<1>8. Placed(c, r, b, k)
  BY <1>4, <1>5, <1>6, <1>7, UnusedChanged DEF blk, old
<1> QED BY <1>6, <1>8 DEF r

\* j is what allocunused_block makes of a block before the sub-block is listed as a free one.
Taken(blk, j, s, size) ==
    /\ j \in BlockRecords
    /\ j.sub = [blk.sub EXCEPT ![s] = InitFree(size, 0)]
    /\ j.freesublist = blk.freesublist
    /\ blk.unusedsublist = <<>> => j.unusedsublist = <<>> /\ j.nextunused = blk.nextunused + 1
    /\ blk.unusedsublist # <<>> => /\ j.unusedsublist = Tail(blk.unusedsublist)
                                   /\ j.nextunused = blk.nextunused
    /\ j.nrused = blk.nrused

\* A sub-block without use gets its page size.
LEMMA TakeUnusedIs ==
    ASSUME NEW c, ListsOK(c), NEW b \in Mapped(c), ~UsedUp(c.blocks[b]), NEW size \in PageSizes,
           NEW s \in Subblocks, InitFree(size, 0) \in SubHeaders
    PROVE  \E k : Taken(c.blocks[b], k, s, size) /\ Placed(c, TakeUnused(c, b, s, size), b, k)
<1> DEFINE blk == c.blocks[b]
           left == LeaveUnused(blk)
           old == c.unusedblocklist
           u == IF UsedUp(left) THEN Without(old, b) ELSE old
           x == InitFree(size, 0)
           sub == [blk.sub EXCEPT ![s] = x]
           k == [left EXCEPT !.sub = sub]
           r == TakeUnused(c, b, s, size)
<1>1. /\ c \in Caches /\ c.blocks \in [Blocks -> BlockRecords \cup {NoBlock}] /\ b \in Blocks
      /\ blk \in BlockRecords /\ old \in Seq(Blocks) /\ IsInjective(old)
      /\ ToSet(old) = {a \in Mapped(c) : ~UsedUp(c.blocks[a])}
  BY CacheType
<1>2. /\ blk.unusedsublist \in Seq(Subblocks) /\ blk.nextunused \in 1 .. NrSubblocks
      /\ NrSubblocks \in Nat /\ blk.sub \in [Subblocks -> SubHeaders]
      /\ blk.freesublist \in [PageSizes -> Seq(Subblocks)] /\ blk.nrused \in Nat
  BY <1>1, BlockType
<1>3. k = [left EXCEPT !.sub = sub]
  OBVIOUS
<1>4. sub \in [Subblocks -> SubHeaders]
  BY <1>2
<1>5. /\ left \in BlockRecords
      /\ left.sub = blk.sub /\ left.freesublist = blk.freesublist /\ left.nrused = blk.nrused
      /\ blk.unusedsublist = <<>> => left.unusedsublist = <<>> /\ left.nextunused = blk.nextunused + 1
      /\ blk.unusedsublist # <<>> => /\ left.unusedsublist = Tail(blk.unusedsublist)
                                     /\ left.nextunused = blk.nextunused
  <2>1. CASE blk.unusedsublist = <<>>
    <3> DEFINE nx == blk.nextunused + 1
    <3>1. nx \in 1 .. NrSubblocks
      BY <1>2, <2>1 DEF UsedUp
    <3>2. left = [blk EXCEPT !.nextunused = nx]
      BY <2>1 DEF LeaveUnused
    <3> HIDE DEF left, nx, blk
    <3>3. left \in BlockRecords /\ left.nextunused = nx
      BY <1>1, <3>1, <3>2 DEF BlockRecords
    <3>4. /\ left.sub = blk.sub /\ left.freesublist = blk.freesublist /\ left.nrused = blk.nrused
          /\ left.unusedsublist = blk.unusedsublist
      BY <1>1, <3>2 DEF BlockRecords
    <3> QED BY <2>1, <3>3, <3>4 DEF nx
  <2>2. CASE blk.unusedsublist # <<>>
    <3> DEFINE tail == Tail(blk.unusedsublist)
    <3>1. tail \in Seq(Subblocks)
      BY <1>2, <2>2
    <3>2. left = [blk EXCEPT !.unusedsublist = tail]
      BY <2>2 DEF LeaveUnused
    <3> HIDE DEF left, tail, blk
    <3>3. left \in BlockRecords /\ left.unusedsublist = tail
      BY <1>1, <3>1, <3>2 DEF BlockRecords
    <3>4. /\ left.sub = blk.sub /\ left.freesublist = blk.freesublist /\ left.nrused = blk.nrused
          /\ left.nextunused = blk.nextunused
      BY <1>1, <3>2 DEF BlockRecords
    <3> QED BY <2>2, <3>3, <3>4 DEF tail
  <2> QED BY <2>1, <2>2
<1>6. r = [c EXCEPT !.blocks = [c.blocks EXCEPT ![b] = k], !.unusedblocklist = u]
  <2>1. r = [c EXCEPT !.blocks = [c.blocks EXCEPT ![b] = [left EXCEPT !.sub[s] = x]],
                      !.unusedblocklist = u]
    BY <1>1 DEF TakeUnused, Caches
  <2>2. [left EXCEPT !.sub[s] = x] = k
    BY <1>3, <1>5 DEF BlockRecords
  <2> QED BY <2>1, <2>2
<1> HIDE DEF blk, left, old, u, x, sub, k, r
<1>7. /\ k \in BlockRecords /\ k.sub = sub /\ k.freesublist = left.freesublist
      /\ k.unusedsublist = left.unusedsublist /\ k.nextunused = left.nextunused
      /\ k.nrused = left.nrused
  BY <1>3, <1>4, <1>5 DEF BlockRecords
<1>8. UsedUp(k) <=> UsedUp(left)
  BY <1>7 DEF UsedUp
<1>9. /\ u \in Seq(Blocks) /\ IsInjective(u)
      /\ UsedUp(k) => ToSet(u) = ToSet(old) \ {b}
      /\ ~UsedUp(k) => ToSet(u) = ToSet(old) \cup {b}
  <2>1. CASE UsedUp(left)
    <3>1. /\ Without(old, b) \in Seq(Blocks) /\ IsInjective(Without(old, b))
          /\ ToSet(Without(old, b)) = ToSet(old) \ {b}
      BY <1>1, WithoutList
    <3> QED BY <1>8, <2>1, <3>1 DEF u
  <2>2. CASE ~UsedUp(left)
    <3>1. b \in ToSet(old)
      BY <1>1
    <3> QED BY <1>1, <1>8, <2>2, <3>1 DEF u
  <2> QED BY <2>1, <2>2
<1>10. k.freesublist = c.blocks[b].freesublist
  BY <1>5, <1>7 DEF blk
<1>11. Placed(c, r, b, k)
  BY <1>6, <1>7, <1>9, <1>10, UnusedChanged DEF old
<1>12. Taken(blk, k, s, size)
  BY <1>5, <1>7 DEF Taken, sub, x
<1> QED BY <1>11, <1>12 DEF r, blk

\* new_block
LEMMA NewBlockIs ==
    ASSUME NEW c, ListsOK(c), NEW b \in Blocks, b \notin Mapped(c), FreshBlock \in BlockRecords,
           ~UsedUp(FreshBlock)
    PROVE  Placed(c, NewBlock(c, b), b, FreshBlock)
<1> DEFINE k == FreshBlock
           u == <<b>> \o c.unusedblocklist
           f == c.freeblocklist
           fs == <<b>> \o f[SmallSize]
           ff == [f EXCEPT ![SmallSize] = fs]
           r == NewBlock(c, b)
<1>1. /\ c \in Caches
      /\ c.unusedblocklist \in Seq(Blocks) /\ IsInjective(c.unusedblocklist)
      /\ ToSet(c.unusedblocklist) = {a \in Mapped(c) : ~UsedUp(c.blocks[a])}
      /\ f \in [PageSizes -> Seq(Blocks)]
      /\ \A z \in PageSizes :
            /\ IsInjective(f[z])
            /\ ToSet(f[z]) = {a \in Mapped(c) : c.blocks[a].freesublist[z] # <<>>}
  BY CacheType
<1>2. SmallSize \in PageSizes
  BY SmallPages
<1>3. /\ b \notin ToSet(c.unusedblocklist)
      /\ \A z \in PageSizes : f[z] \in Seq(Blocks) /\ b \notin ToSet(f[z])
  BY <1>1
<1>4. r = [c EXCEPT !.blocks = [c.blocks EXCEPT ![b] = k], !.unusedblocklist = u, !.freeblocklist = ff]
  BY <1>1 DEF NewBlock, FreshBlock, Caches
<1>5. /\ \A z \in PageSizes : z # SmallSize => k.freesublist[z] = <<>>
      /\ k.freesublist[SmallSize] # <<>>
  BY <1>2 DEF FreshBlock
<1>6. u \in Seq(Blocks) /\ IsInjective(u) /\ ToSet(u) = ToSet(c.unusedblocklist) \cup {b}
  <2> DEFINE old == c.unusedblocklist
  <2>1. old \in Seq(Blocks) /\ IsInjective(old) /\ b \notin ToSet(old)
    BY <1>1, <1>3
  <2> HIDE DEF old
  <2>2. <<b>> \o old \in Seq(Blocks) /\ IsInjective(<<b>> \o old)
    BY ONLY b \in Blocks, <2>1, PushList
  <2>3. ToSet(<<b>> \o old) = ToSet(old) \cup {b}
    BY ONLY b \in Blocks, <2>1, PushList
  <2> QED BY <2>2, <2>3 DEF old
<1>7. fs \in Seq(Blocks) /\ IsInjective(fs) /\ ToSet(fs) = ToSet(f[SmallSize]) \cup {b}
  <2> DEFINE old == f[SmallSize]
  <2>1. old \in Seq(Blocks) /\ IsInjective(old) /\ b \notin ToSet(old)
    BY <1>1, <1>2, <1>3
  <2> HIDE DEF old
  <2>2. <<b>> \o old \in Seq(Blocks) /\ IsInjective(<<b>> \o old)
    BY ONLY b \in Blocks, <2>1, PushList
  <2>3. ToSet(<<b>> \o old) = ToSet(old) \cup {b}
    BY ONLY b \in Blocks, <2>1, PushList
  <2> QED BY <2>2, <2>3 DEF old
<1> HIDE DEF u, f, fs, r, k
<1>8. /\ ff \in [PageSizes -> Seq(Blocks)] /\ ff[SmallSize] = fs
      /\ \A z \in PageSizes : z # SmallSize => ff[z] = f[z]
  BY <1>1, <1>2, <1>7
<1> HIDE DEF ff
<1>9. ASSUME NEW z \in PageSizes
      PROVE  /\ IsInjective(ff[z])
             /\ k.freesublist[z] = <<>> => ToSet(ff[z]) = ToSet(f[z]) \ {b}
             /\ k.freesublist[z] # <<>> => ToSet(ff[z]) = ToSet(f[z]) \cup {b}
  <2>1. CASE z = SmallSize
    BY <1>5, <1>7, <1>8, <2>1
  <2>2. CASE z # SmallSize
    <3>1. ff[z] = f[z] /\ k.freesublist[z] = <<>> /\ IsInjective(f[z]) /\ b \notin ToSet(f[z])
      BY <1>1, <1>3, <1>5, <1>8, <2>2
    <3> QED BY <3>1
  <2> QED BY <2>1, <2>2
<1>10. ListsFit(c, b, k, u, ff)
  BY <1>6, <1>8, <1>9 DEF ListsFit, f, k
<1>11. Placed(c, r, b, k)
  BY <1>4, <1>10, PutBlock DEF k
<1> QED BY <1>11 DEF r, k

\* delete_block: blocks are unmapped and leave the lists they are in.
LEMMA DeleteBlocksIs ==
    ASSUME NEW c, ListsOK(c), NEW T \in SUBSET Blocks
    PROVE  LET r == DeleteBlocks(c, T)
           IN /\ ListsOK(r) /\ Mapped(r) = Mapped(c) \ T
              /\ \A a \in Blocks \ T : r.blocks[a] = c.blocks[a]
              /\ r.sizeallocated = c.sizeallocated
<1> DEFINE Rest(list) == Kept(list, Blocks \ T)
           bs == [a \in Blocks |-> IF a \in T THEN NoBlock ELSE c.blocks[a]]
           u == Rest(c.unusedblocklist)
           f == [size \in PageSizes |-> Rest(c.freeblocklist[size])]
           r == DeleteBlocks(c, T)
<1>1. /\ c \in Caches /\ c.blocks \in [Blocks -> BlockRecords \cup {NoBlock}]
      /\ c.unusedblocklist \in Seq(Blocks) /\ IsInjective(c.unusedblocklist)
      /\ ToSet(c.unusedblocklist) = {a \in Mapped(c) : ~UsedUp(c.blocks[a])}
      /\ c.freeblocklist \in [PageSizes -> Seq(Blocks)]
      /\ \A z \in PageSizes :
            /\ IsInjective(c.freeblocklist[z])
            /\ ToSet(c.freeblocklist[z]) = {a \in Mapped(c) : c.blocks[a].freesublist[z] # <<>>}
  BY CacheType
<1>2. r = [c EXCEPT !.blocks = bs, !.unusedblocklist = u, !.freeblocklist = f]
  BY <1>1 DEF DeleteBlocks, Caches
<1>3. /\ bs \in [Blocks -> BlockRecords \cup {NoBlock}]
      /\ \A a \in T : bs[a] = NoBlock
      /\ \A a \in Blocks \ T : bs[a] = c.blocks[a]
  BY <1>1
<1>4. /\ u \in Seq(Blocks) /\ IsInjective(u) /\ ToSet(u) = ToSet(c.unusedblocklist) \cap (Blocks \ T)
  BY <1>1, KeptList
<1>5. ASSUME NEW z \in PageSizes
      PROVE  /\ f[z] \in Seq(Blocks) /\ IsInjective(f[z])
             /\ ToSet(f[z]) = ToSet(c.freeblocklist[z]) \cap (Blocks \ T)
  <2>1. f[z] = Rest(c.freeblocklist[z])
    OBVIOUS
  <2>2. c.freeblocklist[z] \in Seq(Blocks) /\ IsInjective(c.freeblocklist[z])
    BY <1>1
  <2> HIDE DEF f
  <2> QED BY <2>1, <2>2, KeptList
<1>6. f \in [PageSizes -> Seq(Blocks)]
  <2>1. f = [z \in PageSizes |-> f[z]]
    OBVIOUS
  <2> HIDE DEF f
  <2> QED BY <1>5, <2>1
<1> HIDE DEF bs, u, f, r
<1>7. /\ r \in Caches /\ r.blocks = bs /\ r.unusedblocklist = u /\ r.freeblocklist = f
      /\ r.sizeallocated = c.sizeallocated
  BY <1>1, <1>2, <1>3, <1>4, <1>6 DEF Caches
<1>8. Mapped(r) = Mapped(c) \ T
  BY <1>3, <1>7 DEF Mapped
<1>9. \A a \in Mapped(r) : a \in Mapped(c) \ T /\ bs[a] = c.blocks[a]
  BY <1>3, <1>8 DEF Mapped
<1>10. ToSet(u) = {a \in Mapped(r) : ~UsedUp(bs[a])}
  BY <1>1, <1>4, <1>8, <1>9 DEF Mapped
<1>11. ASSUME NEW z \in PageSizes
       PROVE  ToSet(f[z]) = {a \in Mapped(r) : bs[a].freesublist[z] # <<>>}
  <2> DEFINE F == ToSet(c.freeblocklist[z])
             G == ToSet(f[z])
  <2>1. F = {a \in Mapped(c) : c.blocks[a].freesublist[z] # <<>>} /\ G = F \cap (Blocks \ T)
    BY <1>1, <1>5
  <2>2. Mapped(c) \subseteq Blocks
    BY DEF Mapped
  <2> HIDE DEF F, G
  <2>3. G = {a \in Mapped(r) : bs[a].freesublist[z] # <<>>}
    BY <1>8, <1>9, <2>1, <2>2
  <2> QED BY <2>3 DEF G
<1>12. CacheLists(r)
  BY <1>4, <1>5, <1>7, <1>10, <1>11 DEF CacheLists
<1> QED BY <1>3, <1>7, <1>8, <1>12 DEF ListsOK, r

\* Two changes of a block, one after the other.
LEMMA PlacedTwice ==
    ASSUME NEW c, NEW q, NEW r, NEW b \in Blocks, NEW j, NEW k,
           Placed(c, q, b, j), Placed(q, r, b, k)
    PROVE  Placed(c, r, b, k)
BY DEF Placed

\* allocpage_block
LEMMA AllocBlockIs ==
    ASSUME NEW c, ListsOK(c), NEW b \in Mapped(c), NEW s \in Subblocks, NEW size \in PageSizes,
           IsInjective(c.blocks[b].freesublist[size]), s \in ToSet(c.blocks[b].freesublist[size]),
           AllocPage(c.blocks[b].sub[s]) \in SubHeaders
    PROVE  \E k : /\ AllocResult(c.blocks[b], k, s, size)
                  /\ Placed(c, AllocBlock(c, b, s, size), b, k)
<1> DEFINE blk == c.blocks[b]
           x == AllocPage(blk.sub[s])
           sub == [blk.sub EXCEPT ![s] = x]
           nr == blk.nrused + 1
           j == [blk EXCEPT !.sub = sub, !.nrused = nr]
           q == [c EXCEPT !.blocks = [c.blocks EXCEPT ![b] = j]]
           fl == [blk.freesublist EXCEPT ![size] = Without(blk.freesublist[size], s)]
           k == [j EXCEPT !.freesublist = fl]
           r == AllocBlock(c, b, s, size)
<1>1. /\ c \in Caches /\ c.blocks \in [Blocks -> BlockRecords \cup {NoBlock}] /\ b \in Blocks
      /\ blk \in BlockRecords
  BY CacheType
<1>2. /\ blk.sub \in [Subblocks -> SubHeaders] /\ blk.nrused \in Nat
      /\ blk.freesublist \in [PageSizes -> Seq(Subblocks)]
  BY <1>1, BlockType
<1>3. sub \in [Subblocks -> SubHeaders] /\ nr \in Nat /\ sub[s] = x
  BY <1>2
<1>4. r = AfterAlloc(q, b, s, size)
  <2>1. q = [c EXCEPT !.blocks[b].sub[s] = AllocPage(@), !.blocks[b].nrused = @ + 1]
    BY <1>1, <1>2 DEF Caches, BlockRecords
  <2> QED BY <2>1 DEF AllocBlock
<1>5. j = [blk EXCEPT !.sub = sub, !.nrused = nr] /\ q = [c EXCEPT !.blocks = [c.blocks EXCEPT ![b] = j]]
  OBVIOUS
<1> HIDE DEF blk, x, sub, nr, j, q
<1>6. /\ j \in BlockRecords /\ j.sub = sub /\ j.nrused = nr /\ j.freesublist = blk.freesublist
      /\ j.unusedsublist = blk.unusedsublist /\ j.nextunused = blk.nextunused
  BY <1>1, <1>3, <1>5 DEF BlockRecords
<1>7. Placed(c, q, b, j)
  BY <1>5, <1>6, SubChanged DEF blk
<1>8. q.blocks[b] = j /\ ListsOK(q) /\ b \in Mapped(q)
  BY <1>7 DEF Placed
<1>9. CASE x.header # 0
  <2>1. r = q
    BY <1>3, <1>4, <1>6, <1>8, <1>9 DEF AfterAlloc
  <2>2. AllocResult(blk, j, s, size)
    BY <1>6, <1>9 DEF AllocResult, x, sub, nr
  <2> HIDE DEF r
  <2> QED BY <1>7, <2>1, <2>2 DEF blk, r
<1>10. CASE x.header = 0
  <2>1. r = LeaveFreeList(q, b, s, size)
    BY <1>3, <1>4, <1>6, <1>8, <1>10 DEF AfterAlloc
  <2>2. /\ IsInjective(q.blocks[b].freesublist[size]) /\ s \in ToSet(q.blocks[b].freesublist[size])
        /\ fl = [q.blocks[b].freesublist EXCEPT ![size] = Without(q.blocks[b].freesublist[size], s)]
        /\ k = [q.blocks[b] EXCEPT !.freesublist = fl]
    BY <1>6, <1>8 DEF blk
  <2> HIDE DEF r, fl, k
  <2>3. k \in BlockRecords /\ Placed(q, r, b, k)
    BY <1>8, <2>1, <2>2, LeaveFreeListIs
  <2>4. k = [j EXCEPT !.freesublist = fl]
    BY DEF k
  <2>5. /\ k.sub = sub /\ k.nrused = nr /\ k.freesublist = fl
        /\ k.unusedsublist = blk.unusedsublist /\ k.nextunused = blk.nextunused
    BY <1>6, <2>4 DEF BlockRecords
  <2>6. AllocResult(blk, k, s, size)
    BY <1>10, <2>3, <2>5 DEF AllocResult, x, sub, nr, fl
  <2>7. Placed(c, r, b, k)
    BY <1>1, <1>7, <2>3, PlacedTwice
  <2> QED BY <2>6, <2>7 DEF blk, r
<1> QED BY <1>9, <1>10

\* releasepage_block for a sub-block with a header.
LEMMA ReleaseUsedIs ==
    ASSUME NEW c, ListsOK(c), NEW b \in Mapped(c), NEW s \in Subblocks, NEW size \in PageSizes,
           NEW i \in Nat,
           IsInjective(c.blocks[b].freesublist[size]), s \in ToSet(c.blocks[b].freesublist[size]),
           c.blocks[b].sub[s].header # 0,
           FreePage(c.blocks[b].sub[s], i) \in SubHeaders \/ c.blocks[b].sub[s].nrused = 1,
           InitUnused \in SubHeaders
    PROVE  \E k : /\ ReleaseResult(c.blocks[b], k, s, i, size) /\ k.nrused = c.blocks[b].nrused
                  /\ Placed(c, ReleaseUsed(c, b, s, i, size), b, k)
<1> DEFINE blk == c.blocks[b]
           last == blk.sub[s].nrused = 1
           x == IF last THEN InitUnused ELSE FreePage(blk.sub[s], i)
           sub == [blk.sub EXCEPT ![s] = x]
           j == [blk EXCEPT !.sub = sub]
           q == [c EXCEPT !.blocks = [c.blocks EXCEPT ![b] = j]]
           r == ReleaseUsed(c, b, s, i, size)
<1>1. /\ c \in Caches /\ c.blocks \in [Blocks -> BlockRecords \cup {NoBlock}] /\ b \in Blocks
      /\ blk \in BlockRecords
  BY CacheType
<1>2. /\ blk.sub \in [Subblocks -> SubHeaders]
      /\ blk.freesublist \in [PageSizes -> Seq(Subblocks)]
      /\ blk.unusedsublist \in Seq(Subblocks)
  BY <1>1, BlockType
<1>3. x \in SubHeaders
  OBVIOUS
<1>4. j = [blk EXCEPT !.sub = sub] /\ q = [c EXCEPT !.blocks = [c.blocks EXCEPT ![b] = j]]
  OBVIOUS
<1>5. q = [c EXCEPT !.blocks[b].sub[s] = x]
  BY <1>1, <1>2 DEF Caches, BlockRecords
<1> HIDE DEF x
<1>6. sub \in [Subblocks -> SubHeaders]
  BY <1>2, <1>3
<1>7. /\ last => r = EnterUnusedList(LeaveFreeList(q, b, s, size), b, s)
      /\ ~last => r = q
  <2>1. CASE last
    <3>1. x = InitUnused
      BY <2>1 DEF x
    <3>2. q = [c EXCEPT !.blocks[b].sub[s] = InitUnused]
      BY <1>5, <3>1
    <3> HIDE DEF q
    <3> QED BY <2>1, <3>2 DEF ReleaseUsed
  <2>2. CASE ~last
    <3>1. x = FreePage(blk.sub[s], i)
      BY <2>2 DEF x
    <3>2. q = [c EXCEPT !.blocks[b].sub[s] = FreePage(@, i)]
      BY <1>5, <3>1
    <3> HIDE DEF q
    <3> QED BY <2>2, <3>2 DEF ReleaseUsed
  <2> QED BY <2>1, <2>2
<1> HIDE DEF blk, last, sub, j, q, r
<1>8. /\ j \in BlockRecords /\ j.sub = sub /\ j.nrused = blk.nrused
      /\ j.freesublist = blk.freesublist /\ j.unusedsublist = blk.unusedsublist
      /\ j.nextunused = blk.nextunused
  BY <1>1, <1>4, <1>6 DEF BlockRecords
<1>9. Placed(c, q, b, j)
  BY <1>4, <1>8, SubChanged DEF blk
<1>10. q.blocks[b] = j /\ ListsOK(q) /\ b \in Mapped(q)
  BY <1>9 DEF Placed
<1>11. CASE ~last
  <2>1. ReleaseResult(blk, j, s, i, size)
    BY <1>8, <1>11 DEF ReleaseResult, last, x, sub, blk
  <2>2. Placed(c, r, b, j)
    BY <1>7, <1>9, <1>11
  <2> QED BY <1>8, <2>1, <2>2 DEF blk, r
<1>12. CASE last
  <2> DEFINE fl == [blk.freesublist EXCEPT ![size] = Without(blk.freesublist[size], s)]
             l == [j EXCEPT !.freesublist = fl]
             p == LeaveFreeList(q, b, s, size)
             list == <<s>> \o blk.unusedsublist
             k == [l EXCEPT !.unusedsublist = list]
  <2>1. /\ IsInjective(q.blocks[b].freesublist[size]) /\ s \in ToSet(q.blocks[b].freesublist[size])
        /\ fl = [q.blocks[b].freesublist EXCEPT ![size] = Without(q.blocks[b].freesublist[size], s)]
        /\ l = [q.blocks[b] EXCEPT !.freesublist = fl]
    BY <1>8, <1>10 DEF blk
  <2> HIDE DEF fl, l, p
  <2>2. l \in BlockRecords /\ Placed(q, p, b, l)
    BY <1>10, <2>1, LeaveFreeListIs DEF p
  <2>3. /\ l.sub = sub /\ l.nrused = blk.nrused /\ l.freesublist = fl
        /\ l.unusedsublist = blk.unusedsublist /\ l.nextunused = blk.nextunused
    <3>1. l = [j EXCEPT !.freesublist = fl]
      BY DEF l
    <3> QED BY <1>8, <3>1 DEF BlockRecords
  <2>4. ListsOK(p) /\ b \in Mapped(p) /\ p.blocks[b] = l
    BY <2>2 DEF Placed
  <2>5. r = EnterUnusedList(p, b, s)
    BY <1>7, <1>12 DEF p
  <2>6. list = <<s>> \o p.blocks[b].unusedsublist /\ k = [p.blocks[b] EXCEPT !.unusedsublist = list]
    BY <2>3, <2>4
  <2>7. k = [l EXCEPT !.unusedsublist = list]
    OBVIOUS
  <2> HIDE DEF k, list
  <2>8. k \in BlockRecords /\ Placed(p, r, b, k)
    BY <2>4, <2>5, <2>6, EnterUnusedListIs
  <2>9. /\ k.sub = sub /\ k.nrused = blk.nrused /\ k.freesublist = fl
        /\ k.unusedsublist = list /\ k.nextunused = blk.nextunused
    BY <2>2, <2>3, <2>7 DEF BlockRecords
  <2>10. ReleaseResult(blk, k, s, i, size)
    BY <1>12, <2>8, <2>9 DEF ReleaseResult, last, x, sub, blk, fl, list
  <2>11. Placed(c, p, b, l)
    BY <1>1, <1>9, <2>2, PlacedTwice
  <2>12. Placed(c, r, b, k)
    BY <1>1, <2>8, <2>11, PlacedTwice
  <2> QED BY <2>9, <2>10, <2>12 DEF blk, r
<1> QED BY <1>11, <1>12

\* releasepage_block for a sub-block without a header.
LEMMA ReleaseFullIs ==
    ASSUME NEW c, ListsOK(c), NEW b \in Mapped(c), NEW s \in Subblocks, NEW size \in PageSizes,
           NEW i \in Nat, c.blocks[b].sub[s].header = 0,
           InitUsed(size, i) \in SubHeaders, InitUnused \in SubHeaders
    PROVE  \E k : /\ ReleaseResult(c.blocks[b], k, s, i, size) /\ k.nrused = c.blocks[b].nrused
                  /\ Placed(c, ReleaseFull(c, b, s, i, size), b, k)
<1> DEFINE blk == c.blocks[b]
           last == NrPages(size) = 1
           x == IF last THEN InitUnused ELSE InitUsed(size, i)
           sub == [blk.sub EXCEPT ![s] = x]
           j == [blk EXCEPT !.sub = sub]
           q == [c EXCEPT !.blocks = [c.blocks EXCEPT ![b] = j]]
           r == ReleaseFull(c, b, s, i, size)
<1>1. /\ c \in Caches /\ c.blocks \in [Blocks -> BlockRecords \cup {NoBlock}] /\ b \in Blocks
      /\ blk \in BlockRecords
  BY CacheType
<1>2. /\ blk.sub \in [Subblocks -> SubHeaders]
      /\ blk.freesublist \in [PageSizes -> Seq(Subblocks)]
      /\ blk.unusedsublist \in Seq(Subblocks)
  BY <1>1, BlockType
<1>3. x \in SubHeaders
  OBVIOUS
<1>4. j = [blk EXCEPT !.sub = sub] /\ q = [c EXCEPT !.blocks = [c.blocks EXCEPT ![b] = j]]
  OBVIOUS
<1>5. q = [c EXCEPT !.blocks[b].sub[s] = x]
  BY <1>1, <1>2 DEF Caches, BlockRecords
<1> HIDE DEF x
<1>6. sub \in [Subblocks -> SubHeaders]
  BY <1>2, <1>3
<1>. InitUsed(size, i).nrused > 0 <=> ~last
  <2>1. NrPages(size) \in Nat \ {0}
    BY Sizes
  <2>2. InitUsed(size, i).nrused = NrPages(size) - 1
    BY DEF InitUsed
  <2> QED BY <2>1, <2>2
<1>7. /\ ~last => r = EnterFreeList(q, b, s, size)
      /\ last => r = EnterUnusedList(q, b, s)
  <2>1. CASE last
    <3>1. x = InitUnused
      BY <2>1 DEF x
    <3>2. q = [c EXCEPT !.blocks[b].sub[s] = InitUnused]
      BY <1>5, <3>1
    <3> HIDE DEF q
    <3> QED BY <2>1, <3>2 DEF ReleaseFull
  <2>2. CASE ~last
    <3>1. x = InitUsed(size, i)
      BY <2>2 DEF x
    <3>2. q = [c EXCEPT !.blocks[b].sub[s] = InitUsed(size, i)]
      BY <1>5, <3>1
    <3> HIDE DEF q
    <3> QED BY <2>2, <3>2 DEF ReleaseFull
  <2> QED BY <2>1, <2>2
<1> HIDE DEF blk, last, sub, j, q, r
<1>8. /\ j \in BlockRecords /\ j.sub = sub /\ j.nrused = blk.nrused
      /\ j.freesublist = blk.freesublist /\ j.unusedsublist = blk.unusedsublist
      /\ j.nextunused = blk.nextunused
  BY <1>1, <1>4, <1>6 DEF BlockRecords
<1>9. Placed(c, q, b, j)
  BY <1>4, <1>8, SubChanged DEF blk
<1>10. q.blocks[b] = j /\ ListsOK(q) /\ b \in Mapped(q)
  BY <1>9 DEF Placed
<1>11. CASE ~last
  <2> DEFINE fl == [blk.freesublist EXCEPT ![size] = <<s>> \o blk.freesublist[size]]
             k == [j EXCEPT !.freesublist = fl]
  <2>1. /\ fl = [q.blocks[b].freesublist EXCEPT ![size] = <<s>> \o q.blocks[b].freesublist[size]]
        /\ k = [q.blocks[b] EXCEPT !.freesublist = fl]
    BY <1>8, <1>10
  <2>2. k = [j EXCEPT !.freesublist = fl]
    OBVIOUS
  <2> HIDE DEF fl, k
  <2>3. k \in BlockRecords /\ Placed(q, r, b, k)
    BY <1>7, <1>10, <1>11, <2>1, EnterFreeListIs
  <2>4. /\ k.sub = sub /\ k.nrused = blk.nrused /\ k.freesublist = fl
        /\ k.unusedsublist = blk.unusedsublist /\ k.nextunused = blk.nextunused
    BY <1>8, <2>2 DEF BlockRecords
  <2>5. ReleaseResult(blk, k, s, i, size)
    BY <1>11, <2>3, <2>4 DEF ReleaseResult, last, x, sub, blk, fl
  <2>6. Placed(c, r, b, k)
    BY <1>1, <1>9, <2>3, PlacedTwice
  <2> QED BY <2>4, <2>5, <2>6 DEF blk, r
<1>12. CASE last
  <2> DEFINE list == <<s>> \o blk.unusedsublist
             k == [j EXCEPT !.unusedsublist = list]
  <2>1. list = <<s>> \o q.blocks[b].unusedsublist /\ k = [q.blocks[b] EXCEPT !.unusedsublist = list]
    BY <1>8, <1>10
  <2>2. k = [j EXCEPT !.unusedsublist = list]
    OBVIOUS
  <2> HIDE DEF k, list
  <2>3. k \in BlockRecords /\ Placed(q, r, b, k)
    BY <1>7, <1>10, <1>12, <2>1, EnterUnusedListIs
  <2>4. /\ k.sub = sub /\ k.nrused = blk.nrused /\ k.freesublist = blk.freesublist
        /\ k.unusedsublist = list /\ k.nextunused = blk.nextunused
    BY <1>8, <2>2, <2>3 DEF BlockRecords
  <2>5. ReleaseResult(blk, k, s, i, size)
    BY <1>12, <2>3, <2>4 DEF ReleaseResult, last, x, sub, blk, list
  <2>6. Placed(c, r, b, k)
    BY <1>1, <1>9, <2>3, PlacedTwice
  <2> QED BY <2>4, <2>5, <2>6 DEF blk, r
<1> QED BY <1>11, <1>12

-----------------------------------------------------------------------------
(* The cache *)

\* The cache c describes the pages h which clients hold.
CacheOK(c, h) ==
    /\ ListsOK(c) /\ h \in SUBSET AllPages /\ IsFiniteSet(h) /\ IsFiniteSet(Occupied(h))
    /\ \A p \in h : p.block \in Mapped(c)
    /\ c.sizeallocated = Cardinality(Occupied(h))
    /\ \A b \in Mapped(c) : BlockOK(c.blocks[b], b, h)

\* Every sub-block with a page size but sub-block s of block b holds a page of a client.
UsingBut(c, h, b, s) ==
    \A a \in Mapped(c) : \A t \in Subblocks :
        ~(a = b /\ t = s) => InUse(c.blocks[a].sub[t], a, t, h)

\* Every sub-block with a page size holds a page of a client.
Using(c, h) == \A a \in Mapped(c) : \A t \in Subblocks : InUse(c.blocks[a].sub[t], a, t, h)

\* Every block but b holds a page of a client.
IdleBut(c, h, b) == \A a \in Mapped(c) \ {b} : \E p \in h : p.block = a

\* OneIdleBlock in terms of the pages instead of the counters.
OneIdle(c, h) ==
    IF h # {} THEN \A a \in Mapped(c) : \E p \in h : p.block = a
    ELSE \A a, b \in Mapped(c) : a = b

\* Sub-block s of block b has a free page, and a page more there is what is missing.
Prepared(c, h, b, s, size) ==
    /\ CacheOK(c, h) /\ b \in Mapped(c) /\ s \in Subblocks /\ size \in PageSizes
    /\ c.blocks[b].sub[s].pgsize = size /\ c.blocks[b].sub[s].header # 0
    /\ UsingBut(c, h, b, s) /\ IdleBut(c, h, b)

\* One block is changed, and with it the pages clients hold there.
LEMMA CachePlaced ==
    ASSUME NEW c, NEW h \in SUBSET AllPages, CacheOK(c, h), NEW b \in Blocks, NEW k, NEW q,
           Placed(c, q, b, k), NEW g \in SUBSET AllPages, BlockOK(k, b, g),
           \A p \in g : p.block = b \/ p \in h,
           \A a \in Blocks \ {b} : InBlock(g, a) = InBlock(h, a)
    PROVE  /\ \A p \in g : p.block \in Mapped(q)
           /\ \A a \in Mapped(q) : BlockOK(q.blocks[a], a, g)
<1>1. /\ q.blocks[b] = k /\ \A a \in Blocks \ {b} : q.blocks[a] = c.blocks[a]
      /\ Mapped(q) = Mapped(c) \cup {b} /\ Mapped(c) \subseteq Blocks
  BY DEF Placed, Mapped
<1>2. \A p \in g : p.block \in Mapped(q)
  BY <1>1 DEF CacheOK
<1>3. ASSUME NEW a \in Mapped(q) PROVE BlockOK(q.blocks[a], a, g)
  <2>1. CASE a = b
    BY <1>1, <2>1
  <2>2. CASE a # b
    <3>1. a \in Mapped(c) /\ a \in Blocks /\ q.blocks[a] = c.blocks[a]
      BY <1>1, <2>2
    <3>2. BlockOK(c.blocks[a], a, h) /\ InBlock(g, a) = InBlock(h, a)
      BY <2>2, <3>1 DEF CacheOK
    <3> QED BY <3>1, <3>2, OtherBlock
  <2> QED BY <2>1, <2>2
<1> QED BY <1>2, <1>3

\* A block of the cache, and a sub-block of it which is in use.
LEMMA BlockOf ==
    ASSUME NEW c, NEW h \in SUBSET AllPages, CacheOK(c, h), NEW b \in Mapped(c), NEW s \in Subblocks,
           c.blocks[b].sub[s].pgsize # NoSize
    PROVE  /\ b \in Blocks /\ c.blocks[b] \in BlockRecords /\ BlockOK(c.blocks[b], b, h)
           /\ SubOK(c.blocks[b].sub[s], s, HeldIn(h, b, s))
           /\ c.blocks[b].sub[s].pgsize \in PageSizes
           /\ \A size \in PageSizes : IsInjective(c.blocks[b].freesublist[size])
           /\ c.blocks[b].sub[s].header # 0
                 => s \in ToSet(c.blocks[b].freesublist[c.blocks[b].sub[s].pgsize])
           /\ \A q \in h : q.block = b /\ q.sub = s => q.size = c.blocks[b].sub[s].pgsize
<1>1. b \in Blocks /\ BlockOK(c.blocks[b], b, h)
  BY DEF CacheOK, Mapped
<1>2. c.blocks[b] \in BlockRecords /\ BlockLists(c.blocks[b])
  BY <1>1 DEF BlockOK
<1>3. SubOK(c.blocks[b].sub[s], s, HeldIn(h, b, s))
  BY <1>1 DEF BlockOK
<1>4. c.blocks[b].sub[s].pgsize \in PageSizes
  BY <1>3, SubMembers
<1>5. \A q \in h : q.block = b /\ q.sub = s => q.size = c.blocks[b].sub[s].pgsize
  BY <1>1 DEF BlockOK, InBlock
<1> QED BY <1>1, <1>2, <1>3, <1>4, <1>5 DEF BlockLists

\* allocpage_block, and what allocpage_pagecacheimpl counts afterwards.
LEMMA AllocOK ==
    ASSUME NEW c, NEW h \in SUBSET AllPages, NEW b \in Blocks, NEW s \in Subblocks, NEW size \in PageSizes,
           Prepared(c, h, b, s, size)
    PROVE  LET r == [AllocBlock(c, b, s, size) EXCEPT !.sizeallocated = @ + size]
               g == h \cup {Page(b, s, NextPage(c.blocks[b].sub[s]), size)}
           IN CacheOK(r, g) /\ Using(r, g) /\ OneIdle(r, g)
<1> DEFINE blk == c.blocks[b]
           i == NextPage(blk.sub[s])
           p == Page(b, s, i, size)
           g == h \cup {p}
           q == AllocBlock(c, b, s, size)
           n == c.sizeallocated + size
           r == [q EXCEPT !.sizeallocated = @ + size]
<1>1. /\ CacheOK(c, h) /\ b \in Mapped(c) /\ blk.sub[s].pgsize = size /\ blk.sub[s].header # 0
      /\ UsingBut(c, h, b, s) /\ IdleBut(c, h, b) /\ size # NoSize
  BY Sizes DEF Prepared
<1>2. /\ ListsOK(c) /\ IsFiniteSet(h) /\ IsFiniteSet(Occupied(h))
      /\ \A x \in h : x.block \in Mapped(c)
      /\ c.sizeallocated = Cardinality(Occupied(h))
  BY <1>1 DEF CacheOK
<1>3. blk.sub[s].pgsize # NoSize
  BY <1>1
<1>4. /\ blk \in BlockRecords /\ BlockOK(blk, b, h)
      /\ SubOK(blk.sub[s], s, HeldIn(h, b, s))
      /\ IsInjective(blk.freesublist[size]) /\ s \in ToSet(blk.freesublist[size])
      /\ \A x \in h : x.block = b /\ x.sub = s => x.size = size
  BY <1>1, <1>3, BlockOf
<1>5. SubOK(AllocPage(blk.sub[s]), s, HeldIn(h, b, s) \cup {i}) /\ i \in Nat
  BY <1>1, <1>3, <1>4, AllocPageOK
<1>6. AllocPage(blk.sub[s]) \in SubHeaders
  BY <1>5 DEF SubOK
<1>7. PICK k : AllocResult(blk, k, s, size) /\ Placed(c, q, b, k)
  BY <1>1, <1>2, <1>4, <1>6, AllocBlockIs
<1>8. p \in AllPages /\ p \notin h /\ p.block = b /\ p.sub = s /\ BlockOK(k, b, g)
  <2>1. /\ blk.sub[s].pgsize = size /\ blk.sub[s].header # 0 /\ IsFiniteSet(h) /\ BlockOK(blk, b, h)
        /\ AllocResult(blk, k, s, size)
    BY <1>1, <1>2, <1>4, <1>7
  <2> HIDE DEF blk
  <2> QED BY ONLY b \in Blocks, h \in SUBSET AllPages, s \in Subblocks, size \in PageSizes,
                  <2>1, BlockAlloc
<1>9. p.size = size /\ PageIndex(p) = i
  BY <1>5, PageAt
<1>10. /\ \A t \in Subblocks \ {s} : k.sub[t] = blk.sub[t]
  <2>1. k.sub = [blk.sub EXCEPT ![s] = AllocPage(blk.sub[s])]
    BY <1>7 DEF AllocResult
  <2>2. blk.sub \in [Subblocks -> SubHeaders]
    BY <1>4, BlockType
  <2> HIDE DEF blk
  <2> QED BY <2>1, <2>2
<1> HIDE DEF p, q, blk, i
<1>. g \in SUBSET AllPages
  BY <1>8
<1>11. /\ IsFiniteSet(Occupied(g)) /\ Cardinality(Occupied(g)) = n /\ n \in Nat
  <2>1. \A x \in h : x.block = p.block /\ x.sub = p.sub => x.size = p.size
    BY <1>4, <1>8, <1>9
  <2>2. /\ IsFiniteSet(Occupied(h \cup {p})) /\ Cardinality(Occupied(h)) \in Nat
        /\ Cardinality(Occupied(h \cup {p})) = Cardinality(Occupied(h)) + p.size
        /\ p.size \in Nat \ {0}
    BY <1>2, <1>8, <2>1, OccupiedAdd
  <2> QED BY <1>2, <1>9, <2>2
<1>12. IsFiniteSet(g)
  BY <1>2, FS_AddElement
<1>13. /\ \A x \in g : x.block \in Mapped(q)
       /\ \A a \in Mapped(q) : BlockOK(q.blocks[a], a, g)
  <2>1. \A x \in g : x.block = b \/ x \in h
    BY <1>8
  <2>2. \A a \in Blocks \ {b} : InBlock(g, a) = InBlock(h, a)
    BY <1>8 DEF InBlock
  <2> HIDE DEF g
  <2> QED BY <1>1, <1>7, <1>8, <2>1, <2>2, CachePlaced
<1>14. /\ ListsOK(q) /\ q.blocks[b] = k /\ \A a \in Blocks \ {b} : q.blocks[a] = c.blocks[a]
       /\ Mapped(q) = Mapped(c) \cup {b} /\ q.sizeallocated = c.sizeallocated
  BY <1>7 DEF Placed
<1>15. r = [q EXCEPT !.sizeallocated = n]
  BY <1>14
<1> HIDE DEF g, r, n
<1>16. /\ ListsOK(r) /\ r.blocks = q.blocks /\ Mapped(r) = Mapped(c) /\ r.sizeallocated = n
  <2>1. ListsOK(r) /\ r.blocks = q.blocks /\ Mapped(r) = Mapped(q) /\ r.sizeallocated = n
    BY <1>11, <1>14, <1>15, SizeChanged
  <2> QED BY <1>1, <1>14, <2>1
<1>17. CacheOK(r, g)
  BY <1>1, <1>11, <1>12, <1>13, <1>14, <1>16 DEF CacheOK
<1>18. ASSUME NEW a \in Mapped(r), NEW t \in Subblocks PROVE InUse(r.blocks[a].sub[t], a, t, g)
  <2>0. a \in Mapped(c) /\ a \in Blocks
    BY <1>16 DEF Mapped
  <2>1. CASE a = b /\ t = s
    <3>1. p \in g
      BY DEF g
    <3>2. HeldIn(g, a, t) # {}
      BY <1>8, <2>1, <3>1 DEF HeldIn
    <3> QED BY <3>2 DEF InUse
  <2>2. CASE ~(a = b /\ t = s)
    <3>1. r.blocks[a].sub[t] = c.blocks[a].sub[t]
      <4>1. CASE a = b
        BY <1>10, <1>14, <1>16, <2>2, <4>1 DEF blk
      <4>2. CASE a # b
        BY <1>14, <1>16, <2>0, <4>2
      <4> QED BY <4>1, <4>2
    <3>2. InUse(c.blocks[a].sub[t], a, t, h)
      BY <1>1, <2>0, <2>2 DEF UsingBut
    <3>3. HeldIn(h, a, t) \subseteq HeldIn(g, a, t)
      BY DEF HeldIn, g
    <3> QED BY <3>1, <3>2, <3>3 DEF InUse
  <2> QED BY <2>1, <2>2
<1>19. OneIdle(r, g)
  <2>1. p \in g /\ h \subseteq g
    BY DEF g
  <2>2. ASSUME NEW a \in Mapped(r) PROVE \E x \in g : x.block = a
    <3>1. CASE a = b
      BY <1>8, <2>1, <3>1
    <3>2. CASE a # b
      BY <1>1, <1>16, <2>1, <3>2 DEF IdleBut
    <3> QED BY <3>1, <3>2
  <2> QED BY <2>1, <2>2 DEF OneIdle
<1> QED BY <1>17, <1>18, <1>19 DEF Using, r, g, p, q, i, blk

\* allocunused_block up to the call of allocpage_block.
LEMMA ActivateOK ==
    ASSUME NEW c, NEW h \in SUBSET AllPages, NEW b \in Blocks, CacheOK(c, h), b \in Mapped(c),
           Using(c, h), IdleBut(c, h, b), ~UsedUp(c.blocks[b]),
           NEW s \in Subblocks, s = UnusedSub(c.blocks[b]), NEW size \in PageSizes
    PROVE  Prepared(EnterFreeList(TakeUnused(c, b, s, size), b, s, size), h, b, s, size)
<1> DEFINE blk == c.blocks[b]
           x == InitFree(size, 0)
           q == TakeUnused(c, b, s, size)
           fl == [blk.freesublist EXCEPT ![size] = <<s>> \o blk.freesublist[size]]
           r == EnterFreeList(q, b, s, size)
<1>1. /\ ListsOK(c) /\ BlockOK(blk, b, h) /\ IsFiniteSet(h) /\ IsFiniteSet(Occupied(h))
      /\ c.sizeallocated = Cardinality(Occupied(h))
  BY DEF CacheOK
<1>2. blk \in BlockRecords
  BY <1>1 DEF BlockOK
<1>3. s # 0
  <2> HIDE DEF blk
  <2> QED BY <1>1, UnusedIs DEF blk
<1>4. x \in SubHeaders
  <2>1. SubOK(InitFree(size, 0), s, {})
    BY <1>3, InitFreeOK
  <2> QED BY <2>1 DEF SubOK
<1>5. PICK j : Taken(blk, j, s, size) /\ Placed(c, q, b, j)
  BY <1>1, <1>4, TakeUnusedIs
<1>. /\ j \in BlockRecords
     /\ j.sub = [blk.sub EXCEPT ![s] = x]
     /\ j.freesublist = blk.freesublist
     /\ blk.unusedsublist = <<>>
           => j.unusedsublist = <<>> /\ j.nextunused = blk.nextunused + 1
     /\ blk.unusedsublist # <<>>
           => /\ j.unusedsublist = Tail(blk.unusedsublist)
              /\ j.nextunused = blk.nextunused
     /\ j.nrused = blk.nrused
  BY <1>5 DEF Taken
<1> HIDE DEF x
<1> DEFINE k == [j EXCEPT !.freesublist = fl]
<1>6. q.blocks[b] = j /\ ListsOK(q) /\ b \in Mapped(q)
  BY <1>5 DEF Placed
<1>7. /\ fl = [q.blocks[b].freesublist EXCEPT ![size] = <<s>> \o q.blocks[b].freesublist[size]]
      /\ k = [q.blocks[b] EXCEPT !.freesublist = fl]
  BY <1>5, <1>6
<1>. k = [j EXCEPT !.freesublist = fl]
  OBVIOUS
<1> HIDE DEF fl, k, q, r, blk
<1>8. k \in BlockRecords /\ Placed(q, r, b, k)
  <2> HIDE DEF r
  <2>1. r = EnterFreeList(q, b, s, size)
    BY DEF r
  <2> QED BY ONLY b \in Blocks, s \in Subblocks, size \in PageSizes, <1>6, <1>7, <2>1,
                  EnterFreeListIs
<1>9. /\ k.sub = j.sub /\ k.freesublist = fl /\ k.unusedsublist = j.unusedsublist
      /\ k.nextunused = j.nextunused /\ k.nrused = j.nrused
  BY <1>5, <1>8 DEF BlockRecords
<1>10. TakeResult(blk, k, s, size)
  BY <1>5, <1>8, <1>9 DEF TakeResult, x, fl
<1>11. BlockOK(k, b, h) /\ k.sub[s].pgsize = size /\ k.sub[s].header # 0
  <2>1. BlockOK(blk, b, h) /\ ~UsedUp(blk) /\ s = UnusedSub(blk)
    BY <1>1 DEF blk
  <2> QED BY ONLY b \in Blocks, h \in SUBSET AllPages, s \in Subblocks, size \in PageSizes,
                  <1>10, <2>1, BlockTake
<1>12. Placed(c, r, b, k)
  BY <1>5, <1>8, PlacedTwice
<1>13. /\ ListsOK(r) /\ r.blocks[b] = k /\ \A a \in Blocks \ {b} : r.blocks[a] = c.blocks[a]
       /\ Mapped(r) = Mapped(c) /\ r.sizeallocated = c.sizeallocated /\ Mapped(c) \subseteq Blocks
  BY <1>12 DEF Placed, Mapped
<1>14. /\ \A p \in h : p.block \in Mapped(r)
       /\ \A a \in Mapped(r) : BlockOK(r.blocks[a], a, h)
  BY <1>11, <1>12, CachePlaced
<1>15. CacheOK(r, h)
  BY <1>1, <1>13, <1>14 DEF CacheOK
<1>16. \A t \in Subblocks \ {s} : k.sub[t] = blk.sub[t]
  <2>1. k.sub = [blk.sub EXCEPT ![s] = x] /\ blk.sub \in [Subblocks -> SubHeaders]
    BY <1>2, <1>5, <1>9, BlockType
  <2> QED BY <2>1
<1>17. UsingBut(r, h, b, s)
  <2> SUFFICES ASSUME NEW a \in Mapped(r), NEW t \in Subblocks, ~(a = b /\ t = s)
               PROVE  InUse(r.blocks[a].sub[t], a, t, h)
    BY DEF UsingBut
  <2>1. a \in Mapped(c) /\ InUse(c.blocks[a].sub[t], a, t, h)
    BY <1>13 DEF Using
  <2>2. CASE a = b
    BY <1>13, <1>16, <2>1, <2>2 DEF blk
  <2>3. CASE a # b
    BY <1>13, <2>1, <2>3
  <2> QED BY <2>2, <2>3
<1>18. IdleBut(r, h, b)
  BY <1>13 DEF IdleBut
<1>19. r.blocks[b].sub[s].pgsize = size /\ r.blocks[b].sub[s].header # 0 /\ b \in Mapped(r)
  BY <1>11, <1>13
<1>20. Prepared(r, h, b, s, size)
  BY <1>15, <1>17, <1>18, <1>19 DEF Prepared
<1> QED BY <1>20 DEF r, q

\* new_block: it is called if no block has a sub-block without use.  Then every block
\* holds pages, or there is none.
LEMMA NewOK ==
    ASSUME NEW c, NEW h \in SUBSET AllPages, CacheOK(c, h), Using(c, h), OneIdle(c, h),
           c.unusedblocklist = <<>>, NEW b \in Blocks, b \notin Mapped(c)
    PROVE  LET r == NewBlock(c, b)
           IN /\ CacheOK(r, h) /\ Using(r, h) /\ IdleBut(r, h, b)
              /\ b \in Mapped(r) /\ r.blocks[b] = FreshBlock
<1> DEFINE r == NewBlock(c, b)
           k == FreshBlock
<1>1. /\ ListsOK(c) /\ IsFiniteSet(h) /\ IsFiniteSet(Occupied(h))
      /\ c.sizeallocated = Cardinality(Occupied(h)) /\ \A q \in h : q.block \in Mapped(c)
  BY DEF CacheOK
<1>2. \A q \in h : q.block # b
  BY <1>1
<1>3. /\ BlockOK(k, b, h) /\ k \in BlockRecords
      /\ ~UsedUp(k) /\ UnusedSub(k) = 1
  BY <1>1, <1>2, BlockNew
<1>4. Placed(c, r, b, k)
  BY <1>1, <1>3, NewBlockIs
<1> HIDE DEF r, k
<1>5. /\ ListsOK(r) /\ r.blocks[b] = k /\ \A a \in Blocks \ {b} : r.blocks[a] = c.blocks[a]
      /\ Mapped(r) = Mapped(c) \cup {b} /\ r.sizeallocated = c.sizeallocated
      /\ Mapped(c) \subseteq Blocks
  BY <1>4 DEF Placed, Mapped
<1>6. /\ \A p \in h : p.block \in Mapped(r)
      /\ \A a \in Mapped(r) : BlockOK(r.blocks[a], a, h)
  BY <1>3, <1>4, CachePlaced
<1>7. CacheOK(r, h)
  BY <1>1, <1>5, <1>6 DEF CacheOK
<1>8. Using(r, h)
  <2> SUFFICES ASSUME NEW a \in Mapped(r), NEW t \in Subblocks
               PROVE  InUse(r.blocks[a].sub[t], a, t, h)
    BY DEF Using
  <2>1. CASE a = b
    <3>1. t # 0 => k.sub[t].pgsize = NoSize
      <4>1. t # 0 => k.sub[t] = NeverUsed
        BY DEF k, FreshBlock
      <4>2. NeverUsed.pgsize = NoSize
        BY DEF NeverUsed, InitUnused
      <4> QED BY <4>1, <4>2
    <3> QED BY <1>5, <2>1, <3>1 DEF InUse
  <2>2. CASE a # b
    <3>1. a \in Mapped(c) /\ r.blocks[a] = c.blocks[a]
      BY <1>5, <2>2
    <3> QED BY <3>1 DEF Using
  <2> QED BY <2>1, <2>2
<1>9. IdleBut(r, h, b)
  <2> SUFFICES ASSUME NEW a \in Mapped(c) PROVE \E p \in h : p.block = a
    BY <1>5 DEF IdleBut
  <2>1. a \in Blocks /\ BlockOK(c.blocks[a], a, h)
    BY <1>5 DEF CacheOK
  <2>2. UsedUp(c.blocks[a])
    <3>1. ToSet(c.unusedblocklist) = {}
      BY EmptyList
    <3>2. ToSet(c.unusedblocklist) = {d \in Mapped(c) : ~UsedUp(c.blocks[d])}
      BY <1>1, CacheType
    <3> QED BY <3>1, <3>2
  <2>3. 1 \in Subblocks /\ NrSubblocks >= 2 /\ NrSubblocks \in Nat
    BY SmallPages
  <2>4. c.blocks[a].sub[1].pgsize # NoSize
    <3>1. BlockLists(c.blocks[a])
      BY <2>1 DEF BlockOK
    <3>2. /\ ToSet(<<>>) = {s \in 1 .. NrSubblocks - 1 : c.blocks[a].sub[s].pgsize = NoSize}
      BY <2>2, <3>1 DEF BlockLists, UsedUp
    <3>3. 1 \in 1 .. NrSubblocks - 1
      BY <2>3
    <3> QED BY <3>2, <3>3, EmptyList
  <2>5. HeldIn(h, a, 1) # {}
    BY <2>3, <2>4 DEF Using, InUse
  <2> QED BY <2>5 DEF HeldIn
<1> QED BY <1>5, <1>7, <1>8, <1>9 DEF r, k

\* releasepage_block with the counters.
LEMMA ReleaseOK ==
    ASSUME NEW c, NEW h \in SUBSET AllPages, CacheOK(c, h), Using(c, h), OneIdle(c, h),
           NEW p \in h, NEW b \in Blocks, NEW s \in Subblocks, p.block = b, p.sub = s
    PROVE  LET r == ReleaseBlock(c, b, s, PageIndex(p), p.size)
           IN /\ CacheOK(r, h \ {p}) /\ Using(r, h \ {p}) /\ IdleBut(r, h \ {p}, b)
              /\ b \in Mapped(r)
<1> DEFINE blk == c.blocks[b]
           sub == blk.sub[s]
           i == PageIndex(p)
           size == p.size
           g == h \ {p}
           q == IF sub.header # 0 THEN ReleaseUsed(c, b, s, i, size) ELSE ReleaseFull(c, b, s, i, size)
           r == ReleaseBlock(c, b, s, i, size)
<1>1. /\ ListsOK(c) /\ IsFiniteSet(h) /\ IsFiniteSet(Occupied(h))
      /\ c.sizeallocated = Cardinality(Occupied(h)) /\ b \in Mapped(c)
  BY DEF CacheOK
<1>2. i \in Nat /\ size \in PageSizes /\ size # NoSize /\ p \in AllPages
  <2>1. p \in AllPages
    OBVIOUS
  <2> QED BY <2>1, PageType, Sizes
<1>3. sub.pgsize = size
  <2>1. BlockOK(blk, b, h)
    BY <1>1 DEF CacheOK
  <2> QED BY <2>1 DEF BlockOK, InBlock
<1>4. /\ blk \in BlockRecords /\ BlockOK(blk, b, h) /\ SubOK(sub, s, HeldIn(h, b, s))
      /\ IsInjective(blk.freesublist[size])
      /\ sub.header # 0 => s \in ToSet(blk.freesublist[size])
      /\ \A x \in h : x.block = b /\ x.sub = s => x.size = size
  BY <1>1, <1>2, <1>3, BlockOf
<1>5. i \in HeldIn(h, b, s)
  BY DEF HeldIn
<1>6. sub.nrused = 1 \/ (sub.header = 0 /\ NrPages(size) = 1) => s # 0
  BY <1>2, <1>3, <1>4, <1>5, LastPage
<1>7. /\ sub.header # 0 => FreePage(sub, i) \in SubHeaders
      /\ sub.header = 0 => InitUsed(size, i) \in SubHeaders
      /\ InitUnused \in SubHeaders
  <2> HIDE DEF i, size, sub
  <2>1. sub.header # 0 => FreePage(sub, i) \in SubHeaders
    <3>1. sub.header # 0 => SubOK(FreePage(sub, i), s, HeldIn(h, b, s) \ {i})
      BY <1>2, <1>3, <1>4, <1>5, FreePageOK
    <3> QED BY <3>1 DEF SubOK
  <2>2. sub.header = 0 => InitUsed(size, i) \in SubHeaders
    <3>1. sub.header = 0 => SubOK(InitUsed(sub.pgsize, i), s, HeldIn(h, b, s) \ {i})
      BY <1>2, <1>3, <1>4, <1>5, InitUsedOK
    <3> QED BY <1>3, <3>1 DEF SubOK
  <2>3. InitUnused \in SubHeaders
    BY DEF InitUnused, SubHeaders
  <2> QED BY <2>1, <2>2, <2>3
<1>8. PICK j : ReleaseResult(blk, j, s, i, size) /\ j.nrused = blk.nrused /\ Placed(c, q, b, j)
  <2>1. CASE sub.header # 0
    <3>1. q = ReleaseUsed(c, b, s, i, size)
      BY <2>1
    <3> HIDE DEF i, size, q
    <3> QED BY <1>1, <1>2, <1>4, <1>7, <2>1, <3>1, ReleaseUsedIs
  <2>2. CASE sub.header = 0
    <3>1. q = ReleaseFull(c, b, s, i, size)
      BY <2>2
    <3> HIDE DEF i, size, q
    <3> QED BY <1>1, <1>2, <1>7, <2>2, <3>1, ReleaseFullIs
  <2> QED BY <2>1, <2>2
<1>9. q.blocks[b] = j /\ ListsOK(q) /\ b \in Mapped(q) /\ q.sizeallocated = c.sizeallocated
  BY <1>8 DEF Placed
<1>10. j \in BlockRecords
  BY <1>8 DEF ReleaseResult
<1> DEFINE nr == blk.nrused - 1
           k == [j EXCEPT !.nrused = nr]
           t == [q EXCEPT !.blocks = [q.blocks EXCEPT ![b] = k]]
           n == q.sizeallocated - size
<1>11. nr \in Nat
  <2>1. /\ Cardinality(InBlock(h, b)) = Cardinality(InBlock(h \ {p}, b)) + 1
        /\ Cardinality(InBlock(h \ {p}, b)) \in Nat
    BY <1>1, InBlockRemove
  <2>2. blk.nrused = Cardinality(InBlock(h, b))
    BY <1>4 DEF BlockOK
  <2> QED BY <2>1, <2>2
<1>12. r = [t EXCEPT !.sizeallocated = n]
  <2>1. r = Counted(q, b, size)
    BY DEF ReleaseBlock
  <2>2. q \in Caches /\ q.blocks \in [Blocks -> BlockRecords \cup {NoBlock}]
    BY <1>9, CacheType
  <2>3. k = [q.blocks[b] EXCEPT !.nrused = @ - 1]
    BY <1>8, <1>9, <1>10
  <2> HIDE DEF q, r, k, n
  <2>4. r = [q EXCEPT !.blocks = [q.blocks EXCEPT ![b] = k], !.sizeallocated = n]
    BY <2>1, <2>2, <2>3 DEF Counted, Caches, n
  <2> QED BY <2>2, <2>4 DEF Caches
<1>. /\ k = [j EXCEPT !.nrused = nr] /\ t = [q EXCEPT !.blocks = [q.blocks EXCEPT ![b] = k]]
  OBVIOUS
<1> HIDE DEF blk, sub, q, r, nr, k, t, n
<1>13. /\ k \in BlockRecords /\ k.sub = j.sub /\ k.freesublist = j.freesublist /\ k.nrused = nr
       /\ k.unusedsublist = j.unusedsublist /\ k.nextunused = j.nextunused
  BY <1>10, <1>11 DEF BlockRecords
<1>14. Placed(q, t, b, k)
  BY <1>9, <1>13, SubChanged
<1>15. Placed(c, t, b, k)
  BY <1>8, <1>14, PlacedTwice
<1>16. ReleaseResult(blk, k, s, i, size)
  BY <1>8, <1>13 DEF ReleaseResult
<1>17. BlockOK(k, b, g)
  <2>1. ReleaseResult(blk, k, s, PageIndex(p), p.size) /\ k.nrused = blk.nrused - 1
    BY <1>13, <1>16 DEF nr
  <2> QED BY ONLY b \in Blocks, h \in SUBSET AllPages, s \in Subblocks, p \in h, p.block = b,
                  p.sub = s, <1>1, <1>4, <2>1, BlockRelease
<1>18. /\ IsFiniteSet(g) /\ IsFiniteSet(Occupied(g)) /\ Cardinality(Occupied(g)) = n /\ n \in Nat
  <2>1. \A x \in h : x.block = p.block /\ x.sub = p.sub => x.size = p.size
    BY <1>4
  <2>2. /\ IsFiniteSet(Occupied(g)) /\ Cardinality(Occupied(g)) \in Nat
        /\ Cardinality(Occupied(g)) = Cardinality(Occupied(h)) - p.size
    BY <1>1, <2>1, OccupiedRemove
  <2>3. IsFiniteSet(g)
    BY <1>1, FS_RemoveElement
  <2>4. n = Cardinality(Occupied(h)) - p.size
    BY <1>1, <1>9 DEF n
  <2> HIDE DEF g
  <2> QED BY <2>2, <2>3, <2>4
<1>19. /\ ListsOK(t) /\ t.blocks[b] = k /\ \A a \in Blocks \ {b} : t.blocks[a] = c.blocks[a]
       /\ Mapped(t) = Mapped(c) /\ Mapped(c) \subseteq Blocks
  BY <1>1, <1>15 DEF Placed, Mapped
<1>20. /\ \A x \in g : x.block \in Mapped(t)
       /\ \A a \in Mapped(t) : BlockOK(t.blocks[a], a, g)
  <2>1. \A a \in Blocks \ {b} : InBlock(g, a) = InBlock(h, a)
    BY DEF InBlock
  <2>2. g \in SUBSET AllPages /\ \A x \in g : x.block = b \/ x \in h
    OBVIOUS
  <2> HIDE DEF g
  <2> QED BY ONLY h \in SUBSET AllPages, b \in Blocks, CacheOK(c, h), <1>15, <1>17, <2>1, <2>2,
                  CachePlaced
<1>21. ListsOK(r) /\ r.blocks = t.blocks /\ Mapped(r) = Mapped(t) /\ r.sizeallocated = n
  BY ONLY <1>12, <1>18, <1>19, SizeChanged
<1>22. CacheOK(r, g)
  <2>1. g \in SUBSET AllPages
    OBVIOUS
  <2> HIDE DEF g
  <2> QED BY <1>18, <1>20, <1>21, <2>1 DEF CacheOK
<1>23. ASSUME NEW a \in Mapped(r), NEW u \in Subblocks PROVE InUse(r.blocks[a].sub[u], a, u, g)
  <2>0. a \in Mapped(c) /\ a \in Blocks /\ InUse(c.blocks[a].sub[u], a, u, h)
    BY <1>19, <1>21 DEF Using
  <2>1. CASE a = b /\ u = s
    <3> SUFFICES ASSUME u # 0, k.sub[s].pgsize # NoSize, HeldIn(g, b, s) = {} PROVE FALSE
      BY <1>19, <1>21, <2>1 DEF InUse
    <3>1. SubOK(k.sub[s], s, {})
      BY <1>17 DEF BlockOK
    <3>2. SubAccounted(k.sub[s], s, {})
      BY <3>1 DEF SubOK
    <3>3. k.sub[s].nrused = Cardinality({} \cup Reserved(s)) /\ Reserved(s) = {}
      BY <2>1, <3>2, ReservedPages DEF SubAccounted
    <3>4. k.sub[s].nrused = 0
      BY <3>3, FS_EmptySet
    <3> DEFINE last == (sub.header # 0 /\ sub.nrused = 1) \/ (sub.header = 0 /\ NrPages(size) = 1)
    <3>5. blk.sub \in [Subblocks -> SubHeaders]
      BY <1>4, BlockType
    <3>6. /\ last => k.sub[s] = InitUnused
          /\ ~last /\ sub.header # 0 => k.sub[s] = FreePage(sub, i)
          /\ ~last /\ sub.header = 0 => k.sub[s] = InitUsed(size, i)
      BY <1>16, <3>5 DEF ReleaseResult, sub
    <3>7. CASE last
      <4>1. InitUnused.pgsize = NoSize
        BY DEF InitUnused
      <4> QED BY <3>6, <3>7, <4>1
    <3>8. CASE ~last /\ sub.header # 0
      <4>1. k.sub[s].nrused = sub.nrused - 1 /\ sub.nrused # 1 /\ sub.nrused \in Nat
        <5>1. sub \in SubHeaders
          BY <3>5 DEF sub
        <5> QED BY <3>6, <3>8, <5>1 DEF FreePage, SubHeaders
      <4> QED BY <3>4, <4>1
    <3>9. CASE ~last /\ sub.header = 0
      <4>1. k.sub[s].nrused = NrPages(size) - 1
        BY <3>6, <3>9 DEF InitUsed
      <4>2. NrPages(size) \in Nat /\ NrPages(size) # 1
        BY <1>2, <3>9, Sizes
      <4> QED BY <3>4, <4>1, <4>2
    <3> QED BY <3>7, <3>8, <3>9
  <2>2. CASE ~(a = b /\ u = s)
    <3>1. r.blocks[a].sub[u] = c.blocks[a].sub[u]
      <4>1. CASE a = b
        <5>1. k.sub[u] = blk.sub[u]
          <6>1. blk.sub \in [Subblocks -> SubHeaders]
            BY <1>4, BlockType
          <6>2. \E x : k.sub = [blk.sub EXCEPT ![s] = x]
            BY <1>16 DEF ReleaseResult
          <6> QED BY <2>2, <4>1, <6>1, <6>2
        <5> QED BY <1>19, <1>21, <4>1, <5>1 DEF blk
      <4>2. CASE a # b
        BY <1>19, <1>21, <2>0, <4>2
      <4> QED BY <4>1, <4>2
    <3>2. HeldIn(g, a, u) = HeldIn(h, a, u)
      <4>1. ~(p.block = a /\ p.sub = u)
        BY <2>2
      <4>2. {x \in g : x.block = a /\ x.sub = u} = {x \in h : x.block = a /\ x.sub = u}
        BY ONLY <4>1 DEF g
      <4> QED BY <4>2 DEF HeldIn
    <3> QED BY <2>0, <3>1, <3>2 DEF InUse
  <2> QED BY <2>1, <2>2
<1>24. IdleBut(r, g, b)
  <2> SUFFICES ASSUME NEW a \in Mapped(c), a # b PROVE \E x \in g : x.block = a
    BY <1>19, <1>21 DEF IdleBut
  <2>1. PICK x \in h : x.block = a
    BY DEF OneIdle
  <2> QED BY <2>1
<1>25. b \in Mapped(r)
  BY <1>1, <1>19, <1>21
<1> QED BY <1>22, <1>23, <1>24, <1>25 DEF Using, r

\* Blocks without pages are unmapped.
LEMMA DeleteOK ==
    ASSUME NEW c, NEW h \in SUBSET AllPages, CacheOK(c, h), Using(c, h), NEW T \in SUBSET Blocks,
           \A p \in h : p.block \notin T
    PROVE  LET r == DeleteBlocks(c, T)
           IN CacheOK(r, h) /\ Using(r, h) /\ Mapped(r) = Mapped(c) \ T
<1> DEFINE r == DeleteBlocks(c, T)
<1>1. /\ ListsOK(r) /\ Mapped(r) = Mapped(c) \ T
      /\ \A a \in Blocks \ T : r.blocks[a] = c.blocks[a]
      /\ r.sizeallocated = c.sizeallocated
  BY DeleteBlocksIs DEF CacheOK
<1> HIDE DEF r
<1>2. \A a \in Mapped(r) : a \in Mapped(c) /\ r.blocks[a] = c.blocks[a]
  BY <1>1 DEF Mapped
<1>3. CacheOK(r, h)
  BY <1>1, <1>2 DEF CacheOK
<1>4. Using(r, h)
  BY <1>2 DEF Using
<1> QED BY <1>1, <1>3, <1>4 DEF r

\* A block counts the pages clients hold of it, and so does the cache.
LEMMA Counters ==
    ASSUME NEW c, NEW h \in SUBSET AllPages, CacheOK(c, h)
    PROVE  /\ c.sizeallocated \in Nat /\ (c.sizeallocated = 0 <=> h = {})
           /\ \A b \in Mapped(c) : /\ c.blocks[b].nrused \in Nat
                                   /\ c.blocks[b].nrused = 0 <=> \A p \in h : p.block # b
<1>1. /\ ListsOK(c) /\ IsFiniteSet(h) /\ IsFiniteSet(Occupied(h))
      /\ c.sizeallocated = Cardinality(Occupied(h))
  BY DEF CacheOK
<1>2. c.sizeallocated \in Nat
  BY <1>1, CacheType
<1>3. c.sizeallocated = 0 <=> h = {}
  <2>1. c.sizeallocated = 0 <=> Occupied(h) = {}
    BY <1>1, FS_EmptySet
  <2>2. Occupied(h) = UNION {Pieces(q) : q \in h}
    BY DEF Occupied, Pieces
  <2>3. \A q \in h : Pieces(q) # {}
    BY PiecesCount
  <2> QED BY <2>1, <2>2, <2>3
<1>4. ASSUME NEW b \in Mapped(c)
      PROVE  c.blocks[b].nrused \in Nat /\ (c.blocks[b].nrused = 0 <=> \A p \in h : p.block # b)
  <2>1. b \in Blocks /\ BlockOK(c.blocks[b], b, h)
    BY DEF CacheOK, Mapped
  <2>2. c.blocks[b] \in BlockRecords /\ c.blocks[b].nrused = Cardinality(InBlock(h, b))
    BY <2>1 DEF BlockOK
  <2>3. c.blocks[b].nrused \in Nat
    BY <2>2, BlockType
  <2>4. Cardinality(InBlock(h, b)) = 0 <=> \A q \in h : q.block # b
    BY <1>1, <2>1, InBlockNone
  <2> QED BY <2>2, <2>3, <2>4
<1> QED BY <1>2, <1>3, <1>4

\* The end of releasepage_pagecacheimpl: a block without pages is unmapped unless it is
\* the last one.
LEMMA AfterReleaseOK ==
    ASSUME NEW c, NEW g \in SUBSET AllPages, CacheOK(c, g), Using(c, g), NEW b \in Mapped(c),
           IdleBut(c, g, b)
    PROVE  LET r == AfterRelease(c, b)
           IN CacheOK(r, g) /\ Using(r, g) /\ OneIdle(r, g)
<1> DEFINE r == AfterRelease(c, b)
<1>1. /\ c.sizeallocated \in Nat /\ (c.sizeallocated = 0 <=> g = {})
      /\ c.blocks[b].nrused \in Nat
      /\ c.blocks[b].nrused = 0 <=> \A p \in g : p.block # b
      /\ b \in Blocks
  BY Counters DEF Mapped
<1>2. CASE c.blocks[b].nrused = 0 /\ c.sizeallocated > 0
  <2>1. r = DeleteBlocks(c, {b})
    BY <1>2 DEF AfterRelease
  <2>2. /\ CacheOK(DeleteBlocks(c, {b}), g) /\ Using(DeleteBlocks(c, {b}), g)
        /\ Mapped(DeleteBlocks(c, {b})) = Mapped(c) \ {b}
    <3>1. {b} \in SUBSET Blocks /\ \A p \in g : p.block \notin {b}
      BY <1>1, <1>2
    <3> QED BY <3>1, DeleteOK
  <2>3. g # {}
    BY <1>1, <1>2
  <2> HIDE DEF r
  <2>4. OneIdle(r, g)
    BY <2>1, <2>2, <2>3 DEF OneIdle, IdleBut
  <2> QED BY <2>1, <2>2, <2>4 DEF r
<1>3. CASE ~(c.blocks[b].nrused = 0 /\ c.sizeallocated > 0)
  <2>1. r = c
    BY <1>3 DEF AfterRelease
  <2>2. OneIdle(c, g)
    <3>1. CASE g = {}
      BY <3>1 DEF OneIdle, IdleBut
    <3>2. CASE g # {}
      <4>1. \E p \in g : p.block = b
        BY <1>1, <1>3, <3>2
      <4> QED BY <3>2, <4>1 DEF OneIdle, IdleBut
    <3> QED BY <3>1, <3>2
  <2> QED BY <2>1, <2>2
<1> QED BY <1>2, <1>3

-----------------------------------------------------------------------------
(* Which pages are accepted *)

\* releasepage_pagecacheimpl tells the pages clients hold from all other memory.
LEMMA AcceptsHeld ==
    ASSUME CacheOK(cache, held)
    PROVE  held \subseteq Pages /\ \A p \in Pages : Accepts(p) <=> p \in held
<1>. held \in SUBSET AllPages /\ \A p \in held : p.block \in Mapped(cache)
  BY DEF CacheOK
<1>1. ASSUME NEW p \in held PROVE p \in Pages /\ Accepts(p)
  <2> DEFINE b == p.block
             s == p.sub
             i == PageIndex(p)
             size == p.size
             sub == cache.blocks[b].sub[s]
             U == HeldIn(held, b, s)
             n == NrPages(size)
  <2>1. /\ b \in Mapped(cache) /\ s \in Subblocks /\ size \in PageSizes /\ size \in Nat \ {0}
        /\ i \in Nat /\ p.first \in Nat /\ p.first = i * size /\ p \in AllPages
    <3>1. p \in AllPages /\ b \in Mapped(cache)
      OBVIOUS
    <3> QED BY <3>1, PageType
  <2>2. sub.pgsize = size /\ size # NoSize
    <3>1. BlockOK(cache.blocks[b], b, held)
      BY DEF CacheOK
    <3>2. p \in InBlock(held, b)
      BY DEF InBlock
    <3> QED BY <2>1, <3>1, <3>2, Sizes DEF BlockOK
  <2>3. SubOK(sub, s, U)
    BY <2>1, <2>2, BlockOf
  <2>4. i \in U
    BY DEF HeldIn
  <2>5. /\ U \cap Reserved(s) = {} /\ i \in 0 .. n - 1 /\ (s = 0 => size = SmallSize)
    <3> HIDE DEF b, s, i, sub, U
    <3>1. s \in Subblocks /\ SubOK(sub, s, U) /\ sub.pgsize # NoSize
      BY <2>1, <2>2, <2>3
    <3>2. /\ U \cap Reserved(s) = {} /\ U \subseteq 0 .. NrPages(sub.pgsize) - 1
          /\ s = 0 => sub.pgsize = SmallSize
      BY ONLY <3>1, SubMembers
    <3> QED BY <2>2, <2>4, <3>2
  <2>6. n \in Nat \ {0} /\ n * size = SubSize /\ SubSize \in Nat
    BY <2>1, Sizes
  <2>7. ~(sub.header # 0 /\ IsFree(sub, i))
    <3> HIDE DEF b, s, i, sub, U
    <3>1. /\ s \in Subblocks /\ SubOK(sub, s, U) /\ sub.pgsize # NoSize
          /\ i \in 0 .. NrPages(sub.pgsize) - 1
      BY <2>1, <2>2, <2>3, <2>5
    <3>2. sub.header # 0 /\ IsFree(sub, i) <=> i \notin U \cup Reserved(s)
      BY ONLY <3>1, IsFreeExact
    <3> QED BY <2>4, <3>2
  <2>8. p.first % size = 0
    <3> HIDE DEF i, size
    <3>1. (i * size) % size = 0
      BY <2>1, Multiple
    <3> QED BY <2>1, <3>1
  <2>9. Accepts(p)
    BY <2>2, <2>7, <2>8 DEF Accepts, Fits
  <2>10. p.first + size <= SubSize /\ p.first \in 0 .. SubSize - 1
    <3> HIDE DEF i, size, n
    <3>1. i + 1 <= n
      BY <2>5, <2>6
    <3>2. (i + 1) * size <= n * size
      BY <2>1, <2>6, <3>1
    <3>3. (i + 1) * size = i * size + size
      BY <2>1
    <3> QED BY <2>1, <2>6, <3>2, <3>3
  <2>11. s = 0 => p.first >= BlockPages * SmallSize
    <3> SUFFICES ASSUME s = 0 PROVE p.first >= BlockPages * SmallSize
      OBVIOUS
    <3>1. i \notin 0 .. BlockPages - 1 /\ size = SmallSize
      <4>1. Reserved(s) = 0 .. BlockPages - 1
        BY <2>1, ReservedPages
      <4> QED BY <2>4, <2>5, <4>1
    <3>2. BlockPages \in Nat
      BY SmallPages
    <3> HIDE DEF i, size
    <3>3. i >= BlockPages
      BY <2>1, <3>1, <3>2
    <3> QED BY <2>1, <3>1, <3>2, <3>3
  <2>12. p \in [block : Mapped(cache), sub : Subblocks, first : 0 .. SubSize - 1, size : PageSizes]
    BY <2>1, <2>10 DEF AllPages
  <2> QED BY <2>9, <2>10, <2>11, <2>12 DEF Pages
<1>2. ASSUME NEW p \in Pages, Accepts(p) PROVE p \in held
  <2> DEFINE b == p.block
             s == p.sub
             i == PageIndex(p)
             size == p.size
             sub == cache.blocks[b].sub[s]
             U == HeldIn(held, b, s)
             n == NrPages(size)
  <2>1. /\ p \in [block : Mapped(cache), sub : Subblocks, first : 0 .. SubSize - 1, size : PageSizes]
        /\ p.first + size <= SubSize
        /\ s = 0 => p.first >= BlockPages * SmallSize
    BY DEF Pages
  <2>2. b \in Mapped(cache) /\ s \in Subblocks /\ p.first \in 0 .. SubSize - 1 /\ size \in PageSizes
    BY <2>1
  <2>3. /\ sub.pgsize # NoSize /\ sub.pgsize = size /\ p.first % size = 0
        /\ ~(sub.header # 0 /\ IsFree(sub, i))
    BY <1>2 DEF Accepts, Fits
  <2>4. /\ SubOK(sub, s, U) /\ b \in Blocks
        /\ \A q \in held : q.block = b /\ q.sub = s => q.size = size
    <3>1. cache.blocks[b].sub[s].pgsize = size /\ cache.blocks[b].sub[s].pgsize # NoSize
      BY <2>3
    <3> HIDE DEF b, s, size
    <3>2. /\ b \in Blocks /\ SubOK(cache.blocks[b].sub[s], s, HeldIn(held, b, s))
          /\ \A q \in held : q.block = b /\ q.sub = s => q.size = cache.blocks[b].sub[s].pgsize
      BY ONLY held \in SUBSET AllPages, CacheOK(cache, held), <2>2, <3>1, BlockOf
    <3> QED BY <3>1, <3>2
  <2>5. /\ size \in Nat \ {0} /\ n \in Nat \ {0} /\ n * size = SubSize /\ SubSize \in Nat
    BY <2>2, Sizes
  <2>6. i \in Nat /\ p.first = i * size
    <3>1. i = p.first \div size
      BY DEF PageIndex
    <3> HIDE DEF i, size
    <3> QED BY <2>2, <2>3, <2>5, <3>1
  <2>7. i \in 0 .. n - 1
    <3> HIDE DEF i, size, n
    <3>1. ~(i >= n)
      <4> SUFFICES ASSUME i >= n PROVE FALSE
        OBVIOUS
      <4>1. i * size >= n * size
        BY <2>5, <2>6
      <4> QED BY <2>1, <2>5, <2>6, <4>1
    <3> QED BY <2>5, <2>6, <3>1
  <2>8. i \in U \cup Reserved(s)
    BY <2>2, <2>3, <2>4, <2>7, IsFreeExact
  <2>9. i \notin Reserved(s)
    <3>1. s # 0 => Reserved(s) = {}
      BY <2>2, ReservedPages
    <3>2. CASE s = 0
      <4>1. Reserved(s) = 0 .. BlockPages - 1 /\ BlockPages \in Nat
        BY <2>2, <3>2, ReservedPages, SmallPages
      <4>2. size = SmallSize
        <5> HIDE DEF b, s, sub, U
        <5>1. s \in Subblocks /\ SubOK(sub, s, U) /\ sub.pgsize # NoSize
          BY <2>2, <2>3, <2>4
        <5>2. s = 0 => sub.pgsize = SmallSize
          BY ONLY <5>1, SubMembers
        <5> QED BY <2>3, <3>2, <5>2
      <4> HIDE DEF i, size
      <4>3. ~(i < BlockPages)
        <5> SUFFICES ASSUME i < BlockPages PROVE FALSE
          OBVIOUS
        <5>1. (i + 1) * size <= BlockPages * size
          BY <2>5, <2>6, <4>1
        <5>2. (i + 1) * size = i * size + size
          BY <2>5, <2>6
        <5>3. i * size >= BlockPages * size
          BY <2>1, <2>6, <3>2, <4>2
        <5>4. i * size \in Nat /\ BlockPages * size \in Nat
          BY <2>5, <2>6, <4>1
        <5> QED BY <2>5, <5>1, <5>2, <5>3, <5>4
      <4> QED BY <2>6, <4>1, <4>3
    <3> QED BY <3>1, <3>2
  <2>10. PICK q \in held : q.block = b /\ q.sub = s /\ PageIndex(q) = i
    BY <2>8, <2>9 DEF HeldIn
  <2>11. p \in AllPages
    BY <2>1, <2>2, <2>4, <2>6 DEF AllPages
  <2>12. q.size = size /\ q \in AllPages
    BY <2>4, <2>10
  <2>13. p = q
    BY <2>10, <2>11, <2>12, SamePage
  <2> QED BY <2>13
<1> QED BY <1>1, <1>2

-----------------------------------------------------------------------------
(* The inductive invariant *)

\* CacheInv, grouped by sub-block, block and cache.
CacheGood == CacheOK(cache, held) /\ Using(cache, held) /\ OneIdle(cache, held)

\* After the init functions and after free_pagecacheimpl.
LEMMA EmptyGood == CacheOK(FreeCache, {}) /\ Using(FreeCache, {}) /\ OneIdle(FreeCache, {})
<1> DEFINE bs == [b \in Blocks |-> NoBlock]
           f == [size \in PageSizes |-> <<>>]
           c == FreeCache
<1>1. c = [blocks |-> bs, unusedblocklist |-> <<>>, freeblocklist |-> f, sizeallocated |-> 0]
  BY DEF FreeCache
<1>2. bs \in [Blocks -> BlockRecords \cup {NoBlock}] /\ \A b \in Blocks : bs[b] = NoBlock
  OBVIOUS
<1>3. f \in [PageSizes -> Seq(Blocks)] /\ \A size \in PageSizes : f[size] = <<>>
  OBVIOUS
<1> HIDE DEF c, bs, f
<1>4. /\ c \in Caches /\ c.blocks = bs /\ c.unusedblocklist = <<>> /\ c.freeblocklist = f
      /\ c.sizeallocated = 0
  BY <1>1, <1>2, <1>3 DEF Caches
<1>5. Mapped(c) = {}
  BY <1>2, <1>4 DEF Mapped
<1>6. CacheLists(c)
  BY <1>3, <1>4, <1>5, EmptyList DEF CacheLists
<1>7. Occupied({}) = {}
  BY DEF Occupied
<1>8. IsFiniteSet({}) /\ Cardinality({}) = 0
  BY FS_EmptySet
<1>9. CacheOK(c, {})
  BY <1>4, <1>5, <1>6, <1>7, <1>8 DEF CacheOK, ListsOK
<1> QED BY <1>5, <1>9 DEF Using, OneIdle, c

\* A sub-block which is prepared gives its page away.
LEMMA AllocatesGood ==
    ASSUME NEW c, NEW b \in Blocks, NEW s \in Subblocks, NEW size \in PageSizes,
           Prepared(c, held, b, s, size), Allocate(c, b, s, size)
    PROVE  CacheGood'
<1> DEFINE r == [AllocBlock(c, b, s, size) EXCEPT !.sizeallocated = @ + size]
           g == held \cup {Page(b, s, NextPage(c.blocks[b].sub[s]), size)}
<1>1. held \in SUBSET AllPages
  BY DEF Prepared, CacheOK
<1>2. CacheOK(r, g) /\ Using(r, g) /\ OneIdle(r, g)
  BY <1>1, AllocOK
<1>3. cache' = r /\ held' = g
  BY DEF Allocate
<1> HIDE DEF r, g
<1> QED BY <1>2, <1>3 DEF CacheGood

\* A sub-block without use is activated and gives its first page away.
LEMMA AllocatesUnusedGood ==
    ASSUME NEW c, NEW b \in Blocks, NEW size \in PageSizes, CacheOK(c, held), Using(c, held),
           IdleBut(c, held, b), b \in Mapped(c), ~UsedUp(c.blocks[b]),
           AllocateUnused(c, b, UnusedSub(c.blocks[b]), size)
    PROVE  CacheGood'
<1> DEFINE s == UnusedSub(c.blocks[b])
           q == EnterFreeList(TakeUnused(c, b, s, size), b, s, size)
<1>1. held \in SUBSET AllPages /\ BlockOK(c.blocks[b], b, held)
  BY DEF CacheOK
<1>2. s \in Subblocks
  <2> DEFINE blk == c.blocks[b]
  <2>1. BlockOK(blk, b, held) /\ ~UsedUp(blk)
    BY <1>1
  <2> HIDE DEF blk
  <2>2. UnusedSub(blk) \in Subblocks
    BY <1>1, <2>1, UnusedIs
  <2> QED BY <2>2 DEF blk
<1>3. Allocate(q, b, s, size)
  BY DEF AllocateUnused
<1>4. Prepared(q, held, b, s, size)
  <2>1. s = UnusedSub(c.blocks[b])
    OBVIOUS
  <2> HIDE DEF s
  <2> QED BY <1>1, <1>2, <2>1, ActivateOK
<1> HIDE DEF q, s
<1> QED BY <1>2, <1>3, <1>4, AllocatesGood

\* allocpage_pagecacheimpl with a page of a sub-block in use.
LEMMA FreePageGood ==
    ASSUME CacheGood, NEW size \in PageSizes, AllocFreePage(size)
    PROVE  CacheGood'
<1> DEFINE b == Head(cache.freeblocklist[size])
           s == FirstFree(cache, b, size)
           list == cache.blocks[b].freesublist[size]
<1>1. /\ CacheOK(cache, held) /\ Using(cache, held) /\ OneIdle(cache, held)
      /\ ListsOK(cache) /\ held \in SUBSET AllPages
  BY DEF CacheGood, CacheOK
<1>2. /\ cache.freeblocklist[size] # <<>> /\ Allocate(cache, b, s, size)
  BY DEF AllocFreePage
<1>3. b \in Mapped(cache) /\ list # <<>> /\ b \in Blocks
  <2> DEFINE l == cache.freeblocklist[size]
  <2>1. l \in Seq(Blocks) /\ IsInjective(l) /\ l # <<>>
    BY <1>1, <1>2, CacheType
  <2>2. ToSet(l) = {a \in Mapped(cache) : cache.blocks[a].freesublist[size] # <<>>}
    BY <1>1, CacheType
  <2>3. Head(l) \in ToSet(l)
    <3> HIDE DEF l
    <3> QED BY <2>1, TailList
  <2> HIDE DEF l
  <2>4. Head(l) \in Mapped(cache) /\ cache.blocks[Head(l)].freesublist[size] # <<>>
    BY <2>2, <2>3
  <2> QED BY <2>4 DEF l, Mapped
<1>4. /\ s \in Subblocks /\ cache.blocks[b].sub[s].pgsize = size
      /\ cache.blocks[b].sub[s].header # 0
  <2>1. cache.blocks[b] \in BlockRecords /\ BlockLists(cache.blocks[b])
    BY <1>1, <1>3 DEF CacheOK, BlockOK
  <2>2. list \in Seq(Subblocks)
    BY <2>1, BlockType
  <2>3. /\ IsInjective(list)
        /\ ToSet(list) = {t \in Subblocks : cache.blocks[b].sub[t].pgsize = size
                                              /\ cache.blocks[b].sub[t].header # 0}
    BY <2>1 DEF BlockLists
  <2>4. s = Head(list)
    BY DEF FirstFree
  <2> HIDE DEF b, s, list
  <2>5. s \in ToSet(list)
    BY <1>3, <2>2, <2>3, <2>4, TailList
  <2> QED BY <2>3, <2>5
<1> HIDE DEF b, s, list
<1>5. UsingBut(cache, held, b, s)
  BY <1>1 DEF UsingBut, Using
<1>6. IdleBut(cache, held, b)
  BY <1>1, <1>3 DEF IdleBut, OneIdle
<1>7. Prepared(cache, held, b, s, size)
  BY <1>1, <1>3, <1>4, <1>5, <1>6 DEF Prepared
<1> QED BY <1>2, <1>3, <1>4, <1>7, AllocatesGood

\* allocpage_pagecacheimpl with an unused sub-block.
LEMMA UnusedSubblockGood ==
    ASSUME CacheGood, NEW size \in PageSizes, AllocUnusedSubblock(size)
    PROVE  CacheGood'
<1> DEFINE l == cache.unusedblocklist
           b == Head(l)
<1>1. /\ CacheOK(cache, held) /\ Using(cache, held) /\ OneIdle(cache, held)
      /\ ListsOK(cache)
  BY DEF CacheGood, CacheOK
<1>2. l # <<>> /\ AllocateUnused(cache, b, UnusedSub(cache.blocks[b]), size)
  BY DEF AllocUnusedSubblock
<1>3. /\ l \in Seq(Blocks) /\ IsInjective(l)
      /\ ToSet(l) = {a \in Mapped(cache) : ~UsedUp(cache.blocks[a])}
  BY <1>1, CacheType
<1> HIDE DEF l
<1>4. b \in ToSet(l)
  BY <1>2, <1>3, TailList
<1> HIDE DEF b
<1>5. b \in Mapped(cache) /\ ~UsedUp(cache.blocks[b]) /\ b \in Blocks
  BY <1>3, <1>4 DEF Mapped
<1>6. IdleBut(cache, held, b)
  BY <1>1, <1>5 DEF IdleBut, OneIdle
<1> QED BY <1>1, <1>2, <1>5, <1>6, AllocatesUnusedGood

\* allocpage_pagecacheimpl with a new block.
LEMMA NewBlockGood ==
    ASSUME CacheGood, NEW size \in PageSizes, NEW b \in Blocks, AllocNewBlock(size, b)
    PROVE  CacheGood'
<1> DEFINE c == NewBlock(cache, b)
<1>1. /\ CacheOK(cache, held) /\ Using(cache, held) /\ OneIdle(cache, held)
      /\ held \in SUBSET AllPages /\ IsFiniteSet(held) /\ \A q \in held : q.block \in Mapped(cache)
  BY DEF CacheGood, CacheOK
<1>2. /\ cache.unusedblocklist = <<>> /\ b \notin Mapped(cache)
      /\ size = SmallSize => Allocate(c, b, 0, size)
      /\ size # SmallSize => AllocateUnused(c, b, 1, size)
  BY DEF AllocNewBlock
<1>3. /\ CacheOK(c, held) /\ Using(c, held) /\ IdleBut(c, held, b)
      /\ b \in Mapped(c) /\ c.blocks[b] = FreshBlock
  BY <1>1, <1>2, NewOK
<1>4. /\ ~UsedUp(FreshBlock) /\ UnusedSub(FreshBlock) = 1
      /\ FreshBlock.sub[0].pgsize = SmallSize /\ FreshBlock.sub[0].header # 0
  <2>1. \A q \in held : q.block # b
    BY <1>1, <1>2
  <2> QED BY <1>1, <2>1, BlockNew
<1> HIDE DEF c
<1>5. CASE size = SmallSize
  <2>1. 0 \in Subblocks
    BY SmallPages
  <2>2. UsingBut(c, held, b, 0)
    BY <1>3 DEF UsingBut, Using
  <2>3. Prepared(c, held, b, 0, size)
    BY <1>3, <1>4, <1>5, <2>1, <2>2 DEF Prepared
  <2> QED BY <1>2, <1>5, <2>1, <2>3, AllocatesGood
<1>6. CASE size # SmallSize
  <2>1. AllocateUnused(c, b, UnusedSub(c.blocks[b]), size) /\ ~UsedUp(c.blocks[b])
    BY <1>2, <1>3, <1>4, <1>6
  <2> QED BY <1>3, <2>1, AllocatesUnusedGood
<1> QED BY <1>5, <1>6

\* releasepage_pagecacheimpl
LEMMA ReleaseGood ==
    ASSUME CacheGood, NEW p \in Pages, Release(p)
    PROVE  CacheGood'
<1> DEFINE b == p.block
           s == p.sub
           g == held \ {p}
           r == ReleaseBlock(cache, b, s, PageIndex(p), p.size)
<1>1. /\ CacheOK(cache, held) /\ Using(cache, held) /\ OneIdle(cache, held)
      /\ held \in SUBSET AllPages
  BY DEF CacheGood, CacheOK
<1>2. Accepts(p) /\ cache' = AfterRelease(r, b) /\ held' = g
  BY DEF Release
<1>3. p \in held
  BY <1>1, <1>2, AcceptsHeld
<1>4. p \in AllPages /\ b \in Blocks /\ s \in Subblocks /\ p.block = b /\ p.sub = s
  BY <1>1, <1>3, PageType
<1>5. CacheOK(r, g) /\ Using(r, g) /\ IdleBut(r, g, b) /\ b \in Mapped(r)
  <2> HIDE DEF b, s
  <2> QED BY ONLY <1>1, <1>3, <1>4, ReleaseOK DEF r, g
<1>6. g \in SUBSET AllPages
  BY <1>1
<1> HIDE DEF b, g, r
<1>7. CacheOK(AfterRelease(r, b), g) /\ Using(AfterRelease(r, b), g) /\ OneIdle(AfterRelease(r, b), g)
  BY <1>5, <1>6, AfterReleaseOK
<1> QED BY <1>2, <1>7 DEF CacheGood

\* emptycache_pagecacheimpl
LEMMA EmptyCacheGood ==
    ASSUME CacheGood, Empty
    PROVE  CacheGood'
<1> DEFINE T == {b \in Mapped(cache) : cache.blocks[b].nrused = 0}
           r == DeleteBlocks(cache, T)
<1>1. /\ CacheOK(cache, held) /\ Using(cache, held) /\ OneIdle(cache, held)
      /\ held \in SUBSET AllPages
  BY DEF CacheGood, CacheOK
<1>2. cache' = r /\ held' = held
  BY DEF Empty
<1>3. T \in SUBSET Blocks /\ \A p \in held : p.block \notin T
  <2>1. \A b \in Mapped(cache) : cache.blocks[b].nrused = 0 <=> \A p \in held : p.block # b
    BY <1>1, Counters
  <2> QED BY <2>1 DEF Mapped
<1> HIDE DEF T
<1>4. CacheOK(r, held) /\ Using(r, held) /\ Mapped(r) = Mapped(cache) \ T
  BY <1>1, <1>3, DeleteOK
<1>5. OneIdle(r, held)
  BY <1>1, <1>4 DEF OneIdle
<1> HIDE DEF r
<1> QED BY <1>2, <1>4, <1>5 DEF CacheGood

\* Every step leaves the cache as it has to be.
LEMMA NextGood ==
    ASSUME CacheGood, [Next]_vars
    PROVE  CacheGood'
<1>1. ASSUME NEW size \in PageSizes, AllocFreePage(size) PROVE CacheGood'
  BY <1>1, FreePageGood
<1>2. ASSUME NEW size \in PageSizes, AllocUnusedSubblock(size) PROVE CacheGood'
  BY <1>2, UnusedSubblockGood
<1>3. ASSUME NEW size \in PageSizes, NEW b \in Blocks, AllocNewBlock(size, b) PROVE CacheGood'
  BY <1>3, NewBlockGood
<1>4. ASSUME NEW p \in Pages, Release(p) PROVE CacheGood'
  BY <1>4, ReleaseGood
<1>5. CASE Empty
  BY <1>5, EmptyCacheGood
<1>6. CASE Free
  BY <1>6, EmptyGood DEF Free, CacheGood
<1>7. CASE UNCHANGED vars
  BY <1>7 DEF vars, CacheGood
<1> QED BY <1>1, <1>2, <1>3, <1>4, <1>5, <1>6, <1>7 DEF Next

\* What CacheGood says, in the words of the properties.
LEMMA GoodGivesInv ==
    ASSUME CacheGood
    PROVE  CacheInv /\ AcceptsAllocated
<1>1. /\ CacheOK(cache, held) /\ Using(cache, held) /\ OneIdle(cache, held)
      /\ ListsOK(cache) /\ held \in SUBSET AllPages
  BY DEF CacheGood, CacheOK
<1>2. ASSUME NEW b \in Mapped(cache)
      PROVE  /\ BlockAccounted(cache.blocks[b], b, held) /\ BlockLists(cache.blocks[b])
             /\ \A s \in Subblocks : SubShape(cache.blocks[b].sub[s], s)
  <2>1. BlockOK(cache.blocks[b], b, held)
    BY <1>1 DEF CacheOK
  <2>2. \A s \in Subblocks : SubOK(cache.blocks[b].sub[s], s, HeldIn(held, b, s))
    BY <2>1 DEF BlockOK
  <2>3. BlockAccounted(cache.blocks[b], b, held)
    BY <2>1, <2>2 DEF BlockOK, SubOK, BlockAccounted
  <2> QED BY <2>1, <2>2, <2>3 DEF BlockOK, SubOK
<1>3. TypeOK
  BY <1>1 DEF TypeOK, CacheOK, ListsOK
<1>4. PagesAccounted
  BY <1>1, <1>2 DEF PagesAccounted, CacheOK
<1>5. ListsComplete
  BY <1>1, <1>2 DEF ListsComplete, ListsOK
<1>6. SubsInv
  BY <1>1, <1>2 DEF SubsInv, Using
<1>7. OneIdleBlock
  <2>1. \A b \in Mapped(cache) : /\ cache.blocks[b].nrused \in Nat
                                 /\ cache.blocks[b].nrused = 0 <=> \A p \in held : p.block # b
    BY <1>1, Counters
  <2> QED BY <1>1, <2>1 DEF OneIdle, OneIdleBlock
<1>8. AcceptsAllocated
  BY <1>1, AcceptsHeld DEF AcceptsAllocated
<1> QED BY <1>3, <1>4, <1>5, <1>6, <1>7, <1>8 DEF CacheInv

\* The cache, its blocks and its sub-blocks describe the pages clients hold, always.
LEMMA AlwaysGood == Spec => []CacheGood
<1>1. Init => CacheGood
  BY EmptyGood DEF Init, CacheGood
<1>2. CacheGood /\ [Next]_vars => CacheGood'
  BY NextGood
<1> QED BY <1>1, <1>2, PTL DEF Spec

-----------------------------------------------------------------------------
(* The theorems *)

\* The lists, the headers of the sub-blocks, the counters and the pages clients hold
\* agree after every call of the page cache.
THEOREM CacheInvariant == Spec => []CacheInv
BY AlwaysGood, GoodGivesInv, PTL

\* The members of the page cache have their types and pages start at multiples of
\* their sizes.
THEOREM TypeCorrect == Spec => []TypeOK
<1>1. CacheInv => TypeOK
  BY DEF CacheInv
<1> QED BY <1>1, CacheInvariant, PTL

\* No header and no list node is written over a page a client holds, no page is lost,
\* and the counters of pages are right, whatever the sizes are.
THEOREM AllPagesAccounted == Spec => []PagesAccounted
<1>1. CacheInv => PagesAccounted
  BY DEF CacheInv
<1> QED BY <1>1, CacheInvariant, PTL

\* A block is in the list of a page size exactly if it has a free page of that size in
\* a sub-block in use, and in the list of unused ones exactly if it has an unused
\* sub-block: allocpage_pagecacheimpl need not search.
THEOREM AllListsComplete == Spec => []ListsComplete
<1>1. CacheInv => ListsComplete
  BY DEF CacheInv
<1> QED BY <1>1, CacheInvariant, PTL

\* releasepage_pagecacheimpl accepts exactly the pages clients hold.
THEOREM AcceptsOnlyAllocated == Spec => []AcceptsAllocated
BY AlwaysGood, GoodGivesInv, PTL

\* Blocks without pages are returned to the system, all but one.
THEOREM KeepsOneIdleBlock == Spec => []OneIdleBlock
<1>1. CacheInv => OneIdleBlock
  BY DEF CacheInv
<1> QED BY <1>1, CacheInvariant, PTL

=============================================================================
