--------------------------- MODULE SyncRunnerProofs ---------------------------
(***************************************************************************)
(* Proofs about SyncQueue and SyncRunner, for pages with any number of     *)
(* slots and any sets of functions and conditions.  The first part is      *)
(* about the operations of a queue; its main result is that compact_sq     *)
(* keeps the invariants of the queue and moves every function to a slot of *)
(* its own.  The second part shows that RunnerInv is inductive, the third  *)
(* that SyncRunner implements FunctionScheduler.                           *)
(***************************************************************************)
EXTENDS SyncRunner, WaitListLemmas, FiniteSetTheorems

-----------------------------------------------------------------------------
(* The operations of a queue *)

\* The members of a queue have their types.
LEMMA QueueType ==
    ASSUME NEW q \in Queues
    PROVE  /\ q.size \in Nat /\ q.firstfree \in Nat /\ q.nextfree \in 0..N
           /\ q.nrfree \in Nat /\ q.freelist_size \in Nat
           /\ q.slot \in Seq(Funcs \cup {NoFunc})
           /\ q.freelist \in Seq(Nat \ {0})
           /\ Used(q) \in Int /\ N \in Nat \ {0}
BY SyncQueueAssumption DEF Queues, Used

\* What QueueOK says, with the types of all members.
LEMMA QueueMembers ==
    ASSUME NEW q \in Queues, QueueOK(q)
    PROVE  /\ q.size \in Nat /\ q.firstfree \in Nat /\ q.nextfree \in 0..N /\ N \in Nat \ {0}
           /\ q.nrfree \in Nat /\ q.freelist_size \in Nat
           /\ q.slot \in Seq(Funcs \cup {NoFunc}) /\ Len(q.slot) = q.size
           /\ DOMAIN q.slot = 1..q.size
           /\ q.freelist \in Seq(Nat \ {0}) /\ q.freelist_size = Len(q.freelist)
           /\ Used(q) \in Nat /\ Used(q) <= q.size /\ q.nrfree = q.size - Used(q)
           /\ IsInjective(q.freelist)
           /\ ToSet(q.freelist) = {i \in 1..Used(q) : q.slot[i] = NoFunc}
           /\ \A i \in 1..q.size : i > Used(q) => q.slot[i] = NoFunc
           /\ q.firstfree = 0 <=> q.size = 0
           /\ q.nextfree = 0 => q.firstfree \in {0, 1}
           /\ q.firstfree = 0 => q.nextfree = 0
<1>1. /\ q.size \in Nat /\ q.firstfree \in Nat /\ q.nextfree \in 0..N /\ N \in Nat \ {0}
      /\ q.nrfree \in Nat /\ q.freelist_size \in Nat
      /\ q.slot \in Seq(Funcs \cup {NoFunc})
      /\ q.freelist \in Seq(Nat \ {0})
      /\ Used(q) \in Int
  BY QueueType
<1>2. Len(q.slot) = q.size /\ DOMAIN q.slot = 1..q.size /\ q.nrfree = q.size - Used(q)
  BY <1>1 DEF QueueOK
<1>3. Used(q) >= 0
  <2>1. CASE q.firstfree = 0
    BY <2>1 DEF Used
  <2>2. CASE q.firstfree # 0
    <3>1. q.firstfree - 1 \in Nat
      BY <1>1, <2>2
    <3>2. (q.firstfree - 1) * N \in Nat
      BY <1>1, <3>1
    <3> QED BY <1>1, <2>2, <3>2 DEF Used
  <2> QED BY <2>1, <2>2
<1>4. Used(q) \in Nat /\ Used(q) <= q.size
  BY <1>1, <1>2, <1>3
<1> QED BY <1>1, <1>2, <1>4 DEF QueueOK

\* The other direction.
LEMMA QueueIntro ==
    ASSUME NEW q \in Queues,
           Len(q.slot) = q.size, q.freelist_size = Len(q.freelist),
           q.nrfree = q.size - Used(q),
           IsInjective(q.freelist),
           ToSet(q.freelist) = {i \in 1..Used(q) : q.slot[i] = NoFunc},
           \A i \in 1..q.size : i > Used(q) => q.slot[i] = NoFunc,
           q.firstfree = 0 <=> q.size = 0,
           q.nextfree = 0 => q.firstfree \in {0, 1},
           q.firstfree = 0 => q.nextfree = 0
    PROVE  QueueOK(q)
<1>1. DOMAIN q.slot = 1..q.size /\ q.nrfree >= 0
  BY QueueType
<1> QED BY <1>1 DEF QueueOK

\* The slots which were handed out are full or in freelist, and Inuse counts the full
\* ones.
LEMMA QueueSlots ==
    ASSUME NEW q \in Queues, QueueOK(q)
    PROVE  /\ Live(q) \subseteq 1..Used(q)
           /\ ToSet(q.freelist) = (1..Used(q)) \ Live(q)
           /\ IsFiniteSet(Live(q))
           /\ Cardinality(Live(q)) = Inuse(q)
<1>1. /\ q.size \in Nat /\ q.firstfree \in Nat /\ q.nextfree \in 0..N /\ N \in Nat \ {0}
      /\ q.nrfree \in Nat /\ q.freelist_size \in Nat
      /\ q.slot \in Seq(Funcs \cup {NoFunc}) /\ Len(q.slot) = q.size
      /\ DOMAIN q.slot = 1..q.size
      /\ q.freelist \in Seq(Nat \ {0}) /\ q.freelist_size = Len(q.freelist)
      /\ Used(q) \in Nat /\ Used(q) <= q.size /\ q.nrfree = q.size - Used(q)
      /\ IsInjective(q.freelist)
      /\ ToSet(q.freelist) = {i \in 1..Used(q) : q.slot[i] = NoFunc}
      /\ \A i \in 1..q.size : i > Used(q) => q.slot[i] = NoFunc
      /\ q.firstfree = 0 <=> q.size = 0
      /\ q.nextfree = 0 => q.firstfree \in {0, 1}
      /\ q.firstfree = 0 => q.nextfree = 0
  BY QueueMembers
<1>2. Live(q) \subseteq 1..Used(q) /\ ToSet(q.freelist) = (1..Used(q)) \ Live(q)
  BY <1>1 DEF Live
<1>3. IsFiniteSet(1..Used(q)) /\ Cardinality(1..Used(q)) = Used(q)
  BY <1>1, FS_Interval
<1>4. IsFiniteSet(Live(q)) /\ Cardinality(Live(q)) \in Nat
  BY <1>2, <1>3, FS_Subset, FS_CardinalityType
<1>5. Cardinality(ToSet(q.freelist)) = q.freelist_size
  BY <1>1, InjectiveLength
<1>6. Cardinality((1..Used(q)) \ Live(q)) = Used(q) - Cardinality(Live(q))
  <2>1. (1..Used(q)) \cap Live(q) = Live(q)
    BY <1>2
  <2>2. Cardinality((1..Used(q)) \ Live(q))
          = Cardinality(1..Used(q)) - Cardinality((1..Used(q)) \cap Live(q))
    BY <1>3, FS_Difference
  <2> QED BY <1>3, <2>1, <2>2
<1>7. Used(q) \in Nat /\ q.freelist_size \in Nat /\ q.nrfree = q.size - Used(q) /\ q.size \in Nat
  BY <1>1
<1>8. Cardinality(Live(q)) = Used(q) - q.freelist_size
  BY <1>2, <1>4, <1>5, <1>6, <1>7
<1> QED BY <1>2, <1>4, <1>7, <1>8 DEF Inuse, Nrfree

\* grow_sq: a page of free slots is appended.
LEMMA GrowQueue ==
    ASSUME NEW q \in Queues, QueueOK(q)
    PROVE  /\ Grow(q) \in Queues /\ QueueOK(Grow(q))
           /\ Live(Grow(q)) = Live(q)
           /\ \A i \in Live(q) : Grow(q).slot[i] = q.slot[i]
           /\ Nrfree(Grow(q)) = Nrfree(q) + N
           /\ Inuse(Grow(q)) = Inuse(q)
           /\ Used(Grow(q)) = Used(q)
           /\ Grow(q).freelist_size = q.freelist_size
<1> DEFINE r == Grow(q)
           page == [i \in 1..N |-> NoFunc]
           size == q.size + N
           nrfree == q.nrfree + N
           slot == q.slot \o page
           firstfree == IF q.size = 0 THEN 1 ELSE q.firstfree
<1>0. /\ q.size \in Nat /\ q.firstfree \in Nat /\ q.nextfree \in 0..N /\ N \in Nat \ {0}
      /\ q.nrfree \in Nat /\ q.freelist_size \in Nat
      /\ Used(q) \in Nat /\ Used(q) <= q.size /\ q.nrfree = q.size - Used(q)
      /\ q.firstfree = 0 <=> q.size = 0
      /\ q.nextfree = 0 => q.firstfree \in {0, 1}
      /\ q.firstfree = 0 => q.nextfree = 0
  BY QueueMembers
<1>1. /\ q.size \in Nat /\ q.firstfree \in Nat /\ q.nextfree \in 0..N /\ N \in Nat \ {0}
      /\ q.nrfree \in Nat /\ q.freelist_size \in Nat
      /\ q.slot \in Seq(Funcs \cup {NoFunc}) /\ Len(q.slot) = q.size
      /\ DOMAIN q.slot = 1..q.size
      /\ q.freelist \in Seq(Nat \ {0}) /\ q.freelist_size = Len(q.freelist)
      /\ Used(q) \in Nat /\ Used(q) <= q.size /\ q.nrfree = q.size - Used(q)
      /\ IsInjective(q.freelist)
      /\ ToSet(q.freelist) = {i \in 1..Used(q) : q.slot[i] = NoFunc}
      /\ \A i \in 1..q.size : i > Used(q) => q.slot[i] = NoFunc
      /\ q.firstfree = 0 <=> q.size = 0
      /\ q.nextfree = 0 => q.firstfree \in {0, 1}
      /\ q.firstfree = 0 => q.nextfree = 0
  BY QueueMembers
<1>2. page \in Seq(Funcs \cup {NoFunc}) /\ Len(page) = N /\ \A i \in 1..N : page[i] = NoFunc
  BY <1>1
<1> HIDE DEF page
<1>3. slot \in Seq(Funcs \cup {NoFunc})
  BY <1>1, <1>2
<1>4. Len(slot) = size
  <2>1. Len(slot) = Len(q.slot) + Len(page)
    <3>1. q.slot \in Seq(Funcs \cup {NoFunc})
      BY <1>1
    <3> QED BY <1>2, <3>1, ConcatProperties
  <2> QED BY <1>1, <1>2, <2>1
<1>5. \A i \in 1..size : slot[i] = IF i <= q.size THEN q.slot[i] ELSE NoFunc
  BY <1>1, <1>2
<1>6. size \in Nat /\ nrfree \in Nat /\ firstfree \in Nat
  BY <1>0
<1>7. r = [q EXCEPT !.size = size, !.nrfree = nrfree, !.slot = slot, !.firstfree = firstfree]
  BY DEF Grow, page
<1>8. /\ size = q.size + N /\ nrfree = q.nrfree + N
      /\ q.size = 0 => firstfree = 1
      /\ q.size # 0 => firstfree = q.firstfree
  OBVIOUS
<1> HIDE DEF r, slot, size, nrfree, firstfree
<1>9. r \in Queues
  BY <1>3, <1>6, <1>7 DEF Queues
<1>10. /\ r.size = size /\ r.nrfree = nrfree /\ r.slot = slot /\ r.firstfree = firstfree
       /\ r.nextfree = q.nextfree
       /\ r.freelist = q.freelist /\ r.freelist_size = q.freelist_size
  BY <1>7 DEF Queues
<1>11. Used(r) = Used(q)
  <2>1. CASE q.size = 0
    <3>1. Used(q) = 0 /\ q.nextfree = 0
      BY <1>1, <2>1 DEF Used
    <3>2. Used(r) = (1 - 1) * N + 0
      BY <1>8, <1>10, <2>1, <3>1 DEF Used
    <3> QED BY <1>1, <3>1, <3>2
  <2>2. CASE q.size # 0
    BY <1>8, <1>10, <2>2 DEF Used
  <2> QED BY <2>1, <2>2
<1>12. /\ \A i \in 1..q.size : i \in 1..size /\ slot[i] = q.slot[i]
       /\ \A i \in 1..size : i > q.size => slot[i] = NoFunc
  <2>1. /\ q.size \in Nat /\ N \in Nat /\ size = q.size + N
        /\ \A i \in 1..size : slot[i] = IF i <= q.size THEN q.slot[i] ELSE NoFunc
    BY <1>0, <1>5, <1>8
  <2> QED BY <2>1
<1>13. Live(r) = Live(q) /\ \A i \in Live(q) : r.slot[i] = q.slot[i]
  <2>1. DOMAIN r.slot = 1..size
    BY <1>3, <1>4, <1>6, <1>10
  <2>2. \A i \in 1..size : slot[i] # NoFunc => i \in 1..q.size
    BY <1>0, <1>6, <1>12
  <2> QED BY <1>1, <1>10, <1>12, <2>1, <2>2 DEF Live
<1>14. QueueOK(r)
  <2>1. \A i \in 1..Used(q) : i \in 1..q.size /\ slot[i] = q.slot[i]
    BY <1>1, <1>12
  <2>2. ToSet(r.freelist) = {i \in 1..Used(r) : r.slot[i] = NoFunc}
    BY <1>1, <1>10, <1>11, <2>1
  <2>3. \A i \in 1..size : i > Used(q) => slot[i] = NoFunc
    <3> SUFFICES ASSUME NEW i \in 1..size, i > Used(q) PROVE slot[i] = NoFunc
      OBVIOUS
    <3>1. CASE i <= q.size
      <4>1. i \in 1..q.size
        BY <1>1, <1>6, <3>1
      <4> QED BY <1>1, <1>12, <4>1
    <3>2. CASE ~(i <= q.size)
      BY <1>1, <1>6, <1>12, <3>2
    <3> QED BY <3>1, <3>2
  <2>4. r.nrfree = r.size - Used(r)
    BY <1>1, <1>8, <1>10, <1>11
  <2>5. /\ r.firstfree # 0 /\ r.size # 0
        /\ r.nextfree = 0 => r.firstfree \in {0, 1}
    BY <1>1, <1>8, <1>10
  <2> QED BY <1>1, <1>4, <1>9, <1>10, <1>11, <2>2, <2>3, <2>4, <2>5, QueueIntro
<1>15. Nrfree(r) = Nrfree(q) + N /\ Inuse(r) = Inuse(q)
  BY ONLY <1>0, <1>8, <1>10 DEF Nrfree, Inuse
<1> QED BY <1>9, <1>10, <1>11, <1>13, <1>14, <1>15 DEF r

\* shrink_sq: a page without a full slot is released, if there is one.
LEMMA ShrinkQueue ==
    ASSUME NEW q \in Queues, QueueOK(q)
    PROVE  /\ Shrink(q) \in Queues /\ QueueOK(Shrink(q))
           /\ Live(Shrink(q)) = Live(q)
           /\ \A i \in Live(q) : Shrink(q).slot[i] = q.slot[i]
           /\ Nrfree(Shrink(q)) >= Nrfree(q) - N
           /\ Inuse(Shrink(q)) = Inuse(q)
           /\ Shrink(q).freelist_size = q.freelist_size
<1> DEFINE r == Shrink(q)
           size == q.size - N
           nrfree == q.nrfree - N
           slot == SubSeq(q.slot, 1, size)
           firstfree == IF q.size = N THEN 0 ELSE q.firstfree
<1>0. /\ q.size \in Nat /\ q.firstfree \in Nat /\ q.nextfree \in 0..N /\ N \in Nat \ {0}
      /\ q.nrfree \in Nat /\ q.freelist_size \in Nat
      /\ Used(q) \in Nat /\ Used(q) <= q.size /\ q.nrfree = q.size - Used(q)
      /\ q.firstfree = 0 <=> q.size = 0
      /\ q.nextfree = 0 => q.firstfree \in {0, 1}
      /\ q.firstfree = 0 => q.nextfree = 0
  BY QueueMembers
<1>1. /\ q.size \in Nat /\ q.firstfree \in Nat /\ q.nextfree \in 0..N /\ N \in Nat \ {0}
      /\ q.nrfree \in Nat /\ q.freelist_size \in Nat
      /\ q.slot \in Seq(Funcs \cup {NoFunc}) /\ Len(q.slot) = q.size
      /\ DOMAIN q.slot = 1..q.size
      /\ q.freelist \in Seq(Nat \ {0}) /\ q.freelist_size = Len(q.freelist)
      /\ Used(q) \in Nat /\ Used(q) <= q.size /\ q.nrfree = q.size - Used(q)
      /\ IsInjective(q.freelist)
      /\ ToSet(q.freelist) = {i \in 1..Used(q) : q.slot[i] = NoFunc}
      /\ \A i \in 1..q.size : i > Used(q) => q.slot[i] = NoFunc
      /\ q.firstfree = 0 <=> q.size = 0
      /\ q.nextfree = 0 => q.firstfree \in {0, 1}
      /\ q.firstfree = 0 => q.nextfree = 0
  BY QueueMembers
<1>2. CASE q.nrfree < N
  <2>1. Shrink(q) = q
    BY <1>2 DEF Shrink
  <2>2. Nrfree(q) >= Nrfree(q) - N
    BY <1>1 DEF Nrfree
  <2> QED BY <2>1, <2>2
<1>3. CASE ~(q.nrfree < N)
  <2>1. size \in Nat /\ nrfree \in Nat /\ firstfree \in Nat /\ Used(q) <= size
    BY <1>0, <1>3
  <2>2. /\ slot \in Seq(Funcs \cup {NoFunc}) /\ Len(slot) = size
        /\ \A i \in 1..size : slot[i] = q.slot[i]
    <3>1. q.slot \in Seq(Funcs \cup {NoFunc}) /\ size \in Nat /\ size <= Len(q.slot)
      BY <1>1, <1>0, <2>1
    <3> HIDE DEF size
    <3> QED BY <3>1
  <2>3. r = [q EXCEPT !.size = size, !.nrfree = nrfree, !.slot = slot, !.firstfree = firstfree]
    BY <1>3 DEF Shrink
  <2>4. /\ size = q.size - N /\ nrfree = q.nrfree - N
        /\ q.size = N => firstfree = 0
        /\ q.size # N => firstfree = q.firstfree
    OBVIOUS
  <2> HIDE DEF r, slot, size, nrfree, firstfree
  <2>5. r \in Queues
    BY <2>1, <2>2, <2>3 DEF Queues
  <2>6. /\ r.size = size /\ r.nrfree = nrfree /\ r.slot = slot /\ r.firstfree = firstfree
        /\ r.nextfree = q.nextfree
        /\ r.freelist = q.freelist /\ r.freelist_size = q.freelist_size
    BY <2>3 DEF Queues
  <2>7. q.size = N => q.nextfree = 0 /\ Used(q) = 0
    <3> SUFFICES ASSUME q.size = N PROVE q.nextfree = 0 /\ Used(q) = 0
      OBVIOUS
    <3>1. Used(q) = 0 /\ q.firstfree # 0
      BY <1>0, <2>1, <2>4
    <3>2. q.firstfree - 1 \in Nat
      BY <1>0, <3>1
    <3>3. (q.firstfree - 1) * N \in Nat
      BY <1>0, <3>2
    <3>4. (q.firstfree - 1) * N + q.nextfree = 0
      BY <3>1 DEF Used
    <3>5. q.nextfree = 0
      <4> DEFINE full == (q.firstfree - 1) * N
      <4>1. full \in Nat /\ full + q.nextfree = 0
        BY <3>3, <3>4
      <4> HIDE DEF full
      <4> QED BY <1>1, <4>1
    <3> QED BY <3>1, <3>5
  <2>8. Used(r) = Used(q)
    <3>1. CASE q.size = N
      BY <2>4, <2>6, <2>7, <3>1 DEF Used
    <3>2. CASE q.size # N
      BY <2>4, <2>6, <3>2 DEF Used
    <3> QED BY <3>1, <3>2
  <2>9. \A i \in 1..q.size : q.slot[i] # NoFunc => i \in 1..size
    BY <1>1, <2>1
  <2>10. Live(r) = Live(q) /\ \A i \in Live(q) : r.slot[i] = q.slot[i]
    <3>1. DOMAIN r.slot = 1..size
      BY <2>1, <2>2, <2>6
    <3>2. \A i \in 1..size : i \in 1..q.size
      BY <1>1, <2>1, <2>4
    <3> QED BY <1>1, <2>2, <2>6, <2>9, <3>1, <3>2 DEF Live
  <2>11. QueueOK(r)
    <3>1. \A i \in 1..Used(q) : i \in 1..size /\ slot[i] = q.slot[i]
      BY <1>1, <2>1, <2>2
    <3>2. ToSet(r.freelist) = {i \in 1..Used(r) : r.slot[i] = NoFunc}
      BY <1>1, <2>6, <2>8, <3>1
    <3>3. \A i \in 1..size : i > Used(q) => slot[i] = NoFunc
      <4>1. \A i \in 1..size : i \in 1..q.size
        BY <1>0, <2>1, <2>4
      <4> QED BY <1>1, <2>2, <4>1
    <3>4. r.nrfree = r.size - Used(r)
      BY <1>1, <2>4, <2>6, <2>8
    <3>5. /\ r.firstfree = 0 <=> r.size = 0
          /\ r.nextfree = 0 => r.firstfree \in {0, 1}
          /\ r.firstfree = 0 => r.nextfree = 0
      <4>1. CASE q.size = N
        BY <1>0, <2>4, <2>6, <2>7, <4>1
      <4>2. CASE q.size # N
        BY <1>0, <2>1, <2>4, <2>6, <4>2
      <4> QED BY <4>1, <4>2
    <3> QED BY <1>1, <2>2, <2>5, <2>6, <2>8, <3>2, <3>3, <3>4, <3>5, QueueIntro
  <2>12. Nrfree(r) >= Nrfree(q) - N /\ Inuse(r) = Inuse(q)
    BY <1>0, <2>4, <2>6 DEF Nrfree, Inuse
  <2> QED BY <2>5, <2>6, <2>10, <2>11, <2>12 DEF r
<1> QED BY <1>2, <1>3

\* sfalloc_sq: a hole is filled before a new slot is handed out.
LEMMA AllocQueue ==
    ASSUME NEW q \in Queues, QueueOK(q), NEW f \in Funcs, Nrfree(q) > 0
    PROVE  /\ SfAlloc(q, f) \in Queues /\ QueueOK(SfAlloc(q, f))
           /\ AllocSlot(q) \in Nat \ {0} /\ AllocSlot(q) \notin Live(q)
           /\ Live(SfAlloc(q, f)) = Live(q) \cup {AllocSlot(q)}
           /\ SfAlloc(q, f).slot[AllocSlot(q)] = f
           /\ \A i \in Live(q) : SfAlloc(q, f).slot[i] = q.slot[i]
           /\ Nrfree(SfAlloc(q, f)) = Nrfree(q) - 1
           /\ Inuse(SfAlloc(q, f)) = Inuse(q) + 1
           /\ Used(SfAlloc(q, f)) >= Used(q)
           /\ q.freelist_size = 0 => SfAlloc(q, f).freelist_size = 0
<1> DEFINE a == AllocSlot(q)
           r == SfAlloc(q, f)
           slot == [q.slot EXCEPT ![a] = f]
<1>0. /\ q.size \in Nat /\ q.firstfree \in Nat /\ q.nextfree \in 0..N /\ N \in Nat \ {0}
      /\ q.nrfree \in Nat /\ q.freelist_size \in Nat
      /\ Used(q) \in Nat /\ Used(q) <= q.size /\ q.nrfree = q.size - Used(q)
      /\ q.firstfree = 0 <=> q.size = 0
      /\ q.nextfree = 0 => q.firstfree \in {0, 1}
      /\ q.firstfree = 0 => q.nextfree = 0
  BY QueueMembers
<1>1. /\ q.size \in Nat /\ q.firstfree \in Nat /\ q.nextfree \in 0..N /\ N \in Nat \ {0}
      /\ q.nrfree \in Nat /\ q.freelist_size \in Nat
      /\ q.slot \in Seq(Funcs \cup {NoFunc}) /\ Len(q.slot) = q.size
      /\ DOMAIN q.slot = 1..q.size
      /\ q.freelist \in Seq(Nat \ {0}) /\ q.freelist_size = Len(q.freelist)
      /\ Used(q) \in Nat /\ Used(q) <= q.size /\ q.nrfree = q.size - Used(q)
      /\ IsInjective(q.freelist)
      /\ ToSet(q.freelist) = {i \in 1..Used(q) : q.slot[i] = NoFunc}
      /\ \A i \in 1..q.size : i > Used(q) => q.slot[i] = NoFunc
      /\ q.firstfree = 0 <=> q.size = 0
      /\ q.nextfree = 0 => q.firstfree \in {0, 1}
      /\ q.firstfree = 0 => q.nextfree = 0
  BY QueueMembers
<1>2. ASSUME a \in 1..q.size
      PROVE  /\ slot \in Seq(Funcs \cup {NoFunc}) /\ Len(slot) = q.size /\ DOMAIN slot = 1..q.size
             /\ slot[a] = f /\ f # NoFunc
             /\ \A i \in 1..q.size : i # a => slot[i] = q.slot[i]
  <2> HIDE DEF a
  <2> QED BY <1>1, <1>2, SyncQueueAssumption
<1>3. ASSUME r \in Queues, r.slot = slot, r.size = q.size, a \in 1..q.size, q.slot[a] = NoFunc
      PROVE  /\ a \in Nat \ {0} /\ a \notin Live(q)
             /\ Live(r) = Live(q) \cup {a}
             /\ r.slot[a] = f
             /\ \A i \in Live(q) : r.slot[i] = q.slot[i]
  <2> HIDE DEF a, r, slot
  <2>1. /\ DOMAIN r.slot = 1..q.size /\ r.slot[a] = f /\ f # NoFunc
        /\ \A i \in 1..q.size : i # a => r.slot[i] = q.slot[i]
    BY <1>2, <1>3
  <2>2. Live(q) = {i \in 1..q.size : q.slot[i] # NoFunc}
    BY <1>1 DEF Live
  <2>3. Live(r) = {i \in 1..q.size : r.slot[i] # NoFunc}
    BY <2>1 DEF Live
  <2>4. a \in Nat \ {0}
    BY <1>0, <1>3
  <2> QED BY <1>3, <2>1, <2>2, <2>3, <2>4
<1>4. CASE q.freelist_size # 0
  <2> DEFINE freelist == Tail(q.freelist)
             free == q.freelist_size - 1
  <2>1. a = Head(q.freelist) /\ q.freelist # <<>>
    BY <1>1, <1>4 DEF AllocSlot
  <2>2. /\ a \in ToSet(q.freelist)
        /\ freelist \in Seq(Nat \ {0}) /\ Len(freelist) = free /\ free \in Nat
        /\ IsInjective(freelist) /\ ToSet(freelist) = ToSet(q.freelist) \ {a}
    <3>1. /\ q.freelist \in Seq(Nat \ {0}) /\ IsInjective(q.freelist)
          /\ Len(q.freelist) = q.freelist_size /\ q.freelist_size \in Nat
      BY <1>1
    <3>2. Len(freelist) = Len(q.freelist) - 1
      BY <2>1, <3>1
    <3> HIDE DEF a
    <3> QED BY <1>4, <2>1, <3>1, <3>2, TailList
  <2>3. a \in 1..Used(q) /\ a \in 1..q.size /\ q.slot[a] = NoFunc
    BY <1>0, <1>1, <2>2
  <2>4. r = [q EXCEPT !.freelist_size = free, !.freelist = freelist, !.slot = slot]
    BY <1>4 DEF SfAlloc
  <2>5. free = q.freelist_size - 1
    OBVIOUS
  <2> HIDE DEF a, r, slot, free, freelist
  <2>6. r \in Queues
    BY <1>2, <2>2, <2>3, <2>4 DEF Queues
  <2>7. /\ r.size = q.size /\ r.nrfree = q.nrfree /\ r.slot = slot
        /\ r.firstfree = q.firstfree /\ r.nextfree = q.nextfree
        /\ r.freelist = freelist /\ r.freelist_size = free
    BY <2>4 DEF Queues
  <2>8. Used(r) = Used(q)
    BY <2>7 DEF Used
  <2>9. ToSet(r.freelist) = {i \in 1..Used(r) : r.slot[i] = NoFunc}
    <3>1. \A i \in 1..Used(q) : i \in 1..q.size
      BY <1>0
    <3>2. \A i \in 1..Used(q) : slot[i] = NoFunc <=> q.slot[i] = NoFunc /\ i # a
      BY <1>2, <2>3, <3>1
    <3>3. ToSet(q.freelist) = {i \in 1..Used(q) : q.slot[i] = NoFunc}
      BY <1>1
    <3> QED BY <2>2, <2>7, <2>8, <3>2, <3>3
  <2>10. \A i \in 1..r.size : i > Used(r) => r.slot[i] = NoFunc
    <3>1. a <= Used(q) /\ a \in Nat
      BY <1>0, <2>3
    <3>2. \A i \in 1..q.size : i > Used(q) => i # a
      BY <1>0, <3>1
    <3> QED BY <1>1, <1>2, <2>3, <2>7, <2>8, <3>2
  <2>11. QueueOK(r)
    <3>1. Len(r.slot) = r.size /\ r.freelist_size = Len(r.freelist) /\ IsInjective(r.freelist)
      BY <1>2, <2>2, <2>3, <2>7
    <3>2. /\ r.nrfree = r.size - Used(r)
          /\ r.firstfree = 0 <=> r.size = 0
          /\ r.nextfree = 0 => r.firstfree \in {0, 1}
          /\ r.firstfree = 0 => r.nextfree = 0
      BY <1>0, <2>7, <2>8
    <3> QED BY <2>6, <2>9, <2>10, <3>1, <3>2, QueueIntro
  <2>12. Nrfree(r) = Nrfree(q) - 1 /\ Inuse(r) = Inuse(q) + 1 /\ Used(r) >= Used(q)
    BY <1>0, <2>5, <2>7, <2>8 DEF Nrfree, Inuse
  <2> QED BY <1>3, <1>4, <2>3, <2>6, <2>7, <2>11, <2>12 DEF a, r
<1>5. CASE q.freelist_size = 0
  <2> DEFINE nrfree == q.nrfree - 1
             firstfree == IF PageFull(q) THEN q.firstfree + 1 ELSE q.firstfree
             nextfree == IF PageFull(q) THEN 1 ELSE q.nextfree + 1
  <2>1. nrfree \in Nat /\ Used(q) < q.size /\ q.firstfree # 0 /\ firstfree \in Nat \ {0}
    BY <1>0, <1>5 DEF Nrfree
  <2>2. nextfree \in 1..N
    BY <1>0 DEF PageFull
  <2>3. a = Used(q) + 1 /\ (firstfree - 1) * N + nextfree = Used(q) + 1
    <3>1. Used(q) = (q.firstfree - 1) * N + q.nextfree
      BY <2>1 DEF Used
    <3>2. CASE PageFull(q)
      <4>1. q.nextfree = N
        BY <3>2 DEF PageFull
      <4>2. (q.firstfree - 1) * N + N = q.firstfree * N
        BY <1>0
      <4>3. a = q.firstfree * N + 1 /\ firstfree = q.firstfree + 1 /\ nextfree = 1
        BY <1>5, <3>2 DEF AllocSlot
      <4>4. firstfree - 1 = q.firstfree
        BY <1>0, <4>3
      <4> QED BY <3>1, <4>1, <4>2, <4>3, <4>4
    <3>3. CASE ~PageFull(q)
      <4>1. a = (q.firstfree - 1) * N + q.nextfree + 1
        BY <1>5, <3>3 DEF AllocSlot
      <4>2. firstfree = q.firstfree /\ nextfree = q.nextfree + 1
        BY <3>3
      <4> QED BY <1>0, <3>1, <4>1, <4>2
    <3> QED BY <3>2, <3>3
  <2>4. a \in 1..q.size /\ a \notin 1..Used(q) /\ a > Used(q) /\ a = Used(q) + 1
    <3>1. a = Used(q) + 1
      BY <2>3
    <3> HIDE DEF a
    <3> QED BY <1>0, <2>1, <3>1
  <2>5. q.slot[a] = NoFunc
    BY <1>1, <2>4
  <2>6. r = [q EXCEPT !.nrfree = nrfree, !.firstfree = firstfree, !.nextfree = nextfree, !.slot = slot]
    BY <1>5 DEF SfAlloc
  <2>7. nrfree = q.nrfree - 1
    OBVIOUS
  <2> HIDE DEF a, r, slot, nrfree, firstfree, nextfree
  <2>8. r \in Queues
    <3>1. firstfree \in Nat /\ nextfree \in 0..N
      BY <2>1, <2>2
    <3> QED BY <1>2, <2>1, <2>4, <2>6, <3>1 DEF Queues
  <2>9. /\ r.size = q.size /\ r.nrfree = nrfree /\ r.slot = slot
        /\ r.firstfree = firstfree /\ r.nextfree = nextfree
        /\ r.freelist = q.freelist /\ r.freelist_size = q.freelist_size
    BY <2>6 DEF Queues
  <2>10. Used(r) = Used(q) + 1
    BY <2>1, <2>3, <2>9 DEF Used
  <2>11. ToSet(r.freelist) = {i \in 1..Used(r) : r.slot[i] = NoFunc}
    <3>1. ToSet(q.freelist) = {i \in 1..Used(q) : q.slot[i] = NoFunc}
      BY <1>1
    <3>2. q.freelist = <<>>
      <4>1. q.freelist \in Seq(Nat \ {0}) /\ Len(q.freelist) = 0
        BY <1>1, <1>5
      <4> QED BY <4>1
    <3>3. \A i \in 1..Used(q) : q.slot[i] # NoFunc
      BY <3>1, <3>2, EmptyList
    <3>4. ASSUME NEW i \in 1..(Used(q) + 1) PROVE slot[i] # NoFunc
      <4>1. CASE i = a
        BY <1>2, <2>4, <4>1
      <4>2. CASE i # a
        <5>1. i \in 1..Used(q) /\ i \in 1..q.size
          BY <1>0, <2>4, <4>2
        <5> QED BY <1>2, <2>4, <3>3, <4>2, <5>1
      <4> QED BY <4>1, <4>2
    <3> QED BY <2>9, <2>10, <3>2, <3>4, EmptyList
  <2>12. \A i \in 1..r.size : i > Used(r) => r.slot[i] = NoFunc
    <3>1. \A i \in 1..q.size : i > Used(q) + 1 => i # a /\ i > Used(q)
      BY <1>0, <2>4
    <3> QED BY <1>1, <1>2, <2>4, <2>9, <2>10, <3>1
  <2>13. QueueOK(r)
    <3>1. Len(r.slot) = r.size /\ r.freelist_size = Len(r.freelist) /\ IsInjective(r.freelist)
      BY <1>1, <1>2, <2>4, <2>9
    <3>2. /\ r.nrfree = r.size - Used(r)
          /\ r.firstfree = 0 <=> r.size = 0
          /\ r.nextfree # 0 /\ r.firstfree # 0
      BY <1>0, <2>1, <2>2, <2>7, <2>9, <2>10
    <3> QED BY <2>8, <2>11, <2>12, <3>1, <3>2, QueueIntro
  <2>14. Nrfree(r) = Nrfree(q) - 1 /\ Inuse(r) = Inuse(q) + 1 /\ Used(r) >= Used(q)
    BY <1>0, <2>7, <2>9, <2>10 DEF Nrfree, Inuse
  <2> QED BY <1>3, <1>5, <2>4, <2>5, <2>8, <2>9, <2>13, <2>14 DEF a, r
<1> QED BY <1>4, <1>5

\* sffree_sq: the slot of a function becomes a hole.
LEMMA FreeQueue ==
    ASSUME NEW q \in Queues, QueueOK(q), NEW h \in Live(q)
    PROVE  /\ SfFree(q, h) \in Queues /\ QueueOK(SfFree(q, h))
           /\ Live(SfFree(q, h)) = Live(q) \ {h}
           /\ \A i \in Live(q) : i # h => SfFree(q, h).slot[i] = q.slot[i]
           /\ Nrfree(SfFree(q, h)) = Nrfree(q) + 1
           /\ Inuse(SfFree(q, h)) = Inuse(q) - 1
           /\ Used(SfFree(q, h)) = Used(q)
<1> DEFINE r == SfFree(q, h)
           slot == [q.slot EXCEPT ![h] = NoFunc]
           freelist == Append(q.freelist, h)
           free == q.freelist_size + 1
<1>0. /\ q.size \in Nat /\ q.firstfree \in Nat /\ q.nextfree \in 0..N /\ N \in Nat \ {0}
      /\ q.nrfree \in Nat /\ q.freelist_size \in Nat
      /\ Used(q) \in Nat /\ Used(q) <= q.size /\ q.nrfree = q.size - Used(q)
      /\ q.firstfree = 0 <=> q.size = 0
      /\ q.nextfree = 0 => q.firstfree \in {0, 1}
      /\ q.firstfree = 0 => q.nextfree = 0
  BY QueueMembers
<1>1. /\ q.size \in Nat /\ q.firstfree \in Nat /\ q.nextfree \in 0..N /\ N \in Nat \ {0}
      /\ q.nrfree \in Nat /\ q.freelist_size \in Nat
      /\ q.slot \in Seq(Funcs \cup {NoFunc}) /\ Len(q.slot) = q.size
      /\ DOMAIN q.slot = 1..q.size
      /\ q.freelist \in Seq(Nat \ {0}) /\ q.freelist_size = Len(q.freelist)
      /\ Used(q) \in Nat /\ Used(q) <= q.size /\ q.nrfree = q.size - Used(q)
      /\ IsInjective(q.freelist)
      /\ ToSet(q.freelist) = {i \in 1..Used(q) : q.slot[i] = NoFunc}
      /\ \A i \in 1..q.size : i > Used(q) => q.slot[i] = NoFunc
      /\ q.firstfree = 0 <=> q.size = 0
      /\ q.nextfree = 0 => q.firstfree \in {0, 1}
      /\ q.firstfree = 0 => q.nextfree = 0
  BY QueueMembers
<1>2. h \in 1..Used(q) /\ h \in 1..q.size /\ h \in Nat \ {0} /\ h \notin ToSet(q.freelist)
  BY <1>0, QueueSlots
<1>3. /\ slot \in Seq(Funcs \cup {NoFunc}) /\ Len(slot) = q.size /\ DOMAIN slot = 1..q.size
      /\ slot[h] = NoFunc
      /\ \A i \in 1..q.size : i # h => slot[i] = q.slot[i]
  BY <1>1, <1>2
<1>4. /\ freelist \in Seq(Nat \ {0}) /\ Len(freelist) = free
      /\ IsInjective(freelist) /\ ToSet(freelist) = ToSet(q.freelist) \cup {h}
  <2>1. q.freelist \in Seq(Nat \ {0}) /\ IsInjective(q.freelist) /\ Len(q.freelist) = q.freelist_size
    BY <1>1
  <2>2. Len(freelist) = Len(q.freelist) + 1
    BY <1>2, <2>1
  <2> QED BY <1>2, <2>1, <2>2, AppendList
<1>5. free \in Nat /\ free = q.freelist_size + 1
  BY <1>0
<1>6. r = [q EXCEPT !.slot = slot, !.freelist = freelist, !.freelist_size = free]
  BY DEF SfFree
<1> HIDE DEF r, slot, freelist, free
<1>7. r \in Queues
  BY <1>3, <1>4, <1>5, <1>6 DEF Queues
<1>8. /\ r.size = q.size /\ r.nrfree = q.nrfree /\ r.slot = slot
      /\ r.firstfree = q.firstfree /\ r.nextfree = q.nextfree
      /\ r.freelist = freelist /\ r.freelist_size = free
  BY <1>6 DEF Queues
<1>9. Used(r) = Used(q)
  BY <1>8 DEF Used
<1>10. Live(r) = Live(q) \ {h} /\ \A i \in Live(q) : i # h => r.slot[i] = q.slot[i]
  <2>1. DOMAIN q.slot = 1..q.size
    BY <1>1
  <2> QED BY <1>3, <1>8, <2>1 DEF Live
<1>11. QueueOK(r)
  <2>1. ToSet(r.freelist) = {i \in 1..Used(r) : r.slot[i] = NoFunc}
    <3>1. \A i \in 1..Used(q) : i \in 1..q.size
      BY <1>0
    <3>2. \A i \in 1..Used(q) : slot[i] = NoFunc <=> q.slot[i] = NoFunc \/ i = h
      BY <1>3, <3>1
    <3>3. ToSet(q.freelist) = {i \in 1..Used(q) : q.slot[i] = NoFunc}
      BY <1>1
    <3> QED BY <1>2, <1>4, <1>8, <1>9, <3>2, <3>3
  <2>2. \A i \in 1..r.size : i > Used(r) => r.slot[i] = NoFunc
    BY <1>1, <1>3, <1>8, <1>9
  <2>3. Len(r.slot) = r.size /\ r.freelist_size = Len(r.freelist) /\ IsInjective(r.freelist)
    BY <1>3, <1>4, <1>8
  <2>4. /\ r.nrfree = r.size - Used(r)
        /\ r.firstfree = 0 <=> r.size = 0
        /\ r.nextfree = 0 => r.firstfree \in {0, 1}
        /\ r.firstfree = 0 => r.nextfree = 0
    BY <1>0, <1>8, <1>9
  <2> QED BY <1>7, <2>1, <2>2, <2>3, <2>4, QueueIntro
<1>12. Nrfree(r) = Nrfree(q) + 1 /\ Inuse(r) = Inuse(q) - 1
  BY <1>0, <1>5, <1>8 DEF Nrfree, Inuse
<1> QED BY <1>7, <1>9, <1>10, <1>11, <1>12 DEF r

-----------------------------------------------------------------------------
(* compact_sq *)

\* How many slots are given up, and that all of them are on the last used page.
LEMMA CompactShrinks ==
    ASSUME NEW q \in Queues, QueueOK(q)
    PROVE  /\ NrShrink(q) \in Nat /\ NrShrink(q) <= q.nextfree /\ NrShrink(q) <= q.freelist_size
           /\ NrShrink(q) <= Used(q)
           /\ q.freelist_size # 0 => NrShrink(q) # 0 /\ q.firstfree # 0 /\ q.nextfree # 0
<1>0. /\ q.firstfree \in Nat /\ q.nextfree \in 0..N /\ N \in Nat \ {0}
      /\ q.freelist_size \in Nat /\ Used(q) \in Nat
      /\ q.freelist \in Seq(Nat \ {0}) /\ q.freelist_size = Len(q.freelist)
      /\ ToSet(q.freelist) = {i \in 1..Used(q) : q.slot[i] = NoFunc}
      /\ q.nextfree = 0 => q.firstfree \in {0, 1}
      /\ q.firstfree = 0 => q.nextfree = 0
  BY QueueMembers
<1>1. /\ NrShrink(q) \in Nat /\ NrShrink(q) <= q.nextfree /\ NrShrink(q) <= q.freelist_size
      /\ q.freelist_size # 0 /\ q.nextfree # 0 => NrShrink(q) # 0
  BY <1>0 DEF NrShrink
<1>2. q.nextfree <= Used(q)
  <2>1. CASE q.firstfree = 0
    BY <1>0, <2>1 DEF Used
  <2>2. CASE q.firstfree # 0
    <3>1. q.firstfree - 1 \in Nat
      BY <1>0, <2>2
    <3>2. (q.firstfree - 1) * N \in Nat
      BY <1>0, <3>1
    <3> QED BY <1>0, <2>2, <3>2 DEF Used
  <2> QED BY <2>1, <2>2
<1>3. NrShrink(q) <= Used(q)
  BY <1>0, <1>1, <1>2
<1>4. ASSUME q.nextfree = 0 PROVE q.freelist_size = 0
  <2>1. Used(q) = 0
    <3>1. CASE q.firstfree = 0
      BY <3>1 DEF Used
    <3>2. CASE q.firstfree = 1
      <4>1. Used(q) = (1 - 1) * N + 0
        BY <1>4, <3>2 DEF Used
      <4> QED BY <1>0, <4>1
    <3> QED BY <1>0, <1>4, <3>1, <3>2
  <2>2. ToSet(q.freelist) = {}
    BY <1>0, <2>1
  <2>3. q.freelist = <<>>
    BY <1>0, <2>2, NonEmptyList
  <2> QED BY <1>0, <2>3
<1>5. q.freelist_size # 0 => NrShrink(q) # 0 /\ q.firstfree # 0 /\ q.nextfree # 0
  BY <1>0, <1>1, <1>4
<1> QED BY <1>1, <1>3, <1>5

\* The holes which are filled and the functions which are moved into them: there are
\* enough holes, and as many are left as slots stay empty.
LEMMA HolesAndMovers ==
    ASSUME NEW q \in Queues, QueueOK(q)
    PROVE  /\ Holes(q) \in Seq(Nat \ {0}) /\ IsInjective(Holes(q))
           /\ ToSet(Holes(q)) = {i \in 1..(Used(q) - NrShrink(q)) : q.slot[i] = NoFunc}
           /\ Movers(q) \in Seq(Nat \ {0}) /\ IsInjective(Movers(q))
           /\ ToSet(Movers(q)) = {i \in Dropped(q) : q.slot[i] # NoFunc}
           /\ Len(Holes(q)) - Len(Movers(q)) = q.freelist_size - NrShrink(q)
<1> DEFINE n == NrShrink(q)
           U == Used(q)
           D == Dropped(q)
           free == ToSet(q.freelist)
           down == [k \in 1..n |-> U + 1 - k]
<1>0. /\ q.size \in Nat /\ q.firstfree \in Nat /\ q.nextfree \in 0..N /\ N \in Nat \ {0}
      /\ q.nrfree \in Nat /\ q.freelist_size \in Nat
      /\ Used(q) \in Nat /\ Used(q) <= q.size /\ q.nrfree = q.size - Used(q)
      /\ q.firstfree = 0 <=> q.size = 0
      /\ q.nextfree = 0 => q.firstfree \in {0, 1}
      /\ q.firstfree = 0 => q.nextfree = 0
  BY QueueMembers
<1>1. /\ q.size \in Nat /\ q.firstfree \in Nat /\ q.nextfree \in 0..N /\ N \in Nat \ {0}
      /\ q.nrfree \in Nat /\ q.freelist_size \in Nat
      /\ q.slot \in Seq(Funcs \cup {NoFunc}) /\ Len(q.slot) = q.size
      /\ DOMAIN q.slot = 1..q.size
      /\ q.freelist \in Seq(Nat \ {0}) /\ q.freelist_size = Len(q.freelist)
      /\ Used(q) \in Nat /\ Used(q) <= q.size /\ q.nrfree = q.size - Used(q)
      /\ IsInjective(q.freelist)
      /\ ToSet(q.freelist) = {i \in 1..Used(q) : q.slot[i] = NoFunc}
      /\ \A i \in 1..q.size : i > Used(q) => q.slot[i] = NoFunc
      /\ q.firstfree = 0 <=> q.size = 0
      /\ q.nextfree = 0 => q.firstfree \in {0, 1}
      /\ q.firstfree = 0 => q.nextfree = 0
  BY QueueMembers
<1>2. /\ n \in Nat /\ n <= q.freelist_size /\ n <= U
      /\ U \in Nat /\ U <= q.size
  BY <1>0, CompactShrinks
<1>3. D = (U - n + 1)..U
  BY DEF Dropped
<1>4. \A i \in 1..U : i \in D <=> i \notin 1..(U - n)
  <2> HIDE DEF n, U, D
  <2> QED BY <1>2, <1>3
<1>5. /\ Holes(q) \in Seq(Nat \ {0}) /\ IsInjective(Holes(q))
      /\ ToSet(Holes(q)) = free \cap (1..(U - n))
  <2>1. q.freelist \in Seq(Nat \ {0}) /\ IsInjective(q.freelist)
    BY <1>1
  <2> DEFINE stay == 1..(U - n)
             list == q.freelist
  <2>2. Holes(q) = Kept(list, stay)
    BY DEF Holes
  <2> HIDE DEF stay, list
  <2>3. list \in Seq(Nat \ {0}) /\ IsInjective(list)
    BY <2>1 DEF list
  <2>4. /\ Kept(list, stay) \in Seq(Nat \ {0}) /\ IsInjective(Kept(list, stay))
        /\ ToSet(Kept(list, stay)) = ToSet(list) \cap stay
    BY <2>3, KeptList
  <2> QED BY <2>2, <2>4 DEF stay, list
<1>6. /\ down \in Seq(Nat \ {0}) /\ IsInjective(down) /\ ToSet(down) = D
  <2> HIDE DEF n, U, D
  <2>1. \A k \in 1..n : down[k] = U + 1 - k /\ down[k] \in Nat \ {0} /\ down[k] \in D
    BY <1>2, <1>3
  <2>2. DOMAIN down = 1..n
    OBVIOUS
  <2>3. down \in Seq(Nat \ {0})
    BY <1>2, <2>1
  <2>4. IsInjective(down)
    <3> SUFFICES ASSUME NEW k \in 1..n, NEW m \in 1..n, down[k] = down[m] PROVE k = m
      BY <2>2 DEF IsInjective
    <3>1. U + 1 - k = U + 1 - m
      BY <2>1
    <3> QED BY <1>2, <3>1
  <2>5. \A i \in D : U + 1 - i \in 1..n /\ down[U + 1 - i] = i
    <3> SUFFICES ASSUME NEW i \in D PROVE U + 1 - i \in 1..n /\ down[U + 1 - i] = i
      OBVIOUS
    <3>1. i \in Int /\ U + 1 - i \in 1..n
      BY <1>2, <1>3
    <3>2. down[U + 1 - i] = U + 1 - (U + 1 - i)
      BY <3>1
    <3> QED BY <1>2, <3>1, <3>2
  <2> HIDE DEF down
  <2> QED BY <2>1, <2>2, <2>3, <2>4, <2>5 DEF ToSet
<1>7. /\ Movers(q) \in Seq(Nat \ {0}) /\ IsInjective(Movers(q))
      /\ ToSet(Movers(q)) = D \cap Live(q)
  <2>1. Movers(q) = Kept(down, Live(q))
    BY DEF Movers
  <2> HIDE DEF down
  <2> QED BY <1>6, <2>1, KeptList
<1> HIDE DEF n, U, D, free, down
<1>8. D \subseteq 1..U /\ D \subseteq 1..q.size
  <2> SUFFICES ASSUME NEW i \in D PROVE i \in 1..U /\ i \in 1..q.size
    OBVIOUS
  <2>1. i \in Int /\ U - n + 1 <= i /\ i <= U
    BY <1>2, <1>3
  <2> QED BY <1>0, <1>2, <2>1
<1>9. free = {i \in 1..U : q.slot[i] = NoFunc}
  BY <1>1 DEF free, U
<1>10. /\ free \cap (1..(U - n)) = free \ D
       /\ D \cap Live(q) = D \ free
       /\ free \cap D = D \cap free
  <2>1. Live(q) = {i \in 1..q.size : q.slot[i] # NoFunc}
    BY <1>1 DEF Live
  <2> QED BY <1>4, <1>8, <1>9, <2>1
<1>11. /\ IsFiniteSet(D) /\ Cardinality(D) = n
       /\ IsFiniteSet(free) /\ Cardinality(free) = q.freelist_size
  <2>1. IsFiniteSet(D) /\ Cardinality(D) = n
    <3>1. /\ IsFiniteSet((U - n + 1)..U)
          /\ Cardinality((U - n + 1)..U) = IF U - n + 1 > U THEN 0 ELSE U - (U - n + 1) + 1
      <4>1. U - n + 1 \in Int /\ U \in Int
        BY <1>2
      <4> QED BY <4>1, FS_Interval
    <3> QED BY <1>2, <1>3, <3>1
  <2> QED BY <1>1, <2>1, InjectiveLength DEF free
<1>12. /\ Cardinality(free \ D) = q.freelist_size - Cardinality(D \cap free)
       /\ Cardinality(D \ free) = n - Cardinality(D \cap free)
       /\ Cardinality(D \cap free) \in Nat
  <2>1. IsFiniteSet(D \cap free)
    BY <1>11, FS_Intersection
  <2>2. Cardinality(free \ D) = Cardinality(free) - Cardinality(free \cap D)
    BY <1>11, FS_Difference
  <2>3. Cardinality(D \ free) = Cardinality(D) - Cardinality(D \cap free)
    BY <1>11, FS_Difference
  <2>4. Cardinality(D \cap free) \in Nat
    BY <2>1, FS_CardinalityType
  <2> QED BY <1>10, <1>11, <2>2, <2>3, <2>4
<1>13. Len(Holes(q)) = Cardinality(free \ D) /\ Len(Movers(q)) = Cardinality(D \ free)
  BY <1>5, <1>7, <1>10, InjectiveLength
<1>14. Len(Holes(q)) - Len(Movers(q)) = q.freelist_size - n
  BY <1>0, <1>2, <1>12, <1>13
<1>15. ToSet(Holes(q)) = {i \in 1..(U - n) : q.slot[i] = NoFunc}
  <2>1. \A i \in 1..(U - n) : i \in 1..U
    BY <1>2
  <2> QED BY <1>5, <1>9, <2>1
<1>16. ToSet(Movers(q)) = {i \in D : q.slot[i] # NoFunc}
  BY <1>1, <1>7, <1>8 DEF Live
<1> QED BY <1>5, <1>7, <1>14, <1>15, <1>16 DEF n, U, D

\* What compact_sq writes into the slots, and where the functions went.
LEMMA MovedSlots ==
    ASSUME NEW q \in Queues, QueueOK(q)
    PROVE  /\ Len(Movers(q)) <= Len(Holes(q))
           /\ \A k \in 1..Len(Movers(q)) : /\ MovedTo(q, Movers(q)[k]) = Holes(q)[k]
                                           /\ CompactedSlot(q, Holes(q)[k]) = q.slot[Movers(q)[k]]
           /\ \A i : i \notin ToSet(Movers(q)) => MovedTo(q, i) = i
           /\ \A i : (\A k \in 1..Len(Movers(q)) : Holes(q)[k] # i)
                       => CompactedSlot(q, i) = IF i \in Dropped(q) THEN NoFunc ELSE q.slot[i]
<1> DEFINE H == Holes(q)
           M == Movers(q)
           n == NrShrink(q)
<1>1. /\ H \in Seq(Nat \ {0}) /\ IsInjective(H)
      /\ ToSet(H) = {i \in 1..(Used(q) - n) : q.slot[i] = NoFunc}
      /\ M \in Seq(Nat \ {0}) /\ IsInjective(M)
      /\ ToSet(M) = {i \in Dropped(q) : q.slot[i] # NoFunc}
      /\ Len(H) - Len(M) = q.freelist_size - n
  BY HolesAndMovers
<1>2. n \in Nat /\ n <= q.freelist_size /\ q.freelist_size \in Nat
  BY CompactShrinks, QueueType
<1> HIDE DEF H, M, n
<1>3. /\ Len(H) \in Nat /\ Len(M) \in Nat /\ DOMAIN H = 1..Len(H) /\ DOMAIN M = 1..Len(M)
  BY <1>1
<1>4. Len(M) <= Len(H)
  BY <1>1, <1>2, <1>3
<1>5. \A k \in DOMAIN M : k \in DOMAIN H
  BY <1>3, <1>4
<1>6. ASSUME NEW k \in DOMAIN M
      PROVE  MovedTo(q, M[k]) = H[k]
  <2>1. (CHOOSE l \in DOMAIN M : M[l] = M[k]) = k
    BY <1>1 DEF IsInjective
  <2> QED BY <2>1 DEF MovedTo, H, M
<1>7. ASSUME NEW k \in DOMAIN M
      PROVE  CompactedSlot(q, H[k]) = q.slot[M[k]]
  <2>1. \A l \in DOMAIN M : H[l] = H[k] => l = k
    BY <1>1, <1>5 DEF IsInjective
  <2>2. (CHOOSE l \in DOMAIN M : H[l] = H[k]) = k
    BY <2>1
  <2> QED BY <2>2 DEF CompactedSlot, H, M
<1>8. ASSUME NEW i, i \notin ToSet(M)
      PROVE  MovedTo(q, i) = i
  <2>1. ~ \E k \in DOMAIN M : M[k] = i
    BY <1>8 DEF ToSet
  <2> QED BY <2>1 DEF MovedTo, M
<1>9. ASSUME NEW i, \A k \in DOMAIN M : H[k] # i
      PROVE  CompactedSlot(q, i) = IF i \in Dropped(q) THEN NoFunc ELSE q.slot[i]
  BY <1>9 DEF CompactedSlot, H, M
<1> QED BY <1>3, <1>4, <1>6, <1>7, <1>8, <1>9 DEF H, M

\* The functions are moved to different slots, and none is lost.
LEMMA CompactMoves ==
    ASSUME NEW q \in Queues, QueueOK(q)
    PROVE  LET live == {i \in 1..q.size : CompactedSlot(q, i) # NoFunc}
           IN  /\ \A i \in Live(q) : /\ MovedTo(q, i) \in live
                                     /\ CompactedSlot(q, MovedTo(q, i)) = q.slot[i]
               /\ \A i, j \in Live(q) : MovedTo(q, i) = MovedTo(q, j) => i = j
               /\ \A h \in live : \E i \in Live(q) : h = MovedTo(q, i)
               /\ live \subseteq 1..(Used(q) - NrShrink(q))
<1> DEFINE H == Holes(q)
           M == Movers(q)
           n == NrShrink(q)
           U == Used(q)
           D == Dropped(q)
           live == {i \in 1..q.size : CompactedSlot(q, i) # NoFunc}
<1>0. /\ q.size \in Nat /\ q.firstfree \in Nat /\ q.nextfree \in 0..N /\ N \in Nat \ {0}
      /\ q.nrfree \in Nat /\ q.freelist_size \in Nat
      /\ Used(q) \in Nat /\ Used(q) <= q.size /\ q.nrfree = q.size - Used(q)
      /\ q.firstfree = 0 <=> q.size = 0
      /\ q.nextfree = 0 => q.firstfree \in {0, 1}
      /\ q.firstfree = 0 => q.nextfree = 0
  BY QueueMembers
<1>1. /\ q.size \in Nat /\ q.firstfree \in Nat /\ q.nextfree \in 0..N /\ N \in Nat \ {0}
      /\ q.nrfree \in Nat /\ q.freelist_size \in Nat
      /\ q.slot \in Seq(Funcs \cup {NoFunc}) /\ Len(q.slot) = q.size
      /\ DOMAIN q.slot = 1..q.size
      /\ q.freelist \in Seq(Nat \ {0}) /\ q.freelist_size = Len(q.freelist)
      /\ Used(q) \in Nat /\ Used(q) <= q.size /\ q.nrfree = q.size - Used(q)
      /\ IsInjective(q.freelist)
      /\ ToSet(q.freelist) = {i \in 1..Used(q) : q.slot[i] = NoFunc}
      /\ \A i \in 1..q.size : i > Used(q) => q.slot[i] = NoFunc
      /\ q.firstfree = 0 <=> q.size = 0
      /\ q.nextfree = 0 => q.firstfree \in {0, 1}
      /\ q.firstfree = 0 => q.nextfree = 0
  BY QueueMembers
<1>2. /\ H \in Seq(Nat \ {0}) /\ IsInjective(H)
      /\ ToSet(H) = {i \in 1..(Used(q) - n) : q.slot[i] = NoFunc}
      /\ M \in Seq(Nat \ {0}) /\ IsInjective(M)
      /\ ToSet(M) = {i \in Dropped(q) : q.slot[i] # NoFunc}
      /\ Len(H) - Len(M) = q.freelist_size - n
  BY HolesAndMovers
<1>3. /\ Len(M) <= Len(H)
      /\ \A k \in 1..Len(M) : MovedTo(q, M[k]) = H[k] /\ CompactedSlot(q, H[k]) = q.slot[M[k]]
      /\ \A i : i \notin ToSet(M) => MovedTo(q, i) = i
      /\ \A i : (\A k \in 1..Len(M) : H[k] # i)
                   => CompactedSlot(q, i) = IF i \in D THEN NoFunc ELSE q.slot[i]
  BY MovedSlots
<1>4. /\ n \in Nat /\ U \in Nat /\ n <= U /\ U <= q.size /\ q.size \in Nat
  BY <1>0, CompactShrinks
<1>5. D = (U - n + 1)..U
  BY DEF Dropped
<1>6. Live(q) = {i \in 1..q.size : q.slot[i] # NoFunc}
  BY <1>1 DEF Live
<1>7. /\ ToSet(H) = {i \in 1..(U - n) : q.slot[i] = NoFunc}
      /\ ToSet(M) = {i \in D : q.slot[i] # NoFunc}
  BY <1>2
<1> HIDE DEF H, M, n, U, D
<1>8. /\ DOMAIN H = 1..Len(H) /\ DOMAIN M = 1..Len(M) /\ Len(H) \in Nat /\ Len(M) \in Nat
      /\ \A k \in 1..Len(M) : k \in 1..Len(H)
  BY <1>2, <1>3
<1>9. \A i \in 1..q.size : i \in 1..(U - n) \/ i \in D \/ i > U
  BY <1>4, <1>5
<1>10. \A i \in 1..(U - n) : i \in 1..q.size /\ i \notin D
  BY <1>4, <1>5
<1>11. \A i \in D : i \in 1..q.size
  BY <1>4, <1>5
<1>12. \A k \in 1..Len(M) : /\ H[k] \in 1..(U - n) /\ q.slot[H[k]] = NoFunc
                            /\ M[k] \in D /\ q.slot[M[k]] # NoFunc
  <2>1. \A k \in 1..Len(M) : H[k] \in ToSet(H) /\ M[k] \in ToSet(M)
    BY <1>8 DEF ToSet
  <2> QED BY <1>7, <2>1
<1>13. \A i \in 1..q.size : i > U => q.slot[i] = NoFunc
  BY <1>1 DEF U
<1>14. ASSUME NEW i \in Live(q)
       PROVE  \/ i \in D /\ \E k \in 1..Len(M) : M[k] = i
              \/ i \in 1..(U - n) /\ i \notin ToSet(M) /\ \A k \in 1..Len(M) : H[k] # i
  <2>1. CASE i \in D
    <3>1. i \in ToSet(M)
      BY <1>6, <1>7, <2>1
    <3> QED BY <1>8, <2>1, <3>1 DEF ToSet
  <2>2. CASE i \notin D
    <3>1. i \in 1..(U - n)
      BY <1>6, <1>9, <1>13, <2>2
    <3> QED BY <1>6, <1>7, <1>12, <2>2, <3>1
  <2> QED BY <2>1, <2>2
<1>15. ASSUME NEW i \in Live(q)
       PROVE  MovedTo(q, i) \in live /\ CompactedSlot(q, MovedTo(q, i)) = q.slot[i]
  <2>1. CASE i \in D /\ \E k \in 1..Len(M) : M[k] = i
    <3>1. PICK k \in 1..Len(M) : M[k] = i
      BY <2>1
    <3>2. MovedTo(q, i) = H[k] /\ CompactedSlot(q, H[k]) = q.slot[i] /\ H[k] \in 1..q.size
      BY <1>3, <1>10, <1>12, <3>1
    <3> QED BY <1>12, <3>1, <3>2
  <2>2. CASE i \in 1..(U - n) /\ i \notin ToSet(M) /\ \A k \in 1..Len(M) : H[k] # i
    <3>1. MovedTo(q, i) = i /\ CompactedSlot(q, i) = q.slot[i] /\ i \in 1..q.size
      BY <1>3, <1>10, <2>2
    <3> QED BY <1>6, <3>1
  <2> QED BY <1>14, <2>1, <2>2
<1>16. ASSUME NEW i \in Live(q), NEW j \in Live(q), MovedTo(q, i) = MovedTo(q, j)
       PROVE  i = j
  <2>1. CASE i \in D /\ j \in D
    <3>1. PICK k \in 1..Len(M), l \in 1..Len(M) : M[k] = i /\ M[l] = j
      BY <1>10, <1>14, <2>1
    <3>2. H[k] = H[l]
      BY <1>3, <1>16, <3>1
    <3>3. k = l
      BY <1>2, <1>8, <3>2 DEF IsInjective
    <3> QED BY <3>1, <3>3
  <2>2. CASE i \in D /\ j \notin D
    <3>1. PICK k \in 1..Len(M) : M[k] = i
      BY <1>10, <1>14, <2>2
    <3>2. MovedTo(q, i) = H[k]
      BY <1>3, <3>1
    <3>3. MovedTo(q, j) = j /\ H[k] # j
      BY <1>3, <1>14, <2>2
    <3> QED BY <1>16, <3>2, <3>3
  <2>3. CASE i \notin D /\ j \in D
    <3>1. PICK k \in 1..Len(M) : M[k] = j
      BY <1>10, <1>14, <2>3
    <3>2. MovedTo(q, j) = H[k]
      BY <1>3, <3>1
    <3>3. MovedTo(q, i) = i /\ H[k] # i
      BY <1>3, <1>14, <2>3
    <3> QED BY <1>16, <3>2, <3>3
  <2>4. CASE i \notin D /\ j \notin D
    <3>1. MovedTo(q, i) = i /\ MovedTo(q, j) = j
      BY <1>3, <1>14, <2>4
    <3> QED BY <1>16, <3>1
  <2> QED BY <2>1, <2>2, <2>3, <2>4
<1>17. ASSUME NEW h \in live
       PROVE  (\E i \in Live(q) : h = MovedTo(q, i)) /\ h \in 1..(U - n)
  <2>1. CASE \E k \in 1..Len(M) : H[k] = h
    <3>1. PICK k \in 1..Len(M) : H[k] = h
      BY <2>1
    <3>2. M[k] \in Live(q) /\ MovedTo(q, M[k]) = h
      BY <1>3, <1>6, <1>11, <1>12, <3>1
    <3> QED BY <1>12, <3>1, <3>2
  <2>2. CASE \A k \in 1..Len(M) : H[k] # h
    <3>1. h \notin D /\ CompactedSlot(q, h) = q.slot[h]
      BY <1>3, <2>2
    <3>2. h \in Live(q) /\ h \notin ToSet(M)
      BY <1>6, <1>7, <3>1
    <3>3. h \in 1..(U - n)
      BY <1>9, <1>13, <3>1
    <3> QED BY <1>3, <3>2, <3>3
  <2> QED BY <2>1, <2>2
<1> QED BY <1>15, <1>16, <1>17 DEF n, U

\* compact_sq keeps the invariants of the queue, and moves every function to a slot of
\* its own.
LEMMA CompactQueue ==
    ASSUME NEW q \in Queues, QueueOK(q)
    PROVE  /\ Compact(q) \in Queues /\ QueueOK(Compact(q))
           /\ \A i \in Live(q) : /\ MovedTo(q, i) \in Live(Compact(q))
                                 /\ Compact(q).slot[MovedTo(q, i)] = q.slot[i]
           /\ \A i, j \in Live(q) : MovedTo(q, i) = MovedTo(q, j) => i = j
           /\ \A h \in Live(Compact(q)) : \E i \in Live(q) : h = MovedTo(q, i)
           /\ Nrfree(Compact(q)) = Nrfree(q)
           /\ Inuse(Compact(q)) = Inuse(q)
           /\ q.freelist_size = 0 => Compact(q) = q
<1> DEFINE H == Holes(q)
           M == Movers(q)
           n == NrShrink(q)
           r == Compact(q)
           left == q.nextfree - n
           back == left = 0 /\ q.firstfree # 1
           slot == [i \in DOMAIN q.slot |-> CompactedSlot(q, i)]
           freelist == SubSeq(H, Len(M) + 1, Len(H))
           free == q.freelist_size - n
           nrfree == q.nrfree + n
           nextfree == IF back THEN N ELSE left
           firstfree == IF back THEN q.firstfree - 1 ELSE q.firstfree
           live == {i \in 1..q.size : CompactedSlot(q, i) # NoFunc}
<1>0. /\ q.size \in Nat /\ q.firstfree \in Nat /\ q.nextfree \in 0..N /\ N \in Nat \ {0}
      /\ q.nrfree \in Nat /\ q.freelist_size \in Nat
      /\ Used(q) \in Nat /\ Used(q) <= q.size /\ q.nrfree = q.size - Used(q)
      /\ q.firstfree = 0 <=> q.size = 0
      /\ q.nextfree = 0 => q.firstfree \in {0, 1}
      /\ q.firstfree = 0 => q.nextfree = 0
  BY QueueMembers
<1>1. /\ q.size \in Nat /\ q.firstfree \in Nat /\ q.nextfree \in 0..N /\ N \in Nat \ {0}
      /\ q.nrfree \in Nat /\ q.freelist_size \in Nat
      /\ q.slot \in Seq(Funcs \cup {NoFunc}) /\ Len(q.slot) = q.size
      /\ DOMAIN q.slot = 1..q.size
      /\ q.freelist \in Seq(Nat \ {0}) /\ q.freelist_size = Len(q.freelist)
      /\ Used(q) \in Nat /\ Used(q) <= q.size /\ q.nrfree = q.size - Used(q)
      /\ IsInjective(q.freelist)
      /\ ToSet(q.freelist) = {i \in 1..Used(q) : q.slot[i] = NoFunc}
      /\ \A i \in 1..q.size : i > Used(q) => q.slot[i] = NoFunc
      /\ q.firstfree = 0 <=> q.size = 0
      /\ q.nextfree = 0 => q.firstfree \in {0, 1}
      /\ q.firstfree = 0 => q.nextfree = 0
  BY QueueMembers
<1>2. /\ H \in Seq(Nat \ {0}) /\ IsInjective(H)
      /\ ToSet(H) = {i \in 1..(Used(q) - n) : q.slot[i] = NoFunc}
      /\ M \in Seq(Nat \ {0}) /\ IsInjective(M)
      /\ ToSet(M) = {i \in Dropped(q) : q.slot[i] # NoFunc}
      /\ Len(H) - Len(M) = q.freelist_size - n
  BY HolesAndMovers
<1>3. /\ Len(M) <= Len(H)
      /\ \A k \in 1..Len(M) : CompactedSlot(q, H[k]) = q.slot[M[k]]
      /\ \A i : (\A k \in 1..Len(M) : H[k] # i)
                   => CompactedSlot(q, i) = IF i \in Dropped(q) THEN NoFunc ELSE q.slot[i]
  BY MovedSlots
<1>4. /\ \A i \in Live(q) : /\ MovedTo(q, i) \in live
                            /\ CompactedSlot(q, MovedTo(q, i)) = q.slot[i]
      /\ \A i, j \in Live(q) : MovedTo(q, i) = MovedTo(q, j) => i = j
      /\ \A h \in live : \E i \in Live(q) : h = MovedTo(q, i)
      /\ live \subseteq 1..(Used(q) - n)
  BY CompactMoves
<1>5. /\ n \in Nat /\ n <= q.nextfree /\ n <= q.freelist_size /\ n <= Used(q)
      /\ q.freelist_size # 0 => n # 0 /\ q.firstfree # 0 /\ q.nextfree # 0
  BY CompactShrinks
<1>6. Live(q) = {i \in 1..q.size : q.slot[i] # NoFunc}
  BY <1>1 DEF Live
<1>7. CASE q.freelist_size = 0
  <2>1. Compact(q) = q
    BY <1>7 DEF Compact
  <2>2. n = 0 /\ Len(M) = 0
    <3>1. n = 0 /\ Dropped(q) = {}
      <4>1. n = 0
        BY <1>5, <1>7
      <4>2. Dropped(q) = (Used(q) + 1)..Used(q)
        BY <1>0, <4>1 DEF Dropped
      <4> QED BY <1>0, <4>1, <4>2
    <3>2. ToSet(M) = {}
      BY <1>2, <3>1
    <3>3. M = <<>>
      BY <1>2, <3>2, NonEmptyList
    <3> QED BY <3>1, <3>3
  <2>3. \A i : CompactedSlot(q, i) = q.slot[i]
    <3>1. Dropped(q) = {}
      <4>1. Dropped(q) = (Used(q) + 1)..Used(q)
        BY <1>0, <2>2 DEF Dropped
      <4> QED BY <1>0, <4>1
    <3> QED BY <1>3, <2>2, <3>1
  <2>4. live = Live(q)
    BY <1>6, <2>3
  <2> HIDE DEF live
  <2> QED BY <1>4, <1>7, <2>1, <2>3, <2>4
<1>8. CASE q.freelist_size # 0
  <2>1. /\ left \in Nat /\ left <= N /\ free \in Nat /\ nrfree \in Nat
        /\ nextfree \in 0..N /\ firstfree \in Nat
    BY <1>0, <1>5, <1>8
  <2>2. /\ slot \in Seq(Funcs \cup {NoFunc}) /\ Len(slot) = q.size /\ DOMAIN slot = 1..q.size
        /\ \A i \in 1..q.size : slot[i] = CompactedSlot(q, i)
    <3>1. \A i \in 1..q.size : CompactedSlot(q, i) \in Funcs \cup {NoFunc}
      <4> SUFFICES ASSUME NEW i \in 1..q.size, CompactedSlot(q, i) # NoFunc
                   PROVE  CompactedSlot(q, i) \in Funcs \cup {NoFunc}
        OBVIOUS
      <4>1. i \in live
        OBVIOUS
      <4>2. PICK j \in Live(q) : i = MovedTo(q, j)
        BY <1>4, <4>1
      <4>3. CompactedSlot(q, i) = q.slot[j] /\ j \in 1..q.size
        BY <1>4, <1>6, <4>2
      <4> QED BY <1>1, <4>3
    <3>2. q.size \in Nat /\ DOMAIN q.slot = 1..q.size
      BY <1>1
    <3>3. slot = [i \in 1..q.size |-> CompactedSlot(q, i)]
      BY <3>2
    <3> HIDE DEF slot
    <3>4. slot \in Seq(Funcs \cup {NoFunc})
      BY <3>1, <3>2, <3>3
    <3>5. DOMAIN slot = 1..q.size /\ \A i \in 1..q.size : slot[i] = CompactedSlot(q, i)
      BY <3>3
    <3>6. Len(slot) = q.size
      BY <3>2, <3>4, <3>5
    <3> QED BY <3>4, <3>5, <3>6
  <2>3. /\ freelist \in Seq(Nat \ {0}) /\ Len(freelist) = free /\ DOMAIN freelist = 1..free
        /\ \A k \in 1..free : freelist[k] = H[Len(M) + k]
    <3>1. Len(M) \in Nat /\ Len(H) \in Nat /\ Len(H) - Len(M) = free
      BY <1>2
    <3> HIDE DEF H, M, free
    <3> QED BY <1>2, <1>3, <2>1, <3>1
  <2>4. /\ left = q.nextfree - n /\ free = q.freelist_size - n /\ nrfree = q.nrfree + n
        /\ back => left = 0 /\ q.firstfree # 1 /\ nextfree = N /\ firstfree = q.firstfree - 1
        /\ ~back => (left # 0 \/ q.firstfree = 1) /\ nextfree = left /\ firstfree = q.firstfree
    OBVIOUS
  <2>5. r = [q EXCEPT !.slot = slot, !.freelist = freelist, !.freelist_size = free,
                      !.nrfree = nrfree, !.nextfree = nextfree, !.firstfree = firstfree]
    BY <1>8 DEF Compact
  <2> HIDE DEF H, M, n, r, left, back, slot, freelist, free, nrfree, nextfree, firstfree
  <2>6. r \in Queues
    BY <2>1, <2>2, <2>3, <2>5 DEF Queues
  <2>7. /\ r.size = q.size /\ r.nrfree = nrfree /\ r.slot = slot
        /\ r.firstfree = firstfree /\ r.nextfree = nextfree
        /\ r.freelist = freelist /\ r.freelist_size = free
    BY <2>5 DEF Queues
  <2>8. Used(r) = Used(q) - n
    <3>1. Used(q) = (q.firstfree - 1) * N + q.nextfree
      BY <1>5, <1>8 DEF Used
    <3>2. CASE back
      <4>1. firstfree = q.firstfree - 1 /\ nextfree = N /\ q.nextfree = n
        BY <1>0, <1>5, <2>4, <3>2
      <4>2. firstfree # 0
        BY <1>0, <1>5, <1>8, <2>4, <3>2
      <4>3. Used(r) = (firstfree - 1) * N + N
        BY <2>7, <4>1, <4>2 DEF Used
      <4>4. (firstfree - 1) * N + N = firstfree * N
        BY <1>0, <2>1
      <4>5. Used(q) = firstfree * N + n
        BY <3>1, <4>1
      <4> DEFINE full == firstfree * N
      <4>6. full \in Int
        BY <1>0, <2>1
      <4>7. Used(r) = full /\ Used(q) = full + n
        BY <4>3, <4>4, <4>5
      <4> HIDE DEF full
      <4> QED BY <1>5, <4>6, <4>7
    <3>3. CASE ~back
      <4>1. firstfree = q.firstfree /\ nextfree = q.nextfree - n
        BY <2>4, <3>3
      <4>2. Used(r) = (q.firstfree - 1) * N + (q.nextfree - n)
        BY <1>5, <1>8, <2>7, <4>1 DEF Used
      <4> DEFINE full == (q.firstfree - 1) * N
      <4>3. full \in Int
        BY <1>0
      <4>4. Used(r) = full + (q.nextfree - n) /\ Used(q) = full + q.nextfree
        BY <3>1, <4>2
      <4> HIDE DEF full
      <4> QED BY <1>0, <1>5, <4>3, <4>4
    <3> QED BY <3>2, <3>3
  <2>9. Live(r) = live
    BY <2>2, <2>7 DEF Live
  <2>10. ASSUME NEW i \in live PROVE r.slot[i] = CompactedSlot(q, i)
    BY <2>2, <2>7
  <2>11. /\ Len(M) \in Nat /\ Len(H) \in Nat /\ free \in Nat
         /\ Len(H) = Len(M) + free /\ DOMAIN H = 1..Len(H)
    <3>1. Len(M) \in Nat /\ Len(H) \in Nat /\ DOMAIN H = 1..Len(H)
      BY <1>2
    <3>2. Len(H) - Len(M) = free
      BY <1>2, <2>4
    <3>3. free \in Nat
      BY <2>1
    <3> DEFINE m == Len(M)
               h == Len(H)
    <3>4. m \in Nat /\ h \in Nat /\ h - m = free
      BY <3>1, <3>2
    <3> HIDE DEF m, h
    <3>5. h = m + free
      BY <3>3, <3>4
    <3> QED BY <3>1, <3>3, <3>5 DEF m, h
  <2>12. QueueOK(r)
    <3>1. IsInjective(freelist)
      <4> SUFFICES ASSUME NEW k \in 1..free, NEW l \in 1..free, freelist[k] = freelist[l]
                   PROVE  k = l
        BY <2>3 DEF IsInjective
      <4>1. H[Len(M) + k] = H[Len(M) + l]
        BY <2>3
      <4>2. Len(M) \in Nat /\ Len(M) + k \in DOMAIN H /\ Len(M) + l \in DOMAIN H
        BY <2>11
      <4>3. Len(M) + k = Len(M) + l
        BY <1>2, <4>1, <4>2 DEF IsInjective
      <4> QED BY <2>1, <4>2, <4>3
    <3>2. ToSet(freelist) = {i \in 1..(Used(q) - n) : slot[i] = NoFunc}
      <4>1. ASSUME NEW k \in 1..free
            PROVE  freelist[k] \in 1..(Used(q) - n) /\ slot[freelist[k]] = NoFunc
        <5> DEFINE m == Len(M) + k
        <5>1. m \in DOMAIN H /\ freelist[k] = H[m] /\ m \notin 1..Len(M)
          <6>1. Len(M) \in Nat /\ Len(H) \in Nat /\ Len(M) + free = Len(H) /\ DOMAIN H = 1..Len(H)
            BY <2>11
          <6>2. freelist[k] = H[Len(M) + k]
            BY <2>3
          <6> QED BY <2>1, <6>1, <6>2
        <5> HIDE DEF m
        <5>2. H[m] \in ToSet(H)
          BY <5>1 DEF ToSet
        <5>3. H[m] \in 1..(Used(q) - n) /\ q.slot[H[m]] = NoFunc
          BY <1>2, <5>2
        <5>4. \A l \in 1..Len(M) : l \in DOMAIN H
          BY <1>2, <1>3
        <5>5. \A l \in 1..Len(M) : H[l] # H[m]
          BY <1>2, <5>1, <5>4 DEF IsInjective
        <5>6. CompactedSlot(q, H[m]) = NoFunc
          BY <1>3, <5>3, <5>5
        <5>7. H[m] \in 1..q.size
          BY <1>0, <1>5, <5>3
        <5> QED BY <2>2, <5>1, <5>3, <5>6, <5>7
      <4>2. ASSUME NEW i \in 1..(Used(q) - n), slot[i] = NoFunc
            PROVE  \E k \in 1..free : freelist[k] = i
        <5>1. i \in 1..q.size /\ i \notin Dropped(q)
          <6>1. Dropped(q) = (Used(q) - n + 1)..Used(q)
            BY DEF Dropped, n
          <6> QED BY <1>0, <1>5, <6>1
        <5>2. \A k \in 1..Len(M) : H[k] # i
          <6> SUFFICES ASSUME NEW k \in 1..Len(M), H[k] = i PROVE FALSE
            OBVIOUS
          <6>1. k \in DOMAIN M
            BY <1>2
          <6>2. M[k] \in ToSet(M)
            BY <6>1 DEF ToSet
          <6>3. q.slot[M[k]] # NoFunc
            BY <1>2, <6>2
          <6>4. CompactedSlot(q, i) = q.slot[M[k]]
            BY <1>3
          <6> QED BY <2>2, <4>2, <5>1, <6>3, <6>4
        <5>3. q.slot[i] = NoFunc
          BY <1>3, <2>2, <4>2, <5>1, <5>2
        <5>4. i \in ToSet(H)
          BY <1>2, <5>3
        <5>5. PICK m \in DOMAIN H : H[m] = i
          BY <5>4 DEF ToSet
        <5>6. Len(M) \in Nat /\ Len(H) \in Nat /\ Len(H) - Len(M) = free /\ DOMAIN H = 1..Len(H)
          BY <1>2, <2>4
        <5>7. m \in Nat /\ m - Len(M) \in 1..free
          BY <2>1, <5>2, <5>5, <5>6
        <5>8. freelist[m - Len(M)] = H[Len(M) + (m - Len(M))]
          BY <2>3, <5>7
        <5>9. Len(M) + (m - Len(M)) = m
          BY <5>6, <5>7
        <5> QED BY <5>5, <5>7, <5>8, <5>9
      <4>3. ToSet(freelist) = {freelist[k] : k \in 1..free}
        BY <2>3 DEF ToSet
      <4> QED BY <4>1, <4>2, <4>3
    <3>3. \A i \in 1..q.size : i > Used(q) - n => slot[i] = NoFunc
      <4> SUFFICES ASSUME NEW i \in 1..q.size, slot[i] # NoFunc PROVE ~(i > Used(q) - n)
        OBVIOUS
      <4>1. i \in live
        BY <2>2
      <4>2. i \in 1..(Used(q) - n)
        BY <1>4, <4>1
      <4> QED BY <1>0, <1>5, <4>2
    <3>4. nrfree = q.size - (Used(q) - n)
      BY <1>0, <1>5, <2>4
    <3>5. /\ firstfree = 0 <=> q.size = 0
          /\ nextfree = 0 => firstfree \in {0, 1}
          /\ firstfree = 0 => nextfree = 0
      BY <1>0, <1>5, <1>8, <2>4
    <3> QED BY <2>2, <2>3, <2>6, <2>7, <2>8, <3>1, <3>2, <3>3, <3>4, <3>5, QueueIntro
  <2>13. Nrfree(r) = Nrfree(q) /\ Inuse(r) = Inuse(q)
    <3>1. free = q.freelist_size - n /\ nrfree = q.nrfree + n
      BY <2>4
    <3>2. n \in Nat /\ q.freelist_size \in Nat /\ q.nrfree \in Nat /\ q.size \in Nat
      BY <1>0, <1>5
    <3>3. r.size = q.size /\ r.nrfree = nrfree /\ r.freelist_size = free
      BY <2>7
    <3>4. Nrfree(r) = Nrfree(q)
      BY <3>1, <3>2, <3>3 DEF Nrfree
    <3> QED BY <3>3, <3>4 DEF Inuse
  <2> HIDE DEF live
  <2> QED BY <1>4, <1>8, <2>6, <2>9, <2>10, <2>12, <2>13 DEF r
<1> QED BY <1>7, <1>8

-----------------------------------------------------------------------------
(* What the two queues and the lists have to do with each other *)

\* Every function is stored once.
StoredOnce(r, w) ==
    /\ \A i, j \in Live(r) : r.slot[i] = r.slot[j] => i = j
    /\ \A i, j \in Live(w) : w.slot[i] = w.slot[j] => i = j
    /\ \A i \in Live(r), j \in Live(w) : r.slot[i] # w.slot[j]

\* Every node of L is linked into one list, once.
Linked(L, wl, wk, sh) ==
    /\ wl \in [Waits -> Seq(Nat \ {0})] /\ wk \in Seq(Nat \ {0}) /\ sh \in Seq(Nat \ {0})
    /\ \A i : i \in L <=> \/ i \in ToSet(wk) \/ i \in ToSet(sh)
                          \/ \E v \in Waits : i \in ToSet(wl[v])
    /\ IsInjective(wk) /\ IsInjective(sh) /\ \A v \in Waits : IsInjective(wl[v])
    /\ \A i \in ToSet(wk) : i \notin ToSet(sh)
    /\ \A v \in Waits : \A i \in ToSet(wl[v]) : i \notin ToSet(wk) /\ i \notin ToSet(sh)
    /\ \A u, v \in Waits : u # v => \A i \in ToSet(wl[u]) : i \notin ToSet(wl[v])

Room(r, w) == Inuse(w) <= Nrfree(r) /\ Inuse(r) <= Nrfree(w)

\* r holds the functions of q: the one in slot i is now in slot m[i].
SameFuncs(q, r, m) ==
    /\ r \in Queues /\ QueueOK(r)
    /\ m \in [Live(q) -> Live(r)]
    /\ \A i \in Live(q) : r.slot[m[i]] = q.slot[i]
    /\ \A i, j \in Live(q) : m[i] = m[j] => i = j
    /\ \A h \in Live(r) : \E i \in Live(q) : h = m[i]
    /\ Inuse(r) = Inuse(q)

Stay(q) == [i \in Live(q) |-> i]
Move(q) == [i \in Live(q) |-> MovedTo(q, i)]
MoveWait(r, w) == IF SpareWait(r, w) THEN Move(w) ELSE Stay(w)

Image(m, list) == [k \in DOMAIN list |-> m[list[k]]]

\* NoFunctionLost says both.
LEMMA LostIsLinked ==
    NoFunctionLost /\ TypeOK <=> /\ StoredOnce(run, wait)
                                 /\ Linked(Live(wait), waitlist, wakeup, shadow)
                                 /\ TypeOK
<1>1. Live(wait) = ToSet(wakeup) \cup ToSet(shadow) \cup UNION {ToSet(waitlist[w]) : w \in Waits}
      <=> \A i : i \in Live(wait) <=> \/ i \in ToSet(wakeup) \/ i \in ToSet(shadow)
                                     \/ \E v \in Waits : i \in ToSet(waitlist[v])
  OBVIOUS
<1>2. ToSet(wakeup) \cap ToSet(shadow) = {} <=> \A i \in ToSet(wakeup) : i \notin ToSet(shadow)
  OBVIOUS
<1>3. (\A w \in Waits : ToSet(waitlist[w]) \cap (ToSet(wakeup) \cup ToSet(shadow)) = {})
      <=> \A v \in Waits : \A i \in ToSet(waitlist[v]) : i \notin ToSet(wakeup) /\ i \notin ToSet(shadow)
  OBVIOUS
<1>4. (\A v, w \in Waits : v # w => ToSet(waitlist[v]) \cap ToSet(waitlist[w]) = {})
      <=> \A u, v \in Waits : u # v => \A i \in ToSet(waitlist[u]) : i \notin ToSet(waitlist[v])
  OBVIOUS
<1>5. TypeOK => waitlist \in [Waits -> Seq(Nat \ {0})] /\ wakeup \in Seq(Nat \ {0})
                /\ shadow \in Seq(Nat \ {0})
  BY DEF TypeOK
<1> QED BY <1>1, <1>2, <1>3, <1>4, <1>5 DEF NoFunctionLost, StoredOnce, Linked

\* Slots are numbered from 1 on; a live one contains a function.
LEMMA LiveSlot ==
    ASSUME NEW q \in Queues, NEW i \in Live(q)
    PROVE  i \in Nat \ {0} /\ i \in DOMAIN q.slot /\ q.slot[i] \in Funcs
BY QueueType DEF Live

\* The numbers of full and of free slots; a queue with a function has a full one.
LEMMA QueueNumbers ==
    ASSUME NEW q \in Queues, QueueOK(q)
    PROVE  /\ Inuse(q) \in Nat /\ Nrfree(q) \in Nat
           /\ Live(q) # {} => Inuse(q) > 0
           /\ Live(q) = {} => Inuse(q) = 0
<1>1. IsFiniteSet(Live(q)) /\ Cardinality(Live(q)) = Inuse(q)
  BY QueueSlots
<1>2. Cardinality(Live(q)) \in Nat /\ (Cardinality(Live(q)) = 0 <=> Live(q) = {})
  BY <1>1, FS_CardinalityType, FS_EmptySet
<1>3. Nrfree(q) \in Nat
  BY QueueType DEF Nrfree
<1> QED BY <1>1, <1>2, <1>3

\* init_sq
LEMMA EmptyQueueOK ==
    /\ EmptyQueue \in Queues /\ QueueOK(EmptyQueue)
    /\ Live(EmptyQueue) = {} /\ Inuse(EmptyQueue) = 0 /\ Nrfree(EmptyQueue) = 0
    /\ EmptyQueue.freelist_size = 0 /\ Used(EmptyQueue) = 0
<1>1. EmptyQueue \in Queues
  BY SyncQueueAssumption DEF EmptyQueue, Queues
<1>2. Used(EmptyQueue) = 0
  BY DEF EmptyQueue, Used
<1>3. Live(EmptyQueue) = {}
  BY DEF EmptyQueue, Live
<1>4. Nrfree(EmptyQueue) = 0 /\ Inuse(EmptyQueue) = 0
  BY DEF EmptyQueue, Nrfree, Inuse
<1>5. QueueOK(EmptyQueue)
  BY <1>2, EmptyList DEF QueueOK, EmptyQueue
<1> QED BY <1>1, <1>2, <1>3, <1>4, <1>5 DEF EmptyQueue

-----------------------------------------------------------------------------
(* Compacting, giving back a page and relinking *)

\* A queue which is not changed.
LEMMA StaySame ==
    ASSUME NEW q \in Queues, QueueOK(q)
    PROVE  SameFuncs(q, q, Stay(q))
BY DEF SameFuncs, Stay

\* grow_sq moves no function.
LEMMA GrowSame ==
    ASSUME NEW q \in Queues, QueueOK(q)
    PROVE  SameFuncs(q, Grow(q), Stay(q))
BY GrowQueue DEF SameFuncs, Stay

\* compact_sq moves functions as Move says.
LEMMA CompactSame ==
    ASSUME NEW q \in Queues, QueueOK(q)
    PROVE  SameFuncs(q, Compact(q), Move(q))
<1>1. /\ Compact(q) \in Queues /\ QueueOK(Compact(q))
      /\ \A i \in Live(q) : /\ MovedTo(q, i) \in Live(Compact(q))
                            /\ Compact(q).slot[MovedTo(q, i)] = q.slot[i]
      /\ \A i, j \in Live(q) : MovedTo(q, i) = MovedTo(q, j) => i = j
      /\ \A h \in Live(Compact(q)) : \E i \in Live(q) : h = MovedTo(q, i)
      /\ Inuse(Compact(q)) = Inuse(q)
  BY CompactQueue
<1> QED BY <1>1 DEF SameFuncs, Move

\* shrinkqueues_syncrunner compacts a queue and gives back its last page.
LEMMA CompactShrinkSame ==
    ASSUME NEW q \in Queues, QueueOK(q)
    PROVE  /\ SameFuncs(q, Shrink(Compact(q)), Move(q))
           /\ Nrfree(Shrink(Compact(q))) >= Nrfree(q) - N
           /\ q.freelist_size = 0 => Shrink(Compact(q)).freelist_size = 0
<1>1. /\ Compact(q) \in Queues /\ QueueOK(Compact(q)) /\ Nrfree(Compact(q)) = Nrfree(q)
      /\ Inuse(Compact(q)) = Inuse(q)
      /\ q.freelist_size = 0 => Compact(q) = q
  BY CompactQueue
<1> DEFINE p == Compact(q)
           s == Shrink(p)
<1>2. /\ s \in Queues /\ QueueOK(s) /\ Live(s) = Live(p)
      /\ \A i \in Live(p) : s.slot[i] = p.slot[i]
      /\ Nrfree(s) >= Nrfree(p) - N /\ Inuse(s) = Inuse(p)
      /\ s.freelist_size = p.freelist_size
  BY <1>1, ShrinkQueue
<1>3. SameFuncs(q, p, Move(q))
  BY CompactSame
<1> HIDE DEF p, s
<1>4. SameFuncs(q, s, Move(q))
  BY <1>1, <1>2, <1>3 DEF SameFuncs, p
<1> QED BY <1>1, <1>2, <1>4 DEF p, s

\* shrinkqueues_syncrunner: what is left is enough room for the other queue, whether one
\* queue or both are shrunk.
LEMMA ShrunkQueues ==
    ASSUME NEW r \in Queues, QueueOK(r), NEW w \in Queues, QueueOK(w), Room(r, w)
    PROVE  /\ \E m : SameFuncs(r, ShrunkRun(r, w), m)
           /\ SameFuncs(w, ShrunkWait(r, w), MoveWait(r, w))
           /\ Room(ShrunkRun(r, w), w) /\ Room(ShrunkRun(r, w), ShrunkWait(r, w))
           /\ r.freelist_size = 0 => ShrunkRun(r, w).freelist_size = 0
<1>1. /\ \E m : SameFuncs(r, ShrunkRun(r, w), m)
      /\ r.freelist_size = 0 => ShrunkRun(r, w).freelist_size = 0
  BY CompactShrinkSame, StaySame DEF ShrunkRun
<1>2. SameFuncs(w, ShrunkWait(r, w), MoveWait(r, w))
  BY CompactShrinkSame, StaySame DEF ShrunkWait, MoveWait
<1>3. /\ Inuse(ShrunkRun(r, w)) = Inuse(r) /\ Inuse(ShrunkWait(r, w)) = Inuse(w)
      /\ ShrunkRun(r, w) \in Queues /\ QueueOK(ShrunkRun(r, w))
      /\ ShrunkWait(r, w) \in Queues /\ QueueOK(ShrunkWait(r, w))
  BY <1>1, <1>2 DEF SameFuncs
<1>4. /\ Inuse(r) \in Nat /\ Nrfree(r) \in Nat /\ Inuse(w) \in Nat /\ Nrfree(w) \in Nat
      /\ Nrfree(ShrunkRun(r, w)) \in Nat /\ Nrfree(ShrunkWait(r, w)) \in Nat /\ N \in Nat
  BY <1>3, QueueNumbers, QueueType
<1>5. Inuse(w) <= Nrfree(ShrunkRun(r, w))
  <2>1. CASE SpareRun(r, w)
    <3>1. Nrfree(ShrunkRun(r, w)) >= Nrfree(r) - N
      BY <2>1, CompactShrinkSame DEF ShrunkRun
    <3>2. Inuse(w) < Nrfree(r) - N
      BY <2>1 DEF SpareRun
    <3> QED BY <1>4, <3>1, <3>2
  <2>2. CASE ~SpareRun(r, w)
    BY <2>2 DEF ShrunkRun, Room
  <2> QED BY <2>1, <2>2
<1>6. Inuse(r) <= Nrfree(ShrunkWait(r, w))
  <2>1. CASE SpareWait(r, w)
    <3>1. Nrfree(ShrunkWait(r, w)) >= Nrfree(w) - N
      BY <2>1, CompactShrinkSame DEF ShrunkWait
    <3>2. Inuse(r) < Nrfree(w) - N
      BY <2>1 DEF SpareWait
    <3> QED BY <1>4, <3>1, <3>2
  <2>2. CASE ~SpareWait(r, w)
    BY <2>2 DEF ShrunkWait, Room
  <2> QED BY <2>1, <2>2
<1>7. Room(ShrunkRun(r, w), w) /\ Room(ShrunkRun(r, w), ShrunkWait(r, w))
  BY <1>3, <1>5, <1>6 DEF Room
<1> QED BY <1>1, <1>2, <1>7

\* Functions which are stored once are stored once after they were moved.
LEMMA SameOnce ==
    ASSUME NEW r, NEW w, NEW r2, NEW w2, NEW m, NEW n,
           SameFuncs(r, r2, m), SameFuncs(w, w2, n), StoredOnce(r, w)
    PROVE  StoredOnce(r2, w2)
<1>1. ASSUME NEW i \in Live(r2), NEW j \in Live(r2), r2.slot[i] = r2.slot[j]
      PROVE  i = j
  BY <1>1 DEF SameFuncs, StoredOnce
<1>2. ASSUME NEW i \in Live(w2), NEW j \in Live(w2), w2.slot[i] = w2.slot[j]
      PROVE  i = j
  BY <1>2 DEF SameFuncs, StoredOnce
<1>3. ASSUME NEW i \in Live(r2), NEW j \in Live(w2)
      PROVE  r2.slot[i] # w2.slot[j]
  BY <1>3 DEF SameFuncs, StoredOnce
<1> QED BY <1>1, <1>2, <1>3 DEF StoredOnce

\* The list of the moved nodes is a list of as many different nodes.
LEMMA ImageList ==
    ASSUME NEW L, NEW S, NEW m \in [L -> S],
           \A i, j \in L : m[i] = m[j] => i = j,
           NEW list \in Seq(Nat \ {0}), ToSet(list) \subseteq L
    PROVE  /\ Image(m, list) \in Seq(S)
           /\ \A h : h \in ToSet(Image(m, list)) <=> \E i \in ToSet(list) : h = m[i]
           /\ IsInjective(list) => IsInjective(Image(m, list))
<1>1. Len(list) \in Nat /\ DOMAIN list = 1..Len(list)
  OBVIOUS
<1>2. \A k \in DOMAIN list : list[k] \in L /\ list[k] \in ToSet(list)
  BY DEF ToSet
<1>3. Image(m, list) = [k \in 1..Len(list) |-> m[list[k]]]
  BY <1>1 DEF Image
<1>4. Image(m, list) \in Seq(S)
  BY <1>1, <1>2, <1>3
<1>5. ASSUME NEW h
      PROVE  h \in ToSet(Image(m, list)) <=> \E i \in ToSet(list) : h = m[i]
  BY <1>1, <1>3 DEF ToSet
<1>6. ASSUME IsInjective(list) PROVE IsInjective(Image(m, list))
  BY <1>1, <1>2, <1>3, <1>6 DEF IsInjective
<1> QED BY <1>4, <1>5, <1>6

\* initmove_syncfunc: the lists stay the same lists, of moved nodes.
LEMMA SameLinked ==
    ASSUME NEW q \in Queues, NEW r, NEW m, SameFuncs(q, r, m),
           NEW wl, NEW wk, NEW sh, Linked(Live(q), wl, wk, sh)
    PROVE  Linked(Live(r), [v \in Waits |-> Image(m, wl[v])], Image(m, wk), Image(m, sh))
<1> DEFINE L == Live(q)
           wl2 == [v \in Waits |-> Image(m, wl[v])]
<1>1. /\ m \in [L -> Live(r)]
      /\ \A i, j \in L : m[i] = m[j] => i = j
      /\ \A h \in Live(r) : \E i \in L : h = m[i]
      /\ Live(r) \subseteq Nat \ {0}
  BY LiveSlot DEF SameFuncs
<1>2. /\ wl \in [Waits -> Seq(Nat \ {0})] /\ wk \in Seq(Nat \ {0}) /\ sh \in Seq(Nat \ {0})
      /\ \A i : i \in L <=> \/ i \in ToSet(wk) \/ i \in ToSet(sh)
                            \/ \E v \in Waits : i \in ToSet(wl[v])
      /\ IsInjective(wk) /\ IsInjective(sh) /\ \A v \in Waits : IsInjective(wl[v])
      /\ \A i \in ToSet(wk) : i \notin ToSet(sh)
      /\ \A v \in Waits : \A i \in ToSet(wl[v]) : i \notin ToSet(wk) /\ i \notin ToSet(sh)
      /\ \A u, v \in Waits : u # v => \A i \in ToSet(wl[u]) : i \notin ToSet(wl[v])
  BY DEF Linked
<1>3. m \in [L -> Nat \ {0}]
  BY <1>1
<1> HIDE DEF L
<1>4. ASSUME NEW list \in Seq(Nat \ {0}), ToSet(list) \subseteq L, IsInjective(list)
      PROVE  /\ Image(m, list) \in Seq(Nat \ {0})
             /\ \A h : h \in ToSet(Image(m, list)) <=> \E i \in ToSet(list) : h = m[i]
             /\ IsInjective(Image(m, list))
  BY <1>1, <1>3, <1>4, ImageList
<1>5. ToSet(wk) \subseteq L /\ ToSet(sh) \subseteq L /\ \A v \in Waits : ToSet(wl[v]) \subseteq L
  BY <1>2
<1>6. /\ Image(m, wk) \in Seq(Nat \ {0}) /\ IsInjective(Image(m, wk))
      /\ \A h : h \in ToSet(Image(m, wk)) <=> \E i \in ToSet(wk) : h = m[i]
      /\ Image(m, sh) \in Seq(Nat \ {0}) /\ IsInjective(Image(m, sh))
      /\ \A h : h \in ToSet(Image(m, sh)) <=> \E i \in ToSet(sh) : h = m[i]
  BY <1>2, <1>4, <1>5
<1>7. \A v \in Waits : /\ Image(m, wl[v]) \in Seq(Nat \ {0}) /\ IsInjective(Image(m, wl[v]))
                       /\ \A h : h \in ToSet(Image(m, wl[v])) <=> \E i \in ToSet(wl[v]) : h = m[i]
  BY <1>2, <1>4, <1>5
<1>8. \A v \in Waits : wl2[v] = Image(m, wl[v])
  OBVIOUS
<1>9. wl2 \in [Waits -> Seq(Nat \ {0})]
  BY <1>7
<1> HIDE DEF wl2
<1>10. ASSUME NEW h
       PROVE  h \in Live(r) <=> \/ h \in ToSet(Image(m, wk)) \/ h \in ToSet(Image(m, sh))
                                \/ \E v \in Waits : h \in ToSet(wl2[v])
  <2>1. ASSUME NEW i \in L
        PROVE  m[i] \in Live(r)
    BY <1>1
  <2>2. ASSUME h \in Live(r)
        PROVE  \/ h \in ToSet(Image(m, wk)) \/ h \in ToSet(Image(m, sh))
               \/ \E v \in Waits : h \in ToSet(wl2[v])
    <3>1. PICK i \in L : h = m[i]
      BY <1>1, <2>2
    <3>2. CASE i \in ToSet(wk) \/ i \in ToSet(sh)
      BY <1>6, <3>1, <3>2
    <3>3. CASE \E v \in Waits : i \in ToSet(wl[v])
      <4>1. PICK v \in Waits : i \in ToSet(wl[v])
        BY <3>3
      <4>2. h \in ToSet(wl2[v])
        BY <1>7, <1>8, <3>1, <4>1
      <4> QED BY <4>2
    <3> QED BY <1>2, <3>2, <3>3
  <2>3. CASE h \in ToSet(Image(m, wk)) \/ h \in ToSet(Image(m, sh))
    BY <1>5, <1>6, <2>1, <2>3
  <2>4. ASSUME NEW v \in Waits, h \in ToSet(wl2[v])
        PROVE  h \in Live(r)
    <3>1. PICK i \in ToSet(wl[v]) : h = m[i]
      BY <1>7, <1>8, <2>4
    <3> QED BY <1>5, <2>1, <3>1
  <2> QED BY <2>2, <2>3, <2>4
<1>11. \A i \in ToSet(Image(m, wk)) : i \notin ToSet(Image(m, sh))
  BY <1>1, <1>2, <1>5, <1>6
<1>12. ASSUME NEW v \in Waits, NEW i \in ToSet(wl2[v])
       PROVE  i \notin ToSet(Image(m, wk)) /\ i \notin ToSet(Image(m, sh))
  <2>1. PICK j \in ToSet(wl[v]) : i = m[j]
    BY <1>7, <1>8
  <2>2. j \in L /\ j \notin ToSet(wk) /\ j \notin ToSet(sh)
    BY <1>2, <1>5
  <2>3. i \notin ToSet(Image(m, wk))
    BY <1>1, <1>5, <1>6, <2>1, <2>2
  <2> QED BY <1>1, <1>5, <1>6, <2>1, <2>2, <2>3
<1>13. ASSUME NEW u \in Waits, NEW v \in Waits, u # v, NEW i \in ToSet(wl2[u])
       PROVE  i \notin ToSet(wl2[v])
  BY <1>1, <1>2, <1>5, <1>7, <1>8, <1>13
<1>14. \A v \in Waits : IsInjective(wl2[v])
  BY <1>7, <1>8
<1>15. Linked(Live(r), wl2, Image(m, wk), Image(m, sh))
  BY <1>6, <1>9, <1>10, <1>11, <1>12, <1>13, <1>14 DEF Linked
<1> QED BY <1>15 DEF wl2

\* A list of live nodes is relinked as MoveWait says.
LEMMA RelinkedImage ==
    ASSUME NEW r, NEW w, NEW list \in Seq(Nat \ {0}), ToSet(list) \subseteq Live(w)
    PROVE  Relinked(r, w, list) = Image(MoveWait(r, w), list)
<1>1. \A k \in DOMAIN list : list[k] \in Live(w)
  BY DEF ToSet
<1>2. [k \in DOMAIN list |-> MovedTo(w, list[k])] = [k \in DOMAIN list |-> Move(w)[list[k]]]
  BY <1>1 DEF Move
<1>3. CASE SpareWait(r, w)
  BY <1>2, <1>3 DEF Relinked, Relink, Image, MoveWait
<1>4. CASE ~SpareWait(r, w)
  <2>1. list = [k \in DOMAIN list |-> list[k]]
    OBVIOUS
  <2>2. [k \in DOMAIN list |-> list[k]] = [k \in DOMAIN list |-> Stay(w)[list[k]]]
    BY <1>1 DEF Stay
  <2> QED BY <1>4, <2>1, <2>2 DEF Relinked, Image, MoveWait
<1> QED BY <1>3, <1>4

-----------------------------------------------------------------------------
(* Functions which are added, removed or moved to the other queue *)

Adds(q, r, i, f) == /\ i \notin Live(q) /\ Live(r) = Live(q) \cup {i}
                    /\ r.slot[i] = f
                    /\ \A j \in Live(q) : r.slot[j] = q.slot[j]

Drops(q, r, i) == /\ Live(r) = Live(q) \ {i}
                  /\ \A j \in Live(r) : r.slot[j] = q.slot[j]

\* The queues may be exchanged.
LEMMA OnceSym ==
    ASSUME NEW r, NEW w, StoredOnce(r, w)
    PROVE  StoredOnce(w, r)
BY DEF StoredOnce

\* addfunc_syncrunner stores a function which is stored nowhere.
LEMMA OnceAdds ==
    ASSUME NEW r, NEW w, NEW r2, NEW i, NEW f, StoredOnce(r, w), Adds(r, r2, i, f),
           \A j \in Live(r) : r.slot[j] # f, \A j \in Live(w) : w.slot[j] # f
    PROVE  StoredOnce(r2, w)
BY DEF StoredOnce, Adds

\* A function exits.
LEMMA OnceDrops ==
    ASSUME NEW r, NEW w, NEW r2, NEW i, StoredOnce(r, w), Drops(r, r2, i)
    PROVE  StoredOnce(r2, w)
BY DEF StoredOnce, Drops

\* A function moves to the other queue.
LEMMA OnceMoves ==
    ASSUME NEW r, NEW w, NEW r2, NEW w2, NEW i, NEW j, StoredOnce(r, w),
           i \in Live(r), Drops(r, r2, i), Adds(w, w2, j, r.slot[i])
    PROVE  StoredOnce(r2, w2)
<1>1. StoredOnce(w, r2)
  BY OnceDrops, OnceSym
<1>2. \A k \in Live(w) : w.slot[k] # r.slot[i]
  BY DEF StoredOnce
<1>3. \A k \in Live(r2) : r2.slot[k] # r.slot[i]
  BY DEF StoredOnce, Drops
<1> QED BY <1>1, <1>2, <1>3, OnceAdds, OnceSym

-----------------------------------------------------------------------------
(* Nodes which are linked, unlinked or moved to another list *)

\* What Linked says, with the types of the lists.
LEMMA LinkedMembers ==
    ASSUME NEW L, NEW wl, NEW wk, NEW sh, Linked(L, wl, wk, sh)
    PROVE  /\ wl \in [Waits -> Seq(Nat \ {0})] /\ wk \in Seq(Nat \ {0}) /\ sh \in Seq(Nat \ {0})
           /\ \A v \in Waits : wl[v] \in Seq(Nat \ {0}) /\ IsInjective(wl[v])
           /\ IsInjective(wk) /\ IsInjective(sh)
           /\ ToSet(wk) \subseteq L /\ ToSet(sh) \subseteq L
           /\ \A v \in Waits : ToSet(wl[v]) \subseteq L
           /\ \A i \in ToSet(wk) : i \notin ToSet(sh)
           /\ \A v \in Waits : \A i \in ToSet(wl[v]) : i \notin ToSet(wk) /\ i \notin ToSet(sh)
           /\ \A u, v \in Waits : u # v => \A i \in ToSet(wl[u]) : i \notin ToSet(wl[v])
           /\ \A i \in L : \/ i \in ToSet(wk) \/ i \in ToSet(sh)
                           \/ \E v \in Waits : i \in ToSet(wl[v])
BY DEF Linked

\* waitsf_runimpl: a new node at the end of the list of a condition.
LEMMA LinkNew ==
    ASSUME NEW L, NEW wl, NEW wk, NEW sh, Linked(L, wl, wk, sh),
           NEW v \in Waits, NEW a \in Nat \ {0}, a \notin L
    PROVE  Linked(L \cup {a}, [wl EXCEPT ![v] = Append(@, a)], wk, sh)
<1> DEFINE wl2 == [wl EXCEPT ![v] = Append(@, a)]
<1>1. wl[v] \in Seq(Nat \ {0}) /\ IsInjective(wl[v]) /\ a \notin ToSet(wl[v])
      /\ a \notin ToSet(wk) /\ a \notin ToSet(sh) /\ \A u \in Waits : a \notin ToSet(wl[u])
  BY LinkedMembers
<1>2. /\ Append(wl[v], a) \in Seq(Nat \ {0}) /\ IsInjective(Append(wl[v], a))
      /\ ToSet(Append(wl[v], a)) = ToSet(wl[v]) \cup {a}
  BY <1>1, AppendList
<1>3. /\ wl2 \in [Waits -> Seq(Nat \ {0})]
      /\ wl2[v] = Append(wl[v], a) /\ \A u \in Waits : u # v => wl2[u] = wl[u]
  BY <1>2 DEF Linked
<1> HIDE DEF wl2
<1>4. \A u \in Waits : IsInjective(wl2[u])
  BY <1>2, <1>3, LinkedMembers
<1>5. /\ \A i : i \in ToSet(wl2[v]) <=> i \in ToSet(wl[v]) \/ i = a
      /\ \A u \in Waits : u # v => ToSet(wl2[u]) = ToSet(wl[u])
  BY <1>2, <1>3
<1>6. \A u \in Waits : \A i : i \in ToSet(wl2[u]) <=> i \in ToSet(wl[u]) \/ (u = v /\ i = a)
  BY <1>5
<1>7. \A i : i \in L \cup {a} <=> \/ i \in ToSet(wk) \/ i \in ToSet(sh)
                                  \/ \E u \in Waits : i \in ToSet(wl2[u])
  <2>1. \A i \in L : \/ i \in ToSet(wk) \/ i \in ToSet(sh)
                     \/ \E u \in Waits : i \in ToSet(wl2[u])
    BY <1>6 DEF Linked
  <2>2. a \in ToSet(wl2[v])
    BY <1>5
  <2>3. \A u \in Waits : \A i \in ToSet(wl2[u]) : i \in L \cup {a}
    BY <1>6 DEF Linked
  <2> QED BY <2>1, <2>2, <2>3 DEF Linked
<1>8. \A u \in Waits : \A i \in ToSet(wl2[u]) : i \notin ToSet(wk) /\ i \notin ToSet(sh)
  BY <1>1, <1>6 DEF Linked
<1>9. ASSUME NEW t \in Waits, NEW u \in Waits, t # u, NEW i \in ToSet(wl2[t])
      PROVE  i \notin ToSet(wl2[u])
  <2>1. CASE i = a
    <3>1. t = v
      BY <1>1, <1>6, <2>1
    <3> QED BY <1>1, <1>6, <1>9, <2>1, <3>1
  <2>2. CASE i # a
    <3>1. i \in ToSet(wl[t])
      BY <1>6, <2>2
    <3>2. i \notin ToSet(wl[u])
      BY <1>9, <3>1, LinkedMembers
    <3> QED BY <1>6, <2>2, <3>2
  <2> QED BY <2>1, <2>2
<1>10. Linked(L \cup {a}, wl2, wk, sh)
  BY <1>3, <1>4, <1>7, <1>8, <1>9 DEF Linked
<1> QED BY <1>10 DEF wl2

\* The first node of the shadow list is removed.
LEMMA LinkTaken ==
    ASSUME NEW L, NEW wl, NEW wk, NEW sh, Linked(L, wl, wk, sh), sh # <<>>
    PROVE  /\ Head(sh) \in L /\ Head(sh) \in Nat \ {0}
           /\ Linked(L \ {Head(sh)}, wl, wk, Tail(sh))
<1>1. sh \in Seq(Nat \ {0}) /\ IsInjective(sh) /\ ToSet(sh) \subseteq L
  BY LinkedMembers
<1>2. /\ Head(sh) \in Nat \ {0} /\ Head(sh) \in ToSet(sh)
      /\ Tail(sh) \in Seq(Nat \ {0}) /\ IsInjective(Tail(sh))
      /\ ToSet(Tail(sh)) = ToSet(sh) \ {Head(sh)}
  BY <1>1, TailList
<1> DEFINE h == Head(sh)
           t == Tail(sh)
<1> HIDE DEF h, t
<1>3. Linked(L \ {h}, wl, wk, t)
  BY <1>2 DEF Linked, h, t
<1> QED BY <1>1, <1>2, <1>3 DEF h, t

\* waitsf_waitimpl: it is linked into the list of a condition.
LEMMA LinkAgain ==
    ASSUME NEW L, NEW wl, NEW wk, NEW sh, Linked(L, wl, wk, sh), sh # <<>>, NEW v \in Waits
    PROVE  Linked(L, [wl EXCEPT ![v] = Append(@, Head(sh))], wk, Tail(sh))
<1>1. /\ Head(sh) \in L /\ Head(sh) \in Nat \ {0}
      /\ Linked(L \ {Head(sh)}, wl, wk, Tail(sh))
  BY LinkTaken
<1>2. Linked((L \ {Head(sh)}) \cup {Head(sh)}, [wl EXCEPT ![v] = Append(@, Head(sh))], wk, Tail(sh))
  BY <1>1, LinkNew
<1>3. (L \ {Head(sh)}) \cup {Head(sh)} = L
  BY <1>1
<1> QED BY <1>2, <1>3

\* wakeup_syncrunner
LEMMA LinkWakeup ==
    ASSUME NEW L, NEW wl, NEW wk, NEW sh, Linked(L, wl, wk, sh), NEW v \in Waits, wl[v] # <<>>
    PROVE  Linked(L, [wl EXCEPT ![v] = Tail(@)], Append(wk, Head(wl[v])), sh)
<1> DEFINE wl2 == [wl EXCEPT ![v] = Tail(@)]
           h == Head(wl[v])
           wk2 == Append(wk, h)
<1>1. wl[v] \in Seq(Nat \ {0}) /\ IsInjective(wl[v]) /\ wk \in Seq(Nat \ {0}) /\ IsInjective(wk)
  BY LinkedMembers
<1>2. /\ h \in Nat \ {0} /\ h \in ToSet(wl[v])
      /\ Tail(wl[v]) \in Seq(Nat \ {0}) /\ IsInjective(Tail(wl[v]))
      /\ ToSet(Tail(wl[v])) = ToSet(wl[v]) \ {h}
  BY <1>1, TailList
<1>3. h \notin ToSet(wk)
  BY <1>2, LinkedMembers
<1> HIDE DEF h
<1>4. wk2 \in Seq(Nat \ {0}) /\ IsInjective(wk2) /\ ToSet(wk2) = ToSet(wk) \cup {h}
  BY <1>1, <1>2, <1>3, AppendList
<1>5. /\ wl2 \in [Waits -> Seq(Nat \ {0})]
      /\ wl2[v] = Tail(wl[v]) /\ \A u \in Waits : u # v => wl2[u] = wl[u]
  BY <1>2 DEF Linked
<1> HIDE DEF wl2, wk2
<1>6. \A u \in Waits : IsInjective(wl2[u])
  BY <1>2, <1>5, LinkedMembers
<1>7. \A u \in Waits : \A i : i \in ToSet(wl2[u]) <=> i \in ToSet(wl[u]) /\ ~(u = v /\ i = h)
  BY <1>2, <1>5
<1>8. Linked(L, wl2, wk2, sh)
  <2>1. \A i : i \in L <=> i \in ToSet(wk2) \/ i \in ToSet(sh) \/ \E u \in Waits : i \in ToSet(wl2[u])
    BY <1>2, <1>4, <1>7 DEF Linked
  <2>2. \A i \in ToSet(wk2) : i \notin ToSet(sh)
    BY <1>2, <1>4 DEF Linked
  <2>3. \A u \in Waits : \A i \in ToSet(wl2[u]) : i \notin ToSet(wk2) /\ i \notin ToSet(sh)
    BY <1>2, <1>4, <1>7 DEF Linked
  <2>4. \A u, t \in Waits : u # t => \A i \in ToSet(wl2[u]) : i \notin ToSet(wl2[t])
    BY <1>7 DEF Linked
  <2> QED BY <1>4, <1>5, <1>6, <2>1, <2>2, <2>3, <2>4 DEF Linked
<1> QED BY <1>8 DEF wl2, wk2, h

\* wakeupall_syncrunner
LEMMA LinkWakeupAll ==
    ASSUME NEW L, NEW wl, NEW wk, NEW sh, Linked(L, wl, wk, sh), NEW v \in Waits
    PROVE  Linked(L, [wl EXCEPT ![v] = <<>>], wk \o wl[v], sh)
<1> DEFINE wl2 == [wl EXCEPT ![v] = <<>>]
           wk2 == wk \o wl[v]
<1>1. wl[v] \in Seq(Nat \ {0}) /\ IsInjective(wl[v]) /\ wk \in Seq(Nat \ {0}) /\ IsInjective(wk)
      /\ ToSet(wk) \cap ToSet(wl[v]) = {}
  BY LinkedMembers
<1>2. wk2 \in Seq(Nat \ {0}) /\ IsInjective(wk2) /\ ToSet(wk2) = ToSet(wk) \cup ToSet(wl[v])
  BY <1>1, ConcatList
<1>3. /\ wl2 \in [Waits -> Seq(Nat \ {0})]
      /\ wl2[v] = <<>> /\ \A u \in Waits : u # v => wl2[u] = wl[u]
  BY DEF Linked
<1> HIDE DEF wl2, wk2
<1>4. \A u \in Waits : IsInjective(wl2[u])
  BY <1>3, LinkedMembers, EmptyList
<1>5. \A u \in Waits : \A i : i \in ToSet(wl2[u]) <=> i \in ToSet(wl[u]) /\ u # v
  BY <1>3, EmptyList
<1>6. Linked(L, wl2, wk2, sh)
  BY <1>2, <1>3, <1>4, <1>5 DEF Linked
<1> QED BY <1>6 DEF wl2, wk2

\* process_wakeuplist moves all nodes to its own list.
LEMMA LinkShadow ==
    ASSUME NEW L, NEW wl, NEW wk, Linked(L, wl, wk, <<>>)
    PROVE  Linked(L, wl, <<>>, wk)
BY EmptyList DEF Linked

\* unlink_syncfunc
LEMMA LinkWithout ==
    ASSUME NEW L, NEW wl, NEW wk, NEW sh, Linked(L, wl, wk, sh), NEW c, c \notin ToSet(sh)
    PROVE  Linked(L \ {c}, [v \in Waits |-> Without(wl[v], c)], Without(wk, c), sh)
<1> DEFINE wl2 == [v \in Waits |-> Without(wl[v], c)]
           wk2 == Without(wk, c)
<1>1. wk2 \in Seq(Nat \ {0}) /\ IsInjective(wk2) /\ ToSet(wk2) = ToSet(wk) \ {c}
  BY WithoutList, LinkedMembers
<1>2. \A v \in Waits : /\ wl2[v] \in Seq(Nat \ {0}) /\ IsInjective(wl2[v])
                       /\ ToSet(wl2[v]) = ToSet(wl[v]) \ {c}
  BY WithoutList, LinkedMembers
<1>3. wl2 \in [Waits -> Seq(Nat \ {0})]
  BY <1>2
<1> HIDE DEF wl2, wk2
<1>4. Linked(L \ {c}, wl2, wk2, sh)
  BY <1>1, <1>2, <1>3 DEF Linked
<1> QED BY <1>4 DEF wl2, wk2

-----------------------------------------------------------------------------
(* The functions a run has still to call *)

Due(r, c, l, d) == /\ \A i \in c..l : r.slot[i] # NoFunc
                   /\ {r.slot[i] : i \in c..l} = d
                   /\ Cardinality(d) = l - c + 1

\* The functions in a range of live slots are as many as the slots.
LEMMA DueCount ==
    ASSUME NEW r, NEW c \in Nat, NEW l \in Nat, c <= l + 1,
           c..l \subseteq Live(r),
           \A i, j \in Live(r) : r.slot[i] = r.slot[j] => i = j
    PROVE  Due(r, c, l, {r.slot[i] : i \in c..l})
<1> DEFINE d == {r.slot[i] : i \in c..l}
           f == [i \in c..l |-> r.slot[i]]
<1>1. f \in Bijection(c..l, d)
  <2>1. f \in [c..l -> d]
    OBVIOUS
  <2>2. ASSUME NEW i \in c..l, NEW j \in c..l, f[i] = f[j] PROVE i = j
    BY <2>2
  <2>3. \A g \in d : \E i \in c..l : f[i] = g
    OBVIOUS
  <2> HIDE DEF f, d
  <2> QED BY <2>1, <2>2, <2>3 DEF Bijection, Injection, Surjection, IsInjective
<1>2. IsFiniteSet(c..l) /\ Cardinality(c..l) = l - c + 1
  <2>1. CASE c <= l
    BY <2>1, FS_Interval
  <2>2. CASE c = l + 1
    <3>1. c..l = {}
      BY <2>2
    <3> QED BY <2>2, <3>1, FS_EmptySet
  <2> QED BY <2>1, <2>2
<1>3. Cardinality(d) = l - c + 1
  BY <1>1, <1>2, FS_Bijection DEF ExistsBijection
<1>4. \A i \in c..l : r.slot[i] # NoFunc
  BY DEF Live
<1> QED BY <1>3, <1>4 DEF Due

\* The slots the loop has still to visit are live.
LEMMA DueLive ==
    ASSUME NEW r \in Queues, QueueOK(r), NEW c \in Nat \ {0}, NEW l \in Nat, l <= Used(r),
           NEW d, Due(r, c, l, d)
    PROVE  c..l \subseteq Live(r)
<1>1. l <= r.size /\ r.size \in Nat /\ Used(r) \in Nat /\ DOMAIN r.slot = 1..r.size
  BY QueueMembers
<1>2. c..l \subseteq 1..r.size
  BY <1>1
<1> QED BY <1>1, <1>2 DEF Due, Live

\* A loop starts: without holes every slot which was handed out is live.
LEMMA DueStarts ==
    ASSUME NEW r \in Queues, QueueOK(r), r.freelist_size = 0,
           \A i, j \in Live(r) : r.slot[i] = r.slot[j] => i = j
    PROVE  Due(r, 1, Used(r), {r.slot[i] : i \in Live(r)}) /\ Used(r) \in Nat
<1>1. Live(r) \subseteq 1..Used(r) /\ ToSet(r.freelist) = (1..Used(r)) \ Live(r)
  BY QueueSlots
<1>2. r.freelist \in Seq(Nat \ {0}) /\ Len(r.freelist) = 0 /\ Used(r) \in Nat
  BY QueueMembers
<1>3. ToSet(r.freelist) = {}
  BY <1>2 DEF ToSet
<1>4. Live(r) = 1..Used(r)
  BY <1>1, <1>3
<1>5. Due(r, 1, Used(r), {r.slot[i] : i \in 1..Used(r)})
  <2>1. 1 <= Used(r) + 1 /\ 1..Used(r) \subseteq Live(r)
    BY <1>2, <1>4
  <2> QED BY <1>2, <2>1, DueCount
<1> QED BY <1>2, <1>4, <1>5

\* The function in slot c was called.
LEMMA DueStep ==
    ASSUME NEW r \in Queues, QueueOK(r), NEW c \in Nat \ {0}, NEW l \in Nat, l <= Used(r), c <= l,
           \A i, j \in Live(r) : r.slot[i] = r.slot[j] => i = j,
           NEW d, Due(r, c, l, d)
    PROVE  c \in Live(r) /\ Due(r, c + 1, l, d \ {r.slot[c]})
<1>1. c..l \subseteq Live(r) /\ c \in c..l
  BY DueLive
<1>2. (c + 1)..l \subseteq Live(r) /\ c + 1 \in Nat /\ c + 1 <= l + 1
  BY <1>1
<1>3. Due(r, c + 1, l, {r.slot[i] : i \in (c + 1)..l})
  BY <1>2, DueCount
<1>4. d = {r.slot[i] : i \in c..l}
  BY DEF Due
<1>5. \A i \in c..l : i = c \/ i \in (c + 1)..l
  OBVIOUS
<1>6. \A i \in (c + 1)..l : i \in c..l /\ i # c
  OBVIOUS
<1>7. {r.slot[i] : i \in (c + 1)..l} = d \ {r.slot[c]}
  <2>1. ASSUME NEW i \in (c + 1)..l PROVE r.slot[i] \in d \ {r.slot[c]}
    BY <1>1, <1>4, <1>6
  <2>2. ASSUME NEW g \in d \ {r.slot[c]} PROVE \E i \in (c + 1)..l : g = r.slot[i]
    BY <1>4, <1>5
  <2> QED BY <2>1, <2>2
<1> QED BY <1>1, <1>3, <1>7

\* The slots which are still to be visited were not changed.
LEMMA DueStays ==
    ASSUME NEW r, NEW r2, NEW c, NEW l, NEW d, Due(r, c, l, d),
           \A i \in c..l : r2.slot[i] = r.slot[i]
    PROVE  Due(r2, c, l, d)
<1>1. {r2.slot[i] : i \in c..l} = {r.slot[i] : i \in c..l}
  OBVIOUS
<1> QED BY <1>1 DEF Due

-----------------------------------------------------------------------------
(* The inductive invariant, while functions run and while they are ended *)

Active(r, w, wl, wk, sh, ph, c, l, d) ==
    /\ r \in Queues /\ QueueOK(r) /\ w \in Queues /\ QueueOK(w)
    /\ Room(r, w) /\ StoredOnce(r, w) /\ Linked(Live(w), wl, wk, sh)
    /\ ph \in {"idle", "run", "compact", "wakeup"}
    /\ c \in Nat /\ l \in Nat /\ d \subseteq Funcs
    /\ ph # "wakeup" => sh = <<>>
    /\ ph = "run" => c \in 1..(l + 1) /\ l <= Used(r) /\ Due(r, c, l, d)
    /\ ph \in {"idle", "wakeup"} => r.freelist_size = 0

Ending(r, w, wl, wk, sh, ph, c, l, d) ==
    /\ r \in Queues /\ w \in Queues
    /\ StoredOnce(r, w) /\ Linked(Live(w), wl, wk, sh)
    /\ ph \in {"endrun", "endwait"}
    /\ c \in Nat /\ l \in Nat /\ d \subseteq Funcs
    /\ sh = <<>>
    /\ ph = "endrun" => /\ \A i \in Live(r) : i \in c..l
                        /\ \A i \in Live(w) : i <= Used(w)
    /\ ph = "endwait" => /\ Live(r) = {}
                         /\ \A i \in Live(w) : i \in c..l

\* What RunnerInv says of the state before a step ...
LEMMA InvParts ==
    ASSUME RunnerInv
    PROVE  /\ isterminate \in BOOLEAN
           /\ ~isterminate => Active(run, wait, waitlist, wakeup, shadow, phase, cursor, last, due)
           /\ isterminate => Ending(run, wait, waitlist, wakeup, shadow, phase, cursor, last, due)
<1>1. StoredOnce(run, wait) /\ Linked(Live(wait), waitlist, wakeup, shadow)
  BY LostIsLinked DEF RunnerInv
<1>2. /\ run \in Queues /\ wait \in Queues /\ isterminate \in BOOLEAN
      /\ phase \in {"idle", "run", "compact", "wakeup", "endrun", "endwait"}
      /\ cursor \in Nat /\ last \in Nat /\ due \subseteq Funcs
  BY DEF RunnerInv, TypeOK
<1>3. ASSUME ~isterminate
      PROVE  Active(run, wait, waitlist, wakeup, shadow, phase, cursor, last, due)
  <2>1. QueueOK(run) /\ QueueOK(wait) /\ Room(run, wait)
    BY <1>3 DEF RunnerInv, QueuesOK, MovePossible, Room
  <2>2. /\ phase \in {"idle", "run", "compact", "wakeup"}
        /\ phase # "wakeup" => shadow = <<>>
        /\ phase = "run" => cursor \in 1..(last + 1) /\ last <= Used(run)
        /\ phase \in {"idle", "wakeup"} => run.freelist_size = 0
    BY <1>2, <1>3 DEF RunnerInv, PhaseInv
  <2>3. phase = "run" => Due(run, cursor, last, due)
    BY DEF RunnerInv, RunsEachOnce, Due
  <2> QED BY <1>1, <1>2, <2>1, <2>2, <2>3 DEF Active
<1>4. ASSUME isterminate
      PROVE  Ending(run, wait, waitlist, wakeup, shadow, phase, cursor, last, due)
  <2>1. phase \in {"endrun", "endwait"} /\ shadow = <<>>
    BY <1>4 DEF RunnerInv, PhaseInv
  <2>2. TerminateInv
    BY DEF RunnerInv
  <2> QED BY <1>1, <1>2, <2>1, <2>2 DEF Ending, TerminateInv
<1> QED BY <1>2, <1>3, <1>4

\* ... and what has to be shown of the state after it.
LEMMA InvNext ==
    ASSUME isterminate' \in BOOLEAN,
           ~isterminate' => Active(run', wait', waitlist', wakeup', shadow', phase', cursor', last', due'),
           isterminate' => Ending(run', wait', waitlist', wakeup', shadow', phase', cursor', last', due')
    PROVE  RunnerInv'
<1>1. /\ run' \in Queues /\ wait' \in Queues
      /\ StoredOnce(run', wait') /\ Linked(Live(wait'), waitlist', wakeup', shadow')
      /\ phase' \in {"idle", "run", "compact", "wakeup", "endrun", "endwait"}
      /\ cursor' \in Nat /\ last' \in Nat /\ due' \subseteq Funcs
  BY DEF Active, Ending
<1>2. TypeOK'
  BY <1>1 DEF TypeOK, Linked
<1>3. NoFunctionLost'
  <2>1. (Live(wait) = ToSet(wakeup) \cup ToSet(shadow) \cup UNION {ToSet(waitlist[w]) : w \in Waits})'
    BY <1>1 DEF Linked
  <2>2. (ToSet(wakeup) \cap ToSet(shadow) = {})'
    BY <1>1 DEF Linked
  <2>3. (\A w \in Waits : ToSet(waitlist[w]) \cap (ToSet(wakeup) \cup ToSet(shadow)) = {})'
    BY <1>1 DEF Linked
  <2>4. (\A v, w \in Waits : v # w => ToSet(waitlist[v]) \cap ToSet(waitlist[w]) = {})'
    BY <1>1 DEF Linked
  <2>5. (IsInjective(wakeup) /\ IsInjective(shadow) /\ \A w \in Waits : IsInjective(waitlist[w]))'
    BY <1>1 DEF Linked
  <2> QED BY <1>1, <2>1, <2>2, <2>3, <2>4, <2>5 DEF NoFunctionLost, StoredOnce
<1>4. PhaseInv'
  BY DEF PhaseInv, Active, Ending
<1>5. QueuesOK' /\ MovePossible'
  BY DEF QueuesOK, NoHoles, MovePossible, Active, Room
<1>6. RunsEachOnce'
  BY DEF RunsEachOnce, Due, Active, Ending
<1>7. TerminateInv'
  BY DEF TerminateInv, Active, Ending
<1> QED BY <1>2, <1>3, <1>4, <1>5, <1>6, <1>7 DEF RunnerInv

\* The case of a step which does not end functions.
LEMMA ActiveNext ==
    ASSUME RunnerInv, ~isterminate, isterminate' = isterminate,
           Active(run', wait', waitlist', wakeup', shadow', phase', cursor', last', due')
    PROVE  RunnerInv'
<1>1. isterminate' = FALSE
  BY InvParts
<1> QED BY <1>1, InvNext

\* The case of a step of terminate_syncrunner.
LEMMA EndingNext ==
    ASSUME isterminate' = TRUE,
           Ending(run', wait', waitlist', wakeup', shadow', phase', cursor', last', due')
    PROVE  RunnerInv'
BY InvNext

-----------------------------------------------------------------------------
(* addfunc_syncrunner *)

\* growqueues_syncrunner: afterwards one more function of the other queue finds room.
LEMMA ReserveOne ==
    ASSUME NEW q \in Queues, QueueOK(q), NEW k \in Nat, k <= Nrfree(q)
    PROVE  LET g == IF k >= Nrfree(q) THEN Grow(q) ELSE q
           IN  /\ g \in Queues /\ QueueOK(g) /\ SameFuncs(q, g, Stay(q))
               /\ Live(g) = Live(q) /\ \A i \in Live(q) : g.slot[i] = q.slot[i]
               /\ Nrfree(g) \in Nat /\ Nrfree(g) > k /\ Inuse(g) = Inuse(q)
               /\ Used(g) = Used(q) /\ g.freelist_size = q.freelist_size
<1>1. Nrfree(q) \in Nat /\ N \in Nat \ {0}
  BY QueueNumbers, QueueType
<1>2. CASE k >= Nrfree(q)
  <2>1. /\ Grow(q) \in Queues /\ QueueOK(Grow(q)) /\ SameFuncs(q, Grow(q), Stay(q))
        /\ Live(Grow(q)) = Live(q) /\ \A i \in Live(q) : Grow(q).slot[i] = q.slot[i]
        /\ Nrfree(Grow(q)) = Nrfree(q) + N /\ Inuse(Grow(q)) = Inuse(q)
        /\ Used(Grow(q)) = Used(q) /\ Grow(q).freelist_size = q.freelist_size
    BY GrowQueue, GrowSame
  <2>2. Nrfree(Grow(q)) \in Nat /\ Nrfree(Grow(q)) > k
    BY <1>1, <1>2, <2>1
  <2> QED BY <1>2, <2>1, <2>2
<1>3. CASE ~(k >= Nrfree(q))
  <2>1. Nrfree(q) > k
    BY <1>1, <1>3
  <2> QED BY <1>1, <1>3, <2>1, StaySame
<1> QED BY <1>2, <1>3

\* addfunc_syncrunner grows the queues, then it stores the function.
LEMMA AddFuncInv ==
    ASSUME RunnerInv, NEW f \in Funcs, AddFunc(f)
    PROVE  RunnerInv'
<1> DEFINE q == IF NeedsRun THEN Grow(run) ELSE run
           p == IF NeedsWait THEN Grow(wait) ELSE wait
           r == SfAlloc(q, f)
           a == AllocSlot(q)
<1>1. /\ ~isterminate /\ f \notin Stored /\ run' = r /\ wait' = p
      /\ waitlist' = waitlist /\ wakeup' = wakeup /\ shadow' = shadow
      /\ phase' = phase /\ cursor' = cursor /\ last' = last /\ isterminate' = isterminate
      /\ due' = due
  BY DEF AddFunc, Accepts, lists, control
<1>2. /\ run \in Queues /\ QueueOK(run) /\ wait \in Queues /\ QueueOK(wait)
      /\ Room(run, wait) /\ StoredOnce(run, wait) /\ Linked(Live(wait), waitlist, wakeup, shadow)
      /\ phase \in {"idle", "run", "compact", "wakeup"}
      /\ cursor \in Nat /\ last \in Nat /\ due \subseteq Funcs
      /\ phase # "wakeup" => shadow = <<>>
      /\ phase = "run" => cursor \in 1..(last + 1) /\ last <= Used(run) /\ Due(run, cursor, last, due)
      /\ phase \in {"idle", "wakeup"} => run.freelist_size = 0
  BY <1>1, InvParts DEF Active
<1>3. /\ Inuse(run) \in Nat /\ Inuse(wait) \in Nat
      /\ Inuse(wait) <= Nrfree(run) /\ Inuse(run) <= Nrfree(wait)
  BY <1>2, QueueNumbers DEF Room
<1>4. /\ q \in Queues /\ QueueOK(q) /\ Live(q) = Live(run)
      /\ \A i \in Live(run) : q.slot[i] = run.slot[i]
      /\ Nrfree(q) \in Nat /\ Nrfree(q) > Inuse(wait) /\ Inuse(q) = Inuse(run)
      /\ Used(q) = Used(run) /\ q.freelist_size = run.freelist_size
  BY <1>2, <1>3, ReserveOne DEF NeedsRun
<1>5. /\ p \in Queues /\ QueueOK(p) /\ Live(p) = Live(wait) /\ SameFuncs(wait, p, Stay(wait))
      /\ Nrfree(p) \in Nat /\ Nrfree(p) > Inuse(run) /\ Inuse(p) = Inuse(wait)
  BY <1>2, <1>3, ReserveOne DEF NeedsWait
<1> HIDE DEF q, p
<1>6. Nrfree(q) > 0
  BY <1>3, <1>4
<1>7. /\ r \in Queues /\ QueueOK(r)
      /\ a \notin Live(q) /\ Live(r) = Live(q) \cup {a} /\ r.slot[a] = f
      /\ \A i \in Live(q) : r.slot[i] = q.slot[i]
      /\ Nrfree(r) = Nrfree(q) - 1 /\ Inuse(r) = Inuse(q) + 1 /\ Used(r) >= Used(q)
      /\ q.freelist_size = 0 => r.freelist_size = 0
  BY <1>4, <1>6, AllocQueue
<1> HIDE DEF r, a
<1>8. Adds(run, r, a, f)
  BY <1>4, <1>7 DEF Adds
<1>9. StoredOnce(r, p)
  <2>1. (\A i \in Live(run) : run.slot[i] # f) /\ \A i \in Live(wait) : wait.slot[i] # f
    BY <1>1 DEF Stored
  <2>2. StoredOnce(r, wait)
    BY <1>2, <1>8, <2>1, OnceAdds
  <2> QED BY <1>5, <1>7, <2>2, SameOnce, StaySame
<1>10. Room(r, p)
  BY <1>3, <1>4, <1>5, <1>7 DEF Room
<1>11. ASSUME phase = "run"
       PROVE  last <= Used(r) /\ Due(r, cursor, last, due)
  <2>1. /\ cursor \in Nat \ {0} /\ last \in Nat /\ last <= Used(run) /\ Due(run, cursor, last, due)
        /\ Used(run) \in Int /\ Used(r) \in Int
    BY <1>2, <1>7, <1>11, QueueType
  <2>2. cursor..last \subseteq Live(run)
    BY <1>2, <2>1, DueLive
  <2>3. \A i \in cursor..last : r.slot[i] = run.slot[i]
    BY <2>2, <1>8 DEF Adds
  <2> QED BY <1>4, <1>7, <2>1, <2>3, DueStays
<1>12. Active(run', wait', waitlist', wakeup', shadow', phase', cursor', last', due')
  BY <1>1, <1>2, <1>4, <1>5, <1>7, <1>9, <1>10, <1>11 DEF Active
<1> QED BY <1>1, <1>12, ActiveNext

\* addfunc_syncrunner fails after the RUN queue has grown.
LEMMA AddFuncNoMemInv ==
    ASSUME RunnerInv, AddFuncNoMem
    PROVE  RunnerInv'
<1> DEFINE r == Grow(run)
<1>1. /\ ~isterminate /\ run' = r /\ wait' = wait
      /\ waitlist' = waitlist /\ wakeup' = wakeup /\ shadow' = shadow
      /\ phase' = phase /\ cursor' = cursor /\ last' = last /\ isterminate' = isterminate
      /\ due' = due
  BY DEF AddFuncNoMem, Accepts, lists, control
<1>2. /\ run \in Queues /\ QueueOK(run) /\ wait \in Queues /\ QueueOK(wait)
      /\ Room(run, wait) /\ StoredOnce(run, wait) /\ Linked(Live(wait), waitlist, wakeup, shadow)
      /\ phase \in {"idle", "run", "compact", "wakeup"}
      /\ cursor \in Nat /\ last \in Nat /\ due \subseteq Funcs
      /\ phase # "wakeup" => shadow = <<>>
      /\ phase = "run" => cursor \in 1..(last + 1) /\ last <= Used(run) /\ Due(run, cursor, last, due)
      /\ phase \in {"idle", "wakeup"} => run.freelist_size = 0
  BY <1>1, InvParts DEF Active
<1>3. /\ r \in Queues /\ QueueOK(r) /\ Live(r) = Live(run)
      /\ \A i \in Live(run) : r.slot[i] = run.slot[i]
      /\ Nrfree(r) = Nrfree(run) + N /\ Inuse(r) = Inuse(run)
      /\ Used(r) = Used(run) /\ r.freelist_size = run.freelist_size
  BY <1>2, GrowQueue
<1>4. StoredOnce(r, wait)
  BY <1>2, GrowSame, StaySame, SameOnce
<1> HIDE DEF r
<1>5. Room(r, wait)
  <2>1. /\ Nrfree(run) \in Nat /\ N \in Nat /\ Inuse(wait) \in Nat
    BY <1>2, QueueNumbers, QueueType
  <2> QED BY <1>2, <1>3, <2>1 DEF Room
<1>6. ASSUME phase = "run"
      PROVE  Due(r, cursor, last, due)
  <2>1. cursor \in Nat \ {0} /\ last \in Nat /\ last <= Used(run) /\ Due(run, cursor, last, due)
    BY <1>2, <1>6
  <2>2. cursor..last \subseteq Live(run)
    BY <1>2, <2>1, DueLive
  <2>3. \A i \in cursor..last : r.slot[i] = run.slot[i]
    BY <1>3, <2>2
  <2> QED BY <2>1, <2>3, DueStays
<1>7. Active(run', wait', waitlist', wakeup', shadow', phase', cursor', last', due')
  BY <1>1, <1>2, <1>3, <1>4, <1>5, <1>6 DEF Active
<1> QED BY <1>1, <1>7, ActiveNext

-----------------------------------------------------------------------------
(* wakeup_syncrunner, wakeupall_syncrunner *)

\* Steps which change nothing but the lists.
LEMMA ListStepInv ==
    ASSUME RunnerInv, UNCHANGED <<run, wait, shadow, control, due>>,
           Linked(Live(wait), waitlist, wakeup, shadow) =>
               Linked(Live(wait), waitlist', wakeup', shadow)
    PROVE  RunnerInv'
<1>1. /\ run' = run /\ wait' = wait /\ shadow' = shadow /\ due' = due
      /\ phase' = phase /\ cursor' = cursor /\ last' = last /\ isterminate' = isterminate
  BY DEF control
<1>2. ASSUME ~isterminate
      PROVE  Active(run', wait', waitlist', wakeup', shadow', phase', cursor', last', due')
  <2>1. Active(run, wait, waitlist, wakeup, shadow, phase, cursor, last, due)
    BY <1>2, InvParts
  <2> QED BY <1>1, <2>1 DEF Active
<1>3. ASSUME isterminate
      PROVE  Ending(run', wait', waitlist', wakeup', shadow', phase', cursor', last', due')
  <2>1. Ending(run, wait, waitlist, wakeup, shadow, phase, cursor, last, due)
    BY <1>3, InvParts
  <2> QED BY <1>1, <2>1 DEF Ending
<1> QED BY <1>1, <1>2, <1>3, InvParts, InvNext

\* Nodes move to the wakeup list.
LEMMA WakeupInv ==
    ASSUME RunnerInv, NEW w \in Waits, Wakeup(w) \/ WakeupAll(w)
    PROVE  RunnerInv'
<1>1. CASE Wakeup(w)
  BY <1>1, LinkWakeup, ListStepInv DEF Wakeup
<1>2. CASE WakeupAll(w)
  BY <1>2, LinkWakeupAll, ListStepInv DEF WakeupAll, Spliced
<1> QED BY <1>1, <1>2

-----------------------------------------------------------------------------
(* The loop over the RUN queue *)

\* run_syncrunner starts its loop.
LEMMA RunInv ==
    ASSUME RunnerInv, Run
    PROVE  RunnerInv'
<1>1. /\ phase = "idle" /\ phase' = "run" /\ cursor' = 1 /\ last' = Used(run)
      /\ due' = {run.slot[i] : i \in Live(run)}
      /\ run' = run /\ wait' = wait /\ waitlist' = waitlist /\ wakeup' = wakeup
      /\ shadow' = shadow /\ isterminate' = isterminate
  BY DEF Run, LoopEnd, lists
<1>2. ~isterminate
  BY <1>1, InvParts DEF Ending
<1>3. Active(run, wait, waitlist, wakeup, shadow, phase, cursor, last, due)
  BY <1>2, InvParts
<1>4. Due(run, 1, Used(run), due') /\ Used(run) \in Nat
  BY <1>1, <1>3, DueStarts DEF Active, StoredOnce
<1>5. due' \subseteq Funcs
  BY <1>1, <1>3, LiveSlot DEF Active
<1>6. 1 \in 1..(last' + 1) /\ last' <= Used(run)
  BY <1>1, <1>4
<1>7. Active(run', wait', waitlist', wakeup', shadow', phase', cursor', last', due')
  BY <1>1, <1>3, <1>4, <1>5, <1>6 DEF Active
<1> QED BY <1>1, <1>2, <1>7, ActiveNext

\* What holds when the loop calls a function.
LEMMA CalledFunction ==
    ASSUME RunnerInv, Calls, Called
    PROVE  /\ ~isterminate /\ phase = "run" /\ shadow = <<>>
           /\ run \in Queues /\ QueueOK(run) /\ wait \in Queues /\ QueueOK(wait)
           /\ Room(run, wait) /\ StoredOnce(run, wait)
           /\ Linked(Live(wait), waitlist, wakeup, shadow)
           /\ cursor \in Live(run) /\ run.slot[cursor] \in Funcs
           /\ last \in Nat /\ last <= Used(run)
           /\ cursor' \in 1..(last + 1) /\ cursor' \in Nat /\ due' \subseteq Funcs
           /\ Due(run, cursor', last, due') /\ cursor' = cursor + 1
           /\ cursor'..last \subseteq Live(run)
<1>1. phase = "run" /\ cursor <= last /\ due' = due \ {run.slot[cursor]} /\ cursor' = cursor + 1
  BY DEF Calls, Called
<1>2. ~isterminate
  BY <1>1, InvParts DEF Ending
<1>3. /\ run \in Queues /\ QueueOK(run) /\ wait \in Queues /\ QueueOK(wait)
      /\ Room(run, wait) /\ StoredOnce(run, wait) /\ Linked(Live(wait), waitlist, wakeup, shadow)
      /\ cursor \in 1..(last + 1) /\ last \in Nat /\ last <= Used(run) /\ due \subseteq Funcs
      /\ Due(run, cursor, last, due) /\ shadow = <<>>
  BY <1>1, <1>2, InvParts DEF Active
<1>4. cursor \in Nat \ {0}
  BY <1>3
<1>5. cursor \in Live(run) /\ Due(run, cursor + 1, last, due \ {run.slot[cursor]})
  BY <1>1, <1>3, <1>4, DueStep DEF StoredOnce
<1>6. cursor + 1 \in 1..(last + 1) /\ cursor + 1 \in Nat \ {0}
  BY <1>1, <1>3, <1>4
<1>7. (cursor + 1)..last \subseteq Live(run)
  BY <1>3, <1>5, <1>6, DueLive
<1>8. run.slot[cursor] \in Funcs
  BY <1>3, <1>5, LiveSlot
<1> QED BY <1>1, <1>2, <1>3, <1>5, <1>6, <1>7, <1>8

\* The called function stays where it is.
LEMMA RunYieldInv ==
    ASSUME RunnerInv, RunYield
    PROVE  RunnerInv'
<1>1. /\ Calls /\ Called /\ run' = run /\ wait' = wait /\ waitlist' = waitlist
      /\ wakeup' = wakeup /\ shadow' = shadow /\ phase' = phase /\ last' = last
      /\ isterminate' = isterminate
  BY DEF RunYield, lists
<1>2. Active(run', wait', waitlist', wakeup', shadow', phase', cursor', last', due')
  BY <1>1, CalledFunction DEF Active
<1> QED BY <1>1, <1>2, CalledFunction, ActiveNext

\* The slot of the called function is freed; the loop goes on with the next one.
LEMMA CalledIsFreed ==
    ASSUME RunnerInv, Calls, Called
    PROVE  LET r == SfFree(run, cursor)
           IN  /\ r \in Queues /\ QueueOK(r) /\ Drops(run, r, cursor)
               /\ Nrfree(r) = Nrfree(run) + 1 /\ Inuse(r) = Inuse(run) - 1
               /\ last <= Used(r) /\ Due(r, cursor', last, due')
<1> DEFINE r == SfFree(run, cursor)
<1>1. /\ run \in Queues /\ QueueOK(run) /\ cursor \in Live(run)
      /\ last <= Used(run) /\ Due(run, cursor', last, due') /\ cursor' = cursor + 1
      /\ cursor'..last \subseteq Live(run) /\ last \in Nat
  BY CalledFunction
<1>2. /\ r \in Queues /\ QueueOK(r) /\ Live(r) = Live(run) \ {cursor}
      /\ \A i \in Live(run) : i # cursor => r.slot[i] = run.slot[i]
      /\ Nrfree(r) = Nrfree(run) + 1 /\ Inuse(r) = Inuse(run) - 1 /\ Used(r) = Used(run)
  BY <1>1, FreeQueue
<1> HIDE DEF r
<1>3. Drops(run, r, cursor)
  BY <1>2 DEF Drops
<1>4. cursor \in Nat
  BY <1>1, LiveSlot
<1>5. \A i \in cursor'..last : i # cursor
  BY <1>1, <1>4
<1>6. \A i \in cursor'..last : r.slot[i] = run.slot[i]
  BY <1>1, <1>2, <1>5
<1>7. Due(r, cursor', last, due')
  BY <1>1, <1>6, DueStays
<1> QED BY <1>1, <1>2, <1>3, <1>7 DEF r

\* The called function leaves the RUN queue.
LEMMA RunExitInv ==
    ASSUME RunnerInv, RunExit
    PROVE  RunnerInv'
<1> DEFINE r == SfFree(run, cursor)
<1>1. /\ Calls /\ Called /\ run' = r /\ wait' = wait /\ waitlist' = waitlist
      /\ wakeup' = wakeup /\ shadow' = shadow /\ phase' = phase /\ last' = last
      /\ isterminate' = isterminate
  BY DEF RunExit, lists
<1>2. /\ r \in Queues /\ QueueOK(r) /\ Drops(run, r, cursor)
      /\ Nrfree(r) = Nrfree(run) + 1 /\ Inuse(r) = Inuse(run) - 1
      /\ last <= Used(r) /\ Due(r, cursor', last, due')
  BY <1>1, CalledIsFreed
<1>3. /\ run \in Queues /\ QueueOK(run) /\ wait \in Queues /\ QueueOK(wait)
      /\ Room(run, wait) /\ StoredOnce(run, wait)
  BY <1>1, CalledFunction
<1> HIDE DEF r
<1>4. Room(r, wait)
  <2>1. /\ Nrfree(run) \in Nat /\ Inuse(run) \in Nat /\ Nrfree(wait) \in Nat /\ Inuse(wait) \in Nat
    BY <1>3, QueueNumbers
  <2> QED BY <1>2, <1>3, <2>1 DEF Room
<1>5. StoredOnce(r, wait)
  BY <1>2, <1>3, OnceDrops
<1>6. Active(run', wait', waitlist', wakeup', shadow', phase', cursor', last', due')
  BY <1>1, <1>2, <1>4, <1>5, CalledFunction DEF Active
<1> QED BY <1>1, <1>6, CalledFunction, ActiveNext

\* The called function moves to the WAIT queue.
LEMMA RunWaitInv ==
    ASSUME RunnerInv, NEW v \in Waits, RunWait(v)
    PROVE  RunnerInv'
<1> DEFINE r == SfFree(run, cursor)
           w == SfAlloc(wait, run.slot[cursor])
           a == AllocSlot(wait)
<1>1. /\ Calls /\ Called /\ run' = r /\ wait' = w
      /\ waitlist' = [waitlist EXCEPT ![v] = Append(@, a)]
      /\ wakeup' = wakeup /\ shadow' = shadow /\ phase' = phase /\ last' = last
      /\ isterminate' = isterminate
  BY DEF RunWait
<1>2. /\ r \in Queues /\ QueueOK(r) /\ Drops(run, r, cursor)
      /\ Nrfree(r) = Nrfree(run) + 1 /\ Inuse(r) = Inuse(run) - 1
      /\ last <= Used(r) /\ Due(r, cursor', last, due')
  BY <1>1, CalledIsFreed
<1>3. /\ run \in Queues /\ QueueOK(run) /\ wait \in Queues /\ QueueOK(wait)
      /\ Room(run, wait) /\ StoredOnce(run, wait)
      /\ Linked(Live(wait), waitlist, wakeup, shadow)
      /\ cursor \in Live(run) /\ run.slot[cursor] \in Funcs
  BY <1>1, CalledFunction
<1>4. /\ Nrfree(run) \in Nat /\ Inuse(run) \in Nat /\ Nrfree(wait) \in Nat /\ Inuse(wait) \in Nat
      /\ Inuse(run) > 0 /\ Inuse(wait) <= Nrfree(run) /\ Inuse(run) <= Nrfree(wait)
  BY <1>3, QueueNumbers DEF Room
<1>5. Nrfree(wait) > 0
  BY <1>4
<1>6. /\ w \in Queues /\ QueueOK(w)
      /\ a \in Nat \ {0} /\ a \notin Live(wait) /\ Live(w) = Live(wait) \cup {a}
      /\ w.slot[a] = run.slot[cursor] /\ \A i \in Live(wait) : w.slot[i] = wait.slot[i]
      /\ Nrfree(w) = Nrfree(wait) - 1 /\ Inuse(w) = Inuse(wait) + 1
  BY <1>3, <1>5, AllocQueue
<1> HIDE DEF r, w, a
<1>7. Room(r, w)
  BY <1>2, <1>4, <1>6 DEF Room
<1>8. StoredOnce(r, w)
  <2>1. Adds(wait, w, a, run.slot[cursor])
    BY <1>6 DEF Adds
  <2> QED BY <1>2, <1>3, <2>1, OnceMoves
<1>9. Linked(Live(w), waitlist', wakeup, shadow)
  <2>1. Linked(Live(wait) \cup {a}, [waitlist EXCEPT ![v] = Append(@, a)], wakeup, shadow)
    BY <1>3, <1>6, LinkNew
  <2> QED BY <1>1, <1>6, <2>1
<1>10. Active(run', wait', waitlist', wakeup', shadow', phase', cursor', last', due')
  BY <1>1, <1>2, <1>6, <1>7, <1>8, <1>9, CalledFunction DEF Active
<1> QED BY <1>1, <1>10, CalledFunction, ActiveNext

-----------------------------------------------------------------------------
(* After the loop: compact_sq, shrinkqueues_syncrunner *)

\* A round of compact_sq after the loop.
LEMMA CompactRoundInv ==
    ASSUME RunnerInv, CompactRound
    PROVE  RunnerInv'
<1>1. /\ phase \in {"run", "compact"} /\ phase' = "compact" /\ run' = Compact(run)
      /\ wait' = wait /\ waitlist' = waitlist /\ wakeup' = wakeup /\ shadow' = shadow
      /\ cursor' = cursor /\ last' = last /\ isterminate' = isterminate /\ due' = due
  BY DEF CompactRound, LoopDone, lists
<1>2. ~isterminate
  BY <1>1, InvParts DEF Ending
<1>3. Active(run, wait, waitlist, wakeup, shadow, phase, cursor, last, due)
  BY <1>2, InvParts
<1>4. /\ Compact(run) \in Queues /\ QueueOK(Compact(run))
      /\ Nrfree(Compact(run)) = Nrfree(run) /\ Inuse(Compact(run)) = Inuse(run)
  BY <1>3, CompactQueue DEF Active
<1>5. StoredOnce(Compact(run), wait)
  BY <1>3, CompactSame, StaySame, SameOnce DEF Active
<1>6. Room(Compact(run), wait)
  BY <1>3, <1>4 DEF Active, Room
<1>7. Active(run', wait', waitlist', wakeup', shadow', phase', cursor', last', due')
  BY <1>1, <1>3, <1>4, <1>5, <1>6 DEF Active
<1> QED BY <1>1, <1>2, <1>7, ActiveNext

\* shrinkqueues_syncrunner, whether or not a queue is shrunk.
LEMMA ShrinkQueuesInv ==
    ASSUME run \in Queues, QueueOK(run), wait \in Queues, QueueOK(wait),
           Room(run, wait), StoredOnce(run, wait), run.freelist_size = 0,
           Linked(Live(wait), waitlist, wakeup, <<>>), ShrinkQueues(run, wait)
    PROVE  /\ run' \in Queues /\ QueueOK(run') /\ wait' \in Queues /\ QueueOK(wait')
           /\ Room(run', wait') /\ StoredOnce(run', wait') /\ run'.freelist_size = 0
           /\ Linked(Live(wait'), waitlist', Relinked(run, wait, wakeup), <<>>)
<1> DEFINE r == ShrunkRun(run, wait)
           w == ShrunkWait(run, wait)
           m == MoveWait(run, wait)
<1>1. run' = r /\ wait' = w /\ waitlist' = [v \in Waits |-> Relinked(run, wait, waitlist[v])]
  BY DEF ShrinkQueues
<1>2. /\ \E n : SameFuncs(run, r, n)
      /\ SameFuncs(wait, w, m)
      /\ Room(r, w) /\ r.freelist_size = 0
  BY ShrunkQueues
<1>3. \A list \in Seq(Nat \ {0}) : ToSet(list) \subseteq Live(wait) =>
          Relinked(run, wait, list) = Image(m, list)
  BY RelinkedImage
<1> HIDE DEF r, w, m
<1>4. r \in Queues /\ QueueOK(r) /\ w \in Queues /\ QueueOK(w)
  BY <1>2 DEF SameFuncs
<1>5. StoredOnce(r, w)
  BY <1>2, SameOnce
<1>6. Linked(Live(w), [v \in Waits |-> Image(m, waitlist[v])], Image(m, wakeup), Image(m, <<>>))
  BY <1>2, SameLinked
<1>7. /\ \A v \in Waits : Relinked(run, wait, waitlist[v]) = Image(m, waitlist[v])
      /\ Relinked(run, wait, wakeup) = Image(m, wakeup)
  BY <1>3, LinkedMembers
<1>8. waitlist' = [v \in Waits |-> Image(m, waitlist[v])]
  BY <1>1, <1>7
<1>9. Image(m, <<>>) = <<>>
  BY DEF Image
<1>10. Linked(Live(w), waitlist', Relinked(run, wait, wakeup), <<>>)
  BY <1>6, <1>7, <1>8, <1>9
<1> QED BY <1>1, <1>2, <1>4, <1>5, <1>10

\* It fails: the error path leaves the queues and lists intact, too.
LEMMA ShrinkFailsInv ==
    ASSUME run \in Queues, QueueOK(run), wait \in Queues, QueueOK(wait),
           Room(run, wait), StoredOnce(run, wait), run.freelist_size = 0,
           Linked(Live(wait), waitlist, wakeup, <<>>), ShrinkQueuesFails(run, wait)
    PROVE  /\ run' \in Queues /\ QueueOK(run') /\ wait' \in Queues /\ QueueOK(wait')
           /\ Room(run', wait') /\ StoredOnce(run', wait') /\ run'.freelist_size = 0
           /\ Linked(Live(wait'), waitlist', wakeup', <<>>)
<1>1. CASE run' = ShrunkRun(run, wait) /\ wait' = wait /\ waitlist' = waitlist /\ wakeup' = wakeup
  <2>1. /\ \E n : SameFuncs(run, run', n)
        /\ Room(run', wait) /\ run'.freelist_size = 0
    BY <1>1, ShrunkQueues
  <2>2. run' \in Queues /\ QueueOK(run')
    BY <2>1 DEF SameFuncs
  <2>3. StoredOnce(run', wait)
    BY <2>1, StaySame, SameOnce
  <2> QED BY <1>1, <2>1, <2>2, <2>3
<1>2. CASE ShrinkQueues(run, wait) /\ wakeup' = Relinked(run, wait, wakeup)
  BY <1>2, ShrinkQueuesInv
<1> QED BY <1>1, <1>2 DEF ShrinkQueuesFails

\* Pages are given back and the wakeup list becomes the shadow list.
LEMMA RunDoneInv ==
    ASSUME RunnerInv, RunDone
    PROVE  RunnerInv'
<1>1. /\ phase \in {"run", "compact"} /\ run.freelist_size = 0
      /\ wakeup' = <<>> /\ phase' \in {"idle", "wakeup"} /\ (wakeup = <<>> <=> phase' = "idle")
      /\ cursor' = cursor /\ last' = last /\ isterminate' = isterminate /\ due' = due
      /\ \/ ShrinkQueues(run, wait) /\ shadow' = Relinked(run, wait, wakeup)
         \/ run' = run /\ wait' = wait /\ waitlist' = waitlist /\ shadow' = wakeup
  BY DEF RunDone, LoopDone, HasHoles, AfterRun
<1>2. ~isterminate
  BY <1>1, InvParts DEF Ending
<1>3. Active(run, wait, waitlist, wakeup, shadow, phase, cursor, last, due)
  BY <1>2, InvParts
<1>4. /\ run \in Queues /\ QueueOK(run) /\ wait \in Queues /\ QueueOK(wait)
      /\ Room(run, wait) /\ StoredOnce(run, wait)
      /\ Linked(Live(wait), waitlist, wakeup, <<>>)
      /\ cursor \in Nat /\ last \in Nat /\ due \subseteq Funcs
  BY <1>1, <1>3 DEF Active
<1>5. /\ run' \in Queues /\ QueueOK(run') /\ wait' \in Queues /\ QueueOK(wait')
      /\ Room(run', wait') /\ StoredOnce(run', wait') /\ run'.freelist_size = 0
      /\ Linked(Live(wait'), waitlist', shadow', <<>>)
  <2>1. CASE ShrinkQueues(run, wait) /\ shadow' = Relinked(run, wait, wakeup)
    BY <1>1, <1>4, <2>1, ShrinkQueuesInv
  <2>2. CASE run' = run /\ wait' = wait /\ waitlist' = waitlist /\ shadow' = wakeup
    BY <1>1, <1>4, <2>2
  <2> QED BY <1>1, <2>1, <2>2
<1>6. Linked(Live(wait'), waitlist', wakeup', shadow')
  BY <1>1, <1>5, LinkShadow
<1>7. phase' # "wakeup" => shadow' = <<>>
  <2> SUFFICES ASSUME wakeup = <<>> PROVE shadow' = <<>>
    BY <1>1
  <2>1. Relinked(run, wait, <<>>) = <<>>
    BY DEF Relinked, Relink
  <2> QED BY <1>1, <2>1
<1>8. Active(run', wait', waitlist', wakeup', shadow', phase', cursor', last', due')
  BY <1>1, <1>4, <1>5, <1>6, <1>7 DEF Active
<1> QED BY <1>1, <1>2, <1>8, ActiveNext

\* A page could not be given back: the wakeup list is left as it is, relinked.
LEMMA RunFailsInv ==
    ASSUME RunnerInv, RunFails
    PROVE  RunnerInv'
<1>1. /\ phase \in {"run", "compact"} /\ phase' = "idle" /\ run.freelist_size = 0
      /\ ShrinkQueuesFails(run, wait) /\ shadow' = shadow
      /\ cursor' = cursor /\ last' = last /\ isterminate' = isterminate /\ due' = due
  BY DEF RunFails, LoopDone, HasHoles
<1>2. ~isterminate
  BY <1>1, InvParts DEF Ending
<1>3. Active(run, wait, waitlist, wakeup, shadow, phase, cursor, last, due)
  BY <1>2, InvParts
<1>4. /\ run \in Queues /\ QueueOK(run) /\ wait \in Queues /\ QueueOK(wait)
      /\ Room(run, wait) /\ StoredOnce(run, wait)
      /\ Linked(Live(wait), waitlist, wakeup, <<>>) /\ shadow = <<>>
      /\ cursor \in Nat /\ last \in Nat /\ due \subseteq Funcs
  BY <1>1, <1>3 DEF Active
<1>5. /\ run' \in Queues /\ QueueOK(run') /\ wait' \in Queues /\ QueueOK(wait')
      /\ Room(run', wait') /\ StoredOnce(run', wait') /\ run'.freelist_size = 0
      /\ Linked(Live(wait'), waitlist', wakeup', <<>>)
  BY <1>1, <1>4, ShrinkFailsInv
<1>6. Active(run', wait', waitlist', wakeup', shadow', phase', cursor', last', due')
  BY <1>1, <1>4, <1>5 DEF Active
<1> QED BY <1>1, <1>2, <1>6, ActiveNext

-----------------------------------------------------------------------------
(* process_wakeuplist *)

\* What holds when the first function of the shadow list is called.
LEMMA WokenFunction ==
    ASSUME RunnerInv, Woken
    PROVE  /\ ~isterminate /\ phase = "wakeup" /\ shadow # <<>>
           /\ run \in Queues /\ QueueOK(run) /\ wait \in Queues /\ QueueOK(wait)
           /\ Room(run, wait) /\ StoredOnce(run, wait) /\ run.freelist_size = 0
           /\ Linked(Live(wait), waitlist, wakeup, shadow)
           /\ Head(shadow) \in Live(wait) /\ wait.slot[Head(shadow)] \in Funcs
           /\ cursor \in Nat /\ last \in Nat /\ due \subseteq Funcs
<1>1. phase = "wakeup" /\ shadow # <<>>
  BY DEF Woken
<1>2. ~isterminate
  BY <1>1, InvParts DEF Ending
<1>3. Active(run, wait, waitlist, wakeup, shadow, phase, cursor, last, due)
  BY <1>2, InvParts
<1>4. Head(shadow) \in Live(wait)
  BY <1>1, <1>3, LinkTaken DEF Active
<1>5. wait.slot[Head(shadow)] \in Funcs
  BY <1>3, <1>4, LiveSlot DEF Active
<1> QED BY <1>1, <1>2, <1>3, <1>4, <1>5 DEF Active

\* Its slot is freed.
LEMMA WokenIsFreed ==
    ASSUME RunnerInv, Woken
    PROVE  LET w == SfFree(wait, Head(shadow))
           IN  /\ w \in Queues /\ QueueOK(w) /\ Drops(wait, w, Head(shadow))
               /\ Nrfree(w) = Nrfree(wait) + 1 /\ Inuse(w) = Inuse(wait) - 1
               /\ Linked(Live(w), waitlist, wakeup, Tail(shadow))
<1> DEFINE h == Head(shadow)
           w == SfFree(wait, h)
<1>1. /\ wait \in Queues /\ QueueOK(wait) /\ h \in Live(wait) /\ shadow # <<>>
      /\ Linked(Live(wait), waitlist, wakeup, shadow)
  BY WokenFunction
<1>2. Linked(Live(wait) \ {h}, waitlist, wakeup, Tail(shadow))
  BY <1>1, LinkTaken
<1> HIDE DEF h
<1>3. /\ w \in Queues /\ QueueOK(w) /\ Live(w) = Live(wait) \ {h}
      /\ \A i \in Live(wait) : i # h => w.slot[i] = wait.slot[i]
      /\ Nrfree(w) = Nrfree(wait) + 1 /\ Inuse(w) = Inuse(wait) - 1
  BY <1>1, FreeQueue
<1> HIDE DEF w
<1>4. Drops(wait, w, h)
  BY <1>3 DEF Drops
<1> QED BY <1>2, <1>3, <1>4 DEF w, h

\* A woken function moves to the RUN queue.
LEMMA WakeYieldInv ==
    ASSUME RunnerInv, WakeYield
    PROVE  RunnerInv'
<1> DEFINE f == wait.slot[Head(shadow)]
           r == SfAlloc(run, f)
           w == SfFree(wait, Head(shadow))
           a == AllocSlot(run)
<1>1. /\ Woken /\ run' = r /\ wait' = w /\ shadow' = Tail(shadow)
      /\ waitlist' = waitlist /\ wakeup' = wakeup /\ due' = due
      /\ phase' = phase /\ cursor' = cursor /\ last' = last /\ isterminate' = isterminate
  BY DEF WakeYield, control
<1>2. /\ w \in Queues /\ QueueOK(w) /\ Drops(wait, w, Head(shadow))
      /\ Nrfree(w) = Nrfree(wait) + 1 /\ Inuse(w) = Inuse(wait) - 1
      /\ Linked(Live(w), waitlist, wakeup, Tail(shadow))
  BY <1>1, WokenIsFreed
<1>3. /\ ~isterminate /\ phase = "wakeup"
      /\ run \in Queues /\ QueueOK(run) /\ wait \in Queues /\ QueueOK(wait)
      /\ Room(run, wait) /\ StoredOnce(run, wait) /\ run.freelist_size = 0
      /\ Head(shadow) \in Live(wait) /\ f \in Funcs
      /\ cursor \in Nat /\ last \in Nat /\ due \subseteq Funcs
  BY <1>1, WokenFunction
<1>4. /\ Nrfree(run) \in Nat /\ Inuse(run) \in Nat /\ Nrfree(wait) \in Nat /\ Inuse(wait) \in Nat
      /\ Inuse(wait) > 0 /\ Inuse(wait) <= Nrfree(run) /\ Inuse(run) <= Nrfree(wait)
  BY <1>3, QueueNumbers DEF Room
<1>5. Nrfree(run) > 0
  BY <1>4
<1>6. /\ r \in Queues /\ QueueOK(r)
      /\ a \notin Live(run) /\ Live(r) = Live(run) \cup {a}
      /\ r.slot[a] = f /\ \A i \in Live(run) : r.slot[i] = run.slot[i]
      /\ Nrfree(r) = Nrfree(run) - 1 /\ Inuse(r) = Inuse(run) + 1
      /\ r.freelist_size = 0
  BY <1>3, <1>5, AllocQueue
<1> HIDE DEF r, w, a
<1>7. Room(r, w)
  BY <1>2, <1>4, <1>6 DEF Room
<1>8. StoredOnce(r, w)
  <2>1. Adds(run, r, a, f)
    BY <1>6 DEF Adds
  <2> QED BY <1>2, <1>3, <2>1, OnceMoves, OnceSym
<1>9. Active(run', wait', waitlist', wakeup', shadow', phase', cursor', last', due')
  BY <1>1, <1>2, <1>3, <1>6, <1>7, <1>8 DEF Active
<1> QED BY <1>1, <1>3, <1>9, ActiveNext

\* A woken function waits again.
LEMMA WakeWaitInv ==
    ASSUME RunnerInv, NEW v \in Waits, WakeWait(v)
    PROVE  RunnerInv'
<1>1. /\ Woken /\ run' = run /\ wait' = wait /\ shadow' = Tail(shadow)
      /\ waitlist' = [waitlist EXCEPT ![v] = Append(@, Head(shadow))]
      /\ wakeup' = wakeup /\ due' = due
      /\ phase' = phase /\ cursor' = cursor /\ last' = last /\ isterminate' = isterminate
  BY DEF WakeWait, control
<1>2. /\ ~isterminate /\ phase = "wakeup" /\ shadow # <<>>
      /\ run \in Queues /\ QueueOK(run) /\ wait \in Queues /\ QueueOK(wait)
      /\ Room(run, wait) /\ StoredOnce(run, wait) /\ run.freelist_size = 0
      /\ Linked(Live(wait), waitlist, wakeup, shadow)
      /\ cursor \in Nat /\ last \in Nat /\ due \subseteq Funcs
  BY <1>1, WokenFunction
<1>3. Linked(Live(wait), waitlist', wakeup, Tail(shadow))
  BY <1>1, <1>2, LinkAgain
<1>4. Active(run', wait', waitlist', wakeup', shadow', phase', cursor', last', due')
  BY <1>1, <1>2, <1>3 DEF Active
<1> QED BY <1>1, <1>2, <1>4, ActiveNext

\* A woken function ends.
LEMMA WakeExitInv ==
    ASSUME RunnerInv, WakeExit
    PROVE  RunnerInv'
<1> DEFINE w == SfFree(wait, Head(shadow))
<1>1. /\ Woken /\ run' = run /\ wait' = w /\ shadow' = Tail(shadow)
      /\ waitlist' = waitlist /\ wakeup' = wakeup /\ due' = due
      /\ phase' = phase /\ cursor' = cursor /\ last' = last /\ isterminate' = isterminate
  BY DEF WakeExit, control
<1>2. /\ w \in Queues /\ QueueOK(w) /\ Drops(wait, w, Head(shadow))
      /\ Nrfree(w) = Nrfree(wait) + 1 /\ Inuse(w) = Inuse(wait) - 1
      /\ Linked(Live(w), waitlist, wakeup, Tail(shadow))
  BY <1>1, WokenIsFreed
<1>3. /\ ~isterminate /\ phase = "wakeup"
      /\ run \in Queues /\ QueueOK(run) /\ wait \in Queues /\ QueueOK(wait)
      /\ Room(run, wait) /\ StoredOnce(run, wait) /\ run.freelist_size = 0
      /\ cursor \in Nat /\ last \in Nat /\ due \subseteq Funcs
  BY <1>1, WokenFunction
<1> HIDE DEF w
<1>4. Room(run, w)
  <2>1. /\ Nrfree(run) \in Nat /\ Inuse(run) \in Nat /\ Nrfree(wait) \in Nat /\ Inuse(wait) \in Nat
    BY <1>3, QueueNumbers
  <2> QED BY <1>2, <1>3, <2>1 DEF Room
<1>5. StoredOnce(run, w)
  BY <1>2, <1>3, OnceDrops, OnceSym
<1>6. Active(run', wait', waitlist', wakeup', shadow', phase', cursor', last', due')
  BY <1>1, <1>2, <1>3, <1>4, <1>5 DEF Active
<1> QED BY <1>1, <1>3, <1>6, ActiveNext

\* The shadow list is empty; pages of the WAIT queue may be given back.
LEMMA WakeDoneInv ==
    ASSUME RunnerInv, WakeDone
    PROVE  RunnerInv'
<1>1. /\ phase = "wakeup" /\ shadow = <<>> /\ phase' = "idle" /\ shadow' = shadow
      /\ cursor' = cursor /\ last' = last /\ isterminate' = isterminate /\ due' = due
      /\ \/ ShrinkQueues(run, wait) /\ wakeup' = Relinked(run, wait, wakeup)
         \/ ShrinkQueuesFails(run, wait)
         \/ run' = run /\ wait' = wait /\ waitlist' = waitlist /\ wakeup' = wakeup
  BY DEF WakeDone
<1>2. ~isterminate
  BY <1>1, InvParts DEF Ending
<1>3. Active(run, wait, waitlist, wakeup, shadow, phase, cursor, last, due)
  BY <1>2, InvParts
<1>4. /\ run \in Queues /\ QueueOK(run) /\ wait \in Queues /\ QueueOK(wait)
      /\ Room(run, wait) /\ StoredOnce(run, wait) /\ run.freelist_size = 0
      /\ Linked(Live(wait), waitlist, wakeup, <<>>)
      /\ cursor \in Nat /\ last \in Nat /\ due \subseteq Funcs
  BY <1>1, <1>3 DEF Active
<1>5. /\ run' \in Queues /\ QueueOK(run') /\ wait' \in Queues /\ QueueOK(wait')
      /\ Room(run', wait') /\ StoredOnce(run', wait') /\ run'.freelist_size = 0
      /\ Linked(Live(wait'), waitlist', wakeup', <<>>)
  <2>1. CASE ShrinkQueues(run, wait) /\ wakeup' = Relinked(run, wait, wakeup)
    BY <1>4, <2>1, ShrinkQueuesInv
  <2>2. CASE ShrinkQueuesFails(run, wait)
    BY <1>4, <2>2, ShrinkFailsInv
  <2>3. CASE run' = run /\ wait' = wait /\ waitlist' = waitlist /\ wakeup' = wakeup
    BY <1>4, <2>3
  <2> QED BY <1>1, <2>1, <2>2, <2>3
<1>6. Active(run', wait', waitlist', wakeup', shadow', phase', cursor', last', due')
  BY <1>1, <1>4, <1>5 DEF Active
<1> QED BY <1>1, <1>2, <1>6, ActiveNext

-----------------------------------------------------------------------------
(* terminate_syncrunner, free_syncrunner *)

\* terminate_syncrunner starts with the slots of the RUN queue.
LEMMA TerminateInvStep ==
    ASSUME RunnerInv, Terminate
    PROVE  RunnerInv'
<1>1. /\ phase = "idle" /\ isterminate' = TRUE /\ phase' = "endrun" /\ cursor' = 1
      /\ last' = Used(run) /\ run' = run /\ wait' = wait /\ waitlist' = waitlist
      /\ wakeup' = wakeup /\ shadow' = shadow /\ due' = due
  BY DEF Terminate, lists
<1>2. ~isterminate
  BY <1>1, InvParts DEF Ending
<1>3. Active(run, wait, waitlist, wakeup, shadow, phase, cursor, last, due)
  BY <1>2, InvParts
<1>4. /\ run \in Queues /\ QueueOK(run) /\ wait \in Queues /\ QueueOK(wait) /\ shadow = <<>>
  BY <1>1, <1>3 DEF Active
<1>5. /\ Live(run) \subseteq 1..Used(run) /\ Live(wait) \subseteq 1..Used(wait)
      /\ Used(run) \in Nat /\ Used(wait) \in Nat
  BY <1>4, QueueSlots, QueueMembers
<1>6. \A i \in Live(wait) : i <= Used(wait)
  BY <1>5
<1>7. Ending(run', wait', waitlist', wakeup', shadow', phase', cursor', last', due')
  BY <1>1, <1>3, <1>4, <1>5, <1>6 DEF Ending, Active
<1> QED BY <1>1, <1>7, EndingNext

\* exitsf_terminateimpl: mainfct of a slot is cleared, the slot is not freed.
LEMMA ClearSlot ==
    ASSUME NEW q \in Queues, NEW c \in Nat
    PROVE  LET r == [q EXCEPT !.slot[c] = NoFunc]
           IN  r \in Queues /\ Drops(q, r, c) /\ Used(r) = Used(q)
<1> DEFINE slot == [q.slot EXCEPT ![c] = NoFunc]
           r == [q EXCEPT !.slot = slot]
<1>1. /\ slot \in Seq(Funcs \cup {NoFunc}) /\ DOMAIN slot = DOMAIN q.slot
      /\ (c \in DOMAIN slot => slot[c] = NoFunc)
      /\ \A i \in DOMAIN slot : i # c => slot[i] = q.slot[i]
  <2>1. q.slot \in Seq(Funcs \cup {NoFunc}) /\ NoFunc \in Funcs \cup {NoFunc}
    BY QueueType
  <2>2. slot \in Seq(Funcs \cup {NoFunc})
    <3>1. CASE c \in 1..Len(q.slot)
      BY <2>1, <3>1, ExceptSeq
    <3>2. CASE c \notin 1..Len(q.slot)
      <4>1. DOMAIN q.slot = 1..Len(q.slot)
        BY <2>1
      <4>2. slot = q.slot
        BY <2>1, <3>2, <4>1
      <4> QED BY <2>1, <4>2
    <3> QED BY <3>1, <3>2
  <2> QED BY <2>2
<1> HIDE DEF slot
<1>2. /\ r \in Queues /\ r.slot = slot /\ r.firstfree = q.firstfree /\ r.nextfree = q.nextfree
  BY <1>1 DEF Queues
<1>3. r = [q EXCEPT !.slot[c] = NoFunc]
  BY DEF slot
<1> HIDE DEF r
<1>4. Drops(q, r, c)
  BY <1>1, <1>2 DEF Drops, Live
<1>5. Used(r) = Used(q)
  BY <1>2 DEF Used
<1> QED BY <1>2, <1>3, <1>4, <1>5

\* What holds while functions are ended.
LEMMA EndingParts ==
    ASSUME RunnerInv, phase \in {"endrun", "endwait"}
    PROVE  /\ isterminate = TRUE
           /\ run \in Queues /\ wait \in Queues
           /\ StoredOnce(run, wait) /\ Linked(Live(wait), waitlist, wakeup, <<>>)
           /\ cursor \in Nat /\ last \in Nat /\ due \subseteq Funcs
           /\ shadow = <<>>
           /\ phase = "endrun" => /\ \A i \in Live(run) : i \in cursor..last
                                  /\ \A i \in Live(wait) : i <= Used(wait)
           /\ phase = "endwait" => /\ Live(run) = {}
                                   /\ \A i \in Live(wait) : i \in cursor..last
<1>1. isterminate = TRUE
  BY InvParts DEF Active
<1>2. Ending(run, wait, waitlist, wakeup, shadow, phase, cursor, last, due)
  BY <1>1, InvParts
<1> QED BY <1>1, <1>2 DEF Ending

\* The slot the loop has visited is the first one of those which were left.
LEMMA NextSlot ==
    ASSUME NEW c \in Nat, NEW l \in Nat, NEW i \in c..l, i # c
    PROVE  i \in (c + 1)..l
OBVIOUS

\* A function of the RUN queue is ended.
LEMMA EndRunInv ==
    ASSUME RunnerInv, EndRun
    PROVE  RunnerInv'
<1> DEFINE r == [run EXCEPT !.slot[cursor] = NoFunc]
<1>1. /\ phase = "endrun" /\ run' = r /\ cursor' = cursor + 1 /\ wait' = wait
      /\ waitlist' = waitlist /\ wakeup' = wakeup /\ shadow' = shadow /\ phase' = phase
      /\ last' = last /\ isterminate' = isterminate /\ due' = due
  BY DEF EndRun, lists
<1>2. /\ isterminate = TRUE /\ run \in Queues /\ wait \in Queues
      /\ StoredOnce(run, wait) /\ Linked(Live(wait), waitlist, wakeup, <<>>)
      /\ cursor \in Nat /\ last \in Nat /\ due \subseteq Funcs /\ shadow = <<>>
      /\ \A i \in Live(run) : i \in cursor..last
      /\ \A i \in Live(wait) : i <= Used(wait)
  BY <1>1, EndingParts
<1>3. r \in Queues /\ Drops(run, r, cursor)
  BY <1>2, ClearSlot
<1> HIDE DEF r
<1>4. StoredOnce(r, wait)
  BY <1>2, <1>3, OnceDrops
<1>5. \A i \in Live(r) : i \in (cursor + 1)..last
  BY <1>2, <1>3, NextSlot DEF Drops
<1>6. cursor + 1 \in Nat
  BY <1>2
<1>7. Ending(run', wait', waitlist', wakeup', shadow', phase', cursor', last', due')
  BY <1>1, <1>2, <1>3, <1>4, <1>5, <1>6 DEF Ending
<1> QED BY <1>1, <1>2, <1>7, EndingNext

\* terminate_syncrunner goes on with the WAIT queue.
LEMMA EndRunDoneInv ==
    ASSUME RunnerInv, EndRunDone
    PROVE  RunnerInv'
<1>1. /\ phase = "endrun" /\ cursor > last /\ phase' = "endwait" /\ cursor' = 1
      /\ last' = Used(wait) /\ run' = run /\ wait' = wait /\ waitlist' = waitlist
      /\ wakeup' = wakeup /\ shadow' = shadow /\ isterminate' = isterminate /\ due' = due
  BY DEF EndRunDone, lists
<1>2. /\ isterminate = TRUE /\ run \in Queues /\ wait \in Queues
      /\ StoredOnce(run, wait) /\ Linked(Live(wait), waitlist, wakeup, <<>>)
      /\ cursor \in Nat /\ last \in Nat /\ due \subseteq Funcs /\ shadow = <<>>
      /\ \A i \in Live(run) : i \in cursor..last
      /\ \A i \in Live(wait) : i <= Used(wait)
  BY <1>1, EndingParts
<1>3. Live(run) = {}
  BY <1>1, <1>2
<1>4. Used(wait) \in Nat
  <2>1. /\ wait.firstfree \in Nat /\ wait.nextfree \in 0..N /\ N \in Nat \ {0}
    BY <1>2, QueueType
  <2>2. CASE wait.firstfree = 0
    BY <2>2 DEF Used
  <2>3. CASE wait.firstfree # 0
    <3>1. wait.firstfree - 1 \in Nat
      BY <2>1, <2>3
    <3>2. (wait.firstfree - 1) * N \in Nat
      BY <2>1, <3>1
    <3> QED BY <2>1, <2>3, <3>2 DEF Used
  <2> QED BY <2>2, <2>3
<1>5. \A i \in Live(wait) : i \in 1..Used(wait)
  BY <1>2, <1>4, LiveSlot
<1>6. Ending(run', wait', waitlist', wakeup', shadow', phase', cursor', last', due')
  BY <1>1, <1>2, <1>3, <1>4, <1>5 DEF Ending
<1> QED BY <1>1, <1>2, <1>6, EndingNext

\* A function of the WAIT queue is ended and unlinked.
LEMMA EndWaitInv ==
    ASSUME RunnerInv, EndWait
    PROVE  RunnerInv'
<1> DEFINE w == [wait EXCEPT !.slot[cursor] = NoFunc]
<1>1. /\ phase = "endwait" /\ wait' = w /\ cursor' = cursor + 1 /\ run' = run
      /\ shadow' = shadow /\ phase' = phase
      /\ last' = last /\ isterminate' = isterminate /\ due' = due
      /\ \/ /\ waitlist' = [v \in Waits |-> Without(waitlist[v], cursor)]
            /\ wakeup' = Without(wakeup, cursor)
         \/ /\ wait.slot[cursor] = NoFunc
            /\ waitlist' = waitlist /\ wakeup' = wakeup
  BY DEF EndWait
<1>2. /\ isterminate = TRUE /\ run \in Queues /\ wait \in Queues
      /\ StoredOnce(run, wait) /\ Linked(Live(wait), waitlist, wakeup, <<>>)
      /\ cursor \in Nat /\ last \in Nat /\ due \subseteq Funcs /\ shadow = <<>>
      /\ Live(run) = {} /\ \A i \in Live(wait) : i \in cursor..last
  BY <1>1, EndingParts
<1>3. w \in Queues /\ Drops(wait, w, cursor)
  BY <1>2, ClearSlot
<1> HIDE DEF w
<1>4. StoredOnce(run, w)
  BY <1>2, <1>3, OnceDrops, OnceSym
<1>5. Linked(Live(w), waitlist', wakeup', <<>>)
  <2>1. Live(w) = Live(wait) \ {cursor}
    BY <1>3 DEF Drops
  <2>2. CASE /\ waitlist' = [v \in Waits |-> Without(waitlist[v], cursor)]
             /\ wakeup' = Without(wakeup, cursor)
    <3>1. cursor \notin ToSet(<<>>)
      BY EmptyList
    <3>2. Linked(Live(wait) \ {cursor}, waitlist', wakeup', <<>>)
      BY <1>2, <2>2, <3>1, LinkWithout
    <3> QED BY <2>1, <3>2
  <2>3. CASE wait.slot[cursor] = NoFunc /\ waitlist' = waitlist /\ wakeup' = wakeup
    <3>1. cursor \notin Live(wait)
      BY <2>3 DEF Live
    <3>2. Live(w) = Live(wait)
      BY <2>1, <3>1
    <3> QED BY <1>2, <2>3, <3>2
  <2> QED BY <1>1, <2>2, <2>3
<1>6. \A i \in Live(w) : i \in (cursor + 1)..last
  BY <1>2, <1>3, NextSlot DEF Drops
<1>7. cursor + 1 \in Nat
  BY <1>2
<1>8. Ending(run', wait', waitlist', wakeup', shadow', phase', cursor', last', due')
  BY <1>1, <1>2, <1>3, <1>4, <1>5, <1>6, <1>7 DEF Ending
<1> QED BY <1>1, <1>2, <1>8, EndingNext

\* The queues are cleared and no list refers to them any more.
LEMMA ClearedQueues ==
    ASSUME run' = EmptyQueue, wait' = EmptyQueue, isterminate' = FALSE, phase' = "idle",
           waitlist' = [w \in Waits |-> <<>>], wakeup' = <<>>, shadow' = <<>>,
           cursor' \in Nat, last' \in Nat, due' \subseteq Funcs
    PROVE  RunnerInv'
<1>1. Room(EmptyQueue, EmptyQueue) /\ StoredOnce(EmptyQueue, EmptyQueue)
  BY EmptyQueueOK DEF Room, StoredOnce
<1>2. Linked({}, waitlist', <<>>, <<>>)
  BY EmptyList DEF Linked
<1>3. Active(run', wait', waitlist', wakeup', shadow', phase', cursor', last', due')
  BY <1>1, <1>2, EmptyQueueOK DEF Active
<1> QED BY <1>3, InvNext

\* When all slots were visited every list is empty.
LEMMA AllEnded ==
    ASSUME RunnerInv, phase = "endwait", cursor > last
    PROVE  /\ Live(run) = {} /\ Live(wait) = {}
           /\ waitlist = [w \in Waits |-> <<>>]
<1>1. /\ Live(run) = {} /\ \A i \in Live(wait) : i \in cursor..last
      /\ cursor \in Nat /\ last \in Nat /\ Linked(Live(wait), waitlist, wakeup, <<>>)
  BY EndingParts
<1>2. Live(wait) = {}
  BY <1>1
<1>3. /\ waitlist \in [Waits -> Seq(Nat \ {0})]
      /\ \A w \in Waits : waitlist[w] \in Seq(Nat \ {0}) /\ ToSet(waitlist[w]) = {}
  BY <1>1, <1>2, LinkedMembers
<1>4. \A w \in Waits : waitlist[w] = <<>>
  BY <1>3, NonEmptyList
<1> QED BY <1>1, <1>2, <1>3, <1>4

\* terminate_syncrunner clears the queues.
LEMMA TerminatedInv ==
    ASSUME RunnerInv, Terminated
    PROVE  RunnerInv'
<1>1. /\ phase = "endwait" /\ cursor > last /\ run' = EmptyQueue /\ wait' = EmptyQueue
      /\ wakeup' = <<>> /\ isterminate' = FALSE /\ phase' = "idle"
      /\ waitlist' = waitlist /\ shadow' = shadow /\ cursor' = cursor /\ last' = last
      /\ due' = due
  BY DEF Terminated
<1>2. cursor \in Nat /\ last \in Nat /\ due \subseteq Funcs /\ shadow = <<>>
  BY <1>1, EndingParts
<1>3. waitlist = [w \in Waits |-> <<>>]
  BY <1>1, AllEnded
<1> QED BY <1>1, <1>2, <1>3, ClearedQueues

\* free_syncrunner clears the queues and the client the lists.
LEMMA FreeInv ==
    ASSUME RunnerInv, Free
    PROVE  RunnerInv'
<1>1. /\ phase = "idle" /\ run' = EmptyQueue /\ wait' = EmptyQueue
      /\ wakeup' = <<>> /\ waitlist' = [w \in Waits |-> <<>>] /\ shadow' = shadow
      /\ isterminate' = isterminate /\ phase' = phase /\ cursor' = cursor /\ last' = last
      /\ due' = due
  BY DEF Free, control
<1>2. ~isterminate
  BY <1>1, InvParts DEF Ending
<1>3. Active(run, wait, waitlist, wakeup, shadow, phase, cursor, last, due) /\ isterminate = FALSE
  BY <1>2, InvParts
<1>4. cursor \in Nat /\ last \in Nat /\ due \subseteq Funcs /\ shadow = <<>>
  BY <1>1, <1>3 DEF Active
<1> QED BY <1>1, <1>3, <1>4, ClearedQueues

-----------------------------------------------------------------------------
(* The theorems *)

\* init_syncrunner establishes the invariant.
LEMMA InitInv == Init => RunnerInv
<1> SUFFICES ASSUME Init PROVE RunnerInv
  OBVIOUS
<1>1. /\ run = EmptyQueue /\ wait = EmptyQueue /\ waitlist = [w \in Waits |-> <<>>]
      /\ wakeup = <<>> /\ shadow = <<>> /\ phase = "idle" /\ cursor = 0 /\ last = 0
      /\ isterminate = FALSE /\ due = {}
  BY DEF Init
<1>2. TypeOK
  <2>1. <<>> \in Seq(Nat \ {0}) /\ waitlist \in [Waits -> Seq(Nat \ {0})]
    BY <1>1
  <2> QED BY <1>1, <2>1, EmptyQueueOK DEF TypeOK
<1>3. PhaseInv /\ RunsEachOnce /\ TerminateInv
  BY <1>1, EmptyQueueOK DEF PhaseInv, RunsEachOnce, TerminateInv
<1>4. QueuesOK /\ MovePossible
  BY <1>1, EmptyQueueOK DEF QueuesOK, NoHoles, MovePossible
<1>5. NoFunctionLost
  BY <1>1, EmptyQueueOK, EmptyList DEF NoFunctionLost
<1> QED BY <1>2, <1>3, <1>4, <1>5 DEF RunnerInv

\* Every step keeps it.
LEMMA StepInv == RunnerInv /\ [Next]_vars => RunnerInv'
<1> SUFFICES ASSUME RunnerInv, [Next]_vars PROVE RunnerInv'
  OBVIOUS
<1>1. CASE ClientStep
  BY <1>1, AddFuncInv, AddFuncNoMemInv, WakeupInv DEF ClientStep
<1>2. CASE Run
  BY <1>2, RunInv
<1>3. CASE RunStep
  BY <1>3, RunYieldInv, RunWaitInv, RunExitInv, CompactRoundInv, RunDoneInv, RunFailsInv,
     WakeYieldInv, WakeWaitInv, WakeExitInv, WakeDoneInv DEF RunStep
<1>4. CASE Terminate
  BY <1>4, TerminateInvStep
<1>5. CASE TerminateStep
  BY <1>5, EndRunInv, EndRunDoneInv, EndWaitInv, TerminatedInv DEF TerminateStep
<1>6. CASE Free
  BY <1>6, FreeInv
<1>7. CASE UNCHANGED vars
  BY <1>7, ListStepInv DEF vars, lists, control
<1> QED BY <1>1, <1>2, <1>3, <1>4, <1>5, <1>6, <1>7 DEF Next

\* The conjunction of all that follows, and what makes it inductive.
THEOREM RunnerInvariant == Spec => []RunnerInv
BY InitInv, StepInv, PTL DEF Spec

\* Every member of the queues and of syncrunner_t has its type.
THEOREM TypeCorrect == Spec => []TypeOK
<1>1. RunnerInv => TypeOK
  BY DEF RunnerInv
<1> QED BY <1>1, RunnerInvariant, PTL

\* sfalloc_sq finds a free slot whenever a function moves to the other queue: what
\* addfunc_syncrunner reserves is enough for every sequence of moves, compactions and
\* pages which are given back.
THEOREM MovingNeverFails == Spec => []MovePossible
<1>1. RunnerInv => MovePossible
  BY DEF RunnerInv
<1> QED BY <1>1, RunnerInvariant, PTL

\* The invariants at the top of syncrunner.c hold for both queues, and exec_syncrunner
\* leaves the RUN queue without holes.
THEOREM QueuesStayOK == Spec => []QueuesOK
<1>1. RunnerInv => QueuesOK
  BY DEF RunnerInv
<1> QED BY <1>1, RunnerInvariant, PTL

\* The loop of exec_syncrunner calls every function which was in the RUN queue when it
\* started, once, and no other.
THEOREM EachRunsOnce == Spec => []RunsEachOnce
<1>1. RunnerInv => RunsEachOnce
  BY DEF RunnerInv
<1> QED BY <1>1, RunnerInvariant, PTL

\* No function is lost or doubled by a move, by compact_sq or by the error path of
\* shrinkqueues_syncrunner, and every waiting function is in one list.
THEOREM FunctionsAreKept == Spec => []NoFunctionLost
<1>1. RunnerInv => NoFunctionLost
  BY DEF RunnerInv
<1> QED BY <1>1, RunnerInvariant, PTL

\* terminate_syncrunner clears the queues only after it has ended every function and
\* unlinked every node.
THEOREM TerminationIsComplete == Spec => TerminateEndsAll
<1>1. RunnerInv /\ [Next]_vars =>
          [Terminated => Stored = {} /\ \A w \in Waits : waitlist[w] = <<>>]_vars
  <2> SUFFICES ASSUME RunnerInv, Terminated
               PROVE  Stored = {} /\ \A w \in Waits : waitlist[w] = <<>>
    OBVIOUS
  <2>1. /\ Live(run) = {} /\ Live(wait) = {} /\ waitlist = [w \in Waits |-> <<>>]
    BY AllEnded DEF Terminated
  <2> QED BY <2>1 DEF Stored
<1> QED BY <1>1, RunnerInvariant, PTL DEF Spec, TerminateEndsAll

-----------------------------------------------------------------------------
(* The refinement of FunctionScheduler: what the functions see of a list *)

\* The functions of a list of live slots, as many as the slots.
LEMMA ListFuncsSeq ==
    ASSUME NEW q \in Queues, NEW list \in Seq(Nat \ {0}), ToSet(list) \subseteq Live(q)
    PROVE  /\ ListFuncs(q, list) \in Seq(Funcs)
           /\ Len(ListFuncs(q, list)) = Len(list) /\ Len(list) \in Nat
           /\ DOMAIN ListFuncs(q, list) = 1..Len(list) /\ DOMAIN list = 1..Len(list)
           /\ \A k \in 1..Len(list) : ListFuncs(q, list)[k] = q.slot[list[k]]
           /\ ToSet(ListFuncs(q, list)) = {q.slot[i] : i \in ToSet(list)}
           /\ ListFuncs(q, list) = <<>> <=> list = <<>>
<1> DEFINE F == ListFuncs(q, list)
<1>1. Len(list) \in Nat /\ DOMAIN list = 1..Len(list)
  OBVIOUS
<1>2. \A k \in 1..Len(list) : q.slot[list[k]] \in Funcs
  BY <1>1, LiveSlot DEF ToSet
<1>3. F = [k \in 1..Len(list) |-> q.slot[list[k]]]
  BY <1>1 DEF ListFuncs
<1>4. F \in Seq(Funcs) /\ Len(F) = Len(list)
  BY <1>1, <1>2, <1>3
<1>5. DOMAIN F = 1..Len(list) /\ \A k \in 1..Len(list) : F[k] = q.slot[list[k]]
  BY <1>3
<1> HIDE DEF F
<1>6. ToSet(F) = {q.slot[i] : i \in ToSet(list)}
  BY <1>1, <1>5 DEF ToSet
<1>7. F = <<>> <=> list = <<>>
  BY <1>1, <1>4
<1> QED BY <1>1, <1>4, <1>5, <1>6, <1>7 DEF F

\* No slots, no functions.
LEMMA NoListFuncs == \A q : ListFuncs(q, <<>>) = <<>>
BY DEF ListFuncs

\* The slots of the list were not changed.
LEMMA ListFuncsStay ==
    ASSUME NEW q, NEW r, NEW list, \A i \in ToSet(list) : r.slot[i] = q.slot[i]
    PROVE  ListFuncs(r, list) = ListFuncs(q, list)
<1>1. \A k \in DOMAIN list : r.slot[list[k]] = q.slot[list[k]]
  BY DEF ToSet
<1> QED BY <1>1 DEF ListFuncs

\* The functions were moved and the list was relinked.
LEMMA ListFuncsMove ==
    ASSUME NEW q, NEW r, NEW m, SameFuncs(q, r, m),
           NEW list, ToSet(list) \subseteq Live(q)
    PROVE  ListFuncs(r, Image(m, list)) = ListFuncs(q, list)
<1>1. \A k \in DOMAIN list : r.slot[m[list[k]]] = q.slot[list[k]]
  BY DEF ToSet, SameFuncs
<1>2. DOMAIN Image(m, list) = DOMAIN list
      /\ \A k \in DOMAIN list : Image(m, list)[k] = m[list[k]]
  BY DEF Image
<1>3. [k \in DOMAIN list |-> r.slot[Image(m, list)[k]]] = [k \in DOMAIN list |-> q.slot[list[k]]]
  BY <1>1, <1>2
<1> QED BY <1>2, <1>3 DEF ListFuncs

\* The same for all lists, of which every node is live.
LEMMA AllListsStay ==
    ASSUME NEW q, NEW r, NEW wl, NEW wk, NEW sh, Linked(Live(q), wl, wk, sh),
           \A i \in Live(q) : r.slot[i] = q.slot[i]
    PROVE  /\ \A v \in Waits : ListFuncs(r, wl[v]) = ListFuncs(q, wl[v])
           /\ ListFuncs(r, wk) = ListFuncs(q, wk) /\ ListFuncs(r, sh) = ListFuncs(q, sh)
<1>1. ToSet(wk) \subseteq Live(q) /\ ToSet(sh) \subseteq Live(q)
      /\ \A v \in Waits : ToSet(wl[v]) \subseteq Live(q)
  BY LinkedMembers
<1>2. \A list : ToSet(list) \subseteq Live(q) => ListFuncs(r, list) = ListFuncs(q, list)
  BY ListFuncsStay
<1> QED BY <1>1, <1>2

LEMMA AllListsMove ==
    ASSUME NEW q, NEW r, NEW m, SameFuncs(q, r, m),
           NEW wl, NEW wk, NEW sh, Linked(Live(q), wl, wk, sh)
    PROVE  /\ \A v \in Waits : ListFuncs(r, Image(m, wl[v])) = ListFuncs(q, wl[v])
           /\ ListFuncs(r, Image(m, wk)) = ListFuncs(q, wk)
<1>1. ToSet(wk) \subseteq Live(q) /\ \A v \in Waits : ToSet(wl[v]) \subseteq Live(q)
  BY LinkedMembers
<1>2. \A list : ToSet(list) \subseteq Live(q) => ListFuncs(r, Image(m, list)) = ListFuncs(q, list)
  BY ListFuncsMove
<1> QED BY <1>1, <1>2

\* A sequence is given by its members.
LEMMA SameSeq ==
    ASSUME NEW S, NEW s \in Seq(S), NEW q, NEW list, DOMAIN list = DOMAIN s,
           \A k \in DOMAIN s : q.slot[list[k]] = s[k]
    PROVE  ListFuncs(q, list) = s
<1>1. s = [k \in DOMAIN s |-> s[k]]
  OBVIOUS
<1> QED BY <1>1 DEF ListFuncs

\* The first node is unlinked.
LEMMA ListFuncsTail ==
    ASSUME NEW q \in Queues, NEW list \in Seq(Nat \ {0}), ToSet(list) \subseteq Live(q),
           list # <<>>
    PROVE  /\ Head(ListFuncs(q, list)) = q.slot[Head(list)]
           /\ ListFuncs(q, Tail(list)) = Tail(ListFuncs(q, list))
<1> DEFINE F == ListFuncs(q, list)
           n == Len(list)
           t == Tail(list)
<1>1. /\ F \in Seq(Funcs) /\ Len(F) = n /\ n \in Nat
      /\ \A k \in 1..n : F[k] = q.slot[list[k]]
  BY ListFuncsSeq
<1>2. n # 0 /\ Head(list) = list[1]
  OBVIOUS
<1>3. t \in Seq(Nat \ {0}) /\ Len(t) = n - 1 /\ \A k \in 1..(n - 1) : t[k] = list[k + 1]
  BY <1>1, <1>2
<1> HIDE DEF F, n, t
<1>4. F # <<>> /\ 1 \in 1..n
  BY <1>1, <1>2
<1>5. Head(F) = q.slot[Head(list)]
  BY <1>1, <1>2, <1>4
<1>6. Tail(F) \in Seq(Funcs) /\ Len(Tail(F)) = n - 1 /\ \A k \in 1..(n - 1) : Tail(F)[k] = F[k + 1]
  BY <1>1, <1>4
<1>7. \A k \in 1..(n - 1) : k + 1 \in 1..n
  BY <1>1, <1>2
<1>8. DOMAIN t = 1..(n - 1) /\ DOMAIN Tail(F) = 1..(n - 1)
  BY <1>3, <1>6
<1>9. \A k \in 1..(n - 1) : q.slot[t[k]] = Tail(F)[k]
  BY <1>1, <1>3, <1>6, <1>7
<1>10. ListFuncs(q, t) = Tail(F)
  BY <1>6, <1>8, <1>9, SameSeq
<1> QED BY <1>5, <1>10 DEF F, t

\* The members of a concatenation.
LEMMA ConcatMembers ==
    ASSUME NEW S, NEW s \in Seq(S), NEW u \in Seq(S)
    PROVE  /\ s \o u \in Seq(S) /\ DOMAIN (s \o u) = 1..(Len(s) + Len(u))
           /\ \A k \in 1..(Len(s) + Len(u)) :
                 (s \o u)[k] = IF k <= Len(s) THEN s[k] ELSE u[k - Len(s)]
OBVIOUS

\* A list is spliced to the end of another one.
LEMMA ListFuncsConcat ==
    ASSUME NEW q \in Queues, NEW list \in Seq(Nat \ {0}), ToSet(list) \subseteq Live(q),
           NEW more \in Seq(Nat \ {0}), ToSet(more) \subseteq Live(q)
    PROVE  ListFuncs(q, list \o more) = ListFuncs(q, list) \o ListFuncs(q, more)
<1> DEFINE F == ListFuncs(q, list)
           G == ListFuncs(q, more)
           m == Len(list)
           n == Len(more)
           c == list \o more
<1>1. /\ F \in Seq(Funcs) /\ Len(F) = m /\ m \in Nat
      /\ \A k \in 1..m : F[k] = q.slot[list[k]]
  BY ListFuncsSeq
<1>2. /\ G \in Seq(Funcs) /\ Len(G) = n /\ n \in Nat
      /\ \A k \in 1..n : G[k] = q.slot[more[k]]
  BY ListFuncsSeq
<1>3. DOMAIN c = 1..(m + n) /\ \A k \in 1..(m + n) : c[k] = IF k <= m THEN list[k] ELSE more[k - m]
  BY <1>1, <1>2
<1> DEFINE H == F \o G
<1> HIDE DEF F, G, m, n, c
<1>4. /\ H \in Seq(Funcs) /\ DOMAIN H = 1..(m + n)
      /\ \A k \in 1..(m + n) : H[k] = IF k <= m THEN F[k] ELSE G[k - m]
  <2>1. /\ H \in Seq(Funcs) /\ DOMAIN H = 1..(Len(F) + Len(G))
        /\ \A k \in 1..(Len(F) + Len(G)) : H[k] = IF k <= Len(F) THEN F[k] ELSE G[k - Len(F)]
    BY <1>1, <1>2, ConcatMembers DEF H
  <2> QED BY <1>1, <1>2, <2>1
<1> HIDE DEF H
<1>5. \A k \in 1..(m + n) : q.slot[c[k]] = IF k <= m THEN F[k] ELSE G[k - m]
  <2> SUFFICES ASSUME NEW k \in 1..(m + n)
               PROVE  q.slot[c[k]] = IF k <= m THEN F[k] ELSE G[k - m]
    OBVIOUS
  <2>1. CASE k <= m
    <3>1. k \in 1..m
      BY <1>1, <1>2, <2>1
    <3> QED BY <1>1, <1>3, <2>1, <3>1
  <2>2. CASE ~(k <= m)
    <3>1. k - m \in 1..n
      BY <1>1, <1>2, <2>2
    <3> QED BY <1>2, <1>3, <2>2, <3>1
  <2> QED BY <2>1, <2>2
<1>6. DOMAIN c = DOMAIN H /\ \A k \in DOMAIN H : q.slot[c[k]] = H[k]
  BY <1>3, <1>4, <1>5
<1>7. ListFuncs(q, c) = H
  BY ONLY <1>4, <1>6, SameSeq
<1> QED BY <1>7 DEF F, G, H, c

\* A node is linked at the end.
LEMMA ListFuncsAppend ==
    ASSUME NEW q \in Queues, NEW list \in Seq(Nat \ {0}), ToSet(list) \subseteq Live(q),
           NEW a \in Nat \ {0}
    PROVE  ListFuncs(q, Append(list, a)) = Append(ListFuncs(q, list), q.slot[a])
<1> DEFINE F == ListFuncs(q, list)
           n == Len(list)
           c == Append(list, a)
           f == q.slot[a]
<1>1. /\ F \in Seq(Funcs) /\ Len(F) = n /\ n \in Nat
      /\ \A k \in 1..n : F[k] = q.slot[list[k]]
  BY ListFuncsSeq
<1>2. /\ DOMAIN c = 1..(n + 1) /\ c[n + 1] = a /\ \A k \in 1..n : c[k] = list[k]
  BY <1>1
<1> DEFINE H == Append(F, f)
<1> HIDE DEF F, n, c, f
<1>3. /\ H \in Seq(Funcs \cup {f}) /\ DOMAIN H = 1..(n + 1)
      /\ H[n + 1] = f /\ \A k \in 1..n : H[k] = F[k]
  BY <1>1
<1> HIDE DEF H
<1>4. \A k \in 1..(n + 1) : q.slot[c[k]] = H[k]
  <2> SUFFICES ASSUME NEW k \in 1..(n + 1), k # n + 1 PROVE k \in 1..n
    BY <1>1, <1>2, <1>3 DEF f
  <2> QED BY <1>1
<1>5. DOMAIN c = DOMAIN H /\ \A k \in DOMAIN H : q.slot[c[k]] = H[k]
  BY <1>2, <1>3, <1>4
<1>6. ListFuncs(q, c) = H
  BY ONLY <1>3, <1>5, SameSeq
<1> QED BY <1>6 DEF F, H, c, f

\* The place of a member which is kept.
LEMMA KeptAt ==
    ASSUME NEW S, NEW list \in Seq(S), NEW T
    PROVE  /\ CountIn(list, T, Len(list)) \in Nat
           /\ Kept(list, T) \in Seq(S) /\ DOMAIN Kept(list, T) = 1..CountIn(list, T, Len(list))
           /\ \A i \in 1..Len(list) : list[i] \in T =>
                 /\ CountIn(list, T, i) \in 1..CountIn(list, T, Len(list))
                 /\ Kept(list, T)[CountIn(list, T, i)] = list[i]
<1> DEFINE n == Len(list)
           C(m) == CountIn(list, T, m)
           At(k) == CHOOSE i \in DOMAIN list : list[i] \in T /\ C(i) = k
           kept == Kept(list, T)
<1>1. n \in Nat /\ DOMAIN list = 1..n
  OBVIOUS
<1>2. C(n) \in Nat
  BY <1>1, CountInStep
<1>3. ASSUME NEW k \in 1..C(n)
      PROVE  At(k) \in 1..n /\ list[At(k)] \in T /\ C(At(k)) = k
  <2>1. \E i \in 1..n : list[i] \in T /\ C(i) = k
    BY <1>1, CountInReaches
  <2> QED BY <1>1, <2>1
<1>4. kept = [k \in 1..C(n) |-> list[At(k)]] /\ DOMAIN kept = 1..C(n)
  BY DEF Kept
<1>5. ASSUME NEW i \in 1..n, list[i] \in T
      PROVE  C(i) \in 1..C(n) /\ At(C(i)) = i
  <2>1. i \in Nat /\ i <= n /\ 0 < i
    OBVIOUS
  <2>2. C(i) <= C(n) /\ C(i) \in Nat /\ C(0) = 0 /\ C(0) < C(i)
    BY <1>5, <2>1, CountInGrows, CountInStep
  <2>3. C(i) \in 1..C(n)
    BY <1>2, <2>2
  <2>4. At(C(i)) \in 1..n /\ list[At(C(i))] \in T /\ C(At(C(i))) = C(i)
    BY <1>3, <2>3
  <2> DEFINE j == At(C(i))
  <2>5. j \in Nat /\ i \in Nat /\ list[j] \in T /\ CountIn(list, T, j) = CountIn(list, T, i)
    BY <2>4
  <2> HIDE DEF j
  <2>6. ~(j < i) /\ ~(i < j)
    BY <1>5, <2>2, <2>5, CountInGrows
  <2> QED BY <2>3, <2>5, <2>6 DEF j
<1>6. kept \in Seq(S)
  BY KeptList
<1> HIDE DEF n, C, At, kept
<1>7. \A i \in 1..n : list[i] \in T => C(i) \in 1..C(n) /\ kept[C(i)] = list[i]
  BY <1>4, <1>5
<1> QED BY <1>2, <1>4, <1>6, <1>7 DEF n, C, kept

\* The same places are kept in a list of slots and in the list of their functions.
LEMMA ListFuncsKept ==
    ASSUME NEW q \in Queues, NEW list \in Seq(Nat \ {0}), ToSet(list) \subseteq Live(q),
           NEW T, NEW U, \A i \in ToSet(list) : i \in T <=> q.slot[i] \in U
    PROVE  ListFuncs(q, Kept(list, T)) = Kept(ListFuncs(q, list), U)
<1> DEFINE F == ListFuncs(q, list)
           n == Len(list)
           C(m) == CountIn(list, T, m)
           D(m) == CountIn(F, U, m)
           K == Kept(list, T)
           H == Kept(F, U)
<1>1. /\ F \in Seq(Funcs) /\ Len(F) = n /\ n \in Nat /\ DOMAIN list = 1..n
      /\ \A k \in 1..n : F[k] = q.slot[list[k]]
  BY ListFuncsSeq
<1> HIDE DEF F
<1>2. \A k \in 1..n : list[k] \in T <=> F[k] \in U
  BY <1>1 DEF ToSet
<1>3. ASSUME NEW m \in Nat, m <= n PROVE C(m) = D(m)
  <2>1. \A i \in 1..m : i \in 1..n
    BY <1>1, <1>3
  <2>2. {i \in 1..m : list[i] \in T} = {i \in 1..m : F[i] \in U}
    BY <1>2, <2>1
  <2> QED BY <2>2 DEF CountIn
<1>4. /\ C(n) \in Nat /\ K \in Seq(Nat \ {0}) /\ DOMAIN K = 1..C(n)
      /\ \A i \in 1..n : list[i] \in T => C(i) \in 1..C(n) /\ K[C(i)] = list[i]
  BY KeptAt
<1>5. /\ H \in Seq(Funcs) /\ DOMAIN H = 1..D(n)
      /\ \A i \in 1..n : F[i] \in U => D(i) \in 1..D(n) /\ H[D(i)] = F[i]
  BY <1>1, KeptAt
<1>6. \A k \in 1..C(n) : \E i \in 1..n : list[i] \in T /\ C(i) = k
  BY <1>1, CountInReaches
<1>7. C(n) = D(n) /\ \A i \in 1..n : C(i) = D(i)
  <2>1. \A i \in 1..n : i \in Nat /\ i <= n
    BY <1>1
  <2>2. n <= n
    BY <1>1
  <2> QED BY <1>1, <1>3, <2>1, <2>2
<1> HIDE DEF n, C, D, K, H
<1>8. DOMAIN K = DOMAIN H
  BY <1>4, <1>5, <1>7
<1>9. ASSUME NEW k \in DOMAIN H PROVE q.slot[K[k]] = H[k]
  <2>1. PICK i \in 1..n : list[i] \in T /\ C(i) = k
    BY <1>4, <1>6, <1>8, <1>9
  <2>2. K[k] = list[i] /\ F[i] \in U
    BY <1>2, <1>4, <2>1
  <2>3. H[k] = F[i]
    BY <1>5, <1>7, <2>1, <2>2
  <2> QED BY <1>1, <2>2, <2>3
<1>10. ListFuncs(q, K) = H
  BY ONLY <1>5, <1>8, <1>9, SameSeq
<1> QED BY <1>10 DEF F, K, H

\* A function is unlinked if its slot is.
LEMMA ListFuncsWithout ==
    ASSUME NEW q \in Queues, NEW list \in Seq(Nat \ {0}), ToSet(list) \subseteq Live(q),
           \A i, j \in Live(q) : q.slot[i] = q.slot[j] => i = j,
           NEW c \in Live(q)
    PROVE  ListFuncs(q, Without(list, c)) = Without(ListFuncs(q, list), q.slot[c])
<1> DEFINE T == ToSet(list) \ {c}
           F == ListFuncs(q, list)
           U == ToSet(F) \ {q.slot[c]}
<1>1. ToSet(F) = {q.slot[i] : i \in ToSet(list)}
  BY ListFuncsSeq
<1> HIDE DEF F
<1>2. \A i \in ToSet(list) : i \in T <=> q.slot[i] \in U
  BY <1>1
<1> HIDE DEF T, U
<1>3. ListFuncs(q, Kept(list, T)) = Kept(ListFuncs(q, list), U)
  BY <1>2, ListFuncsKept
<1> QED BY <1>3 DEF Without, T, U, F

\* A list without what is not in it is the same list.
LEMMA WithoutNone ==
    ASSUME NEW S, NEW list \in Seq(S), NEW e, e \notin ToSet(list)
    PROVE  Without(list, e) = list
<1> DEFINE T == ToSet(list) \ {e}
           n == Len(list)
           C(m) == CountIn(list, T, m)
           K == Kept(list, T)
<1>1. n \in Nat /\ DOMAIN list = 1..n /\ \A i \in 1..n : list[i] \in T
  BY DEF ToSet
<1> HIDE DEF T
<1>2. ASSUME NEW m \in Nat, m <= n PROVE C(m) = m
  <2>1. {i \in 1..m : list[i] \in T} = 1..m
    BY <1>1, <1>2
  <2>2. C(m) = Cardinality(1..m)
    BY <2>1 DEF CountIn
  <2>3. Cardinality(1..m) = m
    <3>1. CASE m = 0
      <4>1. 1..m = {}
        BY <3>1
      <4> QED BY <3>1, <4>1, FS_EmptySet
    <3>2. CASE m # 0
      BY <3>2, FS_Interval
    <3> QED BY <3>1, <3>2
  <2> QED BY <2>2, <2>3
<1>3. /\ K \in Seq(S) /\ DOMAIN K = 1..C(n)
      /\ \A i \in 1..n : K[C(i)] = list[i]
  BY <1>1, KeptAt
<1>4. C(n) = n /\ \A i \in 1..n : C(i) = i
  <2>1. \A i \in 1..n : i \in Nat /\ i <= n
    BY <1>1
  <2>2. n <= n
    BY <1>1
  <2> QED BY <1>1, <1>2, <2>1, <2>2
<1> HIDE DEF n, C, K
<1>5. DOMAIN K = 1..n /\ \A i \in 1..n : K[i] = list[i]
  BY <1>3, <1>4
<1>6. DOMAIN K = DOMAIN list /\ \A i \in DOMAIN K : K[i] = list[i]
  BY <1>1, <1>5
<1>7. K = [i \in DOMAIN K |-> K[i]]
  BY <1>3
<1>8. list = [i \in DOMAIN list |-> list[i]]
  OBVIOUS
<1>9. K = list
  BY <1>6, <1>7, <1>8
<1> QED BY <1>9 DEF K, T, Without

-----------------------------------------------------------------------------
(* What the functions see of a queue *)

\* Moved functions are the same functions.
LEMMA SlotFuncsSame ==
    ASSUME NEW q, NEW r, NEW m, SameFuncs(q, r, m)
    PROVE  SlotFuncs(r) = SlotFuncs(q)
<1>1. ASSUME NEW i \in Live(q) PROVE m[i] \in Live(r) /\ r.slot[m[i]] = q.slot[i]
  BY DEF SameFuncs
<1>2. ASSUME NEW h \in Live(r) PROVE \E i \in Live(q) : r.slot[h] = q.slot[i]
  BY DEF SameFuncs
<1> QED BY <1>1, <1>2 DEF SlotFuncs

\* One more function, or one less.
LEMMA SlotFuncsAdds ==
    ASSUME NEW q, NEW r, NEW i, NEW f, Adds(q, r, i, f)
    PROVE  SlotFuncs(r) = SlotFuncs(q) \cup {f}
BY DEF SlotFuncs, Adds

LEMMA SlotFuncsDrops ==
    ASSUME NEW q, NEW r, NEW i, Drops(q, r, i), i \in Live(q),
           \A j, k \in Live(q) : q.slot[j] = q.slot[k] => j = k
    PROVE  SlotFuncs(r) = SlotFuncs(q) \ {q.slot[i]}
BY DEF SlotFuncs, Drops

\* An empty slot is cleared.
LEMMA SlotFuncsDropsNone ==
    ASSUME NEW q, NEW r, NEW i, Drops(q, r, i), i \notin Live(q)
    PROVE  SlotFuncs(r) = SlotFuncs(q) /\ Live(r) = Live(q)
BY DEF SlotFuncs, Drops

\* The two definitions of the same operators.
LEMMA SchedulerLists ==
    /\ \A list : Scheduler!ToSet(list) = ToSet(list)
    /\ \A list, e : Scheduler!Without(list, e) = Without(list, e)
<1>1. ASSUME NEW list PROVE Scheduler!ToSet(list) = ToSet(list)
  BY DEF Scheduler!ToSet, ToSet
<1>2. ASSUME NEW list, NEW T, NEW n
      PROVE  Scheduler!CountIn(list, T, n) = CountIn(list, T, n)
  BY Zenon DEF Scheduler!CountIn, CountIn, Scheduler!Cardinality, Cardinality
<1>3. ASSUME NEW list, NEW T PROVE Scheduler!Kept(list, T) = Kept(list, T)
  BY Zenon DEF Scheduler!Kept, Kept, Scheduler!CountIn, CountIn, Scheduler!Cardinality, Cardinality
<1>4. ASSUME NEW list, NEW e PROVE Scheduler!Without(list, e) = Without(list, e)
  BY <1>1, <1>3 DEF Scheduler!Without, Without
<1> QED BY <1>1, <1>4

\* The functions the scheduler knows are those which are stored.
LEMMA ManagedIsStored ==
    ASSUME RunnerInv
    PROVE  Scheduler!Managed = Stored
<1>1. /\ wait \in Queues /\ Linked(Live(wait), waitlist, wakeup, shadow)
  BY InvParts DEF Active, Ending
<1>2. /\ wakeup \in Seq(Nat \ {0}) /\ ToSet(wakeup) \subseteq Live(wait)
      /\ shadow \in Seq(Nat \ {0}) /\ ToSet(shadow) \subseteq Live(wait)
      /\ \A v \in Waits : waitlist[v] \in Seq(Nat \ {0}) /\ ToSet(waitlist[v]) \subseteq Live(wait)
      /\ \A i \in Live(wait) : \/ i \in ToSet(wakeup) \/ i \in ToSet(shadow)
                               \/ \E v \in Waits : i \in ToSet(waitlist[v])
  BY <1>1, LinkedMembers
<1>3. /\ ToSet(WokenFuncs) = {wait.slot[i] : i \in ToSet(wakeup)}
      /\ ToSet(CallingFuncs) = {wait.slot[i] : i \in ToSet(shadow)}
      /\ \A v \in Waits : ToSet(WaitingFuncs[v]) = {wait.slot[i] : i \in ToSet(waitlist[v])}
  BY <1>1, <1>2, ListFuncsSeq DEF WokenFuncs, CallingFuncs, WaitingFuncs
<1>4. SlotFuncs(wait) = ToSet(WokenFuncs) \cup ToSet(CallingFuncs)
                           \cup UNION {ToSet(WaitingFuncs[v]) : v \in Waits}
  <2>1. ASSUME NEW i \in Live(wait)
        PROVE  wait.slot[i] \in ToSet(WokenFuncs) \cup ToSet(CallingFuncs)
                           \cup UNION {ToSet(WaitingFuncs[v]) : v \in Waits}
    BY <1>2, <1>3
  <2>2. ASSUME NEW list, ToSet(list) \subseteq Live(wait)
        PROVE  {wait.slot[i] : i \in ToSet(list)} \subseteq SlotFuncs(wait)
    BY <2>2 DEF SlotFuncs
  <2>3. /\ ToSet(WokenFuncs) \subseteq SlotFuncs(wait) /\ ToSet(CallingFuncs) \subseteq SlotFuncs(wait)
        /\ \A v \in Waits : ToSet(WaitingFuncs[v]) \subseteq SlotFuncs(wait)
    BY <1>2, <1>3, <2>2
  <2> QED BY <2>1, <2>3 DEF SlotFuncs
<1>5. Scheduler!Managed = SlotFuncs(run) \cup SlotFuncs(wait)
  BY <1>4, SchedulerLists DEF Scheduler!Managed, ReadyFuncs
<1> QED BY <1>5 DEF SlotFuncs, Stored

\* What the functions see after a step.
LEMMA SeenNext ==
    /\ WaitingFuncs' = [v \in Waits |-> ListFuncs(wait', waitlist'[v])]
    /\ WokenFuncs' = ListFuncs(wait', wakeup')
    /\ CallingFuncs' = ListFuncs(wait', shadow')
    /\ ReadyFuncs' = SlotFuncs(run')
BY DEF WaitingFuncs, WokenFuncs, CallingFuncs, ReadyFuncs

\* The functions of the WAIT queue stay where they are and the lists the same.
LEMMA SeenStays ==
    ASSUME Linked(Live(wait), waitlist, wakeup, shadow),
           \A i \in Live(wait) : wait'.slot[i] = wait.slot[i], UNCHANGED lists
    PROVE  UNCHANGED <<WaitingFuncs, WokenFuncs, CallingFuncs>>
<1> DEFINE w == wait'
<1>1. waitlist' = waitlist /\ wakeup' = wakeup /\ shadow' = shadow
  BY DEF lists
<1>2. /\ \A i \in Live(wait) : w.slot[i] = wait.slot[i]
      /\ Linked(Live(wait), waitlist, wakeup, shadow)
  OBVIOUS
<1> HIDE DEF w
<1>3. /\ \A v \in Waits : ListFuncs(w, waitlist[v]) = ListFuncs(wait, waitlist[v])
      /\ ListFuncs(w, wakeup) = ListFuncs(wait, wakeup)
      /\ ListFuncs(w, shadow) = ListFuncs(wait, shadow)
  <2>1. ToSet(wakeup) \subseteq Live(wait) /\ ToSet(shadow) \subseteq Live(wait)
        /\ \A v \in Waits : ToSet(waitlist[v]) \subseteq Live(wait)
    BY LinkedMembers
  <2>2. ASSUME NEW list, ToSet(list) \subseteq Live(wait)
        PROVE  ListFuncs(w, list) = ListFuncs(wait, list)
    <3>1. \A i \in ToSet(list) : w.slot[i] = wait.slot[i]
      BY <1>2, <2>2
    <3> QED BY ONLY <3>1, ListFuncsStay
  <2> QED BY <2>1, <2>2
<1> QED BY <1>1, <1>3 DEF w, WaitingFuncs, WokenFuncs, CallingFuncs

\* The phases of the two specifications.
LEMMA Modes ==
    /\ phase = "idle" => Mode = "idle"
    /\ phase \in {"run", "compact"} => Mode = "run"
    /\ phase = "wakeup" => Mode = "wakeup"
    /\ phase \in {"endrun", "endwait"} => Mode = "terminate"
BY DEF Mode

LEMMA ModesNext ==
    /\ phase' = "idle" => Mode' = "idle"
    /\ phase' \in {"run", "compact"} => Mode' = "run"
    /\ phase' = "wakeup" => Mode' = "wakeup"
    /\ phase' \in {"endrun", "endwait"} => Mode' = "terminate"
    /\ phase' = phase => Mode' = Mode
BY DEF Mode

-----------------------------------------------------------------------------
(* Every step is a step of FunctionScheduler or leaves it unchanged *)

\* A function is due only while the loop of exec_syncrunner runs.
SchedulerInv == RunnerInv /\ (phase # "run" => due = {})

\* What it says of a state in which no functions are ended.
LEMMA ActiveParts ==
    ASSUME RunnerInv, phase \notin {"endrun", "endwait"}
    PROVE  /\ ~isterminate /\ phase \in {"idle", "run", "compact", "wakeup"}
           /\ run \in Queues /\ QueueOK(run) /\ wait \in Queues /\ QueueOK(wait)
           /\ Room(run, wait) /\ StoredOnce(run, wait)
           /\ Linked(Live(wait), waitlist, wakeup, shadow)
           /\ phase # "wakeup" => shadow = <<>>
           /\ phase = "run" => cursor \in 1..(last + 1) /\ last \in Nat /\ Due(run, cursor, last, due)
           /\ phase \in {"idle", "wakeup"} => run.freelist_size = 0
BY InvParts DEF Active, Ending

\* Nothing is due when the loop is left.
LEMMA NothingIsDue ==
    ASSUME SchedulerInv, LoopDone
    PROVE  due = {} /\ Mode = "run" /\ phase \notin {"endrun", "endwait"}
<1>1. phase \in {"run", "compact"} /\ cursor > last
  BY DEF LoopDone
<1>2. CASE phase = "run"
  <2>1. cursor \in 1..(last + 1) /\ last \in Nat /\ Due(run, cursor, last, due)
    BY <1>2, ActiveParts DEF SchedulerInv
  <2>2. cursor..last = {}
    BY <1>1, <2>1
  <2>3. due = {}
    BY <2>1, <2>2 DEF Due
  <2> QED BY <1>1, <2>3, Modes
<1>3. CASE phase = "compact"
  BY <1>1, <1>3, Modes DEF SchedulerInv
<1> QED BY <1>1, <1>2, <1>3

\* The history variable is empty again.
LEMMA SchedulerInvStep == SchedulerInv /\ [Next]_vars => SchedulerInv'
<1> SUFFICES ASSUME SchedulerInv, [Next]_vars PROVE SchedulerInv'
  OBVIOUS
<1>1. RunnerInv'
  BY StepInv DEF SchedulerInv
<1>2. CASE ClientStep
  <2>1. phase' = phase /\ due' = due
    BY <1>2 DEF ClientStep, AddFunc, AddFuncNoMem, Wakeup, WakeupAll, control
  <2> QED BY <1>1, <2>1 DEF SchedulerInv
<1>3. CASE Run
  BY <1>1, <1>3 DEF SchedulerInv, Run
<1>4. CASE RunYield \/ RunExit \/ \E w \in Waits : RunWait(w)
  <2>1. phase' = "run"
    BY <1>4 DEF RunYield, RunExit, RunWait, Calls
  <2> QED BY <1>1, <2>1 DEF SchedulerInv
<1>5. CASE CompactRound \/ RunDone \/ RunFails
  <2>1. due' = due /\ LoopDone
    BY <1>5 DEF CompactRound, RunDone, RunFails
  <2> QED BY <1>1, <2>1, NothingIsDue DEF SchedulerInv
<1>6. CASE WakeYield \/ WakeExit \/ WakeDone \/ \E w \in Waits : WakeWait(w)
  <2>1. phase = "wakeup" /\ due' = due
    BY <1>6 DEF WakeYield, WakeExit, WakeDone, WakeWait, Woken
  <2> QED BY <1>1, <2>1 DEF SchedulerInv
<1>7. CASE Terminate \/ TerminateStep \/ Free
  <2>1. phase # "run" /\ due' = due
    BY <1>7 DEF Terminate, TerminateStep, EndRun, EndRunDone, EndWait, Terminated, Free
  <2> QED BY <1>1, <2>1 DEF SchedulerInv
<1>8. CASE UNCHANGED vars
  BY <1>1, <1>8 DEF SchedulerInv, vars, control
<1> QED BY <1>2, <1>3, <1>4, <1>5, <1>6, <1>7, <1>8 DEF Next, RunStep

\* addfunc_syncrunner
LEMMA AddFuncRefines ==
    ASSUME RunnerInv, NEW f \in Funcs, AddFunc(f)
    PROVE  Scheduler!Add(f)
<1> DEFINE q == IF NeedsRun THEN Grow(run) ELSE run
           p == IF NeedsWait THEN Grow(wait) ELSE wait
           r == SfAlloc(q, f)
           a == AllocSlot(q)
<1>1. /\ ~isterminate /\ f \notin Stored /\ run' = r /\ wait' = p
      /\ UNCHANGED lists /\ phase' = phase /\ due' = due
  BY DEF AddFunc, Accepts, control
<1>2. phase \notin {"endrun", "endwait"}
  BY <1>1, InvParts DEF Active
<1>3. /\ run \in Queues /\ QueueOK(run) /\ wait \in Queues /\ QueueOK(wait)
      /\ Room(run, wait) /\ Linked(Live(wait), waitlist, wakeup, shadow)
  BY <1>2, ActiveParts
<1>4. /\ Inuse(run) \in Nat /\ Inuse(wait) \in Nat
      /\ Inuse(wait) <= Nrfree(run) /\ Inuse(run) <= Nrfree(wait)
  BY <1>3, QueueNumbers DEF Room
<1>5. /\ q \in Queues /\ QueueOK(q) /\ Live(q) = Live(run)
      /\ \A i \in Live(run) : q.slot[i] = run.slot[i]
      /\ Nrfree(q) \in Nat /\ Nrfree(q) > Inuse(wait)
  BY <1>3, <1>4, ReserveOne DEF NeedsRun
<1>6. \A i \in Live(wait) : p.slot[i] = wait.slot[i]
  BY <1>3, <1>4, ReserveOne DEF NeedsWait
<1> HIDE DEF q, p
<1>7. Nrfree(q) > 0
  BY <1>4, <1>5
<1>8. Adds(q, r, a, f)
  BY <1>5, <1>7, AllocQueue DEF Adds
<1> HIDE DEF r, a
<1>9. Adds(run, r, a, f)
  BY <1>5, <1>8 DEF Adds
<1>10. ReadyFuncs' = ReadyFuncs \cup {f}
  BY <1>1, <1>9, SlotFuncsAdds, SeenNext DEF ReadyFuncs
<1>11. UNCHANGED <<WaitingFuncs, WokenFuncs, CallingFuncs>>
  BY <1>1, <1>3, <1>6, SeenStays
<1>12. Mode # "terminate" /\ Mode' = Mode
  BY <1>1, <1>2, <1>3, ActiveParts, Modes, ModesNext
<1>13. f \notin Scheduler!Managed
  BY <1>1, ManagedIsStored
<1> QED BY <1>1, <1>10, <1>11, <1>12, <1>13 DEF Scheduler!Add

\* A failed addfunc_syncrunner cannot be seen.
LEMMA AddFuncNoMemRefines ==
    ASSUME RunnerInv, AddFuncNoMem
    PROVE  UNCHANGED Scheduler!vars
<1>1. /\ ~isterminate /\ run' = Grow(run) /\ wait' = wait
      /\ UNCHANGED lists /\ phase' = phase /\ due' = due
  BY DEF AddFuncNoMem, Accepts, control
<1>2. /\ run \in Queues /\ QueueOK(run) /\ Linked(Live(wait), waitlist, wakeup, shadow)
  BY <1>1, InvParts DEF Active
<1>3. SlotFuncs(run') = SlotFuncs(run)
  BY <1>1, <1>2, GrowSame, SlotFuncsSame
<1>4. UNCHANGED <<WaitingFuncs, WokenFuncs, CallingFuncs>>
  BY <1>1, <1>2, SeenStays
<1> QED BY <1>1, <1>3, <1>4, ModesNext, SeenNext DEF Scheduler!vars, ReadyFuncs

\* What holds of the lists in every state.
LEMMA ListParts ==
    ASSUME RunnerInv
    PROVE  /\ run \in Queues /\ wait \in Queues /\ StoredOnce(run, wait)
           /\ Linked(Live(wait), waitlist, wakeup, shadow)
           /\ waitlist \in [Waits -> Seq(Nat \ {0})]
           /\ \A v \in Waits : waitlist[v] \in Seq(Nat \ {0}) /\ ToSet(waitlist[v]) \subseteq Live(wait)
           /\ wakeup \in Seq(Nat \ {0}) /\ ToSet(wakeup) \subseteq Live(wait)
           /\ shadow \in Seq(Nat \ {0}) /\ ToSet(shadow) \subseteq Live(wait)
<1>1. /\ run \in Queues /\ wait \in Queues /\ StoredOnce(run, wait)
      /\ Linked(Live(wait), waitlist, wakeup, shadow)
  BY InvParts DEF Active, Ending
<1> QED BY <1>1, LinkedMembers

\* Only the list of one condition changes.
LEMMA OneListSeen ==
    ASSUME NEW w \in Waits,
           \A v \in Waits : v # w => ListFuncs(wait', waitlist'[v]) = ListFuncs(wait, waitlist[v])
    PROVE  WaitingFuncs' = [WaitingFuncs EXCEPT ![w] = ListFuncs(wait', waitlist'[w])]
<1> DEFINE F(v) == ListFuncs(wait, waitlist[v])
           G(v) == ListFuncs(wait', waitlist'[v])
<1>1. \A v \in Waits : v # w => G(v) = F(v)
  OBVIOUS
<1>2. WaitingFuncs = [v \in Waits |-> F(v)] /\ WaitingFuncs' = [v \in Waits |-> G(v)]
  BY SeenNext DEF WaitingFuncs
<1> HIDE DEF F, G
<1>3. [v \in Waits |-> G(v)] = [[v \in Waits |-> F(v)] EXCEPT ![w] = G(w)]
  BY <1>1
<1> QED BY <1>2, <1>3 DEF G

\* wakeup_syncrunner
LEMMA WakeupRefines ==
    ASSUME RunnerInv, NEW w \in Waits, Wakeup(w)
    PROVE  Scheduler!WakeFirst(w)
<1> DEFINE l == waitlist[w]
           h == Head(l)
<1>1. /\ l # <<>> /\ waitlist' = [waitlist EXCEPT ![w] = Tail(l)] /\ wakeup' = Append(wakeup, h)
      /\ run' = run /\ wait' = wait /\ shadow' = shadow /\ phase' = phase /\ due' = due
  BY DEF Wakeup, control
<1>2. /\ wait \in Queues /\ waitlist \in [Waits -> Seq(Nat \ {0})]
      /\ l \in Seq(Nat \ {0}) /\ ToSet(l) \subseteq Live(wait)
      /\ wakeup \in Seq(Nat \ {0}) /\ ToSet(wakeup) \subseteq Live(wait)
  BY ListParts
<1>3. WaitingFuncs[w] = ListFuncs(wait, l)
  BY DEF WaitingFuncs
<1>4. waitlist'[w] = Tail(l) /\ \A v \in Waits : v # w => waitlist'[v] = waitlist[v]
  BY <1>1, <1>2
<1>5. h \in Nat \ {0}
  BY <1>1, <1>2
<1> HIDE DEF l
<1>6. /\ ListFuncs(wait, l) # <<>> /\ Head(ListFuncs(wait, l)) = wait.slot[h]
      /\ ListFuncs(wait, Tail(l)) = Tail(ListFuncs(wait, l))
  BY <1>1, <1>2, ListFuncsSeq, ListFuncsTail
<1> HIDE DEF h
<1>7. ListFuncs(wait, Append(wakeup, h)) = Append(ListFuncs(wait, wakeup), wait.slot[h])
  BY <1>2, <1>5, ListFuncsAppend
<1>8. WokenFuncs' = Append(WokenFuncs, Head(WaitingFuncs[w]))
  <2>1. WokenFuncs' = ListFuncs(wait, Append(wakeup, h))
    BY <1>1, SeenNext
  <2> QED BY <1>3, <1>6, <1>7, <2>1 DEF WokenFuncs
<1>9. WaitingFuncs' = [WaitingFuncs EXCEPT ![w] = Tail(@)]
  <2>1. \A v \in Waits : v # w => ListFuncs(wait', waitlist'[v]) = ListFuncs(wait, waitlist[v])
    BY <1>1, <1>4
  <2>2. WaitingFuncs' = [WaitingFuncs EXCEPT ![w] = ListFuncs(wait', waitlist'[w])]
    BY <2>1, OneListSeen
  <2>3. ListFuncs(wait', waitlist'[w]) = Tail(WaitingFuncs[w])
    BY <1>1, <1>3, <1>4, <1>6
  <2> QED BY <2>2, <2>3
<1>10. UNCHANGED <<ReadyFuncs, CallingFuncs>>
  BY <1>1 DEF ReadyFuncs, CallingFuncs
<1> QED BY <1>1, <1>3, <1>6, <1>8, <1>9, <1>10, ModesNext DEF Scheduler!WakeFirst

\* wakeupall_syncrunner
LEMMA WakeupAllRefines ==
    ASSUME RunnerInv, NEW w \in Waits, WakeupAll(w)
    PROVE  Scheduler!WakeAll(w)
<1> DEFINE l == waitlist[w]
<1>1. /\ l # <<>> /\ waitlist' = [waitlist EXCEPT ![w] = <<>>] /\ wakeup' = wakeup \o l
      /\ run' = run /\ wait' = wait /\ shadow' = shadow /\ phase' = phase /\ due' = due
  BY DEF WakeupAll, Spliced, control
<1>2. /\ wait \in Queues /\ waitlist \in [Waits -> Seq(Nat \ {0})]
      /\ l \in Seq(Nat \ {0}) /\ ToSet(l) \subseteq Live(wait)
      /\ wakeup \in Seq(Nat \ {0}) /\ ToSet(wakeup) \subseteq Live(wait)
  BY ListParts
<1>3. WaitingFuncs[w] = ListFuncs(wait, l)
  BY DEF WaitingFuncs
<1>4. waitlist'[w] = <<>> /\ \A v \in Waits : v # w => waitlist'[v] = waitlist[v]
  BY <1>1, <1>2
<1> HIDE DEF l
<1>5. ListFuncs(wait, l) # <<>>
  BY <1>1, <1>2, ListFuncsSeq
<1>6. ListFuncs(wait, wakeup \o l) = ListFuncs(wait, wakeup) \o ListFuncs(wait, l)
  BY <1>2, ListFuncsConcat
<1>7. WokenFuncs' = WokenFuncs \o WaitingFuncs[w]
  <2>1. WokenFuncs' = ListFuncs(wait, wakeup \o l)
    BY <1>1, SeenNext
  <2> QED BY <1>3, <1>6, <2>1 DEF WokenFuncs
<1>8. WaitingFuncs' = [WaitingFuncs EXCEPT ![w] = <<>>]
  <2>1. \A v \in Waits : v # w => ListFuncs(wait', waitlist'[v]) = ListFuncs(wait, waitlist[v])
    BY <1>1, <1>4
  <2>2. WaitingFuncs' = [WaitingFuncs EXCEPT ![w] = ListFuncs(wait', waitlist'[w])]
    BY <2>1, OneListSeen
  <2>3. ListFuncs(wait', waitlist'[w]) = <<>>
    BY <1>4, NoListFuncs
  <2> QED BY <2>2, <2>3
<1>9. UNCHANGED <<ReadyFuncs, CallingFuncs>>
  BY <1>1 DEF ReadyFuncs, CallingFuncs
<1> QED BY <1>1, <1>3, <1>5, <1>7, <1>8, <1>9, ModesNext DEF Scheduler!WakeAll

\* run_syncrunner starts its loop: the functions of the RUN queue are due.
LEMMA RunRefines ==
    ASSUME Run
    PROVE  Scheduler!BeginRun
<1>1. /\ phase = "idle" /\ phase' = "run" /\ due' = {run.slot[i] : i \in Live(run)}
      /\ run' = run /\ wait' = wait /\ waitlist' = waitlist /\ wakeup' = wakeup /\ shadow' = shadow
  BY DEF Run, lists
<1>2. due' = ReadyFuncs
  BY <1>1 DEF ReadyFuncs, SlotFuncs
<1>3. UNCHANGED <<ReadyFuncs, WaitingFuncs, WokenFuncs, CallingFuncs>>
  BY <1>1 DEF ReadyFuncs, WaitingFuncs, WokenFuncs, CallingFuncs
<1> QED BY <1>1, <1>2, <1>3, Modes, ModesNext DEF Scheduler!BeginRun

\* The loop calls a function which is due.
LEMMA CalledIsDue ==
    ASSUME RunnerInv, Calls, Called
    PROVE  /\ run.slot[cursor] \in due /\ due' = due \ {run.slot[cursor]}
           /\ Mode = "run" /\ (phase' = phase => Mode' = Mode)
<1>1. phase = "run" /\ cursor <= last /\ due' = due \ {run.slot[cursor]}
  BY DEF Calls, Called
<1>2. cursor \in 1..(last + 1) /\ last \in Nat /\ Due(run, cursor, last, due)
  BY <1>1, ActiveParts
<1>3. cursor \in cursor..last
  BY <1>1, <1>2
<1> QED BY <1>1, <1>2, <1>3, Modes, ModesNext DEF Due

\* yield_syncfunc
LEMMA RunYieldRefines ==
    ASSUME RunnerInv, RunYield
    PROVE  Scheduler!CallReady(run.slot[cursor])
<1>1. /\ Calls /\ Called /\ phase' = phase
      /\ run' = run /\ wait' = wait /\ waitlist' = waitlist /\ wakeup' = wakeup /\ shadow' = shadow
  BY DEF RunYield, lists
<1>2. UNCHANGED <<ReadyFuncs, WaitingFuncs, WokenFuncs, CallingFuncs>>
  BY <1>1 DEF ReadyFuncs, WaitingFuncs, WokenFuncs, CallingFuncs
<1> QED BY <1>1, <1>2, CalledIsDue DEF Scheduler!CallReady

\* The function which is called leaves the RUN queue.
LEMMA CalledLeaves ==
    ASSUME RunnerInv, Calls, Called, run' = SfFree(run, cursor)
    PROVE  ReadyFuncs' = ReadyFuncs \ {run.slot[cursor]}
<1> DEFINE r == SfFree(run, cursor)
<1>1. Drops(run, r, cursor)
  BY CalledIsFreed
<1>2. cursor \in Live(run) /\ StoredOnce(run, wait)
  BY CalledFunction
<1>3. run' = r
  OBVIOUS
<1> HIDE DEF r
<1>4. SlotFuncs(r) = SlotFuncs(run) \ {run.slot[cursor]}
  BY <1>1, <1>2, SlotFuncsDrops DEF StoredOnce
<1> QED BY <1>3, <1>4, SeenNext DEF ReadyFuncs

\* exitsf_runimpl
LEMMA RunExitRefines ==
    ASSUME RunnerInv, RunExit
    PROVE  Scheduler!CallReady(run.slot[cursor])
<1>1. /\ Calls /\ Called /\ phase' = phase /\ run' = SfFree(run, cursor)
      /\ wait' = wait /\ waitlist' = waitlist /\ wakeup' = wakeup /\ shadow' = shadow
  BY DEF RunExit, lists
<1>2. UNCHANGED <<WaitingFuncs, WokenFuncs, CallingFuncs>>
  BY <1>1 DEF WaitingFuncs, WokenFuncs, CallingFuncs
<1>3. ReadyFuncs' = ReadyFuncs \ {run.slot[cursor]}
  BY <1>1, CalledLeaves
<1> QED BY <1>1, <1>2, <1>3, CalledIsDue DEF Scheduler!CallReady

\* waitsf_runimpl
LEMMA RunWaitRefines ==
    ASSUME RunnerInv, NEW v \in Waits, RunWait(v)
    PROVE  Scheduler!CallReady(run.slot[cursor])
<1> DEFINE w == SfAlloc(wait, run.slot[cursor])
           a == AllocSlot(wait)
           l == waitlist[v]
<1>1. /\ Calls /\ Called /\ phase' = phase /\ run' = SfFree(run, cursor) /\ wait' = w
      /\ waitlist' = [waitlist EXCEPT ![v] = Append(l, a)] /\ wakeup' = wakeup /\ shadow' = shadow
  BY DEF RunWait
<1>2. /\ run \in Queues /\ QueueOK(run) /\ wait \in Queues /\ QueueOK(wait) /\ Room(run, wait)
      /\ cursor \in Live(run) /\ run.slot[cursor] \in Funcs
  BY <1>1, CalledFunction
<1>3. Nrfree(wait) > 0
  <2>1. Inuse(run) \in Nat /\ Inuse(run) > 0 /\ Nrfree(wait) \in Nat /\ Inuse(run) <= Nrfree(wait)
    BY <1>2, QueueNumbers DEF Room
  <2> QED BY <2>1
<1>4. /\ w \in Queues /\ a \in Nat \ {0} /\ Live(w) = Live(wait) \cup {a}
      /\ w.slot[a] = run.slot[cursor] /\ \A i \in Live(wait) : w.slot[i] = wait.slot[i]
  BY <1>2, <1>3, AllocQueue
<1>5. /\ waitlist \in [Waits -> Seq(Nat \ {0})] /\ l \in Seq(Nat \ {0}) /\ ToSet(l) \subseteq Live(wait)
      /\ Linked(Live(wait), waitlist, wakeup, shadow)
  BY ListParts
<1>6. waitlist'[v] = Append(l, a) /\ \A u \in Waits : u # v => waitlist'[u] = waitlist[u]
  BY <1>1, <1>5
<1>7. WaitingFuncs[v] = ListFuncs(wait, l)
  BY DEF WaitingFuncs
<1> HIDE DEF w, a
<1>8. /\ \A u \in Waits : ListFuncs(w, waitlist[u]) = ListFuncs(wait, waitlist[u])
      /\ ListFuncs(w, wakeup) = ListFuncs(wait, wakeup) /\ ListFuncs(w, shadow) = ListFuncs(wait, shadow)
  <2>1. ASSUME NEW list, ToSet(list) \subseteq Live(wait)
        PROVE  ListFuncs(w, list) = ListFuncs(wait, list)
    <3>1. \A i \in ToSet(list) : w.slot[i] = wait.slot[i]
      BY <1>4, <2>1
    <3> QED BY ONLY <3>1, ListFuncsStay
  <2> QED BY <2>1, ListParts
<1>9. ListFuncs(w, l) = ListFuncs(wait, l)
  BY <1>8
<1> HIDE DEF l
<1>10. ListFuncs(w, Append(l, a)) = Append(ListFuncs(w, l), w.slot[a])
  <2>1. ToSet(l) \subseteq Live(w)
    BY <1>4, <1>5
  <2> QED BY <1>4, <1>5, <2>1, ListFuncsAppend
<1>11. WaitingFuncs' = [WaitingFuncs EXCEPT ![v] = Append(@, run.slot[cursor])]
  <2>1. \A u \in Waits : u # v => ListFuncs(wait', waitlist'[u]) = ListFuncs(wait, waitlist[u])
    BY <1>1, <1>6, <1>8
  <2>2. WaitingFuncs' = [WaitingFuncs EXCEPT ![v] = ListFuncs(wait', waitlist'[v])]
    BY <2>1, OneListSeen
  <2>3. ListFuncs(wait', waitlist'[v]) = Append(WaitingFuncs[v], run.slot[cursor])
    BY <1>1, <1>4, <1>6, <1>7, <1>9, <1>10
  <2> QED BY <2>2, <2>3
<1>12. WokenFuncs' = WokenFuncs /\ CallingFuncs' = CallingFuncs
  BY <1>1, <1>8, SeenNext DEF WokenFuncs, CallingFuncs
<1>13. ReadyFuncs' = ReadyFuncs \ {run.slot[cursor]}
  BY <1>1, CalledLeaves
<1>14. Scheduler!WaitsFor(run.slot[cursor], v)
  BY <1>11 DEF Scheduler!WaitsFor
<1> QED BY <1>1, <1>12, <1>13, <1>14, CalledIsDue DEF Scheduler!CallReady

\* compact_sq moves functions of the RUN queue.
LEMMA CompactRoundRefines ==
    ASSUME RunnerInv, CompactRound
    PROVE  UNCHANGED Scheduler!vars
<1>1. /\ phase \in {"run", "compact"} /\ phase' = "compact" /\ run' = Compact(run) /\ due' = due
      /\ wait' = wait /\ waitlist' = waitlist /\ wakeup' = wakeup /\ shadow' = shadow
  BY DEF CompactRound, LoopDone, lists
<1>2. run \in Queues /\ QueueOK(run)
  BY <1>1, ActiveParts
<1>3. SlotFuncs(Compact(run)) = SlotFuncs(run)
  BY <1>2, CompactSame, SlotFuncsSame
<1>4. ReadyFuncs' = ReadyFuncs
  BY <1>1, <1>3, SeenNext DEF ReadyFuncs
<1>5. UNCHANGED <<WaitingFuncs, WokenFuncs, CallingFuncs>>
  BY <1>1 DEF WaitingFuncs, WokenFuncs, CallingFuncs
<1>6. Mode = "run" /\ Mode' = "run"
  BY <1>1, Modes, ModesNext
<1> QED BY <1>1, <1>4, <1>5, <1>6 DEF Scheduler!vars

\* shrinkqueues_syncrunner cannot be seen.
LEMMA ShrinkQueuesSeen ==
    ASSUME run \in Queues, QueueOK(run), wait \in Queues, QueueOK(wait), Room(run, wait),
           Linked(Live(wait), waitlist, wakeup, shadow), ShrinkQueues(run, wait)
    PROVE  /\ ReadyFuncs' = ReadyFuncs /\ WaitingFuncs' = WaitingFuncs
           /\ ListFuncs(wait', Relinked(run, wait, wakeup)) = WokenFuncs
<1> DEFINE r == ShrunkRun(run, wait)
           w == ShrunkWait(run, wait)
           m == MoveWait(run, wait)
<1>1. run' = r /\ wait' = w /\ waitlist' = [v \in Waits |-> Relinked(run, wait, waitlist[v])]
  BY DEF ShrinkQueues
<1>2. (\E n : SameFuncs(run, r, n)) /\ SameFuncs(wait, w, m)
  BY ShrunkQueues
<1>3. \A list \in Seq(Nat \ {0}) : ToSet(list) \subseteq Live(wait) =>
          Relinked(run, wait, list) = Image(m, list)
  BY RelinkedImage
<1> HIDE DEF r, w, m
<1>4. SlotFuncs(r) = SlotFuncs(run)
  BY <1>2, SlotFuncsSame
<1>5. /\ \A v \in Waits : ListFuncs(w, Image(m, waitlist[v])) = ListFuncs(wait, waitlist[v])
      /\ ListFuncs(w, Image(m, wakeup)) = ListFuncs(wait, wakeup)
  BY <1>2, AllListsMove
<1>6. /\ \A v \in Waits : Relinked(run, wait, waitlist[v]) = Image(m, waitlist[v])
      /\ Relinked(run, wait, wakeup) = Image(m, wakeup)
  BY <1>3, LinkedMembers
<1>7. \A v \in Waits : ListFuncs(wait', waitlist'[v]) = ListFuncs(wait, waitlist[v])
  BY <1>1, <1>5, <1>6
<1>8. WaitingFuncs' = WaitingFuncs
  BY <1>7, SeenNext DEF WaitingFuncs
<1> QED BY <1>1, <1>4, <1>5, <1>6, <1>8, SeenNext DEF ReadyFuncs, WokenFuncs

\* It cannot be seen either if it fails.
LEMMA ShrinkFailsSeen ==
    ASSUME run \in Queues, QueueOK(run), wait \in Queues, QueueOK(wait), Room(run, wait),
           Linked(Live(wait), waitlist, wakeup, shadow), ShrinkQueuesFails(run, wait)
    PROVE  ReadyFuncs' = ReadyFuncs /\ WaitingFuncs' = WaitingFuncs /\ WokenFuncs' = WokenFuncs
<1>1. CASE run' = ShrunkRun(run, wait) /\ wait' = wait /\ waitlist' = waitlist /\ wakeup' = wakeup
  <2> DEFINE r == ShrunkRun(run, wait)
  <2>1. \E n : SameFuncs(run, r, n)
    BY ShrunkQueues
  <2>2. run' = r
    BY <1>1
  <2> HIDE DEF r
  <2>3. SlotFuncs(r) = SlotFuncs(run)
    BY <2>1, SlotFuncsSame
  <2>4. WaitingFuncs' = WaitingFuncs /\ WokenFuncs' = WokenFuncs
    BY <1>1 DEF WaitingFuncs, WokenFuncs
  <2> QED BY <2>2, <2>3, <2>4, SeenNext DEF ReadyFuncs
<1>2. CASE ShrinkQueues(run, wait) /\ wakeup' = Relinked(run, wait, wakeup)
  <2>1. /\ ReadyFuncs' = ReadyFuncs /\ WaitingFuncs' = WaitingFuncs
        /\ ListFuncs(wait', Relinked(run, wait, wakeup)) = WokenFuncs
    BY <1>2, ShrinkQueuesSeen
  <2> QED BY <1>2, <2>1, SeenNext
<1> QED BY <1>1, <1>2 DEF ShrinkQueuesFails

\* The functions which were woken up until now are called next.
LEMMA RunDoneRefines ==
    ASSUME SchedulerInv, RunDone
    PROVE  Scheduler!BeginWoken
<1>1. /\ LoopDone /\ wakeup' = <<>> /\ phase' = IF wakeup = <<>> THEN "idle" ELSE "wakeup"
      /\ due' = due
      /\ \/ ShrinkQueues(run, wait) /\ shadow' = Relinked(run, wait, wakeup)
         \/ run' = run /\ wait' = wait /\ waitlist' = waitlist /\ shadow' = wakeup
  BY DEF RunDone, AfterRun
<1>2. due = {} /\ Mode = "run" /\ phase \notin {"endrun", "endwait"}
  BY <1>1, NothingIsDue
<1>3. RunnerInv
  BY DEF SchedulerInv
<1>4. /\ run \in Queues /\ QueueOK(run) /\ wait \in Queues /\ QueueOK(wait) /\ Room(run, wait)
      /\ Linked(Live(wait), waitlist, wakeup, shadow)
  BY <1>2, <1>3, ActiveParts
<1>5. ReadyFuncs' = ReadyFuncs /\ WaitingFuncs' = WaitingFuncs /\ CallingFuncs' = WokenFuncs
  <2>1. CASE ShrinkQueues(run, wait) /\ shadow' = Relinked(run, wait, wakeup)
    <3>1. /\ ReadyFuncs' = ReadyFuncs /\ WaitingFuncs' = WaitingFuncs
          /\ ListFuncs(wait', Relinked(run, wait, wakeup)) = WokenFuncs
      BY <1>4, <2>1, ShrinkQueuesSeen
    <3> QED BY <2>1, <3>1, SeenNext
  <2>2. CASE run' = run /\ wait' = wait /\ waitlist' = waitlist /\ shadow' = wakeup
    BY <2>2, SeenNext DEF ReadyFuncs, WaitingFuncs, WokenFuncs
  <2> QED BY <1>1, <2>1, <2>2
<1>6. WokenFuncs' = <<>>
  BY <1>1, SeenNext, NoListFuncs
<1>7. WokenFuncs = <<>> <=> wakeup = <<>>
  BY <1>3, ListParts, ListFuncsSeq DEF WokenFuncs
<1>8. Mode' = IF WokenFuncs = <<>> THEN "idle" ELSE "wakeup"
  BY <1>1, <1>7, ModesNext
<1> QED BY <1>1, <1>2, <1>5, <1>6, <1>8 DEF Scheduler!BeginWoken

\* The shadow list of a run which is not at its end is empty.
LEMMA NothingIsCalled ==
    ASSUME shadow = <<>>, shadow' = <<>>
    PROVE  CallingFuncs = <<>> /\ CallingFuncs' = <<>>
BY SeenNext, NoListFuncs DEF CallingFuncs

\* An error of shrinkqueues_syncrunner ends the run.
LEMMA RunFailsRefines ==
    ASSUME SchedulerInv, RunFails
    PROVE  Scheduler!RunError
<1>1. /\ LoopDone /\ phase' = "idle" /\ due' = due /\ shadow' = shadow
      /\ ShrinkQueuesFails(run, wait)
  BY DEF RunFails
<1>2. due = {} /\ Mode = "run" /\ phase \notin {"endrun", "endwait"}
  BY <1>1, NothingIsDue
<1>3. /\ run \in Queues /\ QueueOK(run) /\ wait \in Queues /\ QueueOK(wait) /\ Room(run, wait)
      /\ Linked(Live(wait), waitlist, wakeup, shadow) /\ shadow = <<>>
  <2>1. RunnerInv /\ phase # "wakeup"
    BY <1>1 DEF SchedulerInv, LoopDone
  <2> QED BY <1>2, <2>1, ActiveParts
<1>4. ReadyFuncs' = ReadyFuncs /\ WaitingFuncs' = WaitingFuncs /\ WokenFuncs' = WokenFuncs
  BY <1>1, <1>3, ShrinkFailsSeen
<1>5. CallingFuncs' = CallingFuncs
  BY <1>1, <1>3, NothingIsCalled
<1> QED BY <1>1, <1>2, <1>4, <1>5, ModesNext DEF Scheduler!RunError

\* The first function of the shadow list is called.
LEMMA WokenIsFirst ==
    ASSUME RunnerInv, Woken
    PROVE  /\ CallingFuncs # <<>> /\ Head(CallingFuncs) = wait.slot[Head(shadow)]
           /\ ListFuncs(wait, Tail(shadow)) = Tail(CallingFuncs)
           /\ Mode = "wakeup" /\ (phase' = phase => Mode' = Mode)
<1>1. phase = "wakeup" /\ shadow # <<>>
  BY DEF Woken
<1>2. wait \in Queues /\ shadow \in Seq(Nat \ {0}) /\ ToSet(shadow) \subseteq Live(wait)
  BY ListParts
<1>3. /\ ListFuncs(wait, shadow) # <<>>
      /\ Head(ListFuncs(wait, shadow)) = wait.slot[Head(shadow)]
      /\ ListFuncs(wait, Tail(shadow)) = Tail(ListFuncs(wait, shadow))
  BY <1>1, <1>2, ListFuncsSeq, ListFuncsTail
<1> QED BY <1>1, <1>3, Modes, ModesNext DEF CallingFuncs

\* ... and leaves the WAIT queue.
LEMMA WokenLeaves ==
    ASSUME RunnerInv, Woken, wait' = SfFree(wait, Head(shadow)), shadow' = Tail(shadow),
           waitlist' = waitlist, wakeup' = wakeup
    PROVE  /\ UNCHANGED <<WaitingFuncs, WokenFuncs>>
           /\ CallingFuncs' = Tail(CallingFuncs)
<1> DEFINE w == SfFree(wait, Head(shadow))
           t == Tail(shadow)
<1>1. Drops(wait, w, Head(shadow)) /\ Linked(Live(w), waitlist, wakeup, t)
  BY WokenIsFreed
<1>2. wait' = w /\ shadow' = t
  OBVIOUS
<1>3. ListFuncs(wait, t) = Tail(CallingFuncs)
  BY WokenIsFirst
<1> HIDE DEF w, t
<1>4. \A i \in Live(w) : wait.slot[i] = w.slot[i]
  BY <1>1 DEF Drops
<1>5. /\ \A v \in Waits : ListFuncs(wait, waitlist[v]) = ListFuncs(w, waitlist[v])
      /\ ListFuncs(wait, wakeup) = ListFuncs(w, wakeup) /\ ListFuncs(wait, t) = ListFuncs(w, t)
  BY <1>1, <1>4, AllListsStay
<1>6. CallingFuncs' = Tail(CallingFuncs)
  BY <1>2, <1>3, <1>5, SeenNext
<1>7. WokenFuncs' = WokenFuncs /\ WaitingFuncs' = WaitingFuncs
  BY <1>2, <1>5, SeenNext DEF WokenFuncs, WaitingFuncs
<1> QED BY <1>6, <1>7

\* It yields.
LEMMA WakeYieldRefines ==
    ASSUME RunnerInv, WakeYield
    PROVE  Scheduler!CallWoken
<1> DEFINE f == wait.slot[Head(shadow)]
           r == SfAlloc(run, f)
           a == AllocSlot(run)
<1>1. /\ Woken /\ run' = r /\ wait' = SfFree(wait, Head(shadow)) /\ shadow' = Tail(shadow)
      /\ waitlist' = waitlist /\ wakeup' = wakeup /\ due' = due /\ phase' = phase
  BY DEF WakeYield, control
<1>2. /\ run \in Queues /\ QueueOK(run) /\ wait \in Queues /\ QueueOK(wait) /\ Room(run, wait)
      /\ Head(shadow) \in Live(wait) /\ f \in Funcs
  BY <1>1, WokenFunction
<1>3. Nrfree(run) > 0
  <2>1. Inuse(wait) \in Nat /\ Inuse(wait) > 0 /\ Nrfree(run) \in Nat /\ Inuse(wait) <= Nrfree(run)
    BY <1>2, QueueNumbers DEF Room
  <2> QED BY <2>1
<1>4. Adds(run, r, a, f)
  BY <1>2, <1>3, AllocQueue DEF Adds
<1>5. f = Head(CallingFuncs)
  BY <1>1, WokenIsFirst
<1> HIDE DEF f, r, a
<1>6. SlotFuncs(r) = SlotFuncs(run) \cup {f}
  BY <1>4, SlotFuncsAdds
<1>7. ReadyFuncs' = ReadyFuncs \cup {Head(CallingFuncs)}
  BY <1>1, <1>5, <1>6, SeenNext DEF ReadyFuncs
<1> QED BY <1>1, <1>7, WokenIsFirst, WokenLeaves DEF Scheduler!CallWoken

\* It ends.
LEMMA WakeExitRefines ==
    ASSUME RunnerInv, WakeExit
    PROVE  Scheduler!CallWoken
<1>1. /\ Woken /\ run' = run /\ wait' = SfFree(wait, Head(shadow)) /\ shadow' = Tail(shadow)
      /\ waitlist' = waitlist /\ wakeup' = wakeup /\ due' = due /\ phase' = phase
  BY DEF WakeExit, control
<1>2. ReadyFuncs' = ReadyFuncs
  BY <1>1 DEF ReadyFuncs
<1> QED BY <1>1, <1>2, WokenIsFirst, WokenLeaves DEF Scheduler!CallWoken

\* waitsf_waitimpl
LEMMA WakeWaitRefines ==
    ASSUME RunnerInv, NEW v \in Waits, WakeWait(v)
    PROVE  Scheduler!CallWoken
<1> DEFINE h == Head(shadow)
           l == waitlist[v]
<1>1. /\ Woken /\ run' = run /\ wait' = wait /\ shadow' = Tail(shadow)
      /\ waitlist' = [waitlist EXCEPT ![v] = Append(l, h)]
      /\ wakeup' = wakeup /\ due' = due /\ phase' = phase
  BY DEF WakeWait, control
<1>2. /\ wait \in Queues /\ waitlist \in [Waits -> Seq(Nat \ {0})]
      /\ l \in Seq(Nat \ {0}) /\ ToSet(l) \subseteq Live(wait)
  BY ListParts
<1>3. h \in Nat \ {0}
  <2>1. h \in Live(wait)
    BY <1>1, WokenFunction
  <2> QED BY <1>2, <2>1, LiveSlot
<1>4. waitlist'[v] = Append(l, h) /\ \A u \in Waits : u # v => waitlist'[u] = waitlist[u]
  BY <1>1, <1>2
<1>5. WaitingFuncs[v] = ListFuncs(wait, l)
  BY DEF WaitingFuncs
<1>6. wait.slot[h] = Head(CallingFuncs) /\ ListFuncs(wait, Tail(shadow)) = Tail(CallingFuncs)
  BY <1>1, WokenIsFirst
<1> HIDE DEF h, l
<1>7. ListFuncs(wait, Append(l, h)) = Append(ListFuncs(wait, l), wait.slot[h])
  BY <1>2, <1>3, ListFuncsAppend
<1>8. WaitingFuncs' = [WaitingFuncs EXCEPT ![v] = Append(@, Head(CallingFuncs))]
  <2>1. \A u \in Waits : u # v => ListFuncs(wait', waitlist'[u]) = ListFuncs(wait, waitlist[u])
    BY <1>1, <1>4
  <2>2. WaitingFuncs' = [WaitingFuncs EXCEPT ![v] = ListFuncs(wait', waitlist'[v])]
    BY <2>1, OneListSeen
  <2>3. ListFuncs(wait', waitlist'[v]) = Append(WaitingFuncs[v], Head(CallingFuncs))
    BY <1>1, <1>4, <1>5, <1>6, <1>7
  <2> QED BY <2>2, <2>3
<1>9. Scheduler!WaitsFor(Head(CallingFuncs), v)
  BY <1>8 DEF Scheduler!WaitsFor
<1>10. ReadyFuncs' = ReadyFuncs /\ WokenFuncs' = WokenFuncs /\ CallingFuncs' = Tail(CallingFuncs)
  BY <1>1, <1>6, SeenNext DEF ReadyFuncs, WokenFuncs
<1> QED BY <1>1, <1>9, <1>10, WokenIsFirst DEF Scheduler!CallWoken

\* All of them were called.
LEMMA WakeDoneRefines ==
    ASSUME RunnerInv, WakeDone
    PROVE  Scheduler!EndRun
<1>1. /\ phase = "wakeup" /\ shadow = <<>> /\ shadow' = shadow /\ phase' = "idle" /\ due' = due
      /\ \/ ShrinkQueues(run, wait) /\ wakeup' = Relinked(run, wait, wakeup)
         \/ ShrinkQueuesFails(run, wait)
         \/ run' = run /\ wait' = wait /\ waitlist' = waitlist /\ wakeup' = wakeup
  BY DEF WakeDone
<1>2. /\ run \in Queues /\ QueueOK(run) /\ wait \in Queues /\ QueueOK(wait) /\ Room(run, wait)
      /\ Linked(Live(wait), waitlist, wakeup, shadow)
  BY <1>1, ActiveParts
<1>3. ReadyFuncs' = ReadyFuncs /\ WaitingFuncs' = WaitingFuncs /\ WokenFuncs' = WokenFuncs
  <2>1. CASE ShrinkQueues(run, wait) /\ wakeup' = Relinked(run, wait, wakeup)
    <3>1. /\ ReadyFuncs' = ReadyFuncs /\ WaitingFuncs' = WaitingFuncs
          /\ ListFuncs(wait', Relinked(run, wait, wakeup)) = WokenFuncs
      BY <1>2, <2>1, ShrinkQueuesSeen
    <3> QED BY <2>1, <3>1, SeenNext
  <2>2. CASE ShrinkQueuesFails(run, wait)
    BY <1>2, <2>2, ShrinkFailsSeen
  <2>3. CASE run' = run /\ wait' = wait /\ waitlist' = waitlist /\ wakeup' = wakeup
    BY <2>3 DEF ReadyFuncs, WaitingFuncs, WokenFuncs
  <2> QED BY <1>1, <2>1, <2>2, <2>3
<1>4. CallingFuncs = <<>> /\ CallingFuncs' = <<>>
  BY <1>1, NothingIsCalled
<1> QED BY <1>1, <1>3, <1>4, Modes, ModesNext DEF Scheduler!EndRun

\* terminate_syncrunner begins.
LEMMA TerminateRefines ==
    ASSUME Terminate
    PROVE  Scheduler!BeginTermination
<1>1. /\ phase = "idle" /\ phase' = "endrun" /\ due' = due
      /\ run' = run /\ wait' = wait /\ waitlist' = waitlist /\ wakeup' = wakeup /\ shadow' = shadow
  BY DEF Terminate, lists
<1>2. UNCHANGED <<ReadyFuncs, WaitingFuncs, WokenFuncs, CallingFuncs>>
  BY <1>1 DEF ReadyFuncs, WaitingFuncs, WokenFuncs, CallingFuncs
<1> QED BY <1>1, <1>2, Modes, ModesNext DEF Scheduler!BeginTermination

\* A function of the RUN queue is ended, or the slot is empty.
LEMMA EndRunRefines ==
    ASSUME RunnerInv, EndRun
    PROVE  (\E f \in Funcs : Scheduler!End(f)) \/ UNCHANGED Scheduler!vars
<1> DEFINE r == [run EXCEPT !.slot[cursor] = NoFunc]
           f == run.slot[cursor]
<1>1. /\ phase = "endrun" /\ phase' = phase /\ run' = r /\ due' = due
      /\ wait' = wait /\ waitlist' = waitlist /\ wakeup' = wakeup /\ shadow' = shadow
  BY DEF EndRun, lists
<1>2. cursor \in Nat
  BY <1>1, EndingParts
<1>3. /\ run \in Queues /\ wait \in Queues /\ StoredOnce(run, wait)
      /\ \A v \in Waits : waitlist[v] \in Seq(Nat \ {0}) /\ ToSet(waitlist[v]) \subseteq Live(wait)
      /\ wakeup \in Seq(Nat \ {0}) /\ ToSet(wakeup) \subseteq Live(wait)
  BY ListParts
<1>4. Drops(run, r, cursor)
  BY <1>2, <1>3, ClearSlot
<1> HIDE DEF r
<1>5. UNCHANGED <<WaitingFuncs, WokenFuncs, CallingFuncs>>
  BY <1>1 DEF WaitingFuncs, WokenFuncs, CallingFuncs
<1>6. Mode = "terminate" /\ Mode' = Mode
  BY <1>1, Modes, ModesNext
<1>7. CASE cursor \in Live(run)
  <2>1. f \in Funcs /\ f \in Stored
    BY <1>3, <1>7, LiveSlot DEF Stored
  <2>2. \A i \in Live(wait) : wait.slot[i] # f
    BY <1>3, <1>7 DEF StoredOnce
  <2>3. SlotFuncs(r) = SlotFuncs(run) \ {f}
    BY <1>3, <1>4, <1>7, SlotFuncsDrops DEF StoredOnce
  <2> HIDE DEF f
  <2>4. ReadyFuncs' = ReadyFuncs \ {f}
    BY <1>1, <2>3, SeenNext DEF ReadyFuncs
  <2>5. ASSUME NEW list \in Seq(Nat \ {0}), ToSet(list) \subseteq Live(wait)
        PROVE  Without(ListFuncs(wait, list), f) = ListFuncs(wait, list)
    <3> DEFINE F == ListFuncs(wait, list)
    <3>1. F \in Seq(Funcs) /\ ToSet(F) = {wait.slot[i] : i \in ToSet(list)}
      BY <1>3, <2>5, ListFuncsSeq
    <3> HIDE DEF F
    <3>2. f \notin ToSet(F)
      BY <2>2, <2>5, <3>1
    <3>3. Without(F, f) = F
      BY <3>1, <3>2, WithoutNone
    <3> QED BY <3>3 DEF F
  <2>6. WokenFuncs' = Without(WokenFuncs, f)
    BY <1>3, <1>5, <2>5 DEF WokenFuncs
  <2>7. WaitingFuncs' = [v \in Waits |-> Without(WaitingFuncs[v], f)]
    BY <1>3, <1>5, <2>5 DEF WaitingFuncs
  <2>8. Scheduler!End(f)
    BY <1>1, <1>5, <1>6, <2>1, <2>4, <2>6, <2>7, ManagedIsStored, SchedulerLists DEF Scheduler!End
  <2> QED BY <2>1, <2>8
<1>8. CASE cursor \notin Live(run)
  <2>1. SlotFuncs(r) = SlotFuncs(run)
    BY <1>4, <1>8, SlotFuncsDropsNone
  <2>2. ReadyFuncs' = ReadyFuncs
    BY <1>1, <2>1, SeenNext DEF ReadyFuncs
  <2> QED BY <1>1, <1>5, <1>6, <2>2 DEF Scheduler!vars
<1> QED BY <1>7, <1>8

\* terminate_syncrunner goes on with the WAIT queue.
LEMMA EndRunDoneRefines ==
    ASSUME EndRunDone
    PROVE  UNCHANGED Scheduler!vars
<1>1. /\ phase = "endrun" /\ phase' = "endwait" /\ due' = due
      /\ run' = run /\ wait' = wait /\ waitlist' = waitlist /\ wakeup' = wakeup /\ shadow' = shadow
  BY DEF EndRunDone, lists
<1>2. UNCHANGED <<ReadyFuncs, WaitingFuncs, WokenFuncs, CallingFuncs>>
  BY <1>1 DEF ReadyFuncs, WaitingFuncs, WokenFuncs, CallingFuncs
<1> QED BY <1>1, <1>2, Modes, ModesNext DEF Scheduler!vars

\* A function of the WAIT queue is ended and unlinked, or the slot is empty.
LEMMA EndWaitRefines ==
    ASSUME RunnerInv, EndWait
    PROVE  (\E f \in Funcs : Scheduler!End(f)) \/ UNCHANGED Scheduler!vars
<1> DEFINE w == [wait EXCEPT !.slot[cursor] = NoFunc]
           f == wait.slot[cursor]
<1>1. /\ phase = "endwait" /\ phase' = phase /\ wait' = w /\ due' = due /\ run' = run
      /\ shadow' = shadow
      /\ \/ /\ waitlist' = [v \in Waits |-> Without(waitlist[v], cursor)]
            /\ wakeup' = Without(wakeup, cursor)
         \/ /\ f = NoFunc /\ waitlist' = waitlist /\ wakeup' = wakeup
  BY DEF EndWait
<1>2. cursor \in Nat /\ shadow = <<>> /\ Live(run) = {}
  BY <1>1, EndingParts
<1>3. /\ wait \in Queues /\ StoredOnce(run, wait)
      /\ waitlist \in [Waits -> Seq(Nat \ {0})]
      /\ \A v \in Waits : waitlist[v] \in Seq(Nat \ {0}) /\ ToSet(waitlist[v]) \subseteq Live(wait)
      /\ wakeup \in Seq(Nat \ {0}) /\ ToSet(wakeup) \subseteq Live(wait)
  BY ListParts
<1>4. Drops(wait, w, cursor)
  BY <1>2, <1>3, ClearSlot
<1> HIDE DEF w
<1>5. /\ ReadyFuncs = {} /\ ReadyFuncs' = ReadyFuncs
      /\ CallingFuncs' = CallingFuncs
  <2>1. CallingFuncs = <<>> /\ CallingFuncs' = <<>>
    BY <1>1, <1>2, NothingIsCalled
  <2> QED BY <1>1, <1>2, <2>1, SeenNext DEF ReadyFuncs, SlotFuncs
<1>6. Mode = "terminate" /\ Mode' = Mode
  BY <1>1, Modes, ModesNext
<1>7. CASE cursor \in Live(wait)
  <2>1. f \in Funcs /\ f \in Stored /\ f # NoFunc
    BY <1>3, <1>7, LiveSlot DEF Stored, Live
  <2>2. /\ waitlist' = [v \in Waits |-> Without(waitlist[v], cursor)]
        /\ wakeup' = Without(wakeup, cursor)
    BY <1>1, <2>1
  <2>3. \A i, j \in Live(wait) : wait.slot[i] = wait.slot[j] => i = j
    BY <1>3 DEF StoredOnce
  <2>4. ASSUME NEW list \in Seq(Nat \ {0}), ToSet(list) \subseteq Live(wait), IsInjective(list)
        PROVE  ListFuncs(w, Without(list, cursor)) = Without(ListFuncs(wait, list), f)
    <3> DEFINE k == Without(list, cursor)
    <3>1. ToSet(k) = ToSet(list) \ {cursor}
      BY <2>4, WithoutList
    <3>2. ListFuncs(wait, k) = Without(ListFuncs(wait, list), f)
      BY <1>3, <1>7, <2>3, <2>4, ListFuncsWithout
    <3> HIDE DEF k, f
    <3>3. \A i \in ToSet(k) : w.slot[i] = wait.slot[i]
      BY <1>4, <2>4, <3>1 DEF Drops
    <3>4. ListFuncs(w, k) = ListFuncs(wait, k)
      BY ONLY <3>3, ListFuncsStay
    <3> QED BY <3>2, <3>4 DEF k
  <2> HIDE DEF f
  <2>5. IsInjective(wakeup) /\ \A v \in Waits : IsInjective(waitlist[v])
    BY ListParts, LinkedMembers
  <2>6. WokenFuncs' = Without(WokenFuncs, f)
    <3>1. ListFuncs(w, Without(wakeup, cursor)) = Without(ListFuncs(wait, wakeup), f)
      BY <1>3, <2>4, <2>5
    <3> QED BY <1>1, <2>2, <3>1, SeenNext DEF WokenFuncs
  <2>7. WaitingFuncs' = [v \in Waits |-> Without(WaitingFuncs[v], f)]
    <3>1. \A v \in Waits : ListFuncs(w, Without(waitlist[v], cursor)) = Without(ListFuncs(wait, waitlist[v]), f)
      BY <1>3, <2>4, <2>5
    <3>2. \A v \in Waits : WaitingFuncs[v] = ListFuncs(wait, waitlist[v])
      BY DEF WaitingFuncs
    <3>3. \A v \in Waits : ListFuncs(wait', waitlist'[v]) = Without(WaitingFuncs[v], f)
      BY <1>1, <2>2, <3>1, <3>2
    <3> QED BY <3>3, SeenNext
  <2>8. Scheduler!End(f)
    <3>1. ReadyFuncs' = ReadyFuncs \ {f}
      BY <1>5
    <3> QED BY <1>1, <1>5, <1>6, <2>1, <2>6, <2>7, <3>1, ManagedIsStored, SchedulerLists
            DEF Scheduler!End
  <2> QED BY <2>1, <2>8
<1>8. CASE cursor \notin Live(wait)
  <2>1. ASSUME NEW list \in Seq(Nat \ {0}), ToSet(list) \subseteq Live(wait)
        PROVE  Without(list, cursor) = list
    <3>1. cursor \notin ToSet(list)
      BY <1>8, <2>1
    <3> QED BY <3>1, WithoutNone
  <2>2. wakeup' = wakeup /\ \A v \in Waits : waitlist'[v] = waitlist[v]
    BY <1>1, <1>3, <2>1
  <2>3. \A i \in Live(wait) : w.slot[i] = wait.slot[i]
    BY <1>4, <1>8 DEF Drops
  <2>4. ASSUME NEW list, ToSet(list) \subseteq Live(wait)
        PROVE  ListFuncs(w, list) = ListFuncs(wait, list)
    <3>1. \A i \in ToSet(list) : w.slot[i] = wait.slot[i]
      BY <2>3, <2>4
    <3> QED BY ONLY <3>1, ListFuncsStay
  <2>5. /\ \A v \in Waits : ListFuncs(w, waitlist[v]) = ListFuncs(wait, waitlist[v])
        /\ ListFuncs(w, wakeup) = ListFuncs(wait, wakeup)
    BY <1>3, <2>4
  <2>6. \A v \in Waits : ListFuncs(wait', waitlist'[v]) = ListFuncs(wait, waitlist[v])
    BY <1>1, <2>2, <2>5
  <2>7. WaitingFuncs' = WaitingFuncs /\ WokenFuncs' = WokenFuncs
    BY <1>1, <2>2, <2>5, <2>6, SeenNext DEF WaitingFuncs, WokenFuncs
  <2> QED BY <1>1, <1>5, <1>6, <2>7 DEF Scheduler!vars
<1> QED BY <1>7, <1>8

\* Cleared queues and lists.
LEMMA ClearedSeen ==
    ASSUME run' = EmptyQueue, wakeup' = <<>>, waitlist' = [v \in Waits |-> <<>>]
    PROVE  ReadyFuncs' = {} /\ WokenFuncs' = <<>> /\ WaitingFuncs' = [v \in Waits |-> <<>>]
<1>1. SlotFuncs(EmptyQueue) = {}
  BY EmptyQueueOK DEF SlotFuncs
<1>2. \A v \in Waits : ListFuncs(wait', waitlist'[v]) = <<>>
  BY NoListFuncs
<1> QED BY <1>1, <1>2, NoListFuncs, SeenNext

\* Everything was ended before the queues are cleared.
LEMMA TerminatedRefines ==
    ASSUME RunnerInv, Terminated
    PROVE  Scheduler!EndTermination
<1>1. /\ phase = "endwait" /\ cursor > last /\ phase' = "idle" /\ due' = due
      /\ run' = EmptyQueue /\ wakeup' = <<>> /\ waitlist' = waitlist /\ shadow' = shadow
  BY DEF Terminated
<1>2. /\ Live(run) = {} /\ Live(wait) = {} /\ waitlist = [v \in Waits |-> <<>>] /\ shadow = <<>>
  BY <1>1, AllEnded, EndingParts
<1>3. wakeup = <<>>
  <2>1. wakeup \in Seq(Nat \ {0}) /\ ToSet(wakeup) = {}
    BY <1>2, ListParts
  <2> QED BY <2>1, NonEmptyList
<1>4. Scheduler!Managed = {}
  BY <1>2, ManagedIsStored DEF Stored
<1>5. ReadyFuncs = {} /\ WokenFuncs = <<>> /\ WaitingFuncs = [v \in Waits |-> <<>>]
  BY <1>2, <1>3, NoListFuncs DEF ReadyFuncs, SlotFuncs, WokenFuncs, WaitingFuncs
<1>6. ReadyFuncs' = {} /\ WokenFuncs' = <<>> /\ WaitingFuncs' = [v \in Waits |-> <<>>]
  BY <1>1, <1>2, ClearedSeen
<1>7. CallingFuncs' = CallingFuncs
  BY <1>1, <1>2, NothingIsCalled
<1> QED BY <1>1, <1>4, <1>5, <1>6, <1>7, Modes, ModesNext DEF Scheduler!EndTermination

\* free_syncrunner
LEMMA FreeRefines ==
    ASSUME RunnerInv, Free
    PROVE  Scheduler!Forget
<1>1. /\ phase = "idle" /\ phase' = phase /\ due' = due /\ shadow' = shadow
      /\ run' = EmptyQueue /\ wakeup' = <<>> /\ waitlist' = [v \in Waits |-> <<>>]
  BY DEF Free, control
<1>2. shadow = <<>>
  BY <1>1, ActiveParts
<1>3. ReadyFuncs' = {} /\ WokenFuncs' = <<>> /\ WaitingFuncs' = [v \in Waits |-> <<>>]
  BY <1>1, ClearedSeen
<1>4. CallingFuncs' = CallingFuncs
  BY <1>1, <1>2, NothingIsCalled
<1> QED BY <1>1, <1>3, <1>4, Modes, ModesNext DEF Scheduler!Forget

-----------------------------------------------------------------------------
\* Nothing is stored when init_syncrunner returns.
LEMMA InitRefines == Init => SchedulerInv /\ Scheduler!Init
<1> SUFFICES ASSUME Init PROVE SchedulerInv /\ Scheduler!Init
  OBVIOUS
<1>1. /\ run = EmptyQueue /\ waitlist = [v \in Waits |-> <<>>] /\ wakeup = <<>>
      /\ shadow = <<>> /\ phase = "idle" /\ due = {}
  BY DEF Init
<1>2. SchedulerInv
  BY <1>1, InitInv DEF SchedulerInv
<1>3. /\ ReadyFuncs = {} /\ WokenFuncs = <<>> /\ CallingFuncs = <<>>
      /\ WaitingFuncs = [v \in Waits |-> <<>>]
  BY <1>1, EmptyQueueOK, NoListFuncs DEF ReadyFuncs, SlotFuncs, WokenFuncs, CallingFuncs, WaitingFuncs
<1> QED BY <1>1, <1>2, <1>3, Modes DEF Scheduler!Init, Scheduler!Forgotten

\* Every step is a step of FunctionScheduler or leaves it unchanged.
LEMMA NextRefines == SchedulerInv /\ [Next]_vars => [Scheduler!Next]_(Scheduler!vars)
<1> SUFFICES ASSUME SchedulerInv, [Next]_vars
             PROVE  Scheduler!Next \/ UNCHANGED Scheduler!vars
  OBVIOUS
<1>0. RunnerInv
  BY DEF SchedulerInv
<1>1. ASSUME NEW f \in Funcs, AddFunc(f)
      PROVE  Scheduler!Next
  BY <1>0, <1>1, AddFuncRefines DEF Scheduler!Next
<1>2. ASSUME NEW w \in Waits, Wakeup(w) \/ WakeupAll(w)
      PROVE  Scheduler!Next
  BY <1>0, <1>2, WakeupRefines, WakeupAllRefines DEF Scheduler!Next
<1>3. CASE RunYield \/ RunExit \/ \E w \in Waits : RunWait(w)
  <2>1. Scheduler!CallReady(run.slot[cursor])
    BY <1>0, <1>3, RunYieldRefines, RunExitRefines, RunWaitRefines
  <2>2. run.slot[cursor] \in Funcs
    BY <1>0, <1>3, CalledFunction DEF RunYield, RunExit, RunWait
  <2> QED BY <2>1, <2>2 DEF Scheduler!Next
<1>4. CASE Run \/ RunDone \/ RunFails
  BY <1>4, RunRefines, RunDoneRefines, RunFailsRefines DEF Scheduler!Next
<1>5. CASE WakeYield \/ WakeExit \/ WakeDone \/ \E w \in Waits : WakeWait(w)
  BY <1>0, <1>5, WakeYieldRefines, WakeExitRefines, WakeDoneRefines, WakeWaitRefines
     DEF Scheduler!Next
<1>6. CASE Terminate \/ Terminated \/ Free
  BY <1>0, <1>6, TerminateRefines, TerminatedRefines, FreeRefines DEF Scheduler!Next
<1>7. CASE EndRun \/ EndWait
  BY <1>0, <1>7, EndRunRefines, EndWaitRefines DEF Scheduler!Next
<1>8. CASE AddFuncNoMem \/ CompactRound \/ EndRunDone
  BY <1>0, <1>8, AddFuncNoMemRefines, CompactRoundRefines, EndRunDoneRefines
<1>9. CASE UNCHANGED vars
  BY <1>9 DEF vars, lists, control, Scheduler!vars, ReadyFuncs, WaitingFuncs, WokenFuncs, CallingFuncs, Mode
<1> QED BY <1>1, <1>2, <1>3, <1>4, <1>5, <1>6, <1>7, <1>8, <1>9
        DEF Next, ClientStep, RunStep, TerminateStep

\* run_syncrunner, addfunc_syncrunner, wakeup_syncrunner and terminate_syncrunner implement
\* the scheduler of FunctionScheduler: whatever the queues, their pages and the errors of
\* the page cache do, functions which wait are woken in their order, and every function
\* is called when it is due, and no other.
THEOREM Implements == Spec => ImplementsScheduler
<1>1. SchedulerInv /\ [Next]_vars => SchedulerInv'
  BY SchedulerInvStep
<1> QED BY <1>1, InitRefines, NextRefines, PTL DEF Spec, ImplementsScheduler, Scheduler!Spec

=============================================================================
