---------------------------- MODULE RWLockProofs ----------------------------
(***************************************************************************)
(* Proofs about RWLock, for any finite set of threads.  RWInv is           *)
(* inductive: one lemma for every action of a thread, cited by the theorem *)
(* LockInvariant, from which the other theorems follow.  The first steps   *)
(* of a lemma say what the action does to the wait lists and to the set of *)
(* owners; every other conjunct of RWInv has a step of its own.            *)
(***************************************************************************)
EXTENDS RWLockRefinement, WaitListLemmas, FiniteSetTheorems

\* The owners are a finite set.
LEMMA ReadersCounted == /\ IsFiniteSet(ReadOwners)
                        /\ Cardinality(ReadOwners) \in Nat
<1>1. ReadOwners \subseteq Threads
  BY DEF ReadOwners
<1> QED BY <1>1, ThreadsAssumption, FS_Subset, FS_CardinalityType

\* wakeupreader_rwlock does not test for overflow and need not: the thread which
\* executes it is no owner.
LEMMA OneLessReader ==
    ASSUME NEW t \in Threads, NEW R \in SUBSET Threads, t \notin R
    PROVE  Cardinality(R) \in 0..MaxReader
<1>1. IsFiniteSet(Threads \ {t}) /\ Cardinality(Threads \ {t}) = Cardinality(Threads) - 1
  BY ThreadsAssumption, FS_RemoveElement
<1>2. R \subseteq Threads \ {t}
  OBVIOUS
<1>3. Cardinality(R) <= Cardinality(Threads \ {t}) /\ IsFiniteSet(R)
  BY <1>1, FS_Subset
<1> QED BY <1>1, <1>3, ThreadsAssumption, MaxReaderAssumption, FS_CardinalityType

\* init_rwlock establishes the invariant.
LEMMA InitInv == Init => RWInv
<1> SUFFICES ASSUME Init PROVE RWInv
  OBVIOUS
<1> USE DEF Init, ThreadInit
<1>1. TypeOK
  BY MaxReaderAssumption DEF TypeOK, ThreadTypeOK
<1>2. FlagInv /\ HeldInv /\ WakingInv
  BY ThreadsAssumption DEF FlagInv, HeldInv, WakingInv, Wakeups
<1>3. OwnersCounted
  <2>1. ReadOwners = {} /\ WriteOwners = {}
    BY DEF ReadOwners, WriteOwners
  <2> QED BY <2>1, FS_EmptySet DEF OwnersCounted
<1>4. WaitListsConsistent
  BY EmptyList DEF WaitListsConsistent
<1>5. NobodyWaitsForFreeLock /\ NoLostWakeup
  BY DEF NobodyWaitsForFreeLock, NoLostWakeup
<1> QED BY <1>1, <1>2, <1>3, <1>4, <1>5 DEF RWInv

\* A client calls a function as MayCall allows.
LEMMA CallInv ==
    ASSUME RWInv, NEW t \in Threads, NEW f \in Calls, Call(t, f)
    PROVE  RWInv'
<1> USE DEF RWInv, Call, MayCall, Goto, lockVars, threadVars
<1>1. ReadOwners' = ReadOwners
  BY DEF ReadOwners, Calls
<1>2. WriteOwners' = {writer'} \ {NoThread}
  BY DEF WriteOwners, OwnersCounted, Calls
<1>3. nrofreader' = Cardinality(ReadOwners')
  BY <1>1 DEF OwnersCounted
<1>4. OwnersCounted'
  BY <1>2, <1>3 DEF OwnersCounted
<1>5. TypeOK'
  BY DEF TypeOK, ThreadTypeOK
<1>6. FlagInv'
  BY DEF FlagInv, Calls, Wakeups
<1>7. HeldInv'
  BY DEF TypeOK, HeldInv, Calls, Wakeups, Waits
<1>8. WakingInv'
  BY DEF WakingInv, Calls
<1>9. WaitListsConsistent'
  BY DEF WaitListsConsistent, Waits
<1>10. NobodyWaitsForFreeLock'
  BY DEF NobodyWaitsForFreeLock, Waking
<1>11. NoLostWakeup'
  BY DEF NoLostWakeup, Calls
<1> QED BY <1>4, <1>5, <1>6, <1>7, <1>8, <1>9, <1>10, <1>11

\* Setting lockflag changes nothing else.
LEMMA LockFlagInv ==
    ASSUME RWInv, NEW t \in Threads, LockFlag(t)
    PROVE  RWInv'
<1> USE DEF RWInv, LockFlag, lockVars, threadVars
<1>1. ReadOwners' = ReadOwners
  BY DEF ReadOwners
<1>2. WriteOwners' = {writer'} \ {NoThread}
  BY DEF WriteOwners, OwnersCounted
<1>3. nrofreader' = Cardinality(ReadOwners')
  BY <1>1 DEF OwnersCounted
<1>4. OwnersCounted'
  BY <1>2, <1>3 DEF OwnersCounted
<1>5. TypeOK'
  BY DEF TypeOK, ThreadTypeOK
<1>6. FlagInv'
  BY ThreadsAssumption DEF FlagInv
<1>7. HeldInv'
  BY DEF HeldInv
<1>8. WakingInv'
  BY DEF WakingInv
<1>9. WaitListsConsistent'
  BY DEF WaitListsConsistent
<1>10. NobodyWaitsForFreeLock'
  BY DEF NobodyWaitsForFreeLock, Waking
<1>11. NoLostWakeup'
  BY DEF NoLostWakeup
<1> QED BY <1>4, <1>5, <1>6, <1>7, <1>8, <1>9, <1>10, <1>11

\* lockreader_rwlock returns EDEADLK.
LEMMA LockReaderDeadlkInv ==
    ASSUME RWInv, NEW t \in Threads, LockReaderDeadlk(t)
    PROVE  RWInv'
<1> USE DEF RWInv, LockReaderDeadlk, In, Return, UnlockFlag,
           Goto, lockVars, threadVars
<1>1. ReadOwners' = ReadOwners
  BY DEF ReadOwners
<1>2. WriteOwners' = {writer'} \ {NoThread}
  BY DEF WriteOwners, OwnersCounted
<1>3. nrofreader' = Cardinality(ReadOwners')
  BY <1>1 DEF OwnersCounted
<1>4. OwnersCounted'
  BY <1>2, <1>3 DEF OwnersCounted
<1>5. TypeOK'
  BY DEF TypeOK, ThreadTypeOK
<1>6. FlagInv'
  BY ThreadsAssumption DEF FlagInv, Wakeups
<1>7. HeldInv'
  BY DEF HeldInv, Wakeups, Waits
<1>8. WakingInv'
  BY DEF WakingInv
<1>9. WaitListsConsistent'
  BY DEF WaitListsConsistent, Waits
<1>10. NobodyWaitsForFreeLock'
  BY ThreadsAssumption DEF NobodyWaitsForFreeLock
<1>11. NoLostWakeup'
  BY DEF NoLostWakeup
<1> QED BY <1>4, <1>5, <1>6, <1>7, <1>8, <1>9, <1>10, <1>11

\* lockreader_rwlock appends the thread to readers: it was in no list before.
LEMMA LockReaderWaitInv ==
    ASSUME RWInv, NEW t \in Threads, LockReaderWait(t)
    PROVE  RWInv'
<1> USE DEF RWInv, LockReaderWait, In, ReaderMustWait, InsertAndWait, Link, UnlockFlag,
           Goto, lockVars, threadVars
<1>1. /\ readers' \in Seq(Threads)
      /\ IsInjective(readers')
      /\ ToSet(readers') = ToSet(readers) \cup {t}
      /\ ~linked[t]
  <2>1. t \notin ToSet(readers) /\ ~linked[t]
    BY DEF WaitListsConsistent, Waits
  <2> QED BY <2>1, AppendList DEF TypeOK, WaitListsConsistent
<1>2. ReadOwners' = ReadOwners
  BY DEF TypeOK, ThreadTypeOK, ReadOwners
<1>3. WriteOwners' = {writer'} \ {NoThread}
  BY DEF WriteOwners, OwnersCounted
<1>4. nrofreader' = Cardinality(ReadOwners')
  BY <1>2 DEF OwnersCounted
<1>5. OwnersCounted'
  BY <1>3, <1>4 DEF OwnersCounted
<1>6. TypeOK'
  BY DEF TypeOK, ThreadTypeOK, Waits
<1>7. FlagInv'
  BY ThreadsAssumption DEF FlagInv, Wakeups
<1>8. HeldInv'
  BY DEF TypeOK, OwnersCounted, WriteOwners, HeldInv
<1>9. WakingInv'
  BY DEF WakingInv
<1>10. WaitListsConsistent'
  BY <1>1 DEF TypeOK, ThreadTypeOK, WaitListsConsistent, Waits
<1>11. NobodyWaitsForFreeLock'
  BY DEF NobodyWaitsForFreeLock, Waking
<1>12. NoLostWakeup'
  BY DEF TypeOK, ThreadTypeOK, NoLostWakeup
<1> QED BY <1>5, <1>6, <1>7, <1>8, <1>9, <1>10, <1>11, <1>12

\* lockreader_rwlock enters: one more thread owns the lock for reading.
LEMMA LockReaderEnterInv ==
    ASSUME RWInv, NEW t \in Threads, LockReaderEnter(t)
    PROVE  RWInv'
<1> USE DEF RWInv, LockReaderEnter, In, ReaderMustWait, IsOverflow, Return, UnlockFlag,
           Goto, lockVars, threadVars
<1>1. ReadOwners' = ReadOwners \cup {t} /\ t \notin ReadOwners
  BY DEF TypeOK, ReadOwners, HeldInv
<1>2. WriteOwners' = {writer'} \ {NoThread}
  BY DEF WriteOwners, OwnersCounted
<1>3. nrofreader' = Cardinality(ReadOwners')
  BY <1>1, ReadersCounted, FS_AddElement DEF OwnersCounted
<1>4. OwnersCounted'
  BY <1>2, <1>3 DEF OwnersCounted
<1>5. TypeOK'
  BY MaxReaderAssumption DEF TypeOK, ThreadTypeOK
<1>6. FlagInv'
  BY ThreadsAssumption DEF FlagInv, Wakeups
<1>7. HeldInv'
  BY DEF TypeOK, HeldInv, Wakeups, Waits
<1>8. WakingInv'
  BY DEF WakingInv
<1>9. WaitListsConsistent'
  BY DEF WaitListsConsistent, Waits
<1>10. NobodyWaitsForFreeLock'
  BY DEF NobodyWaitsForFreeLock, Waking
<1>11. NoLostWakeup'
  BY DEF NoLostWakeup
<1> QED BY <1>4, <1>5, <1>6, <1>7, <1>8, <1>9, <1>10, <1>11

\* lockreader_rwlock returns EOVERFLOW.
LEMMA LockReaderOverflowInv ==
    ASSUME RWInv, NEW t \in Threads, LockReaderOverflow(t)
    PROVE  RWInv'
<1> USE DEF RWInv, LockReaderOverflow, In, Return, UnlockFlag,
           Goto, lockVars, threadVars
<1>1. ReadOwners' = ReadOwners
  BY DEF ReadOwners
<1>2. WriteOwners' = {writer'} \ {NoThread}
  BY DEF WriteOwners, OwnersCounted
<1>3. nrofreader' = Cardinality(ReadOwners')
  BY <1>1 DEF OwnersCounted
<1>4. OwnersCounted'
  BY <1>2, <1>3 DEF OwnersCounted
<1>5. TypeOK'
  BY DEF TypeOK, ThreadTypeOK
<1>6. FlagInv'
  BY ThreadsAssumption DEF FlagInv, Wakeups
<1>7. HeldInv'
  BY DEF HeldInv, Wakeups, Waits
<1>8. WakingInv'
  BY DEF WakingInv
<1>9. WaitListsConsistent'
  BY DEF WaitListsConsistent, Waits
<1>10. NobodyWaitsForFreeLock'
  BY DEF NobodyWaitsForFreeLock, Waking
<1>11. NoLostWakeup'
  BY DEF NoLostWakeup
<1> QED BY <1>4, <1>5, <1>6, <1>7, <1>8, <1>9, <1>10, <1>11

\* lockwriter_rwlock returns EDEADLK.
LEMMA LockWriterDeadlkInv ==
    ASSUME RWInv, NEW t \in Threads, LockWriterDeadlk(t)
    PROVE  RWInv'
<1> USE DEF RWInv, LockWriterDeadlk, In, Return, UnlockFlag,
           Goto, lockVars, threadVars
<1>1. ReadOwners' = ReadOwners
  BY DEF ReadOwners
<1>2. WriteOwners' = {writer'} \ {NoThread}
  BY DEF WriteOwners, OwnersCounted
<1>3. nrofreader' = Cardinality(ReadOwners')
  BY <1>1 DEF OwnersCounted
<1>4. OwnersCounted'
  BY <1>2, <1>3 DEF OwnersCounted
<1>5. TypeOK'
  BY DEF TypeOK, ThreadTypeOK
<1>6. FlagInv'
  BY ThreadsAssumption DEF FlagInv, Wakeups
<1>7. HeldInv'
  BY DEF HeldInv, Wakeups, Waits
<1>8. WakingInv'
  BY DEF WakingInv
<1>9. WaitListsConsistent'
  BY DEF WaitListsConsistent, Waits
<1>10. NobodyWaitsForFreeLock'
  BY ThreadsAssumption DEF NobodyWaitsForFreeLock
<1>11. NoLostWakeup'
  BY DEF NoLostWakeup
<1> QED BY <1>4, <1>5, <1>6, <1>7, <1>8, <1>9, <1>10, <1>11

\* lockwriter_rwlock appends the thread to writers: it was in no list before.
LEMMA LockWriterWaitInv ==
    ASSUME RWInv, NEW t \in Threads, LockWriterWait(t)
    PROVE  RWInv'
<1> USE DEF RWInv, LockWriterWait, In, WriterMustWait, InsertAndWait, Link, UnlockFlag,
           Goto, lockVars, threadVars
<1>1. /\ writers' \in Seq(Threads)
      /\ IsInjective(writers')
      /\ ToSet(writers') = ToSet(writers) \cup {t}
      /\ ~linked[t]
  <2>1. t \notin ToSet(writers) /\ ~linked[t]
    BY DEF WaitListsConsistent, Waits
  <2> QED BY <2>1, AppendList DEF TypeOK, WaitListsConsistent
<1>2. ReadOwners' = ReadOwners
  BY DEF ReadOwners
<1>3. WriteOwners' = {writer'} \ {NoThread}
  BY DEF TypeOK, ThreadTypeOK, WriteOwners, OwnersCounted
<1>4. nrofreader' = Cardinality(ReadOwners')
  BY <1>2 DEF OwnersCounted
<1>5. OwnersCounted'
  BY <1>3, <1>4 DEF OwnersCounted
<1>6. TypeOK'
  BY DEF TypeOK, ThreadTypeOK, Waits
<1>7. FlagInv'
  BY ThreadsAssumption DEF FlagInv, Wakeups
<1>8. HeldInv'
  BY DEF TypeOK, OwnersCounted, WriteOwners, HeldInv
<1>9. WakingInv'
  BY DEF WakingInv
<1>10. WaitListsConsistent'
  BY <1>1 DEF TypeOK, ThreadTypeOK, WaitListsConsistent, Waits
<1>11. NobodyWaitsForFreeLock'
  BY DEF NobodyWaitsForFreeLock
<1>12. NoLostWakeup'
  BY DEF TypeOK, ThreadTypeOK, NoLostWakeup
<1> QED BY <1>5, <1>6, <1>7, <1>8, <1>9, <1>10, <1>11, <1>12

\* lockwriter_rwlock enters: nobody owned the lock.
LEMMA LockWriterEnterInv ==
    ASSUME RWInv, NEW t \in Threads, LockWriterEnter(t)
    PROVE  RWInv'
<1> USE DEF RWInv, LockWriterEnter, In, WriterMustWait, Return, UnlockFlag,
           Goto, lockVars, threadVars
<1>1. ReadOwners' = ReadOwners
  BY DEF ReadOwners, HeldInv
<1>2. WriteOwners' = {writer'} \ {NoThread}
  BY ThreadsAssumption DEF TypeOK, WriteOwners, OwnersCounted
<1>3. nrofreader' = Cardinality(ReadOwners')
  BY <1>1 DEF OwnersCounted
<1>4. OwnersCounted'
  BY <1>2, <1>3 DEF OwnersCounted
<1>5. TypeOK'
  BY DEF TypeOK, ThreadTypeOK
<1>6. FlagInv'
  BY ThreadsAssumption DEF FlagInv, Wakeups
<1>7. HeldInv'
  BY DEF HeldInv, Wakeups, Waits
<1>8. WakingInv'
  BY DEF FlagInv, WakingInv, Wakeups
<1>9. WaitListsConsistent'
  BY DEF WaitListsConsistent, Waits
<1>10. NobodyWaitsForFreeLock'
  BY ThreadsAssumption DEF NobodyWaitsForFreeLock
<1>11. NoLostWakeup'
  BY DEF NoLostWakeup
<1> QED BY <1>4, <1>5, <1>6, <1>7, <1>8, <1>9, <1>10, <1>11

\* suspend_thread returns.
LEMMA SuspendInv ==
    ASSUME RWInv, NEW t \in Threads, Suspend(t)
    PROVE  RWInv'
<1> USE DEF RWInv, Suspend, SuspendThread, Goto, lockVars, threadVars
<1>1. ReadOwners' = ReadOwners
  BY DEF ReadOwners
<1>2. WriteOwners' = {writer'} \ {NoThread}
  BY DEF WriteOwners, OwnersCounted
<1>3. nrofreader' = Cardinality(ReadOwners')
  BY <1>1 DEF OwnersCounted
<1>4. OwnersCounted'
  BY <1>2, <1>3 DEF OwnersCounted
<1>5. TypeOK'
  BY DEF TypeOK, ThreadTypeOK, Waits
<1>6. FlagInv'
  BY DEF FlagInv, Calls, Wakeups
<1>7. HeldInv'
  BY DEF HeldInv, Waits
<1>8. WakingInv'
  BY DEF WakingInv
<1>9. WaitListsConsistent'
  BY DEF WaitListsConsistent, Waits
<1>10. NobodyWaitsForFreeLock'
  BY DEF NobodyWaitsForFreeLock, Waking
<1>11. NoLostWakeup'
  BY DEF TypeOK, NoLostWakeup
<1> QED BY <1>4, <1>5, <1>6, <1>7, <1>8, <1>9, <1>10, <1>11

\* A woken thread returns: it was made an owner before.
LEMMA IsWakeupInv ==
    ASSUME RWInv, NEW t \in Threads, IsWakeup(t)
    PROVE  RWInv'
<1> USE DEF RWInv, IsWakeup, Goto, lockVars, threadVars
<1>1. ReadOwners' = ReadOwners
  BY DEF TypeOK, ReadOwners, HeldInv, Calls
<1>2. WriteOwners' = {writer'} \ {NoThread}
  BY DEF TypeOK, WriteOwners, OwnersCounted, HeldInv, Calls
<1>3. nrofreader' = Cardinality(ReadOwners')
  BY <1>1 DEF OwnersCounted
<1>4. OwnersCounted'
  BY <1>2, <1>3 DEF OwnersCounted
<1>5. TypeOK'
  BY DEF TypeOK, ThreadTypeOK
<1>6. FlagInv'
  BY DEF FlagInv, Calls, Wakeups
<1>7. HeldInv'
  BY DEF TypeOK, HeldInv, Wakeups, Waits
<1>8. WakingInv'
  BY DEF WakingInv
<1>9. WaitListsConsistent'
  BY DEF WaitListsConsistent
<1>10. NobodyWaitsForFreeLock'
  BY DEF NobodyWaitsForFreeLock, Waking
<1>11. NoLostWakeup'
  BY DEF NoLostWakeup
<1> QED BY <1>4, <1>5, <1>6, <1>7, <1>8, <1>9, <1>10, <1>11

\* A thread which was resumed by somebody else suspends itself again.
LEMMA NoWakeupInv ==
    ASSUME RWInv, NEW t \in Threads, NoWakeup(t)
    PROVE  RWInv'
<1> USE DEF RWInv, NoWakeup, Goto, lockVars, threadVars
<1>1. ReadOwners' = ReadOwners
  BY DEF ReadOwners
<1>2. WriteOwners' = {writer'} \ {NoThread}
  BY DEF WriteOwners, OwnersCounted
<1>3. nrofreader' = Cardinality(ReadOwners')
  BY <1>1 DEF OwnersCounted
<1>4. OwnersCounted'
  BY <1>2, <1>3 DEF OwnersCounted
<1>5. TypeOK'
  BY DEF TypeOK, ThreadTypeOK, Waits
<1>6. FlagInv'
  BY DEF FlagInv, Calls, Wakeups
<1>7. HeldInv'
  BY DEF HeldInv, Waits
<1>8. WakingInv'
  BY DEF WakingInv
<1>9. WaitListsConsistent'
  BY DEF WaitListsConsistent, Waits
<1>10. NobodyWaitsForFreeLock'
  BY DEF NobodyWaitsForFreeLock, Waking
<1>11. NoLostWakeup'
  BY DEF NoLostWakeup
<1> QED BY <1>4, <1>5, <1>6, <1>7, <1>8, <1>9, <1>10, <1>11

\* unlockreader_rwlock returns EPERM.
LEMMA UnlockReaderPermInv ==
    ASSUME RWInv, NEW t \in Threads, UnlockReaderPerm(t)
    PROVE  RWInv'
<1> USE DEF RWInv, UnlockReaderPerm, In, Return, UnlockFlag,
           Goto, lockVars, threadVars
<1>1. ReadOwners' = ReadOwners
  BY DEF ReadOwners
<1>2. WriteOwners' = {writer'} \ {NoThread}
  BY DEF WriteOwners, OwnersCounted
<1>3. nrofreader' = Cardinality(ReadOwners')
  BY <1>1 DEF OwnersCounted
<1>4. OwnersCounted'
  BY <1>2, <1>3 DEF OwnersCounted
<1>5. TypeOK'
  BY DEF TypeOK, ThreadTypeOK
<1>6. FlagInv'
  BY ThreadsAssumption DEF FlagInv, Wakeups
<1>7. HeldInv'
  BY DEF HeldInv, Wakeups, Waits
<1>8. WakingInv'
  BY DEF WakingInv
<1>9. WaitListsConsistent'
  BY DEF WaitListsConsistent, Waits
<1>10. NobodyWaitsForFreeLock'
  BY DEF NobodyWaitsForFreeLock, Waking
<1>11. NoLostWakeup'
  BY DEF NoLostWakeup
<1> QED BY <1>4, <1>5, <1>6, <1>7, <1>8, <1>9, <1>10, <1>11

\* unlockreader_rwlock decrements nrofreader: one reader less owns the lock.
LEMMA UnlockReaderInv ==
    ASSUME RWInv, NEW t \in Threads, UnlockReader(t)
    PROVE  RWInv'
<1> USE DEF RWInv, UnlockReader, AfterUnlockReader, StartWakeup, In, Goto, lockVars, threadVars
<1>1. /\ readers' \in Seq(Threads)
      /\ IsInjective(readers')
      /\ ToSet(readers') = ToSet(readers)
      /\ readers' = <<>> <=> readers = <<>>
  <2>1. readers' # readers => readers # <<>> /\ readers' = WalkFromLast(readers)
    OBVIOUS
  <2> QED BY RotateList DEF WalkFromLast, TypeOK, WaitListsConsistent
<1>2. ReadOwners' = ReadOwners \ {t} /\ t \in ReadOwners
  BY DEF TypeOK, ReadOwners, WriteOwners, OwnersCounted, HeldInv
<1>3. WriteOwners' = {writer'} \ {NoThread}
  BY DEF WriteOwners, OwnersCounted
<1>4. nrofreader' = Cardinality(ReadOwners')
  BY <1>2, ReadersCounted, FS_RemoveElement DEF OwnersCounted
<1>5. OwnersCounted'
  BY <1>3, <1>4 DEF OwnersCounted
<1>6. TypeOK'
  BY <1>1, MaxReaderAssumption DEF TypeOK, ThreadTypeOK, Wakeups
<1>7. FlagInv'
  BY DEF FlagInv, Wakeups
<1>8. HeldInv'
  BY DEF TypeOK, HeldInv
<1>9. WakingInv'
  BY <1>1 DEF WakingInv, OwnersCounted
<1>10. WaitListsConsistent'
  BY <1>1 DEF WaitListsConsistent, Waits
<1>11. NobodyWaitsForFreeLock'
  BY DEF TypeOK, NobodyWaitsForFreeLock, Waking
<1>12. NoLostWakeup'
  BY DEF NoLostWakeup
<1> QED BY <1>5, <1>6, <1>7, <1>8, <1>9, <1>10, <1>11, <1>12

\* unlockwriter_rwlock returns EPERM.
LEMMA UnlockWriterPermInv ==
    ASSUME RWInv, NEW t \in Threads, UnlockWriterPerm(t)
    PROVE  RWInv'
<1> USE DEF RWInv, UnlockWriterPerm, In, Return, UnlockFlag,
           Goto, lockVars, threadVars
<1>1. ReadOwners' = ReadOwners
  BY DEF ReadOwners
<1>2. WriteOwners' = {writer'} \ {NoThread}
  BY DEF WriteOwners, OwnersCounted
<1>3. nrofreader' = Cardinality(ReadOwners')
  BY <1>1 DEF OwnersCounted
<1>4. OwnersCounted'
  BY <1>2, <1>3 DEF OwnersCounted
<1>5. TypeOK'
  BY DEF TypeOK, ThreadTypeOK
<1>6. FlagInv'
  BY ThreadsAssumption DEF FlagInv, Wakeups
<1>7. HeldInv'
  BY DEF HeldInv, Wakeups, Waits
<1>8. WakingInv'
  BY DEF WakingInv
<1>9. WaitListsConsistent'
  BY DEF WaitListsConsistent, Waits
<1>10. NobodyWaitsForFreeLock'
  BY DEF NobodyWaitsForFreeLock, Waking
<1>11. NoLostWakeup'
  BY DEF NoLostWakeup
<1> QED BY <1>4, <1>5, <1>6, <1>7, <1>8, <1>9, <1>10, <1>11

\* unlockwriter_rwlock resets writer.
LEMMA UnlockWriterInv ==
    ASSUME RWInv, NEW t \in Threads, UnlockWriter(t)
    PROVE  RWInv'
<1> USE DEF RWInv, UnlockWriter, AfterUnlockWriter, StartWakeup, In, Goto, lockVars, threadVars
<1>1. /\ readers' \in Seq(Threads)
      /\ IsInjective(readers')
      /\ ToSet(readers') = ToSet(readers)
      /\ readers' = <<>> <=> readers = <<>>
  <2>1. readers' # readers => readers # <<>> /\ readers' = WalkFromLast(readers)
    OBVIOUS
  <2> QED BY RotateList DEF WalkFromLast, TypeOK, WaitListsConsistent
<1>2. ReadOwners' = ReadOwners
  BY ThreadsAssumption DEF ReadOwners, WriteOwners, OwnersCounted
<1>3. WriteOwners' = {writer'} \ {NoThread}
  BY DEF TypeOK, WriteOwners, OwnersCounted
<1>4. nrofreader' = Cardinality(ReadOwners')
  BY <1>2 DEF OwnersCounted
<1>5. OwnersCounted'
  BY <1>3, <1>4 DEF OwnersCounted
<1>6. TypeOK'
  BY <1>1 DEF TypeOK, ThreadTypeOK, Wakeups
<1>7. FlagInv'
  BY DEF FlagInv, Wakeups
<1>8. HeldInv'
  BY DEF TypeOK, HeldInv
<1>9. WakingInv'
  BY <1>1, ThreadsAssumption DEF WakingInv, OwnersCounted
<1>10. WaitListsConsistent'
  BY <1>1 DEF WaitListsConsistent, Waits
<1>11. NobodyWaitsForFreeLock'
  BY DEF TypeOK, NobodyWaitsForFreeLock, Waking
<1>12. NoLostWakeup'
  BY DEF NoLostWakeup
<1> QED BY <1>5, <1>6, <1>7, <1>8, <1>9, <1>10, <1>11, <1>12

\* wakeupreader_rwlock makes the next waiting reader an owner.
LEMMA WakeupReaderInv ==
    ASSUME RWInv, NEW t \in Threads, WakeupReader(t)
    PROVE  RWInv'
<1> USE DEF RWInv, WakeupReader, In, Wake, Unlink, ResumeThread, Goto, lockVars, threadVars
<1>1. /\ readers # <<>>
      /\ Head(readers) \in Threads
      /\ readers' \in Seq(Threads)
      /\ IsInjective(readers')
      /\ ToSet(readers') = ToSet(readers) \ {Head(readers)}
      /\ linked[Head(readers)]
      /\ pc[Head(readers)] \in {"waitreader", "checkreader"}
      /\ held[Head(readers)] = "none"
  <2>1. readers # <<>>
    BY DEF WakingInv
  <2> QED BY <2>1, TailList DEF TypeOK, WaitListsConsistent, HeldInv
<1>2. ReadOwners' = ReadOwners \cup {Head(readers)} /\ Head(readers) \notin ReadOwners
  BY <1>1 DEF TypeOK, ThreadTypeOK, ReadOwners
<1>3. WriteOwners' = {writer'} \ {NoThread}
  BY <1>1 DEF TypeOK, WriteOwners, OwnersCounted, WaitListsConsistent
<1>4. nrofreader' = Cardinality(ReadOwners')
  BY <1>2, ReadersCounted, FS_AddElement DEF OwnersCounted
<1>5. OwnersCounted'
  BY <1>3, <1>4 DEF OwnersCounted, WakingInv
<1>6. TypeOK'
  <2>1. nrofreader + 1 \in 0..MaxReader
    <3>1. t \notin ReadOwners' /\ ReadOwners' \subseteq Threads
      BY <1>1, <1>2 DEF ReadOwners, HeldInv, Wakeups
    <3> QED BY <3>1, <1>4, OneLessReader
  <2> QED BY <1>1, <2>1 DEF TypeOK, ThreadTypeOK, Wakeups
<1>7. FlagInv'
  BY DEF TypeOK, FlagInv, Wakeups
<1>8. HeldInv'
  BY DEF TypeOK, HeldInv, Wakeups
<1>9. WakingInv'
  BY DEF TypeOK, FlagInv, WakingInv, Wakeups
<1>10. WaitListsConsistent'
  <2>1. \A u \in Threads : linked'[u] <=> linked[u] /\ u # Head(readers)
    BY <1>1 DEF TypeOK, ThreadTypeOK
  <2>2. \A u \in Threads : pc'[u] \in Waits \/ pc[u] \in Waits => pc'[u] = pc[u]
    BY DEF TypeOK, Waits
  <2>3. /\ ToSet(readers') =
               {u \in Threads : linked'[u] /\ pc'[u] \in {"waitreader", "checkreader"}}
        /\ ToSet(writers') =
               {u \in Threads : linked'[u] /\ pc'[u] \in {"waitwriter", "checkwriter"}}
    BY <1>1, <2>1, <2>2 DEF WaitListsConsistent, Waits
  <2>4. \A u \in Threads : linked'[u] => pc'[u] \in Waits
    BY <2>1, <2>2 DEF WaitListsConsistent
  <2> QED BY <1>1, <2>3, <2>4 DEF WaitListsConsistent
<1>11. NobodyWaitsForFreeLock'
  BY DEF TypeOK, NobodyWaitsForFreeLock, Waking
<1>12. NoLostWakeup'
  BY DEF TypeOK, ThreadTypeOK, NoLostWakeup
<1> QED BY <1>5, <1>6, <1>7, <1>8, <1>9, <1>10, <1>11, <1>12

\* wakeupwriter_rwlock makes the first waiting writer the owner.
LEMMA WakeupWriterInv ==
    ASSUME RWInv, NEW t \in Threads, WakeupWriter(t)
    PROVE  RWInv'
<1> USE DEF RWInv, WakeupWriter, In, Wake, Unlink, ResumeThread, Goto, lockVars, threadVars
<1>1. /\ writers # <<>>
      /\ Head(writers) \in Threads
      /\ writers' \in Seq(Threads)
      /\ IsInjective(writers')
      /\ ToSet(writers') = ToSet(writers) \ {Head(writers)}
      /\ linked[Head(writers)]
      /\ pc[Head(writers)] \in {"waitwriter", "checkwriter"}
      /\ held[Head(writers)] = "none"
  <2>1. writers # <<>>
    BY DEF WakingInv
  <2> QED BY <2>1, TailList DEF TypeOK, WaitListsConsistent, HeldInv
<1>2. ReadOwners' = ReadOwners
  BY <1>1 DEF ReadOwners
<1>3. WriteOwners' = {writer'} \ {NoThread}
  BY <1>1, ThreadsAssumption DEF TypeOK, ThreadTypeOK, WriteOwners, OwnersCounted, WakingInv
<1>4. nrofreader' = Cardinality(ReadOwners')
  BY <1>2 DEF OwnersCounted
<1>5. OwnersCounted'
  BY <1>3, <1>4 DEF OwnersCounted, WakingInv
<1>6. TypeOK'
  BY <1>1 DEF TypeOK, ThreadTypeOK, Wakeups
<1>7. FlagInv'
  BY DEF FlagInv, Wakeups
<1>8. HeldInv'
  BY DEF HeldInv, Wakeups
<1>9. WakingInv'
  BY DEF TypeOK, FlagInv, WakingInv, Wakeups
<1>10. WaitListsConsistent'
  BY <1>1 DEF TypeOK, ThreadTypeOK, WaitListsConsistent, Waits
<1>11. NobodyWaitsForFreeLock'
  BY <1>1, ThreadsAssumption DEF NobodyWaitsForFreeLock
<1>12. NoLostWakeup'
  BY DEF TypeOK, ThreadTypeOK, NoLostWakeup
<1> QED BY <1>5, <1>6, <1>7, <1>8, <1>9, <1>10, <1>11, <1>12

\* The end of an unlock function.
LEMMA UnlockedInv ==
    ASSUME RWInv, NEW t \in Threads, Unlocked(t)
    PROVE  RWInv'
<1> USE DEF RWInv, Unlocked, In, Return, UnlockFlag,
           Goto, lockVars, threadVars
<1>1. ReadOwners' = ReadOwners
  BY DEF ReadOwners
<1>2. WriteOwners' = {writer'} \ {NoThread}
  BY DEF WriteOwners, OwnersCounted
<1>3. nrofreader' = Cardinality(ReadOwners')
  BY <1>1 DEF OwnersCounted
<1>4. OwnersCounted'
  BY <1>2, <1>3 DEF OwnersCounted
<1>5. TypeOK'
  BY DEF TypeOK, ThreadTypeOK
<1>6. FlagInv'
  BY ThreadsAssumption DEF TypeOK, FlagInv, Wakeups
<1>7. HeldInv'
  BY DEF HeldInv, Wakeups
<1>8. WakingInv'
  BY DEF WakingInv
<1>9. WaitListsConsistent'
  BY DEF WaitListsConsistent, Waits
<1>10. NobodyWaitsForFreeLock'
  BY DEF NobodyWaitsForFreeLock, Waking
<1>11. NoLostWakeup'
  BY DEF NoLostWakeup
<1> QED BY <1>4, <1>5, <1>6, <1>7, <1>8, <1>9, <1>10, <1>11

\* A SIGINT of somebody else.
LEMMA SpuriousInv ==
    ASSUME RWInv, NEW t \in Threads, Spurious(t)
    PROVE  RWInv'
<1> USE DEF RWInv, Spurious, SpuriousResume, ResumeThread, lockVars, threadVars
<1>1. ReadOwners' = ReadOwners
  BY DEF ReadOwners
<1>2. WriteOwners' = {writer'} \ {NoThread}
  BY DEF WriteOwners, OwnersCounted
<1>3. nrofreader' = Cardinality(ReadOwners')
  BY <1>1 DEF OwnersCounted
<1>4. OwnersCounted'
  BY <1>2, <1>3 DEF OwnersCounted
<1>5. TypeOK'
  BY DEF TypeOK, ThreadTypeOK
<1>6. FlagInv'
  BY DEF FlagInv
<1>7. HeldInv'
  BY DEF HeldInv
<1>8. WakingInv'
  BY DEF WakingInv
<1>9. WaitListsConsistent'
  BY DEF WaitListsConsistent
<1>10. NobodyWaitsForFreeLock'
  BY DEF NobodyWaitsForFreeLock, Waking
<1>11. NoLostWakeup'
  BY DEF NoLostWakeup
<1> QED BY <1>4, <1>5, <1>6, <1>7, <1>8, <1>9, <1>10, <1>11

-----------------------------------------------------------------------------

\* Every step of every thread keeps the invariant.
LEMMA NextInv == RWInv /\ [Next]_vars => RWInv'
<1> SUFFICES ASSUME RWInv, [Next]_vars PROVE RWInv'
  OBVIOUS
<1>1. CASE Next
  <2> PICK t \in Threads : \/ \E f \in Calls : Call(t, f)
                          \/ LockFlag(t)
                          \/ Step(t)
                          \/ Spurious(t)
    BY <1>1 DEF Next
  <2>1. CASE \E f \in Calls : Call(t, f)
    BY <2>1, CallInv
  <2>2. CASE LockFlag(t)
    BY <2>2, LockFlagInv
  <2>3. CASE LockReader(t)
    BY <2>3, LockReaderDeadlkInv, LockReaderWaitInv, LockReaderEnterInv, LockReaderOverflowInv
       DEF LockReader
  <2>4. CASE LockWriter(t)
    BY <2>4, LockWriterDeadlkInv, LockWriterWaitInv, LockWriterEnterInv DEF LockWriter
  <2>5. CASE Step(t) /\ ~LockReader(t) /\ ~LockWriter(t)
    BY <2>5, SuspendInv, IsWakeupInv, NoWakeupInv, UnlockReaderPermInv, UnlockReaderInv,
       UnlockWriterPermInv, UnlockWriterInv, WakeupReaderInv, WakeupWriterInv, UnlockedInv
       DEF Step
  <2>6. CASE Spurious(t)
    BY <2>6, SpuriousInv
  <2> QED BY <2>1, <2>2, <2>3, <2>4, <2>5, <2>6
<1>2. CASE UNCHANGED vars
  BY <1>2 DEF vars, lockVars, threadVars, RWInv, TypeOK, ThreadTypeOK, FlagInv, HeldInv,
     WakingInv, OwnersCounted, ReadOwners, WriteOwners, WaitListsConsistent,
     NobodyWaitsForFreeLock, Waking, NoLostWakeup
<1> QED BY <1>1, <1>2

\* The members of the lock and the places of all threads agree in every state
\* the functions of rwlock.c can reach.
THEOREM LockInvariant == Spec => []RWInv
<1> QED BY InitInv, NextInv, PTL DEF Spec

\* All variables keep their types; nrofreader never exceeds UINT32_MAX, also in
\* wakeupreader_rwlock, which increments it without a test.
THEOREM TypeCorrect == Spec => []TypeOK
<1>1. RWInv => TypeOK
  BY DEF RWInv
<1> QED BY <1>1, LockInvariant, PTL

\* nrofreader and writer count exactly the owners, through every hand-over.
THEOREM OwnersAreCounted == Spec => []OwnersCounted
<1>1. RWInv => OwnersCounted
  BY DEF RWInv
<1> QED BY <1>1, LockInvariant, PTL

\* A client which holds the write lock is alone.
THEOREM WriterIsAlone == Spec => []MutualExclusion
<1>1. RWInv => MutualExclusion
  <2> SUFFICES ASSUME RWInv, NEW t \in Threads, NEW u \in Threads,
                      held[t] = "write", t # u
               PROVE  held[u] = "none"
    BY DEF MutualExclusion
  <2> USE DEF RWInv
  <2>1. writer = t /\ writer # NoThread
    BY DEF OwnersCounted, WriteOwners
  <2>2. held[u] # "write"
    BY DEF OwnersCounted, WriteOwners
  <2>3. ReadOwners = {}
    BY <2>1, ReadersCounted, FS_EmptySet DEF OwnersCounted
  <2>4. held[u] # "read"
    BY <2>3 DEF ReadOwners
  <2> QED BY <2>2, <2>4 DEF TypeOK
<1> QED BY <1>1, LockInvariant, PTL

\* No wakeup is lost although wait.next is read without lockflag and SIGINT may
\* be sent by anybody.
THEOREM WakeupsArrive == Spec => []NoLostWakeup
<1>1. RWInv => NoLostWakeup
  BY DEF RWInv
<1> QED BY <1>1, LockInvariant, PTL

\* The wait lists and the wait nodes of the threads agree in every state.
THEOREM WaitListsCorrect == Spec => []WaitListsConsistent
<1>1. RWInv => WaitListsConsistent
  BY DEF RWInv
<1> QED BY <1>1, LockInvariant, PTL

\* Nobody is left waiting when the lock is free.
THEOREM NoIdleLock == Spec => []NobodyWaitsForFreeLock
<1>1. RWInv => NobodyWaitsForFreeLock
  BY DEF RWInv
<1> QED BY <1>1, LockInvariant, PTL

\* The branch of unlockreader_rwlock which "should never" be entered is dead code.
THEOREM BranchIsDead == Spec => []NeverEnterThisBranch
<1>1. RWInv => NeverEnterThisBranch
  <2> SUFFICES ASSUME RWInv, NEW t \in Threads, In(t, "unlockreader"),
                      nrofreader = 1, readers # <<>>
               PROVE  writers # <<>>
    BY DEF NeverEnterThisBranch
  <2> USE DEF RWInv
  <2>1. ~Waking
    BY DEF In, Waking, FlagInv, Wakeups
  <2>2. writer = NoThread
    BY DEF OwnersCounted
  <2> QED BY <2>1, <2>2 DEF NobodyWaitsForFreeLock
<1> QED BY <1>1, LockInvariant, PTL

-----------------------------------------------------------------------------
(* rwlock.c implements PhaseFairLock for any finite set of threads.  The   *)
(* invariant RWInv says which threads can be where; with it every action   *)
(* of RWLock is one action of PhaseFairLock or leaves it alone.            *)


\* If nobody is about to wake others the abstract lock is the concrete one,
\* before and after a step.
LEMMA Settled ==
    /\ ~Waking => Active = ReadOwners /\ Exclusive = writer
                  /\ QueueR = ToSet(readers) /\ QueueW = writers
    /\ ~Waking' => Active' = ReadOwners' /\ Exclusive' = writer'
                   /\ QueueR' = ToSet(readers') /\ QueueW' = writers'
BY DEF Waking, Active, Exclusive, QueueR, QueueW, AdmitsReaders, AdmitsWriter

\* A thread which has set lockflag and is not about to wake others is the only
\* one in the protected sections, so nobody is.
LEMMA SectionSettled ==
    ASSUME RWInv, NEW t \in Threads, lockflag = t,
           pc[t] \notin {"wakeupreader", "wakeupwriter"}
    PROVE  ~Waking
BY DEF RWInv, FlagInv, Waking, Wakeups

\* After an unlock function or a wakeup t is the only one which may wake others.
LEMMA OnlyWaker ==
    ASSUME RWInv, NEW t \in Threads, lockflag = t, NEW label, Goto(t, label)
    PROVE  /\ AdmitsReaders' <=> label = "wakeupreader"
           /\ AdmitsWriter' <=> label = "wakeupwriter"
<1>1. \A u \in Threads : u # t => pc[u] \notin {"wakeupreader", "wakeupwriter"}
  BY DEF RWInv, FlagInv, Wakeups
<1>2. pc'[t] = label /\ \A u \in Threads : u # t => pc'[u] = pc[u]
  BY DEF RWInv, TypeOK, Goto
<1> QED BY <1>1, <1>2 DEF AdmitsReaders, AdmitsWriter

\* A step leaves the abstract lock alone if it changes neither owners nor lists
\* and nobody begins or ends to wake others.
LEMMA Stutter ==
    ASSUME ReadOwners' = ReadOwners, UNCHANGED <<readers, writers, writer>>,
           \A t \in Threads : \A label \in {"wakeupreader", "wakeupwriter"} :
               pc'[t] = label <=> pc[t] = label
    PROVE  UNCHANGED Abstract!vars
<1>1. (AdmitsReaders' <=> AdmitsReaders) /\ (AdmitsWriter' <=> AdmitsWriter)
  BY DEF AdmitsReaders, AdmitsWriter
<1> QED BY <1>1 DEF Abstract!vars, Active, Exclusive, QueueR, QueueW

\* Steps of rwlock.c which the abstract lock does not see.
LEMMA Unseen ==
    ASSUME RWInv, NEW t \in Threads,
           \/ \E f \in Calls : Call(t, f)
           \/ LockFlag(t)
           \/ LockReaderDeadlk(t)
           \/ LockReaderOverflow(t)
           \/ LockWriterDeadlk(t)
           \/ Suspend(t)
           \/ IsWakeup(t)
           \/ NoWakeup(t)
           \/ UnlockReaderPerm(t)
           \/ UnlockWriterPerm(t)
           \/ Unlocked(t)
           \/ Spurious(t)
           \/ UNCHANGED vars
    PROVE  UNCHANGED Abstract!vars
<1> USE DEF RWInv, TypeOK, ThreadTypeOK, HeldInv, Wakeups, Waits, Calls, Goto, In,
            Return, lockVars, threadVars
<1>1. CASE \E f \in Calls : Call(t, f)
  BY <1>1, Stutter DEF Call, MayCall, ReadOwners
<1>2. CASE LockFlag(t)
  BY <1>2, Stutter DEF LockFlag, ReadOwners
<1>3. CASE LockReaderDeadlk(t)
  BY <1>3, Stutter DEF LockReaderDeadlk, ReadOwners
<1>4. CASE LockReaderOverflow(t)
  BY <1>4, Stutter DEF LockReaderOverflow, ReadOwners
<1>5. CASE LockWriterDeadlk(t)
  BY <1>5, Stutter DEF LockWriterDeadlk, ReadOwners
<1>6. CASE Suspend(t)
  BY <1>6, Stutter DEF Suspend, ReadOwners
<1>7. CASE IsWakeup(t)
  BY <1>7, Stutter DEF IsWakeup, ReadOwners
<1>8. CASE NoWakeup(t)
  BY <1>8, Stutter DEF NoWakeup, ReadOwners
<1>9. CASE UnlockReaderPerm(t)
  BY <1>9, Stutter DEF UnlockReaderPerm, ReadOwners
<1>10. CASE UnlockWriterPerm(t)
  BY <1>10, Stutter DEF UnlockWriterPerm, ReadOwners
<1>11. CASE Unlocked(t)
  BY <1>11, Stutter DEF Unlocked, ReadOwners
<1>12. CASE Spurious(t)
  BY <1>12, Stutter DEF Spurious, SpuriousResume, ResumeThread, ReadOwners
<1>13. CASE UNCHANGED vars
  BY <1>13, Stutter DEF vars, ReadOwners
<1> QED BY <1>1, <1>2, <1>3, <1>4, <1>5, <1>6, <1>7, <1>8, <1>9, <1>10, <1>11, <1>12, <1>13

\* A thread in a lock function which is not the writer is outside of the lock.
LEMMA CallerIsOutside ==
    ASSUME RWInv, NEW t \in Threads, pc[t] \in {"lockreader", "lockwriter"},
           writer # t, ~Waking
    PROVE  Abstract!Outside(t)
<1>1. held[t] = "none"
  BY DEF RWInv, TypeOK, HeldInv, OwnersCounted, WriteOwners
<1>2. t \notin ReadOwners
  BY <1>1 DEF ReadOwners
<1>3. t \notin ToSet(readers) /\ t \notin ToSet(writers)
  BY DEF RWInv, WaitListsConsistent
<1> QED BY <1>2, <1>3, Settled DEF Abstract!Outside, ToSet, Abstract!ToSet

\* The counter tells whether there are readers.
LEMMA CountedReaders == RWInv => (ReadOwners = {} <=> nrofreader = 0)
BY ReadersCounted, FS_EmptySet DEF RWInv, OwnersCounted

\* lockreader_rwlock enters only if no writer owns the lock or waits for it.
LEMMA LockReaderEnterReads ==
    ASSUME RWInv, NEW t \in Threads, LockReaderEnter(t)
    PROVE  Abstract!EnterRead(t)
<1> USE DEF LockReaderEnter, In, Return, UnlockFlag, ReaderMustWait
<1>1. ~Waking
  BY SectionSettled
<1>2. ~Waking'
  BY <1>1 DEF Waking, Goto, RWInv, TypeOK
<1>3. ReadOwners' = ReadOwners \cup {t}
  BY DEF ReadOwners, Goto, threadVars, RWInv, TypeOK, ThreadTypeOK
<1>4. Abstract!Outside(t)
  BY <1>1, CallerIsOutside, ThreadsAssumption
<1> QED BY <1>1, <1>2, <1>3, <1>4, Settled DEF Abstract!EnterRead

\* lockreader_rwlock waits only for a writer which owns the lock or waits itself.
LEMMA LockReaderWaitQueues ==
    ASSUME RWInv, NEW t \in Threads, LockReaderWait(t)
    PROVE  Abstract!QueueRead(t)
<1> USE DEF LockReaderWait, In, InsertAndWait, UnlockFlag, ReaderMustWait, Link
<1>1. ~Waking
  BY SectionSettled
<1>2. ~Waking'
  BY <1>1 DEF Waking, Goto, RWInv, TypeOK
<1>3. ReadOwners' = ReadOwners
  BY DEF ReadOwners, Goto, RWInv, TypeOK, ThreadTypeOK
<1>4. Abstract!Outside(t)
  BY <1>1, CallerIsOutside
<1>5. ToSet(readers') = ToSet(readers) \cup {t}
  BY <1>1, <1>4, Settled, AppendList DEF Abstract!Outside, RWInv, TypeOK, WaitListsConsistent
<1> QED BY <1>1, <1>2, <1>3, <1>4, <1>5, Settled DEF Abstract!QueueRead

\* lockwriter_rwlock enters only a lock without owner.
LEMMA LockWriterEnterWrites ==
    ASSUME RWInv, NEW t \in Threads, LockWriterEnter(t)
    PROVE  Abstract!EnterWrite(t)
<1> USE DEF LockWriterEnter, In, Return, UnlockFlag, WriterMustWait
<1>1. ~Waking
  BY SectionSettled
<1>2. ~Waking'
  BY <1>1 DEF Waking, Goto, RWInv, TypeOK
<1>3. ReadOwners' = ReadOwners
  BY DEF ReadOwners, Goto, threadVars, RWInv, TypeOK, ThreadTypeOK, HeldInv
<1>4. Abstract!Outside(t)
  BY <1>1, CallerIsOutside, ThreadsAssumption
<1> QED BY <1>1, <1>2, <1>3, <1>4, Settled, CountedReaders DEF Abstract!EnterWrite

\* lockwriter_rwlock waits behind the writers which came before.
LEMMA LockWriterWaitQueues ==
    ASSUME RWInv, NEW t \in Threads, LockWriterWait(t)
    PROVE  Abstract!QueueWrite(t)
<1> USE DEF LockWriterWait, In, InsertAndWait, UnlockFlag, WriterMustWait, Link
<1>1. ~Waking
  BY SectionSettled
<1>2. ~Waking'
  BY <1>1 DEF Waking, Goto, RWInv, TypeOK
<1>3. ReadOwners' = ReadOwners
  BY DEF ReadOwners, Goto, RWInv, TypeOK, ThreadTypeOK
<1>4. Abstract!Outside(t)
  BY <1>1, CallerIsOutside
<1> QED BY <1>1, <1>2, <1>3, <1>4, Settled, CountedReaders DEF Abstract!QueueWrite

\* What an unlock function does to the list of readers leaves its members.
LEMMA SameReaders ==
    ASSUME RWInv, NEW t, NEW label, StartWakeup(t, label),
           label = "wakeupreader" => readers # <<>>
    PROVE  ToSet(readers') = ToSet(readers)
BY RotateList DEF StartWakeup, WalkFromLast, RWInv, TypeOK, WaitListsConsistent

\* The last reader hands the lock over to the first writer; the branch which
\* would wake readers is never taken.
LEMMA UnlockReaderLeaves ==
    ASSUME RWInv, RWInv', NEW t \in Threads, UnlockReader(t)
    PROVE  Abstract!LeaveRead(t)
<1> DEFINE label == AfterUnlockReader(nrofreader - 1)
<1> USE DEF UnlockReader, In
<1>1. ~Waking
  BY SectionSettled
<1>2. /\ AdmitsReaders' <=> label = "wakeupreader"
      /\ AdmitsWriter' <=> label = "wakeupwriter"
  BY OnlyWaker DEF StartWakeup
<1>3. writer = NoThread /\ nrofreader \in Nat \ {0}
  BY DEF RWInv, TypeOK, OwnersCounted
<1>4. label # "wakeupreader"
  BY <1>1, <1>3 DEF AfterUnlockReader, RWInv, NobodyWaitsForFreeLock
<1>5. readers' = readers
  BY <1>4 DEF StartWakeup
<1>6. t \in ReadOwners /\ ReadOwners' = ReadOwners \ {t}
  BY <1>3, ThreadsAssumption
  DEF AfterUnlockReader, StartWakeup, Goto, ReadOwners, WriteOwners, threadVars, RWInv,
      TypeOK, ThreadTypeOK, OwnersCounted, HeldInv
<1>7. /\ Active = ReadOwners /\ Exclusive = NoThread
      /\ QueueR = ToSet(readers) /\ QueueW = writers
  BY <1>1, <1>3, Settled
<1>8. Active' = ReadOwners' /\ QueueR' = ToSet(readers)
  BY <1>2, <1>4, <1>5 DEF Active, QueueR
<1>9. ReadOwners' = {} <=> nrofreader - 1 = 0
  <2>1. /\ IsFiniteSet(ReadOwners) /\ Cardinality(ReadOwners) = nrofreader
    BY ReadersCounted DEF RWInv, OwnersCounted
  <2>2. /\ IsFiniteSet(ReadOwners') /\ Cardinality(ReadOwners') = nrofreader - 1
    BY <1>6, <2>1, FS_RemoveElement
  <2> QED BY <2>2, FS_EmptySet
<1>10. CASE label = "wakeupwriter"
  <2>1. nrofreader - 1 = 0 /\ writers # <<>>
    BY <1>10 DEF AfterUnlockReader
  <2>2. Exclusive' = Head(writers) /\ QueueW' = Tail(writers)
    BY <1>2, <1>10 DEF Exclusive, QueueW
  <2> QED BY <1>6, <1>7, <1>8, <1>9, <2>1, <2>2 DEF Abstract!LeaveRead, Abstract!AdmitWriter
<1>11. CASE label # "wakeupwriter"
  <2>1. nrofreader - 1 # 0 \/ writers = <<>>
    BY <1>11 DEF AfterUnlockReader
  <2>2. Exclusive' = NoThread /\ QueueW' = writers
    BY <1>2, <1>3, <1>11 DEF Exclusive, QueueW
  <2> QED BY <1>6, <1>7, <1>8, <1>9, <2>1, <2>2 DEF Abstract!LeaveRead
<1> QED BY <1>10, <1>11

\* The writer hands the lock over to all readers which wait, or to the first
\* writer, or leaves it free.
LEMMA UnlockWriterLeaves ==
    ASSUME RWInv, NEW t \in Threads, UnlockWriter(t)
    PROVE  Abstract!LeaveWrite(t)
<1> USE DEF UnlockWriter, In
<1>1. ~Waking
  BY SectionSettled
<1>2. /\ AdmitsReaders' <=> AfterUnlockWriter = "wakeupreader"
      /\ AdmitsWriter' <=> AfterUnlockWriter = "wakeupwriter"
  BY OnlyWaker DEF StartWakeup
<1>3. ToSet(readers') = ToSet(readers) /\ (readers = <<>> <=> ToSet(readers) = {})
  BY SameReaders, NonEmptyList DEF AfterUnlockWriter, RWInv, TypeOK
<1>4. ReadOwners = {}
  BY CountedReaders, ThreadsAssumption DEF RWInv, OwnersCounted
<1>5. ReadOwners' = {}
  BY <1>4, ThreadsAssumption
  DEF AfterUnlockWriter, StartWakeup, Goto, ReadOwners, threadVars, RWInv, TypeOK, ThreadTypeOK
<1>6. Active = {} /\ Exclusive = t /\ QueueR = ToSet(readers) /\ QueueW = writers
  BY <1>1, <1>4, Settled
<1>7. CASE readers # <<>>
  <2>1. AfterUnlockWriter = "wakeupreader"
    BY <1>7 DEF AfterUnlockWriter
  <2>2. Active' = ToSet(readers) /\ QueueR' = {} /\ Exclusive' = NoThread /\ QueueW' = writers
    BY <1>2, <1>3, <1>5, <2>1 DEF Active, QueueR, Exclusive, QueueW
  <2> QED BY <1>3, <1>6, <1>7, <2>2 DEF Abstract!LeaveWrite
<1>8. CASE readers = <<>> /\ writers # <<>>
  <2>1. AfterUnlockWriter = "wakeupwriter"
    BY <1>8 DEF AfterUnlockWriter
  <2>2. /\ Active' = {} /\ QueueR' = ToSet(readers)
        /\ Exclusive' = Head(writers) /\ QueueW' = Tail(writers)
    BY <1>2, <1>3, <1>5, <2>1 DEF Active, QueueR, Exclusive, QueueW
  <2> QED BY <1>3, <1>6, <1>8, <2>2 DEF Abstract!LeaveWrite, Abstract!AdmitWriter
<1>9. CASE readers = <<>> /\ writers = <<>>
  <2>1. AfterUnlockWriter = "unlockflag"
    BY <1>9 DEF AfterUnlockWriter
  <2>2. /\ Active' = {} /\ QueueR' = ToSet(readers)
        /\ Exclusive' = NoThread /\ QueueW' = writers
    BY <1>2, <1>3, <1>5, <2>1 DEF Active, QueueR, Exclusive, QueueW
  <2> QED BY <1>3, <1>6, <1>9, <2>2 DEF Abstract!LeaveWrite
<1> QED BY <1>7, <1>8, <1>9

\* Waking a reader completes what unlockwriter_rwlock decided.
LEMMA WakeupReaderUnseen ==
    ASSUME RWInv, NEW t \in Threads, WakeupReader(t)
    PROVE  UNCHANGED Abstract!vars
<1> DEFINE r == Head(readers)
<1> DEFINE label == IF Tail(readers) = <<>> THEN "unlockflag" ELSE "wakeupreader"
<1> USE DEF WakeupReader, In
<1>1. Goto(t, label)
  BY DEF Goto, RWInv, TypeOK
<1>2. /\ AdmitsReaders /\ ~AdmitsWriter
      /\ AdmitsReaders' <=> Tail(readers) # <<>>
      /\ ~AdmitsWriter'
  <2>1. AdmitsReaders /\ ~AdmitsWriter
    BY DEF AdmitsReaders, AdmitsWriter, RWInv, FlagInv, Wakeups
  <2> QED BY <1>1, <2>1, OnlyWaker
<1>3. /\ r \in Threads /\ r \in ToSet(readers)
      /\ readers' = Tail(readers) /\ Tail(readers) \in Seq(Threads)
      /\ ToSet(Tail(readers)) = ToSet(readers) \ {r}
  BY TailList DEF RWInv, TypeOK, WaitListsConsistent, WakingInv
<1>4. ToSet(readers') = {} <=> readers' = <<>>
  BY <1>3, NonEmptyList
<1>5. ReadOwners' = ReadOwners \cup {r}
  BY <1>1, <1>3, ThreadsAssumption
  DEF Wake, Unlink, ResumeThread, Goto, ReadOwners, RWInv, TypeOK, ThreadTypeOK,
      WaitListsConsistent, HeldInv, Wakeups, Waits
<1>6. Active' = Active /\ QueueR' = QueueR
  BY <1>2, <1>3, <1>4, <1>5 DEF Active, QueueR
<1>7. Exclusive' = Exclusive /\ QueueW' = QueueW
  BY <1>2 DEF Exclusive, QueueW
<1> QED BY <1>6, <1>7 DEF Abstract!vars

\* So does waking a writer.
LEMMA WakeupWriterUnseen ==
    ASSUME RWInv, NEW t \in Threads, WakeupWriter(t)
    PROVE  UNCHANGED Abstract!vars
<1> USE DEF WakeupWriter, In
<1>1. /\ AdmitsWriter /\ ~AdmitsReaders
      /\ ~AdmitsWriter' /\ ~AdmitsReaders'
  <2>1. AdmitsWriter /\ ~AdmitsReaders
    BY DEF AdmitsReaders, AdmitsWriter, RWInv, FlagInv, Wakeups
  <2> QED BY <2>1, OnlyWaker
<1>2. Head(writers) \in ToSet(writers)
  BY TailList DEF RWInv, TypeOK, WaitListsConsistent, WakingInv
<1>3. ReadOwners' = ReadOwners
  BY <1>2, ThreadsAssumption
  DEF Wake, Unlink, ResumeThread, Goto, ReadOwners, RWInv, TypeOK, ThreadTypeOK,
      WaitListsConsistent
<1> QED BY <1>1, <1>3 DEF Abstract!vars, Active, Exclusive, QueueR, QueueW

\* A new lock maps to a new abstract one.
LEMMA InitRefines == Init => Abstract!Init
<1> SUFFICES ASSUME Init PROVE Abstract!Init
  OBVIOUS
<1>1. ~Waking
  BY DEF Init, Waking
<1>2. ReadOwners = {} /\ ToSet(readers) = {}
  BY EmptyList DEF Init, ReadOwners
<1> QED BY <1>1, <1>2, Settled DEF Init, Abstract!Init

\* Every step of every thread is one step of the abstract lock or none.
LEMMA NextRefines == RWInv /\ RWInv' /\ [Next]_vars => [Abstract!Next]_(Abstract!vars)
<1> SUFFICES ASSUME RWInv, RWInv', [Next]_vars PROVE Abstract!Next \/ UNCHANGED Abstract!vars
  OBVIOUS
<1>1. CASE UNCHANGED vars
  <2>1. CASE Threads = {}
    BY <1>1, <2>1 DEF vars, lockVars, Abstract!vars, Active, Exclusive, QueueR, QueueW,
       AdmitsReaders, AdmitsWriter, ReadOwners
  <2>2. CASE Threads # {}
    BY <1>1, <2>2, Unseen
  <2> QED BY <2>1, <2>2
<1>2. CASE Next
  <2> PICK t \in Threads : \/ \E f \in Calls : Call(t, f)
                           \/ LockFlag(t)
                           \/ Step(t)
                           \/ Spurious(t)
    BY <1>2 DEF Next
  <2>1. CASE LockReaderEnter(t)
    BY <2>1, LockReaderEnterReads DEF Abstract!Next
  <2>2. CASE LockReaderWait(t)
    BY <2>2, LockReaderWaitQueues DEF Abstract!Next
  <2>3. CASE LockWriterEnter(t)
    BY <2>3, LockWriterEnterWrites DEF Abstract!Next
  <2>4. CASE LockWriterWait(t)
    BY <2>4, LockWriterWaitQueues DEF Abstract!Next
  <2>5. CASE UnlockReader(t)
    BY <2>5, UnlockReaderLeaves DEF Abstract!Next
  <2>6. CASE UnlockWriter(t)
    BY <2>6, UnlockWriterLeaves DEF Abstract!Next
  <2>7. CASE WakeupReader(t)
    BY <2>7, WakeupReaderUnseen
  <2>8. CASE WakeupWriter(t)
    BY <2>8, WakeupWriterUnseen
  <2> QED BY <2>1, <2>2, <2>3, <2>4, <2>5, <2>6, <2>7, <2>8, Unseen
       DEF Step, LockReader, LockWriter
<1> QED BY <1>1, <1>2

\* The lock and unlock functions of rwlock.c implement the phase-fair lock: a
\* new reader never overtakes a waiting writer, writers enter in the order of
\* their calls, and a releasing thread hands the lock over to whoever is next.
THEOREM Implements == Spec => ImplementsPhaseFairLock
<1>1. RWInv /\ [Next]_vars => RWInv'
  BY NextInv
<1>2. RWInv /\ [Next]_vars => [Abstract!Next]_(Abstract!vars)
  BY <1>1, NextRefines
<1> QED BY <1>2, InitRefines, LockInvariant, PTL
    DEF Spec, ImplementsPhaseFairLock, Abstract!Spec

=============================================================================
