-------------------------- MODULE SymbolTableProofs --------------------------
(****************************************************************************)
(* Theorems about SymbolTable, for any set of threads, texts and hash       *)
(* function and any number of calls.                                        *)
(****************************************************************************)
EXTENDS SymbolTable, SequenceTheorems, TLAPS

(* A thread that has a bucket to lock, scan or extend has one that exists.  *)
FoundInv ==
    \A t \in Threads :
        pc[t] \in {"scan_lock", "scan", "push_lock", "push"} => found[t] # NoBucket

(* Each mutex is held by the threads that are where it is needed.           *)
TableLockInv  == \A t \in Threads : InTable(t) => tableLock = t
BucketLockInv == \A t \in Threads : InBucket(t) => bucketLock[found[t]] = t

Inv == TypeOK /\ FoundInv /\ TableLockInv /\ BucketLockInv

(* Every text has a key in the map's domain.                                *)
LEMMA KeyInKeys == \A x \in Texts : KeyOf(x) \in Keys
BY DEF Keys

(* The invariant holds of the empty table.                                  *)
LEMMA InvInit == Init => Inv
<1> SUFFICES ASSUME Init PROVE Inv
    OBVIOUS
<1>1. Len(buckets) = 0 /\ buckets \in Seq(Seq(Texts))
    BY DEF Init
<1>2. bucketLock \in Seq(Threads \cup {NoThread}) /\ Len(bucketLock) = 0
    BY DEF Init
<1>3. table \in [Keys -> 0 .. Len(buckets)]
    BY <1>1 DEF Init, NoBucket
<1>4. (CHOOSE x \in Texts : TRUE) \in Texts
    BY TableAssumption
<1>5. TypeOK
    BY <1>1, <1>2, <1>3, <1>4, TableAssumption DEF Init, TypeOK, Labels, NoBucket
<1>6. QED
    BY <1>5, TableAssumption
    DEF Init, Inv, FoundInv, TableLockInv, BucketLockInv, InTable, InBucket

(* A thread has a bucket that exists wherever it uses one.                  *)
LEMMA FoundIsBucket ==
    ASSUME Inv, NEW t \in Threads,
           pc[t] \in {"scan_lock", "scan", "push_lock", "push"}
    PROVE  found[t] \in 1 .. Len(buckets)
<1>1. Len(buckets) \in Nat
    BY LenProperties DEF Inv, TypeOK
<1>2. found[t] \in 0 .. Len(buckets) /\ found[t] # 0
    BY DEF Inv, TypeOK, FoundInv, NoBucket
<1>3. QED
    BY <1>1, <1>2

(* Steps that leave the bucket list, the mutexes of the buckets and what    *)
(* the threads found alone: they only have to keep to the table's mutex.    *)
LEMMA TableSteps ==
    ASSUME Inv, NEW t \in Threads,
           \/ \E operation \in Operations, x \in Texts : Call(t, operation, x)
           \/ FindLock(t) \/ PutLock(t)
    PROVE  Inv'
<1>1. TypeOK'
  <2>1. CASE \E operation \in Operations, x \in Texts : Call(t, operation, x)
      BY <2>1, TableAssumption
      DEF Inv, TypeOK, Call, GoTo, Labels, sharedVars
  <2>2. CASE FindLock(t) \/ PutLock(t)
      BY <2>2 DEF Inv, TypeOK, FindLock, PutLock, LockTable, GoTo, Labels
  <2>3. QED
      BY <2>1, <2>2
<1>2. /\ UNCHANGED <<bucketLock, found>>
      /\ \E label \in {"find_lock", "find", "put"} : pc' = [pc EXCEPT ![t] = label]
    BY DEF Call, FindLock, PutLock, GoTo, sharedVars
<1>3. FoundInv' /\ BucketLockInv'
    BY <1>2 DEF Inv, TypeOK, FoundInv, BucketLockInv, InBucket
<1>4. TableLockInv'
    BY TableAssumption
    DEF Inv, TypeOK, TableLockInv, InTable, Call, FindLock, PutLock, LockTable,
        GoTo, sharedVars
<1>5. QED
    BY <1>1, <1>3, <1>4 DEF Inv
(* The look under the table's mutex: the bucket that the thread takes away  *)
(* is one of the map's.                                                     *)
LEMMA FindStep ==
    ASSUME Inv, NEW t \in Threads, FindBucketByHash(t)
    PROVE  Inv'
<1> DEFINE b == table[KeyOf(arg[t])]
<1>1. b \in 0 .. Len(buckets)
    BY KeyInKeys DEF Inv, TypeOK
<1>2. /\ found' = [found EXCEPT ![t] = b]
      /\ UNCHANGED <<table, buckets, bucketLock, op, arg, calls>>
      /\ tableLock' = NoThread
      /\ result' \in [Threads -> BOOLEAN]
    BY DEF Inv, TypeOK, FindBucketByHash, NotFound, Answer, UnlockTable
<1>3. PICK label \in {"return", "put_lock", "scan_lock"} :
          /\ pc' = [pc EXCEPT ![t] = label]
          /\ label = "scan_lock" => b # NoBucket
    BY DEF FindBucketByHash, NotFound, Answer, GoTo
<1>4. TypeOK'
    BY <1>1, <1>2, <1>3 DEF Inv, TypeOK, Labels
<1>5. FoundInv'
    BY <1>2, <1>3 DEF Inv, TypeOK, FoundInv
<1>6. TableLockInv'
    BY <1>2, <1>3 DEF Inv, TypeOK, TableLockInv, InTable, FindBucketByHash
<1>7. BucketLockInv'
    BY <1>2, <1>3 DEF Inv, TypeOK, BucketLockInv, InBucket
<1>8. QED
    BY <1>4, <1>5, <1>6, <1>7 DEF Inv

(* Taking the mutex of a bucket: nobody else is in that bucket.             *)
LEMMA LockBucketSteps ==
    ASSUME Inv, NEW t \in Threads, ScanLock(t) \/ PushLock(t)
    PROVE  Inv'
<1>1. found[t] \in 1 .. Len(buckets)
    BY FoundIsBucket DEF ScanLock, PushLock
<1>2. /\ bucketLock[found[t]] = NoThread
      /\ bucketLock' = [bucketLock EXCEPT ![found[t]] = t]
      /\ UNCHANGED <<table, buckets, tableLock, op, arg, found, result, calls>>
    BY DEF ScanLock, PushLock, LockBucket
<1>3. \/ pc[t] = "scan_lock" /\ pc' = [pc EXCEPT ![t] = "scan"]
      \/ pc[t] = "push_lock" /\ pc' = [pc EXCEPT ![t] = "push"]
    BY DEF ScanLock, PushLock, GoTo
<1>4. /\ bucketLock' \in Seq(Threads \cup {NoThread})
      /\ Len(bucketLock') = Len(bucketLock)
      /\ \A j \in 1 .. Len(bucketLock) :
            bucketLock'[j] = IF j = found[t] THEN t ELSE bucketLock[j]
    BY <1>1, <1>2, ExceptSeq DEF Inv, TypeOK
<1>5. TypeOK'
    BY <1>2, <1>3, <1>4 DEF Inv, TypeOK, Labels
<1>6. FoundInv' /\ TableLockInv'
    BY <1>2, <1>3 DEF Inv, TypeOK, FoundInv, TableLockInv, InTable
<1>7. ASSUME NEW u \in Threads, InBucket(u)'
      PROVE  bucketLock'[found'[u]] = u
  <2>1. CASE u = t
      BY <1>1, <1>2, <1>4, <2>1 DEF Inv, TypeOK
  <2>2. CASE u # t
    <3>1. InBucket(u)
        BY <1>3, <1>7, <2>2 DEF Inv, TypeOK, InBucket
    <3>2. bucketLock[found[u]] = u
        BY <3>1 DEF Inv, BucketLockInv
    <3>3. found[u] \in 1 .. Len(bucketLock)
        BY <3>1, FoundIsBucket DEF Inv, TypeOK, InBucket
    <3>4. found[u] # found[t]
        BY <1>2, <3>2, TableAssumption
    <3>5. QED
        BY <1>2, <1>4, <3>2, <3>3, <3>4
  <2>3. QED
      BY <2>1, <2>2
<1>8. QED
    BY <1>5, <1>6, <1>7 DEF Inv, BucketLockInv

(* Giving it back: by BucketLockInv the thread was alone in the bucket.     *)
LEMMA UnlockBucketSteps ==
    ASSUME Inv, NEW t \in Threads, ScanBucket(t) \/ Push(t)
    PROVE  Inv'
<1>1. found[t] \in 1 .. Len(buckets) /\ InBucket(t)
    BY FoundIsBucket DEF ScanBucket, Push, InBucket
<1>2. /\ bucketLock' = [bucketLock EXCEPT ![found[t]] = NoThread]
      /\ UNCHANGED <<table, op, arg, found, calls>>
      /\ result' \in [Threads -> BOOLEAN]
    BY DEF Inv, TypeOK, ScanBucket, Push, UnlockBucket, NotFound, Answer,
           HitAnswer
<1>3. \E label \in {"return", "put_lock"} : pc' = [pc EXCEPT ![t] = label]
    BY DEF ScanBucket, Push, NotFound, Answer, GoTo
<1>4. /\ bucketLock' \in Seq(Threads \cup {NoThread})
      /\ Len(bucketLock') = Len(bucketLock)
      /\ \A j \in 1 .. Len(bucketLock) :
            bucketLock'[j] = IF j = found[t] THEN NoThread ELSE bucketLock[j]
    BY <1>1, <1>2, ExceptSeq DEF Inv, TypeOK
<1>5. buckets' \in Seq(Seq(Texts)) /\ Len(buckets') = Len(buckets)
  <2>1. CASE ScanBucket(t)
      BY <2>1 DEF Inv, TypeOK, ScanBucket
  <2>2. CASE Push(t)
    <3>1. buckets[found[t]] \in Seq(Texts) /\ arg[t] \in Texts
        BY <1>1, ElementOfSeq DEF Inv, TypeOK
    <3>2. Append(buckets[found[t]], arg[t]) \in Seq(Texts)
        BY <3>1, AppendProperties
    <3>3. buckets' = [buckets EXCEPT
                          ![found[t]] = Append(buckets[found[t]], arg[t])]
        BY <2>2 DEF Push, Extended
    <3>4. QED
        BY <1>1, <3>2, <3>3, ExceptSeq DEF Inv, TypeOK
  <2>3. QED
      BY <2>1, <2>2
<1>6. tableLock' \in Threads \cup {NoThread}
    BY DEF Inv, TypeOK, ScanBucket, Push, UnlockTable
<1>7. TypeOK'
    BY <1>2, <1>3, <1>4, <1>5, <1>6 DEF Inv, TypeOK, Labels
<1>8. FoundInv'
    BY <1>2, <1>3 DEF Inv, TypeOK, FoundInv
<1>9. TableLockInv'
    BY <1>3 DEF Inv, TypeOK, TableLockInv, InTable, ScanBucket, Push
<1>10. ASSUME NEW u \in Threads, InBucket(u)'
       PROVE  bucketLock'[found'[u]] = u
  <2>1. InBucket(u) /\ u # t
      BY <1>3, <1>10 DEF Inv, TypeOK, InBucket
  <2>2. bucketLock[found[u]] = u /\ bucketLock[found[t]] = t
      BY <1>1, <2>1 DEF Inv, BucketLockInv
  <2>3. found[u] \in 1 .. Len(bucketLock)
      BY <2>1, FoundIsBucket DEF Inv, TypeOK, InBucket
  <2>4. QED
      BY <1>2, <1>4, <2>1, <2>2, <2>3
<1>11. QED
    BY <1>7, <1>8, <1>9, <1>10 DEF Inv, BucketLockInv

(* Entering a new bucket in the map: its index is a new one, and its mutex  *)
(* a free one.                                                              *)
LEMMA PutNewStep ==
    ASSUME Inv, NEW t \in Threads, PutNewBucket(t)
    PROVE  Inv'
<1>1. arg[t] \in Texts /\ KeyOf(arg[t]) \in Keys
    BY KeyInKeys DEF Inv, TypeOK
<1>2. Len(buckets) \in Nat
    BY LenProperties DEF Inv, TypeOK
<1>3. <<arg[t]>> \in Seq(Texts)
    BY <1>1
<1>4. /\ buckets' \in Seq(Seq(Texts))
      /\ Len(buckets') = Len(buckets) + 1
    BY <1>3, AppendProperties DEF Inv, TypeOK, PutNewBucket, MakeBucket
<1>5. /\ bucketLock' \in Seq(Threads \cup {NoThread})
      /\ Len(bucketLock') = Len(buckets')
      /\ \A j \in 1 .. Len(buckets) : bucketLock'[j] = bucketLock[j]
    BY <1>4, AppendProperties DEF Inv, TypeOK, PutNewBucket, MakeBucket
<1>6. table' \in [Keys -> 0 .. Len(buckets')]
    BY <1>1, <1>2, <1>4 DEF Inv, TypeOK, PutNewBucket
<1>7. found' \in [Threads -> 0 .. Len(buckets')]
    BY <1>2, <1>4 DEF Inv, TypeOK, PutNewBucket
<1>8. /\ pc' = [pc EXCEPT ![t] = "return"]
      /\ UNCHANGED <<op, arg, found, calls>>
      /\ tableLock' = NoThread
      /\ result' \in [Threads -> BOOLEAN]
    BY DEF Inv, TypeOK, PutNewBucket, Answer, GoTo, UnlockTable
<1>9. TypeOK'
    BY <1>4, <1>5, <1>6, <1>7, <1>8 DEF Inv, TypeOK, Labels
<1>10. FoundInv'
    BY <1>8 DEF Inv, TypeOK, FoundInv
<1>11. TableLockInv'
    BY <1>8 DEF Inv, TypeOK, TableLockInv, InTable, PutNewBucket
<1>12. ASSUME NEW u \in Threads, InBucket(u)'
       PROVE  bucketLock'[found'[u]] = u
  <2>1. InBucket(u)
      BY <1>8, <1>12 DEF Inv, TypeOK, InBucket
  <2>2. found[u] \in 1 .. Len(buckets)
      BY <2>1, FoundIsBucket DEF InBucket
  <2>3. QED
      BY <1>5, <1>8, <2>1, <2>2 DEF Inv, BucketLockInv
<1>13. QED
    BY <1>9, <1>10, <1>11, <1>12 DEF Inv, BucketLockInv

(* Finding the bucket again: the thread keeps the table's mutex.            *)
LEMMA PutFindStep ==
    ASSUME Inv, NEW t \in Threads, PutFindBucket(t)
    PROVE  Inv'
<1>1. table[KeyOf(arg[t])] \in 0 .. Len(buckets)
    BY KeyInKeys DEF Inv, TypeOK
<1>2. TypeOK'
    BY <1>1 DEF Inv, TypeOK, PutFindBucket, GoTo, Labels, sharedVars
<1>3. FoundInv'
    BY DEF Inv, TypeOK, FoundInv, PutFindBucket, HasBucket, GoTo
<1>4. TableLockInv'
    BY DEF Inv, TypeOK, TableLockInv, InTable, PutFindBucket, GoTo, sharedVars
<1>5. BucketLockInv'
    BY DEF Inv, TypeOK, BucketLockInv, InBucket, PutFindBucket, GoTo, sharedVars
<1>6. QED
    BY <1>2, <1>3, <1>4, <1>5 DEF Inv

(* The answer: the thread holds nothing any more.                           *)
LEMMA ReturnStep ==
    ASSUME Inv, NEW t \in Threads, Return(t)
    PROVE  Inv'
<1>1. 0 \in 0 .. Len(buckets)
    BY LenProperties DEF Inv, TypeOK
<1>2. TypeOK'
    BY <1>1 DEF Inv, TypeOK, Return, GoTo, Labels, sharedVars, NoBucket
<1>3. FoundInv'
    BY DEF Inv, TypeOK, FoundInv, Return, GoTo
<1>4. TableLockInv' /\ BucketLockInv'
    BY DEF Inv, TypeOK, TableLockInv, BucketLockInv, InTable, InBucket, Return,
           GoTo, sharedVars
<1>5. QED
    BY <1>2, <1>3, <1>4 DEF Inv

(* Every step keeps the invariant.                                          *)
LEMMA InvNext == Inv /\ [Next]_vars => Inv'
<1> SUFFICES ASSUME Inv, [Next]_vars PROVE Inv'
    OBVIOUS
<1>1. CASE UNCHANGED vars
    BY <1>1 DEF Inv, TypeOK, FoundInv, TableLockInv, BucketLockInv, InTable,
                InBucket, vars, sharedVars, localVars
<1>2. ASSUME NEW t \in Threads,
             \E operation \in Operations, x \in Texts : Call(t, operation, x)
      PROVE  Inv'
    BY <1>2, TableSteps
<1>3. ASSUME NEW t \in Threads, Step(t)
      PROVE  Inv'
    BY <1>3, TableSteps, FindStep, LockBucketSteps, UnlockBucketSteps,
       PutNewStep, PutFindStep, ReturnStep DEF Step
<1>4. QED
    BY <1>1, <1>2, <1>3 DEF Next, Done

LEMMA InvAlways == Spec => []Inv
BY InvInit, InvNext, PTL DEF Spec

(* The shared table and every thread's locals keep their types, whatever    *)
(* the threads, the texts and the hash function: a BucketPtr in hand is     *)
(* always one of a bucket that exists.                                      *)
THEOREM TableTypeCorrect == Spec => []TypeOK
<1>1. Inv => TypeOK
    BY DEF Inv
<1>2. QED
    BY <1>1, InvAlways, PTL

(* The two kinds of mutex of SymbolTable.cpp protect the map and the        *)
(* buckets, for any number of threads.                                      *)
THEOREM LocksExclude == Spec => []MutualExclusion
<1>1. Inv => MutualExclusion
  <2> SUFFICES ASSUME Inv, NEW t \in Threads, NEW u \in Threads
               PROVE  /\ InTable(t) /\ InTable(u) => t = u
                      /\ InBucket(t) /\ InBucket(u) /\ found[t] = found[u] => t = u
      BY DEF MutualExclusion
  <2>1. InTable(t) /\ InTable(u) => t = u
      BY DEF Inv, TableLockInv
  <2>2. InBucket(t) /\ InBucket(u) /\ found[t] = found[u] => t = u
      BY DEF Inv, BucketLockInv
  <2>3. QED
      BY <2>1, <2>2
<1>2. QED
    BY <1>1, InvAlways, PTL

------------------------------------------------------------------------------
(* Nobody else has a mutex: its holder is where the mutex is needed.        *)

TableHeldInside == tableLock # NoThread => InTable(tableLock)

BucketsHeldInside ==
    \A b \in 1 .. Len(buckets) :
        bucketLock[b] # NoThread =>
            InBucket(bucketLock[b]) /\ found[bucketLock[b]] = b

HeldInv == TableHeldInside /\ BucketsHeldInside

(* Steps that neither take nor give back the mutex of a bucket, and do not  *)
(* send a thread to another bucket while it has one.                        *)
LEMMA BucketsStayHeld ==
    ASSUME Inv, BucketsHeldInside, NEW t \in Threads, ~InBucket(t),
           UNCHANGED <<buckets, bucketLock>>,
           \A u \in Threads \ {t} : pc'[u] = pc[u] /\ found'[u] = found[u]
    PROVE  BucketsHeldInside'
<1> SUFFICES ASSUME NEW b \in 1 .. Len(buckets), bucketLock[b] # NoThread
             PROVE  InBucket(bucketLock[b])' /\ found'[bucketLock[b]] = b
    BY DEF BucketsHeldInside, InBucket
<1>1. InBucket(bucketLock[b]) /\ found[bucketLock[b]] = b
    BY DEF BucketsHeldInside
<1>2. bucketLock[b] \in Threads
    BY ElementOfSeq DEF Inv, TypeOK
<1>3. QED
    BY <1>1, <1>2 DEF InBucket

LEMMA HeldByTableSteps ==
    ASSUME Inv, HeldInv, NEW t \in Threads,
           \/ \E operation \in Operations, x \in Texts : Call(t, operation, x)
           \/ FindLock(t) \/ FindBucketByHash(t) \/ PutLock(t)
           \/ PutFindBucket(t) \/ Return(t)
    PROVE  HeldInv'
<1>1. /\ UNCHANGED <<buckets, bucketLock>> /\ ~InBucket(t)
      /\ \A u \in Threads \ {t} : pc'[u] = pc[u] /\ found'[u] = found[u]
    BY DEF Call, FindLock, FindBucketByHash, NotFound, Answer, PutLock,
           PutFindBucket, Return, GoTo, sharedVars, InBucket, Inv, TypeOK
<1>2. BucketsHeldInside'
    BY <1>1, BucketsStayHeld DEF HeldInv
<1>3. TableHeldInside'
  <2>1. CASE FindLock(t) \/ PutLock(t)
      BY <2>1 DEF FindLock, PutLock, LockTable, GoTo, TableHeldInside, InTable,
                  Inv, TypeOK
  <2>2. CASE FindBucketByHash(t)
      BY <2>2 DEF FindBucketByHash, UnlockTable, TableHeldInside
  <2>3. CASE PutFindBucket(t)
      BY <2>3 DEF PutFindBucket, GoTo, sharedVars, HeldInv, TableHeldInside,
                  InTable, Inv, TypeOK
  <2>4. CASE \/ \E operation \in Operations, x \in Texts : Call(t, operation, x)
             \/ Return(t)
      BY <2>4 DEF Call, Return, GoTo, sharedVars, HeldInv, TableHeldInside,
                  InTable, Inv, TypeOK
  <2>5. QED
      BY <2>1, <2>2, <2>3, <2>4
<1>4. QED
    BY <1>2, <1>3 DEF HeldInv

LEMMA HeldByBucketSteps ==
    ASSUME Inv, HeldInv, NEW t \in Threads,
           ScanLock(t) \/ ScanBucket(t) \/ PushLock(t) \/ Push(t)
    PROVE  HeldInv'
<1>1. found[t] \in 1 .. Len(buckets) /\ found' = found
    BY FoundIsBucket DEF ScanLock, ScanBucket, PushLock, Push
<1>2. PICK holder \in {t, NoThread} :
          /\ bucketLock' = [bucketLock EXCEPT ![found[t]] = holder]
          /\ holder = t => InBucket(t)' /\ ~InBucket(t)
          /\ holder = NoThread => InBucket(t)
  <2>1. CASE ScanLock(t) \/ PushLock(t)
      BY <2>1, TableAssumption
      DEF ScanLock, PushLock, LockBucket, GoTo, InBucket, Inv, TypeOK
  <2>2. CASE ScanBucket(t) \/ Push(t)
      BY <2>2, TableAssumption DEF ScanBucket, Push, UnlockBucket, InBucket
  <2>3. QED
      BY <2>1, <2>2
<1>3. \A u \in Threads \ {t} : pc'[u] = pc[u]
    BY DEF ScanLock, ScanBucket, PushLock, Push, NotFound, Answer, GoTo, Inv,
           TypeOK
<1>4. /\ Len(buckets') = Len(buckets)
      /\ \A b \in 1 .. Len(buckets) :
            bucketLock'[b] = IF b = found[t] THEN holder ELSE bucketLock[b]
  <2>1. Len(buckets') = Len(buckets)
    <3>1. CASE Push(t)
      <4>1. buckets[found[t]] \in Seq(Texts) /\ arg[t] \in Texts
          BY <1>1, ElementOfSeq DEF Inv, TypeOK
      <4>2. Append(buckets[found[t]], arg[t]) \in Seq(Texts)
          BY <4>1, AppendProperties
      <4>3. buckets' = [buckets EXCEPT
                           ![found[t]] = Append(buckets[found[t]], arg[t])]
          BY <3>1 DEF Push, Extended
      <4>4. QED
          BY <1>1, <4>2, <4>3, ExceptSeq DEF Inv, TypeOK
    <3>2. CASE ~Push(t)
        BY <3>2 DEF ScanLock, ScanBucket, PushLock
    <3>3. QED
        BY <3>1, <3>2
  <2>2. holder \in Threads \cup {NoThread}
      OBVIOUS
  <2>3. QED
      BY <1>1, <1>2, <2>1, <2>2, ExceptSeq DEF Inv, TypeOK
<1>5. BucketsHeldInside'
  <2> SUFFICES ASSUME NEW b \in 1 .. Len(buckets), bucketLock'[b] # NoThread
               PROVE  InBucket(bucketLock[b])' /\ found'[bucketLock'[b]] = b
      BY <1>4 DEF BucketsHeldInside, InBucket
  <2>1. CASE b = found[t]
      BY <1>1, <1>2, <1>4, <2>1 DEF InBucket
  <2>2. CASE b # found[t]
    <3>1. /\ bucketLock'[b] = bucketLock[b]
          /\ InBucket(bucketLock[b]) /\ found[bucketLock[b]] = b
        BY <1>4, <2>2 DEF HeldInv, BucketsHeldInside
    <3>2. bucketLock[b] \in Threads \ {t}
        BY <2>2, <3>1, ElementOfSeq, <1>4 DEF Inv, TypeOK
    <3>3. QED
        BY <1>1, <1>3, <3>1, <3>2 DEF InBucket
  <2>3. QED
      BY <2>1, <2>2
<1>6. TableHeldInside'
    BY DEF ScanLock, ScanBucket, PushLock, Push, NotFound, Answer, UnlockTable,
           GoTo, HeldInv, TableHeldInside, InTable, Inv, TypeOK
<1>7. QED
    BY <1>5, <1>6 DEF HeldInv

(* The mutex of a new bucket is free.                                       *)
LEMMA HeldByNewBucket ==
    ASSUME Inv, HeldInv, NEW t \in Threads, PutNewBucket(t)
    PROVE  HeldInv'
<1>1. /\ UNCHANGED found /\ ~InBucket(t) /\ tableLock' = NoThread
      /\ \A u \in Threads \ {t} : pc'[u] = pc[u]
    BY DEF PutNewBucket, UnlockTable, Answer, GoTo, InBucket, Inv, TypeOK
<1>2. <<arg[t]>> \in Seq(Texts) /\ NoThread \in Threads \cup {NoThread}
    BY DEF Inv, TypeOK
<1>3. /\ Len(buckets) \in Nat
      /\ Len(buckets') = Len(buckets) + 1
      /\ \A b \in 1 .. Len(buckets) : bucketLock'[b] = bucketLock[b]
      /\ bucketLock'[Len(buckets) + 1] = NoThread
    BY <1>2, AppendProperties, LenProperties
    DEF PutNewBucket, MakeBucket, Inv, TypeOK
<1>4. ASSUME NEW b \in 1 .. Len(buckets), bucketLock[b] # NoThread
      PROVE  InBucket(bucketLock[b])' /\ found'[bucketLock[b]] = b
  <2>1. InBucket(bucketLock[b]) /\ found[bucketLock[b]] = b
      BY <1>4 DEF HeldInv, BucketsHeldInside
  <2>2. bucketLock[b] \in Threads \ {t}
      BY <1>1, <1>4, <2>1, ElementOfSeq DEF Inv, TypeOK
  <2>3. bucketLock'[b] = bucketLock[b]
      BY <1>3
  <2>4. QED
      BY <1>1, <2>1, <2>2, <2>3 DEF InBucket
<1>5. QED
    BY <1>1, <1>3, <1>4 DEF HeldInv, TableHeldInside, BucketsHeldInside, InBucket

LEMMA HeldAlways == Spec => [](Inv /\ HeldInv)
<1>1. Init => HeldInv
    BY DEF Init, HeldInv, TableHeldInside, BucketsHeldInside
<1>2. Inv /\ HeldInv /\ [Next]_vars => HeldInv'
  <2>1. HeldInv /\ UNCHANGED vars => HeldInv'
      BY DEF HeldInv, TableHeldInside, BucketsHeldInside, InTable, InBucket,
             vars, sharedVars, localVars
  <2>2. QED
      BY <2>1, HeldByTableSteps, HeldByBucketSteps, HeldByNewBucket
      DEF Next, Step, Done
<1>3. QED
    BY <1>1, <1>2, InvInit, InvNext, PTL DEF Spec

(* The mutexes cannot deadlock, for any number of threads: who waits for    *)
(* the table waits for a thread that waits for a bucket at most, and who    *)
(* has a bucket waits for nothing.                                          *)
THEOREM NoDeadlock == Spec => []SomeoneCanMove
<1>1. Inv /\ HeldInv => SomeoneCanMove
  <2> SUFFICES ASSUME Inv, HeldInv, NEW t \in Threads, pc[t] # "idle"
               PROVE  \E u \in Threads : pc[u] # "idle" /\ ~Waits(u)
      BY DEF SomeoneCanMove
  <2>1. ASSUME NEW u \in Threads, pc[u] \in {"scan_lock", "push_lock"}, Waits(u)
        PROVE  \E v \in Threads : pc[v] # "idle" /\ ~Waits(v)
    <3>1. found[u] \in 1 .. Len(buckets)
        BY <2>1, FoundIsBucket
    <3>2. bucketLock[found[u]] # NoThread
        BY <2>1 DEF Waits
    <3>3. bucketLock[found[u]] \in Threads /\ InBucket(bucketLock[found[u]])
        BY <3>1, <3>2, ElementOfSeq DEF HeldInv, BucketsHeldInside, Inv, TypeOK
    <3>4. QED
        BY <3>3 DEF InBucket, Waits
  <2>2. CASE pc[t] \in {"find_lock", "put_lock"} /\ Waits(t)
    <3>1. tableLock \in Threads /\ InTable(tableLock)
        BY <2>2 DEF Waits, HeldInv, TableHeldInside, Inv, TypeOK
    <3>2. pc[tableLock] # "idle"
          /\ (Waits(tableLock) => pc[tableLock] = "push_lock")
        BY <3>1 DEF InTable, Waits
    <3>3. QED
        BY <2>1, <3>1, <3>2
  <2>3. QED
      BY <2>1, <2>2 DEF Waits
<1>2. QED
    BY <1>1, HeldAlways, PTL
==============================================================================
