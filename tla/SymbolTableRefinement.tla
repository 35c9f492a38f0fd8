------------------------ MODULE SymbolTableRefinement ------------------------
(****************************************************************************)
(* What the buckets of SymbolTable hold, and that the table implements      *)
(* SymbolSet: theorems for any set of threads, texts and hash function and  *)
(* any number of calls.                                                     *)
(****************************************************************************)
EXTENDS SymbolTableProofs, SymbolTableRaces, FiniteSetTheorems

InPut == {"put_lock", "put", "push_lock", "push"}

(* A thread that uses a bucket uses the one that the map has for its text:  *)
(* true when it looked, and the map keeps it true.                          *)
HomeInv ==
    \A t \in Threads :
        pc[t] \in {"scan_lock", "scan", "push_lock", "push"} =>
            found[t] = table[KeyOf(arg[t])]

(* Which call a thread is in, by where it is.                               *)
CallInv ==
    \A t \in Threads :
        /\ op[t] = "none" <=> pc[t] = "idle"
        /\ pc[t] \in InPut => op[t] = "putSymbol"

BucketInv == Inv /\ HomeInv /\ CallInv /\ BucketsPartitionSymbols

(* Keys are hash values read as signed numbers: no two of them are merged.  *)
LEMMA KeyIsInjective ==
    ASSUME NEW g \in 0 .. UInt32 - 1, NEW h \in 0 .. UInt32 - 1, Key(g) = Key(h)
    PROVE  g = h
BY TableAssumption DEF Key

------------------------------------------------------------------------------
(* The two steps that insert a text.                                        *)

LEMMA NewBucketStores ==
    ASSUME Inv, NEW t \in Threads, PutNewBucket(t)
    PROVE  /\ arg[t] \in Texts /\ KeyOf(arg[t]) \in Keys
           /\ table[KeyOf(arg[t])] = NoBucket
           /\ Len(buckets) \in Nat
           /\ table' = [table EXCEPT ![KeyOf(arg[t])] = Len(buckets) + 1]
           /\ Len(buckets') = Len(buckets) + 1
           /\ \A b \in 1 .. Len(buckets) : buckets'[b] = buckets[b]
           /\ buckets'[Len(buckets) + 1] = <<arg[t]>>
<1>1. arg[t] \in Texts /\ KeyOf(arg[t]) \in Keys
    BY KeyInKeys DEF Inv, TypeOK
<1>2. buckets \in Seq(Seq(Texts)) /\ <<arg[t]>> \in Seq(Texts)
    BY <1>1 DEF Inv, TypeOK
<1>3. Len(buckets) \in Nat
    BY <1>2, LenProperties
<1>4. QED
    BY <1>1, <1>2, <1>3, AppendProperties
    DEF PutNewBucket, HasBucket, MakeBucket

LEMMA PushStores ==
    ASSUME Inv, HomeInv, NEW t \in Threads, Push(t)
    PROVE  /\ arg[t] \in Texts /\ KeyOf(arg[t]) \in Keys
           /\ found[t] \in 1 .. Len(buckets)
           /\ table[KeyOf(arg[t])] = found[t]
           /\ table' = table
           /\ Len(buckets') = Len(buckets)
           /\ \A b \in 1 .. Len(buckets) : b # found[t] => buckets'[b] = buckets[b]
           /\ buckets[found[t]] \in Seq(Texts)
           /\ buckets'[found[t]] = Append(buckets[found[t]], arg[t])
<1>1. arg[t] \in Texts /\ KeyOf(arg[t]) \in Keys
    BY KeyInKeys DEF Inv, TypeOK
<1>2. pc[t] = "push" /\ table' = table
    BY DEF Push
<1>3. found[t] \in 1 .. Len(buckets) /\ table[KeyOf(arg[t])] = found[t]
    BY <1>2, FoundIsBucket DEF HomeInv
<1>4. buckets \in Seq(Seq(Texts)) /\ buckets[found[t]] \in Seq(Texts)
    BY <1>3, ElementOfSeq DEF Inv, TypeOK
<1>5. Append(buckets[found[t]], arg[t]) \in Seq(Texts)
    BY <1>1, <1>4, AppendProperties
<1>6. buckets' =
          [buckets EXCEPT ![found[t]] = Append(buckets[found[t]], arg[t])]
    BY DEF Push, Extended
<1>7. QED
    BY <1>1, <1>2, <1>3, <1>4, <1>5, <1>6, ExceptSeq

(* Nothing else changes the map or a bucket.                                *)
LEMMA OnlyInsertsStore ==
    ASSUME [Next]_vars, ~(UNCHANGED <<table, buckets>>)
    PROVE  \E t \in Threads : PutNewBucket(t) \/ Push(t)
BY DEF Next, Call, Step, FindLock, FindBucketByHash, ScanLock, ScanBucket,
       PutLock, PutFindBucket, PushLock, Return, Done, vars, sharedVars

------------------------------------------------------------------------------
(* The buckets.                                                             *)

LEMMA MapOnlyGrows ==
    ASSUME Inv, HomeInv, [Next]_vars, NEW k \in Keys, table[k] # NoBucket
    PROVE  table'[k] = table[k]
<1>1. ASSUME NEW t \in Threads, PutNewBucket(t) PROVE table'[k] = table[k]
    BY <1>1, NewBucketStores DEF Inv, TypeOK
<1>2. ASSUME NEW t \in Threads, Push(t) PROVE table'[k] = table[k]
    BY <1>2 DEF Push
<1>3. QED
    BY <1>1, <1>2, OnlyInsertsStore

(* Homes are kept: a thread takes its bucket from the map, and the map does *)
(* not change it.                                                           *)
LEMMA HomeStep == Inv /\ HomeInv /\ [Next]_vars => HomeInv'
<1> SUFFICES ASSUME Inv, HomeInv, [Next]_vars, NEW t \in Threads,
                    pc'[t] \in {"scan_lock", "scan", "push_lock", "push"}
             PROVE  found'[t] = table'[KeyOf(arg'[t])]
    BY DEF HomeInv, KeyOf
<1>1. KeyOf(arg[t]) \in Keys
    BY KeyInKeys DEF Inv, TypeOK
<1>2. CASE /\ arg'[t] = arg[t] /\ found'[t] = found[t]
           /\ pc[t] \in {"scan_lock", "scan", "push_lock", "push"}
  <2>1. found[t] = table[KeyOf(arg[t])] /\ found[t] # NoBucket
      BY <1>2 DEF HomeInv, Inv, FoundInv
  <2>2. QED
      BY <1>1, <1>2, <2>1, MapOnlyGrows
<1>3. CASE /\ arg'[t] = arg[t] /\ table' = table
           /\ found'[t] = table[KeyOf(arg[t])]
    BY <1>3
<1>4. ASSUME NEW u \in Threads,
             \/ \E operation \in Operations, x \in Texts : Call(u, operation, x)
             \/ Step(u)
      PROVE  \/ /\ arg'[t] = arg[t] /\ found'[t] = found[t]
                /\ pc[t] \in {"scan_lock", "scan", "push_lock", "push"}
             \/ /\ arg'[t] = arg[t] /\ table' = table
                /\ found'[t] = table[KeyOf(arg[t])]
  <2>1. CASE \E operation \in Operations, x \in Texts : Call(u, operation, x)
      BY <2>1 DEF Call, GoTo, Inv, TypeOK
  <2>2. CASE FindBucketByHash(u)
      BY <2>2 DEF FindBucketByHash, NotFound, Answer, GoTo, Inv, TypeOK
  <2>3. CASE PutFindBucket(u)
      BY <2>3 DEF PutFindBucket, GoTo, sharedVars, Inv, TypeOK
  <2>4. CASE FindLock(u) \/ ScanLock(u) \/ ScanBucket(u) \/ PutLock(u)
      BY <2>4 DEF FindLock, ScanLock, ScanBucket, PutLock, NotFound, Answer,
                  GoTo, Inv, TypeOK
  <2>5. CASE PutNewBucket(u) \/ PushLock(u) \/ Push(u) \/ Return(u)
      BY <2>5 DEF PutNewBucket, PushLock, Push, Return, Answer, GoTo, Inv,
                  TypeOK
  <2>6. QED
      BY <1>4, <2>1, <2>2, <2>3, <2>4, <2>5 DEF Step
<1>5. CASE UNCHANGED vars
    BY <1>5, <1>2 DEF vars, localVars
<1>6. QED
    BY <1>2, <1>3, <1>4, <1>5 DEF Next, Done

LEMMA CallStep == Inv /\ CallInv /\ [Next]_vars => CallInv'
<1> SUFFICES ASSUME Inv, CallInv, [Next]_vars PROVE CallInv'
    OBVIOUS
<1>1. ASSUME NEW t \in Threads,
             \E operation \in Operations, x \in Texts : Call(t, operation, x)
      PROVE  CallInv'
    BY <1>1 DEF CallInv, InPut, Call, GoTo, Operations, Inv, TypeOK
<1>2. ASSUME NEW t \in Threads, FindBucketByHash(t) \/ ScanBucket(t)
      PROVE  CallInv'
    BY <1>2 DEF CallInv, InPut, FindBucketByHash, ScanBucket, NotFound, Answer,
                GoTo, Operations, Inv, TypeOK
<1>3. ASSUME NEW t \in Threads,
             \/ FindLock(t) \/ ScanLock(t) \/ PutLock(t) \/ PutNewBucket(t)
             \/ PutFindBucket(t) \/ PushLock(t) \/ Push(t)
      PROVE  CallInv'
    BY <1>3 DEF CallInv, InPut, FindLock, ScanLock, PutLock, PutNewBucket,
                PutFindBucket, PushLock, Push, Answer, GoTo, Inv, TypeOK
<1>4. ASSUME NEW t \in Threads, Return(t) PROVE CallInv'
    BY <1>4 DEF CallInv, InPut, Return, GoTo, Inv, TypeOK
<1>5. CASE UNCHANGED vars
    BY <1>5 DEF CallInv, vars, localVars
<1>6. QED
    BY <1>1, <1>2, <1>3, <1>4, <1>5 DEF Next, Step, Done

(* An inserted text goes to the bucket of its own key.                      *)
LEMMA PartitionStep ==
    Inv /\ HomeInv /\ BucketsPartitionSymbols /\ [Next]_vars =>
        BucketsPartitionSymbols'
<1> SUFFICES ASSUME Inv, HomeInv, BucketsPartitionSymbols, [Next]_vars
             PROVE  BucketsPartitionSymbols'
    OBVIOUS
<1> DEFINE HomeOf(k, b, map, list) ==
              /\ map[k] = b
              /\ \A j \in Keys : map[j] = b => j = k
              /\ \A n \in 1 .. Len(list[b]) : KeyOf(list[b][n]) = k
<1>1. SUFFICES ASSUME NEW b \in 1 .. Len(buckets')
               PROVE  \E k \in Keys : HomeOf(k, b, table', buckets')
    BY DEF BucketsPartitionSymbols, KeyOf, Keys
<1>2. \A c \in 1 .. Len(buckets) :
          \E k \in Keys : HomeOf(k, c, table, buckets)
    BY DEF BucketsPartitionSymbols
<1>3. Len(buckets) \in Nat /\ table \in [Keys -> 0 .. Len(buckets)]
    BY LenProperties DEF Inv, TypeOK
<1>4. ASSUME NEW t \in Threads, PutNewBucket(t)
      PROVE  \E k \in Keys : HomeOf(k, b, table', buckets')
  <2>1. /\ KeyOf(arg[t]) \in Keys
        /\ table[KeyOf(arg[t])] = NoBucket
        /\ table' = [table EXCEPT ![KeyOf(arg[t])] = Len(buckets) + 1]
        /\ Len(buckets') = Len(buckets) + 1
        /\ \A c \in 1 .. Len(buckets) : buckets'[c] = buckets[c]
        /\ buckets'[Len(buckets) + 1] = <<arg[t]>>
      BY <1>4, NewBucketStores
  <2>2. CASE b = Len(buckets) + 1
    <3>1. table'[KeyOf(arg[t])] = b
        BY <1>3, <2>1, <2>2
    <3>2. \A j \in Keys : table'[j] = b => j = KeyOf(arg[t])
        BY <1>3, <2>1, <2>2
    <3>3. buckets'[b] = <<arg[t]>>
        BY <2>1, <2>2
    <3>4. Len(buckets'[b]) = 1 /\ buckets'[b][1] = arg[t]
        BY <3>3
    <3>5. \A n \in 1 .. Len(buckets'[b]) : KeyOf(buckets'[b][n]) = KeyOf(arg[t])
        BY <3>4
    <3>6. QED
        BY <2>1, <3>1, <3>2, <3>5
  <2>3. CASE b # Len(buckets) + 1
    <3>1. b \in 1 .. Len(buckets)
        BY <1>1, <1>3, <2>1, <2>3
    <3>2. PICK k \in Keys : HomeOf(k, b, table, buckets)
        BY <1>2, <3>1
    <3>3. k # KeyOf(arg[t]) /\ table'[k] = b
        BY <1>3, <2>1, <3>1, <3>2 DEF NoBucket
    <3>4. \A j \in Keys : table'[j] = b => j = k
        BY <1>3, <2>1, <2>3, <3>2
    <3>5. QED
        BY <2>1, <3>1, <3>2, <3>3, <3>4
  <2>4. QED
      BY <2>2, <2>3
<1>5. ASSUME NEW t \in Threads, Push(t)
      PROVE  \E k \in Keys : HomeOf(k, b, table', buckets')
  <2>1. /\ arg[t] \in Texts /\ KeyOf(arg[t]) \in Keys
        /\ table[KeyOf(arg[t])] = found[t]
        /\ table' = table
        /\ Len(buckets') = Len(buckets)
        /\ \A c \in 1 .. Len(buckets) : c # found[t] => buckets'[c] = buckets[c]
        /\ buckets[found[t]] \in Seq(Texts)
        /\ buckets'[found[t]] = Append(buckets[found[t]], arg[t])
      BY <1>5, PushStores
  <2>2. b \in 1 .. Len(buckets)
      BY <2>1
  <2>3. PICK k \in Keys : HomeOf(k, b, table, buckets)
      BY <1>2, <2>2
  <2>4. \A n \in 1 .. Len(buckets'[b]) : KeyOf(buckets'[b][n]) = k
    <3>1. CASE b = found[t]
      <4>1. k = KeyOf(arg[t])
          BY <2>1, <2>3, <3>1
      <4>2. /\ Len(buckets'[b]) = Len(buckets[b]) + 1
            /\ Len(buckets[b]) \in Nat
            /\ \A n \in 1 .. Len(buckets[b]) : buckets'[b][n] = buckets[b][n]
            /\ buckets'[b][Len(buckets[b]) + 1] = arg[t]
          BY <2>1, <3>1, AppendProperties, LenProperties
      <4>3. QED
          BY <2>3, <4>1, <4>2
    <3>2. CASE b # found[t]
        BY <2>1, <2>2, <2>3, <3>2
    <3>3. QED
        BY <3>1, <3>2
  <2>5. QED
      BY <2>1, <2>3, <2>4
<1>6. CASE UNCHANGED <<table, buckets>>
    BY <1>1, <1>2, <1>6
<1>7. QED
    BY <1>4, <1>5, <1>6, OnlyInsertsStore

LEMMA BucketInit == Init => BucketInv
<1>1. Init => HomeInv /\ CallInv
    BY DEF Init, HomeInv, CallInv, InPut
<1>2. Init => BucketsPartitionSymbols
    BY DEF Init, BucketsPartitionSymbols
<1>3. QED
    BY <1>1, <1>2, InvInit DEF BucketInv

LEMMA BucketStep == BucketInv /\ [Next]_vars => BucketInv'
BY InvNext, HomeStep, CallStep, PartitionStep DEF BucketInv

LEMMA BucketInvariant == Spec => []BucketInv
BY BucketInit, BucketStep, PTL DEF Spec

(* A symbol is only ever looked for where it is: every bucket is the bucket *)
(* of one key and holds texts of that key only, for any hash function.      *)
THEOREM BucketsPartition == Spec => []BucketsPartitionSymbols
<1>1. BucketInv => BucketsPartitionSymbols
    BY DEF BucketInv
<1>2. QED
    BY <1>1, BucketInvariant, PTL

------------------------------------------------------------------------------
(* The map and the buckets only grow.                                       *)

LEMMA PrefixOfAppend ==
    ASSUME NEW S, NEW s \in Seq(S), NEW e \in S
    PROVE  SubSeq(Append(s, e), 1, Len(s)) = s
<1> DEFINE t == Append(s, e)
<1>1. /\ t \in Seq(S) /\ Len(s) \in Nat
      /\ Len(t) = Len(s) + 1
      /\ \A n \in 1 .. Len(s) : t[n] = s[n]
    BY AppendProperties, LenProperties
<1>2. \A n \in 1 .. Len(s) : t[n] \in S
    BY <1>1, ElementOfSeq
<1> HIDE DEF t
<1>3. /\ SubSeq(t, 1, Len(s)) \in Seq(S)
      /\ Len(SubSeq(t, 1, Len(s))) = Len(s)
      /\ \A n \in 1 .. Len(s) : SubSeq(t, 1, Len(s))[n] = t[n]
    BY <1>1, <1>2, SubSeqProperties
<1>4. QED
    BY <1>1, <1>3, SeqEqual DEF t

(* A bucket pointer that was handed out stays the right one, and the        *)
(* symbols that were seen in a bucket stay where they are, whatever the     *)
(* other threads insert.                                                    *)
THEOREM MapAndBucketsOnlyGrow == Spec => BucketsOnlyGrow
<1> DEFINE Grows ==
              /\ \A k \in Keys : table[k] # NoBucket => table'[k] = table[k]
              /\ \A b \in 1 .. Len(buckets) :
                    SubSeq(buckets'[b], 1, Len(buckets[b])) = buckets[b]
<1>1. ASSUME BucketInv, [Next]_vars PROVE Grows
  <2>1. Inv /\ HomeInv
      BY <1>1 DEF BucketInv
  <2>2. ASSUME NEW b \in 1 .. Len(buckets)
        PROVE  SubSeq(buckets'[b], 1, Len(buckets[b])) = buckets[b]
    <3>1. buckets[b] \in Seq(Texts)
        BY <2>1, ElementOfSeq DEF Inv, TypeOK
    <3>2. CASE buckets'[b] = buckets[b]
        BY <3>1, <3>2, SubSeqFull
    <3>3. ASSUME NEW x \in Texts, buckets'[b] = Append(buckets[b], x)
          PROVE  SubSeq(buckets'[b], 1, Len(buckets[b])) = buckets[b]
        BY <3>1, <3>3, PrefixOfAppend
    <3>4. ASSUME NEW t \in Threads, PutNewBucket(t)
          PROVE  buckets'[b] = buckets[b]
        BY <2>1, <3>4, NewBucketStores
    <3>5. ASSUME NEW t \in Threads, Push(t)
          PROVE  \/ buckets'[b] = buckets[b]
                 \/ arg[t] \in Texts /\ buckets'[b] = Append(buckets[b], arg[t])
        BY <2>1, <3>5, PushStores
    <3>6. CASE UNCHANGED <<table, buckets>>
        BY <3>2, <3>6
    <3>7. QED
        BY <1>1, <3>2, <3>3, <3>4, <3>5, <3>6, OnlyInsertsStore
  <2>3. QED
      BY <1>1, <2>1, <2>2, MapOnlyGrows
<1>2. BucketInv /\ [Next]_vars => [Grows]_vars
    BY <1>1
<1>3. QED
    BY <1>2, BucketInvariant, PTL DEF Spec, BucketsOnlyGrow

------------------------------------------------------------------------------
(* The symbols of one text.                                                 *)

(* An insertion adds one symbol of its text, and none of another.           *)
LEMMA CopiesAfterInsert ==
    ASSUME BucketInv, NEW t \in Threads, PutNewBucket(t) \/ Push(t),
           NEW x \in Texts
    PROVE  /\ x # arg[t] => Copies(x)' = Copies(x)
           /\ x = arg[t] =>
                 \E n : n \notin Copies(x) /\ Copies(x)' = Copies(x) \cup {n}
<1> DEFINE k == KeyOf(x)
<1>1. Inv /\ HomeInv /\ k \in Keys
    BY KeyInKeys DEF BucketInv
<1>2. /\ table \in [Keys -> 0 .. Len(buckets)]
      /\ Len(buckets) \in Nat
    BY <1>1, LenProperties DEF Inv, TypeOK
<1>3. /\ Copies(x) =
            IF table[k] = NoBucket THEN {}
            ELSE {n \in 1 .. Len(buckets[table[k]]) : buckets[table[k]][n] = x}
      /\ Copies(x)' =
            IF table'[k] = NoBucket THEN {}
            ELSE {n \in 1 .. Len(buckets'[table'[k]]) :
                     buckets'[table'[k]][n] = x}
    BY DEF Copies, KeyOf
<1> HIDE DEF k
<1>4. CASE PutNewBucket(t)
  <2>1. /\ table[KeyOf(arg[t])] = NoBucket
        /\ table' = [table EXCEPT ![KeyOf(arg[t])] = Len(buckets) + 1]
        /\ \A b \in 1 .. Len(buckets) : buckets'[b] = buckets[b]
        /\ buckets'[Len(buckets) + 1] = <<arg[t]>>
      BY <1>1, <1>4, NewBucketStores
  <2>2. CASE k = KeyOf(arg[t])
    <3>1. Copies(x) = {}
        BY <1>3, <2>1, <2>2
    <3>2. table'[k] = Len(buckets) + 1 /\ table'[k] # NoBucket
        BY <1>1, <1>2, <2>1, <2>2 DEF NoBucket
    <3>3. buckets'[table'[k]] = <<arg[t]>>
        BY <2>1, <3>2
    <3>4. Copies(x)' = {n \in 1 .. 1 : <<arg[t]>>[n] = x}
        BY <1>3, <3>2, <3>3
    <3>5. \A n \in 1 .. 1 : n = 1 /\ <<arg[t]>>[n] = arg[t]
        OBVIOUS
    <3>6. Copies(x)' = IF x = arg[t] THEN {1} ELSE {}
        BY <3>4, <3>5
    <3>7. QED
        BY <3>1, <3>6
  <2>3. CASE k # KeyOf(arg[t])
    <3>1. table'[k] = table[k]
        BY <1>1, <1>2, <2>1, <2>3
    <3>2. table[k] # NoBucket => buckets'[table[k]] = buckets[table[k]]
        BY <1>1, <1>2, <2>1 DEF NoBucket
    <3>3. Copies(x)' = Copies(x)
        BY <1>3, <3>1, <3>2
    <3>4. QED
        BY <2>3, <3>3 DEF k
  <2>4. QED
      BY <2>2, <2>3
<1>5. CASE Push(t)
  <2>1. /\ arg[t] \in Texts
        /\ found[t] \in 1 .. Len(buckets)
        /\ table[KeyOf(arg[t])] = found[t]
        /\ table' = table
        /\ \A b \in 1 .. Len(buckets) : b # found[t] => buckets'[b] = buckets[b]
        /\ buckets[found[t]] \in Seq(Texts)
        /\ buckets'[found[t]] = Append(buckets[found[t]], arg[t])
      BY <1>1, <1>5, PushStores
  <2>2. CASE table[k] = found[t]
    <3> DEFINE old == buckets[found[t]]
               new == buckets'[found[t]]
    <3>1. /\ Len(old) \in Nat
          /\ Len(new) = Len(old) + 1
          /\ \A n \in 1 .. Len(old) : new[n] = old[n]
          /\ new[Len(old) + 1] = arg[t]
        BY <2>1, AppendProperties, LenProperties
    <3>2. /\ Copies(x) = {n \in 1 .. Len(old) : old[n] = x}
          /\ Copies(x)' = {n \in 1 .. Len(new) : new[n] = x}
        BY <1>3, <2>1, <2>2 DEF NoBucket
    <3> HIDE DEF old, new
    <3>3. Copies(x)' = IF x = arg[t] THEN Copies(x) \cup {Len(old) + 1}
                                     ELSE Copies(x)
        BY <3>1, <3>2
    <3>4. Len(old) + 1 \notin Copies(x)
        BY <3>1, <3>2
    <3>5. QED
        BY <3>3, <3>4
  <2>3. CASE table[k] # found[t]
    <3>1. table[k] # NoBucket => buckets'[table[k]] = buckets[table[k]]
        BY <1>1, <1>2, <2>1, <2>3 DEF NoBucket
    <3>2. Copies(x)' = Copies(x)
        BY <1>3, <2>1, <3>1
    <3>3. x # arg[t]
        BY <2>1, <2>3 DEF k
    <3>4. QED
        BY <3>2, <3>3
  <2>4. QED
      BY <2>2, <2>3
<1>6. QED
    BY <1>4, <1>5

LEMMA CopiesUnchanged ==
    ASSUME UNCHANGED <<table, buckets>>, NEW x
    PROVE  Copies(x)' = Copies(x)
BY DEF Copies, KeyOf

(* What a thread sees that looks for its text: the text is not there if the *)
(* map has no bucket for it or that bucket does not hold it.                *)
LEMMA LookSeesCopies ==
    ASSUME BucketInv, NEW t \in Threads
    PROVE  /\ FindBucketByHash(t) /\ table[KeyOf(arg[t])] = NoBucket =>
                 Copies(arg[t]) = {}
           /\ ScanBucket(t) =>
                 (Holds(found[t], arg[t]) <=> Copies(arg[t]) # {})
<1>1. ASSUME ScanBucket(t)
      PROVE  Holds(found[t], arg[t]) <=> Copies(arg[t]) # {}
  <2>1. pc[t] = "scan"
      BY <1>1 DEF ScanBucket
  <2>2. found[t] = table[KeyOf(arg[t])] /\ found[t] # NoBucket
      BY <2>1 DEF BucketInv, HomeInv, Inv, FoundInv
  <2>3. QED
      BY <2>2 DEF Holds, Copies
<1>2. QED
    BY <1>1 DEF Copies

LEMMA CopiesAreFinite ==
    ASSUME BucketInv, NEW x \in Texts
    PROVE  /\ IsFiniteSet(Copies(x)) /\ Cardinality(Copies(x)) \in Nat
           /\ IsFiniteSet(AtPut(x)) /\ Cardinality(AtPut(x)) \in Nat
           /\ Cardinality(AtPut(x)) <= Cardinality(Threads)
           /\ Cardinality(Threads) \in Nat
<1>1. table \in [Keys -> 0 .. Len(buckets)] /\ Len(buckets) \in Nat
    BY LenProperties DEF BucketInv, Inv, TypeOK
<1>2. IsFiniteSet(Copies(x))
  <2>1. CASE table[KeyOf(x)] = NoBucket
      BY <2>1, FS_EmptySet DEF Copies
  <2>2. CASE table[KeyOf(x)] # NoBucket
    <3>1. table[KeyOf(x)] \in 1 .. Len(buckets)
        BY <1>1, <2>2, KeyInKeys DEF NoBucket
    <3>2. buckets[table[KeyOf(x)]] \in Seq(Texts)
        BY <3>1, ElementOfSeq DEF BucketInv, Inv, TypeOK
    <3>3. Len(buckets[table[KeyOf(x)]]) \in Int
        BY <3>2, LenProperties
    <3>4. IsFiniteSet(1 .. Len(buckets[table[KeyOf(x)]]))
        BY <3>3, FS_Interval
    <3>5. Copies(x) \in SUBSET (1 .. Len(buckets[table[KeyOf(x)]]))
        BY <2>2 DEF Copies
    <3>6. QED
        BY <3>4, <3>5, FS_Subset
  <2>3. QED
      BY <2>1, <2>2
<1>3. AtPut(x) \in SUBSET Threads
    BY DEF AtPut
<1>4. QED
    BY <1>2, <1>3, FS_Subset, FS_CardinalityType, ThreadsAssumption

(* A thread goes on to put a text only when it has seen that the text is    *)
(* not there; no other step lets a thread begin to put.                     *)
LEMMA BeginsToPut ==
    ASSUME BucketInv, [Next]_vars, NEW x \in Texts,
           ~(AtPut(x)' \subseteq AtPut(x))
    PROVE  Copies(x) = {} /\ Copies(x)' = {}
<1>1. Inv
    BY DEF BucketInv
<1>2. PICK u \in Threads : pc'[u] \in InPut /\ arg'[u] = x /\ u \notin AtPut(x)
    BY DEF AtPut, InPut
<1>3. PICK t \in Threads :
          \/ \E operation \in Operations, y \in Texts : Call(t, operation, y)
          \/ Step(t)
    BY <1>2 DEF Next, Done, vars, localVars, AtPut, InPut
<1>4. \/ FindBucketByHash(t) /\ table[KeyOf(arg[t])] = NoBucket /\ arg[t] = x
      \/ ScanBucket(t) /\ ~Holds(found[t], arg[t]) /\ arg[t] = x
  <2>1. CASE \E operation \in Operations, y \in Texts : Call(t, operation, y)
      BY <1>1, <1>2, <2>1 DEF Call, GoTo, AtPut, InPut, Inv, TypeOK
  <2>2. CASE FindBucketByHash(t) \/ ScanBucket(t)
      BY <1>1, <1>2, <2>2
      DEF FindBucketByHash, ScanBucket, NotFound, Answer, GoTo, AtPut, InPut,
          Inv, TypeOK
  <2>3. CASE FindLock(t) \/ ScanLock(t) \/ PutLock(t) \/ PutNewBucket(t)
      BY <1>1, <1>2, <2>3
      DEF FindLock, ScanLock, PutLock, PutNewBucket, Answer, GoTo, AtPut,
          InPut, Inv, TypeOK
  <2>4. CASE PutFindBucket(t) \/ PushLock(t) \/ Push(t) \/ Return(t)
      BY <1>1, <1>2, <2>4
      DEF PutFindBucket, PushLock, Push, Return, Answer, GoTo, sharedVars,
          AtPut, InPut, Inv, TypeOK
  <2>5. QED
      BY <1>3, <2>1, <2>2, <2>3, <2>4 DEF Step
<1>5. Copies(x) = {}
    BY <1>4, LookSeesCopies
<1>6. UNCHANGED <<table, buckets>>
    BY <1>4 DEF FindBucketByHash, ScanBucket
<1>7. QED
    BY <1>5, <1>6, CopiesUnchanged

RacersAreThreads == racers \in [Texts -> SUBSET Threads]

(* What a step does to the racers of one text.                              *)
LEMMA RacersAfter ==
    ASSUME RaceNext, NEW x \in Texts
    PROVE  racers'[x] = IF Copies(x) = {} /\ Copies(x)' # {} THEN AtPut(x)
                                                           ELSE racers[x]
BY DEF RaceNext, RecordRacers, Copies, KeyOf

LEMMA RacersStayThreads ==
    RacersAreThreads /\ [RaceNext]_raceVars => RacersAreThreads'
<1>1. \A x \in Texts : AtPut(x) \in SUBSET Threads
    BY DEF AtPut
<1>2. RacersAreThreads /\ RaceNext => RacersAreThreads'
    BY <1>1 DEF RacersAreThreads, RaceNext, RecordRacers
<1>3. QED
    BY <1>2 DEF RacersAreThreads, raceVars

(* Who inserts a text is no longer one of those who are to insert it.       *)
LEMMA InsertersLeave ==
    ASSUME BucketInv, NEW t \in Threads, PutNewBucket(t) \/ Push(t)
    PROVE  t \in AtPut(arg[t]) /\ t \notin AtPut(arg[t])'
BY DEF AtPut, PutNewBucket, Push, Answer, GoTo, BucketInv, Inv, TypeOK

LEMMA RacersStep ==
    BucketInv /\ RacersAreThreads /\ CopiesBoundedByRacers
    /\ [RaceNext]_raceVars /\ BucketInv' => CopiesBoundedByRacers'
<1> SUFFICES ASSUME BucketInv, RacersAreThreads, CopiesBoundedByRacers,
                    RaceNext, BucketInv', NEW x \in Texts, Copies(x)' # {}
             PROVE  /\ AtPut(x)' \subseteq racers'[x]
                    /\ Cardinality(Copies(x)') + Cardinality(AtPut(x)')
                           <= Cardinality(racers'[x])
    BY DEF CopiesBoundedByRacers, Copies, AtPut, KeyOf, raceVars, vars,
           sharedVars, localVars
<1>1. [Next]_vars
    BY DEF RaceNext
<1>2. /\ IsFiniteSet(Copies(x)) /\ Cardinality(Copies(x)) \in Nat
      /\ IsFiniteSet(AtPut(x)) /\ Cardinality(AtPut(x)) \in Nat
    BY CopiesAreFinite
<1>3. IsFiniteSet(racers[x]) /\ Cardinality(racers[x]) \in Nat
  <2>1. racers[x] \in SUBSET Threads
      BY DEF RacersAreThreads
  <2>2. QED
      BY <2>1, FS_Subset, FS_CardinalityType, ThreadsAssumption
<1>4. AtPut(x)' \in SUBSET AtPut(x)
    BY <1>1, BeginsToPut
<1>5. CASE Copies(x)' = Copies(x)
  <2>1. racers'[x] = racers[x]
      BY <1>5, RacersAfter
  <2>2. /\ AtPut(x) \subseteq racers[x]
        /\ Cardinality(Copies(x)) + Cardinality(AtPut(x))
               <= Cardinality(racers[x])
      BY <1>5 DEF CopiesBoundedByRacers
  <2>3. Cardinality(AtPut(x)') \in Nat
        /\ Cardinality(AtPut(x)') <= Cardinality(AtPut(x))
      BY <1>2, <1>4, FS_Subset, FS_CardinalityType
  <2>4. QED
      BY <1>2, <1>3, <1>4, <1>5, <2>1, <2>2, <2>3
<1>6. ASSUME NEW t \in Threads, PutNewBucket(t) \/ Push(t), arg[t] = x
      PROVE  /\ AtPut(x)' \subseteq racers'[x]
             /\ Cardinality(Copies(x)') + Cardinality(AtPut(x)')
                    <= Cardinality(racers'[x])
  <2>1. t \in AtPut(x) /\ t \notin AtPut(x)'
      BY <1>6, InsertersLeave DEF AtPut
  <2>2. /\ Cardinality(AtPut(x) \ {t}) = Cardinality(AtPut(x)) - 1
        /\ IsFiniteSet(AtPut(x) \ {t})
      BY <1>2, <2>1, FS_RemoveElement
  <2>3. AtPut(x)' \in SUBSET (AtPut(x) \ {t})
      BY <1>4, <2>1
  <2>4. Cardinality(AtPut(x)') \in Nat
        /\ Cardinality(AtPut(x)') <= Cardinality(AtPut(x)) - 1
      BY <2>2, <2>3, FS_Subset, FS_CardinalityType
  <2>5. PICK n : n \notin Copies(x) /\ Copies(x)' = Copies(x) \cup {n}
      BY <1>6, CopiesAfterInsert
  <2>6. Cardinality(Copies(x)') = Cardinality(Copies(x)) + 1
      BY <1>2, <2>5, FS_AddElement
  <2>7. CASE Copies(x) = {}
    <3>1. racers'[x] = AtPut(x) /\ Cardinality(Copies(x)) = 0
        BY <2>7, RacersAfter, FS_EmptySet
    <3>2. QED
        BY <1>2, <1>4, <2>4, <2>6, <3>1
  <2>8. CASE Copies(x) # {}
    <3>1. racers'[x] = racers[x]
        BY <2>8, RacersAfter
    <3>2. /\ AtPut(x) \subseteq racers[x]
          /\ Cardinality(Copies(x)) + Cardinality(AtPut(x))
                 <= Cardinality(racers[x])
        BY <2>8 DEF CopiesBoundedByRacers
    <3>3. QED
        BY <1>2, <1>3, <1>4, <2>4, <2>6, <3>1, <3>2
  <2>9. QED
      BY <2>7, <2>8
<1>7. QED
  <2>1. \/ UNCHANGED <<table, buckets>>
        \/ \E t \in Threads : PutNewBucket(t) \/ Push(t)
      BY <1>1, OnlyInsertsStore
  <2>2. ASSUME NEW t \in Threads, PutNewBucket(t) \/ Push(t), arg[t] # x
        PROVE  Copies(x)' = Copies(x)
      BY <2>2, CopiesAfterInsert
  <2>3. QED
      BY <1>5, <1>6, <2>1, <2>2, CopiesUnchanged

(* The duplicates that the unlocked gap in putSymbol lets in are never more *)
(* than the threads that raced: those that had looked for the text in vain  *)
(* when its first symbol went in.  Later calls make none.                   *)
THEOREM RacersBoundCopies == RaceSpec => []CopiesBoundedByRacers
<1>1. RaceInit => BucketInv /\ RacersAreThreads /\ CopiesBoundedByRacers
  <2>1. RaceInit => \A x \in Texts : Copies(x) = {}
      BY KeyInKeys DEF RaceInit, Init, Copies
  <2>2. QED
      BY <2>1, BucketInit DEF RaceInit, RacersAreThreads, CopiesBoundedByRacers
<1>2. [RaceNext]_raceVars => [Next]_vars
    BY DEF RaceNext, raceVars
<1>3. QED
    BY <1>1, <1>2, BucketStep, RacersStayThreads, RacersStep, PTL DEF RaceSpec

------------------------------------------------------------------------------
(* The refinement of SymbolSet.  Each insertion adds its text to the set;   *)
(* what a call has found or done so far follows from where its thread is.   *)

LEMMA MembersStep ==
    ASSUME BucketInv, [Next]_vars
    PROVE  /\ UNCHANGED <<table, buckets>> => members' = members
           /\ \A t \in Threads :
                 PutNewBucket(t) \/ Push(t) => members' = members \cup {arg[t]}
<1>1. /\ members = {x \in Texts : Copies(x) # {}}
      /\ members' = {x \in Texts : Copies(x)' # {}}
    BY DEF members, Copies, KeyOf
<1>2. ASSUME UNCHANGED <<table, buckets>> PROVE members' = members
    BY <1>1, <1>2, CopiesUnchanged
<1>3. ASSUME NEW t \in Threads, PutNewBucket(t) \/ Push(t)
      PROVE  members' = members \cup {arg[t]}
  <2>1. arg[t] \in Texts
      BY DEF BucketInv, Inv, TypeOK
  <2>2. \A x \in Texts : x # arg[t] => Copies(x)' = Copies(x)
      BY <1>3, CopiesAfterInsert
  <2>3. \A x \in Texts : x = arg[t] => Copies(x)' # {}
    <3> SUFFICES ASSUME NEW x \in Texts, x = arg[t] PROVE Copies(x)' # {}
        OBVIOUS
    <3>1. PICK n : Copies(x)' = Copies(x) \cup {n}
        BY <1>3, CopiesAfterInsert
    <3>2. QED
        BY <3>1
  <2>4. QED
      BY <1>1, <2>1, <2>2, <2>3
<1>4. QED
    BY <1>2, <1>3

LEMMA OutcomeByPlace ==
    ASSUME NEW t \in Threads
    PROVE  /\ pc[t] \in InPut => outcome[t] = "absent"
           /\ pc[t] = "return" => outcome[t] = Answered(op[t], result[t])
           /\ pc[t] \notin InPut \cup {"return"} => outcome[t] = "pending"
BY DEF outcome, InPut

LEMMA OutcomeByPlaceAfter ==
    ASSUME NEW t \in Threads
    PROVE  /\ pc'[t] \in InPut => outcome'[t] = "absent"
           /\ pc'[t] = "return" => outcome'[t] = Answered(op'[t], result'[t])
           /\ pc'[t] \notin InPut \cup {"return"} => outcome'[t] = "pending"
BY DEF outcome, InPut

(* A thread's step changes no other thread's outcome.                       *)
LEMMA OutcomeOfOthers ==
    ASSUME NEW t \in Threads,
           \A u \in Threads \ {t} :
               pc'[u] = pc[u] /\ op'[u] = op[u] /\ result'[u] = result[u]
    PROVE  outcome' = [outcome EXCEPT ![t] = outcome'[t]]
BY DEF outcome

LEMMA StepIsLocal ==
    ASSUME Inv, NEW t \in Threads,
           \/ \E operation \in Operations, x \in Texts : Call(t, operation, x)
           \/ Step(t)
    PROVE  /\ \A u \in Threads \ {t} :
                 pc'[u] = pc[u] /\ op'[u] = op[u] /\ result'[u] = result[u]
           /\ outcome' = [outcome EXCEPT ![t] = outcome'[t]]
<1>1. CASE \E operation \in Operations, x \in Texts : Call(t, operation, x)
    BY <1>1, OutcomeOfOthers DEF Call, GoTo, Inv, TypeOK
<1>2. CASE FindLock(t) \/ FindBucketByHash(t) \/ ScanLock(t) \/ ScanBucket(t)
    BY <1>2, OutcomeOfOthers
    DEF FindLock, FindBucketByHash, ScanLock, ScanBucket, NotFound, Answer,
        GoTo, Inv, TypeOK
<1>3. CASE PutLock(t) \/ PutNewBucket(t) \/ PutFindBucket(t)
    BY <1>3, OutcomeOfOthers
    DEF PutLock, PutNewBucket, PutFindBucket, Answer, GoTo, Inv, TypeOK
<1>4. CASE PushLock(t) \/ Push(t) \/ Return(t)
    BY <1>4, OutcomeOfOthers
    DEF PushLock, Push, Return, Answer, GoTo, Inv, TypeOK
<1>5. QED
    BY <1>1, <1>2, <1>3, <1>4 DEF Step

(* A step that leaves the outcome of its thread leaves all of them.         *)
LEMMA SameOutcome ==
    ASSUME NEW t \in Threads, outcome'[t] = outcome[t],
           outcome' = [outcome EXCEPT ![t] = outcome'[t]]
    PROVE  outcome' = outcome
BY DEF outcome

LEMMA CallIsCall ==
    ASSUME BucketInv, [Next]_vars, NEW t \in Threads,
           NEW operation \in Operations, NEW x \in Texts, Call(t, operation, x)
    PROVE  Set!Call(t, operation, x)
<1>1. Inv /\ op[t] = "none"
    BY DEF Call, BucketInv, CallInv
<1>2. pc[t] = "idle" /\ pc'[t] = "find_lock"
    BY <1>1 DEF Call, GoTo, Inv, TypeOK
<1>3. outcome'[t] = outcome[t]
    BY <1>2, OutcomeByPlace, OutcomeByPlaceAfter DEF InPut
<1>4. outcome' = outcome
    BY <1>1, <1>3, StepIsLocal, SameOutcome
<1>5. members' = members
    BY MembersStep DEF Call, sharedVars
<1>6. QED
    BY <1>1, <1>4, <1>5 DEF Call, Set!Call

(* Lock operations, and finding the bucket again, change nothing a caller   *)
(* could see.                                                               *)
LEMMA LocksAreInvisible ==
    ASSUME BucketInv, [Next]_vars, NEW t \in Threads,
           \/ FindLock(t) \/ ScanLock(t) \/ PutLock(t)
           \/ PutFindBucket(t) \/ PushLock(t)
           \/ FindBucketByHash(t) /\ table[KeyOf(arg[t])] # NoBucket
    PROVE  UNCHANGED Set!vars
<1>1. Inv /\ Step(t)
    BY DEF BucketInv, Step
<1>2. /\ UNCHANGED <<table, buckets, op, arg>>
      /\ \/ pc[t] \in InPut /\ pc'[t] \in InPut
         \/ /\ pc[t] \notin InPut \cup {"return"}
            /\ pc'[t] \notin InPut \cup {"return"}
    BY <1>1
    DEF FindLock, ScanLock, PutLock, PutFindBucket, PushLock, FindBucketByHash,
        GoTo, sharedVars, InPut, Inv, TypeOK
<1>3. outcome'[t] = outcome[t]
    BY <1>2, OutcomeByPlace, OutcomeByPlaceAfter
<1>4. outcome' = outcome
    BY <1>1, <1>3, StepIsLocal, SameOutcome
<1>5. QED
    BY <1>2, <1>4, MembersStep DEF Set!vars

LEMMA LookIsLook ==
    ASSUME BucketInv, [Next]_vars, NEW t \in Threads,
           \/ FindBucketByHash(t) /\ table[KeyOf(arg[t])] = NoBucket
           \/ ScanBucket(t)
    PROVE  Set!Look(t)
<1>1. Inv /\ Step(t) /\ arg[t] \in Texts
    BY DEF BucketInv, Step, Inv, TypeOK
<1>2. UNCHANGED <<table, buckets, op, arg>> /\ pc[t] \in {"find", "scan"}
    BY DEF FindBucketByHash, ScanBucket
<1>3. op[t] # "none" /\ outcome[t] = "pending"
    BY <1>2, OutcomeByPlace DEF BucketInv, CallInv, InPut
<1>4. op[t] \in {"putSymbol", "contains"}
    BY <1>1, <1>3 DEF Inv, TypeOK, Operations
<1>5. outcome'[t] = IF arg[t] \in members THEN "present" ELSE "absent"
  <2>1. arg[t] \in members <=> Copies(arg[t]) # {}
      BY <1>1 DEF members
  <2>2. CASE ScanBucket(t) /\ Holds(found[t], arg[t])
    <3>1. arg[t] \in members
        BY <2>1, <2>2, LookSeesCopies
    <3>2. pc'[t] = "return" /\ (result'[t] <=> op'[t] = "contains")
        BY <1>1, <1>2, <2>2 DEF ScanBucket, Answer, GoTo, HitAnswer, Inv, TypeOK
    <3>3. QED
        BY <3>1, <3>2, OutcomeByPlaceAfter DEF Answered
  <2>3. CASE ~(ScanBucket(t) /\ Holds(found[t], arg[t]))
    <3>1. arg[t] \notin members
        BY <2>1, <2>3, LookSeesCopies
    <3>2. \/ pc'[t] = "return" /\ op'[t] = "contains" /\ result'[t] = FALSE
          \/ pc'[t] = "put_lock"
        BY <1>1, <1>2, <2>3
        DEF FindBucketByHash, ScanBucket, NotFound, Answer, GoTo, Inv, TypeOK
    <3>3. QED
        BY <3>1, <3>2, OutcomeByPlaceAfter DEF InPut, Answered
  <2>4. QED
      BY <2>2, <2>3
<1>6. members' = members
    BY <1>2, MembersStep
<1>7. QED
    BY <1>1, <1>2, <1>3, <1>5, <1>6, StepIsLocal DEF Set!Look

LEMMA InsertIsInsert ==
    ASSUME BucketInv, [Next]_vars, NEW t \in Threads, PutNewBucket(t) \/ Push(t)
    PROVE  Set!Insert(t)
<1>1. Inv /\ Step(t)
    BY DEF BucketInv, Step
<1>2. UNCHANGED <<op, arg>> /\ pc[t] \in InPut
    BY DEF PutNewBucket, Push, InPut
<1>3. op[t] = "putSymbol" /\ outcome[t] = "absent"
    BY <1>2, OutcomeByPlace DEF BucketInv, CallInv
<1>4. pc'[t] = "return" /\ op'[t] # "contains" /\ result'[t] = TRUE
    BY <1>1, <1>2, <1>3 DEF PutNewBucket, Push, Answer, GoTo, Inv, TypeOK
<1>5. outcome'[t] = "inserted"
    BY <1>4, OutcomeByPlaceAfter DEF Answered
<1>6. members' = members \cup {arg[t]}
    BY MembersStep
<1>7. QED
    BY <1>1, <1>2, <1>3, <1>5, <1>6, StepIsLocal DEF Set!Insert

LEMMA ReturnIsReturn ==
    ASSUME BucketInv, [Next]_vars, NEW t \in Threads, Return(t)
    PROVE  Set!Return(t)
<1>1. Inv /\ Step(t)
    BY DEF BucketInv, Step
<1>2. /\ pc[t] = "return" /\ pc'[t] = "idle"
      /\ op' = [op EXCEPT ![t] = "none"]
      /\ UNCHANGED <<table, buckets, arg>>
    BY <1>1 DEF Return, GoTo, sharedVars, Inv, TypeOK
<1>3. op[t] \in {"putSymbol", "contains"} /\ result[t] \in BOOLEAN
    BY <1>1, <1>2 DEF BucketInv, CallInv, Inv, TypeOK, Operations
<1>4. outcome[t] \in IF op[t] = "putSymbol" THEN {"present", "inserted"}
                                            ELSE {"present", "absent"}
    BY <1>2, <1>3, OutcomeByPlace DEF Answered
<1>5. outcome'[t] = "pending"
    BY <1>2, OutcomeByPlaceAfter DEF InPut
<1>6. members' = members
    BY <1>2, MembersStep
<1>7. QED
    BY <1>1, <1>2, <1>3, <1>4, <1>5, <1>6, StepIsLocal DEF Set!Return

LEMMA StepRefines == BucketInv /\ [Next]_vars => [Set!Next]_(Set!vars)
<1> SUFFICES ASSUME BucketInv, [Next]_vars PROVE [Set!Next]_(Set!vars)
    OBVIOUS
<1>1. ASSUME NEW t \in Threads, NEW operation \in Operations, NEW x \in Texts,
             Call(t, operation, x)
      PROVE  Set!Next
    BY <1>1, CallIsCall DEF Set!Next, Set!Operations, Operations
<1>2. ASSUME NEW t \in Threads, Step(t) PROVE [Set!Next]_(Set!vars)
    BY <1>2, LocksAreInvisible, LookIsLook, InsertIsInsert, ReturnIsReturn
    DEF Step, Set!Next
<1>3. CASE UNCHANGED vars
  <2>1. UNCHANGED <<table, buckets, pc, op, arg, result>>
      BY <1>3 DEF vars, sharedVars, localVars
  <2>2. members' = members
      BY <2>1, MembersStep
  <2>3. outcome' = outcome
      BY <2>1 DEF outcome
  <2>4. QED
      BY <2>1, <2>2, <2>3 DEF Set!vars
<1>4. QED
    BY <1>1, <1>2, <1>3 DEF Next, Done

(* The two mutexes and the second look make a table that its callers cannot *)
(* tell from a set that grows: for any number of threads, texts and calls,  *)
(* and whichever texts share a hash value.                                  *)
THEOREM TableIsASet == Spec => ImplementsSymbolSet
<1>1. Init => Set!Init
  <2> SUFFICES ASSUME Init PROVE Set!Init
      OBVIOUS
  <2>1. members = {}
      BY KeyInKeys DEF Init, members, Copies
  <2>2. outcome = [t \in Threads |-> "pending"]
      BY DEF Init, outcome
  <2>3. arg \in [Threads -> Texts]
      BY TableAssumption DEF Init
  <2>4. QED
      BY <2>1, <2>2, <2>3 DEF Init, Set!Init
<1>2. QED
    BY <1>1, BucketInvariant, StepRefines, PTL
    DEF Spec, ImplementsSymbolSet, Set!Spec
==============================================================================
