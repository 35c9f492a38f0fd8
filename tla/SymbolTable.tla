----------------------------- MODULE SymbolTable -----------------------------
(****************************************************************************)
(* The global symbol table of src/src/SymbolTable.cpp, which the threads of *)
(* the virtual machine share: a map from hash values to buckets under one   *)
(* mutex, and buckets of symbols, each under a mutex of its own.            *)
(*                                                                          *)
(* putSymbol looks first and inserts afterwards, and takes the table's      *)
(* mutex anew for each, so other threads may run in between.  It appends to *)
(* a bucket while it holds both mutexes; contains() scans a bucket under    *)
(* the bucket's only.  A step is what a thread does between two lock        *)
(* operations, or the operation itself.                                     *)
(*                                                                          *)
(* The symbols themselves are their texts.  The table exists throughout:    *)
(* SymbolTable::init() has run and release() has not.                       *)
(****************************************************************************)
EXTENDS Integers, Sequences, FiniteSets

CONSTANTS
    Threads,
    NoThread,   \* The holder of a free mutex.
    Texts,
    Hash,       \* Symbol::hash() of a symbol with a given text.
    UInt32,     \* The modulus of uint32_t: 2^32, less when TLC checks.
    MaxCalls    \* Bound: calls that each thread makes.

ASSUME TableAssumption ==
    /\ NoThread \notin Threads
    /\ UInt32 \in Nat \ {0}
    /\ Hash \in [Texts -> 0 .. UInt32 - 1]
    /\ MaxCalls \in Nat
    /\ Texts # {}

ASSUME ThreadsAssumption == IsFiniteSet(Threads)

VARIABLES
    table,          \* SymbolTable::table: the bucket of each key, or NoBucket.
    buckets,        \* The buckets made so far; a BucketPtr is an index.
    tableLock,      \* gSymbolTableLock: who holds it.
    bucketLock,     \* Bucket::lock of each bucket: who holds it.
    pc,             \* Where each thread is.
    op,             \* The operation it has called, or "none",
    arg,            \* with which text,
    found,          \* which bucket findBucketByHash or find gave it, and
    result,         \* what it is about to answer.
    calls           \* How many calls it has made.

sharedVars == <<table, buckets, tableLock, bucketLock>>
localVars  == <<pc, op, arg, found, result, calls>>
vars == <<sharedVars, localVars>>

Operations == {"putSymbol", "contains"}

NoBucket == 0

(* Symbol::Hash is a uint32_t and the map's key, SymbolHash, an int32_t.    *)
Key(h) == IF 2 * h < UInt32 THEN h ELSE h - UInt32

KeyOf(x) == Key(Hash[x])

Keys == {KeyOf(x) : x \in Texts}

Init ==
    /\ table = [k \in Keys |-> NoBucket]
    /\ buckets = <<>>
    /\ tableLock = NoThread
    /\ bucketLock = <<>>
    /\ pc = [t \in Threads |-> "idle"]
    /\ op = [t \in Threads |-> "none"]
    /\ arg = [t \in Threads |-> CHOOSE x \in Texts : TRUE]
    /\ found = [t \in Threads |-> NoBucket]
    /\ result = [t \in Threads |-> FALSE]
    /\ calls = [t \in Threads |-> 0]

------------------------------------------------------------------------------
GoTo(t, label) == pc' = [pc EXCEPT ![t] = label]

Answer(t, value) ==
    /\ GoTo(t, "return")
    /\ result' = [result EXCEPT ![t] = value]

(* Mutant of LockTable: the mutex is not waited for.                        *)
LockTable_Anyway(t) == tableLock' = t

LockTable(t) == tableLock = NoThread /\ tableLock' = t

UnlockTable == tableLock' = NoThread

LockBucket(t, b) ==
    /\ bucketLock[b] = NoThread
    /\ bucketLock' = [bucketLock EXCEPT ![b] = t]

(* Mutant of UnlockBucket: an exit that keeps the mutex.                    *)
UnlockBucket_Not(b) == UNCHANGED bucketLock

UnlockBucket(b) == bucketLock' = [bucketLock EXCEPT ![b] = NoThread]

Call(t, operation, x) ==
    /\ pc[t] = "idle"
    /\ calls[t] < MaxCalls
    /\ calls' = [calls EXCEPT ![t] = calls[t] + 1]
    /\ op' = [op EXCEPT ![t] = operation]
    /\ arg' = [arg EXCEPT ![t] = x]
    /\ GoTo(t, "find_lock")
    /\ UNCHANGED <<sharedVars, found, result>>

(* findBucketByHash, called by contains.                                    *)
FindLock(t) ==
    /\ pc[t] = "find_lock"
    /\ LockTable(t)
    /\ GoTo(t, "find")
    /\ UNCHANGED <<table, buckets, bucketLock, op, arg, found, result, calls>>

(* The text is not in the table: contains answers so, putSymbol goes on.    *)
NotFound(t) ==
    IF op[t] = "contains" THEN Answer(t, FALSE)
                          ELSE GoTo(t, "put_lock") /\ UNCHANGED result

FindBucketByHash(t) ==
    /\ pc[t] = "find"
    /\ LET b == table[KeyOf(arg[t])]
       IN  /\ found' = [found EXCEPT ![t] = b]
           /\ IF b = NoBucket THEN NotFound(t)
                              ELSE GoTo(t, "scan_lock") /\ UNCHANGED result
    /\ UnlockTable
    /\ UNCHANGED <<table, buckets, bucketLock, op, arg, calls>>

(* Bucket::contains.                                                        *)
ScanLock(t) ==
    /\ pc[t] = "scan_lock"
    /\ LockBucket(t, found[t])
    /\ GoTo(t, "scan")
    /\ UNCHANGED <<table, buckets, tableLock, op, arg, found, result, calls>>

(* Mutant of Holds: only the head of the bucket is compared.                *)
Holds_First(b, x) == buckets[b][1] = x

Holds(b, x) == \E k \in 1 .. Len(buckets[b]) : buckets[b][k] = x

(* Mutant of HitAnswer: putSymbol answers as contains does.                 *)
HitAnswer_Always(t) == TRUE

HitAnswer(t) == op[t] = "contains"

ScanBucket(t) ==
    /\ pc[t] = "scan"
    /\ IF Holds(found[t], arg[t]) THEN Answer(t, HitAnswer(t)) ELSE NotFound(t)
    /\ UnlockBucket(found[t])
    /\ UNCHANGED <<table, buckets, tableLock, op, arg, found, calls>>

(* The second half of putSymbol.                                            *)
PutLock(t) ==
    /\ pc[t] = "put_lock"
    /\ LockTable(t)
    /\ GoTo(t, "put")
    /\ UNCHANGED <<table, buckets, bucketLock, op, arg, found, result, calls>>

(* Mutant of HasBucket: the answer of the first look is trusted.            *)
HasBucket_Not(k) == FALSE

(* The second look, under the mutex that the insertion needs.               *)
HasBucket(k) == table[k] # NoBucket

(* Mutant of MakeBucket: the map's new entry holds no bucket.               *)
MakeBucket_Not(x) == UNCHANGED <<buckets, bucketLock>>

MakeBucket(x) ==
    /\ buckets' = Append(buckets, <<x>>)
    /\ bucketLock' = Append(bucketLock, NoThread)

(* No bucket for this hash yet: one is made, filled and entered in the map. *)
(* Its mutex is nobody else's concern until it is in the map.               *)
PutNewBucket(t) ==
    /\ pc[t] = "put"
    /\ ~HasBucket(KeyOf(arg[t]))
    /\ MakeBucket(arg[t])
    /\ table' = [table EXCEPT ![KeyOf(arg[t])] = Len(buckets) + 1]
    /\ UnlockTable
    /\ Answer(t, TRUE)
    /\ UNCHANGED <<op, arg, found, calls>>

(* The table's mutex stays taken while the thread waits for the bucket's.   *)
PutFindBucket(t) ==
    /\ pc[t] = "put"
    /\ HasBucket(KeyOf(arg[t]))
    /\ found' = [found EXCEPT ![t] = table[KeyOf(arg[t])]]
    /\ GoTo(t, "push_lock")
    /\ UNCHANGED <<sharedVars, op, arg, result, calls>>

(* Bucket::push, under the bucket's mutex.                                  *)
PushLock(t) ==
    /\ pc[t] = "push_lock"
    /\ LockBucket(t, found[t])
    /\ GoTo(t, "push")
    /\ UNCHANGED <<table, buckets, tableLock, op, arg, found, result, calls>>

(* Mutant of Extended: the last symbol is overwritten.                      *)
Extended_Overwrites(bucket, x) == [bucket EXCEPT ![Len(bucket)] = x]

Extended(bucket, x) == Append(bucket, x)

Push(t) ==
    /\ pc[t] = "push"
    /\ buckets' = [buckets EXCEPT ![found[t]] = Extended(@, arg[t])]
    /\ UnlockBucket(found[t])
    /\ UnlockTable
    /\ Answer(t, TRUE)
    /\ UNCHANGED <<table, op, arg, found, calls>>

Return(t) ==
    /\ pc[t] = "return"
    /\ op' = [op EXCEPT ![t] = "none"]
    /\ found' = [found EXCEPT ![t] = NoBucket]
    /\ result' = [result EXCEPT ![t] = FALSE]
    /\ GoTo(t, "idle")
    /\ UNCHANGED <<sharedVars, arg, calls>>

Step(t) ==
    \/ FindLock(t) \/ FindBucketByHash(t)
    \/ ScanLock(t) \/ ScanBucket(t)
    \/ PutLock(t) \/ PutNewBucket(t) \/ PutFindBucket(t)
    \/ PushLock(t) \/ Push(t)
    \/ Return(t)

(* Every thread has made its calls.                                         *)
Done ==
    /\ \A t \in Threads : pc[t] = "idle" /\ calls[t] = MaxCalls
    /\ UNCHANGED vars

Next ==
    \/ \E t \in Threads :
          \/ \E operation \in Operations, x \in Texts : Call(t, operation, x)
          \/ Step(t)
    \/ Done

(* A thread inside a call keeps running.  It is not obliged to call again,  *)
(* and a mutex owes it nothing while others hold it.                        *)
Spec == Init /\ [][Next]_vars /\ \A t \in Threads : WF_vars(Step(t))

------------------------------------------------------------------------------
(* Properties.                                                              *)

Labels ==
    {"idle", "find_lock", "find", "scan_lock", "scan", "put_lock", "put",
     "push_lock", "push", "return"}

(* The type invariant.                                                      *)
TypeOK ==
    /\ buckets \in Seq(Seq(Texts))
    /\ table \in [Keys -> 0 .. Len(buckets)]
    /\ tableLock \in Threads \cup {NoThread}
    /\ bucketLock \in Seq(Threads \cup {NoThread})
    /\ Len(bucketLock) = Len(buckets)
    /\ pc \in [Threads -> Labels]
    /\ op \in [Threads -> Operations \cup {"none"}]
    /\ arg \in [Threads -> Texts]
    /\ found \in [Threads -> 0 .. Len(buckets)]
    /\ result \in [Threads -> BOOLEAN]
    /\ calls \in [Threads -> 0 .. MaxCalls]

(* Where a thread holds the table's mutex and where a bucket's.             *)
InTable(t)  == pc[t] \in {"find", "put", "push_lock", "push"}
InBucket(t) == pc[t] \in {"scan", "push"}

(* The locks protect what they are for: at any time one thread at most      *)
(* reads or changes the map, and one at most scans or extends a bucket.     *)
MutualExclusion ==
    \A t, u \in Threads :
        /\ InTable(t) /\ InTable(u) => t = u
        /\ InBucket(t) /\ InBucket(u) /\ found[t] = found[u] => t = u

(* A thread that wants a mutex which is taken.                              *)
Waits(t) ==
    \/ pc[t] \in {"find_lock", "put_lock"} /\ tableLock # NoThread
    \/ pc[t] \in {"scan_lock", "push_lock"} /\ bucketLock[found[t]] # NoThread

(* No deadlock, whatever the number of threads: putSymbol waits for the     *)
(* mutex of a bucket while it keeps the table's, but who has a bucket waits *)
(* for nothing, and every exit gives back what it took, so whenever calls   *)
(* are in progress one of them can go on.                                   *)
SomeoneCanMove ==
    \A t \in Threads :
        pc[t] # "idle" => \E u \in Threads : pc[u] # "idle" /\ ~Waits(u)

(* Every bucket that was made is the bucket of one key, and all of its      *)
(* symbols have that key: a symbol is found where it is looked for.  Two    *)
(* threads that both find no bucket for a key, one after the other's look,  *)
(* do not make two.                                                         *)
BucketsPartitionSymbols ==
    \A b \in 1 .. Len(buckets) :
        \E k \in Keys :
            /\ table[k] = b
            /\ \A j \in Keys : table[j] = b => j = k
            /\ \A n \in 1 .. Len(buckets[b]) : KeyOf(buckets[b][n]) = k

(* The places of the symbols of a text.                                     *)
Copies(x) ==
    LET b == table[KeyOf(x)]
    IN  IF b = NoBucket THEN {} ELSE {n \in 1 .. Len(buckets[b]) : buckets[b][n] = x}

(* The threads that have looked for a text in vain and are to insert it.    *)
AtPut(x) ==
    {t \in Threads : /\ pc[t] \in {"put_lock", "put", "push_lock", "push"}
                     /\ arg[t] = x}

(* The bucket of a key never changes once there is one, and no symbol ever  *)
(* leaves a bucket or moves in it: a BucketPtr that findBucketByHash gave   *)
(* out before the table's mutex was released is still the right one.        *)
BucketsOnlyGrow ==
    [][/\ \A k \in Keys : table[k] # NoBucket => table'[k] = table[k]
       /\ \A b \in 1 .. Len(buckets) :
             SubSeq(buckets'[b], 1, Len(buckets[b])) = buckets[b]]_vars

(* Every call returns, whatever the other threads do with the two mutexes.  *)
EveryCallReturns == \A t \in Threads : pc[t] # "idle" ~> pc[t] = "idle"

------------------------------------------------------------------------------
(* The table implements SymbolSet.                                          *)

members == {x \in Texts : Copies(x) # {}}

(* The outcome that an answer stands for.                                   *)
Answered(operation, answer) ==
    IF operation = "contains" THEN IF answer THEN "present" ELSE "absent"
                              ELSE IF answer THEN "inserted" ELSE "present"

outcome ==
    [t \in Threads |->
        CASE pc[t] \in {"put_lock", "put", "push_lock", "push"} -> "absent"
          [] pc[t] = "return" -> Answered(op[t], result[t])
          [] OTHER -> "pending"]

Set == INSTANCE SymbolSet
          WITH Threads <- Threads, Texts <- Texts, members <- members,
               op <- op, arg <- arg, outcome <- outcome

(* Whatever the interleaving, callers see a set that only grows: contains   *)
(* and a FALSE of putSymbol tell the truth about some instant of the call,  *)
(* and a TRUE means that the text was absent, and is there now.             *)
ImplementsSymbolSet == Set!Spec
==============================================================================
