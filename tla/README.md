# TulaVM in TLA+

TulaVM is the beginning of a Java virtual machine in C++: it reads a class file,
builds the run-time constant pool, and keeps the names it meets in a symbol table
that all threads share. This directory models it in TLA+, checks the models with
TLC on small instances, and proves theorems about them with TLAPS for every value
of their constants. Paths below are relative to the repository (`src/src/...` in
`PROJECT.json`, whose `map` names the lines each definition stands for).

## 1. The system

| Component | State | Operations | Talks to |
|---|---|---|---|
| Class file reader `src/classfile/ClassFileReader.*` | `begin`, `ptr`, `end` | `ensure`, `remaining`, checked and unchecked reads, skips | used by the parser only |
| Constant pool `src/ConstantPool.*` | `size`, arrays `tags` and `entities` | one `put…At` per kind of entry, getters, tag predicates | filled and rewritten by the parser; read by everything later |
| Constant pool parsing `src/classfile/ClassFileParser.*` | the reader, the pool, version | `parse`, `parseConstantPoolEntities`, `parseConstantPool` | reader, pool, `Symbol::create`, `SymbolTable::putSymbol` |
| Symbol table `src/SymbolTable.*` | map from hash to bucket under one mutex; each bucket a vector under its own | `putSymbol`, `contains`, `findBucketByHash`, `init`, `release` | called by parsers on any thread; created and deleted by the VM |
| Class body and annotations `src/classfile/ClassFileParser.*` | the reader, the finished pool, access flags, fields | `parseInterfaces`, `parseFields`, `parseFieldAttributes`, `parseAnnotation`, the recursive `parseElementValue` | reader, pool |
| Symbols `src/Symbol.*` | immutable text and hash | `create`, `equals`, `hash` | everywhere |
| Virtual machine `src/VM.cpp` | globals `gVM`, `gSymbolTable`; main class | constructor, `start`, `current`, destructor | class loader, symbol table |
| Class loader `src/ClazzLoader.*` | list of loaded classes (never filled) | `defineClass`; `loadClass`, `findClass` are stubs | parser |

What is hard here, and what would make each part correct:

- **Reader and first pass.** `ensure` must come before each unchecked read, and
  the code batches them: an entry ensures its own operands *and the next tag*.
  `remaining()` is unsigned, so a cursor that has once passed the end is never
  caught again. The slot counter is 16 bits wide and skips a slot for `Long` and
  `Double`. Correct: nothing outside the file is read, no slot outside the pool is
  stored to, the pass ends.
- **Second pass.** It checks references between entries while it rewrites class
  and string entries in place, from the first slot to the last, and must step over
  the same slots as the first pass although it is a different loop in a different
  function. The memory of a skipped slot is never initialized. Correct: the verdict
  is that of a declarative well-formedness condition, whatever the order and
  direction of references; no unreachable case is reached; the tag of a slot always
  tells the truth about its entity.
- **Symbol table.** `putSymbol` looks and inserts under two separate acquisitions
  of the table's mutex, `contains` uses a bucket after it has released that mutex,
  and an insertion nests the two mutexes. Correct: callers see a set that grows,
  buckets agree with the map, nothing is lost, no call hangs.
- **Class body.** `ensure` is batched across functions (`parse` ensures the count
  that `parseInterfaces` reads), loops nest six deep and `parseElementValue` recurses
  as the file says, while nobody looks at the declared length of an attribute of
  annotations. It trusts the pool it was handed. Correct: nothing outside the file is
  read, every other attribute ends where it says, the depth and the number of steps
  are bounded by the bytes of the file, accepted flags exclude each other.
- **Pool interface.** An entity is an untyped word. Correct: a getter whose assertion
  passes returns what was put.
- **Life cycle.** VMs of a process share `gVM` and `gSymbolTable` without a lock, and
  each constructor and destructor changes both. Correct: VMs that follow one another
  each have a table that holds what they put, and `current()` never dangles.

`PROJECT.json` lists each of these hazards at its line.

## 2. Modules

| Module | What it is |
|---|---|
| `ClassFileReader` | The cursor, with the C++ arithmetic of `remaining()` modulo `UInt32`. |
| `ConstantTags` | The tags of pool slots and the predicates on them. |
| `ConstantPool` | The pool: tags, entities, packed operands, the accessors' assertion. |
| `ConstantPoolAccess` | Every put and get of the pool, for a client that puts anything anywhere. |
| `ConstantPoolAccessProofs` | Its theorems. |
| `DivisionTheorems` | Lemmas on quotients and remainders, which wrapping counters and packed operands rest on. |
| `ConstantPoolParser` | `parse()` up to the end of `parseConstantPool()`; extends reader and pool. |
| `ConstantPoolParserProofs` | Theorems on the cursor, the counters and the slots, and their inductive invariants. |
| `ConstantPoolVerdictProofs` | Theorems on what the pool holds, the verdict of the second pass, and the symbols. |
| `ClassBodyParser` | `parse()` from there to its return: header, interfaces, fields, attributes, annotations; extends the reader. |
| `ClassBodyParserProofs` | Its inductive invariant and theorems. |
| `SymbolSet` | Abstract: a set of texts that grows, with calls that take effect at an instant. |
| `SymbolTable` | The table, its two levels of mutexes, any number of threads; refines `SymbolSet`. |
| `SymbolTableRaces` | `SymbolTable` with a history variable: which threads raced to insert a text. |
| `SymbolTableProofs` | Its lock invariant; exclusion and freedom from deadlock. |
| `SymbolTableRefinement` | Its bucket invariants; the theorems that it implements `SymbolSet` and on races. |
| `VirtualMachine` | Constructor, `start`, destructor of any number of VMs, with class loader and table as they see them. |
| `VirtualMachineProofs` | Its inductive invariants and theorems. |
| `MC...` | Menus of entries, pools, flags and texts for TLC, one module per model. |

How they fit: `ConstantPoolParser` and `ClassBodyParser` are the two halves of one
function. The first half's `HandsOver` (checked and proved: an accepted pool holds
final tags only) is the second half's assumption on `Pools`, and the cursor enters
the second half inside the buffer except after the overrun of finding 1. The parser
puts symbols by an atomic `Intern`, which is what `SymbolSet!Insert` promises and
`SymbolTable` implements; `VirtualMachine` uses a table in the same way and adds
when it exists.

### The parser

The state is the program's: `ptr`, `end` (offsets), `size`, `tags`, `entities`,
the loop counter `i`, `majorVersion`, plus the symbols that exist and those that
the symbol table holds. `written` is a history variable: the slots a put operation
has stored to. `phase` is where `parse()` is, or how it ended:

| `phase` | In the code |
|---|---|
| `magic`, `version`, `count` | `parse()` before each header field |
| `scan` | `parseConstantPoolEntities`, one step (`Scan…`) per entry |
| `resolve` | the loop of `parseConstantPool`, one step (`Resolve…`) per slot |
| `resolved` | the end of `parseConstantPool` |
| `bad_magic`, `truncated`, `bad_tag`, `bad_reference` | a thrown `ClassFormatError` |
| `asserted` | `CCW_ASSERT` fails in `putTagAt` |
| `crashed` | a read outside the buffer or through a wild pointer ends the process |

Choices worth knowing:

- The bytes of a file are chosen when they are read. That loses nothing, since
  the code reads each byte at most once. An entry is a member of `Entries`, the length of
  the file one of `Lens`, the count one of `Sizes`.
- Undefined behaviour is a choice. A tag read outside the buffer is any entry, or
  kills the process (`ScanFaults`). The tag of a slot nobody wrote is any member of
  `Garbage`, chosen when the pool is allocated. A symbol read from such a slot is
  `Wild`, or the read kills the process (`ResolveCrashes`).
- Slot 0 is left out of `tags` and `entities`: no accessor touches it, because
  `isValidIndex(0)` is false.
- Two packed operands are `hi * UInt16 + lo`; a pointer to a symbol is a negative
  number, so confusing the two is visible to `EntityMatchesTag`.
- Numeric payloads are opaque. One thread parses; the table other threads share is
  `SymbolTable`, and here `Intern` is one atomic `putSymbol`.

### The class body

The nested loops and recursive calls are a stack of frames, innermost first: the
loop, the iterations `left`, and for a field its flags. A step is one iteration up
to the loop that it enters, or the end of a loop (`LoopEnds`); an iteration that
fails goes to `truncated` or `bad_format`, leaving the cursor, which dies with the
parser.

| Frame | Loop in the code |
|---|---|
| `interfaces` | `parseInterfaces` |
| `fields`, `attributes` | `parseFields`, `parseFieldAttributes` |
| `annotations` | `parseAnnotations` |
| `pairs` | `parseAnnotation`, from an attribute or from an element of kind annotation |
| `values` | the array case of `parseElementValue` |

- The pool does not change any more, and only what the parser asks of a slot is kept:
  its tag, which text it is, and whether the slot is `wild`, that is, nobody wrote it
  or its name comes from such a slot. A wild pointer that is followed gives any text
  or ends the process (`Crashes`).
- Indices are chosen like all bytes; since index 0 never passes, any check may fail
  (`Rejected`). The elements of an array are read with a name index each, as the code
  does, although only the pairs of an annotation have names in the class file format.
- `attribute` is a history variable, the end that the last attribute declared.

### The pool's interface

`ConstantPoolAccess` has one action per outcome of a put (stored, stored past the
arrays, stopped by the assertion) and evaluates all getters in its invariant. `put`
is a history variable. `putFloatAt` reads a whole word from a four-byte parameter,
so it stores any upper half.

### Virtual machines

`life` says where each VM's thread is, between two accesses to a global:

| `life` | In the code |
|---|---|
| `building` | the constructor, between `SymbolTable::init()` and `gVM = this` |
| `alive` | between calls |
| `parsing` | inside `start()`: the class file is open and `parse()` runs |
| `released` | the destructor, after `SymbolTable::release()` |
| `resetting` | the destructor, between the comparison with `gVM` and the store |

`start()` ends as its callee does: no file (`exit`), a `ClassFormatError` that
somebody catches (`alive` again) or nobody (`abort`), or a class that was parsed,
which `parse()` returns as `nullptr` (`exit`). Freed tables keep their numbers in
`freed`; a use of one is undefined behaviour and ends the model (`undefined`).
`kept`, `overlapped`, `raced` and `notFound` are history variables. Puts are atomic
here: what a release in the middle of another VM's `putSymbol` does is not split up,
since any use of a freed table already ends the model.

### The symbol table

One step is what a thread does between two lock operations, or the operation
itself; `pc` says where a thread is. `FindLock`/`FindBucketByHash` are
`findBucketByHash`; `ScanLock`/`ScanBucket` are `Bucket::contains`;
`PutLock`/`PutNewBucket`/`PutFindBucket` are the second half of `putSymbol`;
`PushLock`/`Push` are `Bucket::push`. A call to `putSymbol` begins with the steps
of `contains`, as in the code. In `PutNewBucket` the push into a bucket that no
other thread can reach is one with its entry in the map. The key of the map is a
signed `int32_t` made from an unsigned hash: `Key`.

## 3. What the runs show

| Run | Instance | Distinct states | Shows |
|---|---|---|---|
| `cp_parse` | all entry kinds, counts 0 to 3, `UInt16 = 4`, files of 0 to 24 and of 32 bytes | 69,100 | `TypeOK`; the assertion fires only on the wrap; the cursor leaves the buffer only after a `Class` entry; every step moves on, every parse ends |
| `cp_resolve` | 17 entries, all pools of four slots, both sides of version 52, `UInt16 = 16` | 501,215 | the second pass: exact verdict, no unreachable case, tags match entities, slots change as they should, of equal names at most one is the symbol the table shares, an accepted pool is final |
| `cp_handles` | 13 entries, all pools of five slots | 2,399,943 | the verdict on method handles of every kind: a handle, its member, and all that the member names need five slots |
| `cp_overrun` | truncated files | — | **violated**: the parser reads past the file |
| `cp_wrap` | a wide entry in the last slot of the largest pool | — | **violated**: the pool's assertion fails |
| `cp_uninit` | references to the upper half of a `Long` | — | **violated**: a pool with such a reference is accepted |
| `symtab_race` | three threads, one call each | 44,926 | locks exclude and cannot deadlock, the table refines `SymbolSet`, every call returns |
| `symtab_calls` | two threads, two calls each | 44,949 | buckets partition the symbols, a text has more than one symbol only if puts of it raced, buckets only grow |
| `pool_access` | any entry over any other at any index, pools of up to two slots | 63,953 | getters return what was put |
| `class_body` | files of seven lengths up to 42 bytes after the pool, counts 0 to 2, two pools with an unwritten slot | 83,526 | no read outside the file; attributes end where declared; depth and steps bounded by bytes; the flag checks accept exactly the combinations they should; the parse ends |
| `vm_life` | three VMs, overlapping in any way | 1,908,823 | `current()` never dangles; VMs that follow one another have a sound table; a destructor forgets its own VM only, or one constructed in its own window |
| `vm_start` | one VM and a class that parses | — | **violated**: the process exits as if the class was not found |

### Bounds, and why they are enough

- `UInt16` is 2^16 in the program. With 4, a pool of the largest count has two
  slots and the counter wraps within three steps; the code compares indices only
  with 0, `size` and each other, so smaller numbers reach the same cases. Where
  references matter `UInt16` is 16, so that the ten values a method handle's kind
  needs and five slots fit.
- `UInt32` must only exceed every position a cursor can reach, so that the wrap of
  `remaining()` is seen as the huge number it is: 1000.
- Lengths 0 to 24 cut a two-entry file at every byte (header 10 bytes, at most 9
  for an entry of `WideEntries`, with a spare tag); 32 is a whole file.
- Four slots let a member reference resolve (class, name-and-type, text) or leave
  room for a `Long`'s unwritten half; an accepted method handle needs a fifth, and
  gets it in `cp_handles`, from a smaller menu. References point forward,
  backward, to themselves and to wrong kinds.
- `GarbageTags` has a tag no case accepts, the tag every index check asks for, and
  one of the tags the pass rewrites.
- The hash function of `symtab_*` puts two texts in one bucket and gives the third
  a hash that is negative as a key. Three threads give two racers and an onlooker;
  two calls each show what a completed call leaves behind. `MaxCalls` is the only
  bound on behaviour.

- `pool_access`: the ends of the range of each packed operand and a number between,
  so that a carry from one half into the other would show; two slots, because an
  operation touches one and must leave the other alone.
- `class_body`: the shortest lengths cut the class header, the interfaces and the
  field count; 42 bytes admit six frames at once: the fields, the attributes of one, its
  annotations, the pairs of one, and two more inside them, so that arrays and
  annotations occur inside pairs and inside each other. Counts 0, 1 and 2 give loops that end at once,
  after one iteration, and after another when something nested has returned. Lengths
  of attributes are right, short and long ones for every kind.
- `vm_life`: two VMs overlap, a third is constructed in the window of a destructor or
  replaces the table again. Two texts. Nothing else needs a bound: each VM is
  constructed once, and texts are put once.

### Fairness

- Parser, both halves: `WF_vars(Next)`. One thread runs it, and nothing in it waits.
- VMs: none, and no liveness is claimed: no thread has to destroy its VM.
- Symbol table: `WF_vars(Step(t))` for each thread, that is, a thread inside a call
  is scheduled. `std::mutex` promises no order among waiters, so no strong
  fairness is assumed of a lock; `EveryCallReturns` holds because each thread makes
  finitely many calls, `MaxCalls`. A thread that calls for ever could starve another,
  in the model as in the program. Threads need not make their calls (`Call` is not fair).

## 4. Where code and its own statements disagree

Each finding is a run that TLC must find violated.

1. `cp_overrun`: `ClassFileParser.cpp:585` reads a `Class` operand with `readU16`,
   which ensures two bytes, where every other case ensures the next tag too. Line
   582 then reads a tag nobody ensured. By `LeavesBufferOnlyAfterClass` (checked
   and proved) this is the only way out of the buffer.
2. `cp_wrap`: `uint16_t i` and `i++` for wide entries; a wide entry in slot 65534 of
   a pool with count 65535 makes the loop start again at slot 0, where the assertion of
   `ConstantPool.cpp:22` fails. By `AssertsOnlyOnWrap` (checked and proved) this is
   the only file that fails it.
3. `cp_uninit`: tags are allocated uninitialized (`ConstantPool.cpp:12`) and the
   slot after a `Long` or `Double` is never stored to, so a reference to it is
   judged by garbage. `AcceptsOnlyWellFormed` (checked and proved) says the verdict
   is right up to such references, and theorem `InitializedTagsSuffice` that an
   initializer of the tags is all that is missing.

4. `vm_start`: `parse()` ends with `return nullptr` (`ClassFileParser.cpp:166`), which
   `start()` takes for a class that was not found: it prints "Class not found at ..." and
   exits (`VM.cpp:18-20`). `tests/src/VM.cpp:12-14` starts a VM with a class that is there and goes on after it.

Seen while reading, with no statement in the repository to check against: two
threads that put one text at once may leave two symbols of it
(`CopiesBoundedByRacers` says that only those who raced do); the pool keeps its own
symbol even if the table holds an equal one, while `findLoadedKlass` compares pointers
(`OnlyFirstIsShared` says which names are the shared symbol and which are not);
`isValidIndex` of the pool admits `index == size`, one slot past the arrays, and only
the tighter checks of the parser keep it inside (`TypeOK` of `cp_parse`; the client of
`ConstantPoolAccess` does get `outside`); line 199 of the parser refuses every field of
a class that is final or volatile (`FieldAllowed`);
`parse()` accepts every version; boxed symbol pointers of a
pool are never freed. With overlapping VMs the second constructor replaces the table
and loses the first one, and the second destructor frees a table twice (hence the
condition `~overlapped` in `SoleVMHasItsTable`); a VM constructed between another's
comparison and store is forgotten (`raced` in `CurrentIsForgottenByItself`).
`defineClass` keeps the whole file in an array on the stack.

## 5. What is proved

Every safety property that a passing run checks, invariant, action property or
refinement, is also a theorem, for every value of the constants. `tlapm` checks every
proof; nothing is assumed beyond the named assumptions on the constants
(`UInt32Assumption`, `PoolAssumption`, `ParserAssumption`, `AccessAssumption`,
`TableAssumption`, `ThreadsAssumption`, `BodyAssumption`, `VMAssumption`), which TLC
evaluates in the runs. `ThreadsAssumption` says that a process has finitely many
threads; only the theorems that count threads or look for the last one to wait use it.
Each inductive invariant was an invariant of a TLC run before it was proved.

**Parser, where it is** (`ConstantPoolParserProofs`). Theorems `TypeCorrect`,
`UnreachableIsUnreachable`, `AssertionNeedsWrap`, `CursorStaysInside`: for all file
lengths, counts, entries and integer widths. None of the properties is inductive.
That the second pass meets only written slots needs to know *which* slots are
written, so `IInv` says it as a relation between neighbouring slots:

- `HeaderInv`: before the scan the counter is 0 and the cursor has not left the file.
- `ScanInv`: during the scan the written slots form a chain. It starts at slot 1,
  each written slot up to the counter is followed by the next (by the one after if
  it is wide), and nothing beyond the counter is written.
- `ResolveInv`: during the resolution the counter is on that same chain. A slot
  ahead of it still has a tag of the first pass, and rewriting does not move a
  slot's successor, because only class and string entries are rewritten.
- `CursorInv`: while the cursor is inside the buffer, the next tag has been ensured,
  unless the entry just read was a `Class`.

A second invariant, `HandInv`, gives `PoolIsHandedOver` and `SlotsAreStoredOnce`:
slots behind the counter of the second pass have final tags. When the counter steps
over an upper half this needs that no entry is in it (`UpperHalvesFree`), and that
holds because the chain of the first pass has no entry between a wide entry and its
successor. `ParseMovesOn` is the half of termination that needs no fairness: every
step but the last moves to the next part of the parse or raises a bounded counter.

**Parser, what it decides** (`ConstantPoolVerdictProofs`). On top of those two:

- `TagsTellTheTruth`, with `EntityInv`: `EntityMatchesTag` is inductive once it is
  known that the kind of a method handle is a byte (`HandleInv`) and that unwritten
  slots are wild (`WildInv`), so that a symbol followed from any slot is one or the other.
- The verdict. `ReferencesAre` shows that the getters with their truncations take out
  what `References` declares, `NamesPlain` and `NamesClass` that a check of the parser
  asks what the reference asks although the slot it names may have been rewritten
  already, and `ChecksAgree` combines them for each kind of entry. `CheckedInv` then says
  that the entries behind the counter refer to what they should. It is inductive
  because a rewrite changes no slot's *declared* kind (`RewritingKeepsReferences`).
  `AcceptedIsWellFormed` and `RejectedIsIllFormed` follow: the verdict is exact, up to
  slots that nobody wrote.
- `InitializedTagsSuffice`: under the extra hypothesis that fresh tags stand for no kind
  of entry, which the code does *not* fulfil, `AcceptedPoolIsWellFormed` would hold, the
  property that `cp_uninit` finds violated. (`GarbageStays`, `WildNeedsGarbage`.)
- `FirstSymbolIsTheShared`: a name of the pool is the symbol that the table shares
  exactly if it is the first of its text. The pool keeps a symbol of its own for every
  entry, so of two equal names one at most is shared. `SharedInv` says it of all symbols,
  used by a slot or not, and adds that the table holds one of every text and that no
  symbol is of a slot ahead of the scan. (`EntityInv` says which symbols slots name.)

**Pool interface** (`ConstantPoolAccessProofs`). `GettersAreRight`: for every width of
the words, a getter whose assertion passes returns what was put. It rests on
`DivModUnique` of `DivisionTheorems`, that a quotient and a remainder are unique.

**Class body** (`ClassBodyParserProofs`). All five invariants of `class_body`, for
every pool, length, count and menu of flags and any depth: `BodyTypeCorrect`,
`BodyStaysInside`, `AttributesAreConsumed`, `DepthIsBounded`, `FlagsAreConsistent`.
They rest on one fact, `LoopsNest`: counted from the outside, the loops of the stack
are interfaces or fields, then attributes, then annotations, then pairs and values in
any order. With it, what each depth has cost in bytes is an invariant (`DepthInv`); a
loop inside attributes is inside an attribute of annotations (`AttributeInv`); and the
interfaces, ensured all at once, are never interrupted (`CursorInv` keeps the bytes
still owed to them). `ContinueKeepsInv`, `EnterKeepsInv` and `LoopEndKeepsInv` are the
three things a step can do to the stack; the lemma of each action shows that it meets
their conditions. `FlagsAreConsistent` holds
in both directions: the chains of conditions, as the code has them, accept the
combinations of `ClassAllowed` and `FieldAllowed` and no others (`ClassFlagsExact`,
`FieldFlagsExact`). `BodyIsPaidFor` bounds the parse by the file: bytes left and loops
open, added up, fall in every step but the last, since whatever enters a loop has read
two bytes at least (`IterationPays`).

**Virtual machines** (`VirtualMachineProofs`). The four properties of `vm_life`, for any
number of VMs. `CurrentIsThere` and `OthersAreNotForgotten` need that a VM between its
comparison and its store is still the current one, unless it was reset by another or
another was constructed in that window (`ResettingIsCurrent`). `OneVMAtATimeIsSound` needs that without overlap there is at
most one VM, that a table is live exactly while a VM uses one, and that a VM has put
nothing before it is alive (`Sole`).

**Symbol table, its locks** (`SymbolTableProofs`). `TableTypeCorrect`, `LocksExclude`
and `NoDeadlock`, for any number of threads. `Inv` adds to the types: a thread that uses
a bucket has one that exists (`FoundInv`), each label inside a critical section holds the
table's mutex (`TableLockInv`) and the mutex of *its own* bucket (`BucketLockInv`);
unlocking bucket `b` does not disturb a thread in bucket `c` because two threads in one
bucket would both be its holder. `HeldInv` is the converse, that whoever holds a mutex is
at such a label, and from the two it follows that a chain of waiting threads ends: who
waits for the table waits for a thread that waits for a bucket at most, and who holds a
bucket waits for nothing.

**Symbol table, what it promises** (`SymbolTableRefinement`). `BucketsPartition`: a
bucket belongs to one key, and a thread has in hand the bucket of the key it looks for
(`KeyIsInjective`: the signed key loses no hash). With that the set of texts in the
buckets grows by the text of the call and nothing else, and `TableIsASet` maps every
step to one of `SymbolSet` or to a stutter: a search that hits takes effect where it
reads the bucket, a miss where it last saw the bucket or the map, an insertion where it
writes. `MapAndBucketsOnlyGrow` is the same argument for single buckets.
`RacersBoundCopies` is about `SymbolTableRaces`, where `racers` keeps, for each text, the
thread that inserted its first symbol and the threads that had looked for it in vain by
then. Nobody joins them later, since whoever looks afterwards finds the text; so the
copies, with the racers that have not inserted yet, are never more than the racers.

**Only model-checked:** `Terminates` of both parsers and `EveryCallReturns`, because
liveness needs fairness and ENABLED, which these provers do not handle. What can be said
without is proved: `ParseMovesOn`, `BodyIsPaidFor`, `NoDeadlock`. TLC checks that the
parsers do not deadlock.

## 6. Not modelled

- `Enum.hpp` (bit operators, no state), the logging and texts of errors, the CCWPP
  library (an assertion of it ends the process).
- `Symbol`: immutable, and no property depends on which function of the text its hash
  is; `SymbolTable` takes any.
- `loadClass`, `findClass`: stubs that do nothing; nothing fills the list of classes that
  `findLoadedKlass` searches. How `defineClass` reads the file: the bytes are any.
- `readU8` and `readU64` of the reader, which nothing calls.
- The decoding of characters and numbers: a text is a value, a number is opaque.
- Publication of a pool to other threads: no code shares one.

## 7. Plan

Done: the models, their runs, and a theorem for each safety property. What could still
be added, in the order of what it would say:

1. That a call of the symbol table takes a bounded number of steps of its own, the safety
   half of `EveryCallReturns`, as `EveryStepMovesOn` is that of `Terminates`.
2. The seam of the two halves of `parse()`: that a pool `ConstantPoolParser` accepts,
   slot by slot, is one that `BodyAssumption` admits, with the wild names that come of
   unwritten slots (`TagsTellTheTruth` says which entities they are).
3. What is left of the pool's verdict when `Garbage` is restricted to the tags an
   allocator can leave.
