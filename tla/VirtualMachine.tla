--------------------------- MODULE VirtualMachine ---------------------------
(****************************************************************************)
(* The life of virtual machines: src/src/VM.cpp, with                       *)
(* BootstrapClassLoader::defineClass (src/src/ClazzLoader.cpp) and          *)
(* SymbolTable::init and release.  All VMs of a process share two globals   *)
(* that no mutex protects, gVM ("TODO add lock") and gSymbolTable.          *)
(*                                                                          *)
(* Each VM belongs to one thread, which constructs it, starts it any number *)
(* of times and destroys it; lifetimes of VMs may overlap.  A step is one   *)
(* access to a global, or a step of ClassFileParser::parse as its caller    *)
(* sees it: it puts a symbol (SymbolSet!Insert), throws, ends the process,  *)
(* or returns nullptr.                                                      *)
(*                                                                          *)
(* After a use of freed memory anything may happen: the process is          *)
(* "undefined" and the model goes no further.                               *)
(****************************************************************************)
EXTENDS Integers, Sequences

CONSTANTS
    VMs,
    NoVM,       \* nullptr, as a VM.
    Texts       \* Texts of symbols that a class file may hold.

ASSUME VMAssumption == NoVM \notin VMs

VARIABLES
    life,           \* Where each VM is.
    gVM, gSymbolTable,
    tables,         \* The texts in each symbol table; a pointer is an index.
    freed,          \* The tables that have been deleted.
    process,        \* "running", or how it ended.
    kept,           \* History: the texts that each VM has put.
    overlapped,     \* History: two VMs have existed at once.
    raced,          \* History: <<u, v>> if v was constructed between u's
                    \* comparison with gVM and u's store to it.
    notFound        \* History: start() did not find its class file.

history == <<kept, overlapped, raced, notFound>>
tableVars == <<gSymbolTable, tables, freed>>
vars == <<life, gVM, tableVars, process, history>>

NoTable == 0

Life ==
    {"none", "building", "alive", "parsing", "released", "resetting", "dead"}

Init ==
    /\ life = [v \in VMs |-> "none"]
    /\ gVM = NoVM
    /\ gSymbolTable = NoTable
    /\ tables = <<>>
    /\ freed = {}
    /\ process = "running"
    /\ kept = [v \in VMs |-> {}]
    /\ overlapped = FALSE
    /\ raced = {}
    /\ notFound = FALSE

------------------------------------------------------------------------------
Exists(v) == life[v] \notin {"none", "dead"}

Live(n) == n # NoTable /\ n \notin freed

(* A VM's thread goes from one place to the next, and the process with it.  *)
Goes(v, from, to) ==
    /\ process = "running"
    /\ life[v] = from
    /\ life' = [life EXCEPT ![v] = to]

(* Mutants of init: the pointer is not stored; or only if there is none.    *)
init_NotStored ==
    /\ tables' = Append(tables, {})
    /\ UNCHANGED <<gSymbolTable, freed>>

init_IfNull ==
    IF gSymbolTable = NoTable
    THEN /\ tables' = Append(tables, {})
         /\ gSymbolTable' = Len(tables) + 1
         /\ UNCHANGED freed
    ELSE UNCHANGED tableVars

(* SymbolTable::init: whatever table there is is not freed.                 *)
init ==
    /\ tables' = Append(tables, {})
    /\ gSymbolTable' = Len(tables) + 1
    /\ UNCHANGED freed

(* SymbolTable::release: the pointer keeps its value.                       *)
release ==
    /\ freed' = freed \cup {gSymbolTable}
    /\ UNCHANGED <<gSymbolTable, tables>>

(* The constructor.                                                         *)
ConstructTable(v) ==
    /\ Goes(v, "none", "building")
    /\ init
    /\ overlapped' = (overlapped \/ \E u \in VMs : Exists(u))
    /\ UNCHANGED <<gVM, process, kept, raced, notFound>>

ConstructCurrent(v) ==
    /\ Goes(v, "building", "alive")
    /\ gVM' = v
    /\ raced' = raced \cup {<<u, v>> : u \in {w \in VMs : life[w] = "resetting"}}
    /\ UNCHANGED <<tableVars, process, kept, overlapped, notFound>>

(* start(): defineClass opens the class file, or returns nullptr.           *)
StartFinds(v) ==
    /\ Goes(v, "alive", "parsing")
    /\ UNCHANGED <<gVM, tableVars, process, history>>

StartFindsNot(v) ==
    /\ Goes(v, "alive", "alive")
    /\ process' = "exit"
    /\ notFound' = TRUE
    /\ UNCHANGED <<gVM, tableVars, kept, overlapped, raced>>

(* parse() puts a symbol into the table.                                    *)
ParsePuts(v, x) ==
    /\ Goes(v, "parsing", "parsing")
    /\ IF Live(gSymbolTable)
       THEN /\ tables' = [tables EXCEPT ![gSymbolTable] = @ \cup {x}]
            /\ kept' = [kept EXCEPT ![v] = @ \cup {x}]
            /\ UNCHANGED process
       ELSE process' = "undefined" /\ UNCHANGED <<tables, kept>>
    /\ UNCHANGED <<gVM, gSymbolTable, freed, overlapped, raced, notFound>>

(* A ClassFormatError leaves start(), and somebody catches it.              *)
ParseThrows(v) ==
    /\ Goes(v, "parsing", "alive")
    /\ UNCHANGED <<gVM, tableVars, process, history>>

(* Nobody does, or an assertion fails in the parse.                         *)
ParseAborts(v) ==
    /\ Goes(v, "parsing", "parsing")
    /\ process' = "abort"
    /\ UNCHANGED <<gVM, tableVars, history>>

(* parse() returns nullptr for a class that it has accepted, and start()    *)
(* takes that for a class that was not found.                               *)
ParseReturns(v) ==
    /\ Goes(v, "parsing", "parsing")
    /\ process' = "exit"
    /\ UNCHANGED <<gVM, tableVars, history>>

(* The destructor: release(), then the comparison and the store.            *)
DestroyTable(v) ==
    /\ Goes(v, "alive", "released")
    /\ IF Live(gSymbolTable)
       THEN release /\ UNCHANGED process
       ELSE process' = "undefined" /\ UNCHANGED tableVars
    /\ UNCHANGED <<gVM, history>>

(* Mutants of DestroyCompare: no reset; a reset whatever gVM is.            *)
DestroyCompare_Not(v) ==
    /\ Goes(v, "released", "dead")
    /\ UNCHANGED <<gVM, tableVars, process, history>>

DestroyCompare_Always(v) ==
    /\ Goes(v, "released", "resetting")
    /\ UNCHANGED <<gVM, tableVars, process, history>>

DestroyCompare(v) ==
    /\ Goes(v, "released", IF gVM = v THEN "resetting" ELSE "dead")
    /\ UNCHANGED <<gVM, tableVars, process, history>>

DestroyReset(v) ==
    /\ Goes(v, "resetting", "dead")
    /\ gVM' = NoVM
    /\ UNCHANGED <<tableVars, process, history>>

(* The process has ended, or has no more VMs to make.                       *)
Done ==
    /\ process # "running" \/ \A v \in VMs : life[v] = "dead"
    /\ UNCHANGED vars

Construct(v) == ConstructTable(v) \/ ConstructCurrent(v)

start(v) ==
    \/ StartFinds(v) \/ StartFindsNot(v)
    \/ \E x \in Texts : ParsePuts(v, x)
    \/ ParseThrows(v) \/ ParseAborts(v) \/ ParseReturns(v)

Destroy(v) == DestroyTable(v) \/ DestroyCompare(v) \/ DestroyReset(v)

Next ==
    \/ \E v \in VMs : Construct(v) \/ start(v) \/ Destroy(v)
    \/ Done

(* No thread is obliged to make, start or destroy its VM.                   *)
Spec == Init /\ [][Next]_vars

------------------------------------------------------------------------------
(* Properties.                                                              *)

(* The type invariant: once there is a VM the table's pointer is not null.  *)
TypeOK ==
    /\ life \in [VMs -> Life]
    /\ gVM \in VMs \cup {NoVM}
    /\ tables \in Seq(SUBSET Texts)
    /\ freed \subseteq 1 .. Len(tables)
    /\ gSymbolTable \in 0 .. Len(tables)
    /\ \A v \in VMs : life[v] # "none" => gSymbolTable # NoTable
    /\ process \in {"running", "exit", "abort", "undefined"}
    /\ kept \in [VMs -> SUBSET Texts]
    /\ overlapped \in BOOLEAN /\ raced \subseteq VMs \X VMs /\ notFound \in BOOLEAN

(* VM::current() is null or a VM whose constructor has run and whose        *)
(* destructor has not finished, although the comparison and the store of    *)
(* the destructor are two steps, and whatever VMs come and go in between.   *)
CurrentNeverDangles ==
    gVM # NoVM => life[gVM] \notin {"none", "building", "dead"}

(* As long as VMs follow one another, each of them is the current one from  *)
(* its constructor to its destructor, has a table, which holds every text   *)
(* that the VM put, and no table outlives its VM or is freed twice.  With   *)
(* overlapping lifetimes none of this is so: a second constructor replaces  *)
(* the table, and each destructor frees the last one (VM.cpp:11 and 29).    *)
SoleVMHasItsTable ==
    ~overlapped =>
        /\ process # "undefined"
        /\ \A n \in 1 .. Len(tables) :
              Live(n) => n = gSymbolTable /\ \E v \in VMs : Exists(v)
        /\ \A v \in VMs :
              life[v] \in {"alive", "parsing"} =>
                  /\ gVM = v
                  /\ Live(gSymbolTable)
                  /\ kept[v] \subseteq tables[gSymbolTable]

(* A VM that overlaps with others stays current until it is destroyed or a  *)
(* later VM takes its place.  gVM is reset by a destructor only, and that   *)
(* destructor is the current VM's own, with one exception: the current VM   *)
(* was constructed in the unlocked window of this very destructor, between  *)
(* its comparison and its store.  A window of another VM excuses nothing.   *)
CurrentIsForgottenByItself ==
    [][gVM # NoVM /\ gVM' = NoVM =>
           \E u \in VMs : /\ life[u] = "resetting" /\ life'[u] = "dead"
                         /\ (u = gVM \/ <<u, gVM>> \in raced)]_vars

(* start() ends the process only with the reason it prints, "Class not      *)
(* found at ..." (VM.cpp:20).  The code violates it.                        *)
ExitsOnlyIfNotFound == process = "exit" => notFound
=============================================================================
