------------------------ MODULE VirtualMachineProofs ------------------------
(****************************************************************************)
(* Theorems about VirtualMachine, for any number of VMs and any texts.      *)
(****************************************************************************)
EXTENDS VirtualMachine, SequenceTheorems, TLAPS

(* What a step of a VM does to its own life and to those of the others.     *)
LEMMA GoesOnlyItself ==
    ASSUME TypeOK, NEW v \in VMs, NEW from, NEW to \in Life, Goes(v, from, to)
    PROVE  /\ process = "running" /\ life[v] = from
           /\ life' \in [VMs -> Life]
           /\ life'[v] = to
           /\ \A u \in VMs : u # v => life'[u] = life[u]
BY DEF Goes, TypeOK

(* The tables after init and after a put.                                   *)
LEMMA InitTables ==
    ASSUME TypeOK, init
    PROVE  /\ tables' \in Seq(SUBSET Texts)
           /\ Len(tables) \in Nat /\ Len(tables') = Len(tables) + 1
           /\ gSymbolTable' = Len(tables) + 1 /\ freed' = freed
           /\ tables'[gSymbolTable'] = {}
BY AppendProperties, LenProperties DEF TypeOK, init

LEMMA PutTables ==
    ASSUME TypeOK, Live(gSymbolTable), NEW x \in Texts,
           tables' = [tables EXCEPT ![gSymbolTable] = @ \cup {x}]
    PROVE  /\ tables' \in Seq(SUBSET Texts)
           /\ Len(tables') = Len(tables)
           /\ tables'[gSymbolTable] = tables[gSymbolTable] \cup {x}
<1>1. gSymbolTable \in 1 .. Len(tables)
    BY LenProperties DEF TypeOK, Live, NoTable
<1>2. tables[gSymbolTable] \cup {x} \in SUBSET Texts
    BY <1>1, ElementOfSeq DEF TypeOK
<1>3. QED
    BY <1>1, <1>2, ExceptSeq, LenProperties DEF TypeOK

------------------------------------------------------------------------------
LEMMA TypeInit == Init => TypeOK
<1> SUFFICES ASSUME Init PROVE TypeOK
    OBVIOUS
<1>1. tables \in Seq(SUBSET Texts) /\ Len(tables) = 0
    BY EmptySeq DEF Init
<1>2. freed \subseteq 1 .. Len(tables) /\ gSymbolTable \in 0 .. Len(tables)
    BY <1>1 DEF Init, NoTable
<1>3. life \in [VMs -> Life] /\ \A v \in VMs : life[v] = "none"
    BY DEF Init, Life
<1>4. kept \in [VMs -> SUBSET Texts]
    BY DEF Init
<1>5. QED
    BY <1>1, <1>2, <1>3, <1>4 DEF Init, TypeOK

LEMMA ConstructKeepsType ==
    ASSUME TypeOK, NEW v \in VMs, Construct(v) PROVE TypeOK'
<1>1. CASE ConstructTable(v)
  <2>1. life' \in [VMs -> Life]
      BY <1>1, GoesOnlyItself DEF ConstructTable, Life
  <2>2. /\ tables' \in Seq(SUBSET Texts)
        /\ Len(tables) \in Nat /\ Len(tables') = Len(tables) + 1
        /\ gSymbolTable' = Len(tables) + 1 /\ freed' = freed
      BY <1>1, InitTables DEF ConstructTable
  <2>3. freed \subseteq 1 .. Len(tables)
      BY DEF TypeOK
  <2>4. /\ gSymbolTable' \in 1 .. Len(tables')
        /\ freed' \subseteq 1 .. Len(tables')
      BY <2>2, <2>3
  <2>5. QED
      BY <1>1, <2>1, <2>2, <2>4 DEF ConstructTable, TypeOK, NoTable
<1>2. CASE ConstructCurrent(v)
  <2>1. /\ life' \in [VMs -> Life]
        /\ \A u \in VMs : life'[u] # "none" => life[u] # "none"
      BY <1>2, GoesOnlyItself DEF ConstructCurrent, Life
  <2>2. QED
      BY <1>2, <2>1 DEF ConstructCurrent, TypeOK, tableVars
<1>3. QED
    BY <1>1, <1>2 DEF Construct

LEMMA StartKeepsType ==
    ASSUME TypeOK, NEW v \in VMs, start(v) PROVE TypeOK'
<1>1. /\ life' \in [VMs -> Life]
      /\ \A u \in VMs : life'[u] # "none" => life[u] # "none"
    BY GoesOnlyItself
    DEF start, StartFinds, StartFindsNot, ParsePuts, ParseThrows, ParseAborts,
        ParseReturns, Life
<1>2. ASSUME NEW x \in Texts, ParsePuts(v, x) PROVE TypeOK'
  <2>1. CASE Live(gSymbolTable)
    <3>1. tables' \in Seq(SUBSET Texts) /\ Len(tables') = Len(tables)
        BY <1>2, <2>1, PutTables DEF ParsePuts
    <3>2. kept' \in [VMs -> SUBSET Texts]
        BY <1>2, <2>1 DEF ParsePuts, TypeOK
    <3>3. QED
        BY <1>1, <1>2, <2>1, <3>1, <3>2 DEF ParsePuts, TypeOK
  <2>2. CASE ~Live(gSymbolTable)
      BY <1>1, <1>2, <2>2 DEF ParsePuts, TypeOK
  <2>3. QED
      BY <2>1, <2>2
<1>3. ASSUME \/ StartFinds(v) \/ StartFindsNot(v) \/ ParseThrows(v)
             \/ ParseAborts(v) \/ ParseReturns(v)
      PROVE  TypeOK'
    BY <1>1, <1>3
    DEF StartFinds, StartFindsNot, ParseThrows, ParseAborts, ParseReturns,
        TypeOK, history, tableVars
<1>4. QED
    BY <1>2, <1>3 DEF start

LEMMA DestroyKeepsType ==
    ASSUME TypeOK, NEW v \in VMs, Destroy(v) PROVE TypeOK'
<1>1. /\ life' \in [VMs -> Life]
      /\ \A u \in VMs : life'[u] # "none" => life[u] # "none"
    BY GoesOnlyItself
    DEF Destroy, DestroyTable, DestroyCompare, DestroyReset, Life
<1>2. CASE DestroyTable(v) /\ Live(gSymbolTable)
  <2>1. gSymbolTable \in 1 .. Len(tables)
      BY <1>2, LenProperties DEF Live, TypeOK, NoTable
  <2>2. freed' \subseteq 1 .. Len(tables)
      BY <1>2, <2>1 DEF DestroyTable, release, TypeOK
  <2>3. QED
      BY <1>1, <1>2, <2>2 DEF DestroyTable, release, TypeOK, history
<1>3. CASE DestroyTable(v) /\ ~Live(gSymbolTable)
    BY <1>1, <1>3 DEF DestroyTable, TypeOK, history, tableVars
<1>4. CASE DestroyCompare(v) \/ DestroyReset(v)
    BY <1>1, <1>4
    DEF DestroyCompare, DestroyReset, TypeOK, history, tableVars
<1>5. QED
    BY <1>2, <1>3, <1>4 DEF Destroy

LEMMA TypeStep == TypeOK /\ [Next]_vars => TypeOK'
<1>1. TypeOK /\ UNCHANGED vars => TypeOK'
    BY DEF TypeOK, vars, history, tableVars
<1>2. QED
    BY <1>1, ConstructKeepsType, StartKeepsType, DestroyKeepsType DEF Next, Done

(* Type correctness, for any number of VMs: whatever overlaps with what,    *)
(* once there has been a VM the pointer to the symbol table is that of some *)
(* table, freed or not.                                                     *)
THEOREM TypeCorrect == Spec => []TypeOK
BY TypeInit, TypeStep, PTL DEF Spec

------------------------------------------------------------------------------
(* gVM.  A VM that the destructor's comparison has found to be the current  *)
(* one still is, unless another has been reset or constructed since.        *)
ResettingIsCurrent ==
    \A v \in VMs :
        life[v] = "resetting" => gVM \in {v, NoVM} \/ <<v, gVM>> \in raced

CurrentInv == TypeOK /\ CurrentNeverDangles /\ ResettingIsCurrent

LEMMA CurrentStep == CurrentInv /\ [Next]_vars => CurrentInv'
<1> SUFFICES ASSUME CurrentInv, [Next]_vars PROVE CurrentInv'
    OBVIOUS
<1>1. TypeOK /\ TypeOK'
    BY TypeStep DEF CurrentInv
<1>2. ASSUME NEW v \in VMs, ConstructTable(v) \/ start(v) \/ DestroyTable(v)
      PROVE  CurrentInv'
  <2>1. /\ gVM' = gVM /\ raced' = raced
        /\ life[v] \in {"none", "alive", "parsing"}
        /\ life'[v] \in {"building", "alive", "parsing", "released"}
        /\ life[v] = "none" => life'[v] = "building"
        /\ life[v] # "none" => life'[v] # "building"
        /\ \A u \in VMs : u # v => life'[u] = life[u]
      BY <1>1, <1>2, GoesOnlyItself
      DEF ConstructTable, start, StartFinds, StartFindsNot, ParsePuts,
          ParseThrows, ParseAborts, ParseReturns, DestroyTable, history, Life
  <2>2. QED
      BY <1>1, <2>1
      DEF CurrentInv, CurrentNeverDangles, ResettingIsCurrent, TypeOK
<1>3. ASSUME NEW v \in VMs, ConstructCurrent(v) PROVE CurrentInv'
  <2>1. /\ gVM' = v /\ life'[v] = "alive"
        /\ raced \subseteq raced'
        /\ \A u \in VMs : life[u] = "resetting" => <<u, v>> \in raced'
        /\ \A u \in VMs : u # v => life'[u] = life[u]
      BY <1>1, <1>3, GoesOnlyItself DEF ConstructCurrent, Life
  <2>2. QED
      BY <1>1, <2>1
      DEF CurrentInv, CurrentNeverDangles, ResettingIsCurrent
<1>4. ASSUME NEW v \in VMs, DestroyCompare(v) PROVE CurrentInv'
  <2>1. /\ gVM' = gVM /\ raced' = raced
        /\ life'[v] = IF gVM = v THEN "resetting" ELSE "dead"
        /\ \A u \in VMs : u # v => life'[u] = life[u]
      BY <1>1, <1>4, GoesOnlyItself DEF DestroyCompare, Life, history
  <2>2. QED
      BY <1>1, <2>1
      DEF CurrentInv, CurrentNeverDangles, ResettingIsCurrent, TypeOK
<1>5. ASSUME NEW v \in VMs, DestroyReset(v) PROVE CurrentInv'
  <2>1. /\ gVM' = NoVM /\ raced' = raced
        /\ life[v] = "resetting" /\ life'[v] = "dead"
        /\ \A u \in VMs : u # v => life'[u] = life[u]
      BY <1>1, <1>5, GoesOnlyItself DEF DestroyReset, Life, history
  <2>2. QED
      BY <1>1, <2>1
      DEF CurrentInv, CurrentNeverDangles, ResettingIsCurrent
<1>6. CASE UNCHANGED vars
    BY <1>1, <1>6
    DEF CurrentInv, CurrentNeverDangles, ResettingIsCurrent, vars, history
<1>7. QED
    BY <1>2, <1>3, <1>4, <1>5, <1>6 DEF Next, Construct, Destroy, Done

LEMMA CurrentInvariant == Spec => []CurrentInv
<1>1. Init => CurrentInv
    BY TypeInit DEF Init, CurrentInv, CurrentNeverDangles, ResettingIsCurrent
<1>2. QED
    BY <1>1, CurrentStep, PTL DEF Spec

(* VM::current() never returns a VM that is gone or not there yet, for any  *)
(* number of VMs and threads and without a lock.                            *)
THEOREM CurrentIsThere == Spec => []CurrentNeverDangles
<1>1. CurrentInv => CurrentNeverDangles
    BY DEF CurrentInv
<1>2. QED
    BY <1>1, CurrentInvariant, PTL

(* Destroying a VM does not make the process forget another one, unless the *)
(* other was constructed inside the unlocked window of that destructor.     *)
THEOREM OthersAreNotForgotten == Spec => CurrentIsForgottenByItself
<1> DEFINE Forgets ==
        gVM # NoVM /\ gVM' = NoVM =>
            \E u \in VMs : /\ life[u] = "resetting" /\ life'[u] = "dead"
                          /\ (u = gVM \/ <<u, gVM>> \in raced)
<1>1. ASSUME CurrentInv, [Next]_vars PROVE [Forgets]_vars
  <2> SUFFICES ASSUME gVM # NoVM, gVM' = NoVM
               PROVE  \E u \in VMs : /\ life[u] = "resetting"
                                    /\ life'[u] = "dead"
                                    /\ (u = gVM \/ <<u, gVM>> \in raced)
      OBVIOUS
  <2>1. PICK v \in VMs : ConstructCurrent(v) \/ DestroyReset(v)
      BY <1>1
      DEF Next, Done, vars, Construct, ConstructTable, start, StartFinds,
          StartFindsNot, ParsePuts, ParseThrows, ParseAborts, ParseReturns,
          Destroy, DestroyTable, DestroyCompare
  <2>2. DestroyReset(v)
      BY <2>1, VMAssumption DEF ConstructCurrent
  <2>3. life[v] = "resetting" /\ life'[v] = "dead"
      BY <1>1, <2>2, GoesOnlyItself DEF DestroyReset, CurrentInv, Life
  <2>4. v = gVM \/ <<v, gVM>> \in raced
      BY <1>1, <2>3 DEF CurrentInv, ResettingIsCurrent
  <2>5. QED
      BY <2>3, <2>4
<1>2. QED
    BY <1>1, CurrentInvariant, PTL DEF Spec, CurrentIsForgottenByItself
------------------------------------------------------------------------------
(* VMs that follow one another.  The invariant that is inductive adds that  *)
(* there is at most one VM, when exactly a table is live, and that a VM has *)
(* put nothing before it is alive.                                          *)
UsesTable(v) == life[v] \in {"building", "alive", "parsing"}

Sole ==
    /\ process # "undefined"
    /\ \A u, v \in VMs : Exists(u) /\ Exists(v) => u = v
    /\ \A n \in 1 .. Len(tables) :
          Live(n) => n = gSymbolTable /\ \E v \in VMs : UsesTable(v)
    /\ \A v \in VMs : UsesTable(v) => Live(gSymbolTable)
    /\ \A v \in VMs : life[v] \in {"none", "building"} => kept[v] = {}
    /\ \A v \in VMs : life[v] \in {"alive", "parsing"} =>
                          gVM = v /\ kept[v] \subseteq tables[gSymbolTable]

SoleInv == TypeOK /\ (~overlapped => Sole)

LEMMA SoleConstruct ==
    ASSUME TypeOK, Sole, NEW v \in VMs, Construct(v), ~overlapped' PROVE Sole'
<1>1. CASE ConstructTable(v)
  <2>1. /\ life'[v] = "building" /\ life[v] = "none"
        /\ \A u \in VMs : u # v => life'[u] = life[u] /\ ~Exists(u)
        /\ process' = process /\ kept' = kept
      BY <1>1, GoesOnlyItself DEF ConstructTable, Life
  <2>2. /\ Len(tables) \in Nat /\ Len(tables') = Len(tables) + 1
        /\ gSymbolTable' = Len(tables) + 1 /\ freed' = freed
      BY <1>1, InitTables DEF ConstructTable
  <2>3. freed \subseteq 1 .. Len(tables)
      BY DEF TypeOK
  <2>4. \A u \in VMs : ~UsesTable(u)
      BY <2>1 DEF Exists, UsesTable
  <2>5. \A n \in 1 .. Len(tables) : n \in freed
      BY <2>4 DEF Sole, Live, NoTable
  <2>6. Live(gSymbolTable)'
      BY <2>2, <2>3 DEF Live, NoTable
  <2>7. \A n \in 1 .. Len(tables') : Live(n)' => n = gSymbolTable'
      BY <2>2, <2>5 DEF Live
  <2>8. \A u \in VMs : u # v => life'[u] \in {"none", "dead"}
      BY <2>1 DEF Exists
  <2>9. QED
      BY <2>1, <2>6, <2>7, <2>8 DEF Sole, Exists, UsesTable
<1>2. CASE ConstructCurrent(v)
  <2>1. /\ life'[v] = "alive" /\ life[v] = "building"
        /\ \A u \in VMs : u # v => life'[u] = life[u]
        /\ gVM' = v /\ process' = process /\ kept' = kept
        /\ gSymbolTable' = gSymbolTable /\ tables' = tables /\ freed' = freed
      BY <1>2, GoesOnlyItself DEF ConstructCurrent, tableVars, Life
  <2>2. \A n : Live(n)' <=> Live(n)
      BY <2>1 DEF Live
  <2>3. \A u \in VMs : Exists(u)' <=> Exists(u)
      BY <2>1 DEF Exists
  <2>4. \A u \in VMs : UsesTable(u)' <=> UsesTable(u)
      BY <2>1 DEF UsesTable
  <2>5. \A u \in VMs : u # v => life[u] \notin {"alive", "parsing"}
      BY <2>1 DEF Sole, Exists
  <2>6. kept[v] = {}
      BY <2>1 DEF Sole
  <2>7. QED
      BY <2>1, <2>2, <2>3, <2>4, <2>5, <2>6 DEF Sole
<1>3. QED
    BY <1>1, <1>2 DEF Construct

LEMMA SoleStart ==
    ASSUME TypeOK, Sole, NEW v \in VMs, start(v) PROVE Sole'
<1>1. /\ life[v] \in {"alive", "parsing"} /\ life'[v] \in {"alive", "parsing"}
      /\ \A u \in VMs : u # v => life'[u] = life[u]
      /\ gVM' = gVM /\ gSymbolTable' = gSymbolTable /\ freed' = freed
    BY GoesOnlyItself
    DEF start, StartFinds, StartFindsNot, ParsePuts, ParseThrows, ParseAborts,
        ParseReturns, Life, tableVars
<1>2. /\ \A n : Live(n)' <=> Live(n)
      /\ \A u \in VMs : Exists(u)' <=> Exists(u)
      /\ \A u \in VMs : UsesTable(u)' <=> UsesTable(u)
    BY <1>1 DEF Live, Exists, UsesTable
<1>3. \A u \in VMs : u # v => ~Exists(u)
    BY <1>1 DEF Sole, Exists
<1>4. Live(gSymbolTable) /\ gVM = v /\ kept[v] \subseteq tables[gSymbolTable]
    BY <1>1 DEF Sole, UsesTable
<1>5. ASSUME NEW x \in Texts, ParsePuts(v, x) PROVE Sole'
  <2>1. /\ tables' = [tables EXCEPT ![gSymbolTable] = @ \cup {x}]
        /\ kept' = [kept EXCEPT ![v] = @ \cup {x}] /\ process' = process
      BY <1>4, <1>5 DEF ParsePuts
  <2>2. /\ Len(tables') = Len(tables)
        /\ tables'[gSymbolTable] = tables[gSymbolTable] \cup {x}
      BY <1>4, <2>1, PutTables
  <2>3. /\ kept'[v] = kept[v] \cup {x}
        /\ \A u \in VMs : u # v => kept'[u] = kept[u]
      BY <2>1 DEF TypeOK
  <2>4. kept'[v] \subseteq tables'[gSymbolTable']
      BY <1>1, <1>4, <2>2, <2>3
  <2>5. \A u \in VMs : u # v => life'[u] \in {"none", "dead"}
      BY <1>1, <1>3 DEF Exists
  <2>6. QED
      BY <1>1, <1>2, <1>4, <2>1, <2>2, <2>3, <2>4, <2>5 DEF Sole
<1>6. ASSUME \/ StartFinds(v) \/ StartFindsNot(v) \/ ParseThrows(v)
             \/ ParseAborts(v) \/ ParseReturns(v)
      PROVE  Sole'
  <2>1. tables' = tables /\ kept' = kept /\ process' # "undefined"
      BY <1>6
      DEF StartFinds, StartFindsNot, ParseThrows, ParseAborts, ParseReturns,
          history, tableVars, Sole
  <2>2. QED
      BY <1>1, <1>2, <2>1 DEF Sole
<1>7. QED
    BY <1>5, <1>6 DEF start

LEMMA SoleDestroy ==
    ASSUME TypeOK, Sole, NEW v \in VMs, Destroy(v) PROVE Sole'
<1>1. /\ life[v] \in {"alive", "released", "resetting"}
      /\ life'[v] \in {"released", "resetting", "dead"}
      /\ \A u \in VMs : u # v => life'[u] = life[u]
      /\ tables' = tables /\ kept' = kept /\ gSymbolTable' = gSymbolTable
    BY GoesOnlyItself
    DEF Destroy, DestroyTable, DestroyCompare, DestroyReset, release, Life,
        history, tableVars
<1>2. \A u \in VMs : u # v => life'[u] \in {"none", "dead"}
    BY <1>1 DEF Sole, Exists
<1>3. /\ \A u, w \in VMs : Exists(u)' /\ Exists(w)' => u = w
      /\ \A u \in VMs : ~UsesTable(u)'
      /\ \A u \in VMs : life'[u] \notin {"building", "alive", "parsing"}
    BY <1>1, <1>2 DEF Exists, UsesTable
<1>4. /\ process' = process
      /\ \A n \in 1 .. Len(tables) : n \in freed'
  <2>1. CASE DestroyTable(v)
    <3>1. life[v] = "alive"
        BY <2>1 DEF DestroyTable, Goes
    <3>2. Live(gSymbolTable)
        BY <3>1 DEF Sole, UsesTable
    <3>3. process' = process /\ freed' = freed \cup {gSymbolTable}
        BY <2>1, <3>2 DEF DestroyTable, release
    <3>4. \A n \in 1 .. Len(tables) : n \in freed \/ n = gSymbolTable
        BY DEF Sole, Live, NoTable
    <3>5. QED
        BY <3>3, <3>4
  <2>2. CASE DestroyCompare(v) \/ DestroyReset(v)
    <3>1. /\ life[v] \in {"released", "resetting"}
          /\ process' = process /\ freed' = freed
        BY <2>2 DEF DestroyCompare, DestroyReset, Goes, tableVars
    <3>2. \A u \in VMs : ~UsesTable(u)
        BY <3>1 DEF Sole, Exists, UsesTable
    <3>3. QED
        BY <3>1, <3>2 DEF Sole, Live, NoTable
  <2>3. QED
      BY <2>1, <2>2 DEF Destroy
<1>5. \A n \in 1 .. Len(tables') : ~Live(n)'
    BY <1>1, <1>4 DEF Live
<1>6. \A u \in VMs : life'[u] = "none" => kept'[u] = {}
    BY <1>1 DEF Sole
<1>7. process' # "undefined"
    BY <1>4 DEF Sole
<1>8. QED
    BY <1>3, <1>5, <1>6, <1>7 DEF Sole

LEMMA SoleStep == SoleInv /\ [Next]_vars => SoleInv'
<1> SUFFICES ASSUME SoleInv, [Next]_vars, ~overlapped' PROVE Sole'
    BY TypeStep DEF SoleInv
<1>1. overlapped' = FALSE => overlapped = FALSE
    BY DEF Next, Done, vars, history, Construct, ConstructTable,
           ConstructCurrent, start, StartFinds, StartFindsNot, ParsePuts,
           ParseThrows, ParseAborts, ParseReturns, Destroy, DestroyTable,
           DestroyCompare, DestroyReset, SoleInv, TypeOK
<1>2. TypeOK /\ Sole
    BY <1>1, TypeStep DEF SoleInv, TypeOK
<1>3. CASE UNCHANGED vars
    BY <1>2, <1>3 DEF Sole, Exists, UsesTable, Live, vars, history, tableVars
<1>4. QED
    BY <1>2, <1>3, SoleConstruct, SoleStart, SoleDestroy DEF Next, Done

(* VMs whose lifetimes do not overlap each have a table of their own from   *)
(* constructor to destructor with all that they put, leak none and free     *)
(* none twice, for any number of VMs.                                       *)
THEOREM OneVMAtATimeIsSound == Spec => []SoleVMHasItsTable
<1>1. Init => SoleInv
  <2> SUFFICES ASSUME Init PROVE Sole
      BY TypeInit DEF SoleInv
  <2>1. Len(tables) = 0
      BY EmptySeq DEF Init
  <2>2. QED
      BY <2>1 DEF Init, Sole, Exists, UsesTable
<1>2. SoleInv => SoleVMHasItsTable
    BY DEF SoleInv, Sole, SoleVMHasItsTable, Exists, UsesTable
<1>3. QED
    BY <1>1, <1>2, SoleStep, PTL DEF Spec
=============================================================================
