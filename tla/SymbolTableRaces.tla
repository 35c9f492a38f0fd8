-------------------------- MODULE SymbolTableRaces --------------------------
(****************************************************************************)
(* SymbolTable with a history variable, for the one question that the state *)
(* of the table does not answer: which threads raced to insert a text.  The *)
(* steps are those of SymbolTable.                                          *)
(****************************************************************************)
EXTENDS SymbolTable

VARIABLE
    racers      \* History: who was to insert a text when it first went in.

raceVars == <<vars, racers>>

RaceInit == Init /\ racers = [x \in Texts |-> {}]

(* A text's racers are the thread that inserts its first symbol and those   *)
(* that have looked before it did and will insert after it.                 *)
RecordRacers ==
    racers' = [x \in Texts |->
                  IF Copies(x) = {} /\ Copies(x)' # {} THEN AtPut(x) ELSE racers[x]]

RaceNext == Next /\ RecordRacers

RaceSpec == RaceInit /\ [][RaceNext]_raceVars

(* A text has more than one symbol only if puts of it raced: who inserts it *)
(* after its first symbol went in had looked for it before, and inserts it  *)
(* once; every later put finds it, however many calls follow and whatever   *)
(* else its bucket holds.  (One symbol per text, which pointer comparisons  *)
(* of names would need, is not what the code gives.)                        *)
CopiesBoundedByRacers ==
    \A x \in Texts :
        Copies(x) # {} =>
            /\ AtPut(x) \subseteq racers[x]
            /\ Cardinality(Copies(x)) + Cardinality(AtPut(x)) <=
                   Cardinality(racers[x])
=============================================================================
