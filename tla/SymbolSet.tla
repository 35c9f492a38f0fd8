------------------------------ MODULE SymbolSet ------------------------------
(****************************************************************************)
(* What the global symbol table promises the threads that share it: a set   *)
(* of texts that only grows.  A call takes effect at one instant between    *)
(* its call and its return, except that a put which finds its text absent   *)
(* adds it at a later instant, when another put may have added it already:  *)
(* of two racing puts of one text, both may answer TRUE.                    *)
(****************************************************************************)
CONSTANTS
    Threads,
    Texts

VARIABLES
    members,    \* The texts that the table has a symbol of.
    op,         \* What each thread is calling, or "none".
    arg,        \* The text it calls it with.
    outcome     \* What the call has found, or done, so far.

vars == <<members, op, arg, outcome>>

Operations == {"putSymbol", "contains"}

TypeOK ==
    /\ members \subseteq Texts
    /\ op \in [Threads -> Operations \cup {"none"}]
    /\ arg \in [Threads -> Texts]
    /\ outcome \in [Threads -> {"pending", "present", "absent", "inserted"}]

Init ==
    /\ members = {}
    /\ op = [t \in Threads |-> "none"]
    /\ arg \in [Threads -> Texts]
    /\ outcome = [t \in Threads |-> "pending"]

Call(t, operation, x) ==
    /\ op[t] = "none"
    /\ op' = [op EXCEPT ![t] = operation]
    /\ arg' = [arg EXCEPT ![t] = x]
    /\ UNCHANGED <<members, outcome>>

Look(t) ==
    /\ op[t] # "none"
    /\ outcome[t] = "pending"
    /\ outcome' = [outcome EXCEPT
                      ![t] = IF arg[t] \in members THEN "present" ELSE "absent"]
    /\ UNCHANGED <<members, op, arg>>

Insert(t) ==
    /\ op[t] = "putSymbol"
    /\ outcome[t] = "absent"
    /\ members' = members \cup {arg[t]}
    /\ outcome' = [outcome EXCEPT ![t] = "inserted"]
    /\ UNCHANGED <<op, arg>>

(* putSymbol answers outcome = "inserted", contains outcome = "present".    *)
Return(t) ==
    /\ op[t] # "none"
    /\ outcome[t] \in
          IF op[t] = "putSymbol" THEN {"present", "inserted"}
                                 ELSE {"present", "absent"}
    /\ op' = [op EXCEPT ![t] = "none"]
    /\ outcome' = [outcome EXCEPT ![t] = "pending"]
    /\ UNCHANGED <<members, arg>>

Next ==
    \E t \in Threads :
        \/ \E operation \in Operations, x \in Texts : Call(t, operation, x)
        \/ Look(t)
        \/ Insert(t)
        \/ Return(t)

Spec == Init /\ [][Next]_vars
==============================================================================
