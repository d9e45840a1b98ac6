---------------------------- MODULE AliasClasses ----------------------------
(***************************************************************************)
(* What an alias context promises its clients: values enter it one class   *)
(* each, or in the class of a value they were copied from, and classes are *)
(* united two at a time.  Nothing ever leaves its class, so a "may alias"  *)
(* answer once given is never withdrawn.                                   *)
(***************************************************************************)
CONSTANT Value

VARIABLE classes   \* disjoint nonempty sets of values

Known == UNION classes

ClassesOK == /\ classes \subseteq (SUBSET Value) \ {{}}
             /\ \A c, d \in classes : c # d => c \cap d = {}

Init == classes = {}

\* The classes once the values of S that are not known stand alone.
Alone(S) == classes \cup {{v} : v \in S \ Known}

Enter == \E S \in SUBSET Value : classes' = Alone(S)

\* A value v not known before joins the class of another one.
Join == \E S \in SUBSET Value : \E v \in Value \ (S \cup Known) : \E c \in Alone(S) :
          classes' = (Alone(S) \ {c}) \cup {c \cup {v}}

Unite == \E c, d \in classes :
           c # d /\ classes' = (classes \ {c, d}) \cup {c \cup d}

Next == Enter \/ Join \/ Unite

Spec == Init /\ [][Next]_classes
=============================================================================
