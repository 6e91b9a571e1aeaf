---------------------------- MODULE Localization ----------------------------
(***************************************************************************)
(* What `local` promises: a scope that localizes a package variable gives  *)
(* it back, when it is left in whatever way, the value it had before; and  *)
(* nothing else changes then.  Open scopes are told apart by a depth: one  *)
(* that is entered is deeper than those it is in.                          *)
(***************************************************************************)
EXTENDS Naturals

CONSTANTS Variables,  \* the package variables
          Values,     \* what they hold
          Undef,      \* the value of one that was never assigned
          Depths      \* of scopes

VARIABLES value,  \* the package variables' values
          undo    \* per open scope: the variables it localizes, with the
                  \* values they had before

Open == DOMAIN undo
Innermost == CHOOSE d \in Open : \A e \in Open : e <= d
Localized == undo[Innermost]
Nothing == [x \in {} |-> Undef]

Init == /\ value = [x \in Variables |-> Undef]
        /\ \E d \in Depths : undo = [e \in {d} |-> Nothing]

Enter == /\ \E d \in Depths :
              /\ \A e \in Open : e < d
              /\ undo' = [e \in Open \cup {d} |-> IF e = d THEN Nothing ELSE undo[e]]
         /\ UNCHANGED value

Assign(x) == /\ \E v \in Values : value' = [value EXCEPT ![x] = v]
             /\ UNCHANGED undo

\* Only the first `local` of a variable in a scope counts.
With(saved, x) ==
    [y \in DOMAIN saved \cup {x} |-> IF y \in DOMAIN saved THEN saved[y] ELSE value[x]]

Save(x) == /\ undo' = [undo EXCEPT ![Innermost] = With(Localized, x)]
           /\ UNCHANGED value

Local(x) == /\ undo' = [undo EXCEPT ![Innermost] = With(Localized, x)]
            /\ \E v \in Values : value' = [value EXCEPT ![x] = v]

\* The outermost scope is not left.
Leave ==
    /\ \E d \in Open : d < Innermost
    /\ value' = [x \in Variables |-> IF x \in DOMAIN Localized THEN Localized[x] ELSE value[x]]
    /\ undo' = [d \in Open \ {Innermost} |-> undo[d]]

Next == \/ Enter
        \/ Leave
        \/ \E x \in Variables : Assign(x) \/ Local(x) \/ Save(x)

Spec == Init /\ [][Next]_<<value, undo>>
=============================================================================
