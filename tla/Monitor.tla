------------------------------- MODULE Monitor -------------------------------
(***************************************************************************)
(* What Serialized methods promise: each is a reentrant monitor.  A thread *)
(* may enter one that is empty or that it is already in; it leaves it once *)
(* for every time it entered.                                              *)
(***************************************************************************)
EXTENDS Naturals

CONSTANTS Threads, Serialized

VARIABLE inside \* [Serialized -> [Threads -> activations of the method]]

Init == inside = [f \in Serialized |-> [t \in Threads |-> 0]]

Enter(t, f) ==
  /\ \A u \in Threads \ {t} : inside[f][u] = 0
  /\ inside' = [inside EXCEPT ![f][t] = @ + 1]

Leave(t, f) ==
  /\ inside[f][t] > 0
  /\ inside' = [inside EXCEPT ![f][t] = @ - 1]

Next == \E t \in Threads, f \in Serialized : Enter(t, f) \/ Leave(t, f)

Spec == Init /\ [][Next]_inside
=============================================================================
