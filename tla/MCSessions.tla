----------------------------- MODULE MCSessions -----------------------------
(* Small instances of Sessions: a second of two ticks, lifetimes of seconds. *)
EXTENDS SessionsAccess, TLC

OneSecond == [value |-> 1, unit |-> "s"]
TwoSeconds == [value |-> 2, unit |-> "s"]
ThreeSeconds == [value |-> 3, unit |-> "s"]

(* Requests are interchangeable. *)
RequestSymmetry == Permutations(Requests)

(* Lifetimes an operator may configure; 60 years is the most TLC can count. *)
SomeLifetimes == [value : {1, 5, 60}, unit : Units]
=============================================================================
