----------------------------- MODULE MCClosure -----------------------------
(* Instances of the account closure for TLC.                               *)
EXTENDS Closure, TLC

CONSTANTS o1, o2

\* o1 is the in-process provider, o2 a remote owner.
Sound   == [claims |-> (Account :> {o1, o2}), local |-> {o1}, registered |-> {o1}]
\* o1 declared local, its provider never registered.
Broken  == [Sound EXCEPT !.registered = {}]
\* A release whose inventory forgot o2.
Smaller == [Sound EXCEPT !.claims = (Account :> {o1})]

MCOwners   == {o1, o2}
MCSound    == {Sound}
MCAll      == {Sound, Smaller, Broken}
MCTimeout  == [o \in MCOwners |-> 1]
MCPatient  == [o \in MCOwners |-> 9]
=============================================================================
