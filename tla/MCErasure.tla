----------------------------- MODULE MCErasure -----------------------------
(* Instances of the receipts ledger for TLC.                               *)
EXTENDS Erasure, TLC

CONSTANTS o1, o2, r1, r2, k1, w1, w2, p1, file, room

\* Both owners claim "file", only o1 claims "room"; o1 runs in-process.
Sound   == [claims     |-> (file :> {o1, o2}) @@ (room :> {o1}),
            local      |-> {o1},
            registered |-> {o1}]
\* A release that forgot o2 and lets nobody claim "room".
Smaller == [Sound EXCEPT !.claims = (file :> {o1}) @@ (room :> {})]

MCOwners     == {o1, o2}
MCSound      == {Sound}
MCRegistries == {Sound, Smaller}
MCFileOnly   == {[claims |-> (file :> {o1, o2}), local |-> {o1},
                   registered |-> {o1}]}
MCTimeout    == [o \in MCOwners |-> 1]
\* Request ids and workers are interchangeable; owners are not (only o1
\* claims "room").
MCSymmetry   == Permutations({r1, r2}) \cup Permutations({w1, w2})
=============================================================================
