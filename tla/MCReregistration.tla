--------------------------- MODULE MCReregistration ---------------------------
(* An instance of the re-registration memory for TLC.                      *)
EXTENDS Reregistration

\* Bound: what goes wrong or comes from outside happens once in a behaviour: a
\* failure, a hold or another writer's row.
OneDisturbance == failures + turns + Cardinality(foreign) <= 1

\* Bound: other writers' digests that a lookup believes, in our format and in the old
\* one, one of ours that it does not, and one in a format of their own under our scheme.
ForeignKinds ==
    Matching \cup {<<"hmac", "unverified">>, <<"other", "hmac">>}

\* Bound: a tombstone is digested by others in their own format only.
Bounds == /\ OneDisturbance
          /\ \A w \in foreign : /\ <<w.format, w.scheme>> \in ForeignKinds
                                /\ w.id = Tombstone => w.format = "other"

MCSpec == Init /\ [][Next /\ Bounds']_vars /\ Fairness
=============================================================================
