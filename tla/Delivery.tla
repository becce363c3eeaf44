------------------------------- MODULE Delivery -------------------------------
(***************************************************************************)
(* What an export promises to the person who asked for it, with nothing of *)
(* how the archive is collected: the archive is offered once, with contents *)
(* and a label (partial or not) that are final; it stays on offer until it  *)
(* is taken or its window has closed; taking it spends the offer, and then  *)
(* at most one copy is handed over. What was withdrawn or spent never comes *)
(* back.                                                                   *)
(***************************************************************************)
EXTENDS Naturals

CONSTANTS Exports, Services, Ttl

VARIABLES stage, contents, partial, ends, copies, clock

vars == <<stage, contents, partial, ends, copies, clock>>

Stage == {"none", "asked", "offered", "taken", "handed", "withdrawn"}

Init == /\ stage    = [x \in Exports |-> "none"]
        /\ contents = [x \in Exports |-> {}]
        /\ partial  = [x \in Exports |-> FALSE]
        /\ ends     = [x \in Exports |-> 0]
        /\ copies   = [x \in Exports |-> 0]
        /\ clock    = 0

Becomes(x, from, to) == stage[x] = from /\ stage' = [stage EXCEPT ![x] = to]

Ask(x) == /\ Becomes(x, "none", "asked")
          /\ UNCHANGED <<contents, partial, ends, copies, clock>>

Offer(x, sections, gaps) ==
    /\ Becomes(x, "asked", "offered")
    /\ contents' = [contents EXCEPT ![x] = sections]
    /\ partial'  = [partial  EXCEPT ![x] = gaps]
    /\ ends'     = [ends     EXCEPT ![x] = clock + Ttl]
    /\ UNCHANGED <<copies, clock>>

Take(x) == /\ Becomes(x, "offered", "taken")
           /\ UNCHANGED <<contents, partial, ends, copies, clock>>

Hand(x) == /\ Becomes(x, "taken", "handed")
           /\ copies' = [copies EXCEPT ![x] = @ + 1]
           /\ UNCHANGED <<contents, partial, ends, clock>>

Withdraw(x) == /\ Becomes(x, "offered", "withdrawn")
               /\ ends[x] <= clock
               /\ UNCHANGED <<contents, partial, ends, copies, clock>>

Pass == clock' = clock + 1 /\ UNCHANGED <<stage, contents, partial, ends, copies>>

Next == \/ \E x \in Exports :
              \/ Ask(x) \/ Take(x) \/ Hand(x) \/ Withdraw(x)
              \/ \E sections \in SUBSET Services, gaps \in BOOLEAN : Offer(x, sections, gaps)
        \/ Pass

Spec == Init /\ [][Next]_vars
=============================================================================
