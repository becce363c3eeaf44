----------------------------- MODULE Certificate -----------------------------
(***************************************************************************)
(* What an erasure promises to whoever reads its outcome, with nothing of  *)
(* how the orchestrator gets there: a set of owners is asked once, receipts *)
(* only accumulate, and the word "complete" is published only while every  *)
(* owner asked has answered. Giving up (a timeout, a waiver) is always      *)
(* possible and never reads as completion.                                 *)
(***************************************************************************)
CONSTANTS Requests, Owners

VARIABLES asked, receipts, verdict

vars == <<asked, receipts, verdict>>

Verdict == {"none", "pending", "complete", "incomplete"}

Init == /\ asked    = [r \in Requests |-> {}]
        /\ receipts = [r \in Requests |-> {}]
        /\ verdict  = [r \in Requests |-> "none"]

Ask(r, owners) ==
    /\ verdict[r] = "none"
    /\ asked'   = [asked   EXCEPT ![r] = owners]
    /\ verdict' = [verdict EXCEPT ![r] = "pending"]
    /\ UNCHANGED receipts

Receive(r, o) ==
    /\ o \in asked[r] \ receipts[r]
    /\ receipts' = [receipts EXCEPT ![r] = @ \cup {o}]
    /\ UNCHANGED <<asked, verdict>>

Certify(r) ==
    /\ verdict[r] \in {"pending", "incomplete"}
    /\ asked[r] # {} /\ receipts[r] = asked[r]
    /\ verdict' = [verdict EXCEPT ![r] = "complete"]
    /\ UNCHANGED <<asked, receipts>>

GiveUp(r) ==
    /\ verdict[r] # "none"
    /\ verdict' = [verdict EXCEPT ![r] = "incomplete"]
    /\ UNCHANGED <<asked, receipts>>

Next == \E r \in Requests : \/ \E owners \in SUBSET Owners : Ask(r, owners)
                            \/ \E o \in Owners : Receive(r, o)
                            \/ Certify(r)
                            \/ GiveUp(r)

Spec == Init /\ [][Next]_vars
=============================================================================
