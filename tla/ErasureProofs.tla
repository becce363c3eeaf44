---------------------------- MODULE ErasureProofs ----------------------------
(***************************************************************************)
(* Machine-checked proofs about module Erasure, for any sets of owners,    *)
(* requests, keys, workers and sweepers, any inventory and any timeouts.   *)
(***************************************************************************)
EXTENDS Erasure, TLAPS

LEMMA IdleTyped == IdleJob \in Job /\ IdleSweep \in SweepCall
  BY DEF IdleJob, Handling, Job, IdleSweep, Sweeping, SweepCall

\* What a call keeps in its locals is typed when its pieces are.
LEMMA HandlingTyped ==
  ASSUME NEW r \in Requests \cup {NoReq}, NEW b \in BOOLEAN,
         NEW pc \in {"idle", "refresh", "gate", "judge", "save", "oblige", "close"}
  PROVE  Handling(r, pc, b) \in Job
  BY DEF Handling, Job

LEMMA SweepingTyped ==
  ASSUME NEW pc \in {"idle", "update", "select", "flip"}, NEW cut \in Nat,
         NEW affected \in SUBSET (Requests \X Owners), NEW todo \in SUBSET Requests
  PROVE  Sweeping(pc, cut, affected, todo) \in SweepCall
  BY DEF Sweeping, SweepCall

(***************************************************************************)
(* Type correctness                                                        *)
(***************************************************************************)

LEMMA TypeInit == Init => TypeOK
  BY IdleTyped, ConstantsAssumption DEF Init, TypeOK, ReqState, PartState

LEMMA TypeStep == TypeOK /\ [Next]_vars => TypeOK'
  <1> SUFFICES ASSUME TypeOK, [Next]_vars PROVE TypeOK'
    OBVIOUS
  <1> USE ConstantsAssumption, IdleTyped
  <1>1. ASSUME NEW w \in Workers, NEW s \in Subjects, NEW k \in Keys \cup {NoKey},
               RequestErasure(w, s, k)
        PROVE TypeOK'
    BY <1>1 DEF TypeOK, RequestErasure, Become, Inserting, Handling, Job, ledger, rows, parts, outside
  <1>2. ASSUME NEW w \in Workers, NEW r \in Requests, RequeueAfterRestore(w, r)
        PROVE TypeOK'
    BY <1>2 DEF TypeOK, RequeueAfterRestore, Become, Inserting, Handling, Job, ledger, rows, parts, outside
  <1>3. ASSUME NEW w \in Workers, RequestErasureInsert(w)
        PROVE TypeOK'
    BY <1>3 DEF TypeOK, RequestErasureInsert, InsertRow, Return, Become, Handling, Job, DueAt, Message,
                ReqState, PartState, outside
  <1>4. ASSUME NEW w \in Workers, RequestErasureLost(w)
        PROVE TypeOK'
    BY <1>4 DEF TypeOK, RequestErasureLost, Return, Become, ledger, rows, parts, outside
  <1>5. ASSUME NEW w \in Workers, Judge(w)
        PROVE TypeOK'
    <2>1. job[w] \in Job /\ job[w].req \in Requests \cup {NoReq}
      BY DEF TypeOK, Job
    <2>2. Blocked(job[w].req) \in BOOLEAN
      BY DEF Blocked
    <2>3. Handling(job[w].req, "save", Blocked(job[w].req)) \in Job
      BY <2>1, <2>2, HandlingTyped
    <2>4. job' \in [Workers -> Job]
      BY <1>5, <2>3 DEF TypeOK, Judge, Return, Become
    <2> QED
      BY <1>5, <2>4 DEF TypeOK, Judge, ledger, rows, parts, outside
  <1>6. ASSUME NEW w \in Workers, SaveDeleted(w)
        PROVE TypeOK'
    BY <1>6 DEF TypeOK, SaveDeleted, Goto, Become, Handling, Job, ReqState, parts, outside
  <1>7. ASSUME NEW w \in Workers, NEW p \in Processors, Oblige(w, p)
        PROVE TypeOK'
    BY <1>7 DEF TypeOK, Oblige, rows, parts, outside
  <1>8. ASSUME NEW w \in Workers, NEW r \in Requests, NEW o \in Owners,
               MarkSectionErased(w, r, o)
        PROVE TypeOK'
    BY <1>8 DEF TypeOK, MarkSectionErased, Become, Inserting, Handling, Job, PartState, rows, outside
  <1>9. ASSUME NEW w \in Workers, Refresh(w)
        PROVE TypeOK'
    <2>1. /\ job[w].req \in Requests \cup {NoReq}
          /\ job[w].waive \in BOOLEAN
      BY DEF TypeOK, Job
    <2>2. Handling(job[w].req, "judge", job[w].waive) \in Job
      BY <2>1, HandlingTyped
    <2>3. job' \in [Workers -> Job]
      BY <1>9, <2>2 DEF TypeOK, Refresh, RefreshTo, Goto, Return, Become
    <2> QED
      BY <1>9, <2>3 DEF TypeOK, Refresh, RefreshTo, ledger, rows, parts, outside
  <1>10. ASSUME NEW w \in Workers, Obliged(w)
        PROVE TypeOK'
    BY <1>10 DEF TypeOK, Obliged, ObligedTo, Become, ledger, rows, parts, outside
  <1>11. ASSUME NEW w \in Workers, Crash(w)
        PROVE TypeOK'
    BY <1>11 DEF TypeOK, Crash, Return, Become, ledger, rows, parts, outside
  <1>12. ASSUME NEW s \in Sweepers, SweepRead(s)
        PROVE TypeOK'
    BY <1>12 DEF TypeOK, SweepRead, Sweeping, SweepCall, Overdue, ledger, rows, parts, outside
  <1>13. ASSUME NEW s \in Sweepers, SweepUpdate(s)
        PROVE TypeOK'
    BY <1>13 DEF TypeOK, SweepUpdate, Sweeping, SweepCall, PartState, rows, outside
  <1>14. ASSUME NEW s \in Sweepers, SweepSelect(s)
        PROVE TypeOK'
    BY <1>14 DEF TypeOK, SweepSelect, Sweeping, SweepCall, ledger, rows, parts, outside
  <1>15. ASSUME NEW s \in Sweepers, NEW r \in Requests, SweepFlip(s, r)
        PROVE TypeOK'
    <2>1. /\ sweep[s].cut \in Nat
          /\ sweep[s].affected \in SUBSET (Requests \X Owners)
          /\ sweep[s].todo \ {r} \in SUBSET Requests
      BY DEF TypeOK, SweepCall
    <2>2. Sweeping("flip", sweep[s].cut, sweep[s].affected, sweep[s].todo \ {r})
            \in SweepCall
      BY <2>1, SweepingTyped
    <2>3. sweep' \in [Sweepers -> SweepCall]
      BY <1>15, <2>2 DEF TypeOK, SweepFlip
    <2> DEFINE named == {o \in Owners : <<r, o>> \in sweep[s].affected}
    <2>4. [type |-> "timeout", req |-> r, owners |-> named] \in Message
      BY DEF Message
    <2>5. outbox' = outbox \cup {[type |-> "timeout", req |-> r, owners |-> named]}
      BY <1>15 DEF SweepFlip
    <2>6. outbox' \subseteq Message
      <3> HIDE DEF named
      <3> QED BY <2>4, <2>5 DEF TypeOK
    <2> QED
      BY <1>15, <2>3, <2>6 DEF TypeOK, SweepFlip, ReqState, parts, outside
  <1>16. ASSUME NEW s \in Sweepers, SweepCrash(s)
        PROVE TypeOK'
    BY <1>16 DEF TypeOK, SweepCrash, ledger, rows, parts, outside
  <1>17. ASSUME NEW r \in Requests, NEW o \in Owners, OwnerConfirms(r, o)
        PROVE TypeOK'
    BY <1>17 DEF TypeOK, OwnerConfirms, ledger, rows, parts
  <1>18. ASSUME Tick PROVE TypeOK'
    BY <1>18 DEF TypeOK, Tick, ledger, rows, parts
  <1>19. ASSUME NEW g \in Registries, Redeploy(g) PROVE TypeOK'
    BY <1>19 DEF TypeOK, Redeploy, ledger, rows, parts
  <1>20. CASE UNCHANGED vars
    BY <1>20 DEF TypeOK, vars, ledger, rows, parts, outside
  <1> QED
    BY <1>1, <1>2, <1>3, <1>4, <1>5, <1>6, <1>7, <1>8, <1>9, <1>10, <1>11, <1>12,
       <1>13, <1>14, <1>15, <1>16, <1>17, <1>18, <1>19, <1>20
    DEF Next, OpenerStep, CallStep, MarkStep, SweepStep

\* Every field of every row and every local variable of the calls keeps its
\* type, for every value of the constants.
THEOREM TypeCorrect == Spec => []TypeOK
  BY TypeInit, TypeStep, PTL DEF Spec

(***************************************************************************)
(* Receipts                                                                *)
(***************************************************************************)

\* Neither a missing nor a confirmed part of an existing request ever
\* changes again, no confirmation is lost and no row disappears.
LEMMA PartsFinal ==
  ASSUME TypeOK, [Next]_vars, NEW r \in Requests, Exists(r)
  PROVE  /\ Exists(r)'
         /\ confirmed \subseteq confirmed'
         /\ \A o \in Owners : part[r][o] \in {"absent", "done"} =>
               part'[r][o] = part[r][o]
  <1> DEFINE Goal == /\ Exists(r)'
                     /\ confirmed \subseteq confirmed'
                     /\ \A o \in Owners : part[r][o] \in {"absent", "done"} =>
                           part'[r][o] = part[r][o]
  <1>1. ASSUME NEW w \in Workers, OpenerStep(w) PROVE Goal
    BY <1>1 DEF OpenerStep, RequestErasure, RequeueAfterRestore, ledger, rows, parts, outside, Exists
  <1>2. ASSUME NEW w \in Workers, RequestErasureInsert(w) PROVE Goal
    BY <1>2 DEF RequestErasureInsert, InsertRow, TypeOK, Exists, outside
  <1>3. ASSUME NEW w \in Workers, SaveDeleted(w) PROVE Goal
    BY <1>3 DEF SaveDeleted, TypeOK, Exists, parts, outside
  <1>4. ASSUME NEW w \in Workers, NEW q \in Requests, NEW p \in Owners,
               MarkSectionErased(w, q, p)
        PROVE  Goal
    BY <1>4 DEF MarkSectionErased, TypeOK, Exists, rows, outside
  <1>5. ASSUME NEW s \in Sweepers, SweepUpdate(s) PROVE Goal
    BY <1>5 DEF SweepUpdate, Overdue, TypeOK, Exists, rows, outside
  <1>6. ASSUME NEW s \in Sweepers, NEW q \in Requests, SweepFlip(s, q) PROVE Goal
    BY <1>6 DEF SweepFlip, TypeOK, Exists, parts, outside
  <1>7. ASSUME NEW w \in Workers,
               \/ RequestErasureLost(w) \/ Judge(w) \/ Refresh(w) \/ Obliged(w)
               \/ Crash(w) \/ \E p \in Processors : Oblige(w, p)
        PROVE  Goal
    BY <1>7 DEF RequestErasureLost, Judge, Refresh, RefreshTo, Obliged, ObligedTo, Crash,
                Oblige, ledger, rows, parts, outside, Exists
  <1>8. ASSUME NEW s \in Sweepers, SweepRead(s) \/ SweepSelect(s) \/ SweepCrash(s)
        PROVE  Goal
    BY <1>8 DEF SweepRead, SweepSelect, SweepCrash, ledger, rows, parts, outside, Exists
  <1>9. ASSUME NEW q \in Requests, NEW p \in Owners, OwnerConfirms(q, p) PROVE Goal
    BY <1>9 DEF OwnerConfirms, ledger, rows, parts, Exists
  <1>10. CASE Tick \/ (\E g \in Registries : Redeploy(g)) \/ UNCHANGED vars
    BY <1>10 DEF Tick, Redeploy, vars, ledger, rows, parts, outside, Exists
  <1> QED
    BY <1>1, <1>2, <1>3, <1>4, <1>5, <1>6, <1>7, <1>8, <1>9, <1>10
    DEF Next, CallStep, MarkStep, SweepStep

\* A full set of receipts stays full.
LEMMA FullStable ==
  ASSUME TypeOK, [Next]_vars, NEW r \in Requests, Exists(r), FullyReceipted(r)
  PROVE  FullyReceipted(r)'
  BY PartsFinal DEF FullyReceipted

\* CertifiedByReceipts is not inductive: SaveDeleted trusts what Judge saw
\* some steps earlier. The strengthening says what the parts and the locals
\* of a running call guarantee in between.
PartsGrounded ==
    \A r \in Requests, o \in Owners :
        /\ part[r][o] # "absent" => Exists(r)
        /\ part[r][o] = "done"   => <<r, o>> \in confirmed

CallGrounded(w) ==
    job[w].pc \notin {"idle", "insert"} =>
        /\ job[w].req \in Requests /\ Exists(job[w].req)
        /\ \E o \in Owners : part[job[w].req][o] = "done"
        /\ job[w].pc = "save" /\ ~job[w].waive => FullyReceipted(job[w].req)

CallsGrounded == \A w \in Workers : CallGrounded(w)

ReceiptInv == TypeOK /\ PartsGrounded /\ CallsGrounded /\ CertifiedByReceipts

LEMMA ReceiptInit == Init => ReceiptInv
  <1> SUFFICES ASSUME Init PROVE ReceiptInv
    OBVIOUS
  <1>1. TypeOK
    BY TypeInit
  <1>2. PartsGrounded
    BY DEF Init, PartsGrounded
  <1>3. CallsGrounded
    BY DEF Init, CallsGrounded, CallGrounded, IdleJob, Handling
  <1>4. CertifiedByReceipts
    BY DEF Init, CertifiedByReceipts
  <1> QED BY <1>1, <1>2, <1>3, <1>4 DEF ReceiptInv

LEMMA PartsGroundedStep == ReceiptInv /\ [Next]_vars => PartsGrounded'
  <1> SUFFICES ASSUME ReceiptInv, [Next]_vars PROVE PartsGrounded'
    OBVIOUS
  <1> USE DEF ReceiptInv
  <1>1. ASSUME NEW w \in Workers, RequestErasureInsert(w) PROVE PartsGrounded'
    <2>1. PICK q \in Requests : InsertRow(q, job[w].subject, job[w].key, job[w].source)
      BY <1>1 DEF RequestErasureInsert
    <2>2. /\ state' = [state EXCEPT ![q] = "erasing"] /\ confirmed' = confirmed
          /\ \A r \in Requests \ {q} : part'[r] = part[r]
          /\ \A o \in Owners : part'[q][o] \in {"pending", "absent"}
      BY <1>1, <2>1, ZenonT(40) DEF RequestErasureInsert, InsertRow, TypeOK, outside
    <2>3. ASSUME NEW r \in Requests, NEW o \in Owners, r # q
          PROVE  /\ part'[r][o] # "absent" => Exists(r)'
                 /\ part'[r][o] = "done" => <<r, o>> \in confirmed'
      BY <2>2, <2>3 DEF TypeOK, PartsGrounded, Exists
    <2>4. Exists(q)'
      BY <2>2 DEF TypeOK, Exists
    <2> QED BY <2>2, <2>3, <2>4 DEF PartsGrounded
  <1>2. ASSUME NEW w \in Workers, NEW r \in Requests, NEW o \in Owners,
               MarkSectionErased(w, r, o)
        PROVE  PartsGrounded'
    BY <1>2 DEF MarkSectionErased, TypeOK, PartsGrounded, Exists, rows, outside
  <1>3. ASSUME NEW s \in Sweepers, SweepUpdate(s) PROVE PartsGrounded'
    BY <1>3 DEF SweepUpdate, Overdue, TypeOK, PartsGrounded, Exists, rows, outside
  <1>4. CASE part' = part
    <2> SUFFICES ASSUME NEW r \in Requests, NEW o \in Owners
                 PROVE  /\ part'[r][o] # "absent" => Exists(r)'
                        /\ part'[r][o] = "done" => <<r, o>> \in confirmed'
      BY DEF PartsGrounded
    <2>1. part[r][o] # "absent" => Exists(r)
      BY DEF PartsGrounded
    <2>2. part[r][o] = "done" => <<r, o>> \in confirmed
      BY DEF PartsGrounded
    <2>3. Exists(r) => Exists(r)' /\ confirmed \subseteq confirmed'
      BY PartsFinal
    <2> QED BY <1>4, <2>1, <2>2, <2>3
  <1>5. ASSUME NEW w \in Workers, OpenerStep(w) PROVE part' = part
    BY <1>5 DEF OpenerStep, RequestErasure, RequeueAfterRestore, ledger, parts
  <1>6. ASSUME NEW w \in Workers,
               \/ RequestErasureLost(w) \/ Judge(w) \/ Refresh(w) \/ Obliged(w)
               \/ Crash(w) \/ SaveDeleted(w) \/ \E p \in Processors : Oblige(w, p)
        PROVE  part' = part
    BY <1>6 DEF RequestErasureLost, Judge, Refresh, RefreshTo, Obliged, ObligedTo, Crash,
                Oblige, SaveDeleted, ledger, parts
  <1>7. ASSUME NEW s \in Sweepers,
               \/ SweepRead(s) \/ SweepSelect(s) \/ SweepCrash(s)
               \/ \E r \in Requests : SweepFlip(s, r)
        PROVE  part' = part
    BY <1>7 DEF SweepRead, SweepSelect, SweepCrash, SweepFlip, ledger, parts
  <1>8. ASSUME NEW r \in Requests, NEW o \in Owners, OwnerConfirms(r, o)
        PROVE  part' = part
    BY <1>8 DEF OwnerConfirms, ledger, parts
  <1>9. CASE Tick \/ (\E g \in Registries : Redeploy(g)) \/ UNCHANGED vars
    <2> part' = part
      BY <1>9 DEF Tick, Redeploy, vars, ledger, parts
    <2> QED BY <1>4
  <1> QED
    BY <1>1, <1>2, <1>3, <1>4, <1>5, <1>6, <1>7, <1>8, <1>9
    DEF Next, CallStep, MarkStep, SweepStep

\* A call that does not move keeps what it relies on, whatever the others do.
LEMMA CallKept ==
  ASSUME ReceiptInv, [Next]_vars, NEW w \in Workers, job'[w] = job[w]
  PROVE  CallGrounded(w)'
  <1> SUFFICES ASSUME job[w].pc \notin {"idle", "insert"}
               PROVE  /\ job[w].req \in Requests /\ Exists(job[w].req)'
                      /\ \E o \in Owners : part'[job[w].req][o] = "done"
                      /\ job[w].pc = "save" /\ ~job[w].waive =>
                            FullyReceipted(job[w].req)'
    BY DEF CallGrounded, FullyReceipted, Exists
  <1>1. CallGrounded(w) /\ TypeOK
    BY DEF ReceiptInv, CallsGrounded
  <1>2. PICK r \in Requests : r = job[w].req
    BY <1>1 DEF CallGrounded
  <1>3. Exists(r) /\ \E o \in Owners : part[r][o] = "done"
    BY <1>1, <1>2 DEF CallGrounded
  <1>4. Exists(r)' /\ \E o \in Owners : part'[r][o] = "done"
    BY <1>1, <1>3, PartsFinal
  <1>5. job[w].pc = "save" /\ ~job[w].waive => FullyReceipted(r)'
    BY <1>1, <1>2, <1>3, FullStable DEF CallGrounded
  <1> QED BY <1>2, <1>4, <1>5 DEF Exists, FullyReceipted

\* A call that is over, or has not inserted its row yet, relies on nothing.
LEMMA CallFree ==
  ASSUME NEW w \in Workers, job'[w].pc \in {"idle", "insert"}
  PROVE  CallGrounded(w)'
  BY DEF CallGrounded

LEMMA CallsGroundedStep == ReceiptInv /\ [Next]_vars => CallsGrounded'
  <1> SUFFICES ASSUME ReceiptInv, [Next]_vars, NEW v \in Workers
               PROVE  CallGrounded(v)'
    BY DEF CallsGrounded
  <1>0. TypeOK /\ TypeOK' /\ CallsGrounded /\ PartsGrounded
    BY TypeStep DEF ReceiptInv
  <1>1. ASSUME NEW w \in Workers, OpenerStep(w) PROVE CallGrounded(v)'
    <2>1. job'[v] = job[v] \/ job'[v].pc = "insert"
      BY <1>0, <1>1 DEF TypeOK, OpenerStep, RequestErasure, RequeueAfterRestore, Become, Inserting
    <2> QED BY <2>1, CallKept, CallFree
  <1>2. ASSUME NEW w \in Workers,
               \/ RequestErasureInsert(w) \/ RequestErasureLost(w) \/ Obliged(w) \/ Crash(w)
        PROVE  CallGrounded(v)'
    <2>1. job' = [job EXCEPT ![w] = IdleJob]
      BY <1>2 DEF RequestErasureInsert, RequestErasureLost, Obliged, ObligedTo, Crash, Return, Become
    <2>2. job'[v] = job[v] \/ job'[v].pc = "idle"
      BY <1>0, <2>1 DEF TypeOK, IdleJob, Handling
    <2> QED BY <2>2, CallKept, CallFree
  <1>3. ASSUME NEW w \in Workers, NEW r \in Requests, NEW o \in Owners,
               MarkSectionErased(w, r, o)
        PROVE  CallGrounded(v)'
    <2>1. CASE v # w
      <3> job'[v] = job[v]
        BY <1>0, <1>3, <2>1 DEF TypeOK, MarkSectionErased, Become
      <3> QED BY CallKept
    <2>2. CASE v = w
      <3>1. job'[v].pc = "refresh" /\ job'[v].req = r
        BY <1>0, <1>3, <2>2 DEF TypeOK, MarkSectionErased, Become, Handling
      <3>2. part'[r][o] = "done" /\ Exists(r)'
        BY <1>0, <1>3 DEF TypeOK, MarkSectionErased, PartsGrounded, Exists, rows
      <3> QED BY <3>1, <3>2 DEF CallGrounded, Exists
    <2> QED BY <2>1, <2>2
  <1>4. ASSUME NEW w \in Workers, Refresh(w) PROVE CallGrounded(v)'
    <2>1. CASE job'[v] = job[v] \/ job'[v] = IdleJob
      BY <2>1, CallKept, CallFree DEF IdleJob, Handling
    <2>2. CASE v = w /\ job' = [job EXCEPT ![w] = Handling(job[w].req, "judge", job[w].waive)]
      <3>1. job'[v].pc = "judge" /\ job'[v].req = job[v].req
        BY <1>0, <2>2 DEF TypeOK, Handling
      <3>2. UNCHANGED <<part, state>> /\ job[v].pc = "refresh"
        BY <1>4, <2>2 DEF Refresh, RefreshTo, ledger, rows, parts
      <3> QED BY <1>0, <3>1, <3>2 DEF CallsGrounded, CallGrounded, Exists
    <2> QED BY <1>0, <1>4, <2>1, <2>2 DEF TypeOK, Refresh, RefreshTo, Goto, Return, Become
  <1>5. ASSUME NEW w \in Workers, Judge(w) PROVE CallGrounded(v)'
    <2>1. CASE job'[v] = job[v] \/ job'[v] = IdleJob
      BY <2>1, CallKept, CallFree DEF IdleJob, Handling
    <2>2. CASE /\ v = w
               /\ job' = [job EXCEPT ![w] = Handling(job[w].req, "save", Blocked(job[w].req))]
      <3>1. /\ job'[v].pc = "save" /\ job'[v].req = job[v].req
            /\ job'[v].waive = Blocked(job[v].req)
        BY <1>0, <2>2 DEF TypeOK, Handling
      <3>2. UNCHANGED <<part, state, confirmed>> /\ job[v].pc = "judge"
        BY <1>5, <2>2 DEF Judge, ledger, rows, parts, outside
      <3>3. PICK r \in Requests : r = job[v].req
        BY <1>0, <3>2 DEF CallsGrounded, CallGrounded
      <3>4. Exists(r) /\ \E o \in Owners : part[r][o] = "done"
        BY <1>0, <3>2, <3>3 DEF CallsGrounded, CallGrounded
      <3>5. ~Blocked(r) => FullyReceipted(r)
        BY <1>0, <3>4 DEF Blocked, Unreceipted, Asked, Receipts, FullyReceipted, PartsGrounded
      <3>6. ~job'[v].waive => FullyReceipted(r)'
        BY <3>1, <3>2, <3>3, <3>5 DEF FullyReceipted
      <3> QED BY <3>1, <3>2, <3>3, <3>4, <3>6 DEF CallGrounded, Exists, FullyReceipted
    <2> QED BY <1>0, <1>5, <2>1, <2>2 DEF TypeOK, Judge, Return, Become
  <1>6. ASSUME NEW w \in Workers, SaveDeleted(w) PROVE CallGrounded(v)'
    <2>1. CASE v # w
      <3> job'[v] = job[v]
        BY <1>0, <1>6, <2>1 DEF TypeOK, SaveDeleted, Goto, Become
      <3> QED BY CallKept
    <2>2. CASE v = w
      <3>1. job'[v].pc = "oblige" /\ job'[v].req = job[v].req
        BY <1>0, <1>6, <2>2 DEF TypeOK, SaveDeleted, Goto, Become, Handling
      <3>2. job[v].pc = "save" /\ part' = part
            /\ state' = [state EXCEPT ![job[v].req] = "deleted"]
        BY <1>6, <2>2 DEF SaveDeleted, parts
      <3> QED BY <1>0, <3>1, <3>2 DEF TypeOK, CallsGrounded, CallGrounded, Exists
    <2> QED BY <2>1, <2>2
  <1>7. ASSUME NEW w \in Workers, NEW p \in Processors, Oblige(w, p)
        PROVE  CallGrounded(v)'
    <2> job' = job
      BY <1>7 DEF Oblige
    <2> QED BY CallKept
  <1>8. ASSUME NEW s \in Sweepers, SweepStep(s) \/ SweepCrash(s) PROVE CallGrounded(v)'
    <2> job' = job
      BY <1>8 DEF SweepStep, SweepRead, SweepUpdate, SweepSelect, SweepFlip, SweepCrash
    <2> QED BY CallKept
  <1>9. ASSUME NEW g \in Registries, Redeploy(g) PROVE CallGrounded(v)'
    <2> job'[v].pc = "idle"
      BY <1>9 DEF Redeploy, IdleJob, Handling
    <2> QED BY CallFree
  <1>10. CASE \/ \E r \in Requests, o \in Owners : OwnerConfirms(r, o)
              \/ Tick \/ UNCHANGED vars
    <2> job' = job
      BY <1>10 DEF OwnerConfirms, Tick, vars
    <2> QED BY CallKept
  <1> QED
    BY <1>1, <1>2, <1>3, <1>4, <1>5, <1>6, <1>7, <1>8, <1>9, <1>10
    DEF Next, CallStep, MarkStep

LEMMA CertifiedStep == ReceiptInv /\ [Next]_vars => CertifiedByReceipts'
  <1> SUFFICES ASSUME ReceiptInv, [Next]_vars, NEW r \in Requests,
                      state'[r] = "deleted", ~waived'[r]
               PROVE  FullyReceipted(r)'
    BY DEF CertifiedByReceipts
  <1>0. TypeOK /\ CallsGrounded /\ CertifiedByReceipts
    BY DEF ReceiptInv
  <1>1. CASE state[r] = "deleted" /\ ~waived[r]
    <2> Exists(r) /\ FullyReceipted(r)
      BY <1>0, <1>1 DEF CertifiedByReceipts, Exists
    <2> QED BY <1>0, FullStable
  <1>2. ASSUME NEW w \in Workers, SaveDeleted(w), job[w].req = r
        PROVE  FullyReceipted(r)'
    <2>1. job[w].pc = "save" /\ ~job[w].waive
      BY <1>0, <1>2 DEF TypeOK, SaveDeleted
    <2>2. Exists(r) /\ FullyReceipted(r)
      BY <1>0, <1>2, <2>1 DEF CallsGrounded, CallGrounded
    <2> QED BY <1>0, <2>2, FullStable
  <1>3. \/ state[r] = "deleted" /\ ~waived[r]
        \/ \E w \in Workers : SaveDeleted(w) /\ job[w].req = r
    <2>1. CASE state' = state /\ waived' = waived
      BY <2>1
    <2>2. ASSUME NEW w \in Workers, RequestErasureInsert(w)
          PROVE  state[r] = "deleted" /\ ~waived[r]
      BY <1>0, <2>2 DEF TypeOK, RequestErasureInsert, InsertRow
    <2>3. ASSUME NEW s \in Sweepers, NEW q \in Requests, SweepFlip(s, q)
          PROVE  state[r] = "deleted" /\ ~waived[r]
      BY <1>0, <2>3 DEF TypeOK, SweepFlip
    <2>4. ASSUME NEW w \in Workers, SaveDeleted(w)
          PROVE  (state[r] = "deleted" /\ ~waived[r]) \/ job[w].req = r
      BY <1>0, <2>4 DEF TypeOK, SaveDeleted
    <2>5. ASSUME NEW w \in Workers,
                 \/ OpenerStep(w) \/ MarkStep(w) \/ RequestErasureLost(w) \/ Judge(w)
                 \/ Refresh(w) \/ Obliged(w) \/ Crash(w)
                 \/ \E p \in Processors : Oblige(w, p)
          PROVE  state' = state /\ waived' = waived
      BY <2>5 DEF OpenerStep, RequestErasure, RequeueAfterRestore, MarkStep,
                  MarkSectionErased, RequestErasureLost, Judge, Refresh, RefreshTo,
                  Obliged, ObligedTo, Crash, Oblige, ledger, rows
    <2>6. ASSUME NEW s \in Sweepers,
                 \/ SweepRead(s) \/ SweepUpdate(s) \/ SweepSelect(s) \/ SweepCrash(s)
          PROVE  state' = state /\ waived' = waived
      BY <2>6 DEF SweepRead, SweepUpdate, SweepSelect, SweepCrash, ledger, rows
    <2>7. CASE \/ \E q \in Requests, o \in Owners : OwnerConfirms(q, o)
               \/ Tick \/ (\E g \in Registries : Redeploy(g)) \/ UNCHANGED vars
      <3> state' = state /\ waived' = waived
        BY <2>7 DEF OwnerConfirms, Tick, Redeploy, vars, ledger, rows
      <3> QED BY <2>1
    <2> QED BY <2>1, <2>2, <2>3, <2>4, <2>5, <2>6, <2>7 DEF Next, CallStep, SweepStep
  <1> QED BY <1>1, <1>2, <1>3

LEMMA ReceiptStep == ReceiptInv /\ [Next]_vars => ReceiptInv'
  <1> SUFFICES ASSUME ReceiptInv, [Next]_vars PROVE ReceiptInv'
    OBVIOUS
  <1>1. TypeOK'
    BY TypeStep DEF ReceiptInv
  <1> QED BY <1>1, PartsGroundedStep, CallsGroundedStep, CertifiedStep DEF ReceiptInv

\* An unwaived DELETED row is backed by a confirmation of every owner that
\* was asked, for any number of requests, owners, workers and sweepers.
THEOREM Certified == Spec => []CertifiedByReceipts
  <1>1. ReceiptInv => CertifiedByReceipts
    BY DEF ReceiptInv
  <1> QED BY <1>1, ReceiptInit, ReceiptStep, PTL DEF Spec

\* No interleaving takes a receipt back.
THEOREM Durable == Spec => ReceiptsDurable
  <1>1. ASSUME ReceiptInv, [Next]_vars
        PROVE  [\A r \in Requests, o \in Owners :
                  part[r][o] = "done" => part'[r][o] = "done"]_part
    <2> SUFFICES ASSUME NEW r \in Requests, NEW o \in Owners, part[r][o] = "done"
                 PROVE  part'[r][o] = "done"
      OBVIOUS
    <2>1. Exists(r) /\ TypeOK
      BY <1>1 DEF ReceiptInv, PartsGrounded
    <2> QED BY <1>1, <2>1, PartsFinal
  <1> QED BY <1>1, ReceiptInit, ReceiptStep, PTL DEF Spec, ReceiptsDurable

(***************************************************************************)
(* No duplicate requests                                                   *)
(***************************************************************************)

\* The constraints as they hold of all rows, and what a row or a call that
\* names a source request knows about it: the restore command picks completed
\* requests only, and completion is never taken back.
UniqueRows ==
    \A q, r \in Requests : q # r =>
        /\ key[q] = key[r]       => key[q] = NoKey
        /\ source[q] = source[r] => source[q] = NoReq

SourcesCompleted ==
    /\ \A q \in Requests : source[q] # NoReq => completed[source[q]]
    /\ \A w \in Workers : job[w].pc = "insert" /\ job[w].source # NoReq =>
          completed[job[w].source]

UniqueInv == TypeOK /\ UniqueRows /\ SourcesCompleted

LEMMA UniqueInit == Init => UniqueInv
  <1> SUFFICES ASSUME Init PROVE UniqueInv
    OBVIOUS
  <1>1. UniqueRows
    BY DEF Init, UniqueRows
  <1>2. SourcesCompleted
    BY DEF Init, SourcesCompleted, IdleJob, Handling
  <1> QED BY <1>1, <1>2, TypeInit DEF UniqueInv

\* Only the insert writes the two constrained columns, and nothing clears
\* completed_at.
LEMMA RowsFrame ==
  ASSUME TypeOK, [Next]_vars
  PROVE  /\ \/ UNCHANGED <<key, source>>
            \/ \E w \in Workers : RequestErasureInsert(w)
         /\ \A r \in Requests : completed[r] => completed'[r]
  <1> DEFINE Goal == /\ \/ UNCHANGED <<key, source>>
                        \/ \E w \in Workers : RequestErasureInsert(w)
                     /\ \A r \in Requests : completed[r] => completed'[r]
  <1>1. ASSUME NEW w \in Workers, RequestErasureInsert(w) PROVE Goal
    BY <1>1 DEF RequestErasureInsert, InsertRow
  <1>2. ASSUME NEW w \in Workers, SaveDeleted(w) PROVE Goal
    BY <1>2 DEF SaveDeleted, TypeOK
  <1>3. ASSUME NEW w \in Workers,
               \/ OpenerStep(w) \/ MarkStep(w) \/ RequestErasureLost(w) \/ Judge(w)
               \/ Refresh(w) \/ Obliged(w) \/ Crash(w)
               \/ \E p \in Processors : Oblige(w, p)
        PROVE  Goal
    BY <1>3 DEF OpenerStep, RequestErasure, RequeueAfterRestore, MarkStep,
                MarkSectionErased, RequestErasureLost, Judge, Refresh, RefreshTo,
                Obliged, ObligedTo, Crash, Oblige, ledger, rows
  <1>4. ASSUME NEW s \in Sweepers, SweepStep(s) \/ SweepCrash(s) PROVE Goal
    BY <1>4 DEF SweepStep, SweepRead, SweepUpdate, SweepSelect, SweepFlip, SweepCrash,
                ledger, rows
  <1>5. CASE \/ \E r \in Requests, o \in Owners : OwnerConfirms(r, o)
             \/ Tick \/ (\E g \in Registries : Redeploy(g)) \/ UNCHANGED vars
    BY <1>5 DEF OwnerConfirms, Tick, Redeploy, vars, ledger, rows
  <1> QED BY <1>1, <1>2, <1>3, <1>4, <1>5 DEF Next, CallStep

LEMMA UniqueRowsStep == UniqueInv /\ [Next]_vars => UniqueRows'
  <1> SUFFICES ASSUME UniqueInv, [Next]_vars PROVE UniqueRows'
    OBVIOUS
  <1>0. TypeOK /\ UniqueRows
    BY DEF UniqueInv
  <1>1. ASSUME NEW w \in Workers, RequestErasureInsert(w) PROVE UniqueRows'
    <2>1. PICK n \in Requests : InsertRow(n, job[w].subject, job[w].key, job[w].source)
      BY <1>1 DEF RequestErasureInsert
    <2>2. /\ key' = [key EXCEPT ![n] = job[w].key]
          /\ source' = [source EXCEPT ![n] = job[w].source]
      BY <2>1 DEF InsertRow
    <2>3. \A r \in Requests : /\ key[r] = job[w].key => key[r] = NoKey
                              /\ source[r] = job[w].source => source[r] = NoReq
      BY <1>1 DEF RequestErasureInsert, UniqueViolation
    <2> QED BY <1>0, <2>2, <2>3 DEF TypeOK, UniqueRows
  <1>2. CASE UNCHANGED <<key, source>>
    BY <1>0, <1>2 DEF UniqueRows
  <1> QED BY <1>0, <1>1, <1>2, RowsFrame

LEMMA SourcesStep == UniqueInv /\ [Next]_vars => SourcesCompleted'
  <1> SUFFICES ASSUME UniqueInv, [Next]_vars PROVE SourcesCompleted'
    OBVIOUS
  <1>0. TypeOK /\ TypeOK' /\ SourcesCompleted
    BY TypeStep DEF UniqueInv
  <1>1. \A r \in Requests : completed[r] => completed'[r]
    BY <1>0, RowsFrame
  <1>2. ASSUME NEW q \in Requests, source'[q] # NoReq PROVE completed'[source'[q]]
    <2>1. CASE UNCHANGED source
      BY <1>0, <1>1, <1>2, <2>1 DEF SourcesCompleted, TypeOK
    <2>2. ASSUME NEW w \in Workers, RequestErasureInsert(w)
          PROVE  completed'[source'[q]]
      <3>1. PICK n \in Requests : InsertRow(n, job[w].subject, job[w].key, job[w].source)
        BY <2>2 DEF RequestErasureInsert
      <3>2. source' = [source EXCEPT ![n] = job[w].source] /\ job[w].pc = "insert"
        BY <2>2, <3>1 DEF InsertRow, RequestErasureInsert
      <3>3. completed[source'[q]] /\ source'[q] \in Requests
        BY <1>0, <1>2, <3>2 DEF TypeOK, SourcesCompleted
      <3> QED BY <1>1, <3>3
    <2> QED BY <1>0, <2>1, <2>2, RowsFrame
  <1>3. ASSUME NEW w \in Workers, job'[w].pc = "insert", job'[w].source # NoReq
        PROVE  completed'[job'[w].source]
    <2>1. CASE job'[w] = job[w]
      <3> completed[job[w].source] /\ job[w].source \in Requests
        BY <1>0, <1>3, <2>1 DEF SourcesCompleted, TypeOK, Job
      <3> QED BY <1>1, <2>1
    <2>2. ASSUME NEW v \in Workers, OpenerStep(v)
          PROVE  job'[w] = job[w] \/ completed'[job'[w].source]
      <3>1. ASSUME NEW s \in Subjects, NEW k \in Keys \cup {NoKey}, RequestErasure(v, s, k)
            PROVE  job'[w] = job[w]
        BY <1>0, <1>3, <3>1 DEF TypeOK, RequestErasure, Become, Inserting
      <3>2. ASSUME NEW r \in Requests, RequeueAfterRestore(v, r)
            PROVE  job'[w] = job[w] \/ completed'[job'[w].source]
        <4>1. job'[w] = job[w] \/ job'[w].source = r
          BY <1>0, <3>2 DEF TypeOK, RequeueAfterRestore, Become, Inserting
        <4>2. completed[r]
          BY <3>2 DEF RequeueAfterRestore
        <4> QED BY <1>1, <4>1, <4>2
      <3> QED BY <2>2, <3>1, <3>2 DEF OpenerStep
    <2>3. ASSUME NEW v \in Workers, MarkStep(v) PROVE job'[w] = job[w]
      BY <1>0, <1>3, <2>3 DEF TypeOK, MarkStep, MarkSectionErased, Become, Handling
    <2>4. ASSUME NEW v \in Workers,
                 \/ CallStep(v) \/ Refresh(v) \/ Obliged(v) \/ Crash(v)
          PROVE  job'[w] = job[w]
      BY <1>0, <1>3, <2>4
      DEF TypeOK, CallStep, RequestErasureInsert, RequestErasureLost, Judge, SaveDeleted,
          Oblige, Refresh, RefreshTo, Obliged, ObligedTo, Crash, Goto, Return, Become,
          Handling, IdleJob
    <2>5. ASSUME NEW s \in Sweepers, SweepStep(s) \/ SweepCrash(s) PROVE job' = job
      BY <2>5 DEF SweepStep, SweepRead, SweepUpdate, SweepSelect, SweepFlip, SweepCrash
    <2>6. ASSUME NEW g \in Registries, Redeploy(g) PROVE FALSE
      BY <1>3, <2>6 DEF Redeploy, IdleJob, Handling
    <2>7. CASE \/ \E r \in Requests, o \in Owners : OwnerConfirms(r, o)
               \/ Tick \/ UNCHANGED vars
      <3> job' = job
        BY <2>7 DEF OwnerConfirms, Tick, vars
      <3> QED BY <2>1
    <2> QED BY <2>1, <2>2, <2>3, <2>4, <2>5, <2>6, <2>7 DEF Next
  <1> QED BY <1>2, <1>3 DEF SourcesCompleted

\* However many deliveries of one idempotency key, and however many restore
\* commands, pass their pre-checks together, request_erasure leaves at most
\* one row per key and one re-queue per completed source.
THEOREM Unique == Spec => []NoDuplicateRequests
  <1>1. UniqueInv => NoDuplicateRequests
    BY ConstantsAssumption DEF UniqueInv, UniqueRows, SourcesCompleted, NoDuplicateRequests
  <1>2. UniqueInv /\ [Next]_vars => UniqueInv'
    BY TypeStep, UniqueRowsStep, SourcesStep DEF UniqueInv
  <1> QED BY <1>1, <1>2, UniqueInit, PTL DEF Spec

(***************************************************************************)
(* Timeouts                                                                *)
(***************************************************************************)

\* Time and the outbox only grow.
LEMMA Forward ==
  ASSUME TypeOK, [Next]_vars
  PROVE  now <= now' /\ outbox \subseteq outbox'
  <1>0. now <= now
    BY DEF TypeOK
  <1>1. ASSUME NEW w \in Workers,
               \/ OpenerStep(w) \/ CallStep(w) \/ MarkStep(w) \/ Refresh(w)
               \/ Obliged(w) \/ Crash(w)
        PROVE  now <= now' /\ outbox \subseteq outbox'
    BY <1>0, <1>1
    DEF OpenerStep, RequestErasure, RequeueAfterRestore, CallStep, RequestErasureInsert,
        InsertRow, RequestErasureLost, Judge, SaveDeleted, Oblige, MarkStep,
        MarkSectionErased, Refresh, RefreshTo, Obliged, ObligedTo, Crash, ledger, outside
  <1>2. ASSUME NEW s \in Sweepers, SweepStep(s) \/ SweepCrash(s)
        PROVE  now <= now' /\ outbox \subseteq outbox'
    BY <1>0, <1>2
    DEF SweepStep, SweepRead, SweepUpdate, SweepSelect, SweepFlip, SweepCrash, ledger, outside
  <1>3. CASE \/ \E r \in Requests, o \in Owners : OwnerConfirms(r, o)
             \/ Tick \/ (\E g \in Registries : Redeploy(g)) \/ UNCHANGED vars
    BY <1>0, <1>3 DEF TypeOK, OwnerConfirms, Tick, Redeploy, vars, ledger, outside
  <1> QED BY <1>1, <1>2, <1>3 DEF Next

\* What a part that was late once, or answered, keeps for good.
LEMMA LateFinal ==
  ASSUME TypeOK, [Next]_vars, NEW r \in Requests, Exists(r)
  PROVE  /\ deadline'[r] = deadline[r]
         /\ \A o \in Owners :
               /\ part[r][o] \in {"timeout", "done"} => part'[r][o] \in {"timeout", "done"}
               /\ part[r][o] \in {"pending", "timeout", "done"} =>
                     part'[r][o] \in {"pending", "timeout", "done"}
  <1> DEFINE Goal ==
         /\ deadline'[r] = deadline[r]
         /\ \A o \in Owners :
               /\ part[r][o] \in {"timeout", "done"} => part'[r][o] \in {"timeout", "done"}
               /\ part[r][o] \in {"pending", "timeout", "done"} =>
                     part'[r][o] \in {"pending", "timeout", "done"}
  <1>1. ASSUME NEW w \in Workers, RequestErasureInsert(w) PROVE Goal
    BY <1>1 DEF RequestErasureInsert, InsertRow, TypeOK, Exists
  <1>2. ASSUME NEW w \in Workers, NEW q \in Requests, NEW p \in Owners,
               MarkSectionErased(w, q, p)
        PROVE  Goal
    BY <1>2 DEF MarkSectionErased, TypeOK
  <1>3. ASSUME NEW s \in Sweepers, SweepUpdate(s) PROVE Goal
    BY <1>3 DEF SweepUpdate, Overdue, TypeOK
  <1>4. ASSUME NEW w \in Workers,
               \/ OpenerStep(w) \/ RequestErasureLost(w) \/ Judge(w) \/ SaveDeleted(w)
               \/ Refresh(w) \/ Obliged(w) \/ Crash(w)
               \/ \E p \in Processors : Oblige(w, p)
        PROVE  Goal
    BY <1>4
    DEF OpenerStep, RequestErasure, RequeueAfterRestore, RequestErasureLost, Judge,
        SaveDeleted, Refresh, RefreshTo, Obliged, ObligedTo, Crash, Oblige, ledger, parts
  <1>5. ASSUME NEW s \in Sweepers,
               \/ SweepRead(s) \/ SweepSelect(s) \/ SweepCrash(s)
               \/ \E q \in Requests : SweepFlip(s, q)
        PROVE  Goal
    BY <1>5 DEF SweepRead, SweepSelect, SweepCrash, SweepFlip, ledger, parts
  <1>6. CASE \/ \E q \in Requests, o \in Owners : OwnerConfirms(q, o)
             \/ Tick \/ (\E g \in Registries : Redeploy(g)) \/ UNCHANGED vars
    BY <1>6 DEF TypeOK, OwnerConfirms, Tick, Redeploy, vars, ledger, parts
  <1> QED
    BY <1>1, <1>2, <1>3, <1>4, <1>5, <1>6 DEF Next, CallStep, MarkStep, SweepStep

\* The list a sweep reads first is what it later accuses: its parts were
\* pending past the cut, and the update leaves each of them timed out or,
\* when the receipt came in between, done.
SweepGrounded(s) ==
    sweep[s].pc # "idle" =>
        /\ sweep[s].cut <= now
        /\ \A r \in Requests, o \in Owners : <<r, o>> \in sweep[s].affected =>
              /\ Exists(r)
              /\ deadline[r][o] <= sweep[s].cut
              /\ part[r][o] \in {"pending", "timeout", "done"}
              /\ sweep[s].pc # "update" => part[r][o] # "pending"
        /\ \A r \in sweep[s].todo : \E o \in Owners : <<r, o>> \in sweep[s].affected

\* The announcements name existing requests, so the parts they accuse are
\* subject to LateFinal.
AnnouncedRows == \A m \in outbox : m.type = "timeout" => Exists(m.req)

TimeoutInv ==
    /\ ReceiptInv
    /\ \A s \in Sweepers : SweepGrounded(s)
    /\ AnnouncedRows
    /\ TimeoutsAnnounced

LEMMA TimeoutInit == Init => TimeoutInv
  <1> SUFFICES ASSUME Init PROVE TimeoutInv
    OBVIOUS
  <1>1. \A s \in Sweepers : SweepGrounded(s)
    BY DEF Init, SweepGrounded, IdleSweep, Sweeping
  <1>2. AnnouncedRows /\ TimeoutsAnnounced
    BY DEF Init, AnnouncedRows, TimeoutsAnnounced
  <1> QED BY <1>1, <1>2, ReceiptInit DEF TimeoutInv

\* A sweep that does not move keeps what it relies on.
LEMMA SweepKept ==
  ASSUME TypeOK, TypeOK', [Next]_vars, NEW s \in Sweepers, SweepGrounded(s),
         sweep'[s] = sweep[s]
  PROVE  SweepGrounded(s)'
  <1> SUFFICES ASSUME sweep[s].pc # "idle"
               PROVE  SweepGrounded(s)'
    BY DEF SweepGrounded
  <1>1. now <= now' /\ now \in Nat /\ now' \in Nat /\ sweep[s].cut \in Nat
    BY Forward DEF TypeOK, SweepCall
  <1>2. ASSUME NEW r \in Requests, NEW o \in Owners, <<r, o>> \in sweep[s].affected
        PROVE  /\ Exists(r)'
               /\ deadline'[r][o] <= sweep[s].cut
               /\ part'[r][o] \in {"pending", "timeout", "done"}
               /\ sweep[s].pc # "update" => part'[r][o] # "pending"
    <2>1. /\ Exists(r) /\ deadline[r][o] <= sweep[s].cut
          /\ part[r][o] \in {"pending", "timeout", "done"}
          /\ sweep[s].pc # "update" => part[r][o] # "pending"
      BY <1>2 DEF SweepGrounded
    <2> QED BY <2>1, PartsFinal, LateFinal
  <1>3. sweep[s].cut <= now'
    BY <1>1 DEF SweepGrounded
  <1> QED BY <1>2, <1>3 DEF SweepGrounded, Exists

LEMMA SweepIdle ==
  ASSUME NEW s \in Sweepers, sweep'[s] = IdleSweep
  PROVE  SweepGrounded(s)'
  BY DEF SweepGrounded, IdleSweep, Sweeping

LEMMA SweepGroundedStep ==
  ASSUME TimeoutInv, [Next]_vars, NEW s \in Sweepers
  PROVE  SweepGrounded(s)'
  <1>0. TypeOK /\ TypeOK' /\ SweepGrounded(s) /\ PartsGrounded
    BY TypeStep DEF TimeoutInv, ReceiptInv
  <1>1. CASE sweep'[s] = sweep[s] \/ sweep'[s] = IdleSweep
    BY <1>0, <1>1, SweepKept, SweepIdle
  <1>2. ASSUME SweepRead(s) PROVE SweepGrounded(s)'
    <2>1. /\ sweep'[s].pc = "update" /\ sweep'[s].cut = now /\ sweep'[s].todo = {}
          /\ sweep'[s].affected = Overdue(now)
          /\ UNCHANGED <<state, part, deadline, now>>
      BY <1>0, <1>2 DEF SweepRead, Sweeping, TypeOK, ledger, rows, parts, outside
    <2>2. \A r \in Requests, o \in Owners : <<r, o>> \in Overdue(now) =>
             Exists(r) /\ deadline[r][o] <= now /\ part[r][o] = "pending"
      BY <1>0 DEF Overdue, PartsGrounded
    <2>3. now' <= now'
      BY <1>0 DEF TypeOK
    <2> QED BY <2>1, <2>2, <2>3 DEF SweepGrounded, Exists
  <1>3. ASSUME SweepUpdate(s), sweep'[s] # IdleSweep PROVE SweepGrounded(s)'
    <2>1. /\ sweep[s].pc = "update" /\ sweep'[s].pc = "select"
          /\ sweep'[s].cut = sweep[s].cut /\ sweep'[s].todo = {}
          /\ sweep'[s].affected = sweep[s].affected
          /\ UNCHANGED <<state, deadline, now>>
      BY <1>0, <1>3 DEF SweepUpdate, Sweeping, TypeOK, rows, outside
    <2>2. ASSUME NEW r \in Requests, NEW o \in Owners, <<r, o>> \in sweep[s].affected
          PROVE  Exists(r) /\ deadline[r][o] <= sweep[s].cut /\ part'[r][o] \in {"timeout", "done"}
      <3>1. /\ Exists(r) /\ deadline[r][o] <= sweep[s].cut
            /\ part[r][o] \in {"pending", "timeout", "done"}
        BY <1>0, <2>1, <2>2 DEF SweepGrounded
      <3>2. part[r][o] = "pending" => <<r, o>> \in Overdue(sweep[s].cut)
        BY <3>1 DEF Overdue
      <3>3. part'[r][o] = IF <<r, o>> \in Overdue(sweep[s].cut) THEN "timeout" ELSE part[r][o]
        BY <1>3 DEF SweepUpdate
      <3> QED BY <3>1, <3>2, <3>3
    <2> QED BY <1>0, <2>1, <2>2 DEF SweepGrounded, Exists
  <1>4. ASSUME SweepSelect(s), sweep'[s] # IdleSweep PROVE SweepGrounded(s)'
    <2>1. /\ sweep[s].pc = "select" /\ sweep'[s].pc = "flip"
          /\ sweep'[s].cut = sweep[s].cut
          /\ sweep'[s].affected = sweep[s].affected
          /\ \A r \in sweep'[s].todo : \E o \in Owners : <<r, o>> \in sweep[s].affected
          /\ UNCHANGED <<state, part, deadline, now>>
      BY <1>0, <1>4 DEF SweepSelect, Sweeping, TypeOK, ledger, rows, parts, outside
    <2> QED BY <1>0, <2>1 DEF SweepGrounded, Exists
  <1>5. ASSUME NEW q \in Requests, SweepFlip(s, q), sweep'[s] # IdleSweep
        PROVE  SweepGrounded(s)'
    <2>1. /\ sweep[s].pc = "flip" /\ sweep'[s].pc = "flip"
          /\ sweep'[s].cut = sweep[s].cut
          /\ sweep'[s].affected = sweep[s].affected
          /\ sweep'[s].todo \subseteq sweep[s].todo
          /\ UNCHANGED <<part, deadline, now>>
      BY <1>0, <1>5 DEF SweepFlip, Sweeping, TypeOK, parts, outside
    <2>2. \A r \in Requests : Exists(r) => Exists(r)'
      BY <1>0, PartsFinal
    <2> QED BY <1>0, <2>1, <2>2 DEF SweepGrounded
  <1>6. ASSUME NEW t \in Sweepers, SweepStep(t) \/ SweepCrash(t)
        PROVE  \/ sweep'[s] = sweep[s] \/ sweep'[s] = IdleSweep
               \/ SweepRead(s) \/ SweepUpdate(s) \/ SweepSelect(s)
               \/ \E q \in Requests : SweepFlip(s, q)
    <2>1. CASE t = s
      BY <1>0, <1>6, <2>1 DEF SweepStep, SweepCrash, TypeOK
    <2>2. CASE t # s
      <3> sweep'[s] = sweep[s]
        BY <1>0, <1>6, <2>2
        DEF SweepStep, SweepRead, SweepUpdate, SweepSelect, SweepFlip, SweepCrash, TypeOK
      <3> QED OBVIOUS
    <2> QED BY <2>1, <2>2
  <1>7. ASSUME NEW w \in Workers,
               \/ OpenerStep(w) \/ CallStep(w) \/ MarkStep(w) \/ Refresh(w)
               \/ Obliged(w) \/ Crash(w)
        PROVE  sweep' = sweep
    BY <1>7 DEF OpenerStep, RequestErasure, RequeueAfterRestore, CallStep,
                RequestErasureInsert, RequestErasureLost, Judge, SaveDeleted, Oblige,
                MarkStep, MarkSectionErased, Refresh, RefreshTo, Obliged, ObligedTo, Crash
  <1>8. ASSUME NEW g \in Registries, Redeploy(g) PROVE sweep'[s] = IdleSweep
    BY <1>8 DEF Redeploy
  <1>9. CASE \/ \E r \in Requests, o \in Owners : OwnerConfirms(r, o)
             \/ Tick \/ UNCHANGED vars
    <2> sweep' = sweep
      BY <1>9 DEF OwnerConfirms, Tick, vars
    <2> QED BY <1>1
  <1> QED BY <1>1, <1>2, <1>3, <1>4, <1>5, <1>6, <1>7, <1>8, <1>9 DEF Next

\* A request turns TIMEOUT, and an accusation is published, in the flip of a
\* sweep only.
LEMMA AccusedByFlip ==
  ASSUME TypeOK, [Next]_vars
  PROVE  \/ /\ \A m \in outbox' \ outbox : m.type # "timeout"
            /\ \A r \in Requests : state'[r] = "timeout" => state[r] = "timeout"
         \/ \E s \in Sweepers, q \in Requests : SweepFlip(s, q)
  <1> DEFINE Quiet == /\ \A m \in outbox' \ outbox : m.type # "timeout"
                      /\ \A r \in Requests : state'[r] = "timeout" => state[r] = "timeout"
  <1>1. ASSUME NEW w \in Workers, RequestErasureInsert(w) PROVE Quiet
    BY <1>1 DEF RequestErasureInsert, InsertRow, TypeOK
  <1>2. ASSUME NEW w \in Workers, SaveDeleted(w) PROVE Quiet
    BY <1>2 DEF SaveDeleted, TypeOK
  <1>3. ASSUME NEW w \in Workers,
               \/ OpenerStep(w) \/ MarkStep(w) \/ RequestErasureLost(w) \/ Judge(w)
               \/ Refresh(w) \/ Obliged(w) \/ Crash(w)
               \/ \E p \in Processors : Oblige(w, p)
        PROVE  Quiet
    BY <1>3 DEF OpenerStep, RequestErasure, RequeueAfterRestore, MarkStep,
                MarkSectionErased, RequestErasureLost, Judge, Refresh, RefreshTo,
                Obliged, ObligedTo, Crash, Oblige, ledger, rows
  <1>4. ASSUME NEW s \in Sweepers,
               \/ SweepRead(s) \/ SweepUpdate(s) \/ SweepSelect(s) \/ SweepCrash(s)
        PROVE  Quiet
    BY <1>4 DEF SweepRead, SweepUpdate, SweepSelect, SweepCrash, ledger, rows
  <1>5. CASE \/ \E r \in Requests, o \in Owners : OwnerConfirms(r, o)
             \/ Tick \/ (\E g \in Registries : Redeploy(g)) \/ UNCHANGED vars
    BY <1>5 DEF OwnerConfirms, Tick, Redeploy, vars, ledger, rows
  <1> QED BY <1>1, <1>2, <1>3, <1>4, <1>5 DEF Next, CallStep, SweepStep

LEMMA AnnouncedStep == TimeoutInv /\ [Next]_vars => (AnnouncedRows /\ TimeoutsAnnounced)'
  <1> SUFFICES ASSUME TimeoutInv, [Next]_vars PROVE (AnnouncedRows /\ TimeoutsAnnounced)'
    OBVIOUS
  <1>0. /\ TypeOK /\ TypeOK' /\ AnnouncedRows /\ TimeoutsAnnounced
        /\ \A s \in Sweepers : SweepGrounded(s)
    BY TypeStep DEF TimeoutInv, ReceiptInv
  <1>1. /\ now \in Nat /\ now' \in Nat /\ now <= now' /\ outbox \subseteq outbox'
        /\ \A m \in outbox' : m.req \in Requests /\ m.owners \subseteq Owners
    BY <1>0, Forward DEF TypeOK, Message
  <1>2. ASSUME NEW m \in outbox, m.type = "timeout"
        PROVE  /\ Exists(m.req)'
               /\ \A o \in m.owners : /\ part'[m.req][o] \in {"timeout", "done"}
                                      /\ deadline'[m.req][o] <= now'
    <2>1. m.req \in Requests /\ m.owners \subseteq Owners /\ Exists(m.req)
      BY <1>0, <1>1, <1>2 DEF AnnouncedRows
    <2>2. \A o \in m.owners : /\ part[m.req][o] \in {"timeout", "done"}
                              /\ deadline[m.req][o] <= now
      BY <1>0, <1>2 DEF TimeoutsAnnounced
    <2>3. deadline[m.req] \in [Owners -> Nat]
      BY <1>0, <2>1 DEF TypeOK
    <2>4. \A o \in m.owners : deadline[m.req][o] <= now'
      BY <1>1, <2>1, <2>2, <2>3
    <2> QED BY <1>0, <2>1, <2>2, <2>4, PartsFinal, LateFinal
  <1>3. CASE /\ \A m \in outbox' \ outbox : m.type # "timeout"
             /\ \A r \in Requests : state'[r] = "timeout" => state[r] = "timeout"
    BY <1>0, <1>1, <1>2, <1>3 DEF AnnouncedRows, TimeoutsAnnounced
  <1>4. ASSUME NEW s \in Sweepers, NEW q \in Requests, SweepFlip(s, q)
        PROVE  (AnnouncedRows /\ TimeoutsAnnounced)'
    <2> DEFINE named == {o \in Owners : <<q, o>> \in sweep[s].affected}
               msg   == [type |-> "timeout", req |-> q, owners |-> named]
    <2>1. /\ sweep[s].pc = "flip" /\ q \in sweep[s].todo
          /\ state' = [state EXCEPT ![q] = "timeout"]
          /\ outbox' = outbox \cup {msg}
          /\ UNCHANGED <<part, deadline, now>>
      BY <1>4 DEF SweepFlip, parts, outside
    <2>2. named # {} /\ named \subseteq Owners
      BY <1>0, <2>1 DEF SweepGrounded
    <2>3. \A o \in named : /\ part'[q][o] \in {"timeout", "done"}
                           /\ deadline'[q][o] <= now'
      <3> SUFFICES ASSUME NEW o \in named
                   PROVE  part[q][o] \in {"timeout", "done"} /\ deadline[q][o] <= now
        BY <2>1
      <3>1. /\ part[q][o] \in {"timeout", "done"}
            /\ deadline[q][o] <= sweep[s].cut /\ sweep[s].cut <= now
        BY <1>0, <2>1 DEF SweepGrounded
      <3>2. deadline[q][o] \in Nat /\ sweep[s].cut \in Nat /\ now \in Nat
        BY <1>0 DEF TypeOK, SweepCall
      <3> QED BY <3>1, <3>2
    <2>4. Exists(q)'
      BY <1>0, <2>1 DEF Exists, TypeOK
    <2>5. msg.type = "timeout" /\ msg.req = q /\ msg.owners = named /\ msg \in outbox'
      BY <2>1
    <2>6. \A r \in Requests : state'[r] = "timeout" => r = q \/ state[r] = "timeout"
      BY <1>0, <2>1 DEF TypeOK
    <2> HIDE DEF named, msg
    <2>7. \A m \in outbox' : m = msg \/ m \in outbox
      BY <2>1
    <2>8. AnnouncedRows'
      BY <1>2, <2>4, <2>5, <2>7 DEF AnnouncedRows
    <2>9. TimeoutsAnnounced'
      <3>1. \A m \in outbox' : m.type = "timeout" => \A o \in m.owners :
               part'[m.req][o] \in {"timeout", "done"} /\ deadline'[m.req][o] <= now'
        BY <1>2, <2>3, <2>5, <2>7
      <3>2. \A r \in Requests : state'[r] = "timeout" =>
               \E m \in outbox' : m.type = "timeout" /\ m.req = r /\ m.owners # {}
        BY <1>0, <1>1, <2>2, <2>5, <2>6 DEF TimeoutsAnnounced
      <3> QED BY <3>1, <3>2 DEF TimeoutsAnnounced
    <2> QED BY <2>8, <2>9
  <1> QED BY <1>0, <1>3, <1>4, AccusedByFlip

LEMMA TimeoutStep == TimeoutInv /\ [Next]_vars => TimeoutInv'
  <1> SUFFICES ASSUME TimeoutInv, [Next]_vars PROVE TimeoutInv'
    OBVIOUS
  <1>1. ReceiptInv'
    BY ReceiptStep DEF TimeoutInv
  <1>2. (\A s \in Sweepers : SweepGrounded(s))'
    BY SweepGroundedStep
  <1> QED BY <1>1, <1>2, AnnouncedStep DEF TimeoutInv

\* Every owner that gdpr.erasure.timeout names was asked and was late, and
\* every TIMEOUT row has been announced with at least one name, for any
\* number of overlapping sweeps, receipts in between and crashes.
THEOREM Announced == Spec => []TimeoutsAnnounced
  <1>1. TimeoutInv => TimeoutsAnnounced
    BY DEF TimeoutInv
  <1> QED BY <1>1, TimeoutInit, TimeoutStep, PTL DEF Spec

(***************************************************************************)
(* The rows implement the certificate                                      *)
(***************************************************************************)

LEMMA CertificateInit == Init => Promise!Init
  <1> SUFFICES ASSUME Init PROVE Promise!Init
    OBVIOUS
  <1>1. \A r \in Requests : Asked(r) = {} /\ Receipts(r) = {} /\ Outcome(r) = "none"
    BY DEF Init, Asked, Receipts, Outcome
  <1> QED BY <1>1 DEF Promise!Init

\* What a reader of the rows sees of a request depends on its state, its
\* waiver, who was asked and who has answered.
LEMMA ViewKept ==
  ASSUME NEW r \in Requests, Asked(r)' = Asked(r), Receipts(r)' = Receipts(r),
         state'[r] = state[r], waived'[r] = waived[r]
  PROVE  Outcome(r)' = Outcome(r)
  BY DEF Outcome, Unreceipted

\* A step that touches neither the verdict columns nor the parts shows
\* nothing to a reader.
LEMMA RowsKept ==
  ASSUME UNCHANGED <<state, waived, part>>
  PROVE  UNCHANGED Promise!vars
  BY DEF Promise!vars, Asked, Receipts, Outcome, Unreceipted

LEMMA InsertAsks ==
  ASSUME ReceiptInv, NEW w \in Workers, RequestErasureInsert(w)
  PROVE  Promise!Next
  <1>0. TypeOK /\ PartsGrounded
    BY DEF ReceiptInv
  <1>1. PICK n \in Requests : InsertRow(n, job[w].subject, job[w].key, job[w].source)
    BY DEF RequestErasureInsert
  <1>2. /\ state[n] = "absent" /\ state' = [state EXCEPT ![n] = "erasing"]
        /\ waived' = waived
        /\ \A r \in Requests \ {n} : part'[r] = part[r]
        /\ \A o \in Owners : part'[n][o] \in {"pending", "absent"}
    BY <1>0, <1>1 DEF InsertRow, TypeOK, Exists
  <1>3. \A r \in Requests \ {n} : Asked(r)' = Asked(r) /\ Receipts(r)' = Receipts(r)
    BY <1>2 DEF Asked, Receipts
  <1>4. Receipts(n) = {} /\ Receipts(n)' = {}
    BY <1>0, <1>2 DEF Receipts, PartsGrounded, Exists
  <1>5. \A r \in Requests \ {n} : Outcome(r)' = Outcome(r)
    BY <1>0, <1>2, <1>3, ViewKept DEF TypeOK
  <1>6. Outcome(n) = "none" /\ Outcome(n)' = "pending"
    BY <1>0, <1>2 DEF Outcome, TypeOK
  <1>7. Asked(n)' \in SUBSET Owners
    BY DEF Asked
  <1>8. Promise!Ask(n, Asked(n)')
    BY <1>3, <1>4, <1>5, <1>6 DEF Promise!Ask
  <1> QED BY <1>7, <1>8 DEF Promise!Next

\* A receipt counts once, is only taken from an owner that was asked, and
\* does not change the word: a request that reads "complete" has no part left
\* that could still be marked.
LEMMA MarkReceives ==
  ASSUME ReceiptInv, NEW w \in Workers, NEW q \in Requests, NEW p \in Owners,
         MarkSectionErased(w, q, p)
  PROVE  Promise!Next
  <1>0. TypeOK /\ PartsGrounded /\ CertifiedByReceipts
    BY DEF ReceiptInv
  <1>1. /\ part[q][p] \notin {"absent", "done"} /\ part' = [part EXCEPT ![q][p] = "done"]
        /\ UNCHANGED <<state, waived>>
    BY DEF MarkSectionErased, rows
  <1>2. /\ \A r \in Requests \ {q} : part'[r] = part[r]
        /\ \A o \in Owners \ {p} : part'[q][o] = part[q][o]
        /\ part'[q][p] = "done"
    BY <1>0, <1>1 DEF TypeOK
  <1>3. \A r \in Requests : Asked(r)' = Asked(r)
    BY <1>1, <1>2 DEF Asked
  <1>4. \A r \in Requests \ {q} : Receipts(r)' = Receipts(r)
    BY <1>2 DEF Receipts
  <1>5. Receipts(q)' = Receipts(q) \cup {p}
    BY <1>2 DEF Receipts
  <1>6. p \in Asked(q) \ Receipts(q)
    BY <1>1 DEF Asked, Receipts
  <1>7. \A r \in Requests \ {q} : Outcome(r)' = Outcome(r)
    BY <1>1, <1>3, <1>4, ViewKept
  <1>8. Outcome(q)' = Outcome(q)
    <2>1. state[q] = "deleted" => waived[q]
      BY <1>0, <1>1 DEF CertifiedByReceipts, FullyReceipted
    <2> QED BY <1>1, <2>1 DEF Outcome
  <1>9. Promise!Receive(q, p)
    BY <1>3, <1>4, <1>5, <1>6, <1>7, <1>8 DEF Promise!Receive
  <1> QED BY <1>9 DEF Promise!Next

\* SaveDeleted publishes completion, or waives it.
LEMMA SaveSettles ==
  ASSUME ReceiptInv, NEW w \in Workers, SaveDeleted(w)
  PROVE  [Promise!Next]_(Promise!vars)
  <1>0. TypeOK /\ CallsGrounded
    BY DEF ReceiptInv
  <1>1. /\ job[w].pc = "save" /\ part' = part
        /\ state' = [state EXCEPT ![job[w].req] = "deleted"]
        /\ waived' = [waived EXCEPT ![job[w].req] = job[w].waive]
    BY DEF SaveDeleted, parts
  <1>2. PICK q \in Requests : /\ q = job[w].req /\ Exists(q)
                              /\ \E o \in Owners : part[q][o] = "done"
                              /\ ~job[w].waive => FullyReceipted(q)
    BY <1>0, <1>1 DEF CallsGrounded, CallGrounded
  <1>3. /\ \A r \in Requests \ {q} : state'[r] = state[r] /\ waived'[r] = waived[r]
        /\ state'[q] = "deleted" /\ waived'[q] = job[w].waive
    BY <1>0, <1>1, <1>2 DEF TypeOK
  <1>4. \A r \in Requests : Asked(r)' = Asked(r) /\ Receipts(r)' = Receipts(r)
    BY <1>1 DEF Asked, Receipts
  <1>5. \A r \in Requests \ {q} : Outcome(r)' = Outcome(r)
    BY <1>3, <1>4, ViewKept
  <1>6. CASE job[w].waive
    <2>1. Outcome(q)' = "incomplete" /\ Outcome(q) # "none"
      BY <1>2, <1>3, <1>6 DEF Outcome, Exists
    <2>2. Promise!GiveUp(q)
      BY <1>4, <1>5, <2>1 DEF Promise!GiveUp
    <2> QED BY <2>2 DEF Promise!Next
  <1>7. CASE ~job[w].waive
    <2>1. Asked(q) # {} /\ Receipts(q) = Asked(q)
      BY <1>2, <1>7 DEF FullyReceipted, Asked, Receipts
    <2>2. Outcome(q)' = "complete"
      BY <1>3, <1>4, <1>7, <2>1 DEF Outcome, Unreceipted
    <2>3. Outcome(q) \in {"pending", "incomplete", "complete"}
      BY <1>2 DEF Outcome, Exists
    <2>4. CASE Outcome(q) = "complete"
      BY <1>4, <1>5, <2>2, <2>4 DEF Promise!vars
    <2>5. CASE Outcome(q) # "complete"
      <3> Promise!Certify(q)
        BY <1>4, <1>5, <2>1, <2>2, <2>3, <2>5 DEF Promise!Certify
      <3> QED BY DEF Promise!Next
    <2> QED BY <2>4, <2>5
  <1> QED BY <1>6, <1>7

\* The sweep's UPDATE is silent for a reader, its flip gives up.
LEMMA SweepGivesUp ==
  ASSUME TimeoutInv, NEW s \in Sweepers, SweepStep(s)
  PROVE  [Promise!Next]_(Promise!vars)
  <1>0. TypeOK /\ SweepGrounded(s)
    BY DEF TimeoutInv, ReceiptInv
  <1>1. CASE SweepRead(s) \/ SweepSelect(s)
    <2> UNCHANGED <<state, waived, part>>
      BY <1>1 DEF SweepRead, SweepSelect, ledger, rows, parts
    <2> QED BY RowsKept
  <1>2. CASE SweepUpdate(s)
    <2>1. UNCHANGED <<state, waived>>
      BY <1>2 DEF SweepUpdate, rows
    <2>2. \A r \in Requests, o \in Owners :
             part'[r][o] = part[r][o] \/ (part[r][o] = "pending" /\ part'[r][o] = "timeout")
      <3>1. \A r \in Requests, o \in Owners : part'[r][o] =
               IF <<r, o>> \in Overdue(sweep[s].cut) THEN "timeout" ELSE part[r][o]
        BY <1>2 DEF SweepUpdate
      <3>2. \A r \in Requests, o \in Owners :
               <<r, o>> \in Overdue(sweep[s].cut) => part[r][o] = "pending"
        BY DEF Overdue
      <3> QED BY <3>1, <3>2
    <2>3. \A r \in Requests : Asked(r)' = Asked(r) /\ Receipts(r)' = Receipts(r)
      BY <2>2 DEF Asked, Receipts
    <2>4. \A r \in Requests : Outcome(r)' = Outcome(r)
      BY <2>1, <2>3, ViewKept
    <2> QED BY <2>3, <2>4 DEF Promise!vars
  <1>3. ASSUME NEW q \in Requests, SweepFlip(s, q) PROVE Promise!Next
    <2>1. /\ sweep[s].pc = "flip" /\ q \in sweep[s].todo
          /\ state' = [state EXCEPT ![q] = "timeout"] /\ UNCHANGED <<waived, part>>
      BY <1>3 DEF SweepFlip, parts
    <2>2. Exists(q)
      BY <1>0, <2>1 DEF SweepGrounded
    <2>3. \A r \in Requests : Asked(r)' = Asked(r) /\ Receipts(r)' = Receipts(r)
      BY <2>1 DEF Asked, Receipts
    <2>4. \A r \in Requests \ {q} : Outcome(r)' = Outcome(r)
      BY <1>0, <2>1, <2>3, ViewKept DEF TypeOK
    <2>5. Outcome(q)' = "incomplete" /\ Outcome(q) # "none"
      BY <1>0, <2>1, <2>2 DEF Outcome, Exists, TypeOK
    <2>6. Promise!GiveUp(q)
      BY <2>3, <2>4, <2>5 DEF Promise!GiveUp
    <2> QED BY <2>6 DEF Promise!Next
  <1> QED BY <1>1, <1>2, <1>3 DEF SweepStep

LEMMA CertificateStep == TimeoutInv /\ [Next]_vars => [Promise!Next]_(Promise!vars)
  <1> SUFFICES ASSUME TimeoutInv, [Next]_vars PROVE [Promise!Next]_(Promise!vars)
    OBVIOUS
  <1>0. ReceiptInv
    BY DEF TimeoutInv
  <1>1. ASSUME NEW w \in Workers,
               \/ OpenerStep(w) \/ RequestErasureLost(w) \/ Judge(w) \/ Refresh(w)
               \/ Obliged(w) \/ Crash(w) \/ \E p \in Processors : Oblige(w, p)
        PROVE  UNCHANGED <<state, waived, part>>
    BY <1>1 DEF OpenerStep, RequestErasure, RequeueAfterRestore, RequestErasureLost, Judge,
                Refresh, RefreshTo, Obliged, ObligedTo, Crash, Oblige, ledger, rows, parts
  <1>2. CASE \/ \E s \in Sweepers : SweepCrash(s)
             \/ \E r \in Requests, o \in Owners : OwnerConfirms(r, o)
             \/ Tick \/ (\E g \in Registries : Redeploy(g)) \/ UNCHANGED vars
    <2> UNCHANGED <<state, waived, part>>
      BY <1>2 DEF SweepCrash, OwnerConfirms, Tick, Redeploy, vars, ledger, rows, parts
    <2> QED BY RowsKept
  <1> QED
    BY <1>0, <1>1, <1>2, RowsKept, InsertAsks, MarkReceives, SaveSettles, SweepGivesUp
    DEF Next, CallStep, MarkStep

\* Every behaviour of the ledger, read the way ErasureRequest publishes its
\* rows, is a behaviour of the abstract certificate: the outcome says
\* "complete" only with every receipt in, and no receipt is ever withdrawn.
THEOREM Certificates == Spec => ImplementsCertificate
  BY CertificateInit, CertificateStep, TimeoutInit, TimeoutStep, PTL
  DEF Spec, ImplementsCertificate, Promise!Spec
=============================================================================
