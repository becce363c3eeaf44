---------------------------- MODULE ClosureProofs ----------------------------
(***************************************************************************)
(* Machine-checked proofs about module Closure, for any number of users,   *)
(* closures, handlers, executors, consumers and sweepers, with or without  *)
(* faults, holds and retries.                                              *)
(***************************************************************************)
EXTENDS Closure, ErasureProofs

(***************************************************************************)
(* The steps of the composition                                            *)
(***************************************************************************)

WebStep(h) ==
    \/ \E u \in Users : InitiateClosure(h, u) \/ CancelClosure(h, u)
    \/ InitiateCommit(h) \/ CancelCommit(h) \/ WebFails(h)

\* The steps the composition takes over from Erasure unchanged.
SharedStep ==
    \/ \E w \in Workers : \/ Judge(w) \/ SaveDeleted(w) \/ MarkStep(w) \/ Crash(w)
                          \/ \E p \in Processors : Oblige(w, p)
    \/ \E s \in Sweepers : SweepStep(s) \/ SweepCrash(s)
    \/ \E r \in Requests, o \in Owners : OwnerConfirms(r, o)
    \/ Tick

LEMMA ClosureSteps ==
  ASSUME [ClosureNext]_cvars
  PROVE  \/ \E h \in Handlers : WebStep(h)
         \/ \E u \in Users : SetHold(u)
         \/ \E e \in Executors :
               \/ \E c \in Closures : GraceSweep(e, c) \/ ReExecute(e, c)
               \/ ExecStep(e) \/ ExecuteFails(e) \/ ExecuteCrash(e)
         \/ \E w \in Workers : \/ Gate(w) \/ CloseAccount(w)
                               \/ Ledger(RefreshTo(w, "gate"))
                               \/ Ledger(ObligedTo(w, Handling(job[w].req, "close",
                                                               job[w].waive)))
         \/ Ledger(SharedStep)
         \/ \E g \in Registries : ClosureRedeploy(g)
         \/ UNCHANGED cvars
  BY DEF ClosureNext, WebStep, CallStepC, FinalizeStep, SharedStep, Ledger

LEMMA SharedIsErasure == SharedStep => Next
  BY DEF SharedStep, Next, CallStep

(***************************************************************************)
(* Type correctness                                                        *)
(***************************************************************************)

\* What the calls in progress carry: a cancel has read its closure, an
\* execution knows its closure from the start and its correlation id once it
\* has begun.
CallsTyped ==
    /\ \A h \in Handlers : web[h].pc = "cancel" => web[h].closure \in Closures
    /\ \A e \in Executors :
          /\ exec[e].pc # "idle" => exec[e].closure \in Closures
          /\ exec[e].pc \notin {"idle", "check", "begin"} => exec[e].req \in Requests

ClosureTypeInv == ClosureTypeOK /\ CallsTyped

LEMMA IdleCallsTyped == IdleWeb \in WebCall /\ IdleExec \in Exec
  BY DEF IdleWeb, WebCall, IdleExec, Exec

\* The fields an execution fills in as it proceeds keep it typed.
LEMMA ExecUpdated ==
  ASSUME NEW x \in Exec, NEW b \in BOOLEAN, NEW todo \in SUBSET Owners,
         NEW failed \in SUBSET Owners
  PROVE  /\ [[x EXCEPT !.pc = "providers"] EXCEPT !.open = b] \in Exec
         /\ [[[x EXCEPT !.pc = "receipts"] EXCEPT !.failed = failed] EXCEPT !.todo = todo] \in Exec
  BY DEF Exec

LEMMA ClosureTypeInit == ClosureInit => ClosureTypeInv
  <1> SUFFICES ASSUME ClosureInit PROVE ClosureTypeInv
    OBVIOUS
  <1>1. TypeOK
    BY TypeInit DEF ClosureInit
  <1>2. ClosureTypeOK
    BY <1>1, IdleCallsTyped, ClosureAssumption DEF ClosureInit, ClosureTypeOK, Status
  <1>3. CallsTyped
    BY DEF ClosureInit, CallsTyped, IdleWeb, IdleExec
  <1> QED BY <1>2, <1>3 DEF ClosureTypeInv

\* The steps of the account side that leave the ledger alone.
LEMMA LedgerUntouched ==
  ASSUME \/ \E h \in Handlers : WebStep(h)
         \/ \E u \in Users : SetHold(u)
         \/ \E e \in Executors :
               \/ \E c \in Closures : GraceSweep(e, c) \/ ReExecute(e, c)
               \/ ExecuteCheck(e) \/ ExecuteBegin(e) \/ ExecuteReuse(e)
               \/ ExecuteReceipted(e) \/ ExecuteIdentity(e) \/ ExecuteStamp(e)
               \/ ExecuteAnnounce(e) \/ ExecuteFails(e) \/ ExecuteCrash(e)
         \/ UNCHANGED cvars
  PROVE  UNCHANGED vars
  BY DEF WebStep, InitiateClosure, CancelClosure, InitiateCommit, CancelCommit, WebFails,
         SetHold, GraceSweep, ReExecute, Execute, ExecuteCheck, ExecuteBegin, ExecuteReuse,
         ExecuteReceipted, ExecuteIdentity, ExecuteStamp, ExecuteAnnounce, ExecuteFails,
         ExecuteCrash, cvars

LEMMA LedgerTyped == ClosureTypeInv /\ [ClosureNext]_cvars => TypeOK'
  <1> SUFFICES ASSUME ClosureTypeInv, [ClosureNext]_cvars PROVE TypeOK'
    OBVIOUS
  <1>0. TypeOK /\ CallsTyped /\ exec \in [Executors -> Exec]
    BY DEF ClosureTypeInv, ClosureTypeOK
  <1>1. CASE UNCHANGED vars
    BY <1>0, <1>1, TypeStep
  <1>2. ASSUME NEW e \in Executors, ExecuteRequest(e) PROVE TypeOK'
    <2>1. exec[e].req \in Requests /\ InsertRow(exec[e].req, Account, NoKey, NoReq)
      BY <1>0, <1>2 DEF CallsTyped, ExecuteRequest
    <2> QED BY <1>0, <1>2, <2>1, ConstantsAssumption, ClosureAssumption
            DEF TypeOK, ExecuteRequest, InsertRow, DueAt, Message, ReqState, PartState, outside
  <1>3. ASSUME NEW e \in Executors, ExecuteProviders(e) PROVE TypeOK'
    <2>1. registry.registered \subseteq Owners
      BY <1>0, ConstantsAssumption DEF TypeOK, Registry
    <2>2. exec[e].req \in Requests
      BY <1>0, <1>3 DEF CallsTyped, ExecuteProviders
    <2>3. PICK failed \in SUBSET registry.registered :
             confirmed' = confirmed \cup ({exec[e].req} \X (registry.registered \ failed))
      BY <1>3 DEF ExecuteProviders
    <2>4. confirmed' \subseteq Requests \X Owners
      BY <1>0, <2>1, <2>2, <2>3 DEF TypeOK
    <2> QED BY <1>0, <1>3, <2>4 DEF TypeOK, ExecuteProviders, ledger, rows, parts
  <1>4. ASSUME NEW e \in Executors, NEW o \in Owners, ExecuteReceipt(e, o) PROVE TypeOK'
    <2>1. part' \in [Requests -> [Owners -> PartState]]
      BY <1>0, <1>4 DEF TypeOK, ExecuteReceipt, PartState
    <2> QED BY <1>0, <1>4, <2>1 DEF TypeOK, ExecuteReceipt, rows, outside
  <1>5. ASSUME NEW e \in Executors, ExecuteFinalize(e) PROVE TypeOK'
    <2>1. exec[e].req \in Requests
      BY <1>0, <1>5 DEF CallsTyped, ExecuteFinalize
    <2>2. /\ Handling(exec[e].req, "judge", FALSE) \in Job
          /\ Handling(exec[e].req, "gate", FALSE) \in Job
      BY <2>1, HandlingTyped
    <2>3. job' \in [Workers -> Job]
      BY <1>0, <1>5, <2>2 DEF TypeOK, ExecuteFinalize
    <2> QED BY <1>0, <1>5, <2>3 DEF TypeOK, ExecuteFinalize, ledger, rows, parts, outside
  <1>6. ASSUME NEW w \in Workers,
               \/ Gate(w) \/ CloseAccount(w) \/ Ledger(RefreshTo(w, "gate"))
               \/ Ledger(ObligedTo(w, Handling(job[w].req, "close", job[w].waive)))
        PROVE  TypeOK'
    <2>1. job[w].req \in Requests \cup {NoReq} /\ job[w].waive \in BOOLEAN
      BY <1>0 DEF TypeOK, Job
    <2>2. \A pc \in {"gate", "judge", "close"} : Handling(job[w].req, pc, job[w].waive) \in Job
      BY <2>1, HandlingTyped
    <2>3. job' \in [Workers -> Job] /\ UNCHANGED <<ledger, outside, sweep>>
      BY <1>0, <1>6, <2>2, IdleTyped
      DEF TypeOK, Gate, CloseAccount, Ledger, RefreshTo, ObligedTo, Goto, Return, Become
    <2> QED BY <1>0, <2>3 DEF TypeOK, ledger, rows, parts, outside
  <1>7. CASE Ledger(SharedStep)
    <2> Next
      BY <1>7, SharedIsErasure DEF Ledger
    <2> QED BY <1>0, TypeStep
  <1>8. ASSUME NEW g \in Registries, ClosureRedeploy(g) PROVE TypeOK'
    <2> Next
      BY <1>8 DEF ClosureRedeploy, Next
    <2> QED BY <1>0, TypeStep
  <1> QED
    BY <1>1, <1>2, <1>3, <1>4, <1>5, <1>6, <1>7, <1>8, ClosureSteps, LedgerUntouched DEF ExecStep

LEMMA CallsTypedStep == ClosureTypeInv /\ [ClosureNext]_cvars => ClosureTypeInv'
  <1> SUFFICES ASSUME ClosureTypeInv, [ClosureNext]_cvars PROVE ClosureTypeInv'
    OBVIOUS
  <1>0. TypeOK' /\ ClosureTypeOK /\ CallsTyped
    BY LedgerTyped DEF ClosureTypeInv
  <1> USE DEF ClosureTypeInv
  <1>1. CASE UNCHANGED <<account, web, exec>>
    BY <1>0, <1>1 DEF ClosureTypeOK, CallsTyped, account, closureRow, user
  <1>2. ASSUME NEW h \in Handlers, WebStep(h) PROVE ClosureTypeInv'
    <2>1. ASSUME NEW u \in Users, InitiateClosure(h, u) PROVE ClosureTypeInv'
      BY <1>0, <2>1 DEF ClosureTypeOK, CallsTyped, InitiateClosure, IdleWeb, WebCall, account,
                        closureRow, user
    <2>2. ASSUME NEW u \in Users, CancelClosure(h, u) PROVE ClosureTypeInv'
      BY <1>0, <2>2 DEF ClosureTypeOK, CallsTyped, CancelClosure, Of, WebCall, account,
                        closureRow, user
    <2>3. ASSUME InitiateCommit(h) PROVE ClosureTypeInv'
      <3>1. PICK c \in Closures :
              /\ status'    = [status    EXCEPT ![c] = "grace"]
              /\ holder'    = [holder    EXCEPT ![c] = web[h].user]
              /\ graceEnds' = [graceEnds EXCEPT ![c] = now + GraceLength]
              /\ events'    = events \cup {[type |-> "initiated", closure |-> c]}
        BY <2>3 DEF InitiateCommit
      <3>2. web[h].user \in Users \cup {NoUser} /\ now \in Nat
        BY <1>0 DEF ClosureTypeOK, TypeOK, WebCall
      <3>3. /\ status' \in [Closures -> Status]
            /\ holder' \in [Closures -> Users \cup {NoUser}]
            /\ graceEnds' \in [Closures -> Nat]
        BY <1>0, <3>1, <3>2, ClosureAssumption DEF ClosureTypeOK, Status
      <3>4. events' \subseteq Event
        BY <1>0, <3>1 DEF ClosureTypeOK, Event
      <3>5. active' \in [Users -> BOOLEAN] /\ web' \in [Handlers -> WebCall]
        BY <1>0, <2>3, IdleCallsTyped DEF ClosureTypeOK, InitiateCommit
      <3>6. CallsTyped'
        BY <1>0, <2>3 DEF ClosureTypeOK, CallsTyped, InitiateCommit, IdleWeb
      <3> QED BY <1>0, <2>3, <3>3, <3>4, <3>5, <3>6 DEF ClosureTypeOK, InitiateCommit
    <2>4. ASSUME CancelCommit(h) PROVE ClosureTypeInv'
      <3>1. web[h].closure \in Closures
        BY <1>0, <2>4 DEF CallsTyped, CancelCommit
      <3>2. status' \in [Closures -> Status] /\ active' \in [Users -> BOOLEAN]
        BY <1>0, <2>4 DEF ClosureTypeOK, CancelCommit, Status
      <3>3. events' \subseteq Event
        BY <1>0, <2>4, <3>1 DEF ClosureTypeOK, CancelCommit, Event
      <3>4. web' \in [Handlers -> WebCall]
        BY <1>0, <2>4, IdleCallsTyped DEF ClosureTypeOK, CancelCommit
      <3>5. CallsTyped'
        BY <1>0, <2>4 DEF ClosureTypeOK, CallsTyped, CancelCommit, IdleWeb
      <3> QED BY <1>0, <2>4, <3>2, <3>3, <3>4, <3>5 DEF ClosureTypeOK, CancelCommit
    <2>5. ASSUME WebFails(h) PROVE ClosureTypeInv'
      BY <1>0, <2>5, ClosureAssumption, IdleCallsTyped
      DEF ClosureTypeOK, CallsTyped, WebFails, IdleWeb, closureRow, user
    <2> QED BY <1>2, <2>1, <2>2, <2>3, <2>4, <2>5 DEF WebStep
  <1>3. ASSUME NEW u \in Users, SetHold(u) PROVE ClosureTypeInv'
    BY <1>0, <1>3 DEF ClosureTypeOK, CallsTyped, SetHold, closureRow
  <1>4. ASSUME NEW e \in Executors, NEW c \in Closures, Execute(e, c) PROVE ClosureTypeInv'
    BY <1>0, <1>4 DEF ClosureTypeOK, CallsTyped, Execute, IdleExec, Exec, account,
                      closureRow, user
  <1>5. ASSUME NEW e \in Executors, ExecuteCheck(e) \/ ExecuteReceipted(e) \/ ExecuteCrash(e)
        PROVE  ClosureTypeInv'
    <2>1. exec' \in [Executors -> Exec]
      <3>1. \/ exec' = [exec EXCEPT ![e] = IdleExec]
            \/ \E p \in {"begin", "identity"} : exec' = [exec EXCEPT ![e].pc = p]
        BY <1>5 DEF ExecuteCheck, ExecuteReceipted, ExecuteCrash, ExecGoto, ExecReturn
      <3> QED BY <1>0, <3>1, IdleCallsTyped, SMTT(40) DEF ClosureTypeOK, Exec
    <2>2. CallsTyped'
      BY <1>0, <1>5 DEF ClosureTypeOK, CallsTyped, ExecuteCheck, ExecuteReceipted, ExecuteCrash,
                        ExecGoto, ExecReturn, IdleExec, Exec
    <2> QED BY <1>0, <1>5, <2>1, <2>2
            DEF ClosureTypeOK, ExecuteCheck, ExecuteReceipted, ExecuteCrash, account, closureRow, user
  <1>6. ASSUME NEW e \in Executors, ExecuteBegin(e) PROVE ClosureTypeInv'
    BY <1>0, <1>6 DEF ClosureTypeOK, CallsTyped, ExecuteBegin, Exec, Status, user
  <1>7. ASSUME NEW e \in Executors, ExecuteReuse(e) PROVE ClosureTypeInv'
    <2> DEFINE b == state[exec[e].req] \in Open
    <2>1. /\ exec' = [exec EXCEPT ![e].pc = "providers", ![e].open = b]
          /\ b \in BOOLEAN /\ exec[e].pc = "request"
      BY <1>7 DEF ExecuteReuse
    <2> HIDE DEF b
    <2>2. exec' \in [Executors -> Exec]
      BY <1>0, <2>1, ExecUpdated DEF ClosureTypeOK
    <2>3. \A f \in Executors : /\ exec'[f].closure = exec[f].closure
                               /\ exec'[f].req = exec[f].req
                               /\ exec'[f].pc = IF f = e THEN "providers" ELSE exec[f].pc
      BY <1>0, <2>1 DEF ClosureTypeOK, Exec
    <2>4. CallsTyped'
      BY <1>0, <1>7, <2>1, <2>3 DEF CallsTyped, ExecuteReuse
    <2> QED BY <1>0, <1>7, <2>2, <2>4 DEF ClosureTypeOK, ExecuteReuse, account, closureRow, user
  <1>8. ASSUME NEW e \in Executors, ExecuteRequest(e) PROVE ClosureTypeInv'
    <2>1. exec[e].closure \in Closures /\ exec[e] \in Exec
      BY <1>0, <1>8 DEF ClosureTypeOK, CallsTyped, ExecuteRequest
    <2> QED BY <1>0, <1>8, <2>1
            DEF ClosureTypeOK, CallsTyped, ExecuteRequest, Closure, Exec, closureRow, user
  <1>9. ASSUME NEW e \in Executors, ExecuteProviders(e) PROVE ClosureTypeInv'
    <2>1. registry.registered \subseteq Owners /\ registry.local \subseteq Owners
      BY <1>0, ConstantsAssumption DEF ClosureTypeOK, TypeOK, Registry
    <2>2. PICK failed \in SUBSET Owners, todo \in SUBSET Owners :
             exec' = [exec EXCEPT ![e].pc = "receipts", ![e].failed = failed, ![e].todo = todo]
      BY <1>9, <2>1 DEF ExecuteProviders
    <2>3. failures' \in 0..MaxFailures
      BY <1>0, <1>9, ClosureAssumption DEF ClosureTypeOK, ExecuteProviders
    <2>4. exec' \in [Executors -> Exec]
      BY <1>0, <2>2, ExecUpdated DEF ClosureTypeOK
    <2>5. \A f \in Executors : /\ exec'[f].closure = exec[f].closure
                               /\ exec'[f].req = exec[f].req
                               /\ exec'[f].pc = IF f = e THEN "receipts" ELSE exec[f].pc
      BY <1>0, <2>2 DEF ClosureTypeOK, Exec
    <2>6. CallsTyped'
      BY <1>0, <1>9, <2>5 DEF CallsTyped, ExecuteProviders
    <2> QED BY <1>0, <1>9, <2>3, <2>4, <2>6
            DEF ClosureTypeOK, ExecuteProviders, closureRow, user
  <1>10. ASSUME NEW e \in Executors, NEW o \in Owners, ExecuteReceipt(e, o)
         PROVE  ClosureTypeInv'
    BY <1>0, <1>10, SMTT(40) DEF ClosureTypeOK, CallsTyped, ExecuteReceipt, Exec, account, closureRow, user
  <1>11. ASSUME NEW e \in Executors,
                ExecuteIdentity(e) \/ ExecuteStamp(e) \/ ExecuteAnnounce(e)
         PROVE  ClosureTypeInv'
    <2>1. /\ exec[e].closure \in Closures
          /\ \E pc \in {"stamp", "announce", "finalize"} : exec' = [exec EXCEPT ![e].pc = pc]
          /\ exec[e].pc \in {"identity", "stamp", "announce"}
      BY <1>0, <1>11 DEF CallsTyped, ExecuteIdentity, ExecuteStamp, ExecuteAnnounce, ExecGoto
    <2>2. exec' \in [Executors -> Exec] /\ CallsTyped'
      <3>1. web' = web
        BY <1>11 DEF ExecuteIdentity, ExecuteStamp, ExecuteAnnounce
      <3> QED BY <1>0, <2>1, <3>1, SMTT(40) DEF ClosureTypeOK, CallsTyped, Exec
    <2>3. events' \subseteq Event
      BY <1>0, <1>11, <2>1
      DEF ClosureTypeOK, ExecuteIdentity, ExecuteStamp, ExecuteAnnounce, Event, Closure
    <2> QED BY <1>0, <1>11, <2>2, <2>3
            DEF ClosureTypeOK, ExecuteIdentity, ExecuteStamp, ExecuteAnnounce, closureRow, user
  <1>12. ASSUME NEW e \in Executors, ExecuteFinalize(e) \/ ExecuteFails(e)
         PROVE  ClosureTypeInv'
    <2>1. exec' = [exec EXCEPT ![e] = IdleExec] /\ web' = web
      BY <1>12 DEF ExecuteFinalize, ExecuteFails, ExecReturn
    <2>2. exec' \in [Executors -> Exec] /\ CallsTyped'
      BY <1>0, <2>1, IdleCallsTyped DEF ClosureTypeOK, CallsTyped, IdleExec
    <2>3. failures' = failures \/ (failures < MaxFailures /\ failures' = failures + 1)
      BY <1>12 DEF ExecuteFinalize, ExecuteFails, account
    <2>4. failures' \in 0..MaxFailures
      BY <1>0, <2>3, ClosureAssumption DEF ClosureTypeOK
    <2> QED BY <1>0, <1>12, <2>2, <2>4
            DEF ClosureTypeOK, ExecuteFinalize, ExecuteFails, account, closureRow, user
  <1>13. ASSUME NEW w \in Workers, CloseAccount(w) PROVE ClosureTypeInv'
    <2>1. job[w].waive \in BOOLEAN
      BY <1>0 DEF ClosureTypeOK, TypeOK, Job
    <2> QED BY <1>0, <1>13, <2>1 DEF ClosureTypeOK, CallsTyped, CloseAccount, Status, user
  <1>14. ASSUME NEW g \in Registries, ClosureRedeploy(g) PROVE ClosureTypeInv'
    BY <1>0, <1>14, IdleCallsTyped
    DEF ClosureTypeOK, CallsTyped, ClosureRedeploy, IdleWeb, IdleExec, account, closureRow, user
  <1>15. ASSUME NEW w \in Workers, Gate(w) PROVE UNCHANGED <<account, web, exec>>
    BY <1>15 DEF Gate
  <1>16. UNCHANGED cvars => UNCHANGED <<account, web, exec>>
    BY DEF cvars
  <1> QED
    BY <1>1, <1>2, <1>3, <1>4, <1>5, <1>6, <1>7, <1>8, <1>9, <1>10, <1>11, <1>12, <1>13,
       <1>14, <1>15, <1>16, ClosureSteps
    DEF GraceSweep, ReExecute, ExecStep, Ledger

\* Every column of the closure rows and every local variable of the calls of
\* initiate_closure, cancel_closure and execute_deletion keeps its type, next
\* to the types of the ledger.
THEOREM ClosureTypes == ClosureSpec => []ClosureTypeOK
  <1>1. ClosureTypeInv => ClosureTypeOK
    BY DEF ClosureTypeInv
  <1> QED BY <1>1, ClosureTypeInit, CallsTypedStep, PTL DEF ClosureSpec

(***************************************************************************)
(* What no step takes back                                                 *)
(***************************************************************************)

\* A request that exists keeps its closure, its subject, the owners it asked
\* and their receipts; completion and confirmations accumulate.
KeptRow(r) ==
    /\ Exists(r)' /\ link'[r] = link[r] /\ subject'[r] = subject[r]
    /\ completed[r] => completed'[r]
    /\ \A o \in Owners :
          /\ part[r][o] \in {"absent", "done"} => part'[r][o] = part[r][o]
          /\ part[r][o] # "absent" => part'[r][o] # "absent"

LEMMA SharedKeepsRows ==
  ASSUME TypeOK, SharedStep, UNCHANGED link, NEW r \in Requests, Exists(r)
  PROVE  KeptRow(r)
  <1>1. [Next]_vars
    BY SharedIsErasure
  <1>2. /\ Exists(r)' /\ (completed[r] => completed'[r])
        /\ \A o \in Owners : part[r][o] \in {"absent", "done"} => part'[r][o] = part[r][o]
    BY <1>1, PartsFinal, RowsFrame
  <1>3. ASSUME NEW w \in Workers, MarkStep(w)
        PROVE  subject' = subject /\ \A o \in Owners : part[r][o] # "absent" => part'[r][o] # "absent"
    BY <1>3 DEF MarkStep, MarkSectionErased, TypeOK, rows
  <1>4. ASSUME NEW s \in Sweepers, SweepUpdate(s)
        PROVE  subject' = subject /\ \A o \in Owners : part[r][o] # "absent" => part'[r][o] # "absent"
    BY <1>4 DEF SweepUpdate, TypeOK, rows
  <1>5. ASSUME \/ \E w \in Workers : \/ Judge(w) \/ SaveDeleted(w) \/ Crash(w)
                                     \/ \E p \in Processors : Oblige(w, p)
               \/ \E s \in Sweepers : \/ SweepRead(s) \/ SweepSelect(s) \/ SweepCrash(s)
                                      \/ \E q \in Requests : SweepFlip(s, q)
               \/ \E q \in Requests, o \in Owners : OwnerConfirms(q, o)
               \/ Tick
        PROVE  subject' = subject /\ part' = part
    BY <1>5 DEF Judge, SaveDeleted, Crash, Oblige, SweepRead, SweepSelect, SweepCrash,
                SweepFlip, OwnerConfirms, Tick, ledger, rows, parts
  <1> QED BY <1>2, <1>3, <1>4, <1>5 DEF SharedStep, SweepStep, KeptRow

LEMMA RowsForward ==
  ASSUME ClosureTypeInv, [ClosureNext]_cvars
  PROVE  /\ now <= now' /\ confirmed \subseteq confirmed'
         /\ \A r \in Requests : completed[r] => completed'[r]
         /\ \A r \in Requests : Exists(r) => KeptRow(r)
  <1> DEFINE Goal == /\ now <= now' /\ confirmed \subseteq confirmed'
                     /\ \A r \in Requests : completed[r] => completed'[r]
                     /\ \A r \in Requests : Exists(r) => KeptRow(r)
  <1>0. TypeOK /\ link \in [Requests -> Closures \cup {NoClosure}] /\ now <= now
    BY DEF ClosureTypeInv, ClosureTypeOK, TypeOK
  <1>1. CASE UNCHANGED <<state, subject, completed, part, confirmed, now, link>>
    BY <1>0, <1>1 DEF KeptRow, Exists
  <1>2. ASSUME NEW e \in Executors, ExecuteRequest(e) PROVE Goal
    BY <1>0, <1>2 DEF TypeOK, ExecuteRequest, InsertRow, KeptRow, Exists, outside
  <1>3. ASSUME NEW e \in Executors, ExecuteProviders(e) PROVE Goal
    BY <1>0, <1>3 DEF ExecuteProviders, KeptRow, Exists, ledger, rows, parts
  <1>4. ASSUME NEW e \in Executors, NEW o \in Owners, ExecuteReceipt(e, o) PROVE Goal
    <2>1. UNCHANGED <<state, subject, completed, confirmed, now, link>>
      BY <1>4 DEF ExecuteReceipt, rows, outside, account
    <2>2. \A r \in Requests, p \in Owners :
             /\ part[r][p] \in {"absent", "done"} => part'[r][p] = part[r][p]
             /\ part[r][p] # "absent" => part'[r][p] # "absent"
      BY <1>0, <1>4 DEF TypeOK, ExecuteReceipt, Unreceipted, Asked, Receipts
    <2> QED BY <1>0, <2>1, <2>2 DEF KeptRow, Exists
  <1>5. CASE Ledger(SharedStep)
    <2>1. [Next]_vars /\ SharedStep /\ UNCHANGED link
      BY <1>5, SharedIsErasure DEF Ledger, account
    <2>2. now <= now' /\ \A r \in Requests : completed[r] => completed'[r]
      BY <1>0, <2>1, Forward, RowsFrame
    <2>3. \A r \in Requests : Exists(r) => KeptRow(r)
      BY <1>0, <2>1, SharedKeepsRows
    <2>4. confirmed \subseteq confirmed'
      BY <2>1 DEF SharedStep, Judge, SaveDeleted, MarkStep, MarkSectionErased, Crash, Oblige,
                  SweepStep, SweepRead, SweepUpdate, SweepSelect, SweepFlip, SweepCrash,
                  OwnerConfirms, Tick, outside
    <2> QED BY <2>2, <2>3, <2>4
  <1>6. ASSUME \/ \E w \in Workers :
                     \/ Gate(w) \/ CloseAccount(w) \/ Ledger(RefreshTo(w, "gate"))
                     \/ Ledger(ObligedTo(w, Handling(job[w].req, "close", job[w].waive)))
               \/ \E e \in Executors : ExecuteFinalize(e)
               \/ \E g \in Registries : ClosureRedeploy(g)
        PROVE  UNCHANGED <<state, subject, completed, part, confirmed, now, link>>
    BY <1>6 DEF Gate, CloseAccount, Ledger, RefreshTo, ObligedTo, ExecuteFinalize,
                ClosureRedeploy, Redeploy, account, ledger, rows, parts, outside
  <1>7. ASSUME \/ \E h \in Handlers : WebStep(h)
               \/ \E u \in Users : SetHold(u)
               \/ \E e \in Executors :
                     \/ \E c \in Closures : GraceSweep(e, c) \/ ReExecute(e, c)
                     \/ ExecuteCheck(e) \/ ExecuteBegin(e) \/ ExecuteReuse(e)
                     \/ ExecuteReceipted(e) \/ ExecuteIdentity(e) \/ ExecuteStamp(e)
                     \/ ExecuteAnnounce(e) \/ ExecuteFails(e) \/ ExecuteCrash(e)
               \/ UNCHANGED cvars
        PROVE  UNCHANGED <<state, subject, completed, part, confirmed, now, link>>
    <2>1. UNCHANGED vars
      BY <1>7, LedgerUntouched, SMTT(40)
    <2>2. UNCHANGED link
      BY <1>7 DEF WebStep, InitiateClosure, CancelClosure, InitiateCommit, CancelCommit,
                  WebFails, SetHold, GraceSweep, ReExecute, Execute, ExecuteCheck,
                  ExecuteBegin, ExecuteReuse, ExecuteReceipted, ExecuteIdentity, ExecuteStamp,
                  ExecuteAnnounce, ExecuteFails, ExecuteCrash, cvars, account
    <2> QED BY <2>1, <2>2 DEF vars, ledger, rows, parts, outside
  <1> QED BY <1>1, <1>2, <1>3, <1>4, <1>5, <1>6, <1>7, ClosureSteps DEF ExecStep

\* A closure whose erasure has begun: its grace is over and it will never be
\* in GRACE again.
Begun(c) == /\ status[c] \notin {"absent", "grace"}
            /\ graceEnds[c] <= now
            /\ corr[c] # NoReq

\* What a closure row keeps once it exists.
KeptClosure(c) ==
    /\ status'[c] # "absent" /\ (status[c] # "grace" => status'[c] # "grace")
    /\ holder'[c] = holder[c] /\ graceEnds'[c] = graceEnds[c]

LEMMA ClosuresForward ==
  ASSUME ClosureTypeInv, [ClosureNext]_cvars
  PROVE  /\ \A c \in Closures : status[c] # "absent" => KeptClosure(c)
         /\ \A c \in Closures : /\ corr[c] # NoReq => corr'[c] # NoReq
                                /\ localDone[c] => localDone'[c]
                                /\ idStamp[c] => idStamp'[c]
         /\ \A u \in Users : identity[u] = "erased" => identity'[u] = "erased"
         /\ events \subseteq events'
  <1> DEFINE Goal ==
         /\ \A c \in Closures : status[c] # "absent" => KeptClosure(c)
         /\ \A c \in Closures : /\ corr[c] # NoReq => corr'[c] # NoReq
                                /\ localDone[c] => localDone'[c]
                                /\ idStamp[c] => idStamp'[c]
         /\ \A u \in Users : identity[u] = "erased" => identity'[u] = "erased"
         /\ events \subseteq events'
  <1>0. ClosureTypeOK /\ CallsTyped
    BY DEF ClosureTypeInv
  <1>1. CASE UNCHANGED <<closureRow, identity, events>>
    BY <1>1 DEF KeptClosure, closureRow
  <1>2. ASSUME NEW h \in Handlers, InitiateCommit(h) PROVE Goal
    BY <1>0, <1>2 DEF ClosureTypeOK, InitiateCommit, KeptClosure
  <1>3. ASSUME NEW h \in Handlers, CancelCommit(h) PROVE Goal
    BY <1>0, <1>3 DEF ClosureTypeOK, CancelCommit, KeptClosure
  <1>4. ASSUME NEW e \in Executors, ExecuteBegin(e) PROVE Goal
    <2>1. PICK r \in Requests : corr' = [corr EXCEPT ![Closure(e)] = r]
      BY <1>4 DEF ExecuteBegin
    <2> QED BY <1>0, <1>4, <2>1, ConstantsAssumption
            DEF ClosureTypeOK, ExecuteBegin, KeptClosure, user
  <1>5. ASSUME NEW e \in Executors, ExecuteIdentity(e) PROVE Goal
    BY <1>0, <1>5 DEF ClosureTypeOK, ExecuteIdentity, KeptClosure, closureRow
  <1>6. ASSUME NEW e \in Executors, ExecuteStamp(e) \/ ExecuteAnnounce(e) PROVE Goal
    BY <1>0, <1>6 DEF ClosureTypeOK, ExecuteStamp, ExecuteAnnounce, KeptClosure, user
  <1>7. ASSUME NEW w \in Workers, CloseAccount(w) PROVE Goal
    BY <1>0, <1>7, SMTT(40) DEF ClosureTypeOK, CloseAccount, KeptClosure, user
  <1>8. ASSUME \/ \E h \in Handlers : \/ \E u \in Users : InitiateClosure(h, u) \/ CancelClosure(h, u)
                                      \/ WebFails(h)
               \/ \E u \in Users : SetHold(u)
               \/ \E e \in Executors :
                     \/ \E c \in Closures : GraceSweep(e, c) \/ ReExecute(e, c)
                     \/ ExecuteCheck(e) \/ ExecuteReuse(e) \/ ExecuteRequest(e)
                     \/ ExecuteProviders(e) \/ (\E o \in Owners : ExecuteReceipt(e, o))
                     \/ ExecuteReceipted(e) \/ ExecuteFinalize(e)
                     \/ ExecuteFails(e) \/ ExecuteCrash(e)
        PROVE  UNCHANGED <<closureRow, identity, events>>
    BY <1>8, ZenonT(40) DEF InitiateClosure, CancelClosure, WebFails, SetHold, GraceSweep, ReExecute,
                Execute, ExecuteCheck, ExecuteReuse, ExecuteRequest, ExecuteProviders,
                ExecuteReceipt, ExecuteReceipted, ExecuteFinalize, ExecuteFails, ExecuteCrash,
                account, user
  <1>9. ASSUME \/ \E w \in Workers :
                     \/ Gate(w) \/ Ledger(RefreshTo(w, "gate"))
                     \/ Ledger(ObligedTo(w, Handling(job[w].req, "close", job[w].waive)))
               \/ Ledger(SharedStep)
               \/ \E g \in Registries : ClosureRedeploy(g)
               \/ UNCHANGED cvars
        PROVE  UNCHANGED <<closureRow, identity, events>>
    BY <1>9 DEF Gate, Ledger, ClosureRedeploy, account, user, cvars
  <1> QED
    BY <1>1, <1>2, <1>3, <1>4, <1>5, <1>6, <1>7, <1>8, <1>9, ClosureSteps DEF ExecStep, WebStep

(***************************************************************************)
(* Grace, announcement and refusal                                         *)
(***************************************************************************)

\* Closures have a holder, and a cancel in flight names an existing closure.
HoldersKnown ==
    /\ \A c \in Closures : status[c] # "absent" => holder[c] \in Users
    /\ \A h \in Handlers :
          /\ web[h].pc = "create" => web[h].user \in Users
          /\ web[h].pc = "cancel" => status[web[h].closure] # "absent"

\* A running _maybe_finalize and a running sweep know requests of closures.
Linked(r) == r \in Requests /\ link[r] \in Closures

JobsKnown   == \A w \in Workers : job[w].pc # "idle" => Linked(job[w].req)
SweepsKnown == \A s \in Sweepers, r \in Requests :
                  (r \in sweep[s].todo \/ \E o \in Owners : <<r, o>> \in sweep[s].affected)
                     => Linked(r)
PartsLinked == \A r \in Requests, o \in Owners : part[r][o] # "absent" => Linked(r)

\* Every request belongs to a closure whose erasure has begun.
RowsLinked ==
    \A r \in Requests :
        /\ Exists(r) => link[r] \in Closures
        /\ link[r] \in Closures => Exists(r) /\ Begun(link[r])

\* A correlation id, once drawn, is of one closure: the row that saved it, the
\* call that carries it and the request it names agree.
Claim(r, c) == \/ corr[c] = r
               \/ link[r] = c
               \/ \E e \in Executors : exec[e].closure = c /\ exec[e].req = r

OneClaim == \A r \in Requests : \A c, d \in Closures : Claim(r, c) /\ Claim(r, d) => c = d

ClosureGrounded(c) ==
    /\ status[c] \in {"deleting", "deleted"} => Begun(c)
    /\ status[c] = "cancelled" => [type |-> "cancelled", closure |-> c] \in events
    /\ idStamp[c] => Begun(c) /\ identity[holder[c]] = "erased"
    /\ [type |-> "deleted", closure |-> c] \in events =>
          /\ localDone[c] /\ idStamp[c]
          /\ \E r \in Requests : link[r] = c

\* An execution may rely on what its earlier steps left behind.
ExecGrounded(e) ==
    LET c == exec[e].closure
    IN /\ exec[e].pc # "idle" => status[c] # "absent" /\ graceEnds[c] <= now
       /\ exec[e].pc \notin {"idle", "check", "begin"} => Begun(c)
       /\ exec[e].pc \notin {"idle", "check", "begin", "request"} => link[exec[e].req] = c
       /\ exec[e].pc \in {"stamp", "announce", "finalize"} => identity[holder[c]] = "erased"
       /\ exec[e].pc \in {"announce", "finalize"} => idStamp[c]
       /\ exec[e].pc = "finalize" => localDone[c]

ErasedGrounded ==
    \A u \in Users : identity[u] = "erased" =>
        \E c \in Closures : holder[c] = u /\ Begun(c)

GraceInv ==
    /\ ClosureTypeInv /\ HoldersKnown /\ RowsLinked /\ OneClaim
    /\ JobsKnown /\ SweepsKnown /\ PartsLinked
    /\ \A c \in Closures : ClosureGrounded(c)
    /\ \A e \in Executors : ExecGrounded(e)
    /\ ErasedGrounded

LEMMA GraceInit == ClosureInit => GraceInv
  <1> SUFFICES ASSUME ClosureInit PROVE GraceInv
    OBVIOUS
  <1> USE ConstantsAssumption, ClosureAssumption DEF ClosureInit
  <1>1. HoldersKnown
    BY DEF HoldersKnown, IdleWeb
  <1>2. RowsLinked /\ JobsKnown /\ SweepsKnown /\ PartsLinked
    BY DEF RowsLinked, JobsKnown, SweepsKnown, PartsLinked, Exists, Init, IdleJob, Handling,
           IdleSweep, Sweeping
  <1>3. OneClaim
    BY DEF OneClaim, Claim, IdleExec
  <1>4. \A c \in Closures : ClosureGrounded(c)
    BY DEF ClosureGrounded
  <1>5. \A e \in Executors : ExecGrounded(e)
    BY DEF ExecGrounded, IdleExec
  <1>6. ErasedGrounded
    BY DEF ErasedGrounded
  <1> QED BY <1>1, <1>2, <1>3, <1>4, <1>5, <1>6, ClosureTypeInit DEF GraceInv

LEMMA BegunStays ==
  ASSUME ClosureTypeInv, [ClosureNext]_cvars, NEW c \in Closures, Begun(c)
  PROVE  Begun(c)'
  <1>1. KeptClosure(c) /\ corr'[c] # NoReq
    BY ClosuresForward DEF Begun
  <1>2. now \in Nat /\ now' \in Nat /\ now <= now' /\ graceEnds[c] \in Nat
    BY RowsForward, LedgerTyped DEF ClosureTypeInv, ClosureTypeOK, TypeOK
  <1> QED BY <1>1, <1>2 DEF Begun, KeptClosure

\* A call that does not move keeps what it relies on.
LEMMA ExecKept ==
  ASSUME GraceInv, [ClosureNext]_cvars, NEW e \in Executors, exec'[e] = exec[e]
  PROVE  ExecGrounded(e)'
  <1> SUFFICES ASSUME exec[e].pc # "idle" PROVE ExecGrounded(e)'
    BY DEF ExecGrounded
  <1>1. /\ ClosureTypeInv /\ ExecGrounded(e) /\ RowsLinked /\ HoldersKnown
        /\ exec[e].closure \in Closures
        /\ exec[e].pc \notin {"idle", "check", "begin"} => exec[e].req \in Requests
    BY DEF GraceInv, ClosureTypeInv, CallsTyped
  <1> DEFINE c == exec[e].closure
  <1>2. status[c] # "absent" /\ graceEnds[c] <= now /\ holder[c] \in Users
    BY <1>1 DEF ExecGrounded, HoldersKnown
  <1>3. KeptClosure(c)
    BY <1>1, <1>2, ClosuresForward
  <1>4. now \in Nat /\ now' \in Nat /\ now <= now' /\ graceEnds[c] \in Nat
    BY <1>1, RowsForward, LedgerTyped DEF ClosureTypeInv, ClosureTypeOK, TypeOK
  <1>5. status'[c] # "absent" /\ graceEnds'[c] <= now'
    BY <1>2, <1>3, <1>4 DEF KeptClosure
  <1>6. exec[e].pc \notin {"idle", "check", "begin"} => Begun(c)'
    BY <1>1, BegunStays DEF ExecGrounded
  <1>7. exec[e].pc \notin {"idle", "check", "begin", "request"} => link'[exec[e].req] = c
    <2> SUFFICES ASSUME exec[e].pc \notin {"idle", "check", "begin", "request"}
                 PROVE  link'[exec[e].req] = c
      OBVIOUS
    <2>1. link[exec[e].req] = c /\ exec[e].req \in Requests
      BY <1>1 DEF ExecGrounded
    <2>2. Exists(exec[e].req)
      BY <1>1, <2>1 DEF RowsLinked
    <2> QED BY <1>1, <2>1, <2>2, RowsForward DEF KeptRow
  <1>8. exec[e].pc \in {"stamp", "announce", "finalize"} => identity'[holder'[c]] = "erased"
    BY <1>1, <1>2, <1>3, ClosuresForward DEF ExecGrounded, KeptClosure
  <1>9. /\ exec[e].pc \in {"announce", "finalize"} => idStamp'[c]
        /\ exec[e].pc = "finalize" => localDone'[c]
    BY <1>1, ClosuresForward DEF ExecGrounded
  <1> QED BY <1>5, <1>6, <1>7, <1>8, <1>9 DEF ExecGrounded, Begun

LEMMA ExecIdle ==
  ASSUME NEW e \in Executors, exec'[e] = IdleExec
  PROVE  ExecGrounded(e)'
  BY DEF ExecGrounded, IdleExec

\* A call moves by its own steps only; everybody else's leave it alone, and a
\* release ends it.
LEMMA OwnSteps ==
  ASSUME ClosureTypeInv, [ClosureNext]_cvars, NEW e \in Executors
  PROVE  \/ exec'[e] = exec[e] \/ exec'[e] = IdleExec
         \/ \E c \in Closures : GraceSweep(e, c) \/ ReExecute(e, c)
         \/ ExecStep(e)
  <1>0. exec \in [Executors -> Exec]
    BY DEF ClosureTypeInv, ClosureTypeOK
  <1>1. ASSUME NEW f \in Executors, f # e,
               \/ \E c \in Closures : GraceSweep(f, c) \/ ReExecute(f, c)
               \/ ExecStep(f) \/ ExecuteFails(f) \/ ExecuteCrash(f)
        PROVE  exec'[e] = exec[e]
    <2>1. CASE \/ \E c \in Closures : GraceSweep(f, c) \/ ReExecute(f, c)
               \/ ExecuteCheck(f) \/ ExecuteFails(f) \/ ExecuteCrash(f)
      BY <1>0, <1>1, <2>1 DEF GraceSweep, ReExecute, Execute, ExecuteCheck, ExecuteFails,
                              ExecuteCrash, ExecGoto, ExecReturn
    <2>2. CASE ExecuteBegin(f) \/ ExecuteReuse(f) \/ ExecuteRequest(f) \/ ExecuteProviders(f)
      BY <1>0, <1>1, <2>2 DEF ExecuteBegin, ExecuteReuse, ExecuteRequest, ExecuteProviders
    <2>3. CASE \/ \E o \in Owners : ExecuteReceipt(f, o)
               \/ ExecuteReceipted(f) \/ ExecuteIdentity(f) \/ ExecuteStamp(f)
               \/ ExecuteAnnounce(f) \/ ExecuteFinalize(f)
      BY <1>0, <1>1, <2>3 DEF ExecuteReceipt, ExecuteReceipted, ExecuteIdentity, ExecuteStamp,
                              ExecuteAnnounce, ExecuteFinalize, ExecGoto, ExecReturn
    <2> QED BY <1>1, <2>1, <2>2, <2>3, SMTT(40) DEF ExecStep
  <1>2. ASSUME ExecuteFails(e) \/ ExecuteCrash(e) PROVE exec'[e] = IdleExec
    BY <1>0, <1>2 DEF ExecuteFails, ExecuteCrash, ExecReturn
  <1>3. ASSUME \/ \E h \in Handlers : WebStep(h)
               \/ \E u \in Users : SetHold(u)
               \/ \E w \in Workers :
                     \/ Gate(w) \/ CloseAccount(w) \/ Ledger(RefreshTo(w, "gate"))
                     \/ Ledger(ObligedTo(w, Handling(job[w].req, "close", job[w].waive)))
               \/ Ledger(SharedStep)
               \/ UNCHANGED cvars
        PROVE  exec' = exec
    BY <1>3 DEF WebStep, InitiateClosure, CancelClosure, InitiateCommit, CancelCommit, WebFails,
                SetHold, Gate, CloseAccount, Ledger, cvars
  <1>4. ASSUME NEW g \in Registries, ClosureRedeploy(g) PROVE exec'[e] = IdleExec
    BY <1>4 DEF ClosureRedeploy
  <1> QED BY <1>1, <1>2, <1>3, <1>4, ClosureSteps

LEMMA ExecGroundedStep ==
  ASSUME GraceInv, [ClosureNext]_cvars, NEW e \in Executors
  PROVE  ExecGrounded(e)'
  <1>0. /\ ClosureTypeInv /\ ClosureTypeOK /\ CallsTyped /\ exec[e] \in Exec
        /\ RowsLinked /\ OneClaim /\ HoldersKnown /\ ExecGrounded(e)
        /\ \A c \in Closures : ClosureGrounded(c)
    BY DEF GraceInv, ClosureTypeInv, ClosureTypeOK
  <1>1. CASE exec'[e] = exec[e] \/ exec'[e] = IdleExec
    BY <1>1, ExecKept, ExecIdle
  <1>2. ASSUME NEW c \in Closures, GraceSweep(e, c) \/ ReExecute(e, c)
        PROVE  ExecGrounded(e)'
    <2>1. /\ exec'[e].pc = "check" /\ exec'[e].closure = c
          /\ UNCHANGED <<status, graceEnds, now>>
      BY <1>0, <1>2 DEF ClosureTypeOK, GraceSweep, ReExecute, Execute, IdleExec, account,
                        closureRow, vars, outside
    <2>2. status[c] # "absent" /\ graceEnds[c] <= now
      BY <1>0, <1>2 DEF GraceSweep, ReExecute, ClosureGrounded, Begun
    <2> QED BY <2>1, <2>2 DEF ExecGrounded
  <1>3. CASE ExecuteCheck(e) /\ exec'[e] # IdleExec
    <2>1. /\ exec[e].pc = "check" /\ exec'[e].pc = "begin"
          /\ exec'[e].closure = exec[e].closure
          /\ UNCHANGED <<status, graceEnds, now>>
      BY <1>0, <1>3 DEF ClosureTypeOK, ExecuteCheck, ExecGoto, ExecReturn, Exec, account,
                        closureRow, vars, outside
    <2> QED BY <1>0, <2>1 DEF ExecGrounded
  <1>4. CASE ExecuteBegin(e)
    <2>1. PICK r \in Requests : /\ corr' = [corr EXCEPT ![exec[e].closure] = r]
                                /\ exec' = [exec EXCEPT ![e].req = r, ![e].pc = "request"]
      BY <1>4 DEF ExecuteBegin, Closure
    <2>2. /\ exec[e].pc = "begin" /\ exec'[e].pc = "request"
          /\ exec'[e].closure = exec[e].closure /\ exec[e].closure \in Closures
          /\ status' = [status EXCEPT ![exec[e].closure] = "deleting"]
          /\ UNCHANGED <<graceEnds, now>>
      BY <1>0, <1>4, <2>1 DEF ClosureTypeOK, CallsTyped, ExecuteBegin, Closure, Exec, vars, outside
    <2>3. status'[exec[e].closure] = "deleting" /\ corr'[exec[e].closure] # NoReq
      BY <1>0, <2>1, <2>2, ConstantsAssumption DEF ClosureTypeOK
    <2> QED BY <1>0, <2>2, <2>3 DEF ExecGrounded, Begun
  <1>5. CASE ExecuteReuse(e)
    <2>1. /\ exec[e].pc = "request" /\ exec'[e].pc = "providers" /\ Exists(exec[e].req)
          /\ exec'[e].closure = exec[e].closure /\ exec'[e].req = exec[e].req
          /\ UNCHANGED <<status, graceEnds, corr, now, link>>
      BY <1>0, <1>5 DEF ClosureTypeOK, ExecuteReuse, Exec, account, closureRow, vars, outside
    <2>2. exec[e].closure \in Closures /\ exec[e].req \in Requests
      BY <1>0, <2>1 DEF CallsTyped
    <2>3. link[exec[e].req] \in Closures
      BY <1>0, <2>1, <2>2 DEF RowsLinked
    <2>4. link[exec[e].req] = exec[e].closure
      BY <1>0, <2>2, <2>3 DEF OneClaim, Claim
    <2> QED BY <1>0, <2>1, <2>4 DEF ExecGrounded, Begun
  <1>6. CASE ExecuteRequest(e)
    <2>1. /\ exec[e].pc = "request" /\ exec'[e].pc = "providers"
          /\ exec'[e].closure = exec[e].closure /\ exec'[e].req = exec[e].req
          /\ UNCHANGED <<status, graceEnds, corr, now>>
          /\ link' = [link EXCEPT ![exec[e].req] = exec[e].closure]
      BY <1>0, <1>6 DEF ClosureTypeOK, ExecuteRequest, Closure, Exec, closureRow, outside
    <2>2. exec[e].req \in Requests
      BY <1>0, <2>1 DEF CallsTyped
    <2>3. link'[exec[e].req] = exec[e].closure
      BY <1>0, <2>1, <2>2 DEF ClosureTypeOK
    <2> QED BY <1>0, <2>1, <2>3 DEF ExecGrounded, Begun
  <1>7. CASE \/ ExecuteProviders(e) \/ (\E o \in Owners : ExecuteReceipt(e, o))
             \/ (ExecuteReceipted(e) /\ exec'[e] # IdleExec)
    <2> DEFINE Moved == /\ exec[e].pc \in {"providers", "receipts"}
                        /\ exec'[e].pc \in {"receipts", "identity"}
                        /\ exec'[e].closure = exec[e].closure /\ exec'[e].req = exec[e].req
    <2>a. ASSUME ExecuteProviders(e) PROVE Moved
      <3>1. PICK failed, todo :
               exec' = [exec EXCEPT ![e].pc = "receipts", ![e].failed = failed, ![e].todo = todo]
        BY <2>a DEF ExecuteProviders
      <3> QED BY <1>0, <2>a, <3>1 DEF ClosureTypeOK, ExecuteProviders, Exec
    <2>b. ASSUME NEW o \in Owners, ExecuteReceipt(e, o) PROVE Moved
      BY <1>0, <2>b DEF ClosureTypeOK, ExecuteReceipt, Exec
    <2>c. ASSUME ExecuteReceipted(e), exec'[e] # IdleExec PROVE Moved
      BY <1>0, <2>c DEF ClosureTypeOK, ExecuteReceipted, ExecGoto, ExecReturn, Exec
    <2>1. Moved
      BY <1>7, <2>a, <2>b, <2>c
    <2>2. UNCHANGED <<status, graceEnds, corr, now, link>>
      BY <1>7 DEF ExecuteProviders, ExecuteReceipt, ExecuteReceipted, account, closureRow, vars,
                  outside
    <2> QED BY <1>0, <2>1, <2>2 DEF ExecGrounded, Begun
  <1>8. CASE ExecuteIdentity(e)
    <2>1. /\ exec[e].pc = "identity" /\ exec'[e].pc = "stamp"
          /\ exec'[e].closure = exec[e].closure /\ exec'[e].req = exec[e].req
          /\ UNCHANGED <<status, holder, graceEnds, corr, now, link>>
          /\ identity' = [identity EXCEPT ![holder[exec[e].closure]] = "erased"]
      BY <1>0, <1>8 DEF ClosureTypeOK, ExecuteIdentity, ExecGoto, Closure, Exec, closureRow, vars,
                        outside
    <2>2. exec[e].closure \in Closures /\ holder[exec[e].closure] \in Users
      BY <1>0, <2>1 DEF CallsTyped, ExecGrounded, HoldersKnown
    <2>3. identity'[holder[exec[e].closure]] = "erased"
      BY <1>0, <2>1, <2>2 DEF ClosureTypeOK
    <2> QED BY <1>0, <2>1, <2>3 DEF ExecGrounded, Begun
  <1>9. CASE ExecuteStamp(e)
    <2>1. /\ exec[e].pc = "stamp" /\ exec'[e].pc = "announce"
          /\ exec'[e].closure = exec[e].closure /\ exec'[e].req = exec[e].req
          /\ UNCHANGED <<status, holder, graceEnds, corr, now, link, identity>>
          /\ idStamp' = [idStamp EXCEPT ![exec[e].closure] = TRUE]
      BY <1>0, <1>9 DEF ClosureTypeOK, ExecuteStamp, ExecGoto, Closure, Exec, user, vars, outside
    <2>2. idStamp'[exec[e].closure]
      BY <1>0, <2>1 DEF ClosureTypeOK, CallsTyped
    <2> QED BY <1>0, <2>1, <2>2 DEF ExecGrounded, Begun
  <1>10. CASE ExecuteAnnounce(e)
    <2>1. /\ exec[e].pc = "announce" /\ exec'[e].pc = "finalize"
          /\ exec'[e].closure = exec[e].closure /\ exec'[e].req = exec[e].req
          /\ UNCHANGED <<status, holder, graceEnds, corr, now, link, identity, idStamp>>
          /\ localDone' = [localDone EXCEPT ![exec[e].closure] = TRUE]
      BY <1>0, <1>10 DEF ClosureTypeOK, ExecuteAnnounce, ExecGoto, Closure, Exec, user, vars,
                         outside
    <2>2. localDone'[exec[e].closure]
      BY <1>0, <2>1 DEF ClosureTypeOK, CallsTyped
    <2> QED BY <1>0, <2>1, <2>2 DEF ExecGrounded, Begun
  <1>11. CASE ExecuteFinalize(e)
    <2> exec'[e] = IdleExec
      BY <1>0, <1>11 DEF ClosureTypeOK, ExecuteFinalize, ExecReturn
    <2> QED BY ExecIdle
  <1> QED
    BY <1>0, <1>1, <1>2, <1>3, <1>4, <1>5, <1>6, <1>7, <1>8, <1>9, <1>10, <1>11, OwnSteps
    DEF ExecStep

\* The closure of a request never changes.
LEMMA LinkStays ==
  ASSUME GraceInv, [ClosureNext]_cvars, NEW r, Linked(r)
  PROVE  Linked(r)' /\ link'[r] = link[r]
  <1>1. Exists(r) /\ r \in Requests
    BY DEF GraceInv, RowsLinked, Linked
  <1> QED BY <1>1, RowsForward DEF GraceInv, KeptRow, Linked

LEMMA JobsKnownStep == GraceInv /\ [ClosureNext]_cvars => JobsKnown'
  <1> SUFFICES ASSUME GraceInv, [ClosureNext]_cvars, NEW v \in Workers, job'[v].pc # "idle"
               PROVE  Linked(job'[v].req)
    BY LinkStays DEF JobsKnown
  <1>0. /\ TypeOK /\ CallsTyped /\ JobsKnown /\ PartsLinked /\ job \in [Workers -> Job]
        /\ job[v].pc # "idle" => Linked(job[v].req)
    BY DEF GraceInv, ClosureTypeInv, ClosureTypeOK, TypeOK, JobsKnown, PartsLinked
  <1>1. CASE job'[v] = job[v] \/ job'[v] = IdleJob
    BY <1>0, <1>1 DEF IdleJob, Handling
  <1>2. ASSUME NEW e \in Executors, ExecuteFinalize(e) PROVE Linked(job'[v].req)
    <2>1. Linked(exec[e].req)
      BY <1>0, <1>2 DEF GraceInv, ExecGrounded, CallsTyped, ExecuteFinalize, Linked
    <2>2. job'[v] = job[v] \/ job'[v].req = exec[e].req
      BY <1>0, <1>2 DEF ExecuteFinalize, Handling
    <2> QED BY <1>0, <1>1, <2>1, <2>2
  <1>3. ASSUME NEW w \in Workers,
               \/ Gate(w) \/ CloseAccount(w) \/ Ledger(RefreshTo(w, "gate"))
               \/ Ledger(ObligedTo(w, Handling(job[w].req, "close", job[w].waive)))
        PROVE  Linked(job'[v].req)
    <2>1. job[w].pc # "idle"
      BY <1>3 DEF Gate, CloseAccount, Ledger, RefreshTo, ObligedTo
    <2>2. job'[v] = job[v] \/ job'[v] = IdleJob \/ job'[v].req = job[w].req
      BY <1>0, <1>3
      DEF Gate, CloseAccount, Ledger, RefreshTo, ObligedTo, Goto, Return, Become, Handling
    <2> QED BY <1>0, <1>1, <2>1, <2>2 DEF JobsKnown
  <1>4. ASSUME NEW w \in Workers,
               \/ Judge(w) \/ SaveDeleted(w) \/ Crash(w) \/ \E p \in Processors : Oblige(w, p)
        PROVE  Linked(job'[v].req)
    <2>1. job[w].pc # "idle"
      BY <1>4 DEF Judge, SaveDeleted, Crash, Oblige
    <2>2. job'[v] = job[v] \/ job'[v] = IdleJob \/ job'[v].req = job[w].req
      BY <1>0, <1>4 DEF Judge, SaveDeleted, Crash, Oblige, Goto, Return, Become, Handling
    <2> QED BY <1>0, <1>1, <2>1, <2>2 DEF JobsKnown
  <1>5. ASSUME NEW w \in Workers, MarkStep(w) PROVE Linked(job'[v].req)
    <2>1. job'[v] = job[v] \/ Linked(job'[v].req)
      BY <1>0, <1>5 DEF MarkStep, MarkSectionErased, Become, Handling, PartsLinked
    <2> QED BY <1>0, <1>1, <2>1
  <1>6. ASSUME \/ \E s \in Sweepers : SweepStep(s) \/ SweepCrash(s)
               \/ \E r \in Requests, o \in Owners : OwnerConfirms(r, o)
               \/ Tick
        PROVE  job' = job
    BY <1>6 DEF SweepStep, SweepRead, SweepUpdate, SweepSelect, SweepFlip, SweepCrash,
                OwnerConfirms, Tick
  <1>7. CASE Ledger(SharedStep)
    <2> SharedStep
      BY <1>7 DEF Ledger
    <2> QED BY <1>1, <1>4, <1>5, <1>6 DEF SharedStep
  <1>8. ASSUME NEW g \in Registries, ClosureRedeploy(g) PROVE job'[v] = IdleJob
    BY <1>8 DEF ClosureRedeploy, Redeploy
  <1>9. ASSUME NEW e \in Executors,
               \/ ExecuteRequest(e) \/ ExecuteProviders(e) \/ \E o \in Owners : ExecuteReceipt(e, o)
        PROVE  job' = job
    BY <1>9 DEF ExecuteRequest, ExecuteProviders, ExecuteReceipt
  <1>10. UNCHANGED vars => job' = job
    BY DEF vars
  <1> QED
    BY <1>1, <1>2, <1>3, <1>7, <1>8, <1>9, <1>10, ClosureSteps, LedgerUntouched DEF ExecStep

\* How the status of a closure may change: it is opened, cancelled, taken
\* into deletion once its grace is over, or closed after that.
LEMMA StatusMoves ==
  ASSUME GraceInv, [ClosureNext]_cvars, NEW c \in Closures, status'[c] # status[c]
  PROVE  \/ status[c] = "absent" /\ status'[c] = "grace" /\ holder'[c] \in Users
         \/ /\ status[c] # "absent" /\ status'[c] = "cancelled"
            /\ [type |-> "cancelled", closure |-> c] \in events'
         \/ status[c] # "absent" /\ status'[c] = "deleting" /\ Begun(c)'
         \/ status[c] # "absent" /\ status'[c] = "deleted" /\ Begun(c)
  <1> DEFINE Goal ==
         \/ status[c] = "absent" /\ status'[c] = "grace" /\ holder'[c] \in Users
         \/ /\ status[c] # "absent" /\ status'[c] = "cancelled"
            /\ [type |-> "cancelled", closure |-> c] \in events'
         \/ status[c] # "absent" /\ status'[c] = "deleting" /\ Begun(c)'
         \/ status[c] # "absent" /\ status'[c] = "deleted" /\ Begun(c)
  <1>0. /\ ClosureTypeInv /\ ClosureTypeOK /\ CallsTyped /\ HoldersKnown /\ JobsKnown
        /\ RowsLinked
        /\ \A e \in Executors : ExecGrounded(e)
    BY DEF GraceInv, ClosureTypeInv
  <1>1. ASSUME NEW h \in Handlers, WebStep(h) PROVE Goal
    <2>1. CASE InitiateCommit(h)
      <3>1. web[h].user \in Users
        BY <1>0, <2>1 DEF HoldersKnown, InitiateCommit
      <3> QED BY <1>0, <2>1, <3>1 DEF ClosureTypeOK, InitiateCommit
    <2>2. CASE CancelCommit(h)
      <3>1. status[web[h].closure] # "absent" /\ web[h].closure = c
        BY <1>0, <2>2 DEF HoldersKnown, CancelCommit, ClosureTypeOK
      <3> QED BY <1>0, <2>2, <3>1 DEF ClosureTypeOK, CancelCommit
    <2>3. CASE WebFails(h) \/ \E u \in Users : InitiateClosure(h, u) \/ CancelClosure(h, u)
      BY <2>3 DEF WebFails, InitiateClosure, CancelClosure, account, closureRow
    <2> QED BY <1>1, <2>1, <2>2, <2>3 DEF WebStep
  <1>2. ASSUME NEW e \in Executors, ExecuteBegin(e) PROVE Goal
    <2>1. exec[e].closure = c /\ status'[c] = "deleting" /\ UNCHANGED <<graceEnds, now>>
      BY <1>0, <1>2 DEF ClosureTypeOK, ExecuteBegin, Closure, vars, outside
    <2>2. status[c] # "absent" /\ graceEnds[c] <= now
      BY <1>0, <1>2, <2>1 DEF ExecGrounded, ExecuteBegin
    <2>3. corr'[c] # NoReq
      BY <1>0, <1>2, <2>1, ConstantsAssumption DEF ClosureTypeOK, ExecuteBegin, Closure
    <2> QED BY <2>1, <2>2, <2>3 DEF Begun
  <1>3. ASSUME NEW w \in Workers, CloseAccount(w) PROVE Goal
    <2>1. job[w].req \in Requests /\ link[job[w].req] = c /\ status'[c] = "deleted"
      BY <1>0, <1>3 DEF ClosureTypeOK, JobsKnown, Linked, CloseAccount
    <2>2. Begun(c)
      BY <1>0, <2>1, SMTT(40) DEF RowsLinked
    <2> QED BY <2>1, <2>2 DEF Begun
  <1>4. ASSUME \/ \E u \in Users : SetHold(u)
               \/ \E e \in Executors :
                     \/ \E d \in Closures : GraceSweep(e, d) \/ ReExecute(e, d)
                     \/ ExecuteCheck(e) \/ ExecuteReuse(e) \/ ExecuteRequest(e)
                     \/ ExecuteProviders(e) \/ (\E o \in Owners : ExecuteReceipt(e, o))
                     \/ ExecuteReceipted(e) \/ ExecuteIdentity(e) \/ ExecuteStamp(e)
                     \/ ExecuteAnnounce(e) \/ ExecuteFinalize(e)
                     \/ ExecuteFails(e) \/ ExecuteCrash(e)
        PROVE  status' = status
    BY <1>4, ZenonT(40) DEF SetHold, GraceSweep, ReExecute, Execute, ExecuteCheck, ExecuteReuse,
                ExecuteRequest, ExecuteProviders, ExecuteReceipt, ExecuteReceipted,
                ExecuteIdentity, ExecuteStamp, ExecuteAnnounce, ExecuteFinalize, ExecuteFails,
                ExecuteCrash, account, closureRow
  <1>5. ASSUME \/ \E w \in Workers :
                     \/ Gate(w) \/ Ledger(RefreshTo(w, "gate"))
                     \/ Ledger(ObligedTo(w, Handling(job[w].req, "close", job[w].waive)))
               \/ Ledger(SharedStep)
               \/ \E g \in Registries : ClosureRedeploy(g)
               \/ UNCHANGED cvars
        PROVE  status' = status
    BY <1>5 DEF Gate, Ledger, ClosureRedeploy, account, closureRow, cvars
  <1> QED BY <1>1, <1>2, <1>3, <1>4, <1>5, ClosureSteps DEF ExecStep

LEMMA HoldersStep == GraceInv /\ [ClosureNext]_cvars => HoldersKnown'
  <1> SUFFICES ASSUME GraceInv, [ClosureNext]_cvars PROVE HoldersKnown'
    OBVIOUS
  <1>0. ClosureTypeInv /\ ClosureTypeOK /\ HoldersKnown /\ web \in [Handlers -> WebCall]
    BY DEF GraceInv, ClosureTypeInv, ClosureTypeOK
  <1>1. ASSUME NEW c \in Closures, status'[c] # "absent" PROVE holder'[c] \in Users
    <2>1. CASE status[c] # "absent"
      <3> KeptClosure(c)
        BY <1>0, <2>1, ClosuresForward
      <3> QED BY <1>0, <2>1 DEF HoldersKnown, KeptClosure
    <2>2. CASE status[c] = "absent"
      BY <1>1, <2>2, StatusMoves
    <2> QED BY <2>1, <2>2
  <1>2. ASSUME NEW h \in Handlers
        PROVE  /\ web'[h].pc = "create" => web'[h].user \in Users
               /\ web'[h].pc = "cancel" => status'[web'[h].closure] # "absent"
    <2>1. CASE web'[h] = web[h]
      <3>1. web[h].pc = "cancel" => web[h].closure \in Closures
        BY DEF GraceInv, ClosureTypeInv, CallsTyped
      <3> QED BY <1>0, <2>1, <3>1, ClosuresForward DEF HoldersKnown, KeptClosure
    <2>2. CASE web'[h] = IdleWeb
      BY <2>2 DEF IdleWeb
    <2>3. ASSUME NEW k \in Handlers, NEW u \in Users, InitiateClosure(k, u)
          PROVE  web'[h] = web[h] \/ (web'[h].pc = "create" /\ web'[h].user \in Users)
      BY <1>0, <2>3 DEF InitiateClosure, IdleWeb
    <2>4. ASSUME NEW k \in Handlers, NEW u \in Users, CancelClosure(k, u)
          PROVE  \/ web'[h] = web[h]
                 \/ web'[h].pc = "cancel" /\ status'[web'[h].closure] # "absent"
      <3>1. PICK c \in Of(u, {"grace"}) :
               web' = [web EXCEPT ![k] = [pc |-> "cancel", user |-> u, closure |-> c]]
        BY <2>4 DEF CancelClosure
      <3>2. status'[c] = "grace"
        BY <2>4 DEF CancelClosure, Of, account, closureRow
      <3> QED BY <1>0, <3>1, <3>2
    <2>5. ASSUME NEW k \in Handlers, InitiateCommit(k) \/ CancelCommit(k) \/ WebFails(k)
          PROVE  web'[h] = web[h] \/ web'[h] = IdleWeb
      BY <1>0, <2>5 DEF InitiateCommit, CancelCommit, WebFails
    <2>6. ASSUME \/ \E u \in Users : SetHold(u)
                 \/ \E e \in Executors :
                       \/ \E d \in Closures : GraceSweep(e, d) \/ ReExecute(e, d)
                       \/ ExecStep(e) \/ ExecuteFails(e) \/ ExecuteCrash(e)
          PROVE  web' = web
      BY <2>6, ZenonT(40) DEF SetHold, GraceSweep, ReExecute, Execute, ExecStep, ExecuteCheck, ExecuteBegin,
                  ExecuteReuse, ExecuteRequest, ExecuteProviders, ExecuteReceipt,
                  ExecuteReceipted, ExecuteIdentity, ExecuteStamp, ExecuteAnnounce,
                  ExecuteFinalize, ExecuteFails, ExecuteCrash
    <2>7. ASSUME \/ \E w \in Workers :
                       \/ Gate(w) \/ CloseAccount(w) \/ Ledger(RefreshTo(w, "gate"))
                       \/ Ledger(ObligedTo(w, Handling(job[w].req, "close", job[w].waive)))
                 \/ Ledger(SharedStep)
                 \/ UNCHANGED cvars
          PROVE  web' = web
      BY <2>7 DEF Gate, CloseAccount, Ledger, cvars
    <2>8. ASSUME NEW g \in Registries, ClosureRedeploy(g) PROVE web'[h] = IdleWeb
      BY <2>8 DEF ClosureRedeploy
    <2> QED
      BY <2>1, <2>2, <2>3, <2>4, <2>5, <2>6, <2>7, <2>8, ClosureSteps DEF WebStep
  <1> QED BY <1>1, <1>2 DEF HoldersKnown

\* A row, its parts and its link come into being in one step of one execution.
LEMMA NewRows ==
  ASSUME GraceInv, [ClosureNext]_cvars, NEW r \in Requests, ~Exists(r)
  PROVE  \/ ~Exists(r)' /\ link'[r] = link[r] /\ part'[r] = part[r]
         \/ \E e \in Executors : ExecuteRequest(e) /\ exec[e].req = r
  <1> DEFINE Still == ~Exists(r)' /\ link'[r] = link[r] /\ part'[r] = part[r]
  <1>0. /\ TypeOK /\ ClosureTypeOK /\ CallsTyped /\ ~Linked(r)
        /\ JobsKnown /\ SweepsKnown /\ PartsLinked
    BY DEF GraceInv, ClosureTypeInv, ClosureTypeOK, RowsLinked, Linked
  <1>1. CASE UNCHANGED <<state, part, link>>
    BY <1>1 DEF Exists
  <1>2. ASSUME NEW e \in Executors, ExecuteRequest(e), exec[e].req # r PROVE Still
    BY <1>0, <1>2 DEF TypeOK, ClosureTypeOK, ExecuteRequest, InsertRow, Exists
  <1>3. ASSUME NEW e \in Executors, NEW o \in Owners, ExecuteReceipt(e, o) PROVE Still
    <2>1. exec[e].req # r \/ o \notin Unreceipted(r)
      BY <1>0 DEF Unreceipted, Asked, PartsLinked
    <2> QED BY <1>0, <1>3, <2>1 DEF TypeOK, ExecuteReceipt, Exists, rows, account
  <1>4. ASSUME NEW w \in Workers, MarkStep(w), UNCHANGED link PROVE Still
    <2>1. PICK q \in Requests, o \in Owners : MarkSectionErased(w, q, o)
      BY <1>4 DEF MarkStep
    <2>2. q # r
      BY <1>0, <2>1 DEF MarkSectionErased, PartsLinked
    <2> QED BY <1>0, <1>4, <2>1, <2>2 DEF TypeOK, MarkSectionErased, Exists, rows
  <1>5. ASSUME NEW w \in Workers, SaveDeleted(w), UNCHANGED link PROVE Still
    <2>1. job[w].req # r
      BY <1>0, <1>5 DEF SaveDeleted, JobsKnown
    <2> QED BY <1>0, <1>5, <2>1 DEF TypeOK, SaveDeleted, Exists, parts
  <1>6. ASSUME NEW s \in Sweepers, NEW q \in Requests, SweepFlip(s, q), UNCHANGED link
        PROVE  Still
    <2>1. q # r
      BY <1>0, <1>6 DEF SweepFlip, SweepsKnown
    <2> QED BY <1>0, <1>6, <2>1 DEF TypeOK, SweepFlip, Exists, parts
  <1>7. ASSUME NEW s \in Sweepers, SweepUpdate(s), UNCHANGED link PROVE Still
    <2>1. \A o \in Owners : part[r][o] = "absent"
      BY <1>0 DEF PartsLinked
    <2>2. \A o \in Owners : part'[r][o] = part[r][o]
      BY <1>0, <1>7, <2>1 DEF SweepUpdate, Overdue
    <2>3. part'[r] = part[r]
      <3>1. part[r] = [o \in Owners |-> part[r][o]]
        BY <1>0 DEF TypeOK
      <3>2. part'[r] = [o \in Owners |-> part'[r][o]]
        BY <1>7 DEF SweepUpdate
      <3> QED BY <2>2, <3>1, <3>2
    <2> QED BY <1>7, <2>3 DEF SweepUpdate, Exists, rows
  <1>8. CASE Ledger(SharedStep)
    <2>1. SharedStep /\ UNCHANGED link
      BY <1>8 DEF Ledger, account
    <2>2. CASE \/ \E w \in Workers : Judge(w) \/ Crash(w) \/ \E p \in Processors : Oblige(w, p)
               \/ \E s \in Sweepers : SweepRead(s) \/ SweepSelect(s) \/ SweepCrash(s)
               \/ \E q \in Requests, o \in Owners : OwnerConfirms(q, o)
               \/ Tick
      <3> UNCHANGED <<state, part>>
        BY <2>2 DEF Judge, Crash, Oblige, SweepRead, SweepSelect, SweepCrash, OwnerConfirms, Tick,
                    ledger, rows, parts
      <3> QED BY <1>1, <2>1
    <2> QED BY <1>4, <1>5, <1>6, <1>7, <2>1, <2>2 DEF SharedStep, SweepStep
  <1>9. ASSUME \/ \E w \in Workers :
                     \/ Gate(w) \/ CloseAccount(w) \/ Ledger(RefreshTo(w, "gate"))
                     \/ Ledger(ObligedTo(w, Handling(job[w].req, "close", job[w].waive)))
               \/ \E e \in Executors : ExecuteFinalize(e) \/ ExecuteProviders(e)
               \/ \E g \in Registries : ClosureRedeploy(g)
        PROVE  UNCHANGED <<state, part, link>>
    BY <1>9, ZenonT(40) DEF Gate, CloseAccount, Ledger, RefreshTo, ObligedTo, ExecuteFinalize,
                ExecuteProviders, ClosureRedeploy, Redeploy, account, ledger, rows, parts
  <1>10. ASSUME \/ \E h \in Handlers : WebStep(h)
                \/ \E u \in Users : SetHold(u)
                \/ \E e \in Executors :
                      \/ \E c \in Closures : GraceSweep(e, c) \/ ReExecute(e, c)
                      \/ ExecuteCheck(e) \/ ExecuteBegin(e) \/ ExecuteReuse(e)
                      \/ ExecuteReceipted(e) \/ ExecuteIdentity(e) \/ ExecuteStamp(e)
                      \/ ExecuteAnnounce(e) \/ ExecuteFails(e) \/ ExecuteCrash(e)
                \/ UNCHANGED cvars
         PROVE  UNCHANGED <<state, part, link>>
    <2>1. UNCHANGED vars
      BY <1>10, LedgerUntouched
    <2>2. UNCHANGED link
      BY <1>10 DEF WebStep, InitiateClosure, CancelClosure, InitiateCommit, CancelCommit,
                   WebFails, SetHold, GraceSweep, ReExecute, Execute, ExecuteCheck,
                   ExecuteBegin, ExecuteReuse, ExecuteReceipted, ExecuteIdentity, ExecuteStamp,
                   ExecuteAnnounce, ExecuteFails, ExecuteCrash, cvars, account
    <2> QED BY <2>1, <2>2 DEF vars, ledger, rows, parts
  <1> QED BY <1>1, <1>2, <1>3, <1>8, <1>9, <1>10, ClosureSteps DEF ExecStep

LEMMA RowsLinkedStep == GraceInv /\ [ClosureNext]_cvars => RowsLinked' /\ PartsLinked'
  <1> SUFFICES ASSUME GraceInv, [ClosureNext]_cvars, NEW r \in Requests
               PROVE  /\ Exists(r)' => link'[r] \in Closures
                      /\ link'[r] \in Closures => Exists(r)' /\ Begun(link[r])'
                      /\ \A o \in Owners : part'[r][o] # "absent" => link'[r] \in Closures
    BY DEF RowsLinked, PartsLinked, Linked, Begun
  <1>0. ClosureTypeInv /\ ClosureTypeOK /\ CallsTyped /\ RowsLinked /\ PartsLinked
    BY DEF GraceInv, ClosureTypeInv
  <1>1. CASE Exists(r)
    <2>1. link[r] \in Closures /\ Begun(link[r]) /\ KeptRow(r)
      BY <1>0, <1>1, RowsForward DEF RowsLinked
    <2>2. Exists(r)' /\ link'[r] = link[r]
      BY <2>1 DEF KeptRow
    <2>3. PICK c \in Closures : c = link[r]
      BY <2>1
    <2>4. Begun(c)'
      BY <1>0, <2>1, <2>3, BegunStays
    <2> QED BY <2>2, <2>3, <2>4 DEF Begun
  <1>2. CASE ~Exists(r)
    <2>1. CASE ~Exists(r)' /\ link'[r] = link[r] /\ part'[r] = part[r]
      BY <1>0, <1>2, <2>1 DEF RowsLinked, PartsLinked, Linked
    <2>2. ASSUME NEW e \in Executors, ExecuteRequest(e), exec[e].req = r
          PROVE  Exists(r)' /\ \E c \in Closures : link'[r] = c /\ Begun(c)'
      <3>1. exec[e].closure \in Closures /\ Begun(exec[e].closure)
        BY <1>0, <2>2 DEF GraceInv, ExecGrounded, CallsTyped, ExecuteRequest
      <3>2. link'[r] = exec[e].closure
        BY <1>0, <2>2 DEF ClosureTypeOK, ExecuteRequest, Closure
      <3>3. Exists(r)'
        BY <1>0, <2>2 DEF ClosureTypeOK, TypeOK, ExecuteRequest, InsertRow, Exists
      <3> QED BY <1>0, <3>1, <3>2, <3>3, BegunStays
    <2> QED BY <1>2, <2>1, <2>2, NewRows DEF Begun
  <1> QED BY <1>1, <1>2

LEMMA SweepsKnownStep == GraceInv /\ [ClosureNext]_cvars => SweepsKnown'
  <1> SUFFICES ASSUME GraceInv, [ClosureNext]_cvars, NEW s \in Sweepers, NEW r \in Requests,
                      r \in sweep'[s].todo \/ \E o \in Owners : <<r, o>> \in sweep'[s].affected
               PROVE  Linked(r)
    BY LinkStays DEF SweepsKnown
  <1>0. TypeOK /\ SweepsKnown /\ PartsLinked /\ sweep \in [Sweepers -> SweepCall]
    BY DEF GraceInv, ClosureTypeInv, ClosureTypeOK, TypeOK
  <1>1. CASE sweep'[s] = sweep[s]
    BY <1>0, <1>1 DEF SweepsKnown
  <1>2. CASE sweep'[s] = IdleSweep
    BY <1>2 DEF IdleSweep, Sweeping
  <1>3. ASSUME NEW t \in Sweepers, SweepRead(t) PROVE Linked(r)
    <2>1. \A o \in Owners : <<r, o>> \in Overdue(now) => Linked(r)
      BY <1>0 DEF Overdue, PartsLinked
    <2>2. sweep'[s] = sweep[s] \/ (sweep'[s].affected = Overdue(now) /\ sweep'[s].todo = {})
      BY <1>0, <1>3 DEF SweepRead, Sweeping
    <2>3. CASE sweep'[s].affected = Overdue(now) /\ sweep'[s].todo = {}
      BY <2>1, <2>3
    <2> QED BY <1>1, <2>2, <2>3
  <1>4. ASSUME NEW t \in Sweepers, SweepUpdate(t) PROVE Linked(r)
    <2>1. \/ sweep'[s] = sweep[s] \/ sweep'[s] = IdleSweep
          \/ s = t /\ sweep'[s] = Sweeping("select", sweep[s].cut, sweep[s].affected, {})
      BY <1>0, <1>4 DEF SweepUpdate
    <2> QED BY <1>0, <1>1, <1>2, <2>1 DEF Sweeping, SweepsKnown
  <1>5. ASSUME NEW t \in Sweepers, SweepSelect(t) PROVE Linked(r)
    <2>1. \/ sweep'[s] = sweep[s] \/ sweep'[s] = IdleSweep
          \/ /\ sweep'[s].affected = sweep[s].affected
             /\ \A q \in sweep'[s].todo : \E o \in Owners : <<q, o>> \in sweep[s].affected
      BY <1>0, <1>5 DEF SweepSelect, Sweeping
    <2> QED BY <1>0, <1>1, <1>2, <2>1 DEF SweepsKnown
  <1>6. ASSUME NEW t \in Sweepers, NEW q \in Requests, SweepFlip(t, q) PROVE Linked(r)
    <2>1. \/ sweep'[s] = sweep[s] \/ sweep'[s] = IdleSweep
          \/ /\ sweep'[s].affected = sweep[s].affected
             /\ sweep'[s].todo \subseteq sweep[s].todo
      BY <1>0, <1>6 DEF SweepFlip, Sweeping
    <2> QED BY <1>0, <1>1, <1>2, <2>1 DEF SweepsKnown
  <1>7. ASSUME NEW t \in Sweepers, SweepCrash(t)
        PROVE  sweep'[s] = sweep[s] \/ sweep'[s] = IdleSweep
    BY <1>0, <1>7 DEF SweepCrash
  <1>8. ASSUME \/ \E w \in Workers : \/ Judge(w) \/ SaveDeleted(w) \/ MarkStep(w) \/ Crash(w)
                                     \/ \E p \in Processors : Oblige(w, p)
               \/ \E q \in Requests, o \in Owners : OwnerConfirms(q, o)
               \/ Tick
        PROVE  sweep' = sweep
    BY <1>8 DEF Judge, SaveDeleted, MarkStep, MarkSectionErased, Crash, Oblige, OwnerConfirms, Tick
  <1>9. CASE Ledger(SharedStep)
    <2> SharedStep
      BY <1>9 DEF Ledger
    <2> QED BY <1>1, <1>2, <1>3, <1>4, <1>5, <1>6, <1>7, <1>8 DEF SharedStep, SweepStep
  <1>10. ASSUME \/ \E w \in Workers :
                      \/ Gate(w) \/ CloseAccount(w) \/ Ledger(RefreshTo(w, "gate"))
                      \/ Ledger(ObligedTo(w, Handling(job[w].req, "close", job[w].waive)))
                \/ \E e \in Executors :
                      \/ ExecuteRequest(e) \/ ExecuteProviders(e) \/ ExecuteFinalize(e)
                      \/ \E o \in Owners : ExecuteReceipt(e, o)
         PROVE  sweep' = sweep
    BY <1>10 DEF Gate, CloseAccount, Ledger, RefreshTo, ObligedTo, ExecuteRequest,
                 ExecuteProviders, ExecuteFinalize, ExecuteReceipt
  <1>11. ASSUME NEW g \in Registries, ClosureRedeploy(g) PROVE sweep'[s] = IdleSweep
    BY <1>11 DEF ClosureRedeploy, Redeploy
  <1>12. UNCHANGED vars => sweep' = sweep
    BY DEF vars
  <1> QED
    BY <1>1, <1>2, <1>9, <1>10, <1>11, <1>12, ClosureSteps, LedgerUntouched DEF ExecStep

\* A correlation id is claimed once, when it is drawn afresh; every later
\* claim to it is inherited from an earlier one.
LEMMA ClaimsInherited ==
  ASSUME GraceInv, [ClosureNext]_cvars, NEW r \in Requests, NEW c \in Closures, Claim(r, c)'
  PROVE  \/ Claim(r, c)
         \/ /\ \A d \in Closures : ~Claim(r, d)
            /\ \E e \in Executors : ExecuteBegin(e) /\ exec[e].closure = c
                                    /\ corr' = [corr EXCEPT ![c] = r]
                                    /\ exec' = [exec EXCEPT ![e].req = r, ![e].pc = "request"]
  <1>0. /\ ClosureTypeInv /\ ClosureTypeOK /\ CallsTyped /\ RowsLinked
        /\ exec \in [Executors -> Exec]
        /\ corr \in [Closures -> Requests \cup {NoReq}]
        /\ link \in [Requests -> Closures \cup {NoClosure}]
    BY DEF GraceInv, ClosureTypeInv, ClosureTypeOK
  <1>1. ASSUME corr' = corr, link' = link,
               \A e \in Executors : \/ exec'[e] = IdleExec
                                    \/ /\ exec'[e].closure = exec[e].closure
                                       /\ exec'[e].req = exec[e].req
        PROVE  Claim(r, c)
    BY <1>1, ConstantsAssumption DEF Claim, IdleExec
  <1>2. ASSUME NEW e \in Executors, NEW d \in Closures, Execute(e, d) PROVE Claim(r, c)
    <2>1. /\ UNCHANGED <<corr, link>>
          /\ \A f \in Executors : \/ exec'[f] = exec[f]
                                  \/ exec'[f].closure = d /\ exec'[f].req = corr[d]
      BY <1>0, <1>2 DEF Execute, IdleExec, account, closureRow
    <2> QED BY <2>1 DEF Claim
  <1>3. ASSUME NEW e \in Executors, ExecuteBegin(e)
        PROVE  \/ Claim(r, c)
               \/ /\ \A d \in Closures : ~Claim(r, d)
                  /\ exec[e].closure = c /\ corr' = [corr EXCEPT ![c] = r]
                  /\ exec' = [exec EXCEPT ![e].req = r, ![e].pc = "request"]
    <2>1. PICK q \in Requests :
             /\ IF exec[e].req # NoReq THEN q = exec[e].req ELSE Fresh(q)
             /\ corr' = [corr EXCEPT ![exec[e].closure] = q]
             /\ exec' = [exec EXCEPT ![e].req = q, ![e].pc = "request"]
      BY <1>3 DEF ExecuteBegin, Closure
    <2>2. exec[e].closure \in Closures /\ link' = link
      BY <1>0, <1>3 DEF CallsTyped, ExecuteBegin
    <2>3. Claim(r, c) \/ (r = q /\ c = exec[e].closure)
      <3>1. \A f \in Executors : \/ exec'[f].closure = exec[f].closure /\ exec'[f].req = exec[f].req
                                 \/ f = e /\ exec'[f].closure = exec[e].closure /\ exec'[f].req = q
        BY <1>0, <2>1 DEF Exec
      <3>2. \A d \in Closures : corr'[d] = corr[d] \/ (d = exec[e].closure /\ corr'[d] = q)
        BY <1>0, <2>1, <2>2
      <3> QED BY <2>2, <3>1, <3>2 DEF Claim
    <2>4. exec[e].req # NoReq => Claim(q, exec[e].closure)
      BY <2>1, <2>2 DEF Claim
    <2>5. Fresh(q) => \A d \in Closures : ~Claim(q, d)
      BY <1>0 DEF Fresh, Claim, RowsLinked
    <2> QED BY <2>1, <2>3, <2>4, <2>5
  <1>4. ASSUME NEW e \in Executors, ExecuteRequest(e) PROVE Claim(r, c)
    <2>1. /\ link' = [link EXCEPT ![exec[e].req] = exec[e].closure] /\ corr' = corr
          /\ \A f \in Executors : exec'[f].closure = exec[f].closure /\ exec'[f].req = exec[f].req
      BY <1>0, <1>4 DEF ExecuteRequest, Closure, Exec, closureRow
    <2>2. link'[r] = link[r] \/ (r = exec[e].req /\ link'[r] = exec[e].closure)
      BY <1>0, <2>1
    <2> QED BY <2>1, <2>2 DEF Claim
  <1>5. ASSUME NEW e \in Executors,
               \/ ExecuteCheck(e) \/ ExecuteReuse(e) \/ ExecuteReceipted(e) \/ ExecuteIdentity(e)
               \/ ExecuteStamp(e) \/ ExecuteAnnounce(e) \/ ExecuteFinalize(e)
               \/ ExecuteFails(e) \/ ExecuteCrash(e) \/ ExecuteProviders(e)
               \/ \E o \in Owners : ExecuteReceipt(e, o)
        PROVE  Claim(r, c)
    <2>1. UNCHANGED <<corr, link>>
      BY <1>5 DEF ExecuteCheck, ExecuteReuse, ExecuteReceipted, ExecuteIdentity, ExecuteStamp,
                  ExecuteAnnounce, ExecuteFinalize, ExecuteFails, ExecuteCrash,
                  ExecuteProviders, ExecuteReceipt, account, closureRow
    <2> DEFINE Same(f) == \/ exec'[f] = IdleExec
                          \/ exec'[f].closure = exec[f].closure /\ exec'[f].req = exec[f].req
    <2>2. CASE \/ ExecuteCheck(e) \/ ExecuteReceipted(e) \/ ExecuteIdentity(e) \/ ExecuteStamp(e)
               \/ ExecuteAnnounce(e) \/ ExecuteFinalize(e) \/ ExecuteFails(e) \/ ExecuteCrash(e)
      <3>1. (\E pc : exec' = [exec EXCEPT ![e].pc = pc]) \/ exec' = [exec EXCEPT ![e] = IdleExec]
        BY <2>2 DEF ExecuteCheck, ExecuteReceipted, ExecuteIdentity, ExecuteStamp,
                    ExecuteAnnounce, ExecuteFinalize, ExecuteFails, ExecuteCrash, ExecGoto,
                    ExecReturn
      <3>2. \A f \in Executors : Same(f)
        BY <1>0, <3>1 DEF Exec
      <3> QED BY <1>1, <2>1, <3>2
    <2>3. CASE ExecuteReuse(e) \/ ExecuteProviders(e) \/ \E o \in Owners : ExecuteReceipt(e, o)
      <3>1. ASSUME ExecuteReuse(e) PROVE \A f \in Executors : Same(f)
        <4>1. PICK b : exec' = [exec EXCEPT ![e].pc = "providers", ![e].open = b]
          BY <3>1 DEF ExecuteReuse
        <4> QED BY <1>0, <4>1 DEF Exec
      <3>2. ASSUME ExecuteProviders(e) PROVE \A f \in Executors : Same(f)
        <4>1. PICK failed, todo : exec' = [exec EXCEPT ![e].pc = "receipts",
                                               ![e].failed = failed, ![e].todo = todo]
          BY <3>2 DEF ExecuteProviders
        <4> QED BY <1>0, <4>1 DEF Exec
      <3>3. ASSUME NEW o \in Owners, ExecuteReceipt(e, o) PROVE \A f \in Executors : Same(f)
        BY <1>0, <3>3 DEF ExecuteReceipt, Exec
      <3>4. \A f \in Executors : Same(f)
        BY <2>3, <3>1, <3>2, <3>3, SMTT(40)
      <3> QED BY <1>1, <2>1, <3>4
    <2> QED BY <1>5, <2>2, <2>3
  <1>6. ASSUME \/ \E h \in Handlers : WebStep(h)
               \/ \E u \in Users : SetHold(u)
               \/ \E w \in Workers :
                     \/ Gate(w) \/ CloseAccount(w) \/ Ledger(RefreshTo(w, "gate"))
                     \/ Ledger(ObligedTo(w, Handling(job[w].req, "close", job[w].waive)))
               \/ Ledger(SharedStep)
               \/ UNCHANGED cvars
        PROVE  UNCHANGED <<corr, link, exec>>
    BY <1>6 DEF WebStep, InitiateClosure, CancelClosure, InitiateCommit, CancelCommit, WebFails,
                SetHold, Gate, CloseAccount, Ledger, cvars, account, closureRow
  <1>7. ASSUME NEW g \in Registries, ClosureRedeploy(g) PROVE Claim(r, c)
    BY <1>1, <1>7 DEF ClosureRedeploy, account, closureRow
  <1>8. UNCHANGED <<corr, link, exec>> => Claim(r, c)
    BY <1>1
  <1> QED
    BY <1>2, <1>3, <1>4, <1>5, <1>6, <1>7, <1>8, ClosureSteps DEF ExecStep, GraceSweep, ReExecute

LEMMA OneClaimStep == GraceInv /\ [ClosureNext]_cvars => OneClaim'
  <1> SUFFICES ASSUME GraceInv, [ClosureNext]_cvars, NEW r \in Requests, NEW c \in Closures,
                      NEW d \in Closures, Claim(r, c)', Claim(r, d)'
               PROVE  c = d
    BY DEF OneClaim
  <1>0. OneClaim /\ exec \in [Executors -> Exec] /\ CallsTyped
        /\ corr \in [Closures -> Requests \cup {NoReq}]
    BY DEF GraceInv, ClosureTypeInv, ClosureTypeOK
  <1>1. CASE Claim(r, c) /\ Claim(r, d)
    BY <1>0, <1>1 DEF OneClaim
  <1>2. ASSUME NEW x \in Closures, NEW y \in Closures, ~Claim(r, x), ~Claim(r, y),
               Claim(r, x)', Claim(r, y)'
        PROVE  x = y
    <2>1. PICK e \in Executors : /\ ExecuteBegin(e) /\ exec[e].closure = x
                                 /\ corr' = [corr EXCEPT ![x] = r]
      BY <1>2, ClaimsInherited
    <2>2. PICK f \in Executors : /\ ExecuteBegin(f) /\ exec[f].closure = y
                                 /\ corr' = [corr EXCEPT ![y] = r]
      BY <1>2, ClaimsInherited
    <2>3. corr[x] # r /\ corr[y] # r
      BY <1>2 DEF Claim
    <2> QED BY <1>0, <2>1, <2>2, <2>3
  <1>3. CASE ~Claim(r, c) /\ ~Claim(r, d)
    BY <1>2, <1>3
  <1>4. CASE (Claim(r, c) /\ ~Claim(r, d)) \/ (~Claim(r, c) /\ Claim(r, d))
    BY <1>4, ClaimsInherited
  <1> QED BY <1>1, <1>3, <1>4

\* The identity, its stamp and user.deleted are written by execute_deletion
\* and by nothing else.
LEMMA WrittenByExecution ==
  ASSUME ClosureTypeInv, [ClosureNext]_cvars
  PROVE  /\ identity' = identity \/ \E e \in Executors : ExecuteIdentity(e)
         /\ idStamp' = idStamp \/ \E e \in Executors : ExecuteStamp(e)
         /\ \/ \E e \in Executors : ExecuteAnnounce(e)
            \/ \A c \in Closures : [type |-> "deleted", closure |-> c] \in events' =>
                  [type |-> "deleted", closure |-> c] \in events
  <1> DEFINE Goal ==
         /\ identity' = identity \/ \E e \in Executors : ExecuteIdentity(e)
         /\ idStamp' = idStamp \/ \E e \in Executors : ExecuteStamp(e)
         /\ \/ \E e \in Executors : ExecuteAnnounce(e)
            \/ \A c \in Closures : [type |-> "deleted", closure |-> c] \in events' =>
                  [type |-> "deleted", closure |-> c] \in events
  <1>1. ASSUME NEW h \in Handlers, WebStep(h) PROVE Goal
    <2>1. CASE InitiateCommit(h)
      BY <2>1 DEF InitiateCommit
    <2>2. CASE CancelCommit(h)
      BY <2>2 DEF CancelCommit
    <2>3. CASE WebFails(h) \/ \E u \in Users : InitiateClosure(h, u) \/ CancelClosure(h, u)
      BY <2>3 DEF WebFails, InitiateClosure, CancelClosure, account, closureRow, user
    <2> QED BY <1>1, <2>1, <2>2, <2>3 DEF WebStep
  <1>2. ASSUME NEW e \in Executors, ExecuteIdentity(e) \/ ExecuteStamp(e) \/ ExecuteAnnounce(e)
        PROVE  Goal
    BY <1>2, SMTT(40) DEF ExecuteIdentity, ExecuteStamp, ExecuteAnnounce, closureRow, user
  <1>3. ASSUME \/ \E u \in Users : SetHold(u)
               \/ \E e \in Executors :
                     \/ \E c \in Closures : GraceSweep(e, c) \/ ReExecute(e, c)
                     \/ ExecuteCheck(e) \/ ExecuteBegin(e) \/ ExecuteReuse(e) \/ ExecuteRequest(e)
                     \/ ExecuteProviders(e) \/ (\E o \in Owners : ExecuteReceipt(e, o))
                     \/ ExecuteReceipted(e) \/ ExecuteFinalize(e)
                     \/ ExecuteFails(e) \/ ExecuteCrash(e)
        PROVE  UNCHANGED <<identity, idStamp, events>>
    BY <1>3, ZenonT(40) DEF SetHold, GraceSweep, ReExecute, Execute, ExecuteCheck, ExecuteBegin, ExecuteReuse,
                ExecuteRequest, ExecuteProviders, ExecuteReceipt, ExecuteReceipted,
                ExecuteFinalize, ExecuteFails, ExecuteCrash, account, closureRow, user
  <1>4. ASSUME \/ \E w \in Workers :
                     \/ Gate(w) \/ CloseAccount(w) \/ Ledger(RefreshTo(w, "gate"))
                     \/ Ledger(ObligedTo(w, Handling(job[w].req, "close", job[w].waive)))
               \/ Ledger(SharedStep)
               \/ \E g \in Registries : ClosureRedeploy(g)
               \/ UNCHANGED cvars
        PROVE  UNCHANGED <<identity, idStamp, events>>
    BY <1>4 DEF Gate, CloseAccount, Ledger, ClosureRedeploy, account, closureRow, user, cvars
  <1>5. UNCHANGED <<identity, idStamp, events>> => Goal
    OBVIOUS
  <1> QED BY <1>1, <1>2, <1>3, <1>4, <1>5, ClosureSteps DEF ExecStep

LEMMA ClosureGroundedStep ==
  ASSUME GraceInv, [ClosureNext]_cvars, NEW c \in Closures
  PROVE  ClosureGrounded(c)'
  <1>0. /\ ClosureTypeInv /\ ClosureTypeOK /\ CallsTyped /\ HoldersKnown /\ RowsLinked
        /\ ClosureGrounded(c)
        /\ \A e \in Executors : ExecGrounded(e)
    BY DEF GraceInv, ClosureTypeInv
  <1>1. status'[c] \in {"deleting", "deleted"} => Begun(c)'
    <2>1. CASE status'[c] = status[c]
      BY <1>0, <2>1, BegunStays DEF ClosureGrounded
    <2>2. CASE status'[c] # status[c]
      BY <1>0, <2>2, StatusMoves, BegunStays
    <2> QED BY <2>1, <2>2
  <1>2. status'[c] = "cancelled" => [type |-> "cancelled", closure |-> c] \in events'
    <2>1. CASE status'[c] = status[c]
      BY <1>0, <2>1, ClosuresForward DEF ClosureGrounded
    <2>2. CASE status'[c] # status[c]
      BY <2>2, StatusMoves
    <2> QED BY <2>1, <2>2
  <1>3. Begun(c) /\ identity[holder[c]] = "erased" =>
           Begun(c)' /\ identity'[holder'[c]] = "erased"
    <2> SUFFICES ASSUME Begun(c), identity[holder[c]] = "erased"
                 PROVE  Begun(c)' /\ identity'[holder'[c]] = "erased"
      OBVIOUS
    <2>1. KeptClosure(c) /\ holder[c] \in Users
      BY <1>0, ClosuresForward DEF Begun, HoldersKnown
    <2> QED BY <1>0, <2>1, BegunStays, ClosuresForward DEF KeptClosure
  <1>4. idStamp'[c] => Begun(c)' /\ identity'[holder'[c]] = "erased"
    <2>1. CASE idStamp' = idStamp
      BY <1>0, <1>3, <2>1 DEF ClosureGrounded
    <2>2. ASSUME NEW e \in Executors, ExecuteStamp(e), idStamp'[c]
          PROVE  Begun(c) /\ identity[holder[c]] = "erased"
      <3>1. idStamp[c] \/ exec[e].closure = c
        BY <1>0, <2>2 DEF ClosureTypeOK, ExecuteStamp, Closure
      <3>2. exec[e].pc = "stamp"
        BY <2>2 DEF ExecuteStamp
      <3> QED BY <1>0, <3>1, <3>2 DEF ClosureGrounded, ExecGrounded
    <2> QED BY <1>0, <1>3, <2>1, <2>2, WrittenByExecution
  <1>5. [type |-> "deleted", closure |-> c] \in events' =>
           localDone'[c] /\ idStamp'[c] /\ \E r \in Requests : link'[r] = c
    <2> SUFFICES ASSUME [type |-> "deleted", closure |-> c] \in events'
                 PROVE  localDone'[c] /\ idStamp'[c] /\ \E r \in Requests : link'[r] = c
      OBVIOUS
    <2>1. \A r \in Requests : link[r] = c => link'[r] = c
      BY LinkStays DEF Linked
    <2>2. CASE [type |-> "deleted", closure |-> c] \in events
      <3>1. localDone[c] /\ idStamp[c] /\ \E r \in Requests : link[r] = c
        BY <1>0, <2>2 DEF ClosureGrounded
      <3> QED BY <1>0, <2>1, <3>1, ClosuresForward
    <2>3. ASSUME NEW e \in Executors, ExecuteAnnounce(e),
                 [type |-> "deleted", closure |-> c] \notin events
          PROVE  localDone'[c] /\ idStamp'[c] /\ \E r \in Requests : link'[r] = c
      <3>1. exec[e].closure = c /\ exec[e].pc = "announce"
        BY <2>3 DEF ExecuteAnnounce, Closure
      <3>2. localDone'[c]
        BY <1>0, <2>3, <3>1 DEF ClosureTypeOK, ExecuteAnnounce, Closure
      <3>3. idStamp[c] /\ exec[e].req \in Requests /\ link[exec[e].req] = c
        BY <1>0, <3>1 DEF ExecGrounded, CallsTyped
      <3> QED BY <1>0, <2>1, <3>2, <3>3, ClosuresForward
    <2> QED BY <1>0, <2>2, <2>3, WrittenByExecution
  <1> QED BY <1>1, <1>2, <1>4, <1>5 DEF ClosureGrounded

LEMMA ErasedGroundedStep == GraceInv /\ [ClosureNext]_cvars => ErasedGrounded'
  <1> SUFFICES ASSUME GraceInv, [ClosureNext]_cvars, NEW u \in Users, identity'[u] = "erased"
               PROVE  \E c \in Closures : holder'[c] = u /\ Begun(c)'
    BY DEF ErasedGrounded
  <1>0. /\ ClosureTypeInv /\ ClosureTypeOK /\ CallsTyped /\ ErasedGrounded
        /\ \A e \in Executors : ExecGrounded(e)
    BY DEF GraceInv, ClosureTypeInv
  <1>1. \E c \in Closures : holder[c] = u /\ Begun(c)
    <2>1. CASE identity' = identity
      BY <1>0, <2>1 DEF ErasedGrounded
    <2>2. ASSUME NEW e \in Executors, ExecuteIdentity(e)
          PROVE  \E c \in Closures : holder[c] = u /\ Begun(c)
      <3>1. identity[u] = "erased" \/ holder[exec[e].closure] = u
        BY <1>0, <2>2 DEF ClosureTypeOK, ExecuteIdentity, Closure
      <3>2. exec[e].closure \in Closures /\ Begun(exec[e].closure)
        BY <1>0, <2>2 DEF CallsTyped, ExecGrounded, ExecuteIdentity
      <3> QED BY <1>0, <3>1, <3>2 DEF ErasedGrounded
    <2> QED BY <1>0, <2>1, <2>2, WrittenByExecution
  <1>2. PICK c \in Closures : holder[c] = u /\ Begun(c)
    BY <1>1
  <1>3. KeptClosure(c) /\ Begun(c)'
    BY <1>0, <1>2, ClosuresForward, BegunStays DEF Begun
  <1> QED BY <1>2, <1>3 DEF KeptClosure

LEMMA GraceStep == GraceInv /\ [ClosureNext]_cvars => GraceInv'
  <1> SUFFICES ASSUME GraceInv, [ClosureNext]_cvars PROVE GraceInv'
    OBVIOUS
  <1>1. ClosureTypeInv'
    BY CallsTypedStep DEF GraceInv
  <1>2. HoldersKnown' /\ JobsKnown' /\ SweepsKnown' /\ OneClaim' /\ ErasedGrounded'
    BY HoldersStep, JobsKnownStep, SweepsKnownStep, OneClaimStep, ErasedGroundedStep
  <1>3. RowsLinked' /\ PartsLinked'
    BY RowsLinkedStep
  <1>4. (\A c \in Closures : ClosureGrounded(c))'
    BY ClosureGroundedStep
  <1>5. (\A e \in Executors : ExecGrounded(e))'
    BY ExecGroundedStep
  <1> QED BY <1>1, <1>2, <1>3, <1>4, <1>5 DEF GraceInv

\* Nothing of a person is erased inside the grace period, for any number of
\* accounts and any interleaving of cancels, holds, sweeps and retries.
THEOREM GraceRespected == ClosureSpec => []NothingErasedInGrace
  <1>1. GraceInv => NothingErasedInGrace
    <2> SUFFICES ASSUME GraceInv PROVE NothingErasedInGrace
      OBVIOUS
    <2>1. ASSUME NEW r \in Requests, link[r] # NoClosure
          PROVE  graceEnds[link[r]] <= now /\ status[link[r]] # "grace"
      <3>1. link[r] \in Closures
        BY <2>1 DEF GraceInv, ClosureTypeInv, ClosureTypeOK
      <3> QED BY <3>1 DEF GraceInv, RowsLinked, Begun
    <2>2. ASSUME NEW u \in Users, identity[u] = "erased"
          PROVE  \E c \in Closures : holder[c] = u /\ graceEnds[c] <= now /\ corr[c] # NoReq
      BY <2>2 DEF GraceInv, ErasedGrounded, Begun
    <2> QED BY <2>1, <2>2 DEF NothingErasedInGrace
  <1> QED BY <1>1, GraceInit, GraceStep, PTL DEF ClosureSpec

\* user.deleted goes out after the identity was erased and after the request
\* that names the owners, whatever crashed or was retried on the way.
THEOREM AnnouncedLast == ClosureSpec => []AnnouncedAfterErasure
  <1>1. GraceInv => AnnouncedAfterErasure
    BY DEF GraceInv, ClosureGrounded, AnnouncedAfterErasure, RowsLinked
  <1> QED BY <1>1, GraceInit, GraceStep, PTL DEF ClosureSpec

\* The guard refuses every erased account whose owner was never told of a
\* cancellation.
THEOREM Refused == ClosureSpec => []ErasedIsRefused
  <1>1. GraceInv => ErasedIsRefused
    <2> SUFFICES ASSUME GraceInv, NEW u \in Users, identity[u] = "erased"
                 PROVE  \/ AccessDenied(u)
                        \/ \E c \in Closures : holder[c] = u /\
                              [type |-> "cancelled", closure |-> c] \in events
      BY DEF ErasedIsRefused
    <2>1. PICK c \in Closures : holder[c] = u /\ Begun(c)
      BY DEF GraceInv, ErasedGrounded
    <2>2. status[c] \in {"deleting", "deleted", "cancelled"}
      BY <2>1 DEF GraceInv, ClosureTypeInv, ClosureTypeOK, Status, Begun
    <2>3. status[c] = "cancelled" => [type |-> "cancelled", closure |-> c] \in events
      BY DEF GraceInv, ClosureGrounded
    <2> QED BY <2>1, <2>2, <2>3 DEF AccessDenied, Of
  <1> QED BY <1>1, GraceInit, GraceStep, PTL DEF ClosureSpec

(***************************************************************************)
(* DELETED on a closure is a certificate                                   *)
(***************************************************************************)

\* The hypothesis of the last theorem. A request opened while no owner claims
\* the account has no parts; a call that finds it again after a release fixed
\* the inventory would complete it with nobody asked. Where execute_deletion
\* is never called again on a DELETING closure nothing is assumed.
AccountClaimed == Retries => \A g \in Registries : OwnersFor(g, Account) # {}

\* A request that asked nobody is one this deployment's inventory still blocks.
Grounds(r) == Asked(r) # {} \/ OwnersFor(registry, subject[r]) = {}

ReceiptsConfirmed == \A r \in Requests, o \in Owners : part[r][o] = "done" => <<r, o>> \in confirmed

\* The correlation ids of the calls: an execution that did not find one on the
\* closure draws its own, and nobody else's call carries it.
OwnIds ==
    /\ \A c \in Closures : status[c] \in {"absent", "grace"} => corr[c] = NoReq
    /\ Retries => \A r \in Requests : Exists(r) => Asked(r) # {}
    /\ ~Retries =>
          \A e \in Executors :
             /\ exec[e].pc \in {"idle", "check", "begin"} => exec[e].req = NoReq
             /\ exec[e].pc = "request" => ~Exists(exec[e].req)
             /\ \A f \in Executors : f # e /\ exec[f].req = exec[e].req => exec[e].req = NoReq

ExecAsked(e) ==
    /\ exec[e].pc \notin {"idle", "check", "begin", "request"} => Grounds(exec[e].req)
    /\ exec[e].pc = "receipts" => \A o \in exec[e].todo : <<exec[e].req, o>> \in confirmed

\* What _maybe_finalize has seen: each later step relies on the reads of the
\* earlier ones.
JobGrounded(w) ==
    /\ job[w].pc \in {"refresh", "gate", "judge"} => Grounds(job[w].req)
    /\ job[w].pc \in {"judge", "save", "oblige", "close"} =>
          localDone[link[job[w].req]] /\ idStamp[link[job[w].req]]
    /\ job[w].pc \in {"save", "oblige", "close"} /\ ~job[w].waive =>
          FullyReceipted(job[w].req)
    /\ job[w].pc \in {"oblige", "close"} => completed[job[w].req]

ClosedInv ==
    /\ GraceInv /\ ReceiptsConfirmed /\ OwnIds
    /\ \A e \in Executors : ExecAsked(e)
    /\ \A w \in Workers : JobGrounded(w)
    /\ ClosedMeansErased

LEMMA ClosedInit == ClosureInit => ClosedInv
  <1> SUFFICES ASSUME ClosureInit PROVE ClosedInv
    OBVIOUS
  <1> USE DEF ClosureInit, Init
  <1>1. ReceiptsConfirmed /\ ClosedMeansErased
    BY DEF ReceiptsConfirmed, ClosedMeansErased
  <1>2. OwnIds
    BY DEF OwnIds, Exists, IdleExec
  <1>3. \A e \in Executors : ExecAsked(e)
    BY DEF ExecAsked, IdleExec
  <1>4. \A w \in Workers : JobGrounded(w)
    BY DEF JobGrounded, IdleJob, Handling
  <1> QED BY <1>1, <1>2, <1>3, <1>4, GraceInit DEF ClosedInv

LEMMA FullStays ==
  ASSUME GraceInv, [ClosureNext]_cvars, NEW r, Linked(r), FullyReceipted(r)
  PROVE  FullyReceipted(r)'
  <1>1. r \in Requests /\ Exists(r) /\ ClosureTypeInv
    BY DEF GraceInv, RowsLinked, Linked
  <1> QED BY <1>1, RowsForward DEF FullyReceipted, KeptRow

LEMMA GroundsStay ==
  ASSUME GraceInv, [ClosureNext]_cvars, NEW r, Linked(r), Grounds(r), registry' = registry
  PROVE  Grounds(r)'
  <1>1. r \in Requests /\ Exists(r) /\ ClosureTypeInv
    BY DEF GraceInv, RowsLinked, Linked
  <1>2. KeptRow(r)
    BY <1>1, RowsForward
  <1> QED BY <1>2 DEF Grounds, Asked, KeptRow

\* The inventory changes only with a release, which ends every call.
LEMMA InventoryFixed ==
  ASSUME [ClosureNext]_cvars
  PROVE  registry' = registry \/ \E g \in Registries : ClosureRedeploy(g)
  <1>1. UNCHANGED vars => registry' = registry
    BY ZenonT(40) DEF vars, outside
  <1>2. ASSUME \/ \E w \in Workers :
                     \/ Gate(w) \/ CloseAccount(w) \/ Ledger(RefreshTo(w, "gate"))
                     \/ Ledger(ObligedTo(w, Handling(job[w].req, "close", job[w].waive)))
               \/ \E e \in Executors :
                     \/ ExecuteRequest(e) \/ ExecuteProviders(e) \/ ExecuteFinalize(e)
                     \/ \E o \in Owners : ExecuteReceipt(e, o)
        PROVE  registry' = registry
    BY <1>2 DEF Gate, CloseAccount, Ledger, RefreshTo, ObligedTo, ExecuteRequest,
                ExecuteProviders, ExecuteFinalize, ExecuteReceipt, outside
  <1>3. ASSUME SharedStep PROVE registry' = registry
    BY <1>3 DEF SharedStep, Judge, SaveDeleted, MarkStep, MarkSectionErased, Crash, Oblige,
                SweepStep, SweepRead, SweepUpdate, SweepSelect, SweepFlip, SweepCrash,
                OwnerConfirms, Tick, outside
  <1> QED BY <1>1, <1>2, <1>3, ClosureSteps, LedgerUntouched DEF ExecStep, Ledger

LEMMA ConfirmedStep == ClosedInv /\ [ClosureNext]_cvars => ReceiptsConfirmed'
  <1> SUFFICES ASSUME ClosedInv, [ClosureNext]_cvars PROVE ReceiptsConfirmed'
    OBVIOUS
  <1> SUFFICES ASSUME NEW r \in Requests, NEW o \in Owners,
                      part'[r][o] = "done", part[r][o] # "done"
               PROVE  <<r, o>> \in confirmed
    <2>1. confirmed \subseteq confirmed'
      BY RowsForward DEF ClosedInv, GraceInv
    <2> QED BY <2>1 DEF ReceiptsConfirmed, ClosedInv
  <1>0. TypeOK /\ CallsTyped /\ \A e \in Executors : ExecAsked(e)
    BY DEF ClosedInv, GraceInv, ClosureTypeInv, ClosureTypeOK
  <1>1. ASSUME NEW e \in Executors, ExecuteRequest(e) PROVE FALSE
    <2>1. exec[e].req \in Requests /\ InsertRow(exec[e].req, Account, NoKey, NoReq)
      BY <1>0, <1>1 DEF CallsTyped, ExecuteRequest
    <2> QED BY <1>0, <2>1 DEF TypeOK, InsertRow
  <1>2. ASSUME NEW e \in Executors, NEW p \in Owners, ExecuteReceipt(e, p)
        PROVE  <<r, o>> \in confirmed
    <2>1. r = exec[e].req /\ o = p
      BY <1>0, <1>2 DEF TypeOK, ExecuteReceipt
    <2> QED BY <1>0, <1>2, <2>1 DEF ExecuteReceipt, ExecAsked
  <1>3. ASSUME NEW w \in Workers, MarkStep(w) PROVE <<r, o>> \in confirmed
    <2>1. PICK q \in Requests, p \in Owners : MarkSectionErased(w, q, p)
      BY <1>3 DEF MarkStep
    <2>2. r = q /\ o = p
      BY <1>0, <2>1 DEF TypeOK, MarkSectionErased
    <2> QED BY <2>1, <2>2 DEF MarkSectionErased
  <1>4. ASSUME NEW s \in Sweepers, SweepUpdate(s) PROVE FALSE
    BY <1>0, <1>4 DEF TypeOK, SweepUpdate
  <1>5. CASE Ledger(SharedStep)
    <2>1. SharedStep
      BY <1>5 DEF Ledger
    <2>2. ASSUME \/ \E w \in Workers : \/ Judge(w) \/ SaveDeleted(w) \/ Crash(w)
                                       \/ \E p \in Processors : Oblige(w, p)
                 \/ \E s \in Sweepers : \/ SweepRead(s) \/ SweepSelect(s) \/ SweepCrash(s)
                                        \/ \E q \in Requests : SweepFlip(s, q)
                 \/ \E q \in Requests, p \in Owners : OwnerConfirms(q, p)
                 \/ Tick
          PROVE  part' = part
      BY <2>2 DEF Judge, SaveDeleted, Crash, Oblige, SweepRead, SweepSelect, SweepCrash,
                  SweepFlip, OwnerConfirms, Tick, ledger, parts
    <2> QED BY <1>3, <1>4, <2>1, <2>2 DEF SharedStep, SweepStep
  <1>6. ASSUME \/ \E w \in Workers :
                     \/ Gate(w) \/ CloseAccount(w) \/ Ledger(RefreshTo(w, "gate"))
                     \/ Ledger(ObligedTo(w, Handling(job[w].req, "close", job[w].waive)))
               \/ \E e \in Executors : ExecuteProviders(e) \/ ExecuteFinalize(e)
               \/ \E g \in Registries : ClosureRedeploy(g)
        PROVE  part' = part
    BY <1>6 DEF Gate, CloseAccount, Ledger, RefreshTo, ObligedTo, ExecuteProviders,
                ExecuteFinalize, ClosureRedeploy, Redeploy, ledger, parts
  <1>7. UNCHANGED vars => part' = part
    BY DEF vars, ledger, parts
  <1> QED
    BY <1>1, <1>2, <1>5, <1>6, <1>7, ClosureSteps, LedgerUntouched DEF ExecStep

\* Where a call can be after a step, and that it keeps its correlation id from
\* the moment it drew it.
LEMMA ExecMoves ==
  ASSUME ClosureTypeInv, [ClosureNext]_cvars, NEW e \in Executors
  PROVE  \/ exec'[e] = exec[e] \/ exec'[e] = IdleExec
         \/ /\ \E c \in Closures : GraceSweep(e, c) \/ ReExecute(e, c)
            /\ exec'[e].pc = "check"
         \/ ExecuteBegin(e) /\ exec'[e].pc = "request"
         \/ /\ exec'[e].req = exec[e].req
            /\ \/ exec[e].pc = "check" /\ exec'[e].pc = "begin"
               \/ ExecuteReuse(e) /\ exec'[e].pc = "providers"
               \/ ExecuteRequest(e) /\ exec[e].pc = "request" /\ exec'[e].pc = "providers"
               \/ ExecuteProviders(e) /\ exec[e].pc = "providers" /\ exec'[e].pc = "receipts"
               \/ /\ exec[e].pc = "receipts" /\ exec'[e].pc = "receipts"
                  /\ exec'[e].todo \subseteq exec[e].todo
               \/ /\ exec[e].pc \in {"receipts", "identity", "stamp", "announce"}
                  /\ exec'[e].pc \in {"identity", "stamp", "announce", "finalize"}
  <1> DEFINE Moved(from, to) == exec[e].pc \in from /\ exec'[e].pc \in to
                                /\ exec'[e].req = exec[e].req
  <1>0. exec \in [Executors -> Exec] /\ exec[e] \in Exec
    BY DEF ClosureTypeInv, ClosureTypeOK
  <1>1. ASSUME NEW c \in Closures, GraceSweep(e, c) \/ ReExecute(e, c) PROVE exec'[e].pc = "check"
    BY <1>0, <1>1 DEF GraceSweep, ReExecute, Execute, IdleExec
  <1>2. ASSUME ExecuteBegin(e) PROVE exec'[e].pc = "request"
    <2>1. PICK r \in Requests : exec' = [exec EXCEPT ![e].req = r, ![e].pc = "request"]
      BY <1>2 DEF ExecuteBegin
    <2> QED BY <1>0, <2>1 DEF Exec
  <1>3. ASSUME NEW pc, exec' = [exec EXCEPT ![e].pc = pc]
        PROVE  exec'[e].pc = pc /\ exec'[e].req = exec[e].req
    BY <1>0, <1>3 DEF Exec
  <1>4. ASSUME ExecReturn(e) PROVE exec'[e] = IdleExec
    BY <1>0, <1>4 DEF ExecReturn
  <1>5. CASE ExecuteCheck(e)
    <2>1. exec[e].pc = "check" /\ (ExecReturn(e) \/ exec' = [exec EXCEPT ![e].pc = "begin"])
      BY <1>5 DEF ExecuteCheck, ExecGoto
    <2> QED BY <1>3, <1>4, <2>1
  <1>6. ASSUME ExecuteReuse(e) PROVE Moved({"request"}, {"providers"})
    <2>1. PICK b : exec' = [exec EXCEPT ![e].pc = "providers", ![e].open = b]
      BY <1>6 DEF ExecuteReuse
    <2> QED BY <1>0, <1>6, <2>1 DEF ExecuteReuse, Exec
  <1>7. ASSUME ExecuteRequest(e) PROVE Moved({"request"}, {"providers"})
    <2>1. exec' = [exec EXCEPT ![e].pc = "providers", ![e].created = TRUE, ![e].open = TRUE]
      BY <1>7 DEF ExecuteRequest
    <2> QED BY <1>0, <1>7, <2>1 DEF ExecuteRequest, Exec
  <1>8. ASSUME ExecuteProviders(e) PROVE Moved({"providers"}, {"receipts"})
    <2>1. PICK failed, todo : exec' = [exec EXCEPT ![e].pc = "receipts", ![e].failed = failed,
                                                   ![e].todo = todo]
      BY <1>8 DEF ExecuteProviders
    <2> QED BY <1>0, <1>8, <2>1 DEF ExecuteProviders, Exec
  <1>9. ASSUME NEW o \in Owners, ExecuteReceipt(e, o)
        PROVE  Moved({"receipts"}, {"receipts"}) /\ exec'[e].todo \subseteq exec[e].todo
    <2>1. exec' = [exec EXCEPT ![e].todo = @ \ {o}]
      BY <1>9 DEF ExecuteReceipt
    <2> QED BY <1>0, <1>9, <2>1 DEF ExecuteReceipt, Exec
  <1>10. CASE ExecuteReceipted(e)
    <2>1. exec[e].pc = "receipts" /\ (ExecReturn(e) \/ exec' = [exec EXCEPT ![e].pc = "identity"])
      BY <1>10 DEF ExecuteReceipted, ExecGoto
    <2> QED BY <1>3, <1>4, <2>1
  <1>11. CASE ExecuteIdentity(e)
    <2>1. exec[e].pc = "identity" /\ exec' = [exec EXCEPT ![e].pc = "stamp"]
      BY <1>11 DEF ExecuteIdentity, ExecGoto
    <2> QED BY <1>3, <2>1
  <1>12. CASE ExecuteStamp(e)
    <2>1. exec[e].pc = "stamp" /\ exec' = [exec EXCEPT ![e].pc = "announce"]
      BY <1>12 DEF ExecuteStamp, ExecGoto
    <2> QED BY <1>3, <2>1
  <1>13. CASE ExecuteAnnounce(e)
    <2>1. exec[e].pc = "announce" /\ exec' = [exec EXCEPT ![e].pc = "finalize"]
      BY <1>13 DEF ExecuteAnnounce, ExecGoto
    <2> QED BY <1>3, <2>1
  <1>14. CASE ExecuteFinalize(e)
    BY <1>4, <1>14 DEF ExecuteFinalize
  <1> QED
    BY <1>1, <1>2, <1>5, <1>6, <1>7, <1>8, <1>9, <1>10, <1>11, <1>12, <1>13, <1>14, OwnSteps
    DEF ExecStep

\* Without retries a call carries no correlation id until it draws a fresh one.
LEMMA IdDrawn ==
  ASSUME GraceInv, OwnIds, ~Retries, [ClosureNext]_cvars, NEW e \in Executors
  PROVE  \/ exec'[e].req = exec[e].req
         \/ exec'[e].req = NoReq
         \/ /\ Fresh(exec'[e].req) /\ UNCHANGED vars
            /\ \A f \in Executors \ {e} : exec'[f] = exec[f]
  <1> DEFINE Goal == \/ exec'[e].req = exec[e].req
                     \/ exec'[e].req = NoReq
                     \/ /\ Fresh(exec'[e].req) /\ UNCHANGED vars
                        /\ \A f \in Executors \ {e} : exec'[f] = exec[f]
  <1>0. /\ ClosureTypeInv /\ exec \in [Executors -> Exec] /\ exec[e] \in Exec
        /\ exec[e].pc \in {"idle", "check", "begin"} => exec[e].req = NoReq
    BY DEF GraceInv, ClosureTypeInv, ClosureTypeOK, OwnIds
  <1>1. CASE exec'[e] = exec[e] \/ exec'[e] = IdleExec
    BY <1>1 DEF IdleExec
  <1>2. ASSUME NEW c \in Closures, GraceSweep(e, c) \/ ReExecute(e, c) PROVE Goal
    <2>1. GraceSweep(e, c) /\ corr[c] = NoReq
      BY <1>2 DEF ReExecute, GraceSweep, OwnIds
    <2> QED BY <1>0, <2>1 DEF GraceSweep, Execute, IdleExec
  <1>3. CASE ExecuteBegin(e)
    <2>1. exec[e].req = NoReq
      BY <1>0, <1>3 DEF ExecuteBegin
    <2>2. PICK r \in Requests : /\ Fresh(r)
                                /\ exec' = [exec EXCEPT ![e].req = r, ![e].pc = "request"]
      BY <1>3, <2>1 DEF ExecuteBegin
    <2>3. exec'[e].req = r /\ \A f \in Executors \ {e} : exec'[f] = exec[f]
      BY <1>0, <2>2 DEF Exec
    <2>4. UNCHANGED vars
      BY <1>3, LedgerUntouched
    <2> QED BY <2>2, <2>3, <2>4
  <1> QED BY <1>0, <1>1, <1>2, <1>3, ExecMoves

LEMMA OwnIdsStep ==
  ASSUME ClosedInv, [ClosureNext]_cvars, AccountClaimed
  PROVE  OwnIds'
  <1>0. /\ GraceInv /\ OwnIds /\ ClosureTypeInv /\ ClosureTypeOK /\ CallsTyped /\ TypeOK
        /\ exec \in [Executors -> Exec] /\ RowsLinked
    BY DEF ClosedInv, GraceInv, ClosureTypeInv, ClosureTypeOK
  <1>1. ASSUME NEW c \in Closures, status'[c] \in {"absent", "grace"} PROVE corr'[c] = NoReq
    <2>1. status[c] \in {"absent", "grace"}
      BY <1>0, <1>1, ClosuresForward DEF KeptClosure
    <2>2. corr[c] = NoReq
      BY <1>0, <2>1 DEF OwnIds
    <2>3. ASSUME NEW e \in Executors, ExecuteBegin(e) PROVE corr'[c] = corr[c]
      <3>1. exec[e].closure # c
        BY <1>0, <1>1, <2>3, SMTT(40) DEF ClosureTypeOK, ExecuteBegin, Closure
      <3> QED BY <1>0, <2>3, <3>1 DEF ClosureTypeOK, ExecuteBegin, Closure
    <2>4. ASSUME \/ \E h \in Handlers : WebStep(h)
                 \/ \E u \in Users : SetHold(u)
                 \/ \E e \in Executors :
                       \/ \E d \in Closures : GraceSweep(e, d) \/ ReExecute(e, d)
                       \/ ExecuteCheck(e) \/ ExecuteReuse(e) \/ ExecuteRequest(e)
                       \/ ExecuteProviders(e) \/ (\E o \in Owners : ExecuteReceipt(e, o))
                       \/ ExecuteReceipted(e) \/ ExecuteIdentity(e) \/ ExecuteStamp(e)
                       \/ ExecuteAnnounce(e) \/ ExecuteFinalize(e)
                       \/ ExecuteFails(e) \/ ExecuteCrash(e)
          PROVE  corr' = corr
      BY <2>4, ZenonT(40) DEF WebStep, InitiateClosure, CancelClosure, InitiateCommit, CancelCommit, WebFails,
                  SetHold, GraceSweep, ReExecute, Execute, ExecuteCheck, ExecuteReuse,
                  ExecuteRequest, ExecuteProviders, ExecuteReceipt, ExecuteReceipted,
                  ExecuteIdentity, ExecuteStamp, ExecuteAnnounce, ExecuteFinalize,
                  ExecuteFails, ExecuteCrash, account, closureRow
    <2>5. ASSUME \/ \E w \in Workers :
                       \/ Gate(w) \/ CloseAccount(w) \/ Ledger(RefreshTo(w, "gate"))
                       \/ Ledger(ObligedTo(w, Handling(job[w].req, "close", job[w].waive)))
                 \/ Ledger(SharedStep)
                 \/ \E g \in Registries : ClosureRedeploy(g)
                 \/ UNCHANGED cvars
          PROVE  corr' = corr
      BY <2>5 DEF Gate, CloseAccount, Ledger, ClosureRedeploy, account, closureRow, cvars
    <2> QED BY <2>2, <2>3, <2>4, <2>5, ClosureSteps DEF ExecStep
  <1>2. ASSUME Retries, NEW r \in Requests, Exists(r)' PROVE Asked(r)' # {}
    <2>1. CASE Exists(r)
      <3>1. KeptRow(r) /\ Asked(r) # {}
        BY <1>0, <1>2, <2>1, RowsForward DEF OwnIds
      <3> QED BY <3>1 DEF KeptRow, Asked
    <2>2. ASSUME NEW e \in Executors, ExecuteRequest(e), exec[e].req = r PROVE Asked(r)' # {}
      <3>1. \E o \in Owners : o \in OwnersFor(registry, Account)
        BY <1>0, <1>2, ConstantsAssumption, ClosureAssumption
        DEF AccountClaimed, TypeOK, Registry, OwnersFor
      <3>2. \A o \in Owners : o \in OwnersFor(registry, Account) => part'[r][o] = "pending"
        BY <1>0, <2>2 DEF TypeOK, ExecuteRequest, InsertRow
      <3> QED BY <3>1, <3>2 DEF Asked
    <2> QED BY <1>0, <1>2, <2>1, <2>2, NewRows
  <1>3. ASSUME ~Retries, NEW e \in Executors
        PROVE  /\ exec'[e].pc \in {"idle", "check", "begin"} => exec'[e].req = NoReq
               /\ exec'[e].pc = "request" => ~Exists(exec[e].req)'
               /\ \A f \in Executors : f # e /\ exec'[f].req = exec'[e].req => exec'[e].req = NoReq
    <2>0. /\ exec[e].pc \in {"idle", "check", "begin"} => exec[e].req = NoReq
          /\ exec[e].pc = "request" => ~Exists(exec[e].req) /\ exec[e].req \in Requests
          /\ \A f \in Executors : f # e /\ exec[f].req = exec[e].req => exec[e].req = NoReq
      BY <1>0, <1>3 DEF OwnIds, CallsTyped
    <2>1. exec'[e].pc \in {"idle", "check", "begin"} => exec'[e].req = NoReq
      <3>1. ASSUME NEW c \in Closures, GraceSweep(e, c) \/ ReExecute(e, c)
            PROVE  exec'[e].req = NoReq
        <4>1. GraceSweep(e, c) /\ corr[c] = NoReq
          BY <1>0, <1>3, <3>1 DEF ReExecute, GraceSweep, OwnIds
        <4> QED BY <1>0, <4>1 DEF GraceSweep, Execute, IdleExec
      <3>2. exec'[e] = IdleExec => exec'[e].req = NoReq
        BY DEF IdleExec
      <3> QED BY <1>0, <2>0, <3>1, <3>2, ExecMoves
    <2>2. ASSUME exec'[e].pc = "request" PROVE ~Exists(exec[e].req)'
      <3>1. CASE exec'[e] = exec[e]
        <4>1. ASSUME NEW f \in Executors, ExecuteRequest(f), exec[f].req = exec[e].req PROVE FALSE
          <5>1. f = e
            BY <2>0, <2>2, <3>1, <4>1, ConstantsAssumption
          <5>2. exec' = [exec EXCEPT ![e].pc = "providers", ![e].created = TRUE, ![e].open = TRUE]
            BY <4>1, <5>1 DEF ExecuteRequest
          <5>3. exec'[e].pc = "providers"
            BY <1>0, <5>2 DEF Exec
          <5> QED BY <2>2, <5>3
        <4>2. exec[e].req \in Requests /\ ~Exists(exec[e].req)
          BY <2>0, <2>2, <3>1
        <4>3. state'[exec[e].req] = "absent"
          BY <1>0, <4>1, <4>2, NewRows DEF Exists
        <4> QED BY <3>1, <4>3 DEF Exists
      <3>2. CASE ExecuteBegin(e)
        <4>1. PICK r \in Requests : /\ Fresh(r)
                                    /\ exec' = [exec EXCEPT ![e].req = r, ![e].pc = "request"]
          BY <2>0, <3>2 DEF ExecuteBegin
        <4>2. exec'[e].req = r
          BY <1>0, <4>1 DEF Exec
        <4>3. ~Exists(r) /\ state' = state
          BY <3>2, <4>1, LedgerUntouched DEF Fresh, vars, ledger, rows
        <4> QED BY <4>2, <4>3 DEF Exists
      <3>3. exec'[e] # IdleExec
        BY <2>2 DEF IdleExec
      <3> QED BY <1>0, <2>2, <3>1, <3>2, <3>3, ExecMoves
    <2>3. ASSUME NEW f \in Executors, f # e, exec'[f].req = exec'[e].req
          PROVE  exec'[e].req = NoReq
      <3>1. \A x \in Executors : \/ exec'[x].req = exec[x].req
                                 \/ exec'[x].req = NoReq
                                 \/ /\ Fresh(exec'[x].req)
                                    /\ \A y \in Executors \ {x} : exec'[y] = exec[y]
        BY <1>0, <1>3, IdDrawn
      <3> QED BY <2>0, <2>3, <3>1 DEF Fresh
    <2> QED BY <2>1, <2>2, <2>3
  <1> QED BY <1>1, <1>2, <1>3 DEF OwnIds

\* A call that is past its request has asked somebody, or runs where nobody
\* claims the account.
LEMMA ExecAskedStep ==
  ASSUME ClosedInv, [ClosureNext]_cvars, NEW e \in Executors
  PROVE  ExecAsked(e)'
  <1>0. /\ GraceInv /\ OwnIds /\ ClosureTypeInv /\ CallsTyped /\ TypeOK /\ RowsLinked
        /\ ExecAsked(e) /\ ExecGrounded(e) /\ exec \in [Executors -> Exec] /\ exec[e] \in Exec
    BY DEF ClosedInv, GraceInv, ClosureTypeInv, ClosureTypeOK
  <1>1. CASE exec'[e] = IdleExec
    BY <1>1 DEF ExecAsked, IdleExec
  <1>2. CASE exec'[e].pc \in {"idle", "check", "begin", "request"}
    BY <1>2 DEF ExecAsked
  <1> SUFFICES ASSUME exec'[e] # IdleExec,
                      exec'[e].pc \notin {"idle", "check", "begin", "request"}
               PROVE  ExecAsked(e)'
    BY <1>1, <1>2
  <1>3. registry' = registry
    BY InventoryFixed DEF ClosureRedeploy
  <1>4. confirmed \subseteq confirmed'
    BY <1>0, RowsForward
  <1>5. ASSUME Grounds(exec[e].req), Linked(exec[e].req), exec'[e].req = exec[e].req
        PROVE  Grounds(exec[e].req)'
    <2>1. PICK r : r = exec[e].req
      OBVIOUS
    <2>2. Grounds(r)'
      BY <1>0, <1>3, <1>5, <2>1, GroundsStay
    <2> QED BY <1>5, <2>1, <2>2 DEF Grounds, Asked
  <1>6. CASE exec'[e] = exec[e]
    <2>1. Linked(exec[e].req)
      BY <1>0, <1>6 DEF ExecGrounded, CallsTyped, Linked
    <2>2. Grounds(exec[e].req)'
      BY <1>0, <1>5, <1>6, <2>1 DEF ExecAsked
    <2> QED BY <1>0, <1>4, <1>6, <2>2 DEF ExecAsked
  <1>7. CASE ExecuteReuse(e) /\ exec'[e].pc = "providers" /\ exec'[e].req = exec[e].req
    <2>1. exec[e].req \in Requests /\ Exists(exec[e].req) /\ exec[e].pc = "request"
      BY <1>0, <1>7 DEF CallsTyped, ExecuteReuse
    <2>2. Grounds(exec[e].req)
      BY <1>0, <2>1 DEF OwnIds, Grounds
    <2>3. Linked(exec[e].req)
      BY <1>0, <2>1 DEF RowsLinked, Linked
    <2> QED BY <1>5, <1>7, <2>2, <2>3 DEF ExecAsked
  <1>8. CASE ExecuteRequest(e) /\ exec'[e].pc = "providers" /\ exec'[e].req = exec[e].req
    <2>1. PICK r : r = exec[e].req
      OBVIOUS
    <2>2. r \in Requests /\ InsertRow(r, Account, NoKey, NoReq)
      BY <1>0, <1>8, <2>1 DEF CallsTyped, ExecuteRequest
    <2>3. subject'[r] = Account
          /\ \A o \in Owners : o \in OwnersFor(registry, Account) => part'[r][o] = "pending"
      BY <1>0, <2>2 DEF TypeOK, InsertRow
    <2>4. OwnersFor(registry, Account) \subseteq Owners
      BY <1>0, ConstantsAssumption, ClosureAssumption DEF TypeOK, Registry, OwnersFor
    <2>5. \/ OwnersFor(registry', subject'[r]) = {}
          \/ {o \in Owners : part'[r][o] # "absent"} # {}
      BY <1>3, <2>3, <2>4
    <2>6. Grounds(exec[e].req)'
      BY <1>8, <2>1, <2>5 DEF Grounds, Asked
    <2> QED BY <1>8, <2>6 DEF ExecAsked
  <1>9. CASE /\ exec[e].pc \in {"providers", "receipts", "identity", "stamp", "announce"}
             /\ exec'[e].req = exec[e].req
    <2>1. Linked(exec[e].req)
      BY <1>0, <1>9 DEF ExecGrounded, CallsTyped, Linked
    <2>2. Grounds(exec[e].req)'
      BY <1>0, <1>5, <1>9, <2>1 DEF ExecAsked
    <2>3. ASSUME ExecuteProviders(e), NEW o \in exec'[e].todo
          PROVE  <<exec'[e].req, o>> \in confirmed'
      <3>1. PICK failed \in SUBSET registry.registered :
               /\ confirmed' = confirmed \cup ({exec[e].req} \X (registry.registered \ failed))
               /\ exec' = [exec EXCEPT ![e].pc = "receipts", ![e].failed = failed,
                      ![e].todo = ((OwnersFor(registry, Account) \cap registry.local)
                                     \ failed) \ Missing(registry)]
        BY <2>3 DEF ExecuteProviders
      <3>2. exec'[e].todo = ((OwnersFor(registry, Account) \cap registry.local)
                                \ failed) \ Missing(registry)
        BY <1>0, <3>1 DEF Exec
      <3>3. o \in registry.registered \ failed
        BY <2>3, <3>2 DEF Missing
      <3> QED BY <1>9, <3>1, <3>3
    <2>4. exec[e].pc = "receipts" /\ exec'[e].todo \subseteq exec[e].todo =>
             \A o \in exec'[e].todo : <<exec'[e].req, o>> \in confirmed'
      BY <1>0, <1>4, <1>9 DEF ExecAsked
    <2>5. \/ ExecuteProviders(e) \/ exec'[e].pc # "receipts"
          \/ (exec[e].pc = "receipts" /\ exec'[e].todo \subseteq exec[e].todo)
      BY <1>0, <1>9, ExecMoves DEF ExecuteReuse
    <2> QED BY <2>2, <2>3, <2>4, <2>5 DEF ExecAsked
  <1> QED BY <1>0, <1>6, <1>7, <1>8, <1>9, ExecMoves

\* What _maybe_finalize has read about a request stays true.
LEMMA RequestKept ==
  ASSUME ClosedInv, [ClosureNext]_cvars, NEW r, Linked(r)
  PROVE  /\ Grounds(r) /\ registry' = registry => Grounds(r)'
         /\ localDone[link[r]] /\ idStamp[link[r]] => localDone'[link'[r]] /\ idStamp'[link'[r]]
         /\ FullyReceipted(r) => FullyReceipted(r)'
         /\ completed[r] => completed'[r]
  <1>0. GraceInv /\ ClosureTypeInv /\ r \in Requests /\ link[r] \in Closures
    BY DEF ClosedInv, GraceInv, Linked
  <1>1. link'[r] = link[r]
    BY <1>0, LinkStays
  <1>2. /\ localDone[link[r]] => localDone'[link[r]]
        /\ idStamp[link[r]] => idStamp'[link[r]]
    BY <1>0, ClosuresForward
  <1>3. completed[r] => completed'[r]
    BY <1>0, RowsForward
  <1> QED BY <1>0, <1>1, <1>2, <1>3, GroundsStay, FullStays

\* The invariant of a call, spelled out for the request it is busy with.
LEMMA JobSpelledOut ==
  ASSUME NEW v \in Workers, NEW r, NEW pc, NEW b, job'[v] = Handling(r, pc, b),
         pc \in {"refresh", "gate", "judge"} => Grounds(r)',
         pc \in {"judge", "save", "oblige", "close"} =>
            localDone'[link'[r]] /\ idStamp'[link'[r]],
         pc \in {"save", "oblige", "close"} /\ ~b => FullyReceipted(r)',
         pc \in {"oblige", "close"} => completed'[r]
  PROVE  JobGrounded(v)'
  <1>1. job'[v].pc = pc /\ job'[v].req = r /\ job'[v].waive = b
    BY DEF Handling
  <1> QED BY <1>1 DEF JobGrounded, Grounds, Asked, FullyReceipted

LEMMA JobGroundedStep ==
  ASSUME ClosedInv, [ClosureNext]_cvars, NEW v \in Workers
  PROVE  JobGrounded(v)'
  <1>0. /\ GraceInv /\ ClosureTypeInv /\ CallsTyped /\ TypeOK /\ ReceiptsConfirmed
        /\ PartsLinked /\ JobsKnown /\ job \in [Workers -> Job]
        /\ \A w \in Workers : JobGrounded(w)
    BY DEF ClosedInv, GraceInv, ClosureTypeInv, ClosureTypeOK, TypeOK
  <1>1. CASE job'[v] = IdleJob
    BY <1>1 DEF JobGrounded, IdleJob, Handling
  <1> SUFFICES ASSUME job'[v] # IdleJob PROVE JobGrounded(v)'
    BY <1>1
  <1>2. registry' = registry
    BY InventoryFixed DEF ClosureRedeploy, Redeploy
  <1>3. ASSUME NEW w \in Workers, job[w].pc # "idle" PROVE Linked(job[w].req)
    BY <1>0, <1>3 DEF JobsKnown
  <1>4. CASE job'[v] = job[v]
    <2>1. CASE job[v].pc = "idle"
      BY <1>4, <2>1 DEF JobGrounded
    <2>2. CASE job[v].pc # "idle"
      <3>1. PICK r, pc, b : r = job[v].req /\ pc = job[v].pc /\ b = job[v].waive
        OBVIOUS
      <3>2. Linked(r)
        BY <1>3, <2>2, <3>1
      <3>3. /\ pc \in {"refresh", "gate", "judge"} => Grounds(r)
            /\ pc \in {"judge", "save", "oblige", "close"} => localDone[link[r]] /\ idStamp[link[r]]
            /\ pc \in {"save", "oblige", "close"} /\ ~b => FullyReceipted(r)
            /\ pc \in {"oblige", "close"} => completed[r]
        BY <1>0, <3>1 DEF JobGrounded
      <3>4. /\ pc \in {"refresh", "gate", "judge"} => Grounds(r)'
            /\ pc \in {"judge", "save", "oblige", "close"} =>
                  localDone'[link'[r]] /\ idStamp'[link'[r]]
            /\ pc \in {"save", "oblige", "close"} /\ ~b => FullyReceipted(r)'
            /\ pc \in {"oblige", "close"} => completed'[r]
        BY <1>2, <3>2, <3>3, RequestKept
      <3> QED BY <1>4, <3>1, <3>4 DEF JobGrounded, Grounds, Asked, FullyReceipted
    <2> QED BY <2>1, <2>2
  <1>5. ASSUME NEW e \in Executors, ExecuteFinalize(e), job'[v] # job[v] PROVE JobGrounded(v)'
    <2>1. PICK r : r = exec[e].req
      OBVIOUS
    <2>2. /\ Linked(r) /\ Grounds(r) /\ localDone[link[r]] /\ idStamp[link[r]]
      BY <1>0, <1>5, <2>1
      DEF ClosedInv, GraceInv, ExecAsked, ExecGrounded, CallsTyped, ExecuteFinalize, Linked
    <2>3. PICK pc \in {"judge", "gate"} : job'[v] = Handling(r, pc, FALSE)
      BY <1>0, <1>5, <2>1 DEF ExecuteFinalize
    <2> QED BY <1>2, <2>2, <2>3, RequestKept, JobSpelledOut
  <1>6. ASSUME NEW w \in Workers, Ledger(RefreshTo(w, "gate")), job'[v] # job[v]
        PROVE  JobGrounded(v)'
    <2>1. PICK r, b : r = job[w].req /\ b = job[w].waive
      OBVIOUS
    <2>2. job[w].pc = "refresh" /\ job'[v] = Handling(r, "gate", b)
      BY <1>0, <1>6, <2>1 DEF Ledger, RefreshTo, Goto, Return, Become
    <2>3. Linked(r) /\ Grounds(r)
      BY <1>0, <1>3, <2>1, <2>2 DEF JobGrounded
    <2> QED BY <1>2, <2>2, <2>3, RequestKept, JobSpelledOut
  <1>7. ASSUME NEW w \in Workers, Gate(w), job'[v] # job[v] PROVE JobGrounded(v)'
    <2>1. PICK r, b : r = job[w].req /\ b = job[w].waive
      OBVIOUS
    <2>2. /\ job[w].pc = "gate" /\ job'[v] = Handling(r, "judge", b)
          /\ localDone[link[r]] /\ idStamp[link[r]]
      BY <1>0, <1>7, <2>1 DEF Gate, Goto, Return, Become
    <2>3. Linked(r) /\ Grounds(r)
      BY <1>0, <1>3, <2>1, <2>2 DEF JobGrounded
    <2> QED BY <1>2, <2>2, <2>3, RequestKept, JobSpelledOut
  <1>8. ASSUME NEW w \in Workers, Judge(w), job'[v] # job[v] PROVE JobGrounded(v)'
    <2>1. PICK r, b : r = job[w].req /\ b = Blocked(job[w].req)
      OBVIOUS
    <2>2. job[w].pc = "judge" /\ job'[v] = Handling(r, "save", b)
      BY <1>0, <1>8, <2>1 DEF Judge, Return, Become
    <2>3. Linked(r) /\ Grounds(r) /\ localDone[link[r]] /\ idStamp[link[r]]
      BY <1>0, <1>3, <2>1, <2>2 DEF JobGrounded
    <2>4. ASSUME ~b PROVE FullyReceipted(r)
      <3>1. Asked(r) # {} /\ Unreceipted(r) = {}
        BY <2>1, <2>3, <2>4 DEF Blocked, Grounds
      <3>2. r \in Requests
        BY <2>3 DEF Linked
      <3> QED BY <1>0, <3>1, <3>2
          DEF FullyReceipted, Asked, Unreceipted, Receipts, ReceiptsConfirmed
    <2> QED BY <2>2, <2>3, <2>4, RequestKept, JobSpelledOut
  <1>9. ASSUME NEW w \in Workers, SaveDeleted(w), job'[v] # job[v] PROVE JobGrounded(v)'
    <2>1. PICK r, b : r = job[w].req /\ b = job[w].waive
      OBVIOUS
    <2>2. job[w].pc = "save" /\ job'[v] = Handling(r, "oblige", b)
      BY <1>0, <1>9, <2>1 DEF SaveDeleted, Goto, Become
    <2>3. /\ Linked(r) /\ localDone[link[r]] /\ idStamp[link[r]]
          /\ ~b => FullyReceipted(r)
      BY <1>0, <1>3, <2>1, <2>2 DEF JobGrounded
    <2>4. completed'[r]
      BY <1>0, <1>9, <2>1, <2>3 DEF SaveDeleted, TypeOK, Linked
    <2> QED BY <2>2, <2>3, <2>4, RequestKept, JobSpelledOut
  <1>10. ASSUME NEW w \in Workers, job'[v] # job[v],
                Ledger(ObligedTo(w, Handling(job[w].req, "close", job[w].waive)))
         PROVE  JobGrounded(v)'
    <2>1. PICK r, b : r = job[w].req /\ b = job[w].waive
      OBVIOUS
    <2>2. job[w].pc = "oblige" /\ job'[v] = Handling(r, "close", b)
      BY <1>0, <1>10, <2>1 DEF Ledger, ObligedTo, Become
    <2>3. /\ Linked(r) /\ localDone[link[r]] /\ idStamp[link[r]]
          /\ ~b => FullyReceipted(r)
          /\ completed[r]
      BY <1>0, <1>3, <2>1, <2>2 DEF JobGrounded
    <2> QED BY <2>2, <2>3, RequestKept, JobSpelledOut
  <1>11. ASSUME NEW w \in Workers, MarkStep(w), job'[v] # job[v] PROVE JobGrounded(v)'
    <2>1. PICK r \in Requests, o \in Owners : MarkSectionErased(w, r, o)
      BY <1>11 DEF MarkStep
    <2>2. /\ job'[v] = Handling(r, "refresh", FALSE) /\ part[r][o] # "absent"
      BY <1>0, <1>11, <2>1 DEF MarkSectionErased, Become
    <2>3. Linked(r) /\ Grounds(r)
      BY <1>0, <2>2 DEF PartsLinked, Grounds, Asked
    <2> QED BY <1>2, <2>2, <2>3, RequestKept, JobSpelledOut
  <1>12. ASSUME NEW w \in Workers, CloseAccount(w) \/ Crash(w) PROVE job'[v] = job[v]
    BY <1>0, <1>12 DEF CloseAccount, Crash, Return, Become
  <1>13. ASSUME \/ \E s \in Sweepers : SweepStep(s) \/ SweepCrash(s)
                \/ \E w \in Workers, p \in Processors : Oblige(w, p)
                \/ \E r \in Requests, o \in Owners : OwnerConfirms(r, o)
                \/ Tick
                \/ \E e \in Executors : \/ ExecuteRequest(e) \/ ExecuteProviders(e)
                                        \/ \E o \in Owners : ExecuteReceipt(e, o)
                \/ UNCHANGED vars
         PROVE  job' = job
    BY <1>13 DEF SweepStep, SweepRead, SweepUpdate, SweepSelect, SweepFlip, SweepCrash, Oblige,
                 OwnerConfirms, Tick, ExecuteRequest, ExecuteProviders, ExecuteReceipt, vars
  <1>14. CASE Ledger(SharedStep)
    <2> SharedStep
      BY <1>14 DEF Ledger
    <2> QED BY <1>4, <1>8, <1>9, <1>11, <1>12, <1>13 DEF SharedStep
  <1>15. ASSUME NEW g \in Registries, ClosureRedeploy(g) PROVE FALSE
    BY <1>15 DEF ClosureRedeploy, Redeploy
  <1> QED
    BY <1>4, <1>5, <1>6, <1>7, <1>10, <1>12, <1>13, <1>14, <1>15, ClosureSteps, LedgerUntouched
    DEF ExecStep

LEMMA ClosedMeansErasedStep ==
  ASSUME ClosedInv, [ClosureNext]_cvars
  PROVE  ClosedMeansErased'
  <1>0. /\ GraceInv /\ GraceInv' /\ ClosureTypeInv /\ ClosureTypeOK /\ TypeOK /\ ClosedMeansErased
        /\ JobsKnown /\ \A w \in Workers : JobGrounded(w)
    BY GraceStep DEF ClosedInv, GraceInv, ClosureTypeInv, ClosureTypeOK
  <1> SUFFICES ASSUME NEW c \in Closures, status'[c] = "deleted"
               PROVE  /\ localDone'[c] /\ idStamp'[c]
                      /\ \E r \in Requests :
                            /\ link'[r] = c /\ completed'[r]
                            /\ closureWaived'[c] \/ FullyReceipted(r)'
    BY <1>0 DEF ClosedMeansErased, GraceInv, ClosureGrounded
  <1>1. ASSUME NEW w \in Workers, CloseAccount(w), link[job[w].req] = c
        PROVE  /\ localDone'[c] /\ idStamp'[c]
               /\ \E r \in Requests : /\ link'[r] = c /\ completed'[r]
                                      /\ closureWaived'[c] \/ FullyReceipted(r)'
    <2>1. PICK r : r = job[w].req
      OBVIOUS
    <2>2. /\ Linked(r) /\ localDone[link[r]] /\ idStamp[link[r]] /\ completed[r]
          /\ ~job[w].waive => FullyReceipted(r)
      BY <1>0, <1>1, <2>1 DEF JobsKnown, JobGrounded, CloseAccount
    <2>3. closureWaived'[c] = job[w].waive
      BY <1>0, <1>1 DEF ClosureTypeOK, CloseAccount
    <2>4. link'[r] = c /\ r \in Requests
      BY <1>0, <1>1, <2>1, <2>2, LinkStays DEF Linked
    <2>5. /\ localDone'[c] /\ idStamp'[c] /\ completed'[r]
          /\ ~job[w].waive => FullyReceipted(r)'
      BY <2>2, <2>4, RequestKept
    <2>6. closureWaived'[c] \/ FullyReceipted(r)'
      BY <2>3, <2>5
    <2> QED BY <2>4, <2>5, <2>6
  <1>2. ASSUME status[c] = "deleted", closureWaived'[c] = closureWaived[c]
        PROVE  /\ localDone'[c] /\ idStamp'[c]
               /\ \E r \in Requests : /\ link'[r] = c /\ completed'[r]
                                      /\ closureWaived'[c] \/ FullyReceipted(r)'
    <2>1. PICK r \in Requests : /\ link[r] = c /\ completed[r]
                                /\ closureWaived[c] \/ FullyReceipted(r)
      BY <1>0, <1>2 DEF ClosedMeansErased
    <2>2. Linked(r) /\ localDone[c] /\ idStamp[c]
      BY <1>0, <1>2, <2>1 DEF Linked, ClosedMeansErased
    <2>3. link'[r] = c
      BY <1>0, <2>1, <2>2, LinkStays
    <2> QED BY <1>2, <2>1, <2>2, <2>3, RequestKept
  <1>3. \/ \E w \in Workers : CloseAccount(w) /\ link[job[w].req] = c
        \/ status[c] = "deleted" /\ closureWaived'[c] = closureWaived[c]
    <2>1. ASSUME NEW w \in Workers, CloseAccount(w), link[job[w].req] # c
          PROVE  status[c] = "deleted" /\ closureWaived'[c] = closureWaived[c]
      BY <1>0, <2>1 DEF CloseAccount, ClosureTypeOK
    <2>2. ASSUME NEW e \in Executors, ExecuteBegin(e)
          PROVE  status[c] = "deleted" /\ closureWaived'[c] = closureWaived[c]
      BY <1>0, <2>2 DEF ExecuteBegin, ClosureTypeOK
    <2>3. ASSUME NEW h \in Handlers, WebStep(h)
          PROVE  status[c] = "deleted" /\ closureWaived'[c] = closureWaived[c]
      <3>1. CASE InitiateCommit(h)
        BY <1>0, <3>1 DEF InitiateCommit, ClosureTypeOK
      <3>2. CASE CancelCommit(h)
        BY <1>0, <3>2 DEF CancelCommit, ClosureTypeOK
      <3>3. CASE WebFails(h) \/ \E u \in Users : InitiateClosure(h, u) \/ CancelClosure(h, u)
        BY <3>3, ZenonT(40) DEF WebFails, InitiateClosure, CancelClosure, account, closureRow
      <3> QED BY <2>3, <3>1, <3>2, <3>3 DEF WebStep
    <2>4. ASSUME \/ \E u \in Users : SetHold(u)
                 \/ \E e \in Executors :
                       \/ \E d \in Closures : GraceSweep(e, d) \/ ReExecute(e, d)
                       \/ ExecuteCheck(e) \/ ExecuteReuse(e) \/ ExecuteRequest(e)
                       \/ ExecuteProviders(e) \/ (\E o \in Owners : ExecuteReceipt(e, o))
                       \/ ExecuteReceipted(e) \/ ExecuteIdentity(e) \/ ExecuteStamp(e)
                       \/ ExecuteAnnounce(e) \/ ExecuteFinalize(e)
                       \/ ExecuteFails(e) \/ ExecuteCrash(e)
                 \/ \E w \in Workers :
                       \/ Gate(w) \/ Ledger(RefreshTo(w, "gate"))
                       \/ Ledger(ObligedTo(w, Handling(job[w].req, "close", job[w].waive)))
                 \/ Ledger(SharedStep)
                 \/ \E g \in Registries : ClosureRedeploy(g)
                 \/ UNCHANGED cvars
          PROVE  UNCHANGED <<status, closureWaived>>
      BY <2>4, ZenonT(40) DEF SetHold, GraceSweep, ReExecute, Execute, ExecuteCheck, ExecuteReuse,
                  ExecuteRequest, ExecuteProviders, ExecuteReceipt, ExecuteReceipted,
                  ExecuteIdentity, ExecuteStamp, ExecuteAnnounce, ExecuteFinalize,
                  ExecuteFails, ExecuteCrash, Gate, Ledger, ClosureRedeploy, account,
                  closureRow, cvars
    <2> QED BY <2>1, <2>2, <2>3, <2>4, ClosureSteps DEF ExecStep
  <1> QED BY <1>1, <1>2, <1>3

LEMMA ClosedStep ==
  ASSUME AccountClaimed, ClosedInv, [ClosureNext]_cvars
  PROVE  ClosedInv'
  <1>1. GraceInv' /\ ReceiptsConfirmed' /\ OwnIds' /\ ClosedMeansErased'
    BY GraceStep, ConfirmedStep, OwnIdsStep, ClosedMeansErasedStep DEF ClosedInv
  <1>2. (\A e \in Executors : ExecAsked(e))' /\ (\A w \in Workers : JobGrounded(w))'
    BY ExecAskedStep, JobGroundedStep
  <1> QED BY <1>1, <1>2 DEF ClosedInv

\* A closure that reads DELETED was erased: the person's row is gone, the local
\* half is over and a completed request holds every receipt, or says that it
\* was waived - provided every inventory that execute_deletion may be retried
\* under names an owner of the account.
THEOREM ClosedErased ==
  ASSUME AccountClaimed
  PROVE  ClosureSpec => []ClosedMeansErased
  <1>1. ClosedInv /\ [ClosureNext]_cvars => ClosedInv'
    BY ClosedStep
  <1>2. ClosedInv => ClosedMeansErased
    BY DEF ClosedInv
  <1> QED BY <1>1, <1>2, ClosedInit, PTL DEF ClosureSpec
=============================================================================
