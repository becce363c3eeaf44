------------------------------- MODULE Closure -------------------------------
(***************************************************************************)
(* Account closure (AccountClosureRequest) composed with the receipts      *)
(* ledger of module Erasure:                                               *)
(*                                                                         *)
(*   initiate_closure, cancel_closure      web processes (Handlers)        *)
(*   process_expired_grace_periods and                                     *)
(*   execute_deletion                      celery workers (Executors)      *)
(*   mark_section_erased, _maybe_finalize  bus consumers (other Workers)   *)
(*   legal holds                           staff, at any moment            *)
(*                                                                         *)
(* Requests here are account erasures only: entity erasures and restore    *)
(* re-queues have no closure and are covered by Erasure itself. A          *)
(* correlation_id is the primary key of the request it will name.          *)
(***************************************************************************)
EXTENDS Erasure

CONSTANTS
    Users, Closures, Handlers, Executors,
    Account,       \* SUBJECT_ACCOUNT
    GraceLength,   \* 30 days
    MaxFailures,   \* bound: how often a provider, the identity or an emit fails
    Holds,         \* TRUE: staff place and release legal holds
    Retries,       \* TRUE: somebody re-invokes execute_deletion on DELETING
    NoUser, NoClosure

ASSUME ClosureAssumption ==
    /\ Executors \subseteq Workers
    /\ Account \in Subjects
    /\ GraceLength \in Nat /\ MaxFailures \in Nat
    /\ Holds \in BOOLEAN /\ Retries \in BOOLEAN
    /\ NoUser \notin Users /\ NoClosure \notin Closures

VARIABLES
    status,        \* AccountClosureRequest.status, "absent" without a row
    holder,        \* AccountClosureRequest.user_id
    graceEnds,     \* AccountClosureRequest.grace_ends_at
    corr,          \* AccountClosureRequest.correlation_id
    localDone,     \* AccountClosureRequest.local_erasure_done
    idStamp,       \* AccountClosureRequest.identity_erased_at is set
    closureWaived, \* AccountClosureRequest.completeness_waived
    link,          \* ErasureRequest.closure
    active,        \* User.is_active
    identity,      \* the primary user row: "present" or "erased"
    held,          \* an unreleased LegalHold exists
    events,        \* user.deletion_initiated / _cancelled / user.deleted
    failures,
    web,           \* one initiate_closure / cancel_closure call per handler
    exec           \* one execute_deletion call per executor

closureRow == <<status, holder, graceEnds, corr, localDone, idStamp, closureWaived>>
user       == <<active, identity, held>>
account    == <<closureRow, link, user, events, failures>>
cvars      == <<vars, account, web, exec>>

Status  == {"absent", "grace", "deleting", "cancelled", "deleted"}
Event   == [type : {"initiated", "cancelled", "deleted"}, closure : Closures]
WebCall == [pc : {"idle", "create", "cancel"}, user : Users \cup {NoUser},
            closure : Closures \cup {NoClosure}]
Exec    == [pc : {"idle", "check", "begin", "request", "providers", "receipts",
                  "identity", "stamp", "announce", "finalize"},
            closure : Closures \cup {NoClosure}, req : Requests \cup {NoReq},
            created : BOOLEAN, open : BOOLEAN,
            todo : SUBSET Owners, failed : SUBSET Owners]

IdleWeb  == [pc |-> "idle", user |-> NoUser, closure |-> NoClosure]
IdleExec == [pc |-> "idle", closure |-> NoClosure, req |-> NoReq,
             created |-> FALSE, open |-> FALSE, todo |-> {}, failed |-> {}]

ClosureTypeOK ==
    /\ TypeOK
    /\ status        \in [Closures -> Status]
    /\ holder        \in [Closures -> Users \cup {NoUser}]
    /\ graceEnds     \in [Closures -> Nat]
    /\ corr          \in [Closures -> Requests \cup {NoReq}]
    /\ localDone     \in [Closures -> BOOLEAN]
    /\ idStamp       \in [Closures -> BOOLEAN]
    /\ closureWaived \in [Closures -> BOOLEAN]
    /\ link          \in [Requests -> Closures \cup {NoClosure}]
    /\ active        \in [Users -> BOOLEAN]
    /\ identity      \in [Users -> {"present", "erased"}]
    /\ held          \in [Users -> BOOLEAN]
    /\ events        \subseteq Event
    /\ failures      \in 0..MaxFailures
    /\ web           \in [Handlers -> WebCall]
    /\ exec          \in [Executors -> Exec]

ClosureInit ==
    /\ Init
    /\ status        = [c \in Closures |-> "absent"]
    /\ holder        = [c \in Closures |-> NoUser]
    /\ graceEnds     = [c \in Closures |-> 0]
    /\ corr          = [c \in Closures |-> NoReq]
    /\ localDone     = [c \in Closures |-> FALSE]
    /\ idStamp       = [c \in Closures |-> FALSE]
    /\ closureWaived = [c \in Closures |-> FALSE]
    /\ link          = [r \in Requests |-> NoClosure]
    /\ active        = [u \in Users |-> TRUE]
    /\ identity      = [u \in Users |-> "present"]
    /\ held          = [u \in Users |-> FALSE]
    /\ events        = {}
    /\ failures      = 0
    /\ web           = [h \in Handlers |-> IdleWeb]
    /\ exec          = [e \in Executors |-> IdleExec]

-----------------------------------------------------------------------------
(* initiate_closure and cancel_closure                                     *)

Of(u, statuses) == {c \in Closures : holder[c] = u /\ status[c] \in statuses}

\* Mutation: an account is refused while it is being erased, not afterwards.
DeniedDeleting(u) == Of(u, {"deleting"}) # {}

\* lifecycle.access_state / is_access_denied: what the guard middleware asks.
AccessDenied(u) == Of(u, {"deleting", "deleted"}) # {}

\* Bound: a call begins only while there is a primary key left for its row.
ClosuresLeft == Cardinality({c \in Closures : status[c] = "absent"}) >
                Cardinality({h \in Handlers : web[h].pc = "create"})

\* The hold check and the check for an active closure.
InitiateClosure(h, u) ==
    /\ web[h].pc = "idle"
    /\ ~held[u]
    /\ Of(u, {"grace", "deleting"}) = {}
    /\ ClosuresLeft
    /\ web' = [web EXCEPT ![h] = [IdleWeb EXCEPT !.pc = "create", !.user = u]]
    /\ UNCHANGED <<vars, account, exec>>

\* One transaction: row, deactivation, session revocation, announcement.
InitiateCommit(h) ==
    /\ web[h].pc = "create"
    /\ \E c \in Closures :
          /\ status[c] = "absent"
          /\ status'    = [status    EXCEPT ![c] = "grace"]
          /\ holder'    = [holder    EXCEPT ![c] = web[h].user]
          /\ graceEnds' = [graceEnds EXCEPT ![c] = now + GraceLength]
          /\ events'    = events \cup {[type |-> "initiated", closure |-> c]}
    /\ active' = [active EXCEPT ![web[h].user] = FALSE]
    /\ web'    = [web EXCEPT ![h] = IdleWeb]
    /\ UNCHANGED <<vars, corr, localDone, idStamp, closureWaived, link, identity,
                   held, failures, exec>>

\* A closure of the user that is in GRACE is read ...
CancelClosure(h, u) ==
    /\ web[h].pc = "idle"
    /\ \E c \in Of(u, {"grace"}) :
          web' = [web EXCEPT ![h] = [pc |-> "cancel", user |-> u, closure |-> c]]
    /\ UNCHANGED <<vars, account, exec>>

\* ... and its status is saved, without a second look, with the reactivation
\* and the announcement.
CancelCommit(h) ==
    /\ web[h].pc = "cancel"
    /\ status' = [status EXCEPT ![web[h].closure] = "cancelled"]
    /\ active' = [active EXCEPT ![web[h].user] = TRUE]
    /\ events' = events \cup {[type |-> "cancelled", closure |-> web[h].closure]}
    /\ web'    = [web EXCEPT ![h] = IdleWeb]
    /\ UNCHANGED <<vars, holder, graceEnds, corr, localDone, idStamp,
                   closureWaived, link, identity, held, failures, exec>>

\* SessionRevocationUnavailable or a failing emit: the transaction rolls back.
WebFails(h) ==
    /\ web[h].pc # "idle" /\ failures < MaxFailures
    /\ failures' = failures + 1
    /\ web' = [web EXCEPT ![h] = IdleWeb]
    /\ UNCHANGED <<vars, closureRow, link, user, events, exec>>

SetHold(u) == /\ Holds
              /\ held' = [held EXCEPT ![u] = ~held[u]]
              /\ UNCHANGED <<vars, closureRow, link, active, identity, events,
                             failures, web, exec>>

-----------------------------------------------------------------------------
(* process_expired_grace_periods and execute_deletion                      *)

Closure(e) == exec[e].closure
ExecGoto(e, pc) == exec' = [exec EXCEPT ![e].pc = pc]
ExecReturn(e)   == exec' = [exec EXCEPT ![e] = IdleExec]

\* execute_deletion is entered with the instance the caller has read.
Execute(e, c) ==
    /\ exec[e].pc = "idle" /\ job[e].pc = "idle"
    /\ exec' = [exec EXCEPT ![e] = [IdleExec EXCEPT !.pc = "check",
                                        !.closure = c, !.req = corr[c]]]
    /\ UNCHANGED <<vars, account, web>>

\* Mutation: the sweep forgets to compare grace_ends_at.
SweepAnyGrace(e, c) == status[c] = "grace" /\ ~held[holder[c]] /\ Execute(e, c)

\* The queryset of the sweep yields an instance in GRACE whose time is up.
GraceSweep(e, c) ==
    /\ status[c] = "grace"
    /\ graceEnds[c] <= now
    /\ ~held[holder[c]]
    /\ Execute(e, c)

\* execute_deletion called again on a closure left in DELETING, once nothing
\* is in flight. No task of the repository does it; its docstring says so and
\* its tests do.
ReExecute(e, c) ==
    /\ Retries
    /\ \A w \in Workers : job[w].pc = "idle"
    /\ \A f \in Executors : exec[f].pc = "idle"
    /\ status[c] = "deleting"
    /\ Execute(e, c)

\* The hold check of execute_deletion itself.
ExecuteCheck(e) ==
    /\ exec[e].pc = "check"
    /\ IF held[holder[Closure(e)]] THEN ExecReturn(e) ELSE ExecGoto(e, "begin")
    /\ UNCHANGED <<vars, account, web>>

\* A correlation id nobody has.
Fresh(r) == /\ ~Exists(r)
            /\ \A c \in Closures  : corr[c] # r
            /\ \A e \in Executors : exec[e].req # r

\* status, correlation_id and registry_version are saved, whatever the row
\* says by now.
ExecuteBegin(e) ==
    /\ exec[e].pc = "begin"
    /\ \E r \in Requests :
          /\ IF exec[e].req # NoReq THEN r = exec[e].req ELSE Fresh(r)
          /\ corr' = [corr EXCEPT ![Closure(e)] = r]
          /\ exec' = [exec EXCEPT ![e].req = r, ![e].pc = "request"]
    /\ status' = [status EXCEPT ![Closure(e)] = "deleting"]
    /\ UNCHANGED <<vars, holder, graceEnds, localDone, idStamp, closureWaived,
                   link, user, events, failures, web>>

\* The erasure request of this closure: reused when an earlier run made it,
\* opened through request_erasure otherwise.
ExecuteReuse(e) ==
    /\ exec[e].pc = "request" /\ Exists(exec[e].req)
    /\ exec' = [exec EXCEPT ![e].pc = "providers",
                            ![e].open = state[exec[e].req] \in Open]
    /\ UNCHANGED <<vars, account, web>>

ExecuteRequest(e) ==
    /\ exec[e].pc = "request"
    /\ InsertRow(exec[e].req, Account, NoKey, NoReq)
    /\ link' = [link EXCEPT ![exec[e].req] = Closure(e)]
    /\ exec' = [exec EXCEPT ![e].pc = "providers", ![e].created = TRUE,
                            ![e].open = TRUE]
    /\ UNCHANGED <<outside, job, sweep, closureRow, user, events, failures, web>>

\* _run_deletion_inprocess: every registered provider runs; some may fail.
ExecuteProviders(e) ==
    /\ exec[e].pc = "providers"
    /\ \E failed \in SUBSET registry.registered :
          /\ failed # {} => failures < MaxFailures
          /\ failures'  = failures + (IF failed = {} THEN 0 ELSE 1)
          /\ confirmed' = confirmed \cup
                ({exec[e].req} \X (registry.registered \ failed))
          /\ exec' = [exec EXCEPT ![e].pc = "receipts", ![e].failed = failed,
                 ![e].todo = ((OwnersFor(registry, Account) \cap registry.local)
                                \ failed) \ Missing(registry)]
    /\ UNCHANGED <<ledger, registry, now, job, sweep, closureRow, link, user,
                   events, web>>

\* _record_local_receipts, one part at a time; a DONE part is left alone.
ExecuteReceipt(e, o) ==
    /\ exec[e].pc = "receipts" /\ o \in exec[e].todo
    /\ part' = IF o \in Unreceipted(exec[e].req)
                 THEN [part EXCEPT ![exec[e].req][o] = "done"] ELSE part
    /\ exec' = [exec EXCEPT ![e].todo = @ \ {o}]
    /\ UNCHANGED <<rows, deadline, obliged, outbox, outside, job, sweep,
                   account, web>>

\* Mutation: the announcement goes out before the identity is erased.
ReceiptedAnnounceFirst(e) ==
    /\ exec[e].pc = "receipts" /\ exec[e].todo = {}
    /\ IF exec[e].failed # {} THEN ExecReturn(e) ELSE ExecGoto(e, "announce")
    /\ UNCHANGED <<vars, account, web>>

\* A failed provider leaves the closure in DELETING.
ExecuteReceipted(e) ==
    /\ exec[e].pc = "receipts" /\ exec[e].todo = {}
    /\ IF exec[e].failed # {} THEN ExecReturn(e) ELSE ExecGoto(e, "identity")
    /\ UNCHANGED <<vars, account, web>>

\* lifecycle.erase_identity, then the stamp on the closure.
ExecuteIdentity(e) ==
    /\ exec[e].pc = "identity"
    /\ identity' = [identity EXCEPT ![holder[Closure(e)]] = "erased"]
    /\ ExecGoto(e, "stamp")
    /\ UNCHANGED <<vars, closureRow, link, active, held, events, failures, web>>

ExecuteStamp(e) ==
    /\ exec[e].pc = "stamp"
    /\ idStamp' = [idStamp EXCEPT ![Closure(e)] = TRUE]
    /\ ExecGoto(e, "announce")
    /\ UNCHANGED <<vars, status, holder, graceEnds, corr, localDone,
                   closureWaived, link, user, events, failures, web>>

\* local_erasure_done and user.deleted in one transaction.
ExecuteAnnounce(e) ==
    /\ exec[e].pc = "announce"
    /\ localDone' = [localDone EXCEPT ![Closure(e)] = TRUE]
    /\ events' = events \cup {[type |-> "deleted", closure |-> Closure(e)]}
    /\ ExecGoto(e, "finalize")
    /\ UNCHANGED <<vars, status, holder, graceEnds, corr, idStamp,
                   closureWaived, link, user, failures, web>>

\* Mutation: only receipts finalize, the end of the local half does not.
FinalizeNever(e) ==
    /\ exec[e].pc = "finalize"
    /\ ExecReturn(e)
    /\ UNCHANGED <<vars, account, web>>

\* _maybe_finalize on the instance in memory: its state is the one read (or
\* written) by ExecuteRequest. A request created by this call carries the
\* caller's closure instance, which passes the closure guards; a reused one
\* fetches the closure row now.
ExecuteFinalize(e) ==
    /\ exec[e].pc = "finalize" /\ job[e].pc = "idle"
    /\ job' = IF exec[e].open
                THEN [job EXCEPT ![e] = Handling(exec[e].req,
                        IF exec[e].created THEN "judge" ELSE "gate", FALSE)]
                ELSE job
    /\ ExecReturn(e)
    /\ UNCHANGED <<ledger, outside, sweep, account, web>>

\* request_erasure, erase_identity or the last emit raises: the call ends
\* (process_expired_grace_periods logs it) with what is committed so far.
ExecuteFails(e) ==
    /\ exec[e].pc \in {"request", "identity", "announce"}
    /\ failures < MaxFailures
    /\ failures' = failures + 1
    /\ ExecReturn(e)
    /\ UNCHANGED <<vars, closureRow, link, user, events, web>>

ExecuteCrash(e) ==
    /\ Faults /\ exec[e].pc # "idle"
    /\ ExecReturn(e)
    /\ UNCHANGED <<vars, account, web>>

-----------------------------------------------------------------------------
(* _maybe_finalize for a request that executes a closure                   *)

\* Mutation: a DELETING closure is enough.
GateDeleting(w) ==
    /\ job[w].pc = "gate"
    /\ IF status[link[job[w].req]] = "deleting" THEN Goto(w, "judge") ELSE Return(w)
    /\ UNCHANGED <<ledger, outside, sweep, account, web, exec>>

\* The closure row is fetched and must be DELETING with its local half done.
Gate(w) ==
    /\ job[w].pc = "gate"
    /\ LET c == link[job[w].req]
       IN IF status[c] = "deleting" /\ localDone[c] /\ idStamp[c]
            THEN Goto(w, "judge") ELSE Return(w)
    /\ UNCHANGED <<ledger, outside, sweep, account, web, exec>>

\* The last write of _maybe_finalize, after the obligations.
CloseAccount(w) ==
    /\ job[w].pc = "close"
    /\ status'        = [status EXCEPT ![link[job[w].req]] = "deleted"]
    /\ closureWaived' = [closureWaived EXCEPT ![link[job[w].req]] = job[w].waive]
    /\ Return(w)
    /\ UNCHANGED <<ledger, outside, sweep, holder, graceEnds, corr, localDone,
                   idStamp, link, user, events, failures, web, exec>>

-----------------------------------------------------------------------------
(* The steps of Erasure, which leave the account side alone                *)

FinalizeStep(w) ==
    \/ RefreshTo(w, "gate") \/ Judge(w) \/ SaveDeleted(w)
    \/ \E p \in Processors : Oblige(w, p)
    \/ ObligedTo(w, Handling(job[w].req, "close", job[w].waive))

Ledger(step) == step /\ UNCHANGED <<account, web, exec>>

ClosureRedeploy(g) ==
    /\ Redeploy(g)
    /\ web'  = [h \in Handlers |-> IdleWeb]
    /\ exec' = [e \in Executors |-> IdleExec]
    /\ UNCHANGED account

ExecStep(e) ==
    \/ ExecuteCheck(e) \/ ExecuteBegin(e) \/ ExecuteReuse(e) \/ ExecuteRequest(e)
    \/ ExecuteProviders(e) \/ (\E o \in Owners : ExecuteReceipt(e, o))
    \/ ExecuteReceipted(e) \/ ExecuteIdentity(e) \/ ExecuteStamp(e)
    \/ ExecuteAnnounce(e) \/ ExecuteFinalize(e)

CallStepC(w) == Gate(w) \/ CloseAccount(w) \/ Ledger(FinalizeStep(w))

ClosureNext ==
    \/ \E h \in Handlers :
          \/ \E u \in Users : InitiateClosure(h, u) \/ CancelClosure(h, u)
          \/ InitiateCommit(h) \/ CancelCommit(h) \/ WebFails(h)
    \/ \E u \in Users : SetHold(u)
    \/ \E e \in Executors :
          \/ \E c \in Closures : GraceSweep(e, c) \/ ReExecute(e, c)
          \/ ExecStep(e) \/ ExecuteFails(e) \/ ExecuteCrash(e)
    \/ \E w \in Workers : \/ CallStepC(w)
                          \/ Ledger(Crash(w))
    \/ \E w \in Workers \ Executors : Ledger(MarkStep(w))
    \/ \E s \in Sweepers : Ledger(SweepStep(s)) \/ Ledger(SweepCrash(s))
    \/ \E r \in Requests, o \in Owners : Ledger(OwnerConfirms(r, o))
    \/ Ledger(Tick)
    \/ \E g \in Registries : ClosureRedeploy(g)

ClosureSpec == ClosureInit /\ [][ClosureNext]_cvars

\* Calls run on once begun, celery beat starts the sweeps, time passes, and
\* an owner that was asked answers in the end. Nobody must open or cancel a
\* closure, and nothing obliges a call to fail.
ClosureFairness ==
    /\ \A w \in Workers : WF_cvars(CallStepC(w))
    /\ WF_cvars(\E w \in Workers \ Executors : Ledger(MarkStep(w)))
    /\ \A e \in Executors : /\ WF_cvars(ExecStep(e))
                             /\ WF_cvars(\E c \in Closures : GraceSweep(e, c))
                             /\ WF_cvars(\E c \in Closures : ReExecute(e, c))
    /\ \A s \in Sweepers : WF_cvars(Ledger(SweepStep(s)))
    /\ \A r \in Requests, o \in Owners :
          WF_cvars(o \in Asked(r) /\ Ledger(OwnerConfirms(r, o)))
    /\ \A h \in Handlers : WF_cvars(InitiateCommit(h) \/ CancelCommit(h))
    /\ WF_cvars(Ledger(Tick))

FairClosureSpec == ClosureSpec /\ ClosureFairness

-----------------------------------------------------------------------------
(* Properties                                                              *)

\* "DELETED" on a closure is a certificate: the person's row is erased, the
\* local providers all ran, and some erasure request of this closure was
\* completed against every receipt - or says that it was waived.
ClosedMeansErased ==
    \A c \in Closures : status[c] = "deleted" =>
        /\ localDone[c] /\ idStamp[c]
        /\ identity[holder[c]] = "erased"
        /\ \E r \in Requests :
              /\ link[r] = c /\ completed[r]
              /\ closureWaived[c] \/ FullyReceipted(r)

\* Nothing of a person is erased inside the grace period: no request is
\* opened for a closure, and no identity erased, before its grace has ended,
\* however the cancel, the sweep and the clock interleave.
NothingErasedInGrace ==
    /\ \A r \in Requests : link[r] # NoClosure =>
          graceEnds[link[r]] <= now /\ status[link[r]] # "grace"
    /\ \A u \in Users : identity[u] = "erased" =>
          \E c \in Closures : holder[c] = u /\ graceEnds[c] <= now /\ corr[c] # NoReq

\* user.deleted tells remote services that the local half is over: by then
\* the identity is erased and a request that names the owners is out.
AnnouncedAfterErasure ==
    \A c \in Closures : [type |-> "deleted", closure |-> c] \in events =>
        /\ identity[holder[c]] = "erased" /\ localDone[c] /\ idStamp[c]
        /\ \E r \in Requests : link[r] = c /\ Exists(r)

\* An erased account is refused by the guard, unless its owner was told that
\* a closure was cancelled.
ErasedIsRefused ==
    \A u \in Users : identity[u] = "erased" =>
        \/ AccessDenied(u)
        \/ \E c \in Closures : holder[c] = u /\
              [type |-> "cancelled", closure |-> c] \in events

\* The local half and the receipts may finish in either order, and whoever is
\* last finalizes: a closure whose grace is over ends DELETED, unless it was
\* cancelled or an owner's deadline ran out.
GraceEndsInErasure ==
    \A c \in Closures :
       (status[c] = "grace" /\ graceEnds[c] <= now) ~>
          (\/ status[c] \in {"deleted", "cancelled"}
           \/ \E r \in Requests : link[r] = c /\ state[r] = "timeout")

\* "Left in DELETING for retry": an erasure that began is carried to the end
\* of its request, however often a provider, the identity or an emit failed.
DeletingIsRetried ==
    \A c \in Closures :
       (status[c] = "deleting") ~>
          (\/ status[c] \in {"deleted", "cancelled"}
           \/ \E r \in Requests : link[r] = c /\ state[r] \in {"deleted", "timeout"})

\* "The orchestrator guards against concurrent active closures."
OneActiveClosure ==
    \A u \in Users : Cardinality(Of(u, {"grace", "deleting"})) <= 1

\* A closure is cancelled only from inside its grace period.
CancelledOnlyInGrace ==
    [][\A c \in Closures : status'[c] = "cancelled" /\ status[c] # "cancelled"
          => status[c] = "grace"]_status

\* While a legal hold stands a closure in GRACE stays there or is cancelled.
HoldKeepsGrace ==
    [][\A c \in Closures : status[c] = "grace" /\ held[holder[c]]
          => status'[c] \in {"grace", "cancelled"}]_status
=============================================================================
