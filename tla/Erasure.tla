------------------------------- MODULE Erasure -------------------------------
(***************************************************************************)
(* The receipts ledger of stapel-gdpr: ErasureRequest and ErasurePart rows *)
(* and every piece of orchestrator.py that writes them outside an account  *)
(* closure (module Closure adds that):                                     *)
(*                                                                         *)
(*   request_erasure          opens a request, one part per claiming owner *)
(*   mark_section_erased      an owner's receipt, then _maybe_finalize     *)
(*   sweep_deletion_deadlines silence becomes TIMEOUT                      *)
(*   gdpr_requeue_after_restore                                            *)
(*                                                                         *)
(* The database runs in autocommit, so one action here is one statement    *)
(* (or one mutate_and_emit() transaction) and what a process read in an    *)
(* earlier step is kept, possibly stale, in its job or sweep record.       *)
(***************************************************************************)
EXTENDS Naturals, FiniteSets

CONSTANTS
    Owners,        \* declared data owners
    Requests,      \* primary keys available to ErasureRequest rows
    Keys,          \* idempotency keys callers may send
    Subjects,      \* STAPEL_GDPR["SUBJECT_TYPES"]
    Registries,    \* the inventories the deployment may run with
    Processors,    \* STAPEL_GDPR["SUBPROCESSORS"]
    Timeout,       \* owner -> time it has to answer
    MaxNow,        \* bound: the last instant of the clock
    Workers,       \* bus consumers, web processes and operator commands
    Sweepers,      \* celery workers running sweep_deletion_deadlines
    AllowErasureWithoutReceipts,
    Faults,        \* TRUE: processes crash, emits fail, the service redeploys
    NoReq, NoKey, NoSubject

\* An inventory: who claims which subject, which owners are declared local,
\* and which providers this process has registered.
Registry == [claims : [Subjects -> SUBSET Owners], local : SUBSET Owners,
             registered : SUBSET Owners]

\* RegistryReport, as data_owner_report() computes it.
Declared(g)   == UNION {g.claims[s] : s \in Subjects}
Missing(g)    == g.local \ g.registered
Undeclared(g) == g.registered \ Declared(g)
Problems(g)   == Declared(g) = {} \/ Missing(g) # {} \/ Undeclared(g) # {}
OwnersFor(g, s) == g.claims[s]

ASSUME ConstantsAssumption ==
    /\ Registries \subseteq Registry
    /\ Timeout \in [Owners -> Nat \ {0}]
    /\ MaxNow \in Nat
    /\ AllowErasureWithoutReceipts \in BOOLEAN
    /\ Faults \in BOOLEAN
    /\ NoReq \notin Requests
    /\ NoKey \notin Keys
    /\ NoSubject \notin Subjects

VARIABLES
    state,      \* ErasureRequest.state, "absent" while there is no row
    subject,    \* ErasureRequest.subject_type
    key,        \* ErasureRequest.idempotency_key
    source,     \* ErasureRequest.source_request (restore re-queues only)
    completed,  \* ErasureRequest.completed_at is set
    waived,     \* ErasureRequest.completeness_waived
    part,       \* ErasurePart.state per owner, "absent" without a row
    deadline,   \* ErasurePart.deadline
    obliged,    \* SubprocessorObligation rows per request
    outbox,     \* actions committed with the rows they announce
    confirmed,  \* gdpr.section.erased actions owners have sent
    registry,   \* what data_owner_report() answers in this deployment
    now,
    job,        \* one request_erasure / mark_section_erased call per worker
    sweep       \* one sweep_deletion_deadlines call per sweeper

rows    == <<state, subject, key, source, completed, waived>>
parts   == <<part, deadline>>
ledger  == <<rows, parts, obliged, outbox>>
outside == <<confirmed, registry, now>>
vars    == <<ledger, outside, job, sweep>>

ReqState  == {"absent", "queued", "erasing", "deleted", "timeout"}
\* Mutation: the state guard forgets ERASING.
OpenQueued == {"queued"}
\* The states _maybe_finalize still acts on.
Open      == {"queued", "erasing"}
PartState == {"absent", "pending", "done", "failed", "timeout"}
Message   == [type : {"requested", "timeout"}, req : Requests,
              owners : SUBSET Owners]
Job       == [pc : {"idle", "insert", "refresh", "gate", "judge", "save",
                    "oblige", "close"},
              req : Requests \cup {NoReq}, subject : Subjects \cup {NoSubject},
              key : Keys \cup {NoKey}, source : Requests \cup {NoReq},
              waive : BOOLEAN]
SweepCall == [pc : {"idle", "update", "select", "flip"}, cut : Nat,
              affected : SUBSET (Requests \X Owners), todo : SUBSET Requests]

\* The locals of a call at pc: about to insert a row, or busy with request r.
Inserting(s, k, src)  == [pc |-> "insert", req |-> NoReq, subject |-> s,
                          key |-> k, source |-> src, waive |-> FALSE]
Handling(r, pc, waive) == [pc |-> pc, req |-> r, subject |-> NoSubject,
                          key |-> NoKey, source |-> NoReq, waive |-> waive]
Sweeping(pc, cut, affected, todo) ==
    [pc |-> pc, cut |-> cut, affected |-> affected, todo |-> todo]

IdleJob   == Handling(NoReq, "idle", FALSE)
IdleSweep == Sweeping("idle", 0, {}, {})

TypeOK ==
    /\ state     \in [Requests -> ReqState]
    /\ subject   \in [Requests -> Subjects \cup {NoSubject}]
    /\ key       \in [Requests -> Keys \cup {NoKey}]
    /\ source    \in [Requests -> Requests \cup {NoReq}]
    /\ completed \in [Requests -> BOOLEAN]
    /\ waived    \in [Requests -> BOOLEAN]
    /\ part      \in [Requests -> [Owners -> PartState]]
    /\ deadline  \in [Requests -> [Owners -> Nat]]
    /\ obliged   \in [Requests -> SUBSET Processors]
    /\ outbox    \subseteq Message
    /\ confirmed \subseteq Requests \X Owners
    /\ registry  \in Registries
    /\ now       \in Nat
    /\ job       \in [Workers -> Job]
    /\ sweep     \in [Sweepers -> SweepCall]

Init ==
    /\ state     = [r \in Requests |-> "absent"]
    /\ subject   = [r \in Requests |-> NoSubject]
    /\ key       = [r \in Requests |-> NoKey]
    /\ source    = [r \in Requests |-> NoReq]
    /\ completed = [r \in Requests |-> FALSE]
    /\ waived    = [r \in Requests |-> FALSE]
    /\ part      = [r \in Requests |-> [o \in Owners |-> "absent"]]
    /\ deadline  = [r \in Requests |-> [o \in Owners |-> 0]]
    /\ obliged   = [r \in Requests |-> {}]
    /\ outbox    = {}
    /\ confirmed = {}
    /\ registry  \in Registries
    /\ now       = 0
    /\ job       = [w \in Workers |-> IdleJob]
    /\ sweep     = [s \in Sweepers |-> IdleSweep]

-----------------------------------------------------------------------------
(* What the code reads off the rows.                                       *)

Exists(r) == state[r] # "absent"
Asked(r)  == {o \in Owners : part[r][o] # "absent"}
Receipts(r) == {o \in Owners : part[r][o] = "done"}

\* Mutation: only silence blocks, a timed out part is forgotten.
UnreceiptedPending(r) == {o \in Owners : part[r][o] = "pending"}

\* ErasureRequest.unreceipted_owners: every part that is not DONE.
Unreceipted(r) == Asked(r) \ Receipts(r)

\* ErasureRequest.outcome: the word a status page may use.
Outcome(r) ==
    IF state[r] = "absent" THEN "none"
    ELSE IF state[r] = "timeout" THEN "incomplete"
    ELSE IF state[r] # "deleted" THEN "pending"
    ELSE IF waived[r] \/ Unreceipted(r) # {} THEN "incomplete" ELSE "complete"

\* Mutation: the registry is judged, the receipts are not.
BlockedByRegistry(r) == \/ Problems(registry)
                        \/ OwnersFor(registry, subject[r]) = {}

\* The blockers _maybe_finalize collects.
Blocked(r) == \/ Problems(registry)
              \/ OwnersFor(registry, subject[r]) = {}
              \/ Unreceipted(r) # {}

-----------------------------------------------------------------------------
(* request_erasure                                                         *)

Become(w, j) == job' = [job EXCEPT ![w] = j]
Goto(w, pc)  == Become(w, Handling(job[w].req, pc, job[w].waive))
Return(w)    == Become(w, IdleJob)

\* Bound: a call begins only while there is a primary key left for its row.
RowsLeft == Cardinality({r \in Requests : ~Exists(r)}) >
            Cardinality({w \in Workers : job[w].pc = "insert"})

\* The pre-check on the key. A key that is already there returns the existing
\* request and changes nothing.
RequestErasure(w, s, k) ==
    /\ RowsLeft
    /\ k # NoKey => \A r \in Requests : key[r] # k
    /\ job[w].pc = "idle"
    /\ Become(w, Inserting(s, k, NoReq))
    /\ UNCHANGED <<ledger, outside, sweep>>

\* gdpr_requeue_after_restore: a completed request no re-queue points at yet
\* is cloned, without the closure and without the key.
RequeueAfterRestore(w, r) ==
    /\ state[r] = "deleted" /\ completed[r]
    /\ \A q \in Requests : source[q] # r
    /\ RowsLeft
    /\ job[w].pc = "idle"
    /\ Become(w, Inserting(subject[r], NoKey, r))
    /\ UNCHANGED <<ledger, outside, sweep>>

\* Mutation: the constraint on the key is missing.
UniqueSource(j) == \E r \in Requests : j.source # NoReq /\ source[r] = j.source

\* The two partial unique constraints of ErasureRequest.Meta.
UniqueViolation(j) ==
    \E r \in Requests : \/ j.key # NoKey /\ key[r] = j.key
                        \/ j.source # NoReq /\ source[r] = j.source

DueAt(o) == now + Timeout[o]

\* The row and its parts, written by one transaction with the announcement.
InsertRow(r, s, k, src) ==
    /\ ~Exists(r)
    /\ state'    = [state    EXCEPT ![r] = "erasing"]
    /\ subject'  = [subject  EXCEPT ![r] = s]
    /\ key'      = [key      EXCEPT ![r] = k]
    /\ source'   = [source   EXCEPT ![r] = src]
    /\ part'     = [part     EXCEPT ![r] =
           [o \in Owners |-> IF o \in OwnersFor(registry, s) THEN "pending"
                                                          ELSE "absent"]]
    /\ deadline' = [deadline EXCEPT ![r] = [o \in Owners |-> DueAt(o)]]
    /\ outbox'   = outbox \cup {[type |-> "requested", req |-> r,
                                 owners |-> {}]}
    /\ UNCHANGED <<completed, waived, obliged>>

RequestErasureInsert(w) ==
    /\ job[w].pc = "insert"
    /\ ~UniqueViolation(job[w])
    /\ \E r \in Requests :
          InsertRow(r, job[w].subject, job[w].key, job[w].source)
    /\ Return(w)
    /\ UNCHANGED <<outside, sweep>>

\* IntegrityError: the transaction rolls back and the winner of the race is
\* returned (same key), or the command counts the source as skipped.
RequestErasureLost(w) ==
    /\ job[w].pc = "insert"
    /\ UniqueViolation(job[w])
    /\ Return(w)
    /\ UNCHANGED <<ledger, outside, sweep>>

-----------------------------------------------------------------------------
(* mark_section_erased and _maybe_finalize                                 *)

\* An owner erases its slice and says so. It knows the correlation id from
\* the announcement; nothing says it was asked (external: the owners).
OwnerConfirms(r, o) ==
    /\ \E m \in outbox : m.type = "requested" /\ m.req = r
    /\ confirmed' = confirmed \cup {<<r, o>>}
    /\ UNCHANGED <<ledger, registry, now, job, sweep>>

\* The conditional update of the part. Deliveries repeat: a receipt that is
\* already there, or an owner without a part, updates nothing and returns.
MarkSectionErased(w, r, o) ==
    /\ job[w].pc = "idle"
    /\ <<r, o>> \in confirmed
    /\ part[r][o] \notin {"absent", "done"}
    /\ part' = [part EXCEPT ![r][o] = "done"]
    /\ Become(w, Handling(r, "refresh", FALSE))
    /\ UNCHANGED <<rows, deadline, obliged, outbox, outside, sweep>>

\* request.refresh_from_db() and the state guard of _maybe_finalize. What the
\* caller does next depends on request.closure (see module Closure).
RefreshTo(w, next) ==
    /\ job[w].pc = "refresh"
    /\ IF state[job[w].req] \in Open THEN Goto(w, next) ELSE Return(w)
    /\ UNCHANGED <<ledger, outside, sweep>>

Refresh(w) == RefreshTo(w, "judge")

\* The registry and the parts are read; blockers end the call unless the
\* hatch is open, and then the completion is a waived one.
Judge(w) ==
    /\ job[w].pc = "judge"
    /\ LET blocked == Blocked(job[w].req)
       IN IF blocked /\ ~AllowErasureWithoutReceipts
            THEN Return(w)
            ELSE Become(w, Handling(job[w].req, "save", blocked))
    /\ UNCHANGED <<ledger, outside, sweep>>

\* The save names its columns and does not look at the state again.
SaveDeleted(w) ==
    /\ job[w].pc = "save"
    /\ state'     = [state     EXCEPT ![job[w].req] = "deleted"]
    /\ completed' = [completed EXCEPT ![job[w].req] = TRUE]
    /\ waived'    = [waived    EXCEPT ![job[w].req] = job[w].waive]
    /\ Goto(w, "oblige")
    /\ UNCHANGED <<subject, key, source, parts, obliged, outbox, outside, sweep>>

\* record_subprocessor_obligations: get_or_create, one processor at a time.
Oblige(w, p) ==
    /\ job[w].pc = "oblige"
    /\ p \notin obliged[job[w].req]
    /\ obliged' = [obliged EXCEPT ![job[w].req] = @ \cup {p}]
    /\ UNCHANGED <<rows, parts, outbox, outside, job, sweep>>

\* Mutation: the loop over the processors stops after the first pass.
ObligedEarly(w, next) ==
    /\ job[w].pc = "oblige"
    /\ Become(w, next)
    /\ UNCHANGED <<ledger, outside, sweep>>

ObligedTo(w, next) ==
    /\ job[w].pc = "oblige"
    /\ obliged[job[w].req] = Processors
    /\ Become(w, next)
    /\ UNCHANGED <<ledger, outside, sweep>>

Obliged(w) == ObligedTo(w, IdleJob)

-----------------------------------------------------------------------------
(* sweep_deletion_deadlines                                                *)

\* Mutations: the deadline, the state, or the direction of the comparison is
\* lost from the filter.
OverdueNoDeadline(cut) == {ro \in Requests \X Owners :
                             part[ro[1]][ro[2]] = "pending"}
OverdueNoState(cut) == {ro \in Requests \X Owners :
                          /\ part[ro[1]][ro[2]] # "absent"
                          /\ deadline[ro[1]][ro[2]] <= cut}
OverdueFlipped(cut) == {ro \in Requests \X Owners :
                          /\ part[ro[1]][ro[2]] = "pending"
                          /\ deadline[ro[1]][ro[2]] > cut}

\* The queryset of parts still PENDING at or past their deadline.
Overdue(cut) == {ro \in Requests \X Owners :
                    /\ part[ro[1]][ro[2]] = "pending"
                    /\ deadline[ro[1]][ro[2]] <= cut}

\* The list of overdue parts. With nothing overdue the sweep returns 0.
SweepRead(s) ==
    /\ sweep[s].pc = "idle"
    /\ Overdue(now) # {}
    /\ sweep' = [sweep EXCEPT ![s] = Sweeping("update", now, Overdue(now), {})]
    /\ UNCHANGED <<ledger, outside, job>>

\* The same filter again, as an UPDATE: a part answered since is left alone,
\* and a count of zero ends the sweep.
SweepUpdate(s) ==
    /\ sweep[s].pc = "update"
    /\ LET hit == Overdue(sweep[s].cut)
       IN /\ part' = [r \in Requests |-> [o \in Owners |->
                        IF <<r, o>> \in hit THEN "timeout" ELSE part[r][o]]]
          /\ sweep' = [sweep EXCEPT ![s] =
                IF hit = {} THEN IdleSweep
                  ELSE Sweeping("select", sweep[s].cut, sweep[s].affected, {})]
    /\ UNCHANGED <<rows, deadline, obliged, outbox, outside, job>>

\* One SELECT fetches the requests to flip, from the list read first.
SweepSelect(s) ==
    /\ sweep[s].pc = "select"
    /\ LET todo == {r \in Requests :
                      /\ \E o \in Owners : <<r, o>> \in sweep[s].affected
                      /\ state[r] \notin {"deleted", "timeout"}}
       IN sweep' = [sweep EXCEPT ![s] =
             IF todo = {} THEN IdleSweep
               ELSE Sweeping("flip", sweep[s].cut, sweep[s].affected, todo)]
    /\ UNCHANGED <<ledger, outside, job>>

\* One transaction per request: TIMEOUT and gdpr.erasure.timeout together.
SweepFlip(s, r) ==
    /\ sweep[s].pc = "flip" /\ r \in sweep[s].todo
    /\ state'  = [state EXCEPT ![r] = "timeout"]
    /\ outbox' = outbox \cup
         {[type |-> "timeout", req |-> r,
           owners |-> {o \in Owners : <<r, o>> \in sweep[s].affected}]}
    /\ sweep' = [sweep EXCEPT ![s] =
         IF sweep[s].todo = {r} THEN IdleSweep
           ELSE Sweeping("flip", sweep[s].cut, sweep[s].affected,
                         sweep[s].todo \ {r})]
    /\ UNCHANGED <<subject, key, source, completed, waived, parts, obliged,
                   outside, job>>

-----------------------------------------------------------------------------
(* The environment                                                         *)

Tick == /\ now < MaxNow
        /\ now' = now + 1
        /\ UNCHANGED <<ledger, confirmed, registry, job, sweep>>

\* A process dies, or an emit raises and the call is abandoned: what its
\* transactions committed stays.
Crash(w) == /\ Faults /\ job[w].pc # "idle"
            /\ Return(w)
            /\ UNCHANGED <<ledger, outside, sweep>>

SweepCrash(s) == /\ Faults /\ sweep[s].pc # "idle"
                 /\ sweep' = [sweep EXCEPT ![s] = IdleSweep]
                 /\ UNCHANGED <<ledger, outside, job>>

\* A release with another inventory replaces every process.
Redeploy(g) == /\ Faults /\ g # registry
               /\ registry' = g
               /\ job'   = [w \in Workers |-> IdleJob]
               /\ sweep' = [s \in Sweepers |-> IdleSweep]
               /\ UNCHANGED <<ledger, confirmed, now>>

OpenerStep(w) == \/ \E s \in Subjects, k \in Keys \cup {NoKey} :
                       RequestErasure(w, s, k)
                 \/ \E r \in Requests : RequeueAfterRestore(w, r)

\* The steps a call takes once it has begun.
CallStep(w) == \/ RequestErasureInsert(w) \/ RequestErasureLost(w)
               \/ Judge(w) \/ SaveDeleted(w)
               \/ \E p \in Processors : Oblige(w, p)

MarkStep(w) == \E r \in Requests, o \in Owners : MarkSectionErased(w, r, o)

SweepStep(s) == \/ SweepRead(s) \/ SweepUpdate(s) \/ SweepSelect(s)
                \/ \E r \in Requests : SweepFlip(s, r)

Next ==
    \/ \E w \in Workers : \/ OpenerStep(w) \/ CallStep(w) \/ MarkStep(w)
                          \/ Refresh(w) \/ Obliged(w) \/ Crash(w)
    \/ \E s \in Sweepers : SweepStep(s) \/ SweepCrash(s)
    \/ \E r \in Requests, o \in Owners : OwnerConfirms(r, o)
    \/ Tick
    \/ \E g \in Registries : Redeploy(g)

Spec == Init /\ [][Next]_vars

\* A handler that has begun runs on, the bus redelivers a confirmation until
\* some worker takes it, and celery beat keeps starting the sweep.
Fairness ==
    /\ \A w \in Workers : WF_vars(CallStep(w) \/ Refresh(w) \/ Obliged(w))
    /\ WF_vars(\E w \in Workers : MarkStep(w))
    /\ \A s \in Sweepers : WF_vars(SweepStep(s))
    /\ WF_vars(Tick)

FairSpec == Spec /\ Fairness

-----------------------------------------------------------------------------
(* Properties                                                              *)

\* Every owner that was asked has confirmed, and somebody was asked.
FullyReceipted(r) ==
    /\ \E o \in Owners : part[r][o] = "done"
    /\ \A o \in Owners : part[r][o] # "absent" =>
          part[r][o] = "done" /\ <<r, o>> \in confirmed

\* _maybe_finalize flips a request to DELETED "only against a full set of
\* receipts": whatever the interleaving of receipts, sweeps, crashes and
\* releases, an unwaived DELETED row means every owner asked for this request
\* sent its own confirmation, and at least one owner was asked.
CertifiedByReceipts ==
    \A r \in Requests : state[r] = "deleted" /\ ~waived[r] => FullyReceipted(r)

\* A repeat of an idempotency key never mints a second request, also when two
\* deliveries both pass the pre-check of request_erasure; and a restore
\* re-queues a completed request at most once per source.
NoDuplicateRequests ==
    \A q, r \in Requests : q # r /\ Exists(q) /\ Exists(r) =>
        /\ key[q] = key[r] => key[q] = NoKey
        /\ source[q] = source[r] => source[q] = NoReq
        /\ source[q] = r => completed[r]

\* sweep_deletion_deadlines never accuses the innocent: every owner that
\* gdpr.erasure.timeout names was asked for that request and its deadline had
\* passed, and a TIMEOUT row always has such an announcement.
TimeoutsAnnounced ==
    /\ \A m \in outbox : m.type = "timeout" => \A o \in m.owners :
          part[m.req][o] \in {"timeout", "done"} /\ deadline[m.req][o] <= now
    /\ \A r \in Requests : state[r] = "timeout" =>
          \E m \in outbox : m.type = "timeout" /\ m.req = r /\ m.owners # {}

\* A receipt is durable: no sweep, retry or late delivery takes DONE back.
ReceiptsDurable ==
    [][\A r \in Requests, o \in Owners :
          part[r][o] = "done" => part'[r][o] = "done"]_part

\* Once every receipt is in against a sound inventory the request does not
\* hang in ERASING: some handler sees the last receipt and settles it.
ReceiptsSettle ==
    \A r \in Requests :
       (Exists(r) /\ FullyReceipted(r) /\ ~Problems(registry))
          ~> (state[r] \in {"deleted", "timeout"})

\* Silence becomes a state: a part left pending past its deadline ends with
\* its receipt or with the request flipped and announced.
SilenceSettles ==
    \A r \in Requests, o \in Owners :
       (part[r][o] = "pending" /\ deadline[r][o] <= now)
          ~> (part[r][o] = "done" \/ state[r] \in {"deleted", "timeout"})

\* A completed erasure has told every processor, in the end.
CompletionObliges ==
    \A r \in Requests : completed[r] ~> (obliged[r] = Processors)

\* QUEUED -> ERASING -> DELETED | TIMEOUT: DELETED is a final state.
DeletedIsFinal ==
    [][\A r \in Requests : state[r] = "deleted" => state'[r] = "deleted"]_state

\* The refinement mapping: the rows, read the way ErasureRequest publishes
\* them, behave like a certificate.
Promise == INSTANCE Certificate
           WITH asked    <- [r \in Requests |-> Asked(r)],
                receipts <- [r \in Requests |-> Receipts(r)],
                verdict  <- [r \in Requests |-> Outcome(r)]

\* Every step of the orchestrator is a step of the abstract certificate or
\* leaves it alone: in particular the outcome reads "complete" only with all
\* receipts in, and no receipt is withdrawn or accepted from an owner that
\* was not asked.
ImplementsCertificate == Promise!Spec
=============================================================================
