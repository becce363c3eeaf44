-------------------------------- MODULE Door --------------------------------
(***************************************************************************)
(* The doors of one account: who may close it, who may still cancel, and   *)
(* what the clock does when nobody comes.                                  *)
(*                                                                         *)
(*   POST account/close           permission, budget, initiate_closure     *)
(*   POST account/cancel-close    a closure token or a session             *)
(*   check_inactive_accounts      warnings, then a closure nobody asked for *)
(*   process_expired_grace_periods and the erasure it starts, which module *)
(*                                Closure has in detail                    *)
(*                                                                         *)
(* The inactivity task is due once a day and runs when a worker gets to it; *)
(* its warning windows are half a day to either side. Calls and tasks take *)
(* less than the unit of time.                                             *)
(***************************************************************************)
EXTENDS Integers, FiniteSets, Sequences

CONSTANTS
    MaxClosures,    \* bound: rows of AccountClosureRequest
    Calls,          \* HTTP requests that may be in flight together
    GraceLength,    \* 30 days
    Limit, Window,  \* INTAKE_RATE_LIMIT_PER_HOUR and WINDOW_SECONDS
    InactiveAfter,  \* 365 days
    WarnBefore,     \* {60, 14} days
    HalfDay,        \* 12 hours
    MaxLate,        \* how late a worker may get to the task
    AdmitsInactive, \* the host's login admits deactivated users
    MaxFailures,    \* bound: letters, cache reads and beats that fail
    MaxNow          \* bound: the clock

ASSUME DoorAssumption ==
    /\ MaxClosures \in Nat /\ GraceLength \in Nat /\ MaxFailures \in Nat
    /\ Limit \in Nat /\ Window \in Nat \ {0} /\ InactiveAfter \in Nat /\ MaxNow \in Nat
    /\ WarnBefore \subseteq 1..InactiveAfter
    /\ HalfDay \in Nat \ {0} /\ MaxLate \in Nat
    /\ AdmitsInactive \in BOOLEAN

\* Primary keys. Rows get them in the order of initiated_at.
Closures  == 1..MaxClosures
NoClosure == 0
Day       == 2 * HalfDay

VARIABLES
    status,     \* AccountClosureRequest.status, "absent" without a row
    graceEnds,  \* AccountClosureRequest.grace_ends_at
    trigger,    \* AccountClosureRequest.trigger
    active,     \* User.is_active
    lastLogin,  \* User.last_login
    erased,     \* the primary user row is erased
    held,       \* an unreleased LegalHold exists
    session,    \* the person has a live session
    tokens,     \* closures whose token the person was handed
    budget,     \* the cache entry of the account_close scope
    call,       \* one HTTP request each
    task,       \* check_inactive_accounts: where it is
    sweep,      \* process_expired_grace_periods: where it is, on which closure
    nextBeat,   \* the first beat of the task that no worker has taken yet
    now,
    failures,
    warned,     \* history: warnings sent since the last login
    looked,     \* history: warnings in whose window the task ran since then
    admitted,   \* history: when the last slots in the entry were spent
    spared,     \* history: closures cancelled before their grace ended
    doubled,    \* history: two closures were pending together
    strayed     \* history: a token cancelled another closure than its own

rows    == <<status, graceEnds, trigger>>
person  == <<active, lastLogin, erased, held, session, tokens>>
clocks  == <<nextBeat, now>>
history == <<warned, looked, admitted, spared, doubled, strayed>>
vars    == <<rows, person, budget, call, task, sweep, clocks, failures, history>>

Call  == [pc : {"idle", "spend", "set", "check", "create", "cancel", "save"},
          token : Closures \cup {NoClosure}, closure : Closures \cup {NoClosure},
          count : Nat]
Sweep == [pc : {"idle", "begin", "erase"}, closure : Closures \cup {NoClosure}]

IdleCall  == [pc |-> "idle", token |-> NoClosure, closure |-> NoClosure, count |-> 0]
NoBudget  == [count |-> 0, until |-> 0]
IdleSweep == [pc |-> "idle", closure |-> NoClosure]

DoorTypeOK ==
    /\ status    \in [Closures -> {"absent", "grace", "deleting", "cancelled", "deleted"}]
    /\ graceEnds \in [Closures -> Nat]
    /\ trigger   \in [Closures -> {"manual", "inactivity"}]
    /\ active \in BOOLEAN /\ erased \in BOOLEAN /\ held \in BOOLEAN
    /\ session \in BOOLEAN /\ doubled \in BOOLEAN /\ strayed \in BOOLEAN
    /\ lastLogin \in 0..now /\ now \in 0..MaxNow
    /\ nextBeat \in Nat /\ nextBeat <= now + Day /\ now <= nextBeat + MaxLate
    /\ tokens \subseteq Closures /\ spared \subseteq Closures
    /\ budget \in [count : 0..Limit, until : Nat]
    /\ call \in [Calls -> Call]
    /\ task \in {"idle", "check", "create", "warn"}
    /\ sweep \in Sweep
    /\ failures \in 0..MaxFailures
    /\ warned \subseteq WarnBefore /\ looked \subseteq WarnBefore
    /\ admitted \in Seq(Nat) /\ Len(admitted) <= Limit

Init ==
    /\ status    = [c \in Closures |-> "absent"]
    /\ graceEnds = [c \in Closures |-> 0]
    /\ trigger   = [c \in Closures |-> "manual"]
    /\ active = TRUE /\ lastLogin = 0 /\ erased = FALSE /\ held = FALSE
    /\ session = TRUE /\ tokens = {}
    /\ budget = NoBudget
    /\ call = [k \in Calls |-> IdleCall]
    /\ task = "idle" /\ sweep = IdleSweep
    /\ nextBeat \in 1..Day /\ now = 0
    /\ failures = 0
    /\ warned = {} /\ looked = {} /\ admitted = <<>> /\ spared = {}
    /\ doubled = FALSE /\ strayed = FALSE

-----------------------------------------------------------------------------

Rows(statuses) == {c \in Closures : status[c] \in statuses}
Pending        == Rows({"grace", "deleting"})

\* lifecycle.is_access_denied, which AccountNotClosed, the middleware and
\* _closure_subject ask.
AccessDenied == Rows({"deleting", "deleted"}) # {}

Fails == failures < MaxFailures /\ failures' = failures + 1

Goto(k, pc) == call' = [call EXCEPT ![k].pc = pc]
Answer(k)   == call' = [call EXCEPT ![k] = IdleCall]

-----------------------------------------------------------------------------
(* POST account/close                                                      *)

\* IsAuthenticated and AccountNotClosed, before the handler.
CloseAccount(k) ==
    /\ call[k].pc = "idle"
    /\ session /\ ~AccessDenied
    /\ Goto(k, IF Limit = 0 THEN "check" ELSE "spend")
    /\ UNCHANGED <<rows, person, budget, task, sweep, clocks, failures, history>>

\* throttling.spend reads the counter ...
Spend(k) ==
    /\ call[k].pc = "spend" /\ budget.count < Limit
    /\ call' = [call EXCEPT ![k].pc = "set", ![k].count = budget.count]
    /\ UNCHANGED <<rows, person, budget, task, sweep, clocks, failures, history>>

\* Mutation: a refused caller starts the hour again.
RefuseExtends(k) ==
    /\ call[k].pc = "spend" /\ budget.count >= Limit
    /\ Answer(k)
    /\ budget' = [budget EXCEPT !.until = now + Window]
    /\ UNCHANGED <<rows, person, task, sweep, clocks, failures, history>>

\* ... answers 429 when it is used up ...
Refuse(k) ==
    /\ call[k].pc = "spend" /\ budget.count >= Limit
    /\ Answer(k)
    /\ UNCHANGED <<rows, person, budget, task, sweep, clocks, failures, history>>

\* ... and writes it back, with the whole window ahead of it.
SpendSet(k) ==
    /\ call[k].pc = "set"
    /\ budget' = [count |-> call[k].count + 1, until |-> now + Window]
    /\ admitted' = LET all == Append(admitted, now)
                   IN  IF Len(all) > Limit THEN Tail(all) ELSE all
    /\ Goto(k, "check")
    /\ UNCHANGED <<rows, person, task, sweep, clocks, failures, warned, looked, spared,
                   doubled, strayed>>

\* The cache is down: the caller is let in.
SpendUnavailable(k) ==
    /\ call[k].pc \in {"spend", "set"} /\ Fails
    /\ Goto(k, "check")
    /\ UNCHANGED <<rows, person, budget, task, sweep, clocks, history>>

\* The checks of initiate_closure, for the view and for the task. Bound: no
\* call begins to close without a primary key for its row.
Closable == /\ ~held /\ Pending = {}
            /\ Cardinality(Rows({"absent"})) > Cardinality({k \in Calls : call[k].pc = "create"})
                                               + (IF task = "create" THEN 1 ELSE 0)

\* One transaction: row, deactivation, revocation of the sessions.
OpenClosure(c, why) ==
    /\ status[c] = "absent" /\ \A d \in Closures : d < c => status[d] # "absent"
    /\ status'    = [status    EXCEPT ![c] = "grace"]
    /\ graceEnds' = [graceEnds EXCEPT ![c] = now + GraceLength]
    /\ trigger'   = [trigger   EXCEPT ![c] = why]
    /\ active' = FALSE /\ session' = FALSE
    /\ doubled' = (doubled \/ Pending # {})

InitiateCheck(k) ==
    /\ call[k].pc = "check"
    /\ IF Closable THEN Goto(k, "create") ELSE Answer(k)
    /\ UNCHANGED <<rows, person, budget, task, sweep, clocks, failures, history>>

\* Signed for this closure and the end of its grace; the 202 carries it, this once.
MakeClosureToken(c) == tokens' = tokens \cup {c}

InitiateCommit(k) ==
    /\ call[k].pc = "create"
    /\ \E c \in Closures : OpenClosure(c, "manual") /\ MakeClosureToken(c)
    /\ Answer(k)
    /\ UNCHANGED <<lastLogin, erased, held, budget, task, sweep, clocks, failures,
                   warned, looked, admitted, spared, strayed>>

-----------------------------------------------------------------------------
(* POST account/cancel-close                                               *)

\* read_closure_token: the token is good to the end of the grace it was signed for.
Unexpired(c) == now <= graceEnds[c]

\* Mutation: the oldest closure is taken for the newest.
Oldest(c) == \A d \in Closures : d < c => status[d] = "absent"

\* The newest closure of the person, by (-initiated_at, -pk).
Newest(c) == \A d \in Closures : d > c => status[d] = "absent"

\* _closure_from_token: what the status and the cancel endpoint accept.
TokenAccepted(c) == Unexpired(c) /\ Newest(c)

CancelWithToken(k, c) ==
    /\ call[k].pc = "idle"
    /\ c \in tokens /\ TokenAccepted(c)
    /\ call' = [call EXCEPT ![k].pc = "cancel", ![k].token = c]
    /\ UNCHANGED <<rows, person, budget, task, sweep, clocks, failures, history>>

\* _closure_subject
CancelWithSession(k) ==
    /\ call[k].pc = "idle"
    /\ session /\ ~AccessDenied
    /\ Goto(k, "cancel")
    /\ UNCHANGED <<rows, person, budget, task, sweep, clocks, failures, history>>

\* cancel_closure reads the first closure of the person in GRACE, whatever the
\* token named, or answers 404 ...
CancelRead(k) ==
    /\ call[k].pc = "cancel"
    /\ IF Rows({"grace"}) = {} THEN Answer(k)
       ELSE \E c \in Rows({"grace"}) :
               /\ \A d \in Rows({"grace"}) : c <= d
               /\ call' = [call EXCEPT ![k].pc = "save", ![k].closure = c]
    /\ UNCHANGED <<rows, person, budget, task, sweep, clocks, failures, history>>

\* Mutation: the account stays deactivated.
CancelSaveOnly(k) ==
    /\ call[k].pc = "save"
    /\ status' = [status EXCEPT ![call[k].closure] = "cancelled"]
    /\ Answer(k)
    /\ UNCHANGED <<graceEnds, trigger, person, budget, task, sweep, clocks,
                   failures, history>>

\* ... and saves it without a second look, with the reactivation.
CancelSave(k) ==
    /\ call[k].pc = "save"
    /\ LET c == call[k].closure
       IN  /\ status' = [status EXCEPT ![c] = "cancelled"]
           /\ spared' = IF now < graceEnds[c] THEN spared \cup {c} ELSE spared
           /\ strayed' = (strayed \/ call[k].token \notin {NoClosure, c})
    /\ active' = TRUE
    /\ Answer(k)
    /\ UNCHANGED <<graceEnds, trigger, lastLogin, erased, held, session, tokens,
                   budget, task, sweep, clocks, failures, warned, looked, admitted,
                   doubled>>

-----------------------------------------------------------------------------
(* check_inactive_accounts                                                 *)

\* A beat that is lost: a restart, a full queue.
BeatMissed ==
    /\ task = "idle" /\ nextBeat <= now /\ Fails
    /\ nextBeat' = nextBeat + Day
    /\ UNCHANGED <<rows, person, budget, call, task, sweep, now, history>>

\* last_login <= cutoff_close
LongGone == lastLogin <= now - InactiveAfter

\* A worker takes a beat, on time or late, reads the clock and selects the accounts
\* to close.
InactivitySelect ==
    /\ task = "idle" /\ nextBeat <= now
    /\ task' = IF active /\ LongGone THEN "check" ELSE "warn"
    /\ nextBeat' = nextBeat + Day
    /\ UNCHANGED <<rows, person, budget, call, sweep, now, failures, history>>

\* The task's own look for a pending closure and those of initiate_closure.
InactivityCheck ==
    /\ task = "check"
    /\ task' = IF Closable THEN "create" ELSE "warn"
    /\ UNCHANGED <<rows, person, budget, call, sweep, clocks, failures, history>>

\* The same transaction; nobody is there to be handed a token.
InactivityCommit ==
    /\ task = "create"
    /\ \E c \in Closures : OpenClosure(c, "inactivity")
    /\ task' = "warn"
    /\ UNCHANGED <<lastLogin, erased, held, tokens, budget, call, sweep, clocks,
                   failures, warned, looked, admitted, spared, strayed>>

\* The moment the warning d is for.
WarnAt(d) == lastLogin + InactiveAfter - d

\* Mutation: the warning is for one exact day.
DueToTheDay == {d \in WarnBefore : now = WarnAt(d)}

\* last_login__range, both ends included: this run is at most half a day from the
\* moment of the warning.
Due == {d \in WarnBefore : WarnAt(d) - HalfDay <= now /\ now <= WarnAt(d) + HalfDay}

\* Each warning is sent to an active account or, once, lost.
InactivityWarn ==
    /\ task = "warn"
    /\ LET due == IF active THEN Due ELSE {}
       IN  \E sent \in SUBSET due :
              /\ IF sent = due THEN UNCHANGED failures ELSE Fails
              /\ warned' = warned \cup sent
    /\ looked' = looked \cup {d \in WarnBefore : WarnAt(d) - HalfDay <= now
                                                /\ now <= WarnAt(d) + HalfDay}
    /\ task' = "idle"
    /\ UNCHANGED <<rows, person, budget, call, sweep, clocks, admitted, spared,
                   doubled, strayed>>

-----------------------------------------------------------------------------
(* process_expired_grace_periods and what module Closure has in detail     *)

\* Mutation: the grace is not compared with the clock.
AnyGrace(c) == status[c] = "grace" /\ ~held

Expired(c) == status[c] = "grace" /\ graceEnds[c] <= now /\ ~held

\* The queryset of the sweep.
SweepSelect(c) ==
    /\ sweep.pc = "idle" /\ Expired(c)
    /\ sweep' = [pc |-> "begin", closure |-> c]
    /\ UNCHANGED <<rows, person, budget, call, task, clocks, failures, history>>

\* execute_deletion saves DELETING, whatever the row says by now ...
ExecuteBegin ==
    /\ sweep.pc = "begin"
    /\ status' = [status EXCEPT ![sweep.closure] = "deleting"]
    /\ sweep' = [sweep EXCEPT !.pc = "erase"]
    /\ UNCHANGED <<graceEnds, trigger, person, budget, call, task, clocks,
                   failures, history>>

\* ... and erases the person.
ExecuteErase ==
    /\ sweep.pc = "erase"
    /\ erased' = TRUE
    /\ sweep' = IdleSweep
    /\ UNCHANGED <<rows, active, lastLogin, held, session, tokens, budget, call,
                   task, clocks, failures, history>>

\* The last receipt is in.
Finalize(c) ==
    /\ status[c] = "deleting" /\ erased
    /\ status' = [status EXCEPT ![c] = "deleted"]
    /\ UNCHANGED <<graceEnds, trigger, person, budget, call, task, sweep, clocks,
                   failures, history>>

-----------------------------------------------------------------------------
(* The person, the host, the staff and the clock                           *)

\* The host's login. It alone moves last_login.
Login ==
    /\ ~session /\ ~erased
    /\ active \/ AdmitsInactive
    /\ session' = TRUE /\ lastLogin' = now /\ warned' = {} /\ looked' = {}
    /\ UNCHANGED <<rows, active, erased, held, tokens, budget, call, task, sweep,
                   clocks, failures, admitted, spared, doubled, strayed>>

\* A component syncs the user from the claims of an old token.
ClaimSync ==
    /\ ~active /\ ~erased
    /\ active' = TRUE
    /\ UNCHANGED <<rows, lastLogin, erased, held, session, tokens, budget, call,
                   task, sweep, clocks, failures, history>>

\* Staff place and release holds; module Closure has them against calls in flight.
SetHold ==
    /\ \A k \in Calls : call[k].pc = "idle"
    /\ task = "idle" /\ sweep.pc = "idle"
    /\ held' = ~held
    /\ UNCHANGED <<rows, active, lastLogin, erased, session, tokens, budget, call,
                   task, sweep, clocks, failures, history>>

\* Time passes when nothing that was started is in flight, no beat has waited as long
\* as it may and the hourly sweep has nothing to do.
\* A cache entry whose time is up is gone.
Tick ==
    /\ now < MaxNow /\ now < nextBeat + MaxLate /\ \A c \in Closures : ~Expired(c)
    /\ \A k \in Calls : call[k].pc = "idle"
    /\ task = "idle" /\ sweep.pc = "idle"
    /\ now' = now + 1
    /\ IF now + 1 < budget.until THEN UNCHANGED <<budget, admitted>>
       ELSE budget' = NoBudget /\ admitted' = <<>>
    /\ UNCHANGED <<rows, person, call, task, sweep, nextBeat, failures, warned,
                   looked, spared, doubled, strayed>>

CloseStep(k) == \/ Spend(k) \/ Refuse(k) \/ SpendSet(k) \/ InitiateCheck(k)
                \/ InitiateCommit(k)
CancelStep(k) == CancelRead(k) \/ CancelSave(k)
TaskStep == InactivityCheck \/ InactivityCommit \/ InactivityWarn
SweepStep == ExecuteBegin \/ ExecuteErase

Next ==
    \/ \E k \in Calls :
          \/ CloseAccount(k) \/ CancelWithSession(k) \/ SpendUnavailable(k)
          \/ CloseStep(k) \/ CancelStep(k)
          \/ \E c \in Closures : CancelWithToken(k, c)
    \/ InactivitySelect \/ BeatMissed \/ TaskStep
    \/ \E c \in Closures : SweepSelect(c) \/ Finalize(c)
    \/ SweepStep
    \/ Login \/ ClaimSync \/ SetHold \/ Tick

Spec == Init /\ [][Next]_vars

-----------------------------------------------------------------------------
(* Properties                                                              *)

\* cancel_closure against the sweep: a closure whose cancellation was answered
\* before its grace ended is never erased, whatever else was in flight.
SparedIsKept == \A c \in spared : status[c] = "cancelled" /\ sweep.closure # c

\* make_closure_token, read_closure_token and _closure_from_token together:
\* through close, cancel and close again, the token of the closure that is in
\* its grace is in the person's hands and is accepted until the last moment,
\* as long as no two closures were pending together.
GraceHasItsToken ==
    ~doubled => \A c \in Rows({"grace"}) : trigger[c] = "manual" /\ now <= graceEnds[c] =>
        c \in tokens /\ TokenAccepted(c)

\* set_active in initiate_closure and cancel_closure: nobody is left locked
\* out, deactivated without a closure that can be cancelled or is carried out.
NoLockout == active \/ Rows({"grace", "deleting", "deleted"}) # {}

\* throttling.spend: whoever would be refused has spent a whole budget, no two
\* slots of it and not the last one and this moment a window apart. Staying
\* away for a window always restores the budget.
RefusalHasCause ==
    Limit > 0 /\ budget.count >= Limit =>
        /\ Len(admitted) = Limit
        /\ \A i \in 1..Limit :
              (IF i = Limit THEN now ELSE admitted[i + 1]) - admitted[i] < Window

\* An account in the grace of a closure for inactivity whose owner has not been there
\* since, and cancelled every other closure within its grace.
ClosedInAbsence ==
    \E c \in Rows({"grace"}) :
        /\ trigger[c] = "inactivity"
        /\ lastLogin + InactiveAfter <= graceEnds[c] - GraceLength
        /\ Closures \ (Rows({"absent"}) \cup spared) = {c}

\* check_inactive_accounts keeps no mark of what it sent and skips who is deactivated:
\* when nothing was lost and the task ran in the window of every warning, early or
\* late, whoever was closed in their absence got one of them, even when closures,
\* cancelled within their grace, hid them from some of those runs.
ClosedAfterAWarning == failures = 0 /\ looked = WarnBefore /\ ClosedInAbsence => warned # {}

-----------------------------------------------------------------------------
(* What the documentation says and the code does not keep; see the README  *)

\* check_inactive_accounts: "Sends warning emails at 60 days and 14 days before;
\* initiates closure at 12 months".
WarnedBeforeClosed == failures = 0 /\ ClosedInAbsence => warned # {}

\* _closure_from_token: "the token from the first round must not act on the
\* second".
TokenActsOnItsClosure == ~strayed

\* is_access_denied: "the whole point of the grace period is that the user can
\* log in and cancel".
GraceIsCancellable ==
    \A c \in Rows({"grace"}) : now <= graceEnds[c] => c \in tokens \/ active \/ AdmitsInactive

\* AccountCloseStatusView "keeps answering while the account is deleting/deleted
\* on the token path".
TokenWatchesErasure ==
    \A c \in Rows({"deleting", "deleted"}) : c \in tokens /\ Newest(c) => TokenAccepted(c)

\* throttling: "A rolling hourly budget".
RollingBudget ==
    Limit > 0 /\ budget.count >= Limit => \A i \in DOMAIN admitted : now - admitted[i] < Window

\* check_inactive_accounts: "Detect accounts inactive for 12 months".
OnlyInactiveAreClosed ==
    \A c \in Closures : status[c] # "absent" /\ trigger[c] = "inactivity" =>
        lastLogin > graceEnds[c] - GraceLength
            \/ lastLogin + InactiveAfter <= graceEnds[c] - GraceLength
=============================================================================
