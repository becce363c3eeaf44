--------------------------------- MODULE Dsar ---------------------------------
(***************************************************************************)
(* Data-subject requests (DsarRequest): intake with its acknowledgement    *)
(* and wiring (dsar.py), staff triage (DsarDetailView.patch) and the daily *)
(* sweep_dsar_deadlines. Time is counted in days and day 0 is a Monday.    *)
(*                                                                         *)
(* The mechanisms a request is wired to are modules Closure and Export;    *)
(* here they are an account that is busy with one, or not.                 *)
(***************************************************************************)
EXTENDS Naturals, FiniteSets

CONSTANTS
    Dsars,        \* primary keys available to DsarRequest rows
    Users,        \* accounts
    Kinds,        \* subset of the four kinds
    Desks,        \* web processes: intake and staff
    Sweepers,     \* celery workers running sweep_dsar_deadlines
    AckBusinessDays, ResolveDays,
    MaxNow,       \* bound: the last day
    MaxFailures,  \* bound: how often a notification or an emit fails
    MaxPatches,   \* bound: how often staff edit a request
    NoDsar, NoUser

ASSUME DsarAssumption ==
    /\ Kinds \subseteq {"access", "portability", "erasure", "rectification"}
    /\ AckBusinessDays \in Nat /\ ResolveDays \in Nat
    /\ MaxNow \in Nat /\ MaxFailures \in Nat /\ MaxPatches \in Nat
    /\ NoDsar \notin Dsars /\ NoUser \notin Users

VARIABLES
    state, kind, user, received, ackDue, resolveDue,  \* DsarRequest
    ackSent,    \* ack_sent_at is set
    linked,     \* export_request is set
    notified,   \* overdue_notified_at is set
    acks,       \* acknowledgements the notification service accepted
    matched,    \* history: who vouches for user_id, "session" or "staff"
    overdue,    \* gdpr.dsar.overdue events: request and clock
    repeats,    \* history: some overdue event went out twice
    busy,       \* per account: the mechanisms that are under way
    started,    \* history: the requests that set a mechanism going
    now, failures, patches,
    desk,       \* one create_dsar or patch call per desk
    sweep       \* one sweep_dsar_deadlines call per sweeper

rows == <<state, kind, user, received, ackDue, resolveDue, ackSent, linked, notified>>
rest == <<acks, matched, overdue, repeats, busy, started>>
vars == <<rows, rest, now, failures, patches, desk, sweep>>

OpenStates == {"received", "acknowledged", "in_progress"}
States     == OpenStates \cup {"resolved", "rejected"}
Clocks     == {"acknowledgement", "resolution"}
Mechanism  == {"closure", "export"}
Call       == [pc : {"idle", "ack", "wire", "save", "refused"},
               dsar : Dsars \cup {NoDsar}, user : Users \cup {NoUser},
               linked : BOOLEAN]
SweepCall  == [pc : {"idle", "acknowledgement", "resolution"}, cut : Nat,
               todo : SUBSET Dsars]

IdleDesk  == [pc |-> "idle", dsar |-> NoDsar, user |-> NoUser, linked |-> FALSE]
IdleSweep == [pc |-> "idle", cut |-> 0, todo |-> {}]

DsarTypeOK ==
    /\ state      \in [Dsars -> States \cup {"absent"}]
    /\ kind       \in [Dsars -> Kinds \cup {"none"}]
    /\ user       \in [Dsars -> Users \cup {NoUser}]
    /\ received   \in [Dsars -> Nat] /\ ackDue \in [Dsars -> Nat]
    /\ resolveDue \in [Dsars -> Nat]
    /\ ackSent    \in [Dsars -> BOOLEAN] /\ linked \in [Dsars -> BOOLEAN]
    /\ notified   \in [Dsars -> BOOLEAN]
    /\ acks       \subseteq Dsars
    /\ matched    \in [Dsars -> {"nobody", "session", "staff"}]
    /\ overdue    \subseteq Dsars \X Clocks
    /\ repeats    \in BOOLEAN
    /\ busy       \in [Users \cup {NoUser} -> SUBSET Mechanism]
    /\ started    \subseteq Dsars
    /\ now \in Nat /\ failures \in 0..MaxFailures /\ patches \in 0..MaxPatches
    /\ desk       \in [Desks -> Call]
    /\ sweep      \in [Sweepers -> SweepCall]

Init ==
    /\ state      = [d \in Dsars |-> "absent"]
    /\ kind       = [d \in Dsars |-> "none"]
    /\ user       = [d \in Dsars |-> NoUser]
    /\ received   = [d \in Dsars |-> 0] /\ ackDue = [d \in Dsars |-> 0]
    /\ resolveDue = [d \in Dsars |-> 0]
    /\ ackSent    = [d \in Dsars |-> FALSE] /\ linked = [d \in Dsars |-> FALSE]
    /\ notified   = [d \in Dsars |-> FALSE]
    /\ acks = {} /\ overdue = {} /\ started = {} /\ repeats = FALSE
    /\ matched    = [d \in Dsars |-> "nobody"]
    /\ busy       = [u \in Users \cup {NoUser} |-> {}]
    /\ now = 0 /\ failures = 0 /\ patches = 0
    /\ desk       = [k \in Desks |-> IdleDesk]
    /\ sweep      = [s \in Sweepers |-> IdleSweep]

-----------------------------------------------------------------------------
(* business_days_from                                                      *)

Weekday(day) == day % 7

\* The two variables of its loop.
Loop == [moment : Nat, remaining : Nat]

\* Mutation: the day counted is the one left, not the one reached.
BusinessDaysLeaving[l \in Loop] ==
    IF l.remaining = 0 THEN l.moment
      ELSE BusinessDaysLeaving[
             [moment    |-> l.moment + 1,
              remaining |-> IF Weekday(l.moment) < 5 THEN l.remaining - 1
                              ELSE l.remaining]]

\* One calendar day at a time; a day that is not a weekend uses one up.
BusinessDaysFrom[l \in Loop] ==
    IF l.remaining = 0 THEN l.moment
      ELSE BusinessDaysFrom[
             [moment    |-> l.moment + 1,
              remaining |-> IF Weekday(l.moment + 1) < 5 THEN l.remaining - 1
                              ELSE l.remaining]]

AckDueLeaving(day, days) == BusinessDaysLeaving[[moment |-> day, remaining |-> days]]

\* DsarRequest.save on a new row.
AckDue(day, days) == BusinessDaysFrom[[moment |-> day, remaining |-> days]]

-----------------------------------------------------------------------------
(* create_dsar                                                             *)

Fails == failures < MaxFailures /\ failures' = failures + 1

\* The call and what its instance of the row says of the account and the
\* link, which may be stale by the time it is used.
At(k, pc, d, u, seen) ==
    desk' = [desk EXCEPT ![k] = [pc |-> pc, dsar |-> d, user |-> u, linked |-> seen]]
Goto(k, pc) == At(k, pc, desk[k].dsar, desk[k].user, desk[k].linked)
Done(k) == desk' = [desk EXCEPT ![k] = IdleDesk]

\* The row, with both clocks: from the app with the account of the session,
\* from the public form without one.
CreateDsar(k, d, kd, u) ==
    /\ desk[k].pc = "idle" /\ state[d] = "absent"
    /\ state'      = [state      EXCEPT ![d] = "received"]
    /\ kind'       = [kind       EXCEPT ![d] = kd]
    /\ user'       = [user       EXCEPT ![d] = u]
    /\ matched'    = [matched    EXCEPT ![d] = IF u = NoUser THEN "nobody" ELSE "session"]
    /\ received'   = [received   EXCEPT ![d] = now]
    /\ ackDue'     = [ackDue     EXCEPT ![d] = AckDue(now, AckBusinessDays)]
    /\ resolveDue' = [resolveDue EXCEPT ![d] = now + ResolveDays]
    /\ At(k, "ack", d, u, FALSE)
    /\ UNCHANGED <<ackSent, linked, notified, acks, overdue, repeats, busy, started,
                   now, failures, patches, sweep>>

\* Mutation: the acknowledgement is recorded without asking whether it went.
AcknowledgeAlways(k) ==
    /\ desk[k].pc = "ack"
    /\ \/ acks' = acks \cup {desk[k].dsar} /\ UNCHANGED failures
       \/ Fails /\ UNCHANGED acks
    /\ ackSent' = [ackSent EXCEPT ![desk[k].dsar] = TRUE]
    /\ state'   = [state   EXCEPT ![desk[k].dsar] = "acknowledged"]
    /\ Goto(k, "wire")
    /\ UNCHANGED <<kind, user, received, ackDue, resolveDue, linked, notified,
                   matched, overdue, repeats, busy, started, now, patches, sweep>>

\* _acknowledge: recorded only when the notification was queued. (The staff
\* notification that follows changes nothing here.)
Acknowledge(k) ==
    /\ desk[k].pc = "ack"
    /\ LET d == desk[k].dsar
       IN \/ /\ acks'    = acks \cup {d}
             /\ ackSent' = [ackSent EXCEPT ![d] = TRUE]
             /\ state'   = [state   EXCEPT ![d] = "acknowledged"]
             /\ UNCHANGED failures
          \/ Fails /\ UNCHANGED <<acks, ackSent, state>>
    /\ Goto(k, "wire")
    /\ UNCHANGED <<kind, user, received, ackDue, resolveDue, linked, notified,
                   matched, overdue, repeats, busy, started, now, patches, sweep>>

-----------------------------------------------------------------------------
(* wire_dsar                                                               *)

Needs(d) == CASE kind[d] = "erasure" -> {"closure"}
              [] kind[d] \in {"access", "portability"} -> {"export"}
              [] OTHER -> {}

\* Mutation: a request nobody matched to an account is wired as well.
WirableUnmatched(k) == ~desk[k].linked

\* An account is known and nothing is linked to the instance yet.
Wirable(k) == desk[k].user # NoUser /\ ~desk[k].linked

\* initiate_closure or request_export. Both refuse an account that is busy
\* already (modules Closure and Export), and may fail; the export may also be
\* there when its task cannot be queued.
WireDsar(k) ==
    /\ desk[k].pc = "wire"
    /\ LET d == desk[k].dsar
           u == desk[k].user
           go == Wirable(k) /\ Needs(d) # {}
       IN \/ /\ ~go /\ Done(k)
             /\ UNCHANGED <<busy, started, failures>>
          \/ /\ go /\ Needs(d) \cap busy[u] = {}
             /\ busy'    = [busy EXCEPT ![u] = @ \cup Needs(d)]
             /\ started' = started \cup {d}
             /\ Goto(k, "save")
             /\ UNCHANGED failures
          \/ /\ go /\ Needs(d) = {"export"} /\ "export" \notin busy[u]
             /\ busy'    = [busy EXCEPT ![u] = @ \cup {"export"}]
             /\ started' = started \cup {d}
             /\ Fails
             /\ Goto(k, "refused")
          \/ /\ go
             /\ IF Needs(d) \cap busy[u] = {} THEN Fails ELSE UNCHANGED failures
             /\ Goto(k, "refused")
             /\ UNCHANGED <<busy, started>>
    /\ UNCHANGED <<rows, acks, matched, overdue, repeats, now, patches, sweep>>

\* The outcome is saved: the export is linked, the closure only noted. A
\* refusal is a note and leaves the state alone.
WireSave(k) ==
    /\ desk[k].pc \in {"save", "refused"}
    /\ LET d == desk[k].dsar
       IN IF desk[k].pc = "save"
            THEN /\ state'  = [state  EXCEPT ![d] = "in_progress"]
                 /\ linked' = [linked EXCEPT ![d] = @ \/ Needs(d) = {"export"}]
            ELSE UNCHANGED <<state, linked>>
    /\ Done(k)
    /\ UNCHANGED <<kind, user, received, ackDue, resolveDue, ackSent, notified,
                   rest, now, failures, patches, sweep>>

\* The account is free again: the closure ended or the cooldown is over.
MechanismEnds(u, m) ==
    /\ m \in busy[u]
    /\ busy' = [busy EXCEPT ![u] = @ \ {m}]
    /\ UNCHANGED <<rows, acks, matched, overdue, repeats, started, now, failures,
                   patches, desk, sweep>>

-----------------------------------------------------------------------------
(* DsarDetailView.patch                                                    *)

\* Staff set the state, the account or both, and an account is wired.
StaffPatch(k, d, st, u) ==
    /\ patches < MaxPatches /\ patches' = patches + 1
    /\ desk[k].pc = "idle" /\ state[d] # "absent"
    /\ st # state[d] \/ u # NoUser
    /\ state' = [state EXCEPT ![d] = st]
    /\ IF u = NoUser THEN UNCHANGED <<user, matched, desk>>
         ELSE /\ user'    = [user    EXCEPT ![d] = u]
              /\ matched' = [matched EXCEPT ![d] = "staff"]
              /\ At(k, "wire", d, u, linked[d])
    /\ UNCHANGED <<kind, received, ackDue, resolveDue, ackSent, linked, notified,
                   acks, overdue, repeats, busy, started, now, failures, sweep>>

-----------------------------------------------------------------------------
(* sweep_dsar_deadlines                                                    *)

\* Mutation: the idempotency mark is not looked at.
OverdueUnmarked(clock, cut) ==
    {d \in Dsars : /\ state[d] \in OpenStates
                   /\ IF clock = "acknowledgement"
                        THEN ~ackSent[d] /\ ackDue[d] <= cut
                        ELSE resolveDue[d] <= cut}

\* Mutation: only requests nobody has touched yet count as open.
OverdueReceived(clock, cut) ==
    {d \in Dsars : /\ state[d] = "received" /\ ~notified[d]
                   /\ IF clock = "acknowledgement"
                        THEN ~ackSent[d] /\ ackDue[d] <= cut
                        ELSE resolveDue[d] <= cut}

\* Mutation: the comparison with the clock is the wrong way round.
OverdueAhead(clock, cut) ==
    {d \in Dsars : /\ state[d] \in OpenStates /\ ~notified[d]
                   /\ IF clock = "acknowledgement"
                        THEN ~ackSent[d] /\ ackDue[d] >= cut
                        ELSE resolveDue[d] >= cut}

\* The two querysets.
Overdue(clock, cut) ==
    {d \in Dsars : /\ state[d] \in OpenStates /\ ~notified[d]
                   /\ IF clock = "acknowledgement"
                        THEN ~ackSent[d] /\ ackDue[d] <= cut
                        ELSE resolveDue[d] <= cut}

SweepTo(s, pc, cut) ==
    sweep' = [sweep EXCEPT ![s] = [pc |-> pc, cut |-> cut, todo |-> Overdue(pc, cut)]]

SweepStart(s) ==
    /\ sweep[s].pc = "idle"
    /\ SweepTo(s, "acknowledgement", now)
    /\ UNCHANGED <<rows, rest, now, failures, patches, desk>>

\* The mark and the event in one transaction; the mark is set whatever the
\* row says by now.
SweepEmit(s, d) ==
    /\ d \in sweep[s].todo
    /\ notified' = [notified EXCEPT ![d] = TRUE]
    /\ repeats'  = (repeats \/ <<d, sweep[s].pc>> \in overdue)
    /\ overdue'  = overdue \cup {<<d, sweep[s].pc>>}
    /\ sweep'    = [sweep EXCEPT ![s] = [pc |-> sweep[s].pc, cut |-> sweep[s].cut,
                                         todo |-> sweep[s].todo \ {d}]]
    /\ UNCHANGED <<state, kind, user, received, ackDue, resolveDue, ackSent, linked,
                   acks, matched, busy, started, now, failures, patches, desk>>

SweepLoop(s) ==
    /\ sweep[s].pc # "idle" /\ sweep[s].todo = {}
    /\ IF sweep[s].pc = "acknowledgement" THEN SweepTo(s, "resolution", sweep[s].cut)
         ELSE sweep' = [sweep EXCEPT ![s] = IdleSweep]
    /\ UNCHANGED <<rows, rest, now, failures, patches, desk>>

\* A failing emit rolls its mark back and ends the sweep.
SweepFails(s) ==
    /\ sweep[s].todo # {} /\ Fails
    /\ sweep' = [sweep EXCEPT ![s] = IdleSweep]
    /\ UNCHANGED <<rows, rest, now, patches, desk>>

Tick == /\ now < MaxNow
        /\ now' = now + 1
        /\ UNCHANGED <<rows, rest, failures, patches, desk, sweep>>

DeskStep(k)  == Acknowledge(k) \/ WireDsar(k) \/ WireSave(k)
SweepStep(s) == SweepStart(s) \/ SweepLoop(s) \/ \E d \in Dsars : SweepEmit(s, d)

Next ==
    \/ \E k \in Desks :
          \/ \E d \in Dsars, kd \in Kinds, u \in Users \cup {NoUser} :
                CreateDsar(k, d, kd, u)
          \/ \E d \in Dsars, st \in States, u \in Users \cup {NoUser} :
                StaffPatch(k, d, st, u)
          \/ DeskStep(k)
    \/ \E u \in Users, m \in Mechanism : MechanismEnds(u, m)
    \/ \E s \in Sweepers : SweepStep(s) \/ SweepFails(s)
    \/ Tick

Spec == Init /\ [][Next]_vars

\* Calls run on, celery beat starts the sweep again, days pass. Nobody has to
\* file, match or resolve anything.
Fairness ==
    /\ \A k \in Desks : WF_vars(DeskStep(k))
    /\ \A s \in Sweepers : /\ WF_vars(SweepStart(s) \/ SweepLoop(s))
                           /\ \A d \in Dsars : WF_vars(SweepEmit(s, d))
    /\ WF_vars(Tick)

FairSpec == Spec /\ Fairness

-----------------------------------------------------------------------------
(* Properties                                                              *)

\* The business days after a day, up to another.
Between(day, due) == {b \in day + 1 .. due : Weekday(b) < 5}

\* business_days_from against its reference, for every weekday a request may
\* arrive on and every promise of up to a week: the day reached is a business
\* day, and exactly the promised number of them lies between receipt and it.
AckClockInBusinessDays ==
    \A d \in Dsars : state[d] # "absent" =>
        \A shift \in 0 .. 6, days \in 0 .. 6 :
            LET day == received[d] + shift
                due == AckDue(day, days)
            IN /\ days > 0 => Weekday(due) < 5
               /\ Cardinality(Between(day, due)) = days

\* sweep_dsar_deadlines never raises an alarm early, however old its querysets
\* are: the promised business days, or the days to resolve, have gone by.
NoEarlyAlarm ==
    \A d \in Dsars :
        /\ <<d, "acknowledgement">> \in overdue =>
              Cardinality(Between(received[d], now)) >= AckBusinessDays
        /\ <<d, "resolution">> \in overdue => now >= received[d] + ResolveDays

\* "ack_sent_at is proof, not an assumption": it is set only when the
\* notification service took the acknowledgement.
AckIsProof == \A d \in Dsars : ackSent[d] => d \in acks

\* A request sets an erasure or an export going only for an account that a
\* session or a member of staff vouched for, whatever order intake and triage
\* run in; an email from the public form alone never does.
NoDeletionOracle == \A d \in started : matched[d] # "nobody" /\ user[d] # NoUser

\* "Emitted once per deadline per request", retried and failing sweeps
\* included.
AnnouncedOnce == ~repeats

\* A clock that runs out on an open request raises an alarm, unless the
\* request is closed or the acknowledgement comes after all.
MissedClockAlarms ==
    \A d \in Dsars :
        (/\ state[d] \in OpenStates
         /\ (~ackSent[d] /\ ackDue[d] <= now) \/ resolveDue[d] <= now)
          ~> (\/ notified[d] \/ state[d] \notin OpenStates
              \/ ackSent[d] /\ now < resolveDue[d])

\* "Emit gdpr.dsar.overdue for every missed DSAR clock": an open request past
\* its resolution date is announced as such.
EveryMissAnnounced ==
    \A d \in Dsars :
        (state[d] \in OpenStates /\ resolveDue[d] <= now)
          ~> (<<d, "resolution">> \in overdue \/ state[d] \notin OpenStates)
=============================================================================
