----------------------------- MODULE DoorProofs -----------------------------
(***************************************************************************)
(* What is proved of the doors of an account for any number of requests in *)
(* flight, any limit, window and grace period: nobody is locked out, a     *)
(* cancelled closure is not carried out, the token of a grace works,       *)
(* nobody is refused who has not spent a budget, and nobody is closed for  *)
(* inactivity unwarned when the task met the windows of its warnings.      *)
(***************************************************************************)
EXTENDS Door, TLAPS

-----------------------------------------------------------------------------
(* Types                                                                   *)

\* A call about to save has a closure, one about to count has a free slot, and
\* the sweep has a closure exactly when it is at work.
WorkLocated ==
    /\ \A k \in Calls : /\ call[k].pc = "save" => call[k].closure \in Closures
                        /\ call[k].pc = "set" => call[k].count < Limit
    /\ IF sweep.pc = "idle" THEN sweep.closure = NoClosure ELSE sweep.closure \in Closures

DoorTypeInv == DoorTypeOK /\ WorkLocated

\* What one call may become in a step.
CallMove(k, new) ==
    /\ new \in Call /\ call' = [call EXCEPT ![k] = new]
    /\ new.pc = "save" => new.closure \in Closures /\ status[new.closure] = "grace"
    /\ new.pc = "set" => new.count = budget.count /\ budget.count < Limit

LEMMA Gotos ==
  ASSUME DoorTypeInv, NEW k \in Calls, NEW p \in {"spend", "check", "create", "cancel"},
         Goto(k, p)
  PROVE  \E new : CallMove(k, new)
  <1>1. call \in [Calls -> Call]
    BY DEF DoorTypeInv, DoorTypeOK
  <1>2. PICK old \in Call : old = call[k]
    BY <1>1
  <1> DEFINE new == [old EXCEPT !.pc = p]
  <1>3. new \in Call /\ new.pc = p
    BY DEF Call
  <1>4. call' = [call EXCEPT ![k] = new]
    BY <1>1, <1>2 DEF Goto
  <1> HIDE DEF new
  <1> QED BY <1>3, <1>4 DEF CallMove

LEMMA Answers ==
  ASSUME DoorTypeInv, NEW k \in Calls, Answer(k)
  PROVE  \E new : CallMove(k, new)
  <1>1. IdleCall \in Call /\ IdleCall.pc = "idle"
    BY DEF IdleCall, Call
  <1> QED BY <1>1 DEF Answer, CallMove

LEMMA CallMoves ==
  ASSUME DoorTypeInv, [Next]_vars
  PROVE  call' = call \/ \E k \in Calls, new \in Call : CallMove(k, new)
  <1>0. call \in [Calls -> Call] /\ budget.count \in Nat
    BY DoorAssumption DEF DoorTypeInv, DoorTypeOK
  <1>1. ASSUME NEW k \in Calls, CloseAccount(k) \/ CancelWithSession(k) \/ SpendUnavailable(k)
                                  \/ Refuse(k) \/ SpendSet(k) \/ InitiateCheck(k)
                                  \/ InitiateCommit(k) \/ CancelSave(k)
        PROVE  \E new : CallMove(k, new)
    <2>1. Answer(k) \/ Goto(k, "spend") \/ Goto(k, "check") \/ Goto(k, "create")
            \/ Goto(k, "cancel")
      BY <1>1 DEF CloseAccount, CancelWithSession, SpendUnavailable, Refuse, SpendSet,
                  InitiateCheck, InitiateCommit, CancelSave
    <2> QED BY <2>1, Gotos, Answers
  <1>2. ASSUME NEW k \in Calls, Spend(k) PROVE \E new : CallMove(k, new)
    <2>1. PICK old \in Call : old = call[k]
      BY <1>0
    <2> DEFINE new == [old EXCEPT !.pc = "set", !.count = budget.count]
    <2>2. new \in Call /\ new.pc = "set" /\ new.count = budget.count
      BY <1>0 DEF Call
    <2>3. call' = [call EXCEPT ![k] = new] /\ budget.count < Limit
      BY <1>0, <1>2, <2>1 DEF Spend
    <2> HIDE DEF new
    <2> QED BY <2>2, <2>3 DEF CallMove
  <1>3. ASSUME NEW k \in Calls, NEW c \in Closures, CancelWithToken(k, c)
        PROVE  \E new : CallMove(k, new)
    <2>1. PICK old \in Call : old = call[k]
      BY <1>0
    <2> DEFINE new == [old EXCEPT !.pc = "cancel", !.token = c]
    <2>2. new \in Call /\ new.pc = "cancel"
      BY <1>0 DEF Call
    <2>3. call' = [call EXCEPT ![k] = new]
      BY <1>0, <1>3, <2>1 DEF CancelWithToken
    <2> HIDE DEF new
    <2> QED BY <2>2, <2>3 DEF CallMove
  <1>4. ASSUME NEW k \in Calls, CancelRead(k) PROVE \E new : CallMove(k, new)
    <2>1. CASE Answer(k)
      BY <2>1, Answers
    <2>2. CASE ~Answer(k)
      <3>1. PICK c \in Rows({"grace"}) : call' = [call EXCEPT ![k].pc = "save", ![k].closure = c]
        BY <1>4, <2>2 DEF CancelRead
      <3>2. c \in Closures /\ status[c] = "grace"
        BY <3>1 DEF Rows
      <3>3. PICK old \in Call : old = call[k]
        BY <1>0
      <3> DEFINE new == [old EXCEPT !.pc = "save", !.closure = c]
      <3>4. new \in Call /\ new.pc = "save" /\ new.closure = c
        BY <3>2 DEF Call
      <3>5. call' = [call EXCEPT ![k] = new]
        BY <1>0, <3>1, <3>3
      <3> HIDE DEF new
      <3> QED BY <3>2, <3>4, <3>5 DEF CallMove
    <2> QED BY <2>1, <2>2
  <1>5. ASSUME NEW k \in Calls,
               \/ CloseAccount(k) \/ CancelWithSession(k) \/ SpendUnavailable(k)
               \/ CloseStep(k) \/ CancelStep(k) \/ \E c \in Closures : CancelWithToken(k, c)
        PROVE  \E new : CallMove(k, new)
    BY <1>1, <1>2, <1>3, <1>4, <1>5 DEF CloseStep, CancelStep
  <1>6. CASE \/ InactivitySelect \/ BeatMissed \/ TaskStep \/ SweepStep \/ Login \/ ClaimSync
             \/ SetHold \/ Tick \/ \E c \in Closures : SweepSelect(c) \/ Finalize(c)
    BY <1>6 DEF InactivitySelect, BeatMissed, TaskStep, InactivityCheck, InactivityCommit,
                InactivityWarn, SweepStep, ExecuteBegin, ExecuteErase, Login, ClaimSync,
                SetHold, Tick, SweepSelect, Finalize
  <1>7. CASE UNCHANGED vars
    BY <1>7 DEF vars
  <1> QED BY <1>5, <1>6, <1>7 DEF Next, CallMove

LEMMA CallTypes ==
  ASSUME DoorTypeInv, [Next]_vars
  PROVE  /\ call' \in [Calls -> Call]
         /\ \A k \in Calls : /\ call'[k].pc = "save" => call'[k].closure \in Closures
                             /\ call'[k].pc = "set" => call'[k].count < Limit
  <1>0. call \in [Calls -> Call] /\ WorkLocated
    BY DEF DoorTypeInv, DoorTypeOK
  <1>1. CASE call' = call
    BY <1>0, <1>1 DEF WorkLocated
  <1>2. ASSUME NEW k \in Calls, NEW new \in Call, CallMove(k, new)
        PROVE  /\ call' \in [Calls -> Call]
               /\ \A j \in Calls : /\ call'[j].pc = "save" => call'[j].closure \in Closures
                                   /\ call'[j].pc = "set" => call'[j].count < Limit
    BY <1>0, <1>2 DEF CallMove, WorkLocated
  <1> QED BY <1>1, <1>2, CallMoves

-----------------------------------------------------------------------------
(* What a step may do to the closures of the person                        *)

\* The transaction of initiate_closure; the view hands out a token, the task
\* does not.
Opens(c, why) ==
    /\ OpenClosure(c, why)
    /\ tokens' = IF why = "manual" THEN tokens \cup {c} ELSE tokens
    /\ UNCHANGED <<spared, sweep, now>>

Cancels(k) ==
    /\ call[k].pc = "save"
    /\ LET c == call[k].closure
       IN  /\ status' = [status EXCEPT ![c] = "cancelled"]
           /\ spared' = IF now < graceEnds[c] THEN spared \cup {c} ELSE spared
    /\ active' = TRUE
    /\ UNCHANGED <<graceEnds, trigger, tokens, sweep, now, doubled>>

\* The sweep finds a closure whose grace is over, and carries it out.
Selects(c) ==
    /\ sweep.pc = "idle" /\ status[c] = "grace" /\ graceEnds[c] <= now
    /\ sweep' = [pc |-> "begin", closure |-> c]
    /\ UNCHANGED <<rows, active, tokens, spared, doubled, now>>

Begins ==
    /\ sweep.pc = "begin" /\ sweep' = [pc |-> "erase", closure |-> sweep.closure]
    /\ status' = [status EXCEPT ![sweep.closure] = "deleting"]
    /\ UNCHANGED <<graceEnds, trigger, active, tokens, spared, doubled, now>>

Finishes(c) ==
    /\ status[c] = "deleting" /\ status' = [status EXCEPT ![c] = "deleted"]
    /\ UNCHANGED <<graceEnds, trigger, active, tokens, spared, doubled, sweep, now>>

\* The closures are as they were; time passes only while the sweep is idle.
Waits ==
    /\ UNCHANGED <<rows, tokens, spared, doubled>>
    /\ active' \in {active, TRUE} /\ sweep' \in {sweep, IdleSweep}
    /\ now' = now \/ (now' = now + 1 /\ sweep.pc = "idle")

LEMMA DoorSteps ==
  ASSUME DoorTypeInv, [Next]_vars
  PROVE  \/ \E c \in Closures, why \in {"manual", "inactivity"} : Opens(c, why)
         \/ \E k \in Calls : Cancels(k)
         \/ \E c \in Closures : Selects(c) \/ Finishes(c)
         \/ Begins \/ Waits
  <1>1. ASSUME NEW k \in Calls, CloseAccount(k) \/ CancelWithSession(k) \/ SpendUnavailable(k)
                                  \/ Spend(k) \/ Refuse(k) \/ SpendSet(k) \/ InitiateCheck(k)
                                  \/ CancelRead(k) \/ (\E c \in Closures : CancelWithToken(k, c))
        PROVE  Waits
    BY <1>1 DEF CloseAccount, CancelWithSession, SpendUnavailable, Spend, Refuse, SpendSet,
                InitiateCheck, CancelRead, CancelWithToken, Waits, rows, person, clocks, history
  <1>2. ASSUME NEW k \in Calls, InitiateCommit(k)
        PROVE  \E c \in Closures : Opens(c, "manual")
    BY <1>2 DEF InitiateCommit, MakeClosureToken, Opens, clocks
  <1>3. CASE InactivityCommit
    BY <1>3 DEF InactivityCommit, Opens, clocks
  <1>4. ASSUME NEW k \in Calls, CancelSave(k) PROVE Cancels(k)
    BY <1>4 DEF CancelSave, Cancels, clocks
  <1>5. ASSUME NEW c \in Closures, SweepSelect(c) PROVE Selects(c)
    BY <1>5 DEF SweepSelect, Selects, Expired, rows, person, clocks, history
  <1>6. ASSUME NEW c \in Closures, Finalize(c) PROVE Finishes(c)
    BY <1>6 DEF Finalize, Finishes, person, clocks, history
  <1>7. CASE ExecuteBegin
    <2>1. sweep \in Sweep
      BY DEF DoorTypeInv, DoorTypeOK
    <2>2. [sweep EXCEPT !.pc = "erase"] = [pc |-> "erase", closure |-> sweep.closure]
      BY <2>1 DEF Sweep
    <2> QED BY <1>7, <2>2 DEF ExecuteBegin, Begins, person, clocks, history
  <1>8. CASE ExecuteErase \/ Login \/ ClaimSync \/ SetHold \/ Tick
    BY <1>8 DEF ExecuteErase, Login, ClaimSync, SetHold, Tick, Waits, rows, person, clocks, history
  <1>9. CASE InactivitySelect \/ BeatMissed \/ InactivityCheck \/ InactivityWarn
    BY <1>9 DEF InactivitySelect, BeatMissed, InactivityCheck, InactivityWarn, Waits, rows,
                person, clocks, history
  <1>10. CASE UNCHANGED vars
    BY <1>10 DEF vars, Waits, rows, person, clocks, history
  <1> QED
    BY <1>1, <1>2, <1>3, <1>4, <1>5, <1>6, <1>7, <1>8, <1>9, <1>10
    DEF Next, CloseStep, CancelStep, TaskStep, SweepStep

LEMMA RowTypesKept ==
  ASSUME DoorTypeInv, [Next]_vars
  PROVE  /\ status' \in [Closures -> {"absent", "grace", "deleting", "cancelled", "deleted"}]
         /\ graceEnds' \in [Closures -> Nat] /\ trigger' \in [Closures -> {"manual", "inactivity"}]
         /\ tokens' \subseteq Closures /\ spared' \subseteq Closures
         /\ active' \in BOOLEAN /\ doubled' \in BOOLEAN
         /\ sweep' \in Sweep /\ now' \in Nat
         /\ IF sweep'.pc = "idle" THEN sweep'.closure = NoClosure
                                  ELSE sweep'.closure \in Closures
  <1>0. /\ status \in [Closures -> {"absent", "grace", "deleting", "cancelled", "deleted"}]
        /\ graceEnds \in [Closures -> Nat] /\ trigger \in [Closures -> {"manual", "inactivity"}]
        /\ tokens \subseteq Closures /\ spared \subseteq Closures
        /\ active \in BOOLEAN /\ doubled \in BOOLEAN
        /\ sweep \in Sweep /\ now \in Nat /\ GraceLength \in Nat /\ WorkLocated
    BY DoorAssumption DEF DoorTypeInv, DoorTypeOK
  <1>1. ASSUME NEW c \in Closures, NEW why \in {"manual", "inactivity"}, Opens(c, why)
        PROVE  /\ graceEnds' \in [Closures -> Nat]
               /\ trigger' \in [Closures -> {"manual", "inactivity"}]
               /\ status' \in [Closures -> {"absent", "grace", "deleting", "cancelled", "deleted"}]
               /\ tokens' \subseteq Closures /\ spared' = spared /\ sweep' = sweep /\ now' = now
               /\ active' \in BOOLEAN /\ doubled' \in BOOLEAN
    <2>1. doubled' \in BOOLEAN /\ active' \in BOOLEAN
      BY <1>1, Zenon DEF Opens, OpenClosure
    <2>2. graceEnds' \in [Closures -> Nat]
      BY <1>0, <1>1 DEF Opens, OpenClosure
    <2>3. /\ trigger' \in [Closures -> {"manual", "inactivity"}]
          /\ status' \in [Closures -> {"absent", "grace", "deleting", "cancelled", "deleted"}]
      BY <1>0, <1>1 DEF Opens, OpenClosure
    <2>4. tokens' \subseteq Closures /\ spared' = spared /\ sweep' = sweep /\ now' = now
      BY <1>0, <1>1 DEF Opens
    <2> QED BY <2>1, <2>2, <2>3, <2>4
  <1>2. ASSUME NEW k \in Calls, Cancels(k)
        PROVE  /\ spared' \subseteq Closures
               /\ status' \in [Closures -> {"absent", "grace", "deleting", "cancelled", "deleted"}]
    BY <1>0, <1>2 DEF Cancels, WorkLocated
  <1>3. ASSUME NEW c \in Closures, Selects(c)
        PROVE  sweep' \in Sweep /\ sweep'.pc = "begin" /\ sweep'.closure = c
    BY <1>3 DEF Selects, Sweep
  <1>4. CASE Begins
    <2>1. sweep.closure \in Closures
      BY <1>0, <1>4 DEF Begins, WorkLocated
    <2>2. sweep' \in Sweep /\ sweep'.pc = "erase" /\ sweep'.closure = sweep.closure
      BY <1>4, <2>1 DEF Begins, Sweep
    <2> QED BY <1>0, <1>4, <2>1, <2>2 DEF Begins
  <1>5. CASE Waits
    <2>1. IdleSweep \in Sweep /\ IdleSweep.pc = "idle" /\ IdleSweep.closure = NoClosure
      BY DEF IdleSweep, Sweep
    <2>2. active' \in BOOLEAN /\ doubled' \in BOOLEAN
      BY <1>0, <1>5, Zenon DEF Waits
    <2>3. now' \in Nat
      BY <1>0, <1>5 DEF Waits
    <2>4. UNCHANGED <<rows, tokens, spared>> /\ sweep' \in {sweep, IdleSweep}
      BY <1>5 DEF Waits
    <2> QED BY <1>0, <2>1, <2>2, <2>3, <2>4 DEF rows, WorkLocated
  <1>6. ASSUME NEW c \in Closures, Finishes(c)
        PROVE  status' \in [Closures -> {"absent", "grace", "deleting", "cancelled", "deleted"}]
    BY <1>0, <1>6 DEF Finishes
  <1>7. ASSUME NEW c \in Closures, Opens(c, "manual") \/ Opens(c, "inactivity")
                                     \/ Selects(c) \/ Finishes(c)
        PROVE  /\ status' \in [Closures -> {"absent", "grace", "deleting", "cancelled", "deleted"}]
               /\ graceEnds' \in [Closures -> Nat] /\ trigger' \in [Closures -> {"manual", "inactivity"}]
               /\ tokens' \subseteq Closures /\ spared' \subseteq Closures
               /\ active' \in BOOLEAN /\ doubled' \in BOOLEAN
               /\ sweep' \in Sweep /\ now' \in Nat
               /\ IF sweep'.pc = "idle" THEN sweep'.closure = NoClosure
                                        ELSE sweep'.closure \in Closures
    <2>1. CASE Opens(c, "manual") \/ Opens(c, "inactivity")
      BY <1>0, <1>1, <2>1 DEF WorkLocated
    <2>2. CASE Selects(c)
      BY <1>0, <1>3, <2>2 DEF Selects, rows
    <2>3. CASE Finishes(c)
      BY <1>0, <1>6, <2>3 DEF Finishes, WorkLocated
    <2> QED BY <1>7, <2>1, <2>2, <2>3
  <1>8. ASSUME NEW k \in Calls, Cancels(k)
        PROVE  /\ graceEnds' = graceEnds /\ trigger' = trigger /\ tokens' = tokens
               /\ active' = TRUE /\ doubled' = doubled /\ sweep' = sweep /\ now' = now
    BY <1>8 DEF Cancels
  <1>9. CASE \E k \in Calls : Cancels(k)
    BY <1>0, <1>2, <1>8, <1>9 DEF WorkLocated
  <1> QED BY <1>4, <1>5, <1>7, <1>9, DoorSteps

\* The host's side of the account.
LEMMA PersonTypesKept ==
  ASSUME DoorTypeInv, [Next]_vars
  PROVE  /\ erased' \in BOOLEAN /\ held' \in BOOLEAN /\ session' \in BOOLEAN
         /\ strayed' \in BOOLEAN
         /\ task' \in {"idle", "check", "create", "warn"}
         /\ warned' \subseteq WarnBefore /\ looked' \subseteq WarnBefore
  <1>0. /\ erased \in BOOLEAN /\ held \in BOOLEAN /\ session \in BOOLEAN /\ strayed \in BOOLEAN
        /\ task \in {"idle", "check", "create", "warn"}
        /\ warned \subseteq WarnBefore /\ looked \subseteq WarnBefore
    BY DEF DoorTypeInv, DoorTypeOK
  <1>1. ASSUME NEW k \in Calls,
               \/ CloseAccount(k) \/ CancelWithSession(k) \/ SpendUnavailable(k)
               \/ CloseStep(k) \/ CancelStep(k) \/ \E c \in Closures : CancelWithToken(k, c)
        PROVE  /\ erased' = erased /\ held' = held /\ task' = task
               /\ warned' = warned /\ looked' = looked
               /\ session' \in {session, FALSE} /\ (strayed' = strayed \/ strayed' \in BOOLEAN)
    BY <1>1, Zenon
    DEF CloseAccount, CancelWithSession, SpendUnavailable, CloseStep, CancelStep, Spend, Refuse,
        SpendSet, InitiateCheck, InitiateCommit, OpenClosure, CancelRead, CancelSave,
        CancelWithToken, person, history
  <1>2. CASE InactivitySelect \/ BeatMissed \/ InactivityCheck
    BY <1>0, <1>2 DEF InactivitySelect, BeatMissed, InactivityCheck, person, history
  <1>3. CASE InactivityCommit
    BY <1>0, <1>3 DEF InactivityCommit, OpenClosure
  <1>4. CASE InactivityWarn
    <2>1. warned' \subseteq WarnBefore /\ looked' \subseteq WarnBefore
      BY <1>0, <1>4 DEF InactivityWarn, Due
    <2> QED BY <1>0, <1>4, <2>1 DEF InactivityWarn, person
  <1>5. CASE ExecuteErase \/ Login \/ ClaimSync \/ SetHold
    BY <1>0, <1>5 DEF ExecuteErase, Login, ClaimSync, SetHold, history
  <1>6. CASE ExecuteBegin \/ Tick \/ UNCHANGED vars
    BY <1>0, <1>6 DEF ExecuteBegin, Tick, vars, person, history
  <1>7. ASSUME NEW c \in Closures, SweepSelect(c) \/ Finalize(c)
        PROVE  UNCHANGED <<erased, held, session, strayed, task, warned, looked>>
    BY <1>7 DEF SweepSelect, Finalize, person, history
  <1> QED
    BY <1>0, <1>1, <1>2, <1>3, <1>4, <1>5, <1>6, <1>7 DEF Next, TaskStep, SweepStep

\* The clock, the beat and the last login.
LEMMA ClockTypesKept ==
  ASSUME DoorTypeInv, [Next]_vars
  PROVE  /\ lastLogin' \in 0..now' /\ now' \in 0..MaxNow
         /\ nextBeat' \in Nat /\ nextBeat' <= now' + Day /\ now' <= nextBeat' + MaxLate
         /\ failures' \in 0..MaxFailures
  <1>0. /\ lastLogin \in 0..now /\ now \in 0..MaxNow
        /\ nextBeat \in Nat /\ nextBeat <= now + Day /\ now <= nextBeat + MaxLate
        /\ failures \in 0..MaxFailures /\ MaxNow \in Nat /\ MaxFailures \in Nat
        /\ Day \in Nat /\ MaxLate \in Nat
    BY DoorAssumption DEF DoorTypeInv, DoorTypeOK, Day
  <1>1. ASSUME NEW k \in Calls,
               \/ CloseAccount(k) \/ CancelWithSession(k) \/ SpendUnavailable(k)
               \/ CloseStep(k) \/ CancelStep(k) \/ \E c \in Closures : CancelWithToken(k, c)
        PROVE  UNCHANGED <<lastLogin, now, nextBeat>> /\ (failures' = failures \/ Fails)
    BY <1>1
    DEF CloseAccount, CancelWithSession, SpendUnavailable, CloseStep, CancelStep, Spend, Refuse,
        SpendSet, InitiateCheck, InitiateCommit, OpenClosure, CancelRead, CancelSave,
        CancelWithToken, person, clocks
  <1>2. ASSUME NEW c \in Closures, SweepSelect(c) \/ Finalize(c)
        PROVE  UNCHANGED <<lastLogin, now, nextBeat, failures>>
    BY <1>2 DEF SweepSelect, Finalize, person, clocks
  <1>3. CASE InactivitySelect \/ BeatMissed
    <2>1. UNCHANGED <<lastLogin, now>> /\ nextBeat <= now /\ nextBeat' = nextBeat + Day
          /\ (failures' = failures \/ Fails)
      BY <1>3 DEF InactivitySelect, BeatMissed, person
    <2> QED BY <1>0, <2>1 DEF Fails
  <1>4. CASE InactivityCheck \/ InactivityCommit \/ InactivityWarn
    BY <1>0, <1>4 DEF InactivityCheck, InactivityCommit, InactivityWarn, Fails, person, clocks
  <1>5. CASE ExecuteBegin \/ ExecuteErase \/ ClaimSync \/ SetHold \/ UNCHANGED vars
    BY <1>0, <1>5 DEF ExecuteBegin, ExecuteErase, ClaimSync, SetHold, vars, person, clocks
  <1>6. CASE Login
    BY <1>0, <1>6 DEF Login, clocks
  <1>7. CASE Tick
    BY <1>0, <1>7 DEF Tick, person
  <1>8. failures' = failures \/ Fails => failures' \in 0..MaxFailures
    BY <1>0 DEF Fails
  <1> QED
    BY <1>0, <1>1, <1>2, <1>3, <1>4, <1>5, <1>6, <1>7, <1>8 DEF Next, TaskStep, SweepStep

-----------------------------------------------------------------------------
(* The budget                                                              *)

\* A slot is counted, an hour without one empties the entry, and nothing else
\* touches it. Time passes only while no call is in flight.
BudgetStep ==
    \/ /\ UNCHANGED <<budget, admitted>>
       /\ \/ now' = now
          \/ now' = now + 1 /\ now + 1 < budget.until /\ \A k \in Calls : call[k].pc = "idle"
    \/ /\ budget' = NoBudget /\ admitted' = <<>>
       /\ call' = call /\ \A k \in Calls : call[k].pc = "idle"
    \/ \E k \in Calls : /\ call[k].pc = "set" /\ now' = now
                        /\ budget' = [count |-> call[k].count + 1, until |-> now + Window]
                        /\ admitted' = IF Len(Append(admitted, now)) > Limit
                                         THEN Tail(Append(admitted, now))
                                         ELSE Append(admitted, now)

LEMMA BudgetSteps ==
  ASSUME DoorTypeInv, [Next]_vars
  PROVE  BudgetStep
  <1>1. ASSUME NEW k \in Calls,
               \/ CloseAccount(k) \/ CancelWithSession(k) \/ SpendUnavailable(k)
               \/ Spend(k) \/ Refuse(k) \/ InitiateCheck(k) \/ InitiateCommit(k)
               \/ CancelStep(k) \/ \E c \in Closures : CancelWithToken(k, c)
        PROVE  UNCHANGED <<budget, admitted, now>>
    BY <1>1
    DEF CloseAccount, CancelWithSession, SpendUnavailable, CancelStep, Spend, Refuse,
        InitiateCheck, InitiateCommit, CancelRead, CancelSave, CancelWithToken, history, clocks
  <1>2. ASSUME NEW k \in Calls, SpendSet(k) PROVE BudgetStep
    BY <1>2 DEF SpendSet, BudgetStep, clocks
  <1>3. ASSUME NEW c \in Closures, SweepSelect(c) \/ Finalize(c)
        PROVE  UNCHANGED <<budget, admitted, now>>
    BY <1>3 DEF SweepSelect, Finalize, history, clocks
  <1>4. CASE \/ InactivitySelect \/ BeatMissed \/ TaskStep \/ SweepStep \/ Login \/ ClaimSync
             \/ SetHold \/ UNCHANGED vars
    <2>1. UNCHANGED <<budget, admitted, now>>
      BY <1>4 DEF InactivitySelect, BeatMissed, TaskStep, InactivityCheck, InactivityCommit,
                  InactivityWarn, SweepStep, ExecuteBegin, ExecuteErase, Login, ClaimSync,
                  SetHold, vars, history, clocks
    <2> QED BY <2>1 DEF BudgetStep
  <1>5. CASE Tick
    BY <1>5 DEF Tick, BudgetStep
  <1>6. UNCHANGED <<budget, admitted, now>> => BudgetStep
    BY DEF BudgetStep
  <1> QED BY <1>1, <1>2, <1>3, <1>4, <1>5, <1>6 DEF Next, CloseStep

\* What is left when the oldest slot is dropped.
LEMMA DropFirst ==
  ASSUME NEW all \in Seq(Nat), all # <<>>
  PROVE  /\ Tail(all) \in Seq(Nat) /\ Len(Tail(all)) = Len(all) - 1
         /\ \A j \in 1..Len(all) - 1 : Tail(all)[j] = all[j + 1]
  OBVIOUS

\* The last slots of a sequence of at most limit, after one more.
LEMMA LastSlots ==
  ASSUME NEW s \in Seq(Nat), NEW n \in Nat, NEW limit \in Nat \ {0}, Len(s) <= limit,
         NEW r, r = IF Len(Append(s, n)) > limit THEN Tail(Append(s, n)) ELSE Append(s, n)
  PROVE  /\ r \in Seq(Nat) /\ r # <<>> /\ Len(r) <= limit /\ r[Len(r)] = n
         /\ Len(r) = IF Len(s) = limit THEN limit ELSE Len(s) + 1
  <1>1. Append(s, n) \in Seq(Nat) /\ Len(Append(s, n)) = Len(s) + 1 /\ Len(s) \in Nat
        /\ Append(s, n)[Len(s) + 1] = n
    OBVIOUS
  <1>2. CASE Len(s) < limit
    BY <1>1, <1>2
  <1>3. CASE Len(s) = limit
    <2> DEFINE all == Append(s, n)
    <2>1. r = Tail(all) /\ all # <<>>
      BY <1>1, <1>3
    <2>0. all \in Seq(Nat) /\ Len(all) = Len(s) + 1 /\ all[Len(s) + 1] = n
      BY <1>1
    <2> HIDE DEF all
    <2>2. Tail(all) \in Seq(Nat) /\ Len(Tail(all)) = Len(all) - 1
          /\ \A i \in 1..Len(all) - 1 : Tail(all)[i] = all[i + 1]
      BY <2>0, <2>1, DropFirst, Zenon
    <2>3. Len(r) = limit /\ Len(all) = limit + 1 /\ r[limit] = n
      BY <1>1, <1>3, <2>0, <2>1, <2>2
    <2> QED BY <1>3, <2>1, <2>2, <2>3
  <1>4. Len(s) < limit \/ Len(s) = limit
    BY <1>1
  <1> QED BY <1>2, <1>3, <1>4

\* Neighbours in it were neighbours before, or are the last one and the new one.
LEMMA SlotNeighbours ==
  ASSUME NEW s \in Seq(Nat), NEW n \in Nat, NEW limit \in Nat \ {0}, Len(s) <= limit,
         NEW r, r = IF Len(Append(s, n)) > limit THEN Tail(Append(s, n)) ELSE Append(s, n),
         NEW i \in 1..Len(r) - 1
  PROVE  \/ i + 1 <= Len(s) /\ r[i] = s[i] /\ r[i + 1] = s[i + 1]
         \/ i = Len(s) /\ r[i] = s[i] /\ r[i + 1] = n
         \/ i + 2 <= Len(s) /\ r[i] = s[i + 1] /\ r[i + 1] = s[i + 2]
         \/ i + 1 = Len(s) /\ r[i] = s[i + 1] /\ r[i + 1] = n
  <1>1. Append(s, n) \in Seq(Nat) /\ Len(Append(s, n)) = Len(s) + 1 /\ Len(s) \in Nat
        /\ Append(s, n)[Len(s) + 1] = n /\ \A j \in 1..Len(s) : Append(s, n)[j] = s[j]
    OBVIOUS
  <1>2. CASE Len(s) < limit
    BY <1>1, <1>2
  <1>3. CASE Len(s) = limit
    <2> DEFINE all == Append(s, n)
    <2>1. r = Tail(all) /\ all # <<>>
      BY <1>1, <1>3
    <2>0. /\ all \in Seq(Nat) /\ Len(all) = Len(s) + 1 /\ Len(s) \in Nat
          /\ all[Len(s) + 1] = n /\ \A j \in 1..Len(s) : all[j] = s[j]
      BY <1>1, Zenon
    <2> HIDE DEF all
    <2>2. Tail(all) \in Seq(Nat) /\ Len(Tail(all)) = Len(all) - 1
          /\ \A j \in 1..Len(all) - 1 : Tail(all)[j] = all[j + 1]
      BY <2>0, <2>1, DropFirst, Zenon
    <2>3. i + 1 \in 1..Len(s) /\ i \in 1..Len(all) - 1 /\ i + 1 \in 1..Len(all) - 1
      BY <1>3, <2>0, <2>1, <2>2
    <2>4. r[i] = all[i + 1] /\ r[i + 1] = all[(i + 1) + 1]
      <3>1. Tail(all)[i] = all[i + 1] /\ Tail(all)[i + 1] = all[(i + 1) + 1]
        BY <2>2, <2>3, Zenon
      <3> QED BY <2>1, <3>1, Zenon
    <2>5. all[i + 1] = s[i + 1]
      BY <2>0, <2>3
    <2>6. CASE i + 2 <= Len(s)
      <3>1. (i + 1) + 1 \in 1..Len(s) /\ (i + 1) + 1 = i + 2
        BY <2>0, <2>3, <2>6
      <3>2. all[(i + 1) + 1] = s[(i + 1) + 1]
        BY <2>0, <3>1
      <3> QED BY <2>4, <2>5, <2>6, <3>1, <3>2
    <2>7. CASE ~(i + 2 <= Len(s))
      <3>1. i + 1 = Len(s) /\ (i + 1) + 1 = Len(s) + 1
        BY <2>0, <2>3, <2>7
      <3> QED BY <2>0, <2>4, <2>5, <3>1
    <2> QED BY <2>6, <2>7
  <1>4. Len(s) < limit \/ Len(s) = limit
    BY <1>1
  <1> QED BY <1>2, <1>3, <1>4

LEMMA BudgetTypesKept ==
  ASSUME DoorTypeInv, [Next]_vars
  PROVE  /\ budget' \in [count : 0..Limit, until : Nat]
         /\ admitted' \in Seq(Nat) /\ Len(admitted') <= Limit
  <1>0. /\ budget \in [count : 0..Limit, until : Nat] /\ now \in Nat /\ Window \in Nat
        /\ admitted \in Seq(Nat) /\ Len(admitted) <= Limit /\ Limit \in Nat
        /\ call \in [Calls -> Call] /\ WorkLocated
    BY DoorAssumption DEF DoorTypeInv, DoorTypeOK
  <1>1. CASE UNCHANGED <<budget, admitted>>
    BY <1>0, <1>1
  <1>2. CASE budget' = NoBudget /\ admitted' = <<>>
    <2>1. NoBudget \in [count : 0..Limit, until : Nat]
      BY <1>0 DEF NoBudget
    <2>2. <<>> \in Seq(Nat) /\ Len(<<>>) = 0
      OBVIOUS
    <2> QED BY <1>0, <1>2, <2>1, <2>2
  <1>3. ASSUME NEW k \in Calls, call[k].pc = "set",
               budget' = [count |-> call[k].count + 1, until |-> now + Window],
               admitted' = IF Len(Append(admitted, now)) > Limit
                             THEN Tail(Append(admitted, now)) ELSE Append(admitted, now)
        PROVE  /\ budget' \in [count : 0..Limit, until : Nat]
               /\ admitted' \in Seq(Nat) /\ Len(admitted') <= Limit
    <2>1. PICK n \in Nat : n = call[k].count /\ n < Limit
      BY <1>0, <1>3 DEF Call, WorkLocated
    <2>2. n + 1 \in 0..Limit /\ now + Window \in Nat
      BY <1>0, <2>1
    <2>3. budget' \in [count : 0..Limit, until : Nat]
      BY <1>3, <2>1, <2>2
    <2>4. Limit \in Nat \ {0}
      BY <1>0, <2>1
    <2>5. admitted' \in Seq(Nat) /\ Len(admitted') <= Limit
      BY <1>0, <1>3, <2>4, LastSlots
    <2> QED BY <2>3, <2>5
  <1> QED BY <1>1, <1>2, <1>3, BudgetSteps DEF BudgetStep

LEMMA DoorTypesInit == Init => DoorTypeInv
  <1> SUFFICES ASSUME Init PROVE DoorTypeInv
    OBVIOUS
  <1> USE DoorAssumption
  <1>1. /\ status \in [Closures -> {"absent", "grace", "deleting", "cancelled", "deleted"}]
        /\ graceEnds \in [Closures -> Nat] /\ trigger \in [Closures -> {"manual", "inactivity"}]
    BY DEF Init
  <1>2. call \in [Calls -> Call] /\ \A k \in Calls : call[k].pc = "idle"
    BY DEF Init, IdleCall, Call
  <1>3. sweep \in Sweep /\ sweep.pc = "idle" /\ sweep.closure = NoClosure
    BY DEF Init, IdleSweep, Sweep
  <1>4. budget \in [count : 0..Limit, until : Nat]
    BY DEF Init, NoBudget
  <1>5. /\ lastLogin \in 0..now /\ now \in 0..MaxNow /\ failures \in 0..MaxFailures
        /\ nextBeat \in Nat /\ nextBeat <= now + Day /\ now <= nextBeat + MaxLate
    BY DEF Init, Day
  <1>6. admitted \in Seq(Nat) /\ Len(admitted) <= Limit
    BY DEF Init
  <1>7. /\ active \in BOOLEAN /\ erased \in BOOLEAN /\ held \in BOOLEAN
        /\ session \in BOOLEAN /\ doubled \in BOOLEAN /\ strayed \in BOOLEAN
        /\ tokens \subseteq Closures /\ spared \subseteq Closures
        /\ warned \subseteq WarnBefore /\ looked \subseteq WarnBefore
        /\ task \in {"idle", "check", "create", "warn"}
    BY DEF Init
  <1> QED BY <1>1, <1>2, <1>3, <1>4, <1>5, <1>6, <1>7
      DEF DoorTypeInv, DoorTypeOK, WorkLocated

LEMMA DoorTypesStep == DoorTypeInv /\ [Next]_vars => DoorTypeInv'
  <1> SUFFICES ASSUME DoorTypeInv, [Next]_vars PROVE DoorTypeInv'
    OBVIOUS
  <1>1. WorkLocated'
    BY CallTypes, RowTypesKept DEF WorkLocated
  <1>2. DoorTypeOK'
    BY CallTypes, RowTypesKept, PersonTypesKept, ClockTypesKept, BudgetTypesKept, Zenon
    DEF DoorTypeOK
  <1> QED BY <1>1, <1>2 DEF DoorTypeInv

\* Every row, call, counter and history entry of the doors keeps its type.
THEOREM DoorTypes == Spec => []DoorTypeOK
  <1>1. DoorTypeInv => DoorTypeOK
    BY DEF DoorTypeInv
  <1> QED BY <1>1, DoorTypesInit, DoorTypesStep, PTL DEF Spec

\* What stands in the cache was spent, slot by slot, within a window of the
\* next one, and calls in flight read no more than that.
BudgetInv ==
    /\ DoorTypeInv
    /\ budget.count <= Len(admitted)
    /\ \A k \in Calls : call[k].pc = "set" => call[k].count <= Len(admitted)
    /\ \A i \in 1..Len(admitted) - 1 : admitted[i + 1] - admitted[i] < Window
    /\ Len(admitted) > 0 => /\ now - admitted[Len(admitted)] < Window
                            /\ budget.until = admitted[Len(admitted)] + Window

LEMMA BudgetInit == Init => BudgetInv
  <1> SUFFICES ASSUME Init PROVE BudgetInv
    OBVIOUS
  <1>1. admitted = <<>> /\ Len(admitted) = 0 /\ budget.count = 0
    BY DEF Init, NoBudget
  <1>2. \A k \in Calls : call[k].pc = "idle"
    BY DEF Init, IdleCall
  <1> QED BY <1>1, <1>2, DoorTypesInit DEF BudgetInv

LEMMA BudgetKept == BudgetInv /\ [Next]_vars => BudgetInv'
  <1> SUFFICES ASSUME BudgetInv, [Next]_vars PROVE BudgetInv'
    OBVIOUS
  <1>0. /\ DoorTypeInv /\ DoorTypeInv' /\ budget.count \in Nat /\ budget.until \in Nat
        /\ now \in Nat /\ Window \in Nat \ {0} /\ Limit \in Nat
        /\ admitted \in Seq(Nat) /\ Len(admitted) <= Limit /\ Len(admitted) \in Nat
        /\ call \in [Calls -> Call] /\ WorkLocated
    <2>1. DoorTypeInv /\ DoorTypeInv'
      BY DoorTypesStep DEF BudgetInv
    <2>2. /\ budget \in [count : 0..Limit, until : Nat] /\ now \in 0..MaxNow
          /\ admitted \in Seq(Nat) /\ Len(admitted) <= Limit
          /\ call \in [Calls -> Call] /\ WorkLocated
      BY <2>1 DEF DoorTypeInv, DoorTypeOK
    <2>3. /\ Window \in Nat \ {0} /\ Limit \in Nat /\ MaxNow \in Nat
      BY DoorAssumption
    <2>4. Len(admitted) \in Nat
      BY <2>2
    <2>5. budget.count \in Nat /\ budget.until \in Nat /\ now \in Nat
      BY <2>2, <2>3
    <2> QED BY <2>1, <2>2, <2>3, <2>4, <2>5
  \* The calls: a fresh reading is the counter, the others are older.
  <1>1. ASSUME NEW n \in Nat, Len(admitted) <= n
        PROVE  \A k \in Calls : call'[k].pc = "set" => call'[k].count <= n
    <2> SUFFICES ASSUME NEW k \in Calls, call'[k].pc = "set" PROVE call'[k].count <= n
      OBVIOUS
    <2>1. CASE call'[k] = call[k]
      <3>1. call[k].count \in Nat
        BY <1>0 DEF Call
      <3> QED BY <1>0, <1>1, <2>1, <3>1 DEF BudgetInv
    <2>2. CASE call'[k] # call[k]
      <3>1. PICK j \in Calls, new \in Call : CallMove(j, new)
        BY <1>0, <2>2, CallMoves
      <3>2. call'[k] = new
        BY <1>0, <2>2, <3>1 DEF CallMove
      <3>3. new.count = budget.count
        BY <3>1, <3>2 DEF CallMove
      <3> QED BY <1>0, <1>1, <3>2, <3>3 DEF BudgetInv
    <2> QED BY <2>1, <2>2
  <1>2. ASSUME UNCHANGED <<budget, admitted>>,
               now' = now \/ (now' = now + 1 /\ now + 1 < budget.until)
        PROVE  BudgetInv'
    <2>1. \A k \in Calls : call'[k].pc = "set" => call'[k].count <= Len(admitted)
      BY <1>0, <1>1
    <2>2. Len(admitted) > 0 => admitted[Len(admitted)] \in Nat
      BY <1>0
    <2>3. Len(admitted) > 0 => now' - admitted[Len(admitted)] < Window
      BY <1>0, <1>2, <2>2 DEF BudgetInv
    <2> QED BY <1>0, <1>2, <2>1, <2>3 DEF BudgetInv
  <1>3. ASSUME budget' = NoBudget, admitted' = <<>>, call' = call, \A k \in Calls : call[k].pc = "idle"
        PROVE  BudgetInv'
    <2>1. Len(admitted') = 0 /\ budget'.count = 0
      BY <1>3 DEF NoBudget
    <2> QED BY <1>0, <1>3, <2>1 DEF BudgetInv
  <1>4. ASSUME NEW k \in Calls, call[k].pc = "set", now' = now,
               budget' = [count |-> call[k].count + 1, until |-> now + Window],
               admitted' = IF Len(Append(admitted, now)) > Limit
                             THEN Tail(Append(admitted, now)) ELSE Append(admitted, now)
        PROVE  BudgetInv'
    <2>1. PICK c \in Nat : c = call[k].count /\ c < Limit /\ c <= Len(admitted)
      BY <1>0, <1>4 DEF Call, WorkLocated, BudgetInv
    <2>2. Limit \in Nat \ {0}
      BY <1>0, <2>1
    <2> PICK s \in Seq(Nat) : s = admitted
      BY <1>0
    <2> PICK r : r = admitted'
      OBVIOUS
    <2>10. r = IF Len(Append(s, now)) > Limit THEN Tail(Append(s, now)) ELSE Append(s, now)
      BY <1>4
    <2>11. Len(s) <= Limit
      BY <1>0
    <2>13. now \in Nat
      BY <1>0
    <2>3. /\ r \in Seq(Nat) /\ Len(r) <= Limit /\ r[Len(r)] = now
          /\ Len(r) = IF Len(s) = Limit THEN Limit ELSE Len(s) + 1
      BY <2>2, <2>10, <2>11, <2>13, LastSlots
    <2>12. ASSUME NEW i \in 1..Len(r) - 1
           PROVE  \/ i + 1 <= Len(s) /\ r[i] = s[i] /\ r[i + 1] = s[i + 1]
                  \/ i = Len(s) /\ r[i] = s[i] /\ r[i + 1] = now
                  \/ i + 2 <= Len(s) /\ r[i] = s[i + 1] /\ r[i + 1] = s[i + 2]
                  \/ i + 1 = Len(s) /\ r[i] = s[i + 1] /\ r[i + 1] = now
      BY <2>2, <2>10, <2>11, <2>12, <2>13, SlotNeighbours, SMTT(30)
    <2>4. /\ s \in Seq(Nat) /\ Len(s) \in Nat
          /\ \A i \in 1..Len(s) - 1 : s[i + 1] - s[i] < Window
          /\ Len(s) > 0 => now - s[Len(s)] < Window
      BY <1>0 DEF BudgetInv
    <2>5. budget'.count = c + 1 /\ budget'.until = now + Window
      BY <1>4, <2>1
    <2>6. \A j \in Calls : call'[j].pc = "set" => call'[j].count <= Len(r)
      <3>1. Len(r) \in Nat /\ Len(admitted) <= Len(r)
        BY <1>0, <2>3, <2>4
      <3> QED BY <1>1, <3>1
    <2>7. budget'.count <= Len(r)
      BY <1>0, <2>1, <2>3, <2>4, <2>5
    <2>8. ASSUME NEW i \in 1..Len(r) - 1 PROVE r[i + 1] - r[i] < Window
      <3>1. i \in Nat /\ i >= 1
        BY <2>3
      <3>2. CASE i + 1 <= Len(s) /\ r[i] = s[i] /\ r[i + 1] = s[i + 1]
        BY <2>4, <3>1, <3>2
      <3>3. CASE i = Len(s) /\ r[i] = s[i] /\ r[i + 1] = now
        BY <2>4, <3>1, <3>3
      <3>4. CASE i + 2 <= Len(s) /\ r[i] = s[i + 1] /\ r[i + 1] = s[i + 2]
        <4>1. i + 1 \in 1..Len(s) - 1 /\ (i + 1) + 1 = i + 2
          BY <2>4, <3>1, <3>4
        <4>2. s[(i + 1) + 1] - s[i + 1] < Window
          BY <2>4, <4>1
        <4> QED BY <3>4, <4>1, <4>2
      <3>5. CASE i + 1 = Len(s) /\ r[i] = s[i + 1] /\ r[i + 1] = now
        BY <2>4, <3>1, <3>5
      <3> QED BY <2>8, <2>12, <3>2, <3>3, <3>4, <3>5
    <2>9. now' - r[Len(r)] < Window /\ budget'.until = r[Len(r)] + Window
      <3>0. now' = now
        BY <1>4
      <3>2. now - now = 0 /\ 0 < Window
        BY <1>0
      <3>1. now' = now /\ r[Len(r)] = now /\ now - now = 0 /\ 0 < Window
        BY <2>3, <3>0, <3>2
      <3> QED BY <2>5, <3>1
    <2> QED BY <1>0, <2>6, <2>7, <2>8, <2>9 DEF BudgetInv
  <1> QED BY <1>0, <1>2, <1>3, <1>4, BudgetSteps DEF BudgetStep

\* Nobody is refused who has not spent a whole budget within a window of slot
\* to slot, and staying away for a window restores it.
THEOREM Refusals == Spec => []RefusalHasCause
  <1>1. BudgetInv => RefusalHasCause
    <2> SUFFICES ASSUME BudgetInv, Limit > 0, budget.count >= Limit
                 PROVE  /\ Len(admitted) = Limit
                        /\ \A i \in 1..Limit :
                              (IF i = Limit THEN now ELSE admitted[i + 1]) - admitted[i] < Window
      BY DEF RefusalHasCause
    <2>1. /\ budget \in [count : 0..Limit, until : Nat] /\ Limit \in Nat
          /\ admitted \in Seq(Nat) /\ Len(admitted) <= Limit
      BY DoorAssumption DEF BudgetInv, DoorTypeInv, DoorTypeOK
    <2>2. Len(admitted) \in Nat /\ budget.count \in Nat
      BY <2>1
    <2>3. Len(admitted) = Limit
      BY <2>1, <2>2 DEF BudgetInv
    <2>4. ASSUME NEW i \in 1..Limit
          PROVE  (IF i = Limit THEN now ELSE admitted[i + 1]) - admitted[i] < Window
      <3>1. CASE i = Limit
        BY <2>1, <2>3, <3>1 DEF BudgetInv
      <3>2. CASE i # Limit
        <4>1. i \in 1..Len(admitted) - 1
          BY <2>1, <2>3, <3>2
        <4> QED BY <3>2, <4>1 DEF BudgetInv
      <3> QED BY <3>1, <3>2
    <2> QED BY <2>3, <2>4
  <1> QED BY <1>1, BudgetInit, BudgetKept, PTL DEF Spec

-----------------------------------------------------------------------------
(* Closures, their tokens and the sweep                                    *)

\* Rows get their primary keys in order.
InOrder == \A c, d \in Closures : c < d /\ status[c] = "absent" => status[d] = "absent"

\* Whoever closed the account by hand has the token.
HandedOver ==
    \A c \in Closures : status[c] # "absent" /\ trigger[c] = "manual" => c \in tokens

GraceIsNewest == ~doubled => \A c \in Closures : status[c] = "grace" => Newest(c)

\* The sweep works on a closure whose grace is over; what a call is about to
\* save is a row.
WorkGrounded ==
    /\ sweep.pc # "idle" => /\ status[sweep.closure] # "absent"
                            /\ graceEnds[sweep.closure] <= now
    /\ \A k \in Calls : call[k].pc = "save" => status[call[k].closure] # "absent"

DoorInv ==
    /\ DoorTypeInv /\ NoLockout /\ SparedIsKept
    /\ InOrder /\ HandedOver /\ GraceIsNewest /\ WorkGrounded

LEMMA DoorInit == Init => DoorInv
  <1> SUFFICES ASSUME Init PROVE DoorInv
    OBVIOUS
  <1>1. /\ \A c \in Closures : status[c] = "absent"
        /\ \A k \in Calls : call[k].pc = "idle"
        /\ active /\ spared = {} /\ sweep.pc = "idle"
    BY DEF Init, IdleCall, IdleSweep
  <1> QED BY <1>1, DoorTypesInit
      DEF DoorInv, NoLockout, SparedIsKept, InOrder, HandedOver, GraceIsNewest, WorkGrounded

\* A row is never taken back, and its grace ends when it was to end.
LEMMA RowsRemain ==
  ASSUME DoorInv, [Next]_vars, NEW c \in Closures, status[c] # "absent"
  PROVE  /\ status'[c] # "absent" /\ graceEnds'[c] = graceEnds[c] /\ trigger'[c] = trigger[c]
         /\ c \in tokens => c \in tokens'
         /\ status'[c] = "grace" => status[c] = "grace"
  <1>0. /\ DoorTypeInv /\ WorkLocated
        /\ status \in [Closures -> {"absent", "grace", "deleting", "cancelled", "deleted"}]
        /\ graceEnds \in [Closures -> Nat] /\ trigger \in [Closures -> {"manual", "inactivity"}]
    BY DEF DoorInv, DoorTypeInv, DoorTypeOK
  <1>1. ASSUME NEW d \in Closures, NEW why \in {"manual", "inactivity"}, Opens(d, why)
        PROVE  /\ status'[c] = status[c] /\ graceEnds'[c] = graceEnds[c]
               /\ trigger'[c] = trigger[c] /\ tokens \subseteq tokens'
    BY <1>0, <1>1 DEF Opens, OpenClosure
  <1>2. ASSUME NEW k \in Calls, Cancels(k)
        PROVE  /\ status'[c] \in {status[c], "cancelled"}
               /\ UNCHANGED <<graceEnds, trigger, tokens>>
    BY <1>0, <1>2 DEF Cancels
  <1>3. ASSUME NEW d \in Closures, Selects(d) PROVE UNCHANGED <<status, graceEnds, trigger, tokens>>
    BY <1>3 DEF Selects, rows
  <1>4. ASSUME NEW d \in Closures, Finishes(d)
        PROVE  /\ status'[c] \in {status[c], "deleted"}
               /\ UNCHANGED <<graceEnds, trigger, tokens>>
    BY <1>0, <1>4 DEF Finishes
  <1>5. CASE Begins
    BY <1>0, <1>5 DEF Begins
  <1>6. CASE Waits
    BY <1>6 DEF Waits, rows
  <1> QED BY <1>0, <1>1, <1>2, <1>3, <1>4, <1>5, <1>6, DoorSteps

\* A row comes to be by initiate_closure, with the next primary key.
LEMMA RowsBegin ==
  ASSUME DoorInv, [Next]_vars, NEW c \in Closures, status[c] = "absent", status'[c] # "absent"
  PROVE  \E why \in {"manual", "inactivity"} : Opens(c, why)
  <1>0. /\ DoorTypeInv /\ WorkLocated /\ WorkGrounded
        /\ status \in [Closures -> {"absent", "grace", "deleting", "cancelled", "deleted"}]
    BY DEF DoorInv, DoorTypeInv, DoorTypeOK
  <1>1. ASSUME NEW d \in Closures, NEW why \in {"manual", "inactivity"}, Opens(d, why)
        PROVE  d = c
    BY <1>0, <1>1 DEF Opens, OpenClosure
  <1>2. ASSUME NEW k \in Calls, Cancels(k) PROVE FALSE
    BY <1>0, <1>2 DEF Cancels, WorkLocated, WorkGrounded
  <1>3. ASSUME NEW d \in Closures, Selects(d) \/ Finishes(d) PROVE FALSE
    BY <1>0, <1>3 DEF Selects, Finishes, rows
  <1>4. CASE Begins
    BY <1>0, <1>4 DEF Begins, WorkLocated, WorkGrounded
  <1>5. CASE Waits
    BY <1>5 DEF Waits, rows
  <1> QED BY <1>0, <1>1, <1>2, <1>3, <1>4, <1>5, DoorSteps

LEMMA DoorRows ==
  ASSUME DoorInv, [Next]_vars
  PROVE  InOrder' /\ HandedOver' /\ GraceIsNewest'
  <1>0. /\ DoorTypeInv /\ InOrder /\ HandedOver /\ GraceIsNewest
        /\ status \in [Closures -> {"absent", "grace", "deleting", "cancelled", "deleted"}]
        /\ trigger \in [Closures -> {"manual", "inactivity"}] /\ Closures \subseteq Int
    BY DoorAssumption DEF DoorInv, DoorTypeInv, DoorTypeOK, Closures
  <1>1. InOrder'
    <2> SUFFICES ASSUME NEW c \in Closures, NEW d \in Closures, c < d, status'[c] = "absent",
                        status'[d] # "absent"
                 PROVE  FALSE
      BY DEF InOrder
    <2>1. status[c] = "absent"
      BY RowsRemain
    <2>2. status[d] = "absent"
      BY <1>0, <2>1 DEF InOrder
    <2>3. PICK why \in {"manual", "inactivity"} : Opens(d, why)
      BY <2>2, RowsBegin
    <2> QED BY <2>1, <2>3 DEF Opens, OpenClosure
  <1>2. HandedOver'
    <2> SUFFICES ASSUME NEW c \in Closures, status'[c] # "absent", trigger'[c] = "manual"
                 PROVE  c \in tokens'
      BY DEF HandedOver
    <2>1. CASE status[c] # "absent"
      BY <1>0, <2>1, RowsRemain DEF HandedOver
    <2>2. CASE status[c] = "absent"
      <3>1. PICK why \in {"manual", "inactivity"} : Opens(c, why)
        BY <2>2, RowsBegin
      <3>2. trigger'[c] = why
        BY <1>0, <3>1 DEF Opens, OpenClosure
      <3> QED BY <3>1, <3>2 DEF Opens
    <2> QED BY <2>1, <2>2
  <1>3. GraceIsNewest'
    <2> SUFFICES ASSUME ~doubled', NEW c \in Closures, status'[c] = "grace",
                        NEW d \in Closures, d > c, status'[d] # "absent"
                 PROVE  FALSE
      BY DEF GraceIsNewest, Newest
    <2>1. ~doubled
      BY DoorSteps, <1>0 DEF Opens, OpenClosure, Cancels, Selects, Finishes, Begins, Waits
    <2>2. CASE status[c] = "absent"
      <3>1. PICK why \in {"manual", "inactivity"} : Opens(c, why)
        BY <2>2, RowsBegin
      <3>2. status[d] = "absent"
        BY <1>0, <2>2 DEF InOrder
      <3>3. status'[d] = status[d]
        BY <1>0, <3>1 DEF Opens, OpenClosure
      <3> QED BY <3>2, <3>3
    <2>3. CASE status[c] # "absent"
      <3>1. status[c] = "grace"
        BY <2>3, RowsRemain
      <3>2. status[d] = "absent"
        BY <1>0, <2>1, <3>1 DEF GraceIsNewest, Newest
      <3>3. PICK why \in {"manual", "inactivity"} : Opens(d, why)
        BY <3>2, RowsBegin
      <3>4. c \in Pending
        BY <3>1 DEF Pending, Rows
      <3> QED BY <3>3, <3>4 DEF Opens, OpenClosure
    <2> QED BY <2>2, <2>3
  <1> QED BY <1>1, <1>2, <1>3

LEMMA DoorWork ==
  ASSUME DoorInv, [Next]_vars
  PROVE  WorkGrounded'
  <1>0. /\ DoorTypeInv /\ WorkLocated /\ WorkGrounded /\ WorkLocated' /\ now \in Nat
        /\ graceEnds \in [Closures -> Nat] /\ call \in [Calls -> Call]
    <2>1. DoorTypeInv /\ DoorTypeInv' /\ WorkGrounded
      BY DoorTypesStep DEF DoorInv
    <2>2. WorkLocated'
      BY <2>1 DEF DoorTypeInv
    <2>3. DoorTypeInv => /\ WorkLocated /\ now \in Nat /\ graceEnds \in [Closures -> Nat]
                         /\ call \in [Calls -> Call]
      BY DoorAssumption DEF DoorTypeInv, DoorTypeOK
    <2> QED BY <2>1, <2>2, <2>3
  <1>1. ASSUME NEW k \in Calls, call'[k].pc = "save" PROVE status'[call'[k].closure] # "absent"
    <2>1. CASE call'[k] = call[k]
      BY <1>0, <1>1, <2>1, RowsRemain DEF WorkLocated, WorkGrounded
    <2>2. CASE call'[k] # call[k]
      <3>1. PICK j \in Calls, new \in Call : CallMove(j, new)
        BY <1>0, <2>2, CallMoves
      <3>2. call'[k] = new
        BY <1>0, <2>2, <3>1 DEF CallMove
      <3>3. new.closure \in Closures /\ status[new.closure] # "absent"
        BY <1>1, <3>1, <3>2 DEF CallMove
      <3> QED BY <3>2, <3>3, RowsRemain
    <2> QED BY <2>1, <2>2
  <1>2. ASSUME sweep'.pc # "idle"
        PROVE  status'[sweep'.closure] # "absent" /\ graceEnds'[sweep'.closure] <= now'
    <2>1. PICK c \in Closures : c = sweep'.closure
      BY <1>0, <1>2 DEF WorkLocated
    <2>2. status[c] # "absent" /\ graceEnds[c] <= now /\ now' = now
      <3>1. CASE sweep' = sweep /\ now' = now
        BY <1>0, <1>2, <2>1, <3>1 DEF WorkGrounded
      <3>2. CASE Begins
        <4>1. sweep'.closure = sweep.closure /\ sweep.pc # "idle" /\ now' = now
          BY <3>2 DEF Begins
        <4> QED BY <1>0, <2>1, <4>1 DEF WorkGrounded
      <3>3. ASSUME NEW d \in Closures, Selects(d)
            PROVE  d = c /\ status[c] # "absent" /\ graceEnds[c] <= now /\ now' = now
        BY <2>1, <3>3 DEF Selects
      <3>4. CASE Waits
        <4>1. sweep' = sweep
          BY <1>2, <3>4 DEF Waits, IdleSweep
        <4> QED BY <1>2, <3>1, <3>4, <4>1 DEF Waits
      <3> QED BY <1>0, <3>1, <3>2, <3>3, <3>4, DoorSteps DEF Opens, Cancels, Finishes
    <2> QED BY <2>1, <2>2, RowsRemain
  <1> QED BY <1>1, <1>2 DEF WorkGrounded

LEMMA DoorSpared ==
  ASSUME DoorInv, [Next]_vars
  PROVE  SparedIsKept'
  <1>0. /\ DoorTypeInv /\ WorkLocated /\ WorkGrounded /\ SparedIsKept /\ now \in Nat
        /\ graceEnds \in [Closures -> Nat] /\ spared \subseteq Closures
        /\ status \in [Closures -> {"absent", "grace", "deleting", "cancelled", "deleted"}]
    BY DoorAssumption DEF DoorInv, DoorTypeInv, DoorTypeOK
  <1>n. NoClosure \notin Closures /\ Closures \subseteq Nat
    BY DoorAssumption DEF Closures, NoClosure
  <1> SUFFICES ASSUME NEW c \in spared' PROVE status'[c] = "cancelled" /\ sweep'.closure # c
    BY DEF SparedIsKept
  <1>1. CASE c \in spared
    <2>1. c \in Closures /\ status[c] = "cancelled" /\ sweep.closure # c
      BY <1>0, <1>1 DEF SparedIsKept
    <2>2. ASSUME NEW d \in Closures, NEW why \in {"manual", "inactivity"}, Opens(d, why)
          PROVE  status'[c] = status[c] /\ sweep' = sweep
      BY <1>0, <2>1, <2>2 DEF Opens, OpenClosure
    <2>3. ASSUME NEW k \in Calls, Cancels(k) PROVE status'[c] = "cancelled" /\ sweep' = sweep
      BY <1>0, <2>1, <2>3 DEF Cancels
    <2>4. ASSUME NEW d \in Closures, Selects(d) PROVE status' = status /\ sweep'.closure # c
      BY <2>1, <2>4 DEF Selects, rows
    <2>5. ASSUME NEW d \in Closures, Finishes(d) PROVE status'[c] = status[c] /\ sweep' = sweep
      BY <1>0, <2>1, <2>5 DEF Finishes
    <2>6. CASE Begins
      BY <1>0, <2>1, <2>6 DEF Begins
    <2>7. CASE Waits
      BY <1>0, <1>n, <2>1, <2>7 DEF Waits, rows, IdleSweep
    <2> QED BY <1>0, <2>1, <2>2, <2>3, <2>4, <2>5, <2>6, <2>7, DoorSteps
  <1>2. CASE c \notin spared
    <2>1. PICK k \in Calls : Cancels(k)
      BY <1>0, <1>2, DoorSteps DEF Opens, Selects, Finishes, Begins, Waits
    <2>2. c = call[k].closure /\ c \in Closures /\ now < graceEnds[c]
      BY <1>0, <1>2, <2>1 DEF Cancels, WorkLocated
    <2>3. status'[c] = "cancelled" /\ sweep' = sweep
      BY <1>0, <2>1, <2>2 DEF Cancels
    <2>4. sweep.closure # c
      <3>1. CASE sweep.pc = "idle"
        BY <1>0, <1>n, <2>2, <3>1 DEF WorkLocated
      <3>2. CASE sweep.pc # "idle"
        <4>1. graceEnds[sweep.closure] <= now
          BY <1>0, <3>2 DEF WorkGrounded
        <4>2. graceEnds[c] \in Nat
          BY <1>0, <2>2
        <4> QED BY <1>0, <2>2, <4>1, <4>2
      <3> QED BY <3>1, <3>2
    <2> QED BY <2>3, <2>4
  <1> QED BY <1>1, <1>2

LEMMA DoorOpen ==
  ASSUME DoorInv, [Next]_vars
  PROVE  NoLockout'
  <1>0. /\ DoorTypeInv /\ WorkLocated /\ NoLockout /\ active \in BOOLEAN
        /\ status \in [Closures -> {"absent", "grace", "deleting", "cancelled", "deleted"}]
    BY DEF DoorInv, DoorTypeInv, DoorTypeOK
  <1>1. ASSUME NEW c \in Closures, status'[c] \in {"grace", "deleting", "deleted"}
        PROVE  NoLockout'
    BY <1>1 DEF NoLockout, Rows
  <1>2. ASSUME NEW c \in Closures, NEW why \in {"manual", "inactivity"}, Opens(c, why)
        PROVE  NoLockout'
    BY <1>0, <1>1, <1>2 DEF Opens, OpenClosure
  <1>3. ASSUME NEW k \in Calls, Cancels(k) PROVE NoLockout'
    BY <1>3 DEF Cancels, NoLockout
  <1>4. ASSUME active' = active,
               \A c \in Closures : status'[c] = status[c]
                                     \/ status'[c] \in {"grace", "deleting", "deleted"}
        PROVE  NoLockout'
    <2>1. CASE active
      BY <1>4, <2>1 DEF NoLockout
    <2>2. CASE ~active
      <3>1. PICK c \in Closures : status[c] \in {"grace", "deleting", "deleted"}
        BY <1>0, <2>2 DEF NoLockout, Rows
      <3> QED BY <1>1, <1>4, <3>1
    <2> QED BY <2>1, <2>2
  <1>5. ASSUME NEW c \in Closures, Selects(c) \/ Finishes(c) PROVE NoLockout'
    <2>1. active' = active /\ \A d \in Closures :
             status'[d] = status[d] \/ status'[d] \in {"grace", "deleting", "deleted"}
      BY <1>0, <1>5 DEF Selects, Finishes, rows
    <2> QED BY <1>4, <2>1
  <1>6. CASE Begins
    <2>1. sweep.closure \in Closures /\ active' = active /\ \A d \in Closures :
             status'[d] = status[d] \/ status'[d] \in {"grace", "deleting", "deleted"}
      BY <1>0, <1>6 DEF Begins, WorkLocated
    <2> QED BY <1>4, <2>1
  <1>7. CASE Waits
    <2>1. status' = status /\ (active' = active \/ active' = TRUE)
      BY <1>7 DEF Waits, rows
    <2> QED BY <1>0, <2>1 DEF NoLockout, Rows
  <1> QED BY <1>0, <1>2, <1>3, <1>5, <1>6, <1>7, DoorSteps

LEMMA DoorStep == DoorInv /\ [Next]_vars => DoorInv'
  BY DoorTypesStep, DoorRows, DoorWork, DoorSpared, DoorOpen DEF DoorInv

\* A closure cancelled before its grace ended is never carried out, whatever
\* cancellations, sweeps and tasks are in flight.
THEOREM Spared == Spec => []SparedIsKept
  <1>1. DoorInv => SparedIsKept
    BY DEF DoorInv
  <1> QED BY <1>1, DoorInit, DoorStep, PTL DEF Spec

\* Nobody is left deactivated without a closure that can be cancelled or is
\* being carried out.
THEOREM NotLockedOut == Spec => []NoLockout
  <1>1. DoorInv => NoLockout
    BY DEF DoorInv
  <1> QED BY <1>1, DoorInit, DoorStep, PTL DEF Spec

\* The token of a closure made by hand is in the person's hands and accepted to
\* the last moment of its grace, unless two closures were pending together.
THEOREM TokenWorks == Spec => []GraceHasItsToken
  <1>1. DoorInv => GraceHasItsToken
    BY DEF DoorInv, HandedOver, GraceIsNewest, GraceHasItsToken, TokenAccepted, Unexpired, Rows
  <1> QED BY <1>1, DoorInit, DoorStep, PTL DEF Spec

-----------------------------------------------------------------------------
(* Nobody is closed for inactivity without a warning                       *)

\* What the warnings have to satisfy: the last comes more than half a day before the
\* closure, two of them are further apart than one grace period hides an account from
\* the task, and the first comes later than a grace period that was running at the
\* last login. 60 and 14 days before the 365th, with 30 days of grace, do.
WarningsApart ==
    \E d, e \in WarnBefore : /\ e > HalfDay /\ d - e >= GraceLength + Day
                             /\ InactiveAfter - d >= GraceLength + HalfDay

Exists(c) == status[c] # "absent"
Opened(c) == graceEnds[c] - GraceLength

\* A closure that was cancelled in its grace or still may be.
Sparable(c) == c \in spared \/ now < graceEnds[c]

\* When the rows came to be. A session closes the account once: whoever closed it
\* has to log in again, so all closures between a login and the day the account is
\* inactive are of one moment.
RowsDated ==
    /\ \A c \in Closures : Exists(c) =>
          /\ 0 <= Opened(c) /\ Opened(c) <= now
          /\ now < graceEnds[c] => status[c] = "grace" \/ c \in spared
          /\ session => Opened(c) <= lastLogin
    /\ \A k \in Calls : call[k].pc \in {"spend", "set", "check", "create"} =>
          \A c \in Closures : Exists(c) => Opened(c) <= lastLogin \/ Opened(c) = now
    /\ \A c, d \in Closures :
          /\ Exists(c) /\ lastLogin < Opened(c) /\ Opened(c) < lastLogin + InactiveAfter
          /\ Exists(d) /\ lastLogin < Opened(d) /\ Opened(d) < lastLogin + InactiveAfter
          => Opened(c) = Opened(d)

\* A selection of the task is overtaken by a login at most.
TaskDated == task \in {"check", "create"} => LongGone \/ lastLogin = now

\* A closure kept the account from a run of the task in the window of the warning d:
\* it was open by then and, if cancelled in its grace, not yet over.
Hidden(d) == \E c \in Closures : /\ Exists(c) /\ Opened(c) <= WarnAt(d) + HalfDay
                                 /\ Sparable(c) => WarnAt(d) - HalfDay < graceEnds[c]

Warned == \A d \in looked : warned # {} \/ Hidden(d)

WarnInv == DoorInv /\ RowsDated /\ TaskDated /\ (failures = 0 => Warned)

Closing == {"spend", "set", "check", "create"}

\* A call begins to close only in a session, and time does not pass meanwhile.
LEMMA Closers ==
  ASSUME DoorTypeInv, [Next]_vars, NEW k \in Calls, call'[k].pc \in Closing
  PROVE  now' = now /\ (call[k].pc \in Closing \/ session)
  <1>0. call \in [Calls -> Call]
    BY DEF DoorTypeInv, DoorTypeOK
  <1>1. ASSUME NEW j \in Calls,
               \/ CloseAccount(j) \/ SpendUnavailable(j) \/ Spend(j) \/ SpendSet(j)
               \/ InitiateCheck(j)
        PROVE  now' = now /\ (call[k].pc \in Closing \/ session)
    <2>1. now' = now /\ (call[j].pc \in Closing \/ session)
      BY <1>1 DEF CloseAccount, SpendUnavailable, Spend, SpendSet, InitiateCheck, Closing, clocks
    <2>2. j = k \/ call'[k] = call[k]
      BY <1>0, <1>1
      DEF CloseAccount, SpendUnavailable, Spend, SpendSet, InitiateCheck, Goto, Answer
    <2> QED BY <2>1, <2>2
  <1>2. ASSUME NEW j \in Calls,
               \/ Refuse(j) \/ InitiateCommit(j) \/ CancelWithSession(j) \/ CancelStep(j)
               \/ \E c \in Closures : CancelWithToken(j, c)
        PROVE  now' = now /\ call[k].pc \in Closing
    <2>1. now' = now
      BY <1>2 DEF Refuse, InitiateCommit, CancelWithSession, CancelStep, CancelRead, CancelSave,
                  CancelWithToken, clocks
    <2>2. j = k => call'[k].pc \notin Closing
      BY <1>0, <1>2
      DEF Refuse, InitiateCommit, CancelWithSession, CancelStep, CancelRead, CancelSave,
          CancelWithToken, Goto, Answer, IdleCall, Closing, Call
    <2>3. j # k => call'[k] = call[k]
      BY <1>0, <1>2
      DEF Refuse, InitiateCommit, CancelWithSession, CancelStep, CancelRead, CancelSave,
          CancelWithToken, Goto, Answer
    <2> QED BY <2>1, <2>2, <2>3
  <1>3. CASE \/ InactivitySelect \/ BeatMissed \/ TaskStep \/ SweepStep \/ Login \/ ClaimSync
             \/ SetHold \/ UNCHANGED vars \/ \E c \in Closures : SweepSelect(c) \/ Finalize(c)
    <2>1. call' = call /\ now' = now
      BY <1>3 DEF InactivitySelect, BeatMissed, TaskStep, InactivityCheck, InactivityCommit,
                  InactivityWarn, SweepStep, ExecuteBegin, ExecuteErase, Login, ClaimSync,
                  SetHold, SweepSelect, Finalize, vars, clocks
    <2> QED BY <2>1
  <1>4. CASE Tick
    BY <1>4 DEF Tick, Closing
  <1> QED BY <1>1, <1>2, <1>3, <1>4 DEF Next, CloseStep

\* What a step may do to what the warnings depend on.
Meantime ==
    /\ UNCHANGED <<lastLogin, task, now, warned, looked>>
    /\ \A c \in Closures : status'[c] # "absent" => status[c] # "absent"
    /\ session' => session
    /\ failures' = 0 => failures = 0

Opening(c, why) ==
    /\ Opens(c, why) /\ session' = FALSE
    /\ UNCHANGED <<lastLogin, warned, looked, failures>>
    /\ \/ why = "manual" /\ task' = task /\ \E k \in Calls : call[k].pc = "create"
       \/ why = "inactivity" /\ task = "create" /\ task' = "warn"

LogsIn ==
    /\ lastLogin' = now /\ looked' = {}
    /\ UNCHANGED <<rows, spared, call, task, now, failures>>

BeatPasses ==
    /\ task = "idle"
    /\ task' = "warn" \/ (task' = "check" /\ LongGone) \/ (task' = "idle" /\ failures' # 0)
    /\ failures' = 0 => failures = 0
    /\ UNCHANGED <<rows, lastLogin, session, now, warned, looked>>

Checks ==
    /\ task = "check" /\ task' \in {"create", "warn"}
    /\ UNCHANGED <<rows, lastLogin, session, now, warned, looked, failures>>

LEMMA WarnSteps ==
  ASSUME DoorInv, [Next]_vars
  PROVE  \/ Meantime \/ LogsIn \/ BeatPasses \/ Checks \/ InactivityWarn \/ Tick
         \/ \E c \in Closures, why \in {"manual", "inactivity"} : Opening(c, why)
  <1>0. /\ DoorTypeInv /\ WorkLocated /\ WorkGrounded /\ failures \in Nat
        /\ status \in [Closures -> {"absent", "grace", "deleting", "cancelled", "deleted"}]
    BY DoorAssumption DEF DoorInv, DoorTypeInv, DoorTypeOK
  <1>1. ASSUME NEW k \in Calls, CloseAccount(k) \/ CancelWithSession(k) \/ SpendUnavailable(k)
                                  \/ Spend(k) \/ Refuse(k) \/ SpendSet(k) \/ InitiateCheck(k)
                                  \/ CancelRead(k) \/ (\E c \in Closures : CancelWithToken(k, c))
        PROVE  Meantime
    <2>1. UNCHANGED <<status, session, lastLogin, task, now, warned, looked>>
          /\ (failures' = failures \/ Fails)
      BY <1>1 DEF CloseAccount, CancelWithSession, SpendUnavailable, Spend, Refuse, SpendSet,
                  InitiateCheck, CancelRead, CancelWithToken, rows, person, clocks, history
    <2> QED BY <1>0, <2>1 DEF Meantime, Fails
  <1>2. ASSUME NEW k \in Calls, CancelSave(k) PROVE Meantime
    <2>1. call[k].closure \in Closures /\ status[call[k].closure] # "absent"
      BY <1>0, <1>2 DEF CancelSave, WorkLocated, WorkGrounded
    <2> QED BY <1>0, <1>2, <2>1 DEF CancelSave, Meantime, clocks
  <1>3. CASE ExecuteBegin
    <2>1. sweep.closure \in Closures /\ status[sweep.closure] # "absent"
      BY <1>0, <1>3 DEF ExecuteBegin, WorkLocated, WorkGrounded
    <2> QED BY <1>0, <1>3, <2>1 DEF ExecuteBegin, Meantime, person, clocks, history
  <1>4. ASSUME NEW c \in Closures, SweepSelect(c) \/ Finalize(c) PROVE Meantime
    BY <1>0, <1>4 DEF SweepSelect, Finalize, Meantime, rows, person, clocks, history
  <1>5. CASE ExecuteErase \/ ClaimSync \/ SetHold \/ UNCHANGED vars
    BY <1>5 DEF ExecuteErase, ClaimSync, SetHold, vars, Meantime, rows, person, clocks, history
  <1>6. ASSUME NEW k \in Calls, InitiateCommit(k)
        PROVE  \E c \in Closures : Opening(c, "manual")
    BY <1>6 DEF InitiateCommit, MakeClosureToken, OpenClosure, Opens, Opening, clocks
  <1>7. CASE InactivityCommit
    BY <1>7 DEF InactivityCommit, OpenClosure, Opens, Opening, clocks
  <1>8. CASE Login
    BY <1>8 DEF Login, LogsIn, clocks
  <1>9. CASE InactivitySelect \/ BeatMissed
    BY <1>0, <1>9 DEF InactivitySelect, BeatMissed, Fails, BeatPasses, rows, person, history
  <1>10. CASE InactivityCheck
    BY <1>10 DEF InactivityCheck, Checks, person, clocks, history
  <1> QED BY <1>1, <1>2, <1>3, <1>4, <1>5, <1>6, <1>7, <1>8, <1>9, <1>10
      DEF Next, CloseStep, CancelStep, TaskStep, SweepStep

LEMMA TimeForward ==
  ASSUME DoorInv, [Next]_vars
  PROVE  now <= now' /\ now' \in Nat
  <1>0. now \in Nat /\ DoorTypeInv
    BY DoorAssumption DEF DoorInv, DoorTypeInv, DoorTypeOK
  <1>1. now' = now \/ now' = now + 1
    <2>1. ASSUME NEW c \in Closures, Selects(c) \/ Finishes(c) \/ Opens(c, "manual")
                                       \/ Opens(c, "inactivity")
          PROVE  now' = now
      BY <2>1 DEF Selects, Finishes, Opens
    <2>2. ASSUME (\E k \in Calls : Cancels(k)) \/ Begins PROVE now' = now
      BY <2>2 DEF Cancels, Begins
    <2>3. CASE Waits
      BY <2>3 DEF Waits
    <2> QED BY <1>0, <2>1, <2>2, <2>3, DoorSteps
  <1> QED BY <1>0, <1>1

\* Nothing becomes sparable again.
LEMMA SparableBefore ==
  ASSUME DoorInv, [Next]_vars, NEW c \in Closures, Exists(c), Sparable(c)'
  PROVE  Sparable(c)
  <1>0. /\ DoorTypeInv /\ WorkLocated /\ now \in Nat /\ graceEnds \in [Closures -> Nat]
    BY DoorAssumption DEF DoorInv, DoorTypeInv, DoorTypeOK
  <1>1. graceEnds'[c] = graceEnds[c]
    BY RowsRemain DEF Exists
  <1>2. c \in spared' \/ now' < graceEnds[c]
    BY <1>1 DEF Sparable
  <1>3. now <= now' /\ now' \in Nat
    BY TimeForward
  <1>4. CASE c \in spared'
    <2>1. ASSUME NEW k \in Calls, Cancels(k) PROVE c \in spared \/ now < graceEnds[c]
      BY <1>4, <2>1 DEF Cancels
    <2> QED BY <1>0, <1>4, <2>1, DoorSteps
        DEF Sparable, Opens, Selects, Finishes, Begins, Waits
  <1>5. CASE now' < graceEnds[c]
    BY <1>0, <1>1, <1>3, <1>5 DEF Sparable
  <1> QED BY <1>2, <1>4, <1>5

\* A closure in its grace is open until the grace is over or it is spared.
LEMMA EarlyStep ==
  ASSUME DoorInv, RowsDated, [Next]_vars, NEW c \in Closures, status'[c] # "absent",
         now' < graceEnds'[c]
  PROVE  status'[c] = "grace" \/ c \in spared'
  <1>0. /\ DoorTypeInv /\ WorkLocated /\ WorkGrounded /\ now \in Nat
        /\ graceEnds \in [Closures -> Nat]
        /\ status \in [Closures -> {"absent", "grace", "deleting", "cancelled", "deleted"}]
    BY DoorAssumption DEF DoorInv, DoorTypeInv, DoorTypeOK
  <1>1. CASE status[c] = "absent"
    <2>1. PICK why \in {"manual", "inactivity"} : Opens(c, why)
      BY <1>1, RowsBegin
    <2> QED BY <1>0, <2>1 DEF Opens, OpenClosure
  <1>2. CASE status[c] # "absent"
    <2>1. now <= now' /\ now' \in Nat
      BY TimeForward
    <2>2. graceEnds'[c] = graceEnds[c] /\ graceEnds[c] \in Nat
      BY <1>0, <1>2, RowsRemain
    <2>3. now < graceEnds[c]
      BY <1>0, <2>1, <2>2
    <2>4. status[c] = "grace" \/ c \in spared
      BY <1>2, <2>3 DEF RowsDated, Exists
    <2>5. ASSUME NEW d \in Closures, NEW why \in {"manual", "inactivity"}, Opens(d, why)
          PROVE  status'[c] = status[c] /\ spared' = spared
      BY <1>0, <1>2, <2>5 DEF Opens, OpenClosure
    <2>6. ASSUME NEW k \in Calls, Cancels(k)
          PROVE  spared \subseteq spared' /\ (status'[c] = status[c] \/ c \in spared')
      BY <1>0, <2>3, <2>6 DEF Cancels, WorkLocated
    <2>7. ASSUME NEW d \in Closures, Selects(d) PROVE status' = status /\ spared' = spared
      BY <2>7 DEF Selects, rows
    <2>8. ASSUME NEW d \in Closures, Finishes(d)
          PROVE  spared' = spared /\ (status[c] = "grace" => status'[c] = status[c])
      BY <1>0, <2>8 DEF Finishes
    <2>9. CASE Begins
      <3>1. sweep.closure # c
        BY <1>0, <2>2, <2>3, <2>9 DEF Begins, WorkLocated, WorkGrounded
      <3> QED BY <1>0, <2>4, <2>9, <3>1 DEF Begins
    <2>10. CASE Waits
      BY <2>4, <2>10 DEF Waits, rows
    <2> QED BY <1>0, <2>4, <2>5, <2>6, <2>7, <2>8, <2>9, <2>10, DoorSteps
  <1> QED BY <1>1, <1>2

\* The rows a step finds keep their dates; one it opens is of this moment.
LEMMA RowDates ==
  ASSUME DoorInv, [Next]_vars, NEW c \in Closures, status'[c] # "absent"
  PROVE  \/ status[c] # "absent" /\ graceEnds'[c] = graceEnds[c] /\ trigger'[c] = trigger[c]
         \/ \E why \in {"manual", "inactivity"} :
               /\ Opening(c, why) /\ status[c] = "absent"
               /\ graceEnds'[c] = now + GraceLength /\ trigger'[c] = why
  <1>0. /\ graceEnds \in [Closures -> Nat] /\ trigger \in [Closures -> {"manual", "inactivity"}]
        /\ status \in [Closures -> {"absent", "grace", "deleting", "cancelled", "deleted"}]
    BY DEF DoorInv, DoorTypeInv, DoorTypeOK
  <1>1. CASE status[c] # "absent"
    BY <1>1, RowsRemain
  <1>2. CASE status[c] = "absent"
    <2>1. ASSUME Meantime \/ LogsIn \/ BeatPasses \/ Checks \/ InactivityWarn \/ Tick PROVE FALSE
      BY <1>2, <2>1 DEF Meantime, LogsIn, BeatPasses, Checks, InactivityWarn, Tick, rows
    <2>2. PICK d \in Closures, why \in {"manual", "inactivity"} : Opening(d, why)
      BY <2>1, WarnSteps
    <2>3. d = c
      BY <1>0, <1>2, <2>2 DEF Opening, Opens, OpenClosure
    <2>4. graceEnds'[c] = now + GraceLength /\ trigger'[c] = why
      BY <1>0, <2>2, <2>3 DEF Opening, Opens, OpenClosure
    <2> QED BY <1>2, <2>2, <2>3, <2>4
  <1> QED BY <1>1, <1>2

LEMMA TaskDatedStep ==
  ASSUME DoorInv, TaskDated, [Next]_vars
  PROVE  TaskDated'
  <1>0. /\ now \in Nat /\ lastLogin \in Nat /\ InactiveAfter \in Nat
    BY DoorAssumption DEF DoorInv, DoorTypeInv, DoorTypeOK
  <1>1. CASE Meantime \/ LogsIn
    BY <1>0, <1>1 DEF Meantime, LogsIn, TaskDated, LongGone
  <1>2. CASE BeatPasses
    BY <1>0, <1>2 DEF BeatPasses, TaskDated, LongGone
  <1>3. CASE Checks
    BY <1>0, <1>3 DEF Checks, TaskDated, LongGone
  <1>4. CASE InactivityWarn \/ Tick
    BY <1>0, <1>4 DEF InactivityWarn, Tick, TaskDated
  <1>5. ASSUME NEW c \in Closures, NEW why \in {"manual", "inactivity"}, Opening(c, why)
        PROVE  TaskDated'
    BY <1>0, <1>5 DEF Opening, Opens, TaskDated, LongGone
  <1> QED BY <1>1, <1>2, <1>3, <1>4, <1>5, WarnSteps

LEMMA LoginForward ==
  ASSUME DoorInv, [Next]_vars
  PROVE  \/ LogsIn /\ lastLogin <= lastLogin'
         \/ lastLogin' = lastLogin /\ (session' => session) /\ (warned' = {} => warned = {})
  <1>0. lastLogin \in Nat /\ now \in Nat /\ lastLogin <= now
    BY DoorAssumption DEF DoorInv, DoorTypeInv, DoorTypeOK
  <1>1. CASE LogsIn
    BY <1>0, <1>1 DEF LogsIn
  <1>2. CASE Meantime \/ BeatPasses \/ Checks
    BY <1>2 DEF Meantime, BeatPasses, Checks
  <1>3. CASE InactivityWarn \/ Tick
    BY <1>3 DEF InactivityWarn, Tick, person
  <1>4. ASSUME NEW c \in Closures, NEW why \in {"manual", "inactivity"}, Opening(c, why)
        PROVE  lastLogin' = lastLogin /\ ~session' /\ warned' = warned
    BY <1>4 DEF Opening
  <1> QED BY <1>1, <1>2, <1>3, <1>4, WarnSteps

LEMMA RowsDatedStep ==
  ASSUME DoorInv, RowsDated, TaskDated, [Next]_vars
  PROVE  RowsDated'
  <1>0. /\ DoorTypeInv /\ now \in Nat /\ lastLogin \in Nat /\ lastLogin <= now
        /\ GraceLength \in Nat /\ InactiveAfter \in Nat /\ graceEnds \in [Closures -> Nat]
    BY DoorAssumption DEF DoorInv, DoorTypeInv, DoorTypeOK
  <1>t. now <= now' /\ now' \in Nat
    BY TimeForward
  <1>l. lastLogin' \in Nat
    BY <1>0, LoginForward DEF LogsIn
  <1>1. ASSUME NEW c \in Closures, status'[c] # "absent"
        PROVE  /\ 0 <= graceEnds'[c] - GraceLength /\ graceEnds'[c] - GraceLength <= now'
               /\ session' => graceEnds'[c] - GraceLength <= lastLogin'
    <2>1. CASE status[c] # "absent" /\ graceEnds'[c] = graceEnds[c]
      <3>1. /\ 0 <= graceEnds[c] - GraceLength /\ graceEnds[c] - GraceLength <= now
            /\ session => graceEnds[c] - GraceLength <= lastLogin /\ graceEnds[c] \in Nat
        BY <1>0, <2>1 DEF RowsDated, Exists, Opened
      <3>2. CASE LogsIn
        <4>1. lastLogin' = now
          BY <3>2 DEF LogsIn
        <4> QED BY <1>0, <1>t, <2>1, <3>1, <4>1
      <3>3. CASE lastLogin' = lastLogin /\ (session' => session)
        BY <1>0, <1>t, <2>1, <3>1, <3>3
      <3> QED BY <3>2, <3>3, LoginForward
    <2>2. ASSUME NEW why \in {"manual", "inactivity"}, Opening(c, why),
                 graceEnds'[c] = now + GraceLength
          PROVE  /\ 0 <= graceEnds'[c] - GraceLength /\ graceEnds'[c] - GraceLength <= now'
                 /\ ~session'
      BY <1>0, <1>t, <2>2 DEF Opening
    <2> QED BY <1>1, <2>1, <2>2, RowDates
  <1>2. ASSUME NEW k \in Calls, call'[k].pc \in Closing, NEW c \in Closures, status'[c] # "absent"
        PROVE  \/ graceEnds'[c] - GraceLength <= lastLogin'
               \/ graceEnds'[c] - GraceLength = now'
    <2>0. now' = now /\ (call[k].pc \in Closing \/ session)
      BY <1>0, <1>2, Closers
    <2>1. CASE status[c] # "absent" /\ graceEnds'[c] = graceEnds[c]
      <3>1. /\ graceEnds[c] - GraceLength <= lastLogin \/ graceEnds[c] - GraceLength = now
            /\ graceEnds[c] \in Nat
        BY <1>0, <2>0, <2>1 DEF RowsDated, Exists, Opened, Closing
      <3>2. lastLogin <= lastLogin'
        BY <1>0, LoginForward
      <3> QED BY <1>0, <1>l, <2>0, <2>1, <3>1, <3>2
    <2>2. CASE graceEnds'[c] = now + GraceLength
      BY <1>0, <2>0, <2>2
    <2> QED BY <1>2, <2>1, <2>2, RowDates
  <1>3. ASSUME NEW c \in Closures, NEW d \in Closures, status'[c] # "absent", status'[d] # "absent",
               lastLogin' < graceEnds'[c] - GraceLength, lastLogin' < graceEnds'[d] - GraceLength,
               graceEnds'[c] - GraceLength < lastLogin' + InactiveAfter,
               graceEnds'[d] - GraceLength < lastLogin' + InactiveAfter
        PROVE  graceEnds'[c] - GraceLength = graceEnds'[d] - GraceLength
    <2>0. lastLogin' = lastLogin
      <3>1. CASE LogsIn
        <4>1. status[c] # "absent" /\ graceEnds'[c] = graceEnds[c] /\ lastLogin' = now
          BY <1>3, <3>1 DEF LogsIn, rows
        <4>2. graceEnds[c] - GraceLength <= now /\ graceEnds[c] \in Nat
          BY <1>0, <4>1 DEF RowsDated, Exists, Opened
        <4> QED BY <1>0, <1>3, <4>1, <4>2
      <3> QED BY <3>1, LoginForward
    <2>1. ASSUME NEW x \in Closures, NEW y \in Closures, NEW why \in {"manual", "inactivity"},
                 Opening(x, why), graceEnds'[x] = now + GraceLength,
                 now < lastLogin + InactiveAfter, lastLogin < now,
                 status[y] # "absent", graceEnds'[y] = graceEnds[y],
                 lastLogin < graceEnds[y] - GraceLength
          PROVE  graceEnds[y] - GraceLength = now
      <3>1. ~(LongGone \/ lastLogin = now)
        BY <1>0, <2>1 DEF LongGone
      <3>2. PICK k \in Calls : call[k].pc = "create"
        BY <2>1, <3>1 DEF Opening, TaskDated
      <3>3. graceEnds[y] - GraceLength <= lastLogin \/ graceEnds[y] - GraceLength = now
        BY <2>1, <3>2 DEF RowsDated, Exists, Opened
      <3> QED BY <1>0, <2>1, <3>3
    <2>2. CASE status[c] # "absent" /\ graceEnds'[c] = graceEnds[c]
      <3>1. CASE status[d] # "absent" /\ graceEnds'[d] = graceEnds[d]
        BY <1>3, <2>0, <2>2, <3>1 DEF RowsDated, Exists, Opened
      <3>2. ASSUME NEW why \in {"manual", "inactivity"}, Opening(d, why),
                   graceEnds'[d] = now + GraceLength
            PROVE  graceEnds'[c] - GraceLength = now
        <4>1. now < lastLogin + InactiveAfter /\ lastLogin < now
          BY <1>0, <1>3, <2>0, <3>2
        <4>2. lastLogin < graceEnds[c] - GraceLength
          BY <1>3, <2>0, <2>2
        <4> QED BY <2>1, <2>2, <3>2, <4>1, <4>2
      <3> QED BY <1>0, <1>3, <3>1, <3>2, RowDates
    <2>3. ASSUME NEW why \in {"manual", "inactivity"}, Opening(c, why),
                 graceEnds'[c] = now + GraceLength
          PROVE  graceEnds'[d] - GraceLength = now
      <3>1. now < lastLogin + InactiveAfter /\ lastLogin < now
        BY <1>0, <1>3, <2>0, <2>3
      <3>2. CASE status[d] # "absent" /\ graceEnds'[d] = graceEnds[d]
        <4>1. lastLogin < graceEnds[d] - GraceLength
          BY <1>3, <2>0, <3>2
        <4> QED BY <2>1, <2>3, <3>1, <3>2, <4>1
      <3>3. CASE graceEnds'[d] = now + GraceLength
        BY <1>0, <3>3
      <3> QED BY <1>3, <3>2, <3>3, RowDates
    <2> QED BY <1>0, <1>3, <2>2, <2>3, RowDates
  <1> QED BY <1>1, <1>2, <1>3, EarlyStep DEF RowsDated, Exists, Opened, Closing

LEMMA NothingFailed ==
  ASSUME DoorInv, [Next]_vars, failures' = 0
  PROVE  failures = 0
  <1>0. failures \in Nat
    BY DoorAssumption DEF DoorInv, DoorTypeInv, DoorTypeOK
  <1>1. CASE Meantime \/ LogsIn \/ BeatPasses \/ Checks
    BY <1>1 DEF Meantime, LogsIn, BeatPasses, Checks
  <1>2. CASE InactivityWarn \/ Tick
    BY <1>0, <1>2 DEF InactivityWarn, Tick, Fails
  <1>3. ASSUME NEW c \in Closures, NEW why \in {"manual", "inactivity"}, Opening(c, why)
        PROVE  failures' = failures
    BY <1>3 DEF Opening
  <1> QED BY <1>1, <1>2, <1>3, WarnSteps

\* A run in the window of a warning finds the account active, and warns, or hidden by a
\* closure.
LEMMA WarnsOrHidden ==
  ASSUME DoorInv, RowsDated, failures' = 0, failures = 0, InactivityWarn, NEW d \in looked',
         d \notin looked
  PROVE  warned' # {} \/ Hidden(d)
  <1>0. /\ lastLogin \in Nat /\ now \in Nat /\ InactiveAfter \in Nat /\ HalfDay \in Nat
        /\ WarnBefore \subseteq Nat /\ graceEnds \in [Closures -> Nat] /\ GraceLength \in Nat
        /\ NoLockout /\ SparedIsKept
    BY DoorAssumption DEF DoorInv, DoorTypeInv, DoorTypeOK
  <1>1. /\ d \in WarnBefore /\ WarnAt(d) - HalfDay <= now /\ now <= WarnAt(d) + HalfDay
        /\ WarnAt(d) \in Int
    <2>1. looked' = looked \cup {e \in WarnBefore : WarnAt(e) - HalfDay <= now
                                                     /\ now <= WarnAt(e) + HalfDay}
      BY DEF InactivityWarn
    <2>2. d \in WarnBefore /\ WarnAt(d) - HalfDay <= now /\ now <= WarnAt(d) + HalfDay
      BY <2>1
    <2> QED BY <1>0, <2>2 DEF WarnAt
  <1>2. CASE active
    <2>1. d \in Due
      BY <1>1 DEF Due
    <2>2. PICK sent \in SUBSET Due :
             (IF sent = Due THEN UNCHANGED failures ELSE Fails) /\ warned' = warned \cup sent
      BY <1>2 DEF InactivityWarn
    <2>3. sent = Due
      BY <2>2 DEF Fails
    <2> QED BY <2>1, <2>2, <2>3
  <1>3. CASE ~active
    <2>1. PICK c \in Closures : status[c] \in {"grace", "deleting", "deleted"}
      BY <1>0, <1>3 DEF NoLockout, Rows
    <2>2. Exists(c) /\ c \notin spared
      BY <1>0, <2>1 DEF Exists, SparedIsKept
    <2>3. Opened(c) <= now
      BY <2>2 DEF RowsDated
    <2>4. Opened(c) <= WarnAt(d) + HalfDay
      BY <1>0, <1>1, <2>3 DEF Opened
    <2>5. Sparable(c) => WarnAt(d) - HalfDay < graceEnds[c]
      BY <1>0, <1>1, <2>2 DEF Sparable
    <2> QED BY <2>2, <2>4, <2>5 DEF Hidden
  <1> QED BY <1>2, <1>3

LEMMA HiddenStays ==
  ASSUME DoorInv, [Next]_vars, NEW d \in WarnBefore, lastLogin' = lastLogin, Hidden(d)
  PROVE  Hidden(d)'
  <1>1. PICK c \in Closures : /\ Exists(c) /\ Opened(c) <= WarnAt(d) + HalfDay
                              /\ Sparable(c) => WarnAt(d) - HalfDay < graceEnds[c]
    BY DEF Hidden
  <1>2. Exists(c)' /\ graceEnds'[c] = graceEnds[c]
    BY <1>1, RowsRemain DEF Exists
  <1>3. Opened(c)' = Opened(c) /\ WarnAt(d)' = WarnAt(d)
    BY <1>2 DEF Opened, WarnAt
  <1>4. Sparable(c)' => Sparable(c)
    BY <1>1, SparableBefore
  <1> QED BY <1>1, <1>2, <1>3, <1>4 DEF Hidden

LEMMA WarnedStep ==
  ASSUME DoorInv, RowsDated, Warned, [Next]_vars, failures' = 0
  PROVE  Warned'
  <1>0. /\ failures = 0 /\ looked' \subseteq WarnBefore /\ DoorTypeInv
    BY NothingFailed, PersonTypesKept DEF DoorInv
  <1> SUFFICES ASSUME NEW d \in looked', warned' = {} PROVE Hidden(d)'
    BY DEF Warned
  <1>1. ~LogsIn
    BY DEF LogsIn
  <1>2. lastLogin' = lastLogin /\ warned = {}
    BY <1>1, LoginForward
  <1>3. Hidden(d)
    <2>1. CASE d \in looked
      BY <1>2, <2>1 DEF Warned
    <2>2. CASE d \notin looked
      <3>1. ASSUME Meantime \/ BeatPasses \/ Checks \/ Tick PROVE looked' = looked
        BY <3>1 DEF Meantime, BeatPasses, Checks, Tick
      <3>2. ASSUME NEW c \in Closures, NEW why \in {"manual", "inactivity"}, Opening(c, why)
            PROVE  looked' = looked
        BY <3>2 DEF Opening
      <3>3. InactivityWarn
        BY <1>1, <2>2, <3>1, <3>2, WarnSteps
      <3> QED BY <1>0, <2>2, <3>3, WarnsOrHidden
    <2> QED BY <2>1, <2>2
  <1> QED BY <1>0, <1>2, <1>3, HiddenStays

LEMMA WarnInit == Init => WarnInv
  <1> SUFFICES ASSUME Init PROVE WarnInv
    OBVIOUS
  <1>1. /\ \A c \in Closures : ~Exists(c)
        /\ \A k \in Calls : call[k].pc = "idle"
    BY DEF Init, Exists, IdleCall
  <1> QED BY <1>1, DoorInit DEF Init, WarnInv, RowsDated, TaskDated, Warned

\* A closure that hid an account from a run, and is neither the last nor was left to be
\* carried out, was opened between the last login and the day the account is inactive.
LEMMA HiderDated ==
  ASSUME DoorInv, NEW c \in Closures, lastLogin + InactiveAfter <= Opened(c),
         \A x \in Closures \ {c} : Exists(x) => Sparable(x),
         NEW d \in WarnBefore, d > HalfDay, InactiveAfter - d >= GraceLength + HalfDay, Hidden(d)
  PROVE  \E x \in Closures :
            /\ Exists(x) /\ lastLogin < Opened(x) /\ Opened(x) < lastLogin + InactiveAfter
            /\ Opened(x) <= WarnAt(d) + HalfDay
            /\ WarnAt(d) - HalfDay < Opened(x) + GraceLength
  <1>0. /\ lastLogin \in Nat /\ InactiveAfter \in Nat /\ HalfDay \in Nat
        /\ d \in Nat /\ graceEnds \in [Closures -> Nat] /\ GraceLength \in Nat
    BY DoorAssumption DEF DoorInv, DoorTypeInv, DoorTypeOK
  <1>1. PICK x \in Closures : /\ Exists(x) /\ Opened(x) <= WarnAt(d) + HalfDay
                              /\ Sparable(x) => WarnAt(d) - HalfDay < graceEnds[x]
    BY DEF Hidden
  <1>2. Opened(x) < lastLogin + InactiveAfter
    BY <1>0, <1>1 DEF Opened, WarnAt
  <1>3. x # c
    BY <1>0, <1>2 DEF Opened
  <1>4. WarnAt(d) - HalfDay < graceEnds[x]
    BY <1>1, <1>3
  <1>5. lastLogin < Opened(x) /\ WarnAt(d) - HalfDay < Opened(x) + GraceLength
    BY <1>0, <1>4 DEF Opened, WarnAt
  <1> QED BY <1>1, <1>2, <1>5

\* Whoever is closed for inactivity and has not come back was warned, when nothing was
\* lost and check_inactive_accounts ran in the window of every warning, however late its
\* runs were, for any number of closures, opened by hand or by the task and cancelled
\* within their grace, that hid the account from some of those runs.
THEOREM WarnedFirst ==
  ASSUME WarningsApart
  PROVE  Spec => []ClosedAfterAWarning
  <1>1. WarnInv /\ [Next]_vars => WarnInv'
    BY DoorStep, RowsDatedStep, TaskDatedStep, WarnedStep, NothingFailed DEF WarnInv
  <1>2. WarnInv => ClosedAfterAWarning
    <2> SUFFICES ASSUME WarnInv, failures = 0, looked = WarnBefore, NEW c \in Rows({"grace"}),
                        lastLogin + InactiveAfter <= graceEnds[c] - GraceLength,
                        Closures \ (Rows({"absent"}) \cup spared) = {c}, warned = {}
                 PROVE  FALSE
      BY DEF ClosedAfterAWarning, ClosedInAbsence
    <2>0. /\ lastLogin \in Nat /\ InactiveAfter \in Nat /\ HalfDay \in Nat
          /\ WarnBefore \subseteq Nat /\ graceEnds \in [Closures -> Nat] /\ GraceLength \in Nat
      BY DoorAssumption DEF WarnInv, DoorInv, DoorTypeInv, DoorTypeOK
    <2>1. /\ c \in Closures /\ lastLogin + InactiveAfter <= Opened(c)
          /\ \A x \in Closures \ {c} : Exists(x) => Sparable(x)
      BY DEF Rows, Exists, Sparable, Opened
    <2>2. PICK d \in WarnBefore, e \in WarnBefore :
             /\ e > HalfDay /\ d - e >= GraceLength + 2 * HalfDay
             /\ InactiveAfter - d >= GraceLength + HalfDay
      BY DEF WarningsApart, Day
    <2>3. d > HalfDay /\ InactiveAfter - e >= GraceLength + HalfDay
      BY <2>0, <2>2
    <2>4. Hidden(d) /\ Hidden(e)
      BY DEF WarnInv, Warned
    <2>5. PICK x \in Closures :
             /\ Exists(x) /\ lastLogin < Opened(x) /\ Opened(x) < lastLogin + InactiveAfter
             /\ Opened(x) <= WarnAt(d) + HalfDay
      BY <2>1, <2>2, <2>3, <2>4, HiderDated DEF WarnInv
    <2>6. PICK y \in Closures :
             /\ Exists(y) /\ lastLogin < Opened(y) /\ Opened(y) < lastLogin + InactiveAfter
             /\ WarnAt(e) - HalfDay < Opened(y) + GraceLength
      BY <2>1, <2>2, <2>3, <2>4, HiderDated DEF WarnInv
    <2>7. Opened(x) = Opened(y)
      BY <2>5, <2>6 DEF WarnInv, RowsDated
    <2> QED BY <2>0, <2>2, <2>5, <2>6, <2>7 DEF WarnAt, Opened
  <1> QED BY <1>1, <1>2, WarnInit, PTL DEF Spec
=============================================================================
