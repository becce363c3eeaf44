----------------------------- MODULE DsarProofs -----------------------------
(***************************************************************************)
(* What is proved of data-subject requests for any number of requests,     *)
(* accounts and desks: an acknowledgement on record was accepted, nobody   *)
(* but a session or a member of staff sets an erasure going, the clock of  *)
(* the acknowledgement counts business days, no alarm comes early, and     *)
(* sweeps that do not overlap announce a missed clock once.                *)
(***************************************************************************)
EXTENDS Dsar, FiniteSetTheorems, TLAPS

-----------------------------------------------------------------------------
(* Types, but for the clocks: those need what business_days_from computes, *)
(* and follow with it (ClockInv, RestTypes).                               *)

RowTypes ==
    /\ state    \in [Dsars -> States \cup {"absent"}]
    /\ user     \in [Dsars -> Users \cup {NoUser}]
    /\ ackSent  \in [Dsars -> BOOLEAN]
    /\ linked   \in [Dsars -> BOOLEAN]
    /\ notified \in [Dsars -> BOOLEAN]
    /\ matched  \in [Dsars -> {"nobody", "session", "staff"}]

\* A desk that is at work has a request.
DeskTypes ==
    /\ desk \in [Desks -> Call]
    /\ \A k \in Desks : desk[k].pc # "idle" => desk[k].dsar \in Dsars

DeskTypeInv == RowTypes /\ DeskTypes

LEMMA DeskTypesInit == Init => DeskTypeInv
  <1> SUFFICES ASSUME Init PROVE DeskTypeInv
    OBVIOUS
  <1>1. RowTypes
    BY DEF Init, RowTypes
  <1>2. desk \in [Desks -> Call]
    BY DEF Init, IdleDesk, Call
  <1>3. \A k \in Desks : desk[k].pc = "idle"
    BY DEF Init, IdleDesk
  <1> QED BY <1>1, <1>2, <1>3 DEF DeskTypeInv, DeskTypes

\* A desk that takes up a request, or goes on with it.
LEMMA DeskAt ==
  ASSUME DeskTypes, NEW k \in Desks, NEW p \in {"ack", "wire", "save", "refused"},
         NEW d \in Dsars, NEW u \in Users \cup {NoUser}, NEW seen \in BOOLEAN,
         At(k, p, d, u, seen)
  PROVE  /\ DeskTypes'
         /\ desk'[k].pc = p /\ desk'[k].dsar = d /\ desk'[k].user = u
         /\ \A j \in Desks \ {k} : desk'[j] = desk[j]
  <1> DEFINE new == [pc |-> p, dsar |-> d, user |-> u, linked |-> seen]
  <1>1. new \in Call /\ new.pc = p /\ new.dsar = d /\ new.user = u
    BY DEF Call
  <1>2. desk' = [desk EXCEPT ![k] = new] /\ desk \in [Desks -> Call]
    BY DEF At, DeskTypes
  <1> HIDE DEF new
  <1>3. desk'[k] = new /\ desk' \in [Desks -> Call] /\ \A j \in Desks \ {k} : desk'[j] = desk[j]
    BY <1>1, <1>2
  <1> QED BY <1>1, <1>3 DEF DeskTypes

LEMMA DeskGoto ==
  ASSUME DeskTypes, NEW k \in Desks, desk[k].pc # "idle",
         NEW p \in {"ack", "wire", "save", "refused"}, Goto(k, p)
  PROVE  /\ DeskTypes'
         /\ desk'[k].pc = p /\ desk'[k].dsar = desk[k].dsar /\ desk'[k].user = desk[k].user
         /\ \A j \in Desks \ {k} : desk'[j] = desk[j]
  <1>1. /\ desk[k].dsar \in Dsars /\ desk[k].user \in Users \cup {NoUser}
        /\ desk[k].linked \in BOOLEAN
    BY DEF DeskTypes, Call
  <1> QED BY <1>1, DeskAt DEF Goto

LEMMA DeskDone ==
  ASSUME DeskTypes, NEW k \in Desks, Done(k)
  PROVE  /\ DeskTypes' /\ desk'[k].pc = "idle"
         /\ \A j \in Desks \ {k} : desk'[j] = desk[j]
  <1>1. IdleDesk \in Call /\ IdleDesk.pc = "idle"
    BY DEF IdleDesk, Call
  <1>2. /\ desk' = [desk EXCEPT ![k] = IdleDesk] /\ desk \in [Desks -> Call]
    BY DEF Done, DeskTypes
  <1>3. desk'[k] = IdleDesk /\ desk' \in [Desks -> Call] /\ \A j \in Desks \ {k} : desk'[j] = desk[j]
    BY <1>1, <1>2
  <1> QED BY <1>1, <1>3 DEF DeskTypes

-----------------------------------------------------------------------------
(* What a step of a desk may do                                            *)

\* Somebody with a session or a member of staff stands behind the request.
Vouched(d) == matched[d] # "nobody" /\ user[d] # NoUser

\* A desk knows an account only when somebody vouched for it.
DeskVouched(k) ==
    desk[k].pc # "idle" =>
        /\ state[desk[k].dsar] # "absent"
        /\ desk[k].user # NoUser => Vouched(desk[k].dsar)

OracleInv ==
    /\ DeskTypeInv /\ AckIsProof
    /\ \A d \in started : d \in Dsars /\ state[d] # "absent" /\ Vouched(d)
    /\ \A k \in Desks : DeskVouched(k)

\* Rows stay, and who was vouched for stays vouched for.
RowsStay ==
    \A d \in Dsars : state[d] # "absent" =>
        state'[d] # "absent" /\ (Vouched(d) => Vouched(d)')

\* What is left to show when the rows stay: the desk that moved.
LEMMA OracleMoves ==
  ASSUME OracleInv, DeskTypeInv', RowsStay, NEW k \in Desks, DeskVouched(k)',
         AckIsProof', started' \subseteq started \cup {desk[k].dsar},
         started' # started => desk[k].pc # "idle" /\ desk[k].user # NoUser,
         \A j \in Desks \ {k} : desk'[j] = desk[j]
  PROVE  OracleInv'
  <1>1. ASSUME NEW j \in Desks \ {k} PROVE DeskVouched(j)'
    BY <1>1 DEF OracleInv, DeskTypeInv, DeskTypes, RowsStay, DeskVouched, Vouched
  <1>2. ASSUME NEW d \in started' PROVE d \in Dsars /\ state'[d] # "absent" /\ Vouched(d)'
    <2>1. CASE d \in started
      BY <2>1 DEF OracleInv, RowsStay
    <2>2. CASE d \notin started
      <3>1. d = desk[k].dsar /\ desk[k].pc # "idle" /\ desk[k].user # NoUser
        BY <1>2, <2>2
      <3>2. d \in Dsars /\ state[d] # "absent" /\ Vouched(d)
        BY <3>1 DEF OracleInv, DeskTypeInv, DeskTypes, DeskVouched
      <3> QED BY <3>2 DEF RowsStay
    <2> QED BY <2>1, <2>2
  <1> QED BY <1>1, <1>2 DEF OracleInv

\* A step that leaves rows, calls and their history alone.
LEMMA OracleRests ==
  ASSUME OracleInv, notified' \in [Dsars -> BOOLEAN],
         UNCHANGED <<state, user, ackSent, linked, acks, matched, started, desk>>
  PROVE  OracleInv'
  BY DEF OracleInv, DeskTypeInv, RowTypes, DeskTypes, AckIsProof, DeskVouched, Vouched

LEMMA OracleCreate ==
  ASSUME OracleInv, NEW k \in Desks, NEW d \in Dsars, NEW kd \in Kinds,
         NEW u \in Users \cup {NoUser}, CreateDsar(k, d, kd, u)
  PROVE  OracleInv'
  <1>0. DeskTypeInv /\ RowTypes /\ DeskTypes
    BY DEF OracleInv, DeskTypeInv
  <1>1. /\ DeskTypes' /\ desk'[k].pc = "ack" /\ desk'[k].dsar = d /\ desk'[k].user = u
        /\ \A j \in Desks \ {k} : desk'[j] = desk[j]
    BY <1>0, DeskAt DEF CreateDsar
  <1>2. /\ RowTypes' /\ RowsStay /\ state'[d] # "absent" /\ user'[d] = u
        /\ matched'[d] = IF u = NoUser THEN "nobody" ELSE "session"
    BY <1>0 DEF CreateDsar, RowTypes, RowsStay, Vouched, States, OpenStates
  <1>3. AckIsProof' /\ started' = started
    BY DEF CreateDsar, OracleInv, AckIsProof
  <1>4. DeskVouched(k)'
    BY <1>1, <1>2 DEF DeskVouched, Vouched
  <1> QED BY <1>1, <1>2, <1>3, <1>4, OracleMoves DEF DeskTypeInv

LEMMA OracleAcknowledge ==
  ASSUME OracleInv, NEW k \in Desks, Acknowledge(k)
  PROVE  OracleInv'
  <1>0. DeskTypeInv /\ RowTypes /\ DeskTypes /\ DeskVouched(k) /\ AckIsProof
    BY DEF OracleInv, DeskTypeInv
  <1>1. /\ DeskTypes' /\ desk'[k].dsar = desk[k].dsar /\ desk'[k].user = desk[k].user
        /\ \A j \in Desks \ {k} : desk'[j] = desk[j]
    BY <1>0, DeskGoto DEF Acknowledge
  <1>2. PICK d \in Dsars : d = desk[k].dsar
    BY <1>0 DEF Acknowledge, DeskTypes
  <1>3. \/ /\ acks' = acks \cup {d} /\ ackSent' = [ackSent EXCEPT ![d] = TRUE]
           /\ state' = [state EXCEPT ![d] = "acknowledged"]
        \/ UNCHANGED <<acks, ackSent, state>>
    BY <1>2 DEF Acknowledge
  <1>4. RowTypes' /\ RowsStay
    BY <1>0, <1>3 DEF Acknowledge, RowTypes, RowsStay, Vouched, States, OpenStates
  <1>5. AckIsProof' /\ started' = started
    BY <1>0, <1>3 DEF Acknowledge, AckIsProof, RowTypes
  <1>6. DeskVouched(k)'
    <2>1. desk[k].pc # "idle"
      BY DEF Acknowledge
    <2> QED BY <1>0, <1>1, <1>2, <1>4, <2>1 DEF DeskVouched, RowsStay, Vouched
  <1> QED BY <1>1, <1>4, <1>5, <1>6, OracleMoves DEF DeskTypeInv

LEMMA OracleWire ==
  ASSUME OracleInv, NEW k \in Desks, WireDsar(k)
  PROVE  OracleInv'
  <1>0. DeskTypeInv /\ RowTypes /\ DeskTypes /\ DeskVouched(k) /\ AckIsProof
        /\ desk[k].pc = "wire"
    BY DEF OracleInv, DeskTypeInv, WireDsar
  <1>1. Done(k) \/ Goto(k, "save") \/ Goto(k, "refused")
    BY DEF WireDsar
  <1>2. /\ DeskTypes' /\ \A j \in Desks \ {k} : desk'[j] = desk[j]
        /\ \/ desk'[k].pc = "idle"
           \/ desk'[k].dsar = desk[k].dsar /\ desk'[k].user = desk[k].user
    BY <1>0, <1>1, DeskDone, DeskGoto
  <1>3. UNCHANGED <<state, user, ackSent, linked, notified, matched, acks>>
    BY DEF WireDsar, rows
  <1>4. RowTypes' /\ RowsStay /\ AckIsProof'
    BY <1>0, <1>3 DEF RowTypes, RowsStay, Vouched, AckIsProof
  <1>5. /\ started' \subseteq started \cup {desk[k].dsar}
        /\ started' # started => desk[k].user # NoUser
    BY DEF WireDsar, Wirable
  <1>6. DeskVouched(k)'
    BY <1>0, <1>2, <1>3 DEF DeskVouched, Vouched
  <1> QED BY <1>0, <1>2, <1>4, <1>5, <1>6, OracleMoves DEF DeskTypeInv

LEMMA OracleSave ==
  ASSUME OracleInv, NEW k \in Desks, WireSave(k)
  PROVE  OracleInv'
  <1>0. DeskTypeInv /\ RowTypes /\ DeskTypes /\ AckIsProof /\ Done(k)
    BY DEF OracleInv, DeskTypeInv, WireSave
  <1>1. PICK d \in Dsars : d = desk[k].dsar
    BY <1>0 DEF WireSave, DeskTypes
  <1>2. /\ state' = state \/ state' = [state EXCEPT ![d] = "in_progress"]
        /\ UNCHANGED <<user, ackSent, notified, matched, acks, started>>
    BY <1>1 DEF WireSave, rest
  <1>3. linked' \in [Dsars -> BOOLEAN]
    BY <1>0, <1>1 DEF WireSave, RowTypes
  <1>4. RowTypes' /\ RowsStay /\ AckIsProof'
    BY <1>0, <1>2, <1>3 DEF RowTypes, RowsStay, Vouched, AckIsProof, States, OpenStates
  <1>5. DeskTypes' /\ desk'[k].pc = "idle" /\ \A j \in Desks \ {k} : desk'[j] = desk[j]
    BY <1>0, DeskDone
  <1>6. DeskVouched(k)'
    BY <1>5 DEF DeskVouched
  <1> QED BY <1>2, <1>4, <1>5, <1>6, OracleMoves DEF DeskTypeInv

LEMMA OraclePatch ==
  ASSUME OracleInv, NEW k \in Desks, NEW d \in Dsars, NEW st \in States,
         NEW u \in Users \cup {NoUser}, StaffPatch(k, d, st, u)
  PROVE  OracleInv'
  <1>0. DeskTypeInv /\ RowTypes /\ DeskTypes /\ AckIsProof /\ st # "absent"
    BY DEF OracleInv, DeskTypeInv, States, OpenStates
  <1>1. /\ state' = [state EXCEPT ![d] = st] /\ state[d] # "absent" /\ desk[k].pc = "idle"
        /\ UNCHANGED <<ackSent, linked, notified, acks, started>>
    BY DEF StaffPatch
  <1>2. CASE u = NoUser
    <2>1. UNCHANGED <<user, matched, desk>>
      BY <1>2 DEF StaffPatch
    <2>2. RowTypes' /\ RowsStay /\ AckIsProof' /\ DeskTypes' /\ DeskVouched(k)'
      BY <1>0, <1>1, <2>1 DEF RowTypes, RowsStay, Vouched, AckIsProof, DeskTypes, DeskVouched
    <2> QED BY <1>1, <2>1, <2>2, OracleMoves DEF DeskTypeInv
  <1>3. CASE u # NoUser
    <2>1. /\ user' = [user EXCEPT ![d] = u] /\ matched' = [matched EXCEPT ![d] = "staff"]
          /\ At(k, "wire", d, u, linked[d]) /\ linked[d] \in BOOLEAN
      BY <1>0, <1>3 DEF StaffPatch, RowTypes
    <2>2. RowTypes' /\ RowsStay /\ AckIsProof' /\ Vouched(d)' /\ state'[d] # "absent"
      BY <1>0, <1>1, <1>3, <2>1 DEF RowTypes, RowsStay, Vouched, AckIsProof
    <2>3. /\ DeskTypes' /\ desk'[k].dsar = d
          /\ \A j \in Desks \ {k} : desk'[j] = desk[j]
      BY <1>0, <2>1, DeskAt
    <2>4. DeskVouched(k)'
      BY <2>2, <2>3 DEF DeskVouched, Vouched
    <2> QED BY <1>1, <2>2, <2>3, <2>4, OracleMoves DEF DeskTypeInv
  <1> QED BY <1>2, <1>3

LEMMA OracleInit == Init => OracleInv
  <1> SUFFICES ASSUME Init PROVE OracleInv
    OBVIOUS
  <1>1. \A k \in Desks : desk[k].pc = "idle"
    BY DEF Init, IdleDesk
  <1>2. AckIsProof /\ started = {}
    BY DEF Init, AckIsProof
  <1> QED BY <1>1, <1>2, DeskTypesInit DEF OracleInv, DeskVouched

LEMMA OracleStep == OracleInv /\ [Next]_vars => OracleInv'
  <1> SUFFICES ASSUME OracleInv, [Next]_vars PROVE OracleInv'
    OBVIOUS
  <1>0. notified \in [Dsars -> BOOLEAN]
    BY DEF OracleInv, DeskTypeInv, RowTypes
  <1>1. CASE UNCHANGED vars \/ Tick \/ \E u \in Users, m \in Mechanism : MechanismEnds(u, m)
    BY <1>0, <1>1, OracleRests DEF vars, rows, rest, Tick, MechanismEnds
  <1>2. ASSUME NEW s \in Sweepers, SweepStart(s) \/ SweepLoop(s) \/ SweepFails(s)
        PROVE  OracleInv'
    BY <1>0, <1>2, OracleRests DEF SweepStart, SweepLoop, SweepFails, rows, rest
  <1>3. ASSUME NEW s \in Sweepers, NEW d \in Dsars, SweepEmit(s, d) PROVE OracleInv'
    BY <1>0, <1>3, OracleRests DEF SweepEmit
  <1> QED
    BY <1>1, <1>2, <1>3, OracleCreate, OracleAcknowledge, OracleWire, OracleSave, OraclePatch
    DEF Next, DeskStep, SweepStep

\* ack_sent_at stands only on requests whose acknowledgement the notification
\* service took.
THEOREM ProvenAck == Spec => []AckIsProof
  <1>1. OracleInv => AckIsProof
    BY DEF OracleInv
  <1> QED BY <1>1, OracleInit, OracleStep, PTL DEF Spec

\* No request sets an erasure or an export going unless a session or a member
\* of staff vouched for the account.
THEOREM NoOracle == Spec => []NoDeletionOracle
  <1>1. OracleInv => NoDeletionOracle
    BY DEF OracleInv, NoDeletionOracle, Vouched
  <1> QED BY <1>1, OracleInit, OracleStep, PTL DEF Spec

-----------------------------------------------------------------------------
(* The sweep                                                               *)

\* Celery beat starts the daily sweep on one worker at a time.
SweepsApart == \A s, t \in Sweepers : s = t

SweepTypes == /\ notified \in [Dsars -> BOOLEAN] /\ sweep \in [Sweepers -> SweepCall]
              /\ now \in Nat

\* What was announced is marked, and nobody is about to announce it.
OnceInv ==
    /\ SweepTypes /\ AnnouncedOnce
    /\ \A d \in Dsars : \A c \in Clocks : <<d, c>> \in overdue => notified[d]
    /\ \A s \in Sweepers : sweep[s].todo # {} => sweep[s].pc \in Clocks
    /\ \A s \in Sweepers : \A d \in sweep[s].todo : ~notified[d]

LEMMA OnceInit == Init => OnceInv
  <1> SUFFICES ASSUME Init PROVE OnceInv
    OBVIOUS
  <1>1. SweepTypes /\ \A s \in Sweepers : sweep[s].todo = {}
    BY DEF Init, SweepTypes, SweepCall, IdleSweep
  <1> QED BY <1>1 DEF Init, OnceInv, AnnouncedOnce

\* A sweep that selects anew, or ends.
LEMMA SweepSelects ==
  ASSUME SweepTypes, NEW s \in Sweepers, NEW new \in SweepCall,
         sweep' = [sweep EXCEPT ![s] = new]
  PROVE  /\ sweep' \in [Sweepers -> SweepCall] /\ sweep'[s] = new
         /\ \A t \in Sweepers \ {s} : sweep'[t] = sweep[t]
  BY DEF SweepTypes

LEMMA OnceStep ==
  ASSUME SweepsApart
  PROVE  OnceInv /\ [Next]_vars => OnceInv'
  <1> SUFFICES ASSUME OnceInv, [Next]_vars PROVE OnceInv'
    OBVIOUS
  <1>0. /\ SweepTypes /\ notified \in [Dsars -> BOOLEAN] /\ sweep \in [Sweepers -> SweepCall]
        /\ AnnouncedOnce /\ now \in Nat
    BY DEF OnceInv, SweepTypes
  <1>1. ASSUME UNCHANGED <<notified, overdue, repeats, sweep>>, now' \in Nat PROVE OnceInv'
    BY <1>1 DEF OnceInv, SweepTypes, AnnouncedOnce
  <1>2. ASSUME NEW s \in Sweepers, NEW new \in SweepCall, sweep' = [sweep EXCEPT ![s] = new],
               UNCHANGED <<notified, overdue, repeats, now>>,
               new.todo # {} => new.pc \in Clocks, \A d \in new.todo : ~notified[d]
        PROVE  OnceInv'
    <2>1. /\ sweep' \in [Sweepers -> SweepCall] /\ sweep'[s] = new
          /\ \A t \in Sweepers \ {s} : sweep'[t] = sweep[t]
      BY <1>0, <1>2, SweepSelects
    <2> QED BY <1>2, <2>1 DEF OnceInv, SweepTypes, AnnouncedOnce
  <1>3. ASSUME NEW s \in Sweepers, NEW c \in Clocks, NEW cut \in Nat, SweepTo(s, c, cut),
               UNCHANGED <<notified, overdue, repeats, now>>
        PROVE  OnceInv'
    <2> DEFINE new == [pc |-> c, cut |-> cut, todo |-> Overdue(c, cut)]
    <2>1. new \in SweepCall /\ new.pc = c /\ new.todo = Overdue(c, cut)
      BY DEF SweepCall, Clocks, Overdue
    <2>2. sweep' = [sweep EXCEPT ![s] = new] /\ \A d \in Overdue(c, cut) : ~notified[d]
      BY <1>3 DEF SweepTo, Overdue
    <2> HIDE DEF new
    <2> QED BY <1>2, <1>3, <2>1, <2>2
  <1>4. ASSUME NEW s \in Sweepers, sweep' = [sweep EXCEPT ![s] = IdleSweep],
               UNCHANGED <<notified, overdue, repeats, now>>
        PROVE  OnceInv'
    <2>1. IdleSweep \in SweepCall /\ IdleSweep.todo = {}
      BY DEF IdleSweep, SweepCall
    <2> QED BY <1>2, <1>4, <2>1
  <1>5. ASSUME NEW s \in Sweepers, NEW d \in Dsars, SweepEmit(s, d) PROVE OnceInv'
    <2>1. PICK c, left : c = sweep[s].pc /\ left = sweep[s].todo \ {d}
      OBVIOUS
    <2>2. /\ d \in sweep[s].todo /\ notified' = [notified EXCEPT ![d] = TRUE]
          /\ repeats' = (repeats \/ <<d, c>> \in overdue)
          /\ overdue' = overdue \cup {<<d, c>>} /\ now' = now
          /\ sweep' = [sweep EXCEPT ![s] = [pc |-> c, cut |-> sweep[s].cut, todo |-> left]]
      BY <1>5, <2>1 DEF SweepEmit
    <2>3. c \in Clocks /\ left \subseteq Dsars /\ sweep[s].cut \in Nat
      BY <1>0, <2>1, <2>2 DEF OnceInv, SweepCall
    <2>4. [pc |-> c, cut |-> sweep[s].cut, todo |-> left] \in SweepCall
      BY <2>3 DEF SweepCall, Clocks
    <2>5. sweep' \in [Sweepers -> SweepCall] /\ sweep'[s].todo = left /\ sweep'[s].pc = c
      BY <1>0, <2>2, <2>4
    <2>6. <<d, c>> \notin overdue
      BY <2>1, <2>2, <2>3 DEF OnceInv
    <2>7. AnnouncedOnce'
      BY <1>0, <2>2, <2>6 DEF AnnouncedOnce
    <2>8. notified' \in [Dsars -> BOOLEAN] /\ notified'[d]
          /\ \A e \in Dsars : (notified[e] => notified'[e]) /\ (e # d => notified'[e] = notified[e])
      BY <1>0, <2>2
    <2>9. \A e \in Dsars : \A b \in Clocks : <<e, b>> \in overdue' => notified'[e]
      BY <2>2, <2>8 DEF OnceInv
    <2>10. \A t \in Sweepers : t = s
      BY DEF SweepsApart
    <2>11. \A e \in left : ~notified'[e]
      BY <2>1, <2>3, <2>8 DEF OnceInv
    <2> QED BY <1>0, <2>2, <2>3, <2>5, <2>7, <2>8, <2>9, <2>10, <2>11 DEF OnceInv, SweepTypes
  <1>6. ASSUME NEW s \in Sweepers, SweepStart(s) PROVE OnceInv'
    BY <1>0, <1>3, <1>6 DEF SweepStart, rows, rest, Clocks
  <1>7. ASSUME NEW s \in Sweepers, SweepLoop(s) \/ SweepFails(s) PROVE OnceInv'
    <2>1. sweep[s].cut \in Nat
      BY <1>0 DEF SweepCall
    <2> QED BY <1>3, <1>4, <1>7, <2>1 DEF SweepLoop, SweepFails, rows, rest, Clocks
  <1>8. ASSUME NEW k \in Desks, DeskStep(k) PROVE OnceInv'
    BY <1>0, <1>1, <1>8 DEF DeskStep, Acknowledge, WireDsar, WireSave, rows, rest
  <1>9. CASE UNCHANGED vars \/ Tick \/ \E u \in Users, m \in Mechanism : MechanismEnds(u, m)
    BY <1>0, <1>1, <1>9 DEF vars, rows, rest, Tick, MechanismEnds
  <1>10. ASSUME NEW k \in Desks, NEW d \in Dsars, NEW u \in Users \cup {NoUser},
                (\E kd \in Kinds : CreateDsar(k, d, kd, u))
                  \/ (\E st \in States : StaffPatch(k, d, st, u))
         PROVE  OnceInv'
    BY <1>0, <1>1, <1>10 DEF CreateDsar, StaffPatch
  <1> QED
    BY <1>5, <1>6, <1>7, <1>8, <1>9, <1>10 DEF Next, SweepStep

\* Sweeps that run one after the other, failing and repeated ones included,
\* announce a missed clock of a request once.
THEOREM Once ==
  ASSUME SweepsApart
  PROVE  Spec => []AnnouncedOnce
  <1>1. OnceInv => AnnouncedOnce
    BY DEF OnceInv
  <1> QED BY <1>1, OnceInit, OnceStep, PTL DEF Spec

-----------------------------------------------------------------------------
(* business_days_from. It is a recursive function, that is, some function  *)
(* that satisfies its equation: there is one, the closed form ByWeeks, and *)
(* an induction on the turns the loop has left shows what any of them      *)
(* computes.                                                               *)

\* Induction over numbers: a set of them has a least one.
LEMMA Least ==
  ASSUME NEW S, S \subseteq Nat, S # {}
  PROVE  \E x \in S : \A y \in S : x <= y
  <1> DEFINE R == OpToRel(<, Nat)
  <1>1. IsWellFoundedOn(R, Nat)
    BY NatLessThanWellFounded
  <1>2. \A x, y \in Nat : y < x => <<y, x>> \in R
    BY DEF OpToRel
  <1> HIDE DEF R
  <1>3. PICK x \in S : \A y \in S : <<y, x>> \notin R
    BY <1>1, WFMin
  <1>4. ASSUME NEW y \in S PROVE x <= y
    <2>1. x \in Nat /\ y \in Nat /\ ~(y < x)
      BY <1>2, <1>3
    <2> QED BY <2>1
  <1> QED BY <1>4

\* What one turn of the loop leaves to count.
Left(day, days) == IF Weekday(day + 1) < 5 THEN days - 1 ELSE days

Turn(l) == [moment |-> l.moment + 1, remaining |-> Left(l.moment, l.remaining)]

IsLoop(f) == f = [l \in Loop |-> IF l.remaining = 0 THEN l.moment ELSE f[Turn(l)]]

\* The same count without a loop, from the last business day before.
Friday(day)   == IF Weekday(day) > 4 THEN day - (Weekday(day) - 4) ELSE day
Ahead(day, n) == Friday(day) + n + 2 * ((Weekday(Friday(day)) + n) \div 5)
ByWeeks       == [l \in Loop |-> IF l.remaining = 0 THEN l.moment
                                  ELSE Ahead(l.moment, l.remaining)]

\* The days of a week, and their last business day.
LEMMA NextWeekday ==
  ASSUME NEW day \in Nat
  PROVE  /\ Weekday(day) \in 0 .. 6
         /\ Weekday(day + 1) = IF Weekday(day) = 6 THEN 0 ELSE Weekday(day) + 1
  BY DEF Weekday

LEMMA FridayIs ==
  ASSUME NEW day \in Nat
  PROVE  /\ Friday(day) \in Nat
         /\ Weekday(Friday(day)) = IF Weekday(day) > 4 THEN 4 ELSE Weekday(day)
  BY DEF Weekday, Friday

LEMMA LeftIs ==
  ASSUME NEW day \in Nat, NEW days \in Nat, days > 0
  PROVE  Left(day, days) \in Nat
  BY DEF Left

\* The closed form takes one turn of the loop as the code does.
LEMMA AheadStep ==
  ASSUME NEW day \in Nat, NEW days \in Nat, days > 0
  PROVE  Ahead(day, days) = IF Left(day, days) = 0 THEN day + 1
                              ELSE Ahead(day + 1, Left(day, days))
  <1> DEFINE w == Weekday(day)
  <1>1. w \in 0 .. 6 /\ Weekday(day + 1) = IF w = 6 THEN 0 ELSE w + 1
    BY NextWeekday
  <1>2. /\ Weekday(Friday(day)) = IF w > 4 THEN 4 ELSE w
        /\ Friday(day) = IF w > 4 THEN day - (w - 4) ELSE day
    BY FridayIs DEF Friday
  <1>3. Weekday(Friday(day + 1)) = IF Weekday(day + 1) > 4 THEN 4 ELSE Weekday(day + 1)
    <2> DEFINE next == day + 1
    <2>1. next \in Nat
      OBVIOUS
    <2> HIDE DEF next
    <2>2. Weekday(Friday(next)) = IF Weekday(next) > 4 THEN 4 ELSE Weekday(next)
      BY <2>1, FridayIs
    <2> QED BY <2>2 DEF next
  <1>4. Friday(day + 1) = IF Weekday(day + 1) > 4 THEN day + 1 - (Weekday(day + 1) - 4)
                            ELSE day + 1
    BY <1>1 DEF Friday
  <1> HIDE DEF w
  <1>5. CASE w \in 0 .. 3
    BY <1>1, <1>2, <1>3, <1>4, <1>5 DEF Ahead, Left
  <1>6. CASE w \in {4, 5}
    BY <1>1, <1>2, <1>3, <1>4, <1>6 DEF Ahead, Left
  <1>7. CASE w = 6
    BY <1>1, <1>2, <1>3, <1>4, <1>7 DEF Ahead, Left
  <1> QED BY <1>1, <1>5, <1>6, <1>7

LEMMA ByWeeksLoop == IsLoop(ByWeeks)
  <1>1. ASSUME NEW l \in Loop
        PROVE  ByWeeks[l] = IF l.remaining = 0 THEN l.moment ELSE ByWeeks[Turn(l)]
    <2>1. l.moment \in Nat /\ l.remaining \in Nat
      BY DEF Loop
    <2>2. CASE l.remaining = 0
      BY <2>2 DEF ByWeeks
    <2>3. CASE l.remaining > 0
      <3>1. Left(l.moment, l.remaining) \in Nat /\ l.moment + 1 \in Nat
        BY <2>1, <2>3, LeftIs
      <3>2. /\ Turn(l) \in Loop /\ Turn(l).moment = l.moment + 1
            /\ Turn(l).remaining = Left(l.moment, l.remaining)
        BY <3>1 DEF Turn, Loop
      <3>3. ByWeeks[Turn(l)] =
              IF Left(l.moment, l.remaining) = 0 THEN l.moment + 1
                ELSE Ahead(l.moment + 1, Left(l.moment, l.remaining))
        BY <3>2 DEF ByWeeks
      <3>4. ByWeeks[l] = Ahead(l.moment, l.remaining)
        BY <2>1, <2>3 DEF ByWeeks
      <3> QED BY <2>1, <2>3, <3>3, <3>4, AheadStep
    <2> QED BY <2>1, <2>2, <2>3
  <1>2. ByWeeks = [l \in Loop |-> ByWeeks[l]]
    BY DEF ByWeeks
  <1> QED BY <1>1, <1>2 DEF IsLoop

\* So there is a function that runs the loop, and business_days_from is one.
LEMMA BusinessDaysLoop == IsLoop(BusinessDaysFrom)
  <1>1. BusinessDaysFrom = CHOOSE f : IsLoop(f)
    BY DEF BusinessDaysFrom, IsLoop, Turn, Left
  <1>2. IsLoop(CHOOSE f : IsLoop(f))
    BY ByWeeksLoop
  <1> QED BY <1>1, <1>2

LEMMA AckDueLoop ==
  ASSUME NEW day \in Nat, NEW days \in Nat
  PROVE  AckDue(day, days) = IF days = 0 THEN day ELSE AckDue(day + 1, Left(day, days))
  <1> DEFINE l == [moment |-> day, remaining |-> days]
  <1>1. l \in Loop /\ l.moment = day /\ l.remaining = days
    BY DEF Loop
  <1>2. Turn(l) = [moment |-> day + 1, remaining |-> Left(day, days)]
    BY <1>1 DEF Turn
  <1>3. AckDue(day, days) = BusinessDaysFrom[l]
    BY DEF AckDue
  <1>4. AckDue(day + 1, Left(day, days)) = BusinessDaysFrom[Turn(l)]
    BY <1>2 DEF AckDue
  <1> HIDE DEF l
  <1>5. BusinessDaysFrom[l] = IF l.remaining = 0 THEN l.moment ELSE BusinessDaysFrom[Turn(l)]
    BY <1>1, BusinessDaysLoop DEF IsLoop
  <1> QED BY <1>1, <1>3, <1>4, <1>5


\* What business_days_from promises.
Counted(day, days) ==
    LET due == AckDue(day, days)
    IN /\ due \in Nat /\ due >= day
       /\ days > 0 => due > day /\ Weekday(due) < 5
       /\ IsFiniteSet(Between(day, due)) /\ Cardinality(Between(day, due)) = days

\* Turns the loop has left at most.
Turns(day, days) ==
    3 * days + (CASE Weekday(day) = 4 -> 2 [] Weekday(day) = 5 -> 1 [] OTHER -> 0)

LEMMA FewerTurns ==
  ASSUME NEW day \in Nat, NEW days \in Nat, days > 0
  PROVE  /\ Turns(day, days) \in Nat /\ Turns(day + 1, Left(day, days)) \in Nat
         /\ Turns(day + 1, Left(day, days)) < Turns(day, days)
  BY NextWeekday DEF Turns, Left

LEMMA TurnsNat ==
  ASSUME NEW day \in Nat, NEW days \in Nat
  PROVE  Turns(day, days) \in Nat
  BY NextWeekday DEF Turns

LEMMA CountedNone ==
  ASSUME NEW day \in Nat
  PROVE  Counted(day, 0)
  <1>1. AckDue(day, 0) = day
    BY AckDueLoop
  <1>2. Between(day, day) = {}
    BY DEF Between
  <1> QED BY <1>1, <1>2, FS_EmptySet DEF Counted

\* One turn uses up the day it reaches exactly when that is a business day.
LEMMA CountedTurn ==
  ASSUME NEW day \in Nat, NEW days \in Nat, days > 0, Counted(day + 1, Left(day, days))
  PROVE  Counted(day, days)
  <1> DEFINE due == AckDue(day + 1, Left(day, days))
             T   == Between(day + 1, due)
  <1>1. AckDue(day, days) = due
    BY AckDueLoop
  <1>2. /\ due \in Nat /\ due >= day + 1 /\ (Left(day, days) > 0 => Weekday(due) < 5)
        /\ (Left(day, days) = 0 => due = day + 1)
        /\ IsFiniteSet(T) /\ Cardinality(T) = Left(day, days)
    BY AckDueLoop DEF Counted
  <1>3. Left(day, days) = IF Weekday(day + 1) < 5 THEN days - 1 ELSE days
    BY DEF Left
  <1>4. Between(day, due) = IF Weekday(day + 1) < 5 THEN T \cup {day + 1} ELSE T
    BY <1>2 DEF Between
  <1>5. day + 1 \notin T
    BY DEF Between
  <1> HIDE DEF due, T
  <1>6. Weekday(due) < 5
    BY <1>2, <1>3
  <1>7. IsFiniteSet(Between(day, due)) /\ Cardinality(Between(day, due)) = days
    <2>1. CASE Weekday(day + 1) < 5
      BY <1>2, <1>3, <1>4, <1>5, <2>1, FS_AddElement
    <2>2. CASE ~(Weekday(day + 1) < 5)
      BY <1>2, <1>3, <1>4, <2>2
    <2> QED BY <2>1, <2>2
  <1> QED BY <1>1, <1>2, <1>6, <1>7 DEF Counted

\* A least count of turns after which the promise fails would have a smaller one.
LEMMA AllCounted ==
  ASSUME NEW day \in Nat, NEW days \in Nat
  PROVE  Counted(day, days)
  <1> DEFINE Bad == {n \in Nat : \E x, y \in Nat : Turns(x, y) = n /\ ~Counted(x, y)}
  <1>1. Bad = {}
    <2> SUFFICES ASSUME Bad # {} PROVE FALSE
      OBVIOUS
    <2>1. PICK n \in Bad : \A m \in Bad : n <= m
      BY Least
    <2>2. PICK x \in Nat, y \in Nat : Turns(x, y) = n /\ ~Counted(x, y)
      OBVIOUS
    <2>3. y > 0
      BY <2>2, CountedNone
    <2>4. /\ Left(x, y) \in Nat /\ Turns(x + 1, Left(x, y)) \in Nat
          /\ Turns(x + 1, Left(x, y)) < n
      BY <2>2, <2>3, LeftIs, FewerTurns
    <2>5. Counted(x + 1, Left(x, y))
      <3> SUFFICES ASSUME ~Counted(x + 1, Left(x, y)) PROVE FALSE
        OBVIOUS
      <3>1. Turns(x + 1, Left(x, y)) \in Bad
        BY <2>4
      <3> QED BY <2>1, <2>4, <3>1
    <2> QED BY <2>2, <2>3, <2>5, CountedTurn
  <1> QED BY <1>1, TurnsNat

-----------------------------------------------------------------------------
(* The clocks of a request                                                 *)

Deadline(d, c) == IF c = "acknowledgement" THEN ackDue[d] ELSE resolveDue[d]

\* A clock of a request that is there has run out.
Missed(d, c) == state[d] # "absent" /\ Deadline(d, c) <= now

Dates == /\ now \in Nat /\ state \in [Dsars -> States \cup {"absent"}]
         /\ received   \in [Dsars -> Nat] /\ ackDue \in [Dsars -> Nat]
         /\ resolveDue \in [Dsars -> Nat]
         /\ sweep      \in [Sweepers -> SweepCall]

\* What a sweep is about to announce was due when it began.
SweepDue(s) ==
    /\ sweep[s].cut <= now
    /\ sweep[s].todo # {} => sweep[s].pc \in Clocks
    /\ \A d \in sweep[s].todo : \A c \in Clocks : sweep[s].pc = c => Missed(d, c)

\* The clocks count from the receipt, and a sweep announces only what was due.
ClockInv ==
    /\ Dates
    /\ \A d \in Dsars : state[d] # "absent" =>
          /\ ackDue[d] = AckDue(received[d], AckBusinessDays)
          /\ resolveDue[d] = received[d] + ResolveDays
    /\ \A s \in Sweepers : SweepDue(s)
    /\ \A d \in Dsars : \A c \in Clocks : <<d, c>> \in overdue => Missed(d, c)

LEMMA ClockInit == Init => ClockInv
  <1> SUFFICES ASSUME Init PROVE ClockInv
    OBVIOUS
  <1>1. /\ sweep \in [Sweepers -> SweepCall]
        /\ \A s \in Sweepers : sweep[s].cut = 0 /\ sweep[s].todo = {}
    BY DEF Init, IdleSweep, SweepCall
  <1>2. Dates
    BY <1>1 DEF Init, Dates
  <1> QED BY <1>1, <1>2 DEF Init, ClockInv, SweepDue

\* A row keeps its dates.
LEMMA MissedStays ==
  ASSUME Dates, Dates', now' >= now, NEW d \in Dsars, NEW c \in Clocks, Missed(d, c),
         state'[d] # "absent", ackDue'[d] = ackDue[d], resolveDue'[d] = resolveDue[d]
  PROVE  Missed(d, c)'
  <1>1. /\ Deadline(d, c)' = Deadline(d, c) /\ Deadline(d, c) \in Nat
        /\ now \in Nat /\ now' \in Nat
    BY DEF Deadline, Dates
  <1> QED BY <1>1 DEF Missed

\* What a step outside the sweep leaves to show.
LEMMA ClockRests ==
  ASSUME ClockInv, Dates', now' >= now, UNCHANGED <<overdue, sweep>>,
         \A d \in Dsars : state[d] # "absent" =>
            /\ state'[d] # "absent"
            /\ received'[d] = received[d] /\ ackDue'[d] = ackDue[d]
            /\ resolveDue'[d] = resolveDue[d],
         \A d \in Dsars : state[d] = "absent" /\ state'[d] # "absent" =>
            /\ ackDue'[d] = AckDue(received'[d], AckBusinessDays)
            /\ resolveDue'[d] = received'[d] + ResolveDays
  PROVE  ClockInv'
  <1>1. ASSUME NEW d \in Dsars, NEW c \in Clocks, Missed(d, c) PROVE Missed(d, c)'
    BY <1>1, MissedStays DEF ClockInv, Missed
  <1>2. ASSUME NEW s \in Sweepers
        PROVE  SweepDue(s)'
    <2>1. /\ SweepDue(s) /\ sweep[s].cut \in Nat /\ now \in Nat /\ now' \in Nat
          /\ sweep[s].todo \subseteq Dsars
      BY DEF ClockInv, Dates, SweepCall
    <2> QED BY <1>1, <2>1 DEF SweepDue
  <1>3. ASSUME NEW d \in Dsars, NEW c \in Clocks, <<d, c>> \in overdue' PROVE Missed(d, c)'
    BY <1>1, <1>3 DEF ClockInv
  <1>4. ASSUME NEW d \in Dsars, state'[d] # "absent"
        PROVE  /\ ackDue'[d] = AckDue(received'[d], AckBusinessDays)
               /\ resolveDue'[d] = received'[d] + ResolveDays
    BY <1>4 DEF ClockInv
  <1> QED BY <1>2, <1>3, <1>4 DEF ClockInv

\* A sweep that selects anew at its cut.
LEMMA ClockSelects ==
  ASSUME ClockInv, NEW s \in Sweepers, NEW c \in Clocks, NEW cut \in Nat, cut <= now,
         SweepTo(s, c, cut), UNCHANGED <<rows, overdue, now>>
  PROVE  ClockInv'
  <1> DEFINE new == [pc |-> c, cut |-> cut, todo |-> Overdue(c, cut)]
  <1>1. /\ new \in SweepCall /\ new.pc = c /\ new.cut = cut /\ new.todo = Overdue(c, cut)
    BY DEF SweepCall, Clocks, Overdue
  <1>2. sweep' = [sweep EXCEPT ![s] = new] /\ sweep \in [Sweepers -> SweepCall]
    BY DEF SweepTo, ClockInv, Dates
  <1> HIDE DEF new
  <1>3. /\ sweep' \in [Sweepers -> SweepCall] /\ sweep'[s] = new
        /\ \A t \in Sweepers \ {s} : sweep'[t] = sweep[t]
    BY <1>1, <1>2
  <1>4. ASSUME NEW d \in Overdue(c, cut) PROVE d \in Dsars /\ Missed(d, c)
    <2>1. d \in Dsars /\ state[d] \in OpenStates /\ Deadline(d, c) <= cut
      BY DEF Overdue, Deadline, Clocks
    <2>2. Deadline(d, c) \in Nat /\ now \in Nat
      BY <2>1 DEF ClockInv, Dates, Deadline
    <2>3. state[d] # "absent"
      BY <2>1 DEF OpenStates
    <2> QED BY <2>1, <2>2, <2>3 DEF Missed
  <1>5. Dates'
    BY <1>3 DEF ClockInv, Dates, rows
  <1>6. \A d \in Dsars : \A e \in Clocks : Missed(d, e)' <=> Missed(d, e)
    BY DEF Missed, Deadline, rows
  <1>7. ASSUME NEW t \in Sweepers
        PROVE  SweepDue(t)'
    <2>1. CASE t = s
      BY <1>1, <1>3, <1>4, <1>6, <2>1 DEF SweepDue
    <2>2. CASE t # s
      <3>1. sweep'[t] = sweep[t] /\ sweep[t].todo \subseteq Dsars /\ SweepDue(t)
        BY <1>3, <2>2 DEF ClockInv, Dates, SweepCall
      <3> QED BY <1>6, <3>1 DEF SweepDue
    <2> QED BY <2>1, <2>2
  <1> QED BY <1>5, <1>6, <1>7 DEF ClockInv, rows

LEMMA ClockEnds ==
  ASSUME ClockInv, NEW s \in Sweepers, sweep' = [sweep EXCEPT ![s] = IdleSweep],
         UNCHANGED <<rows, overdue, now>>
  PROVE  ClockInv'
  <1>1. IdleSweep \in SweepCall /\ IdleSweep.cut = 0 /\ IdleSweep.todo = {}
    BY DEF IdleSweep, SweepCall
  <1>2. /\ sweep' \in [Sweepers -> SweepCall] /\ sweep'[s] = IdleSweep
        /\ \A t \in Sweepers \ {s} : sweep'[t] = sweep[t]
    BY <1>1 DEF ClockInv, Dates
  <1>3. Dates' /\ now \in Nat
    BY <1>2 DEF ClockInv, Dates, rows
  <1>4. \A d \in Dsars : \A e \in Clocks : Missed(d, e)' <=> Missed(d, e)
    BY DEF Missed, Deadline, rows
  <1>5. ASSUME NEW t \in Sweepers
        PROVE  SweepDue(t)'
    <2>1. CASE t = s
      BY <1>1, <1>2, <1>3, <2>1 DEF SweepDue
    <2>2. CASE t # s
      <3>1. sweep'[t] = sweep[t] /\ sweep[t].todo \subseteq Dsars /\ SweepDue(t)
        BY <1>2, <2>2 DEF ClockInv, Dates, SweepCall
      <3> QED BY <1>4, <3>1 DEF SweepDue
    <2> QED BY <2>1, <2>2
  <1> QED BY <1>3, <1>4, <1>5 DEF ClockInv, rows

LEMMA ClockEmit ==
  ASSUME ClockInv, NEW s \in Sweepers, NEW d \in Dsars, SweepEmit(s, d)
  PROVE  ClockInv'
  <1> DEFINE new == [pc |-> sweep[s].pc, cut |-> sweep[s].cut, todo |-> sweep[s].todo \ {d}]
  <1>1. sweep[s] \in SweepCall /\ d \in sweep[s].todo /\ sweep[s].pc \in Clocks
    BY DEF ClockInv, SweepDue, Dates, SweepEmit
  <1>2. /\ new \in SweepCall /\ new.pc = sweep[s].pc /\ new.cut = sweep[s].cut
        /\ new.todo \subseteq sweep[s].todo
    BY <1>1 DEF SweepCall
  <1>3. sweep' = [sweep EXCEPT ![s] = new] /\ sweep \in [Sweepers -> SweepCall]
    BY DEF SweepEmit, ClockInv, Dates
  <1> HIDE DEF new
  <1>4. /\ sweep' \in [Sweepers -> SweepCall] /\ sweep'[s] = new
        /\ \A t \in Sweepers \ {s} : sweep'[t] = sweep[t]
    BY <1>2, <1>3
  <1>5. UNCHANGED <<state, received, ackDue, resolveDue, now>>
    BY DEF SweepEmit
  <1>6. Dates'
    BY <1>4, <1>5 DEF ClockInv, Dates
  <1>7. \A b \in Dsars : \A e \in Clocks : Missed(b, e)' <=> Missed(b, e)
    BY <1>5 DEF Missed, Deadline
  <1>8. ASSUME NEW t \in Sweepers
        PROVE  SweepDue(t)'
    <2>1. /\ sweep'[t].cut = sweep[t].cut /\ sweep'[t].pc = sweep[t].pc
          /\ sweep'[t].todo \subseteq sweep[t].todo /\ sweep[t].todo \subseteq Dsars /\ SweepDue(t)
      BY <1>2, <1>4 DEF ClockInv, Dates, SweepCall
    <2> QED BY <1>5, <1>7, <2>1 DEF SweepDue
  <1>9. ASSUME NEW b \in Dsars, NEW e \in Clocks, <<b, e>> \in overdue' PROVE Missed(b, e)'
    <2>1. overdue' = overdue \cup {<<d, sweep[s].pc>>} /\ Missed(d, sweep[s].pc)
      BY <1>1 DEF SweepEmit, ClockInv, SweepDue
    <2> QED BY <1>7, <1>9, <2>1 DEF ClockInv
  <1> QED BY <1>5, <1>6, <1>8, <1>9 DEF ClockInv

LEMMA ClockStep == ClockInv /\ OracleInv /\ [Next]_vars => ClockInv'
  <1> SUFFICES ASSUME ClockInv, OracleInv, [Next]_vars PROVE ClockInv'
    OBVIOUS
  <1> USE DsarAssumption DEF DsarAssumption
  <1>0. Dates /\ now \in Nat
    BY DEF ClockInv, Dates
  <1>1. ASSUME NEW k \in Desks, NEW d \in Dsars, NEW kd \in Kinds,
               NEW u \in Users \cup {NoUser}, CreateDsar(k, d, kd, u)
        PROVE  ClockInv'
    <2>1. /\ state[d] = "absent" /\ state' = [state EXCEPT ![d] = "received"]
          /\ received' = [received EXCEPT ![d] = now]
          /\ ackDue' = [ackDue EXCEPT ![d] = AckDue(now, AckBusinessDays)]
          /\ resolveDue' = [resolveDue EXCEPT ![d] = now + ResolveDays]
          /\ UNCHANGED <<overdue, sweep, now>>
      BY <1>1 DEF CreateDsar
    <2>2. AckDue(now, AckBusinessDays) \in Nat /\ now + ResolveDays \in Nat
      BY <1>0, AllCounted DEF Counted
    <2>3. "received" \in States
      BY DEF States, OpenStates
    <2>4. Dates' /\ now' >= now
      BY <1>0, <2>1, <2>2, <2>3 DEF Dates
    <2>5. /\ received'[d] = now /\ ackDue'[d] = AckDue(now, AckBusinessDays)
          /\ resolveDue'[d] = now + ResolveDays
          /\ \A e \in Dsars \ {d} :
                /\ state'[e] = state[e] /\ received'[e] = received[e]
                /\ ackDue'[e] = ackDue[e] /\ resolveDue'[e] = resolveDue[e]
      BY <1>0, <2>1 DEF Dates
    <2> QED BY <2>1, <2>4, <2>5, ClockRests
  <1>2. ASSUME UNCHANGED <<received, ackDue, resolveDue, overdue, sweep>>,
               state' \in [Dsars -> States \cup {"absent"}], now' \in Nat, now' >= now,
               \A d \in Dsars : state[d] = "absent" <=> state'[d] = "absent"
        PROVE  ClockInv'
    <2>1. Dates'
      BY <1>0, <1>2 DEF Dates
    <2> QED BY <1>2, <2>1, ClockRests
  <1>3. ASSUME NEW d \in Dsars, state[d] # "absent", NEW new \in States,
               state' = [state EXCEPT ![d] = new],
               UNCHANGED <<received, ackDue, resolveDue, overdue, sweep, now>>
        PROVE  ClockInv'
    <2>1. new # "absent"
      BY DEF States, OpenStates
    <2>2. /\ state' \in [Dsars -> States \cup {"absent"}]
          /\ \A e \in Dsars : state[e] = "absent" <=> state'[e] = "absent"
      BY <1>0, <1>3, <2>1 DEF Dates
    <2>3. now' \in Nat /\ now' >= now
      BY <1>0, <1>3
    <2> QED BY <1>2, <1>3, <2>2, <2>3
  <1>4. ASSUME NEW k \in Desks, desk[k].pc # "idle"
        PROVE  desk[k].dsar \in Dsars /\ state[desk[k].dsar] # "absent"
    BY <1>4 DEF OracleInv, DeskTypeInv, DeskTypes, DeskVouched
  <1>5. ASSUME NEW k \in Desks, Acknowledge(k) PROVE ClockInv'
    <2>1. /\ desk[k].pc # "idle" /\ UNCHANGED <<received, ackDue, resolveDue, overdue, sweep, now>>
          /\ \/ UNCHANGED state
             \/ state' = [state EXCEPT ![desk[k].dsar] = "acknowledged"]
      BY <1>5 DEF Acknowledge
    <2>2. "acknowledged" \in States
      BY DEF States, OpenStates
    <2>3. CASE UNCHANGED state
      BY <1>0, <1>2, <2>1, <2>3 DEF Dates
    <2>4. CASE state' = [state EXCEPT ![desk[k].dsar] = "acknowledged"]
      BY <1>3, <1>4, <2>1, <2>2, <2>4
    <2> QED BY <2>1, <2>3, <2>4
  <1>6. ASSUME NEW k \in Desks, WireSave(k) PROVE ClockInv'
    <2>1. /\ desk[k].pc # "idle" /\ UNCHANGED <<received, ackDue, resolveDue, overdue, sweep, now>>
          /\ \/ UNCHANGED state
             \/ state' = [state EXCEPT ![desk[k].dsar] = "in_progress"]
      BY <1>6 DEF WireSave, rest
    <2>2. "in_progress" \in States
      BY DEF States, OpenStates
    <2>3. CASE UNCHANGED state
      BY <1>0, <1>2, <2>1, <2>3 DEF Dates
    <2>4. CASE state' = [state EXCEPT ![desk[k].dsar] = "in_progress"]
      BY <1>3, <1>4, <2>1, <2>2, <2>4
    <2> QED BY <2>1, <2>3, <2>4
  <1>7. ASSUME NEW k \in Desks, NEW d \in Dsars, NEW st \in States,
               NEW u \in Users \cup {NoUser}, StaffPatch(k, d, st, u)
        PROVE  ClockInv'
    BY <1>3, <1>7 DEF StaffPatch
  <1>8. ASSUME UNCHANGED <<state, received, ackDue, resolveDue, overdue, sweep>>,
               now' = now \/ now' = now + 1
        PROVE  ClockInv'
    BY <1>0, <1>2, <1>8 DEF Dates
  <1>9. ASSUME \/ UNCHANGED vars \/ Tick \/ \E k \in Desks : WireDsar(k)
               \/ \E u \in Users, m \in Mechanism : MechanismEnds(u, m)
        PROVE  ClockInv'
    BY <1>8, <1>9 DEF vars, rows, rest, Tick, WireDsar, MechanismEnds
  <1>10. ASSUME NEW s \in Sweepers, SweepStart(s) PROVE ClockInv'
    BY <1>0, <1>10, ClockSelects DEF SweepStart, rest, Clocks
  <1>11. ASSUME NEW s \in Sweepers, SweepLoop(s) \/ SweepFails(s) PROVE ClockInv'
    <2>1. sweep[s].cut \in Nat /\ sweep[s].cut <= now
      BY DEF ClockInv, SweepDue, Dates, SweepCall
    <2> QED BY <1>11, <2>1, ClockSelects, ClockEnds DEF SweepLoop, SweepFails, rest, Clocks
  <1> QED
    BY <1>1, <1>5, <1>6, <1>7, <1>9, <1>10, <1>11, ClockEmit DEF Next, DeskStep, SweepStep

\* business_days_from counts business days, and only those, for every request
\* and whatever weekday it arrives on.
THEOREM BusinessClock == Spec => []AckClockInBusinessDays
  <1>1. ClockInv => AckClockInBusinessDays
    <2> SUFFICES ASSUME ClockInv, NEW d \in Dsars, NEW shift \in 0 .. 6, NEW days \in 0 .. 6
                 PROVE  LET day == received[d] + shift
                            due == AckDue(day, days)
                        IN /\ days > 0 => Weekday(due) < 5
                           /\ Cardinality(Between(day, due)) = days
      BY DEF AckClockInBusinessDays
    <2> DEFINE day == received[d] + shift
    <2>1. day \in Nat /\ days \in Nat
      BY DEF ClockInv, Dates
    <2> HIDE DEF day
    <2>2. Counted(day, days)
      BY <2>1, AllCounted
    <2>3. /\ days > 0 => Weekday(AckDue(day, days)) < 5
          /\ Cardinality(Between(day, AckDue(day, days))) = days
      BY <2>2 DEF Counted
    <2> QED BY <2>3 DEF day
  <1> QED BY <1>1, OracleInit, OracleStep, ClockInit, ClockStep, PTL DEF Spec

\* No alarm comes before its clock has run out: the promised number of business
\* days, or of days to resolve, has passed since the request was received.
THEOREM AlarmsInTime == Spec => []NoEarlyAlarm
  <1>1. ClockInv => NoEarlyAlarm
    <2> SUFFICES ASSUME ClockInv, NEW d \in Dsars
                 PROVE  /\ <<d, "acknowledgement">> \in overdue =>
                             Cardinality(Between(received[d], now)) >= AckBusinessDays
                        /\ <<d, "resolution">> \in overdue =>
                             now >= received[d] + ResolveDays
      BY DEF NoEarlyAlarm
    <2>0. /\ received[d] \in Nat /\ now \in Nat /\ AckBusinessDays \in Nat
      BY DsarAssumption DEF ClockInv, Dates, DsarAssumption
    <2>1. ASSUME <<d, "acknowledgement">> \in overdue
          PROVE  Cardinality(Between(received[d], now)) >= AckBusinessDays
      <3> DEFINE due  == AckDue(received[d], AckBusinessDays)
                 some == Between(received[d], due)
                 all  == Between(received[d], now)
      <3>1. due <= now
        BY <2>1 DEF ClockInv, Missed, Deadline, Clocks
      <3>2. due \in Nat /\ IsFiniteSet(some) /\ Cardinality(some) = AckBusinessDays
        BY <2>0, AllCounted DEF Counted
      <3>3. IsFiniteSet(received[d] + 1 .. now)
        BY <2>0, FS_Interval
      <3>4. IsFiniteSet(all)
        BY <3>3, FS_Subset DEF Between
      <3>5. some \subseteq all
        BY <2>0, <3>1, <3>2 DEF Between
      <3> HIDE DEF some, all
      <3>6. Cardinality(some) <= Cardinality(all) /\ Cardinality(all) \in Nat
        BY <3>4, <3>5, FS_Subset, FS_CardinalityType
      <3> QED BY <2>0, <3>2, <3>6 DEF all
    <2>2. ASSUME <<d, "resolution">> \in overdue PROVE now >= received[d] + ResolveDays
      BY <2>2, DsarAssumption DEF ClockInv, Missed, Deadline, Clocks, Dates, DsarAssumption
    <2> QED BY <2>1, <2>2
  <1> QED BY <1>1, OracleInit, OracleStep, ClockInit, ClockStep, PTL DEF Spec

-----------------------------------------------------------------------------
(* The types of everything else                                            *)

RestTypes ==
    /\ kind    \in [Dsars -> Kinds \cup {"none"}]
    /\ acks    \subseteq Dsars /\ started \subseteq Dsars
    /\ overdue \subseteq Dsars \X Clocks /\ repeats \in BOOLEAN
    /\ busy    \in [Users \cup {NoUser} -> SUBSET Mechanism]
    /\ failures \in 0..MaxFailures /\ patches \in 0..MaxPatches

LEMMA RestTypesStep == RestTypes /\ OracleInv /\ ClockInv /\ [Next]_vars => RestTypes'
  <1> SUFFICES ASSUME RestTypes, OracleInv, ClockInv, [Next]_vars PROVE RestTypes'
    OBVIOUS
  <1> USE DsarAssumption DEF DsarAssumption
  <1>0. /\ \A k \in Desks : desk[k].user \in Users \cup {NoUser}
        /\ \A k \in Desks : desk[k].pc # "idle" => desk[k].dsar \in Dsars
    BY DEF OracleInv, DeskTypeInv, DeskTypes, Call
  <1>1. ASSUME Fails PROVE failures' \in 0..MaxFailures
    BY <1>1 DEF RestTypes, Fails
  <1>2. ASSUME NEW k \in Desks, NEW d \in Dsars, NEW kd \in Kinds,
               NEW u \in Users \cup {NoUser}, CreateDsar(k, d, kd, u)
        PROVE  RestTypes'
    BY <1>2 DEF CreateDsar, RestTypes
  <1>3. ASSUME NEW k \in Desks, Acknowledge(k) PROVE RestTypes'
    BY <1>0, <1>1, <1>3 DEF Acknowledge, RestTypes
  <1>4. ASSUME NEW k \in Desks, WireDsar(k) PROVE RestTypes'
    <2>1. Needs(desk[k].dsar) \subseteq Mechanism
      BY DEF Needs, Mechanism
    <2>2. /\ UNCHANGED <<kind, acks, overdue, repeats, patches>>
          /\ \/ UNCHANGED <<busy, started>>
             \/ /\ started' = started \cup {desk[k].dsar}
                /\ \E m \in SUBSET Mechanism :
                      busy' = [busy EXCEPT ![desk[k].user] = @ \cup m]
          /\ UNCHANGED failures \/ Fails
          /\ desk[k].pc # "idle"
      BY <1>4, <2>1 DEF WireDsar, rows, Mechanism
    <2>3. busy' \in [Users \cup {NoUser} -> SUBSET Mechanism]
      BY <1>0, <2>2 DEF RestTypes
    <2> QED BY <1>0, <1>1, <2>2, <2>3 DEF RestTypes
  <1>5. ASSUME NEW u \in Users, NEW m \in Mechanism, MechanismEnds(u, m) PROVE RestTypes'
    BY <1>5 DEF MechanismEnds, rows, RestTypes
  <1>6. ASSUME NEW k \in Desks, NEW d \in Dsars, NEW st \in States,
               NEW u \in Users \cup {NoUser}, StaffPatch(k, d, st, u)
        PROVE  RestTypes'
    BY <1>6 DEF StaffPatch, RestTypes
  <1>7. ASSUME NEW s \in Sweepers, NEW d \in Dsars, SweepEmit(s, d) PROVE RestTypes'
    <2>1. sweep[s].pc \in Clocks
      BY <1>7 DEF SweepEmit, ClockInv, SweepDue
    <2>2. overdue' \subseteq Dsars \X Clocks /\ repeats' \in BOOLEAN
      BY <1>7, <2>1 DEF SweepEmit, RestTypes
    <2> QED BY <1>7, <2>2 DEF SweepEmit, RestTypes
  <1>8. ASSUME NEW s \in Sweepers, SweepStart(s) \/ SweepLoop(s) \/ SweepFails(s)
        PROVE  RestTypes'
    BY <1>1, <1>8 DEF SweepStart, SweepLoop, SweepFails, rows, rest, RestTypes
  <1>9. ASSUME UNCHANGED vars \/ Tick \/ \E k \in Desks : WireSave(k) PROVE RestTypes'
    BY <1>9 DEF vars, rows, rest, Tick, WireSave, RestTypes
  <1> QED
    BY <1>2, <1>3, <1>4, <1>5, <1>6, <1>7, <1>8, <1>9 DEF Next, DeskStep, SweepStep

\* Type correctness of the queue, the dates business_days_from computes included.
THEOREM DsarTypes == Spec => []DsarTypeOK
  <1>1. Init => RestTypes
    <2> SUFFICES ASSUME Init PROVE RestTypes
      OBVIOUS
    <2>1. failures \in 0..MaxFailures /\ patches \in 0..MaxPatches
      BY DsarAssumption DEF Init, DsarAssumption
    <2>2. repeats \in BOOLEAN
      BY DEF Init
    <2>3. /\ kind \in [Dsars -> Kinds \cup {"none"}] /\ acks = {} /\ started = {} /\ overdue = {}
          /\ busy \in [Users \cup {NoUser} -> SUBSET Mechanism]
      BY DEF Init
    <2> QED BY <2>1, <2>2, <2>3 DEF RestTypes
  <1>2. RestTypes /\ OracleInv /\ ClockInv => DsarTypeOK
    BY DEF RestTypes, OracleInv, DeskTypeInv, RowTypes, DeskTypes, ClockInv, Dates, DsarTypeOK
  <1> QED
    BY <1>1, <1>2, OracleInit, OracleStep, ClockInit, ClockStep, RestTypesStep, PTL DEF Spec
=============================================================================
