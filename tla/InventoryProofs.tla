--------------------------- MODULE InventoryProofs ---------------------------
(***************************************************************************)
(* What is proved of the inventory for every deployment, every set of      *)
(* services and any probe period, age limit and delay of the bus: what the *)
(* system checks let start asks every store, and the liveness probe names  *)
(* exactly the owners that are quiet.                                      *)
(***************************************************************************)
EXTENDS Inventory, TLAPS

-----------------------------------------------------------------------------
(* What starts has passed the checks                                       *)

BootInv == deployment \in Deployments /\ (up => Errors(deployment) = {})

LEMMA BootHolds == Spec => []BootInv
  <1>1. Init => BootInv
    BY DEF Init, BootInv
  <1>2. BootInv /\ [Next]_vars => BootInv'
    <2> SUFFICES ASSUME BootInv, [Next]_vars PROVE BootInv'
      OBVIOUS
    <2>1. deployment' = deployment /\ (up' => up \/ Errors(deployment) = {})
      BY DEF Next, vars, Boot, ProbeDataOwners, Tick, Answer, HandleOwnerAlive, Turn
    <2>2. Errors(deployment)' = Errors(deployment')
      OBVIOUS
    <2> QED BY <2>1 DEF BootInv
  <1> QED BY <1>1, <1>2, PTL DEF Spec

\* What the seams say of one owner agrees wherever they say anything.
SeamsAgree ==
    \A d \in Deployments : \A n \in Declared(d) :
        \A s, t \in {Says(d.registrations, n), Says(d.providers, n), Says(d.modules, n)} :
            s = {} \/ t = {} \/ s = t

\* The first seam that knows speaks for all.
LEMMA ClaimsAll ==
  ASSUME SeamsAgree, NEW d \in Deployments, NEW n \in Declared(d),
         NEW s \in Says(d.registrations, n) \cup Says(d.providers, n) \cup Says(d.modules, n)
  PROVE  s \in Claims(d, n)
  <1> DEFINE R == Says(d.registrations, n)
             P == Says(d.providers, n)
             M == Says(d.modules, n)
  <1>1. \A x, y \in {R, P, M} : x = {} \/ y = {} \/ x = y
    BY DEF SeamsAgree
  <1>2. Claims(d, n) = IF R # {} THEN R ELSE IF P # {} THEN P ELSE M
    BY DEF Claims, Says
  <1>3. s \in R \cup P \cup M
    OBVIOUS
  <1> HIDE DEF R, P, M
  <1> QED BY <1>1, <1>2, <1>3

\* In a deployment that starts without a warning about names or subjects, every
\* store an installed library declares is asked about all it can erase, when
\* the places a library declares it in do not contradict each other.
THEOREM EveryoneAsked ==
  ASSUME SeamsAgree
  PROVE  Spec => []EveryStoreIsAsked
  <1>1. BootInv => EveryStoreIsAsked
    <2> SUFFICES ASSUME BootInv, up, NameWarnings(deployment) = {},
                        NEW n \in Declared(deployment),
                        NEW s \in Says(deployment.registrations, n)
                                    \cup Says(deployment.providers, n)
                                    \cup Says(deployment.modules, n)
                 PROVE  n \in Asked(deployment, s)
      BY DEF EveryStoreIsAsked
    <2>1. PICK d \in Deployments : d = deployment
      BY DEF BootInv
    <2>2. /\ RegistryErrors(d) = {} /\ NameErrors(d) = {} /\ NameWarnings(d) = {}
      BY <2>1 DEF BootInv, Errors
    <2>3. Owners(d) # {}
      BY <2>2 DEF RegistryErrors, If
    <2>4. Misspelled(d) = {} /\ Unlisted(d) = {} /\ ~SubjectUnlisted(d)
      BY <2>2, <2>3 DEF NameErrors, NameWarnings, If
    <2>5. n \in OwnerNames(d)
      BY <2>1, <2>4 DEF Unlisted, RenamedTo
    <2>6. PICK o \in Owners(d) : o.name = n
      BY <2>5 DEF OwnerNames
    <2>7. s \in Claims(d, n)
      BY <2>1, ClaimsAll
    <2>8. s \in o.subjects /\ s \in SubjectTypes(d)
      BY <2>1, <2>4, <2>6, <2>7 DEF SubjectUnlisted
    <2> QED BY <2>1, <2>6, <2>8 DEF Asked
  <1> QED BY <1>1, BootHolds, PTL

-----------------------------------------------------------------------------
(* Types                                                                   *)

\* Only services are asked and answer.
ProbeTypeInv == InventoryTypeOK /\ \A m \in bus : m.owner \in Services

LEMMA ProbeTypesInit == Init => ProbeTypeInv
  <1> SUFFICES ASSUME Init PROVE ProbeTypeInv
    OBVIOUS
  <1> USE InventoryAssumption
  <1>1. /\ alive \in [Names -> {Never} \cup 0..now] /\ probed \in [Names -> {Never} \cup 0..now]
        /\ since \in [Services -> 0..now]
    BY DEF Init
  <1>2. now \in 0..MaxNow /\ turns \in 0..MaxTurns /\ nextProbe \in now..now + Period
    BY DEF Init
  <1> QED BY <1>1, <1>2 DEF Init, ProbeTypeInv, InventoryTypeOK

LEMMA ProbeTypesStep == ProbeTypeInv /\ [Next]_vars => ProbeTypeInv'
  <1> SUFFICES ASSUME ProbeTypeInv, [Next]_vars PROVE ProbeTypeInv'
    OBVIOUS
  <1> USE InventoryAssumption
  <1>0. /\ up \in BOOLEAN /\ now \in 0..MaxNow /\ turns \in 0..MaxTurns
        /\ alive \in [Names -> {Never} \cup 0..now] /\ probed \in [Names -> {Never} \cup 0..now]
        /\ nextProbe \in now..now + Period
        /\ bus \subseteq Message /\ (\A m \in bus : m.sent \in now - MaxDelay..now)
        /\ listening \subseteq Services /\ since \in [Services -> 0..now]
        /\ \A m \in bus : m.owner \in Services
    BY DEF ProbeTypeInv, InventoryTypeOK
  <1>1. CASE UNCHANGED vars \/ Boot
    BY <1>0, <1>1 DEF vars, Boot, ProbeTypeInv, InventoryTypeOK
  <1>2. CASE ProbeDataOwners
    <2>1. \A m \in bus' : /\ m \in Message /\ m.owner \in Services
                          /\ m.sent \in now - MaxDelay..now
      <3>1. \A n \in Services : [type |-> "probe", owner |-> n, sent |-> now, seen |-> FALSE]
                                  \in Message
        BY <1>0 DEF Message
      <3> QED BY <1>0, <1>2, <3>1 DEF ProbeDataOwners
    <2>2. probed' \in [Names -> {Never} \cup 0..now]
      BY <1>0, <1>2 DEF ProbeDataOwners
    <2> QED BY <1>0, <1>2, <2>1, <2>2 DEF ProbeDataOwners, ProbeTypeInv, InventoryTypeOK
  <1>3. ASSUME NEW m \in bus, Answer(m) PROVE ProbeTypeInv'
    <2>1. [m EXCEPT !.seen = TRUE] \in Message /\ [m EXCEPT !.seen = TRUE].owner = m.owner
          /\ [m EXCEPT !.seen = TRUE].sent = m.sent
      BY <1>0 DEF Message
    <2>2. [type |-> "alive", owner |-> m.owner, sent |-> now, seen |-> FALSE] \in Message
      BY <1>0 DEF Message
    <2>3. \A q \in bus' : /\ q \in Message /\ q.owner \in Services
                          /\ q.sent \in now - MaxDelay..now
      <3> DEFINE old == [m EXCEPT !.seen = TRUE]
                 new == [type |-> "alive", owner |-> m.owner, sent |-> now, seen |-> FALSE]
      <3>1. new.owner = m.owner /\ new.sent = now /\ now \in now - MaxDelay..now
        BY <1>0
      <3>2. bus' = (bus \ {m}) \cup {old, new}
        BY <1>3 DEF Answer
      <3> HIDE DEF old, new
      <3> QED BY <1>0, <2>1, <2>2, <3>1, <3>2 DEF old, new
    <2> QED BY <1>0, <1>3, <2>3 DEF Answer, ProbeTypeInv, InventoryTypeOK
  <1>4. ASSUME NEW m \in bus, HandleOwnerAlive(m) PROVE ProbeTypeInv'
    <2>1. [m EXCEPT !.seen = TRUE] \in Message /\ [m EXCEPT !.seen = TRUE].owner = m.owner
          /\ [m EXCEPT !.seen = TRUE].sent = m.sent
      BY <1>0 DEF Message
    <2>3. \A q \in bus' : /\ q \in Message /\ q.owner \in Services
                          /\ q.sent \in now - MaxDelay..now
      BY <1>0, <1>4, <2>1 DEF HandleOwnerAlive
    <2>4. alive' \in [Names -> {Never} \cup 0..now]
      BY <1>0, <1>4 DEF HandleOwnerAlive
    <2> QED BY <1>0, <1>4, <2>3, <2>4 DEF HandleOwnerAlive, ProbeTypeInv, InventoryTypeOK
  <1>5. ASSUME NEW n \in Services, Turn(n) PROVE ProbeTypeInv'
    BY <1>0, <1>5 DEF Turn, ProbeTypeInv, InventoryTypeOK
  <1>6. CASE Tick
    <2>1. /\ now' = now + 1 /\ now' \in 0..MaxNow /\ nextProbe \in now'..now' + Period
          /\ bus' \subseteq bus /\ \A m \in bus' : m.sent + MaxDelay > now
      BY <1>0, <1>6 DEF Tick
    <2>2. /\ alive' = alive /\ probed' = probed /\ since' = since
          /\ alive \in [Names -> {Never} \cup 0..now'] /\ probed \in [Names -> {Never} \cup 0..now']
          /\ since \in [Services -> 0..now']
      BY <1>0, <1>6, <2>1 DEF Tick
    <2>3. \A m \in bus' : /\ m \in Message /\ m.owner \in Services
                          /\ m.sent \in now' - MaxDelay..now'
      BY <1>0, <2>1 DEF Message
    <2> QED BY <1>0, <1>6, <2>1, <2>2, <2>3 DEF Tick, ProbeTypeInv, InventoryTypeOK
  <1> QED BY <1>1, <1>2, <1>3, <1>4, <1>5, <1>6 DEF Next

-----------------------------------------------------------------------------
(* Probes and answers                                                      *)

\* Nothing an owner that stopped listening says is later than its last moment.
Gone(n) ==
    /\ \A m \in bus : m.type = "alive" /\ m.owner = n => m.sent <= since[n]
    /\ alive[n] <= since[n] + MaxDelay

\* The probe of instant t is with n, its answer is on its way, or n was heard.
Chain(n, t) ==
    \/ \E m \in bus : m.type = "probe" /\ m.owner = n /\ m.sent = t /\ ~m.seen
    \/ \E m \in bus : m.type = "alive" /\ m.owner = n /\ m.sent \in t..t + MaxDelay /\ ~m.seen
    \/ alive[n] >= t

\* Every stretch of a period after n began to listen and before the last probe
\* has its probe.
Rounds(n) ==
    \A t \in Nat : since[n] < t /\ t <= nextProbe - Period =>
        \E p \in t..t + Period - 1 : Chain(n, p)

ProbeInv ==
    /\ ProbeTypeInv /\ BootInv
    /\ \A n \in Names \ Services : alive[n] = Never
    /\ \A n \in Services : IF n \in listening THEN Rounds(n) ELSE Gone(n)

\* What arrives is remembered at the time of arrival, and nothing else is.
LEMMA AliveSteps ==
  ASSUME ProbeTypeInv, [Next]_vars, NEW n \in Names
  PROVE  \/ alive'[n] = alive[n]
         \/ \E m \in bus : /\ m.type = "alive" /\ m.owner = n /\ alive'[n] = now
                           /\ bus' = (bus \ {m}) \cup {[m EXCEPT !.seen = TRUE]}
                           /\ UNCHANGED <<now, nextProbe, listening, since>>
  <1>0. alive \in [Names -> {Never} \cup 0..now]
    BY DEF ProbeTypeInv, InventoryTypeOK
  <1>1. ASSUME NEW m \in bus, HandleOwnerAlive(m)
        PROVE  alive'[n] = alive[n] \/ (m.owner = n /\ alive'[n] = now)
    BY <1>0, <1>1 DEF HandleOwnerAlive
  <1>2. ASSUME ~\E m \in bus : HandleOwnerAlive(m) PROVE alive' = alive
    BY <1>2 DEF Next, vars, Boot, ProbeDataOwners, Tick, Answer, Turn
  <1> QED BY <1>1, <1>2 DEF HandleOwnerAlive

\* What becomes of a message that its owner still has to see.
LEMMA MessageSteps ==
  ASSUME ProbeTypeInv, [Next]_vars, NEW m \in bus, ~m.seen, m.owner \in listening
  PROVE  \/ m \in bus'
         \/ /\ m.type = "probe" /\ now' = now
            /\ \E q \in bus' : q.type = "alive" /\ q.owner = m.owner /\ q.sent = now /\ ~q.seen
         \/ m.type = "alive" /\ alive'[m.owner] = now
  <1>0. /\ alive \in [Names -> {Never} \cup 0..now] /\ bus \subseteq Message
        /\ Services \subseteq Names /\ m.owner \in Services
    BY InventoryAssumption DEF ProbeTypeInv, InventoryTypeOK
  <1>1. CASE Answer(m)
    <2> DEFINE old == [m EXCEPT !.seen = TRUE]
               new == [type |-> "alive", owner |-> m.owner, sent |-> now, seen |-> FALSE]
    <2>1. bus' = (bus \ {m}) \cup {old, new} /\ m.type = "probe" /\ now' = now
      BY <1>1 DEF Answer
    <2>2. new.type = "alive" /\ new.owner = m.owner /\ new.sent = now /\ ~new.seen
      OBVIOUS
    <2> HIDE DEF old, new
    <2> QED BY <2>1, <2>2
  <1>2. CASE HandleOwnerAlive(m)
    BY <1>0, <1>2 DEF HandleOwnerAlive
  <1>3. ASSUME NEW q \in bus, q # m, Answer(q) \/ HandleOwnerAlive(q) PROVE m \in bus'
    BY <1>3 DEF Answer, HandleOwnerAlive
  <1>4. CASE Tick
    BY <1>0, <1>4, InventoryAssumption DEF Tick, Owed, Message, ProbeTypeInv, InventoryTypeOK
  <1>5. CASE UNCHANGED vars \/ Boot \/ ProbeDataOwners \/ \E n \in Services : Turn(n)
    BY <1>5 DEF vars, Boot, ProbeDataOwners, Turn
  <1> QED BY <1>1, <1>2, <1>3, <1>4, <1>5 DEF Next

\* A probe is not lost while its owner listens.
LEMMA ChainStep ==
  ASSUME ProbeTypeInv, [Next]_vars, NEW n \in Services, n \in listening,
         NEW t \in Nat, Chain(n, t)
  PROVE  Chain(n, t)'
  <1>0. /\ now \in Nat /\ MaxDelay \in Nat /\ n \in Names
        /\ alive \in [Names -> {Never} \cup 0..now]
        /\ bus \subseteq Message /\ \A m \in bus : m.sent \in now - MaxDelay..now
    BY InventoryAssumption DEF ProbeTypeInv, InventoryTypeOK
  <1>1. CASE alive[n] >= t
    <2>1. alive[n] \in Int /\ alive[n] <= now
      BY <1>0 DEF Never
    <2>2. alive'[n] = alive[n] \/ alive'[n] = now
      BY <1>0, AliveSteps
    <2>3. alive'[n] >= t
      BY <1>0, <1>1, <2>1, <2>2
    <2> QED BY <2>3 DEF Chain
  <1>2. ASSUME NEW m \in bus, m.type = "probe", m.owner = n, m.sent = t, ~m.seen
        PROVE  Chain(n, t)'
    <2>1. CASE m \in bus'
      BY <1>2, <2>1 DEF Chain
    <2>2. CASE m \notin bus'
      <3>1. PICK q \in bus' : q.type = "alive" /\ q.owner = n /\ q.sent = now /\ ~q.seen
        BY <1>2, <2>2, MessageSteps
      <3>2. now \in t..t + MaxDelay
        BY <1>0, <1>2
      <3> QED BY <3>1, <3>2 DEF Chain
    <2> QED BY <2>1, <2>2
  <1>3. ASSUME NEW m \in bus, m.type = "alive", m.owner = n, m.sent \in t..t + MaxDelay, ~m.seen
        PROVE  Chain(n, t)'
    <2>1. CASE m \in bus'
      BY <1>3, <2>1 DEF Chain
    <2>2. CASE m \notin bus'
      <3>1. alive'[n] = now
        BY <1>3, <2>2, MessageSteps
      <3>2. now >= t
        BY <1>0, <1>3
      <3> QED BY <3>1, <3>2 DEF Chain
    <2> QED BY <2>1, <2>2
  <1> QED BY <1>1, <1>2, <1>3 DEF Chain

LEMMA RoundsStep ==
  ASSUME ProbeInv, [Next]_vars, NEW n \in Services, n \in listening'
  PROVE  Rounds(n)'
  <1>0. /\ ProbeTypeInv /\ now \in Nat /\ Period \in Nat \ {0} /\ MaxDelay \in Nat
        /\ nextProbe \in now..now + Period /\ since \in [Services -> 0..now]
        /\ (n \in listening => Rounds(n))
    BY InventoryAssumption DEF ProbeInv, ProbeTypeInv, InventoryTypeOK
  <1> SUFFICES ASSUME NEW t \in Nat, since'[n] < t, t <= nextProbe' - Period
               PROVE  \E p \in t..t + Period - 1 : Chain(n, p)'
    BY DEF Rounds
  <1>1. CASE ProbeDataOwners
    <2>1. now' = now /\ nextProbe' = now + Period /\ nextProbe = now /\ since' = since
          /\ listening' = listening
      BY <1>1 DEF ProbeDataOwners
    <2>2. CASE t <= now - Period
      <3>1. PICK p \in t..t + Period - 1 : Chain(n, p)
        BY <1>0, <2>1, <2>2 DEF Rounds
      <3>2. p \in Nat
        BY <1>0, <3>1
      <3>3. Chain(n, p)'
        BY <1>0, <2>1, <3>1, <3>2, ChainStep
      <3> QED BY <3>3
    <2>3. CASE ~(t <= now - Period)
      <3>1. now \in t..t + Period - 1
        BY <1>0, <2>1, <2>3
      <3> DEFINE new == [type |-> "probe", owner |-> n, sent |-> now, seen |-> FALSE]
      <3>2. new \in bus' /\ new.type = "probe" /\ new.owner = n /\ new.sent = now /\ ~new.seen
        BY <1>1 DEF ProbeDataOwners
      <3> HIDE DEF new
      <3>3. Chain(n, now)'
        BY <2>1, <3>2 DEF Chain
      <3> QED BY <2>1, <3>1, <3>3
    <2> QED BY <2>2, <2>3
  <1>2. CASE Turn(n)
    BY <1>0, <1>2 DEF Turn
  <1>3. CASE ~ProbeDataOwners /\ ~Turn(n)
    <2>1. nextProbe' = nextProbe /\ since'[n] = since[n] /\ n \in listening
      BY <1>0, <1>3 DEF Next, vars, Boot, Tick, Answer, HandleOwnerAlive, Turn
    <2>2. PICK p \in t..t + Period - 1 : Chain(n, p)
      BY <1>0, <2>1 DEF Rounds
    <2>3. p \in Nat
      BY <1>0, <2>2
    <2>4. Chain(n, p)'
      BY <1>0, <2>1, <2>2, <2>3, ChainStep
    <2> QED BY <2>4
  <1> QED BY <1>1, <1>2, <1>3

LEMMA GoneStep ==
  ASSUME ProbeInv, [Next]_vars, NEW n \in Services, n \notin listening'
  PROVE  Gone(n)'
  <1>0. /\ ProbeTypeInv /\ now \in Nat /\ MaxDelay \in Nat /\ n \in Names
        /\ alive \in [Names -> {Never} \cup 0..now] /\ since \in [Services -> 0..now]
        /\ bus \subseteq Message /\ (\A m \in bus : m.sent \in now - MaxDelay..now)
        /\ (n \notin listening => Gone(n))
        /\ \A m \in bus : m.owner \in Services
    BY InventoryAssumption DEF ProbeInv, ProbeTypeInv, InventoryTypeOK
  <1>1. CASE Turn(n)
    BY <1>0, <1>1 DEF Turn, Gone, Never
  <1>2. CASE ~Turn(n)
    <2>1. since'[n] = since[n] /\ n \notin listening
      BY <1>0, <1>2 DEF Next, vars, Boot, ProbeDataOwners, Tick, Answer, HandleOwnerAlive, Turn
    <2>2. ASSUME NEW m \in bus', m.type = "alive", m.owner = n PROVE m.sent <= since[n]
      <3>1. CASE m \in bus
        BY <1>0, <2>1, <2>2, <3>1 DEF Gone
      <3>2. ASSUME NEW q \in bus, Answer(q), m \notin bus PROVE m.sent <= since[n]
        <4>1. m = [q EXCEPT !.seen = TRUE]
                \/ m = [type |-> "alive", owner |-> q.owner, sent |-> now, seen |-> FALSE]
          BY <2>2, <3>2 DEF Answer
        <4>2. [q EXCEPT !.seen = TRUE].type = "probe"
          BY <1>0, <3>2 DEF Answer, Message
        <4>3. m # [q EXCEPT !.seen = TRUE]
          BY <2>2, <4>2
        <4>4. q.owner = n
          BY <2>2, <4>1, <4>3
        <4> QED BY <2>1, <3>2, <4>4 DEF Answer
      <3>3. ASSUME NEW q \in bus, HandleOwnerAlive(q), m \notin bus PROVE m.sent <= since[n]
        <4>1. m = [q EXCEPT !.seen = TRUE] /\ q.type = "alive"
          BY <2>2, <3>3 DEF HandleOwnerAlive
        <4>2. m.owner = q.owner /\ m.sent = q.sent
          BY <1>0, <4>1 DEF Message
        <4> QED BY <1>0, <2>1, <2>2, <4>1, <4>2 DEF Gone
      <3>4. CASE ProbeDataOwners
        BY <1>0, <2>1, <2>2, <3>4 DEF ProbeDataOwners, Gone
      <3> QED BY <3>1, <3>2, <3>3, <3>4 DEF Next, vars, Boot, Tick, Turn
    <2>3. alive'[n] <= since[n] + MaxDelay
      <3>1. CASE alive'[n] = alive[n]
        BY <1>0, <2>1, <3>1 DEF Gone
      <3>2. CASE alive'[n] # alive[n]
        <4>1. PICK m \in bus : m.type = "alive" /\ m.owner = n /\ alive'[n] = now
          BY <1>0, <3>2, AliveSteps
        <4>2. m.sent <= since[n] /\ m.sent \in now - MaxDelay..now
          BY <1>0, <2>1, <4>1 DEF Gone
        <4> QED BY <1>0, <4>1, <4>2
      <3> QED BY <3>1, <3>2
    <2> QED BY <2>1, <2>2, <2>3 DEF Gone
  <1> QED BY <1>1, <1>2

LEMMA ProbeHolds == Spec => []ProbeInv
  <1>1. Init => ProbeInv
    <2> SUFFICES ASSUME Init PROVE ProbeInv
      OBVIOUS
    <2>1. \A n \in Names : alive[n] = Never
      BY DEF Init
    <2>2. \A n \in Services : Rounds(n)
      BY InventoryAssumption DEF Init, Rounds
    <2> QED BY <2>1, <2>2, ProbeTypesInit DEF Init, ProbeInv, BootInv
  <1>2. ProbeInv /\ [Next]_vars => ProbeInv'
    <2> SUFFICES ASSUME ProbeInv, [Next]_vars PROVE ProbeInv'
      OBVIOUS
    <2>1. ProbeTypeInv'
      BY ProbeTypesStep DEF ProbeInv
    <2>2. BootInv'
      BY DEF ProbeInv, BootInv, Next, vars, Boot, ProbeDataOwners, Tick, Answer,
             HandleOwnerAlive, Turn
    <2>3. ASSUME NEW n \in Names \ Services PROVE alive'[n] = Never
      BY AliveSteps DEF ProbeInv, ProbeTypeInv
    <2> QED BY <2>1, <2>2, <2>3, RoundsStep, GoneStep DEF ProbeInv
  <1> QED BY <1>1, <1>2, PTL DEF Spec

\* The liveness report names every owner that has been quiet for longer than an
\* answer may age and travel, and nobody who has been listening for a whole
\* round, as long as the age limit covers a round.
THEOREM QuietNamed == Spec => []QuietOwnerIsNamed
  <1>1. ProbeInv => QuietOwnerIsNamed
    <2> SUFFICES ASSUME ProbeInv, NEW n \in OwnerNames(deployment)
                 PROVE  /\ Quiet(n) => Silent(n)
                        /\ (up /\ Heard(n) /\ Period + 2 * MaxDelay <= MaxAge) => ~Silent(n)
      BY DEF QuietOwnerIsNamed
    <2>0. /\ now \in Nat /\ Period \in Nat /\ MaxDelay \in Nat /\ MaxAge \in Nat
          /\ alive \in [Names -> {Never} \cup 0..now] /\ since \in [Services -> 0..now]
          /\ nextProbe \in now..now + Period
          /\ bus \subseteq Message /\ (\A m \in bus : m.sent \in now - MaxDelay..now)
      BY InventoryAssumption DEF ProbeInv, ProbeTypeInv, InventoryTypeOK
    <2>1. n \in Names
      BY DeploymentAssumption DEF ProbeInv, BootInv
    <2>2. ASSUME Quiet(n) PROVE Silent(n)
      <3>1. CASE n \notin Services
        BY <2>1, <3>1 DEF ProbeInv, Silent
      <3>2. CASE n \in Services
        <4>1. n \notin listening /\ now - since[n] > MaxAge + MaxDelay
          BY <2>2, <3>2 DEF Quiet
        <4>2. alive[n] <= since[n] + MaxDelay
          BY <3>2, <4>1 DEF ProbeInv, Gone
        <4> QED BY <2>0, <2>1, <3>2, <4>1, <4>2 DEF Silent, Never
      <3> QED BY <3>1, <3>2
    <2>3. ASSUME Heard(n), Period + 2 * MaxDelay <= MaxAge PROVE ~Silent(n)
      <3> DEFINE t == now - Period - 2 * MaxDelay
      <3>1. n \in Services /\ n \in listening /\ since[n] < t /\ t \in Nat /\ t > 0
        BY <2>0, <2>3 DEF Heard
      <3>2. t <= nextProbe - Period /\ t + Period - 1 < now - 2 * MaxDelay /\ t >= now - MaxAge
        BY <2>0, <2>3
      <3> HIDE DEF t
      <3>3. PICK p \in t..t + Period - 1 : Chain(n, p)
        BY <3>1, <3>2 DEF ProbeInv, Rounds
      <3>4. p \in Nat /\ p >= t /\ p < now - 2 * MaxDelay
        BY <2>0, <3>1, <3>2, <3>3
      <3>5. alive[n] >= p
        BY <2>0, <3>3, <3>4 DEF Chain
      <3> QED BY <2>0, <2>1, <3>1, <3>2, <3>4, <3>5 DEF Silent, Never
    <2> QED BY <2>2, <2>3
  <1> QED BY <1>1, ProbeHolds, PTL
=============================================================================
