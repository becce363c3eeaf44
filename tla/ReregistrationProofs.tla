------------------------- MODULE ReregistrationProofs -------------------------
(***************************************************************************)
(* What is proved of the re-registration memory for any number of accounts, *)
(* identifiers, workers and any retention: its types, that a memory lasts,  *)
(* that there is one row per identifier and that an identifier is recognised *)
(* only within the retention of what stored it.                            *)
(***************************************************************************)
EXTENDS Reregistration, TLAPS

-----------------------------------------------------------------------------
(* Types                                                                   *)

\* A call that runs is about an account.
CallsNamed == \A e \in Executors : call[e].pc # "idle" => call[e].who \in Accounts

MemoryTypeInv == MemoryTypeOK /\ CallsNamed

LEMMA MemoryTypesInit == Init => MemoryTypeInv
  <1> SUFFICES ASSUME Init PROVE MemoryTypeInv
    OBVIOUS
  <1> USE MemoryAssumption
  <1>1. hashes \subseteq Hash
    <2>1. PICK a \in Accounts :
             hashes = {[id |-> i, format |-> "salted", scheme |-> "legacy", who |-> a,
                        expires |-> Retention] : i \in legacy}
      BY DEF Init
    <2>2. legacy \subseteq Identifiers
      BY DEF Init
    <2> QED BY <2>1, <2>2 DEF Hash, Names, Schemes, Formats
  <1>2. call \in [Executors -> Call] /\ cleanup \in [Cleaners -> Cleanup]
    BY DEF Init, Call, Cleanup, IdleCall, IdleCleanup
  <1>3. CallsNamed
    BY DEF Init, CallsNamed, IdleCall
  <1>4. /\ ident \in [Accounts -> SUBSET Names] /\ held \subseteq Accounts
        /\ now \in Nat /\ failures \in 0..MaxFailures /\ turns \in 0..MaxHolds
        /\ legacy \subseteq Identifiers /\ stored \subseteq Identifiers \X Accounts \X Nat
        /\ erased \subseteq Identifiers
        /\ foreign \subseteq [id : Names, format : Formats, scheme : Schemes]
    BY DEF Init
  <1> QED BY <1>1, <1>2, <1>3, <1>4 DEF MemoryTypeInv, MemoryTypeOK

\* A call that goes on is still a call, about the same account.
LEMMA CallOn ==
  ASSUME MemoryTypeInv, NEW e \in Executors, call[e].pc # "idle",
         NEW step \in {"store", "erase"}, NEW ids \in SUBSET Names, CallTo(e, step, ids)
  PROVE  call' \in [Executors -> Call] /\ CallsNamed'
  <1>1. call \in [Executors -> Call] /\ call[e].who \in Accounts /\ call[e].at \in Nat
    BY DEF MemoryTypeInv, MemoryTypeOK, CallsNamed, Call
  <1>2. PICK a \in Accounts, t \in Nat : a = call[e].who /\ t = call[e].at
    BY <1>1
  <1>3. call' = [call EXCEPT ![e] = [pc |-> step, who |-> a, todo |-> ids, at |-> t]]
    BY <1>2 DEF CallTo
  <1>4. [pc |-> step, who |-> a, todo |-> ids, at |-> t] \in Call
    BY <1>2 DEF Call
  <1>5. call' \in [Executors -> Call]
    BY <1>1, <1>3, <1>4
  <1>6. CallsNamed'
    BY <1>1, <1>3 DEF CallsNamed, MemoryTypeInv
  <1> QED BY <1>5, <1>6

LEMMA MemoryTypesStep == MemoryTypeInv /\ [Next]_vars => MemoryTypeInv'
  <1> SUFFICES ASSUME MemoryTypeInv, [Next]_vars PROVE MemoryTypeInv'
    OBVIOUS
  <1> USE MemoryAssumption
  <1>0. /\ ident \in [Accounts -> SUBSET Names] /\ hashes \subseteq Hash
        /\ held \subseteq Accounts /\ now \in Nat
        /\ failures \in 0..MaxFailures /\ turns \in 0..MaxHolds
        /\ call \in [Executors -> Call] /\ cleanup \in [Cleaners -> Cleanup]
        /\ legacy \subseteq Identifiers /\ stored \subseteq Identifiers \X Accounts \X Nat
        /\ erased \subseteq Identifiers
        /\ foreign \subseteq [id : Names, format : Formats, scheme : Schemes]
        /\ CallsNamed
    BY DEF MemoryTypeInv, MemoryTypeOK
  <1>1. CASE UNCHANGED vars
    BY <1>1, <1>0 DEF vars, outside, MemoryTypeInv, MemoryTypeOK, CallsNamed
  <1>2. ASSUME NEW a \in Accounts, NEW ids \in SUBSET Identifiers, SignUp(a, ids)
        PROVE  MemoryTypeInv'
    <2>1. ident' \in [Accounts -> SUBSET Names]
      BY <1>0, <1>2 DEF SignUp, Names
    <2> QED BY <2>1, <1>0, <1>2 DEF SignUp, MemoryTypeInv, MemoryTypeOK, CallsNamed
  <1>3. ASSUME NEW a \in Accounts, SetHold(a) PROVE MemoryTypeInv'
    BY <1>0, <1>3 DEF SetHold, MemoryTypeInv, MemoryTypeOK, CallsNamed
  <1>4. ASSUME NEW a \in Accounts, NEW e \in Executors, ExecuteDeletion(e, a)
        PROVE  MemoryTypeInv'
    <2>1. PICK ids \in SUBSET Names : ids = ident[a]
      BY <1>0
    <2>2. [pc |-> "store", who |-> a, todo |-> ids, at |-> now] \in Call
      BY <1>0, <1>4 DEF Call
    <2>3. call' = [call EXCEPT ![e] = [pc |-> "store", who |-> a, todo |-> ids, at |-> now]]
      BY <1>4, <2>1 DEF ExecuteDeletion
    <2>4. call' \in [Executors -> Call] /\ CallsNamed'
      BY <1>0, <2>2, <2>3 DEF CallsNamed
    <2> QED BY <1>0, <1>4, <2>4 DEF ExecuteDeletion, outside, MemoryTypeInv, MemoryTypeOK
  <1>5. ASSUME NEW a \in Accounts, NEW i \in Names, NEW format \in Formats,
               NEW scheme \in Schemes, ForeignWrite(a, i, format, scheme)
        PROVE  MemoryTypeInv'
    <2>1. PICK t \in Nat :
             hashes' = hashes \cup {[id |-> i, format |-> format, scheme |-> scheme,
                                     who |-> a, expires |-> t]}
      BY <1>0, <1>5 DEF ForeignWrite, ExpiresAt
    <2>2. hashes' \subseteq Hash
      BY <1>0, <2>1 DEF Hash
    <2>3. foreign' \subseteq [id : Names, format : Formats, scheme : Schemes]
      BY <1>0, <1>5 DEF ForeignWrite
    <2> QED BY <1>0, <1>5, <2>2, <2>3
        DEF ForeignWrite, MemoryTypeInv, MemoryTypeOK, CallsNamed
  <1>6. ASSUME NEW e \in Executors, NEW i \in Names, StoreHash(e, i) PROVE MemoryTypeInv'
    <2>1. PICK a \in Accounts : a = call[e].who
      BY <1>0, <1>6 DEF StoreHash, CallsNamed
    <2>2. call[e].todo \in SUBSET Names
      BY <1>0, <1>6 DEF Call
    <2>3. call' \in [Executors -> Call] /\ CallsNamed'
      BY <1>6, <2>2, CallOn DEF StoreHash
    <2>4. PICK t \in Nat : t = call[e].at
      BY <1>0, <1>6 DEF Call
    <2>5. hashes' \subseteq Hash
      <3>1. [id |-> i, format |-> "hmac", scheme |-> "hmac", who |-> a,
             expires |-> ExpiresAt(t)] \in Hash
        BY <1>0 DEF Hash, Schemes, Formats, ExpiresAt
      <3> QED BY <1>0, <1>6, <2>1, <2>4, <3>1 DEF StoreHash
    <2>6. stored' \subseteq Identifiers \X Accounts \X Nat
      <3>1. i # Tombstone => <<i, a, t>> \in Identifiers \X Accounts \X Nat
        BY <1>0 DEF Names
      <3>2. stored' = stored \/ (i # Tombstone /\ stored' = stored \cup {<<i, a, t>>})
        BY <1>6, <2>1, <2>4 DEF StoreHash
      <3> QED BY <1>0, <3>1, <3>2
    <2> QED BY <1>0, <1>6, <2>3, <2>5, <2>6
        DEF StoreHash, outside, MemoryTypeInv, MemoryTypeOK
  <1>7. ASSUME NEW e \in Executors, StoreDone(e) \/ StoreFails(e) PROVE MemoryTypeInv'
    <2>1. call' \in [Executors -> Call] /\ CallsNamed'
      BY <1>7, CallOn DEF StoreDone, StoreFails
    <2> QED BY <1>0, <1>7, <2>1
        DEF StoreDone, StoreFails, Fails, outside, MemoryTypeInv, MemoryTypeOK
  <1>8. ASSUME NEW e \in Executors, EraseIdentity(e) \/ DeletionFails(e) PROVE MemoryTypeInv'
    <2>1. call' \in [Executors -> Call] /\ CallsNamed'
      BY <1>0, <1>8 DEF EraseIdentity, DeletionFails, CallsNamed, IdleCall, Call
    <2>2. CASE EraseIdentity(e)
      <3>1. ident' \in [Accounts -> SUBSET Names]
        BY <1>0, <2>2 DEF EraseIdentity, Names
      <3>2. erased' \subseteq Identifiers
        <4>1. ident[call[e].who] \subseteq Names
          BY <1>0, <2>2 DEF EraseIdentity, CallsNamed
        <4> QED BY <1>0, <2>2, <4>1 DEF EraseIdentity, Names
      <3> QED BY <1>0, <2>1, <2>2, <3>1, <3>2 DEF EraseIdentity, MemoryTypeInv, MemoryTypeOK
    <2>3. CASE DeletionFails(e)
      BY <1>0, <2>1, <2>3 DEF DeletionFails, Fails, outside, MemoryTypeInv, MemoryTypeOK
    <2> QED BY <1>8, <2>2, <2>3
  <1>9. ASSUME NEW c \in Cleaners, CleanupRead(c) \/ CleanupDelete(c) PROVE MemoryTypeInv'
    <2>1. cleanup' \in [Cleaners -> Cleanup]
      BY <1>0, <1>9 DEF CleanupRead, CleanupDelete, Cleanup, IdleCleanup
    <2> QED BY <1>0, <1>9, <2>1
        DEF CleanupRead, CleanupDelete, outside, MemoryTypeInv, MemoryTypeOK, CallsNamed
  <1>10. ASSUME NEW drop, PurgeUnverified(drop) PROVE MemoryTypeInv'
    BY <1>0, <1>10 DEF PurgeUnverified, outside, MemoryTypeInv, MemoryTypeOK, CallsNamed
  <1>11. CASE Tick
    BY <1>0, <1>11 DEF Tick, outside, MemoryTypeInv, MemoryTypeOK, CallsNamed
  <1> QED
    BY <1>1, <1>2, <1>3, <1>4, <1>5, <1>6, <1>7, <1>8, <1>9, <1>10, <1>11
    DEF Next, CallStep, CleanStep

\* Every row, call and history entry keeps its type.
THEOREM MemoryTypes == Spec => []MemoryTypeOK
  <1>1. MemoryTypeInv => MemoryTypeOK
    BY DEF MemoryTypeInv
  <1> QED BY <1>1, MemoryTypesInit, MemoryTypesStep, PTL DEF Spec

-----------------------------------------------------------------------------
(* What a step may do to the rows                                          *)

\* store_hashes, begun at t, on i for account a: the row, unless our digest is there,
\* and the history entry.
Remembers(i, a, t) ==
    /\ hashes' = IF \E h \in hashes : h.id = i /\ h.format = "hmac" THEN hashes
                 ELSE hashes \cup {[id |-> i, format |-> "hmac", scheme |-> "hmac",
                                    who |-> a, expires |-> t + Retention]}
    /\ stored' = stored \cup {<<i, a, t>>}
    /\ UNCHANGED <<now, cleanup, foreign>>

\* A writer outside the library.
Writes(new) ==
    /\ \A h \in hashes : h.id # new.id \/ h.format # new.format
    /\ hashes' = hashes \cup {new}
    /\ foreign' = foreign \cup {[id |-> new.id, format |-> new.format, scheme |-> new.scheme]}
    /\ UNCHANGED <<stored, now, cleanup>>

\* The cleanup deletes what had expired when it began.
Deletes(c) ==
    /\ hashes' \subseteq hashes
    /\ \A h \in hashes \ hashes' : h.expires <= cleanup[c].cut
    /\ cleanup' = [cleanup EXCEPT ![c] = IdleCleanup]
    /\ UNCHANGED <<stored, now, foreign>>

\* The purge leaves our own digests alone.
Purges ==
    /\ hashes' \subseteq hashes
    /\ \A h \in hashes \ hashes' : h.scheme # "hmac"
    /\ UNCHANGED <<stored, now, cleanup, foreign>>

Rests ==
    /\ hashes' = hashes /\ stored' = stored /\ foreign' = foreign
    /\ \/ now' = now /\ \E c \in Cleaners : cleanup' =
             [cleanup EXCEPT ![c] = [pc |-> "delete", cut |-> now, spare |-> held]]
       \/ now' \in {now, now + 1} /\ cleanup' = cleanup

LEMMA MemorySteps ==
  ASSUME MemoryTypeInv, [Next]_vars
  PROVE  /\ legacy' = legacy
         /\ \/ \E i \in Identifiers, a \in Accounts, t \in Nat : Remembers(i, a, t)
            \/ \E new \in Hash : Writes(new)
            \/ \E c \in Cleaners : Deletes(c)
            \/ Purges \/ Rests
  <1>0. CallsNamed /\ call \in [Executors -> Call] /\ now \in Nat /\ Retention \in Nat
    BY MemoryAssumption DEF MemoryTypeInv, MemoryTypeOK
  <1> USE DEF outside
  <1>1. CASE UNCHANGED vars
    BY <1>1 DEF vars, Rests
  <1>2. ASSUME NEW e \in Executors, NEW i \in Names, StoreHash(e, i)
        PROVE  /\ legacy' = legacy
               /\ Rests \/ \E a \in Accounts, t \in Nat : i \in Identifiers /\ Remembers(i, a, t)
    <2>1. PICK a \in Accounts, t \in Nat : a = call[e].who /\ t = call[e].at
      BY <1>0, <1>2 DEF StoreHash, CallsNamed, Call
    <2>2. CASE i = Tombstone
      BY <1>2, <2>2 DEF StoreHash, IsTombstone, Rests
    <2>3. CASE i # Tombstone
      BY <1>2, <2>1, <2>3 DEF StoreHash, IsTombstone, Remembers, Names, ExpiresAt
    <2> QED BY <1>2, <2>2, <2>3 DEF StoreHash
  <1>3. ASSUME NEW a \in Accounts, NEW i \in Names, NEW format \in Formats,
               NEW scheme \in Schemes, ForeignWrite(a, i, format, scheme)
        PROVE  legacy' = legacy /\ \E new \in Hash : Writes(new)
    <2>1. PICK t \in Nat :
             hashes' = hashes \cup {[id |-> i, format |-> format, scheme |-> scheme,
                                     who |-> a, expires |-> t]}
      BY <1>0, <1>3 DEF ForeignWrite, ExpiresAt
    <2> DEFINE new == [id |-> i, format |-> format, scheme |-> scheme, who |-> a, expires |-> t]
    <2>2. new \in Hash
      BY DEF Hash
    <2>3. new.id = i /\ new.format = format /\ new.scheme = scheme /\ hashes' = hashes \cup {new}
      BY <2>1
    <2> HIDE DEF new
    <2> QED BY <1>3, <2>2, <2>3 DEF ForeignWrite, Writes
  <1>4. ASSUME NEW c \in Cleaners, CleanupDelete(c) PROVE legacy' = legacy /\ Deletes(c)
    BY <1>4 DEF CleanupDelete, Deletes, Expired
  <1>5. ASSUME NEW drop \in {{"unverified"}, {"unverified", "legacy"}}, PurgeUnverified(drop)
        PROVE  legacy' = legacy /\ Purges
    BY <1>5 DEF PurgeUnverified, Purges
  <1>6. ASSUME NEW c \in Cleaners, CleanupRead(c) PROVE legacy' = legacy /\ Rests
    BY <1>6 DEF CleanupRead, Rests
  <1>7. ASSUME NEW e \in Executors, StoreDone(e) \/ StoreFails(e) \/ EraseIdentity(e)
                                       \/ DeletionFails(e)
        PROVE  legacy' = legacy /\ Rests
    BY <1>7 DEF StoreDone, StoreFails, EraseIdentity, DeletionFails, Rests
  <1>8. ASSUME NEW a \in Accounts,
               SetHold(a) \/ (\E ids \in SUBSET Identifiers : SignUp(a, ids))
                 \/ (\E e \in Executors : ExecuteDeletion(e, a))
        PROVE  legacy' = legacy /\ Rests
    BY <1>8 DEF SetHold, SignUp, ExecuteDeletion, Rests
  <1>9. CASE Tick
    BY <1>9 DEF Tick, Rests
  <1> QED
    BY <1>1, <1>2, <1>3, <1>4, <1>5, <1>6, <1>7, <1>8, <1>9 DEF Next, CallStep, CleanStep

-----------------------------------------------------------------------------
(* The rows against the history                                            *)

\* p is the first time its identifier was remembered.
FirstOf(p) == \A q \in stored : q[1] = p[1] => p[3] <= q[3]

\* The row that bears the memory of p for the whole retention.
Bears(h, p) == /\ h.id = p[1] /\ h.format = "hmac" /\ h.scheme = "hmac"
               /\ p[3] + Retention <= h.expires

\* The first memory has run out, has its row, or another writer's stood in its way.
Lasting ==
    \A p \in stored : FirstOf(p) /\ OursAlone(p[1]) =>
        p[3] + Retention <= now \/ \E h \in hashes : Bears(h, p)

\* Every row is another writer's, of a deletion that stored its identifier, or was there
\* before the scheme column, and expires with the retention of what wrote it.
Grounded ==
    \A h \in hashes :
        \/ \E w \in foreign : w.id = h.id /\ w.format = h.format /\ w.scheme = h.scheme
        \/ /\ h.format = "hmac" /\ h.scheme = "hmac" /\ h.id # Tombstone
           /\ \E p \in stored : p[1] = h.id /\ h.expires = p[3] + Retention
        \/ h.format = "salted" /\ h.id \in legacy /\ h.expires = Retention

\* The constraint on (hash_type, hash_value).
Unique == \A g, h \in hashes : g.id = h.id /\ g.format = h.format => g = h

\* No cleanup began after this moment.
Past == \A c \in Cleaners : cleanup[c].cut <= now

MemoryInv == MemoryTypeInv /\ Unique /\ Grounded /\ Past /\ Lasting

LEMMA MemoryInit == Init => MemoryInv
  <1> SUFFICES ASSUME Init PROVE MemoryInv
    OBVIOUS
  <1>1. PICK a \in Accounts :
           hashes = {[id |-> i, format |-> "salted", scheme |-> "legacy", who |-> a,
                      expires |-> Retention] : i \in legacy}
    BY DEF Init
  <1>2. legacy \subseteq Identifiers /\ stored = {}
    BY DEF Init
  <1>3. Unique /\ Grounded
    BY <1>1, <1>2 DEF Unique, Grounded
  <1>4. Past /\ Lasting
    BY <1>2 DEF Init, Past, Lasting, IdleCleanup
  <1> QED BY <1>3, <1>4, MemoryTypesInit DEF MemoryInv

LEMMA RemembersKeeps ==
  ASSUME MemoryInv, NEW i \in Identifiers, NEW a \in Accounts, NEW t \in Nat,
         Remembers(i, a, t), legacy' = legacy
  PROVE  Unique' /\ Grounded' /\ Past' /\ Lasting'
  <1>0. /\ Unique /\ Grounded /\ Past /\ Lasting
        /\ now \in Nat /\ Retention \in Nat /\ hashes \subseteq Hash
        /\ stored \subseteq Identifiers \X Accounts \X Nat /\ i # Tombstone
        /\ legacy \subseteq Identifiers
        /\ now' = now /\ cleanup' = cleanup /\ foreign' = foreign
    BY MemoryAssumption DEF MemoryInv, MemoryTypeInv, MemoryTypeOK, Remembers
  <1> DEFINE new   == [id |-> i, format |-> "hmac", scheme |-> "hmac", who |-> a,
                       expires |-> t + Retention]
             known == \E h \in hashes : h.id = i /\ h.format = "hmac"
             p0    == <<i, a, t>>
  <1>1. hashes' = IF known THEN hashes ELSE hashes \cup {new}
    BY DEF Remembers
  <1>2. stored' = stored \cup {p0} /\ p0[1] = i /\ p0[3] = t
    BY DEF Remembers
  <1>3. new.id = i /\ new.format = "hmac" /\ new.scheme = "hmac" /\ new.expires = t + Retention
    OBVIOUS
  <1> HIDE DEF new, p0
  <1>4. Unique'
    BY <1>0, <1>1, <1>3 DEF Unique
  <1>5. Grounded'
    <2>1. ASSUME NEW h \in hashes'
          PROVE  h \in hashes \/ (h = new /\ ~known)
      BY <1>1
    <2> QED BY <1>0, <1>2, <1>3, <2>1 DEF Grounded
  <1>6. Past'
    BY <1>0 DEF Past
  <1>7. Lasting'
    <2> SUFFICES ASSUME NEW p \in stored', FirstOf(p)', OursAlone(p[1]),
                        ~(p[3] + Retention <= now)
                 PROVE  \E h \in hashes' : Bears(h, p)
      BY <1>0 DEF Lasting, OursAlone
    <2>1. CASE p \in stored
      <3>1. FirstOf(p)
        BY <1>2, <2>1 DEF FirstOf
      <3>2. PICK h \in hashes : Bears(h, p)
        BY <1>0, <2>1, <3>1 DEF Lasting
      <3> QED BY <1>1, <3>2
    <2>2. CASE p = p0 /\ ~known
      BY <1>0, <1>1, <1>2, <1>3, <2>2 DEF Bears
    <2>3. CASE p = p0 /\ known
      <3>1. PICK g \in hashes : g.id = i /\ g.format = "hmac"
        BY <2>3
      <3>2. PICK q \in stored : q[1] = i /\ g.expires = q[3] + Retention /\ g.scheme = "hmac"
        BY <1>0, <1>2, <2>3, <3>1 DEF Grounded, OursAlone
      <3>3. q[3] \in Nat /\ t <= q[3]
        BY <1>0, <1>2, <2>3, <3>2 DEF FirstOf
      <3>4. Bears(g, p)
        BY <1>0, <1>2, <2>3, <3>1, <3>2, <3>3 DEF Bears
      <3> QED BY <1>1, <3>4
    <2> QED BY <1>2, <2>1, <2>2, <2>3
  <1> QED BY <1>4, <1>5, <1>6, <1>7

LEMMA MemoryStep == MemoryInv /\ [Next]_vars => MemoryInv'
  <1> SUFFICES ASSUME MemoryInv, [Next]_vars
               PROVE  Unique' /\ Grounded' /\ Past' /\ Lasting'
    BY MemoryTypesStep DEF MemoryInv
  <1>0. /\ Unique /\ Grounded /\ Past /\ Lasting
        /\ now \in Nat /\ Retention \in Nat /\ hashes \subseteq Hash
        /\ stored \subseteq Identifiers \X Accounts \X Nat
        /\ cleanup \in [Cleaners -> Cleanup]
    BY MemoryAssumption DEF MemoryInv, MemoryTypeInv, MemoryTypeOK
  <1>1. legacy' = legacy
    BY MemorySteps DEF MemoryInv
  <1>2. ASSUME NEW new \in Hash, Writes(new)
        PROVE  Unique' /\ Grounded' /\ Past' /\ Lasting'
    <2> DEFINE w0 == [id |-> new.id, format |-> new.format, scheme |-> new.scheme]
    <2>1. w0.id = new.id /\ w0.format = new.format /\ w0.scheme = new.scheme
      OBVIOUS
    <2>2. /\ hashes' = hashes \cup {new} /\ stored' = stored /\ now' = now
          /\ cleanup' = cleanup /\ foreign' = foreign \cup {w0}
          /\ \A h \in hashes : h.id # new.id \/ h.format # new.format
      BY <1>2 DEF Writes
    <2> HIDE DEF w0
    <2>3. Unique'
      BY <1>0, <2>2 DEF Unique
    <2>4. Grounded'
      BY <1>0, <1>1, <2>1, <2>2 DEF Grounded
    <2>5. Past' /\ Lasting'
      BY <1>0, <2>2 DEF Past, Lasting, FirstOf, OursAlone
    <2> QED BY <2>3, <2>4, <2>5
  <1>3. ASSUME NEW c \in Cleaners, Deletes(c)
        PROVE  Unique' /\ Grounded' /\ Past' /\ Lasting'
    <2>1. Unique' /\ Grounded'
      BY <1>0, <1>1, <1>3 DEF Deletes, Unique, Grounded
    <2>2. Past'
      BY <1>0, <1>3 DEF Deletes, Past, IdleCleanup
    <2>3. ASSUME NEW p \in stored, FirstOf(p), OursAlone(p[1]), ~(p[3] + Retention <= now)
          PROVE  \E h \in hashes' : Bears(h, p)
      <3>1. PICK h \in hashes : Bears(h, p)
        BY <1>0, <2>3 DEF Lasting
      <3>2. h.expires \in Nat /\ p[3] \in Nat /\ cleanup[c].cut \in Nat /\ cleanup[c].cut <= now
        BY <1>0 DEF Hash, Cleanup, Past
      <3>3. h \in hashes'
        BY <1>0, <1>3, <2>3, <3>1, <3>2 DEF Deletes, Bears
      <3> QED BY <3>1, <3>3
    <2>4. Lasting'
      BY <1>3, <2>3 DEF Deletes, Lasting, FirstOf, OursAlone
    <2> QED BY <2>1, <2>2, <2>4
  <1>4. CASE Purges
    <2>1. \A h \in hashes, p \in stored : Bears(h, p) => h \in hashes'
      BY <1>4 DEF Purges, Bears
    <2> QED BY <1>0, <1>1, <1>4, <2>1
        DEF Purges, Unique, Grounded, Past, Lasting, FirstOf, OursAlone
  <1>5. CASE Rests
    <2>1. now' \in Nat /\ now <= now' /\ hashes' = hashes /\ stored' = stored /\ foreign' = foreign
      BY <1>0, <1>5 DEF Rests
    <2>2. Unique' /\ Grounded'
      BY <1>0, <1>1, <2>1 DEF Unique, Grounded
    <2>3. \A p \in stored : p[3] \in Nat
      BY <1>0
    <2>4. \A c \in Cleaners : cleanup[c].cut \in Nat
      BY <1>0 DEF Cleanup
    <2>5. Past'
      BY <1>0, <1>5, <2>4 DEF Rests, Past
    <2>6. Lasting'
      BY <1>0, <2>1, <2>3 DEF Lasting, FirstOf, OursAlone
    <2> QED BY <2>2, <2>5, <2>6
  <1> QED BY <1>1, <1>2, <1>3, <1>4, <1>5, MemorySteps, RemembersKeeps DEF MemoryInv

\* The memory of an identifier lasts the retention from the first deletion that
\* stored it, through retries, failures, cleanups, purges and rows of other writers, as
\* long as none of those is our digest of it.
THEOREM Lasts == Spec => []MemoryLasts
  <1>1. MemoryInv => MemoryLasts
    <2> SUFFICES ASSUME MemoryInv, NEW p \in stored, now < p[3] + Retention, FirstOf(p),
                        OursAlone(p[1])
                 PROVE  Recognised(p[1])
      BY DEF MemoryLasts, FirstOf
    <2>1. now \in Nat /\ p[3] \in Nat /\ Retention \in Nat /\ hashes \subseteq Hash
      BY MemoryAssumption DEF MemoryInv, MemoryTypeInv, MemoryTypeOK
    <2>2. PICK h \in hashes : Bears(h, p)
      BY <2>1 DEF MemoryInv, Lasting
    <2>3. h.expires > now
      BY <2>1, <2>2 DEF Hash, Bears
    <2> QED BY <2>2, <2>3 DEF Recognised, Matching, Bears
  <1> QED BY <1>1, MemoryInit, MemoryStep, PTL DEF Spec

\* One row per identifier and format, and none of ours for a tombstone, whatever
\* executions of the same deletion run together.
THEOREM OneRow == Spec => []OneRowPerIdentifier
  <1>1. MemoryInv => OneRowPerIdentifier
    <2> SUFFICES ASSUME MemoryInv PROVE OneRowPerIdentifier
      OBVIOUS
    <2>1. Tombstone \notin legacy
      BY MemoryAssumption DEF MemoryInv, MemoryTypeInv, MemoryTypeOK
    <2> QED BY <2>1 DEF MemoryInv, Grounded, Unique, OneRowPerIdentifier
  <1> QED BY <1>1, MemoryInit, MemoryStep, PTL DEF Spec

\* is_reregistration recognises an identifier only within the retention of a deletion
\* that stored it or of a row from before the scheme column, or when another writer
\* vouched for it with the scheme its digest has.
THEOREM TrueMemory == Spec => []NoFalseMemory
  <1>1. MemoryInv => NoFalseMemory
    <2> SUFFICES ASSUME MemoryInv, NEW i \in Identifiers, NEW h \in hashes, h.id = i,
                        <<h.format, h.scheme>> \in Matching, h.expires > now, ~Vouched(i)
                 PROVE  \/ i \in legacy /\ now < Retention
                        \/ \E p \in stored : p[1] = i /\ now < p[3] + Retention
      BY DEF NoFalseMemory, Recognised
    <2>1. ~\E w \in foreign : w.id = h.id /\ w.format = h.format /\ w.scheme = h.scheme
      BY DEF Vouched
    <2> QED BY <2>1 DEF MemoryInv, Grounded
  <1> QED BY <1>1, MemoryInit, MemoryStep, PTL DEF Spec
=============================================================================
