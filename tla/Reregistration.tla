---------------------------- MODULE Reregistration ----------------------------
(***************************************************************************)
(* What is remembered of an erased person (ReRegistrationHash): the digests *)
(* store_hashes writes while execute_deletion runs, the lookup signup asks, *)
(* the retention cleanup with its legal holds and the purge of digests this *)
(* library did not write.                                                  *)
(*                                                                         *)
(* A digest is modelled by what it is a digest of and by how it was computed: *)
(* two formats never give one identifier the same value, so the unique      *)
(* constraint on (hash_type, hash_value) is one row per identifier and      *)
(* format. The scheme column is what the writer says the format is. An      *)
(* identifier is an email address or a phone number.                        *)
(***************************************************************************)
EXTENDS Naturals, FiniteSets

CONSTANTS
    Accounts,
    Identifiers,  \* email addresses and phone numbers of people
    Tombstone,    \* deleted-<hex>@deleted.invalid
    Retention,    \* 24 months
    Executors,    \* celery workers running execute_deletion
    Cleaners,     \* celery workers running run_retention_cleanup
    MaxNow,       \* bound: the last instant of the clock
    MaxFailures,  \* bound: how often store_hashes, a provider or a worker fails
    MaxHolds,     \* bound: how often staff place or release a hold
    MaxForeign,   \* bound: kinds of rows other writers write
    NoAccount

ASSUME MemoryAssumption ==
    /\ Tombstone \notin Identifiers /\ NoAccount \notin Accounts
    /\ Retention \in Nat /\ MaxNow \in Nat
    /\ MaxFailures \in Nat /\ MaxHolds \in Nat /\ MaxForeign \in Nat

VARIABLES
    ident,     \* identifiers on the user row, {} before the signup
    hashes,    \* ReRegistrationHash rows
    held,      \* accounts under an unreleased LegalHold
    now, failures, turns,
    call,      \* one execute_deletion call per executor
    cleanup,   \* one run_retention_cleanup call per cleaner
    legacy,    \* history: the identifiers of rows older than the scheme column
    foreign,   \* history: what other writers wrote
    stored,    \* history: what store_hashes was given, of which account, since when
    erased     \* history: the identifiers of erased accounts

outside == <<ident, held, turns, legacy, foreign, erased>>
vars    == <<outside, hashes, now, failures, call, cleanup, stored>>

Names   == Identifiers \cup {Tombstone}
Schemes == {"hmac", "legacy", "unverified"}
Formats == {"hmac", "salted", "other"}
Hash    == [id : Names, format : Formats, scheme : Schemes, who : Accounts, expires : Nat]
Call    == [pc : {"idle", "store", "erase"}, who : Accounts \cup {NoAccount},
            todo : SUBSET Names, at : Nat]
Cleanup == [pc : {"idle", "delete"}, cut : Nat, spare : SUBSET Accounts]

IdleCall    == [pc |-> "idle", who |-> NoAccount, todo |-> {}, at |-> 0]
IdleCleanup == [pc |-> "idle", cut |-> 0, spare |-> {}]

MemoryTypeOK ==
    /\ ident    \in [Accounts -> SUBSET Names]
    /\ hashes   \subseteq Hash
    /\ held     \subseteq Accounts
    /\ now \in Nat /\ failures \in 0..MaxFailures /\ turns \in 0..MaxHolds
    /\ call     \in [Executors -> Call]
    /\ cleanup  \in [Cleaners -> Cleanup]
    /\ legacy   \subseteq Identifiers /\ erased \subseteq Identifiers
    /\ foreign  \subseteq [id : Names, format : Formats, scheme : Schemes]
    /\ stored   \subseteq Identifiers \X Accounts \X Nat

\* Rows from before the scheme column may be there from the start.
Init ==
    /\ ident = [a \in Accounts |-> {}]
    /\ legacy \in SUBSET Identifiers
    /\ \E a \in Accounts :
          hashes = {[id |-> i, format |-> "salted", scheme |-> "legacy", who |-> a,
                     expires |-> Retention] : i \in legacy}
    /\ held = {} /\ foreign = {} /\ stored = {} /\ erased = {}
    /\ now = 0 /\ failures = 0 /\ turns = 0
    /\ call    = [e \in Executors |-> IdleCall]
    /\ cleanup = [c \in Cleaners |-> IdleCleanup]

-----------------------------------------------------------------------------
(* Signup, holds and other writers                                         *)

\* A person signs up with identifiers no other account has now (external).
SignUp(a, ids) ==
    /\ ident[a] = {} /\ ids # {}
    /\ \A b \in Accounts : ident[b] \cap ids = {}
    /\ ident' = [ident EXCEPT ![a] = ids]
    /\ UNCHANGED <<held, turns, legacy, foreign, erased, hashes, now, failures, call,
                   cleanup, stored>>

SetHold(a) ==
    /\ turns < MaxHolds /\ turns' = turns + 1
    /\ held' = IF a \in held THEN held \ {a} ELSE held \cup {a}
    /\ UNCHANGED <<ident, legacy, foreign, erased, hashes, now, failures, call, cleanup,
                   stored>>

ExpiresAt(t) == t + Retention

\* ReRegistrationHash.save: a writer outside this library gets in any digest that is
\* not there yet, with any expiry and under any scheme, ours included, as long as it
\* states one.
ForeignWrite(a, i, format, scheme) ==
    /\ i \in ident[a] /\ \A h \in hashes : h.id # i \/ h.format # format
    /\ \E t \in {now, ExpiresAt(now)} :
          hashes' = hashes \cup {[id |-> i, format |-> format, scheme |-> scheme,
                                  who |-> a, expires |-> t]}
    /\ foreign' = foreign \cup {[id |-> i, format |-> format, scheme |-> scheme]}
    /\ Cardinality(foreign') <= MaxForeign
    /\ UNCHANGED <<ident, held, turns, legacy, erased, now, failures, call, cleanup, stored>>

-----------------------------------------------------------------------------
(* store_hashes, called by execute_deletion before the identity is erased  *)

\* A run of execute_deletion on an account without a hold; a retry may come
\* when its identity is a tombstone already. What the user row says and the
\* clock are read once.
ExecuteDeletion(e, a) ==
    /\ call[e].pc = "idle" /\ a \notin held /\ ident[a] # {}
    /\ call' = [call EXCEPT ![e] = [pc |-> "store", who |-> a, todo |-> ident[a], at |-> now]]
    /\ UNCHANGED <<outside, hashes, now, failures, cleanup, stored>>

\* Mutation: tombstones are digested like any address.
NoTombstone(i) == FALSE

IsTombstone(i) == i = Tombstone

CallTo(e, pc, todo) ==
    call' = [call EXCEPT ![e] = [pc |-> pc, who |-> call[e].who, todo |-> todo,
                                 at |-> call[e].at]]

\* One get_or_create: a row with our digest keeps its scheme, its owner and its
\* expiry, whoever wrote it.
StoreHash(e, i) ==
    /\ call[e].pc = "store" /\ i \in call[e].todo
    /\ LET a == call[e].who
           t == call[e].at
           known == \E h \in hashes : h.id = i /\ h.format = "hmac"
       IN /\ hashes' = IF IsTombstone(i) \/ known THEN hashes
                         ELSE hashes \cup {[id |-> i, format |-> "hmac", scheme |-> "hmac",
                                            who |-> a, expires |-> ExpiresAt(t)]}
          /\ stored' = IF i = Tombstone THEN stored ELSE stored \cup {<<i, a, t>>}
    /\ CallTo(e, "store", call[e].todo \ {i})
    /\ UNCHANGED <<outside, now, failures, cleanup>>

StoreDone(e) ==
    /\ call[e].pc = "store" /\ call[e].todo = {}
    /\ CallTo(e, "erase", {})
    /\ UNCHANGED <<outside, hashes, now, failures, cleanup, stored>>

Fails == failures < MaxFailures /\ failures' = failures + 1

\* Whatever store_hashes raises is logged, and the deletion goes on.
StoreFails(e) ==
    /\ call[e].pc = "store" /\ Fails
    /\ CallTo(e, "erase", {})
    /\ UNCHANGED <<outside, hashes, now, cleanup, stored>>

\* A provider or erase_identity raises, or the worker dies: the call is over and the
\* account is not erased.
DeletionFails(e) ==
    /\ call[e].pc # "idle" /\ Fails
    /\ call' = [call EXCEPT ![e] = IdleCall]
    /\ UNCHANGED <<outside, hashes, now, cleanup, stored>>

\* erase_identity anonymizes the row.
EraseIdentity(e) ==
    /\ call[e].pc = "erase"
    /\ ident'  = [ident EXCEPT ![call[e].who] = {Tombstone}]
    /\ erased' = erased \cup (ident[call[e].who] \ {Tombstone})
    /\ call'   = [call EXCEPT ![e] = IdleCall]
    /\ UNCHANGED <<held, turns, legacy, foreign, hashes, now, failures, cleanup, stored>>

-----------------------------------------------------------------------------
(* is_reregistration, run_retention_cleanup, purge_unverified_hashes       *)

\* Mutation: the digest is compared and the scheme is not.
RecognisedUnderAnyScheme(i) ==
    \E h \in hashes : h.id = i /\ h.format \in {"hmac", "salted"} /\ h.expires > now

\* The digests is_reregistration computes, each under the scheme it asks for.
Matching == {<<"hmac", "hmac">>, <<"salted", "legacy">>}

\* is_reregistration(i)
Recognised(i) ==
    \E h \in hashes : h.id = i /\ <<h.format, h.scheme>> \in Matching /\ h.expires > now

CleanupRead(c) ==
    /\ cleanup[c].pc = "idle"
    /\ cleanup' = [cleanup EXCEPT ![c] = [pc |-> "delete", cut |-> now, spare |-> held]]
    /\ UNCHANGED <<outside, hashes, now, failures, call, stored>>

\* Mutations: the hold decides alone, or the comparison is the wrong way round.
ExpiredAny(cut, spare)   == {h \in hashes : h.who \notin spare}
ExpiredAfter(cut, spare) == {h \in hashes : h.expires > cut /\ h.who \notin spare}

\* The queryset of run_retention_cleanup.
Expired(cut, spare) == {h \in hashes : h.expires <= cut /\ h.who \notin spare}

CleanupDelete(c) ==
    /\ cleanup[c].pc = "delete"
    /\ hashes'  = hashes \ Expired(cleanup[c].cut, cleanup[c].spare)
    /\ cleanup' = [cleanup EXCEPT ![c] = IdleCleanup]
    /\ UNCHANGED <<outside, now, failures, call, stored>>

\* gdpr_purge_unverified_hashes, with or without --include-legacy.
PurgeUnverified(drop) ==
    /\ \E h \in hashes : h.scheme \in drop
    /\ hashes' = {h \in hashes : h.scheme \notin drop}
    /\ UNCHANGED <<outside, now, failures, call, cleanup, stored>>

Tick == /\ now < MaxNow
        /\ now' = now + 1
        /\ UNCHANGED <<outside, hashes, failures, call, cleanup, stored>>

CallStep(e) == StoreDone(e) \/ EraseIdentity(e) \/ \E i \in Names : StoreHash(e, i)
CleanStep(c) == CleanupRead(c) \/ CleanupDelete(c)

Next ==
    \/ \E a \in Accounts, ids \in SUBSET Identifiers : SignUp(a, ids)
    \/ \E a \in Accounts : SetHold(a) \/ \E e \in Executors : ExecuteDeletion(e, a)
    \/ \E a \in Accounts, i \in Names, format \in Formats, scheme \in Schemes :
          ForeignWrite(a, i, format, scheme)
    \/ \E e \in Executors : CallStep(e) \/ StoreFails(e) \/ DeletionFails(e)
    \/ \E c \in Cleaners : CleanStep(c)
    \/ \E drop \in {{"unverified"}, {"unverified", "legacy"}} : PurgeUnverified(drop)
    \/ Tick

Spec == Init /\ [][Next]_vars

\* Celery beat starts the cleanup again and again, calls run on, time passes.
Fairness == /\ \A e \in Executors : WF_vars(CallStep(e))
            /\ \A c \in Cleaners : WF_vars(CleanStep(c))
            /\ WF_vars(Tick)

FairSpec == Spec /\ Fairness

-----------------------------------------------------------------------------
(* Properties                                                              *)

\* Nobody else wrote our digest of this identifier.
OursAlone(i) == \A w \in foreign : w.id # i \/ w.format # "hmac"

\* The memory of an identifier lasts the retention period from the first
\* deletion that stored it: no retry, failure, cleanup or purge shortens it,
\* and no digest others wrote of it in a format of their own.
MemoryLasts ==
    \A p \in stored :
        (/\ now < p[3] + Retention /\ OursAlone(p[1])
         /\ \A q \in stored : q[1] = p[1] => p[3] <= q[3])
            => Recognised(p[1])

\* store_hashes "is refused" a tombstone: one erasure that comes through twice,
\* before and after the identity is gone, leaves one row per identifier it had,
\* and a digest of a tombstone is another writer's.
OneRowPerIdentifier ==
    /\ \A h \in hashes : h.id = Tombstone =>
          \E w \in foreign : w.id = Tombstone /\ w.format = h.format
    /\ \A g, h \in hashes : g.id = h.id /\ g.format = h.format => g = h

\* Another writer put a digest of this identifier under the scheme it has.
Vouched(i) == \E w \in foreign : w.id = i /\ <<w.format, w.scheme>> \in Matching

\* is_reregistration recognises an identifier only within the retention of a
\* deletion that gave it to store_hashes, of a row from before the scheme column,
\* or on the word of a writer that stated the scheme its digest has: a digest under
\* another scheme, and one kept alive by retries or by a hold, is no memory.
NoFalseMemory ==
    \A i \in Identifiers : Recognised(i) =>
        \/ i \in legacy /\ now < Retention
        \/ \E p \in stored : p[1] = i /\ now < p[3] + Retention
        \/ Vouched(i)

\* Storage limitation: a digest past its retention goes, unless the account it
\* was written for is under a hold.
ExpiredIsForgotten ==
    \A i \in Names, f \in Formats :
        LET Late == {h \in hashes : h.id = i /\ h.format = f /\ h.expires <= now}
        IN (Late # {}) ~> (Late = {} \/ \E h \in Late : h.who \in held)

-----------------------------------------------------------------------------
(* What the documentation says and the code does not keep; see the README  *)

\* is_reregistration: "True if the given email or phone belonged to a previously
\* deleted account", when no deletion is under way.
FormerAccountsOnly ==
    (\A e \in Executors : call[e].pc = "idle") =>
        \A i \in Identifiers : Recognised(i) => i \in legacy \cup erased \/ Vouched(i)

\* "24 months retention" for every erased account, also for a person who came
\* back with the same address and was erased again.
EveryErasureRemembered ==
    \A p \in stored : now < p[3] + Retention /\ OursAlone(p[1]) => Recognised(p[1])

\* "Data belonging to users under an unreleased legal hold is preserved": no
\* digest of an identifier of an account that was held when the cleanup began,
\* and still is, gets deleted.
HeldIsPreserved ==
    [][\A p \in stored : \A h \in hashes :
          (/\ p[2] \in held /\ h.id = p[1] /\ h.format = "hmac" /\ h.scheme = "hmac"
           /\ \A c \in Cleaners : cleanup[c].pc = "delete" => p[2] \in cleanup[c].spare)
             => h \in hashes']_hashes
=============================================================================
