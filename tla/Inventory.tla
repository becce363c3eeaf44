----------------------------- MODULE Inventory -----------------------------
(***************************************************************************)
(* The inventory of data owners: what the host declares, what the          *)
(* installed libraries say, what the system checks find at boot, and       *)
(* whether the owners that were declared are still listening.              *)
(*                                                                         *)
(* A deployment is a record of settings and installed code:                *)
(*   entries        DATA_OWNERS, in order. A map, a list of names and a    *)
(*                  list of specs all become entries with a name, a kind   *)
(*                  and subjects, {} or "unset" where nothing is written   *)
(*   remote         REMOTE_DELETION_SERVICES                               *)
(*   optOut, types  DATA_OWNERS_OPT_OUT and SUBJECT_TYPES                  *)
(*   registrations  register_gdpr_owner: owner -> subject types            *)
(*   providers      gdpr_registry: section -> subject types                *)
(*   modules        module constants: owner -> subject types               *)
(*   aliases        app label -> owner of the library                      *)
(*   roots          EXPORT_ROOT, ARCHIVE_ROOT, STAGING_ROOT, BASE_DIR      *)
(*                  and alias, where the store that STORAGES names for    *)
(*                  exports puts its files                                *)
(*   served         MEDIA_ROOT, STATIC_ROOT, STATICFILES_DIRS              *)
(* A path is the sequence of its directories, << >> where it is not set.   *)
(***************************************************************************)
EXTENDS Integers, Sequences, SequencesExt

CONSTANTS
    Names,       \* spellings of owner names
    Strip,       \* a spelling without its blanks
    Similar,     \* <<a, b>>: difflib takes a for a near miss of b
    Account,     \* SUBJECT_ACCOUNT
    Deployments, \* what an operator may try to start
    Services,    \* owners with a process of their own on the bus
    Period,      \* the beat of probe_data_owners: a day
    MaxAge,      \* OWNER_ALIVE_MAX_AGE_HOURS: two days
    MaxDelay,    \* the bus delivers, or has given up, after this long
    MaxTurns,    \* bound: how often services stop and start
    MaxNow       \* bound: the clock

ASSUME InventoryAssumption ==
    /\ Strip \in [Names -> Names] /\ \A n \in Names : Strip[Strip[n]] = Strip[n]
    /\ Similar \subseteq Names \X Names /\ Services \subseteq Names
    /\ Period \in Nat \ {0} /\ MaxAge \in Nat /\ MaxDelay \in Nat
    /\ MaxTurns \in Nat /\ MaxNow \in Nat
    /\ Deployments # {}

VARIABLES
    deployment, \* what the operator is trying to start, or has started
    up,         \* it runs
    alive,      \* DataOwnerHealth.last_alive_at, Never without an answer
    probed,     \* DataOwnerHealth.last_probe_at
    nextProbe,
    bus,        \* gdpr.owner.probe and gdpr.owner.alive on their way
    listening,  \* services whose erasure subscriber runs
    since,      \* history: when it last stopped or started
    turns, now

vars == <<deployment, up, alive, probed, nextProbe, bus, listening, since, turns, now>>

Never   == -1
Message == [type : {"probe", "alive"}, owner : Names, sent : Nat, seen : BOOLEAN]

InventoryTypeOK ==
    /\ up \in BOOLEAN
    /\ alive  \in [Names -> {Never} \cup 0..now]
    /\ probed \in [Names -> {Never} \cup 0..now]
    /\ nextProbe \in now..now + Period
    /\ bus \subseteq Message /\ \A m \in bus : m.sent \in now - MaxDelay..now
    /\ listening \subseteq Services
    /\ since \in [Services -> 0..now]
    /\ turns \in 0..MaxTurns /\ now \in 0..MaxNow

-----------------------------------------------------------------------------
(* owners.data_owner_report                                                *)

NormalizeSubjects(s) == IF s = {} THEN {Account} ELSE s

\* _declarations keeps the first entry of each name, blanks stripped ...
First(d, i) == \A j \in 1..i - 1 : Strip[d.entries[j].name] # Strip[d.entries[i].name]

Seen(d) == {Strip[d.entries[i].name] : i \in DOMAIN d.entries}

\* ... under the spelling it was written in, and adds the legacy remote services.
Declarations(d) ==
    {d.entries[i] : i \in {i \in DOMAIN d.entries : First(d, i)}}
      \cup {[name |-> n, kind |-> "remote", subjects |-> {}] : n \in d.remote \ Seen(d)}

Registered(d) == DOMAIN d.providers

\* A kind nobody wrote is inferred.
Owner(d, spec) ==
    [name     |-> spec.name,
     kind     |-> IF spec.kind # "unset" THEN spec.kind
                  ELSE IF spec.name \in Registered(d) THEN "local" ELSE "remote",
     subjects |-> NormalizeSubjects(spec.subjects)]

Owners(d)     == {Owner(d, spec) : spec \in Declarations(d)}
OwnerNames(d) == {o.name : o \in Owners(d)}

ASSUME DeploymentAssumption == \A d \in Deployments : OwnerNames(d) \subseteq Names

Missing(d)    == {o.name : o \in {o \in Owners(d) : o.kind = "local"}} \ Registered(d)
Undeclared(d) == Registered(d) \ OwnerNames(d)
SubjectTypes(d) == NormalizeSubjects(d.types)

\* Who is asked, and gets a receipt slot, when a subject of type s is erased;
\* request_erasure refuses a subject that is not in SUBJECT_TYPES.
Asked(d, s) == IF s \notin SubjectTypes(d) THEN {}
               ELSE {o.name : o \in {o \in Owners(d) : s \in o.subjects}}

-----------------------------------------------------------------------------
(* declarations.installed_owner_declarations                               *)

Says(seam, n) == IF n \in DOMAIN seam THEN seam[n] ELSE {}

Declared(d) == DOMAIN d.registrations \cup DOMAIN d.providers \cup DOMAIN d.modules

\* Mutation: the best seam decides, even when it does not know.
BestSeam(d, n) == IF n \in DOMAIN d.registrations THEN d.registrations[n]
                  ELSE IF n \in DOMAIN d.providers THEN d.providers[n]
                  ELSE Says(d.modules, n)

\* _merge: the first sighting that carries subject types.
Claims(d, n) == IF Says(d.registrations, n) # {} THEN d.registrations[n]
                ELSE IF Says(d.providers, n) # {} THEN d.providers[n]
                ELSE Says(d.modules, n)

\* nearest_declared_name: an app label first, a near miss otherwise.
Nearest(d, n) ==
    LET wanted == Strip[n]
    IN  IF wanted \in Declared(d) THEN {}
        ELSE IF wanted \in DOMAIN d.aliases THEN {d.aliases[wanted]}
        ELSE {m \in Declared(d) : <<wanted, m>> \in Similar}

-----------------------------------------------------------------------------
(* export_store and its roots                                              *)

Under(root, dir) == Append(root, dir)
ExportRoot(d)  == IF d.roots.export # <<>> THEN d.roots.export
                  ELSE IF d.roots.base # <<>> THEN d.roots.base \o <<"private", "gdpr">>
                  ELSE <<"tmp", "stapel-gdpr">>
ArchiveRoot(d) == IF d.roots.archive # <<>> THEN d.roots.archive
                  ELSE Under(ExportRoot(d), "exports")
StagingRoot(d) == IF d.roots.staging # <<>> THEN d.roots.staging
                  ELSE Under(ExportRoot(d), "staging")

\* export_storage: the aliased store, if there is one, before the archive root.
ArchivePlace(d) == IF d.roots.alias # <<>> THEN d.roots.alias ELSE ArchiveRoot(d)

\* _is_inside
IsInside(path, root) == IsPrefix(root, path)

ServedRoots(d) == {p \in d.served : p # <<>>}
IsServed(d, path) == \E root \in ServedRoots(d) : IsInside(path, root)

-----------------------------------------------------------------------------
(* checks: what stops the boot and what is said every time                 *)

Misspelled(d) == {n \in OwnerNames(d) : n \notin Declared(d) /\ Nearest(d, n) # {}}
RenamedTo(d)  == UNION {Nearest(d, n) : n \in Misspelled(d)}

\* Installed owners nobody asks.
Unlisted(d) == Declared(d) \ (OwnerNames(d) \cup RenamedTo(d))

\* gdpr.W012: a subject an owner erases and the host never names.
SubjectUnlisted(d) ==
    \E o \in Owners(d) : o.name \in Declared(d) /\
        \E s \in Claims(d, o.name) : s \notin o.subjects \/ s \notin SubjectTypes(d)

If(condition, id) == IF condition THEN {id} ELSE {}

\* check_data_owner_registry
RegistryErrors(d) ==
    If(Owners(d) = {}, "E001")
      \cup If(Owners(d) # {} /\ (Missing(d) # {} \/ Undeclared(d) # {}), "E002")

\* check_data_owner_names, which leaves an empty inventory to gdpr.E001
NameErrors(d) ==
    If(Owners(d) # {} /\ Misspelled(d) # {}, "E009")
      \cup If(Owners(d) # {} /\ Unlisted(d) \ d.optOut # {}, "E010")

NameWarnings(d) ==
    If(Owners(d) # {} /\ Unlisted(d) \cap d.optOut # {}, "W011")
      \cup If(Owners(d) # {} /\ SubjectUnlisted(d), "W012")

\* check_export_storage
StorageErrors(d) ==
    If(\E p \in {ExportRoot(d), ArchiveRoot(d), StagingRoot(d)} : IsServed(d, p), "E013")

\* register_checks
Errors(d) == RegistryErrors(d) \cup NameErrors(d) \cup StorageErrors(d)

\* gdpr.W006 and DataOwnerHealthView: declared owners that have not proven they
\* are listening.
Silent(n) == alive[n] = Never \/ alive[n] < now - MaxAge

-----------------------------------------------------------------------------
(* Starting a deployment                                                   *)

Init ==
    /\ deployment \in Deployments /\ up = FALSE
    /\ alive = [n \in Names |-> Never] /\ probed = [n \in Names |-> Never]
    /\ nextProbe = 0 /\ bus = {}
    /\ listening = Services /\ since = [n \in Services |-> 0]
    /\ turns = 0 /\ now = 0

\* manage.py runs the checks first and starts nothing when one is an error; the
\* operator who edits the settings begins again at Init.
Boot ==
    /\ ~up /\ Errors(deployment) = {}
    /\ up' = TRUE
    /\ UNCHANGED <<deployment, alive, probed, nextProbe, bus, listening, since, turns, now>>

-----------------------------------------------------------------------------
(* probe_data_owners and the answers                                       *)

\* Mutation: asking is taken for an answer.
ProbeStampsAlive ==
    /\ up /\ now = nextProbe
    /\ nextProbe' = now + Period
    /\ probed' = [n \in Names |-> IF n \in OwnerNames(deployment) THEN now ELSE probed[n]]
    /\ alive' = probed'
    /\ bus' = bus \cup {[type |-> "probe", owner |-> n, sent |-> now, seen |-> FALSE] :
                         n \in Services}
    /\ UNCHANGED <<deployment, up, listening, since, turns, now>>

\* One transaction: every declared owner's row, and one probe for whoever listens.
ProbeDataOwners ==
    /\ up /\ now = nextProbe
    /\ nextProbe' = now + Period
    /\ probed' = [n \in Names |-> IF n \in OwnerNames(deployment) THEN now ELSE probed[n]]
    /\ bus' = bus \cup {[type |-> "probe", owner |-> n, sent |-> now, seen |-> FALSE] :
                         n \in Services}
    /\ UNCHANGED <<deployment, up, alive, listening, since, turns, now>>

\* A service answers from the subscriber that erases. A message may come again.
Answer(m) ==
    /\ m \in bus /\ m.type = "probe" /\ m.owner \in listening
    /\ bus' = (bus \ {m}) \cup {[m EXCEPT !.seen = TRUE],
                  [type |-> "alive", owner |-> m.owner, sent |-> now, seen |-> FALSE]}
    /\ UNCHANGED <<deployment, up, alive, probed, nextProbe, listening, since, turns, now>>

\* handle_owner_alive and record_owner_alive: a row even for an owner nobody declared,
\* stamped with the time of arrival.
HandleOwnerAlive(m) ==
    /\ up /\ m \in bus /\ m.type = "alive"
    /\ bus' = (bus \ {m}) \cup {[m EXCEPT !.seen = TRUE]}
    /\ alive' = [alive EXCEPT ![m.owner] = now]
    /\ UNCHANGED <<deployment, up, probed, nextProbe, listening, since, turns, now>>

\* A subscriber stops, or starts again.
Turn(n) ==
    /\ up /\ turns < MaxTurns
    /\ listening' = IF n \in listening THEN listening \ {n} ELSE listening \cup {n}
    /\ since' = [since EXCEPT ![n] = now]
    /\ turns' = turns + 1
    /\ UNCHANGED <<deployment, up, alive, probed, nextProbe, bus, now>>

\* What the bus owes to a process that runs it has delivered by then.
Owed(m) == /\ m.sent + MaxDelay <= now /\ ~m.seen
           /\ m.type = "probe" => m.owner \in listening

Tick ==
    /\ up /\ now < MaxNow /\ now < nextProbe
    /\ \A m \in bus : ~Owed(m)
    /\ now' = now + 1
    /\ bus' = {m \in bus : m.sent + MaxDelay > now}
    /\ UNCHANGED <<deployment, up, alive, probed, nextProbe, listening, since, turns>>

Next ==
    \/ Boot \/ ProbeDataOwners \/ Tick
    \/ \E m \in bus : Answer(m) \/ HandleOwnerAlive(m)
    \/ \E n \in Services : Turn(n)

Spec == Init /\ [][Next]_vars

-----------------------------------------------------------------------------
(* Properties                                                              *)

\* check_data_owner_names: in a deployment that starts without gdpr.W011 and W012,
\* every store an installed library declares, on whichever seam, is asked
\* about every subject it can erase.
EveryStoreIsAsked ==
    up /\ NameWarnings(deployment) = {} =>
        \A n \in Declared(deployment) :
            \A s \in Says(deployment.registrations, n) \cup Says(deployment.providers, n)
                       \cup Says(deployment.modules, n) :
                n \in Asked(deployment, s)

\* An owner whose subscriber has been gone for longer than an answer may age and
\* travel, or a declared name nobody answers to.
Quiet(n) == n \in Services => n \notin listening /\ now - since[n] > MaxAge + MaxDelay

\* An owner that has been listening for a whole round of probe and answer.
Heard(n) == n \in Services /\ n \in listening /\ now - since[n] > Period + 2 * MaxDelay

\* check_data_owner_liveness: who is quiet is reported, late and repeated answers
\* notwithstanding, and who is heard is not, as long as two days cover a round.
QuietOwnerIsNamed ==
    \A n \in OwnerNames(deployment) :
        /\ Quiet(n) => Silent(n)
        /\ (up /\ Heard(n) /\ Period + 2 * MaxDelay <= MaxAge) => ~Silent(n)

-----------------------------------------------------------------------------
(* What the documentation says and the code does not keep; see the README  *)

\* export_store: "It is not a served root ... A deployment that points it back at
\* one is refused at boot by gdpr.E013".
ArchivesArePrivate == up => ~IsServed(deployment, ArchivePlace(deployment))
=============================================================================
