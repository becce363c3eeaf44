-------------------------------- MODULE Export --------------------------------
(***************************************************************************)
(* The data export of one person (DataExportRequest, DataExportPart):      *)
(*                                                                         *)
(*   request_export       a row, a part per collecting service, a bus event *)
(*                        and a queued run_data_export task                *)
(*   run_export           in-process providers write to the staging area   *)
(*   mark_part_ready      a peer service reports what it uploaded          *)
(*   sweep_deadlines      assembles what is there once the deadline is over *)
(*   _try_assemble        ... all three end here: lock, zip, READY          *)
(*   _serve               spends the single-use token                      *)
(*   purge_expired_exports                                                 *)
(*                                                                         *)
(* Every process is a Worker with one call at a time; one action is one    *)
(* database statement, transaction or storage operation. Statements do not *)
(* fail by themselves; buses, providers, stores and emits do, and          *)
(* processes crash.                                                        *)
(***************************************************************************)
EXTENDS Naturals, FiniteSets

CONSTANTS
    Exports,      \* primary keys available to DataExportRequest rows
    Workers,      \* web processes, bus consumers and celery workers
    Declared,     \* data_owner_report().names
    Listed,       \* GDPR_COLLECTING_SERVICES
    Registered,   \* sections of gdpr_registry.providers
    RegistrySound, \* data_owner_report().problems is empty
    PeerPaths,    \* kinds of bucket_path peers send
    Deadline, Ttl, Cooldown,  \* 24 hours, DOWNLOAD_TTL_HOURS, 30 days
    MaxRetries,   \* run_data_export: max_retries
    MaxNow,       \* bound: the last instant of the clock
    Failing,      \* kinds of operations that may fail
    MaxFailures,  \* bound: how often they do
    NoExport, NoService

\* _collecting_services: the union of the three lists.
Services == Declared \cup Listed \cup Registered

ASSUME ExportAssumption ==
    /\ RegistrySound \in BOOLEAN
    /\ PeerPaths \subseteq {"key", "empty", "foreign"}
    /\ Deadline \in Nat /\ Ttl \in Nat /\ Cooldown \in Nat
    /\ MaxRetries \in Nat /\ MaxNow \in Nat /\ MaxFailures \in Nat
    /\ Failing \subseteq {"enqueue", "provider", "bucket", "assembly", "delete", "crash"}
    /\ NoExport \notin Exports /\ NoService \notin Services

VARIABLES
    status, created, deadline,   \* DataExportRequest
    archive,    \* archive_path: which archive of the store, 0 for NULL
    partial, missing,            \* is_partial, missing_services
    token,      \* download_token_hash is set
    consumed,   \* download_consumed_at is set
    expires,    \* download_expires_at
    part, path, \* DataExportPart.status and .bucket_path
    bucket,     \* peer-uploaded slices in default_storage
    dir, staging,  \* the staging directory and the sections in it
    store,      \* archives in the export store
    saved,      \* how many archives an export has put into the store
    queued, attempts,  \* run_data_export: in the queue, retries left
    sent,       \* gdpr.export.requested events
    inbox,      \* gdpr.export.completed events and callbacks
    now, failures,
    minted,     \* history: user.export_ready events per export
    shipped,    \* history: the sections of the archive announced last
    served,     \* history: archives streamed to the person
    pc, on, via,   \* the call each worker runs, its export, its entry point
    todo, cur,     \* run_export: providers left, provider running
    due,           \* sweep_deadlines: rows left
    gap, lack, got, \* _assemble_zip: partial, missing, staged_parts
    held           \* _serve and expire_export: archive_path as read

row      == <<status, created, deadline, archive, partial, missing, token,
              consumed, expires>>
files    == <<bucket, dir, staging, store, saved>>
world    == <<sent, inbox, now>>
history  == <<minted, shipped, served>>
job      == <<todo, cur, due, gap, lack, got, held>>
call     == <<pc, on, via, job>>
vars     == <<row, part, path, files, queued, attempts, world, failures,
              history, call>>

Open     == {"pending", "processing"}
Status   == Open \cup {"absent", "assembling", "ready", "expired"}
Building == {"gauge", "download", "judge", "zip", "ready"}
Pc       == {"idle", "create", "publish", "enqueue", "mkdir", "provider",
             "wrote", "raised", "lock", "sweep", "clean", "purge", "consume",
             "open", "drop", "forget", "expire", "expired"} \cup Building
Archive  == [export : Exports, n : Nat, has : SUBSET Services]

ExportTypeOK ==
    /\ status   \in [Exports -> Status]
    /\ created  \in [Exports -> Nat] /\ deadline \in [Exports -> Nat]
    /\ archive  \in [Exports -> Nat]
    /\ partial  \in [Exports -> BOOLEAN] /\ missing \in [Exports -> SUBSET Services]
    /\ token    \in [Exports -> BOOLEAN] /\ consumed \in [Exports -> BOOLEAN]
    /\ expires  \in [Exports -> Nat]
    /\ part     \in [Exports -> [Services -> {"absent", "pending", "done", "failed"}]]
    /\ path     \in [Exports -> [Services -> {"none", "key", "empty"}]]
    /\ bucket   \subseteq Exports \X Services
    /\ dir      \in [Exports -> BOOLEAN] /\ staging \in [Exports -> SUBSET Services]
    /\ store    \subseteq Archive /\ saved \in [Exports -> Nat]
    /\ queued   \in [Exports -> BOOLEAN] /\ attempts \in [Exports -> 0..MaxRetries]
    /\ sent     \subseteq Exports
    /\ inbox    \subseteq Exports \X Services \X PeerPaths
    /\ now \in Nat /\ failures \in 0..MaxFailures
    /\ minted   \in [Exports -> Nat] /\ served \in [Exports -> Nat]
    /\ shipped  \in [Exports -> SUBSET Services]
    /\ pc       \in [Workers -> Pc] /\ on \in [Workers -> Exports \cup {NoExport}]
    /\ via      \in [Workers -> {"none", "run", "mark", "sweep", "view", "purge"}]
    /\ todo     \in [Workers -> SUBSET Services]
    /\ cur      \in [Workers -> Services \cup {NoService}]
    /\ due      \in [Workers -> SUBSET Exports]
    /\ gap      \in [Workers -> BOOLEAN]
    /\ lack     \in [Workers -> SUBSET Services]
    /\ got      \in [Workers -> SUBSET Services]
    /\ held     \in [Workers -> Nat]

Init ==
    /\ status   = [x \in Exports |-> "absent"]
    /\ created  = [x \in Exports |-> 0] /\ deadline = [x \in Exports |-> 0]
    /\ archive  = [x \in Exports |-> 0]
    /\ partial  = [x \in Exports |-> FALSE] /\ missing = [x \in Exports |-> {}]
    /\ token    = [x \in Exports |-> FALSE] /\ consumed = [x \in Exports |-> FALSE]
    /\ expires  = [x \in Exports |-> 0]
    /\ part     = [x \in Exports |-> [s \in Services |-> "absent"]]
    /\ path     = [x \in Exports |-> [s \in Services |-> "none"]]
    /\ bucket   = {} /\ store = {}
    /\ dir      = [x \in Exports |-> FALSE] /\ staging = [x \in Exports |-> {}]
    /\ saved    = [x \in Exports |-> 0]
    /\ queued   = [x \in Exports |-> FALSE]
    /\ attempts = [x \in Exports |-> MaxRetries]
    /\ sent     = {} /\ inbox = {}
    /\ now = 0 /\ failures = 0
    /\ minted   = [x \in Exports |-> 0] /\ served = [x \in Exports |-> 0]
    /\ shipped  = [x \in Exports |-> {}]
    /\ pc       = [w \in Workers |-> "idle"] /\ on = [w \in Workers |-> NoExport]
    /\ via      = [w \in Workers |-> "none"]
    /\ todo     = [w \in Workers |-> {}] /\ cur = [w \in Workers |-> NoService]
    /\ due      = [w \in Workers |-> {}]
    /\ gap      = [w \in Workers |-> FALSE] /\ lack = [w \in Workers |-> {}]
    /\ got      = [w \in Workers |-> {}] /\ held = [w \in Workers |-> 0]

-----------------------------------------------------------------------------
(* Calls                                                                   *)

Goto(w, p) == pc' = [pc EXCEPT ![w] = p] /\ UNCHANGED <<on, via>>

\* A call on export x begins at p.
Enter(w, p, x, v) ==
    /\ pc[w] = "idle"
    /\ pc'  = [pc  EXCEPT ![w] = p]
    /\ on'  = [on  EXCEPT ![w] = x]
    /\ via' = [via EXCEPT ![w] = v]

\* The call is over: its locals are gone. A sweep goes on to its next row.
Leave(w, rest) ==
    /\ pc'   = [pc   EXCEPT ![w] = IF rest = {} THEN "idle" ELSE "sweep"]
    /\ on'   = [on   EXCEPT ![w] = NoExport]
    /\ via'  = [via  EXCEPT ![w] = IF rest = {} THEN "none" ELSE via[w]]
    /\ due'  = [due  EXCEPT ![w] = rest]
    /\ todo' = [todo EXCEPT ![w] = {}]
    /\ cur'  = [cur  EXCEPT ![w] = NoService]
    /\ gap'  = [gap  EXCEPT ![w] = FALSE]
    /\ lack' = [lack EXCEPT ![w] = {}]
    /\ got'  = [got  EXCEPT ![w] = {}]
    /\ held' = [held EXCEPT ![w] = 0]

Return(w) == Leave(w, due[w])
Abandon(w) == Leave(w, {})

Fails(kind) == /\ kind \in Failing /\ failures < MaxFailures
               /\ failures' = failures + 1

Exists(x)  == status[x] # "absent"
Done(x)    == {s \in Services : part[x][s] = "done"}
AllPartsDone(x) == \A s \in Services : part[x][s] \in {"absent", "done"}
Expected(x) == {s \in Services : part[x][s] # "absent"}
Stored(x, n) == \E a \in store : a.export = x /\ a.n = n

-----------------------------------------------------------------------------
(* request_export and the view that calls it                               *)

\* Bound: a call begins only while there is a primary key left for its row.
RowsLeft == Cardinality({x \in Exports : ~Exists(x)}) >
            Cardinality({w \in Workers : pc[w] = "create"})

InCooldown == \E x \in Exports : /\ status[x] \in {"pending", "processing", "ready"}
                                 /\ created[x] + Cooldown >= now

RequestExport(w) ==
    /\ ~InCooldown
    /\ RowsLeft
    /\ Enter(w, "create", NoExport, "view")
    /\ UNCHANGED <<row, part, path, files, queued, attempts, world, failures,
                   history, job>>

\* The row and its parts. Nobody knows the row before it is announced, so
\* the statements that create the parts are one step with it.
CreateExport(w) ==
    /\ pc[w] = "create"
    /\ \E x \in Exports :
          /\ ~Exists(x)
          /\ status'   = [status   EXCEPT ![x] = "pending"]
          /\ created'  = [created  EXCEPT ![x] = now]
          /\ deadline' = [deadline EXCEPT ![x] = now + Deadline]
          /\ part'     = [part     EXCEPT ![x] = [s \in Services |-> "pending"]]
          /\ on'       = [on       EXCEPT ![w] = x]
    /\ pc' = [pc EXCEPT ![w] = "publish"]
    /\ UNCHANGED <<archive, partial, missing, token, consumed, expires, path,
                   files, queued, attempts, world, failures, history, via, job>>

PublishExportRequested(w) ==
    /\ pc[w] = "publish"
    /\ sent' = sent \cup {on[w]}
    /\ Goto(w, "enqueue")
    /\ UNCHANGED <<row, part, path, files, queued, attempts, inbox, now,
                   failures, history, job>>

EnqueueRun(w) ==
    /\ pc[w] = "enqueue"
    /\ queued' = [queued EXCEPT ![on[w]] = TRUE]
    /\ Return(w)
    /\ UNCHANGED <<row, part, path, files, attempts, world, failures, history>>

\* The bus or the broker refuses: the caller gets an error, the row stays.
RequestFails(w) ==
    /\ pc[w] \in {"publish", "enqueue"}
    /\ Fails("enqueue")
    /\ Abandon(w)
    /\ UNCHANGED <<row, part, path, files, queued, attempts, world, history>>

-----------------------------------------------------------------------------
(* run_export and mark_part_ready                                          *)

\* The status is looked at and set under a row lock.
RunExport(w, x) ==
    /\ queued[x]
    /\ queued' = [queued EXCEPT ![x] = FALSE]
    /\ IF status[x] \in Open
         THEN /\ status' = [status EXCEPT ![x] = "processing"]
              /\ Enter(w, "mkdir", x, "run")
         ELSE pc[w] = "idle" /\ UNCHANGED <<status, pc, on, via>>
    /\ UNCHANGED <<created, deadline, archive, partial, missing, token, consumed,
                   expires, part, path, files, attempts, world, failures,
                   history, job>>

RunMkdir(w) ==
    /\ pc[w] = "mkdir"
    /\ dir'  = [dir  EXCEPT ![on[w]] = TRUE]
    /\ todo' = [todo EXCEPT ![w] = Registered]
    /\ Goto(w, "provider")
    /\ UNCHANGED <<row, part, path, bucket, staging, store, saved, queued,
                   attempts, world, failures, history, cur, due, gap, lack, got,
                   held>>

\* A section without a part, or already done, is skipped.
RunSkip(w, s) ==
    /\ pc[w] = "provider" /\ s \in todo[w]
    /\ part[on[w]][s] \in {"absent", "done"}
    /\ todo' = [todo EXCEPT ![w] = @ \ {s}]
    /\ UNCHANGED <<row, part, path, files, queued, attempts, world, failures,
                   history, pc, on, via, cur, due, gap, lack, got, held>>

\* export_to_staging: it needs the staging directory, which a forced assembly
\* may have removed meanwhile, and it may raise on its own.
RunProvider(w, s) ==
    /\ pc[w] = "provider" /\ s \in todo[w]
    /\ part[on[w]][s] \notin {"absent", "done"}
    /\ cur' = [cur EXCEPT ![w] = s]
    /\ \/ /\ dir[on[w]]
          /\ staging' = [staging EXCEPT ![on[w]] = @ \cup {s}]
          /\ Goto(w, "wrote")
          /\ UNCHANGED failures
       \/ /\ IF dir[on[w]] THEN Fails("provider") ELSE UNCHANGED failures
          /\ Goto(w, "raised")
          /\ UNCHANGED staging
    /\ UNCHANGED <<row, part, path, bucket, dir, store, saved, queued, attempts,
                   world, history, todo, due, gap, lack, got, held>>

RunPartSave(w) ==
    /\ pc[w] \in {"wrote", "raised"}
    /\ part' = [part EXCEPT ![on[w]][cur[w]] =
                  IF pc[w] = "wrote" THEN "done" ELSE "failed"]
    /\ todo' = [todo EXCEPT ![w] = @ \ {cur[w]}]
    /\ cur'  = [cur  EXCEPT ![w] = NoService]
    /\ Goto(w, "provider")
    /\ UNCHANGED <<row, path, files, queued, attempts, world, failures, history,
                   due, gap, lack, got, held>>

RunProvidersDone(w) ==
    /\ pc[w] = "provider" /\ todo[w] = {}
    /\ Goto(w, "lock")
    /\ UNCHANGED <<row, part, path, files, queued, attempts, world, failures,
                   history, job>>

\* Mutation: any path is taken for one of this export.
IsAnyBucketPath(p) == p # "empty"

\* is_safe_bucket_path, over the kinds of path a peer can send: a key under
\* the prefix of this export, nothing at all, anything else.
IsSafeBucketPath(p) == p = "key"

\* A peer uploads its slice and reports it (external: the peer services). Bound:
\* one report for each export, which the bus repeats at will; a report that is
\* refused leaves no trace.
PeerCompletes(x, s, p) ==
    /\ x \in sent /\ s \notin Registered
    /\ \A q \in PeerPaths : <<x, s, q>> \notin inbox
    /\ inbox'  = inbox \cup {<<x, s, p>>}
    /\ bucket' = IF p = "key" THEN bucket \cup {<<x, s>>} ELSE bucket
    /\ UNCHANGED <<row, part, path, dir, staging, store, saved, queued, attempts,
                   sent, now, failures, history, call>>

\* Deliveries repeat; a path outside the contract is refused; a part that is
\* done already is left alone.
MarkPartReady(w, x, s, p) ==
    /\ <<x, s, p>> \in inbox
    /\ p = "empty" \/ IsSafeBucketPath(p)
    /\ part[x][s] \notin {"absent", "done"}
    /\ part' = [part EXCEPT ![x][s] = "done"]
    /\ path' = [path EXCEPT ![x][s] = p]
    /\ Enter(w, "lock", x, "mark")
    /\ UNCHANGED <<row, files, queued, attempts, world, failures, history, job>>

-----------------------------------------------------------------------------
(* sweep_deadlines and _try_assemble                                       *)

\* Mutation: the comparison is the wrong way round.
BeforeDeadline(x) == status[x] = "processing" /\ deadline[x] >= now

\* The queryset of sweep_deadlines.
PastDeadline(x) == status[x] = "processing" /\ deadline[x] <= now

SweepDeadlines(w) ==
    /\ LET late == {x \in Exports : PastDeadline(x)}
       IN late # {} /\ due' = [due EXCEPT ![w] = late]
    /\ Enter(w, "sweep", NoExport, "sweep")
    /\ UNCHANGED <<row, part, path, files, queued, attempts, world, failures,
                   history, todo, cur, gap, lack, got, held>>

SweepNext(w, x) ==
    /\ pc[w] = "sweep" /\ x \in due[w]
    /\ due' = [due EXCEPT ![w] = @ \ {x}]
    /\ on'  = [on  EXCEPT ![w] = x]
    /\ pc'  = [pc  EXCEPT ![w] = "lock"]
    /\ UNCHANGED <<row, part, path, files, queued, attempts, world, failures,
                   history, via, todo, cur, gap, lack, got, held>>

\* Mutation: the guard lets a second assembler in.
MayAssembleTwice(w) ==
    /\ status[on[w]] \in Open \cup {"assembling"}
    /\ \/ AllPartsDone(on[w]) \/ via[w] = "sweep" \/ deadline[on[w]] <= now

MayAssemble(w) ==
    /\ status[on[w]] \in Open
    /\ \/ AllPartsDone(on[w]) \/ via[w] = "sweep" \/ deadline[on[w]] <= now

\* Under the row lock: assembling is claimed, or somebody else has it.
TryAssemble(w) ==
    /\ pc[w] = "lock"
    /\ IF MayAssemble(w)
         THEN /\ status' = [status EXCEPT ![on[w]] = "assembling"]
              /\ Goto(w, "gauge") /\ UNCHANGED job
         ELSE Return(w) /\ UNCHANGED status
    /\ UNCHANGED <<created, deadline, archive, partial, missing, token, consumed,
                   expires, part, path, files, queued, attempts, world, failures,
                   history>>

\* partial=not locked.all_parts_done, after the lock is released.
GaugeParts(w) ==
    /\ pc[w] = "gauge"
    /\ gap' = [gap EXCEPT ![w] = ~AllPartsDone(on[w])]
    /\ Goto(w, "download")
    /\ UNCHANGED <<row, part, path, files, queued, attempts, world, failures,
                   history, todo, cur, due, lack, got, held>>

\* What is staged already is kept; a download that fails is logged.
DownloadBucketParts(w) ==
    /\ pc[w] = "download"
    /\ LET x    == on[w]
           want == {s \in Done(x) : path[x][s] # "none"}
           here == {s \in want \ staging[x] : /\ IsSafeBucketPath(path[x][s])
                                              /\ <<x, s>> \in bucket}
       IN \E lost \in SUBSET here :
             /\ IF lost = {} THEN UNCHANGED failures ELSE Fails("bucket")
             /\ staging' = [staging EXCEPT ![x] = @ \cup (here \ lost)]
             /\ dir'     = [dir EXCEPT ![x] = @ \/ want # {}]
             /\ got'     = [got EXCEPT ![w] = (want \cap staging[x]) \cup (here \ lost)]
    /\ Goto(w, "judge")
    /\ UNCHANGED <<row, part, path, bucket, store, saved, queued, attempts, world,
                   history, todo, cur, due, gap, lack, held>>

\* _missing_services: judged on the parts' status.
MissingServices(x) == (Declared \cup Expected(x)) \ Done(x)

JudgeMissing(w) ==
    /\ pc[w] = "judge"
    /\ lack' = [lack EXCEPT ![w] = MissingServices(on[w])]
    /\ gap'  = [gap  EXCEPT ![w] = @ \/ MissingServices(on[w]) # {} \/ ~RegistrySound]
    /\ Goto(w, "zip")
    /\ UNCHANGED <<row, part, path, files, queued, attempts, world, failures,
                   history, todo, cur, due, got, held>>

\* Mutation: only what came from the bucket is zipped.
ZipDownloaded(w) == got[w]

\* Every file below the staging directory goes into the archive.
ZipContents(w) == staging[on[w]]

\* save_archive takes a free name, so a retry does not replace what an
\* earlier attempt has left in the store.
SaveArchive(w) ==
    /\ pc[w] = "zip"
    /\ saved' = [saved EXCEPT ![on[w]] = @ + 1]
    /\ store' = store \cup {[export |-> on[w], n |-> saved'[on[w]],
                             has |-> ZipContents(w)]}
    /\ held'  = [held EXCEPT ![w] = saved'[on[w]]]
    /\ Goto(w, "ready")
    /\ UNCHANGED <<row, part, path, bucket, dir, staging, queued, attempts, world,
                   failures, history, todo, cur, due, gap, lack, got>>

\* READY, the token and user.export_ready in one transaction.
PublishReady(w) ==
    /\ pc[w] = "ready"
    /\ LET x == on[w]
       IN /\ status'   = [status   EXCEPT ![x] = "ready"]
          /\ archive'  = [archive  EXCEPT ![x] = held[w]]
          /\ partial'  = [partial  EXCEPT ![x] = gap[w]]
          /\ missing'  = [missing  EXCEPT ![x] = lack[w]]
          /\ token'    = [token    EXCEPT ![x] = TRUE]
          /\ consumed' = [consumed EXCEPT ![x] = FALSE]
          /\ expires'  = [expires  EXCEPT ![x] = now + Ttl]
          /\ minted'   = [minted   EXCEPT ![x] = @ + 1]
          /\ shipped'  = [shipped  EXCEPT ![x] =
                UNION {a.has : a \in {b \in store : b.export = x /\ b.n = held[w]}}]
    /\ Goto(w, "clean")
    /\ UNCHANGED <<created, deadline, part, path, files, queued, attempts, world,
                   failures, served, job>>

\* An exception before READY: back to PROCESSING, and it propagates. The
\* task is retried while it may; a sweep loses the rest of its rows.
AssemblyFails(w) ==
    /\ pc[w] \in {"zip", "ready"}
    /\ Fails("assembly")
    /\ status' = [status EXCEPT ![on[w]] = "processing"]
    /\ LET again == via[w] = "run" /\ attempts[on[w]] > 0
       IN /\ queued'   = [queued   EXCEPT ![on[w]] = @ \/ again]
          /\ attempts' = [attempts EXCEPT ![on[w]] = IF again THEN @ - 1 ELSE @]
    /\ Abandon(w)
    /\ UNCHANGED <<created, deadline, archive, partial, missing, token, consumed,
                   expires, part, path, files, world, history>>

CleanStaging(w) ==
    /\ pc[w] = "clean"
    /\ dir'     = [dir     EXCEPT ![on[w]] = FALSE]
    /\ staging' = [staging EXCEPT ![on[w]] = {}]
    /\ Goto(w, "purge")
    /\ UNCHANGED <<row, part, path, bucket, store, saved, queued, attempts, world,
                   failures, history, job>>

\* Mutation: every finished part is deleted from the bucket, staged or not.
PurgeableDone(w) == {s \in Done(on[w]) : path[on[w]][s] # "none"}

Purgeable(w) == {s \in got[w] : path[on[w]][s] # "none"}

PurgeBucketParts(w) ==
    /\ pc[w] = "purge"
    /\ LET x == on[w]
       IN \E kept \in SUBSET Purgeable(w) :
             /\ IF kept = {} THEN UNCHANGED failures ELSE Fails("delete")
             /\ bucket' = bucket \ ({x} \X (Purgeable(w) \ kept))
             /\ path'   = [path EXCEPT ![x] = [s \in Services |->
                   IF s \in Purgeable(w) \ kept THEN "none" ELSE path[x][s]]]
    /\ Return(w)
    /\ UNCHANGED <<row, part, dir, staging, store, saved, queued, attempts, world,
                   history>>

-----------------------------------------------------------------------------
(* _serve, expire_export and purge_expired_exports                         *)

\* The checks of the download view on the row it has read: too late ends in
\* expire_export, an archive that is not there in an error.
Download(w, x) ==
    /\ token[x] /\ ~consumed[x] /\ status[x] = "ready"
    /\ IF now > expires[x]
         THEN Enter(w, "expire", x, "view")
         ELSE Stored(x, archive[x]) /\ Enter(w, "consume", x, "view")
    /\ held' = [held EXCEPT ![w] = archive[x]]
    /\ UNCHANGED <<row, part, path, files, queued, attempts, world, failures,
                   history, todo, cur, due, gap, lack, got>>

\* Mutation: the update does not look whether the token is spent.
Spendable(x) == token[x]

\* The filter of consume_download_token.
Unspent(x) == token[x] /\ ~consumed[x]

ConsumeDownloadToken(w) ==
    /\ pc[w] = "consume"
    /\ IF Unspent(on[w])
         THEN /\ consumed' = [consumed EXCEPT ![on[w]] = TRUE]
              /\ Goto(w, "open") /\ UNCHANGED job
         ELSE Return(w) /\ UNCHANGED consumed
    /\ UNCHANGED <<status, created, deadline, archive, partial, missing, token,
                   expires, part, path, files, queued, attempts, world, failures,
                   history>>

\* A purge may have been faster: then the open raises and nothing is served.
OpenArchive(w) ==
    /\ pc[w] = "open"
    /\ IF Stored(on[w], held[w])
         THEN /\ served' = [served EXCEPT ![on[w]] = @ + 1]
              /\ Goto(w, "drop") /\ UNCHANGED job
         ELSE Return(w) /\ UNCHANGED served
    /\ UNCHANGED <<row, part, path, files, queued, attempts, world, failures,
                   minted, shipped>>

\* delete_archive never raises; it may also not delete.
DeleteArchive(w, from, to) ==
    /\ pc[w] = from
    /\ \/ /\ store' = {a \in store : a.export # on[w] \/ a.n # held[w]}
          /\ UNCHANGED failures
       \/ Stored(on[w], held[w]) /\ Fails("delete") /\ UNCHANGED store
    /\ Goto(w, to)
    /\ UNCHANGED <<row, part, path, bucket, dir, staging, saved, queued, attempts,
                   world, history, job>>

ForgetArchive(w) ==
    /\ pc[w] = "forget"
    /\ archive' = [archive EXCEPT ![on[w]] = 0]
    /\ Return(w)
    /\ UNCHANGED <<status, created, deadline, partial, missing, token, consumed,
                   expires, part, path, files, queued, attempts, world, failures,
                   history>>

\* Mutation: the purge does not wait for the download window to close.
StaleReady(x) == minted[x] > 0 /\ status[x] # "expired"

\* The two querysets of purge_expired_exports.
Stale(x)  == minted[x] > 0 /\ expires[x] <= now /\ status[x] # "expired"
Orphan(x) == consumed[x] /\ archive[x] # 0

\* Mutation: the row is expired without deleting its archive.
PurgeRowOnly(w, x) ==
    /\ Stale(x) \/ Orphan(x)
    /\ Enter(w, "expired", x, "purge")
    /\ held' = [held EXCEPT ![w] = archive[x]]
    /\ UNCHANGED <<row, part, path, files, queued, attempts, world, failures,
                   history, todo, cur, due, gap, lack, got>>

PurgeExpired(w, x) ==
    /\ Stale(x) \/ Orphan(x)
    /\ Enter(w, "expire", x, "purge")
    /\ held' = [held EXCEPT ![w] = archive[x]]
    /\ UNCHANGED <<row, part, path, files, queued, attempts, world, failures,
                   history, todo, cur, due, gap, lack, got>>

ExpireUpdate(w) ==
    /\ pc[w] = "expired"
    /\ status'  = [status  EXCEPT ![on[w]] = "expired"]
    /\ archive' = [archive EXCEPT ![on[w]] = 0]
    /\ token'   = [token   EXCEPT ![on[w]] = FALSE]
    /\ Return(w)
    /\ UNCHANGED <<created, deadline, partial, missing, consumed, expires, part,
                   path, files, queued, attempts, world, failures, history>>

-----------------------------------------------------------------------------

Tick == /\ now < MaxNow
        /\ now' = now + 1
        /\ UNCHANGED <<row, part, path, files, queued, attempts, sent, inbox,
                       failures, history, call>>

Crash(w) == /\ pc[w] # "idle" /\ Fails("crash")
            /\ Abandon(w)
            /\ UNCHANGED <<row, part, path, files, queued, attempts, world, history>>

RequestStep(w) == CreateExport(w) \/ PublishExportRequested(w) \/ EnqueueRun(w)

RunStep(w) == \/ RunMkdir(w) \/ RunPartSave(w) \/ RunProvidersDone(w)
              \/ \E s \in Services : RunSkip(w, s) \/ RunProvider(w, s)

AssembleStep(w) == \/ TryAssemble(w) \/ GaugeParts(w) \/ DownloadBucketParts(w)
                   \/ JudgeMissing(w) \/ SaveArchive(w) \/ PublishReady(w)
                   \/ CleanStaging(w) \/ PurgeBucketParts(w)
                   \/ \E x \in Exports : SweepNext(w, x)

ServeStep(w) == \/ ConsumeDownloadToken(w) \/ OpenArchive(w)
                \/ DeleteArchive(w, "drop", "forget") \/ ForgetArchive(w)
                \/ DeleteArchive(w, "expire", "expired") \/ ExpireUpdate(w)

\* The steps of a call that has begun, and the calls something starts anew.
Step(w)   == RequestStep(w) \/ RunStep(w) \/ AssembleStep(w) \/ ServeStep(w)
Runs(w)   == \E x \in Exports : RunExport(w, x)
Marks(w)  == \E x \in Exports, s \in Services, p \in PeerPaths : MarkPartReady(w, x, s, p)
Purges(w) == \E x \in Exports : PurgeExpired(w, x)

Next ==
    \/ \E w \in Workers :
          \/ RequestExport(w) \/ Runs(w) \/ Marks(w) \/ SweepDeadlines(w) \/ Purges(w)
          \/ \E x \in Exports : Download(w, x)
          \/ Step(w) \/ RequestFails(w) \/ AssemblyFails(w) \/ Crash(w)
    \/ \E x \in Exports, s \in Services, p \in PeerPaths : PeerCompletes(x, s, p)
    \/ Tick

Spec == Init /\ [][Next]_vars

\* Calls run on, the broker delivers the task and the bus the completions,
\* celery beat starts the sweep, time passes. No peer has to answer and nobody to download.
Fairness ==
    /\ \A w \in Workers : WF_vars(Step(w))
    /\ SF_vars(\E w \in Workers : Runs(w))
    /\ SF_vars(\E w \in Workers : Marks(w))
    /\ SF_vars(\E w \in Workers : SweepDeadlines(w))
    /\ WF_vars(Tick)

FairSpec == Spec /\ Fairness

-----------------------------------------------------------------------------
(* Properties                                                              *)

\* _try_assemble: "Assemble the archive exactly once". Whatever completes,
\* sweeps, retries or crashes, an export has one assembler at a time, which
\* holds it in ASSEMBLING, and is announced ready at most once.
AssembledOnce ==
    \A x \in Exports :
        /\ \A w \in Workers : on[w] = x /\ pc[w] \in Building =>
              /\ status[x] = "assembling"
              /\ \A v \in Workers : on[v] = x /\ pc[v] \in Building => v = w
        /\ minted[x] <= 1

\* consume_download_token: the archive of one export leaves the building at
\* most once, however many downloads race with each other and the purge.
ServedOnce == \A x \in Exports : served[x] <= 1

\* Until its window closes or it is downloaded, a READY export can be: the
\* key on the row names an archive in the store.
AvailableUntilExpiry ==
    \A x \in Exports : status[x] = "ready" /\ ~consumed[x] /\ now < expires[x] =>
        token[x] /\ Stored(x, archive[x])

\* How far an export got, as the person who asked for it sees it.
Progress(x) ==
    IF minted[x] = 0 THEN (IF Exists(x) THEN "asked" ELSE "none")
      ELSE IF consumed[x] THEN (IF served[x] > 0 THEN "handed" ELSE "taken")
             ELSE IF status[x] = "expired" THEN "withdrawn" ELSE "offered"

Promise == INSTANCE Delivery
             WITH stage    <- [x \in Exports |-> Progress(x)],
                  contents <- shipped,
                  ends     <- expires,
                  copies   <- served,
                  clock    <- now

\* The rows and the download endpoint implement Delivery: one final offer, spent
\* at most once, never withdrawn before its window has closed, whatever fails,
\* crashes, retries or races with the purge.
ImplementsDelivery == Promise!Spec

\* _purge_bucket_parts destroys a peer's slice only after it became part of
\* the announced archive, retries and failed downloads included.
NoSliceLost ==
    \A x \in Exports, s \in Services :
        <<x, s, "key">> \in inbox => <<x, s>> \in bucket \/ s \in shipped[x]

\* What the person should find: every section but those whose owner reported
\* that it has nothing to upload.
Owed(x) == {s \in Declared \cup Expected(x) : path[x][s] # "empty"}

\* _missing_services: as long as nothing failed, an archive that does not say it is
\* partial has every section the person is owed.
CompleteArchive ==
    failures = 0 => \A x \in Exports : minted[x] > 0 /\ ~partial[x] =>
        Owed(x) \subseteq shipped[x]

\* _missing_services again, failures included: "Expected sections with nothing in
\* the archive" are named.
NothingMissingUnnamed ==
    \A x \in Exports : minted[x] > 0 => Owed(x) \subseteq shipped[x] \cup missing[x]

\* "An expired export means the ZIP is gone": once whoever expired it is done,
\* the store holds no archive of it, as long as nothing failed.
ExpiredMeansGone ==
    failures = 0 => \A x \in Exports :
        status[x] = "expired" /\ (\A w \in Workers : on[w] # x) =>
            \A a \in store : a.export # x

\* "PII must not linger in the staging area once zipped."
StagingCleared ==
    \A x \in Exports :
        status[x] \in {"ready", "expired"} /\ (\A w \in Workers : on[w] # x) =>
            staging[x] = {}

\* "Max once per 30 days."
OncePerCooldown ==
    \A x, y \in Exports :
        x # y /\ Exists(x) /\ Exists(y) /\ created[x] <= created[y] =>
            created[x] + Cooldown < created[y]

\* A worker died while it assembled x: the row stays ASSEMBLING, which no sweep selects.
Orphaned(x) == status[x] = "assembling" /\ \A w \in Workers : on[w] # x

\* sweep_deadlines: a collecting export past its 24 hour deadline is assembled with
\* what is there, whatever failed and however often a sweep died on another
\* row, unless a worker died in the middle of its assembly.
DeadlineAssembles ==
    \A x \in Exports : (status[x] = "processing" /\ deadline[x] <= now) ~>
        (status[x] \in {"ready", "expired"} \/ Orphaned(x))

\* sweep_pending_exports: "Assemble partial archives for export requests that have
\* exceeded their 24h deadline", those whose task was never queued included.
EveryLateExportAssembles ==
    \A x \in Exports : (status[x] \in Open /\ deadline[x] <= now) ~>
        (status[x] \in {"ready", "expired"} \/ Orphaned(x))
=============================================================================
