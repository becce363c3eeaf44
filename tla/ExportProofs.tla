----------------------------- MODULE ExportProofs -----------------------------
(***************************************************************************)
(* Proofs about the data export: an archive is assembled, announced and    *)
(* served at most once, it is there until its window closes, no slice of a *)
(* peer is destroyed before it was shipped, and, as long as nothing fails, *)
(* an archive that is not called partial is complete and an expired one is *)
(* gone. The last section shows that the export implements Delivery.       *)
(* Liveness stays with TLC.                                                *)
(***************************************************************************)
EXTENDS Export, TLAPS

(***************************************************************************)
(* Type correctness                                                        *)
(***************************************************************************)

\* A call past its entry knows its export, and a provider at work its section.
Located == {"publish", "enqueue", "mkdir", "provider", "wrote", "raised", "lock", "clean",
            "purge", "consume", "open", "drop", "forget", "expire", "expired"} \cup Building

CallsLocated ==
    \A w \in Workers : /\ pc[w] \in Located => on[w] \in Exports
                       /\ pc[w] \in {"wrote", "raised"} => cur[w] \in Services

ExportTypeInv == ExportTypeOK /\ CallsLocated

\* The disjuncts of the next-state relation, one by one.
OneStep(w) ==
    \/ RequestExport(w) \/ CreateExport(w) \/ PublishExportRequested(w) \/ EnqueueRun(w)
    \/ RequestFails(w) \/ (\E x \in Exports : RunExport(w, x)) \/ RunMkdir(w)
    \/ (\E s \in Services : RunSkip(w, s)) \/ (\E s \in Services : RunProvider(w, s))
    \/ RunPartSave(w) \/ RunProvidersDone(w)
    \/ (\E x \in Exports, s \in Services, p \in PeerPaths : MarkPartReady(w, x, s, p))
    \/ SweepDeadlines(w) \/ (\E x \in Exports : SweepNext(w, x)) \/ TryAssemble(w)
    \/ GaugeParts(w) \/ DownloadBucketParts(w) \/ JudgeMissing(w) \/ SaveArchive(w)
    \/ PublishReady(w) \/ AssemblyFails(w) \/ CleanStaging(w) \/ PurgeBucketParts(w)
    \/ (\E x \in Exports : Download(w, x)) \/ ConsumeDownloadToken(w) \/ OpenArchive(w)
    \/ DeleteArchive(w, "drop", "forget") \/ ForgetArchive(w)
    \/ (\E x \in Exports : PurgeExpired(w, x)) \/ DeleteArchive(w, "expire", "expired")
    \/ ExpireUpdate(w) \/ Crash(w)

LEMMA Steps ==
  ASSUME [Next]_vars
  PROVE  \/ \E w \in Workers : OneStep(w)
         \/ \E x \in Exports, s \in Services, p \in PeerPaths : PeerCompletes(x, s, p)
         \/ Tick
         \/ UNCHANGED vars
  BY DEF Next, OneStep, Step, RequestStep, RunStep, AssembleStep, ServeStep, Runs, Marks, Purges

LEMMA ExportTypeInit == Init => ExportTypeInv
  BY ExportAssumption
  DEF Init, ExportTypeInv, ExportTypeOK, CallsLocated, Located, Status, Open, Pc, Building

\* What every step of a call has to show about the call itself.
CallTyped ==
    /\ pc \in [Workers -> Pc] /\ on \in [Workers -> Exports \cup {NoExport}]
    /\ via \in [Workers -> {"none", "run", "mark", "sweep", "view", "purge"}]
    /\ CallsLocated

LocalsTyped ==
    /\ todo \in [Workers -> SUBSET Services]
    /\ cur \in [Workers -> Services \cup {NoService}]
    /\ due \in [Workers -> SUBSET Exports] /\ gap \in [Workers -> BOOLEAN]
    /\ lack \in [Workers -> SUBSET Services] /\ got \in [Workers -> SUBSET Services]
    /\ held \in [Workers -> Nat]

LEMMA LeaveTyped ==
  ASSUME ExportTypeInv, NEW w \in Workers, NEW rest \in SUBSET Exports, Leave(w, rest)
  PROVE  CallTyped' /\ LocalsTyped'
  BY DEF ExportTypeInv, ExportTypeOK, CallsLocated, Located, Building, Pc, Leave, CallTyped,
         LocalsTyped

LEMMA ReturnTyped ==
  ASSUME ExportTypeInv, NEW w \in Workers, Return(w) \/ Abandon(w)
  PROVE  CallTyped' /\ LocalsTyped'
  <1>1. due[w] \in SUBSET Exports
    BY DEF ExportTypeInv, ExportTypeOK
  <1> QED BY <1>1, LeaveTyped DEF Return, Abandon

LEMMA GotoTyped ==
  ASSUME ExportTypeInv, NEW w \in Workers, NEW p \in Pc, Goto(w, p),
         cur' = cur \/ p \notin {"wrote", "raised"},
         \A v \in Workers \ {w} : cur'[v] = cur[v],
         p \in Located => pc[w] \in Located,
         p \in {"wrote", "raised"} => cur'[w] \in Services
  PROVE  CallTyped'
  BY DEF ExportTypeInv, ExportTypeOK, CallsLocated, Goto, CallTyped

LEMMA EnterTyped ==
  ASSUME ExportTypeInv, NEW w \in Workers, NEW p \in Pc \ {"wrote", "raised"},
         NEW x \in Exports \cup {NoExport},
         NEW v \in {"none", "run", "mark", "sweep", "view", "purge"},
         Enter(w, p, x, v), p \in Located => x \in Exports, cur' = cur
  PROVE  CallTyped'
  BY DEF ExportTypeInv, ExportTypeOK, CallsLocated, Enter, CallTyped

LEMMA ExportTypeStep == ExportTypeInv /\ [Next]_vars => ExportTypeInv'
  <1> SUFFICES ASSUME ExportTypeInv, [Next]_vars PROVE ExportTypeInv'
    OBVIOUS
  <1> DEFINE RestTyped ==
        /\ status   \in [Exports -> Status]
        /\ created  \in [Exports -> Nat] /\ deadline \in [Exports -> Nat]
        /\ archive  \in [Exports -> Nat]
        /\ partial  \in [Exports -> BOOLEAN] /\ missing \in [Exports -> SUBSET Services]
        /\ token    \in [Exports -> BOOLEAN] /\ consumed \in [Exports -> BOOLEAN]
        /\ expires  \in [Exports -> Nat]
        /\ part     \in [Exports -> [Services -> {"absent", "pending", "done", "failed"}]]
        /\ path     \in [Exports -> [Services -> {"none", "key", "empty"}]]
        /\ bucket   \subseteq Exports \X Services
        /\ dir      \in [Exports -> BOOLEAN] /\ staging \in [Exports -> SUBSET Services]
        /\ store    \subseteq Archive /\ saved \in [Exports -> Nat]
        /\ queued   \in [Exports -> BOOLEAN] /\ attempts \in [Exports -> 0..MaxRetries]
        /\ sent     \subseteq Exports
        /\ inbox    \subseteq Exports \X Services \X PeerPaths
        /\ now \in Nat /\ failures \in 0..MaxFailures
        /\ minted   \in [Exports -> Nat] /\ served \in [Exports -> Nat]
        /\ shipped  \in [Exports -> SUBSET Services]
  <1>0. RestTyped /\ CallTyped /\ LocalsTyped
        /\ \A w \in Workers : /\ pc[w] \in Located => on[w] \in Exports
                              /\ pc[w] \in {"wrote", "raised"} => cur[w] \in Services
    BY DEF ExportTypeInv, ExportTypeOK, CallTyped, LocalsTyped, CallsLocated
  <1>q. RestTyped' /\ CallTyped' /\ LocalsTyped' => ExportTypeInv'
    BY DEF ExportTypeInv, ExportTypeOK, CallTyped, LocalsTyped
  <1>1. ASSUME NEW w \in Workers, RequestExport(w) PROVE ExportTypeInv'
    <2>1. RestTyped'
      BY <1>0, <1>1, ExportAssumption
      DEF RequestExport, Located, Building, row, files, world, history, job, call
    <2>2. CallTyped'
      BY <1>0, <1>1, EnterTyped DEF RequestExport, Enter, Located, Building, Pc, job
    <2>3. LocalsTyped'
      BY <1>0, <1>1 DEF RequestExport, LocalsTyped, job
    <2> QED BY <1>q, <2>1, <2>2, <2>3
  <1>2. ASSUME NEW w \in Workers, SweepDeadlines(w) PROVE ExportTypeInv'
    <2>1. RestTyped'
      BY <1>0, <1>2, ExportAssumption
      DEF SweepDeadlines, PastDeadline, Located, Building, row, files, world, history, job,
          call
    <2>2. CallTyped'
      BY <1>0, <1>2, EnterTyped DEF SweepDeadlines, Enter, Located, Building, Pc, job
    <2>3. LocalsTyped'
      BY <1>0, <1>2 DEF SweepDeadlines, PastDeadline, LocalsTyped, job
    <2> QED BY <1>q, <2>1, <2>2, <2>3
  <1>3. ASSUME NEW w \in Workers, CreateExport(w) PROVE ExportTypeInv'
    <2>1. RestTyped'
      BY <1>0, <1>3, ExportAssumption
      DEF CreateExport, Status, Open, Located, Building, row, files, world, history, job,
          call
    <2>2. CallTyped'
      BY <1>0, <1>3
      DEF CreateExport, Goto, Located, Building, Pc, CallTyped, LocalsTyped, CallsLocated,
          job
    <2>3. LocalsTyped'
      BY <1>0, <1>3 DEF CreateExport, LocalsTyped, job
    <2> QED BY <1>q, <2>1, <2>2, <2>3
  <1>4. ASSUME NEW w \in Workers, PublishExportRequested(w) PROVE ExportTypeInv'
    <2>1. RestTyped'
      BY <1>0, <1>4, ExportAssumption
      DEF PublishExportRequested, Located, Building, row, files, world, history, job, call
    <2>2. CallTyped'
      BY <1>0, <1>4, GotoTyped DEF PublishExportRequested, Located, Building, Pc, job
    <2>3. LocalsTyped'
      BY <1>0, <1>4 DEF PublishExportRequested, LocalsTyped, Located, Building, Pc, job
    <2> QED BY <1>q, <2>1, <2>2, <2>3
  <1>5. ASSUME NEW w \in Workers, EnqueueRun(w) PROVE ExportTypeInv'
    <2>1. RestTyped'
      BY <1>0, <1>5, ExportAssumption
      DEF EnqueueRun, Located, Building, row, files, world, history, job, call
    <2>2. CallTyped' /\ LocalsTyped'
      BY <1>0, <1>5, ReturnTyped DEF EnqueueRun
    <2> QED BY <1>q, <2>1, <2>2
  <1>6. ASSUME NEW w \in Workers, RequestFails(w) \/ Crash(w) PROVE ExportTypeInv'
    <2>1. RestTyped'
      BY <1>0, <1>6, ExportAssumption
      DEF RequestFails, Crash, Fails, Located, Building, row, files, world, history, job,
          call
    <2>2. CallTyped' /\ LocalsTyped'
      BY <1>0, <1>6, ReturnTyped DEF RequestFails, Crash
    <2> QED BY <1>q, <2>1, <2>2
  <1>7. ASSUME NEW w \in Workers, NEW x \in Exports, RunExport(w, x) PROVE ExportTypeInv'
    <2>1. RestTyped'
      BY <1>0, <1>7, ExportAssumption, ZenonT(40)
      DEF RunExport, Status, Open, Located, Building, row, files, world, history, job, call
    <2>2. CallTyped'
      <3>1. CASE status[x] \in Open
        <4>1. Enter(w, "mkdir", x, "run") /\ cur' = cur
          BY <1>7, <3>1 DEF RunExport, job
        <4> QED BY <4>1, EnterTyped DEF Pc
      <3>2. CASE status[x] \notin Open
        BY <1>0, <1>7, <3>2 DEF RunExport, CallTyped, CallsLocated, job
      <3> QED BY <3>1, <3>2
    <2>3. LocalsTyped'
      BY <1>0, <1>7 DEF RunExport, Status, Open, LocalsTyped, job
    <2> QED BY <1>q, <2>1, <2>2, <2>3
  <1>8. ASSUME NEW w \in Workers, RunMkdir(w) PROVE ExportTypeInv'
    <2>1. RestTyped'
      BY <1>0, <1>8, ExportAssumption
      DEF RunMkdir, Services, Located, Building, row, files, world, history, job, call
    <2>2. CallTyped'
      BY <1>0, <1>8, GotoTyped DEF RunMkdir, Located, Building, Pc, job
    <2>3. LocalsTyped'
      BY <1>0, <1>8 DEF RunMkdir, Services, LocalsTyped, Located, Building, Pc, job
    <2> QED BY <1>q, <2>1, <2>2, <2>3
  <1>9. ASSUME NEW w \in Workers, NEW s \in Services, RunSkip(w, s) PROVE ExportTypeInv'
    <2>1. RestTyped'
      BY <1>0, <1>9, ExportAssumption
      DEF RunSkip, Located, Building, row, files, world, history, job, call
    <2>2. CallTyped'
      BY <1>0, <1>9
      DEF RunSkip, Goto, Located, Building, Pc, CallTyped, LocalsTyped, CallsLocated, job
    <2>3. LocalsTyped'
      BY <1>0, <1>9 DEF RunSkip, LocalsTyped, job
    <2> QED BY <1>q, <2>1, <2>2, <2>3
  <1>10. ASSUME NEW w \in Workers, NEW s \in Services, RunProvider(w, s) PROVE ExportTypeInv'
    <2>0. /\ cur' = [cur EXCEPT ![w] = s] /\ on[w] \in Exports
          /\ (Goto(w, "wrote") \/ Goto(w, "raised")) /\ failures' \in 0..MaxFailures
          /\ staging' = staging \/ staging' = [staging EXCEPT ![on[w]] = @ \cup {s}]
      BY <1>0, <1>10, ExportAssumption DEF RunProvider, Fails, Located
    <2>1. RestTyped'
      <3>1. staging' \in [Exports -> SUBSET Services]
        <4>0. staging \in [Exports -> SUBSET Services] /\ on[w] \in Exports
          BY <1>0, <2>0
        <4>1. PICK X \in SUBSET Services : X = staging[on[w]] \cup {s}
          <5>1. \A q \in staging[on[w]] \cup {s} : q \in Services
            BY <4>0
          <5> QED BY <5>1
        <4>2. staging' = staging \/ staging' = [staging EXCEPT ![on[w]] = X]
          BY <2>0, <4>1
        <4> QED BY <4>0, <4>1, <4>2
      <3> QED BY <1>0, <1>10, <2>0, <3>1 DEF RunProvider, row, files, world, history
    <2>2. CallTyped'
      <3>1. /\ cur'[w] \in Services /\ \A v \in Workers \ {w} : cur'[v] = cur[v]
            /\ on' = on /\ via' = via
            /\ \E p \in {"wrote", "raised"} : pc' = [pc EXCEPT ![w] = p]
        BY <1>0, <2>0 DEF LocalsTyped, Goto
      <3> QED BY <1>0, <2>0, <3>1 DEF CallTyped, CallsLocated, Pc
    <2>3. LocalsTyped'
      BY <1>0, <1>10 DEF RunProvider, LocalsTyped
    <2> QED BY <1>q, <2>1, <2>2, <2>3
  <1>11. ASSUME NEW w \in Workers, RunPartSave(w) PROVE ExportTypeInv'
    <2>1. RestTyped'
      BY <1>0, <1>11, ExportAssumption
      DEF RunPartSave, Goto, Located, Building, row, files, world, history, job, call
    <2>2. CallTyped'
      BY <1>0, <1>11
      DEF RunPartSave, Goto, Located, Building, Pc, CallTyped, LocalsTyped, CallsLocated,
          job
    <2>3. LocalsTyped'
      BY <1>0, <1>11 DEF RunPartSave, LocalsTyped, job
    <2> QED BY <1>q, <2>1, <2>2, <2>3
  <1>12. ASSUME NEW w \in Workers, RunProvidersDone(w) PROVE ExportTypeInv'
    <2>1. RestTyped'
      BY <1>0, <1>12, ExportAssumption
      DEF RunProvidersDone, Located, Building, row, files, world, history, job, call
    <2>2. CallTyped'
      BY <1>0, <1>12, GotoTyped DEF RunProvidersDone, Located, Building, Pc, job
    <2>3. LocalsTyped'
      BY <1>0, <1>12 DEF RunProvidersDone, LocalsTyped, Located, Building, Pc, job
    <2> QED BY <1>q, <2>1, <2>2, <2>3
  <1>13. ASSUME NEW w \in Workers, NEW x \in Exports, NEW s \in Services, NEW p \in PeerPaths, MarkPartReady(w, x, s, p)
         PROVE  ExportTypeInv'
    <2>1. RestTyped'
      BY <1>0, <1>13, ExportAssumption
      DEF MarkPartReady, IsSafeBucketPath, Located, Building, row, files, world, history,
          job, call
    <2>2. CallTyped'
      BY <1>0, <1>13, EnterTyped DEF MarkPartReady, Enter, Located, Building, Pc, job
    <2>3. LocalsTyped'
      BY <1>0, <1>13 DEF MarkPartReady, IsSafeBucketPath, LocalsTyped, job
    <2> QED BY <1>q, <2>1, <2>2, <2>3
  <1>14. ASSUME NEW w \in Workers, NEW x \in Exports, SweepNext(w, x) PROVE ExportTypeInv'
    <2>1. RestTyped'
      BY <1>0, <1>14, ExportAssumption
      DEF SweepNext, Located, Building, row, files, world, history, job, call
    <2>2. CallTyped'
      BY <1>0, <1>14
      DEF SweepNext, Goto, Located, Building, Pc, CallTyped, LocalsTyped, CallsLocated, job
    <2>3. LocalsTyped'
      BY <1>0, <1>14 DEF SweepNext, LocalsTyped, job
    <2> QED BY <1>q, <2>1, <2>2, <2>3
  <1>15. ASSUME NEW w \in Workers, TryAssemble(w) PROVE ExportTypeInv'
    <2>1. RestTyped'
      BY <1>0, <1>15, ExportAssumption
      DEF TryAssemble, Status, Located, Building, row, files, world, history, job, call
    <2>2. CASE MayAssemble(w)
      <3>1. CallTyped'
        BY <1>0, <1>15, <2>2, GotoTyped DEF TryAssemble, Located, Building, Pc, job
      <3>2. LocalsTyped'
        BY <1>0, <1>15, <2>2 DEF TryAssemble, LocalsTyped, job
      <3> QED BY <1>q, <2>1, <3>1, <3>2
    <2>3. CASE ~MayAssemble(w)
      <3>1. CallTyped' /\ LocalsTyped'
        BY <1>0, <1>15, <2>3, ReturnTyped DEF TryAssemble
      <3> QED BY <1>q, <2>1, <3>1
    <2> QED BY <2>2, <2>3
  <1>16. ASSUME NEW w \in Workers, GaugeParts(w) PROVE ExportTypeInv'
    <2>1. RestTyped'
      BY <1>0, <1>16, ExportAssumption
      DEF GaugeParts, Located, Building, row, files, world, history, job, call
    <2>2. CallTyped'
      BY <1>0, <1>16, GotoTyped DEF GaugeParts, Located, Building, Pc, job
    <2>3. LocalsTyped'
      BY <1>0, <1>16 DEF GaugeParts, LocalsTyped, Located, Building, Pc, job
    <2> QED BY <1>q, <2>1, <2>2, <2>3
  <1>17. ASSUME NEW w \in Workers, DownloadBucketParts(w) PROVE ExportTypeInv'
    <2>1. RestTyped'
      BY <1>0, <1>17, ExportAssumption
      DEF DownloadBucketParts, Fails, Done, Located, Building, row, files, world, history,
          job, call
    <2>2. CallTyped'
      BY <1>0, <1>17, GotoTyped DEF DownloadBucketParts, Located, Building, Pc, job
    <2>3. LocalsTyped'
      BY <1>0, <1>17 DEF DownloadBucketParts, Fails, Done, LocalsTyped, Located, Building, Pc, job
    <2> QED BY <1>q, <2>1, <2>2, <2>3
  <1>18. ASSUME NEW w \in Workers, JudgeMissing(w) PROVE ExportTypeInv'
    <2>1. RestTyped'
      BY <1>0, <1>18, ExportAssumption
      DEF JudgeMissing, MissingServices, Expected, Services, Located, Building, row, files,
          world, history, job, call
    <2>2. CallTyped'
      BY <1>0, <1>18, GotoTyped DEF JudgeMissing, Located, Building, Pc, job
    <2>3. LocalsTyped'
      BY <1>0, <1>18
      DEF JudgeMissing, MissingServices, Expected, Services, LocalsTyped, Located, Building,
          Pc, job
    <2> QED BY <1>q, <2>1, <2>2, <2>3
  <1>19. ASSUME NEW w \in Workers, SaveArchive(w) PROVE ExportTypeInv'
    <2>1. RestTyped'
      BY <1>0, <1>19, ExportAssumption
      DEF SaveArchive, ZipContents, Archive, Located, Building, row, files, world, history,
          job, call
    <2>2. CallTyped'
      BY <1>0, <1>19, GotoTyped DEF SaveArchive, Located, Building, Pc, job
    <2>3. LocalsTyped'
      BY <1>0, <1>19
      DEF SaveArchive, ZipContents, Archive, LocalsTyped, Located, Building, Pc, job
    <2> QED BY <1>q, <2>1, <2>2, <2>3
  <1>20. ASSUME NEW w \in Workers, PublishReady(w) PROVE ExportTypeInv'
    <2>0. PICK h \in Nat, g \in BOOLEAN, k \in SUBSET Services :
             h = held[w] /\ g = gap[w] /\ k = lack[w]
      BY <1>0 DEF LocalsTyped
    <2>1. RestTyped'
      <3>1. /\ UNION {a.has : a \in {b \in store : b.export = on[w] /\ b.n = h}} \in SUBSET Services
            /\ on[w] \in Exports
        BY <1>0, <1>20 DEF Archive, PublishReady, Located, Building
      <3>2. shipped' \in [Exports -> SUBSET Services]
        BY <1>0, <1>20, <2>0, <3>1 DEF PublishReady
      <3>3. /\ status' \in [Exports -> Status] /\ archive' \in [Exports -> Nat]
            /\ partial' \in [Exports -> BOOLEAN] /\ missing' \in [Exports -> SUBSET Services]
            /\ token' \in [Exports -> BOOLEAN] /\ consumed' \in [Exports -> BOOLEAN]
            /\ expires' \in [Exports -> Nat] /\ minted' \in [Exports -> Nat]
        BY <1>0, <1>20, <2>0, <3>1, ExportAssumption DEF PublishReady, Status
      <3> QED BY <1>0, <1>20, <3>2, <3>3 DEF PublishReady, files, world, history
    <2>2. CallTyped'
      BY <1>0, <1>20, GotoTyped DEF PublishReady, Located, Building, Pc, job
    <2>3. LocalsTyped'
      BY <1>0, <1>20 DEF PublishReady, Archive, Status, LocalsTyped, Located, Building, Pc, job
    <2> QED BY <1>q, <2>1, <2>2, <2>3
  <1>21. ASSUME NEW w \in Workers, AssemblyFails(w) PROVE ExportTypeInv'
    <2>1. RestTyped'
      BY <1>0, <1>21, ExportAssumption
      DEF AssemblyFails, Fails, Status, Open, Located, Building, row, files, world, history,
          job, call
    <2>2. CallTyped' /\ LocalsTyped'
      BY <1>0, <1>21, ReturnTyped DEF AssemblyFails
    <2> QED BY <1>q, <2>1, <2>2
  <1>22. ASSUME NEW w \in Workers, CleanStaging(w) PROVE ExportTypeInv'
    <2>1. RestTyped'
      BY <1>0, <1>22, ExportAssumption
      DEF CleanStaging, Located, Building, row, files, world, history, job, call
    <2>2. CallTyped'
      BY <1>0, <1>22, GotoTyped DEF CleanStaging, Located, Building, Pc, job
    <2>3. LocalsTyped'
      BY <1>0, <1>22 DEF CleanStaging, LocalsTyped, Located, Building, Pc, job
    <2> QED BY <1>q, <2>1, <2>2, <2>3
  <1>23. ASSUME NEW w \in Workers, PurgeBucketParts(w) PROVE ExportTypeInv'
    <2>1. RestTyped'
      BY <1>0, <1>23, ExportAssumption
      DEF PurgeBucketParts, Fails, Located, Building, row, files, world, history, job, call
    <2>2. CallTyped' /\ LocalsTyped'
      BY <1>0, <1>23, ReturnTyped DEF PurgeBucketParts
    <2> QED BY <1>q, <2>1, <2>2
  <1>24. ASSUME NEW w \in Workers, NEW x \in Exports, Download(w, x) PROVE ExportTypeInv'
    <2>1. RestTyped'
      BY <1>0, <1>24, ExportAssumption
      DEF Download, Located, Building, row, files, world, history, job, call
    <2>2. CallTyped'
      <3>1. PICK p \in {"expire", "consume"} : Enter(w, p, x, "view") /\ cur' = cur
        BY <1>24 DEF Download
      <3> QED BY <3>1, EnterTyped DEF Pc
    <2>3. LocalsTyped'
      BY <1>0, <1>24 DEF Download, LocalsTyped, job
    <2> QED BY <1>q, <2>1, <2>2, <2>3
  <1>25. ASSUME NEW w \in Workers, NEW x \in Exports, PurgeExpired(w, x) PROVE ExportTypeInv'
    <2>1. RestTyped'
      BY <1>0, <1>25, ExportAssumption
      DEF PurgeExpired, Located, Building, row, files, world, history, job, call
    <2>2. CallTyped'
      BY <1>0, <1>25, EnterTyped DEF PurgeExpired, Enter, Located, Building, Pc, job
    <2>3. LocalsTyped'
      BY <1>0, <1>25 DEF PurgeExpired, LocalsTyped, job
    <2> QED BY <1>q, <2>1, <2>2, <2>3
  <1>26. ASSUME NEW w \in Workers, ConsumeDownloadToken(w) PROVE ExportTypeInv'
    <2>1. RestTyped'
      BY <1>0, <1>26, ExportAssumption
      DEF ConsumeDownloadToken, Located, Building, row, files, world, history, job, call
    <2>2. CASE Unspent(on[w])
      <3>1. CallTyped'
        BY <1>0, <1>26, <2>2, GotoTyped DEF ConsumeDownloadToken, Located, Building, Pc, job
      <3>2. LocalsTyped'
        BY <1>0, <1>26, <2>2 DEF ConsumeDownloadToken, LocalsTyped, job
      <3> QED BY <1>q, <2>1, <3>1, <3>2
    <2>3. CASE ~Unspent(on[w])
      <3>1. CallTyped' /\ LocalsTyped'
        BY <1>0, <1>26, <2>3, ReturnTyped DEF ConsumeDownloadToken
      <3> QED BY <1>q, <2>1, <3>1
    <2> QED BY <2>2, <2>3
  <1>27. ASSUME NEW w \in Workers, OpenArchive(w) PROVE ExportTypeInv'
    <2>0. served' \in [Exports -> Nat]
      <3>1. \/ served' = served
            \/ served' = [served EXCEPT ![on[w]] = @ + 1]
        BY <1>27 DEF OpenArchive
      <3>2. served \in [Exports -> Nat]
        BY <1>0
      <3> QED BY <3>1, <3>2
    <2>1. RestTyped'
      <3>1. UNCHANGED <<row, part, path, files, queued, attempts, world, failures, minted, shipped>>
        BY <1>27 DEF OpenArchive
      <3> QED BY <1>0, <2>0, <3>1 DEF row, files, world
    <2>2. CASE Stored(on[w], held[w])
      <3>1. CallTyped'
        BY <1>0, <1>27, <2>2, GotoTyped DEF OpenArchive, Located, Building, Pc, job
      <3>2. LocalsTyped'
        BY <1>0, <1>27, <2>2 DEF OpenArchive, LocalsTyped, job
      <3> QED BY <1>q, <2>1, <3>1, <3>2
    <2>3. CASE ~Stored(on[w], held[w])
      <3>1. CallTyped' /\ LocalsTyped'
        BY <1>0, <1>27, <2>3, ReturnTyped DEF OpenArchive
      <3> QED BY <1>q, <2>1, <3>1
    <2> QED BY <2>2, <2>3
  <1>28. ASSUME NEW w \in Workers, DeleteArchive(w, "drop", "forget") \/ DeleteArchive(w, "expire", "expired")
         PROVE  ExportTypeInv'
    <2>1. RestTyped'
      BY <1>0, <1>28, ExportAssumption
      DEF DeleteArchive, Fails, Located, Building, row, files, world, history, job, call
    <2>2. CallTyped'
      BY <1>0, <1>28, GotoTyped DEF DeleteArchive, Located, Building, Pc, job
    <2>3. LocalsTyped'
      BY <1>0, <1>28 DEF DeleteArchive, Fails, LocalsTyped, Located, Building, Pc, job
    <2> QED BY <1>q, <2>1, <2>2, <2>3
  <1>29. ASSUME NEW w \in Workers, ForgetArchive(w) PROVE ExportTypeInv'
    <2>1. RestTyped'
      BY <1>0, <1>29, ExportAssumption
      DEF ForgetArchive, Located, Building, row, files, world, history, job, call
    <2>2. CallTyped' /\ LocalsTyped'
      BY <1>0, <1>29, ReturnTyped DEF ForgetArchive
    <2> QED BY <1>q, <2>1, <2>2
  <1>30. ASSUME NEW w \in Workers, ExpireUpdate(w) PROVE ExportTypeInv'
    <2>1. RestTyped'
      BY <1>0, <1>30, ExportAssumption
      DEF ExpireUpdate, Status, Located, Building, row, files, world, history, job, call
    <2>2. CallTyped' /\ LocalsTyped'
      BY <1>0, <1>30, ReturnTyped DEF ExpireUpdate
    <2> QED BY <1>q, <2>1, <2>2
  <1>31. ASSUME NEW x \in Exports, NEW s \in Services, NEW p \in PeerPaths, PeerCompletes(x, s, p)
         PROVE  ExportTypeInv'
    BY <1>31
    DEF PeerCompletes, ExportTypeInv, ExportTypeOK, CallsLocated, row, files, world, history,
        job, call
  <1>32. ASSUME Tick \/ UNCHANGED vars PROVE ExportTypeInv'
    BY <1>32
    DEF Tick, vars, ExportTypeInv, ExportTypeOK, CallsLocated, row, files, world, history,
        job, call
  <1> QED
    BY <1>1, <1>2, <1>3, <1>4, <1>5, <1>6, <1>7, <1>8, <1>9, <1>10, <1>11, <1>12, <1>13,
       <1>14, <1>15, <1>16, <1>17, <1>18, <1>19, <1>20, <1>21, <1>22, <1>23, <1>24, <1>25,
       <1>26, <1>27, <1>28, <1>29, <1>30, <1>31, <1>32, Steps
    DEF OneStep

\* Every field of the rows, the stores and the calls stays in its type.
THEOREM ExportTypes == Spec => []ExportTypeOK
  <1>1. ExportTypeInv => ExportTypeOK
    BY DEF ExportTypeInv
  <1> QED BY <1>1, ExportTypeInit, ExportTypeStep, PTL DEF Spec

(***************************************************************************)
(* What a step may do to an export and to a call                           *)
(***************************************************************************)

\* The fields of an export that say how far it got, and the ways they change.
Kept(x)      == /\ minted'[x] = minted[x] /\ shipped'[x] = shipped[x]
                /\ partial'[x] = partial[x] /\ expires'[x] = expires[x]
KeptToken(x) == token'[x] = token[x] /\ consumed'[x] = consumed[x] /\ served'[x] = served[x]
KeptRow(x)   == status'[x] = status[x] /\ archive'[x] = archive[x]

Collects(x) == /\ Kept(x) /\ KeptToken(x) /\ archive'[x] = archive[x]
               /\ \/ /\ status[x] = "absent" /\ status'[x] = "pending"
                     /\ \A s \in Services : part'[x][s] = "pending"
                  \/ status[x] \in Open /\ status'[x] = "processing"
                  \/ status[x] \in Open /\ status'[x] = "assembling"

GivesUp(w, x) == /\ pc[w] \in {"zip", "ready"} /\ on[w] = x /\ pc'[w] = "idle" /\ failures' # 0
                 /\ Kept(x) /\ KeptToken(x) /\ archive'[x] = archive[x]
                 /\ status'[x] = "processing"

Publishes(w, x) == /\ pc[w] = "ready" /\ on[w] = x /\ pc'[w] = "clean"
                   /\ status'[x] = "ready" /\ archive'[x] = held[w] /\ partial'[x] = gap[w]
                   /\ token'[x] /\ ~consumed'[x] /\ served'[x] = served[x]
                   /\ expires'[x] = now + Ttl /\ minted'[x] = minted[x] + 1
                   /\ shipped'[x] = UNION {a.has : a \in {b \in store : b.export = x /\ b.n = held[w]}}

Spends(w, x) == /\ pc[w] = "consume" /\ on[w] = x /\ pc'[w] = "open" /\ token[x] /\ ~consumed[x]
                /\ Kept(x) /\ KeptRow(x) /\ consumed'[x] /\ token'[x] = token[x]
                /\ served'[x] = served[x]

Serves(w, x) == /\ pc[w] = "open" /\ on[w] = x /\ pc'[w] = "drop"
                /\ Kept(x) /\ KeptRow(x) /\ served'[x] = served[x] + 1
                /\ token'[x] = token[x] /\ consumed'[x] = consumed[x]

Forgets(w, x) == /\ pc[w] = "forget" /\ on[w] = x
                 /\ Kept(x) /\ KeptToken(x) /\ status'[x] = status[x] /\ archive'[x] = 0

Expires(w, x) == /\ pc[w] = "expired" /\ on[w] = x
                 /\ Kept(x) /\ consumed'[x] = consumed[x] /\ served'[x] = served[x]
                 /\ status'[x] = "expired" /\ archive'[x] = 0 /\ ~token'[x]

RowStep(x) ==
    \/ Kept(x) /\ KeptToken(x) /\ KeptRow(x)
    \/ Collects(x)
    \/ \E w \in Workers : \/ GivesUp(w, x) \/ Publishes(w, x) \/ Spends(w, x) \/ Serves(w, x)
                          \/ Forgets(w, x) \/ Expires(w, x)

LEMMA RowSteps ==
  ASSUME ExportTypeInv, [Next]_vars, NEW x \in Exports
  PROVE  RowStep(x)
  <1>0. /\ ExportTypeOK
        /\ status \in [Exports -> Status] /\ archive \in [Exports -> Nat]
        /\ partial \in [Exports -> BOOLEAN] /\ token \in [Exports -> BOOLEAN]
        /\ consumed \in [Exports -> BOOLEAN] /\ expires \in [Exports -> Nat]
        /\ minted \in [Exports -> Nat] /\ served \in [Exports -> Nat]
        /\ shipped \in [Exports -> SUBSET Services] /\ pc \in [Workers -> Pc]
        /\ failures \in Nat
        /\ part \in [Exports -> [Services -> {"absent", "pending", "done", "failed"}]]
    BY ExportAssumption DEF ExportTypeInv, ExportTypeOK
  <1>1. ASSUME UNCHANGED <<row, history>> PROVE RowStep(x)
    BY <1>1 DEF RowStep, Kept, KeptToken, KeptRow, row, history
  <1>2. ASSUME NEW w \in Workers, CreateExport(w) PROVE RowStep(x)
    BY <1>0, <1>2 DEF CreateExport, RowStep, Collects, Kept, KeptToken, KeptRow, Exists, history
  <1>3. ASSUME NEW w \in Workers, NEW y \in Exports, RunExport(w, y) PROVE RowStep(x)
    BY <1>0, <1>3 DEF RunExport, RowStep, Collects, Kept, KeptToken, KeptRow, history
  <1>4. ASSUME NEW w \in Workers, TryAssemble(w) PROVE RowStep(x)
    BY <1>0, <1>4
    DEF TryAssemble, MayAssemble, RowStep, Collects, Kept, KeptToken, KeptRow, history
  <1>5. ASSUME NEW w \in Workers, PublishReady(w) PROVE RowStep(x)
    <2>1. CASE on[w] # x
      BY <1>0, <1>5, <2>1 DEF PublishReady, RowStep, Kept, KeptToken, KeptRow
    <2>2. CASE on[w] = x
      <3>1. Publishes(w, x)
        BY <1>0, <1>5, <2>2 DEF PublishReady, Publishes, Goto
      <3> QED BY <3>1 DEF RowStep
    <2> QED BY <2>1, <2>2
  <1>6. ASSUME NEW w \in Workers, AssemblyFails(w) PROVE RowStep(x)
    <2>1. CASE on[w] # x
      BY <1>0, <1>6, <2>1 DEF AssemblyFails, RowStep, Kept, KeptToken, KeptRow, history
    <2>2. CASE on[w] = x
      <3>1. GivesUp(w, x)
        BY <1>0, <1>6, <2>2
        DEF AssemblyFails, Fails, Abandon, Leave, GivesUp, Kept, KeptToken, history
      <3> QED BY <3>1 DEF RowStep
    <2> QED BY <2>1, <2>2
  <1>7. ASSUME NEW w \in Workers, ConsumeDownloadToken(w) PROVE RowStep(x)
    <2>1. CASE on[w] # x \/ ~Unspent(on[w])
      BY <1>0, <1>7, <2>1 DEF ConsumeDownloadToken, RowStep, Kept, KeptToken, KeptRow, history
    <2>2. CASE on[w] = x /\ Unspent(on[w])
      <3>1. Spends(w, x)
        BY <1>0, <1>7, <2>2
        DEF ConsumeDownloadToken, Unspent, Goto, Spends, Kept, KeptRow, history
      <3> QED BY <3>1 DEF RowStep
    <2> QED BY <2>1, <2>2
  <1>8. ASSUME NEW w \in Workers, OpenArchive(w) PROVE RowStep(x)
    <2>1. CASE on[w] # x \/ ~Stored(on[w], held[w])
      BY <1>0, <1>8, <2>1 DEF OpenArchive, RowStep, Kept, KeptToken, KeptRow, row
    <2>2. CASE on[w] = x /\ Stored(on[w], held[w])
      <3>1. Serves(w, x)
        BY <1>0, <1>8, <2>2 DEF OpenArchive, Goto, Serves, Kept, KeptRow, row
      <3> QED BY <3>1 DEF RowStep
    <2> QED BY <2>1, <2>2
  <1>9. ASSUME NEW w \in Workers, ForgetArchive(w) PROVE RowStep(x)
    <2>1. CASE on[w] # x
      BY <1>0, <1>9, <2>1 DEF ForgetArchive, RowStep, Kept, KeptToken, KeptRow, history
    <2>2. CASE on[w] = x
      <3>1. Forgets(w, x)
        BY <1>0, <1>9, <2>2 DEF ForgetArchive, Forgets, Kept, KeptToken, history
      <3> QED BY <3>1 DEF RowStep
    <2> QED BY <2>1, <2>2
  <1>10. ASSUME NEW w \in Workers, ExpireUpdate(w) PROVE RowStep(x)
    <2>1. CASE on[w] # x
      BY <1>0, <1>10, <2>1 DEF ExpireUpdate, RowStep, Kept, KeptToken, KeptRow, history
    <2>2. CASE on[w] = x
      <3>1. Expires(w, x)
        BY <1>0, <1>10, <2>2 DEF ExpireUpdate, Expires, Kept, history
      <3> QED BY <3>1 DEF RowStep
    <2> QED BY <2>1, <2>2
  <1>11. ASSUME NEW w \in Workers,
                \/ RequestExport(w) \/ PublishExportRequested(w) \/ EnqueueRun(w)
                \/ RequestFails(w) \/ RunMkdir(w) \/ RunPartSave(w) \/ RunProvidersDone(w)
                \/ (\E s \in Services : RunSkip(w, s) \/ RunProvider(w, s))
         PROVE  UNCHANGED <<row, history>>
    BY <1>11 DEF RequestExport, PublishExportRequested, EnqueueRun, RequestFails, RunMkdir,
                 RunPartSave, RunProvidersDone, RunSkip, RunProvider
  <1>12. ASSUME NEW w \in Workers,
                \/ (\E y \in Exports, s \in Services, p \in PeerPaths : MarkPartReady(w, y, s, p))
                \/ SweepDeadlines(w) \/ GaugeParts(w) \/ DownloadBucketParts(w)
                \/ (\E y \in Exports : SweepNext(w, y) \/ Download(w, y) \/ PurgeExpired(w, y))
         PROVE  UNCHANGED <<row, history>>
    BY <1>12 DEF MarkPartReady, SweepDeadlines, SweepNext, GaugeParts, DownloadBucketParts,
                 Download, PurgeExpired
  <1>13. ASSUME NEW w \in Workers,
                \/ JudgeMissing(w) \/ SaveArchive(w) \/ CleanStaging(w) \/ PurgeBucketParts(w)
                \/ DeleteArchive(w, "drop", "forget") \/ DeleteArchive(w, "expire", "expired")
                \/ Crash(w)
         PROVE  UNCHANGED <<row, history>>
    BY <1>13 DEF JudgeMissing, SaveArchive, CleanStaging, PurgeBucketParts, DeleteArchive, Crash
  <1>14. ASSUME \/ \E y \in Exports, s \in Services, p \in PeerPaths : PeerCompletes(y, s, p)
                \/ Tick \/ UNCHANGED vars
         PROVE  UNCHANGED <<row, history>>
    BY <1>14 DEF PeerCompletes, Tick, vars
  <1> QED
    BY <1>1, <1>2, <1>3, <1>4, <1>5, <1>6, <1>7, <1>8, <1>9, <1>10, <1>11, <1>12, <1>13, <1>14,
       Steps
    DEF OneStep

\* A call moves by its own steps only.
Stays(v) == /\ pc'[v] = pc[v] /\ on'[v] = on[v] /\ cur'[v] = cur[v] /\ gap'[v] = gap[v]
            /\ got'[v] = got[v] /\ held'[v] = held[v]

LEMMA OwnCalls ==
  ASSUME ExportTypeInv, [Next]_vars
  PROVE  \/ \A v \in Workers : Stays(v)
         \/ \E w \in Workers : OneStep(w) /\ \A v \in Workers \ {w} : Stays(v)
  <1>0. /\ pc \in [Workers -> Pc] /\ on \in [Workers -> Exports \cup {NoExport}]
        /\ cur \in [Workers -> Services \cup {NoService}] /\ gap \in [Workers -> BOOLEAN]
        /\ got \in [Workers -> SUBSET Services] /\ held \in [Workers -> Nat]
    BY DEF ExportTypeInv, ExportTypeOK
  <1>1. ASSUME NEW w \in Workers, OneStep(w), NEW v \in Workers, v # w PROVE Stays(v)
    <2>1. ASSUME NEW rest, Leave(w, rest) PROVE Stays(v)
      BY <1>0, <1>1, <2>1 DEF Leave, Stays
    <2>2. ASSUME NEW p, Goto(w, p), UNCHANGED job PROVE Stays(v)
      BY <1>0, <1>1, <2>2 DEF Goto, Stays, job
    <2>3. ASSUME NEW p, NEW x, NEW u, Enter(w, p, x, u), cur' = cur, gap' = gap, got' = got,
                 held' = held \/ held' = [held EXCEPT ![w] = archive[x]]
          PROVE  Stays(v)
      BY <1>0, <1>1, <2>3 DEF Enter, Stays
    <2>4. ASSUME \/ EnqueueRun(w) \/ RequestFails(w) \/ AssemblyFails(w) \/ PurgeBucketParts(w)
                 \/ ForgetArchive(w) \/ ExpireUpdate(w) \/ Crash(w)
          PROVE  Stays(v)
      BY <2>1, <2>4 DEF EnqueueRun, RequestFails, AssemblyFails, PurgeBucketParts, ForgetArchive,
                        ExpireUpdate, Crash, Return, Abandon
    <2>5. ASSUME \/ PublishExportRequested(w) \/ RunProvidersDone(w) \/ PublishReady(w)
                 \/ CleanStaging(w) \/ DeleteArchive(w, "drop", "forget")
                 \/ DeleteArchive(w, "expire", "expired")
          PROVE  Stays(v)
      BY <2>2, <2>5 DEF PublishExportRequested, RunProvidersDone, PublishReady, CleanStaging,
                        DeleteArchive
    <2>6. ASSUME TryAssemble(w) \/ ConsumeDownloadToken(w) \/ OpenArchive(w) PROVE Stays(v)
      BY <2>1, <2>2, <2>6 DEF TryAssemble, ConsumeDownloadToken, OpenArchive, Return
    <2>7. ASSUME RequestExport(w) \/ SweepDeadlines(w) PROVE Stays(v)
      BY <2>3, <2>7 DEF RequestExport, SweepDeadlines, job
    <2>8. ASSUME NEW x \in Exports, Download(w, x) \/ PurgeExpired(w, x) PROVE Stays(v)
      BY <2>3, <2>8 DEF Download, PurgeExpired
    <2>9. ASSUME NEW x \in Exports, RunExport(w, x) PROVE Stays(v)
      BY <1>0, <1>1, <2>9 DEF RunExport, Enter, Stays, job
    <2>10. ASSUME NEW x \in Exports, SweepNext(w, x) PROVE Stays(v)
      BY <1>0, <1>1, <2>10 DEF SweepNext, Stays
    <2>11. ASSUME NEW x \in Exports, NEW s \in Services, NEW p \in PeerPaths,
                  MarkPartReady(w, x, s, p)
           PROVE  Stays(v)
      BY <2>3, <2>11 DEF MarkPartReady, job
    <2>12. ASSUME CreateExport(w) PROVE Stays(v)
      BY <1>0, <1>1, <2>12 DEF CreateExport, Stays, job
    <2>13. ASSUME NEW s \in Services, RunSkip(w, s) \/ RunProvider(w, s) PROVE Stays(v)
      BY <1>0, <1>1, <2>13 DEF RunSkip, RunProvider, Goto, Stays
    <2>14. ASSUME RunMkdir(w) \/ RunPartSave(w) \/ GaugeParts(w) PROVE Stays(v)
      BY <1>0, <1>1, <2>14 DEF RunMkdir, RunPartSave, GaugeParts, Goto, Stays
    <2>15. ASSUME DownloadBucketParts(w) PROVE Stays(v)
      BY <1>0, <1>1, <2>15 DEF DownloadBucketParts, Goto, Stays
    <2>16. ASSUME JudgeMissing(w) \/ SaveArchive(w) PROVE Stays(v)
      BY <1>0, <1>1, <2>16 DEF JudgeMissing, SaveArchive, Goto, Stays
    <2> QED
      BY <1>1, <2>4, <2>5, <2>6, <2>7, <2>8, <2>9, <2>10, <2>11, <2>12, <2>13, <2>14, <2>15, <2>16
      DEF OneStep
  <1>2. ASSUME \/ \E x \in Exports, s \in Services, p \in PeerPaths : PeerCompletes(x, s, p)
               \/ Tick \/ UNCHANGED vars
        PROVE  \A v \in Workers : Stays(v)
    BY <1>2 DEF PeerCompletes, Tick, vars, call, job, Stays
  <1> QED BY <1>1, <1>2, Steps

\* No step of a call takes time.
LEMMA NoTime ==
  ASSUME NEW w \in Workers, OneStep(w)
  PROVE  now' = now
  <1>1. ASSUME \/ RequestExport(w) \/ CreateExport(w) \/ PublishExportRequested(w)
               \/ EnqueueRun(w) \/ RequestFails(w) \/ (\E x \in Exports : RunExport(w, x))
               \/ RunMkdir(w) \/ (\E s \in Services : RunSkip(w, s) \/ RunProvider(w, s))
               \/ RunPartSave(w) \/ RunProvidersDone(w)
               \/ (\E x \in Exports, s \in Services, p \in PeerPaths : MarkPartReady(w, x, s, p))
               \/ SweepDeadlines(w) \/ (\E x \in Exports : SweepNext(w, x)) \/ TryAssemble(w)
        PROVE  now' = now
    BY <1>1 DEF RequestExport, CreateExport, PublishExportRequested, EnqueueRun, RequestFails,
                RunExport, RunMkdir, RunSkip, RunProvider, RunPartSave, RunProvidersDone,
                MarkPartReady, SweepDeadlines, SweepNext, TryAssemble, world
  <1>2. ASSUME \/ GaugeParts(w) \/ DownloadBucketParts(w) \/ JudgeMissing(w) \/ SaveArchive(w)
               \/ PublishReady(w) \/ AssemblyFails(w) \/ CleanStaging(w) \/ PurgeBucketParts(w)
               \/ (\E x \in Exports : Download(w, x) \/ PurgeExpired(w, x))
               \/ ConsumeDownloadToken(w) \/ OpenArchive(w)
               \/ DeleteArchive(w, "drop", "forget") \/ ForgetArchive(w)
               \/ DeleteArchive(w, "expire", "expired") \/ ExpireUpdate(w) \/ Crash(w)
        PROVE  now' = now
    BY <1>2 DEF GaugeParts, DownloadBucketParts, JudgeMissing, SaveArchive, PublishReady,
                AssemblyFails, CleanStaging, PurgeBucketParts, Download, PurgeExpired,
                ConsumeDownloadToken, OpenArchive, DeleteArchive, ForgetArchive, ExpireUpdate,
                Crash, world
  <1> QED BY <1>1, <1>2 DEF OneStep

LEMMA ClockForward ==
  ASSUME ExportTypeInv, [Next]_vars
  PROVE  now <= now' /\ now' \in Nat
  <1>1. now \in Nat /\ now' \in Nat
    BY ExportTypeStep DEF ExportTypeInv, ExportTypeOK
  <1>2. ASSUME \/ \E x \in Exports, s \in Services, p \in PeerPaths : PeerCompletes(x, s, p)
               \/ Tick \/ UNCHANGED vars
        PROVE  now <= now'
    BY <1>1, <1>2 DEF PeerCompletes, Tick, vars, world
  <1> QED BY <1>1, <1>2, NoTime, Steps

(***************************************************************************)
(* Assembled once, served once                                             *)
(***************************************************************************)

\* The calls that work on an announced export.
After == {"clean", "purge", "consume", "open", "drop", "forget", "expire", "expired"}

\* An export is announced when it leaves ASSEMBLING, and never goes back; what
\* was served was spent before.
RowLife(x) ==
    /\ minted[x] <= 1
    /\ minted[x] = 0 => /\ shipped[x] = {} /\ ~consumed[x] /\ served[x] = 0
                        /\ status[x] \notin {"ready", "expired"}
    /\ minted[x] > 0 => status[x] \in {"ready", "expired"}
    /\ served[x] <= 1 /\ (served[x] > 0 => consumed[x])
    /\ status[x] = "ready" <=> token[x]

CallLife(v) ==
    /\ pc[v] \in Building => status[on[v]] = "assembling"
    /\ pc[v] \in After => minted[on[v]] > 0
    /\ pc[v] \in {"open", "drop", "forget"} => consumed[on[v]]
    /\ pc[v] = "open" => served[on[v]] = 0
    /\ pc[v] \in {"expire", "expired"} => consumed[on[v]] \/ expires[on[v]] <= now

\* One assembler of an export, and one call that spent its token.
Alone ==
    \A v, w \in Workers : v # w /\ on[v] = on[w] =>
        /\ ~(pc[v] \in Building /\ pc[w] \in Building)
        /\ ~(pc[v] = "open" /\ pc[w] = "open")

LifeInv ==
    /\ ExportTypeInv /\ Alone
    /\ \A x \in Exports : RowLife(x)
    /\ \A v \in Workers : CallLife(v)

LEMMA LifeInit == Init => LifeInv
  <1> SUFFICES ASSUME Init PROVE LifeInv
    OBVIOUS
  <1>1. ExportTypeInv
    BY ExportTypeInit
  <1>2. Alone /\ \A v \in Workers : CallLife(v)
    BY DEF Init, Alone, CallLife, After, Building
  <1>3. \A x \in Exports : RowLife(x)
    BY DEF Init, RowLife
  <1> QED BY <1>1, <1>2, <1>3 DEF LifeInv

\* Where a step of its own can bring a call that assembles or serves.
OwnMove(v) ==
    \/ pc'[v] \notin Building \cup After
    \/ Stays(v)
    \/ /\ on'[v] = on[v] /\ UNCHANGED <<row, history>>
       /\ \/ pc[v] \in Building /\ pc'[v] \in Building
          \/ pc[v] = "clean" /\ pc'[v] = "purge"
          \/ pc[v] = "drop" /\ pc'[v] = "forget"
          \/ pc[v] = "expire" /\ pc'[v] = "expired"
    \/ /\ on'[v] = on[v] /\ pc[v] = "lock" /\ pc'[v] = "gauge"
       /\ status[on[v]] \in Open /\ status'[on[v]] = "assembling"
    \/ on'[v] = on[v] /\ (Publishes(v, on[v]) \/ Spends(v, on[v]) \/ Serves(v, on[v]))
    \/ /\ on'[v] \in Exports /\ UNCHANGED <<row, history, now>>
       /\ \/ pc'[v] = "consume" /\ status[on'[v]] = "ready"
          \/ /\ pc'[v] = "expire"
             /\ status[on'[v]] = "ready" \/ minted[on'[v]] > 0 \/ consumed[on'[v]]
             /\ consumed[on'[v]] \/ expires[on'[v]] <= now

LEMMA OwnMoves ==
  ASSUME ExportTypeInv, NEW v \in Workers, OneStep(v)
  PROVE  OwnMove(v)
  <1>0. /\ pc \in [Workers -> Pc] /\ on \in [Workers -> Exports \cup {NoExport}]
        /\ pc[v] \in Located => on[v] \in Exports
        /\ now \in Nat /\ expires \in [Exports -> Nat] /\ minted \in [Exports -> Nat]
        /\ held \in [Workers -> Nat] /\ status \in [Exports -> Status]
        /\ consumed \in [Exports -> BOOLEAN] /\ served \in [Exports -> Nat]
        /\ shipped \in [Exports -> SUBSET Services]
        /\ archive \in [Exports -> Nat] /\ partial \in [Exports -> BOOLEAN]
        /\ token \in [Exports -> BOOLEAN]
    BY DEF ExportTypeInv, ExportTypeOK, CallsLocated
  <1>1. ASSUME Return(v) \/ Abandon(v) PROVE pc'[v] \notin Building \cup After
    BY <1>0, <1>1 DEF Return, Abandon, Leave, Building, After
  <1>2. CASE \/ EnqueueRun(v) \/ RequestFails(v) \/ AssemblyFails(v) \/ PurgeBucketParts(v)
             \/ ForgetArchive(v) \/ ExpireUpdate(v) \/ Crash(v)
    BY <1>1, <1>2 DEF EnqueueRun, RequestFails, AssemblyFails, PurgeBucketParts, ForgetArchive,
                      ExpireUpdate, Crash, OwnMove
  <1>3. CASE RequestExport(v) \/ SweepDeadlines(v)
    BY <1>0, <1>3 DEF RequestExport, SweepDeadlines, Enter, OwnMove, Building, After
  <1>4. CASE CreateExport(v) \/ \E x \in Exports : SweepNext(v, x)
    BY <1>0, <1>4 DEF CreateExport, SweepNext, OwnMove, Building, After
  <1>5. CASE \/ PublishExportRequested(v) \/ RunMkdir(v) \/ RunProvidersDone(v) \/ RunPartSave(v)
    BY <1>0, <1>5 DEF PublishExportRequested, RunMkdir, RunProvidersDone, RunPartSave, Goto,
                      OwnMove, Building, After
  <1>6. ASSUME NEW x \in Exports, RunExport(v, x) PROVE OwnMove(v)
    BY <1>0, <1>6 DEF RunExport, Enter, OwnMove, Building, After
  <1>7. ASSUME NEW s \in Services, RunSkip(v, s) PROVE OwnMove(v)
    BY <1>7 DEF RunSkip, OwnMove, Building, After
  <1>8. ASSUME NEW s \in Services, RunProvider(v, s) PROVE OwnMove(v)
    BY <1>0, <1>8 DEF RunProvider, Goto, OwnMove, Building, After
  <1>9. ASSUME NEW x \in Exports, NEW s \in Services, NEW p \in PeerPaths,
               MarkPartReady(v, x, s, p)
        PROVE  OwnMove(v)
    BY <1>0, <1>9 DEF MarkPartReady, Enter, OwnMove, Building, After
  <1>10. CASE TryAssemble(v)
    <2>1. CASE MayAssemble(v)
      BY <1>0, <1>10, <2>1 DEF TryAssemble, MayAssemble, Goto, OwnMove, Located
    <2>2. CASE ~MayAssemble(v)
      BY <1>1, <1>10, <2>2 DEF TryAssemble, OwnMove
    <2> QED BY <2>1, <2>2
  <1>11. CASE GaugeParts(v) \/ JudgeMissing(v) \/ SaveArchive(v)
    BY <1>0, <1>11 DEF GaugeParts, JudgeMissing, SaveArchive, Goto, OwnMove, Building
  <1>12. CASE DownloadBucketParts(v)
    BY <1>0, <1>12 DEF DownloadBucketParts, Goto, OwnMove, Building
  <1>13. CASE PublishReady(v)
    <2>1. Publishes(v, on[v]) /\ on'[v] = on[v]
      BY <1>0, <1>13 DEF PublishReady, Publishes, Goto, Located, Building
    <2> QED BY <2>1 DEF OwnMove
  <1>14. CASE \/ CleanStaging(v) \/ DeleteArchive(v, "drop", "forget")
              \/ DeleteArchive(v, "expire", "expired")
    BY <1>0, <1>14 DEF CleanStaging, DeleteArchive, Goto, OwnMove
  <1>15. ASSUME NEW x \in Exports, Download(v, x) PROVE OwnMove(v)
    <2>1. /\ UNCHANGED <<row, history, now>> /\ status[x] = "ready" /\ on'[v] = x
          /\ pc'[v] = "consume" \/ (pc'[v] = "expire" /\ expires[x] <= now)
      BY <1>0, <1>15 DEF Download, Enter, world
    <2> QED BY <2>1 DEF OwnMove
  <1>16. ASSUME NEW x \in Exports, PurgeExpired(v, x) PROVE OwnMove(v)
    <2>1. /\ UNCHANGED <<row, history, now>> /\ on'[v] = x /\ pc'[v] = "expire"
          /\ minted[x] > 0 \/ consumed[x]
          /\ consumed[x] \/ expires[x] <= now
      BY <1>0, <1>16 DEF PurgeExpired, Stale, Orphan, Enter, world
    <2> QED BY <2>1 DEF OwnMove
  <1>17. CASE ConsumeDownloadToken(v)
    <2>1. CASE Unspent(on[v])
      <3>1. Spends(v, on[v]) /\ on'[v] = on[v]
        BY <1>0, <1>17, <2>1
        DEF ConsumeDownloadToken, Unspent, Goto, Spends, Kept, KeptRow, history, Located
      <3> QED BY <3>1 DEF OwnMove
    <2>2. CASE ~Unspent(on[v])
      BY <1>1, <1>17, <2>2 DEF ConsumeDownloadToken, OwnMove
    <2> QED BY <2>1, <2>2
  <1>18. CASE OpenArchive(v)
    <2>1. CASE Stored(on[v], held[v])
      <3>1. Serves(v, on[v]) /\ on'[v] = on[v]
        BY <1>0, <1>18, <2>1 DEF OpenArchive, Goto, Serves, Kept, KeptRow, row, Located
      <3> QED BY <3>1 DEF OwnMove
    <2>2. CASE ~Stored(on[v], held[v])
      BY <1>1, <1>18, <2>2 DEF OpenArchive, OwnMove
    <2> QED BY <2>1, <2>2
  <1> QED
    BY <1>2, <1>3, <1>4, <1>5, <1>6, <1>7, <1>8, <1>9, <1>10, <1>11, <1>12, <1>13, <1>14, <1>15,
       <1>16, <1>17, <1>18
    DEF OneStep

\* Whoever assembles holds a row that was not announced yet.
LEMMA Unannounced ==
  ASSUME LifeInv, NEW w \in Workers, pc[w] \in Building
  PROVE  on[w] \in Exports /\ minted[on[w]] = 0 /\ status[on[w]] = "assembling"
  <1>1. on[w] \in Exports /\ minted \in [Exports -> Nat]
    BY DEF LifeInv, ExportTypeInv, ExportTypeOK, CallsLocated, Located
  <1> QED BY <1>1 DEF LifeInv, CallLife, RowLife

LEMMA Announced ==
  ASSUME LifeInv, NEW w \in Workers, pc[w] \in After
  PROVE  on[w] \in Exports /\ minted[on[w]] > 0 /\ status[on[w]] \in {"ready", "expired"}
  <1>1. on[w] \in Exports
    BY DEF LifeInv, ExportTypeInv, ExportTypeOK, CallsLocated, Located, After
  <1> QED BY <1>1 DEF LifeInv, CallLife, RowLife

LEMMA RowLifeStep ==
  ASSUME LifeInv, [Next]_vars, NEW x \in Exports
  PROVE  RowLife(x)'
  <1>0. /\ ExportTypeInv /\ RowLife(x) /\ minted[x] \in Nat /\ served[x] \in Nat
        /\ status[x] \in Status /\ token[x] \in BOOLEAN /\ consumed[x] \in BOOLEAN
    BY DEF LifeInv, ExportTypeInv, ExportTypeOK
  <1>1. CASE Kept(x) /\ KeptToken(x) /\ KeptRow(x)
    BY <1>0, <1>1 DEF RowLife, Kept, KeptToken, KeptRow
  <1>2. CASE Collects(x)
    BY <1>0, <1>2 DEF RowLife, Collects, Kept, KeptToken, Open
  <1>3. ASSUME NEW w \in Workers, GivesUp(w, x) PROVE RowLife(x)'
    <2>1. minted[x] = 0
      BY <1>3, Unannounced DEF GivesUp, Building
    <2> QED BY <1>0, <1>3, <2>1 DEF RowLife, GivesUp, Kept, KeptToken
  <1>4. ASSUME NEW w \in Workers, Publishes(w, x) PROVE RowLife(x)'
    <2>1. minted[x] = 0
      BY <1>4, Unannounced DEF Publishes, Building
    <2> QED BY <1>0, <1>4, <2>1 DEF RowLife, Publishes
  <1>5. ASSUME NEW w \in Workers, Spends(w, x) \/ Serves(w, x) \/ Forgets(w, x) \/ Expires(w, x)
        PROVE  RowLife(x)'
    <2>1. /\ minted[x] > 0 /\ CallLife(w)
      BY <1>5, Announced DEF Spends, Serves, Forgets, Expires, After, LifeInv
    <2>2. CASE Spends(w, x)
      BY <1>0, <2>1, <2>2 DEF RowLife, Spends, Kept, KeptRow
    <2>3. CASE Serves(w, x)
      BY <1>0, <2>1, <2>3 DEF RowLife, CallLife, Serves, Kept, KeptRow
    <2>4. CASE Forgets(w, x)
      BY <1>0, <2>1, <2>4 DEF RowLife, Forgets, Kept, KeptToken
    <2>5. CASE Expires(w, x)
      BY <1>0, <2>1, <2>5 DEF RowLife, Expires, Kept
    <2> QED BY <1>5, <2>2, <2>3, <2>4, <2>5
  <1> QED BY <1>0, <1>1, <1>2, <1>3, <1>4, <1>5, RowSteps DEF RowStep

\* What a call that stays where it is has found out stays true.
LEMMA CallLifeStays ==
  ASSUME LifeInv, [Next]_vars, NEW v \in Workers, Stays(v)
  PROVE  CallLife(v)'
  <1>0. ExportTypeInv /\ CallLife(v) /\ Alone
    BY DEF LifeInv
  <1>1. CASE pc[v] \notin Building \cup After
    BY <1>1 DEF CallLife, Stays, After
  <1>2. CASE pc[v] \in Building
    <2>1. PICK x \in Exports : x = on[v] /\ minted[x] = 0 /\ status[x] = "assembling"
      BY <1>2, Unannounced
    <2>2. ASSUME NEW w \in Workers, pc[w] \in Building, on[w] = x PROVE w = v
      BY <1>0, <1>2, <2>1, <2>2 DEF Alone
    <2>3. ASSUME NEW w \in Workers, GivesUp(w, x) \/ Publishes(w, x) PROVE FALSE
      BY <2>2, <2>3 DEF GivesUp, Publishes, Stays, Building
    <2>4. ASSUME NEW w \in Workers, Spends(w, x) \/ Serves(w, x) \/ Forgets(w, x) \/ Expires(w, x)
          PROVE  FALSE
      BY <2>1, <2>4, Announced DEF Spends, Serves, Forgets, Expires, After
    <2>5. status'[x] = "assembling"
      BY <1>0, <2>1, <2>3, <2>4, RowSteps DEF RowStep, KeptRow, Collects, Open
    <2> QED BY <1>2, <2>1, <2>5 DEF CallLife, Stays, After, Building
  <1>3. CASE pc[v] \in After
    <2>1. PICK x \in Exports : x = on[v] /\ minted[x] > 0 /\ status[x] \in {"ready", "expired"}
      BY <1>3, Announced
    <2>2. ASSUME NEW w \in Workers, GivesUp(w, x) \/ Publishes(w, x) PROVE FALSE
      BY <2>1, <2>2, Unannounced DEF GivesUp, Publishes, Building
    <2>3. ~Collects(x)
      BY <2>1 DEF Collects, Open
    <2>4. /\ minted'[x] > 0 /\ expires'[x] = expires[x]
          /\ consumed[x] => consumed'[x]
      BY <1>0, <2>1, <2>2, <2>3, RowSteps
      DEF RowStep, Kept, KeptToken, Spends, Serves, Forgets, Expires
    <2>5. pc[v] = "open" => served'[x] = served[x]
      <3>1. ASSUME NEW w \in Workers, Serves(w, x), pc[v] = "open" PROVE FALSE
        BY <1>0, <2>1, <3>1 DEF Serves, Alone, Stays
      <3> QED BY <1>0, <2>2, <2>3, <3>1, RowSteps
          DEF RowStep, KeptToken, Spends, Forgets, Expires
    <2>6. now \in Nat /\ now' \in Nat /\ now <= now' /\ expires[x] \in Nat
      BY <1>0, ClockForward DEF ExportTypeInv, ExportTypeOK
    <2> QED BY <1>0, <1>3, <2>1, <2>4, <2>5, <2>6 DEF CallLife, Stays, After, Building
  <1> QED BY <1>1, <1>2, <1>3

LEMMA CallLifeMoves ==
  ASSUME LifeInv, [Next]_vars, NEW v \in Workers, OneStep(v)
  PROVE  CallLife(v)'
  <1>0. ExportTypeInv /\ CallLife(v) /\ \A x \in Exports : RowLife(x) /\ minted[x] \in Nat
    BY DEF LifeInv, ExportTypeInv, ExportTypeOK
  <1>1. CASE pc'[v] \notin Building \cup After
    BY <1>1 DEF CallLife, After
  <1>2. CASE /\ on'[v] = on[v] /\ UNCHANGED <<row, history>>
             /\ \/ pc[v] \in Building /\ pc'[v] \in Building
                \/ pc[v] = "clean" /\ pc'[v] = "purge"
                \/ pc[v] = "drop" /\ pc'[v] = "forget"
                \/ pc[v] = "expire" /\ pc'[v] = "expired"
    <2>1. now \in Nat /\ now' \in Nat /\ now <= now' /\ expires \in [Exports -> Nat]
      BY <1>0, ClockForward DEF ExportTypeInv, ExportTypeOK
    <2>2. pc[v] \in After => on[v] \in Exports
      BY Announced
    <2> QED BY <1>0, <1>2, <2>1, <2>2 DEF CallLife, row, history, After, Building
  <1>3. CASE on'[v] = on[v] /\ pc'[v] = "gauge" /\ status'[on[v]] = "assembling"
    BY <1>3 DEF CallLife, After
  <1>4. CASE on'[v] = on[v] /\ Publishes(v, on[v])
    <2>1. minted[on[v]] = 0
      BY <1>4, Unannounced DEF Publishes, Building
    <2> QED BY <1>4, <2>1 DEF CallLife, Publishes, Building
  <1>5. CASE on'[v] = on[v] /\ (Spends(v, on[v]) \/ Serves(v, on[v]))
    <2>1. on[v] \in Exports /\ minted[on[v]] > 0 /\ minted'[on[v]] = minted[on[v]]
      BY <1>5, Announced DEF Spends, Serves, After, Kept
    <2>2. Spends(v, on[v]) => served[on[v]] = 0
      <3>1. served[on[v]] \in Nat
        BY <1>0, <2>1 DEF ExportTypeInv, ExportTypeOK
      <3> QED BY <1>0, <2>1, <3>1 DEF RowLife, Spends
    <2>3. Serves(v, on[v]) => consumed[on[v]]
      BY <1>0 DEF Serves, CallLife
    <2> QED BY <1>5, <2>1, <2>2, <2>3 DEF CallLife, Spends, Serves, Building
  <1>6. CASE /\ on'[v] \in Exports /\ UNCHANGED <<row, history, now>>
             /\ \/ pc'[v] = "consume" /\ status[on'[v]] = "ready"
                \/ /\ pc'[v] = "expire"
                   /\ status[on'[v]] = "ready" \/ minted[on'[v]] > 0 \/ consumed[on'[v]]
                   /\ consumed[on'[v]] \/ expires[on'[v]] <= now
    <2>1. PICK x \in Exports : x = on'[v]
      BY <1>6
    <2>2. minted[x] > 0
      BY <1>0, <1>6, <2>1 DEF RowLife
    <2> QED BY <1>6, <2>1, <2>2 DEF CallLife, row, history, Building
  <1> QED
    BY <1>0, <1>1, <1>2, <1>3, <1>4, <1>5, <1>6, OwnMoves, CallLifeStays DEF OwnMove

LEMMA AloneStep ==
  ASSUME LifeInv, [Next]_vars
  PROVE  Alone'
  <1>0. ExportTypeInv /\ Alone
    BY DEF LifeInv
  <1>1. CASE \A v \in Workers : Stays(v)
    BY <1>0, <1>1 DEF Alone, Stays
  <1>2. ASSUME NEW w \in Workers, OneStep(w), \A v \in Workers \ {w} : Stays(v),
               NEW v \in Workers, v # w, on'[v] = on'[w]
        PROVE  ~(pc'[v] \in Building /\ pc'[w] \in Building) /\ ~(pc'[v] = "open" /\ pc'[w] = "open")
    <2>0. pc'[v] = pc[v] /\ on'[v] = on[v]
      BY <1>2 DEF Stays
    <2>1. ASSUME pc[v] \in Building, pc'[w] \in Building PROVE FALSE
      <3>1. status[on[v]] = "assembling"
        BY <2>1, Unannounced
      <3>2. on'[w] = on[w] => pc[w] \notin Building
        BY <1>0, <1>2, <2>0, <2>1 DEF Alone
      <3>3. on'[w] = on[w] => status[on[w]] \notin Open
        BY <1>2, <2>0, <3>1 DEF Open
      <3> QED BY <1>0, <1>2, <2>1, <3>2, <3>3, OwnMoves
          DEF OwnMove, Stays, Publishes, Spends, Serves, Building
    <2>2. ASSUME pc[v] = "open", pc'[w] = "open" PROVE FALSE
      <3>1. consumed[on[v]]
        BY <2>2 DEF LifeInv, CallLife
      <3>2. pc[w] = "open" => on'[w] # on[w]
        BY <1>0, <1>2, <2>0, <2>2 DEF Alone
      <3>3. on'[w] = on[v]
        BY <1>2, <2>0
      <3>4. OwnMove(w) /\ ~Publishes(w, on[w]) /\ ~Serves(w, on[w]) /\ pc'[w] \in After
        BY <1>0, <1>2, <2>2, OwnMoves DEF Publishes, Serves, After
      <3>5. ~Stays(w)
        BY <2>2, <3>2 DEF Stays
      <3>6. on'[w] = on[w] /\ Spends(w, on[w])
        BY <2>2, <3>4, <3>5 DEF OwnMove, Building
      <3> QED BY <3>1, <3>3, <3>6 DEF Spends
    <2> QED BY <2>0, <2>1, <2>2
  <1>3. ASSUME NEW w \in Workers, OneStep(w), \A v \in Workers \ {w} : Stays(v),
               NEW u \in Workers, NEW v \in Workers, u # v, on'[u] = on'[v]
        PROVE  ~(pc'[u] \in Building /\ pc'[v] \in Building) /\ ~(pc'[u] = "open" /\ pc'[v] = "open")
    <2>1. CASE u # w /\ v # w
      BY <1>0, <1>3, <2>1 DEF Alone, Stays
    <2>2. CASE u = w
      BY <1>2, <1>3, <2>2
    <2>3. CASE v = w
      BY <1>2, <1>3, <2>3
    <2> QED BY <2>1, <2>2, <2>3
  <1>4. CASE \E w \in Workers : OneStep(w) /\ \A v \in Workers \ {w} : Stays(v)
    BY <1>3, <1>4 DEF Alone
  <1> QED BY <1>0, <1>1, <1>4, OwnCalls

LEMMA LifeStep == LifeInv /\ [Next]_vars => LifeInv'
  <1> SUFFICES ASSUME LifeInv, [Next]_vars PROVE LifeInv'
    OBVIOUS
  <1>1. ExportTypeInv /\ ExportTypeInv' /\ Alone'
    BY ExportTypeStep, AloneStep DEF LifeInv
  <1>2. (\A x \in Exports : RowLife(x))'
    BY RowLifeStep
  <1>3. (\A v \in Workers : CallLife(v))'
    BY <1>1, OwnCalls, CallLifeStays, CallLifeMoves
  <1> QED BY <1>1, <1>2, <1>3 DEF LifeInv

\* An export has one assembler at a time and is announced at most once.
THEOREM OneAssembly == Spec => []AssembledOnce
  <1>1. LifeInv => AssembledOnce
    BY DEF LifeInv, AssembledOnce, Alone, CallLife, RowLife
  <1> QED BY <1>1, LifeInit, LifeStep, PTL DEF Spec

\* Its archive is streamed at most once, however many downloads race.
THEOREM OneDownload == Spec => []ServedOnce
  <1>1. LifeInv => ServedOnce
    BY DEF LifeInv, ServedOnce, RowLife
  <1> QED BY <1>1, LifeInit, LifeStep, PTL DEF Spec

(***************************************************************************)
(* What a step may do to the parts and to the files                        *)
(***************************************************************************)

At(w, p, x) == w \in Workers /\ pc[w] \in p /\ on[w] = x

Marks1(x, s) == /\ part[x][s] \notin {"absent", "done"} /\ part'[x][s] = "done"
                /\ path'[x][s] = "empty" \/ (path'[x][s] = "key" /\ <<x, s, "key">> \in inbox)

PartStep(x, s) ==
    \/ part'[x][s] = part[x][s]
    \/ status[x] = "absent" /\ part'[x][s] = "pending"
    \/ \E w \in Workers : At(w, {"wrote"}, x) /\ cur[w] = s /\ part'[x][s] = "done"
    \/ \E w \in Workers : At(w, {"raised"}, x) /\ cur[w] = s /\ part'[x][s] = "failed"
    \/ Marks1(x, s)

PathStep(x, s) ==
    \/ path'[x][s] = path[x][s] \/ Marks1(x, s)
    \/ \E w \in Workers : At(w, {"purge"}, x) /\ s \in got[w]

StagingStep(x) ==
    \/ staging[x] \subseteq staging'[x] /\ (dir[x] => dir'[x])
    \/ \E w \in Workers : At(w, {"clean"}, x)

BucketStep(x, s) ==
    /\ <<x, s>> \in bucket => \/ <<x, s>> \in bucket'
                              \/ \E w \in Workers : At(w, {"purge"}, x) /\ s \in got[w]
    /\ <<x, s, "key">> \in inbox' => <<x, s, "key">> \in inbox \/ <<x, s>> \in bucket'

Saves(w, x, a) == /\ At(w, {"zip"}, x) /\ pc'[w] = "ready" /\ on'[w] = x /\ held'[w] = a.n
                  /\ a.has = staging[x]

StoreStep(x) ==
    /\ \A a \in store : a.export = x =>
          a \in store' \/ \E w \in Workers : At(w, {"drop", "expire"}, x) /\ held[w] = a.n
    /\ \A a \in store' : a.export = x => a \in store \/ \E w \in Workers : Saves(w, x, a)

FileStep(x) == /\ \A s \in Services : PartStep(x, s) /\ PathStep(x, s) /\ BucketStep(x, s)
               /\ StagingStep(x) /\ StoreStep(x)

LEMMA FileSteps ==
  ASSUME ExportTypeInv, [Next]_vars, NEW x \in Exports
  PROVE  FileStep(x)
  <1>0. /\ part \in [Exports -> [Services -> {"absent", "pending", "done", "failed"}]]
        /\ path \in [Exports -> [Services -> {"none", "key", "empty"}]]
        /\ staging \in [Exports -> SUBSET Services] /\ dir \in [Exports -> BOOLEAN]
        /\ saved \in [Exports -> Nat]
        /\ pc \in [Workers -> Pc] /\ on \in [Workers -> Exports \cup {NoExport}]
        /\ got \in [Workers -> SUBSET Services] /\ held \in [Workers -> Nat]
        /\ bucket \subseteq Exports \X Services /\ store \subseteq Archive
        /\ \A w \in Workers : /\ pc[w] \in Located => on[w] \in Exports
                              /\ pc[w] \in {"wrote", "raised"} => cur[w] \in Services
    BY DEF ExportTypeInv, ExportTypeOK, CallsLocated
  <1>p. part' = part => \A s \in Services : PartStep(x, s)
    BY DEF PartStep
  <1>h. path' = path => \A s \in Services : PathStep(x, s)
    BY DEF PathStep
  <1>b. UNCHANGED <<bucket, inbox>> => \A s \in Services : BucketStep(x, s)
    BY DEF BucketStep
  <1>g. UNCHANGED <<staging, dir>> => StagingStep(x)
    BY DEF StagingStep
  <1>t. store' = store => StoreStep(x)
    BY DEF StoreStep
  <1>1. ASSUME UNCHANGED <<part, path, files, inbox>> PROVE FileStep(x)
    BY <1>1, <1>p, <1>h, <1>b, <1>g, <1>t DEF FileStep, files
  <1>2. ASSUME NEW w \in Workers, CreateExport(w) PROVE FileStep(x)
    <2>1. \A s \in Services : PartStep(x, s)
      BY <1>0, <1>2 DEF CreateExport, Exists, PartStep
    <2> QED BY <1>2, <2>1, <1>h, <1>b, <1>g, <1>t DEF CreateExport, FileStep, files, world
  <1>3. ASSUME NEW w \in Workers, RunMkdir(w) PROVE FileStep(x)
    <2>1. StagingStep(x)
      BY <1>0, <1>3 DEF RunMkdir, StagingStep
    <2> QED BY <1>3, <2>1, <1>p, <1>h, <1>b, <1>t DEF RunMkdir, FileStep, world
  <1>4. ASSUME NEW w \in Workers, NEW s \in Services, RunProvider(w, s) PROVE FileStep(x)
    <2>1. StagingStep(x)
      <3>1. /\ dir' = dir
            /\ staging' = staging \/ staging' = [staging EXCEPT ![on[w]] = @ \cup {s}]
        BY <1>4 DEF RunProvider
      <3>2. staging'[x] = staging[x] \/ staging'[x] = staging[x] \cup {s}
        BY <1>0, <3>1
      <3> QED BY <3>1, <3>2 DEF StagingStep
    <2> QED BY <1>4, <2>1, <1>p, <1>h, <1>b, <1>t DEF RunProvider, FileStep, world
  <1>5. ASSUME NEW w \in Workers, RunPartSave(w) PROVE FileStep(x)
    <2>1. ASSUME NEW s \in Services PROVE PartStep(x, s)
      <3>1. \/ part'[x][s] = part[x][s]
            \/ /\ x = on[w] /\ s = cur[w] /\ pc[w] \in {"wrote", "raised"}
               /\ part'[x][s] = IF pc[w] = "wrote" THEN "done" ELSE "failed"
        BY <1>0, <1>5 DEF RunPartSave
      <3> QED BY <3>1 DEF PartStep, At
    <2> QED BY <1>5, <2>1, <1>h, <1>b, <1>g, <1>t DEF RunPartSave, FileStep, files, world
  <1>6. ASSUME NEW w \in Workers, NEW y \in Exports, NEW q \in Services, NEW p \in PeerPaths,
               MarkPartReady(w, y, q, p)
        PROVE  FileStep(x)
    <2>1. ASSUME NEW s \in Services PROVE PartStep(x, s) /\ PathStep(x, s)
      <3>1. CASE x = y /\ s = q
        <4>1. Marks1(x, s)
          BY <1>0, <1>6, <3>1 DEF MarkPartReady, IsSafeBucketPath, Marks1
        <4> QED BY <4>1 DEF PartStep, PathStep
      <3>2. CASE ~(x = y /\ s = q)
        <4>1. part'[x][s] = part[x][s] /\ path'[x][s] = path[x][s]
          BY <1>0, <1>6, <3>2 DEF MarkPartReady
        <4> QED BY <4>1 DEF PartStep, PathStep
      <3> QED BY <3>1, <3>2
    <2> QED BY <1>6, <2>1, <1>b, <1>g, <1>t DEF MarkPartReady, FileStep, files, world
  <1>7. ASSUME NEW w \in Workers, DownloadBucketParts(w) PROVE FileStep(x)
    <2>1. PICK more, want :
             /\ staging' = [staging EXCEPT ![on[w]] = @ \cup more]
             /\ dir'     = [dir EXCEPT ![on[w]] = @ \/ want]
      BY <1>7 DEF DownloadBucketParts
    <2>2. StagingStep(x)
      BY <1>0, <2>1 DEF StagingStep
    <2> QED BY <1>7, <2>2, <1>p, <1>h, <1>b, <1>t DEF DownloadBucketParts, FileStep, world
  <1>8. ASSUME NEW w \in Workers, SaveArchive(w) PROVE FileStep(x)
    <2>1. StoreStep(x)
      <3>1. /\ store' = store \cup {[export |-> on[w], n |-> saved'[on[w]], has |-> staging[on[w]]]}
            /\ pc[w] = "zip" /\ pc'[w] = "ready" /\ on'[w] = on[w] /\ held'[w] = saved'[on[w]]
        BY <1>0, <1>8 DEF SaveArchive, ZipContents, Goto
      <3> QED BY <3>1 DEF StoreStep, Saves, At
    <2> QED BY <1>8, <2>1, <1>p, <1>h, <1>b, <1>g DEF SaveArchive, FileStep, world
  <1>9. ASSUME NEW w \in Workers, CleanStaging(w) PROVE FileStep(x)
    <2>1. StagingStep(x)
      BY <1>0, <1>9 DEF CleanStaging, StagingStep, At
    <2> QED BY <1>9, <2>1, <1>p, <1>h, <1>b, <1>t DEF CleanStaging, FileStep, world
  <1>10. ASSUME NEW w \in Workers, PurgeBucketParts(w) PROVE FileStep(x)
    <2>1. PICK gone \in SUBSET got[w] :
             /\ bucket' = bucket \ ({on[w]} \X gone)
             /\ path'   = [path EXCEPT ![on[w]] = [s \in Services |->
                              IF s \in gone THEN "none" ELSE path[on[w]][s]]]
      <3>1. PICK kept \in SUBSET Purgeable(w) :
             /\ bucket' = bucket \ ({on[w]} \X (Purgeable(w) \ kept))
             /\ path'   = [path EXCEPT ![on[w]] = [s \in Services |->
                              IF s \in Purgeable(w) \ kept THEN "none" ELSE path[on[w]][s]]]
        BY <1>10 DEF PurgeBucketParts
      <3>2. Purgeable(w) \ kept \subseteq got[w]
        BY DEF Purgeable
      <3> QED BY <3>1, <3>2
    <2>2. pc[w] = "purge" /\ inbox' = inbox
      BY <1>10 DEF PurgeBucketParts, world
    <2>3. ASSUME NEW s \in Services PROVE PathStep(x, s)
      <3>1. path'[x][s] = path[x][s] \/ (x = on[w] /\ s \in got[w])
        BY <1>0, <2>1
      <3> QED BY <2>2, <3>1 DEF PathStep, At
    <2>4. \A s \in Services : BucketStep(x, s)
      BY <2>1, <2>2 DEF BucketStep, At
    <2> QED BY <1>10, <2>3, <2>4, <1>p, <1>g, <1>t DEF PurgeBucketParts, FileStep
  <1>11. ASSUME NEW w \in Workers, NEW to,
                DeleteArchive(w, "drop", to) \/ DeleteArchive(w, "expire", to)
         PROVE  FileStep(x)
    <2>1. StoreStep(x)
      <3>1. /\ pc[w] \in {"drop", "expire"}
            /\ store' = store \/ store' = {a \in store : a.export # on[w] \/ a.n # held[w]}
        BY <1>11 DEF DeleteArchive
      <3> QED BY <3>1 DEF StoreStep, At
    <2> QED BY <1>11, <2>1, <1>p, <1>h, <1>b, <1>g DEF DeleteArchive, FileStep, world
  <1>12. ASSUME NEW y \in Exports, NEW q \in Services, NEW p \in PeerPaths, PeerCompletes(y, q, p)
         PROVE  FileStep(x)
    <2>1. \A s \in Services : BucketStep(x, s)
      BY <1>12 DEF PeerCompletes, BucketStep
    <2> QED BY <1>12, <2>1, <1>p, <1>h, <1>g, <1>t DEF PeerCompletes, FileStep
  <1>13. ASSUME NEW w \in Workers,
                \/ RequestExport(w) \/ PublishExportRequested(w) \/ EnqueueRun(w)
                \/ RequestFails(w) \/ (\E y \in Exports : RunExport(w, y)) \/ RunProvidersDone(w)
                \/ (\E s \in Services : RunSkip(w, s)) \/ SweepDeadlines(w)
                \/ (\E y \in Exports : SweepNext(w, y) \/ Download(w, y) \/ PurgeExpired(w, y))
         PROVE  UNCHANGED <<part, path, files, inbox>>
    BY <1>13 DEF RequestExport, PublishExportRequested, EnqueueRun, RequestFails, RunExport,
                 RunProvidersDone, RunSkip, SweepDeadlines, SweepNext, Download, PurgeExpired, world
  <1>14. ASSUME NEW w \in Workers,
                \/ TryAssemble(w) \/ GaugeParts(w) \/ JudgeMissing(w) \/ PublishReady(w)
                \/ AssemblyFails(w) \/ ConsumeDownloadToken(w) \/ OpenArchive(w)
                \/ ForgetArchive(w) \/ ExpireUpdate(w) \/ Crash(w)
         PROVE  UNCHANGED <<part, path, files, inbox>>
    BY <1>14 DEF TryAssemble, GaugeParts, JudgeMissing, PublishReady, AssemblyFails,
                 ConsumeDownloadToken, OpenArchive, ForgetArchive, ExpireUpdate, Crash, world
  <1>15. ASSUME Tick \/ UNCHANGED vars PROVE UNCHANGED <<part, path, files, inbox>>
    BY <1>15 DEF Tick, vars, world
  <1> QED
    BY <1>1, <1>2, <1>3, <1>4, <1>5, <1>6, <1>7, <1>8, <1>9, <1>10, <1>11, <1>12, <1>13, <1>14,
       <1>15, Steps
    DEF OneStep

\* By which step a call comes to where it is.
Arrival(v) ==
    \/ Stays(v)
    \/ pc'[v] \in {"idle", "sweep", "create", "publish", "enqueue", "mkdir", "lock", "gauge"}
    \/ pc'[v] = "provider" /\ (RunMkdir(v) \/ RunPartSave(v))
    \/ pc'[v] \in {"wrote", "raised"} /\ \E s \in Services : RunProvider(v, s)
    \/ pc'[v] = "download" /\ GaugeParts(v)
    \/ pc'[v] = "judge" /\ DownloadBucketParts(v)
    \/ pc'[v] = "zip" /\ JudgeMissing(v)
    \/ pc'[v] = "ready" /\ SaveArchive(v)
    \/ pc'[v] = "clean" /\ PublishReady(v)
    \/ pc'[v] = "purge" /\ CleanStaging(v)
    \/ pc'[v] \in {"consume", "expire"} /\ \E x \in Exports : Download(v, x) \/ PurgeExpired(v, x)
    \/ pc'[v] = "open" /\ ConsumeDownloadToken(v)
    \/ pc'[v] = "drop" /\ OpenArchive(v)
    \/ pc'[v] = "forget" /\ DeleteArchive(v, "drop", "forget")
    \/ pc'[v] = "expired" /\ DeleteArchive(v, "expire", "expired")

LEMMA Arrivals ==
  ASSUME ExportTypeInv, NEW v \in Workers, OneStep(v)
  PROVE  Arrival(v)
  <1>0. /\ pc \in [Workers -> Pc] /\ cur \in [Workers -> Services \cup {NoService}]
    BY DEF ExportTypeInv, ExportTypeOK
  <1>1. ASSUME Return(v) \/ Abandon(v) PROVE Arrival(v)
    BY <1>0, <1>1 DEF Return, Abandon, Leave, Arrival
  <1>2. ASSUME NEW p, Goto(v, p) PROVE pc'[v] = p
    BY <1>0, <1>2 DEF Goto
  <1>3. ASSUME NEW p, NEW x, NEW u, Enter(v, p, x, u) PROVE pc'[v] = p
    BY <1>0, <1>3 DEF Enter
  <1>4. CASE \/ EnqueueRun(v) \/ RequestFails(v) \/ AssemblyFails(v) \/ PurgeBucketParts(v)
             \/ ForgetArchive(v) \/ ExpireUpdate(v) \/ Crash(v)
    BY <1>1, <1>4 DEF EnqueueRun, RequestFails, AssemblyFails, PurgeBucketParts, ForgetArchive,
                      ExpireUpdate, Crash
  <1>5. CASE RequestExport(v) \/ SweepDeadlines(v)
    BY <1>3, <1>5 DEF RequestExport, SweepDeadlines, Arrival
  <1>6. CASE CreateExport(v) \/ \E x \in Exports : SweepNext(v, x)
    BY <1>0, <1>6 DEF CreateExport, SweepNext, Arrival
  <1>7. CASE PublishExportRequested(v) \/ RunProvidersDone(v)
    BY <1>2, <1>7 DEF PublishExportRequested, RunProvidersDone, Arrival
  <1>8. CASE RunMkdir(v) \/ RunPartSave(v)
    BY <1>2, <1>8 DEF RunMkdir, RunPartSave, Arrival
  <1>9. ASSUME NEW x \in Exports, RunExport(v, x) PROVE Arrival(v)
    BY <1>3, <1>9 DEF RunExport, Arrival, Stays, job
  <1>10. ASSUME NEW s \in Services, RunSkip(v, s) PROVE Arrival(v)
    BY <1>10 DEF RunSkip, Arrival, Stays
  <1>11. ASSUME NEW s \in Services, RunProvider(v, s) PROVE Arrival(v)
    <2>1. pc'[v] \in {"wrote", "raised"}
      BY <1>2, <1>11 DEF RunProvider
    <2> QED BY <1>11, <2>1 DEF Arrival
  <1>12. ASSUME NEW x \in Exports, NEW s \in Services, NEW p \in PeerPaths,
                MarkPartReady(v, x, s, p)
         PROVE  Arrival(v)
    BY <1>3, <1>12 DEF MarkPartReady, Arrival
  <1>13. CASE TryAssemble(v)
    BY <1>1, <1>2, <1>13 DEF TryAssemble, Arrival
  <1>14. CASE GaugeParts(v) \/ JudgeMissing(v) \/ SaveArchive(v)
    BY <1>2, <1>14, SMTT(40) DEF GaugeParts, JudgeMissing, SaveArchive, Arrival
  <1>15. CASE DownloadBucketParts(v) \/ PublishReady(v) \/ CleanStaging(v)
    BY <1>2, <1>15 DEF DownloadBucketParts, PublishReady, CleanStaging, Arrival
  <1>16. CASE \/ DeleteArchive(v, "drop", "forget") \/ DeleteArchive(v, "expire", "expired")
    BY <1>2, <1>16 DEF DeleteArchive, Arrival
  <1>17. ASSUME NEW x \in Exports, Download(v, x) \/ PurgeExpired(v, x) PROVE Arrival(v)
    <2>1. pc'[v] \in {"consume", "expire"}
      BY <1>3, <1>17 DEF Download, PurgeExpired
    <2> QED BY <1>17, <2>1 DEF Arrival
  <1>18. CASE ConsumeDownloadToken(v)
    BY <1>1, <1>2, <1>18 DEF ConsumeDownloadToken, Arrival
  <1>19. CASE OpenArchive(v)
    BY <1>1, <1>2, <1>19 DEF OpenArchive, Arrival
  <1> QED
    BY <1>4, <1>5, <1>6, <1>7, <1>8, <1>9, <1>10, <1>11, <1>12, <1>13, <1>14, <1>15, <1>16,
       <1>17, <1>18, <1>19
    DEF OneStep

(***************************************************************************)
(* The archive is there, and no slice is lost                              *)
(***************************************************************************)

\* An announced export nobody downloaded yet and whose window is open.
Waiting(x) == status[x] = "ready" /\ ~consumed[x] /\ now < expires[x]

\* What _assemble_zip staged is in the staging area, then in the archive it
\* wrote, then in the archive it announced.
CallFiles(v) ==
    /\ pc[v] \in {"judge", "zip"} => got[v] \subseteq staging[on[v]]
    /\ pc[v] = "ready" => \E a \in store : /\ a.export = on[v] /\ a.n = held[v]
                                           /\ got[v] \subseteq a.has
    /\ pc[v] \in {"clean", "purge"} => got[v] \subseteq shipped[on[v]]

FilesInv ==
    /\ LifeInv /\ NoSliceLost
    /\ \A x \in Exports : Waiting(x) => Stored(x, archive[x])
    /\ \A v \in Workers : CallFiles(v)

LEMMA FilesInit == Init => FilesInv
  <1> SUFFICES ASSUME Init PROVE FilesInv
    OBVIOUS
  <1>1. NoSliceLost /\ \A x \in Exports : ~Waiting(x)
    BY DEF Init, NoSliceLost, Waiting
  <1>2. \A v \in Workers : CallFiles(v)
    BY DEF Init, CallFiles
  <1> QED BY <1>1, <1>2, LifeInit DEF FilesInv

\* Before the announcement nobody cleans, purges or deletes anything.
LEMMA NothingTakenAway ==
  ASSUME LifeInv, [Next]_vars, NEW x \in Exports, minted[x] = 0
  PROVE  /\ staging[x] \subseteq staging'[x] /\ (dir[x] => dir'[x])
         /\ \A s \in Services : <<x, s>> \in bucket => <<x, s>> \in bucket'
         /\ \A a \in store : a.export = x => a \in store'
         /\ \A s \in Services : path'[x][s] = path[x][s] \/ Marks1(x, s)
  <1>0. ExportTypeInv
    BY DEF LifeInv
  <1>1. ASSUME NEW w \in Workers, At(w, After, x) PROVE FALSE
    BY <1>1, Announced DEF At
  <1>2. FileStep(x)
    BY <1>0, FileSteps
  <1>3. ASSUME NEW w \in Workers,
               At(w, {"purge"}, x) \/ At(w, {"clean"}, x) \/ At(w, {"drop", "expire"}, x)
        PROVE  FALSE
    BY <1>1, <1>3 DEF At, After
  <1>4. staging[x] \subseteq staging'[x] /\ (dir[x] => dir'[x])
    BY <1>2, <1>3 DEF FileStep, StagingStep
  <1>5. ASSUME NEW s \in Services
        PROVE  /\ <<x, s>> \in bucket => <<x, s>> \in bucket'
               /\ path'[x][s] = path[x][s] \/ Marks1(x, s)
    BY <1>2, <1>3 DEF FileStep, BucketStep, PathStep
  <1>6. ASSUME NEW a \in store, a.export = x PROVE a \in store'
    BY <1>2, <1>3, <1>6 DEF FileStep, StoreStep
  <1> QED BY <1>4, <1>5, <1>6

LEMMA CallFilesStays ==
  ASSUME FilesInv, [Next]_vars, NEW v \in Workers, Stays(v)
  PROVE  CallFiles(v)'
  <1>0. LifeInv /\ ExportTypeInv /\ CallFiles(v)
    BY DEF FilesInv, LifeInv
  <1>1. CASE pc[v] \in {"judge", "zip", "ready"}
    <2>1. PICK x \in Exports : x = on[v] /\ minted[x] = 0
      BY <1>0, <1>1, Unannounced DEF Building
    <2>2. CASE pc[v] \in {"judge", "zip"}
      BY <1>0, <2>1, <2>2, NothingTakenAway DEF CallFiles, Stays
    <2>3. CASE pc[v] = "ready"
      <3>1. PICK a \in store : a.export = x /\ a.n = held[v] /\ got[v] \subseteq a.has
        BY <1>0, <2>1, <2>3 DEF CallFiles
      <3>2. a \in store'
        BY <1>0, <2>1, <3>1, NothingTakenAway
      <3> QED BY <2>1, <2>3, <3>1, <3>2 DEF CallFiles, Stays
    <2> QED BY <1>1, <2>2, <2>3
  <1>2. CASE pc[v] \in {"clean", "purge"}
    <2>1. PICK x \in Exports : x = on[v] /\ minted[x] > 0
      BY <1>0, <1>2, Announced DEF After
    <2>2. ASSUME NEW w \in Workers, Publishes(w, x) PROVE FALSE
      BY <1>0, <2>1, <2>2, Unannounced DEF Publishes, Building
    <2>3. shipped'[x] = shipped[x]
      BY <1>0, <2>2, RowSteps
      DEF RowStep, Kept, Collects, GivesUp, Spends, Serves, Forgets, Expires
    <2> QED BY <1>0, <1>2, <2>1, <2>3 DEF CallFiles, Stays
  <1>3. CASE pc[v] \notin {"judge", "zip", "ready", "clean", "purge"}
    BY <1>3 DEF CallFiles, Stays
  <1> QED BY <1>1, <1>2, <1>3

LEMMA CallFilesMoves ==
  ASSUME FilesInv, [Next]_vars, NEW v \in Workers, OneStep(v)
  PROVE  CallFiles(v)'
  <1>0. /\ LifeInv /\ ExportTypeInv /\ CallFiles(v)
        /\ staging \in [Exports -> SUBSET Services] /\ got \in [Workers -> SUBSET Services]
        /\ shipped \in [Exports -> SUBSET Services] /\ held \in [Workers -> Nat]
        /\ pc[v] \in Located => on[v] \in Exports
    BY DEF FilesInv, LifeInv, ExportTypeInv, ExportTypeOK, CallsLocated
  <1>1. CASE pc'[v] \notin {"judge", "zip", "ready", "clean", "purge"}
    BY <1>1 DEF CallFiles
  <1>2. CASE pc'[v] = "judge" /\ DownloadBucketParts(v)
    <2>1. PICK want, have :
             /\ staging' = [staging EXCEPT ![on[v]] = @ \cup have]
             /\ got' = [got EXCEPT ![v] = (want \cap staging[on[v]]) \cup have]
             /\ on' = on
      BY <1>2 DEF DownloadBucketParts, Goto
    <2>2. on[v] \in Exports
      BY <1>0, <1>2 DEF DownloadBucketParts, Located, Building
    <2>3. got'[v] \subseteq staging'[on[v]] /\ on'[v] = on[v]
      BY <1>0, <2>1, <2>2
    <2> QED BY <1>2, <2>3 DEF CallFiles
  <1>3. CASE pc'[v] = "zip" /\ JudgeMissing(v)
    BY <1>0, <1>3 DEF JudgeMissing, CallFiles, Goto, files
  <1>4. CASE pc'[v] = "ready" /\ SaveArchive(v)
    <2>1. /\ store' = store \cup {[export |-> on[v], n |-> saved'[on[v]], has |-> staging[on[v]]]}
          /\ held'[v] = saved'[on[v]] /\ got' = got /\ on' = on /\ pc[v] = "zip"
      BY <1>0, <1>4 DEF SaveArchive, ZipContents, Goto
    <2>2. got[v] \subseteq staging[on[v]]
      BY <1>0, <2>1 DEF CallFiles
    <2>3. PICK y, z, h : /\ y = on[v] /\ z = saved'[on[v]] /\ h = staging[on[v]]
      OBVIOUS
    <2>4. [export |-> y, n |-> z, has |-> h] \in store'
      BY <2>1, <2>3
    <2>5. \E b \in store' : b.export = on'[v] /\ b.n = held'[v] /\ got'[v] \subseteq b.has
      <3>1. y = on'[v] /\ z = held'[v] /\ got'[v] \subseteq h
        BY <2>1, <2>2, <2>3
      <3> QED BY <2>4, <3>1
    <2> QED BY <1>4, <2>5 DEF CallFiles
  <1>5. CASE pc'[v] = "clean" /\ PublishReady(v)
    <2>1. PICK x \in Exports : x = on[v]
      BY <1>0, <1>5 DEF PublishReady, Located, Building
    <2>2. /\ shipped'[x] = UNION {a.has : a \in {b \in store : b.export = x /\ b.n = held[v]}}
          /\ got' = got /\ on' = on /\ pc[v] = "ready"
      BY <1>0, <1>5, <2>1 DEF PublishReady, Goto, job
    <2>3. PICK a \in store : a.export = x /\ a.n = held[v] /\ got[v] \subseteq a.has
      BY <1>0, <2>1, <2>2 DEF CallFiles
    <2>4. got[v] \subseteq shipped'[x]
      BY <2>2, <2>3
    <2> QED BY <1>5, <2>1, <2>2, <2>4 DEF CallFiles
  <1>6. CASE pc'[v] = "purge" /\ CleanStaging(v)
    BY <1>0, <1>6 DEF CleanStaging, CallFiles, Goto, job, history
  <1> QED
    BY <1>0, <1>1, <1>2, <1>3, <1>4, <1>5, <1>6, Arrivals, CallFilesStays DEF Arrival

LEMMA WaitingStep ==
  ASSUME FilesInv, [Next]_vars, NEW x \in Exports, Waiting(x)'
  PROVE  Stored(x, archive[x])'
  <1>0. /\ LifeInv /\ ExportTypeInv /\ (\A v \in Workers : CallFiles(v)) /\ RowLife(x)
        /\ minted[x] \in Nat /\ now \in Nat /\ now' \in Nat /\ now <= now' /\ expires[x] \in Nat
    BY ClockForward DEF FilesInv, LifeInv, ExportTypeInv, ExportTypeOK
  <1>1. CASE \E w \in Workers : Publishes(w, x)
    <2>1. PICK w \in Workers : Publishes(w, x)
      BY <1>1
    <2>2. PICK a \in store : a.export = x /\ a.n = held[w]
      BY <1>0, <2>1 DEF CallFiles, Publishes
    <2>3. minted[x] = 0
      BY <1>0, <2>1, Unannounced DEF Publishes, Building
    <2>4. a \in store'
      BY <1>0, <2>2, <2>3, NothingTakenAway
    <2> QED BY <2>1, <2>2, <2>4 DEF Stored, Publishes
  <1>2. CASE ~\E w \in Workers : Publishes(w, x)
    <2>1. ASSUME NEW w \in Workers, Forgets(w, x) PROVE FALSE
      BY <1>0, <2>1 DEF Forgets, KeptToken, Waiting, LifeInv, CallLife
    <2>2. Waiting(x) /\ archive'[x] = archive[x]
      BY <1>0, <1>2, <2>1, RowSteps
      DEF RowStep, Waiting, Kept, KeptRow, KeptToken, Collects, GivesUp, Spends, Serves, Expires
    <2>3. PICK a \in store : a.export = x /\ a.n = archive[x]
      BY <2>2 DEF FilesInv, Stored
    <2>4. ASSUME NEW w \in Workers, At(w, {"drop", "expire"}, x) PROVE FALSE
      <3>1. consumed[x] \/ expires[x] <= now
        BY <1>0, <2>4 DEF At, LifeInv, CallLife
      <3> QED BY <1>0, <2>2, <3>1 DEF Waiting
    <2>5. a \in store'
      BY <1>0, <2>3, <2>4, FileSteps DEF FileStep, StoreStep
    <2> QED BY <2>2, <2>3, <2>5 DEF Stored
  <1> QED BY <1>1, <1>2

LEMMA NoSliceLostStep ==
  ASSUME FilesInv, [Next]_vars
  PROVE  NoSliceLost'
  <1>0. LifeInv /\ ExportTypeInv /\ NoSliceLost /\ \A v \in Workers : CallFiles(v)
    BY DEF FilesInv, LifeInv
  <1> SUFFICES ASSUME NEW x \in Exports, NEW s \in Services, <<x, s, "key">> \in inbox'
               PROVE  <<x, s>> \in bucket' \/ s \in shipped'[x]
    BY DEF NoSliceLost
  <1>1. s \in shipped[x] => s \in shipped'[x]
    <2>1. ASSUME NEW w \in Workers, Publishes(w, x) PROVE shipped[x] = {}
      BY <1>0, <2>1, Unannounced DEF Publishes, Building, LifeInv, RowLife
    <2> QED BY <1>0, <2>1, RowSteps
        DEF RowStep, Kept, Collects, GivesUp, Spends, Serves, Forgets, Expires
  <1>2. ASSUME NEW w \in Workers, At(w, {"purge"}, x), s \in got[w] PROVE s \in shipped[x]
    BY <1>0, <1>2 DEF At, CallFiles
  <1>3. BucketStep(x, s)
    BY <1>0, FileSteps DEF FileStep
  <1> QED BY <1>0, <1>1, <1>2, <1>3 DEF BucketStep, NoSliceLost

LEMMA FilesStep == FilesInv /\ [Next]_vars => FilesInv'
  <1> SUFFICES ASSUME FilesInv, [Next]_vars PROVE FilesInv'
    OBVIOUS
  <1>1. LifeInv' /\ NoSliceLost' /\ ExportTypeInv
    BY LifeStep, NoSliceLostStep DEF FilesInv, LifeInv
  <1>2. (\A x \in Exports : Waiting(x) => Stored(x, archive[x]))'
    BY WaitingStep
  <1>3. (\A v \in Workers : CallFiles(v))'
    BY <1>1, OwnCalls, CallFilesStays, CallFilesMoves
  <1> QED BY <1>1, <1>2, <1>3 DEF FilesInv

\* A READY export can be downloaded until its window closes or it was: its
\* token is live and its archive is in the store.
THEOREM Available == Spec => []AvailableUntilExpiry
  <1>1. FilesInv => AvailableUntilExpiry
    BY DEF FilesInv, LifeInv, RowLife, Waiting, AvailableUntilExpiry
  <1> QED BY <1>1, FilesInit, FilesStep, PTL DEF Spec

\* A peer's slice is in the bucket or in the announced archive.
THEOREM SlicesKept == Spec => []NoSliceLost
  <1>1. FilesInv => NoSliceLost
    BY DEF FilesInv
  <1> QED BY <1>1, FilesInit, FilesStep, PTL DEF Spec

(***************************************************************************)
(* As long as nothing fails: an expired archive is gone                    *)
(***************************************************************************)

OnlyArchive(x, n) == \A a \in store : a.export = x => a.n = n
NoArchive(x)      == \A a \in store : a.export # x

\* The archives of an export: the one its assembler has just written, then the
\* one its row names, then none.
RowClean(x) ==
    /\ minted[x] = 0 => NoArchive(x) \/ \E w \in Workers : pc[w] = "ready" /\ on[w] = x
    /\ minted[x] > 0 => OnlyArchive(x, archive[x])
    /\ status[x] = "expired" => NoArchive(x)

CallClean(v) ==
    /\ pc[v] \in {"ready", "consume", "open", "drop", "expire"} => OnlyArchive(on[v], held[v])
    /\ pc[v] \in {"forget", "expired"} => NoArchive(on[v])

CleanInv ==
    /\ LifeInv
    /\ failures = 0 => /\ \A x \in Exports : RowClean(x)
                       /\ \A v \in Workers : CallClean(v)

\* As long as nothing has failed, nothing failed before.
LEMMA FaultFree ==
  ASSUME ExportTypeInv, [Next]_vars, failures' = 0
  PROVE  failures = 0
  <1>0. failures \in Nat
    BY ExportAssumption DEF ExportTypeInv, ExportTypeOK
  <1>1. ASSUME NEW kind, Fails(kind) PROVE FALSE
    BY <1>0, <1>1 DEF Fails
  <1>2. ASSUME NEW w \in Workers, OneStep(w) PROVE failures = 0
    <2>1. ASSUME \/ RequestExport(w) \/ CreateExport(w) \/ PublishExportRequested(w)
                 \/ EnqueueRun(w) \/ (\E x \in Exports : RunExport(w, x))
                 \/ RunMkdir(w) \/ (\E s \in Services : RunSkip(w, s))
                 \/ RunPartSave(w) \/ RunProvidersDone(w)
                 \/ (\E x \in Exports, s \in Services, p \in PeerPaths : MarkPartReady(w, x, s, p))
                 \/ SweepDeadlines(w) \/ (\E x \in Exports : SweepNext(w, x)) \/ TryAssemble(w)
          PROVE  failures' = failures
      BY <2>1 DEF RequestExport, CreateExport, PublishExportRequested, EnqueueRun,
                  RunExport, RunMkdir, RunSkip, RunPartSave, RunProvidersDone,
                  MarkPartReady, SweepDeadlines, SweepNext, TryAssemble
    <2>2. ASSUME \/ GaugeParts(w) \/ JudgeMissing(w) \/ SaveArchive(w) \/ PublishReady(w)
                 \/ CleanStaging(w) \/ (\E x \in Exports : Download(w, x) \/ PurgeExpired(w, x))
                 \/ ConsumeDownloadToken(w) \/ OpenArchive(w) \/ ForgetArchive(w)
                 \/ ExpireUpdate(w)
          PROVE  failures' = failures
      BY <2>2 DEF GaugeParts, JudgeMissing, SaveArchive, PublishReady, CleanStaging, Download,
                  PurgeExpired, ConsumeDownloadToken, OpenArchive, ForgetArchive, ExpireUpdate
    <2>3. ASSUME RequestFails(w) \/ AssemblyFails(w) \/ Crash(w) PROVE FALSE
      BY <1>1, <2>3 DEF RequestFails, AssemblyFails, Crash
    <2>4. ASSUME NEW s \in Services, RunProvider(w, s) PROVE failures' = failures
      BY <1>1, <2>4 DEF RunProvider
    <2>5. ASSUME DownloadBucketParts(w) PROVE failures' = failures
      BY <1>1, <2>5 DEF DownloadBucketParts
    <2>6. ASSUME PurgeBucketParts(w) PROVE failures' = failures
      BY <1>1, <2>6 DEF PurgeBucketParts
    <2>7. ASSUME NEW from, NEW to, DeleteArchive(w, from, to) PROVE failures' = failures
      BY <1>1, <2>7 DEF DeleteArchive
    <2> QED BY <1>2, <2>1, <2>2, <2>3, <2>4, <2>5, <2>6, <2>7 DEF OneStep
  <1>3. ASSUME \/ \E x \in Exports, s \in Services, p \in PeerPaths : PeerCompletes(x, s, p)
               \/ Tick \/ UNCHANGED vars
        PROVE  failures' = failures
    BY <1>3 DEF PeerCompletes, Tick, vars
  <1> QED BY <1>2, <1>3, Steps

\* The assembler that holds an archive gives it up only by announcing it.
LEMMA HoldsArchive ==
  ASSUME ExportTypeInv, [Next]_vars, failures' = 0, NEW w \in Workers, pc[w] = "ready"
  PROVE  \/ Stays(w)
         \/ on[w] \in Exports /\ minted'[on[w]] = minted[on[w]] + 1
  <1>0. /\ failures \in Nat /\ minted \in [Exports -> Nat] /\ on[w] \in Exports
    BY ExportAssumption DEF ExportTypeInv, ExportTypeOK, CallsLocated, Located, Building
  <1>1. CASE OneStep(w)
    <2>1. PublishReady(w) \/ AssemblyFails(w) \/ Crash(w)
      <3>2. ~(RequestExport(w) \/ CreateExport(w) \/ PublishExportRequested(w) \/ EnqueueRun(w)
              \/ RequestFails(w) \/ RunMkdir(w) \/ RunPartSave(w) \/ RunProvidersDone(w)
              \/ SweepDeadlines(w) \/ TryAssemble(w) \/ GaugeParts(w) \/ DownloadBucketParts(w)
              \/ JudgeMissing(w) \/ SaveArchive(w) \/ CleanStaging(w) \/ PurgeBucketParts(w)
              \/ ConsumeDownloadToken(w) \/ OpenArchive(w) \/ ForgetArchive(w) \/ ExpireUpdate(w)
              \/ DeleteArchive(w, "drop", "forget") \/ DeleteArchive(w, "expire", "expired"))
        BY DEF RequestExport, CreateExport, PublishExportRequested, EnqueueRun, RequestFails,
               RunMkdir, RunPartSave, RunProvidersDone, SweepDeadlines, TryAssemble, GaugeParts,
               DownloadBucketParts, JudgeMissing, SaveArchive, CleanStaging, PurgeBucketParts,
               ConsumeDownloadToken, OpenArchive, ForgetArchive, ExpireUpdate, DeleteArchive, Enter
      <3>3. ASSUME NEW x \in Exports
            PROVE  ~(SweepNext(w, x) \/ Download(w, x) \/ PurgeExpired(w, x))
        BY DEF SweepNext, Download, PurgeExpired, Enter
      <3>4. ASSUME NEW x \in Exports PROVE ~RunExport(w, x)
        BY DEF RunExport, Enter
      <3>5. ASSUME NEW s \in Services PROVE ~(RunSkip(w, s) \/ RunProvider(w, s))
        BY DEF RunSkip, RunProvider
      <3>6. ASSUME NEW x \in Exports, NEW s \in Services, NEW p \in PeerPaths
            PROVE  ~MarkPartReady(w, x, s, p)
        BY DEF MarkPartReady, Enter
      <3> QED BY <1>1, <3>2, <3>3, <3>4, <3>5, <3>6 DEF OneStep
    <2>2. ~(AssemblyFails(w) \/ Crash(w))
      BY <1>0 DEF AssemblyFails, Crash, Fails
    <2>3. CASE PublishReady(w)
      BY <1>0, <2>3 DEF PublishReady
    <2> QED BY <1>0, <2>1, <2>2, <2>3
  <1> QED BY <1>1, OwnCalls

LEMMA CleanInit == Init => CleanInv
  <1> SUFFICES ASSUME Init PROVE CleanInv
    OBVIOUS
  <1>1. \A x \in Exports : RowClean(x)
    BY DEF Init, RowClean, NoArchive
  <1>2. \A v \in Workers : CallClean(v)
    BY DEF Init, CallClean
  <1> QED BY <1>1, <1>2, LifeInit DEF CleanInv

\* Where nobody is about to write an archive, none is added.
LEMMA NoneAdded ==
  ASSUME ExportTypeInv, [Next]_vars, NEW x \in Exports,
         \A w \in Workers : ~At(w, {"zip"}, x)
  PROVE  /\ \A n : OnlyArchive(x, n) => OnlyArchive(x, n)'
         /\ NoArchive(x) => NoArchive(x)'
  <1>1. \A a \in store' : a.export = x => a \in store
    BY FileSteps DEF FileStep, StoreStep, Saves
  <1> QED BY <1>1 DEF OnlyArchive, NoArchive

\* An announced export, or one whose archive is written, has nobody about to write one.
LEMMA NoWriter ==
  ASSUME LifeInv, NEW x \in Exports,
         minted[x] > 0 \/ \E v \in Workers : At(v, {"ready"}, x)
  PROVE  \A w \in Workers : ~At(w, {"zip"}, x)
  <1> SUFFICES ASSUME NEW w \in Workers, At(w, {"zip"}, x) PROVE FALSE
    OBVIOUS
  <1>1. minted[x] = 0
    BY Unannounced DEF At, Building
  <1>2. ASSUME NEW v \in Workers, At(v, {"ready"}, x) PROVE FALSE
    BY <1>2 DEF LifeInv, Alone, At, Building
  <1> QED BY <1>1, <1>2

LEMMA MintedForward ==
  ASSUME ExportTypeInv, [Next]_vars, NEW x \in Exports
  PROVE  /\ minted[x] \in Nat /\ minted'[x] \in Nat
         /\ \/ minted'[x] = minted[x]
            \/ minted'[x] = minted[x] + 1 /\ \E w \in Workers : Publishes(w, x)
  <1>1. minted[x] \in Nat
    BY DEF ExportTypeInv, ExportTypeOK
  <1>2. RowStep(x)
    BY RowSteps
  <1>3. CASE \E w \in Workers : Publishes(w, x)
    <2>1. PICK w \in Workers : Publishes(w, x)
      BY <1>3
    <2>2. minted'[x] = minted[x] + 1
      BY <2>1 DEF Publishes
    <2> QED BY <1>1, <1>3, <2>2
  <1>4. CASE ~\E w \in Workers : Publishes(w, x)
    <2>1. Kept(x)
      BY <1>2, <1>4 DEF RowStep, Collects, GivesUp, Spends, Serves, Forgets, Expires
    <2> QED BY <1>1, <2>1 DEF Kept
  <1> QED BY <1>3, <1>4

LEMMA RowCleanStep ==
  ASSUME CleanInv, [Next]_vars, failures' = 0, NEW x \in Exports
  PROVE  RowClean(x)'
  <1>0. /\ LifeInv /\ ExportTypeInv /\ failures = 0 /\ RowClean(x) /\ RowLife(x)
        /\ \A v \in Workers : CallClean(v)
    BY FaultFree DEF CleanInv, LifeInv
  <1>m. /\ minted[x] \in Nat /\ minted'[x] \in Nat
        /\ \/ minted'[x] = minted[x]
           \/ minted'[x] = minted[x] + 1 /\ \E w \in Workers : Publishes(w, x)
    BY <1>0, MintedForward
  <1>1. ASSUME minted'[x] = 0
        PROVE  NoArchive(x)' \/ \E w \in Workers : pc'[w] = "ready" /\ on'[w] = x
    <2>0. minted[x] = 0
      BY <1>m, <1>1
    <2>1. CASE \E w \in Workers, a \in store' : Saves(w, x, a)
      BY <2>1 DEF Saves
    <2>2. CASE NoArchive(x) /\ ~\E w \in Workers, a \in store' : Saves(w, x, a)
      BY <1>0, <2>2, FileSteps DEF FileStep, StoreStep, NoArchive
    <2>3. CASE \E w \in Workers : pc[w] = "ready" /\ on[w] = x
      <3>1. PICK w \in Workers : pc[w] = "ready" /\ on[w] = x
        BY <2>3
      <3>2. Stays(w)
        BY <1>0, <1>1, <2>0, <3>1, HoldsArchive
      <3> QED BY <3>1, <3>2 DEF Stays
    <2> QED BY <1>0, <2>0, <2>1, <2>2, <2>3 DEF RowClean
  <1>2. ASSUME minted'[x] > 0
        PROVE  OnlyArchive(x, archive[x])' /\ (status'[x] = "expired" => NoArchive(x)')
    <2>1. CASE \E w \in Workers : Publishes(w, x)
      <3>1. PICK w \in Workers : Publishes(w, x)
        BY <2>1
      <3>2. At(w, {"ready"}, x) /\ archive'[x] = held[w] /\ status'[x] = "ready"
        BY <3>1 DEF Publishes, At
      <3>3. OnlyArchive(x, held[w])
        BY <1>0, <3>2 DEF CallClean, At
      <3>4. PICK n : n = held[w]
        OBVIOUS
      <3>5. OnlyArchive(x, n)'
        BY <1>0, <3>2, <3>3, <3>4, NoWriter, NoneAdded
      <3> QED BY <3>2, <3>4, <3>5 DEF OnlyArchive
    <2>2. CASE ~\E w \in Workers : Publishes(w, x)
      <3>1. minted[x] > 0
        BY <1>m, <1>2, <2>2
      <3>2. /\ \A n : OnlyArchive(x, n) => OnlyArchive(x, n)'
            /\ NoArchive(x) => NoArchive(x)'
        BY <1>0, <3>1, NoWriter, NoneAdded
      <3>3. OnlyArchive(x, archive[x]) /\ (status[x] = "expired" => NoArchive(x))
        BY <1>0, <3>1 DEF RowClean
      <3>4. CASE \E w \in Workers : Forgets(w, x) \/ Expires(w, x)
        <4>1. NoArchive(x)
          BY <1>0, <3>4 DEF Forgets, Expires, CallClean
        <4> QED BY <3>2, <4>1 DEF NoArchive, OnlyArchive
      <3>5. CASE ~\E w \in Workers : Forgets(w, x) \/ Expires(w, x)
        <4>1. ASSUME NEW w \in Workers, GivesUp(w, x) PROVE FALSE
          BY <4>1 DEF GivesUp
        <4>2. archive'[x] = archive[x] /\ (status'[x] = "expired" => status[x] = "expired")
          BY <1>0, <2>2, <3>5, <4>1, RowSteps
          DEF RowStep, KeptRow, Collects, Spends, Serves, Open
        <4>3. PICK n : n = archive[x]
          OBVIOUS
        <4>4. OnlyArchive(x, n)' /\ (status'[x] = "expired" => NoArchive(x)')
          BY <3>2, <3>3, <4>2, <4>3
        <4> QED BY <4>2, <4>3, <4>4 DEF OnlyArchive
      <3> QED BY <3>4, <3>5
    <2> QED BY <2>1, <2>2
  <1>3. status'[x] = "expired" => minted'[x] > 0
    <2>1. RowLife(x)' /\ minted'[x] \in Nat
      BY <1>0, <1>m, LifeStep DEF LifeInv
    <2> QED BY <2>1 DEF RowLife
  <1> QED BY <1>m, <1>1, <1>2, <1>3 DEF RowClean

LEMMA CallCleanStays ==
  ASSUME CleanInv, [Next]_vars, failures' = 0, NEW v \in Workers, Stays(v)
  PROVE  CallClean(v)'
  <1>0. LifeInv /\ ExportTypeInv /\ CallClean(v)
    BY FaultFree DEF CleanInv, LifeInv
  <1>1. CASE pc[v] \in {"ready", "consume", "open", "drop", "expire", "forget", "expired"}
    <2>1. PICK x \in Exports : x = on[v] /\ (minted[x] > 0 \/ At(v, {"ready"}, x))
      BY <1>0, <1>1, Announced, Unannounced DEF After, Building, At
    <2>2. PICK n : n = held[v]
      OBVIOUS
    <2>3. /\ OnlyArchive(x, n) => OnlyArchive(x, n)'
          /\ NoArchive(x) => NoArchive(x)'
      BY <1>0, <2>1, NoWriter, NoneAdded
    <2>4. on'[v] = x /\ held'[v] = n /\ pc'[v] = pc[v]
      BY <2>1, <2>2 DEF Stays
    <2> QED BY <1>0, <2>1, <2>2, <2>3, <2>4 DEF CallClean, OnlyArchive, NoArchive
  <1>2. CASE pc[v] \notin {"ready", "consume", "open", "drop", "expire", "forget", "expired"}
    BY <1>2 DEF CallClean, Stays
  <1> QED BY <1>1, <1>2

LEMMA CallCleanMoves ==
  ASSUME CleanInv, [Next]_vars, failures' = 0, NEW v \in Workers, OneStep(v)
  PROVE  CallClean(v)'
  <1>0. /\ LifeInv /\ ExportTypeInv /\ CallClean(v) /\ (\A x \in Exports : RowClean(x) /\ RowLife(x))
        /\ on \in [Workers -> Exports \cup {NoExport}] /\ held \in [Workers -> Nat]
        /\ minted \in [Exports -> Nat] /\ failures \in Nat
        /\ pc[v] \in Located => on[v] \in Exports
    BY FaultFree, ExportAssumption
    DEF CleanInv, LifeInv, ExportTypeInv, ExportTypeOK, CallsLocated
  <1>1. CASE pc'[v] \notin {"ready", "consume", "open", "drop", "expire", "forget", "expired"}
    BY <1>1 DEF CallClean
  <1>2. CASE pc'[v] = "ready" /\ SaveArchive(v)
    <2>1. PICK x \in Exports : x = on[v] /\ At(v, {"zip"}, x) /\ minted[x] = 0
      <3>1. pc[v] = "zip"
        BY <1>2 DEF SaveArchive
      <3> QED BY <1>0, <3>1, Unannounced DEF At, Building
    <2>2. NoArchive(x)
      <3>1. ~\E w \in Workers : pc[w] = "ready" /\ on[w] = x
        BY <1>0, <2>1, NoWriter DEF At
      <3> QED BY <1>0, <2>1, <3>1 DEF RowClean
    <2>3. PICK n, h : n = saved'[on[v]] /\ h = ZipContents(v)
      OBVIOUS
    <2>4. store' = store \cup {[export |-> x, n |-> n, has |-> h]} /\ held'[v] = n /\ on'[v] = x
      BY <1>0, <1>2, <2>1, <2>3 DEF SaveArchive, Goto
    <2>5. \A a \in store' : a.export = x => a.n = n
      BY <2>2, <2>4 DEF NoArchive
    <2> QED BY <1>2, <2>4, <2>5 DEF CallClean, OnlyArchive
  <1>3. ASSUME NEW x \in Exports, pc'[v] \in {"consume", "expire"},
               Download(v, x) \/ PurgeExpired(v, x)
        PROVE  CallClean(v)'
    <2>1. minted[x] > 0
      BY <1>0, <1>3 DEF Download, PurgeExpired, Stale, Orphan, RowLife
    <2>2. OnlyArchive(x, archive[x])
      BY <1>0, <2>1 DEF RowClean
    <2>3. held'[v] = archive[x] /\ on'[v] = x /\ store' = store
      BY <1>0, <1>3 DEF Download, PurgeExpired, Enter, files
    <2> QED BY <1>3, <2>2, <2>3 DEF CallClean, OnlyArchive
  <1>4. CASE pc'[v] = "open" /\ ConsumeDownloadToken(v)
    <2>1. /\ pc[v] = "consume" /\ store' = store
          /\ on'[v] = on[v] /\ held'[v] = held[v]
      <3>1. Unspent(on[v])
        BY <1>0, <1>4 DEF ConsumeDownloadToken, Return, Leave, ExportTypeInv, ExportTypeOK
      <3> QED BY <1>4, <3>1 DEF ConsumeDownloadToken, Goto, job, files
    <2> QED BY <1>0, <1>4, <2>1 DEF CallClean, OnlyArchive
  <1>5. CASE pc'[v] = "drop" /\ OpenArchive(v)
    <2>1. /\ pc[v] = "open" /\ store' = store
          /\ on'[v] = on[v] /\ held'[v] = held[v]
      <3>1. Stored(on[v], held[v])
        BY <1>0, <1>5 DEF OpenArchive, Return, Leave, ExportTypeInv, ExportTypeOK
      <3> QED BY <1>5, <3>1 DEF OpenArchive, Goto, job, files
    <2> QED BY <1>0, <1>5, <2>1 DEF CallClean, OnlyArchive
  <1>6. ASSUME NEW from \in {"drop", "expire"}, NEW to \in {"forget", "expired"},
               pc'[v] = to, DeleteArchive(v, from, to)
        PROVE  CallClean(v)'
    <2>1. /\ pc[v] = from /\ on'[v] = on[v]
          /\ store' = {a \in store : a.export # on[v] \/ a.n # held[v]}
      BY <1>0, <1>6 DEF DeleteArchive, Fails, Goto
    <2>2. OnlyArchive(on[v], held[v])
      BY <1>0, <1>6, <2>1 DEF CallClean
    <2> QED BY <1>6, <2>1, <2>2 DEF CallClean, OnlyArchive, NoArchive
  <1> QED
    BY <1>0, <1>1, <1>2, <1>3, <1>4, <1>5, <1>6, Arrivals, CallCleanStays DEF Arrival

LEMMA CleanStep == CleanInv /\ [Next]_vars => CleanInv'
  <1> SUFFICES ASSUME CleanInv, [Next]_vars PROVE CleanInv'
    OBVIOUS
  <1>1. LifeInv' /\ ExportTypeInv
    BY LifeStep DEF CleanInv, LifeInv
  <1>2. ASSUME failures' = 0, NEW v \in Workers PROVE CallClean(v)'
    BY <1>1, <1>2, OwnCalls, CallCleanStays, CallCleanMoves
  <1>3. ASSUME failures' = 0, NEW x \in Exports PROVE RowClean(x)'
    BY <1>3, RowCleanStep
  <1> QED BY <1>1, <1>2, <1>3 DEF CleanInv

\* As long as nothing failed, an expired export has no archive left in the store,
\* whether the download that spent it or purge_expired_exports deleted the archive, and
\* however the two overlap.
THEOREM ExpiredGone == Spec => []ExpiredMeansGone
  <1>1. CleanInv => ExpiredMeansGone
    BY DEF CleanInv, RowClean, NoArchive, ExpiredMeansGone
  <1> QED BY <1>1, CleanInit, CleanStep, PTL DEF Spec

(***************************************************************************)
(* As long as nothing fails: what is not called partial is complete        *)
(***************************************************************************)

\* A section that is done is staged, or empty, or a slice in the bucket, until the
\* archive is announced; then it is in the archive, unless that one is called partial.
RowComplete(x) ==
    /\ status[x] # "absent" => \A s \in Services : part[x][s] # "absent"
    /\ minted[x] = 0 => \A s \in Services : part[x][s] = "done" =>
          s \in staging[x] \/ path[x][s] = "empty" \/ (path[x][s] = "key" /\ <<x, s>> \in bucket)
    /\ minted[x] > 0 /\ ~partial[x] => \A s \in Services :
          part[x][s] = "done" /\ (s \in shipped[x] \/ path[x][s] = "empty")

\* The same for what a call knows: a provider fails only when an archive was announced
\* without it, and an assembler that has seen no gap has everything staged, then zipped.
CallComplete(v) ==
    /\ pc[v] = "wrote" /\ minted[on[v]] = 0 => cur[v] \in staging[on[v]]
    /\ pc[v] \in {"provider", "wrote"} => dir[on[v]] \/ minted[on[v]] > 0
    /\ pc[v] = "raised" => minted[on[v]] > 0 /\ partial[on[v]]
    /\ pc[v] \in {"download", "judge", "zip", "ready"} /\ ~gap[v] =>
          \A s \in Services : part[on[v]][s] = "done"
    /\ pc[v] \in {"judge", "zip"} /\ ~gap[v] =>
          \A s \in Services : s \in staging[on[v]] \/ path[on[v]][s] = "empty"
    /\ pc[v] = "ready" /\ ~gap[v] => \A a \in store : a.export = on[v] /\ a.n = held[v] =>
          \A s \in Services : s \in a.has \/ path[on[v]][s] = "empty"

CompleteInv ==
    /\ FilesInv /\ CleanInv
    /\ failures = 0 => /\ \A x \in Exports : RowComplete(x)
                       /\ \A v \in Workers : CallComplete(v)

LEMMA CompleteInit == Init => CompleteInv
  <1> SUFFICES ASSUME Init PROVE CompleteInv
    OBVIOUS
  <1>1. \A x \in Exports : RowComplete(x)
    BY DEF Init, RowComplete
  <1>2. \A v \in Workers : CallComplete(v)
    BY DEF Init, CallComplete
  <1> QED BY <1>1, <1>2, FilesInit, CleanInit DEF CompleteInv

\* What a failure-free step keeps of an export's sections: a section that is done
\* stays done, unless the archive was announced as partial, and keeps its path until
\* it is shipped.
LEMMA DoneStays ==
  ASSUME CompleteInv, [Next]_vars, failures' = 0, NEW x \in Exports, NEW s \in Services,
         status[x] # "absent", part[x][s] = "done", minted[x] = 0 \/ ~partial[x]
  PROVE  /\ part'[x][s] = "done"
         /\ path'[x][s] = path[x][s] \/ (minted[x] > 0 /\ s \in shipped[x])
  <1>0. /\ LifeInv /\ ExportTypeInv /\ FilesInv
        /\ minted[x] \in Nat
        /\ \A v \in Workers : CallComplete(v) /\ CallFiles(v)
        /\ RowComplete(x)
    BY FaultFree DEF CompleteInv, CleanInv, FilesInv, LifeInv, ExportTypeInv, ExportTypeOK
  <1>1. PartStep(x, s) /\ PathStep(x, s)
    BY <1>0, FileSteps DEF FileStep
  <1>2. ~Marks1(x, s)
    BY DEF Marks1
  <1>3. ASSUME NEW w \in Workers, At(w, {"raised"}, x) PROVE FALSE
    BY <1>0, <1>3 DEF At, CallComplete
  <1>5. part'[x][s] = "done"
    BY <1>1, <1>2, <1>3 DEF PartStep
  <1>6. ASSUME NEW w \in Workers, At(w, {"purge"}, x), s \in got[w]
        PROVE  minted[x] > 0 /\ s \in shipped[x]
    BY <1>0, <1>6, Announced DEF At, CallFiles, After
  <1> QED BY <1>1, <1>2, <1>5, <1>6 DEF PathStep

LEMMA RowCompleteStep ==
  ASSUME CompleteInv, [Next]_vars, failures' = 0, NEW x \in Exports
  PROVE  RowComplete(x)'
  <1>0. /\ LifeInv /\ ExportTypeInv /\ FilesInv /\ RowComplete(x) /\ RowLife(x) /\ NoSliceLost
        /\ \A v \in Workers : CallComplete(v) /\ CallFiles(v)
    BY FaultFree DEF CompleteInv, CleanInv, FilesInv, LifeInv
  <1>m. /\ minted[x] \in Nat /\ minted'[x] \in Nat
        /\ \/ minted'[x] = minted[x]
           \/ minted'[x] = minted[x] + 1 /\ \E w \in Workers : Publishes(w, x)
    BY <1>0, MintedForward
  <1>1. ASSUME status'[x] # "absent", NEW s \in Services PROVE part'[x][s] # "absent"
    <2>1. PartStep(x, s)
      BY <1>0, FileSteps DEF FileStep
    <2>2. CASE part'[x][s] # part[x][s]
      BY <2>1, <2>2 DEF PartStep, Marks1
    <2>3. CASE status[x] # "absent" /\ part'[x][s] = part[x][s]
      BY <1>0, <2>3 DEF RowComplete
    <2>4. CASE status[x] = "absent"
      <3>1. Collects(x)
        <4>1. ASSUME NEW w \in Workers, GivesUp(w, x) \/ Publishes(w, x) PROVE FALSE
          BY <1>0, <2>4, <4>1, Unannounced DEF GivesUp, Publishes, Building
        <4>2. ASSUME NEW w \in Workers,
                     Spends(w, x) \/ Serves(w, x) \/ Forgets(w, x) \/ Expires(w, x)
              PROVE  FALSE
          BY <1>0, <2>4, <4>2, Announced DEF Spends, Serves, Forgets, Expires, After
        <4> QED BY <1>0, <1>1, <2>4, <4>1, <4>2, RowSteps DEF RowStep, KeptRow
      <3> QED BY <2>4, <3>1 DEF Collects, Open
    <2> QED BY <2>2, <2>3, <2>4
  <1>2. ASSUME minted'[x] = 0, NEW s \in Services, part'[x][s] = "done"
        PROVE  \/ s \in staging'[x] \/ path'[x][s] = "empty"
               \/ path'[x][s] = "key" /\ <<x, s>> \in bucket'
    <2>0. minted[x] = 0
      BY <1>m, <1>2
    <2>1. /\ staging[x] \subseteq staging'[x]
          /\ <<x, s>> \in bucket => <<x, s>> \in bucket'
          /\ path'[x][s] = path[x][s] \/ Marks1(x, s)
      BY <1>0, <2>0, NothingTakenAway
    <2>2. CASE Marks1(x, s)
      <3>1. path'[x][s] = "key" => <<x, s>> \in bucket
        BY <1>0, <2>0, <2>2 DEF Marks1, NoSliceLost, RowLife
      <3> QED BY <2>1, <2>2, <3>1 DEF Marks1
    <2>3. CASE ~Marks1(x, s) /\ part[x][s] = "done"
      BY <1>0, <2>0, <2>1, <2>3 DEF RowComplete
    <2>4. CASE \E w \in Workers : At(w, {"wrote"}, x) /\ cur[w] = s
      BY <1>0, <2>0, <2>1, <2>4 DEF At, CallComplete
    <2>5. PartStep(x, s)
      BY <1>0, FileSteps DEF FileStep
    <2> QED BY <1>2, <2>2, <2>3, <2>4, <2>5 DEF PartStep
  <1>3. ASSUME minted'[x] > 0, ~partial'[x], NEW s \in Services
        PROVE  part'[x][s] = "done" /\ (s \in shipped'[x] \/ path'[x][s] = "empty")
    <2>1. CASE \E w \in Workers : Publishes(w, x)
      <3>1. PICK w \in Workers : Publishes(w, x)
        BY <2>1
      <3>2. /\ pc[w] = "ready" /\ on[w] = x /\ ~gap[w]
            /\ shipped'[x] = UNION {a.has : a \in {b \in store : b.export = x /\ b.n = held[w]}}
        BY <1>3, <3>1 DEF Publishes
      <3>3. minted[x] = 0 /\ status[x] # "absent"
        BY <1>0, <3>2, Unannounced DEF Building
      <3>4. PICK a \in store : a.export = x /\ a.n = held[w]
        BY <1>0, <3>2 DEF CallFiles
      <3>5. part[x][s] = "done" /\ (s \in a.has \/ path[x][s] = "empty")
        BY <1>0, <3>2, <3>4 DEF CallComplete
      <3>6. part'[x][s] = "done" /\ path'[x][s] = path[x][s]
        BY <1>m, <3>3, <3>5, DoneStays
      <3>7. a.has \subseteq shipped'[x]
        BY <3>2, <3>4
      <3> QED BY <3>5, <3>6, <3>7
    <2>2. CASE ~\E w \in Workers : Publishes(w, x)
      <3>1. minted[x] > 0
        BY <1>m, <1>3, <2>2
      <3>2. Kept(x)
        BY <1>0, <2>2, RowSteps DEF RowStep, Collects, GivesUp, Spends, Serves, Forgets, Expires
      <3>3. /\ ~partial[x] /\ shipped'[x] = shipped[x] /\ status[x] # "absent"
            /\ part[x][s] = "done" /\ (s \in shipped[x] \/ path[x][s] = "empty")
        BY <1>0, <1>3, <3>1, <3>2 DEF Kept, RowComplete, RowLife
      <3> QED BY <3>3, DoneStays
    <2> QED BY <2>1, <2>2
  <1> QED BY <1>1, <1>2, <1>3 DEF RowComplete

LEMMA CallCompleteStays ==
  ASSUME CompleteInv, [Next]_vars, failures' = 0, NEW v \in Workers, Stays(v)
  PROVE  CallComplete(v)'
  <1>0. /\ LifeInv /\ ExportTypeInv /\ CallComplete(v)
        /\ pc[v] \in Located => on[v] \in Exports
    BY FaultFree DEF CompleteInv, CleanInv, FilesInv, LifeInv, ExportTypeInv, CallsLocated
  <1>1. CASE pc[v] \in {"provider", "wrote", "raised"}
    <2>1. PICK x \in Exports : x = on[v]
      BY <1>0, <1>1 DEF Located
    <2>2. /\ minted[x] \in Nat /\ minted'[x] \in Nat
          /\ minted'[x] = minted[x] \/ minted'[x] = minted[x] + 1
      BY <1>0, MintedForward
    <2>3. minted[x] = 0 => staging[x] \subseteq staging'[x] /\ (dir[x] => dir'[x])
      BY <1>0, NothingTakenAway
    <2>4. minted[x] > 0 => partial'[x] = partial[x]
      <3>1. ASSUME minted[x] > 0, NEW w \in Workers, Publishes(w, x) PROVE FALSE
        BY <1>0, <3>1, Unannounced DEF Publishes, Building
      <3>2. minted[x] > 0 => Kept(x)
        BY <1>0, <3>1, RowSteps DEF RowStep, Collects, GivesUp, Spends, Serves, Forgets, Expires
      <3> QED BY <3>2 DEF Kept
    <2>5. minted'[x] = 0 => minted[x] = 0
      BY <2>2
    <2>6. minted[x] > 0 => minted'[x] > 0
      BY <2>2
    <2>7. minted[x] = 0 \/ minted[x] > 0
      BY <2>2
    <2>8. /\ pc'[v] = pc[v] /\ on'[v] = x /\ cur'[v] = cur[v]
      BY <2>1 DEF Stays
    <2> QED BY <1>0, <1>1, <2>1, <2>3, <2>4, <2>5, <2>6, <2>7, <2>8 DEF CallComplete
  <1>2. CASE pc[v] \in {"download", "judge", "zip", "ready"}
    <2>1. PICK x \in Exports : x = on[v] /\ minted[x] = 0 /\ status[x] = "assembling"
      BY <1>0, <1>2, Unannounced DEF Building
    <2>2. /\ pc'[v] = pc[v] /\ on'[v] = x /\ gap'[v] = gap[v] /\ held'[v] = held[v]
      BY <2>1 DEF Stays
    <2>3. ASSUME NEW s \in Services, ~gap[v]
          PROVE  part[x][s] = "done" /\ part'[x][s] = "done" /\ path'[x][s] = path[x][s]
      <3>1. part[x][s] = "done"
        BY <1>0, <1>2, <2>1, <2>3 DEF CallComplete
      <3> QED BY <2>1, <3>1, DoneStays
    <2>4. staging[x] \subseteq staging'[x]
      BY <1>0, <2>1, NothingTakenAway
    <2>5. pc[v] = "ready" => \A a \in store' : a.export = x => a \in store
      <3>1. pc[v] = "ready" => \A w \in Workers : ~At(w, {"zip"}, x)
        BY <1>0, <2>1, NoWriter DEF At
      <3> QED BY <1>0, <3>1, FileSteps DEF FileStep, StoreStep, Saves
    <2> QED BY <1>0, <1>2, <2>1, <2>2, <2>3, <2>4, <2>5 DEF CallComplete
  <1>3. CASE pc[v] \notin {"provider", "wrote", "raised", "download", "judge", "zip", "ready"}
    BY <1>3 DEF CallComplete, Stays
  <1> QED BY <1>1, <1>2, <1>3

LEMMA CallCompleteMoves ==
  ASSUME CompleteInv, [Next]_vars, failures' = 0, NEW v \in Workers, OneStep(v)
  PROVE  CallComplete(v)'
  <1>0. /\ LifeInv /\ ExportTypeInv /\ CallComplete(v)
        /\ \A x \in Exports : RowComplete(x) /\ RowLife(x) /\ RowClean(x)
        /\ pc[v] \in Located => on[v] \in Exports
    BY FaultFree DEF CompleteInv, CleanInv, FilesInv, LifeInv, ExportTypeInv, CallsLocated
  <1>t. /\ failures \in Nat /\ minted \in [Exports -> Nat] /\ cur \in [Workers -> Services \cup {NoService}]
        /\ gap \in [Workers -> BOOLEAN] /\ dir \in [Exports -> BOOLEAN]
        /\ staging \in [Exports -> SUBSET Services] /\ pc \in [Workers -> Pc]
        /\ part \in [Exports -> [Services -> {"absent", "pending", "done", "failed"}]]
        /\ path \in [Exports -> [Services -> {"none", "key", "empty"}]]
        /\ held \in [Workers -> Nat] /\ partial \in [Exports -> BOOLEAN]
    BY <1>0, ExportAssumption DEF ExportTypeInv, ExportTypeOK
  <1>f. ASSUME NEW kind, Fails(kind) PROVE FALSE
    BY <1>t, <1>f DEF Fails
  <1>1. CASE pc'[v] \notin {"provider", "wrote", "raised", "download", "judge", "zip", "ready"}
    BY <1>1 DEF CallComplete
  <1>2. CASE pc'[v] = "provider" /\ RunMkdir(v)
    <2>1. on[v] \in Exports /\ on'[v] = on[v]
      BY <1>0, <1>2 DEF RunMkdir, Located, Goto
    <2>2. dir'[on[v]] = TRUE
      BY <1>t, <1>2, <2>1 DEF RunMkdir
    <2> QED BY <1>2, <2>1, <2>2 DEF CallComplete
  <1>3. CASE pc'[v] = "provider" /\ RunPartSave(v)
    <2>1. /\ pc[v] \in {"wrote", "raised"} /\ on'[v] = on[v]
          /\ dir' = dir /\ minted' = minted
      BY <1>3 DEF RunPartSave, Goto, files, history
    <2> QED BY <1>0, <1>3, <2>1 DEF CallComplete
  <1>4. ASSUME NEW s \in Services, RunProvider(v, s), pc'[v] \in {"wrote", "raised"}
        PROVE  CallComplete(v)'
    <2>1. PICK x \in Exports : x = on[v]
      BY <1>0, <1>4 DEF RunProvider, Located
    <2>2. /\ pc[v] = "provider" /\ on'[v] = x /\ cur'[v] = s /\ part[x][s] \notin {"absent", "done"}
          /\ dir' = dir /\ minted' = minted /\ partial' = partial
      BY <1>t, <1>4, <2>1 DEF RunProvider, Goto, row, history
    <2>3. \/ /\ dir[x] /\ staging'[x] = staging[x] \cup {s} /\ pc'[v] = "wrote"
          \/ ~dir[x] /\ pc'[v] = "raised"
      <3>1. CASE dir[x] /\ staging' = [staging EXCEPT ![x] = @ \cup {s}] /\ Goto(v, "wrote")
        BY <1>t, <3>1 DEF Goto
      <3>2. CASE ~dir[x] /\ Goto(v, "raised")
        BY <1>t, <3>2 DEF Goto
      <3> QED BY <1>f, <1>4, <2>1, <3>1, <3>2 DEF RunProvider
    <2>4. CASE dir[x] /\ staging'[x] = staging[x] \cup {s} /\ pc'[v] = "wrote"
      BY <2>2, <2>4 DEF CallComplete
    <2>5. CASE ~dir[x] /\ pc'[v] = "raised"
      <3>1. minted[x] > 0
        BY <1>0, <2>1, <2>2, <2>5 DEF CallComplete
      <3>2. partial[x]
        BY <1>0, <2>2, <3>1 DEF RowComplete
      <3> QED BY <2>2, <2>5, <3>1, <3>2 DEF CallComplete
    <2> QED BY <2>3, <2>4, <2>5
  <1>5. CASE pc'[v] = "download" /\ GaugeParts(v)
    <2>1. PICK x \in Exports : x = on[v] /\ status[x] = "assembling"
      BY <1>0, <1>5, Unannounced DEF GaugeParts, Building
    <2>2. /\ on'[v] = x /\ part' = part /\ gap'[v] = ~AllPartsDone(x)
      BY <1>t, <1>5, <2>1 DEF GaugeParts, Goto
    <2>3. ASSUME ~gap'[v], NEW s \in Services PROVE part'[x][s] = "done"
      BY <1>0, <2>1, <2>2, <2>3 DEF AllPartsDone, RowComplete
    <2> QED BY <1>5, <2>2, <2>3 DEF CallComplete
  <1>6. CASE pc'[v] = "judge" /\ DownloadBucketParts(v)
    <2>1. PICK x \in Exports : x = on[v] /\ minted[x] = 0
      BY <1>0, <1>6, Unannounced DEF DownloadBucketParts, Building
    <2>2. /\ pc[v] = "download" /\ on'[v] = x /\ part' = part /\ path' = path /\ gap'[v] = gap[v]
      BY <1>6, <2>1 DEF DownloadBucketParts, Goto
    <2> DEFINE here == {s \in {q \in Done(x) : path[x][q] # "none"} \ staging[x] :
                           IsSafeBucketPath(path[x][s]) /\ <<x, s>> \in bucket}
    <2>3. staging' = [staging EXCEPT ![x] = @ \cup here]
      <3> DEFINE there(y) == {s \in {q \in Done(y) : path[y][q] # "none"} \ staging[y] :
                                IsSafeBucketPath(path[y][s]) /\ <<y, s>> \in bucket}
      <3>0. \E lost \in SUBSET there(on[v]) :
               /\ IF lost = {} THEN UNCHANGED failures ELSE Fails("bucket")
               /\ staging' = [staging EXCEPT ![on[v]] = @ \cup (there(on[v]) \ lost)]
        BY <1>6, ZenonT(40) DEF DownloadBucketParts
      <3>a. there(x) = here
        OBVIOUS
      <3> HIDE DEF here, there
      <3>1. PICK lost \in SUBSET here :
               /\ IF lost = {} THEN UNCHANGED failures ELSE Fails("bucket")
               /\ staging' = [staging EXCEPT ![x] = @ \cup (here \ lost)]
        BY <2>1, <3>0, <3>a
      <3>2. lost = {}
        BY <1>f, <3>1
      <3>3. here \ {} = here
        OBVIOUS
      <3> QED BY <3>1, <3>2, <3>3
    <2>4. staging'[x] = staging[x] \cup here
      BY <1>t, <2>3
    <2>5. ASSUME ~gap[v], NEW s \in Services
          PROVE  part[x][s] = "done" /\ (s \in staging'[x] \/ path[x][s] = "empty")
      <3>1. part[x][s] = "done"
        BY <1>0, <2>1, <2>2, <2>5 DEF CallComplete
      <3>2. s \in staging[x] \/ path[x][s] = "empty" \/ (path[x][s] = "key" /\ <<x, s>> \in bucket)
        BY <1>0, <2>1, <3>1 DEF RowComplete
      <3>3. s \notin staging[x] /\ path[x][s] = "key" /\ <<x, s>> \in bucket => s \in here
        BY <3>1 DEF Done, IsSafeBucketPath
      <3> HIDE DEF here
      <3> QED BY <2>4, <3>1, <3>2, <3>3
    <2> QED BY <1>6, <2>2, <2>5 DEF CallComplete
  <1>7. CASE pc'[v] = "zip" /\ JudgeMissing(v)
    <2>1. /\ pc[v] = "judge" /\ on'[v] = on[v] /\ part' = part /\ path' = path
          /\ staging' = staging /\ (~gap'[v] => ~gap[v])
      BY <1>t, <1>7 DEF JudgeMissing, Goto, files
    <2> QED BY <1>0, <1>7, <2>1 DEF CallComplete
  <1>8. CASE pc'[v] = "ready" /\ SaveArchive(v)
    <2>1. PICK x \in Exports : x = on[v] /\ At(v, {"zip"}, x) /\ minted[x] = 0
      <3>1. pc[v] = "zip"
        BY <1>8 DEF SaveArchive
      <3> QED BY <1>0, <3>1, Unannounced DEF At, Building
    <2>2. NoArchive(x)
      <3>1. ~\E w \in Workers : pc[w] = "ready" /\ on[w] = x
        BY <1>0, <2>1, NoWriter DEF At
      <3> QED BY <1>0, <2>1, <3>1 DEF RowClean
    <2>3. PICK n, h : n = saved'[on[v]] /\ h = staging[x]
      OBVIOUS
    <2>4. /\ store' = store \cup {[export |-> x, n |-> n, has |-> h]} /\ on'[v] = x
          /\ gap'[v] = gap[v] /\ part' = part /\ path' = path /\ pc[v] = "zip"
      BY <1>8, <2>1, <2>3 DEF SaveArchive, ZipContents, Goto
    <2>5. \A a \in store' : a.export = x => a.has = h
      BY <2>2, <2>4 DEF NoArchive
    <2>6. ASSUME ~gap[v], NEW s \in Services
          PROVE  part[x][s] = "done" /\ (s \in h \/ path[x][s] = "empty")
      BY <1>0, <2>1, <2>3, <2>4, <2>6 DEF CallComplete
    <2> QED BY <1>8, <2>4, <2>5, <2>6 DEF CallComplete
  <1> QED
    BY <1>0, <1>1, <1>2, <1>3, <1>4, <1>5, <1>6, <1>7, <1>8, Arrivals, CallCompleteStays
    DEF Arrival

LEMMA CompleteStep == CompleteInv /\ [Next]_vars => CompleteInv'
  <1> SUFFICES ASSUME CompleteInv, [Next]_vars PROVE CompleteInv'
    OBVIOUS
  <1>1. FilesInv' /\ CleanInv' /\ ExportTypeInv
    BY FilesStep, CleanStep DEF CompleteInv, CleanInv, LifeInv
  <1>2. ASSUME failures' = 0, NEW v \in Workers PROVE CallComplete(v)'
    BY <1>1, <1>2, OwnCalls, CallCompleteStays, CallCompleteMoves
  <1>3. ASSUME failures' = 0, NEW x \in Exports PROVE RowComplete(x)'
    BY <1>3, RowCompleteStep
  <1> QED BY <1>1, <1>2, <1>3 DEF CompleteInv

\* As long as nothing failed, an archive _assemble_zip does not call partial has every
\* section the person is owed, however providers, peers' reports, the deadline sweep
\* and assemblies interleave.
THEOREM Complete == Spec => []CompleteArchive
  <1>1. CompleteInv => CompleteArchive
    BY DEF CompleteInv, RowComplete, CompleteArchive, Owed, Expected, Services
  <1> QED BY <1>1, CompleteInit, CompleteStep, PTL DEF Spec

(***************************************************************************)
(* The export implements Delivery                                          *)
(***************************************************************************)

KeptAll(x) == Kept(x) /\ KeptToken(x) /\ KeptRow(x)

\* A step touches one export at most.
LEMMA OneRow ==
  ASSUME ExportTypeInv, NEW w \in Workers, OneStep(w)
  PROVE  \E y : \A x \in Exports : x # y => KeptAll(x)
  <1>0. /\ status \in [Exports -> Status] /\ archive \in [Exports -> Nat]
        /\ partial \in [Exports -> BOOLEAN] /\ token \in [Exports -> BOOLEAN]
        /\ consumed \in [Exports -> BOOLEAN] /\ expires \in [Exports -> Nat]
        /\ minted \in [Exports -> Nat] /\ served \in [Exports -> Nat]
        /\ shipped \in [Exports -> SUBSET Services]
    BY DEF ExportTypeInv, ExportTypeOK
  <1> DEFINE Only(y) == \A x \in Exports : x # y => KeptAll(x)
  <1>1. ASSUME UNCHANGED <<row, history>> PROVE \E y : Only(y)
    BY <1>1 DEF KeptAll, Kept, KeptToken, KeptRow, row, history
  <1>2. ASSUME CreateExport(w) PROVE \E y : Only(y)
    <2>1. PICK y \in Exports : status' = [status EXCEPT ![y] = "pending"]
      BY <1>2 DEF CreateExport
    <2>2. UNCHANGED <<archive, partial, token, consumed, expires, history>>
      BY <1>2 DEF CreateExport
    <2>3. Only(y)
      BY <1>0, <2>1, <2>2 DEF KeptAll, Kept, KeptToken, KeptRow, history
    <2> QED BY <2>3
  <1>3. ASSUME NEW y \in Exports, RunExport(w, y) PROVE Only(y)
    BY <1>0, <1>3 DEF RunExport, KeptAll, Kept, KeptToken, KeptRow, history
  <1>4. ASSUME TryAssemble(w) \/ AssemblyFails(w) PROVE Only(on[w])
    BY <1>0, <1>4 DEF TryAssemble, AssemblyFails, KeptAll, Kept, KeptToken, KeptRow, history
  <1>5. ASSUME PublishReady(w) PROVE Only(on[w])
    BY <1>0, <1>5 DEF PublishReady, KeptAll, Kept, KeptToken, KeptRow
  <1>6. ASSUME ConsumeDownloadToken(w) \/ OpenArchive(w) PROVE Only(on[w])
    BY <1>0, <1>6 DEF ConsumeDownloadToken, OpenArchive, KeptAll, Kept, KeptToken, KeptRow, row,
                      history
  <1>7. ASSUME ForgetArchive(w) \/ ExpireUpdate(w) PROVE Only(on[w])
    BY <1>0, <1>7 DEF ForgetArchive, ExpireUpdate, KeptAll, Kept, KeptToken, KeptRow, history
  <1>8. ASSUME \/ RequestExport(w) \/ PublishExportRequested(w) \/ EnqueueRun(w)
               \/ RequestFails(w) \/ RunMkdir(w) \/ RunPartSave(w) \/ RunProvidersDone(w)
               \/ (\E s \in Services : RunSkip(w, s) \/ RunProvider(w, s))
        PROVE  UNCHANGED <<row, history>>
    BY <1>8 DEF RequestExport, PublishExportRequested, EnqueueRun, RequestFails, RunMkdir,
                RunPartSave, RunProvidersDone, RunSkip, RunProvider
  <1>9. ASSUME \/ (\E y \in Exports, s \in Services, p \in PeerPaths : MarkPartReady(w, y, s, p))
               \/ SweepDeadlines(w) \/ GaugeParts(w) \/ DownloadBucketParts(w)
               \/ (\E y \in Exports : SweepNext(w, y) \/ Download(w, y) \/ PurgeExpired(w, y))
        PROVE  UNCHANGED <<row, history>>
    BY <1>9 DEF MarkPartReady, SweepDeadlines, SweepNext, GaugeParts, DownloadBucketParts,
                Download, PurgeExpired
  <1>10. ASSUME \/ JudgeMissing(w) \/ SaveArchive(w) \/ CleanStaging(w) \/ PurgeBucketParts(w)
                \/ DeleteArchive(w, "drop", "forget") \/ DeleteArchive(w, "expire", "expired")
                \/ Crash(w)
         PROVE  UNCHANGED <<row, history>>
    BY <1>10 DEF JudgeMissing, SaveArchive, CleanStaging, PurgeBucketParts, DeleteArchive, Crash
  <1> HIDE DEF Only
  <1>11. \E y : Only(y)
    BY <1>1, <1>2, <1>3, <1>4, <1>5, <1>6, <1>7, <1>8, <1>9, <1>10 DEF OneStep
  <1> QED BY <1>11 DEF Only

\* The ways one export moves, as Delivery has them.
KeptOffer(x) == /\ shipped'[x] = shipped[x] /\ partial'[x] = partial[x]
                /\ expires'[x] = expires[x]

Moves(x) ==
    \/ Progress(x)' = Progress(x) /\ KeptOffer(x) /\ served'[x] = served[x]
    \/ /\ Progress(x) = "none" /\ Progress(x)' = "asked"
       /\ KeptOffer(x) /\ served'[x] = served[x]
    \/ /\ Progress(x) = "asked" /\ Progress(x)' = "offered"
       /\ expires'[x] = now + Ttl /\ served'[x] = served[x]
    \/ /\ Progress(x) = "offered" /\ Progress(x)' = "taken"
       /\ KeptOffer(x) /\ served'[x] = served[x]
    \/ /\ Progress(x) = "taken" /\ Progress(x)' = "handed"
       /\ KeptOffer(x) /\ served'[x] = served[x] + 1
    \/ /\ Progress(x) = "offered" /\ Progress(x)' = "withdrawn" /\ expires[x] <= now
       /\ KeptOffer(x) /\ served'[x] = served[x]

LEMMA RowMoves ==
  ASSUME LifeInv, [Next]_vars, NEW x \in Exports
  PROVE  Moves(x)
  <1>0. /\ ExportTypeInv /\ RowLife(x) /\ minted[x] \in Nat /\ served[x] \in Nat
        /\ consumed[x] \in BOOLEAN /\ consumed'[x] \in BOOLEAN
    BY ExportTypeStep DEF LifeInv, ExportTypeInv, ExportTypeOK
  <1>1. RowStep(x)
    BY <1>0, RowSteps
  <1>2. CASE Kept(x) /\ KeptToken(x) /\ KeptRow(x)
    BY <1>2 DEF Kept, KeptToken, KeptRow, Moves, KeptOffer, Progress, Exists
  <1>3. CASE Collects(x)
    BY <1>0, <1>3
    DEF Collects, Kept, KeptToken, RowLife, Moves, KeptOffer, Progress, Exists, Open
  <1>4. ASSUME NEW w \in Workers, GivesUp(w, x) PROVE Moves(x)
    <2>1. minted[x] = 0 /\ status[x] = "assembling"
      BY <1>4, Unannounced DEF GivesUp, Building
    <2> QED BY <1>4, <2>1 DEF GivesUp, Kept, KeptToken, Moves, KeptOffer, Progress, Exists
  <1>5. ASSUME NEW w \in Workers, Publishes(w, x) PROVE Moves(x)
    <2>1. minted[x] = 0 /\ status[x] = "assembling"
      BY <1>5, Unannounced DEF Publishes, Building
    <2> QED BY <1>0, <1>5, <2>1 DEF Publishes, Moves, Progress, Exists
  <1>6. ASSUME NEW w \in Workers, Spends(w, x) PROVE Moves(x)
    <2>1. minted[x] > 0 /\ status[x] = "ready" /\ served[x] = 0
      BY <1>0, <1>6, Announced DEF Spends, After, RowLife
    <2> QED BY <1>0, <1>6, <2>1 DEF Spends, Kept, KeptRow, Moves, KeptOffer, Progress
  <1>7. ASSUME NEW w \in Workers, Serves(w, x) PROVE Moves(x)
    <2>1. minted[x] > 0 /\ consumed[x] /\ served[x] = 0
      BY <1>0, <1>7, Announced DEF Serves, After, LifeInv, CallLife
    <2> QED BY <1>0, <1>7, <2>1 DEF Serves, Kept, KeptRow, Moves, KeptOffer, Progress
  <1>8. ASSUME NEW w \in Workers, Forgets(w, x) PROVE Moves(x)
    BY <1>8 DEF Forgets, Kept, KeptToken, Moves, KeptOffer, Progress, Exists
  <1>9. ASSUME NEW w \in Workers, Expires(w, x) PROVE Moves(x)
    <2>1. minted[x] > 0 /\ (consumed[x] \/ expires[x] <= now)
      BY <1>0, <1>9, Announced DEF Expires, After, LifeInv, CallLife
    <2> QED BY <1>0, <1>9, <2>1 DEF Expires, Kept, Moves, KeptOffer, Progress
  <1> QED BY <1>1, <1>2, <1>3, <1>4, <1>5, <1>6, <1>7, <1>8, <1>9 DEF RowStep

LEMMA DeliveryInit == Init => Promise!Init
  BY DEF Init, Promise!Init, Progress, Exists

LEMMA DeliveryStep == LifeInv /\ [Next]_vars => [Promise!Next]_(Promise!vars)
  <1> SUFFICES ASSUME LifeInv, [Next]_vars PROVE [Promise!Next]_(Promise!vars)
    OBVIOUS
  <1> DEFINE stage == [x \in Exports |-> Progress(x)]
  <1>0. /\ ExportTypeInv /\ ExportTypeInv'
        /\ partial \in [Exports -> BOOLEAN] /\ partial' \in [Exports -> BOOLEAN]
        /\ expires \in [Exports -> Nat] /\ expires' \in [Exports -> Nat]
        /\ served \in [Exports -> Nat] /\ served' \in [Exports -> Nat]
        /\ shipped \in [Exports -> SUBSET Services] /\ shipped' \in [Exports -> SUBSET Services]
    BY ExportTypeStep DEF LifeInv, ExportTypeInv, ExportTypeOK
  <1>1. ASSUME UNCHANGED <<row, history>> PROVE UNCHANGED <<stage, shipped, partial, expires, served>>
    BY <1>1 DEF row, history, Progress, Exists
  <1>2. CASE Tick
    <2>1. UNCHANGED <<row, history>> /\ now' = now + 1
      BY <1>2 DEF Tick
    <2> QED BY <1>1, <2>1 DEF Promise!Next, Promise!Pass
  <1>3. CASE \/ \E x \in Exports, s \in Services, p \in PeerPaths : PeerCompletes(x, s, p)
             \/ UNCHANGED vars
    <2>1. UNCHANGED <<row, history>> /\ now' = now
      BY <1>3 DEF PeerCompletes, vars, world
    <2> QED BY <1>1, <2>1 DEF Promise!vars
  <1>4. ASSUME NEW w \in Workers, OneStep(w) PROVE [Promise!Next]_(Promise!vars)
    <2>1. now' = now
      BY <1>4, NoTime
    <2>2. PICK y : \A x \in Exports : x # y => KeptAll(x)
      BY <1>0, <1>4, OneRow
    <2>3. \A x \in Exports : x # y =>
             /\ Progress(x)' = Progress(x) /\ KeptOffer(x) /\ served'[x] = served[x]
      BY <2>2 DEF KeptAll, Kept, KeptToken, KeptRow, KeptOffer, Progress, Exists
    <2>4. ASSUME \A x \in Exports : /\ Progress(x)' = Progress(x) /\ KeptOffer(x)
                                    /\ served'[x] = served[x]
          PROVE  UNCHANGED Promise!vars
      BY <1>0, <2>1, <2>4 DEF KeptOffer, Promise!vars
    <2>5. CASE y \notin Exports
      BY <2>3, <2>4, <2>5
    <2>6. CASE y \in Exports
      <3>1. Moves(y)
        BY <2>6, RowMoves
      <3>2. stage' = [stage EXCEPT ![y] = Progress(y)'] /\ stage[y] = Progress(y)
        BY <2>3, <2>6
      <3>3. ASSUME KeptOffer(y) PROVE shipped' = shipped /\ partial' = partial /\ expires' = expires
        BY <1>0, <2>3, <3>3 DEF KeptOffer
      <3>4. ASSUME served'[y] = served[y] PROVE served' = served
        BY <1>0, <2>3, <3>4
      <3>5. CASE Progress(y)' = Progress(y) /\ KeptOffer(y) /\ served'[y] = served[y]
        BY <2>3, <2>4, <3>5
      <3>6. CASE /\ Progress(y) = "none" /\ Progress(y)' = "asked"
                 /\ KeptOffer(y) /\ served'[y] = served[y]
        <4>1. Promise!Ask(y)
          BY <2>1, <2>6, <3>2, <3>3, <3>4, <3>6 DEF Promise!Ask, Promise!Becomes
        <4> QED BY <2>6, <4>1 DEF Promise!Next
      <3>7. CASE /\ Progress(y) = "asked" /\ Progress(y)' = "offered"
                 /\ expires'[y] = now + Ttl /\ served'[y] = served[y]
        <4>1. /\ shipped' = [shipped EXCEPT ![y] = shipped'[y]]
              /\ partial' = [partial EXCEPT ![y] = partial'[y]]
              /\ expires' = [expires EXCEPT ![y] = now + Ttl]
          BY <1>0, <2>3, <3>7 DEF KeptOffer
        <4>2. PICK sections \in SUBSET Services, gaps \in BOOLEAN :
                 sections = shipped'[y] /\ gaps = partial'[y]
          BY <1>0, <2>6
        <4>3. Promise!Offer(y, sections, gaps)
          BY <2>1, <2>6, <3>2, <3>4, <3>7, <4>1, <4>2 DEF Promise!Offer, Promise!Becomes
        <4> QED BY <2>6, <4>3 DEF Promise!Next
      <3>8. CASE /\ Progress(y) = "offered" /\ Progress(y)' = "taken"
                 /\ KeptOffer(y) /\ served'[y] = served[y]
        <4>1. Promise!Take(y)
          BY <2>1, <2>6, <3>2, <3>3, <3>4, <3>8 DEF Promise!Take, Promise!Becomes
        <4> QED BY <2>6, <4>1 DEF Promise!Next
      <3>9. CASE /\ Progress(y) = "taken" /\ Progress(y)' = "handed"
                 /\ KeptOffer(y) /\ served'[y] = served[y] + 1
        <4>1. served' = [served EXCEPT ![y] = served[y] + 1]
          BY <1>0, <2>3, <3>9
        <4>2. Promise!Hand(y)
          BY <2>1, <2>6, <3>2, <3>3, <3>9, <4>1 DEF Promise!Hand, Promise!Becomes
        <4> QED BY <2>6, <4>2 DEF Promise!Next
      <3>10. CASE /\ Progress(y) = "offered" /\ Progress(y)' = "withdrawn" /\ expires[y] <= now
                  /\ KeptOffer(y) /\ served'[y] = served[y]
        <4>1. Promise!Withdraw(y)
          BY <2>1, <2>6, <3>2, <3>3, <3>4, <3>10 DEF Promise!Withdraw, Promise!Becomes
        <4> QED BY <2>6, <4>1 DEF Promise!Next
      <3> QED BY <3>1, <3>5, <3>6, <3>7, <3>8, <3>9, <3>10 DEF Moves
    <2> QED BY <2>5, <2>6
  <1> QED BY <1>2, <1>3, <1>4, Steps

\* The export implements Delivery for any number of exports, workers, peers and
\* faults: an offer is made once and is final, it is spent or withdrawn once, never
\* withdrawn before its window has closed, and one copy at most is handed over.
THEOREM Deliveries == Spec => ImplementsDelivery
  BY DeliveryInit, DeliveryStep, LifeInit, LifeStep, PTL
  DEF Spec, ImplementsDelivery, Promise!Spec
=============================================================================
