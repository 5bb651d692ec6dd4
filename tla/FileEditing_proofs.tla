------------------------- MODULE FileEditing_proofs -------------------------
(***************************************************************************)
(* Proofs about FileEditing, for every set of files, users and workers.    *)
(***************************************************************************)
EXTENDS FileEditing, FiniteSetTheorems, TLAPS

\* What a job relies on between two steps: the version it carries is one of the
\* item it carries, written by the user it acts for (or uploaded by the app),
\* and the parts of its record its place in the code reads are there.
JobOK(j) ==
    /\ j.op = "start" => j.file \in Files
    /\ j.op = "finish" => j.file \in Files /\ j.id \in Ids /\ j.lock # NoLock
    /\ j.pc = "guard" => j.op = "start" /\ j.id \in Ids
    /\ j.pc \in {"download", "put"} => j.op = "start"
    /\ j.pc \in {"token", "delta", "page", "save"} => j.op \in {"process", "finish"}
    /\ j.pc \in {"locks", "next"} => j.op = "process"
    /\ j.pc \in {"item", "clear", "delete"} => j.op = "finish"
    /\ j.pc \in {"getLock", "upsert"} =>
         /\ j.op \in {"start", "process", "finish"}
         /\ j.id \in Ids /\ j.file \in Files
         /\ j.item # 0 /\ log[j.item].id = j.id /\ log[j.item].by \in {j.user, App}
    /\ j.pc \in {"check", "read", "write"} =>
         j.op \in {"process", "finish"} /\ j.id \in Ids /\ j.file \in Files
    /\ j.pc \in {"list", "sweep"} => j.op = "clean"
    /\ j.op = "clean" => j.todo = {}
    /\ \A c \in j.todo : c.item # 0 => log[c.item].id = c.id
    /\ j.op = "process" /\ j.pc \in {"next", "getLock", "upsert", "check", "read", "write"} =>
         \A c \in j.todo : c.lock # NoLock

JobsOK == \A k \in Workers : JobOK(job[k])

\* The version the drive holds of an item is a version of that item.
ItemsOK == \A i \in Ids : items[i] # 0 => log[items[i]].id = i

IInv == TypeOK /\ ItemsOK /\ JobsOK /\ LockVouchesForOwner

-----------------------------------------------------------------------------
(* Facts about the operators of the model.                                  *)

\* Appending a change keeps every earlier entry where it was.
LEMMA AppendEntry ==
    ASSUME NEW S, NEW s \in Seq(S), NEW e \in S
    PROVE  /\ Append(s, e) \in Seq(S)
           /\ Len(s) \in Nat
           /\ Len(Append(s, e)) = Len(s) + 1
           /\ \A n \in 1 .. Len(s) : Append(s, e)[n] = s[n]
           /\ Append(s, e)[Len(s) + 1] = e
  OBVIOUS

\* The log only ever grows: what it had stays where it was.
Extends(longer, s) ==
    /\ s \in Seq(LogEntry) /\ longer \in Seq(LogEntry)
    /\ Len(s) \in Nat /\ Len(longer) \in Nat /\ Len(s) <= Len(longer)
    /\ \A n \in 1 .. Len(s) : longer[n] = s[n]

\* Appending a change is one way to extend it.
LEMMA AppendExtends ==
    ASSUME NEW s \in Seq(LogEntry), NEW e \in LogEntry
    PROVE  Extends(Append(s, e), s)
  BY AppendEntry DEF Extends

\* A lock row, a found item and a job stay of their type when the log grows.
LEMMA TypesGrow ==
    ASSUME NEW m \in Nat, NEW n \in Nat, m <= n
    PROVE  /\ LockOrNone(m) \subseteq LockOrNone(n)
           /\ Found(m) \subseteq Found(n)
           /\ Job(m) \subseteq Job(n)
  <1>1. LockOrNone(m) \subseteq LockOrNone(n)
    BY DEF LockOrNone, LockRow
  <1>2. Found(m) \subseteq Found(n)
    BY <1>1 DEF Found
  <1>3. SUBSET (1 .. m) \subseteq SUBSET (1 .. n) /\ 0 .. m \subseteq 0 .. n
    OBVIOUS
  <1>4. Job(m) \subseteq Job(n)
    BY <1>1, <1>2, <1>3 DEF Job
  <1> QED BY <1>1, <1>2, <1>4

\* A worker that runs nothing is in order, whatever the log.
LEMMA IdleIsAJob ==
    ASSUME NEW n \in Nat
    PROVE  Idle \in Job(n) /\ JobOK(Idle)
  BY DEF Idle, Job, JobOK, LockOrNone, Operations, Places

\* A step that leaves the drive alone and gives one worker another record keeps
\* the invariant when the record is in order and the locks still vouch.
LEMMA OneJobStep ==
    ASSUME IInv, NEW k \in Workers, NEW j \in Job(Len(log)), JobOK(j),
           job' = [job EXCEPT ![k] = j],
           UNCHANGED <<log, items, folders, removed>>,
           locks' \in [Ids -> LockOrNone(Len(log))], LockVouchesForOwner',
           blob' \in [Files -> Nat], token' \in 0 .. Len(log), queue' \in 0 .. MaxQueue,
           fetched' \in 0 .. Len(log), faulted' \in BOOLEAN
    PROVE  IInv'
  <1>1. TypeOK'
    BY DEF IInv, TypeOK
  <1>2. ItemsOK'
    BY DEF IInv, ItemsOK
  <1>3. JobsOK'
    <2> SUFFICES ASSUME NEW w \in Workers PROVE JobOK(job[w])'
      BY DEF JobsOK
    <2>1. JobOK(job[w])' = JobOK(job'[w])
      BY DEF JobOK
    <2>2. CASE w = k BY <2>1, <2>2 DEF IInv, TypeOK
    <2>3. CASE w # k BY <2>1, <2>3 DEF IInv, TypeOK, JobsOK
    <2> QED BY <2>2, <2>3
  <1> QED BY <1>1, <1>2, <1>3 DEF IInv

\* A step in which the drive records changes, after which each item it holds is
\* in a version of its own, keeps the invariant when the jobs that change are in
\* order: what the other jobs and the locks say of earlier versions stays true.
LEMMA GrowStep ==
    ASSUME IInv, Extends(log', log),
           items' \in [Ids -> 0 .. Len(log')],
           \A x \in Ids : items'[x] # 0 => items'[x] = items[x] \/ log'[items'[x]].id = x,
           job' \in [Workers -> Job(Len(log'))],
           \A w \in Workers : job'[w] = job[w] \/ JobOK(job[w])',
           UNCHANGED <<locks, blob, token, fetched>>,
           queue' \in 0 .. MaxQueue, faulted' \in BOOLEAN,
           folders' \in [Folders -> 0 .. Len(log')], removed' \subseteq Ids
    PROVE  IInv'
  <1>1. /\ log' \in Seq(LogEntry) /\ Len(log) \in Nat /\ Len(log') \in Nat
        /\ Len(log) <= Len(log')
        /\ \A n \in 1 .. Len(log) : log'[n] = log[n]
    BY DEF Extends
  <1>2. TypeOK'
    <2>1. locks' \in [Ids -> LockOrNone(Len(log'))]
      BY <1>1, TypesGrow DEF IInv, TypeOK
    <2>2. token' \in 0 .. Len(log') /\ fetched' \in 0 .. Len(log')
      BY <1>1 DEF IInv, TypeOK
    <2> QED BY <1>1, <2>1, <2>2 DEF IInv, TypeOK
  <1>3. ItemsOK'
    <2> SUFFICES ASSUME NEW x \in Ids, items'[x] # 0, items'[x] = items[x]
                 PROVE  log'[items'[x]].id = x
      BY DEF ItemsOK
    <2>1. items[x] \in 1 .. Len(log)
      BY <1>1 DEF IInv, TypeOK
    <2> QED BY <1>1, <2>1 DEF IInv, ItemsOK
  <1>4. JobsOK'
    <2> SUFFICES ASSUME NEW w \in Workers, job'[w] = job[w] PROVE JobOK(job[w])'
      BY DEF JobsOK
    <2>1. job[w] \in Job(Len(log)) /\ JobOK(job[w])
      BY DEF IInv, TypeOK, JobsOK
    <2>2. \A n \in 0 .. Len(log) : n # 0 => log'[n] = log[n]
      BY <1>1
    <2>3. job[w].item # 0 => log'[job[w].item] = log[job[w].item]
      BY <2>1, <2>2 DEF Job
    <2>4. \A c \in job[w].todo : c.item # 0 => log'[c.item] = log[c.item]
      BY <2>1, <2>2 DEF Job, Found
    <2> QED BY <2>1, <2>3, <2>4, ZenonT(40) DEF JobOK
  <1>5. LockVouchesForOwner'
    <2> SUFFICES ASSUME NEW x \in Ids, locks[x] # NoLock
                 PROVE  LET r == log'[locks[x].etag] IN r.id = x /\ r.by \in {locks[x].user, App}
      BY DEF LockVouchesForOwner
    <2>1. locks[x].etag \in 1 .. Len(log)
      BY DEF IInv, TypeOK, LockOrNone, LockRow
    <2> QED BY <1>1, <2>1 DEF IInv, LockVouchesForOwner
  <1> QED BY <1>2, <1>3, <1>4, <1>5 DEF IInv

\* In particular a step that records one change, of item i, which the drive then
\* has in that version or not at all.
LEMMA DriveStep ==
    ASSUME IInv, NEW i \in Ids, NEW f \in Files, NEW by \in Users \cup {App}, NEW data \in Nat,
           log' = Append(log, Entry(i, f, by, data)),
           NEW v, v = 0 \/ v = Len(log) + 1, items' = [items EXCEPT ![i] = v],
           job' \in [Workers -> Job(Len(log) + 1)],
           \A w \in Workers : job'[w] = job[w] \/ JobOK(job[w])',
           UNCHANGED <<locks, blob, token, fetched>>,
           queue' \in 0 .. MaxQueue, faulted' \in BOOLEAN,
           folders' \in [Folders -> 0 .. Len(log) + 1], removed' \subseteq Ids
    PROVE  IInv'
  <1> DEFINE e == Entry(i, f, by, data)
  <1>1. log \in Seq(LogEntry) /\ e \in LogEntry
    BY DEF IInv, TypeOK, LogEntry, Entry
  <1>2. /\ Len(log) \in Nat /\ Len(log') = Len(log) + 1
        /\ log'[Len(log) + 1] = e
    BY <1>1, AppendEntry
  <1>3. Extends(log', log)
    BY <1>1, AppendExtends
  <1>4. items' \in [Ids -> 0 .. Len(log')]
    BY <1>2 DEF IInv, TypeOK
  <1>5. \A x \in Ids : items'[x] # 0 => items'[x] = items[x] \/ log'[items'[x]].id = x
    BY <1>2 DEF IInv, TypeOK, Entry
  <1>6. job' \in [Workers -> Job(Len(log'))] /\ folders' \in [Folders -> 0 .. Len(log')]
    BY <1>2
  <1> QED BY <1>3, <1>4, <1>5, <1>6, GrowStep

\* An entry of the log, and the item and the file it names, are of their types.
LEMMA TheEntry ==
    ASSUME IInv, NEW n \in 1 .. Len(log)
    PROVE  /\ log[n].id \in Ids /\ log[n].file \in Files
           /\ log[n].by \in Users \cup {App} /\ log[n].data \in Nat
  <1>1. log \in Seq(LogEntry)
    BY DEF IInv, TypeOK
  <1>2. log[n] \in LogEntry
    BY <1>1
  <1> QED BY <1>2 DEF LogEntry

\* The job of a worker is of its type and in order.
LEMMA TheJob ==
    ASSUME IInv, NEW k \in Workers
    PROVE  /\ Len(log) \in Nat
           /\ job[k] \in Job(Len(log))
           /\ JobOK(job[k])
  BY DEF IInv, TypeOK, JobsOK

\* The same for a step that changes nothing but the job.
LEMMA QuietStep ==
    ASSUME IInv, NEW k \in Workers, NEW j \in Job(Len(log)), JobOK(j),
           job' = [job EXCEPT ![k] = j],
           UNCHANGED <<log, items, locks, blob, token, queue, fetched, faulted, folders, removed>>
    PROVE  IInv'
  <1>1. LockVouchesForOwner'
    BY DEF IInv, LockVouchesForOwner
  <1> QED BY <1>1, OneJobStep DEF IInv, TypeOK

-----------------------------------------------------------------------------
(* One lemma per group of actions: each keeps IInv.                         *)

\* StartFileEditInSpo up to the upload: the job only looks and downloads.
LEMMA StartSteps ==
    ASSUME IInv, NEW k \in Workers,
           \/ \E u \in Users, f \in Files : StartEdit(k, u, f)
           \/ StartGuard(k) \/ StartDownload(k)
    PROVE  IInv'
  <1>0. Len(log) \in Nat /\ job[k] \in Job(Len(log)) /\ JobOK(job[k])
    BY TheJob
  <1>1. ASSUME NEW u \in Users, NEW f \in Files, StartEdit(k, u, f) PROVE IInv'
    <2> DEFINE new(i) == [Idle EXCEPT !.op = "start", !.pc = "guard", !.user = u, !.file = f,
                                      !.id = i]
               j == [Idle EXCEPT !.op = "start", !.pc = "download", !.user = u, !.file = f]
    <2>1. CASE job' = [job EXCEPT ![k] = j]
      <3>1. j \in Job(Len(log))
        BY <1>0, IdleIsAJob DEF Job, Operations, Places
      <3>2. JobOK(j)
        BY DEF Idle, JobOK
      <3> QED BY <1>1, <2>1, <3>1, <3>2, QuietStep DEF StartEdit
    <2>2. ASSUME NEW i \in Ids, job' = [job EXCEPT ![k] = new(i)] PROVE IInv'
      <3>1. new(i) \in Job(Len(log))
        BY <1>0, IdleIsAJob, ZenonT(40) DEF Job, Operations, Places
      <3>2. JobOK(new(i))
        BY DEF Idle, JobOK
      <3> QED BY <1>1, <2>2, <3>1, <3>2, QuietStep DEF StartEdit
    <2> QED BY <1>1, <2>1, <2>2 DEF StartEdit, ItemWithPath, Live
  <1>2. CASE StartGuard(k)
    <2>2. CASE Return(k)
      BY <1>0, <1>2, <2>2, IdleIsAJob, QuietStep DEF StartGuard, Return
    <2>3. CASE job' = [job EXCEPT ![k].pc = "download", ![k].id = 0]
      <3> DEFINE j == [job[k] EXCEPT !.pc = "download", !.id = 0]
      <3>1. j \in Job(Len(log))
        BY <1>0 DEF Job, Places
      <3>2. JobOK(j)
        BY <1>0, <1>2 DEF StartGuard, Job, JobOK
      <3>3. job' = [job EXCEPT ![k] = j]
        BY <2>3
      <3> QED BY <1>2, <3>1, <3>2, <3>3, QuietStep DEF StartGuard
    <2> QED BY <1>2, <2>2, <2>3 DEF StartGuard
  <1>3. CASE StartDownload(k)
    <2> DEFINE j == [job[k] EXCEPT !.pc = "put", !.data = blob[job[k].file]]
    <2>1. j \in Job(Len(log))
      BY <1>0, <1>3 DEF StartDownload, Job, JobOK, Places, IInv, TypeOK
    <2>2. JobOK(j)
      BY <1>0, <1>3 DEF StartDownload, Job, JobOK
    <2>3. job' = [job EXCEPT ![k] = j]
      BY <1>3 DEF StartDownload
    <2> QED BY <1>3, <2>1, <2>2, <2>3, QuietStep DEF StartDownload
  <1> QED BY <1>1, <1>2, <1>3

\* A job that ends, or goes on after a caught conflict, leaves the rest in order.
LEMMA ReturnStep ==
    ASSUME IInv, NEW k \in Workers, Return(k),
           UNCHANGED <<log, items, locks, blob, token, queue, fetched, faulted, folders, removed>>
    PROVE  IInv'
  BY TheJob, IdleIsAJob, QuietStep DEF Return

\* A conflict ends the job, or takes the loop over the locks to the next item.
LEMMA ConflictStep ==
    ASSUME IInv, NEW k \in Workers, Conflict(k), job[k].pc \in {"getLock", "check"},
           UNCHANGED <<log, items, locks, blob, token, queue, fetched, faulted, folders, removed>>
    PROVE  IInv'
  <1>1. CASE job[k].op # "process"
    BY <1>1, ReturnStep DEF Conflict, Return, IInv, TypeOK
  <1>2. CASE job[k].op = "process"
    <2> DEFINE j == [job[k] EXCEPT !.pc = "next"]
    <2>1. j \in Job(Len(log))
      BY TheJob DEF Job, Places
    <2>2. JobOK(j)
      BY <1>2, TheJob DEF Job, JobOK
    <2>3. job' = [job EXCEPT ![k] = j]
      BY <1>2 DEF Conflict, IInv, TypeOK
    <2> QED BY <2>1, <2>2, <2>3, QuietStep
  <1> QED BY <1>1, <1>2

\* SetOrUpdateLock: the row written vouches for the version the job brought,
\* which the owner wrote or the app uploaded.
LEMMA SetLockSteps ==
    ASSUME IInv, NEW k \in Workers, SetLockCheck(k) \/ SetLockUpsert(k)
    PROVE  IInv'
  <1>0. Len(log) \in Nat /\ job[k] \in Job(Len(log)) /\ JobOK(job[k])
    BY TheJob
  <1>1. CASE SetLockCheck(k)
    <2>1. CASE Conflict(k)
      BY <1>1, <2>1, ConflictStep DEF SetLockCheck
    <2>2. CASE job' = [job EXCEPT ![k].pc = "upsert"]
      <3> DEFINE j == [job[k] EXCEPT !.pc = "upsert"]
      <3>1. j \in Job(Len(log))
        BY <1>0 DEF Job, Places
      <3>2. JobOK(j)
        BY <1>0, <1>1 DEF SetLockCheck, Job, JobOK
      <3>3. job' = [job EXCEPT ![k] = j]
        BY <2>2
      <3> QED BY <1>1, <3>1, <3>2, <3>3, QuietStep DEF SetLockCheck
    <2> QED BY <1>1, <2>1, <2>2 DEF SetLockCheck
  <1>2. CASE SetLockUpsert(k)
    <2> DEFINE row == FileLock(job[k].user, job[k].item, job[k].file)
    <2>1. /\ job[k].id \in Ids /\ job[k].file \in Files /\ job[k].item \in 1 .. Len(log)
          /\ job[k].user \in Users \cup {App}
          /\ log[job[k].item].id = job[k].id /\ log[job[k].item].by \in {job[k].user, App}
      BY <1>0, <1>2 DEF SetLockUpsert, Job, JobOK
    <2>2. locks' \in [Ids -> LockOrNone(Len(log))]
      <3>1. row \in LockRow(Len(log))
        BY <2>1 DEF FileLock, LockRow
      <3> QED BY <1>2, <3>1 DEF SetLockUpsert, LockOrNone, IInv, TypeOK
    <2>3. LockVouchesForOwner'
      <3> SUFFICES ASSUME NEW i \in Ids, locks'[i] # NoLock
                   PROVE  LET e == log[locks'[i].etag]
                          IN  e.id = i /\ e.by \in {locks'[i].user, App}
        BY <1>2 DEF LockVouchesForOwner, SetLockUpsert
      <3>1. CASE i = job[k].id
        BY <1>2, <2>1, <3>1 DEF SetLockUpsert, FileLock, IInv, TypeOK
      <3>2. CASE i # job[k].id
        BY <1>2, <3>2 DEF SetLockUpsert, IInv, TypeOK, LockVouchesForOwner
      <3> QED BY <3>1, <3>2
    <2>4. CASE Return(k)
      BY <1>0, <1>2, <2>2, <2>3, <2>4, IdleIsAJob, OneJobStep
      DEF SetLockUpsert, Return, IInv, TypeOK
    <2>5. CASE job' = [job EXCEPT ![k].pc = "check"] /\ job[k].op # "start"
      <3> DEFINE j == [job[k] EXCEPT !.pc = "check"]
      <3>1. j \in Job(Len(log))
        BY <1>0 DEF Job, Places
      <3>2. JobOK(j)
        BY <1>0, <1>2, <2>5 DEF SetLockUpsert, Job, JobOK
      <3>3. job' = [job EXCEPT ![k] = j]
        BY <2>5
      <3> QED BY <1>2, <2>2, <2>3, <3>1, <3>2, <3>3, OneJobStep DEF SetLockUpsert, IInv, TypeOK
    <2> QED BY <1>2, <2>4, <2>5 DEF SetLockUpsert
  <1> QED BY <1>1, <1>2

\* UploadSharePointFileToAzureBlob writes the blob and nothing a lock says.
LEMMA UploadSteps ==
    ASSUME IInv, NEW k \in Workers, UploadCheck(k) \/ UploadRead(k) \/ UploadWrite(k)
    PROVE  IInv'
  <1>0. Len(log) \in Nat /\ job[k] \in Job(Len(log)) /\ JobOK(job[k])
    BY TheJob
  <1>1. CASE UploadCheck(k)
    <2>1. CASE Conflict(k)
      BY <1>1, <2>1, ConflictStep DEF UploadCheck
    <2>2. CASE job' = [job EXCEPT ![k].pc = "read"]
      <3> DEFINE j == [job[k] EXCEPT !.pc = "read"]
      <3>1. j \in Job(Len(log))
        BY <1>0 DEF Job, Places
      <3>2. JobOK(j)
        BY <1>0, <1>1 DEF UploadCheck, Job, JobOK
      <3>3. job' = [job EXCEPT ![k] = j]
        BY <2>2
      <3> QED BY <1>1, <3>1, <3>2, <3>3, QuietStep DEF UploadCheck
    <2> QED BY <1>1, <2>1, <2>2 DEF UploadCheck
  <1>2. CASE UploadRead(k)
    <2>1. CASE Return(k)
      BY <1>2, <2>1, ReturnStep DEF UploadRead
    <2>2. ASSUME NEW i \in ItemWithPath(job[k].file),
                 job' = [job EXCEPT ![k].pc = "write", ![k].data = log[items[i]].data]
          PROVE  IInv'
      <3> DEFINE j == [job[k] EXCEPT !.pc = "write", !.data = log[items[i]].data]
      <3>1. log[items[i]] \in LogEntry
        BY <2>2 DEF ItemWithPath, Live, IInv, TypeOK
      <3>2. j \in Job(Len(log))
        BY <1>0, <3>1 DEF Job, Places, LogEntry
      <3>3. JobOK(j)
        BY <1>0, <1>2 DEF UploadRead, Job, JobOK
      <3>4. job' = [job EXCEPT ![k] = j]
        BY <2>2
      <3> QED BY <1>2, <3>2, <3>3, <3>4, QuietStep DEF UploadRead
    <2> QED BY <1>2, <2>1, <2>2 DEF UploadRead
  <1>3. CASE UploadWrite(k)
    <2> DEFINE j == [job[k] EXCEPT !.pc = IF job[k].op = "process" THEN "next" ELSE "clear",
                                   !.data = 0]
    <2>1. j \in Job(Len(log))
      BY <1>0, ZenonT(40) DEF Job, Places
    <2>2. JobOK(j)
      BY <1>0, <1>3 DEF UploadWrite, Job, JobOK
    <2>3. job' = [job EXCEPT ![k] = j]
      BY <1>3 DEF UploadWrite
    <2>4. blob' \in [Files -> Nat]
      BY <1>0, <1>3 DEF UploadWrite, Job, JobOK, IInv, TypeOK
    <2>5. LockVouchesForOwner'
      BY <1>3 DEF UploadWrite, IInv, LockVouchesForOwner
    <2> QED BY <1>3, <2>1, <2>2, <2>3, <2>4, <2>5, OneJobStep DEF UploadWrite, IInv, TypeOK
  <1> QED BY <1>1, <1>2, <1>3

\* A delta response names items.
LEMMA ChangedIds ==
    ASSUME IInv, NEW mark \in 0 .. Len(log)
    PROVE  Changed(mark) \subseteq Ids
  <1>1. \A n \in mark + 1 .. Len(log) : n \in 1 .. Len(log)
    BY DEF IInv, TypeOK
  <1> QED BY <1>1, TheEntry DEF Changed, Live

\* Each of them comes with a version of its own, or none.
LEMMA PageFound ==
    ASSUME IInv, NEW k, NEW ids \in SUBSET Ids
    PROVE  /\ PageOf(k, ids) \subseteq Found(Len(log))
           /\ \A c \in PageOf(k, ids) : c.item # 0 => log[c.item].id = c.id
  BY DEF PageOf, DeltaItem, Found, LockOrNone, IInv, TypeOK, ItemsOK

\* The token and the versions a delta response carries are within the log.
LEMMA DeltaSteps ==
    ASSUME IInv, NEW k \in Workers,
           \/ ProcessSpoUpdates(k) \/ \E i \in Ids : FinishEditing(k, i)
           \/ GetToken(k) \/ GetDelta(k) \/ GetNextPage(k) \/ SaveToken(k)
    PROVE  IInv'
  <1>0. Len(log) \in Nat /\ job[k] \in Job(Len(log)) /\ JobOK(job[k])
    BY TheJob
  <1>1. LockVouchesForOwner' \/ ~UNCHANGED <<log, locks>>
    BY DEF IInv, LockVouchesForOwner
  <1>2. CASE ProcessSpoUpdates(k)
    <2> DEFINE j == [Idle EXCEPT !.op = "process", !.pc = "token"]
    <2>1. j \in Job(Len(log))
      BY <1>0, IdleIsAJob DEF Job, Operations, Places
    <2>2. JobOK(j)
      BY DEF Idle, JobOK
    <2>3. queue' \in 0 .. MaxQueue
      BY <1>2, BoundsAssumption DEF ProcessSpoUpdates, IInv, TypeOK
    <2> QED BY <1>1, <1>2, <2>1, <2>2, <2>3, OneJobStep DEF ProcessSpoUpdates, IInv, TypeOK
  <1>3. ASSUME NEW i \in Ids, FinishEditing(k, i) PROVE IInv'
    <2> DEFINE j == [Idle EXCEPT !.op = "finish", !.pc = "token",
                                 !.id = i, !.lock = locks[i], !.file = locks[i].file]
    <2>1. locks[i] \in LockRow(Len(log)) /\ locks[i] # NoLock
      BY <1>3 DEF FinishEditing, GetLocks, LockOrNone, IInv, TypeOK
    <2>2. locks[i].file \in Files /\ locks[i] \in LockOrNone(Len(log))
      BY <2>1 DEF LockRow, LockOrNone
    <2>3. j \in Job(Len(log))
      BY <1>0, <2>2, IdleIsAJob DEF Job, Operations, Places
    <2>4. JobOK(j)
      BY <2>1, <2>2 DEF Idle, JobOK
    <2> QED BY <1>3, <2>3, <2>4, QuietStep DEF FinishEditing
  <1>4. CASE GetToken(k)
    <2> DEFINE j == [job[k] EXCEPT !.pc = "delta", !.mark = token]
    <2>1. j \in Job(Len(log))
      BY <1>0 DEF Job, Places, IInv, TypeOK
    <2>2. JobOK(j)
      BY <1>0, <1>4 DEF GetToken, Job, JobOK
    <2>3. job' = [job EXCEPT ![k] = j]
      BY <1>4 DEF GetToken
    <2> QED BY <1>4, <2>1, <2>2, <2>3, QuietStep DEF GetToken
  <1>5. CASE GetDelta(k)
    <2> DEFINE changed == Changed(job[k].mark)
               j1 == [job[k] EXCEPT !.pc = "save", !.mark = Len(log),
                                    !.todo = PageOf(k, changed)]
               j2(page) == [job[k] EXCEPT !.pc = "page", !.mark = Len(log),
                                    !.todo = PageOf(k, page), !.ids = changed \ page]
    <2>0. job[k].op \in {"process", "finish"} /\ UNCHANGED <<log, items, folders, removed>>
      BY <1>0, <1>5 DEF GetDelta, JobOK
    <2>1. changed \subseteq Ids
      BY <1>0, ChangedIds DEF Job
    <2>2. CASE job' = [job EXCEPT ![k] = j1] /\ fetched' = Len(log)
      <3>1. /\ PageOf(k, changed) \subseteq Found(Len(log))
            /\ \A c \in PageOf(k, changed) : c.item # 0 => log[c.item].id = c.id
        BY <2>1, PageFound
      <3>2. j1 \in Job(Len(log)) /\ JobOK(j1)
        <4>0. "save" \in Places /\ Len(log) \in 0 .. Len(log)
          BY <1>0 DEF Places
        <4>1. j1 \in Job(Len(log))
          <5> HIDE DEF changed
          <5> QED BY <1>0, <3>1, <4>0 DEF Job
        <4>2. JobOK(j1)
          BY <1>0, <2>0, <3>1 DEF Job, JobOK
        <4> QED BY <4>1, <4>2
      <3>3. fetched' \in 0 .. Len(log)
        BY <1>0, <2>2
      <3> HIDE DEF j1
      <3> QED BY <1>1, <1>5, <2>0, <2>2, <3>2, <3>3, OneJobStep DEF GetDelta, IInv, TypeOK
    <2>3. ASSUME NEW page \in SUBSET changed,
                 job' = [job EXCEPT ![k] = j2(page)], UNCHANGED fetched
          PROVE  IInv'
      <3>1. /\ PageOf(k, page) \subseteq Found(Len(log))
            /\ \A c \in PageOf(k, page) : c.item # 0 => log[c.item].id = c.id
        BY <2>1, PageFound
      <3>2. j2(page) \in Job(Len(log)) /\ JobOK(j2(page))
        <4>0. /\ changed \ page \in SUBSET Ids
              /\ "page" \in Places /\ Len(log) \in 0 .. Len(log)
          BY <1>0, <2>1 DEF Places
        <4>1. j2(page) \in Job(Len(log))
          <5> HIDE DEF changed
          <5> QED BY <1>0, <3>1, <4>0 DEF Job
        <4>2. JobOK(j2(page))
          BY <1>0, <2>0, <3>1 DEF Job, JobOK
        <4> QED BY <4>1, <4>2
      <3> HIDE DEF j2
      <3> QED BY <1>1, <1>5, <2>0, <2>3, <3>2, OneJobStep DEF GetDelta, IInv, TypeOK
    <2> QED BY <1>5, <2>2, <2>3 DEF GetDelta
  <1>7. CASE GetNextPage(k)
    <2> DEFINE found(page) == job[k].todo \cup PageOf(k, page)
               j1(page) == [job[k] EXCEPT !.pc = AfterDelta(k), !.mark = 0,
                                          !.todo = found(page), !.ids = {}]
               j2(page) == [job[k] EXCEPT !.todo = found(page), !.ids = @ \ page]
    <2>0. /\ job[k].op \in {"process", "finish"} /\ job[k].pc = "page"
          /\ UNCHANGED <<log, items, locks, blob, token, queue, faulted, folders, removed>>
      BY <1>0, <1>7 DEF GetNextPage, JobOK
    <2>a. PICK page \in SUBSET job[k].ids :
             \/ /\ job' = [job EXCEPT ![k].pc = AfterDelta(k), ![k].mark = 0,
                                      ![k].todo = found(page), ![k].ids = {}]
                /\ fetched' = IF fetched < job[k].mark THEN job[k].mark ELSE fetched
             \/ /\ job' = [job EXCEPT ![k].todo = found(page), ![k].ids = @ \ page]
                /\ UNCHANGED fetched
      BY <1>7, Zenon DEF GetNextPage
    <2>1. \/ /\ job' = [job EXCEPT ![k] = j1(page)]
             /\ fetched' = IF fetched < job[k].mark THEN job[k].mark ELSE fetched
          \/ job' = [job EXCEPT ![k] = j2(page)] /\ UNCHANGED fetched
      <3> HIDE DEF found
      <3> QED BY <2>a
    <2>2. page \subseteq Ids
      BY <1>0 DEF Job
    <2>3. /\ found(page) \subseteq Found(Len(log))
          /\ \A c \in found(page) : c.item # 0 => log[c.item].id = c.id
      <3>1. /\ PageOf(k, page) \subseteq Found(Len(log))
            /\ \A c \in PageOf(k, page) : c.item # 0 => log[c.item].id = c.id
        BY <2>2, PageFound
      <3> QED BY <1>0, <3>1 DEF Job, JobOK
    <2>4. AfterDelta(k) \in Places
      BY DEF AfterDelta, Places
    <2> HIDE DEF found
    <2>5. j1(page) \in Job(Len(log))
      <3>1. 0 \in 0 .. Len(log)
        BY <1>0
      <3> QED BY <1>0, <2>3, <2>4, <3>1 DEF Job
    <2>6. JobOK(j1(page))
      BY <1>0, <2>0, <2>3 DEF Job, JobOK, AfterDelta
    <2>7. j2(page) \in Job(Len(log)) /\ JobOK(j2(page))
      <3>1. j2(page) \in Job(Len(log))
        BY <1>0, <2>3 DEF Job
      <3>2. JobOK(j2(page))
        BY <1>0, <2>0, <2>3 DEF Job, JobOK
      <3> QED BY <3>1, <3>2
    <2>8. fetched' \in 0 .. Len(log) /\ token \in 0 .. Len(log)
      BY <1>0, <2>1 DEF Job, IInv, TypeOK
    <2> HIDE DEF j1, j2
    <2> QED BY <1>1, <2>0, <2>1, <2>5, <2>6, <2>7, <2>8, OneJobStep DEF IInv, TypeOK
  <1>6. CASE SaveToken(k)
    <2> DEFINE j == [job[k] EXCEPT !.pc = AfterDelta(k), !.mark = 0]
    <2>1. j \in Job(Len(log))
      <3>1. AfterDelta(k) \in Places
        BY DEF AfterDelta, Places
      <3>2. 0 \in 0 .. Len(log)
        BY <1>0
      <3> QED BY <1>0, <3>1, <3>2 DEF Job
    <2>2. JobOK(j)
      BY <1>0, <1>6 DEF SaveToken, Job, JobOK, AfterDelta
    <2>3. job' = [job EXCEPT ![k] = j]
      BY <1>6 DEF SaveToken
    <2>4. token' \in 0 .. Len(log)
      BY <1>0, <1>6 DEF SaveToken, Job
    <2> QED BY <1>1, <1>6, <2>1, <2>2, <2>3, <2>4, OneJobStep DEF SaveToken, IInv, TypeOK
  <1> QED BY <1>2, <1>3, <1>4, <1>5, <1>6, <1>7

\* The loop over the locks: only a version the owner wrote goes on to the upsert.
LEMMA LoopSteps ==
    ASSUME IInv, NEW k \in Workers, ReadLocks(k) \/ NextLock(k)
    PROVE  IInv'
  <1>0. Len(log) \in Nat /\ job[k] \in Job(Len(log)) /\ JobOK(job[k])
    BY TheJob
  <1>1. CASE ReadLocks(k)
    <2>1. CASE Return(k)
      BY <1>1, <2>1, ReturnStep DEF ReadLocks
    <2> DEFINE locked == {[c EXCEPT !.lock = locks[c.id]] :
                             c \in {d \in job[k].todo : d.id \in GetLocks}}
               j == [job[k] EXCEPT !.pc = "next", !.todo = locked]
    <2>2. CASE job' = [job EXCEPT ![k] = j]
      <3>1. \A d \in job[k].todo : d \in Found(Len(log)) /\ locks[d.id] \in LockOrNone(Len(log))
        BY <1>0 DEF Job, Found, IInv, TypeOK
      <3>2. \A c \in locked : /\ c \in Found(Len(log)) /\ c.lock # NoLock
                              /\ c.item # 0 => log[c.item].id = c.id
        BY <1>0, <3>1 DEF Found, JobOK, GetLocks
      <3>3. j \in Job(Len(log))
        BY <1>0, <3>2 DEF Job, Places
      <3>4. JobOK(j)
        BY <1>0, <1>1, <3>2 DEF ReadLocks, Job, JobOK
      <3> QED BY <1>1, <2>2, <3>3, <3>4, QuietStep DEF ReadLocks
    <2> QED BY <1>1, <2>1, <2>2 DEF ReadLocks
  <1>2. CASE NextLock(k)
    <2>1. CASE Return(k)
      BY <1>2, <2>1, ReturnStep DEF NextLock
    <2>2. ASSUME NEW c \in job[k].todo, job' = [job EXCEPT ![k].todo = @ \ {c}]
          PROVE  IInv'
      <3> DEFINE j == [job[k] EXCEPT !.todo = @ \ {c}]
      <3>1. j \in Job(Len(log))
        BY <1>0 DEF Job
      <3>2. JobOK(j)
        BY <1>0, <1>2 DEF NextLock, Job, JobOK
      <3>3. job' = [job EXCEPT ![k] = j]
        BY <2>2
      <3> QED BY <1>2, <3>1, <3>2, <3>3, QuietStep DEF NextLock
    <2>3. ASSUME NEW c \in job[k].todo, c.item # 0,
                 job' = [job EXCEPT ![k].pc = "getLock", ![k].id = c.id,
                               ![k].item = c.item, ![k].file = c.lock.file,
                               ![k].user = GetUserName(c.item), ![k].todo = @ \ {c}]
          PROVE  IInv'
      <3> DEFINE j == [job[k] EXCEPT !.pc = "getLock", !.id = c.id, !.item = c.item,
                                     !.file = c.lock.file, !.user = GetUserName(c.item),
                                     !.todo = @ \ {c}]
      <3>1. job[k].op = "process" /\ c.lock # NoLock /\ c \in Found(Len(log))
        BY <1>0, <1>2 DEF NextLock, Job, JobOK
      <3>2. /\ c.id \in Ids /\ c.item \in 1 .. Len(log) /\ c.lock.file \in Files
            /\ log[c.item].id = c.id
        BY <1>0, <2>3, <3>1 DEF Found, LockOrNone, LockRow, JobOK
      <3>3. GetUserName(c.item) \in Users \cup {App}
        BY <3>2, TheEntry DEF GetUserName
      <3>4. j \in Job(Len(log))
        <4>1. "getLock" \in Places
          BY DEF Places
        <4>2. c.item \in 0 .. Len(log) /\ c.id \in Ids \cup {0}
              /\ c.lock.file \in Files \cup {"none"}
          BY <3>2
        <4>3. job[k].todo \ {c} \subseteq Found(Len(log))
          BY <1>0 DEF Job
        <4> HIDE DEF GetUserName
        <4> QED BY <1>0, <3>3, <4>1, <4>2, <4>3 DEF Job
      <3>5. JobOK(j)
        <4>1. /\ j.op = "process" /\ j.pc = "getLock" /\ j.id = c.id /\ j.item = c.item
              /\ j.file = c.lock.file /\ j.user = log[c.item].by /\ j.todo \subseteq job[k].todo
          BY <1>0, <3>1 DEF Job, GetUserName
        <4>2. job[k].pc = "next"
          BY <1>2 DEF NextLock
        <4> HIDE DEF j
        <4> QED BY <1>0, <3>1, <3>2, <4>1, <4>2 DEF JobOK
      <3>6. job' = [job EXCEPT ![k] = j]
        BY <2>3
      <3> QED BY <1>2, <3>4, <3>5, <3>6, QuietStep DEF NextLock
    <2> QED BY <1>2, <2>1, <2>2, <2>3 DEF NextLock
  <1> QED BY <1>1, <1>2

\* FinishEditing up to the deletion: clearing a row leaves nothing it could say.
LEMMA ReleaseSteps ==
    ASSUME IInv, NEW k \in Workers, FinishGetItem(k) \/ ClearLock(k)
    PROVE  IInv'
  <1>0. Len(log) \in Nat /\ job[k] \in Job(Len(log)) /\ JobOK(job[k])
    BY TheJob
  <1>1. CASE FinishGetItem(k)
    <2> DEFINE i == job[k].id
               v == items[i]
               j == [job[k] EXCEPT !.pc = IF FileContentsSame(v, job[k].lock)
                                            THEN "clear" ELSE "getLock",
                                   !.item = v, !.user = GetUserName(v)]
    <2>1. CASE Return(k)
      BY <1>1, <2>1, ReturnStep DEF FinishGetItem
    <2>2. CASE v # 0 /\ job' = [job EXCEPT ![k] = j]
      <3>1. /\ job[k].op = "finish" /\ i \in Ids /\ job[k].file \in Files
            /\ job[k].lock # NoLock /\ job[k].pc = "item"
        BY <1>0, <1>1 DEF FinishGetItem, JobOK
      <3>2. v \in 1 .. Len(log) /\ v \in 0 .. Len(log) /\ log[v].id = i
        BY <1>0, <2>2, <3>1 DEF IInv, TypeOK, ItemsOK
      <3>3. GetUserName(v) \in Users \cup {App} /\ GetUserName(v) = log[v].by
        BY <3>2, TheEntry DEF GetUserName
      <3>4. (IF FileContentsSame(v, job[k].lock) THEN "clear" ELSE "getLock") \in Places
        BY DEF Places
      <3>5. j \in Job(Len(log))
        <4> HIDE DEF v, GetUserName
        <4> QED BY <1>0, <3>2, <3>3, <3>4 DEF Job
      <3>6. JobOK(j)
        <4>1. /\ j.op = "finish" /\ j.pc \in {"clear", "getLock"} /\ j.id = i /\ j.item = v
              /\ j.user = log[v].by /\ j.file = job[k].file /\ j.lock = job[k].lock
              /\ j.todo = job[k].todo
          BY <1>0, <3>1, <3>3 DEF Job
        <4> HIDE DEF j, v
        <4> QED BY <1>0, <3>1, <3>2, <4>1 DEF JobOK
      <3> QED BY <1>1, <2>2, <3>5, <3>6, QuietStep DEF FinishGetItem
    <2> QED BY <1>0, <1>1, <2>1, <2>2 DEF FinishGetItem, IInv, TypeOK
  <1>2. CASE ClearLock(k)
    <2> DEFINE j == [job[k] EXCEPT !.pc = "delete"]
    <2>1. j \in Job(Len(log))
      BY <1>0 DEF Job, Places
    <2>2. JobOK(j)
      BY <1>0, <1>2 DEF ClearLock, Job, JobOK
    <2>3. job' = [job EXCEPT ![k] = j]
      BY <1>2 DEF ClearLock
    <2>4. locks' \in [Ids -> LockOrNone(Len(log))]
      BY <1>2 DEF ClearLock, LockOrNone, IInv, TypeOK
    <2>5. LockVouchesForOwner'
      <3> SUFFICES ASSUME NEW i \in Ids, locks'[i] # NoLock
                   PROVE  LET e == log[locks'[i].etag]
                          IN  e.id = i /\ e.by \in {locks'[i].user, App}
        BY <1>2 DEF LockVouchesForOwner, ClearLock
      <3>1. locks'[i] = locks[i]
        BY <1>2 DEF ClearLock, IInv, TypeOK
      <3> QED BY <3>1 DEF IInv, LockVouchesForOwner
    <2> QED BY <1>2, <2>1, <2>2, <2>3, <2>4, <2>5, OneJobStep DEF ClearLock, IInv, TypeOK
  <1> QED BY <1>1, <1>2

\* A failing call ends its job and changes nothing else that is kept.
LEMMA FailStep ==
    ASSUME IInv, NEW k \in Workers, Fail(k)
    PROVE  IInv'
  <1>1. LockVouchesForOwner'
    BY DEF Fail, IInv, LockVouchesForOwner
  <1>2. queue' \in 0 .. MaxQueue
    BY BoundsAssumption DEF Fail, Notify, IInv, TypeOK
  <1>3. Idle \in Job(Len(log)) /\ JobOK(Idle)
    BY TheJob, IdleIsAJob
  <1> HIDE DEF Idle
  <1> QED BY <1>1, <1>2, <1>3, OneJobStep DEF Fail, Return, IInv, TypeOK

\* A job that only changed what it has yet to delete is in order.
LEMMA SweepJob ==
    ASSUME IInv, NEW k \in Workers, NEW ids \in SUBSET Ids, NEW dirs \in SUBSET (1 .. Len(log)),
           job[k].pc \in {"list", "sweep"}
    PROVE  LET j == [job[k] EXCEPT !.pc = "sweep", !.ids = ids, !.dirs = dirs]
           IN  j \in Job(Len(log)) /\ JobOK(j) /\ j.op = "clean" /\ j.todo = {}
  <1>0. Len(log) \in Nat /\ job[k] \in Job(Len(log)) /\ JobOK(job[k])
    BY TheJob
  <1> DEFINE j == [job[k] EXCEPT !.pc = "sweep", !.ids = ids, !.dirs = dirs]
  <1>1. j \in Job(Len(log))
    BY <1>0 DEF Job, Places
  <1>2. JobOK(j) /\ j.op = "clean" /\ j.todo = {}
    BY <1>0 DEF Job, JobOK
  <1> QED BY <1>1, <1>2

\* CleanOldFiles up to the deletions: the sweep only holds ids.
LEMMA CleanSteps ==
    ASSUME IInv, NEW k \in Workers, CleanOldFiles(k) \/ CleanList(k) \/ CleanEnd(k)
    PROVE  IInv'
  <1>0. Len(log) \in Nat /\ job[k] \in Job(Len(log)) /\ JobOK(job[k])
    BY TheJob
  <1>1. CASE CleanOldFiles(k)
    <2> DEFINE j == [Idle EXCEPT !.op = "clean", !.pc = "list",
                                 !.ids = GetLocks]
    <2>a. GetLocks \in SUBSET Ids
      BY DEF GetLocks
    <2>1. j \in Job(Len(log))
      BY <1>0, <2>a, IdleIsAJob DEF Job, Operations, Places
    <2>2. JobOK(j)
      BY DEF Idle, JobOK
    <2> QED BY <1>1, <2>1, <2>2, QuietStep DEF CleanOldFiles
  <1>2. CASE CleanList(k)
    <2> DEFINE j == [job[k] EXCEPT !.pc = "sweep", !.ids = RootFiles \ job[k].ids,
                                   !.dirs = RootFolders]
    <2>0. RootFiles \ job[k].ids \in SUBSET Ids /\ RootFolders \in SUBSET (1 .. Len(log))
      BY <1>0 DEF RootFiles, InFolder, Live, RootFolders, IInv, TypeOK
    <2>1. j \in Job(Len(log)) /\ JobOK(j)
      BY <1>2, <2>0, SweepJob DEF CleanList
    <2>2. job' = [job EXCEPT ![k] = j]
      BY <1>2 DEF CleanList
    <2> HIDE DEF j
    <2> QED BY <1>2, <2>1, <2>2, QuietStep DEF CleanList
  <1>3. CASE CleanEnd(k)
    BY <1>3, ReturnStep DEF CleanEnd
  <1> QED BY <1>1, <1>2, <1>3

-----------------------------------------------------------------------------
(* The steps that change the drive.                                         *)

\* DeleteFile either finds nothing or records the deletion.
LEMMA DeleteStep ==
    ASSUME IInv, NEW k \in Workers, NEW i \in Ids, DeleteFile(i),
           NEW j \in Job(Len(log)), JobOK(j), j.todo = {},
           j.pc \in {"idle", "sweep"}, j.op \in {"none", "clean"},
           job' = [job EXCEPT ![k] = j],
           UNCHANGED <<locks, blob, token, fetched, faulted, folders, removed>>
    PROVE  IInv'
  <1>0. Len(log) \in Nat
    BY TheJob
  <1>1. CASE items[i] = 0
    <2>1. UNCHANGED <<log, items, queue>>
      BY <1>1 DEF DeleteFile
    <2> QED BY <1>0, <2>1, QuietStep
  <1>2. CASE items[i] # 0
    <2> DEFINE e == log[items[i]]
    <2>1. items[i] \in 1 .. Len(log)
      BY <1>2 DEF IInv, TypeOK
    <2>2. e.file \in Files /\ e.data \in Nat
      BY <2>1, TheEntry
    <2>3. /\ log' = Append(log, Entry(i, e.file, App, e.data))
          /\ items' = [items EXCEPT ![i] = 0]
      BY <1>2 DEF DeleteFile, Change
    <2>4. queue' \in 0 .. MaxQueue
      BY <1>2, BoundsAssumption DEF DeleteFile, Change, Notify, IInv, TypeOK
    <2>5. job' \in [Workers -> Job(Len(log) + 1)]
      BY <1>0, TypesGrow DEF IInv, TypeOK
    <2>6. \A w \in Workers : job'[w] = job[w] \/ JobOK(job[w])'
      <3>1. JobOK(job[k])'
        <4>1. job'[k] = j
          BY DEF IInv, TypeOK
        <4> QED BY <4>1 DEF JobOK
      <3> QED BY <3>1 DEF IInv, TypeOK
    <2>7. /\ faulted' \in BOOLEAN /\ removed' \subseteq Ids
          /\ folders' \in [Folders -> 0 .. Len(log) + 1]
      BY <1>0 DEF IInv, TypeOK
    <2> HIDE DEF e
    <2> QED BY <2>2, <2>3, <2>4, <2>5, <2>6, <2>7, DriveStep
  <1> QED BY <1>1, <1>2

\* The two deletions of drive items, by a release and by the clean-up.
LEMMA DeleteSteps ==
    ASSUME IInv, NEW k \in Workers, FinishDelete(k) \/ CleanDelete(k)
    PROVE  IInv'
  <1>0. Len(log) \in Nat /\ job[k] \in Job(Len(log)) /\ JobOK(job[k])
    BY TheJob
  <1>1. CASE FinishDelete(k)
    <2>1. job[k].id \in Ids
      BY <1>0, <1>1 DEF FinishDelete, JobOK
    <2>2. /\ Idle \in Job(Len(log)) /\ JobOK(Idle) /\ Idle.todo = {}
          /\ Idle.pc = "idle" /\ Idle.op = "none"
      BY <1>0, IdleIsAJob DEF Idle
    <2> HIDE DEF Idle
    <2> QED BY <1>1, <2>1, <2>2, DeleteStep DEF FinishDelete, Return
  <1>2. CASE CleanDelete(k)
    <2> PICK i \in job[k].ids :
             /\ \/ DeleteFile(i) /\ UNCHANGED faulted
                \/ Faults /\ faulted' = TRUE /\ UNCHANGED <<log, items, queue>>
             /\ job' = [job EXCEPT ![k].ids = @ \ {i}]
      BY <1>2 DEF CleanDelete
    <2> DEFINE j == [job[k] EXCEPT !.ids = @ \ {i}]
    <2>1. i \in Ids /\ job[k].pc = "sweep"
      BY <1>0, <1>2 DEF CleanDelete, Job
    <2>2. UNCHANGED <<locks, blob, token, fetched, folders, removed>>
      BY <1>2 DEF CleanDelete
    <2>3. j \in Job(Len(log)) /\ JobOK(j) /\ j.op = "clean" /\ j.todo = {} /\ j.pc = "sweep"
      BY <1>0, <2>1 DEF Job, JobOK
    <2>4. job' = [job EXCEPT ![k] = j]
      BY <1>0, <2>1 DEF Job
    <2> HIDE DEF j
    <2>7. CASE DeleteFile(i) /\ UNCHANGED faulted
      BY <2>1, <2>2, <2>3, <2>4, <2>7, DeleteStep
    <2>8. CASE faulted' = TRUE /\ UNCHANGED <<log, items, queue>>
      <3>1. LockVouchesForOwner'
        BY <2>2, <2>8 DEF IInv, LockVouchesForOwner
      <3> QED BY <2>2, <2>3, <2>4, <2>8, <3>1, OneJobStep DEF IInv, TypeOK
    <2> QED BY <2>7, <2>8
  <1> QED BY <1>1, <1>2

\* What the deletion of a folder records: one change per file that was in it.
LEMMA FolderLog ==
    ASSUME IInv, NEW d,
           NEW order \in [1 .. Cardinality(InFolder(d)) -> InFolder(d)]
    PROVE  LET added == [m \in DOMAIN order |->
                 Entry(order[m], log[items[order[m]]].file, App, log[items[order[m]]].data)]
           IN  /\ Extends(log \o added, log) /\ Len(added) \in Nat
               /\ Len(log \o added) = Len(log) + Len(added)
               /\ DOMAIN added = DOMAIN order /\ DOMAIN order = 1 .. Len(added)
               /\ \A m \in DOMAIN order :
                    /\ order[m] \in Live
                    /\ log[items[order[m]]] \in LogEntry
                    /\ (log \o added)[Len(log) + m] = added[m]
  <1> DEFINE size == Cardinality(InFolder(d))
             added == [m \in DOMAIN order |->
                 Entry(order[m], log[items[order[m]]].file, App, log[items[order[m]]].data)]
  <1>1. size \in Nat
    <2>1. IsFiniteSet(InFolder(d))
      BY IdsAssumption, FS_Subset DEF InFolder, Live
    <2> QED BY <2>1, FS_CardinalityType
  <1>2. DOMAIN order = 1 .. size
    OBVIOUS
  <1> HIDE DEF size
  <1>3. \A m \in DOMAIN order :
            order[m] \in Live /\ order[m] \in Ids /\ items[order[m]] \in 1 .. Len(log)
    BY DEF InFolder, Live, IInv, TypeOK
  <1>4. log \in Seq(LogEntry) /\ Len(log) \in Nat
    BY DEF IInv, TypeOK
  <1>5. \A m \in DOMAIN order : log[items[order[m]]] \in LogEntry /\ added[m] \in LogEntry
    <2>1. \A m \in DOMAIN order : log[items[order[m]]] \in LogEntry
      BY <1>3, <1>4
    <2>2. \A i \in Ids, e \in LogEntry : Entry(i, e.file, App, e.data) \in LogEntry
      BY DEF LogEntry, Entry
    <2> QED BY <1>3, <2>1, <2>2
  <1>6. added \in Seq(LogEntry) /\ Len(added) = size
    <2>1. added \in [1 .. size -> LogEntry]
      BY <1>2, <1>5
    <2>2. \A S, n : n \in Nat => \A s \in [1 .. n -> S] : s \in Seq(S) /\ Len(s) = n
      OBVIOUS
    <2> HIDE DEF added
    <2> QED BY <1>1, <2>1, <2>2
  <1> HIDE DEF added
  <1>7. /\ log \o added \in Seq(LogEntry) /\ Len(log \o added) = Len(log) + size
        /\ \A n \in 1 .. Len(log) : (log \o added)[n] = log[n]
        /\ \A m \in 1 .. size : (log \o added)[Len(log) + m] = added[m]
    BY <1>1, <1>4, <1>6
  <1>8. Extends(log \o added, log)
    BY <1>1, <1>4, <1>7 DEF Extends
  <1>9. DOMAIN added = DOMAIN order
    BY DEF added
  <1> QED BY <1>1, <1>2, <1>3, <1>5, <1>6, <1>7, <1>8, <1>9 DEF added

\* A folder goes with what is in it; no version that is left is touched.
LEMMA DeleteFolderStep ==
    ASSUME IInv, NEW k \in Workers, CleanDeleteFolder(k)
    PROVE  IInv'
  <1>0. Len(log) \in Nat /\ job[k] \in Job(Len(log)) /\ JobOK(job[k])
    BY TheJob
  <1> PICK n \in job[k].dirs :
           /\ \/ DeleteFolder(n) /\ UNCHANGED faulted
              \/ Faults /\ faulted' = TRUE /\ UNCHANGED <<log, items, queue, folders, removed>>
           /\ job' = [job EXCEPT ![k].dirs = @ \ {n}]
    BY DEF CleanDeleteFolder
  <1> DEFINE j == [job[k] EXCEPT !.dirs = @ \ {n}]
  <1>1. job[k].pc = "sweep" /\ UNCHANGED <<locks, blob, token, fetched>>
    BY DEF CleanDeleteFolder
  <1>2. j \in Job(Len(log)) /\ JobOK(j) /\ j.op = "clean" /\ j.todo = {} /\ j.pc = "sweep"
    BY <1>0, <1>1 DEF Job, JobOK
  <1>3. job' = [job EXCEPT ![k] = j]
    BY <1>0, <1>1 DEF Job
  <1> HIDE DEF j
  <1>4. faulted' \in BOOLEAN
    BY DEF IInv, TypeOK
  <1>5. CASE UNCHANGED <<log, items, folders, removed, queue>>
    <2>1. LockVouchesForOwner'
      BY <1>1, <1>5 DEF IInv, LockVouchesForOwner
    <2> QED BY <1>1, <1>2, <1>3, <1>4, <1>5, <2>1, OneJobStep DEF IInv, TypeOK
  <1>6. CASE DeleteFolder(n) /\ ~UNCHANGED <<log, items, folders, removed, queue>>
    <2>0. PICK d \in Folders :
            /\ \E order \in [1 .. Cardinality(InFolder(d)) -> InFolder(d)] :
                 log' = log \o [m \in DOMAIN order |->
                   Entry(order[m], log[items[order[m]]].file, App, log[items[order[m]]].data)]
            /\ items' = [i \in Ids |-> IF i \in InFolder(d) THEN 0 ELSE items[i]]
            /\ folders' = [folders EXCEPT ![d] = 0]
            /\ removed' = removed \cup InFolder(d)
            /\ Notify
      BY <1>6, Zenon DEF DeleteFolder
    <2>1. /\ items' = [i \in Ids |-> IF i \in InFolder(d) THEN 0 ELSE items[i]]
          /\ folders' = [folders EXCEPT ![d] = 0]
          /\ removed' = removed \cup InFolder(d)
          /\ Notify
      BY <2>0
    <2>2. Extends(log', log)
      <3>1. PICK order \in [1 .. Cardinality(InFolder(d)) -> InFolder(d)] :
                 log' = log \o [m \in DOMAIN order |->
                   Entry(order[m], log[items[order[m]]].file, App, log[items[order[m]]].data)]
        BY <2>0, Zenon
      <3>2. Extends(log \o [m \in DOMAIN order |->
                   Entry(order[m], log[items[order[m]]].file, App, log[items[order[m]]].data)], log)
        BY FolderLog, Zenon
      <3> QED BY <3>1, <3>2, Zenon
    <2>3. Len(log') \in Nat /\ Len(log) <= Len(log')
      BY <2>2 DEF Extends
    <2>4. /\ items' \in [Ids -> 0 .. Len(log')]
          /\ \A x \in Ids : items'[x] # 0 => items'[x] = items[x]
          /\ folders' \in [Folders -> 0 .. Len(log')] /\ removed' \subseteq Ids
      <3>1. InFolder(d) \subseteq Ids /\ removed \subseteq Ids
        BY DEF InFolder, Live, IInv, TypeOK
      <3>2. /\ \A x \in Ids : items[x] \in 0 .. Len(log')
            /\ folders \in [Folders -> 0 .. Len(log')]
        BY <1>0, <2>3 DEF IInv, TypeOK
      <3> HIDE DEF InFolder
      <3>3. /\ \A x \in Ids : items'[x] \in {0, items[x]}
            /\ items' = [x \in Ids |-> items'[x]]
        BY <2>1
      <3>4. items' \in [Ids -> 0 .. Len(log')]
        BY <2>3, <3>2, <3>3
      <3>5. folders' \in [Folders -> 0 .. Len(log')]
        BY <2>1, <2>3, <3>2
      <3> QED BY <2>1, <3>1, <3>3, <3>4, <3>5
    <2>5. queue' \in 0 .. MaxQueue
      <3>1. queue \in 0 .. MaxQueue
        BY DEF IInv, TypeOK
      <3> QED BY <2>1, <3>1, BoundsAssumption DEF Notify
    <2>6. job' \in [Workers -> Job(Len(log'))]
      BY <1>0, <1>2, <1>3, <2>3, TypesGrow DEF IInv, TypeOK
    <2>7. \A w \in Workers : job'[w] = job[w] \/ JobOK(job[w])'
      <3>1. job'[k] = j /\ \A w \in Workers : w # k => job'[w] = job[w]
        BY <1>3 DEF IInv, TypeOK
      <3>2. JobOK(job[k])'
        BY <1>2, <3>1 DEF JobOK
      <3> QED BY <3>1, <3>2
    <2> QED BY <1>1, <1>4, <2>2, <2>4, <2>5, <2>6, <2>7, GrowStep
  <1> QED BY <1>5, <1>6

\* An upload by the app: the version it made is the job's, and is the app's.
LEMMA UploadDocStep ==
    ASSUME IInv, NEW k \in Workers, UploadDoc(k)
    PROVE  IInv'
  <1>0. Len(log) \in Nat /\ job[k] \in Job(Len(log)) /\ JobOK(job[k])
    BY TheJob
  <1> PICK i \in Ids :
         /\ Change(i, job[k].file, App, job[k].data)
         /\ items' = [items EXCEPT ![i] = Len(log) + 1]
         /\ job' = [job EXCEPT ![k].pc = "getLock", ![k].id = i,
                               ![k].item = Len(log) + 1, ![k].data = 0]
    BY DEF UploadDoc
  <1> DEFINE n == Len(log) + 1
             e == Entry(i, job[k].file, App, job[k].data)
             j == [job[k] EXCEPT !.pc = "getLock", !.id = i, !.item = n, !.data = 0]
  <1>1. job[k].op = "start" /\ job[k].file \in Files /\ job[k].data \in Nat
    BY <1>0 DEF UploadDoc, JobOK, Job
  <1>2. log' = Append(log, e) /\ queue' \in 0 .. MaxQueue
    BY BoundsAssumption DEF Change, Notify, IInv, TypeOK
  <1>3. log \in Seq(LogEntry) /\ e \in LogEntry
    BY <1>1 DEF IInv, TypeOK, LogEntry, Entry
  <1>4. log'[n].id = i /\ log'[n].by = App
    <2>1. log'[n] = e
      BY <1>2, <1>3, AppendEntry
    <2> QED BY <2>1 DEF Entry
  <1>5. j \in Job(n)
    <2>1. job[k] \in Job(n)
      BY <1>0, TypesGrow
    <2>2. "getLock" \in Places /\ n \in 0 .. n
      BY <1>0 DEF Places
    <2> HIDE DEF n
    <2> QED BY <2>1, <2>2 DEF Job
  <1>6. job' = [job EXCEPT ![k] = j]
    OBVIOUS
  <1>7. JobOK(job[k])'
    <2>1. job'[k] = j
      BY <1>6 DEF IInv, TypeOK
    <2>2. /\ j.op = "start" /\ j.pc = "getLock" /\ j.id = i /\ j.item = n
          /\ j.file = job[k].file /\ j.todo = job[k].todo
      BY <1>0, <1>1 DEF Job
    <2>3. \A c \in job[k].todo : c.item # 0 => log'[c.item].id = c.id
      <3>1. \A m \in 1 .. Len(log) : log'[m] = log[m]
        BY <1>2, <1>3, AppendEntry
      <3>2. \A c \in job[k].todo : c.item # 0 => c.item \in 1 .. Len(log)
        BY <1>0 DEF Job, Found
      <3> QED BY <1>0, <3>1, <3>2 DEF JobOK
    <2>4. n # 0
      BY <1>0
    <2> HIDE DEF j, n
    <2> QED BY <1>1, <1>4, <2>1, <2>2, <2>3, <2>4 DEF JobOK
  <1>8. job' \in [Workers -> Job(n)]
    <2>1. job \in [Workers -> Job(n)]
      <3>1. n \in Nat /\ Len(log) <= n
        BY <1>0
      <3> HIDE DEF n
      <3> QED BY <1>0, <3>1, TypesGrow DEF IInv, TypeOK
    <2> HIDE DEF j, n
    <2> QED BY <1>5, <1>6, <2>1
  <1>9. \A w \in Workers : job'[w] = job[w] \/ JobOK(job[w])'
    <2> HIDE DEF j
    <2> QED BY <1>6, <1>7 DEF IInv, TypeOK
  <1>10. UNCHANGED <<locks, blob, token, fetched>> /\ faulted' \in BOOLEAN
    BY DEF UploadDoc, IInv, TypeOK
  <1>12. removed' \subseteq Ids /\ folders' \in [Folders -> 0 .. Len(log) + 1]
    BY <1>0 DEF UploadDoc, IInv, TypeOK
  <1>11. /\ log' = Append(log, Entry(i, job[k].file, App, job[k].data))
         /\ job' \in [Workers -> Job(Len(log) + 1)]
         /\ items' = [items EXCEPT ![i] = Len(log) + 1]
    BY <1>2, <1>8
  <1> HIDE DEF e, n, j
  <1> QED BY <1>1, <1>2, <1>9, <1>10, <1>11, <1>12, DriveStep

\* A save in Office Online, or a deletion, is a change of an item that is there.
LEMMA UserStep ==
    ASSUME IInv, NEW u \in Users, NEW i \in Ids, UserEdit(u, i) \/ UserDelete(u, i)
    PROVE  IInv'
  <1> DEFINE n == Len(log) + 1
             f == log[items[i]].file
             old == log[items[i]].data
  <1>1. items[i] \in 1 .. Len(log) /\ Len(log) \in Nat
    BY DEF UserEdit, UserDelete, IInv, TypeOK
  <1>2. f \in Files /\ old \in Nat /\ n \in Nat /\ n = Len(log) + 1 /\ u \in Users \cup {App}
    BY <1>1, TheEntry
  <1>3. \/ log' = Append(log, Entry(i, f, u, n)) /\ items' = [items EXCEPT ![i] = n]
        \/ log' = Append(log, Entry(i, f, u, old)) /\ items' = [items EXCEPT ![i] = 0]
    BY DEF UserEdit, UserDelete, Change
  <1>4. job' \in [Workers -> Job(Len(log) + 1)]
    BY <1>1, TypesGrow DEF UserEdit, UserDelete, IInv, TypeOK
  <1>5. /\ UNCHANGED <<locks, blob, token, job, fetched>> /\ faulted' \in BOOLEAN
        /\ queue' \in 0 .. MaxQueue /\ removed' \subseteq Ids
        /\ folders' \in [Folders -> 0 .. Len(log) + 1]
    BY <1>1, BoundsAssumption DEF UserEdit, UserDelete, Change, Notify, IInv, TypeOK
  <1> HIDE DEF n, f, old
  <1>6. CASE log' = Append(log, Entry(i, f, u, n)) /\ items' = [items EXCEPT ![i] = n]
    BY <1>1, <1>2, <1>4, <1>5, <1>6, DriveStep
  <1>7. CASE log' = Append(log, Entry(i, f, u, old)) /\ items' = [items EXCEPT ![i] = 0]
    BY <1>1, <1>2, <1>4, <1>5, <1>7, DriveStep
  <1> QED BY <1>3, <1>6, <1>7

-----------------------------------------------------------------------------

\* The invariant holds at first: an empty drive, no locks, no jobs.
LEMMA InitIInv == Init => IInv
  <1> SUFFICES ASSUME Init PROVE IInv
    OBVIOUS
  <1>1. Len(log) = 0 /\ log \in Seq(LogEntry)
    BY DEF Init
  <1>2. TypeOK
    <2>1. job \in [Workers -> Job(Len(log))]
      BY <1>1, IdleIsAJob DEF Init
    <2>2. /\ items \in [Ids -> 0 .. Len(log)]
          /\ token \in 0 .. Len(log) /\ fetched \in 0 .. Len(log)
      BY <1>1 DEF Init
    <2>4. /\ locks \in [Ids -> LockOrNone(Len(log))]
          /\ blob \in [Files -> Nat] /\ faulted \in BOOLEAN
      BY DEF Init, LockOrNone
    <2>3. queue \in 0 .. MaxQueue /\ removed \subseteq Ids /\ folders \in [Folders -> 0 .. Len(log)]
      BY <1>1, BoundsAssumption DEF Init
    <2> QED BY <1>1, <2>1, <2>2, <2>3, <2>4 DEF TypeOK
  <1>3. JobsOK
    BY IdleIsAJob DEF Init, JobsOK
  <1>4. ItemsOK /\ LockVouchesForOwner
    BY DEF Init, ItemsOK, LockVouchesForOwner
  <1> QED BY <1>2, <1>3, <1>4 DEF IInv

\* Every step keeps the invariant.
LEMMA NextIInv == IInv /\ [Next]_vars => IInv'
  <1> SUFFICES ASSUME IInv, [Next]_vars PROVE IInv'
    OBVIOUS
  <1>1. ASSUME NEW k \in Workers, Step(k) PROVE IInv'
    BY <1>1, StartSteps, UploadDocStep, SetLockSteps, UploadSteps, DeltaSteps, LoopSteps,
       ReleaseSteps, DeleteSteps, DeleteFolderStep, CleanSteps, FailStep DEF Step
  <1>2. ASSUME NEW u \in Users, NEW i \in Ids, UserEdit(u, i) \/ UserDelete(u, i) PROVE IInv'
    BY <1>2, UserStep
  <1>3. CASE UNCHANGED vars
    BY <1>3 DEF vars, IInv, TypeOK, ItemsOK, JobsOK, JobOK, LockVouchesForOwner
  <1> QED BY <1>1, <1>2, <1>3 DEF Next

\* Every state of the system is of its type: in particular the version a lock
\* vouches for, the delta token and the versions the jobs carry never point past
\* the last change of the drive, whatever the jobs do and wherever they fail.
THEOREM TypeCorrect == Spec => []TypeOK
  <1>1. IInv => TypeOK
    BY DEF IInv
  <1> QED BY <1>1, InitIInv, NextIInv, PTL DEF Spec

\* However many jobs overlap, a lock only ever vouches for a version of its own
\* item that its owner wrote or the app uploaded: what LockCheck in
\* SetOrUpdateLock is for.
THEOREM OwnerVouched == Spec => []LockVouchesForOwner
  <1>1. IInv => LockVouchesForOwner
    BY DEF IInv
  <1> QED BY <1>1, InitIInv, NextIInv, PTL DEF Spec

-----------------------------------------------------------------------------
(* No change of the drive is skipped.                                       *)

\* The token a job is about to save does not pass what responses contained.
MarksFetched == \A k \in Workers : job[k].pc # "page" => job[k].mark <= fetched

SkipInv == NoChangeSkipped /\ MarksFetched

\* A job that is about to ask for the changes, or reads them all page by page.
Asking(j) ==
    /\ j.op = "process"
    /\ j.pc \in {"token", "delta"} \/ (j.pc = "page" /\ j.mark = Len(log))

\* What NoChangeSkipped says, in these terms.
LEMMA SkippedMeans ==
    NoChangeSkipped <=>
        /\ token <= fetched
        /\ fetched < Len(log) /\ ~faulted => queue > 0 \/ \E k \in Workers : Asking(job[k])
  BY DEF NoChangeSkipped, Asking

\* A step of a job that is not about to ask, and leaves drive and token alone.
LEMMA NotAsking ==
    ASSUME IInv, SkipInv, NEW k \in Workers, NEW j,
           ~Asking(job[k]), j.mark <= fetched, job' = [job EXCEPT ![k] = j],
           UNCHANGED <<log, token, queue, fetched, faulted>>
    PROVE  SkipInv'
  <1>1. MarksFetched'
    BY DEF IInv, TypeOK, SkipInv, MarksFetched
  <1>2. NoChangeSkipped'
    <2>1. \A w \in Workers : Asking(job[w]) => w # k /\ job'[w] = job[w]
      BY DEF IInv, TypeOK
    <2>2. \A w \in Workers : Asking(job[w]) => Asking(job[w])'
      BY <2>1 DEF Asking
    <2> QED BY <2>2, SkippedMeans DEF SkipInv, NoChangeSkipped, Asking
  <1> QED BY <1>1, <1>2 DEF SkipInv

\* A change of the drive leaves a notification in the queue.
LEMMA Notified ==
    ASSUME IInv, SkipInv, Notify, UNCHANGED <<token, fetched>>,
           \A w \in Workers : job'[w] = job[w] \/ job'[w].mark <= fetched
    PROVE  SkipInv'
  <1>1. queue' > 0
    BY BoundsAssumption DEF Notify, IInv, TypeOK
  <1>2. MarksFetched'
    BY DEF IInv, TypeOK, SkipInv, MarksFetched
  <1> QED BY <1>1, <1>2 DEF SkipInv, NoChangeSkipped

\* A step of the clean-up that finds nothing to delete, or fails to.
LEMMA SweepSkips ==
    ASSUME IInv, SkipInv, NEW k \in Workers, NEW j,
           job[k].pc = "sweep", j.mark <= fetched, job' = [job EXCEPT ![k] = j],
           faulted' \in {faulted, TRUE}, UNCHANGED <<log, token, queue, fetched>>
    PROVE  SkipInv'
  <1>1. CASE UNCHANGED faulted
    BY <1>1, NotAsking DEF Asking
  <1>2. CASE faulted' = TRUE
    <2>1. MarksFetched'
      BY DEF IInv, TypeOK, SkipInv, MarksFetched
    <2> QED BY <1>2, <2>1 DEF SkipInv, NoChangeSkipped
  <1> QED BY <1>1, <1>2

\* Each step that changes the drive notifies, so nothing unseen is forgotten.
LEMMA DriveSkips ==
    ASSUME IInv, SkipInv, NEW k \in Workers,
           \/ UploadDoc(k) \/ FinishDelete(k)
           \/ CleanDelete(k) \/ CleanDeleteFolder(k)
    PROVE  SkipInv'
  <1>0. Len(log) \in Nat /\ job[k] \in Job(Len(log)) /\ JobOK(job[k])
    BY TheJob
  <1>1. Idle.mark <= fetched /\ (job[k].pc # "page" => job[k].mark <= fetched)
    BY DEF Idle, IInv, TypeOK, SkipInv, MarksFetched
  <1>2. CASE UploadDoc(k)
    <2>1. Notify /\ UNCHANGED <<token, fetched>>
      BY <1>2 DEF UploadDoc, Change
    <2>2. \A w \in Workers : job'[w] = job[w] \/ job'[w].mark <= fetched
      <3> PICK i : job' = [job EXCEPT ![k].pc = "getLock", ![k].id = i,
                                      ![k].item = Len(log) + 1, ![k].data = 0]
        BY <1>2 DEF UploadDoc
      <3>1. job'[k].mark = job[k].mark /\ job[k].pc = "put"
        BY <1>0, <1>2 DEF UploadDoc, Job, IInv, TypeOK
      <3> QED BY <1>1, <3>1 DEF IInv, TypeOK
    <2> QED BY <2>1, <2>2, Notified
  <1>3. CASE FinishDelete(k)
    <2>1. \A w \in Workers : job'[w] = job[w] \/ job'[w].mark <= fetched
      <3> HIDE DEF Idle
      <3> QED BY <1>1, <1>3 DEF FinishDelete, Return, IInv, TypeOK
    <2>2. CASE items[job[k].id] # 0
      BY <1>3, <2>1, <2>2, Notified DEF FinishDelete, DeleteFile, Change
    <2>3. CASE items[job[k].id] = 0
      <3>1. ~Asking(job[k])
        BY <1>3 DEF FinishDelete, Asking
      <3> HIDE DEF Idle
      <3> QED BY <1>1, <1>3, <2>3, <3>1, NotAsking DEF FinishDelete, DeleteFile, Return
    <2> QED BY <2>2, <2>3
  <1>4. CASE CleanDelete(k)
    <2>0. PICK i \in job[k].ids :
             /\ \/ DeleteFile(i) /\ UNCHANGED faulted
                \/ faulted' = TRUE /\ UNCHANGED <<log, items, queue>>
             /\ job' = [job EXCEPT ![k].ids = @ \ {i}]
      BY <1>4 DEF CleanDelete
    <2> DEFINE j == [job[k] EXCEPT !.ids = @ \ {i}]
    <2>1. job' = [job EXCEPT ![k] = j] /\ job[k].pc = "sweep" /\ j.mark <= fetched
      BY <1>0, <1>1, <1>4, <2>0 DEF CleanDelete, Job
    <2>2. UNCHANGED <<token, fetched>>
      BY <1>4 DEF CleanDelete
    <2>3. CASE DeleteFile(i) /\ items[i] # 0
      <3> HIDE DEF j
      <3>1. \A w \in Workers : job'[w] = job[w] \/ job'[w].mark <= fetched
        BY <2>1 DEF IInv, TypeOK
      <3> QED BY <2>2, <2>3, <3>1, Notified DEF DeleteFile, Change
    <2>4. CASE UNCHANGED <<log, queue>>
      <3> HIDE DEF j
      <3> QED BY <2>0, <2>1, <2>2, <2>4, SweepSkips
    <2> QED BY <2>0, <2>3, <2>4 DEF DeleteFile
  <1>5. CASE CleanDeleteFolder(k)
    <2>0. PICK n \in job[k].dirs :
             /\ \/ DeleteFolder(n) /\ UNCHANGED faulted
                \/ faulted' = TRUE /\ UNCHANGED <<log, items, queue, folders, removed>>
             /\ job' = [job EXCEPT ![k].dirs = @ \ {n}]
      BY <1>5 DEF CleanDeleteFolder
    <2> DEFINE j == [job[k] EXCEPT !.dirs = @ \ {n}]
    <2>1. job' = [job EXCEPT ![k] = j] /\ job[k].pc = "sweep" /\ j.mark <= fetched
      BY <1>0, <1>1, <1>5, <2>0 DEF CleanDeleteFolder, Job
    <2>2. UNCHANGED <<token, fetched>>
      BY <1>5 DEF CleanDeleteFolder
    <2>3. CASE Notify
      <3> HIDE DEF j
      <3>1. \A w \in Workers : job'[w] = job[w] \/ job'[w].mark <= fetched
        BY <2>1 DEF IInv, TypeOK
      <3> QED BY <2>2, <2>3, <3>1, Notified
    <2>4. CASE UNCHANGED <<log, queue>>
      <3> HIDE DEF j
      <3> QED BY <2>0, <2>1, <2>2, <2>4, SweepSkips
    <2>5. Notify \/ UNCHANGED <<log, queue>>
      <3>1. DeleteFolder(n) => Notify \/ UNCHANGED <<log, queue>>
        BY Zenon DEF DeleteFolder
      <3> QED BY <2>0, <3>1
    <2> QED BY <2>3, <2>4, <2>5
  <1> QED BY <1>2, <1>3, <1>4, <1>5

\* Reading the token, the changes and saving the token: a job asks from a token
\* no later than what was fetched, and saves no more than that.
LEMMA DeltaSkips ==
    ASSUME IInv, SkipInv, NEW k \in Workers,
           \/ ProcessSpoUpdates(k) \/ GetToken(k)
           \/ GetDelta(k) \/ GetNextPage(k) \/ SaveToken(k)
    PROVE  SkipInv'
  <1>0. Len(log) \in Nat /\ job[k] \in Job(Len(log)) /\ JobOK(job[k])
    BY TheJob
  <1>1. fetched \in 0 .. Len(log) /\ token \in 0 .. Len(log) /\ token <= fetched
    BY DEF IInv, TypeOK, SkipInv, NoChangeSkipped
  <1>2. CASE ProcessSpoUpdates(k)
    <2>1. Asking(job'[k]) /\ job'[k].mark = 0
      BY <1>2 DEF ProcessSpoUpdates, Idle, Asking, IInv, TypeOK
    <2>2. MarksFetched'
      BY <1>1, <1>2, <2>1 DEF ProcessSpoUpdates, SkipInv, MarksFetched, IInv, TypeOK
    <2> QED BY <1>1, <1>2, <2>1, <2>2, SkippedMeans
        DEF ProcessSpoUpdates, SkipInv, NoChangeSkipped, Asking
  <1>3. CASE GetToken(k)
    <2>1. /\ job'[k].op = job[k].op /\ job'[k].pc = "delta" /\ job'[k].mark = token
          /\ \A w \in Workers : w # k => job'[w] = job[w]
      BY <1>0, <1>3 DEF GetToken, IInv, TypeOK, Job
    <2>2. MarksFetched'
      BY <1>1, <1>3, <2>1 DEF GetToken, SkipInv, MarksFetched
    <2> QED BY <1>3, <2>1, <2>2 DEF GetToken, SkipInv, NoChangeSkipped
  <1>4. CASE GetDelta(k)
    <2>0. /\ job[k].pc = "delta" /\ UNCHANGED <<log, token, queue, faulted>>
          /\ \/ fetched' = Len(log) /\ job'[k].pc = "save" /\ job'[k].mark = Len(log)
             \/ /\ fetched' = fetched /\ job'[k].op = job[k].op
                /\ job'[k].pc = "page" /\ job'[k].mark = Len(log)
          /\ \A w \in Workers : w # k => job'[w] = job[w]
      <3> DEFINE changed == Changed(job[k].mark)
      <3>0. job \in [Workers -> Job(Len(log))] /\ job[k].pc = "delta"
            /\ UNCHANGED <<log, token, queue, faulted>>
        BY <1>4 DEF GetDelta, IInv, TypeOK
      <3>1. CASE /\ job' = [job EXCEPT ![k].pc = "save", ![k].mark = Len(log),
                                       ![k].todo = PageOf(k, changed)]
                 /\ fetched' = Len(log)
        <4> HIDE DEF changed
        <4> QED BY <1>0, <3>0, <3>1 DEF Job
      <3>2. ASSUME NEW page, UNCHANGED fetched,
                   job' = [job EXCEPT ![k].pc = "page", ![k].mark = Len(log),
                                 ![k].todo = PageOf(k, page), ![k].ids = changed \ page]
            PROVE  /\ fetched' = fetched /\ job'[k].op = job[k].op
                   /\ job'[k].pc = "page" /\ job'[k].mark = Len(log)
                   /\ \A w \in Workers : w # k => job'[w] = job[w]
        <4> HIDE DEF changed
        <4> QED BY <1>0, <3>0, <3>2 DEF Job
      <3> QED BY <1>4, <3>0, <3>1, <3>2, Zenon DEF GetDelta
    <2>1. MarksFetched'
      <3>1. \A w \in Workers : job[w].mark \in 0 .. Len(log)
        BY <1>0, TheJob DEF Job
      <3>2. \A w \in Workers : job[w].pc # "page" => job[w].mark <= fetched'
        BY <1>0, <1>1, <2>0, <3>1 DEF SkipInv, MarksFetched
      <3>3. job'[k].pc # "page" => job'[k].mark <= fetched'
        BY <1>0, <2>0
      <3> QED BY <2>0, <3>2, <3>3 DEF MarksFetched
    <2>2. CASE fetched' = Len(log)
      BY <1>0, <1>1, <2>0, <2>1, <2>2 DEF SkipInv, NoChangeSkipped
    <2>3. CASE fetched' = fetched /\ job'[k].op = job[k].op
                 /\ job'[k].pc = "page" /\ job'[k].mark = Len(log)
      <3>1. \A w \in Workers : Asking(job[w]) => Asking(job[w])'
        BY <2>0, <2>3 DEF Asking
      <3> QED BY <2>0, <2>1, <2>3, <3>1, SkippedMeans
          DEF SkipInv, NoChangeSkipped, Asking
    <2> QED BY <2>0, <2>2, <2>3
  <1>6. CASE GetNextPage(k)
    <2>0. /\ job[k].pc = "page" /\ UNCHANGED <<log, token, queue, faulted>>
          /\ \/ /\ fetched' = IF fetched < job[k].mark THEN job[k].mark ELSE fetched
                /\ job'[k].pc # "page" /\ job'[k].mark = 0
             \/ /\ fetched' = fetched /\ job'[k].op = job[k].op
                /\ job'[k].pc = "page" /\ job'[k].mark = job[k].mark
          /\ \A w \in Workers : w # k => job'[w] = job[w]
      <3> DEFINE found(page) == job[k].todo \cup PageOf(k, page)
      <3>0. job \in [Workers -> Job(Len(log))] /\ job[k].pc = "page"
            /\ UNCHANGED <<log, token, queue, faulted>>
        BY <1>6 DEF GetNextPage, IInv, TypeOK
      <3>1. ASSUME NEW page,
                   job' = [job EXCEPT ![k].pc = AfterDelta(k), ![k].mark = 0,
                                      ![k].todo = found(page), ![k].ids = {}]
            PROVE  /\ job'[k].pc # "page" /\ job'[k].mark = 0
                   /\ \A w \in Workers : w # k => job'[w] = job[w]
        <4> HIDE DEF found
        <4> QED BY <1>0, <3>0, <3>1 DEF Job, AfterDelta
      <3>2. ASSUME NEW page,
                   job' = [job EXCEPT ![k].todo = found(page), ![k].ids = @ \ page]
            PROVE  /\ job'[k].op = job[k].op /\ job'[k].pc = "page"
                   /\ job'[k].mark = job[k].mark
                   /\ \A w \in Workers : w # k => job'[w] = job[w]
        <4> HIDE DEF found
        <4> QED BY <1>0, <3>0, <3>2 DEF Job
      <3> QED BY <1>6, <3>0, <3>1, <3>2, Zenon DEF GetNextPage
    <2>1. fetched <= fetched' /\ fetched' \in 0 .. Len(log) /\ job[k].mark \in 0 .. Len(log)
      BY <1>0, <1>1, <2>0 DEF Job
    <2>2. MarksFetched'
      <3>1. \A w \in Workers : job[w].mark \in 0 .. Len(log)
        BY TheJob DEF Job
      <3> QED BY <1>0, <1>1, <2>0, <2>1, <3>1 DEF SkipInv, MarksFetched, IInv, TypeOK
    <2>3. CASE /\ fetched' = IF fetched < job[k].mark THEN job[k].mark ELSE fetched
               /\ job'[k].pc # "page"
      <3>1. CASE job[k].mark = Len(log)
        BY <1>0, <1>1, <2>0, <2>1, <2>2, <2>3, <3>1 DEF SkipInv, NoChangeSkipped
      <3>2. CASE job[k].mark # Len(log)
        <4>1. \A w \in Workers : Asking(job[w]) => Asking(job[w])'
          BY <2>0, <3>2 DEF Asking
        <4> QED BY <1>0, <1>1, <2>0, <2>1, <2>2, <4>1, SkippedMeans
            DEF SkipInv, NoChangeSkipped, Asking
      <3> QED BY <3>1, <3>2
    <2>4. CASE /\ fetched' = fetched /\ job'[k].op = job[k].op
               /\ job'[k].pc = "page" /\ job'[k].mark = job[k].mark
      <3>1. \A w \in Workers : Asking(job[w]) => Asking(job[w])'
        BY <2>0, <2>4 DEF Asking
      <3> QED BY <2>0, <2>2, <2>4, <3>1, SkippedMeans
          DEF SkipInv, NoChangeSkipped, Asking
    <2> QED BY <2>0, <2>3, <2>4
  <1>5. CASE SaveToken(k)
    <2>1. /\ job'[k].mark = 0 /\ job[k].pc = "save"
          /\ \A w \in Workers : w # k => job'[w] = job[w]
      BY <1>0, <1>5 DEF SaveToken, IInv, TypeOK, Job
    <2>2. token' = job[k].mark /\ UNCHANGED <<log, queue, fetched, faulted, folders, removed>>
      BY <1>5 DEF SaveToken
    <2>3. (token <= fetched)'
      BY <2>1, <2>2 DEF SkipInv, MarksFetched
    <2>4. MarksFetched'
      BY <1>1, <2>1, <2>2 DEF SkipInv, MarksFetched
    <2> QED BY <2>1, <2>2, <2>3, <2>4 DEF SaveToken, SkipInv, NoChangeSkipped
  <1> QED BY <1>2, <1>3, <1>4, <1>5, <1>6

\* The steps that neither touch the drive nor ask for its changes.
LEMMA OtherSkips ==
    ASSUME IInv, SkipInv, NEW k \in Workers,
           \/ \E u \in Users, f \in Files : StartEdit(k, u, f)
           \/ StartGuard(k) \/ StartDownload(k)
           \/ SetLockCheck(k) \/ SetLockUpsert(k)
           \/ UploadCheck(k) \/ UploadRead(k) \/ UploadWrite(k)
           \/ \E i \in Ids : FinishEditing(k, i)
           \/ ReadLocks(k) \/ NextLock(k) \/ FinishGetItem(k) \/ ClearLock(k)
           \/ CleanOldFiles(k) \/ CleanList(k) \/ CleanEnd(k)
    PROVE  SkipInv'
  <1>0. Len(log) \in Nat /\ job[k] \in Job(Len(log)) /\ JobOK(job[k])
    BY TheJob
  <1>2. ~Asking(job[k]) /\ job[k].pc # "page"
    <2>1. CASE job[k] = Idle
      BY <2>1 DEF Asking, Idle
    <2>2. CASE job[k] # Idle
      BY <2>2
      DEF Asking, StartEdit, StartGuard, StartDownload, SetLockCheck, SetLockUpsert,
          UploadCheck, UploadRead, UploadWrite, FinishEditing, ReadLocks, NextLock,
          FinishGetItem, ClearLock, CleanOldFiles, CleanList, CleanEnd
    <2> QED BY <2>1, <2>2
  <1>1. Idle.mark <= fetched /\ job[k].mark <= fetched
    BY <1>2 DEF Idle, IInv, TypeOK, SkipInv, MarksFetched
  <1>3. UNCHANGED <<log, token, queue, fetched, faulted>>
    BY DEF StartEdit, StartGuard, StartDownload, SetLockCheck, SetLockUpsert,
           UploadCheck, UploadRead, UploadWrite, FinishEditing, ReadLocks, NextLock,
           FinishGetItem, ClearLock, CleanOldFiles, CleanList, CleanEnd
  <1> DEFINE Kept == job' = [job EXCEPT ![k] = job'[k]] /\ job'[k].mark <= fetched
  <1>4. Kept
    <2>0. job \in [Workers -> Job(Len(log))]
      BY DEF IInv, TypeOK
    <2>1. ASSUME NEW u, NEW f, StartEdit(k, u, f) PROVE Kept
      BY <1>1, <2>0, <2>1, ZenonT(40) DEF StartEdit, Idle
    <2>2. ASSUME NEW i, FinishEditing(k, i) PROVE Kept
      BY <1>1, <2>0, <2>2 DEF FinishEditing, Idle
    <2>3. CASE CleanOldFiles(k)
      BY <1>1, <2>0, <2>3 DEF CleanOldFiles, Idle
    <2>4. CASE StartGuard(k) \/ StartDownload(k) \/ SetLockCheck(k) \/ SetLockUpsert(k)
      BY <1>0, <1>1, <2>0, <2>4, SMTT(30)
      DEF StartGuard, StartDownload, SetLockCheck, SetLockUpsert, Conflict, Return, Job, Idle
    <2>5. CASE UploadCheck(k) \/ UploadRead(k) \/ UploadWrite(k)
      BY <1>0, <1>1, <2>0, <2>5, SMTT(30)
      DEF UploadCheck, UploadRead, UploadWrite, Conflict, Return, Job, Idle
    <2>6. CASE ReadLocks(k)
      BY <1>0, <1>1, <2>0, <2>6 DEF ReadLocks, Return, Job, Idle
    <2>7. CASE NextLock(k)
      <3>1. CASE Return(k)
        BY <1>1, <2>0, <3>1 DEF Return, Idle
      <3>2. ASSUME NEW c, job' = [job EXCEPT ![k].todo = @ \ {c}] PROVE Kept
        BY <1>0, <1>1, <2>0, <3>2 DEF Job
      <3>3. ASSUME NEW c, job' = [job EXCEPT ![k].pc = "getLock", ![k].id = c.id,
                                     ![k].item = c.item, ![k].file = c.lock.file,
                                     ![k].user = GetUserName(c.item), ![k].todo = @ \ {c}]
            PROVE  Kept
        BY <1>0, <1>1, <2>0, <3>3 DEF Job
      <3> HIDE DEF Kept
      <3> QED BY <2>7, <3>1, <3>2, <3>3 DEF NextLock
    <2>8. CASE FinishGetItem(k) \/ ClearLock(k) \/ CleanList(k) \/ CleanEnd(k)
      BY <1>0, <1>1, <2>0, <2>8 DEF FinishGetItem, ClearLock, CleanList, CleanEnd, Return, Job, Idle
    <2> QED BY <2>1, <2>2, <2>3, <2>4, <2>5, <2>6, <2>7, <2>8
  <1> HIDE DEF Idle
  <1> QED BY <1>1, <1>2, <1>3, <1>4, NotAsking

\* Every step keeps the two invariants together.
LEMMA NextSkipInv == IInv /\ SkipInv /\ [Next]_vars => SkipInv'
  <1> SUFFICES ASSUME IInv, SkipInv, [Next]_vars PROVE SkipInv'
    OBVIOUS
  <1>1. ASSUME NEW k \in Workers, Step(k) PROVE SkipInv'
    <2>1. CASE Fail(k)
      <3>1. Idle.mark = 0 /\ fetched \in Nat
        BY DEF Idle, IInv, TypeOK
      <3> QED BY <2>1, <3>1
          DEF Fail, Return, SkipInv, NoChangeSkipped, MarksFetched, IInv, TypeOK
    <2> QED BY <1>1, <2>1, DriveSkips, DeltaSkips, OtherSkips DEF Step
  <1>2. ASSUME NEW u \in Users, NEW i \in Ids, UserEdit(u, i) \/ UserDelete(u, i)
        PROVE  SkipInv'
    BY <1>2, Notified DEF UserEdit, UserDelete, Change
  <1>3. CASE UNCHANGED vars
    BY <1>3 DEF vars, SkipInv, NoChangeSkipped, MarksFetched
  <1> QED BY <1>1, <1>2, <1>3 DEF Next

\* No change of the drive is skipped, however the jobs overlap: the saved token
\* never passes a change no response contained, although it is saved by one job
\* while another reads, and although FinishEditing saves it too.
THEOREM NothingSkipped == Spec => []NoChangeSkipped
  <1>1. Init => SkipInv
    BY DEF Init, SkipInv, NoChangeSkipped, MarksFetched, Idle
  <1>2. SkipInv => NoChangeSkipped
    BY DEF SkipInv
  <1> QED BY <1>1, <1>2, InitIInv, NextIInv, NextSkipInv, PTL DEF Spec

-----------------------------------------------------------------------------
(* Paths and ages: what the log says of an item, however the jobs overlap.  *)

\* The row is about item i, and names the path the item is at.
Sound(i, lock, drive) ==
    lock # NoLock => drive[lock.etag].id = i /\ drive[lock.etag].file = lock.file

\* An item stays at its path.
SamePath == \A m, n \in DOMAIN log : log[m].id = log[n].id => log[m].file = log[n].file

\* Content is as old as the change that made it, or older.
Fits(n) == n <= Len(log) /\ n <= MaxLog
DataOld ==
    /\ \A n \in DOMAIN log : log[n].data <= n /\ log[n].data <= MaxLog
    /\ \A f \in Files : Fits(blob[f])
    /\ \A k \in Workers : Fits(job[k].data)

\* The path at which the drive has each item is its own.
OnePathEach == \A i, j \in Live : log[items[i]].file = log[items[j]].file => i = j

\* What a job carries between two steps names the path of the item it carries.
Carrying == {"getLock", "upsert", "check", "read", "write"}
NamesOK(j, drive) ==
    /\ j.pc \in Carrying => j.item # 0 /\ drive[j.item].id = j.id /\ drive[j.item].file = j.file
    /\ j.op = "finish" => Sound(j.id, j.lock, drive) /\ j.file = j.lock.file
    /\ \A c \in j.todo : Sound(c.id, c.lock, drive)

PathInv ==
    /\ SamePath /\ OnePathEach /\ DataOld
    /\ \A i \in Ids : Sound(i, locks[i], log)
    /\ \A k \in Workers : NamesOK(job[k], log)

\* A lock row that vouches for a version in the log says the same when the log grows.
LEMMA SoundStays ==
    ASSUME NEW drive, NEW longer, Extends(longer, drive), NEW i,
           NEW lock \in LockOrNone(Len(drive)), Sound(i, lock, drive)
    PROVE  Sound(i, lock, longer)
  <1> SUFFICES ASSUME lock # NoLock
               PROVE  longer[lock.etag] = drive[lock.etag]
    BY DEF Sound
  <1>1. lock.etag \in 1 .. Len(drive)
    BY DEF LockOrNone, LockRow
  <1> QED BY <1>1 DEF Extends

\* So does a job.
LEMMA NamesStay ==
    ASSUME NEW drive, NEW longer, Extends(longer, drive),
           NEW j \in Job(Len(drive)), NamesOK(j, drive)
    PROVE  NamesOK(j, longer)
  <1>1. j.item # 0 => longer[j.item] = drive[j.item]
    <2>1. j.item \in 0 .. Len(drive) /\ Len(drive) \in Nat
      BY DEF Job, Extends
    <2> QED BY <2>1 DEF Extends
  <1>2. Sound(j.id, j.lock, drive) => Sound(j.id, j.lock, longer)
    BY SoundStays DEF Job
  <1>3. \A c \in j.todo : Sound(c.id, c.lock, longer)
    BY SoundStays DEF Job, Found, NamesOK
  <1>4. j.item # 0 => /\ longer[j.item].id = drive[j.item].id
                      /\ longer[j.item].file = drive[j.item].file
    BY <1>1
  <1> QED BY <1>2, <1>3, <1>4 DEF NamesOK

\* A worker that runs nothing names nothing.
LEMMA IdleNames == NamesOK(Idle, log) /\ Idle.data = 0
  BY DEF NamesOK, Idle, Carrying

\* A step that leaves the drive alone.
LEMMA PathQuiet ==
    ASSUME IInv, PathInv, NEW k \in Workers, UNCHANGED <<log, items>>,
           \A w \in Workers \ {k} : job'[w] = job[w],
           NamesOK(job'[k], log), Fits(job'[k].data),
           \A i \in Ids : Sound(i, locks'[i], log), \A f \in Files : Fits(blob'[f])
    PROVE  PathInv'
  <1>1. SamePath' /\ OnePathEach'
    BY DEF PathInv, SamePath, OnePathEach, Live
  <1>2. DataOld'
    BY DEF PathInv, DataOld, Fits
  <1>3. \A w \in Workers : NamesOK(job'[w], log')
    BY DEF PathInv
  <1> QED BY <1>1, <1>2, <1>3 DEF PathInv

\* The same when it writes neither locks nor blobs.
LEMMA PathJob ==
    ASSUME IInv, PathInv, NEW k \in Workers, UNCHANGED <<log, items, locks, blob>>,
           \A w \in Workers \ {k} : job'[w] = job[w],
           NamesOK(job'[k], log), Fits(job'[k].data)
    PROVE  PathInv'
  BY PathQuiet DEF PathInv, DataOld

\* A change of an item at its path, or of a new item where no other is.
LEMMA PathDrive ==
    ASSUME IInv, PathInv, NEW i \in Ids, NEW f \in Files, NEW by \in Users \cup {App},
           NEW data \in Nat, data <= Len(log) + 1, data <= MaxLog,
           log' = Append(log, Entry(i, f, by, data)),
           \/ i \in ItemWithPath(f)
           \/ i \notin UsedIds /\ ItemWithPath(f) = {},
           NEW v, v = 0 \/ v = Len(log) + 1, items' = [items EXCEPT ![i] = v],
           \A w \in Workers :
               \/ job'[w] = job[w]
               \/ NamesOK(job'[w], log') /\ job'[w].data \in {0, job[w].data},
           UNCHANGED <<locks, blob>>
    PROVE  PathInv'
  <1> DEFINE e == Entry(i, f, by, data)
  <1>1. log \in Seq(LogEntry) /\ e \in LogEntry
    BY DEF IInv, TypeOK, LogEntry, Entry
  <1>2. /\ Len(log) \in Nat /\ Len(log') = Len(log) + 1 /\ log' \in Seq(LogEntry)
        /\ \A n \in 1 .. Len(log) : log'[n] = log[n]
        /\ log'[Len(log) + 1] = e
    BY <1>1, AppendEntry
  <1>3. /\ DOMAIN log = 1 .. Len(log) /\ DOMAIN log' = 1 .. (Len(log) + 1)
        /\ e.id = i /\ e.file = f /\ e.data = data
    BY <1>1, <1>2 DEF Entry
  <1> HIDE DEF e
  <1>4. \A x \in Live : items[x] \in DOMAIN log /\ log[items[x]].id = x
    BY <1>2, <1>3 DEF Live, IInv, TypeOK, ItemsOK
  <1>5. \A n \in DOMAIN log : log[n].id = i => log[n].file = f
    BY <1>4 DEF ItemWithPath, UsedIds, PathInv, SamePath
  <1>6. SamePath'
    BY <1>2, <1>3, <1>5 DEF PathInv, SamePath
  <1>7. OnePathEach'
    <2> SUFFICES ASSUME NEW x \in Ids, NEW y \in Ids, items'[x] # 0, items'[y] # 0,
                        log'[items'[x]].file = log'[items'[y]].file
                 PROVE  x = y
      BY DEF OnePathEach, Live
    <2>1. \A z \in Ids : z # i => items'[z] = items[z]
      BY DEF IInv, TypeOK
    <2>2. items'[i] # 0 => log'[items'[i]].file = f
      BY <1>2, <1>3 DEF IInv, TypeOK
    <2>3. \A z \in Live : z # i => log[items[z]].file # f
      BY DEF PathInv, OnePathEach, ItemWithPath
    <2>4. \A z \in Ids : z # i /\ items'[z] # 0 =>
              z \in Live /\ log'[items'[z]] = log[items[z]]
      BY <1>2, <1>3, <1>4, <2>1 DEF Live
    <2>5. CASE x # i /\ y # i
      <3>1. x \in Live /\ y \in Live /\ log[items[x]].file = log[items[y]].file
        BY <2>4, <2>5
      <3> QED BY <3>1 DEF PathInv, OnePathEach
    <2>6. \A z \in Ids : z # i /\ items'[z] # 0 => log'[items'[z]].file # f
      BY <2>3, <2>4
    <2>7. CASE x = i \/ y = i
      BY <2>2, <2>6, <2>7
    <2> QED BY <2>5, <2>7
  <1>8. DataOld'
    <2>1. \A n \in DOMAIN log' : log'[n].data <= n /\ log'[n].data <= MaxLog
      BY <1>2, <1>3 DEF PathInv, DataOld
    <2>2. \A n \in Nat : Fits(n) => Fits(n)'
      BY <1>2 DEF Fits
    <2>3. Fits(0)'
      BY <1>2, BoundsAssumption DEF Fits
    <2>4. \A w \in Workers : job[w].data \in Nat
      BY TheJob DEF Job
    <2> QED BY <2>1, <2>2, <2>3, <2>4 DEF PathInv, DataOld, IInv, TypeOK, Fits
  <1>11. Extends(log', log)
    BY <1>1, AppendExtends DEF e
  <1>9. \A x \in Ids : Sound(x, locks[x], log')
    BY <1>11, SoundStays DEF PathInv, IInv, TypeOK
  <1>10. \A w \in Workers : NamesOK(job'[w], log')
    BY <1>11, TheJob, NamesStay DEF PathInv
  <1> QED BY <1>6, <1>7, <1>8, <1>9, <1>10 DEF PathInv

\* A job that ends names nothing.
LEMMA PathReturn ==
    ASSUME IInv, PathInv, NEW k \in Workers, Return(k), UNCHANGED <<log, items, locks, blob>>
    PROVE  PathInv'
  <1>1. job'[k] = Idle /\ \A w \in Workers \ {k} : job'[w] = job[w]
    BY DEF Return, IInv, TypeOK
  <1>2. Fits(Idle.data)
    BY IdleNames, TheJob, BoundsAssumption DEF Fits
  <1> QED BY <1>1, <1>2, IdleNames, PathJob

\* A step that moves job k on with what it carries, or less to do.
LEMMA PathGoesOn ==
    ASSUME IInv, PathInv, NEW k \in Workers, UNCHANGED <<log, items, locks, blob>>,
           \A w \in Workers \ {k} : job'[w] = job[w],
           job'[k].op = job[k].op, job'[k].id = job[k].id, job'[k].item = job[k].item,
           job'[k].file = job[k].file, job'[k].lock = job[k].lock,
           job'[k].todo \subseteq job[k].todo, job'[k].data = job[k].data,
           job'[k].pc \in Carrying => job[k].pc \in Carrying
    PROVE  PathInv'
  <1>1. NamesOK(job'[k], log)
    BY DEF PathInv, NamesOK
  <1> QED BY <1>1, PathJob DEF PathInv, DataOld

\* Conflict goes on with the next item, or ends the job.
LEMMA PathConflict ==
    ASSUME IInv, PathInv, NEW k \in Workers, Conflict(k), UNCHANGED <<log, items, locks, blob>>
    PROVE  PathInv'
  <1>1. CASE job[k].op = "process"
    <2>1. job' = [job EXCEPT ![k].pc = "next"]
      BY <1>1 DEF Conflict, IInv, TypeOK
    <2>2. job'[k] = [job[k] EXCEPT !.pc = "next"] /\ \A w \in Workers \ {k} : job'[w] = job[w]
      BY <2>1 DEF IInv, TypeOK
    <2> QED BY <2>2, TheJob, PathGoesOn DEF Job, Carrying
  <1>2. CASE job[k].op # "process"
    <2>1. Return(k)
      BY <1>2 DEF Conflict, Return, IInv, TypeOK
    <2> QED BY <2>1, PathReturn
  <1> QED BY <1>1, <1>2

\* The job of an edit that starts.
LEMMA StartedJob ==
    ASSUME IInv, NEW k \in Workers, NEW u, NEW f, StartEdit(k, u, f)
    PROVE  /\ job[k].pc = "idle"
           /\ job'[k].op = "start" /\ job'[k].pc \in {"guard", "download"}
           /\ job'[k].todo = {} /\ job'[k].data = 0
           /\ \A w \in Workers \ {k} : job'[w] = job[w]
  <1> DEFINE Started(j) == /\ j.op = "start" /\ j.pc \in {"guard", "download"}
                           /\ j.todo = {} /\ j.data = 0
  <1>1. Started([Idle EXCEPT !.op = "start", !.pc = "download", !.user = u, !.file = f])
    BY DEF Idle
  <1>2. \A i : Started([Idle EXCEPT !.op = "start", !.pc = "guard", !.user = u, !.file = f,
                                    !.id = i])
    BY DEF Idle
  <1>3. \E j : Started(j) /\ job' = [job EXCEPT ![k] = j]
    <2> HIDE DEF Started
    <2> QED BY <1>1, <1>2, Zenon DEF StartEdit
  <1>4. job[k].pc = "idle"
    <2>1. job[k] = Idle
      BY DEF StartEdit
    <2> QED BY <2>1 DEF Idle
  <1> QED BY <1>3, <1>4 DEF IInv, TypeOK

\* StartFileEditInSpo up to the upload.
LEMMA PathStart ==
    ASSUME IInv, PathInv, NEW k \in Workers,
           \/ \E u \in Users, f \in Files : StartEdit(k, u, f)
           \/ StartGuard(k) \/ StartDownload(k)
    PROVE  PathInv'
  <1>0. Len(log) \in Nat /\ job[k] \in Job(Len(log)) /\ JobOK(job[k])
    BY TheJob
  <1>1. ASSUME NEW u, NEW f, StartEdit(k, u, f) PROVE PathInv'
    <2>1. /\ job'[k].op = "start" /\ job'[k].pc \in {"guard", "download"}
          /\ job'[k].todo = {} /\ job'[k].data = 0
          /\ \A w \in Workers \ {k} : job'[w] = job[w]
      BY <1>1, StartedJob
    <2>2. NamesOK(job'[k], log) /\ Fits(job'[k].data)
      BY <1>0, <2>1, BoundsAssumption DEF NamesOK, Carrying, Fits
    <2> QED BY <1>1, <2>1, <2>2, PathJob DEF StartEdit
  <1>2. CASE StartGuard(k)
    <2>1. CASE Return(k)
      BY <1>2, <2>1, PathReturn DEF StartGuard
    <2>2. CASE job' = [job EXCEPT ![k].pc = "download", ![k].id = 0]
      <3>1. /\ job'[k].op = job[k].op /\ job'[k].pc = "download"
            /\ job'[k].todo = job[k].todo /\ job'[k].data = job[k].data
            /\ \A w \in Workers \ {k} : job'[w] = job[w]
        BY <1>0, <2>2 DEF Job, IInv, TypeOK
      <3>2. job[k].op = "start"
        BY <1>0, <1>2 DEF StartGuard, JobOK
      <3>3. NamesOK(job'[k], log)
        BY <3>1, <3>2 DEF PathInv, NamesOK, Carrying
      <3> QED BY <1>2, <3>1, <3>3, PathJob DEF StartGuard, PathInv, DataOld
    <2> QED BY <1>2, <2>1, <2>2 DEF StartGuard
  <1>3. CASE StartDownload(k)
    <2>1. /\ job'[k].op = job[k].op /\ job'[k].pc = "put"
          /\ job'[k].todo = job[k].todo /\ job'[k].data = blob[job[k].file]
          /\ \A w \in Workers \ {k} : job'[w] = job[w]
      BY <1>0, <1>3 DEF StartDownload, Job, IInv, TypeOK
    <2>2. job[k].op = "start" /\ job[k].file \in Files
      BY <1>0, <1>3 DEF StartDownload, JobOK
    <2>3. NamesOK(job'[k], log) /\ Fits(job'[k].data)
      BY <2>1, <2>2 DEF PathInv, NamesOK, Carrying, DataOld
    <2> QED BY <1>3, <2>1, <2>3, PathJob DEF StartDownload
  <1> QED BY <1>1, <1>2, <1>3

\* SetOrUpdateLock writes a row about the item the job carries, at its path.
LEMMA PathSetLock ==
    ASSUME IInv, PathInv, NEW k \in Workers, SetLockCheck(k) \/ SetLockUpsert(k)
    PROVE  PathInv'
  <1>0. Len(log) \in Nat /\ job[k] \in Job(Len(log)) /\ JobOK(job[k]) /\ NamesOK(job[k], log)
    BY TheJob DEF PathInv
  <1>1. CASE SetLockCheck(k)
    <2>1. CASE Conflict(k)
      BY <1>1, <2>1, PathConflict DEF SetLockCheck
    <2>2. CASE job' = [job EXCEPT ![k].pc = "upsert"]
      <3>1. job'[k] = [job[k] EXCEPT !.pc = "upsert"] /\ \A w \in Workers \ {k} : job'[w] = job[w]
        BY <2>2 DEF IInv, TypeOK
      <3> QED BY <1>0, <1>1, <3>1, PathGoesOn DEF SetLockCheck, Job, Carrying
    <2> QED BY <1>1, <2>1, <2>2 DEF SetLockCheck
  <1>2. CASE SetLockUpsert(k)
    <2> DEFINE row == FileLock(job[k].user, job[k].item, job[k].file)
    <2>1. Sound(job[k].id, row, log)
      BY <1>0, <1>2 DEF SetLockUpsert, NamesOK, Carrying, Sound, FileLock
    <2>2. locks' = [locks EXCEPT ![job[k].id] = row]
      BY <1>2 DEF SetLockUpsert
    <2> HIDE DEF row
    <2>3. \A i \in Ids : Sound(i, locks'[i], log)
      BY <2>1, <2>2 DEF PathInv, IInv, TypeOK
    <2>4. /\ job'[k] = Idle \/ job'[k] = [job[k] EXCEPT !.pc = "check"]
          /\ \A w \in Workers \ {k} : job'[w] = job[w]
      BY <1>2 DEF SetLockUpsert, Return, IInv, TypeOK
    <2>5. NamesOK(job'[k], log) /\ Fits(job'[k].data)
      <3>1. CASE job'[k] = Idle
        BY <1>0, <3>1, IdleNames, BoundsAssumption DEF Fits
      <3>2. CASE job'[k] = [job[k] EXCEPT !.pc = "check"]
        <4>1. /\ job'[k].op = job[k].op /\ job'[k].id = job[k].id /\ job'[k].item = job[k].item
              /\ job'[k].file = job[k].file /\ job'[k].lock = job[k].lock
              /\ job'[k].todo = job[k].todo /\ job'[k].data = job[k].data
          BY <1>0, <3>2 DEF Job
        <4> QED BY <1>0, <1>2, <4>1 DEF SetLockUpsert, NamesOK, Carrying, PathInv, DataOld
      <3> QED BY <2>4, <3>1, <3>2
    <2> QED BY <1>2, <2>3, <2>4, <2>5, PathQuiet DEF SetLockUpsert, PathInv, DataOld
  <1> QED BY <1>1, <1>2

\* UploadSharePointFileToAzureBlob writes content the drive has.
LEMMA PathUpload ==
    ASSUME IInv, PathInv, NEW k \in Workers, UploadCheck(k) \/ UploadRead(k) \/ UploadWrite(k)
    PROVE  PathInv'
  <1>0. Len(log) \in Nat /\ job[k] \in Job(Len(log)) /\ JobOK(job[k]) /\ NamesOK(job[k], log)
    BY TheJob DEF PathInv
  <1>1. CASE UploadCheck(k)
    <2>1. CASE Conflict(k)
      BY <1>1, <2>1, PathConflict DEF UploadCheck
    <2>2. CASE job' = [job EXCEPT ![k].pc = "read"]
      <3>1. job'[k] = [job[k] EXCEPT !.pc = "read"] /\ \A w \in Workers \ {k} : job'[w] = job[w]
        BY <2>2 DEF IInv, TypeOK
      <3> QED BY <1>0, <1>1, <3>1, PathGoesOn DEF UploadCheck, Job, Carrying
    <2> QED BY <1>1, <2>1, <2>2 DEF UploadCheck
  <1>2. CASE UploadRead(k)
    <2>1. CASE Return(k)
      BY <1>2, <2>1, PathReturn DEF UploadRead
    <2>2. ASSUME NEW i \in ItemWithPath(job[k].file),
                 job' = [job EXCEPT ![k].pc = "write", ![k].data = log[items[i]].data]
          PROVE  PathInv'
      <3>1. items[i] \in 1 .. Len(log) /\ DOMAIN log = 1 .. Len(log)
        BY <1>0 DEF ItemWithPath, Live, IInv, TypeOK
      <3>2. Fits(log[items[i]].data)
        BY <1>0, <3>1, TheEntry DEF PathInv, DataOld, Fits
      <3>3. /\ job'[k].op = job[k].op /\ job'[k].id = job[k].id /\ job'[k].item = job[k].item
            /\ job'[k].file = job[k].file /\ job'[k].lock = job[k].lock
            /\ job'[k].todo = job[k].todo /\ job'[k].data = log[items[i]].data
            /\ \A w \in Workers \ {k} : job'[w] = job[w]
        BY <1>0, <2>2 DEF Job, IInv, TypeOK
      <3>4. NamesOK(job'[k], log)
        BY <1>0, <1>2, <3>3 DEF UploadRead, NamesOK, Carrying
      <3> QED BY <1>2, <3>2, <3>3, <3>4, PathJob DEF UploadRead
    <2> QED BY <1>2, <2>1, <2>2 DEF UploadRead
  <1>3. CASE UploadWrite(k)
    <2>1. /\ job'[k].op = job[k].op /\ job'[k].pc \in {"next", "clear"}
          /\ job'[k].id = job[k].id /\ job'[k].lock = job[k].lock
          /\ job'[k].file = job[k].file /\ job'[k].todo = job[k].todo /\ job'[k].data = 0
          /\ \A w \in Workers \ {k} : job'[w] = job[w]
      BY <1>0, <1>3 DEF UploadWrite, Job, IInv, TypeOK
    <2>2. NamesOK(job'[k], log) /\ Fits(job'[k].data)
      BY <1>0, <2>1, BoundsAssumption DEF NamesOK, Carrying, Fits
    <2>3. \A f \in Files : Fits(blob'[f])
      BY <1>0, <1>3 DEF UploadWrite, PathInv, DataOld, IInv, TypeOK
    <2> QED BY <1>3, <2>1, <2>2, <2>3, PathQuiet DEF UploadWrite, PathInv
  <1> QED BY <1>1, <1>2, <1>3

\* What the calls for a page do: some items are found, and nothing else is touched.
PageRead(k, page) ==
    /\ job'[k].op = job[k].op /\ job'[k].id = job[k].id /\ job'[k].lock = job[k].lock
    /\ job'[k].file = job[k].file /\ job'[k].data = job[k].data /\ job'[k].item = job[k].item
    /\ job'[k].pc \in {"save", "page", "locks", "item"}
    /\ job'[k].pc = "locks" => job[k].op = "process"
    /\ job[k].pc \in {"delta", "page"}
    /\ job'[k].todo \subseteq job[k].todo \cup PageOf(k, page)
    /\ \A w \in Workers \ {k} : job'[w] = job[w]
    /\ UNCHANGED <<log, items, locks, blob, faulted, removed>>

\* GetDriveDeltaRecursive is nothing but such calls.
LEMMA PageSteps ==
    ASSUME IInv, NEW k \in Workers, GetDelta(k) \/ GetNextPage(k)
    PROVE  \E page : PageRead(k, page)
  <1>0. /\ Len(log) \in Nat /\ job[k] \in Job(Len(log)) /\ JobOK(job[k])
        /\ job \in [Workers -> Job(Len(log))]
    BY TheJob DEF IInv, TypeOK
  <1>1. AfterDelta(k) \in {"locks", "item"} /\ (AfterDelta(k) = "locks" => job[k].op = "process")
    BY DEF AfterDelta
  <1>2. CASE GetDelta(k)
    <2> DEFINE changed == Changed(job[k].mark)
    <2>1. job[k].pc = "delta" /\ UNCHANGED <<log, items, locks, blob, faulted, removed>>
      BY <1>2 DEF GetDelta
    <2>2. CASE job' = [job EXCEPT ![k].pc = "save", ![k].mark = Len(log),
                                  ![k].todo = PageOf(k, changed)]
      <3> HIDE DEF changed
      <3>1. PageRead(k, changed)
        BY <1>0, <2>1, <2>2 DEF PageRead, Job
      <3> QED BY <3>1
    <2>3. ASSUME NEW page,
                 job' = [job EXCEPT ![k].pc = "page", ![k].mark = Len(log),
                               ![k].todo = PageOf(k, page), ![k].ids = changed \ page]
          PROVE  PageRead(k, page)
      <3> HIDE DEF changed
      <3> QED BY <1>0, <2>1, <2>3 DEF PageRead, Job
    <2> QED BY <1>2, <2>2, <2>3, Zenon DEF GetDelta
  <1>3. CASE GetNextPage(k)
    <2> DEFINE found(page) == job[k].todo \cup PageOf(k, page)
    <2>1. job[k].pc = "page" /\ UNCHANGED <<log, items, locks, blob, faulted, removed>>
      BY <1>3 DEF GetNextPage
    <2>2. ASSUME NEW page,
                 job' = [job EXCEPT ![k].pc = AfterDelta(k), ![k].mark = 0,
                                    ![k].todo = found(page), ![k].ids = {}]
          PROVE  PageRead(k, page)
      BY <1>0, <1>1, <2>1, <2>2 DEF PageRead, Job
    <2>3. ASSUME NEW page,
                 job' = [job EXCEPT ![k].todo = found(page), ![k].ids = @ \ page]
          PROVE  PageRead(k, page)
      BY <1>0, <2>1, <2>3 DEF PageRead, Job
    <2> QED BY <1>3, <2>2, <2>3, Zenon DEF GetNextPage
  <1> QED BY <1>2, <1>3

\* GetUpdatedDriveItems, and the operations that start with it.
LEMMA PathDelta ==
    ASSUME IInv, PathInv, NEW k \in Workers,
           \/ ProcessSpoUpdates(k) \/ \E i \in Ids : FinishEditing(k, i)
           \/ GetToken(k) \/ GetDelta(k) \/ GetNextPage(k) \/ SaveToken(k)
    PROVE  PathInv'
  <1>0. Len(log) \in Nat /\ job[k] \in Job(Len(log)) /\ JobOK(job[k]) /\ NamesOK(job[k], log)
    BY TheJob DEF PathInv
  <1>1. CASE ProcessSpoUpdates(k)
    <2>1. /\ job'[k].op = "process" /\ job'[k].pc = "token" /\ job'[k].todo = {}
          /\ job'[k].data = 0 /\ \A w \in Workers \ {k} : job'[w] = job[w]
      BY <1>1 DEF ProcessSpoUpdates, Idle, IInv, TypeOK
    <2>2. NamesOK(job'[k], log) /\ Fits(job'[k].data)
      BY <1>0, <2>1, BoundsAssumption DEF NamesOK, Carrying, Fits
    <2> QED BY <1>1, <2>1, <2>2, PathJob DEF ProcessSpoUpdates
  <1>2. ASSUME NEW i \in Ids, FinishEditing(k, i) PROVE PathInv'
    <2>1. /\ job'[k].op = "finish" /\ job'[k].pc = "token" /\ job'[k].todo = {}
          /\ job'[k].data = 0 /\ job'[k].id = i /\ job'[k].lock = locks[i]
          /\ job'[k].file = locks[i].file /\ \A w \in Workers \ {k} : job'[w] = job[w]
      BY <1>2 DEF FinishEditing, Idle, IInv, TypeOK
    <2>2. NamesOK(job'[k], log) /\ Fits(job'[k].data)
      BY <1>0, <2>1, BoundsAssumption DEF PathInv, NamesOK, Carrying, Fits
    <2> QED BY <1>2, <2>1, <2>2, PathJob DEF FinishEditing
  <1>3. CASE GetToken(k)
    <2>1. job'[k] = [job[k] EXCEPT !.pc = "delta", !.mark = token]
      BY <1>3 DEF GetToken, IInv, TypeOK
    <2>2. \A w \in Workers \ {k} : job'[w] = job[w]
      BY <1>3 DEF GetToken, IInv, TypeOK
    <2>3. /\ job'[k].op = job[k].op /\ job'[k].id = job[k].id /\ job'[k].item = job[k].item
          /\ job'[k].file = job[k].file /\ job'[k].lock = job[k].lock
          /\ job'[k].todo = job[k].todo /\ job'[k].data = job[k].data
          /\ job'[k].pc = "delta"
      BY <1>0, <2>1 DEF Job
    <2> QED BY <1>3, <2>2, <2>3, PathGoesOn DEF GetToken, Carrying
  <1>4. CASE GetDelta(k) \/ GetNextPage(k)
    <2> PICK page : PageRead(k, page)
      BY <1>4, PageSteps
    <2>2. \A c \in PageOf(k, page) : c.lock = NoLock
      BY DEF PageOf, DeltaItem
    <2>3. NamesOK(job'[k], log) /\ Fits(job'[k].data)
      BY <1>0, <2>2 DEF PageRead, NamesOK, Carrying, PathInv, DataOld, Sound
    <2> QED BY <2>3, PathJob DEF PageRead
  <1>5. CASE SaveToken(k)
    <2>1. job'[k] = [job[k] EXCEPT !.pc = AfterDelta(k), !.mark = 0]
      BY <1>5 DEF SaveToken, IInv, TypeOK
    <2>2. \A w \in Workers \ {k} : job'[w] = job[w]
      BY <1>5 DEF SaveToken, IInv, TypeOK
    <2>3. AfterDelta(k) \notin Carrying
      BY DEF AfterDelta, Carrying
    <2>4. /\ job'[k].op = job[k].op /\ job'[k].id = job[k].id /\ job'[k].item = job[k].item
          /\ job'[k].file = job[k].file /\ job'[k].lock = job[k].lock
          /\ job'[k].todo = job[k].todo /\ job'[k].data = job[k].data
          /\ job'[k].pc = AfterDelta(k)
      BY <1>0, <2>1 DEF Job
    <2> QED BY <1>5, <2>2, <2>3, <2>4, PathGoesOn DEF SaveToken
  <1> QED BY <1>1, <1>2, <1>3, <1>4, <1>5

\* The loop over the locks takes up an item at the path its lock names.
LEMMA PathLoop ==
    ASSUME IInv, PathInv, NEW k \in Workers, ReadLocks(k) \/ NextLock(k)
    PROVE  PathInv'
  <1>0. Len(log) \in Nat /\ job[k] \in Job(Len(log)) /\ JobOK(job[k]) /\ NamesOK(job[k], log)
    BY TheJob DEF PathInv
  <1>1. CASE ReadLocks(k)
    <2>1. CASE Return(k)
      BY <1>1, <2>1, PathReturn DEF ReadLocks
    <2> DEFINE locked == {[c EXCEPT !.lock = locks[c.id]] :
                             c \in {d \in job[k].todo : d.id \in GetLocks}}
    <2>2. CASE job' = [job EXCEPT ![k].pc = "next", ![k].todo = locked]
      <3>1. /\ job'[k].op = job[k].op /\ job'[k].pc = "next"
            /\ job'[k].data = job[k].data /\ job'[k].todo = locked
            /\ \A w \in Workers \ {k} : job'[w] = job[w]
        BY <1>0, <2>2 DEF Job, IInv, TypeOK
      <3>2. \A c \in locked : Sound(c.id, c.lock, log)
        BY <1>0 DEF PathInv, Job, Found, GetLocks
      <3>3. job[k].op = "process"
        BY <1>0, <1>1 DEF ReadLocks, JobOK
      <3> HIDE DEF locked
      <3>4. NamesOK(job'[k], log)
        BY <3>1, <3>2, <3>3 DEF NamesOK, Carrying
      <3> QED BY <1>1, <3>1, <3>4, PathJob DEF ReadLocks, PathInv, DataOld
    <2> QED BY <1>1, <2>1, <2>2 DEF ReadLocks
  <1>2. CASE NextLock(k)
    <2>0. job[k].op = "process" /\ UNCHANGED <<log, items, locks, blob>>
      BY <1>0, <1>2 DEF NextLock, JobOK
    <2>1. CASE Return(k)
      BY <2>0, <2>1, PathReturn
    <2>2. ASSUME NEW c \in job[k].todo, job' = [job EXCEPT ![k].todo = @ \ {c}]
          PROVE  PathInv'
      <3>1. /\ job'[k].op = job[k].op /\ job'[k].id = job[k].id /\ job'[k].item = job[k].item
            /\ job'[k].file = job[k].file /\ job'[k].lock = job[k].lock
            /\ job'[k].todo \subseteq job[k].todo /\ job'[k].data = job[k].data
            /\ job'[k].pc = job[k].pc /\ \A w \in Workers \ {k} : job'[w] = job[w]
        BY <1>0, <2>2 DEF Job, IInv, TypeOK
      <3> QED BY <2>0, <3>1, PathGoesOn
    <2>3. ASSUME NEW c \in job[k].todo, c.item # 0,
                 job' = [job EXCEPT ![k].pc = "getLock", ![k].id = c.id,
                               ![k].item = c.item, ![k].file = c.lock.file,
                               ![k].user = GetUserName(c.item), ![k].todo = @ \ {c}]
          PROVE  PathInv'
      <3>1. /\ job'[k].op = job[k].op /\ job'[k].id = c.id /\ job'[k].item = c.item
            /\ job'[k].file = c.lock.file /\ job'[k].data = job[k].data
            /\ job'[k].todo \subseteq job[k].todo
            /\ \A w \in Workers \ {k} : job'[w] = job[w]
        BY <1>0, <2>3 DEF Job, IInv, TypeOK
      <3>2. /\ c.lock # NoLock /\ c.lock \in LockOrNone(Len(log)) /\ log[c.item].id = c.id
            /\ c.item \in 1 .. Len(log) /\ Sound(c.id, c.lock, log)
        <4>1. c \in Found(Len(log)) /\ job[k].pc = "next"
          BY <1>0, <1>2 DEF NextLock, Job
        <4>2. c.lock # NoLock /\ log[c.item].id = c.id /\ Sound(c.id, c.lock, log)
          BY <1>0, <2>0, <2>3, <4>1 DEF JobOK, NamesOK
        <4> QED BY <1>0, <2>3, <4>1, <4>2 DEF Found
      <3>3. c.lock.etag \in 1 .. Len(log)
        BY <3>2 DEF LockOrNone, LockRow
      <3>4. DOMAIN log = 1 .. Len(log)
        BY DEF IInv, TypeOK
      <3>5. log[c.item].file = c.lock.file
        BY <3>2, <3>3, <3>4 DEF Sound, PathInv, SamePath
      <3>6. NamesOK(job'[k], log)
        BY <1>0, <2>0, <2>3, <3>1, <3>2, <3>5 DEF NamesOK
      <3> QED BY <2>0, <3>1, <3>6, PathJob DEF PathInv, DataOld
    <2> QED BY <1>2, <2>1, <2>2, <2>3 DEF NextLock
  <1> QED BY <1>1, <1>2

\* FinishEditing takes up the item of its lock; clearing a row says nothing.
LEMMA PathRelease ==
    ASSUME IInv, PathInv, NEW k \in Workers, FinishGetItem(k) \/ ClearLock(k)
    PROVE  PathInv'
  <1>0. Len(log) \in Nat /\ job[k] \in Job(Len(log)) /\ JobOK(job[k]) /\ NamesOK(job[k], log)
    BY TheJob DEF PathInv
  <1>1. CASE FinishGetItem(k)
    <2> DEFINE i == job[k].id
               v == items[i]
    <2>1. CASE Return(k)
      BY <1>1, <2>1, PathReturn DEF FinishGetItem
    <2>2. CASE v # 0 /\ job' = [job EXCEPT ![k].pc = IF FileContentsSame(v, job[k].lock)
                                                       THEN "clear" ELSE "getLock",
                                           ![k].item = v, ![k].user = GetUserName(v)]
      <3>1. /\ job'[k].op = job[k].op /\ job'[k].id = i /\ job'[k].item = v
            /\ job'[k].file = job[k].file /\ job'[k].data = job[k].data
            /\ job'[k].todo = job[k].todo /\ job'[k].lock = job[k].lock
            /\ \A w \in Workers \ {k} : job'[w] = job[w]
        BY <1>0, <2>2, ZenonT(30) DEF Job, IInv, TypeOK
      <3>2. /\ job[k].op = "finish" /\ i \in Ids /\ job[k].lock # NoLock
            /\ job[k].lock \in LockOrNone(Len(log))
            /\ Sound(i, job[k].lock, log) /\ job[k].file = job[k].lock.file
        BY <1>0, <1>1 DEF FinishGetItem, JobOK, Job, NamesOK
      <3>3. job[k].lock.etag \in 1 .. Len(log)
        BY <3>2 DEF LockOrNone, LockRow
      <3>4. v \in 1 .. Len(log) /\ log[v].id = i /\ DOMAIN log = 1 .. Len(log)
        BY <2>2, <3>2 DEF IInv, TypeOK, ItemsOK
      <3>5. log[v].file = job[k].file
        BY <3>2, <3>3, <3>4 DEF Sound, PathInv, SamePath
      <3> HIDE DEF v, i
      <3>6. NamesOK(job'[k], log)
        BY <1>0, <2>2, <3>1, <3>2, <3>4, <3>5 DEF NamesOK
      <3> QED BY <1>1, <3>1, <3>6, PathJob DEF FinishGetItem, PathInv, DataOld
    <2> QED BY <1>0, <1>1, <2>1, <2>2 DEF FinishGetItem, IInv, TypeOK
  <1>2. CASE ClearLock(k)
    <2>1. /\ job'[k].op = job[k].op /\ job'[k].pc = "delete" /\ job'[k].id = job[k].id
          /\ job'[k].lock = job[k].lock /\ job'[k].file = job[k].file
          /\ job'[k].todo = job[k].todo /\ job'[k].data = job[k].data
          /\ \A w \in Workers \ {k} : job'[w] = job[w]
      BY <1>0, <1>2 DEF ClearLock, Job, IInv, TypeOK
    <2>2. NamesOK(job'[k], log)
      BY <1>0, <2>1 DEF NamesOK, Carrying
    <2>3. \A i \in Ids : Sound(i, locks'[i], log)
      BY <1>2 DEF ClearLock, Sound, PathInv, IInv, TypeOK
    <2> QED BY <1>2, <2>1, <2>2, <2>3, PathQuiet DEF ClearLock, PathInv, DataOld
  <1> QED BY <1>1, <1>2

\* The clean-up names nothing.
LEMMA PathClean ==
    ASSUME IInv, PathInv, NEW k \in Workers,
           CleanOldFiles(k) \/ CleanList(k) \/ CleanEnd(k) \/ Fail(k)
    PROVE  PathInv'
  <1>0. Len(log) \in Nat /\ job[k] \in Job(Len(log)) /\ JobOK(job[k]) /\ NamesOK(job[k], log)
    BY TheJob DEF PathInv
  <1>1. CASE CleanOldFiles(k)
    <2>1. /\ job'[k].op = "clean" /\ job'[k].pc = "list" /\ job'[k].todo = {}
          /\ job'[k].data = 0 /\ \A w \in Workers \ {k} : job'[w] = job[w]
      BY <1>1 DEF CleanOldFiles, Idle, IInv, TypeOK
    <2>2. NamesOK(job'[k], log) /\ Fits(job'[k].data)
      BY <1>0, <2>1, BoundsAssumption DEF NamesOK, Carrying, Fits
    <2> QED BY <1>1, <2>1, <2>2, PathJob DEF CleanOldFiles
  <1>2. CASE CleanList(k)
    <2>1. /\ job'[k].op = job[k].op /\ job'[k].id = job[k].id /\ job'[k].item = job[k].item
          /\ job'[k].file = job[k].file /\ job'[k].lock = job[k].lock
          /\ job'[k].todo = job[k].todo /\ job'[k].data = job[k].data
          /\ job'[k].pc = "sweep" /\ \A w \in Workers \ {k} : job'[w] = job[w]
      BY <1>0, <1>2 DEF CleanList, Job, IInv, TypeOK
    <2> QED BY <1>2, <2>1, PathGoesOn DEF CleanList, Carrying
  <1>3. CASE CleanEnd(k)
    BY <1>3, PathReturn DEF CleanEnd
  <1>4. CASE Fail(k)
    BY <1>4, PathReturn DEF Fail
  <1> QED BY <1>1, <1>2, <1>3, <1>4

\* DeleteFile records the deletion at the item's path.
LEMMA PathDelete ==
    ASSUME IInv, PathInv, NEW i \in Ids, DeleteFile(i), NEW k \in Workers,
           \A w \in Workers \ {k} : job'[w] = job[w],
           job'[k].data \in {0, job[k].data}, NamesOK(job'[k], log'), UNCHANGED <<locks, blob>>
    PROVE  PathInv'
  <1>1. CASE items[i] = 0
    <2>1. UNCHANGED <<log, items>>
      BY <1>1 DEF DeleteFile
    <2>2. Fits(0)
      BY TheJob, BoundsAssumption DEF Fits
    <2>3. Fits(job'[k].data)
      BY <2>2 DEF PathInv, DataOld
    <2> QED BY <2>1, <2>3, PathJob
  <1>2. CASE items[i] # 0
    <2>1. /\ log' = Append(log, Entry(i, log[items[i]].file, App, log[items[i]].data))
          /\ items' = [items EXCEPT ![i] = 0]
      BY <1>2 DEF DeleteFile, Change
    <2>2. items[i] \in 1 .. Len(log) /\ DOMAIN log = 1 .. Len(log) /\ Len(log) \in Nat
      BY <1>2 DEF IInv, TypeOK
    <2> DEFINE f == log[items[i]].file
               data == log[items[i]].data
    <2>3. /\ f \in Files /\ data \in Nat /\ data <= Len(log) + 1 /\ data <= MaxLog
      BY <2>2, TheEntry DEF PathInv, DataOld
    <2>4. i \in ItemWithPath(f)
      BY <1>2 DEF ItemWithPath, Live
    <2> HIDE DEF f, data
    <2> QED BY <2>1, <2>3, <2>4, PathDrive DEF f, data
  <1> QED BY <1>1, <1>2

LEMMA PathDeletes ==
    ASSUME IInv, PathInv, NEW k \in Workers, FinishDelete(k) \/ CleanDelete(k)
    PROVE  PathInv'
  <1>0. Len(log) \in Nat /\ job[k] \in Job(Len(log)) /\ JobOK(job[k]) /\ NamesOK(job[k], log)
    BY TheJob DEF PathInv
  <1>1. CASE FinishDelete(k)
    <2>1. job'[k] = Idle /\ \A w \in Workers \ {k} : job'[w] = job[w]
      BY <1>1 DEF FinishDelete, Return, IInv, TypeOK
    <2>2. NamesOK(job'[k], log') /\ job'[k].data = 0
      BY <2>1 DEF NamesOK, Carrying, Idle
    <2>3. job[k].id \in Ids
      BY <1>0, <1>1 DEF FinishDelete, JobOK
    <2> QED BY <1>1, <2>1, <2>2, <2>3, PathDelete DEF FinishDelete
  <1>2. CASE CleanDelete(k)
    <2>1. PICK i \in job[k].ids :
             /\ DeleteFile(i) \/ UNCHANGED <<log, items>>
             /\ job' = [job EXCEPT ![k].ids = @ \ {i}]
      BY <1>2 DEF CleanDelete
    <2>2. i \in Ids /\ job[k].pc = "sweep" /\ job[k].op = "clean" /\ job[k].todo = {}
      BY <1>0, <1>2 DEF CleanDelete, JobOK, Job
    <2>3. /\ \A w \in Workers \ {k} : job'[w] = job[w]
          /\ job'[k].op = "clean" /\ job'[k].pc = "sweep"
          /\ job'[k].todo = {} /\ job'[k].data = job[k].data
      BY <1>0, <2>1, <2>2 DEF Job, IInv, TypeOK
    <2>4. \A drive : NamesOK(job'[k], drive)
      BY <2>3 DEF NamesOK, Carrying
    <2>5. UNCHANGED <<locks, blob>>
      BY <1>2 DEF CleanDelete
    <2>6. CASE DeleteFile(i)
      BY <2>2, <2>3, <2>4, <2>5, <2>6, PathDelete
    <2>7. CASE UNCHANGED <<log, items>>
      BY <2>3, <2>4, <2>5, <2>7, PathJob DEF PathInv, DataOld
    <2> QED BY <2>1, <2>6, <2>7
  <1> QED BY <1>1, <1>2

\* What the deletion of a folder leaves: the log repeats, of each file that was in
\* the folder, what it had of it, and these files are gone.
FolderGone ==
    /\ Extends(log', log)
    /\ \A m \in DOMAIN log' : \E o \in DOMAIN log :
         /\ o <= m /\ log'[m].id = log[o].id
         /\ log'[m].file = log[o].file /\ log'[m].data = log[o].data
    /\ \A x \in Ids : items'[x] = items[x] \/ (items'[x] = 0 /\ x \in removed')
    /\ removed \subseteq removed'

LEMMA FolderSteps ==
    ASSUME IInv, NEW k \in Workers, CleanDeleteFolder(k)
    PROVE  /\ job[k].pc = "sweep" /\ job[k].op = "clean" /\ job[k].todo = {}
           /\ \E n : job' = [job EXCEPT ![k] = [job[k] EXCEPT !.dirs = @ \ {n}]]
           /\ UNCHANGED <<locks, blob>> /\ (faulted => faulted')
           /\ FolderGone \/ UNCHANGED <<log, items, removed>>
  <1>0. Len(log) \in Nat /\ job[k] \in Job(Len(log)) /\ JobOK(job[k])
    BY TheJob
  <1>1. PICK n \in job[k].dirs :
             /\ \/ DeleteFolder(n) /\ UNCHANGED faulted
                \/ faulted' = TRUE /\ UNCHANGED <<log, items, queue, folders, removed>>
             /\ job' = [job EXCEPT ![k].dirs = @ \ {n}]
    BY DEF CleanDeleteFolder
  <1>2. /\ job[k].pc = "sweep" /\ job[k].op = "clean" /\ job[k].todo = {}
        /\ UNCHANGED <<locks, blob>> /\ (faulted => faulted')
        /\ job' = [job EXCEPT ![k] = [job[k] EXCEPT !.dirs = @ \ {n}]]
    <2>1. job[k].pc = "sweep" /\ UNCHANGED <<locks, blob>>
      BY DEF CleanDeleteFolder
    <2>2. job[k].op = "clean" /\ job[k].todo = {}
      BY <1>0, <2>1 DEF JobOK
    <2>3. faulted => faulted'
      BY <1>1
    <2>4. job' = [job EXCEPT ![k] = [job[k] EXCEPT !.dirs = @ \ {n}]]
      BY <1>1
    <2> QED BY <2>1, <2>2, <2>3, <2>4
  <1>3. ASSUME DeleteFolder(n), ~UNCHANGED <<log, items, removed>> PROVE FolderGone
    <2>0. PICK d \in Folders :
            /\ \E order \in [1 .. Cardinality(InFolder(d)) -> InFolder(d)] :
                 log' = log \o [m \in DOMAIN order |->
                   Entry(order[m], log[items[order[m]]].file, App, log[items[order[m]]].data)]
            /\ items' = [i \in Ids |-> IF i \in InFolder(d) THEN 0 ELSE items[i]]
            /\ removed' = removed \cup InFolder(d)
      BY <1>3, Zenon DEF DeleteFolder
    <2>1. PICK order \in [1 .. Cardinality(InFolder(d)) -> InFolder(d)] :
                 log' = log \o [m \in DOMAIN order |->
                   Entry(order[m], log[items[order[m]]].file, App, log[items[order[m]]].data)]
      BY <2>0, Zenon
    <2> DEFINE added == [m \in DOMAIN order |->
                   Entry(order[m], log[items[order[m]]].file, App, log[items[order[m]]].data)]
    <2>2. /\ Extends(log \o added, log) /\ Len(added) \in Nat
          /\ Len(log \o added) = Len(log) + Len(added)
          /\ DOMAIN order = 1 .. Len(added)
          /\ \A m \in DOMAIN order :
               /\ order[m] \in Live
               /\ (log \o added)[Len(log) + m] = added[m]
      BY FolderLog, Zenon
    <2>3. log' = log \o added
      BY <2>1
    <2>4. \A m \in DOMAIN order :
             /\ added[m].id = order[m] /\ added[m].file = log[items[order[m]]].file
             /\ added[m].data = log[items[order[m]]].data
      BY DEF Entry
    <2> HIDE DEF added
    <2>5. /\ Extends(log', log) /\ Len(log') = Len(log) + Len(added)
          /\ \A m \in 1 .. Len(added) : log'[Len(log) + m] = added[m]
      BY <2>2, <2>3, Zenon
    <2>6. DOMAIN log = 1 .. Len(log) /\ DOMAIN log' = 1 .. Len(log')
      BY <2>5 DEF Extends
    <2>7. ASSUME NEW m \in DOMAIN log'
          PROVE  \E o \in DOMAIN log :
                   /\ o <= m /\ log'[m].id = log[o].id
                   /\ log'[m].file = log[o].file /\ log'[m].data = log[o].data
      <3>1. CASE m <= Len(log)
        <4>1. m \in DOMAIN log /\ log'[m] = log[m] /\ m <= m
          BY <1>0, <2>5, <2>6, <2>7, <3>1 DEF Extends
        <4> QED BY <4>1
      <3>2. CASE ~(m <= Len(log))
        <4> DEFINE q == m - Len(log)
        <4>1. q \in 1 .. Len(added) /\ m = Len(log) + q
          BY <1>0, <2>2, <2>5, <2>6, <3>2
        <4> HIDE DEF q
        <4>2. log'[m] = added[q] /\ order[q] \in Live
          BY <2>2, <2>5, <4>1
        <4> DEFINE o == items[order[q]]
        <4>3. o \in DOMAIN log /\ log[o].id = order[q] /\ o <= m
          BY <1>0, <2>6, <3>2, <4>1, <4>2 DEF Live, IInv, TypeOK, ItemsOK
        <4>4. /\ log'[m].id = log[o].id /\ log'[m].file = log[o].file
              /\ log'[m].data = log[o].data
          BY <2>2, <2>4, <4>1, <4>2, <4>3
        <4> QED BY <4>3, <4>4
      <3> QED BY <3>1, <3>2
    <2>8. \A x \in Ids : items'[x] = items[x] \/ (items'[x] = 0 /\ x \in removed')
      BY <2>0
    <2>9. removed \subseteq removed'
      BY <2>0
    <2> QED BY <2>5, <2>7, <2>8, <2>9 DEF FolderGone
  <1> QED BY <1>1, <1>2, <1>3

\* The deletion of a folder repeats what the log said.
LEMMA PathFolder ==
    ASSUME IInv, PathInv, NEW k \in Workers, CleanDeleteFolder(k)
    PROVE  PathInv'
  <1>0. /\ Len(log) \in Nat /\ job[k] \in Job(Len(log)) /\ JobOK(job[k])
        /\ DOMAIN log = 1 .. Len(log)
    BY TheJob DEF IInv, TypeOK
  <1>1. PICK n : job' = [job EXCEPT ![k] = [job[k] EXCEPT !.dirs = @ \ {n}]]
    BY FolderSteps
  <1>2. /\ job[k].pc = "sweep" /\ job[k].op = "clean" /\ job[k].todo = {}
        /\ UNCHANGED <<locks, blob>>
    BY FolderSteps
  <1>3. /\ \A w \in Workers \ {k} : job'[w] = job[w]
        /\ job'[k].op = "clean" /\ job'[k].pc = "sweep"
        /\ job'[k].todo = {} /\ job'[k].data = job[k].data
    BY <1>0, <1>1, <1>2 DEF Job, IInv, TypeOK
  <1>4. \A drive : NamesOK(job'[k], drive)
    BY <1>3 DEF NamesOK, Carrying
  <1>5. CASE UNCHANGED <<log, items, removed>>
    BY <1>2, <1>3, <1>4, <1>5, PathJob DEF PathInv, DataOld
  <1>6. CASE FolderGone
    <2>1. /\ Extends(log', log) /\ Len(log') \in Nat /\ Len(log) <= Len(log')
          /\ DOMAIN log' = 1 .. Len(log')
          /\ \A m \in DOMAIN log : log'[m] = log[m]
      BY <1>0, <1>6 DEF FolderGone, Extends
    <2>2. SamePath'
      <3> SUFFICES ASSUME NEW m \in DOMAIN log', NEW n2 \in DOMAIN log',
                          log'[m].id = log'[n2].id
                   PROVE  log'[m].file = log'[n2].file
        BY DEF SamePath
      <3>1. PICK o \in DOMAIN log : log'[m].id = log[o].id /\ log'[m].file = log[o].file
        BY <1>6 DEF FolderGone
      <3>2. PICK o2 \in DOMAIN log : log'[n2].id = log[o2].id /\ log'[n2].file = log[o2].file
        BY <1>6 DEF FolderGone
      <3> QED BY <3>1, <3>2 DEF PathInv, SamePath
    <2>3. OnePathEach'
      <3> SUFFICES ASSUME NEW x \in Ids, NEW y \in Ids, items'[x] # 0, items'[y] # 0,
                          log'[items'[x]].file = log'[items'[y]].file
                   PROVE  x = y
        BY DEF OnePathEach, Live
      <3>1. \A z \in Ids : items'[z] # 0 =>
              z \in Live /\ items[z] \in DOMAIN log /\ log'[items'[z]] = log[items[z]]
        BY <1>0, <1>6, <2>1 DEF FolderGone, Live, IInv, TypeOK
      <3> QED BY <3>1 DEF PathInv, OnePathEach
    <2>4. DataOld'
      <3>1. ASSUME NEW m \in DOMAIN log'
            PROVE  log'[m].data <= m /\ log'[m].data <= MaxLog
        <4>1. PICK o \in DOMAIN log : o <= m /\ log'[m].data = log[o].data
          BY <1>6 DEF FolderGone
        <4>2. log[o].data \in Nat /\ log[o].data <= o /\ log[o].data <= MaxLog
          BY <1>0, TheEntry DEF PathInv, DataOld
        <4> QED BY <1>0, <2>1, <4>1, <4>2
      <3>2. \A n2 \in Nat : Fits(n2) => Fits(n2)'
        BY <1>0, <2>1 DEF Fits
      <3>3. \A w \in Workers : job'[w].data = job[w].data /\ job[w].data \in Nat
        BY <1>3, TheJob DEF Job
      <3> QED BY <1>2, <3>1, <3>2, <3>3 DEF PathInv, DataOld, IInv, TypeOK, Fits
    <2>5. \A x \in Ids : Sound(x, locks[x], log')
      BY <2>1, SoundStays DEF PathInv, IInv, TypeOK
    <2>6. \A w \in Workers : NamesOK(job'[w], log')
      BY <1>3, <1>4, <2>1, TheJob, NamesStay DEF PathInv
    <2> QED BY <1>2, <2>2, <2>3, <2>4, <2>5, <2>6 DEF PathInv
  <1> QED BY <1>5, <1>6, FolderSteps

\* An upload goes to the item at the path, or to a new item where there is none.
LEMMA PathUploadDoc ==
    ASSUME IInv, PathInv, NEW k \in Workers, UploadDoc(k)
    PROVE  PathInv'
  <1>0. Len(log) \in Nat /\ job[k] \in Job(Len(log)) /\ JobOK(job[k]) /\ NamesOK(job[k], log)
    BY TheJob DEF PathInv
  <1> PICK i \in Ids :
         /\ \/ i \in ItemWithPath(job[k].file)
            \/ ItemWithPath(job[k].file) = {} /\ Fresh(i)
         /\ Change(i, job[k].file, App, job[k].data)
         /\ items' = [items EXCEPT ![i] = Len(log) + 1]
         /\ job' = [job EXCEPT ![k].pc = "getLock", ![k].id = i,
                               ![k].item = Len(log) + 1, ![k].data = 0]
    BY DEF UploadDoc
  <1> DEFINE f == job[k].file
             e == Entry(i, f, App, job[k].data)
  <1>1. job[k].op = "start" /\ f \in Files /\ job[k].data \in Nat /\ Fits(job[k].data)
    BY <1>0 DEF UploadDoc, JobOK, Job, PathInv, DataOld
  <1>2. log' = Append(log, e)
    BY DEF Change
  <1>3. log \in Seq(LogEntry) /\ e \in LogEntry
    BY <1>1 DEF IInv, TypeOK, LogEntry, Entry
  <1>4. log'[Len(log) + 1].id = i /\ log'[Len(log) + 1].file = f
    BY <1>2, <1>3, AppendEntry DEF Entry
  <1>5. /\ job'[k].op = "start" /\ job'[k].pc = "getLock" /\ job'[k].id = i
        /\ job'[k].item = Len(log) + 1 /\ job'[k].file = f /\ job'[k].data = 0
        /\ job'[k].todo = job[k].todo
        /\ \A w \in Workers \ {k} : job'[w] = job[w]
    BY <1>0, <1>1 DEF Job, IInv, TypeOK
  <1>6. NamesOK(job[k], log')
    BY <1>0, <1>2, <1>3, AppendExtends, NamesStay
  <1>7. NamesOK(job'[k], log')
    <2>1. \A c \in job'[k].todo : Sound(c.id, c.lock, log')
      BY <1>5, <1>6 DEF NamesOK
    <2>2. job'[k].item # 0 /\ log'[job'[k].item].id = i /\ log'[job'[k].item].file = f
      BY <1>0, <1>4, <1>5
    <2> HIDE DEF e, f
    <2> QED BY <1>5, <2>1, <2>2 DEF NamesOK
  <1>8. i \in ItemWithPath(f) \/ (i \notin UsedIds /\ ItemWithPath(f) = {})
    BY DEF Fresh
  <1>9. /\ log' = Append(log, Entry(i, f, App, job[k].data))
        /\ job[k].data <= Len(log) + 1 /\ job[k].data <= MaxLog
    BY <1>0, <1>1, <1>2, BoundsAssumption DEF Fits
  <1>10. UNCHANGED <<locks, blob>>
    BY DEF UploadDoc
  <1> HIDE DEF e, f
  <1> QED BY <1>1, <1>5, <1>7, <1>8, <1>9, <1>10, PathDrive

\* A save in Office Online, or a deletion, goes to an item where it is.
LEMMA PathUser ==
    ASSUME IInv, PathInv, NEW u \in Users, NEW i \in Ids, UserEdit(u, i) \/ UserDelete(u, i)
    PROVE  PathInv'
  <1> DEFINE f == log[items[i]].file
             old == log[items[i]].data
             n == Len(log) + 1
  <1>1. items[i] \in 1 .. Len(log) /\ Len(log) \in Nat /\ DOMAIN log = 1 .. Len(log)
    BY DEF UserEdit, UserDelete, IInv, TypeOK
  <1>2. /\ f \in Files /\ n \in Nat /\ n <= Len(log) + 1 /\ n <= MaxLog
        /\ old \in Nat /\ old <= Len(log) + 1 /\ old <= MaxLog
    BY <1>1, TheEntry, BoundsAssumption DEF UserEdit, UserDelete, PathInv, DataOld
  <1>3. i \in ItemWithPath(f)
    BY <1>1 DEF ItemWithPath, Live
  <1>4. /\ UNCHANGED <<locks, blob, job>> /\ n = Len(log) + 1
        /\ \/ log' = Append(log, Entry(i, f, u, n)) /\ items' = [items EXCEPT ![i] = n]
           \/ log' = Append(log, Entry(i, f, u, old)) /\ items' = [items EXCEPT ![i] = 0]
    BY DEF UserEdit, UserDelete, Change
  <1> HIDE DEF f, n, old
  <1>5. CASE log' = Append(log, Entry(i, f, u, n)) /\ items' = [items EXCEPT ![i] = n]
    BY <1>2, <1>3, <1>4, <1>5, PathDrive
  <1>6. CASE log' = Append(log, Entry(i, f, u, old)) /\ items' = [items EXCEPT ![i] = 0]
    BY <1>2, <1>3, <1>4, <1>6, PathDrive
  <1> QED BY <1>4, <1>5, <1>6

\* The paths and ages are in order at first.
LEMMA PathInit == Init => PathInv
  <1> SUFFICES ASSUME Init PROVE PathInv
    OBVIOUS
  <1>1. Len(log) = 0 /\ DOMAIN log = {}
    BY DEF Init
  <1>2. Fits(0)
    BY <1>1, BoundsAssumption DEF Fits
  <1>3. SamePath /\ OnePathEach /\ DataOld
    BY <1>1, <1>2, IdleNames DEF Init, SamePath, OnePathEach, Live, DataOld
  <1>4. \A i \in Ids : Sound(i, locks[i], log)
    BY DEF Init, Sound
  <1>5. \A k \in Workers : NamesOK(job[k], log)
    BY IdleNames DEF Init
  <1> QED BY <1>3, <1>4, <1>5 DEF PathInv

\* Every step keeps them.
LEMMA PathNext == IInv /\ PathInv /\ [Next]_vars => PathInv'
  <1> SUFFICES ASSUME IInv, PathInv, [Next]_vars PROVE PathInv'
    OBVIOUS
  <1>1. ASSUME NEW k \in Workers, Step(k) PROVE PathInv'
    BY <1>1, PathStart, PathUploadDoc, PathSetLock, PathUpload, PathDelta, PathLoop,
       PathRelease, PathDeletes, PathFolder, PathClean DEF Step
  <1>2. ASSUME NEW u \in Users, NEW i \in Ids, UserEdit(u, i) \/ UserDelete(u, i)
        PROVE  PathInv'
    BY <1>2, PathUser
  <1>3. CASE UNCHANGED vars
    BY <1>3 DEF vars, PathInv, SamePath, OnePathEach, Live, DataOld, Fits
  <1> QED BY <1>1, <1>2, <1>3 DEF Next

\* However the jobs overlap, every lock and every job names the path of its item.
LEMMA AlwaysPaths == Spec => [](IInv /\ PathInv)
  BY InitIInv, NextIInv, PathInit, PathNext, PTL DEF Spec

-----------------------------------------------------------------------------
(* One job at a time.                                                       *)

\* The content the drive has of item i.
Latest(i) == log[items[i]].data

Copying == {"check", "read", "write"}

\* What the drive has of item i at path f: content no older than the change n, or
\* nothing any more, because somebody took the item out of it.
Carries(i, n, f) ==
    IF items[i] # 0 THEN log[n].data <= Latest(i)
    ELSE i \in removed /\ ItemWithPath(f) = {}

\* What the only job relies on between two steps.
AloneOK(j) ==
    /\ j.pc \in Carrying => /\ Carries(j.id, j.item, j.file)
                            /\ items[j.id] # 0 => blob[j.file] <= Latest(j.id)
    /\ j.pc = "put" => j.data = blob[j.file]
    /\ j.op = "start" /\ j.pc \in {"getLock", "upsert"} => log[j.item].data = blob[j.file]
    /\ j.op # "start" /\ j.pc \in {"getLock", "upsert"} => locks[j.id] # NoLock
    /\ j.pc = "upsert" => LockCheck(locks[j.id], j.user)
    /\ j.pc \in Copying => locks[j.id] = FileLock(j.user, j.item, j.file)
    /\ j.pc = "write" => /\ log[j.item].data <= j.data /\ blob[j.file] <= j.data
                         /\ items[j.id] # 0 => j.data <= Latest(j.id)
    /\ j.op = "process" => \A c \in j.todo :
         /\ c.item # 0 => Carries(c.id, c.item, log[c.item].file)
         /\ c.lock # NoLock => locks[c.id] # NoLock
    /\ j.op = "finish" /\ j.pc \in {"token", "delta", "page", "save", "item"} =>
         locks[j.id] = j.lock
    /\ j.op = "finish" /\ j.pc \in {"clear", "delete"} =>
         j.item # 0 /\ (~faulted => log[j.item].data <= blob[j.file])
    /\ j.pc = "delete" => locks[j.id] = NoLock
    /\ j.pc = "list" => j.ids = GetLocks
    /\ j.pc = "sweep" => \A i \in j.ids : locks[i] = NoLock

\* A locked item is in the drive, with content no older than the blob's, unless
\* somebody took it out.
HeldOK(i) ==
    locks[i] # NoLock =>
        IF items[i] # 0 THEN blob[locks[i].file] <= Latest(i) ELSE i \in removed

\* The version a lock vouches for is in the blob, or on its way, unless a call failed.
CopiedOK(i) ==
    ~faulted /\ locks[i] # NoLock /\ items[i] # 0 =>
        \/ log[locks[i].etag].data <= blob[locks[i].file]
        \/ \E k \in Workers : job[k].pc \in Copying /\ job[k].id = i

AloneInv ==
    /\ \A i \in Ids : HeldOK(i) /\ CopiedOK(i)
    /\ \A k \in Workers : AloneOK(job[k])

FullInv == IInv /\ PathInv /\ AloneInv

\* A worker that runs nothing relies on nothing.
LEMMA IdleAlone == AloneOK(Idle)
  BY DEF AloneOK, Idle, Carrying, Copying

\* The parts of the only job.
LEMMA TheOne ==
    ASSUME FullInv, NEW k \in Workers
    PROVE  /\ Len(log) \in Nat /\ DOMAIN log = 1 .. Len(log)
           /\ job[k] \in Job(Len(log)) /\ JobOK(job[k])
           /\ NamesOK(job[k], log) /\ AloneOK(job[k])
  BY TheJob DEF FullInv, PathInv, AloneInv, IInv, TypeOK

\* The file of a lock is the path of its item.
LEMMA LockedPath ==
    ASSUME IInv, PathInv, NEW i \in Ids, NEW lock \in LockOrNone(Len(log)), lock # NoLock,
           Sound(i, lock, log), items[i] # 0
    PROVE  /\ i \in Live /\ items[i] \in 1 .. Len(log) /\ log[items[i]].file = lock.file
           /\ lock.etag \in 1 .. Len(log) /\ lock.file \in Files
  <1>1. /\ items[i] \in 1 .. Len(log) /\ log[items[i]].id = i
        /\ lock.etag \in 1 .. Len(log) /\ lock.file \in Files
        /\ DOMAIN log = 1 .. Len(log)
    BY DEF IInv, TypeOK, ItemsOK, LockOrNone, LockRow
  <1>2. log[lock.etag].id = i /\ log[lock.etag].file = lock.file
    BY DEF Sound
  <1>3. log[items[i]].file = lock.file
    BY <1>1, <1>2 DEF PathInv, SamePath
  <1> QED BY <1>1, <1>3 DEF Live

\* A job that carries a version carries the item at its path, if that is in the drive.
LEMMA CarriedPath ==
    ASSUME FullInv, NEW k \in Workers, job[k].pc \in Carrying
    PROVE  /\ job[k].id \in Ids /\ job[k].file \in Files /\ job[k].item \in 1 .. Len(log)
           /\ log[job[k].item].id = job[k].id /\ log[job[k].item].file = job[k].file
           /\ items[job[k].id] # 0 =>
                /\ job[k].id \in Live /\ log[items[job[k].id]].file = job[k].file
                /\ items[job[k].id] \in 1 .. Len(log)
  <1> DEFINE i == job[k].id
  <1>0. /\ Len(log) \in Nat /\ job[k] \in Job(Len(log)) /\ JobOK(job[k])
        /\ NamesOK(job[k], log) /\ DOMAIN log = 1 .. Len(log)
    BY TheOne
  <1>1. i \in Ids /\ job[k].file \in Files
    BY <1>0 DEF JobOK, Carrying
  <1>2. job[k].item # 0 /\ log[job[k].item].id = i /\ log[job[k].item].file = job[k].file
    BY <1>0 DEF NamesOK
  <1>3. job[k].item \in 1 .. Len(log)
    BY <1>0, <1>2 DEF Job
  <1>4. ASSUME items[i] # 0
        PROVE  i \in Live /\ items[i] \in 1 .. Len(log) /\ log[items[i]].file = job[k].file
    <2>1. items[i] \in 1 .. Len(log) /\ log[items[i]].id = i
      BY <1>1, <1>4 DEF FullInv, IInv, TypeOK, ItemsOK
    <2>2. log[items[i]].file = job[k].file
      BY <1>0, <1>2, <1>3, <2>1 DEF FullInv, PathInv, SamePath
    <2> QED BY <1>1, <1>4, <2>1, <2>2 DEF Live
  <1> QED BY <1>1, <1>2, <1>3, <1>4

\* The drive still has of the item what it had when nothing was written to it.
LEMMA CarriesQuiet ==
    ASSUME UNCHANGED <<log, items, removed>>
    PROVE  \A i, n, f : Carries(i, n, f)' <=> Carries(i, n, f)
  BY DEF Carries, Latest, ItemWithPath, Live

\* A step of the job alone: what it was copying it goes on to copy.
LEMMA AloneQuiet ==
    ASSUME FullInv, NEW k, Workers = {k},
           UNCHANGED <<log, items, locks, blob, faulted, removed>>,
           job[k].pc \in Copying => job'[k].pc \in Copying /\ job'[k].id = job[k].id,
           AloneOK(job[k])'
    PROVE  AloneInv'
  BY DEF FullInv, AloneInv, HeldOK, CopiedOK, Latest

\* The job ends between two operations on the blob.
LEMMA AloneReturn ==
    ASSUME FullInv, NEW k, Workers = {k}, Return(k), job[k].pc \notin Copying,
           UNCHANGED <<log, items, locks, blob, faulted, removed>>
    PROVE  AloneInv'
  <1>1. job'[k] = Idle
    BY DEF Return, FullInv, IInv, TypeOK
  <1>2. AloneOK(job[k])'
    BY <1>1 DEF AloneOK, Idle, Carrying, Copying
  <1> QED BY <1>2, AloneQuiet

\* StartFileEditInSpo up to the upload: what it downloads is what the blob has.
LEMMA AloneStart ==
    ASSUME FullInv, NEW k, Workers = {k},
           \/ \E u \in Users, f \in Files : StartEdit(k, u, f)
           \/ StartGuard(k) \/ StartDownload(k)
    PROVE  AloneInv'
  <1>0. Len(log) \in Nat /\ job[k] \in Job(Len(log)) /\ JobOK(job[k]) /\ AloneOK(job[k])
    BY TheOne
  <1>1. ASSUME NEW u, NEW f, StartEdit(k, u, f) PROVE AloneInv'
    <2>1. job'[k].op = "start" /\ job'[k].pc \in {"guard", "download"}
      BY <1>1, StartedJob DEF FullInv
    <2>3. job[k].pc = "idle"
      BY <1>1, StartedJob DEF FullInv
    <2>2. AloneOK(job[k])'
      BY <2>1 DEF AloneOK, Carrying, Copying
    <2> QED BY <1>1, <2>3, <2>2, AloneQuiet DEF StartEdit, Copying
  <1>2. CASE StartGuard(k)
    <2>1. CASE Return(k)
      BY <1>2, <2>1, AloneReturn DEF StartGuard, Copying
    <2>2. CASE job' = [job EXCEPT ![k].pc = "download", ![k].id = 0]
      <3>1. job'[k].op = "start" /\ job'[k].pc = "download"
        BY <1>0, <1>2, <2>2 DEF StartGuard, JobOK, Job, FullInv, IInv, TypeOK
      <3>2. AloneOK(job[k])'
        BY <3>1 DEF AloneOK, Carrying, Copying
      <3> QED BY <1>2, <3>1, <3>2, AloneQuiet DEF StartGuard, Copying
    <2> QED BY <1>2, <2>1, <2>2 DEF StartGuard
  <1>3. CASE StartDownload(k)
    <2>1. /\ job'[k].op = "start" /\ job'[k].pc = "put" /\ job'[k].file = job[k].file
          /\ job'[k].data = blob[job[k].file]
      BY <1>0, <1>3 DEF StartDownload, JobOK, Job, FullInv, IInv, TypeOK
    <2>2. AloneOK(job[k])'
      BY <1>3, <2>1 DEF StartDownload, AloneOK, Carrying, Copying
    <2> QED BY <1>3, <2>1, <2>2, AloneQuiet DEF StartDownload, Copying
  <1> QED BY <1>1, <1>2, <1>3

\* The upload puts into the drive what the blob has, which nobody has changed since.
LEMMA AloneUploadDoc ==
    ASSUME FullInv, PathInv', NEW k, Workers = {k}, UploadDoc(k)
    PROVE  AloneInv'
  <1>0. /\ Len(log) \in Nat /\ DOMAIN log = 1 .. Len(log)
        /\ job[k] \in Job(Len(log)) /\ JobOK(job[k]) /\ AloneOK(job[k])
    BY TheOne
  <1>a. PICK i \in Ids :
         /\ i \in ItemWithPath(job[k].file) \/ Fresh(i)
         /\ Change(i, job[k].file, App, job[k].data)
         /\ items' = [items EXCEPT ![i] = Len(log) + 1]
         /\ job' = [job EXCEPT ![k].pc = "getLock", ![k].id = i,
                               ![k].item = Len(log) + 1, ![k].data = 0]
    BY DEF UploadDoc
  <1> DEFINE f == job[k].file
             n == Len(log) + 1
             e == Entry(i, f, App, job[k].data)
  <1>1. /\ job[k].op = "start" /\ f \in Files /\ job[k].data \in Nat
        /\ job[k].data = blob[f] /\ job[k].pc = "put"
    BY <1>0 DEF UploadDoc, JobOK, Job, AloneOK
  <1>2. log' = Append(log, e) /\ log \in Seq(LogEntry) /\ e \in LogEntry
    BY <1>a, <1>1 DEF Change, FullInv, IInv, TypeOK, LogEntry, Entry
  <1>3. /\ \A m \in 1 .. Len(log) : log'[m] = log[m]
        /\ log'[n].id = i /\ log'[n].file = f /\ log'[n].data = blob[f]
        /\ n \in DOMAIN log' /\ 1 .. Len(log) \subseteq DOMAIN log'
    BY <1>1, <1>2, AppendEntry DEF Entry
  <1>4. /\ job'[k].op = "start" /\ job'[k].pc = "getLock" /\ job'[k].id = i
        /\ job'[k].item = n /\ job'[k].file = f
    BY <1>a, <1>0, <1>1 DEF Job, FullInv, IInv, TypeOK
  <1>5. /\ UNCHANGED <<locks, blob, faulted, removed>> /\ items'[i] = n /\ n # 0
        /\ \A x \in Ids : x # i => items'[x] = items[x]
    BY <1>a, <1>0 DEF UploadDoc, FullInv, IInv, TypeOK
  <1>6. AloneOK(job[k])'
    <2>1. blob[f] \in Nat
      BY <1>1 DEF FullInv, IInv, TypeOK
    <2>2. /\ items'[job'[k].id] = n /\ n # 0 /\ log'[job'[k].item].data = blob[f]
          /\ log'[n].data = blob[f] /\ blob'[job'[k].file] = blob[f]
      BY <1>3, <1>4, <1>5
    <2> HIDE DEF f, n, e
    <2>3. log'[items'[job'[k].id]].data = blob[f]
      BY <2>2
    <2>4. Carries(job[k].id, job[k].item, job[k].file)'
      BY <2>1, <2>2, <2>3 DEF Carries, Latest
    <2> QED BY <1>4, <2>1, <2>2, <2>3, <2>4 DEF AloneOK, Carrying, Copying, Latest
  <1>7. ASSUME NEW x \in Ids PROVE HeldOK(x)' /\ CopiedOK(x)'
    <2>1. SUFFICES ASSUME locks[x] # NoLock PROVE HeldOK(x)' /\ CopiedOK(x)'
      BY <1>5 DEF HeldOK, CopiedOK
    <2>2. HeldOK(x) /\ CopiedOK(x)
      BY DEF FullInv, AloneInv
    <2>3. /\ locks[x].etag \in 1 .. Len(log) /\ items[x] \in 0 .. Len(log)
          /\ log[locks[x].etag].id = x
      BY <2>1 DEF FullInv, PathInv, Sound, IInv, TypeOK, LockOrNone, LockRow
    <2>a. x = i => items[x] # 0
      BY <1>0, <1>a, <2>3 DEF Fresh, UsedIds, ItemWithPath, Live
    <2>4. log'[locks[x].etag].id = x /\ log'[locks[x].etag].file = locks[x].file
      BY <1>5, <2>1 DEF PathInv, Sound
    <2>5. HeldOK(x)'
      <3>1. CASE x = i
        <4>1. locks[x].file = f
          BY <1>3, <2>3, <2>4, <3>1 DEF PathInv, SamePath
        <4>2. Latest(x)' = blob[f] /\ items'[x] # 0 /\ blob[f] \in Nat
          BY <1>1, <1>3, <1>5, <3>1 DEF Latest, FullInv, IInv, TypeOK
        <4> QED BY <1>5, <4>1, <4>2 DEF HeldOK
      <3>2. CASE x # i
        <4>1. items'[x] = items[x] /\ (items[x] # 0 => Latest(x)' = Latest(x))
          BY <1>3, <1>5, <2>3, <3>2 DEF Latest
        <4> QED BY <1>5, <2>2, <4>1 DEF HeldOK
      <3> QED BY <3>1, <3>2
    <2>6. CopiedOK(x)'
      <3>1. \A w \in Workers : job[w].pc \notin Copying
        BY <1>1 DEF Copying
      <3>2. items'[x] # 0 => items[x] # 0
        BY <1>5, <2>a
      <3> QED BY <1>3, <1>5, <2>2, <2>3, <3>1, <3>2 DEF CopiedOK
    <2> QED BY <2>5, <2>6
  <1> QED BY <1>6, <1>7 DEF AloneInv

\* A row is written by the one who holds the item, or for one nobody holds; from then on
\* the job copies what it vouches for.
LEMMA AloneSetLock ==
    ASSUME FullInv, NEW k, Workers = {k}, SetLockCheck(k) \/ SetLockUpsert(k)
    PROVE  AloneInv'
  <1>0. Len(log) \in Nat /\ job[k] \in Job(Len(log)) /\ JobOK(job[k]) /\ AloneOK(job[k])
    BY TheOne
  <1>1. CASE SetLockCheck(k)
    <2>1. CASE Conflict(k) /\ job[k].op # "process"
      <3>1. Return(k)
        BY <2>1 DEF Conflict, Return, FullInv, IInv, TypeOK
      <3> QED BY <1>1, <3>1, AloneReturn DEF SetLockCheck, Copying
    <2>2. CASE Conflict(k) /\ job[k].op = "process"
      <3>1. job' = [job EXCEPT ![k].pc = "next"]
        BY <2>2 DEF Conflict, FullInv, IInv, TypeOK
      <3>2. job'[k].op = "process" /\ job'[k].pc = "next" /\ job'[k].todo = job[k].todo
        BY <1>0, <2>2, <3>1 DEF Job, FullInv, IInv, TypeOK
      <3>3. AloneOK(job[k])'
        BY <1>0, <1>1, <2>2, <3>2, CarriesQuiet DEF SetLockCheck, AloneOK, Carrying, Copying
      <3> QED BY <1>1, <3>3, AloneQuiet DEF SetLockCheck, Copying
    <2>3. CASE /\ LockCheck(GetLock(k), job[k].user)
               /\ job' = [job EXCEPT ![k].pc = "upsert"]
      <3>1. /\ job'[k].op = job[k].op /\ job'[k].pc = "upsert" /\ job'[k].id = job[k].id
            /\ job'[k].item = job[k].item /\ job'[k].file = job[k].file
            /\ job'[k].user = job[k].user /\ job'[k].todo = job[k].todo
        BY <1>0, <2>3 DEF Job, FullInv, IInv, TypeOK
      <3>2. AloneOK(job[k])'
        BY <1>0, <1>1, <2>3, <3>1, CarriesQuiet
        DEF SetLockCheck, AloneOK, Carrying, Copying, Latest, GetLock, LockCheck
      <3> QED BY <1>1, <3>2, AloneQuiet DEF SetLockCheck, Copying
    <2> QED BY <1>1, <2>1, <2>2, <2>3 DEF SetLockCheck
  <1>2. CASE SetLockUpsert(k)
    <2> DEFINE i == job[k].id
               row == FileLock(job[k].user, job[k].item, job[k].file)
    <2>1. i \in Ids /\ job[k].file \in Files
      BY <1>2, CarriedPath DEF SetLockUpsert, Carrying
    <2>2. /\ locks' = [locks EXCEPT ![i] = row] /\ job[k].pc = "upsert"
          /\ UNCHANGED <<log, items, blob, faulted, removed>>
      BY <1>2 DEF SetLockUpsert
    <2>3. row.file = job[k].file /\ row.etag = job[k].item
      BY DEF FileLock
    <2>4. locks'[i] = row /\ \A x \in Ids : x # i => locks'[x] = locks[x]
      BY <2>1, <2>2 DEF FullInv, IInv, TypeOK
    <2>5. /\ IF items[i] # 0 THEN blob[job[k].file] <= Latest(i) ELSE i \in removed
          /\ job[k].op = "start" => log[job[k].item].data = blob[job[k].file]
      BY <1>0, <2>2 DEF AloneOK, Carrying, Carries
    <2>6. \/ job[k].op = "start" /\ job'[k] = Idle
          \/ job[k].op # "start" /\ job'[k] = [job[k] EXCEPT !.pc = "check"]
      BY <1>2 DEF SetLockUpsert, Return, FullInv, IInv, TypeOK
    <2>7. row # NoLock
      <3>1. row \in LockRow(Len(log)) /\ NoLock \notin LockRow(Len(log))
        <4>1. job[k].item \in 1 .. Len(log) /\ job[k].user \in Users \cup {App}
          BY <1>0, <1>2, CarriedPath DEF SetLockUpsert, Carrying, Job
        <4>2. LockRow(Len(log)) \subseteq [user : Users \cup {App}, etag : Nat, file : Files]
          BY <1>0 DEF LockRow
        <4> QED BY <2>1, <4>1, <4>2, NoLockAssumption DEF FileLock, LockRow
      <3> QED BY <3>1
    <2> HIDE DEF row
    <2>8. ASSUME NEW x \in Ids PROVE HeldOK(x)' /\ CopiedOK(x)'
      <3>1. HeldOK(x) /\ CopiedOK(x)
        BY DEF FullInv, AloneInv
      <3>2. HeldOK(x)'
        BY <2>1, <2>2, <2>3, <2>4, <2>5, <3>1 DEF HeldOK, Latest
      <3>3. CASE x # i
        <4>1. \A w \in Workers : job[w].pc \notin Copying
          BY <2>2 DEF Copying
        <4> QED BY <2>2, <2>4, <3>1, <3>2, <3>3, <4>1 DEF CopiedOK
      <3>4. CASE x = i /\ job[k].op = "start"
        <4>1. blob[job[k].file] \in Nat
          BY <2>1 DEF FullInv, IInv, TypeOK
        <4>2. CopiedOK(x)'
          BY <2>2, <2>3, <2>4, <2>5, <3>4, <4>1 DEF CopiedOK
        <4> QED BY <3>2, <4>2
      <3>5. CASE x = i /\ job[k].op # "start"
        <4>1. job'[k].pc \in Copying /\ job'[k].id = i
          BY <1>0, <2>6, <3>5 DEF Job, Copying
        <4> QED BY <3>2, <3>5, <4>1 DEF CopiedOK
      <3> QED BY <3>3, <3>4, <3>5
    <2>9. AloneOK(job[k])'
      <3>1. CASE job'[k] = Idle
        BY <3>1 DEF AloneOK, Idle, Carrying, Copying
      <3>2. CASE job[k].op # "start" /\ job'[k] = [job[k] EXCEPT !.pc = "check"]
        <4>1. /\ job'[k].op = job[k].op /\ job'[k].pc = "check" /\ job'[k].id = i
              /\ job'[k].item = job[k].item /\ job'[k].file = job[k].file
              /\ job'[k].user = job[k].user /\ job'[k].todo = job[k].todo
          BY <1>0, <3>2 DEF Job
        <4>2. locks'[i] = FileLock(job'[k].user, job'[k].item, job'[k].file)
          BY <2>4, <4>1 DEF row
        <4>3. \A c \in job[k].todo : locks[c.id] # NoLock => locks'[c.id] # NoLock
          BY <1>0, <2>2, <2>4, <2>7 DEF Job, Found
        <4> HIDE DEF i
        <4>4. \A c \in job'[k].todo : job'[k].op = "process" =>
                  /\ c.item # 0 => Carries(c.id, c.item, log[c.item].file)'
                  /\ c.lock # NoLock => locks'[c.id] # NoLock
          BY <1>0, <2>2, <4>1, <4>3, CarriesQuiet DEF AloneOK
        <4>5. /\ Carries(i, job[k].item, job[k].file)
              /\ (items[i] # 0 => blob[job[k].file] <= Latest(i))
          BY <1>0, <2>2 DEF AloneOK, Carrying, i
        <4>6. /\ Carries(job[k].id, job[k].item, job[k].file)'
              /\ items'[i] # 0 => blob'[job'[k].file] <= log'[items'[i]].data
          BY <2>2, <4>1, <4>5, CarriesQuiet DEF Latest
        <4> QED BY <3>2, <4>1, <4>2, <4>4, <4>6 DEF AloneOK, Carrying, Copying, Latest
      <3> QED BY <2>6, <3>1, <3>2
    <2> QED BY <2>8, <2>9 DEF AloneInv
  <1> QED BY <1>1, <1>2

\* The copy: the check finds the row the job has written, the read finds the item at its
\* path (or nothing, when somebody took it out), and the write brings what the row vouches
\* for, or newer.
LEMMA AloneUpload ==
    ASSUME FullInv, NEW k, Workers = {k}, UploadCheck(k) \/ UploadRead(k) \/ UploadWrite(k)
    PROVE  AloneInv'
  <1>0. /\ Len(log) \in Nat /\ DOMAIN log = 1 .. Len(log)
        /\ job[k] \in Job(Len(log)) /\ JobOK(job[k]) /\ AloneOK(job[k])
    BY TheOne
  <1>a. job[k].pc \in Copying /\ job[k].pc \in Carrying /\ job[k].op \in {"process", "finish"}
    BY <1>0 DEF UploadCheck, UploadRead, UploadWrite, Copying, Carrying, JobOK
  <1> DEFINE i == job[k].id
             f == job[k].file
  <1>b. /\ i \in Ids /\ f \in Files /\ job[k].item \in 1 .. Len(log)
        /\ items[i] # 0 => i \in Live /\ log[items[i]].file = f /\ items[i] \in 1 .. Len(log)
    BY <1>a, CarriedPath
  <1>c. /\ locks[i] = FileLock(job[k].user, job[k].item, f)
        /\ Carries(i, job[k].item, f) /\ (items[i] # 0 => blob[f] <= Latest(i))
    BY <1>0, <1>a DEF AloneOK
  <1>d. \A c \in job[k].todo : job[k].op = "process" =>
            /\ c.item # 0 => Carries(c.id, c.item, log[c.item].file)
            /\ c.lock # NoLock => locks[c.id] # NoLock
    BY <1>0 DEF AloneOK
  <1>1. CASE UploadCheck(k)
    <2>1. LockCheckContents(GetLock(k), job[k].user, job[k].item)
      BY <1>c DEF LockCheckContents, GetLock, FileContentsSame, FileLock
    <2>2. /\ job'[k].op = job[k].op /\ job'[k].pc = "read" /\ job'[k].id = i
          /\ job'[k].item = job[k].item /\ job'[k].file = f
          /\ job'[k].user = job[k].user /\ job'[k].todo = job[k].todo
      BY <1>0, <1>1, <2>1 DEF UploadCheck, Job, FullInv, IInv, TypeOK
    <2>3. UNCHANGED <<log, items, locks, blob, faulted, removed>>
      BY <1>1 DEF UploadCheck
    <2> HIDE DEF i, f
    <2>4. AloneOK(job[k])'
      BY <1>a, <1>c, <1>d, <2>2, <2>3, CarriesQuiet DEF AloneOK, Carrying, Copying, Latest
    <2> QED BY <2>2, <2>3, <2>4, AloneQuiet DEF Copying, i
  <1>2. CASE UploadRead(k) /\ ItemWithPath(f) # {}
    <2>1. PICK x \in ItemWithPath(f) :
             job' = [job EXCEPT ![k].pc = "write", ![k].data = log[items[x]].data]
      BY <1>2 DEF UploadRead
    <2>2. x = i /\ items[i] # 0
      BY <1>2, <1>b, <1>c DEF Carries, FullInv, PathInv, OnePathEach, ItemWithPath
    <2>3. /\ job'[k].op = job[k].op /\ job'[k].pc = "write" /\ job'[k].id = i
          /\ job'[k].item = job[k].item /\ job'[k].file = f /\ job'[k].data = Latest(i)
          /\ job'[k].user = job[k].user /\ job'[k].todo = job[k].todo
      BY <1>0, <2>1, <2>2 DEF Job, FullInv, IInv, TypeOK, Latest
    <2>4. UNCHANGED <<log, items, locks, blob, faulted, removed>>
      BY <1>2 DEF UploadRead
    <2>5. Latest(i) \in Nat /\ log[job[k].item].data <= Latest(i) /\ blob[f] <= Latest(i)
      BY <1>b, <1>c, <2>2, TheEntry DEF Latest, FullInv, Carries
    <2> HIDE DEF i, f
    <2>6. AloneOK(job[k])'
      BY <1>a, <1>c, <1>d, <2>3, <2>4, <2>5, CarriesQuiet DEF AloneOK, Carrying, Copying, Latest
    <2> QED BY <2>3, <2>4, <2>6, AloneQuiet DEF Copying, i
  <1>3. CASE UploadRead(k) /\ ItemWithPath(f) = {}
    <2>1. job' = [job EXCEPT ![k] = Idle] /\ UNCHANGED <<log, items, locks, blob, faulted, removed>>
      BY <1>3 DEF UploadRead, Return
    <2>2. items[i] = 0
      BY <1>3, <1>b DEF ItemWithPath
    <2>3. job'[k] = Idle
      BY <2>1 DEF FullInv, IInv, TypeOK
    <2>4. AloneOK(job[k])'
      BY <2>3 DEF AloneOK, Idle, Carrying, Copying
    <2>5. ASSUME NEW x \in Ids PROVE HeldOK(x)' /\ CopiedOK(x)'
      <3>1. HeldOK(x) /\ CopiedOK(x)
        BY DEF FullInv, AloneInv
      <3>2. x # i => \A w \in Workers : ~(job[w].pc \in Copying /\ job[w].id = x)
        OBVIOUS
      <3> QED BY <2>1, <2>2, <3>1, <3>2 DEF HeldOK, CopiedOK, Latest
    <2> QED BY <2>4, <2>5 DEF AloneInv
  <1>4. CASE UploadWrite(k)
    <2> DEFINE d == job[k].data
    <2>1. /\ log[job[k].item].data <= d /\ (items[i] # 0 => d <= Latest(i)) /\ d \in Nat
          /\ blob[f] <= d
      BY <1>0, <1>4 DEF UploadWrite, AloneOK, Job
    <2>2. /\ job'[k].op = job[k].op
          /\ job'[k].pc = IF job[k].op = "process" THEN "next" ELSE "clear"
          /\ job'[k].id = i
          /\ job'[k].item = job[k].item /\ job'[k].file = f /\ job'[k].todo = job[k].todo
      BY <1>0, <1>4 DEF UploadWrite, Job, FullInv, IInv, TypeOK
    <2>3. /\ blob'[f] = d /\ \A g \in Files : g # f => blob'[g] = blob[g]
          /\ UNCHANGED <<log, items, locks, faulted, removed>>
      BY <1>4, <1>b DEF UploadWrite, FullInv, IInv, TypeOK
    <2>4. ASSUME NEW x \in Ids PROVE HeldOK(x)' /\ CopiedOK(x)'
      <3>0. HeldOK(x) /\ CopiedOK(x)
        BY DEF FullInv, AloneInv
      <3>1. CASE locks[x] = NoLock \/ items[x] = 0
        BY <2>3, <3>0, <3>1 DEF HeldOK, CopiedOK
      <3>2. CASE locks[x] # NoLock /\ items[x] # 0 /\ x = i
        <4>1. locks[x].file = f /\ locks[x].etag = job[k].item
          BY <1>c, <3>2 DEF FileLock
        <4> HIDE DEF i, f, d
        <4> QED BY <2>1, <2>3, <3>2, <4>1 DEF HeldOK, CopiedOK, Latest
      <3>3. CASE locks[x] # NoLock /\ items[x] # 0 /\ x # i
        <4>1. locks[x] \in LockOrNone(Len(log)) /\ Sound(x, locks[x], log)
          BY DEF FullInv, PathInv, IInv, TypeOK
        <4>2. /\ x \in Live /\ log[items[x]].file = locks[x].file /\ locks[x].file \in Files
          BY <3>3, <4>1, LockedPath DEF FullInv
        <4>3. locks[x].file # f
          <5>1. CASE items[i] # 0
            BY <1>b, <3>3, <4>2, <5>1 DEF FullInv, PathInv, OnePathEach
          <5>2. CASE items[i] = 0
            BY <1>c, <4>2, <5>2 DEF Carries, ItemWithPath
          <5> QED BY <5>1, <5>2
        <4>4. blob'[locks[x].file] = blob[locks[x].file]
          BY <2>3, <4>2, <4>3
        <4>5. HeldOK(x)'
          BY <2>3, <3>0, <4>4 DEF HeldOK, Latest
        <4>6. CopiedOK(x)'
          BY <2>3, <3>0, <3>3, <4>4 DEF CopiedOK
        <4> QED BY <4>5, <4>6
      <3> QED BY <3>1, <3>2, <3>3
    <2>5. AloneOK(job[k])'
      <3>1. job[k].item # 0
        BY <1>b
      <3> HIDE DEF i, f, d
      <3> QED BY <1>a, <1>d, <2>1, <3>1, <2>2, <2>3, CarriesQuiet DEF AloneOK, Carrying, Copying
    <2> QED BY <2>4, <2>5 DEF AloneInv
  <1> QED BY <1>1, <1>2, <1>3, <1>4

\* A delta response names each item in the version it is in, and FinishEditing has the lock
\* of its item.
LEMMA AloneDelta ==
    ASSUME FullInv, IInv', NEW k, Workers = {k},
           \/ ProcessSpoUpdates(k) \/ \E i \in Ids : FinishEditing(k, i)
           \/ GetToken(k) \/ GetDelta(k) \/ GetNextPage(k) \/ SaveToken(k)
    PROVE  AloneInv'
  <1>0. /\ Len(log) \in Nat /\ DOMAIN log = 1 .. Len(log)
        /\ job[k] \in Job(Len(log)) /\ JobOK(job[k]) /\ AloneOK(job[k])
    BY TheOne
  <1>1. CASE ProcessSpoUpdates(k)
    <2>1. job'[k].op = "process" /\ job'[k].pc = "token" /\ job'[k].todo = {}
      BY <1>1 DEF ProcessSpoUpdates, Idle, FullInv, IInv, TypeOK
    <2>2. job[k].pc = "idle"
      <3>1. job[k] = Idle
        BY <1>1 DEF ProcessSpoUpdates
      <3> QED BY <3>1 DEF Idle
    <2>3. AloneOK(job[k])'
      BY <2>1 DEF AloneOK, Carrying, Copying
    <2> QED BY <1>1, <2>2, <2>3, AloneQuiet DEF ProcessSpoUpdates, Copying
  <1>2. ASSUME NEW i \in Ids, FinishEditing(k, i) PROVE AloneInv'
    <2>1. /\ job'[k].op = "finish" /\ job'[k].pc = "token" /\ job'[k].id = i
          /\ job'[k].lock = locks[i]
      BY <1>2 DEF FinishEditing, Idle, FullInv, IInv, TypeOK
    <2>2. job[k].pc = "idle"
      <3>1. job[k] = Idle
        BY <1>2 DEF FinishEditing
      <3> QED BY <3>1 DEF Idle
    <2>3. AloneOK(job[k])'
      BY <1>2, <2>1 DEF FinishEditing, AloneOK, Carrying, Copying
    <2> QED BY <1>2, <2>2, <2>3, AloneQuiet DEF FinishEditing, Copying
  <1>3. CASE GetToken(k)
    <2>1. /\ job'[k].op = job[k].op /\ job'[k].pc = "delta" /\ job'[k].id = job[k].id
          /\ job'[k].lock = job[k].lock /\ job'[k].todo = job[k].todo
      BY <1>0, <1>3 DEF GetToken, Job, FullInv, IInv, TypeOK
    <2>2. UNCHANGED <<log, items, locks, blob, faulted, removed>> /\ job[k].pc = "token"
      BY <1>3 DEF GetToken
    <2>3. AloneOK(job[k])'
      BY <1>0, <2>1, <2>2, CarriesQuiet DEF AloneOK, Carrying, Copying
    <2> QED BY <2>2, <2>3, AloneQuiet DEF Copying
  <1>4. CASE GetDelta(k) \/ GetNextPage(k)
    <2>1. PICK page : PageRead(k, page)
      BY <1>4, PageSteps DEF FullInv
    <2>2. UNCHANGED <<log, items, locks, blob, faulted, removed>> /\ job[k].pc \notin Copying
      BY <2>1 DEF PageRead, Copying
    <2>3. \A c \in job'[k].todo : c.id \in Ids
      <3>1. job'[k] \in Job(Len(log))
        BY <2>2 DEF IInv, TypeOK
      <3> QED BY <3>1 DEF Job, Found
    <2>4. \A c \in PageOf(k, page) : c.item = items[c.id] /\ c.lock = NoLock
      BY DEF PageOf, DeltaItem
    <2>5. ASSUME NEW c \in job'[k].todo, job[k].op = "process", c.item # 0
          PROVE  Carries(c.id, c.item, log[c.item].file)
      <3>1. CASE c \in job[k].todo
        BY <1>0, <2>5, <3>1 DEF AloneOK
      <3>2. CASE c \in PageOf(k, page)
        <4>1. c.item = items[c.id] /\ items[c.id] \in 1 .. Len(log)
          BY <2>3, <2>4, <2>5, <3>2 DEF FullInv, IInv, TypeOK
        <4>2. Latest(c.id) \in Nat
          BY <4>1, TheEntry DEF Latest, FullInv
        <4> QED BY <4>1, <4>2 DEF Carries, Latest
      <3> QED BY <2>1, <3>1, <3>2 DEF PageRead
    <2>6. ASSUME NEW c \in job'[k].todo, job[k].op = "process", c.lock # NoLock
          PROVE  locks[c.id] # NoLock
      BY <1>0, <2>1, <2>4, <2>6 DEF AloneOK, PageRead
    <2>7. AloneOK(job[k])'
      BY <1>0, <2>1, <2>2, <2>5, <2>6, CarriesQuiet DEF PageRead, AloneOK, Carrying, Copying
    <2> QED BY <2>2, <2>7, AloneQuiet
  <1>5. CASE SaveToken(k)
    <2>1. /\ job'[k].op = job[k].op /\ job'[k].pc \in {"locks", "item"} /\ job'[k].id = job[k].id
          /\ job'[k].lock = job[k].lock /\ job'[k].todo = job[k].todo
      BY <1>0, <1>5 DEF SaveToken, AfterDelta, Job, FullInv, IInv, TypeOK
    <2>2. UNCHANGED <<log, items, locks, blob, faulted, removed>> /\ job[k].pc = "save"
      BY <1>5 DEF SaveToken
    <2>3. AloneOK(job[k])'
      BY <1>0, <2>1, <2>2, CarriesQuiet DEF AloneOK, Carrying, Copying
    <2> QED BY <2>2, <2>3, AloneQuiet DEF Copying
  <1> QED BY <1>1, <1>2, <1>3, <1>4, <1>5

\* The loop over the locks: a change it keeps has a lock, and the file of that lock is the
\* path of the item, where the blob is no newer than the item.
LEMMA AloneLoop ==
    ASSUME FullInv, NEW k, Workers = {k}, ReadLocks(k) \/ NextLock(k)
    PROVE  AloneInv'
  <1>0. /\ Len(log) \in Nat /\ DOMAIN log = 1 .. Len(log)
        /\ job[k] \in Job(Len(log)) /\ JobOK(job[k])
        /\ NamesOK(job[k], log) /\ AloneOK(job[k])
    BY TheOne
  <1>a. job[k].op = "process" /\ job[k].pc \notin Copying
        /\ UNCHANGED <<log, items, locks, blob, faulted, removed>>
    BY <1>0 DEF ReadLocks, NextLock, JobOK, Copying
  <1>b. \A c \in job[k].todo :
            /\ c.id \in Ids /\ c.item \in 0 .. Len(log) /\ c.lock \in LockOrNone(Len(log))
            /\ c.item # 0 => Carries(c.id, c.item, log[c.item].file)
            /\ c.lock # NoLock => locks[c.id] # NoLock
    BY <1>0, <1>a DEF AloneOK, Job, Found
  <1>1. CASE Return(k)
    BY <1>a, <1>1, AloneReturn
  <1>2. CASE ReadLocks(k) /\ job[k].todo # {}
    <2> DEFINE kept == {d \in job[k].todo : d.id \in GetLocks}
    <2>1. /\ job'[k].op = "process" /\ job'[k].pc = "next"
          /\ job'[k].todo = {[c EXCEPT !.lock = locks[c.id]] : c \in kept}
      BY <1>0, <1>2, <1>a DEF ReadLocks, Job, FullInv, IInv, TypeOK
    <2>2. ASSUME NEW c \in kept
          PROVE  LET d == [c EXCEPT !.lock = locks[c.id]] IN
                     d.id = c.id /\ d.item = c.item /\ locks[c.id] # NoLock
      BY <1>0 DEF Job, Found, GetLocks
    <2>3. \A d \in job'[k].todo :
              /\ d.item # 0 => Carries(d.id, d.item, log[d.item].file)
              /\ locks[d.id] # NoLock
      <3> SUFFICES ASSUME NEW c \in kept
                   PROVE  LET d == [c EXCEPT !.lock = locks[c.id]] IN
                     /\ d.item # 0 => Carries(d.id, d.item, log[d.item].file)
                     /\ locks[d.id] # NoLock
        BY <2>1
      <3> QED BY <1>b, <2>2
    <2> HIDE DEF kept
    <2>4. AloneOK(job[k])'
      BY <1>a, <2>1, <2>3, CarriesQuiet DEF AloneOK, Carrying, Copying
    <2> QED BY <1>a, <2>4, AloneQuiet
  <1>3. CASE NextLock(k)
    <2>1. ASSUME NEW c \in job[k].todo,
                 job' = [job EXCEPT ![k].todo = @ \ {c}]
          PROVE  AloneInv'
      <3>1. /\ job'[k].op = "process" /\ job'[k].pc = "next"
            /\ job'[k].todo \subseteq job[k].todo
        BY <1>0, <1>3, <1>a, <2>1 DEF NextLock, Job, FullInv, IInv, TypeOK
      <3>2. AloneOK(job[k])'
        BY <1>a, <1>b, <3>1, CarriesQuiet DEF AloneOK, Carrying, Copying
      <3> QED BY <1>a, <3>2, AloneQuiet
    <2>2. ASSUME NEW c \in job[k].todo, c.item # 0,
                 job' = [job EXCEPT ![k].pc = "getLock", ![k].id = c.id,
                               ![k].item = c.item, ![k].file = c.lock.file,
                               ![k].user = GetUserName(c.item), ![k].todo = @ \ {c}]
          PROVE  AloneInv'
      <3>1. /\ job'[k].op = "process" /\ job'[k].pc = "getLock" /\ job'[k].id = c.id
            /\ job'[k].item = c.item /\ job'[k].file = c.lock.file
            /\ job'[k].todo \subseteq job[k].todo
        BY <1>0, <1>a, <2>2 DEF Job, FullInv, IInv, TypeOK
      <3>2. c.lock # NoLock
        BY <1>0, <1>3, <1>a DEF NextLock, JobOK
      <3>3. /\ Sound(c.id, c.lock, log) /\ Sound(c.id, locks[c.id], log)
            /\ locks[c.id] # NoLock /\ locks[c.id] \in LockOrNone(Len(log))
            /\ HeldOK(c.id) /\ log[c.item].file = c.lock.file
        <4>1. /\ Sound(c.id, c.lock, log) /\ Sound(c.id, locks[c.id], log)
              /\ locks[c.id] # NoLock /\ locks[c.id] \in LockOrNone(Len(log)) /\ HeldOK(c.id)
          BY <1>0, <1>b, <2>2, <3>2 DEF NamesOK, FullInv, PathInv, AloneInv, IInv, TypeOK
        <4>2. /\ log[c.lock.etag].id = c.id /\ log[c.lock.etag].file = c.lock.file
              /\ c.lock.etag \in 1 .. Len(log)
          BY <1>b, <3>2, <4>1 DEF Sound, LockOrNone, LockRow
        <4>3. c.item \in 1 .. Len(log) /\ log[c.item].id = c.id
          BY <1>0, <1>b, <2>2 DEF JobOK
        <4>4. log[c.item].file = c.lock.file
          BY <1>0, <4>2, <4>3 DEF FullInv, PathInv, SamePath
        <4> QED BY <4>1, <4>4
      <3>4. items[c.id] # 0 => locks[c.id].file = c.lock.file
        BY <1>b, <3>2, <3>3, LockedPath DEF FullInv
      <3>5. /\ items[c.id] # 0 => blob[c.lock.file] <= Latest(c.id)
            /\ Carries(c.id, c.item, c.lock.file)
        BY <1>b, <2>2, <3>3, <3>4 DEF HeldOK
      <3>6. AloneOK(job[k])'
        BY <1>a, <1>b, <2>2, <3>1, <3>3, <3>5, CarriesQuiet
        DEF AloneOK, Carrying, Copying, Latest
      <3> QED BY <1>a, <3>6, AloneQuiet
    <2> QED BY <1>1, <1>3, <2>1, <2>2 DEF NextLock
  <1> QED BY <1>1, <1>2, <1>3 DEF ReadLocks

\* The release: the lock FinishEditing read is still the lock, so that what it vouches for
\* is in the blob when it vouches for the version read now.
LEMMA AloneRelease ==
    ASSUME FullInv, NEW k, Workers = {k}, FinishGetItem(k) \/ ClearLock(k)
    PROVE  AloneInv'
  <1>0. /\ Len(log) \in Nat /\ DOMAIN log = 1 .. Len(log)
        /\ job[k] \in Job(Len(log)) /\ JobOK(job[k])
        /\ NamesOK(job[k], log) /\ AloneOK(job[k])
    BY TheOne
  <1> DEFINE i == job[k].id
             v == items[i]
  <1>a. /\ job[k].op = "finish" /\ job[k].pc \notin Copying /\ i \in Ids
        /\ job[k].lock # NoLock /\ job[k].lock \in LockOrNone(Len(log))
        /\ Sound(i, job[k].lock, log) /\ job[k].file = job[k].lock.file
    BY <1>0 DEF FinishGetItem, ClearLock, JobOK, Copying, NamesOK, Job
  <1>b. HeldOK(i) /\ CopiedOK(i)
    BY <1>a DEF FullInv, AloneInv
  <1>c. \A w \in Workers : job[w].pc \notin Copying
    BY <1>a
  <1>1. CASE FinishGetItem(k) /\ v = 0
    BY <1>1, <1>a, AloneReturn DEF FinishGetItem
  <1>2. CASE FinishGetItem(k) /\ v # 0
    <2>1. UNCHANGED <<log, items, locks, blob, faulted, removed>> /\ job[k].pc = "item"
      BY <1>2 DEF FinishGetItem
    <2>2. locks[i] = job[k].lock
      BY <1>0, <1>a, <2>1 DEF AloneOK
    <2>3. /\ job'[k].op = "finish" /\ job'[k].id = i /\ job'[k].item = v
          /\ job'[k].file = job[k].file
          /\ job'[k].pc = IF FileContentsSame(v, job[k].lock) THEN "clear" ELSE "getLock"
      BY <1>0, <1>2, <1>a DEF FinishGetItem, Job, FullInv, IInv, TypeOK
    <2>4. blob[job[k].file] <= Latest(i) /\ locks[i] # NoLock
      BY <1>2, <1>a, <1>b, <2>2 DEF HeldOK
    <2>5. Latest(i) \in Nat
      <3>1. v \in 1 .. Len(log)
        BY <1>0, <1>2, <1>a DEF FullInv, IInv, TypeOK
      <3> QED BY <3>1, TheEntry DEF Latest, FullInv
    <2>6. CASE FileContentsSame(v, job[k].lock)
      <3>1. ~faulted => log[v].data <= blob[job[k].file]
        BY <1>2, <1>a, <1>b, <1>c, <2>2, <2>6 DEF CopiedOK, FileContentsSame
      <3> HIDE DEF i, v
      <3>2. AloneOK(job[k])'
        BY <1>2, <2>1, <2>3, <2>6, <3>1 DEF AloneOK, Carrying, Copying
      <3> QED BY <1>a, <2>1, <3>2, AloneQuiet
    <2>7. CASE ~FileContentsSame(v, job[k].lock)
      <3>1. Carries(i, v, job[k].file)
        BY <1>2, <2>5 DEF Latest, Carries
      <3> HIDE DEF i
      <3>2. AloneOK(job[k])'
        BY <1>2, <2>1, <2>3, <2>4, <2>7, <3>1, CarriesQuiet
        DEF AloneOK, Carrying, Copying, Latest
      <3> QED BY <1>a, <2>1, <3>2, AloneQuiet
    <2> QED BY <2>6, <2>7
  <1>3. CASE ClearLock(k)
    <2>1. /\ UNCHANGED <<log, items, blob, faulted, removed>> /\ job[k].pc = "clear"
          /\ locks'[i] = NoLock /\ \A x \in Ids : x # i => locks'[x] = locks[x]
      BY <1>3, <1>a DEF ClearLock, FullInv, IInv, TypeOK
    <2>2. /\ job'[k].op = "finish" /\ job'[k].id = i /\ job'[k].item = job[k].item
          /\ job'[k].file = job[k].file /\ job'[k].pc = "delete"
      BY <1>0, <1>3, <1>a DEF ClearLock, Job, FullInv, IInv, TypeOK
    <2>3. ASSUME NEW x \in Ids PROVE HeldOK(x)' /\ CopiedOK(x)'
      <3>1. HeldOK(x) /\ CopiedOK(x)
        BY DEF FullInv, AloneInv
      <3> QED BY <1>c, <2>1, <3>1 DEF HeldOK, CopiedOK, Latest
    <2> HIDE DEF i, v
    <2>4. AloneOK(job[k])'
      BY <1>0, <1>a, <2>1, <2>2 DEF AloneOK, Carrying, Copying
    <2> QED BY <2>3, <2>4 DEF AloneInv
  <1> QED BY <1>1, <1>2, <1>3

\* An item without a lock is deleted.
LEMMA AloneDelete ==
    ASSUME FullInv, NEW k, Workers = {k}, NEW i \in Ids, locks[i] = NoLock,
           DeleteFile(i), job[k].pc \notin Copying, UNCHANGED <<locks, blob, faulted, removed>>
    PROVE  \A x \in Ids : HeldOK(x)' /\ CopiedOK(x)'
  <1>1. CASE items[i] = 0
    BY <1>1 DEF DeleteFile, FullInv, AloneInv, HeldOK, CopiedOK, Latest
  <1>2. CASE items[i] # 0
    <2> DEFINE old == log[items[i]]
               e == Entry(i, old.file, App, old.data)
    <2>1. items[i] \in 1 .. Len(log) /\ log \in Seq(LogEntry)
      BY <1>2 DEF FullInv, IInv, TypeOK
    <2>2. e \in LogEntry
      BY <2>1, TheEntry DEF FullInv, LogEntry, Entry
    <2>3. log' = Append(log, e) /\ items' = [items EXCEPT ![i] = 0]
      BY <1>2 DEF DeleteFile, Change
    <2>4. \A n \in 1 .. Len(log) : log'[n] = log[n]
      BY <2>1, <2>2, <2>3, AppendEntry
    <2> SUFFICES ASSUME NEW x \in Ids, locks[x] # NoLock
                 PROVE  HeldOK(x)' /\ CopiedOK(x)'
      BY DEF HeldOK, CopiedOK
    <2>5. /\ HeldOK(x) /\ CopiedOK(x) /\ x # i /\ items'[x] = items[x]
          /\ locks[x].etag \in 1 .. Len(log) /\ items[x] \in 0 .. Len(log)
      BY <2>3 DEF FullInv, AloneInv, IInv, TypeOK, LockOrNone, LockRow
    <2>6. items[x] # 0 => log'[items'[x]] = log[items[x]]
      BY <2>4, <2>5
    <2>7. HeldOK(x)'
      BY <2>5, <2>6 DEF HeldOK, Latest
    <2>8. CopiedOK(x)'
      BY <2>4, <2>5 DEF CopiedOK
    <2> QED BY <2>7, <2>8
  <1> QED BY <1>1, <1>2

\* FinishEditing deletes the item whose lock it has cleared, CleanOldFiles one that had no
\* lock when it asked: nobody has locked them since.
LEMMA AloneDeletes ==
    ASSUME FullInv, NEW k, Workers = {k}, FinishDelete(k) \/ CleanDelete(k)
    PROVE  AloneInv'
  <1>0. /\ Len(log) \in Nat /\ job[k] \in Job(Len(log)) /\ JobOK(job[k]) /\ AloneOK(job[k])
    BY TheOne
  <1>1. CASE FinishDelete(k)
    <2>1. /\ job[k].pc = "delete" /\ job[k].id \in Ids /\ locks[job[k].id] = NoLock
          /\ DeleteFile(job[k].id) /\ UNCHANGED <<locks, blob, faulted, removed>>
      BY <1>0, <1>1 DEF FinishDelete, JobOK, AloneOK
    <2>2. \A x \in Ids : HeldOK(x)' /\ CopiedOK(x)'
      BY <2>1, AloneDelete DEF Copying
    <2>3. job'[k] = Idle
      BY <1>1 DEF FinishDelete, Return, FullInv, IInv, TypeOK
    <2>4. AloneOK(job[k])'
      BY <2>3 DEF AloneOK, Idle, Carrying, Copying
    <2> QED BY <2>2, <2>4 DEF AloneInv
  <1>2. CASE CleanDelete(k)
    <2>a. PICK i \in job[k].ids :
         /\ \/ DeleteFile(i) /\ UNCHANGED faulted
            \/ Faults /\ faulted' = TRUE /\ UNCHANGED <<log, items, queue>>
         /\ job' = [job EXCEPT ![k].ids = @ \ {i}]
      BY <1>2 DEF CleanDelete
    <2>1. /\ job[k].pc = "sweep" /\ job[k].op = "clean" /\ i \in Ids /\ locks[i] = NoLock
          /\ \A x \in job[k].ids : locks[x] = NoLock
          /\ UNCHANGED <<locks, blob, removed>>
      BY <1>0, <1>2 DEF CleanDelete, JobOK, AloneOK, Job
    <2>2. \A x \in Ids : HeldOK(x)' /\ CopiedOK(x)'
      <3>1. CASE DeleteFile(i) /\ UNCHANGED faulted
        BY <2>1, <3>1, AloneDelete DEF Copying
      <3>2. CASE faulted' = TRUE /\ UNCHANGED <<log, items>>
        BY <2>1, <3>2 DEF FullInv, AloneInv, HeldOK, CopiedOK, Latest
      <3> QED BY <2>a, <3>1, <3>2
    <2>3. job'[k].op = "clean" /\ job'[k].pc = "sweep" /\ job'[k].ids \subseteq job[k].ids
      BY <1>0, <2>1, <2>a DEF Job, FullInv, IInv, TypeOK
    <2>4. AloneOK(job[k])'
      BY <2>1, <2>3 DEF AloneOK, Carrying, Copying
    <2> QED BY <2>2, <2>4 DEF AloneInv
  <1> QED BY <1>1, <1>2

\* CleanOldFiles deletes a folder with whatever is in it: a locked file is then gone.
LEMMA AloneFolder ==
    ASSUME FullInv, NEW k, Workers = {k}, CleanDeleteFolder(k)
    PROVE  AloneInv'
  <1>0. /\ Len(log) \in Nat /\ job[k] \in Job(Len(log)) /\ AloneOK(job[k])
        /\ k \in Workers /\ IInv
    BY TheOne DEF FullInv
  <1>1. PICK n : job' = [job EXCEPT ![k] = [job[k] EXCEPT !.dirs = @ \ {n}]]
    BY <1>0, FolderSteps
  <1>2. /\ job[k].pc = "sweep" /\ job[k].op = "clean" /\ job[k].todo = {}
        /\ UNCHANGED <<locks, blob>> /\ (faulted => faulted')
        /\ FolderGone \/ UNCHANGED <<log, items, removed>>
    BY <1>0, FolderSteps
  <1>3. job'[k].op = "clean" /\ job'[k].pc = "sweep" /\ job'[k].ids = job[k].ids
    BY <1>0, <1>1, <1>2 DEF Job, FullInv, IInv, TypeOK
  <1>4. AloneOK(job[k])'
    BY <1>0, <1>2, <1>3 DEF AloneOK, Carrying, Copying
  <1>5. ASSUME NEW x \in Ids, locks[x] # NoLock PROVE HeldOK(x)' /\ CopiedOK(x)'
    <2>1. /\ HeldOK(x) /\ CopiedOK(x) /\ items[x] \in 0 .. Len(log)
          /\ locks[x].etag \in 1 .. Len(log)
      BY <1>5 DEF FullInv, AloneInv, IInv, TypeOK, LockOrNone, LockRow
    <2>2. \A w \in Workers : job[w].pc \notin Copying
      BY <1>2 DEF Copying
    <2>3. CASE UNCHANGED <<log, items, removed>>
      BY <1>2, <2>1, <2>2, <2>3 DEF HeldOK, CopiedOK, Latest
    <2>4. CASE FolderGone
      <3>1. \A m \in 1 .. Len(log) : log'[m] = log[m]
        BY <2>4 DEF FolderGone, Extends
      <3>2. items'[x] # 0 => items'[x] = items[x] /\ Latest(x)' = Latest(x)
        BY <2>1, <2>4, <3>1 DEF FolderGone, Latest
      <3>3. HeldOK(x)'
        BY <1>2, <1>5, <2>1, <2>4, <3>2 DEF HeldOK, FolderGone
      <3>4. CopiedOK(x)'
        BY <1>2, <1>5, <2>1, <2>2, <3>1, <3>2 DEF CopiedOK
      <3> QED BY <3>3, <3>4
    <2> QED BY <1>2, <2>3, <2>4
  <1>6. \A x \in Ids : HeldOK(x)' /\ CopiedOK(x)'
    BY <1>2, <1>5 DEF HeldOK, CopiedOK
  <1> QED BY <1>4, <1>6 DEF AloneInv

\* The rest of CleanOldFiles, and a failure anywhere.
LEMMA AloneCleanOrFail ==
    ASSUME FullInv, NEW k, Workers = {k},
           CleanOldFiles(k) \/ CleanList(k) \/ CleanEnd(k) \/ Fail(k)
    PROVE  AloneInv'
  <1>0. /\ Len(log) \in Nat /\ job[k] \in Job(Len(log)) /\ JobOK(job[k]) /\ AloneOK(job[k])
    BY TheOne
  <1>1. CASE CleanOldFiles(k)
    <2>1. job'[k].op = "clean" /\ job'[k].pc = "list" /\ job'[k].ids = GetLocks
      BY <1>1 DEF CleanOldFiles, Idle, FullInv, IInv, TypeOK
    <2>2. job[k].pc = "idle"
      <3>1. job[k] = Idle
        BY <1>1 DEF CleanOldFiles
      <3> QED BY <3>1 DEF Idle
    <2>3. GetLocks' = GetLocks
      BY <1>1 DEF CleanOldFiles, GetLocks
    <2>4. AloneOK(job[k])'
      BY <2>1, <2>3 DEF AloneOK, Carrying, Copying
    <2> QED BY <1>1, <2>2, <2>4, AloneQuiet DEF CleanOldFiles, Copying
  <1>2. CASE CleanList(k)
    <2>1. job[k].pc = "list" /\ job[k].op = "clean" /\ job[k].ids = GetLocks
          /\ UNCHANGED <<log, items, locks, blob, faulted, removed>>
      BY <1>0, <1>2 DEF CleanList, JobOK, AloneOK
    <2>2. job'[k].op = "clean" /\ job'[k].pc = "sweep" /\ job'[k].ids = RootFiles \ GetLocks
      BY <1>0, <1>2, <2>1 DEF CleanList, Job, FullInv, IInv, TypeOK
    <2>3. \A i \in job'[k].ids : locks'[i] = NoLock
      BY <2>1, <2>2 DEF RootFiles, InFolder, Live, GetLocks
    <2>4. AloneOK(job[k])'
      BY <2>2, <2>3 DEF AloneOK, Carrying, Copying
    <2> QED BY <2>1, <2>4, AloneQuiet DEF Copying
  <1>3. CASE CleanEnd(k)
    BY <1>3, AloneReturn DEF CleanEnd, Copying
  <1>4. CASE Fail(k)
    <2>1. job'[k] = Idle
      BY <1>4 DEF Fail, Return, FullInv, IInv, TypeOK
    <2>2. AloneOK(job[k])'
      BY <2>1 DEF AloneOK, Idle, Carrying, Copying
    <2>3. \A x \in Ids : HeldOK(x)' /\ CopiedOK(x)'
      BY <1>4 DEF Fail, FullInv, AloneInv, HeldOK, CopiedOK, Latest
    <2> QED BY <2>2, <2>3 DEF AloneInv
  <1> QED BY <1>1, <1>2, <1>3, <1>4

\* What people do to the drive: an item somebody saved has newer content than ever, one that
\* somebody deleted is gone, and the others are as they were.
Touched(i) ==
    /\ items[i] \in 1 .. Len(log) /\ UNCHANGED <<locks, blob, job, faulted>>
    /\ \A m \in 1 .. Len(log) : log'[m] = log[m]
    /\ \A x \in Ids : x # i => items'[x] = items[x]
    /\ removed \subseteq removed'
    /\ \/ items'[i] = 0 /\ i \in removed'
       \/ /\ items'[i] = Len(log) + 1 /\ log'[Len(log) + 1].data = Len(log) + 1
          /\ log'[Len(log) + 1].file = log[items[i]].file

LEMMA PeopleTouch ==
    ASSUME FullInv, NEW u \in Users, NEW i \in Ids, UserEdit(u, i) \/ UserDelete(u, i)
    PROVE  Touched(i)
  <1> DEFINE file == log[items[i]].file
             old == log[items[i]].data
             n == Len(log) + 1
  <1>1. items[i] \in 1 .. Len(log) /\ Len(log) \in Nat /\ DOMAIN log = 1 .. Len(log)
    BY DEF UserEdit, UserDelete, FullInv, IInv, TypeOK
  <1>2. file \in Files /\ n \in Nat /\ old \in Nat /\ log \in Seq(LogEntry)
    BY <1>1, TheEntry DEF FullInv, IInv, TypeOK
  <1>3. /\ UNCHANGED <<locks, blob, job, faulted>>
        /\ \/ /\ log' = Append(log, Entry(i, file, u, n)) /\ items' = [items EXCEPT ![i] = n]
              /\ removed' = removed
           \/ /\ log' = Append(log, Entry(i, file, u, old)) /\ items' = [items EXCEPT ![i] = 0]
              /\ removed' = removed \cup {i}
    BY DEF UserEdit, UserDelete, Change
  <1> HIDE DEF file, old, n
  <1>4. Entry(i, file, u, n) \in LogEntry /\ Entry(i, file, u, old) \in LogEntry
    BY <1>2 DEF LogEntry, Entry
  <1>5. \A m \in 1 .. Len(log) : log'[m] = log[m]
    BY <1>2, <1>3, <1>4, AppendEntry
  <1>6. \A x \in Ids : x # i => items'[x] = items[x]
    BY <1>3 DEF FullInv, IInv, TypeOK
  <1>7. CASE log' = Append(log, Entry(i, file, u, n)) /\ items' = [items EXCEPT ![i] = n]
             /\ removed' = removed
    <2>1. log'[Len(log) + 1] = Entry(i, file, u, n)
      BY <1>2, <1>4, <1>7, AppendEntry
    <2>2. items'[i] = n
      BY <1>7 DEF FullInv, IInv, TypeOK
    <2> QED BY <1>1, <1>3, <1>5, <1>6, <1>7, <2>1, <2>2 DEF Touched, Entry, n, file
  <1>8. CASE log' = Append(log, Entry(i, file, u, old)) /\ items' = [items EXCEPT ![i] = 0]
             /\ removed' = removed \cup {i}
    <2>1. items'[i] = 0 /\ i \in removed'
      BY <1>8 DEF FullInv, IInv, TypeOK
    <2> QED BY <1>1, <1>3, <1>5, <1>6, <1>8, <2>1 DEF Touched
  <1> QED BY <1>3, <1>7, <1>8

\* What the drive has of an item after that: newer content, or nothing.
LEMMA TouchedDrive ==
    ASSUME FullInv, NEW i \in Ids, Touched(i), NEW x \in Ids, items[x] # 0
    PROVE  /\ items[x] \in 1 .. Len(log) /\ Latest(x) \in Nat
           /\ \/ items'[x] = 0 /\ x \in removed' /\ x = i
              \/ items'[x] # 0 /\ log'[items'[x]].data \in Nat
                 /\ Latest(x) <= log'[items'[x]].data
  <1>0. Len(log) \in Nat /\ items[x] \in 1 .. Len(log)
    BY TheEntry DEF FullInv, IInv, TypeOK
  <1>1. Latest(x) \in Nat /\ Latest(x) <= items[x]
    BY <1>0, TheEntry DEF Latest, FullInv, PathInv, DataOld, IInv, TypeOK
  <1>2. CASE items'[x] = items[x]
    BY <1>0, <1>1, <1>2 DEF Touched, Latest
  <1>3. CASE x = i
    BY <1>0, <1>1, <1>3 DEF Touched, Latest
  <1> QED BY <1>0, <1>2, <1>3 DEF Touched

\* What a job carries stays in order.
LEMMA TouchedCarries ==
    ASSUME FullInv, NEW i \in Ids, Touched(i), NEW x \in Ids, NEW n \in 1 .. Len(log),
           log[n].id = x, Carries(x, n, log[n].file)
    PROVE  log'[n] = log[n] /\ log[n].data \in Nat /\ Carries(x, n, log[n].file)'
  <1> DEFINE file == log[n].file
  <1>0. log'[n] = log[n] /\ log[n].data \in Nat /\ DOMAIN log = 1 .. Len(log)
    BY TheEntry DEF Touched, FullInv, IInv, TypeOK
  <1>1. \A y \in Ids : items'[y] # 0 =>
          /\ items[y] \in 1 .. Len(log) /\ log'[items'[y]].file = log[items[y]].file
    BY <1>0 DEF Touched, FullInv, IInv, TypeOK
  <1>2. \A y \in Ids : items'[y] # 0 => items[y] # 0
    BY <1>1
  <1>3. CASE items[x] = 0
    <2>1. x \in removed' /\ ItemWithPath(file) = {} /\ items'[x] = 0
      BY <1>2, <1>3 DEF Carries, Touched
    <2>2. ItemWithPath(file)' = {}
      BY <1>0, <1>1, <1>2, <2>1 DEF ItemWithPath, Live
    <2> QED BY <1>0, <2>1, <2>2 DEF Carries
  <1>4. CASE items[x] # 0 /\ items'[x] # 0
    <2>1. /\ log[n].data <= Latest(x) /\ Latest(x) \in Nat
          /\ log'[items'[x]].data \in Nat /\ Latest(x) <= log'[items'[x]].data
      BY <1>4, TouchedDrive DEF Carries
    <2>2. log[n].data <= log'[items'[x]].data
      BY <1>0, <2>1
    <2> QED BY <1>0, <1>4, <2>2 DEF Carries, Latest
  <1>5. CASE items[x] # 0 /\ items'[x] = 0
    <2>1. x \in removed' /\ items[x] \in 1 .. Len(log)
      BY <1>5, TouchedDrive
    <2>2. log[items[x]].id = x /\ log[items[x]].file = file
      BY <1>0, <1>5, <2>1 DEF FullInv, IInv, ItemsOK, PathInv, SamePath
    <2>3. \A y \in Ids : items'[y] # 0 => log'[items'[y]].file # file
      <3> SUFFICES ASSUME NEW y \in Ids, items'[y] # 0, log'[items'[y]].file = file PROVE FALSE
        OBVIOUS
      <3>1. y \in Live /\ x \in Live /\ log[items[y]].file = log[items[x]].file
        BY <1>1, <1>2, <1>5, <2>2 DEF Live
      <3> QED BY <1>5, <3>1 DEF FullInv, PathInv, OnePathEach
    <2>4. ItemWithPath(file)' = {}
      BY <1>0, <2>3 DEF ItemWithPath, Live
    <2> QED BY <1>0, <1>5, <2>1, <2>4 DEF Carries
  <1> QED BY <1>3, <1>4, <1>5

\* Whatever people save or delete meanwhile, the job and the locks stay in order.
LEMMA AlonePeople ==
    ASSUME FullInv, NEW k, Workers = {k}, NEW i \in Ids, Touched(i)
    PROVE  AloneInv'
  <1>0. /\ Len(log) \in Nat /\ DOMAIN log = 1 .. Len(log)
        /\ job[k] \in Job(Len(log)) /\ JobOK(job[k])
        /\ NamesOK(job[k], log) /\ AloneOK(job[k])
    BY TheOne
  <1>1. UNCHANGED <<locks, blob, job, faulted>>
    BY DEF Touched
  <1>2. ASSUME NEW x \in Ids, locks[x] # NoLock PROVE HeldOK(x)' /\ CopiedOK(x)'
    <2>1. /\ HeldOK(x) /\ CopiedOK(x) /\ locks[x].etag \in 1 .. Len(log)
          /\ locks[x].file \in Files /\ blob[locks[x].file] \in Nat
      BY <1>2 DEF FullInv, AloneInv, IInv, TypeOK, LockOrNone, LockRow
    <2>2. items'[x] # 0 => items[x] # 0
      BY <1>0 DEF Touched
    <2>3. HeldOK(x)'
      <3>1. CASE items[x] = 0
        BY <1>1, <1>2, <2>1, <2>2, <3>1 DEF HeldOK, Touched
      <3>2. CASE items[x] # 0
        <4> DEFINE b == blob[locks[x].file]
                   new == log'[items'[x]].data
        <4>1. /\ b \in Nat /\ b <= Latest(x) /\ Latest(x) \in Nat
              /\ \/ items'[x] = 0 /\ x \in removed'
                 \/ items'[x] # 0 /\ new \in Nat /\ Latest(x) <= new
          BY <1>2, <2>1, <3>2, TouchedDrive DEF HeldOK
        <4>2. items'[x] # 0 => b <= new
          <5> HIDE DEF b, new
          <5> QED BY <4>1
        <4> QED BY <1>1, <4>1, <4>2 DEF HeldOK, Latest
      <3> QED BY <3>1, <3>2
    <2>4. CopiedOK(x)'
      BY <1>1, <1>2, <2>1, <2>2 DEF CopiedOK, Touched
    <2> QED BY <2>3, <2>4
  <1>3. \A x \in Ids : HeldOK(x)' /\ CopiedOK(x)'
    BY <1>1, <1>2 DEF HeldOK, CopiedOK
  <1> DEFINE j == job[k]
  <1>4. j.item # 0 => log'[j.item] = log[j.item]
    BY <1>0 DEF Touched, Job
  <1>5. ASSUME j.pc \in Carrying
        PROVE  /\ Carries(job[k].id, job[k].item, job[k].file)' /\ j.item # 0
               /\ items'[j.id] # 0 => blob[j.file] <= log'[items'[j.id]].data
               /\ j.pc = "write" /\ items'[j.id] # 0 => j.data <= log'[items'[j.id]].data
    <2>1. /\ j.id \in Ids /\ j.file \in Files /\ j.item \in 1 .. Len(log)
          /\ log[j.item].id = j.id /\ log[j.item].file = j.file
      BY <1>5, CarriedPath
    <2>2. Carries(j.id, j.item, j.file) /\ (items[j.id] # 0 => blob[j.file] <= Latest(j.id))
          /\ (j.pc = "write" /\ items[j.id] # 0 => j.data <= Latest(j.id))
      BY <1>0, <1>5 DEF AloneOK
    <2>3. blob[j.file] \in Nat /\ j.data \in Nat /\ job' = job
      BY <1>0, <1>1, <2>1 DEF Job, FullInv, IInv, TypeOK
    <2> HIDE DEF j
    <2>a. PICK x \in Ids, n \in 1 .. Len(log) : x = j.id /\ n = j.item
      BY <2>1
    <2>4. log'[n] = log[n] /\ Carries(x, n, log[n].file)'
      BY <2>1, <2>2, <2>a, TouchedCarries
    <2>5. Carries(job[k].id, job[k].item, job[k].file)'
      BY <2>1, <2>3, <2>4, <2>a DEF j
    <2>6. ASSUME items'[j.id] # 0
          PROVE  /\ blob[j.file] <= log'[items'[j.id]].data
                 /\ j.pc = "write" => j.data <= log'[items'[j.id]].data
      <3>1. items[j.id] # 0
        BY <1>0, <2>1, <2>6 DEF Touched
      <3>2. /\ Latest(j.id) \in Nat /\ log'[items'[j.id]].data \in Nat
            /\ Latest(j.id) <= log'[items'[j.id]].data
        BY <2>1, <2>6, <3>1, TouchedDrive
      <3>3. blob[j.file] <= Latest(j.id) /\ (j.pc = "write" => j.data <= Latest(j.id))
        BY <2>2, <3>1
      <3> QED BY <2>3, <3>2, <3>3
    <2> QED BY <2>1, <2>5, <2>6
  <1>6. ASSUME NEW c \in j.todo, c.item # 0, j.op = "process"
        PROVE  Carries(c.id, c.item, log[c.item].file)'
    <2>1. c.id \in Ids /\ c.item \in 1 .. Len(log) /\ log[c.item].id = c.id
      BY <1>0, <1>6 DEF Job, Found, JobOK
    <2>2. Carries(c.id, c.item, log[c.item].file)
      BY <1>0, <1>6 DEF AloneOK
    <2> QED BY <2>1, <2>2, TouchedCarries
  <1>7. GetLocks' = GetLocks
    BY <1>1 DEF GetLocks
  <1>8. j.op = "finish" /\ j.pc \in {"clear", "delete"} => j.item # 0
    BY <1>0 DEF AloneOK
  <1>9. AloneOK(job[k])'
    <2>1. CASE j.pc \in Carrying
      BY <1>0, <1>1, <1>4, <1>5, <1>6, <2>1 DEF AloneOK, Carrying, Copying, Latest
    <2>2. CASE j.pc \notin Carrying
      BY <1>0, <1>1, <1>4, <1>6, <1>7, <1>8, <2>2 DEF AloneOK, Carrying, Copying
    <2> QED BY <2>1, <2>2
  <1> QED BY <1>3, <1>9 DEF AloneInv

\* Nothing is locked or under way at first.
LEMMA AloneInit == Init => AloneInv
  BY IdleAlone DEF Init, AloneInv, HeldOK, CopiedOK

\* Every step of the only worker, or of a user, keeps the invariant.
LEMMA AloneNext ==
    ASSUME NEW k, Workers = {k}
    PROVE  FullInv /\ [Next]_vars => FullInv'
  <1> SUFFICES ASSUME FullInv, [Next]_vars PROVE AloneInv'
    BY NextIInv, PathNext DEF FullInv
  <1>0. PathInv' /\ IInv'
    BY PathNext, NextIInv DEF FullInv
  <1>1. ASSUME Step(k) PROVE AloneInv'
    BY <1>0, <1>1, AloneStart, AloneUploadDoc, AloneSetLock, AloneUpload, AloneDelta,
       AloneLoop, AloneRelease, AloneDeletes, AloneFolder, AloneCleanOrFail DEF Step
  <1>2. ASSUME NEW u \in Users, NEW i \in Ids, UserEdit(u, i) \/ UserDelete(u, i)
        PROVE  AloneInv'
    BY <1>2, PeopleTouch, AlonePeople
  <1>3. CASE UNCHANGED vars
    <2>1. AloneOK(job[k])'
      <3>1. GetLocks' = GetLocks
        BY <1>3 DEF vars, GetLocks
      <3>2. AloneOK(job[k])
        BY DEF FullInv, AloneInv
      <3> QED BY <1>3, <3>1, <3>2, CarriesQuiet DEF vars, AloneOK, Latest
    <2> QED BY <1>3, <2>1 DEF vars, FullInv, AloneInv, HeldOK, CopiedOK, Latest
  <1> QED BY <1>1, <1>2, <1>3 DEF Next

\* The invariant of a single worker.
LEMMA AlwaysAlone ==
    ASSUME NEW k, Workers = {k}
    PROVE  Spec => []FullInv
  <1>1. Init => FullInv
    BY InitIInv, PathInit, AloneInit DEF FullInv
  <1> QED BY <1>1, AloneNext, PTL DEF Spec

\* Run one at a time, no operation takes a locked file out of the drive or leaves a lock
\* without one, but the clean-up with a folder that holds it, and people.
THEOREM LocksHaveItems ==
    ASSUME NEW k, Workers = {k}
    PROVE  Spec => []LockHasItem
  <1>1. FullInv => LockHasItem
    BY DEF FullInv, AloneInv, HeldOK, LockHasItem
  <1> QED BY <1>1, AlwaysAlone, PTL

\* Run one at a time, FinishEditing clears the lock once what it read is in the blob.
THEOREM LastCopied ==
    ASSUME NEW k, Workers = {k}
    PROVE  Spec => []LastCopyIsComplete
  <1>1. FullInv => LastCopyIsComplete
    <2> SUFFICES ASSUME FullInv, ~faulted, NEW w \in Workers, job[w].op = "finish",
                        job[w].pc \in {"clear", "delete"}
                 PROVE  blob[job[w].file] >= log[job[w].item].data
      BY DEF LastCopyIsComplete
    <2>1. AloneOK(job[w]) /\ job[w].file \in Files /\ job[w].item \in 0 .. Len(log)
      BY TheOne DEF JobOK, Job
    <2>2. job[w].item # 0 /\ log[job[w].item].data <= blob[job[w].file]
      BY <2>1 DEF AloneOK
    <2>3. log[job[w].item].data \in Nat /\ blob[job[w].file] \in Nat
      BY <2>1, <2>2, TheEntry DEF FullInv, IInv, TypeOK
    <2> QED BY <2>2, <2>3
  <1> QED BY <1>1, AlwaysAlone, PTL

-----------------------------------------------------------------------------
(* What a step does to the locks and the blobs.                             *)

\* The row a job writes: for an item nobody holds, or again in its holder's name.
Renews ==
    \E k \in Workers :
        LET i == job[k].id
            row == FileLock(job[k].user, job[k].item, job[k].file) IN
        /\ i \in Ids /\ row \in LockRow(Len(log))
        /\ locks' = [locks EXCEPT ![i] = row] /\ blob' = blob
        /\ locks[i] # NoLock => locks[i].user = row.user /\ locks[i].file = row.file

\* The copy a job publishes: of an item it holds, and no older than what the blob had.
Copies ==
    \E i \in Ids : \E d \in 0 .. MaxLog :
        /\ locks[i] # NoLock /\ locks[i].file \in Files
        /\ blob[locks[i].file] <= d
        /\ blob' = [blob EXCEPT ![locks[i].file] = d] /\ locks' = locks

\* The row a job deletes.
Clears ==
    \E i \in Ids : locks' = [locks EXCEPT ![i] = NoLock] /\ blob' = blob

\* Run one at a time, every step is one of these or leaves locks and blobs alone.
LEMMA AloneSteps ==
    ASSUME NEW k, Workers = {k}, FullInv, [Next]_vars
    PROVE  Renews \/ Copies \/ Clears \/ UNCHANGED <<locks, blob>>
  <1>0. /\ Len(log) \in Nat /\ job[k] \in Job(Len(log)) /\ JobOK(job[k])
        /\ NamesOK(job[k], log) /\ AloneOK(job[k])
    BY TheOne
  <1>1. CASE SetLockUpsert(k)
    <2> DEFINE i == job[k].id
               row == FileLock(job[k].user, job[k].item, job[k].file)
    <2>1. /\ job[k].pc = "upsert" /\ locks' = [locks EXCEPT ![i] = row] /\ blob' = blob
      BY <1>1 DEF SetLockUpsert
    <2>2. /\ i \in Ids /\ job[k].item \in 1 .. Len(log) /\ job[k].file \in Files
          /\ log[job[k].item].id = i /\ log[job[k].item].file = job[k].file
      BY <2>1, CarriedPath DEF Carrying
    <2>3. row \in LockRow(Len(log))
      BY <1>0, <2>2 DEF FileLock, LockRow, Job
    <2>4. ASSUME locks[i] # NoLock
          PROVE  locks[i].user = row.user /\ locks[i].file = row.file
      <3>1. locks[i].user = job[k].user
        BY <1>0, <2>1, <2>4 DEF AloneOK, LockCheck
      <3>2. /\ locks[i].etag \in 1 .. Len(log) /\ log[locks[i].etag].id = i
            /\ log[locks[i].etag].file = locks[i].file
        BY <2>2, <2>4 DEF FullInv, IInv, TypeOK, LockOrNone, LockRow, PathInv, Sound
      <3>3. locks[i].file = job[k].file
        BY <1>0, <2>2, <3>2 DEF FullInv, PathInv, SamePath, IInv, TypeOK
      <3> QED BY <3>1, <3>3 DEF FileLock
    <2> QED BY <2>1, <2>2, <2>3, <2>4 DEF Renews
  <1>2. CASE UploadWrite(k)
    <2> DEFINE i == job[k].id
               d == job[k].data
    <2>1. /\ job[k].pc = "write" /\ blob' = [blob EXCEPT ![job[k].file] = d] /\ locks' = locks
      BY <1>2 DEF UploadWrite
    <2>2. /\ i \in Ids /\ job[k].file \in Files /\ job[k].item \in 1 .. Len(log)
      BY <2>1, CarriedPath DEF Carrying
    <2>3. locks[i] = FileLock(job[k].user, job[k].item, job[k].file)
      BY <1>0, <2>1 DEF AloneOK, Copying
    <2>4. locks[i].file = job[k].file /\ locks[i] # NoLock
      <3>1. locks[i] \in [user : Users \cup {App}, etag : Nat, file : Files]
        BY <1>0, <2>2, <2>3 DEF FileLock, Job
      <3> QED BY <2>3, <3>1, NoLockAssumption DEF FileLock
    <2>5. d \in 0 .. MaxLog /\ blob[job[k].file] <= d
      <3>1. Fits(d) /\ d \in Nat
        BY <1>0 DEF FullInv, PathInv, DataOld, Job
      <3> QED BY <1>0, <2>1, <3>1, BoundsAssumption DEF Fits, AloneOK
    <2> QED BY <2>1, <2>2, <2>4, <2>5 DEF Copies
  <1>3. CASE ClearLock(k)
    <2>1. job[k].id \in Ids
      BY <1>0, <1>3 DEF ClearLock, JobOK
    <2> QED BY <1>3, <2>1 DEF ClearLock, Clears
  <1>4. CASE ~SetLockUpsert(k) /\ ~UploadWrite(k) /\ ~ClearLock(k) /\ Step(k)
    BY <1>4 DEF Step, StartEdit, StartGuard, StartDownload, UploadDoc, SetLockCheck,
       UploadCheck, UploadRead, ProcessSpoUpdates, FinishEditing, GetToken, GetDelta,
       GetNextPage, SaveToken, ReadLocks, NextLock, FinishGetItem, FinishDelete, CleanOldFiles,
       CleanList, CleanDelete, CleanDeleteFolder, CleanEnd, Fail
  <1>5. ASSUME NEW u \in Users, NEW i \in Ids, UserEdit(u, i) \/ UserDelete(u, i)
        PROVE  UNCHANGED <<locks, blob>>
    BY <1>5 DEF UserEdit, UserDelete
  <1>6. CASE UNCHANGED vars
    BY <1>6 DEF vars
  <1> QED BY <1>1, <1>2, <1>3, <1>4, <1>5, <1>6 DEF Next

\* Run one at a time, a lock is never overwritten by one of another user.
THEOREM LocksKept ==
    ASSUME NEW k, Workers = {k}
    PROVE  Spec => LockNotOverwritten
  <1>1. FullInv /\ [Next]_vars =>
            [\A i \in Ids : locks[i] # NoLock /\ locks'[i] # NoLock =>
                locks'[i].user = locks[i].user]_vars
    <2> SUFFICES ASSUME FullInv, [Next]_vars, NEW i \in Ids, locks[i] # NoLock,
                        locks'[i] # NoLock
                 PROVE  locks'[i].user = locks[i].user
      OBVIOUS
    <2>1. Renews \/ Copies \/ Clears \/ UNCHANGED <<locks, blob>>
      BY AloneSteps
    <2>2. locks \in [Ids -> LockOrNone(Len(log))]
      BY DEF FullInv, IInv, TypeOK
    <2>3. CASE Renews
      BY <2>2, <2>3 DEF Renews
    <2>4. CASE Clears
      BY <2>2, <2>4 DEF Clears
    <2> QED BY <2>1, <2>3, <2>4 DEF Copies
  <1> QED BY <1>1, AlwaysAlone, PTL DEF Spec, LockNotOverwritten

-----------------------------------------------------------------------------
(* Run one at a time, the jobs implement Checkout.                          *)

\* What Checkout sees of a lock row.
Held(lock) == IF lock = NoLock THEN NoLock ELSE [user |-> lock.user, file |-> lock.file]

\* A row that is there is seen to be there.
LEMMA HeldSeen ==
    ASSUME NEW n \in Nat, NEW lock \in LockOrNone(n)
    PROVE  /\ Held(lock) = NoLock <=> lock = NoLock
           /\ lock # NoLock => /\ Held(lock) = Out!Hold(lock.user, lock.file)
                               /\ Held(lock).file = lock.file
                               /\ lock.user \in Users \cup {App} /\ lock.file \in Files
  <1>1. CASE lock = NoLock
    BY <1>1 DEF Held
  <1>2. CASE lock # NoLock
    <2>1. lock.user \in Users \cup {App} /\ lock.file \in Files
      BY <1>2 DEF LockOrNone, LockRow
    <2>2. Held(lock) \in [user : Users \cup {App}, file : Files]
      BY <1>2, <2>1 DEF Held
    <2> QED BY <1>2, <2>1, <2>2, NoLockAssumption DEF Held, Out!Hold
  <1> QED BY <1>1, <1>2

\* Run one at a time, the operations keep the promise of Checkout: one user holds a copy until
\* it is released, and a blob changes only while a copy is held, and never to older content.
THEOREM ImplementsCheckout ==
    ASSUME NEW k, Workers = {k}
    PROVE  Spec => CheckoutSpec
  <1> DEFINE hold == [i \in Ids |-> Held(locks[i])]
  <1>1. Init => Out!Init
    BY DEF Init, Out!Init
  <1>2. FullInv /\ [Next]_vars => [Out!Next]_<<hold, blob>>
    <2> SUFFICES ASSUME FullInv, [Next]_vars, ~UNCHANGED <<hold, blob>>
                 PROVE  Out!Next
      OBVIOUS
    <2>1. Renews \/ Copies \/ Clears
      BY AloneSteps
    <2>2. /\ locks \in [Ids -> LockOrNone(Len(log))] /\ Len(log) \in Nat
          /\ blob \in [Files -> Nat]
      BY DEF FullInv, IInv, TypeOK
    <2>3. CASE Renews
      <3>1. PICK i \in Ids, row \in LockRow(Len(log)) :
                /\ locks' = [locks EXCEPT ![i] = row] /\ blob' = blob
                /\ locks[i] # NoLock => locks[i].user = row.user /\ locks[i].file = row.file
        BY <2>3 DEF Renews
      <3>2. row \in LockOrNone(Len(log)) /\ row # NoLock
        BY <2>2, <3>1, NoLockAssumption DEF LockOrNone, LockRow
      <3>3. hold' = [hold EXCEPT ![i] = Held(row)]
        BY <2>2, <3>1
      <3>4. locks[i] = NoLock
        <4> SUFFICES ASSUME locks[i] # NoLock PROVE hold' = hold
          BY <3>1
        <4>1. Held(row) = Held(locks[i])
          BY <3>1, <3>2 DEF Held
        <4> QED BY <3>3, <4>1
      <3>5. hold[i] = NoLock
        BY <3>4 DEF Held
      <3>6. Held(row) = Out!Hold(row.user, row.file)
            /\ row.user \in Users \cup {App} /\ row.file \in Files
        BY <2>2, <3>2, HeldSeen
      <3> HIDE DEF hold
      <3>7. Out!CheckOut(i, row.user, row.file)
        BY <3>1, <3>3, <3>5, <3>6 DEF Out!CheckOut, hold, Held
      <3> QED BY <3>6, <3>7 DEF Out!Next
    <2>4. CASE Copies
      <3>1. PICK i \in Ids, d \in 0 .. MaxLog :
                /\ locks[i] # NoLock /\ locks[i].file \in Files
                /\ blob[locks[i].file] <= d
                /\ blob' = [blob EXCEPT ![locks[i].file] = d] /\ locks' = locks
        BY <2>4 DEF Copies
      <3>2. blob[locks[i].file] # d
        BY <2>2, <3>1
      <3>3. d \in 1 .. MaxLog /\ blob[locks[i].file] < d
        BY <2>2, <3>1, <3>2, BoundsAssumption
      <3>4. hold[i] # NoLock /\ hold[i].file = locks[i].file /\ hold' = hold
        BY <2>2, <3>1, HeldSeen
      <3> HIDE DEF hold
      <3>5. Out!Publish(i, d)
        BY <3>1, <3>3, <3>4 DEF Out!Publish, hold, Held
      <3> QED BY <3>3, <3>5 DEF Out!Next
    <2>5. CASE Clears
      <3>1. PICK i \in Ids : locks' = [locks EXCEPT ![i] = NoLock] /\ blob' = blob
        BY <2>5 DEF Clears
      <3>2. locks[i] # NoLock
        BY <2>2, <3>1
      <3>3. hold[i] # NoLock /\ hold' = [hold EXCEPT ![i] = NoLock]
        BY <2>2, <3>1, <3>2, HeldSeen DEF Held
      <3> HIDE DEF hold
      <3>4. Out!CheckIn(i)
        BY <3>1, <3>3 DEF Out!CheckIn, hold, Held
      <3> QED BY <3>4 DEF Out!Next
    <2> QED BY <2>1, <2>3, <2>4, <2>5
  <1>3. <<hold, blob>> = <<[i \in Ids |-> IF locks[i] = NoLock THEN NoLock
                              ELSE [user |-> locks[i].user, file |-> locks[i].file]], blob>>
    BY DEF Held
  <1> QED BY <1>1, <1>2, <1>3, AlwaysAlone, PTL DEF Spec, CheckoutSpec, Out!Spec, Held

=============================================================================
