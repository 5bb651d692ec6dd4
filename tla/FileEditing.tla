------------------------------ MODULE FileEditing ------------------------------
(***************************************************************************)
(* SPOAzBlob: files live in Azure blob storage and are edited in a         *)
(* SharePoint Online staging drive.  Starting an edit copies the blob into *)
(* the drive and writes a lock in Azure Table storage; Graph notifications *)
(* (through a Service Bus queue) make the function app copy changed drive  *)
(* items back to the blob; releasing the lock copies one last time, clears *)
(* the lock and deletes the drive item; a daily timer deletes drive items  *)
(* that have no lock.                                                      *)
(*                                                                         *)
(* Every method of FileOperationsManager is a job run by a worker (a web   *)
(* request or a function invocation) that makes one remote call per step,  *)
(* so jobs interleave between any two awaits.  With one worker, operations *)
(* run one at a time; with several, they overlap as they do when deployed. *)
(*                                                                         *)
(* The drive is a log of changes: a version of an item (its CTag) is the   *)
(* position of the entry that wrote it, a delta token is a length of the   *)
(* log, and content is named by the entry of the edit that produced it     *)
(* (0 is the content the blob had at first).                               *)
(***************************************************************************)
EXTENDS Naturals, Sequences, FiniteSets

CONSTANTS
    Files,      \* files of the blob container: blob names, and paths in the drive
    Users,      \* people who edit, by display name
    App,        \* display name of the app registration that uploads to the drive
    Ids,        \* drive item ids SharePoint can hand out (a bound): 1 .. n
    Workers,    \* web requests and function invocations that run at the same time
    Folders,    \* top-level folders of the drive, by name
    Root,       \* the root of the drive, which holds them and the other files
    FolderOf,   \* where each file's path starts: its top-level folder, or the root
    NoLock,     \* the answer of GetLock when the table has no such row
    PageSize,   \* items in one page of a drive delta response
    Faults,     \* whether remote calls may fail and hosts may stop
    MaxLog,     \* bound: no edit, no delete by people and no new StartEdit once
                \* the log is this long
    MaxQueue    \* bound: notifications waiting in the queue (more coalesce)

ASSUME AppAssumption == App \notin Users
ASSUME IdsAssumption == Ids \subseteq Nat /\ IsFiniteSet(Ids)
ASSUME FoldersAssumption == Root \notin Folders /\ FolderOf \in [Files -> Folders \cup {Root}]
ASSUME BoundsAssumption ==
    PageSize \in Nat \ {0} /\ MaxLog \in Nat /\ MaxQueue \in Nat \ {0}
ASSUME NoLockAssumption ==
    /\ NoLock \notin [user : Users \cup {App}, etag : Nat, file : Files]
    /\ NoLock \notin [user : Users \cup {App}, file : Files]

VARIABLES
    log,      \* every change of the drive: who wrote which item, with which content
    items,    \* the current version of each item id, 0 when it is not in the drive
    folders,  \* the change that made each top-level folder, 0 when it is not in the drive
    locks,    \* the lock table, by drive item id (RowKey)
    blob,     \* the content of each blob
    token,    \* the drive delta token in the property bag: the log up to there was read
    queue,    \* notifications waiting in the Service Bus queue
    job,      \* what each worker is doing
    fetched,  \* history: the log up to there has been in some delta response
    faulted,  \* history: some step has failed
    removed   \* history: items that people deleted, or that went with their folder

vars == <<log, items, folders, locks, blob, token, queue, job, fetched, faulted, removed>>

-----------------------------------------------------------------------------

\* A drive change: the item, its path, who made it and the content it left.
Entry(id, file, by, data) == [id |-> id, file |-> file, by |-> by, data |-> data]

\* FileLock: the owner, the version of the item it vouches for and the blob.
FileLock(user, etag, file) == [user |-> user, etag |-> etag, file |-> file]

\* The files of the drive, and those whose path starts at d.
Live == {i \in Ids : items[i] # 0}
InFolder(d) == {i \in Live : FolderOf[log[items[i]].file] = d}

\* GetDriveItems: the children of the root and nothing below them; a folder is
\* known by the change that made it.
RootFiles == InFolder(Root)
RootFolders == {folders[d] : d \in Folders} \ {0}

\* The item at a path of the drive (SharePoint allows one).
ItemWithPath(file) == {i \in Live : log[items[i]].file = file}

\* Item ids are never used again: a new item gets the next one.
UsedIds == {log[n].id : n \in DOMAIN log}
Fresh(i) == i \notin UsedIds /\ \A j \in Ids : j < i => j \in UsedIds

\* Bound: an upload in flight never runs out of item ids.
RoomForUpload ==
    Cardinality({k \in Workers : job[k].op = "start"}) < Cardinality(Ids \ UsedIds)

\* A worker that runs nothing.
Idle == [op |-> "none", pc |-> "idle", user |-> App, file |-> "none", id |-> 0,
         item |-> 0, data |-> 0, mark |-> 0, lock |-> NoLock, todo |-> {}, ids |-> {},
         dirs |-> {}]

\* The operation of worker k is over: it returned, or an exception left it.
Return(k) == job' = [job EXCEPT ![k] = Idle]

\* The loop over the locks catches UpdateConflictException and goes on; in the
\* other operations the exception reaches the caller.
Conflict(k) ==
    job' = [job EXCEPT ![k] = IF @.op = "process" THEN [@ EXCEPT !.pc = "next"] ELSE Idle]

\* Graph notifies the function app of every change of the drive.
Notify == queue' = IF queue < MaxQueue THEN queue + 1 ELSE queue

\* The drive records a change: by `by`, to item i at path f.
Change(i, f, by, data) == log' = Append(log, Entry(i, f, by, data)) /\ Notify

\* GetLock of the item worker k has at hand, and the ids GetLocks answers with.
GetLock(k) == locks[job[k].id]
GetLocks == {i \in Ids : locks[i] # NoLock}

\* The lock vouches for this very version.
FileContentsSame(item, lock) == lock.etag = item

\* The user or the app that modified the item last.
GetUserName(v) == log[v].by

\* Variant: the check that lets anyone take the lock.
LockCheckAnyone(lock, user) == TRUE

\* LockCheck: no lock, or one of this user.
LockCheck(lock, user) == lock = NoLock \/ lock.user = user

\* LockCheck with checkContentsToo: the lock must vouch for this very version.
LockCheckContents(lock, user, item) ==
    lock = NoLock \/ (lock.user = user /\ FileContentsSame(item, lock))

LogEntry == [id : Ids, file : Files, by : Users \cup {App}, data : Nat]
LockRow(n) == [user : Users \cup {App}, etag : 1 .. n, file : Files]
LockOrNone(n) == LockRow(n) \cup {NoLock}
Found(n) == [id : Ids, item : 0 .. n, lock : LockOrNone(n)]

Operations == {"none", "start", "process", "finish", "clean"}
Places == {"idle", "guard", "download", "put", "getLock", "upsert", "check", "read", "write",
           "token", "delta", "page", "save", "locks", "next", "item", "clear", "delete",
           "list", "sweep"}

\* A job; n is the length of the log.
Job(n) == [op : Operations, pc : Places, user : Users \cup {App},
           file : Files \cup {"none"}, id : Ids \cup {0}, item : 0 .. n, data : Nat,
           mark : 0 .. n, lock : LockOrNone(n), todo : SUBSET Found(n), ids : SUBSET Ids,
           dirs : SUBSET (1 .. n)]

TypeOK ==
    /\ log \in Seq(LogEntry)
    /\ items \in [Ids -> 0 .. Len(log)]
    /\ locks \in [Ids -> LockOrNone(Len(log))]
    /\ blob \in [Files -> Nat]
    /\ token \in 0 .. Len(log)
    /\ queue \in 0 .. MaxQueue
    /\ job \in [Workers -> Job(Len(log))]
    /\ fetched \in 0 .. Len(log)
    /\ faulted \in BOOLEAN
    /\ folders \in [Folders -> 0 .. Len(log)]
    /\ removed \subseteq Ids

Init ==
    /\ log = <<>>
    /\ items = [i \in Ids |-> 0]
    /\ locks = [i \in Ids |-> NoLock]
    /\ blob = [f \in Files |-> 0]
    /\ token = 0
    /\ queue = 0
    /\ job = [k \in Workers |-> Idle]
    /\ fetched = 0
    /\ faulted = FALSE
    /\ folders = [d \in Folders |-> 0]
    /\ removed = {}

-----------------------------------------------------------------------------
(* StartFileEditInSpo: look for the item, refuse one that has a lock, copy  *)
(* the blob to the drive, lock the item.                                    *)

StartEdit(k, u, f) ==
    /\ job[k] = Idle
    /\ Len(log) < MaxLog /\ RoomForUpload
    /\ \/ /\ ItemWithPath(f) = {}
          /\ job' = [job EXCEPT ![k] =
                [Idle EXCEPT !.op = "start", !.pc = "download", !.user = u, !.file = f]]
       \/ \E i \in ItemWithPath(f) :
             job' = [job EXCEPT ![k] =
                [Idle EXCEPT !.op = "start", !.pc = "guard", !.user = u, !.file = f, !.id = i]]
    /\ UNCHANGED <<log, items, locks, blob, token, queue, fetched, faulted, folders, removed>>

\* GetLock of the item found: any lock, even one's own, refuses the edit.
StartGuard(k) ==
    /\ job[k].pc = "guard"
    /\ IF GetLock(k) # NoLock
         THEN Return(k)
         ELSE job' = [job EXCEPT ![k].pc = "download", ![k].id = 0]
    /\ UNCHANGED <<log, items, locks, blob, token, queue, fetched, faulted, folders, removed>>

StartDownload(k) ==
    /\ job[k].pc = "download"
    /\ job' = [job EXCEPT ![k].pc = "put", ![k].data = blob[job[k].file]]
    /\ UNCHANGED <<log, items, locks, blob, token, queue, fetched, faulted, folders, removed>>

\* UploadDoc: PUT by path, a new version of the item there or a new item; the
\* drive makes the folder of the path when it has none.
UploadDoc(k) ==
    /\ job[k].pc = "put"
    /\ \E i \in Ids :
         /\ \/ i \in ItemWithPath(job[k].file)
            \/ ItemWithPath(job[k].file) = {} /\ Fresh(i)
         /\ Change(i, job[k].file, App, job[k].data)
         /\ items' = [items EXCEPT ![i] = Len(log) + 1]
         /\ job' = [job EXCEPT ![k].pc = "getLock", ![k].id = i,
                               ![k].item = Len(log) + 1, ![k].data = 0]
    /\ folders' = [d \in Folders |-> IF d = FolderOf[job[k].file] /\ folders[d] = 0
                                       THEN Len(log) + 1 ELSE folders[d]]
    /\ UNCHANGED <<locks, blob, token, fetched, faulted, removed>>

-----------------------------------------------------------------------------
(* SetOrUpdateLock: read the lock, check it, then upsert unconditionally.   *)

SetLockCheck(k) ==
    /\ job[k].pc = "getLock"
    /\ IF LockCheck(GetLock(k), job[k].user)
         THEN job' = [job EXCEPT ![k].pc = "upsert"]
         ELSE Conflict(k)
    /\ UNCHANGED <<log, items, locks, blob, token, queue, fetched, faulted, folders, removed>>

SetLockUpsert(k) ==
    /\ job[k].pc = "upsert"
    /\ locks' = [locks EXCEPT ![job[k].id] =
                    FileLock(job[k].user, job[k].item, job[k].file)]
    /\ IF job[k].op = "start" THEN Return(k) ELSE job' = [job EXCEPT ![k].pc = "check"]
    /\ UNCHANGED <<log, items, blob, token, queue, fetched, faulted, folders, removed>>

-----------------------------------------------------------------------------
(* UploadSharePointFileToAzureBlob: check the lock and the version, read    *)
(* what is at the path of the item by now, write it to the blob.            *)

UploadCheck(k) ==
    /\ job[k].pc = "check"
    /\ IF LockCheckContents(GetLock(k), job[k].user, job[k].item)
         THEN job' = [job EXCEPT ![k].pc = "read"]
         ELSE Conflict(k)
    /\ UNCHANGED <<log, items, locks, blob, token, queue, fetched, faulted, folders, removed>>

\* No item at the path is a ServiceException, which no caller expects.
UploadRead(k) ==
    /\ job[k].pc = "read"
    /\ IF ItemWithPath(job[k].file) = {}
         THEN Return(k)
         ELSE \E i \in ItemWithPath(job[k].file) :
                job' = [job EXCEPT ![k].pc = "write", ![k].data = log[items[i]].data]
    /\ UNCHANGED <<log, items, locks, blob, token, queue, fetched, faulted, folders, removed>>

UploadWrite(k) ==
    /\ job[k].pc = "write"
    /\ blob' = [blob EXCEPT ![job[k].file] = job[k].data]
    /\ job' = [job EXCEPT ![k].pc = IF job[k].op = "process" THEN "next" ELSE "clear",
                          ![k].data = 0]
    /\ UNCHANGED <<log, items, locks, token, queue, fetched, faulted, folders, removed>>

-----------------------------------------------------------------------------
(* GetUpdatedDriveItems: read the saved token, ask for the changes since,   *)
(* save the new token.  The answer names each changed item once, with its   *)
(* current version (0: a deleted item).                                     *)

\* A changed item of a delta response and, once the locks are read, its lock.
DeltaItem(i, lock) == [id |-> i, item |-> items[i], lock |-> lock]

\* The items changed since a token; without one, the items of the drive.
Changed(mark) ==
    IF mark = 0 THEN Live ELSE {log[n].id : n \in mark + 1 .. Len(log)}

\* What follows GetUpdatedDriveItems in the operation of worker k.
AfterDelta(k) == IF job[k].op = "process" THEN "locks" ELSE "item"

\* A message is taken from the queue: ProcessSpoUpdatesForActiveLocks starts.
ProcessSpoUpdates(k) ==
    /\ job[k] = Idle
    /\ queue > 0
    /\ queue' = queue - 1
    /\ job' = [job EXCEPT ![k] = [Idle EXCEPT !.op = "process", !.pc = "token"]]
    /\ UNCHANGED <<log, items, locks, blob, token, fetched, faulted, folders, removed>>

\* FinishEditing: the lock as it is now, whoever asks; none is a 404 that changes nothing.
FinishEditing(k, i) ==
    /\ job[k] = Idle
    /\ i \in GetLocks
    /\ job' = [job EXCEPT ![k] = [Idle EXCEPT !.op = "finish", !.pc = "token",
                                  !.id = i, !.lock = locks[i], !.file = locks[i].file]]
    /\ UNCHANGED <<log, items, locks, blob, token, queue, fetched, faulted, folders, removed>>

GetToken(k) ==
    /\ job[k].pc = "token"
    /\ job' = [job EXCEPT ![k].pc = "delta", ![k].mark = token]
    /\ UNCHANGED <<log, items, locks, blob, token, queue, fetched, faulted, folders, removed>>

\* The items of a page, as the drive has them when the page is asked for;
\* FinishEditing ignores them.
PageOf(k, ids) ==
    IF job[k].op = "process" THEN {DeltaItem(i, NoLock) : i \in ids} ELSE {}

\* GetDriveDeltaRecursive, the first call: it may save a token, but only the
\* last page comes with one.
GetDelta(k) ==
    /\ job[k].pc = "delta"
    /\ LET changed == Changed(job[k].mark)
       IN  \/ /\ Cardinality(changed) <= PageSize
              /\ job' = [job EXCEPT ![k].pc = "save", ![k].mark = Len(log),
                                    ![k].todo = PageOf(k, changed)]
              /\ fetched' = Len(log)
           \/ \E page \in SUBSET changed :
              /\ Cardinality(page) = PageSize /\ page # changed
              /\ job' = [job EXCEPT ![k].pc = "page", ![k].mark = Len(log),
                                    ![k].todo = PageOf(k, page), ![k].ids = changed \ page]
              /\ UNCHANGED fetched
    /\ UNCHANGED <<log, items, locks, blob, token, queue, faulted, folders, removed>>

\* The calls for the pages after the first: their token is not saved.
GetNextPage(k) ==
    /\ job[k].pc = "page"
    /\ \E page \in SUBSET job[k].ids :
         LET found == job[k].todo \cup PageOf(k, page)
         IN  \/ /\ page = job[k].ids /\ Cardinality(page) <= PageSize
                /\ job' = [job EXCEPT ![k].pc = AfterDelta(k), ![k].mark = 0,
                                      ![k].todo = found, ![k].ids = {}]
                /\ fetched' = IF fetched < job[k].mark THEN job[k].mark ELSE fetched
             \/ /\ Cardinality(page) = PageSize /\ page # job[k].ids
                /\ job' = [job EXCEPT ![k].todo = found, ![k].ids = @ \ page]
                /\ UNCHANGED fetched
    /\ UNCHANGED <<log, items, locks, blob, token, queue, faulted, folders, removed>>

\* Variants: a token one change too far, and the token of now instead of the one
\* the response came with.
SaveTokenPast(k) ==
    /\ job[k].pc = "save"
    /\ token' = job[k].mark + 1
    /\ job' = [job EXCEPT ![k].pc = AfterDelta(k), ![k].mark = 0]
    /\ UNCHANGED <<log, items, locks, blob, queue, fetched, faulted, folders, removed>>

SaveTokenOfNow(k) ==
    /\ job[k].pc = "save"
    /\ token' = Len(log)
    /\ job' = [job EXCEPT ![k].pc = AfterDelta(k), ![k].mark = 0]
    /\ UNCHANGED <<log, items, locks, blob, queue, fetched, faulted, folders, removed>>

\* SetToken, before any of the changes is looked at.
SaveToken(k) ==
    /\ job[k].pc = "save"
    /\ token' = job[k].mark
    /\ job' = [job EXCEPT ![k].pc = AfterDelta(k), ![k].mark = 0]
    /\ UNCHANGED <<log, items, locks, blob, queue, fetched, faulted, folders, removed>>

-----------------------------------------------------------------------------
(* ProcessSpoUpdatesForActiveLocks, once it has the changes.                *)

\* GetLocks (not asked for when nothing changed); changes without a lock are dropped.
ReadLocks(k) ==
    /\ job[k].pc = "locks"
    /\ IF job[k].todo = {}
         THEN Return(k)
         ELSE job' = [job EXCEPT ![k].pc = "next",
                ![k].todo = {[c EXCEPT !.lock = locks[c.id]] :
                                c \in {d \in @ : d.id \in GetLocks}}]
    /\ UNCHANGED <<log, items, locks, blob, token, queue, fetched, faulted, folders, removed>>

\* Variant: the lock is renewed in its owner's name, whoever saved the item.
NextLockAsOwner(k) ==
    /\ job[k].pc = "next"
    /\ \/ job[k].todo = {} /\ Return(k)
       \/ \E c \in job[k].todo :
            IF c.item = 0
              THEN Return(k)
              ELSE IF FileContentsSame(c.item, c.lock)
                THEN job' = [job EXCEPT ![k].todo = @ \ {c}]
                ELSE job' = [job EXCEPT ![k].pc = "getLock", ![k].id = c.id,
                               ![k].item = c.item, ![k].file = c.lock.file,
                               ![k].user = c.lock.user, ![k].todo = @ \ {c}]
    /\ UNCHANGED <<log, items, locks, blob, token, queue, fetched, faulted, folders, removed>>

\* UpdateAzureFile's first half, for one changed item: nothing to do when the
\* lock already vouches for the version; else set the lock, as the last modifier.
\* A deleted item has no last modifier, and GetUserName throws out of the loop.
NextLock(k) ==
    /\ job[k].pc = "next"
    /\ \/ job[k].todo = {} /\ Return(k)
       \/ \E c \in job[k].todo :
            IF c.item = 0
              THEN Return(k)
              ELSE IF FileContentsSame(c.item, c.lock)
                THEN job' = [job EXCEPT ![k].todo = @ \ {c}]
                ELSE job' = [job EXCEPT ![k].pc = "getLock", ![k].id = c.id,
                               ![k].item = c.item, ![k].file = c.lock.file,
                               ![k].user = GetUserName(c.item), ![k].todo = @ \ {c}]
    /\ UNCHANGED <<log, items, locks, blob, token, queue, fetched, faulted, folders, removed>>

-----------------------------------------------------------------------------
(* FinishEditing, once the token is saved.                                  *)

\* Variant: the last copy is left out.
FinishGetItemNoCopy(k) ==
    /\ job[k].pc = "item"
    /\ LET v == items[job[k].id] IN
         IF v = 0 THEN Return(k)
         ELSE job' = [job EXCEPT ![k].pc = "clear", ![k].item = v, ![k].user = GetUserName(v)]
    /\ UNCHANGED <<log, items, locks, blob, token, queue, fetched, faulted, folders, removed>>

\* GetDriveItem, then UpdateAzureFile's first half: a missing item throws.
FinishGetItem(k) ==
    /\ job[k].pc = "item"
    /\ LET v == items[job[k].id] IN
         IF v = 0 THEN Return(k)
         ELSE job' = [job EXCEPT ![k].pc = IF FileContentsSame(v, job[k].lock)
                                             THEN "clear" ELSE "getLock",
                                 ![k].item = v, ![k].user = GetUserName(v)]
    /\ UNCHANGED <<log, items, locks, blob, token, queue, fetched, faulted, folders, removed>>

\* ClearLock deletes the row whatever it holds by now.
ClearLock(k) ==
    /\ job[k].pc = "clear"
    /\ locks' = [locks EXCEPT ![job[k].id] = NoLock]
    /\ job' = [job EXCEPT ![k].pc = "delete"]
    /\ UNCHANGED <<log, items, blob, token, queue, fetched, faulted, folders, removed>>

\* DeleteFile on the drive; a missing item is an exception that is caught.
DeleteFile(i) ==
    IF items[i] = 0 THEN UNCHANGED <<log, items, queue>>
    ELSE /\ Change(i, log[items[i]].file, App, log[items[i]].data)
         /\ items' = [items EXCEPT ![i] = 0]

FinishDelete(k) ==
    /\ job[k].pc = "delete"
    /\ DeleteFile(job[k].id)
    /\ Return(k)
    /\ UNCHANGED <<locks, blob, token, fetched, faulted, folders, removed>>

-----------------------------------------------------------------------------
(* CleanOldFiles: the locks first, the children of the root after, then one *)
(* delete per child that had no lock: files, and every folder, since only   *)
(* files are locked.                                                        *)

CleanOldFiles(k) ==
    /\ job[k] = Idle
    /\ job' = [job EXCEPT ![k] = [Idle EXCEPT !.op = "clean", !.pc = "list",
                                  !.ids = GetLocks]]
    /\ UNCHANGED <<log, items, locks, blob, token, queue, fetched, faulted, folders, removed>>

\* Variant: the locks are forgotten.
CleanListAll(k) ==
    /\ job[k].pc = "list"
    /\ job' = [job EXCEPT ![k].pc = "sweep", ![k].ids = RootFiles, ![k].dirs = RootFolders]
    /\ UNCHANGED <<log, items, locks, blob, token, queue, fetched, faulted, folders, removed>>

CleanList(k) ==
    /\ job[k].pc = "list"
    /\ job' = [job EXCEPT ![k].pc = "sweep", ![k].ids = RootFiles \ @, ![k].dirs = RootFolders]
    /\ UNCHANGED <<log, items, locks, blob, token, queue, fetched, faulted, folders, removed>>

\* DeleteFile given a folder: what is in it goes too, locked or not, each file
\* a change of its own.
DeleteFolder(n) ==
    IF n \notin RootFolders THEN UNCHANGED <<log, items, folders, removed, queue>>
    ELSE \E d \in Folders :
           /\ folders[d] = n
           /\ \E order \in [1 .. Cardinality(InFolder(d)) -> InFolder(d)] :
                /\ \A i \in InFolder(d) : \E m \in DOMAIN order : order[m] = i
                /\ log' = log \o [m \in DOMAIN order |->
                       LET last == log[items[order[m]]]
                       IN  Entry(order[m], last.file, App, last.data)]
           /\ items' = [i \in Ids |-> IF i \in InFolder(d) THEN 0 ELSE items[i]]
           /\ folders' = [folders EXCEPT ![d] = 0]
           /\ removed' = removed \cup InFolder(d)
           /\ Notify

\* A delete that fails is logged, and the loop goes on.
CleanDelete(k) ==
    /\ job[k].pc = "sweep"
    /\ \E i \in job[k].ids :
         /\ \/ DeleteFile(i) /\ UNCHANGED faulted
            \/ Faults /\ faulted' = TRUE /\ UNCHANGED <<log, items, queue>>
         /\ job' = [job EXCEPT ![k].ids = @ \ {i}]
    /\ UNCHANGED <<locks, blob, token, fetched, folders, removed>>

CleanDeleteFolder(k) ==
    /\ job[k].pc = "sweep"
    /\ \E n \in job[k].dirs :
         /\ \/ DeleteFolder(n) /\ UNCHANGED faulted
            \/ Faults /\ faulted' = TRUE /\ UNCHANGED <<log, items, queue, folders, removed>>
         /\ job' = [job EXCEPT ![k].dirs = @ \ {n}]
    /\ UNCHANGED <<locks, blob, token, fetched>>

CleanEnd(k) ==
    /\ job[k].pc = "sweep" /\ job[k].ids = {} /\ job[k].dirs = {}
    /\ Return(k)
    /\ UNCHANGED <<log, items, locks, blob, token, queue, fetched, faulted, folders, removed>>

-----------------------------------------------------------------------------
(* What the workers do not decide.                                          *)

\* Someone saves the file in Office Online: any user of the site may.
UserEdit(u, i) ==
    /\ Len(log) < MaxLog
    /\ items[i] # 0
    /\ Change(i, log[items[i]].file, u, Len(log) + 1)
    /\ items' = [items EXCEPT ![i] = Len(log) + 1]
    /\ UNCHANGED <<locks, blob, token, job, fetched, faulted, folders, removed>>

\* Someone deletes the file in the drive, which the lock does not prevent.
UserDelete(u, i) ==
    /\ Len(log) < MaxLog
    /\ items[i] # 0
    /\ Change(i, log[items[i]].file, u, log[items[i]].data)
    /\ items' = [items EXCEPT ![i] = 0]
    /\ removed' = removed \cup {i}
    /\ UNCHANGED <<locks, blob, token, job, fetched, faulted, folders>>

\* A remote call throws, or the host stops, between two steps of a job.  A
\* message is then completed (SBGraphUpdate catches every exception) or
\* delivered again (the host stopped).
Fail(k) ==
    /\ Faults
    /\ job[k] # Idle
    /\ Return(k)
    /\ faulted' = TRUE
    /\ \/ UNCHANGED queue
       \/ job[k].op = "process" /\ Notify
    /\ UNCHANGED <<log, items, locks, blob, token, fetched, folders, removed>>

Step(k) ==
    \/ \E u \in Users, f \in Files : StartEdit(k, u, f)
    \/ StartGuard(k) \/ StartDownload(k) \/ UploadDoc(k)
    \/ SetLockCheck(k) \/ SetLockUpsert(k)
    \/ UploadCheck(k) \/ UploadRead(k) \/ UploadWrite(k)
    \/ ProcessSpoUpdates(k) \/ \E i \in Ids : FinishEditing(k, i)
    \/ GetToken(k) \/ GetDelta(k) \/ GetNextPage(k) \/ SaveToken(k)
    \/ ReadLocks(k) \/ NextLock(k)
    \/ FinishGetItem(k) \/ ClearLock(k) \/ FinishDelete(k)
    \/ CleanOldFiles(k) \/ CleanList(k) \/ CleanEnd(k)
    \/ CleanDelete(k) \/ CleanDeleteFolder(k)
    \/ Fail(k)

Next ==
    \/ \E k \in Workers : Step(k)
    \/ \E u \in Users, i \in Ids : UserEdit(u, i) \/ UserDelete(u, i)

Spec == Init /\ [][Next]_vars

-----------------------------------------------------------------------------
(* Properties.  Those marked [one at a time] hold when Workers is a          *)
(* singleton; the others hold however the jobs overlap.                     *)

\* The version a lock vouches for is a version of that item, written by the
\* owner of the lock or uploaded by the app when the edit started: another
\* person's save is never recorded as accepted (LockCheck in SetOrUpdateLock
\* compares the item's last modifier with the owner).
LockVouchesForOwner ==
    \A i \in Ids : locks[i] # NoLock =>
        LET e == log[locks[i].etag] IN e.id = i /\ e.by \in {locks[i].user, App}

\* A lock is for an item that is in the drive: FinishEditing can read it, so
\* the lock can be released.  Neither the release of another file nor the daily
\* clean-up takes a locked file out of the drive ("Clean anything in SPO without
\* an active lock"), except that the clean-up deletes a folder with whatever is
\* in it; and people may delete the file.  [one at a time]
LockHasItem == \A i \in Ids : locks[i] # NoLock => items[i] # 0 \/ i \in removed

\* When FinishEditing clears the lock and deletes the item, the version it read
\* as the latest is in the blob, unless some call failed.  [one at a time]
LastCopyIsComplete ==
    ~faulted =>
        \A k \in Workers :
            job[k].op = "finish" /\ job[k].pc \in {"clear", "delete"} =>
                blob[job[k].file] >= log[job[k].item].data

\* No change of the drive is skipped: the token never passes a change that no
\* delta response contained, and a change that none contained yet has a
\* notification waiting, or a job about to ask for it or reading it page by page,
\* unless some call failed.
NoChangeSkipped ==
    /\ token <= fetched
    /\ fetched < Len(log) /\ ~faulted =>
         \/ queue > 0
         \/ \E k \in Workers : job[k].op = "process" /\ job[k].pc \in {"token", "delta"}
         \/ \E k \in Workers :
              job[k].op = "process" /\ job[k].pc = "page" /\ job[k].mark = Len(log)

\* "Don't overwrite a lock by someone else for this item": a lock changes hands
\* only by being cleared first.  [one at a time]
LockNotOverwritten ==
    [][\A i \in Ids : locks[i] # NoLock /\ locks'[i] # NoLock =>
            locks'[i].user = locks[i].user]_vars

\* "Only updates from the locking user will be accepted": content that arrives
\* in a blob was written by the owner of a lock on that file.
OnlyOwnerUpdates ==
    [][\A f \in Files : blob'[f] # blob[f] =>
            \E i \in Ids : /\ locks[i] # NoLock
                           /\ locks[i].file = f
                           /\ locks[i].user = log[blob'[f]].by]_vars

\* "With each update notification, the new file contents are copied back": once
\* every notification is processed, the owner's latest save is in the blob.
QuietMeansCopied ==
    (queue = 0 /\ ~faulted /\ \A k \in Workers : job[k] = Idle) =>
        \A i \in Ids :
            locks[i] # NoLock /\ items[i] # 0 /\ log[items[i]].by = locks[i].user =>
                blob[locks[i].file] = log[items[i]].data

\* Run one at a time, the jobs implement Checkout.  [one at a time]
Out == INSTANCE Checkout
    WITH Copies <- Ids, Holders <- Users \cup {App},
         Contents <- 1 .. MaxLog,
         NoHold <- NoLock, published <- blob,
         hold <- [i \in Ids |-> IF locks[i] = NoLock THEN NoLock
                                ELSE [user |-> locks[i].user, file |-> locks[i].file]]

CheckoutSpec == Out!Spec

=============================================================================
