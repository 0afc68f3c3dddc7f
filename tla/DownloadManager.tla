--------------------------- MODULE DownloadManager ---------------------------
\* The asynchronous downloads of the OLFS's Glacier service: requests start
\* retrieval jobs that take hours and are told to come back, a worker thread
\* polls the jobs and copies what is ready into the cache, where requests find
\* it.  opendap.aws.glacier: DownloadManager, Download and what of
\* GlacierDapDispatcher and GlacierManager uses them.
\*
\* One action is one step between two points where another thread, a crash or
\* a failure can come in.  What is done under _managerLock without any call
\* that can fail or be seen in a file is one step.
EXTENDS FiniteSets, Integers

CONSTANTS
  Resources,      \* resource ids, distinct in all vaults
  Requests,       \* threads of the servlet container
  Worker,         \* WorkerThread
  Container,      \* the thread that destroys the servlet
  Nobody, Torn,
  MaxRequests,    \* bound: requests that get past the cache
  MaxFaults,      \* bound: failures of Glacier, of a copy or of the disk
  MaxCrashes      \* bound: ends of the process

ASSUME ThreadsDiffer ==
  /\ Worker # Container /\ Worker \notin Requests /\ Container \notin Requests
  /\ Nobody \notin Requests \cup {Worker, Container} /\ Nobody \notin Resources
ASSUME BoundsAreNumbers == MaxRequests \in Nat /\ MaxFaults \in Nat /\ MaxCrashes \in Nat
ASSUME TornIsUnreadable == \A S \in SUBSET Resources : S # Torn

VARIABLES
  phase,        \* of the process; "failed": GlacierManager.init() has thrown
  active,       \* the keys of _activeArchiveDownloads
  backup,       \* what the backup file holds, {} if there is none
  file,         \* each resource's file in the cache
  job,          \* the job started last for each resource, at Glacier
  lock,         \* the holder of _managerLock
  pc, of,       \* each thread's position, and the resource it is about
  todo,         \* run(): downloads still to look at
  completed,    \* run(): downloads copied in this round
  interrupted,  \* the interrupt status of the worker
  promised,     \* resources whose requests were answered "accepted"
  saveFailed,   \* history: the last save of this process has failed
  lost,         \* history: downloads that ended with a process whose last save had failed
  asked, faults, crashes

vars == <<phase, active, backup, file, job, lock, pc, of, todo, completed,
          interrupted, promised, saveFailed, lost, asked, faults, crashes>>
process == <<phase, saveFailed, lost>>
data == <<backup, file, job, promised>>
worker == <<todo, completed, interrupted>>
bounds == <<asked, faults, crashes>>

Threads == Requests \cup {Worker, Container}

TypeOK ==
  /\ phase \in {"up", "down", "failed"}
  /\ active \subseteq Resources
  /\ backup = Torn \/ backup \subseteq Resources
  /\ file \in [Resources -> {"absent", "partial", "whole"}]
  /\ job \in [Resources -> {"none", "running", "complete", "expired"}]
  /\ lock \in Threads \cup {Nobody}
  /\ pc \in [Threads -> {"idle", "asked", "new", "initiate", "copy", "put", "remove", "save", "saving",
                         "nap", "lock", "scan", "interrupt", "join", "gone"}]
  /\ of \in [Requests \cup {Worker} -> Resources \cup {Nobody}]
  /\ todo \subseteq Resources /\ completed \subseteq Resources
  /\ interrupted \in BOOLEAN
  /\ promised \subseteq Resources /\ saveFailed \in BOOLEAN /\ lost \subseteq Resources
  /\ asked \in 0..MaxRequests /\ faults \in 0..MaxFaults /\ crashes \in 0..MaxCrashes

Init ==
  /\ phase = "down" /\ active = {} /\ backup = {}
  /\ file = [r \in Resources |-> "absent"] /\ job = [r \in Resources |-> "none"]
  /\ lock = Nobody /\ of = [t \in Requests \cup {Worker} |-> Nobody]
  /\ pc = [t \in Threads |-> IF t = Worker THEN "gone" ELSE "idle"]
  /\ todo = {} /\ completed = {} /\ interrupted = FALSE
  /\ promised = {} /\ saveFailed = FALSE /\ lost = {} /\ asked = 0 /\ faults = 0 /\ crashes = 0

-----------------------------------------------------------------------------
Go(t, place) == pc' = [pc EXCEPT ![t] = place]

Fault == faults < MaxFaults /\ faults' = faults + 1 /\ UNCHANGED <<asked, crashes>>

Forget(t) == of' = [of EXCEPT ![t] = Nobody]

\* A request that leaves the manager, its lock released by the finally.
Leave(t) == Go(t, "idle") /\ lock' = Nobody /\ Forget(t)

\* run() catches every exception outside its loop: the thread ends, and is not
\* started again as _workerThread is not null.
WorkerEnds == Go(Worker, "gone") /\ lock' = Nobody /\ todo' = {} /\ completed' = {} /\ Forget(Worker)

\* A bug: a throw without the finally that unlocks.
ThrowsLocked(t) ==
  /\ Go(t, IF t = Worker THEN "gone" ELSE "idle") /\ Forget(t)
  /\ UNCHANGED <<lock, worker>>

\* What an exception makes of the calling thread.
Throws(t) ==
  /\ IF t = Worker THEN WorkerEnds ELSE Leave(t) /\ UNCHANGED <<todo, completed>>
  /\ UNCHANGED interrupted

-----------------------------------------------------------------------------
\* GlacierDapDispatcher.requestDispatch(), from a request for data of r.

\* resourceIsCached(): there is a file.  If not, the client must accept to wait.
Dispatch(t, r) ==
  /\ phase = "up" /\ pc[t] = "idle" /\ pc[Container] = "idle"
  /\ asked < MaxRequests /\ file[r] = "absent"
  /\ asked' = asked + 1 /\ of' = [of EXCEPT ![t] = r] /\ Go(t, "asked")
  /\ UNCHANGED <<process, active, data, lock, worker, faults, crashes>>

AlreadyRequested(t) ==
  /\ pc[t] = "asked" /\ lock = Nobody
  /\ IF of[t] \in active THEN Leave(t) ELSE Go(t, "new") /\ UNCHANGED <<lock, of>>
  /\ UNCHANGED <<process, active, data, worker, bounds>>

Initiate(t) ==
  /\ pc[t] = "new" /\ lock = Nobody
  /\ lock' = t /\ Go(t, "initiate")
  /\ UNCHANGED <<process, active, data, of, worker, bounds>>

\* Another request has been faster, or the archive has come and gone: a new job
\* is started if the download is not listed.
StartJob(t) ==
  /\ pc[t] = "initiate" /\ of[t] \notin active
  /\ job' = [job EXCEPT ![of[t]] = "running"] /\ Go(t, "put")
  /\ UNCHANGED <<process, active, backup, file, lock, of, worker, promised, bounds>>

StartJobFails(t) ==
  /\ pc[t] = "initiate" /\ of[t] \notin active
  /\ Fault /\ Leave(t)
  /\ UNCHANGED <<process, active, data, worker>>

Put(t) ==
  /\ pc[t] = "put"
  /\ active' = active \cup {of[t]} /\ Go(t, "save")
  /\ UNCHANGED <<process, data, lock, of, worker, bounds>>

Accept(t) == promised' = promised \cup {of[t]} /\ Leave(t)

-----------------------------------------------------------------------------
\* Download.downloadJobOutput() by a request (downloadArchive()) or the worker.

Looks(t, r) ==
  /\ pc[t] = IF t = Worker THEN "scan" ELSE "initiate"
  /\ IF t = Worker THEN r \in todo ELSE r = of[t] /\ r \in active

\* A bug: completed.add() outside of the if.
NotCopiedDone(t, r) ==
  /\ IF t = Worker
     THEN todo' = todo \ {r} /\ completed' = completed \cup {r} /\ Go(t, "scan") /\ Forget(t)
          /\ UNCHANGED <<lock, interrupted, promised>>
     ELSE Accept(t) /\ UNCHANGED worker
  /\ UNCHANGED <<process, active, backup, job>>

\* What follows a download that is not, or not any more, copied.
NotCopied(t, r) ==
  /\ IF t = Worker
     THEN todo' = todo \ {r} /\ Go(t, "scan") /\ Forget(t) /\ UNCHANGED <<lock, completed, interrupted, promised>>
     ELSE Accept(t) /\ UNCHANGED worker
  /\ UNCHANGED <<process, active, backup, job>>

JobNotCompleted(t, r) ==
  /\ Looks(t, r) /\ job[r] = "running"
  /\ NotCopied(t, r) /\ UNCHANGED <<file, bounds>>

\* getJobOutput() fails before the file is opened.
NoOutput(t, r) ==
  /\ Looks(t, r) /\ job[r] = "complete"
  /\ Fault /\ NotCopied(t, r) /\ UNCHANGED file

\* The file is opened, and truncated, under its final name.
OpenFile(t, r) ==
  /\ Looks(t, r) /\ job[r] = "complete"
  /\ file' = [file EXCEPT ![r] = "partial"] /\ of' = [of EXCEPT ![t] = r] /\ Go(t, "copy")
  /\ UNCHANGED <<process, active, backup, job, lock, worker, promised, bounds>>

\* describeJob() throws: Glacier forgets a job a day after it is completed, and
\* can be out of reach.
JobCompletedThrows(t, r) ==
  /\ Looks(t, r)
  /\ \/ job[r] = "expired" /\ UNCHANGED bounds
     \/ Fault
  /\ Throws(t)
  /\ UNCHANGED <<process, active, data>>

Copied(t) ==
  /\ pc[t] = "copy"
  /\ file' = [file EXCEPT ![of[t]] = "whole"]
  /\ IF t = Worker
     THEN completed' = completed \cup {of[t]} /\ todo' = todo \ {of[t]}
          /\ Go(t, "scan") /\ Forget(t)
     ELSE Go(t, "remove") /\ UNCHANGED <<todo, completed, of>>
  /\ UNCHANGED <<process, active, backup, job, lock, interrupted, promised, bounds>>

\* A bug: success = true before the copy.
CopyFailsDone(t) ==
  /\ pc[t] = "copy"
  /\ Fault
  /\ IF t = Worker
     THEN completed' = completed \cup {of[t]} /\ todo' = todo \ {of[t]}
          /\ Go(t, "scan") /\ Forget(t)
     ELSE Go(t, "remove") /\ UNCHANGED <<todo, completed, of>>
  /\ UNCHANGED <<process, active, data, lock, interrupted>>

CopyFails(t) ==
  /\ pc[t] = "copy"
  /\ Fault /\ NotCopied(t, of[t]) /\ UNCHANGED file

-----------------------------------------------------------------------------
\* saveActiveArchiveDownloads(): the old backup is gone when the new one is
\* opened, and there is no whole one before it is written.

SaveOpens(t) ==
  /\ pc[t] = "save"
  /\ backup' = Torn /\ Go(t, "saving")
  /\ UNCHANGED <<process, active, file, job, lock, of, worker, promised, bounds>>

\* new FileOutputStream(backup) throws, for want of a descriptor (no stream of
\* an earlier save is closed) or of a permission: the old backup stays.
SaveOpenFails(t) ==
  /\ pc[t] = "save"
  /\ Fault /\ Throws(t)
  /\ saveFailed' = TRUE
  /\ UNCHANGED <<phase, lost, active, data>>

\* What a lost download was about is listed again.
Saved(t) ==
  /\ pc[t] = "saving"
  /\ backup' = active /\ saveFailed' = FALSE /\ lost' = lost \ active
  /\ IF t = Worker THEN Go(t, "scan") /\ UNCHANGED <<lock, of, promised>> ELSE Accept(t)
  /\ UNCHANGED <<phase, active, file, job, worker, bounds>>

SaveFails(t) ==
  /\ pc[t] = "saving"
  /\ Fault /\ Throws(t)
  /\ saveFailed' = TRUE
  /\ UNCHANGED <<phase, lost, active, data>>

\* A bug: without the save, as in downloadInventory().
RemoveUnsaved(t) ==
  /\ pc[t] = "remove"
  /\ active' = active \ {of[t]} /\ Accept(t)
  /\ UNCHANGED <<process, backup, file, job, worker, bounds>>

\* downloadArchive(), after the copy.
Remove(t) ==
  /\ pc[t] = "remove"
  /\ active' = active \ {of[t]} /\ Go(t, "save")
  /\ UNCHANGED <<process, data, lock, of, worker, bounds>>

-----------------------------------------------------------------------------
\* WorkerThread.run()

Wake ==
  /\ pc[Worker] = "nap"
  /\ Go(Worker, IF interrupted THEN "gone" ELSE "lock")
  /\ UNCHANGED <<process, active, data, lock, of, worker, bounds>>

\* lock() is not interruptible.
WorkerLocks ==
  /\ pc[Worker] = "lock" /\ lock = Nobody
  /\ lock' = Worker /\ todo' = active /\ completed' = {} /\ Go(Worker, "scan")
  /\ UNCHANGED <<process, active, data, of, interrupted, bounds>>

RemoveCompleted(r) ==
  /\ pc[Worker] = "scan" /\ todo = {} /\ r \in completed
  /\ active' = active \ {r} /\ completed' = completed \ {r} /\ Go(Worker, "save")
  /\ UNCHANGED <<process, data, lock, of, todo, interrupted, bounds>>

RoundEnds ==
  /\ pc[Worker] = "scan" /\ todo = {} /\ completed = {}
  /\ lock' = Nobody /\ Go(Worker, "nap")
  /\ UNCHANGED <<process, active, data, of, worker, bounds>>

-----------------------------------------------------------------------------
\* destroy()

Destroy ==
  /\ phase = "up" /\ pc[Container] = "idle"
  /\ Go(Container, "lock")
  /\ UNCHANGED <<process, active, data, lock, of, worker, bounds>>

DestroyLocks ==
  /\ pc[Container] = "lock" /\ lock = Nobody
  /\ lock' = Container /\ Go(Container, "interrupt")
  /\ UNCHANGED <<process, active, data, of, worker, bounds>>

Interrupt ==
  /\ pc[Container] = "interrupt"
  /\ interrupted' = TRUE /\ Go(Container, "join")
  /\ UNCHANGED <<process, active, data, lock, of, todo, completed, bounds>>

\* join() has no timeout, and the lock is held.
Join ==
  /\ pc[Container] = "join" /\ pc[Worker] = "gone"
  /\ lock' = Nobody /\ Go(Container, "gone")
  /\ UNCHANGED <<process, active, data, of, worker, bounds>>

-----------------------------------------------------------------------------
\* GlacierManager.init(): the downloads of the last process are taken over, and
\* the worker is started.  It throws if the backup cannot be read.
Start ==
  /\ phase = "down"
  /\ IF backup = Torn
     THEN phase' = "failed" /\ UNCHANGED <<active, pc>>
     ELSE phase' = "up" /\ active' = backup /\ Go(Worker, "lock")
  /\ UNCHANGED <<saveFailed, lost, data, lock, of, worker, bounds>>

\* The table is gone.  What only the table has had because of a failed save
\* goes with it; a request that was about to save has promised nothing.
Crash ==
  /\ phase = "up" /\ crashes < MaxCrashes
  /\ crashes' = crashes + 1
  /\ phase' = "down" /\ active' = {} /\ lock' = Nobody
  /\ pc' = [t \in Threads |-> IF t = Worker THEN "gone" ELSE "idle"]
  /\ of' = [t \in Requests \cup {Worker} |-> Nobody]
  /\ todo' = {} /\ completed' = {} /\ interrupted' = FALSE
  /\ lost' = lost \cup IF saveFailed /\ backup # Torn THEN active \ backup ELSE {}
  /\ saveFailed' = FALSE
  /\ UNCHANGED <<data, asked, faults>>

\* Glacier.  The output is there for a day at least, the worker naps for four
\* hours at most: only a job that nobody polls any more can expire.
JobCompletes(r) ==
  /\ job[r] = "running" /\ job' = [job EXCEPT ![r] = "complete"]
  /\ UNCHANGED <<process, active, backup, file, lock, pc, of, worker, promised, bounds>>

JobExpires(r) ==
  /\ job[r] = "complete" /\ job' = [job EXCEPT ![r] = "expired"]
  /\ pc[Worker] = "gone"
  /\ UNCHANGED <<process, active, backup, file, lock, pc, of, worker, promised, bounds>>

-----------------------------------------------------------------------------
Download(t) ==
  \/ \E r \in Resources : JobNotCompleted(t, r) \/ NoOutput(t, r) \/ OpenFile(t, r) \/ JobCompletedThrows(t, r)
  \/ Copied(t) \/ CopyFails(t)
  \/ SaveOpens(t) \/ SaveOpenFails(t) \/ Saved(t) \/ SaveFails(t)

RequestStep(t) ==
  \/ AlreadyRequested(t) \/ Initiate(t) \/ StartJob(t) \/ StartJobFails(t) \/ Put(t) \/ Remove(t)
  \/ Download(t)

WorkerStep == Wake \/ WorkerLocks \/ RoundEnds \/ (\E r \in Resources : RemoveCompleted(r)) \/ Download(Worker)

DestroyStep == DestroyLocks \/ Interrupt \/ Join

Next ==
  \/ \E t \in Requests : RequestStep(t) \/ \E r \in Resources : Dispatch(t, r)
  \/ WorkerStep
  \/ Destroy \/ DestroyStep
  \/ Start \/ Crash
  \/ \E r \in Resources : JobCompletes(r) \/ JobExpires(r)

Spec == Init /\ [][Next]_vars

\* Threads are scheduled, and Glacier completes its jobs.  Requests, crashes and
\* failures are free.
Fairness ==
  /\ \A t \in Requests : WF_vars(RequestStep(t))
  /\ WF_vars(WorkerStep) /\ WF_vars(DestroyStep)
  /\ \A r \in Resources : WF_vars(JobCompletes(r))

FairSpec == Spec /\ Fairness

-----------------------------------------------------------------------------
\* The downloads the process knows, or the next one will find.
Listed == IF phase = "up" THEN active ELSE backup

\* initiateArchiveDownload(): a client whose request was accepted never comes
\* back for nothing, after any number of crashes: its archive is whole in the
\* cache, or still to be downloaded.  And a file that is not whole, which
\* resourceIsCached() takes for the archive, is going to be written again.  Two
\* things end this: a backup that cannot be read, with which no process starts,
\* and a process that ends when its last save has failed, for the downloads
\* that the old backup does not have.
NothingLost ==
  Listed # Torn => \A r \in Resources \ lost :
    /\ r \in promised => r \in Listed \/ file[r] = "whole"
    /\ file[r] = "partial" => r \in Listed

\* saveActiveArchiveDownloads(): what would be read after a crash is what is
\* known now, whenever nobody holds the lock, unless the last save has failed.
BackupIsActive == phase = "up" /\ lock = Nobody /\ ~saveFailed => backup = active

\* The types, and the backup file that agrees with the map.
Consistent == TypeOK /\ BackupIsActive

\* run(): an archive that has been asked for arrives without any further request,
\* unless the process or the worker ends before.
RequestedArrives ==
  \A r \in Resources : r \in active ~> file[r] = "whole" \/ pc[Worker] = "gone" \/ pc[Container] # "idle" \/ phase # "up"

\* destroy() waits with the lock held for a worker that waits for the lock.
Stuck == pc[Container] = "join" /\ pc[Worker] = "lock"

\* The lock comes free after every call and every exception, except then.
LockReleased == lock # Nobody ~> lock = Nobody \/ Stuck
=============================================================================
