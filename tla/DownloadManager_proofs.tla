------------------------ MODULE DownloadManager_proofs ------------------------
\* What was accepted is lost in one way only, for any number of resources,
\* requests, failures and crashes.
EXTENDS DownloadManager, TLAPS

\* Where a thread has _managerLock.
InLock == {"initiate", "copy", "put", "remove", "save", "saving", "scan", "interrupt", "join"}

\* The lock belongs to the thread that is between lock() and unlock().
LockInv == \A t \in Threads : pc[t] \in InLock <=> lock = t

\* A thread is in its own method, and knows what it is about.
PlaceInv ==
  /\ \A t \in Requests :
       /\ pc[t] \in {"idle", "asked", "new", "initiate", "copy", "put", "remove", "save", "saving"}
       /\ pc[t] # "idle" => of[t] \in Resources
       /\ pc[t] \in {"copy", "remove"} => of[t] \in active
       /\ pc[t] = "remove" => file[of[t]] = "whole"
       /\ pc[t] \in {"save", "saving"} => of[t] \in active \/ file[of[t]] = "whole"
  /\ pc[Worker] \in {"gone", "nap", "lock", "scan", "copy", "save", "saving"}
  /\ pc[Worker] = "copy" => of[Worker] \in todo
  /\ pc[Container] \in {"idle", "lock", "interrupt", "join", "gone"}

\* A round of the worker: what is to be looked at is listed, and what has been
\* copied is whole, until the lock is given back.
RoundInv ==
  /\ pc[Worker] \notin InLock => todo = {} /\ completed = {}
  /\ todo \subseteq active /\ todo \cap completed = {}
  /\ \A r \in completed : file[r] = "whole"

\* Nothing of a process is left when it has ended.
DownInv ==
  phase # "up" =>
    /\ active = {} /\ lock = Nobody /\ ~saveFailed
    /\ \A t \in Requests : pc[t] = "idle"
    /\ pc[Worker] = "gone" /\ pc[Container] = "idle"

\* The backup is behind the table only during a save, and after one that has
\* failed.
BackupInv ==
  /\ \A t \in Threads : pc[t] = "saving" => backup = Torn
  /\ phase = "up" /\ ~saveFailed /\ (\A t \in Threads : pc[t] \notin {"save", "saving"}) => backup = active

\* What was accepted, or is half copied, is in this list, unless a failed save
\* has lost it.
Keeps(list) ==
  \A r \in Resources \ lost :
    /\ r \in promised => r \in list \/ file[r] = "whole"
    /\ file[r] = "partial" => r \in list

ListInv ==
  /\ phase = "up" => Keeps(active)
  /\ backup # Torn /\ ~saveFailed => Keeps(backup)

IInv == TypeOK /\ LockInv /\ PlaceInv /\ RoundInv /\ DownInv /\ BackupInv /\ ListInv

-----------------------------------------------------------------------------
\* Every conjunct of IInv is kept by each action.
LEMMA InitInv == Init => IInv
<1> SUFFICES ASSUME Init PROVE IInv
  OBVIOUS
<1>1. TypeOK
  <2>1. asked \in 0..MaxRequests /\ faults \in 0..MaxFaults /\ crashes \in 0..MaxCrashes
    BY BoundsAreNumbers DEF Init
  <2>2. pc \in [Threads -> {"idle", "gone"}] /\ lock = Nobody
    BY DEF Init
  <2> QED
    BY <2>1, <2>2 DEF Init, TypeOK
<1>2. LockInv /\ PlaceInv
  BY ThreadsDiffer DEF Init, LockInv, PlaceInv, InLock, Threads
<1>3. RoundInv /\ DownInv /\ BackupInv /\ ListInv
  BY ThreadsDiffer DEF Init, RoundInv, DownInv, BackupInv, ListInv, Keeps, InLock, Threads
<1> QED
  BY <1>1, <1>2, <1>3 DEF IInv

LEMMA DispatchInv ==
  ASSUME IInv, NEW t \in Requests, NEW r \in Resources, Dispatch(t, r)
  PROVE  IInv'
<1> USE ThreadsDiffer DEF process, Dispatch, Go, Threads, data, worker
<1>1. TypeOK'
  BY BoundsAreNumbers DEF IInv, TypeOK
<1>2. LockInv'
  BY DEF IInv, LockInv, InLock
<1>3. PlaceInv'
  BY DEF IInv, TypeOK, PlaceInv
<1>4. RoundInv'
  BY DEF IInv, RoundInv, InLock
<1>5. DownInv'
  BY DEF IInv, DownInv
<1>6. BackupInv'
  BY DEF IInv, BackupInv
<1>7. ListInv'
  BY DEF IInv, ListInv, Keeps
<1> QED
  BY <1>1, <1>2, <1>3, <1>4, <1>5, <1>6, <1>7 DEF IInv

LEMMA AlreadyRequestedInv ==
  ASSUME IInv, NEW t \in Requests, AlreadyRequested(t)
  PROVE  IInv'
<1> USE ThreadsDiffer DEF process, AlreadyRequested, Go, Threads, Leave, Forget, data, worker, bounds
<1>1. TypeOK'
  BY DEF IInv, TypeOK
<1>2. LockInv'
  BY DEF IInv, TypeOK, LockInv, InLock
<1>3. PlaceInv'
  BY DEF IInv, TypeOK, PlaceInv
<1>4. RoundInv'
  BY DEF IInv, TypeOK, RoundInv, InLock
<1>5. DownInv'
  BY DEF IInv, DownInv
<1>6. BackupInv'
  BY DEF IInv, TypeOK, BackupInv
<1>7. ListInv'
  BY DEF IInv, ListInv, Keeps
<1> QED
  BY <1>1, <1>2, <1>3, <1>4, <1>5, <1>6, <1>7 DEF IInv

LEMMA InitiateInv ==
  ASSUME IInv, NEW t \in Requests, Initiate(t)
  PROVE  IInv'
<1> USE ThreadsDiffer DEF process, Initiate, Go, Threads, data, worker, bounds
<1>1. TypeOK'
  BY DEF IInv, TypeOK
<1>2. LockInv'
  BY DEF IInv, TypeOK, LockInv, InLock
<1>3. PlaceInv'
  BY DEF IInv, PlaceInv
<1>4. RoundInv'
  BY DEF IInv, RoundInv, InLock
<1>5. DownInv'
  BY DEF IInv, DownInv
<1>6. BackupInv'
  BY DEF IInv, BackupInv
<1>7. ListInv'
  BY DEF IInv, ListInv, Keeps
<1> QED
  BY <1>1, <1>2, <1>3, <1>4, <1>5, <1>6, <1>7 DEF IInv

LEMMA StartJobInv ==
  ASSUME IInv, NEW t \in Requests, StartJob(t)
  PROVE  IInv'
<1> USE ThreadsDiffer DEF process, StartJob, Go, Threads, worker, bounds
<1>1. TypeOK'
  BY DEF IInv, TypeOK
<1>2. LockInv'
  BY DEF IInv, LockInv, InLock
<1>3. PlaceInv'
  BY DEF IInv, PlaceInv
<1>4. RoundInv'
  BY DEF IInv, RoundInv, InLock
<1>5. DownInv'
  BY DEF IInv, DownInv
<1>6. BackupInv'
  BY DEF IInv, BackupInv
<1>7. ListInv'
  BY DEF IInv, ListInv, Keeps
<1> QED
  BY <1>1, <1>2, <1>3, <1>4, <1>5, <1>6, <1>7 DEF IInv

LEMMA StartJobFailsInv ==
  ASSUME IInv, NEW t \in Requests, StartJobFails(t)
  PROVE  IInv'
<1> USE ThreadsDiffer DEF process, StartJobFails, Go, Threads, Leave, Forget, Fault, data, worker
<1>1. TypeOK'
  BY BoundsAreNumbers DEF IInv, TypeOK
<1>2. LockInv'
  BY DEF IInv, TypeOK, LockInv, InLock
<1>3. PlaceInv'
  BY DEF IInv, TypeOK, PlaceInv
<1>4. RoundInv'
  BY DEF IInv, RoundInv, InLock
<1>5. DownInv'
  BY DEF IInv, DownInv
<1>6. BackupInv'
  BY DEF IInv, TypeOK, BackupInv
<1>7. ListInv'
  BY DEF IInv, ListInv, Keeps
<1> QED
  BY <1>1, <1>2, <1>3, <1>4, <1>5, <1>6, <1>7 DEF IInv

LEMMA PutInv ==
  ASSUME IInv, NEW t \in Requests, Put(t)
  PROVE  IInv'
<1> USE ThreadsDiffer DEF process, Put, Go, Threads, data, worker, bounds
<1>1. TypeOK'
  BY DEF IInv, TypeOK, PlaceInv
<1>2. LockInv'
  BY DEF IInv, LockInv, InLock
<1>3. PlaceInv'
  BY DEF IInv, PlaceInv
<1>4. RoundInv'
  BY DEF IInv, RoundInv, InLock
<1>5. DownInv'
  BY DEF IInv, DownInv
<1>6. BackupInv'
  BY DEF IInv, TypeOK, BackupInv
<1>7. ListInv'
  BY DEF IInv, ListInv, Keeps
<1> QED
  BY <1>1, <1>2, <1>3, <1>4, <1>5, <1>6, <1>7 DEF IInv

LEMMA JobNotCompletedInv ==
  ASSUME IInv, NEW t \in Requests \cup {Worker}, NEW r \in Resources, JobNotCompleted(t, r)
  PROVE  IInv'
<1> USE ThreadsDiffer DEF process, JobNotCompleted, Go, Threads, Looks, NotCopied, Accept, Leave, Forget, worker, bounds
<1>1. TypeOK'
  BY DEF IInv, TypeOK
<1>2. LockInv'
  BY DEF IInv, TypeOK, LockInv, InLock
<1>3. PlaceInv'
  BY DEF IInv, TypeOK, PlaceInv
<1>4. RoundInv'
  BY DEF IInv, TypeOK, RoundInv, InLock
<1>5. DownInv'
  BY DEF IInv, DownInv
<1>6. BackupInv'
  BY DEF IInv, TypeOK, BackupInv
<1>7. ListInv'
  BY DEF IInv, TypeOK, LockInv, PlaceInv, BackupInv, DownInv, RoundInv, ListInv, InLock, Keeps
<1> QED
  BY <1>1, <1>2, <1>3, <1>4, <1>5, <1>6, <1>7 DEF IInv

LEMMA NoOutputInv ==
  ASSUME IInv, NEW t \in Requests \cup {Worker}, NEW r \in Resources, NoOutput(t, r)
  PROVE  IInv'
<1> USE ThreadsDiffer DEF process, NoOutput, Go, Threads, Looks, NotCopied, Accept, Leave, Forget, Fault, worker
<1>1. TypeOK'
  BY BoundsAreNumbers DEF IInv, TypeOK
<1>2. LockInv'
  BY DEF IInv, TypeOK, LockInv, InLock
<1>3. PlaceInv'
  BY DEF IInv, TypeOK, PlaceInv
<1>4. RoundInv'
  BY DEF IInv, TypeOK, RoundInv, InLock
<1>5. DownInv'
  BY DEF IInv, DownInv
<1>6. BackupInv'
  BY DEF IInv, TypeOK, BackupInv
<1>7. ListInv'
  BY DEF IInv, TypeOK, LockInv, PlaceInv, BackupInv, DownInv, RoundInv, ListInv, InLock, Keeps
<1> QED
  BY <1>1, <1>2, <1>3, <1>4, <1>5, <1>6, <1>7 DEF IInv

LEMMA OpenFileInv ==
  ASSUME IInv, NEW t \in Requests \cup {Worker}, NEW r \in Resources, OpenFile(t, r)
  PROVE  IInv'
<1> USE ThreadsDiffer DEF process, OpenFile, Go, Threads, Looks, worker, bounds
<1>1. TypeOK'
  BY DEF IInv, TypeOK
<1>2. LockInv'
  BY DEF IInv, LockInv, InLock
<1>3. PlaceInv'
  BY DEF IInv, TypeOK, LockInv, PlaceInv, InLock
<1>4. RoundInv'
  BY DEF IInv, TypeOK, LockInv, RoundInv, InLock
<1>5. DownInv'
  BY DEF IInv, DownInv
<1>6. BackupInv'
  BY DEF IInv, BackupInv
<1>7. ListInv'
  BY DEF IInv, TypeOK, LockInv, PlaceInv, BackupInv, DownInv, RoundInv, ListInv, InLock, Keeps
<1> QED
  BY <1>1, <1>2, <1>3, <1>4, <1>5, <1>6, <1>7 DEF IInv

LEMMA JobCompletedThrowsInv ==
  ASSUME IInv, NEW t \in Requests \cup {Worker}, NEW r \in Resources, JobCompletedThrows(t, r)
  PROVE  IInv'
<1> USE ThreadsDiffer DEF process, JobCompletedThrows, Go, Threads, Looks, Throws, WorkerEnds, Leave, Forget, Fault, data, bounds
<1>1. TypeOK'
  BY BoundsAreNumbers DEF IInv, TypeOK
<1>2. LockInv'
  BY DEF IInv, TypeOK, LockInv, InLock
<1>3. PlaceInv'
  BY DEF IInv, TypeOK, PlaceInv
<1>4. RoundInv'
  BY DEF IInv, TypeOK, RoundInv, InLock
<1>5. DownInv'
  BY DEF IInv, DownInv
<1>6. BackupInv'
  BY DEF IInv, TypeOK, BackupInv
<1>7. ListInv'
  BY DEF IInv, ListInv, Keeps
<1> QED
  BY <1>1, <1>2, <1>3, <1>4, <1>5, <1>6, <1>7 DEF IInv

LEMMA CopiedInv ==
  ASSUME IInv, NEW t \in Requests \cup {Worker}, Copied(t)
  PROVE  IInv'
<1> USE ThreadsDiffer DEF process, Copied, Go, Threads, Forget, bounds
<1>1. TypeOK'
  BY DEF IInv, TypeOK, PlaceInv
<1>2. LockInv'
  BY DEF IInv, TypeOK, LockInv, InLock
<1>3. PlaceInv'
  BY DEF IInv, TypeOK, PlaceInv
<1>4. RoundInv'
  BY DEF IInv, TypeOK, PlaceInv, RoundInv, InLock
<1>5. DownInv'
  BY DEF IInv, DownInv
<1>6. BackupInv'
  BY DEF IInv, TypeOK, BackupInv
<1>7. ListInv'
  BY DEF IInv, ListInv, Keeps
<1> QED
  BY <1>1, <1>2, <1>3, <1>4, <1>5, <1>6, <1>7 DEF IInv

LEMMA CopyFailsInv ==
  ASSUME IInv, NEW t \in Requests \cup {Worker}, CopyFails(t)
  PROVE  IInv'
<1> USE ThreadsDiffer DEF process, CopyFails, Go, Threads, NotCopied, Accept, Leave, Forget, Fault, worker
<1>1. TypeOK'
  BY BoundsAreNumbers DEF IInv, TypeOK, PlaceInv
<1>2. LockInv'
  BY DEF IInv, TypeOK, LockInv, InLock
<1>3. PlaceInv'
  BY DEF IInv, TypeOK, PlaceInv
<1>4. RoundInv'
  BY DEF IInv, TypeOK, RoundInv, InLock
<1>5. DownInv'
  BY DEF IInv, DownInv
<1>6. BackupInv'
  BY DEF IInv, TypeOK, BackupInv
<1>7. ListInv'
  BY DEF IInv, TypeOK, LockInv, PlaceInv, BackupInv, DownInv, RoundInv, ListInv, InLock, Keeps
<1> QED
  BY <1>1, <1>2, <1>3, <1>4, <1>5, <1>6, <1>7 DEF IInv

LEMMA SaveOpensInv ==
  ASSUME IInv, NEW t \in Requests \cup {Worker}, SaveOpens(t)
  PROVE  IInv'
<1> USE ThreadsDiffer DEF process, SaveOpens, Go, Threads, worker, bounds
<1>1. TypeOK'
  BY DEF IInv, TypeOK
<1>2. LockInv'
  BY DEF IInv, LockInv, InLock
<1>3. PlaceInv'
  BY DEF IInv, PlaceInv
<1>4. RoundInv'
  BY DEF IInv, RoundInv, InLock
<1>5. DownInv'
  BY DEF IInv, DownInv
<1>6. BackupInv'
  BY DEF IInv, BackupInv
<1>7. ListInv'
  BY DEF IInv, ListInv, Keeps
<1> QED
  BY <1>1, <1>2, <1>3, <1>4, <1>5, <1>6, <1>7 DEF IInv

LEMMA SavedInv ==
  ASSUME IInv, NEW t \in Requests \cup {Worker}, Saved(t)
  PROVE  IInv'
<1> USE ThreadsDiffer DEF process, Saved, Go, Threads, Accept, Leave, Forget, worker, bounds
<1>1. TypeOK'
  <2>1. backup' \subseteq Resources /\ lost' \subseteq Resources /\ saveFailed' \in BOOLEAN
    BY DEF IInv, TypeOK
  <2>2. pc' \in [Threads -> {"idle", "asked", "new", "initiate", "copy", "put", "remove", "save", "saving",
                            "nap", "lock", "scan", "interrupt", "join", "gone"}]
    BY DEF IInv, TypeOK
  <2>3. /\ of' \in [Requests \cup {Worker} -> Resources \cup {Nobody}] /\ lock' \in Threads \cup {Nobody}
        /\ promised' \subseteq Resources
    BY DEF IInv, TypeOK, PlaceInv
  <2> QED
    BY <2>1, <2>2, <2>3 DEF IInv, TypeOK
<1>2. LockInv'
  BY DEF IInv, TypeOK, LockInv, InLock
<1>3. PlaceInv'
  BY DEF IInv, TypeOK, PlaceInv
<1>4. RoundInv'
  BY DEF IInv, TypeOK, RoundInv, InLock
<1>5. DownInv'
  BY DEF IInv, DownInv
<1>6. BackupInv'
  BY DEF IInv, TypeOK, LockInv, BackupInv, InLock
<1>7. ListInv'
  BY DEF IInv, TypeOK, LockInv, PlaceInv, BackupInv, DownInv, RoundInv, ListInv, InLock, Keeps
<1> QED
  BY <1>1, <1>2, <1>3, <1>4, <1>5, <1>6, <1>7 DEF IInv

LEMMA SaveOpenFailsInv ==
  ASSUME IInv, NEW t \in Requests \cup {Worker}, SaveOpenFails(t)
  PROVE  IInv'
<1> USE ThreadsDiffer DEF process, SaveOpenFails, Go, Threads, Throws, WorkerEnds, Leave, Forget, Fault, data
<1>1. TypeOK'
  BY BoundsAreNumbers DEF IInv, TypeOK
<1>2. LockInv'
  BY DEF IInv, TypeOK, LockInv, InLock
<1>3. PlaceInv'
  BY DEF IInv, TypeOK, PlaceInv
<1>4. RoundInv'
  BY DEF IInv, TypeOK, RoundInv, InLock
<1>5. DownInv'
  BY DEF IInv, DownInv
<1>6. BackupInv'
  BY DEF IInv, TypeOK, BackupInv
<1>7. ListInv'
  BY DEF IInv, ListInv, Keeps
<1> QED
  BY <1>1, <1>2, <1>3, <1>4, <1>5, <1>6, <1>7 DEF IInv

LEMMA SaveFailsInv ==
  ASSUME IInv, NEW t \in Requests \cup {Worker}, SaveFails(t)
  PROVE  IInv'
<1> USE ThreadsDiffer DEF process, SaveFails, Go, Threads, Throws, WorkerEnds, Leave, Forget, Fault, data
<1>1. TypeOK'
  BY BoundsAreNumbers DEF IInv, TypeOK
<1>2. LockInv'
  BY DEF IInv, TypeOK, LockInv, InLock
<1>3. PlaceInv'
  BY DEF IInv, TypeOK, PlaceInv
<1>4. RoundInv'
  BY DEF IInv, TypeOK, RoundInv, InLock
<1>5. DownInv'
  BY DEF IInv, DownInv
<1>6. BackupInv'
  BY DEF IInv, TypeOK, BackupInv
<1>7. ListInv'
  BY DEF IInv, ListInv, Keeps
<1> QED
  BY <1>1, <1>2, <1>3, <1>4, <1>5, <1>6, <1>7 DEF IInv

LEMMA RemoveInv ==
  ASSUME IInv, NEW t \in Requests, Remove(t)
  PROVE  IInv'
<1> USE ThreadsDiffer DEF process, Remove, Go, Threads, data, worker, bounds
<1>1. TypeOK'
  BY DEF IInv, TypeOK
<1>2. LockInv'
  BY DEF IInv, LockInv, InLock
<1>3. PlaceInv'
  BY DEF IInv, TypeOK, LockInv, PlaceInv, InLock
<1>4. RoundInv'
  BY DEF IInv, TypeOK, LockInv, RoundInv, InLock
<1>5. DownInv'
  BY DEF IInv, DownInv
<1>6. BackupInv'
  BY DEF IInv, TypeOK, BackupInv
<1>7. ListInv'
  BY DEF IInv, TypeOK, PlaceInv, ListInv, Keeps
<1> QED
  BY <1>1, <1>2, <1>3, <1>4, <1>5, <1>6, <1>7 DEF IInv

LEMMA WakeInv ==
  ASSUME IInv, Wake
  PROVE  IInv'
<1> USE ThreadsDiffer DEF process, Wake, Go, Threads, data, worker, bounds
<1>1. TypeOK'
  BY DEF IInv, TypeOK
<1>2. LockInv'
  BY DEF IInv, LockInv, InLock
<1>3. PlaceInv'
  BY DEF IInv, PlaceInv
<1>4. RoundInv'
  BY DEF IInv, RoundInv, InLock
<1>5. DownInv'
  BY DEF IInv, DownInv
<1>6. BackupInv'
  BY DEF IInv, BackupInv
<1>7. ListInv'
  BY DEF IInv, ListInv, Keeps
<1> QED
  BY <1>1, <1>2, <1>3, <1>4, <1>5, <1>6, <1>7 DEF IInv

LEMMA WorkerLocksInv ==
  ASSUME IInv, WorkerLocks
  PROVE  IInv'
<1> USE ThreadsDiffer DEF process, WorkerLocks, Go, Threads, data, bounds
<1>1. TypeOK'
  BY DEF IInv, TypeOK
<1>2. LockInv'
  BY DEF IInv, TypeOK, LockInv, InLock
<1>3. PlaceInv'
  BY DEF IInv, PlaceInv
<1>4. RoundInv'
  BY DEF IInv, TypeOK, RoundInv, InLock
<1>5. DownInv'
  BY DEF IInv, DownInv
<1>6. BackupInv'
  BY DEF IInv, BackupInv
<1>7. ListInv'
  BY DEF IInv, ListInv, Keeps
<1> QED
  BY <1>1, <1>2, <1>3, <1>4, <1>5, <1>6, <1>7 DEF IInv

LEMMA RemoveCompletedInv ==
  ASSUME IInv, NEW r \in Resources, RemoveCompleted(r)
  PROVE  IInv'
<1> USE ThreadsDiffer DEF process, RemoveCompleted, Go, Threads, data, bounds
<1>1. TypeOK'
  BY DEF IInv, TypeOK
<1>2. LockInv'
  BY DEF IInv, LockInv, InLock
<1>3. PlaceInv'
  BY DEF IInv, TypeOK, LockInv, PlaceInv, InLock
<1>4. RoundInv'
  BY DEF IInv, RoundInv, InLock
<1>5. DownInv'
  BY DEF IInv, DownInv
<1>6. BackupInv'
  BY DEF IInv, TypeOK, BackupInv
<1>7. ListInv'
  BY DEF IInv, TypeOK, RoundInv, ListInv, InLock, Keeps
<1> QED
  BY <1>1, <1>2, <1>3, <1>4, <1>5, <1>6, <1>7 DEF IInv

LEMMA RoundEndsInv ==
  ASSUME IInv, RoundEnds
  PROVE  IInv'
<1> USE ThreadsDiffer DEF process, RoundEnds, Go, Threads, data, worker, bounds
<1>1. TypeOK'
  BY DEF IInv, TypeOK
<1>2. LockInv'
  BY DEF IInv, TypeOK, LockInv, InLock
<1>3. PlaceInv'
  BY DEF IInv, PlaceInv
<1>4. RoundInv'
  BY DEF IInv, RoundInv, InLock
<1>5. DownInv'
  BY DEF IInv, DownInv
<1>6. BackupInv'
  BY DEF IInv, BackupInv
<1>7. ListInv'
  BY DEF IInv, ListInv, Keeps
<1> QED
  BY <1>1, <1>2, <1>3, <1>4, <1>5, <1>6, <1>7 DEF IInv

LEMMA DestroyInv ==
  ASSUME IInv, Destroy
  PROVE  IInv'
<1> USE ThreadsDiffer DEF process, Destroy, Go, Threads, data, worker, bounds
<1>1. TypeOK'
  BY DEF IInv, TypeOK
<1>2. LockInv'
  BY DEF IInv, LockInv, InLock
<1>3. PlaceInv'
  BY DEF IInv, PlaceInv
<1>4. RoundInv'
  BY DEF IInv, RoundInv, InLock
<1>5. DownInv'
  BY DEF IInv, DownInv
<1>6. BackupInv'
  BY DEF IInv, BackupInv
<1>7. ListInv'
  BY DEF IInv, ListInv, Keeps
<1> QED
  BY <1>1, <1>2, <1>3, <1>4, <1>5, <1>6, <1>7 DEF IInv

LEMMA DestroyLocksInv ==
  ASSUME IInv, DestroyLocks
  PROVE  IInv'
<1> USE ThreadsDiffer DEF process, DestroyLocks, Go, Threads, data, worker, bounds
<1>1. TypeOK'
  BY DEF IInv, TypeOK
<1>2. LockInv'
  BY DEF IInv, TypeOK, LockInv, InLock
<1>3. PlaceInv'
  BY DEF IInv, PlaceInv
<1>4. RoundInv'
  BY DEF IInv, RoundInv, InLock
<1>5. DownInv'
  BY DEF IInv, DownInv
<1>6. BackupInv'
  BY DEF IInv, BackupInv
<1>7. ListInv'
  BY DEF IInv, ListInv, Keeps
<1> QED
  BY <1>1, <1>2, <1>3, <1>4, <1>5, <1>6, <1>7 DEF IInv

LEMMA InterruptInv ==
  ASSUME IInv, Interrupt
  PROVE  IInv'
<1> USE ThreadsDiffer DEF process, Interrupt, Go, Threads, data, bounds
<1>1. TypeOK'
  BY DEF IInv, TypeOK
<1>2. LockInv'
  BY DEF IInv, LockInv, InLock
<1>3. PlaceInv'
  BY DEF IInv, PlaceInv
<1>4. RoundInv'
  BY DEF IInv, RoundInv, InLock
<1>5. DownInv'
  BY DEF IInv, DownInv
<1>6. BackupInv'
  BY DEF IInv, BackupInv
<1>7. ListInv'
  BY DEF IInv, ListInv, Keeps
<1> QED
  BY <1>1, <1>2, <1>3, <1>4, <1>5, <1>6, <1>7 DEF IInv

LEMMA JoinInv ==
  ASSUME IInv, Join
  PROVE  IInv'
<1> USE ThreadsDiffer DEF process, Join, Go, Threads, data, worker, bounds
<1>1. TypeOK'
  BY DEF IInv, TypeOK
<1>2. LockInv'
  BY DEF IInv, TypeOK, LockInv, InLock
<1>3. PlaceInv'
  BY DEF IInv, PlaceInv
<1>4. RoundInv'
  BY DEF IInv, RoundInv, InLock
<1>5. DownInv'
  BY DEF IInv, DownInv
<1>6. BackupInv'
  BY DEF IInv, BackupInv
<1>7. ListInv'
  BY DEF IInv, ListInv, Keeps
<1> QED
  BY <1>1, <1>2, <1>3, <1>4, <1>5, <1>6, <1>7 DEF IInv

LEMMA StartInv ==
  ASSUME IInv, Start
  PROVE  IInv'
<1> USE ThreadsDiffer DEF process, Start, Go, Threads, data, worker, bounds
<1>1. TypeOK'
  BY DEF IInv, TypeOK
<1>2. LockInv'
  BY DEF IInv, TypeOK, LockInv, PlaceInv, DownInv, InLock
<1>3. PlaceInv'
  BY DEF IInv, TypeOK, PlaceInv, DownInv
<1>4. RoundInv'
  BY DEF IInv, TypeOK, DownInv, RoundInv, InLock
<1>5. DownInv'
  BY DEF IInv, DownInv
<1>6. BackupInv'
  BY DEF IInv, TypeOK, BackupInv
<1>7. ListInv'
  BY DEF IInv, DownInv, ListInv, Keeps
<1> QED
  BY <1>1, <1>2, <1>3, <1>4, <1>5, <1>6, <1>7 DEF IInv

LEMMA CrashInv ==
  ASSUME IInv, Crash
  PROVE  IInv'
<1> USE ThreadsDiffer DEF process, Crash, Threads, data
<1>1. TypeOK'
  <2>1. crashes' \in 0..MaxCrashes
    BY BoundsAreNumbers DEF IInv, TypeOK
  <2>2. pc' \in [Threads -> {"idle", "gone"}] /\ of' \in [Requests \cup {Worker} -> {Nobody}]
    OBVIOUS
  <2> QED
    BY <2>1, <2>2 DEF IInv, TypeOK
<1>2. LockInv'
  BY DEF IInv, LockInv, InLock
<1>3. PlaceInv'
  BY DEF IInv, PlaceInv
<1>4. RoundInv'
  BY DEF IInv, RoundInv, InLock
<1>5. DownInv'
  BY DEF IInv, DownInv
<1>6. BackupInv'
  BY DEF IInv, BackupInv
<1>7. ListInv'
  BY DEF IInv, ListInv, Keeps
<1> QED
  BY <1>1, <1>2, <1>3, <1>4, <1>5, <1>6, <1>7 DEF IInv

LEMMA JobCompletesInv ==
  ASSUME IInv, NEW r \in Resources, JobCompletes(r)
  PROVE  IInv'
<1> USE ThreadsDiffer DEF process, JobCompletes, Threads, worker, bounds
<1>1. TypeOK'
  BY DEF IInv, TypeOK
<1>2. LockInv'
  BY DEF IInv, LockInv, InLock
<1>3. PlaceInv'
  BY DEF IInv, PlaceInv
<1>4. RoundInv'
  BY DEF IInv, RoundInv, InLock
<1>5. DownInv'
  BY DEF IInv, DownInv
<1>6. BackupInv'
  BY DEF IInv, BackupInv
<1>7. ListInv'
  BY DEF IInv, ListInv, Keeps
<1> QED
  BY <1>1, <1>2, <1>3, <1>4, <1>5, <1>6, <1>7 DEF IInv

LEMMA JobExpiresInv ==
  ASSUME IInv, NEW r \in Resources, JobExpires(r)
  PROVE  IInv'
<1> USE ThreadsDiffer DEF process, JobExpires, Threads, worker, bounds
<1>1. TypeOK'
  BY DEF IInv, TypeOK
<1>2. LockInv'
  BY DEF IInv, LockInv, InLock
<1>3. PlaceInv'
  BY DEF IInv, PlaceInv
<1>4. RoundInv'
  BY DEF IInv, RoundInv, InLock
<1>5. DownInv'
  BY DEF IInv, DownInv
<1>6. BackupInv'
  BY DEF IInv, BackupInv
<1>7. ListInv'
  BY DEF IInv, ListInv, Keeps
<1> QED
  BY <1>1, <1>2, <1>3, <1>4, <1>5, <1>6, <1>7 DEF IInv

LEMMA NextInv == IInv /\ [Next]_vars => IInv'
<1> SUFFICES ASSUME IInv, [Next]_vars PROVE IInv'
  OBVIOUS
<1>1. ASSUME NEW t \in Requests \cup {Worker}, Download(t) PROVE IInv'
  BY <1>1, JobNotCompletedInv, NoOutputInv, OpenFileInv, JobCompletedThrowsInv, CopiedInv, CopyFailsInv,
     SaveOpensInv, SaveOpenFailsInv, SavedInv, SaveFailsInv DEF Download
<1>2. ASSUME NEW t \in Requests, RequestStep(t) PROVE IInv'
  BY <1>1, <1>2, AlreadyRequestedInv, InitiateInv, StartJobInv, StartJobFailsInv, PutInv, RemoveInv DEF RequestStep
<1>3. CASE WorkerStep
  BY <1>1, <1>3, WakeInv, WorkerLocksInv, RoundEndsInv, RemoveCompletedInv DEF WorkerStep
<1>4. CASE DestroyStep
  BY <1>4, DestroyLocksInv, InterruptInv, JoinInv DEF DestroyStep
<1>5. CASE UNCHANGED vars
  BY <1>5 DEF IInv, TypeOK, LockInv, PlaceInv, RoundInv, DownInv, BackupInv, ListInv, Keeps, vars, process
<1> QED
  BY <1>2, <1>3, <1>4, <1>5, DispatchInv, DestroyInv, StartInv, CrashInv, JobCompletesInv, JobExpiresInv DEF Next

LEMMA SpecInv == Spec => []IInv
BY InitInv, NextInv, PTL DEF Spec

-----------------------------------------------------------------------------
\* GlacierManager.init(), saveActiveArchiveDownloads(): the next process takes
\* over what this one has listed, at every point where nobody is inside the
\* manager and the last save has not failed; and the types.
THEOREM ConsistentHolds == Spec => []Consistent
<1>1. IInv => BackupIsActive
  <2> SUFFICES ASSUME IInv, phase = "up", lock = Nobody, ~saveFailed
               PROVE  backup = active
    BY DEF BackupIsActive
  <2>1. \A t \in Threads : pc[t] \notin {"save", "saving"}
    BY ThreadsDiffer DEF IInv, LockInv, InLock, Threads
  <2> QED
    BY <2>1 DEF IInv, BackupInv
<1>2. IInv => Consistent
  BY <1>1 DEF IInv, Consistent
<1> QED
  BY SpecInv, <1>2, PTL

\* downloadArchive(), WorkerThread.run(): an accepted request is never lost, and
\* no file is left half written, over any number of crashes and failures, but
\* for what only the table of a process had whose last save failed.
THEOREM NothingLostHolds == Spec => []NothingLost
<1>1. IInv => NothingLost
  BY DEF IInv, DownInv, ListInv, Keeps, NothingLost, Listed
<1> QED
  BY SpecInv, <1>1, PTL
=============================================================================
