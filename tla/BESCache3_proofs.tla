-------------------------- MODULE BESCache3_proofs --------------------------
(***************************************************************************)
(* Proofs about BESCache3, for every number of listeners, files, sizes and *)
(* descriptors.                                                            *)
(***************************************************************************)
EXTENDS BESCache3, FiniteSetTheorems, WellFoundedInduction, TLAPS

-----------------------------------------------------------------------------
(* Types.  TypeOK is inductive with what a running call knows: its         *)
(* container.                                                              *)

\* The places between the call of access() and its return.
InCall == Labels \ {"boot", "bootLock", "bootWrite", "idle", "ending"}

CurOK == \A p \in Listeners : pc[p] \in InCall => cur[p] \in Containers

TypeInv == TypeOK /\ CurOK

LEMMA TypeInit == Init => TypeInv
BY CacheAssumption DEF Init, TypeInv, TypeOK, CurOK, LockModes, Labels, InCall, Entry

LEMMA RecordType ==
  ASSUME dlocks \in [Listeners -> [Files -> FDs \cup {None}]],
         NEW p \in Listeners, NEW f \in Files, NEW d \in FDs \cup {None},
         Record(p, f, d)
  PROVE  dlocks' \in [Listeners -> [Files -> FDs \cup {None}]]
<1>1. CASE dlocks[p][f] = None
  <2>1. dlocks' = [dlocks EXCEPT ![p][f] = d] BY <1>1 DEF Record
  <2> QED BY <2>1
<1>2. CASE dlocks[p][f] # None
  <2>1. dlocks' = [dlocks EXCEPT ![p][f] = dlocks[p][f]] BY <1>2 DEF Record
  <2> QED BY <2>1
<1> QED BY <1>1, <1>2

\* The types of what the return of a call assigns.
CallTyped(p) ==
  /\ cur' \in [Listeners -> Containers \cup {None}]
  /\ fd' \in [Listeners -> FDs \cup {None}]
  /\ attempt' \in [Listeners -> {1, 2}]
  /\ scan' \in [Listeners -> SUBSET Entry]
  /\ computed' \in [Listeners -> Int]
  /\ \A q \in Listeners \ {p} : cur'[q] = cur[q]

LEMMA ForgetCallType ==
  ASSUME TypeInv, NEW p \in Listeners, ForgetCall(p)
  PROVE  CallTyped(p)
BY DEF CallTyped, ForgetCall, TypeInv, TypeOK

LEMMA ReturnType ==
  ASSUME TypeInv, NEW p \in Listeners, NEW b \in BOOLEAN, Return(p, b),
         cur[p] \in Containers
  PROVE  /\ CallTyped(p)
         /\ cached' \in [Listeners -> SUBSET Containers]
         /\ acc' \in [Listeners -> [Containers -> Nat]]
         /\ pc' = [pc EXCEPT ![p] = "idle"]
<1> USE DEF Return, Goto, TypeInv, TypeOK
<1>1. cached' \in [Listeners -> SUBSET Containers]
  <2>1. CASE b
    <3>1. cached' = [cached EXCEPT ![p] = cached[p] \cup {cur[p]}] BY <2>1
    <3> QED BY <3>1
  <2>2. CASE ~b
    <3>1. cached' = [cached EXCEPT ![p] = cached[p] \ {cur[p]}] BY <2>2
    <3> QED BY <3>1
  <2> QED BY <2>1, <2>2
<1>2. acc' \in [Listeners -> [Containers -> Nat]]
  OBVIOUS
<1> QED BY <1>1, <1>2, ForgetCallType

LEMMA RaiseType ==
  ASSUME TypeInv, NEW p \in Listeners, Raise(p)
  PROVE  /\ CallTyped(p)
         /\ infoLock' \in [Listeners -> LockModes]
         /\ pc' = [pc EXCEPT ![p] = "ending"]
         /\ cached' = cached /\ acc' = acc
BY ForgetCallType DEF Raise, Goto, LockInfo, LockModes, reqVars, TypeInv, TypeOK

LEMMA CloseType ==
  ASSUME TypeInv, NEW p \in Listeners, NEW d \in FDs, Close(p, d)
  PROVE  /\ fdt' \in [Listeners -> [FDs -> Inodes \cup {None}]]
         /\ flock' \in [Listeners -> [Inodes -> LockModes]]
BY DEF Close, LockModes, TypeInv, TypeOK

LEMMA TypeBoot ==
  ASSUME NEW p \in Listeners, TypeInv, Boot(p) PROVE TypeInv'
<1> USE CacheAssumption DEF TypeInv, TypeOK, CurOK, InCall, LockModes, Labels, Entry,
       Goto, LockInfo, Target, fsVars, infoVars, fdVars, callVars, reqVars, purgeVars
<1>1. CASE BootCreate(p) BY <1>1 DEF BootCreate
<1>2. CASE BootOpen(p) BY <1>2 DEF BootOpen
<1>3. CASE BootLock(p) BY <1>3 DEF BootLock
<1>4. CASE BootWrite(p) BY <1>4 DEF BootWrite
<1> QED BY <1>1, <1>2, <1>3, <1>4 DEF Boot

LEMMA TypeGetReadLock ==
  ASSUME NEW p \in Listeners, TypeInv, GetReadLock(p) PROVE TypeInv'
<1> USE CacheAssumption DEF TypeInv, TypeOK, CurOK, InCall, LockModes, Labels, Entry,
       Goto, LockInfo, Target, fsVars, infoVars, fdVars, callVars, reqVars, purgeVars
<1>1. CASE RdCache(p) BY <1>1 DEF RdCache
<1>2. CASE RdOpen(p)
  <2>1. Target(p) \in Files /\ dir[Target(p)] \in Inodes
    BY <1>2 DEF RdOpen
  <2>2. PICK d \in FDs : /\ fdt' = [fdt EXCEPT ![p][d] = dir[Target(p)]]
                         /\ fd' = [fd EXCEPT ![p] = d]
    BY <1>2 DEF RdOpen
  <2>3. fdt' \in [Listeners -> [FDs -> Inodes \cup {None}]] /\ fd' \in [Listeners -> FDs \cup {None}]
    BY <2>1, <2>2
  <2> QED BY <1>2, <2>3 DEF RdOpen
<1>3. CASE RdMiss(p) BY <1>3 DEF RdMiss
<1>4. CASE RdLock(p)
  <2>1. flock' \in [Listeners -> [Inodes -> LockModes]]
    BY <1>4 DEF RdLock
  <2>2. dlocks' \in [Listeners -> [Files -> FDs \cup {None}]]
    BY <1>4, RecordType DEF RdLock
  <2> QED BY <1>4, <2>1, <2>2 DEF RdLock
<1>5. CASE RdUnlock(p)
  <2>1. CASE Return(p, TRUE) \/ Return(p, FALSE)
    <3>1. /\ UNCHANGED <<fsVars, infoVars, fdVars>>
          /\ infoLock' = [infoLock EXCEPT ![p] = "none"]
          /\ cur[p] \in Containers
      BY <1>5 DEF RdUnlock
    <3>2. /\ CallTyped(p)
          /\ cached' \in [Listeners -> SUBSET Containers]
          /\ acc' \in [Listeners -> [Containers -> Nat]]
          /\ pc' = [pc EXCEPT ![p] = "idle"]
      BY <2>1, <3>1, ReturnType
    <3> QED BY <3>1, <3>2 DEF CallTyped
  <2>2. CASE Goto(p, "crCache") /\ UNCHANGED <<callVars, reqVars, purgeVars>>
    BY <1>5, <2>2 DEF RdUnlock
  <2> QED BY <1>5, <2>1, <2>2 DEF RdUnlock
<1> QED BY <1>1, <1>2, <1>3, <1>4, <1>5 DEF GetReadLock

LEMMA TypeCreateAndLock ==
  ASSUME NEW p \in Listeners, TypeInv, CreateAndLock(p) PROVE TypeInv'
<1> USE CacheAssumption DEF TypeInv, TypeOK, CurOK, InCall, LockModes, Labels, Entry,
       Goto, LockInfo, Target, fsVars, infoVars, fdVars, callVars, reqVars, purgeVars
<1>1. CASE CrCache(p) BY <1>1 DEF CrCache
<1>2. CASE CrOpen(p) BY <1>2 DEF CrOpen, FreeInodes
<1>3. CASE CrExists(p) BY <1>3 DEF CrExists
<1>4. CASE CrLock(p)
  <2>1. flock' \in [Listeners -> [Inodes -> LockModes]]
    BY <1>4 DEF CrLock
  <2>2. dlocks' \in [Listeners -> [Files -> FDs \cup {None}]]
    BY <1>4, RecordType DEF CrLock
  <2> QED BY <1>4, <2>1, <2>2 DEF CrLock
<1>5. CASE CrUnlock(p) BY <1>5 DEF CrUnlock
<1> QED BY <1>1, <1>2, <1>3, <1>4, <1>5 DEF CreateAndLock

LEMMA TypeFill ==
  ASSUME NEW p \in Listeners, TypeInv, Fill(p) PROVE TypeInv'
<1> USE CacheAssumption DEF TypeInv, TypeOK, CurOK, InCall, LockModes, Labels, Entry,
       Goto, LockInfo, Target, fsVars, infoVars, fdVars, callVars, reqVars, purgeVars
<1>1. CASE DecompressSome(p)
  <2>1. PICK i : written' = [written EXCEPT ![i] = written[i] + 1]
    BY <1>1 DEF DecompressSome
  <2>2. written' \in [Inodes -> Nat]
    <3>1. CASE i \in Inodes BY <2>1, <3>1
    <3>2. CASE i \notin Inodes BY <2>1, <3>2
    <3> QED BY <3>1, <3>2
  <2> QED BY <1>1, <2>2 DEF DecompressSome
<1>2. CASE DecompressEnd(p) BY <1>2 DEF DecompressEnd
<1>3. CASE DecompressFail(p) BY <1>3 DEF DecompressFail, Raise, ForgetCall
<1>4. CASE ToShared(p) BY <1>4 DEF ToShared, Ino
<1>5. CASE UpdLock(p) BY <1>5 DEF UpdLock
<1>6. CASE UpdInfo(p)
  <2>1. written[dir[Target(p)]] \in Nat
    BY <1>6 DEF UpdInfo
  <2>2. infoSize' \in Int BY <1>6, <2>1 DEF UpdInfo
  <2>3. CASE Goto(p, "purgeLock") /\ UNCHANGED <<callVars, reqVars, purgeVars>>
    BY <1>6, <2>2, <2>3 DEF UpdInfo
  <2>4. CASE Return(p, TRUE)
    <3>1. UNCHANGED <<fsVars, infoFile, fdVars>> /\ infoLock' = [infoLock EXCEPT ![p] = "none"]
          /\ cur[p] \in Containers
      BY <1>6 DEF UpdInfo
    <3>2. /\ CallTyped(p)
          /\ cached' \in [Listeners -> SUBSET Containers]
          /\ acc' \in [Listeners -> [Containers -> Nat]]
          /\ pc' = [pc EXCEPT ![p] = "idle"]
      BY <2>4, <3>1, ReturnType
    <3> QED BY <2>2, <3>1, <3>2 DEF CallTyped
  <2> QED BY <1>6, <2>3, <2>4 DEF UpdInfo
<1>7. CASE UpdFail(p) BY <1>7 DEF UpdFail, Raise, ForgetCall
<1> QED BY <1>1, <1>2, <1>3, <1>4, <1>5, <1>6, <1>7 DEF Fill

LEMMA TypeUpdateAndPurge ==
  ASSUME NEW p \in Listeners, TypeInv, UpdateAndPurge(p) PROVE TypeInv'
<1> USE CacheAssumption DEF TypeInv, TypeOK, CurOK, InCall, LockModes, Labels, Entry,
       Goto, LockInfo, Target, fsVars, infoVars, fdVars, callVars, reqVars, purgeVars
<1>1. CASE PurgeLock(p) BY <1>1 DEF PurgeLock
<1>2. ASSUME NEW f \in Files, PurgeStat(p, f) PROVE TypeInv'
  <2>1. written[dir[f]] \in Nat BY <1>2 DEF PurgeStat
  <2>2. [file |-> f, size |-> written[dir[f]]] \in Entry BY <2>1
  <2>3. scan' \in [Listeners -> SUBSET Entry] BY <1>2, <2>2 DEF PurgeStat
  <2>4. computed' \in [Listeners -> Int] BY <1>2, <2>1 DEF PurgeStat
  <2> QED BY <1>2, <2>3, <2>4 DEF PurgeStat
<1>3. CASE PurgeScanned(p)
  <2>1. scan' = [scan EXCEPT ![p] = scan[p]] \/ scan' = [scan EXCEPT ![p] = {}]
    BY <1>3 DEF PurgeScanned
  <2>2. scan' \in [Listeners -> SUBSET Entry] BY <2>1
  <2> QED BY <1>3, <2>2 DEF PurgeScanned
<1>4. ASSUME NEW e \in scan[p], PurgeSkip(p, e) PROVE TypeInv'
  BY <1>4 DEF PurgeSkip, Purging
<1>5. ASSUME NEW e \in scan[p], PurgeInUse(p, e) PROVE TypeInv'
  BY <1>5 DEF PurgeInUse, Purging
<1>6. ASSUME NEW e \in scan[p], PurgeRemove(p, e) PROVE TypeInv'
  <2>1. e \in Entry OBVIOUS
  <2>2. scan' \in [Listeners -> SUBSET Entry] BY <1>6 DEF PurgeRemove, Purging
  <2>3. computed' \in [Listeners -> Int] BY <1>6, <2>1 DEF PurgeRemove
  <2>4. dir' \in [Files -> Inodes \cup {None}] BY <1>6, <2>1 DEF PurgeRemove
  <2>5. flock' \in [Listeners -> [Inodes -> LockModes]] BY <1>6 DEF PurgeRemove
  <2> QED BY <1>6, <2>2, <2>3, <2>4, <2>5 DEF PurgeRemove
<1>7. CASE PurgeEnd(p)
  <2>1. /\ UNCHANGED <<fsVars, fdVars>>
        /\ infoFile' = "sized" /\ infoSize' = computed[p]
        /\ infoLock' = [infoLock EXCEPT ![p] = "none"]
        /\ cur[p] \in Containers
    BY <1>7 DEF PurgeEnd
  <2>2. /\ CallTyped(p)
        /\ cached' \in [Listeners -> SUBSET Containers]
        /\ acc' \in [Listeners -> [Containers -> Nat]]
        /\ pc' = [pc EXCEPT ![p] = "idle"]
    BY <1>7, <2>1, ReturnType DEF PurgeEnd
  <2> QED BY <2>1, <2>2 DEF CallTyped
<1> QED BY <1>1, <1>2, <1>3, <1>4, <1>5, <1>6, <1>7 DEF UpdateAndPurge

LEMMA TypeFailures ==
  ASSUME NEW p \in Listeners, TypeInv, OpenFails(p) \/ LockFails(p) PROVE TypeInv'
<1> USE CacheAssumption DEF TypeInv, TypeOK, CurOK, InCall, LockModes, Labels, Entry,
       fsVars, infoVars, fdVars
<1>1. Raise(p) BY DEF OpenFails, LockFails
<1>2. UNCHANGED <<fsVars, infoVars, dlocks>> BY DEF OpenFails, LockFails
<1>3. /\ fdt' \in [Listeners -> [FDs -> Inodes \cup {None}]]
      /\ flock' \in [Listeners -> [Inodes -> LockModes]]
  <2>1. CASE UNCHANGED <<fdt, flock>> BY <2>1
  <2>2. CASE Close(p, fd[p])
    <3>1. PICK i : /\ fdt' = [fdt EXCEPT ![p][fd[p]] = None]
                   /\ flock' = [flock EXCEPT ![p][i] = "none"]
      BY <2>2 DEF Close
    <3> QED BY <3>1
  <2> QED BY <2>1, <2>2 DEF OpenFails, LockFails
<1>4. /\ CallTyped(p)
      /\ infoLock' \in [Listeners -> LockModes]
      /\ pc' = [pc EXCEPT ![p] = "ending"]
      /\ cached' = cached /\ acc' = acc
  BY <1>1, RaiseType
<1> QED BY <1>2, <1>3, <1>4 DEF CallTyped

LEMMA TypeRequest ==
  ASSUME NEW p \in Listeners, TypeInv,
         \/ \E c \in Containers : Access(p, c) \/ Release(p, c) \/ ReleaseUnrecorded(p, c)
         \/ EndRequest(p) \/ RequestDone(p) \/ Die(p)
  PROVE  TypeInv'
<1> USE CacheAssumption DEF TypeInv, TypeOK, CurOK, InCall, LockModes, Labels, Entry,
       Goto, fsVars, infoVars, fdVars, callVars, reqVars, purgeVars
<1>1. ASSUME NEW c \in Containers, Access(p, c) PROVE TypeInv'
  BY <1>1 DEF Access
<1>2. ASSUME NEW c \in Containers, Release(p, c) PROVE TypeInv'
  <2>1. RealFile[c] \in Files /\ dlocks[p][RealFile[c]] \in FDs
    BY <1>2 DEF Release
  <2>2. /\ fdt' \in [Listeners -> [FDs -> Inodes \cup {None}]]
        /\ flock' \in [Listeners -> [Inodes -> LockModes]]
    BY <1>2, <2>1, CloseType DEF Release
  <2>3. dlocks' \in [Listeners -> [Files -> FDs \cup {None}]] BY <1>2, <2>1 DEF Release
  <2>4. cached' \in [Listeners -> SUBSET Containers] BY <1>2 DEF Release
  <2> QED BY <1>2, <2>2, <2>3, <2>4 DEF Release
<1>3. ASSUME NEW c \in Containers, ReleaseUnrecorded(p, c) PROVE TypeInv'
  BY <1>3 DEF ReleaseUnrecorded
<1>4. CASE EndRequest(p) BY <1>4 DEF EndRequest
<1>5. CASE RequestDone(p) BY <1>5 DEF RequestDone
<1>6. CASE Die(p)
  <2>1. CallTyped(p) BY <1>6, ForgetCallType DEF Die
  <2> QED BY <1>6, <2>1 DEF Die, CallTyped
<1> QED BY <1>1, <1>2, <1>3, <1>4, <1>5, <1>6

LEMMA TypeNext == TypeInv /\ [Next]_vars => TypeInv'
<1> SUFFICES ASSUME TypeInv, [Next]_vars PROVE TypeInv' OBVIOUS
<1>1. CASE UNCHANGED vars
  BY <1>1 DEF vars, TypeInv, TypeOK, CurOK
<1>2. ASSUME NEW p \in Listeners, Step(p) \/ Environment(p) PROVE TypeInv'
  BY <1>2, TypeBoot, TypeGetReadLock, TypeCreateAndLock, TypeFill, TypeUpdateAndPurge,
     TypeFailures, TypeRequest DEF Step, Environment
<1> QED BY <1>1, <1>2 DEF Next

\* Every variable of the cache keeps its type, for every number of listeners,
\* files and descriptors: the descriptor tables, d_locks and the purge list of
\* BESCache3.cc never hold anything else.
THEOREM TypeCorrect == Spec => []TypeOK
<1>1. Spec => []TypeInv BY TypeInit, TypeNext, PTL DEF Spec
<1>2. TypeInv => TypeOK BY DEF TypeInv
<1> QED BY <1>1, <1>2, PTL
-----------------------------------------------------------------------------
(* Files in use are whole.  The invariant ties the place of each process   *)
(* to the locks it holds and to what it knows of its file.                 *)

\* Where a process holds the cache lock, and how.
Writing == {"bootWrite", "crOpen", "crLock", "crUnlock", "updInfo", "purgeScan", "purge"}
Reading == {"rdOpen", "rdLock", "rdUnlock"}

\* Where it has made its file and fills it, and where it has filled it.
Filling == {"crUnlock", "decompress", "toShared"}
Filled  == {"updLock", "updInfo", "purgeLock", "purgeScan", "purge"}

\* At the end of get_read_lock() fd tells a hit from a miss.
Hit(p)  == pc[p] = "rdUnlock" /\ fd[p] # None
Miss(p) == pc[p] = "rdUnlock" /\ fd[p] = None

HasFile(p) == pc[p] \in {"rdLock", "crLock"} \cup Filling \cup Filled \/ Hit(p)

\* The cache lock is held exactly there.
KnowsLock(p) ==
  /\ infoLock[p] = "write" <=> pc[p] \in Writing
  /\ infoLock[p] = "read" <=> pc[p] \in Reading

\* The descriptor of the call leads to the file in the directory.
KnowsFile(p) ==
  IF HasFile(p)
  THEN fd[p] \in FDs /\ dir[Target(p)] \in Inodes /\ Ino(p) = dir[Target(p)]
  ELSE fd[p] = None

\* What a process may rely on while it has its file.
KnowsCall(p) ==
  /\ pc[p] \in Filling => flock[p][Ino(p)] = "write"
  /\ pc[p] \in Filled \/ Hit(p) => flock[p][Ino(p)] = "read"
  /\ pc[p] \in Filled \cup {"toShared"} \/ Hit(p) => Complete(Target(p))

\* A request names one container at most; a process that looks for a file a
\* second time, or makes it, has none.
KnowsRequest(p) ==
  /\ cached[p] \subseteq Requested(p)
  /\ pc[p] \in InCall => cached[p] \subseteq {cur[p]}
  /\ \/ attempt[p] = 2 \/ Miss(p)
     \/ pc[p] \in {"crCache", "crOpen", "crLock"} \cup Filling \cup Filled
     => cached[p] = {}

\* What a process may rely on between access() and end_request().
KnowsPins(p) ==
  pc[p] # "ending" =>
    \A c \in cached[p] :
      Complete(RealFile[c]) /\ flock[p][dir[RealFile[c]]] = "read"

Knows(p) ==
  KnowsLock(p) /\ KnowsFile(p) /\ KnowsCall(p) /\ KnowsRequest(p) /\ KnowsPins(p)

\* A writer of the cache is alone.
InfoLockInv ==
  \A p, q \in Listeners : p # q /\ infoLock[p] = "write" => infoLock[q] = "none"

\* A writer of a file is alone, and a lock needs an open descriptor.
FileLockInv ==
  \A p \in Listeners : \A i \in Inodes :
    /\ flock[p][i] = "write" => FileWritable(p, i)
    /\ flock[p][i] # "none" => \E d \in FDs : fdt[p][d] = i

DirInv == \A f, g \in Files : dir[f] # None /\ dir[f] = dir[g] => f = g

\* A file in the directory that is not whole is being filled.
PartInv ==
  \A f \in Files :
    \/ dir[f] = None
    \/ Complete(f)
    \/ \E p \in Listeners : pc[p] \in {"crLock", "crUnlock", "decompress"} /\ Target(p) = f

SafeInv ==
  /\ TypeInv /\ InfoLockInv /\ FileLockInv /\ DirInv /\ PartInv /\ CreateNeverBlocks
  /\ \A p \in Listeners : Knows(p)

\* The design without failures, and one container per request.
Undisturbed ==
  /\ CanFail = {} /\ CanCrash = {} /\ MaxContainers = 1
  /\ IsFiniteSet(Containers) /\ IsFiniteSet(Listeners)

LEMMA SafeInit == Init => SafeInv
<1> SUFFICES ASSUME Init PROVE SafeInv OBVIOUS
<1>1. TypeInv BY TypeInit
<1>2. ASSUME NEW p \in Listeners PROVE Knows(p)
  BY DEF Init, Knows, KnowsLock, KnowsFile, KnowsCall, KnowsRequest, KnowsPins, HasFile, Hit,
     Miss, Writing, Reading, Filling, Filled, InCall, Labels
<1>3. InfoLockInv /\ FileLockInv /\ DirInv /\ PartInv /\ CreateNeverBlocks
  BY DEF Init, InfoLockInv, FileLockInv, DirInv, PartInv, CreateNeverBlocks
<1> QED BY <1>1, <1>2, <1>3 DEF SafeInv

\* What a step of another process leaves alone of q.
Still(q) ==
  /\ pc'[q] = pc[q] /\ cur'[q] = cur[q] /\ fd'[q] = fd[q] /\ attempt'[q] = attempt[q]
  /\ cached'[q] = cached[q] /\ acc'[q] = acc[q] /\ infoLock'[q] = infoLock[q]
  /\ fdt'[q] = fdt[q] /\ flock'[q] = flock[q]

\* q has a lock on the file f, or is about to take one on what it has opened.
Holds(q, f) ==
  \/ flock[q][dir[f]] # "none"
  \/ pc[q] \in {"rdLock", "crLock"} /\ Target(q) = f

\* A step that keeps what q holds keeps what q knows.
LEMMA OtherKnows ==
  ASSUME SafeInv, NEW q \in Listeners, Still(q),
         \A f \in Files : dir[f] # None /\ Holds(q, f) =>
            dir'[f] = dir[f] /\ (Complete(f) => Complete(f)')
  PROVE  Knows(q)'
<1> USE CacheAssumption DEF Still
<1>1. Knows(q) /\ TypeOK /\ CurOK BY DEF SafeInv, TypeInv
<1>2. (HasFile(q) <=> HasFile(q)') /\ (Hit(q) <=> Hit(q)') /\ (Miss(q) <=> Miss(q)')
      /\ Target(q)' = Target(q) /\ Ino(q)' = Ino(q) /\ Requested(q)' = Requested(q)
  BY DEF HasFile, Hit, Miss, Target, Ino, Requested
<1>3. HasFile(q) => Target(q) \in Files /\ dir[Target(q)] # None /\ Holds(q, Target(q))
  <2> SUFFICES ASSUME HasFile(q) PROVE Target(q) \in Files /\ dir[Target(q)] # None /\ Holds(q, Target(q))
    OBVIOUS
  <2>1. pc[q] \in InCall BY DEF HasFile, Hit, Filling, Filled, InCall, Labels
  <2>2. Target(q) \in Files BY <1>1, <2>1 DEF CurOK, Target
  <2>3. dir[Target(q)] \in Inodes /\ Ino(q) = dir[Target(q)] BY <1>1 DEF Knows, KnowsFile
  <2>4. Holds(q, Target(q)) BY <1>1, <2>3 DEF Knows, KnowsCall, Holds, HasFile
  <2> QED BY <2>2, <2>3, <2>4
<1>4. KnowsLock(q)' BY <1>1 DEF Knows, KnowsLock
<1>5. KnowsFile(q)'
  BY <1>1, <1>2, <1>3 DEF Knows, KnowsFile
<1>6. KnowsCall(q)'
  <2>1. CASE HasFile(q)
    <3>1. Complete(Target(q)) => Complete(Target(q))' BY <1>2, <1>3, <2>1 DEF Complete
    <3> QED BY <1>1, <1>2, <2>1, <3>1 DEF Knows, KnowsCall
  <2>2. CASE ~ HasFile(q)
    BY <1>2, <2>2 DEF KnowsCall, HasFile, Filling, Filled
  <2> QED BY <2>1, <2>2
<1>7. KnowsRequest(q)' BY <1>1, <1>2 DEF Knows, KnowsRequest
<1>8. KnowsPins(q)'
  <2> SUFFICES ASSUME pc[q] # "ending", NEW c \in cached[q]
               PROVE  Complete(RealFile[c])' /\ flock[q][dir'[RealFile[c]]] = "read"
    BY DEF KnowsPins
  <2>1. Complete(RealFile[c]) /\ flock[q][dir[RealFile[c]]] = "read"
    BY <1>1 DEF Knows, KnowsPins
  <2>2. RealFile[c] \in Files /\ dir[RealFile[c]] # None
    BY <1>1, <2>1 DEF TypeOK, Complete
  <2>3. Holds(q, RealFile[c]) BY <2>1 DEF Holds
  <2> QED BY <2>1, <2>2, <2>3
<1> QED BY <1>4, <1>5, <1>6, <1>7, <1>8 DEF Knows

\* How a step of p may change its lock on the cache.
InfoMove(p) ==
  /\ \A q \in Listeners \ {p} : infoLock'[q] = infoLock[q]
  /\ \/ infoLock'[p] \in {"none", infoLock[p]}
     \/ infoLock'[p] = "write" /\ InfoWritable(p)
     \/ infoLock'[p] = "read" /\ InfoReadable(p)

LEMMA InfoLockKept ==
  ASSUME SafeInv, TypeInv', NEW p \in Listeners, InfoMove(p)
  PROVE  InfoLockInv'
<1> SUFFICES ASSUME NEW q \in Listeners, NEW r \in Listeners, q # r, infoLock'[q] = "write"
             PROVE  infoLock'[r] = "none"
  BY DEF InfoLockInv
<1>1. \A s \in Listeners \ {q} : infoLock[q] = "write" => infoLock[s] = "none"
  BY DEF SafeInv, InfoLockInv
<1>2. CASE q = p BY <1>1, <1>2 DEF InfoMove, InfoWritable
<1>3. CASE q # p
  <2>1. infoLock[q] = "write" BY <1>3 DEF InfoMove
  <2>2. infoLock[r] = "none" BY <1>1, <2>1
  <2>3. ~ InfoWritable(p) /\ ~ InfoReadable(p)
    BY <1>3, <2>1 DEF InfoWritable, InfoReadable
  <2> QED BY <2>2, <2>3 DEF InfoMove
<1> QED BY <1>2, <1>3

\* Steps that leave files, descriptors and their locks alone.
Quiet(p) ==
  /\ UNCHANGED <<dir, written, fdt, flock>>
  /\ \A q \in Listeners \ {p} : Still(q)
  /\ InfoMove(p)
  /\ pc'[p] # "crLock"
  /\ pc[p] \in {"crLock", "crUnlock", "decompress"} =>
       \/ Complete(Target(p))
       \/ pc'[p] \in {"crUnlock", "decompress"} /\ cur'[p] = cur[p]

LEMMA QuietSafe ==
  ASSUME SafeInv, TypeInv', NEW p \in Listeners, Quiet(p), Knows(p)'
  PROVE  SafeInv'
<1>1. ASSUME NEW q \in Listeners PROVE Knows(q)'
  <2>1. CASE q = p BY <2>1
  <2>2. CASE q # p
    <3>1. Still(q) BY <2>2 DEF Quiet
    <3>2. \A f \in Files : dir'[f] = dir[f] /\ (Complete(f) => Complete(f)')
      BY DEF Quiet, Complete
    <3> QED BY <3>1, <3>2, OtherKnows
  <2> QED BY <2>1, <2>2
<1>2. InfoLockInv' BY InfoLockKept DEF Quiet
<1>3. FileLockInv' BY DEF SafeInv, Quiet, FileLockInv, FileWritable
<1>4. DirInv' BY DEF SafeInv, Quiet, DirInv
<1>5. PartInv'
  <2> SUFFICES ASSUME NEW f \in Files, dir[f] # None, ~ Complete(f)
               PROVE  \E q \in Listeners : pc'[q] \in {"crLock", "crUnlock", "decompress"} /\ Target(q)' = f
    BY DEF Quiet, PartInv, Complete
  <2>1. PICK q \in Listeners : pc[q] \in {"crLock", "crUnlock", "decompress"} /\ Target(q) = f
    BY DEF SafeInv, PartInv
  <2>2. CASE q = p BY <2>1, <2>2 DEF Quiet, Target
  <2>3. CASE q # p BY <2>1, <2>3 DEF Quiet, Still, Target
  <2> QED BY <2>2, <2>3
<1>6. CreateNeverBlocks'
  <2> SUFFICES ASSUME NEW q \in Listeners, pc'[q] = "crLock" PROVE FileWritable(q, Ino(q))'
    BY DEF CreateNeverBlocks
  <2>1. q # p /\ Still(q) BY DEF Quiet
  <2>2. FileWritable(q, Ino(q)) BY <2>1 DEF SafeInv, CreateNeverBlocks, Still
  <2> QED BY <2>1, <2>2 DEF FileWritable, Ino, Quiet, Still
<1> QED BY <1>1, <1>2, <1>3, <1>4, <1>5, <1>6 DEF SafeInv

-----------------------------------------------------------------------------
(* The steps of a call. *)

LEMMA SafeBoot ==
  ASSUME SafeInv, TypeInv', NEW p \in Listeners, Boot(p) PROVE SafeInv'
<1> USE DEF SafeInv, TypeInv, TypeOK, fsVars, infoVars, fdVars, callVars, reqVars, purgeVars
<1>1. UNCHANGED <<dir, written, fdt, flock, cur, fd, attempt, cached, acc>>
  BY DEF Boot, BootCreate, BootOpen, BootLock, BootWrite
<1>2. /\ InfoMove(p)
      /\ pc[p] \in {"boot", "bootLock", "bootWrite"}
      /\ pc'[p] \in {"bootLock", "bootWrite", "idle"}
      /\ \A q \in Listeners \ {p} : pc'[q] = pc[q]
  BY DEF Boot, BootCreate, BootOpen, BootLock, BootWrite, InfoMove, Goto, LockInfo
<1>3. Quiet(p) BY <1>1, <1>2 DEF Quiet, Still, InfoMove
<1>4. KnowsLock(p)'
  BY <1>2 DEF Boot, BootCreate, BootOpen, BootLock, BootWrite, Goto, LockInfo, Knows, KnowsLock,
     Writing, Reading, LockModes
<1>5. ~ HasFile(p) /\ ~ HasFile(p)' /\ ~ Miss(p)' /\ ~ Hit(p)' /\ pc'[p] \notin InCall
  BY <1>2 DEF HasFile, Hit, Miss, Filling, Filled, InCall, Labels
<1>6. Knows(p) OBVIOUS
<1>7. KnowsFile(p)' BY <1>1, <1>5, <1>6 DEF Knows, KnowsFile
<1>8. KnowsCall(p)' BY <1>5 DEF KnowsCall, HasFile, Filling
<1>9. KnowsRequest(p)'
  BY <1>1, <1>2, <1>5, <1>6 DEF Knows, KnowsRequest, Requested, Filling, Filled, InCall
<1>10. KnowsPins(p)' BY <1>1, <1>2, <1>6 DEF Knows, KnowsPins, Complete
<1> QED BY <1>3, <1>4, <1>7, <1>8, <1>9, <1>10, QuietSafe DEF Knows

\* A step of p that changes nothing but its place, its lock on the cache and
\* the attempt.
Moves(p) ==
  /\ UNCHANGED <<cur, fd, cached, acc>>
  /\ \A q \in Listeners \ {p} : pc'[q] = pc[q] /\ attempt'[q] = attempt[q]

LEMMA MoveSafe ==
  ASSUME SafeInv, TypeInv', NEW p \in Listeners, Quiet(p), Moves(p), KnowsLock(p)',
         HasFile(p)' <=> HasFile(p),
         pc'[p] \in Filling => flock[p][Ino(p)] = "write",
         pc'[p] \in Filled \/ Hit(p)' => flock[p][Ino(p)] = "read",
         pc'[p] \in Filled \cup {"toShared"} \/ Hit(p)' => Complete(Target(p)),
         pc'[p] \in InCall => cached[p] \subseteq {cur[p]},
         \/ attempt'[p] = 2 \/ Miss(p)'
         \/ pc'[p] \in {"crCache", "crOpen", "crLock"} \cup Filling \cup Filled
         => cached[p] = {},
         pc[p] = "ending" => pc'[p] = "ending"
  PROVE  SafeInv'
<1>1. Knows(p) BY DEF SafeInv
<1>2. UNCHANGED <<dir, written, fdt, flock, cur, fd, cached, acc>> BY DEF Quiet, Moves
<1>3. Target(p)' = Target(p) /\ Ino(p)' = Ino(p) /\ Requested(p)' = Requested(p)
      /\ Complete(Target(p))' = Complete(Target(p))
  BY <1>2 DEF Target, Ino, Requested, Complete
<1>4. KnowsFile(p)' BY <1>1, <1>2, <1>3 DEF Knows, KnowsFile
<1>5. KnowsCall(p)' BY <1>2, <1>3 DEF KnowsCall
<1>6. KnowsRequest(p)' BY <1>1, <1>2, <1>3 DEF Knows, KnowsRequest
<1>7. KnowsPins(p)' BY <1>1, <1>2 DEF Knows, KnowsPins, Complete
<1> QED BY <1>4, <1>5, <1>6, <1>7, QuietSafe DEF Knows

LEMMA RdCacheSafe ==
  ASSUME SafeInv, TypeInv', NEW p \in Listeners, RdCache(p) PROVE SafeInv'
<1> USE DEF RdCache, Goto, LockInfo, fsVars, infoVars, fdVars, callVars, reqVars, purgeVars
<1>1. TypeOK /\ Knows(p) BY DEF SafeInv, TypeInv
<1>2. pc'[p] = "rdOpen" /\ infoLock'[p] = "read" BY <1>1 DEF TypeOK
<1>3. Quiet(p) /\ Moves(p) BY <1>1, <1>2 DEF TypeOK, Quiet, Moves, Still, InfoMove
<1>4. KnowsLock(p)' BY <1>2 DEF KnowsLock, Writing, Reading
<1>5. ~ HasFile(p) /\ ~ HasFile(p)' BY <1>2 DEF HasFile, Hit, Filling, Filled
<1>6. pc'[p] \notin Filling \cup Filled /\ ~ Hit(p)' /\ ~ Miss(p)' /\ pc[p] \in InCall
  BY <1>2 DEF Filling, Filled, Hit, Miss, InCall, Labels
<1>7. cached[p] \subseteq {cur[p]} /\ (attempt'[p] = 2 => cached[p] = {})
  BY <1>1, <1>6 DEF Knows, KnowsRequest
<1> QED BY <1>2, <1>3, <1>4, <1>5, <1>6, <1>7, MoveSafe

LEMMA RdMissSafe ==
  ASSUME SafeInv, TypeInv', NEW p \in Listeners, RdMiss(p) PROVE SafeInv'
<1> USE DEF RdMiss, Goto, LockInfo, fsVars, infoVars, fdVars, callVars, reqVars, purgeVars
<1>1. TypeOK /\ Knows(p) BY DEF SafeInv, TypeInv
<1>2. pc[p] = "rdOpen" /\ pc'[p] = "rdUnlock" /\ infoLock' = infoLock BY <1>1 DEF TypeOK
<1>3. Quiet(p) /\ Moves(p) BY <1>1, <1>2 DEF TypeOK, Quiet, Moves, Still, InfoMove
<1>4. KnowsLock(p)' BY <1>1, <1>2 DEF Knows, KnowsLock, Writing, Reading
<1>5. fd[p] = None /\ ~ HasFile(p) /\ ~ HasFile(p)'
  BY <1>1, <1>2 DEF Knows, KnowsFile, HasFile, Hit, Filling, Filled
<1>6. pc'[p] \notin Filling \cup Filled /\ ~ Hit(p)' /\ pc[p] \in InCall
  BY <1>2, <1>5 DEF Filling, Filled, Hit, InCall, Labels
<1>7. cached[p] \subseteq {cur[p]} BY <1>1, <1>6 DEF Knows, KnowsRequest
\* A file that the request already has could not be missing.
<1>8. cached[p] = {}
  <2> SUFFICES ASSUME cur[p] \in cached[p] PROVE FALSE BY <1>7
  <2>1. Complete(Target(p)) BY <1>1, <1>2 DEF Knows, KnowsPins, Target
  <2> QED BY <2>1 DEF Complete
<1> QED BY <1>2, <1>3, <1>4, <1>5, <1>6, <1>7, <1>8, MoveSafe

LEMMA RdUnlockMissSafe ==
  ASSUME SafeInv, TypeInv', NEW p \in Listeners,
         RdUnlock(p), fd[p] = None, attempt[p] = 1 PROVE SafeInv'
<1> USE DEF RdUnlock, Goto, LockInfo, fsVars, infoVars, fdVars, callVars, reqVars, purgeVars
<1>1. TypeOK /\ Knows(p) BY DEF SafeInv, TypeInv
<1>2. pc[p] = "rdUnlock" /\ pc'[p] = "crCache" /\ infoLock'[p] = "none" BY <1>1 DEF TypeOK
<1>3. Quiet(p) /\ Moves(p) BY <1>1, <1>2 DEF TypeOK, Quiet, Moves, Still, InfoMove
<1>4. KnowsLock(p)' BY <1>1, <1>2 DEF Knows, KnowsLock, Writing, Reading
<1>5. ~ HasFile(p) /\ ~ HasFile(p)' BY <1>2 DEF HasFile, Hit, Filling, Filled
<1>6. pc'[p] \notin Filling \cup Filled /\ ~ Hit(p)' BY <1>2 DEF Filling, Filled, Hit
<1>7. cached[p] = {} BY <1>1, <1>2 DEF Knows, KnowsRequest, Miss
<1> QED BY <1>2, <1>3, <1>4, <1>5, <1>6, <1>7, MoveSafe

LEMMA CrCacheSafe ==
  ASSUME SafeInv, TypeInv', NEW p \in Listeners, CrCache(p) PROVE SafeInv'
<1> USE DEF CrCache, Goto, LockInfo, fsVars, infoVars, fdVars, callVars, reqVars, purgeVars
<1>1. TypeOK /\ Knows(p) BY DEF SafeInv, TypeInv
<1>2. pc[p] = "crCache" /\ pc'[p] = "crOpen" /\ infoLock'[p] = "write" BY <1>1 DEF TypeOK
<1>3. cached[p] = {} /\ ~ Hit(p)' BY <1>1, <1>2 DEF Knows, KnowsRequest, Filling, Filled, Hit
<1>4. KnowsLock(p)' BY <1>1, <1>2 DEF Knows, KnowsLock, Writing, Reading
<1>5. ~ HasFile(p) /\ ~ HasFile(p)' BY <1>2 DEF HasFile, Hit, Filling, Filled
<1>7. pc'[p] \notin Filling \cup Filled BY <1>2 DEF Filling, Filled
<1>8. Quiet(p) /\ Moves(p) BY <1>1, <1>2 DEF TypeOK, Quiet, Moves, Still, InfoMove
<1> QED BY <1>2, <1>3, <1>4, <1>5, <1>7, <1>8, MoveSafe

LEMMA CrExistsSafe ==
  ASSUME SafeInv, TypeInv', NEW p \in Listeners, CrExists(p) PROVE SafeInv'
<1> USE DEF CrExists, Goto, LockInfo, fsVars, infoVars, fdVars, callVars, reqVars, purgeVars
<1>1. TypeOK /\ Knows(p) BY DEF SafeInv, TypeInv
<1>2. pc[p] = "crOpen" /\ pc'[p] = "rdCache" /\ infoLock'[p] = "none" BY <1>1 DEF TypeOK
<1>3. cached[p] = {} /\ ~ Hit(p)' BY <1>1, <1>2 DEF Knows, KnowsRequest, Filling, Filled, Hit
<1>4. KnowsLock(p)' BY <1>1, <1>2 DEF Knows, KnowsLock, Writing, Reading
<1>5. ~ HasFile(p) /\ ~ HasFile(p)' BY <1>2 DEF HasFile, Hit, Filling, Filled
<1>7. pc'[p] \notin Filling \cup Filled BY <1>2 DEF Filling, Filled
<1>8. Quiet(p) /\ Moves(p) BY <1>1, <1>2 DEF TypeOK, Quiet, Moves, Still, InfoMove
<1> QED BY <1>2, <1>3, <1>4, <1>5, <1>7, <1>8, MoveSafe

LEMMA CrUnlockSafe ==
  ASSUME SafeInv, TypeInv', NEW p \in Listeners, CrUnlock(p) PROVE SafeInv'
<1> USE DEF CrUnlock, Goto, LockInfo, fsVars, infoVars, fdVars, callVars, reqVars, purgeVars
<1>1. TypeOK /\ Knows(p) BY DEF SafeInv, TypeInv
<1>2. pc[p] = "crUnlock" /\ pc'[p] = "decompress" /\ infoLock'[p] = "none" BY <1>1 DEF TypeOK
<1>3. cached[p] = {} /\ ~ Hit(p)' BY <1>1, <1>2 DEF Knows, KnowsRequest, Filling, Filled, Hit
<1>4. KnowsLock(p)' BY <1>1, <1>2 DEF Knows, KnowsLock, Writing, Reading
<1>5. HasFile(p) /\ HasFile(p)' BY <1>2 DEF HasFile, Filling, Filled
<1>6. fd[p] \in FDs /\ dir[Target(p)] \in Inodes /\ Ino(p) = dir[Target(p)]
  BY <1>1, <1>5 DEF Knows, KnowsFile
<1>7. /\ pc'[p] \in Filling => flock[p][Ino(p)] = "write"
      /\ pc'[p] \in Filled => flock[p][Ino(p)] = "read"
      /\ pc'[p] \in Filled \cup {"toShared"} => Complete(Target(p))
  BY <1>1, <1>2, <1>6 DEF Knows, KnowsCall, Filling, Filled, Complete
<1>8. Quiet(p) /\ Moves(p) BY <1>1, <1>2, <1>7 DEF TypeOK, Quiet, Moves, Still, InfoMove, Filled
<1> QED BY <1>2, <1>3, <1>4, <1>5, <1>7, <1>8, MoveSafe

LEMMA DecompressEndSafe ==
  ASSUME SafeInv, TypeInv', NEW p \in Listeners, DecompressEnd(p) PROVE SafeInv'
<1> USE DEF DecompressEnd, Goto, LockInfo, fsVars, infoVars, fdVars, callVars, reqVars, purgeVars
<1>1. TypeOK /\ Knows(p) BY DEF SafeInv, TypeInv
<1>2. pc[p] = "decompress" /\ pc'[p] = "toShared" /\ infoLock' = infoLock BY <1>1 DEF TypeOK
<1>3. cached[p] = {} /\ ~ Hit(p)' BY <1>1, <1>2 DEF Knows, KnowsRequest, Filling, Filled, Hit
<1>4. KnowsLock(p)' BY <1>1, <1>2 DEF Knows, KnowsLock, Writing, Reading
<1>5. HasFile(p) /\ HasFile(p)' BY <1>2 DEF HasFile, Filling, Filled
<1>6. fd[p] \in FDs /\ dir[Target(p)] \in Inodes /\ Ino(p) = dir[Target(p)]
  BY <1>1, <1>5 DEF Knows, KnowsFile
<1>7. /\ pc'[p] \in Filling => flock[p][Ino(p)] = "write"
      /\ pc'[p] \in Filled => flock[p][Ino(p)] = "read"
      /\ pc'[p] \in Filled \cup {"toShared"} => Complete(Target(p))
  BY <1>1, <1>2, <1>6, CacheAssumption DEF Knows, KnowsCall, Filling, Filled, Complete
<1>8. Quiet(p) /\ Moves(p) BY <1>1, <1>2, <1>7 DEF TypeOK, Quiet, Moves, Still, InfoMove, Filled
<1> QED BY <1>2, <1>3, <1>4, <1>5, <1>7, <1>8, MoveSafe

LEMMA UpdLockSafe ==
  ASSUME SafeInv, TypeInv', NEW p \in Listeners, UpdLock(p) PROVE SafeInv'
<1> USE DEF UpdLock, Goto, LockInfo, fsVars, infoVars, fdVars, callVars, reqVars, purgeVars
<1>1. TypeOK /\ Knows(p) BY DEF SafeInv, TypeInv
<1>2. pc[p] = "updLock" /\ pc'[p] = "updInfo" /\ infoLock'[p] = "write" BY <1>1 DEF TypeOK
<1>3. cached[p] = {} /\ ~ Hit(p)' BY <1>1, <1>2 DEF Knows, KnowsRequest, Filling, Filled, Hit
<1>4. KnowsLock(p)' BY <1>1, <1>2 DEF Knows, KnowsLock, Writing, Reading
<1>5. HasFile(p) /\ HasFile(p)' BY <1>2 DEF HasFile, Filling, Filled
<1>6. fd[p] \in FDs /\ dir[Target(p)] \in Inodes /\ Ino(p) = dir[Target(p)]
  BY <1>1, <1>5 DEF Knows, KnowsFile
<1>7. /\ pc'[p] \in Filling => flock[p][Ino(p)] = "write"
      /\ pc'[p] \in Filled => flock[p][Ino(p)] = "read"
      /\ pc'[p] \in Filled \cup {"toShared"} => Complete(Target(p))
  BY <1>1, <1>2, <1>6 DEF Knows, KnowsCall, Filling, Filled, Complete
<1>8. Quiet(p) /\ Moves(p) BY <1>1, <1>2, <1>7 DEF TypeOK, Quiet, Moves, Still, InfoMove, Filled
<1> QED BY <1>2, <1>3, <1>4, <1>5, <1>7, <1>8, MoveSafe

LEMMA UpdInfoPurgeSafe ==
  ASSUME SafeInv, TypeInv', NEW p \in Listeners,
         UpdInfo(p), Goto(p, "purgeLock"), UNCHANGED <<callVars, reqVars, purgeVars>>
  PROVE  SafeInv'
<1> USE DEF UpdInfo, Goto, LockInfo, fsVars, infoVars, fdVars, callVars, reqVars, purgeVars
<1>1. TypeOK /\ Knows(p) BY DEF SafeInv, TypeInv
<1>2. pc[p] = "updInfo" /\ pc'[p] = "purgeLock" /\ infoLock'[p] = "none" BY <1>1 DEF TypeOK
<1>3. cached[p] = {} /\ ~ Hit(p)' BY <1>1, <1>2 DEF Knows, KnowsRequest, Filling, Filled, Hit
<1>4. KnowsLock(p)' BY <1>1, <1>2 DEF Knows, KnowsLock, Writing, Reading
<1>5. HasFile(p) /\ HasFile(p)' BY <1>2 DEF HasFile, Filling, Filled
<1>6. fd[p] \in FDs /\ dir[Target(p)] \in Inodes /\ Ino(p) = dir[Target(p)]
  BY <1>1, <1>5 DEF Knows, KnowsFile
<1>7. /\ pc'[p] \in Filling => flock[p][Ino(p)] = "write"
      /\ pc'[p] \in Filled => flock[p][Ino(p)] = "read"
      /\ pc'[p] \in Filled \cup {"toShared"} => Complete(Target(p))
  BY <1>1, <1>2, <1>6 DEF Knows, KnowsCall, Filling, Filled, Complete
<1>8. Quiet(p) /\ Moves(p) BY <1>1, <1>2, <1>7 DEF TypeOK, Quiet, Moves, Still, InfoMove, Filled
<1> QED BY <1>2, <1>3, <1>4, <1>5, <1>7, <1>8, MoveSafe

LEMMA PurgeLockSafe ==
  ASSUME SafeInv, TypeInv', NEW p \in Listeners, PurgeLock(p) PROVE SafeInv'
<1> USE DEF PurgeLock, Goto, LockInfo, fsVars, infoVars, fdVars, callVars, reqVars, purgeVars
<1>1. TypeOK /\ Knows(p) BY DEF SafeInv, TypeInv
<1>2. pc[p] = "purgeLock" /\ pc'[p] = "purgeScan" /\ infoLock'[p] = "write" BY <1>1 DEF TypeOK
<1>3. cached[p] = {} /\ ~ Hit(p)' BY <1>1, <1>2 DEF Knows, KnowsRequest, Filling, Filled, Hit
<1>4. KnowsLock(p)' BY <1>1, <1>2 DEF Knows, KnowsLock, Writing, Reading
<1>5. HasFile(p) /\ HasFile(p)' BY <1>2 DEF HasFile, Filling, Filled
<1>6. fd[p] \in FDs /\ dir[Target(p)] \in Inodes /\ Ino(p) = dir[Target(p)]
  BY <1>1, <1>5 DEF Knows, KnowsFile
<1>7. /\ pc'[p] \in Filling => flock[p][Ino(p)] = "write"
      /\ pc'[p] \in Filled => flock[p][Ino(p)] = "read"
      /\ pc'[p] \in Filled \cup {"toShared"} => Complete(Target(p))
  BY <1>1, <1>2, <1>6 DEF Knows, KnowsCall, Filling, Filled, Complete
<1>8. Quiet(p) /\ Moves(p) BY <1>1, <1>2, <1>7 DEF TypeOK, Quiet, Moves, Still, InfoMove, Filled
<1> QED BY <1>2, <1>3, <1>4, <1>5, <1>7, <1>8, MoveSafe

LEMMA PurgeStatSafe ==
  ASSUME SafeInv, TypeInv', NEW p \in Listeners,
         NEW f \in Files, PurgeStat(p, f) PROVE SafeInv'
<1> USE DEF PurgeStat, Goto, LockInfo, fsVars, infoVars, fdVars, callVars, reqVars, purgeVars
<1>1. TypeOK /\ Knows(p) BY DEF SafeInv, TypeInv
<1>2. pc[p] = "purgeScan" /\ pc'[p] = "purgeScan" /\ infoLock' = infoLock BY <1>1 DEF TypeOK
<1>3. cached[p] = {} /\ ~ Hit(p)' BY <1>1, <1>2 DEF Knows, KnowsRequest, Filling, Filled, Hit
<1>4. KnowsLock(p)' BY <1>1, <1>2 DEF Knows, KnowsLock, Writing, Reading
<1>5. HasFile(p) /\ HasFile(p)' BY <1>2 DEF HasFile, Filling, Filled
<1>6. fd[p] \in FDs /\ dir[Target(p)] \in Inodes /\ Ino(p) = dir[Target(p)]
  BY <1>1, <1>5 DEF Knows, KnowsFile
<1>7. /\ pc'[p] \in Filling => flock[p][Ino(p)] = "write"
      /\ pc'[p] \in Filled => flock[p][Ino(p)] = "read"
      /\ pc'[p] \in Filled \cup {"toShared"} => Complete(Target(p))
  BY <1>1, <1>2, <1>6 DEF Knows, KnowsCall, Filling, Filled, Complete
<1>8. Quiet(p) /\ Moves(p) BY <1>1, <1>2, <1>7 DEF TypeOK, Quiet, Moves, Still, InfoMove, Filled
<1> QED BY <1>2, <1>3, <1>4, <1>5, <1>7, <1>8, MoveSafe

LEMMA PurgeScannedSafe ==
  ASSUME SafeInv, TypeInv', NEW p \in Listeners, PurgeScanned(p) PROVE SafeInv'
<1> USE DEF PurgeScanned, Goto, LockInfo, fsVars, infoVars, fdVars, callVars, reqVars, purgeVars
<1>1. TypeOK /\ Knows(p) BY DEF SafeInv, TypeInv
<1>2. pc[p] = "purgeScan" /\ pc'[p] = "purge" /\ infoLock' = infoLock BY <1>1 DEF TypeOK
<1>3. cached[p] = {} /\ ~ Hit(p)' BY <1>1, <1>2 DEF Knows, KnowsRequest, Filling, Filled, Hit
<1>4. KnowsLock(p)' BY <1>1, <1>2 DEF Knows, KnowsLock, Writing, Reading
<1>5. HasFile(p) /\ HasFile(p)' BY <1>2 DEF HasFile, Filling, Filled
<1>6. fd[p] \in FDs /\ dir[Target(p)] \in Inodes /\ Ino(p) = dir[Target(p)]
  BY <1>1, <1>5 DEF Knows, KnowsFile
<1>7. /\ pc'[p] \in Filling => flock[p][Ino(p)] = "write"
      /\ pc'[p] \in Filled => flock[p][Ino(p)] = "read"
      /\ pc'[p] \in Filled \cup {"toShared"} => Complete(Target(p))
  BY <1>1, <1>2, <1>6 DEF Knows, KnowsCall, Filling, Filled, Complete
<1>8. Quiet(p) /\ Moves(p) BY <1>1, <1>2, <1>7 DEF TypeOK, Quiet, Moves, Still, InfoMove, Filled
<1> QED BY <1>2, <1>3, <1>4, <1>5, <1>7, <1>8, MoveSafe

LEMMA PurgeSkipSafe ==
  ASSUME SafeInv, TypeInv', NEW p \in Listeners,
         NEW e \in scan[p], PurgeSkip(p, e) PROVE SafeInv'
<1> USE DEF PurgeSkip, Purging, Goto, LockInfo, fsVars, infoVars, fdVars, callVars, reqVars, purgeVars
<1>1. TypeOK /\ Knows(p) BY DEF SafeInv, TypeInv
<1>2. pc[p] = "purge" /\ pc'[p] = "purge" /\ infoLock' = infoLock BY <1>1 DEF TypeOK
<1>3. cached[p] = {} /\ ~ Hit(p)' BY <1>1, <1>2 DEF Knows, KnowsRequest, Filling, Filled, Hit
<1>4. KnowsLock(p)' BY <1>1, <1>2 DEF Knows, KnowsLock, Writing, Reading
<1>5. HasFile(p) /\ HasFile(p)' BY <1>2 DEF HasFile, Filling, Filled
<1>6. fd[p] \in FDs /\ dir[Target(p)] \in Inodes /\ Ino(p) = dir[Target(p)]
  BY <1>1, <1>5 DEF Knows, KnowsFile
<1>7. /\ pc'[p] \in Filling => flock[p][Ino(p)] = "write"
      /\ pc'[p] \in Filled => flock[p][Ino(p)] = "read"
      /\ pc'[p] \in Filled \cup {"toShared"} => Complete(Target(p))
  BY <1>1, <1>2, <1>6 DEF Knows, KnowsCall, Filling, Filled, Complete
<1>8. Quiet(p) /\ Moves(p) BY <1>1, <1>2, <1>7 DEF TypeOK, Quiet, Moves, Still, InfoMove, Filled
<1> QED BY <1>2, <1>3, <1>4, <1>5, <1>7, <1>8, MoveSafe

\* access() returns with the file.
LEMMA ReturnFileSafe ==
  ASSUME SafeInv, TypeInv', NEW p \in Listeners, Return(p, TRUE), LockInfo(p, "none"),
         UNCHANGED <<fsVars, fdVars>>, pc[p] \in Filled \/ Hit(p)
  PROVE  SafeInv'
<1> USE DEF Return, ForgetCall, LockInfo, Goto, fsVars, fdVars
<1>1. TypeOK /\ CurOK /\ Knows(p) BY DEF SafeInv, TypeInv
<1>2. pc[p] \in InCall \ {"ending", "crLock", "crUnlock", "decompress"} /\ HasFile(p)
  BY DEF Filled, Hit, HasFile, InCall, Labels
<1>3. cur[p] \in Containers /\ Target(p) \in Files
  BY <1>1, <1>2, CacheAssumption DEF CurOK, Target
<1>4. /\ pc'[p] = "idle" /\ infoLock'[p] = "none" /\ fd'[p] = None /\ attempt'[p] = 1
      /\ cached'[p] = cached[p] \cup {cur[p]}
      /\ \A c \in Containers : acc'[p][c] = IF c = cur[p] THEN acc[p][c] + 1 ELSE acc[p][c]
  BY <1>1, <1>3 DEF TypeOK
<1>5. Quiet(p) BY <1>1, <1>2, <1>4 DEF TypeOK, Quiet, Still, InfoMove
<1>6. KnowsLock(p)' BY <1>4 DEF KnowsLock, Writing, Reading
<1>7. ~ HasFile(p)' /\ ~ Miss(p)' BY <1>4 DEF HasFile, Hit, Miss, Filling, Filled
<1>8. KnowsFile(p)' BY <1>4, <1>7 DEF KnowsFile
<1>9. KnowsCall(p)' BY <1>7 DEF KnowsCall, HasFile, Filling
<1>10. KnowsRequest(p)'
  <2>1. cached'[p] \subseteq Requested(p)'
    BY <1>1, <1>3, <1>4 DEF Knows, KnowsRequest, Requested, TypeOK
  <2> QED BY <2>1, <1>4, <1>7 DEF KnowsRequest, InCall, Filling, Filled
<1>11. KnowsPins(p)'
  <2> SUFFICES ASSUME NEW c \in cached'[p]
               PROVE  Complete(RealFile[c]) /\ flock[p][dir[RealFile[c]]] = "read"
    BY DEF KnowsPins, Complete
  <2>1. CASE c \in cached[p] BY <1>1, <1>2, <2>1 DEF Knows, KnowsPins
  <2>2. CASE c = cur[p] BY <1>1, <1>2, <2>2 DEF Knows, KnowsFile, KnowsCall, Target
  <2> QED BY <1>4, <2>1, <2>2
<1> QED BY <1>5, <1>6, <1>8, <1>9, <1>10, <1>11, QuietSafe DEF Knows

\* access() returns without the file, after the second miss.
LEMMA ReturnNoFileSafe ==
  ASSUME SafeInv, TypeInv', NEW p \in Listeners, Return(p, FALSE), LockInfo(p, "none"),
         UNCHANGED <<fsVars, fdVars>>, Miss(p)
  PROVE  SafeInv'
<1> USE DEF Return, ForgetCall, LockInfo, Goto, fsVars, fdVars
<1>1. TypeOK /\ Knows(p) BY DEF SafeInv, TypeInv
<1>2. /\ pc[p] = "rdUnlock" /\ pc'[p] = "idle" /\ infoLock'[p] = "none" /\ fd'[p] = None
      /\ attempt'[p] = 1 /\ cached'[p] = cached[p] \ {cur[p]}
  BY <1>1 DEF TypeOK, Miss
<1>3. cached'[p] = {} BY <1>1, <1>2 DEF Knows, KnowsRequest
<1>4. Quiet(p) BY <1>1, <1>2 DEF TypeOK, Quiet, Still, InfoMove
<1>5. KnowsLock(p)' BY <1>2 DEF KnowsLock, Writing, Reading
<1>6. ~ HasFile(p)' BY <1>2 DEF HasFile, Hit, Filling, Filled
<1>7. KnowsFile(p)' BY <1>2, <1>6 DEF KnowsFile
<1>8. KnowsCall(p)' BY <1>6 DEF KnowsCall, HasFile, Filling
<1>9. KnowsRequest(p)' /\ KnowsPins(p)' BY <1>3 DEF KnowsRequest, KnowsPins
<1> QED BY <1>4, <1>5, <1>7, <1>8, <1>9, QuietSafe DEF Knows

\* A call that throws and leaves no file that is not whole.
LEMMA RaiseSafe ==
  ASSUME SafeInv, TypeInv', NEW p \in Listeners, Raise(p), UNCHANGED <<fsVars, fdt, flock>>,
         pc[p] \notin {"crLock", "crUnlock", "decompress"}
  PROVE  SafeInv'
<1> USE DEF Raise, ForgetCall, LockInfo, Goto, fsVars, reqVars
<1>1. TypeOK /\ Knows(p) BY DEF SafeInv, TypeInv
<1>2. /\ pc'[p] = "ending" /\ infoLock'[p] = "none" /\ fd'[p] = None /\ attempt'[p] = 1
  BY <1>1 DEF TypeOK
<1>3. Quiet(p) BY <1>1, <1>2 DEF TypeOK, Quiet, Still, InfoMove
<1>4. KnowsLock(p)' BY <1>2 DEF KnowsLock, Writing, Reading
<1>5. ~ HasFile(p)' /\ ~ Miss(p)' BY <1>2 DEF HasFile, Hit, Miss, Filling, Filled
<1>6. KnowsFile(p)' BY <1>2, <1>5 DEF KnowsFile
<1>7. KnowsCall(p)' BY <1>5 DEF KnowsCall, HasFile, Filling
<1>8. KnowsRequest(p)'
  BY <1>1, <1>2, <1>5 DEF Knows, KnowsRequest, Requested, InCall, Filling, Filled
<1>9. KnowsPins(p)' BY <1>2 DEF KnowsPins
<1> QED BY <1>3, <1>4, <1>6, <1>7, <1>8, <1>9, QuietSafe DEF Knows

-----------------------------------------------------------------------------
(* The steps that change files, descriptors or their locks. *)

\* What a step must leave alone for the others.
Spares(p) ==
  \A q \in Listeners \ {p} :
    /\ Still(q)
    /\ \A f \in Files : dir[f] # None /\ Holds(q, f) =>
          dir'[f] = dir[f] /\ (Complete(f) => Complete(f)')

LEMMA StepSafe ==
  ASSUME SafeInv, TypeInv', NEW p \in Listeners, Spares(p), InfoMove(p), Knows(p)',
         FileLockInv', DirInv', PartInv', CreateNeverBlocks'
  PROVE  SafeInv'
<1>1. ASSUME NEW q \in Listeners PROVE Knows(q)'
  <2>1. CASE q = p BY <2>1
  <2>2. CASE q # p BY <2>2, OtherKnows DEF Spares
  <2> QED BY <2>1, <2>2
<1>2. InfoLockInv' BY InfoLockKept
<1> QED BY <1>1, <1>2 DEF SafeInv

\* No process makes a file while another one holds the cache lock.
LEMMA NobodyCreates ==
  ASSUME SafeInv, NEW p \in Listeners, infoLock[p] # "none"
  PROVE  \A q \in Listeners \ {p} : pc[q] \notin {"crOpen", "crLock", "crUnlock"}
BY DEF SafeInv, Knows, KnowsLock, InfoLockInv, Writing

LEMMA RdOpenSafe ==
  ASSUME SafeInv, TypeInv', NEW p \in Listeners, RdOpen(p) PROVE SafeInv'
<1> USE DEF RdOpen, Goto, fsVars, infoVars, reqVars, purgeVars
<1>1. TypeOK /\ CurOK /\ Knows(p) BY DEF SafeInv, TypeInv
<1>2. PICK d \in FDs : /\ fdt[p][d] = None
                       /\ fdt' = [fdt EXCEPT ![p][d] = dir[Target(p)]]
                       /\ fd' = [fd EXCEPT ![p] = d]
  BY DEF Lowest, FreeFds
<1>3. /\ pc[p] = "rdOpen" /\ pc'[p] = "rdLock" /\ infoLock'[p] = infoLock[p]
      /\ fd'[p] = d /\ fdt'[p][d] = dir[Target(p)] /\ Target(p)' = Target(p)
      /\ Requested(p)' = Requested(p)
  BY <1>1, <1>2 DEF TypeOK, Target, Requested
<1>4. Target(p) \in Files /\ dir[Target(p)] \in Inodes
  BY <1>1, <1>3, CacheAssumption DEF CurOK, InCall, Labels, Target, TypeOK
<1>5. Spares(p) /\ InfoMove(p)
  BY <1>1, <1>2 DEF TypeOK, Spares, Still, Complete, InfoMove
<1>6. Knows(p)'
  <2>1. KnowsLock(p)' BY <1>1, <1>3 DEF Knows, KnowsLock, Writing, Reading
  <2>2. HasFile(p)' /\ ~ Hit(p)' /\ ~ Miss(p)' BY <1>3 DEF HasFile, Hit, Miss
  <2>3. KnowsFile(p)' BY <1>3, <1>4, <2>2 DEF KnowsFile, Ino
  <2>4. KnowsCall(p)' BY <1>3, <2>2 DEF KnowsCall, Filling, Filled
  <2>5. KnowsRequest(p)'
    BY <1>1, <1>3, <2>2 DEF Knows, KnowsRequest, InCall, Labels, Filling, Filled
  <2>6. KnowsPins(p)' BY <1>1, <1>3 DEF Knows, KnowsPins, Complete
  <2> QED BY <2>1, <2>3, <2>4, <2>5, <2>6 DEF Knows
<1>7. FileLockInv'
  <2>1. ASSUME NEW q \in Listeners, NEW i \in Inodes, flock[q][i] # "none"
        PROVE  \E e \in FDs : fdt'[q][e] = i
    <3>1. PICK e \in FDs : fdt[q][e] = i BY <2>1 DEF SafeInv, FileLockInv
    <3>2. q # p \/ e # d BY <1>2, <3>1, CacheAssumption
    <3> QED BY <1>1, <1>2, <3>1, <3>2 DEF TypeOK
  <2> QED BY <2>1 DEF SafeInv, FileLockInv, FileWritable
<1>8. DirInv' BY DEF SafeInv, DirInv
<1>9. PartInv'
  BY <1>3, <1>5 DEF SafeInv, PartInv, Complete, Spares, Still, Target
<1>10. CreateNeverBlocks'
  BY <1>3, <1>5 DEF SafeInv, CreateNeverBlocks, FileWritable, Ino, Spares, Still
<1> QED BY <1>5, <1>6, <1>7, <1>8, <1>9, <1>10, StepSafe

LEMMA RdLockSafe ==
  ASSUME SafeInv, TypeInv', NEW p \in Listeners, RdLock(p) PROVE SafeInv'
<1> USE DEF RdLock, Goto, fsVars, infoVars, callVars, reqVars, purgeVars
<1>1. TypeOK /\ CurOK /\ Knows(p) BY DEF SafeInv, TypeInv
<1>2. /\ pc[p] = "rdLock" /\ pc'[p] = "rdUnlock" /\ infoLock[p] = "read"
      /\ UNCHANGED <<dir, written, fdt, fd, cur, attempt, cached, acc, infoLock>>
  BY <1>1 DEF TypeOK, Knows, KnowsLock, Reading
<1>3. fd[p] \in FDs /\ dir[Target(p)] \in Inodes /\ Ino(p) = dir[Target(p)]
      /\ Target(p) \in Files
  BY <1>1, <1>2, CacheAssumption DEF Knows, KnowsFile, HasFile, CurOK, InCall, Labels, Target
<1>4. /\ flock'[p][Ino(p)] = "read"
      /\ \A i \in Inodes : i # Ino(p) => flock'[p][i] = flock[p][i]
      /\ \A q \in Listeners \ {p} : flock'[q] = flock[q]
  BY <1>1, <1>3 DEF TypeOK
<1>5. Target(p)' = Target(p) /\ Ino(p)' = Ino(p) /\ Requested(p)' = Requested(p)
  BY <1>2 DEF Target, Ino, Requested
<1>6. \A q \in Listeners \ {p} : pc[q] \notin {"crOpen", "crLock", "crUnlock"}
  BY <1>2, NobodyCreates
\* Nobody fills the file: a process that did would hold it exclusively.
<1>7. Complete(Target(p))
  <2> SUFFICES ASSUME ~ Complete(Target(p)) PROVE FALSE OBVIOUS
  <2>1. PICK q \in Listeners : pc[q] = "decompress" /\ Target(q) = Target(p)
    BY <1>2, <1>3, <1>6, CacheAssumption DEF SafeInv, PartInv
  <2>2. flock[q][Ino(p)] = "write"
    BY <1>3, <2>1 DEF SafeInv, Knows, KnowsFile, KnowsCall, HasFile, Filling
  <2>3. q # p BY <1>2, <2>1
  <2> QED BY <2>2, <2>3 DEF FileReadable
<1>8. Spares(p) /\ InfoMove(p)
  BY <1>1, <1>2, <1>4 DEF TypeOK, Spares, Still, Complete, InfoMove
<1>9. Knows(p)'
  <2>1. KnowsLock(p)' BY <1>1, <1>2 DEF Knows, KnowsLock, Writing, Reading
  <2>2. HasFile(p)' /\ Hit(p)' /\ ~ Miss(p)'
    BY <1>2, <1>3, CacheAssumption DEF HasFile, Hit, Miss
  <2>3. KnowsFile(p)' BY <1>2, <1>3, <1>5, <2>2 DEF KnowsFile
  <2>4. Complete(Target(p))' BY <1>2, <1>5, <1>7 DEF Complete
  <2>5. KnowsCall(p)' BY <1>2, <1>4, <1>5, <2>4 DEF KnowsCall, Filling, Filled
  <2>6. KnowsRequest(p)'
    BY <1>1, <1>2, <1>5, <2>2 DEF Knows, KnowsRequest, InCall, Labels, Filling, Filled
  <2>7. KnowsPins(p)'
    <3> SUFFICES ASSUME NEW c \in cached[p]
                 PROVE  Complete(RealFile[c]) /\ flock'[p][dir[RealFile[c]]] = "read"
      BY <1>2 DEF KnowsPins, Complete
    <3>1. Complete(RealFile[c]) /\ flock[p][dir[RealFile[c]]] = "read"
      BY <1>1, <1>2 DEF Knows, KnowsPins
    <3>2. dir[RealFile[c]] \in Inodes BY <1>1, <3>1, CacheAssumption DEF TypeOK, Complete
    <3> QED BY <1>4, <3>1, <3>2
  <2> QED BY <2>1, <2>3, <2>5, <2>6, <2>7 DEF Knows
<1>10. FileLockInv'
  <2>1. ASSUME NEW q \in Listeners, NEW i \in Inodes, flock'[q][i] # "none"
        PROVE  \E e \in FDs : fdt'[q][e] = i
    <3>1. CASE q = p /\ i = Ino(p) BY <1>2, <1>3, <3>1 DEF Ino
    <3>2. CASE ~ (q = p /\ i = Ino(p))
      BY <1>2, <1>4, <2>1, <3>2 DEF SafeInv, FileLockInv
    <3> QED BY <3>1, <3>2
  <2>2. ASSUME NEW q \in Listeners, NEW i \in Inodes, flock'[q][i] = "write",
               NEW r \in Listeners \ {q}
        PROVE  flock'[r][i] = "none"
    <3>1. flock[q][i] = "write" BY <1>4, <2>2
    <3>2. flock[r][i] = "none" BY <3>1 DEF SafeInv, FileLockInv, FileWritable
    <3>3. r # p \/ i # Ino(p) BY <3>1 DEF FileReadable
    <3> QED BY <1>4, <3>2, <3>3
  <2> QED BY <2>1, <2>2 DEF FileLockInv, FileWritable
<1>11. DirInv' BY <1>2 DEF SafeInv, DirInv
<1>12. PartInv'
  BY <1>2, <1>8 DEF SafeInv, PartInv, Complete, Spares, Still, Target
<1>13. CreateNeverBlocks'
  BY <1>2, <1>6, <1>8 DEF CreateNeverBlocks, Spares, Still
<1> QED BY <1>8, <1>9, <1>10, <1>11, <1>12, <1>13, StepSafe

LEMMA CrOpenSafe ==
  ASSUME SafeInv, TypeInv', NEW p \in Listeners, CrOpen(p) PROVE SafeInv'
<1> USE DEF CrOpen, Goto, infoVars, reqVars, purgeVars
<1>1. TypeOK /\ CurOK /\ Knows(p) BY DEF SafeInv, TypeInv
<1>2. PICK d \in FDs, i \in FreeInodes :
        /\ fdt[p][d] = None
        /\ dir' = [dir EXCEPT ![Target(p)] = i]
        /\ written' = [written EXCEPT ![i] = 0]
        /\ fdt' = [fdt EXCEPT ![p][d] = i]
        /\ fd' = [fd EXCEPT ![p] = d]
  BY DEF Lowest, FreeFds
<1>3. /\ pc[p] = "crOpen" /\ pc'[p] = "crLock" /\ infoLock' = infoLock /\ fd'[p] = d
      /\ dir[Target(p)] = None /\ infoLock[p] = "write" /\ cached[p] = {}
      /\ UNCHANGED <<cur, attempt, flock, cached, acc>>
  BY <1>1, <1>2 DEF TypeOK, Knows, KnowsLock, KnowsRequest, Writing
<1>4. Target(p) \in Files /\ i \in Inodes /\ SizeOf[Target(p)] # 0
  BY <1>1, <1>3, CacheAssumption DEF CurOK, InCall, Labels, Target, FreeInodes
<1>5. /\ dir'[Target(p)] = i /\ written'[i] = 0 /\ fdt'[p][d] = i
      /\ \A f \in Files : f # Target(p) => dir'[f] = dir[f]
      /\ \A j \in Inodes : j # i => written'[j] = written[j]
      /\ \A q \in Listeners \ {p} : fdt'[q] = fdt[q]
      /\ \A f \in Files : dir[f] # i
  BY <1>1, <1>2, <1>4 DEF TypeOK, FreeInodes
\* Nobody can have a lock on an inode that nobody has open.
<1>6. \A q \in Listeners : flock[q][i] = "none"
  BY <1>4 DEF SafeInv, FileLockInv, FreeInodes
<1>7. \A f \in Files : dir[f] # None => dir'[f] = dir[f] /\ (Complete(f) => Complete(f)')
  BY <1>1, <1>3, <1>5 DEF Complete, TypeOK
<1>8. Spares(p) /\ InfoMove(p)
  BY <1>1, <1>2, <1>3, <1>7 DEF TypeOK, Spares, Still, InfoMove
<1>9. Target(p)' = Target(p) /\ Ino(p)' = i BY <1>3, <1>5 DEF Target, Ino
<1>10. Knows(p)'
  <2>1. KnowsLock(p)' BY <1>1, <1>3 DEF Knows, KnowsLock, Writing, Reading
  <2>2. HasFile(p)' /\ ~ Hit(p)' BY <1>3 DEF HasFile, Hit
  <2>3. KnowsFile(p)' BY <1>3, <1>4, <1>5, <1>9, <2>2 DEF KnowsFile
  <2>4. KnowsCall(p)' BY <1>3, <2>2 DEF KnowsCall, Filling, Filled
  <2>5. KnowsRequest(p)' /\ KnowsPins(p)' BY <1>3 DEF KnowsRequest, KnowsPins
  <2> QED BY <2>1, <2>3, <2>4, <2>5 DEF Knows
<1>11. FileLockInv'
  <2>1. ASSUME NEW q \in Listeners, NEW j \in Inodes, flock[q][j] # "none"
        PROVE  \E e \in FDs : fdt'[q][e] = j
    <3>1. PICK e \in FDs : fdt[q][e] = j BY <2>1 DEF SafeInv, FileLockInv
    <3>2. q # p \/ e # d BY <1>2, <3>1, CacheAssumption
    <3> QED BY <1>1, <1>2, <3>1, <3>2 DEF TypeOK
  <2> QED BY <1>3, <2>1 DEF SafeInv, FileLockInv, FileWritable
<1>12. DirInv' BY <1>4, <1>5 DEF SafeInv, DirInv
<1>13. PartInv'
  <2> SUFFICES ASSUME NEW f \in Files, dir'[f] # None, ~ Complete(f)'
               PROVE  \E q \in Listeners : pc'[q] \in {"crLock", "crUnlock", "decompress"} /\ Target(q)' = f
    BY DEF PartInv
  <2>1. CASE f = Target(p) BY <1>3, <1>9, <2>1
  <2>2. CASE f # Target(p)
    <3>1. PICK q \in Listeners : pc[q] \in {"crLock", "crUnlock", "decompress"} /\ Target(q) = f
      BY <1>5, <1>7, <2>2 DEF SafeInv, PartInv
    <3>2. q # p BY <1>3, <3>1
    <3> QED BY <1>8, <3>1, <3>2 DEF Spares, Still, Target
  <2> QED BY <2>1, <2>2
<1>14. CreateNeverBlocks'
  <2> SUFFICES ASSUME NEW q \in Listeners, pc'[q] = "crLock" PROVE FileWritable(q, Ino(q))'
    BY DEF CreateNeverBlocks
  <2>1. q = p
    <3> SUFFICES ASSUME q # p PROVE FALSE OBVIOUS
    <3>1. pc[q] = "crLock" BY <1>8 DEF Spares, Still
    <3> QED BY <1>3, <3>1, NobodyCreates
  <2> QED BY <1>3, <1>6, <1>9, <2>1 DEF FileWritable
<1> QED BY <1>8, <1>10, <1>11, <1>12, <1>13, <1>14, StepSafe

\* A step of p that changes only its lock on the file that it has.
LEMMA RelockSafe ==
  ASSUME SafeInv, TypeInv', NEW p \in Listeners, NEW mode \in {"read", "write"},
         flock' = [flock EXCEPT ![p][Ino(p)] = mode],
         UNCHANGED <<dir, written, fdt, infoLock, cur, fd, attempt, cached, acc>>,
         \A q \in Listeners \ {p} : pc'[q] = pc[q],
         HasFile(p), FileWritable(p, Ino(p)), cached[p] = {}, KnowsLock(p)',
         \/ pc[p] = "crLock" /\ pc'[p] = "crUnlock" /\ mode = "write"
         \/ pc[p] = "toShared" /\ pc'[p] = "updLock" /\ mode = "read"
  PROVE  SafeInv'
<1>1. TypeOK /\ Knows(p) BY DEF SafeInv, TypeInv
<1>2. fd[p] \in FDs /\ dir[Target(p)] \in Inodes /\ Ino(p) = dir[Target(p)]
  BY <1>1 DEF Knows, KnowsFile
<1>3. /\ flock'[p][Ino(p)] = mode
      /\ \A i \in Inodes : i # Ino(p) => flock'[p][i] = flock[p][i]
      /\ \A q \in Listeners \ {p} : flock'[q] = flock[q]
  BY <1>1, <1>2 DEF TypeOK
<1>4. Target(p)' = Target(p) /\ Ino(p)' = Ino(p) /\ Complete(Target(p))' = Complete(Target(p))
  BY DEF Target, Ino, Complete
<1>5. Spares(p) /\ InfoMove(p) BY <1>1, <1>3 DEF TypeOK, Spares, Still, Complete, InfoMove
<1>6. Knows(p)'
  <2>1. HasFile(p)' /\ ~ Hit(p)' BY DEF HasFile, Hit, Filling, Filled
  <2>2. KnowsFile(p)' BY <1>2, <1>4, <2>1 DEF KnowsFile
  <2>3. KnowsCall(p)' BY <1>1, <1>3, <1>4, <2>1 DEF Knows, KnowsCall, Filling, Filled
  <2>4. KnowsRequest(p)' /\ KnowsPins(p)' BY DEF KnowsRequest, KnowsPins
  <2> QED BY <2>2, <2>3, <2>4 DEF Knows
<1>7. FileLockInv'
  <2>1. ASSUME NEW q \in Listeners, NEW i \in Inodes, flock'[q][i] # "none"
        PROVE  \E e \in FDs : fdt'[q][e] = i
    <3>1. CASE q = p /\ i = Ino(p) BY <1>2, <3>1 DEF Ino
    <3>2. CASE ~ (q = p /\ i = Ino(p)) BY <1>3, <2>1, <3>2 DEF SafeInv, FileLockInv
    <3> QED BY <3>1, <3>2
  <2>2. ASSUME NEW q \in Listeners, NEW i \in Inodes, flock'[q][i] = "write",
               NEW r \in Listeners \ {q}
        PROVE  flock'[r][i] = "none"
    <3>1. CASE q = p /\ i = Ino(p) BY <1>3, <3>1 DEF FileWritable
    <3>2. CASE ~ (q = p /\ i = Ino(p))
      <4>1. flock[q][i] = "write" BY <1>3, <2>2, <3>2
      <4>2. flock[r][i] = "none" BY <4>1 DEF SafeInv, FileLockInv, FileWritable
      <4>3. r # p \/ i # Ino(p) BY <3>2, <4>1 DEF FileWritable
      <4> QED BY <1>3, <4>2, <4>3
    <3> QED BY <3>1, <3>2
  <2> QED BY <2>1, <2>2 DEF FileLockInv, FileWritable
<1>8. DirInv' BY DEF SafeInv, DirInv
<1>9. PartInv'
  <2> SUFFICES ASSUME NEW f \in Files, dir[f] # None, ~ Complete(f)
               PROVE  \E q \in Listeners : pc'[q] \in {"crLock", "crUnlock", "decompress"} /\ Target(q)' = f
    BY DEF PartInv, Complete
  <2>1. PICK q \in Listeners : pc[q] \in {"crLock", "crUnlock", "decompress"} /\ Target(q) = f
    BY DEF SafeInv, PartInv
  <2> QED BY <1>4, <1>5, <2>1 DEF Spares, Still, Target
<1>10. CreateNeverBlocks'
  <2> SUFFICES ASSUME NEW q \in Listeners, pc'[q] = "crLock" PROVE FileWritable(q, Ino(q))'
    BY DEF CreateNeverBlocks
  <2>1. q # p /\ pc[q] = "crLock" /\ Ino(q)' = Ino(q) BY DEF Ino
  <2>2. FileWritable(q, Ino(q)) BY <2>1 DEF SafeInv, CreateNeverBlocks
  \* q has its file to itself, so p has another one.
  <2>3. flock[p][Ino(q)] = "none" BY <2>1, <2>2 DEF FileWritable
  <2>4. Ino(q) \in Inodes BY <2>1 DEF SafeInv, Knows, KnowsFile, HasFile
  <2>5. Ino(q) # Ino(p)
    <3>1. CASE pc[p] = "crLock"
      BY <2>1, <3>1 DEF SafeInv, Knows, KnowsLock, InfoLockInv, Writing
    <3>2. CASE pc[p] = "toShared"
      BY <1>1, <2>3, <3>2 DEF Knows, KnowsCall, Filling
    <3> QED BY <3>1, <3>2
  <2> QED BY <1>3, <2>1, <2>2, <2>4, <2>5 DEF FileWritable
<1> QED BY <1>5, <1>6, <1>7, <1>8, <1>9, <1>10, StepSafe

LEMMA CrLockSafe ==
  ASSUME SafeInv, TypeInv', NEW p \in Listeners, CrLock(p) PROVE SafeInv'
<1> USE DEF CrLock, Goto, fsVars, infoVars, callVars, reqVars, purgeVars
<1>1. TypeOK /\ Knows(p) BY DEF SafeInv, TypeInv
<1>2. pc[p] = "crLock" /\ pc'[p] = "crUnlock" /\ infoLock' = infoLock BY <1>1 DEF TypeOK
<1>3. HasFile(p) /\ cached[p] = {} BY <1>1, <1>2 DEF HasFile, Knows, KnowsRequest
<1>4. KnowsLock(p)' BY <1>1, <1>2 DEF Knows, KnowsLock, Writing, Reading
<1> QED BY <1>1, <1>2, <1>3, <1>4, RelockSafe DEF TypeOK

LEMMA ToSharedSafe ==
  ASSUME SafeInv, TypeInv', NEW p \in Listeners, ToShared(p) PROVE SafeInv'
<1> USE DEF ToShared, Goto, fsVars, infoVars, callVars, reqVars, purgeVars
<1>1. TypeOK /\ Knows(p) BY DEF SafeInv, TypeInv
<1>2. pc[p] = "toShared" /\ pc'[p] = "updLock" /\ infoLock' = infoLock BY <1>1 DEF TypeOK
<1>3. HasFile(p) /\ cached[p] = {} BY <1>1, <1>2 DEF HasFile, Filling, Knows, KnowsRequest
<1>4. KnowsLock(p)' BY <1>1, <1>2 DEF Knows, KnowsLock, Writing, Reading
<1>5. flock[p][Ino(p)] = "write" /\ Ino(p) \in Inodes
  BY <1>1, <1>2, <1>3 DEF Knows, KnowsCall, KnowsFile, Filling
<1>6. FileWritable(p, Ino(p)) BY <1>5 DEF SafeInv, FileLockInv
<1> QED BY <1>1, <1>2, <1>3, <1>4, <1>6, RelockSafe DEF TypeOK

LEMMA DecompressSomeSafe ==
  ASSUME SafeInv, TypeInv', NEW p \in Listeners, DecompressSome(p) PROVE SafeInv'
<1> USE DEF DecompressSome, infoVars, fdVars, callVars, reqVars, purgeVars
<1>1. TypeOK /\ Knows(p) BY DEF SafeInv, TypeInv
<1>2. HasFile(p) BY DEF HasFile, Filling
<1>3. fd[p] \in FDs /\ dir[Target(p)] \in Inodes /\ Ino(p) = dir[Target(p)]
  BY <1>1, <1>2 DEF Knows, KnowsFile
<1>4. \A i \in Inodes : i # Ino(p) => written'[i] = written[i]
  BY <1>1 DEF TypeOK
<1>5. Target(p) \in Files
  BY CacheAssumption DEF SafeInv, TypeInv, CurOK, InCall, Labels, Target
<1>6. written[Ino(p)] # SizeOf[Target(p)]
  BY <1>1, <1>3, <1>5, CacheAssumption DEF TypeOK
\* Only the file of p has the inode, and it is not whole.
<1>7. \A f \in Files : Complete(f) => Complete(f)'
  <2> SUFFICES ASSUME NEW f \in Files, Complete(f) PROVE Complete(f)' OBVIOUS
  <2>1. dir[f] \in Inodes BY <1>1 DEF TypeOK, Complete
  <2>2. dir[f] # Ino(p) BY <1>3, <1>5, <1>6, CacheAssumption DEF SafeInv, DirInv, Complete
  <2> QED BY <1>4, <2>1, <2>2 DEF Complete
<1>8. Spares(p) /\ InfoMove(p) BY <1>7 DEF Spares, Still, InfoMove
<1>9. Knows(p)'
  BY <1>1 DEF Knows, KnowsLock, KnowsFile, KnowsCall, KnowsRequest, KnowsPins, HasFile, Hit, Miss,
     Filling, Filled, Target, Ino, Requested
<1>10. FileLockInv' /\ DirInv' BY DEF SafeInv, FileLockInv, FileWritable, DirInv
<1>11. PartInv' BY <1>7 DEF SafeInv, PartInv, Target
<1>12. CreateNeverBlocks' BY DEF SafeInv, CreateNeverBlocks, FileWritable, Ino
<1> QED BY <1>8, <1>9, <1>10, <1>11, <1>12, StepSafe

\* A purge that tries the lock of the file f, of which nothing but its name
\* goes, and the name only if no other process has a lock.
LEMMA PurgeSafe ==
  ASSUME SafeInv, TypeInv', NEW p \in Listeners, NEW f \in Files,
         pc[p] = "purge", f # Target(p), dir[f] # None,
         flock' = [flock EXCEPT ![p][dir[f]] = "none"],
         UNCHANGED <<written, fdt, infoLock, pc, cur, fd, attempt, cached, acc>>,
         \/ dir' = dir
         \/ dir' = [dir EXCEPT ![f] = None] /\ FileWritable(p, dir[f])
  PROVE  SafeInv'
<1>1. TypeOK /\ CurOK /\ Knows(p) BY DEF SafeInv, TypeInv
<1>2. dir[Target(p)] \in Inodes /\ Ino(p) = dir[Target(p)] /\ fd[p] \in FDs
  BY <1>1 DEF Knows, KnowsFile, HasFile, Filled
<1>3. Target(p) \in Files BY <1>1, CacheAssumption DEF CurOK, InCall, Labels, Target
<1>4. cached[p] = {} /\ infoLock[p] = "write"
  BY <1>1 DEF Knows, KnowsRequest, KnowsLock, Filled, Writing
<1>5. dir[f] \in Inodes /\ dir[f] # Ino(p)
  BY <1>1, <1>2, <1>3 DEF TypeOK, SafeInv, DirInv
<1>6. /\ \A q \in Listeners, i \in Inodes :
           flock'[q][i] = IF q = p /\ i = dir[f] THEN "none" ELSE flock[q][i]
      /\ \A q \in Listeners \ {p} : flock'[q] = flock[q]
      /\ \A g \in Files : g # f => dir'[g] = dir[g]
      /\ dir'[f] = dir[f] \/ (dir'[f] = None /\ FileWritable(p, dir[f]))
  <2>1. /\ \A q \in Listeners, i \in Inodes :
             flock'[q][i] = IF q = p /\ i = dir[f] THEN "none" ELSE flock[q][i]
        /\ \A q \in Listeners \ {p} : flock'[q] = flock[q]
    BY <1>1, <1>5 DEF TypeOK
  <2>2. CASE dir' = dir BY <2>1, <2>2
  <2>3. CASE dir' = [dir EXCEPT ![f] = None] /\ FileWritable(p, dir[f])
    <3>1. \A g \in Files : dir'[g] = IF g = f THEN None ELSE dir[g] BY <1>1, <2>3 DEF TypeOK
    <3> QED BY <2>1, <2>3, <3>1
  <2> QED BY <2>2, <2>3
<1>7. \A g \in Files : g # f => (Complete(g) <=> Complete(g)')
  BY <1>6 DEF Complete
<1>8. Spares(p)
  <2> SUFFICES ASSUME NEW q \in Listeners \ {p}
               PROVE  /\ Still(q)
                      /\ \A g \in Files : dir[g] # None /\ Holds(q, g) =>
                            dir'[g] = dir[g] /\ (Complete(g) => Complete(g)')
    BY DEF Spares
  <2>1. Still(q) BY <1>6 DEF Still
  <2>2. ASSUME Holds(q, f) PROVE dir'[f] = dir[f]
    <3>1. flock[q][dir[f]] # "none"
      <4>1. pc[q] \notin {"rdLock", "crLock"}
        BY <1>4 DEF SafeInv, InfoLockInv, Knows, KnowsLock, Writing, Reading
      <4> QED BY <2>2, <4>1 DEF Holds
    <3> QED BY <1>6, <3>1 DEF FileWritable
  <2> QED BY <1>6, <1>7, <2>1, <2>2 DEF Complete
<1>9. InfoMove(p) BY DEF InfoMove
<1>10. Knows(p)'
  <2>1. HasFile(p)' /\ ~ Hit(p)' BY DEF HasFile, Hit, Filled
  <2>2. Target(p)' = Target(p) /\ Ino(p)' = Ino(p) BY DEF Target, Ino
  <2>3. KnowsLock(p)' BY <1>1 DEF Knows, KnowsLock
  <2>4. KnowsFile(p)' BY <1>2, <1>3, <1>6, <2>1, <2>2 DEF KnowsFile
  <2>5. Complete(Target(p)) /\ flock[p][Ino(p)] = "read"
    BY <1>1 DEF Knows, KnowsCall, Filled
  <2>6. Complete(Target(p))' BY <1>3, <1>7, <2>2, <2>5 DEF Complete
  <2>7. flock'[p][Ino(p)] = "read" BY <1>2, <1>5, <1>6, <2>5
  <2>8. KnowsCall(p)' BY <2>2, <2>6, <2>7 DEF KnowsCall, Filling
  <2>9. KnowsRequest(p)' /\ KnowsPins(p)' BY <1>4 DEF KnowsRequest, KnowsPins
  <2> QED BY <2>3, <2>4, <2>8, <2>9 DEF Knows
<1>11. FileLockInv' BY <1>6 DEF SafeInv, FileLockInv, FileWritable
<1>12. DirInv' BY <1>6 DEF SafeInv, DirInv
<1>13. PartInv'
  <2> SUFFICES ASSUME NEW g \in Files, dir'[g] # None, ~ Complete(g)'
               PROVE  \E q \in Listeners : pc'[q] \in {"crLock", "crUnlock", "decompress"} /\ Target(q)' = g
    BY DEF PartInv
  <2>1. dir[g] # None /\ ~ Complete(g) BY <1>6, <1>7 DEF Complete
  <2> QED BY <2>1 DEF SafeInv, PartInv, Target
<1>14. CreateNeverBlocks'
  BY <1>4 DEF SafeInv, CreateNeverBlocks, InfoLockInv, Knows, KnowsLock, Writing
<1> QED BY <1>8, <1>9, <1>10, <1>11, <1>12, <1>13, <1>14, StepSafe

\* A process that is not in a call gives up descriptors with their locks and
\* containers.
LEMMA LetGoSafe ==
  ASSUME SafeInv, TypeInv', NEW p \in Listeners,
         UNCHANGED <<dir, written>>, \A q \in Listeners \ {p} : Still(q), InfoMove(p),
         pc[p] \notin {"crLock", "crUnlock", "decompress"},
         pc'[p] \in {"boot", "idle", "ending"}, infoLock'[p] = "none",
         fd'[p] = None, attempt'[p] = 2 => cached'[p] = {},
         cached'[p] \subseteq Requested(p)', pc'[p] = "ending" \/ cached'[p] = {},
         \A i \in Inodes : flock'[p][i] # "none" =>
            flock'[p][i] = flock[p][i] /\ \E e \in FDs : fdt'[p][e] = i
  PROVE  SafeInv'
<1>1. Spares(p) BY DEF Spares, Complete
<1>2. ~ HasFile(p)' /\ ~ Miss(p)' /\ ~ Hit(p)' /\ pc'[p] \notin InCall \cup Filling \cup Filled
  BY DEF HasFile, Hit, Miss, Filling, Filled, InCall, Labels
<1>3. Knows(p)'
  <2>1. KnowsLock(p)' BY DEF KnowsLock, Writing, Reading
  <2>2. KnowsFile(p)' BY <1>2 DEF KnowsFile
  <2>3. KnowsCall(p)' BY <1>2 DEF KnowsCall, HasFile, Filling
  <2>4. KnowsRequest(p)' BY <1>2 DEF KnowsRequest
  <2>5. KnowsPins(p)' BY DEF KnowsPins
  <2> QED BY <2>1, <2>2, <2>3, <2>4, <2>5 DEF Knows
<1>4. FileLockInv'
  <2>1. ASSUME NEW q \in Listeners, NEW i \in Inodes, flock'[q][i] # "none"
        PROVE  flock[q][i] = flock'[q][i] /\ \E e \in FDs : fdt'[q][e] = i
    <3>1. CASE q = p BY <2>1, <3>1
    <3>2. CASE q # p BY <2>1, <3>2 DEF Still, SafeInv, FileLockInv
    <3> QED BY <3>1, <3>2
  <2>2. ASSUME NEW q \in Listeners, NEW i \in Inodes, flock'[q][i] = "write",
               NEW r \in Listeners \ {q}
        PROVE  flock'[r][i] = "none"
    <3>1. flock[q][i] = "write" BY <2>1, <2>2
    <3>2. flock[r][i] = "none" BY <3>1 DEF SafeInv, FileLockInv, FileWritable
    <3> QED BY <2>1, <3>2
  <2> QED BY <2>1, <2>2 DEF FileLockInv, FileWritable
<1>5. DirInv' BY DEF SafeInv, DirInv
<1>6. PartInv'
  <2> SUFFICES ASSUME NEW f \in Files, dir[f] # None, ~ Complete(f)
               PROVE  \E q \in Listeners : pc'[q] \in {"crLock", "crUnlock", "decompress"} /\ Target(q)' = f
    BY DEF PartInv, Complete
  <2>1. PICK q \in Listeners : pc[q] \in {"crLock", "crUnlock", "decompress"} /\ Target(q) = f
    BY DEF SafeInv, PartInv
  <2> QED BY <2>1 DEF Still, Target
<1>7. CreateNeverBlocks'
  <2> SUFFICES ASSUME NEW q \in Listeners, pc'[q] = "crLock", NEW r \in Listeners \ {q}
               PROVE  flock'[r][Ino(q)'] = "none"
    BY DEF CreateNeverBlocks, FileWritable
  <2>1. q # p /\ pc[q] = "crLock" /\ Ino(q)' = Ino(q) BY DEF Still, Ino
  <2>2. flock[r][Ino(q)] = "none" BY <2>1 DEF SafeInv, CreateNeverBlocks, FileWritable
  <2>3. Ino(q) \in Inodes BY <2>1 DEF SafeInv, Knows, KnowsFile, HasFile
  <2> QED BY <2>1, <2>2, <2>3 DEF Still
<1> QED BY <1>1, <1>3, <1>4, <1>5, <1>6, <1>7, StepSafe
LEMMA PurgeTriedSafe ==
  ASSUME SafeInv, TypeInv', NEW p \in Listeners, NEW e \in scan[p],
         PurgeInUse(p, e) \/ PurgeRemove(p, e)
  PROVE  SafeInv'
<1>1. e.file \in Files BY DEF SafeInv, TypeInv, TypeOK, Entry
<1> QED
  BY <1>1, PurgeSafe DEF PurgeInUse, PurgeRemove, Purging, fsVars, infoVars, callVars, reqVars

LEMMA RdUnlockSafe ==
  ASSUME SafeInv, TypeInv', NEW p \in Listeners, RdUnlock(p) PROVE SafeInv'
<1>1. /\ pc[p] = "rdUnlock" /\ LockInfo(p, "none") /\ UNCHANGED <<fsVars, fdVars>>
  BY DEF RdUnlock
<1>2. CASE fd[p] # None /\ Return(p, TRUE) BY <1>1, <1>2, ReturnFileSafe DEF Hit
<1>3. CASE fd[p] = None /\ attempt[p] = 1 BY <1>3, RdUnlockMissSafe
<1>4. CASE fd[p] = None /\ Return(p, FALSE) BY <1>1, <1>4, ReturnNoFileSafe DEF Miss
<1> QED BY <1>2, <1>3, <1>4 DEF RdUnlock

LEMMA UpdInfoSafe ==
  ASSUME SafeInv, TypeInv', NEW p \in Listeners, UpdInfo(p) PROVE SafeInv'
<1>1. /\ pc[p] \in Filled /\ LockInfo(p, "none") /\ UNCHANGED <<fsVars, fdVars>>
  BY DEF UpdInfo, Filled
<1>2. CASE Goto(p, "purgeLock") /\ UNCHANGED <<callVars, reqVars, purgeVars>>
  BY <1>2, UpdInfoPurgeSafe
<1>3. CASE Return(p, TRUE) BY <1>1, <1>3, ReturnFileSafe
<1> QED BY <1>2, <1>3 DEF UpdInfo

LEMMA PurgeEndSafe ==
  ASSUME SafeInv, TypeInv', NEW p \in Listeners, PurgeEnd(p) PROVE SafeInv'
BY ReturnFileSafe DEF PurgeEnd, Filled

LEMMA FillSafe ==
  ASSUME Undisturbed, SafeInv, TypeInv', NEW p \in Listeners, Fill(p) PROVE SafeInv'
<1>1. ~ DecompressFail(p) BY DEF Undisturbed, DecompressFail
<1>2. CASE UpdFail(p) BY <1>2, RaiseSafe DEF UpdFail, fdVars
<1> QED
  BY <1>1, <1>2, DecompressSomeSafe, DecompressEndSafe, ToSharedSafe, UpdLockSafe, UpdInfoSafe
  DEF Fill

LEMMA OpenFailsSafe ==
  ASSUME SafeInv, TypeInv', NEW p \in Listeners, OpenFails(p) PROVE SafeInv'
<1>1. Raise(p) /\ UNCHANGED <<fsVars, fdt, flock>>
      /\ pc[p] \notin {"crLock", "crUnlock", "decompress"}
  BY DEF OpenFails, fdVars
<1> QED BY <1>1, RaiseSafe

\* A process that waits is held up by another one; the maker of a file never is.
LEMMA DeadlockedWaits ==
  ASSUME Undisturbed, NEW p \in Listeners, Deadlocked(p)
  PROVE  \E q \in Listeners : WaitsFor(p, q)
<1>1. Cardinality(Listeners) \in Nat BY FS_CardinalityType DEF Undisturbed
<1>2. PICK n \in 1..Cardinality(Listeners) :
        \E chain \in [0..n -> Listeners] :
          chain[0] = p /\ \A k \in 0..(n - 1) : WaitsFor(chain[k], chain[k + 1])
  BY DEF Deadlocked
<1>3. PICK chain \in [0..n -> Listeners] :
        chain[0] = p /\ \A k \in 0..(n - 1) : WaitsFor(chain[k], chain[k + 1])
  BY <1>2
<1>4. 0 \in 0..(n - 1) /\ 0 + 1 = 1 /\ 1 \in 0..n BY <1>1
<1> QED BY <1>3, <1>4

\* A close gives up no lock but those on the file it closes.
LEMMA CloseKeeps ==
  ASSUME SafeInv, NEW p \in Listeners, NEW d \in FDs, fdt[p][d] \in Inodes, Close(p, d)
  PROVE  /\ \A q \in Listeners \ {p} : flock'[q] = flock[q] /\ fdt'[q] = fdt[q]
         /\ \A i \in Inodes : flock'[p][i] # "none" =>
              flock'[p][i] = flock[p][i] /\ \E e \in FDs : fdt'[p][e] = i
<1>1. TypeOK BY DEF SafeInv, TypeInv
<1>2. \A q \in Listeners \ {p} : flock'[q] = flock[q] /\ fdt'[q] = fdt[q]
  BY <1>1 DEF TypeOK, Close
<1>3. ASSUME NEW i \in Inodes, flock'[p][i] # "none"
      PROVE  flock'[p][i] = flock[p][i] /\ \E e \in FDs : fdt'[p][e] = i
  <2>1. i # fdt[p][d] /\ flock'[p][i] = flock[p][i] BY <1>1, <1>3 DEF TypeOK, Close
  <2>2. PICK e \in FDs : fdt[p][e] = i BY <1>3, <2>1 DEF SafeInv, FileLockInv
  <2>3. fdt'[p][e] = i BY <1>1, <2>1, <2>2 DEF TypeOK, Close
  <2> QED BY <2>1, <2>3
<1> QED BY <1>2, <1>3

LEMMA LockFailsSafe ==
  ASSUME Undisturbed, SafeInv, TypeInv', NEW p \in Listeners, LockFails(p) PROVE SafeInv'
<1>1. Raise(p) /\ UNCHANGED fsVars /\ Deadlocked(p) BY DEF LockFails
<1>2. PICK q \in Listeners : WaitsFor(p, q) BY <1>1, DeadlockedWaits DEF LockFails
<1>3. TypeOK /\ Knows(p) BY DEF SafeInv, TypeInv
<1>4. pc[p] # "crLock"
  BY <1>2 DEF WaitsFor, SafeInv, CreateNeverBlocks, FileWritable
<1>5. pc[p] \notin {"crUnlock", "decompress"} BY <1>2 DEF WaitsFor
<1>6. CASE pc[p] = "rdLock"
  <2> USE DEF Raise, ForgetCall, LockInfo, Goto, fsVars, reqVars
  <2>1. fd[p] \in FDs /\ fdt[p][fd[p]] \in Inodes
    BY <1>3, <1>6 DEF Knows, KnowsFile, HasFile, Ino
  <2>2. Close(p, fd[p]) BY <1>6 DEF LockFails
  <2>3. /\ pc'[p] = "ending" /\ infoLock'[p] = "none" /\ fd'[p] = None /\ attempt'[p] = 1
        /\ cached' = cached /\ acc' = acc
    BY <1>1, <1>3 DEF TypeOK
  <2>4. InfoMove(p) BY <1>1, <2>3 DEF InfoMove
  <2>5. \A r \in Listeners \ {p} : Still(r)
    BY <1>1, <1>3, <2>1, <2>2, CloseKeeps DEF Still
  <2>6. cached'[p] \subseteq Requested(p)'
    BY <1>3, <2>3 DEF Knows, KnowsRequest, Requested
  <2> QED BY <1>1, <1>4, <1>5, <2>1, <2>2, <2>3, <2>4, <2>5, <2>6, CloseKeeps, LetGoSafe
<1>7. CASE pc[p] # "rdLock"
  <2>1. UNCHANGED <<fdt, flock>> BY <1>4, <1>7 DEF LockFails
  <2> QED BY <1>1, <1>4, <1>5, <2>1, RaiseSafe
<1> QED BY <1>6, <1>7

-----------------------------------------------------------------------------
(* The steps of a request. *)

\* What a process outside a call knows of itself.
LEMMA OutsideCall ==
  ASSUME SafeInv, NEW p \in Listeners, pc[p] \in {"idle", "ending"}
  PROVE  /\ fd[p] = None /\ infoLock[p] = "none" /\ cached[p] \subseteq Requested(p)
         /\ attempt[p] = 2 => cached[p] = {}
<1>1. TypeOK /\ Knows(p) BY DEF SafeInv, TypeInv
<1>2. ~ HasFile(p) BY DEF HasFile, Hit, Filling, Filled
<1> QED
  BY <1>1, <1>2 DEF TypeOK, LockModes, Knows, KnowsFile, KnowsLock, KnowsRequest, Writing, Reading

LEMMA AccessSafe ==
  ASSUME Undisturbed, SafeInv, TypeInv', NEW p \in Listeners, NEW c \in Containers, Access(p, c)
  PROVE  SafeInv'
<1> USE DEF Access, Goto, fsVars, infoVars, fdVars, reqVars, purgeVars
<1>1. TypeOK /\ Knows(p) BY DEF SafeInv, TypeInv
<1>2. pc[p] = "idle" /\ pc'[p] = "rdCache" /\ cur'[p] = c BY <1>1 DEF TypeOK
<1>3. /\ fd[p] = None /\ infoLock[p] = "none" /\ cached[p] \subseteq Requested(p)
      /\ attempt[p] = 2 => cached[p] = {}
  BY <1>2, OutsideCall
<1>4. cached[p] \subseteq {c}
  <2> SUFFICES ASSUME NEW x \in cached[p], x # c PROVE FALSE OBVIOUS
  <2>1. IsFiniteSet(Requested(p) \cup {c})
    BY FS_Subset DEF Undisturbed, Requested
  <2>2. {x, c} \subseteq Requested(p) \cup {c} BY <1>3
  <2>3. Cardinality({x, c}) <= Cardinality(Requested(p) \cup {c})
    BY <2>1, <2>2, FS_Subset
  <2>4. Cardinality({x, c}) = 2
    <3>1. IsFiniteSet({c}) /\ Cardinality({c}) = 1 BY FS_Singleton
    <3>2. Cardinality({c} \cup {x}) = 1 + 1 BY <3>1, FS_AddElement, Zenon
    <3>3. {x, c} = {c} \cup {x} OBVIOUS
    <3> QED BY <3>2, <3>3
  <2>5. Cardinality(Requested(p) \cup {c}) \in Nat BY <2>1, FS_CardinalityType
  <2> QED BY <2>3, <2>4, <2>5 DEF Undisturbed
<1>5. Quiet(p) BY <1>1, <1>2 DEF TypeOK, Quiet, Still, InfoMove
<1>6. ~ HasFile(p)' /\ ~ Miss(p)' /\ ~ Hit(p)' BY <1>2 DEF HasFile, Miss, Hit, Filling, Filled
<1>7. KnowsLock(p)' BY <1>2, <1>3 DEF KnowsLock, Writing, Reading
<1>8. KnowsFile(p)' BY <1>3, <1>6 DEF KnowsFile
<1>9. KnowsCall(p)' BY <1>6 DEF KnowsCall, HasFile, Filling
<1>10. KnowsRequest(p)'
  BY <1>2, <1>3, <1>4, <1>6 DEF KnowsRequest, Requested, Filling, Filled
<1>11. KnowsPins(p)' BY <1>1, <1>2 DEF Knows, KnowsPins, Complete
<1> QED BY <1>5, <1>7, <1>8, <1>9, <1>10, <1>11, QuietSafe DEF Knows

\* The steps by which a request ends keep its descriptors, or close them.
LEMMA EndSafe ==
  ASSUME SafeInv, TypeInv', NEW p \in Listeners,
         \/ EndRequest(p) \/ RequestDone(p)
         \/ \E c \in Containers : ReleaseUnrecorded(p, c)
  PROVE  SafeInv'
<1> USE DEF Goto, fsVars, infoVars, fdVars, callVars, reqVars, purgeVars
<1>1. TypeOK /\ Knows(p) BY DEF SafeInv, TypeInv
<1>2. pc[p] \in {"idle", "ending"} BY DEF EndRequest, RequestDone, ReleaseUnrecorded
<1>3. /\ fd[p] = None /\ infoLock[p] = "none" /\ cached[p] \subseteq Requested(p)
      /\ attempt[p] = 2 => cached[p] = {}
  BY <1>2, OutsideCall
<1>4. UNCHANGED <<dir, written, infoLock, fdt, flock, fd, cur, attempt>>
  BY DEF EndRequest, RequestDone, ReleaseUnrecorded
<1> DEFINE Shrinks ==
      /\ cached'[p] \subseteq cached[p] /\ pc'[p] \in {"idle", "ending"}
      /\ cached'[p] \subseteq Requested(p)'
      /\ pc'[p] = "ending" \/ cached'[p] = {}
      /\ \A q \in Listeners \ {p} :
           pc'[q] = pc[q] /\ cached'[q] = cached[q] /\ acc'[q] = acc[q]
<1>5. Shrinks
  <2>1. CASE EndRequest(p)
    BY <1>1, <1>3, <2>1 DEF TypeOK, EndRequest, Requested
  <2>2. CASE RequestDone(p)
    BY <1>1, <1>3, <2>2 DEF TypeOK, RequestDone, Requested
  <2>3. ASSUME NEW c \in Containers, ReleaseUnrecorded(p, c)
        PROVE  Shrinks
    BY <1>1, <1>3, <2>3 DEF TypeOK, ReleaseUnrecorded, Requested
  <2> QED BY <2>1, <2>2, <2>3
<1>6. \A q \in Listeners \ {p} : Still(q) BY <1>4, <1>5 DEF Still
<1>7. InfoMove(p) BY <1>4 DEF InfoMove
<1>8. \A i \in Inodes : flock'[p][i] # "none" =>
         flock'[p][i] = flock[p][i] /\ \E e \in FDs : fdt'[p][e] = i
  BY <1>4 DEF SafeInv, FileLockInv
<1> QED BY <1>2, <1>3, <1>4, <1>5, <1>6, <1>7, <1>8, LetGoSafe

LEMMA ReleaseSafe ==
  ASSUME SafeInv, TypeInv', NEW p \in Listeners, NEW c \in Containers, Release(p, c)
  PROVE  SafeInv'
<1> USE DEF Release, fsVars, infoVars, callVars, purgeVars
<1>1. TypeOK /\ Knows(p) BY DEF SafeInv, TypeInv
<1>2. /\ fd[p] = None /\ infoLock[p] = "none" /\ cached[p] \subseteq Requested(p)
      /\ attempt[p] = 2 => cached[p] = {}
  BY OutsideCall
<1> DEFINE d == dlocks[p][RealFile[c]]
<1>3. d \in FDs BY <1>1, CacheAssumption DEF TypeOK
<1>4. /\ \A q \in Listeners \ {p} : flock'[q] = flock[q] /\ fdt'[q] = fdt[q]
      /\ \A i \in Inodes : flock'[p][i] # "none" =>
           flock'[p][i] = flock[p][i] /\ \E e \in FDs : fdt'[p][e] = i
  <2>1. CASE fdt[p][d] \in Inodes BY <1>3, <2>1, CloseKeeps
  <2>2. CASE fdt[p][d] = None
    <3>1. flock' = flock BY <1>1, <2>2, CacheAssumption DEF TypeOK, Close
    <3>2. fdt' = fdt BY <1>1, <1>3, <2>2 DEF TypeOK, Close
    <3> QED BY <3>1, <3>2 DEF SafeInv, FileLockInv
  <2> QED BY <1>1, <1>3, <2>1, <2>2 DEF TypeOK
<1>5. /\ cached'[p] = cached[p] \ {c}
      /\ \A q \in Listeners \ {p} : cached'[q] = cached[q]
  BY <1>1 DEF TypeOK
<1>6. \A q \in Listeners \ {p} : Still(q) BY <1>4, <1>5 DEF Still
<1>7. InfoMove(p) BY DEF InfoMove
<1>8. cached'[p] \subseteq Requested(p)' BY <1>2, <1>5 DEF Requested
<1> QED BY <1>2, <1>4, <1>5, <1>6, <1>7, <1>8, LetGoSafe

\* Without crashes a process ends only between requests, or in end_request().
LEMMA DieSafe ==
  ASSUME Undisturbed, SafeInv, TypeInv', NEW p \in Listeners, Die(p) PROVE SafeInv'
<1> USE DEF Die, Goto, ForgetCall, fsVars, infoVars
<1>1. TypeOK BY DEF SafeInv, TypeInv
<1>2. pc[p] \in {"idle", "ending"} BY DEF Undisturbed
<1>3. /\ pc'[p] = "boot" /\ infoLock'[p] = "none" /\ fd'[p] = None /\ attempt'[p] = 1
      /\ cached'[p] = {} /\ \A i \in Inodes : flock'[p][i] = "none"
  BY <1>1 DEF TypeOK
<1>4. \A q \in Listeners \ {p} : Still(q) BY <1>1 DEF TypeOK, Still
<1>5. InfoMove(p) BY <1>1, <1>3 DEF InfoMove
<1> QED BY <1>2, <1>3, <1>4, <1>5, LetGoSafe

LEMMA SafeNext ==
  ASSUME Undisturbed, SafeInv, [Next]_vars PROVE SafeInv'
<1>1. TypeInv' BY TypeNext DEF SafeInv
<1>2. CASE UNCHANGED vars
  BY <1>1, <1>2 DEF vars, SafeInv, InfoLockInv, FileLockInv, FileWritable, DirInv, PartInv,
     CreateNeverBlocks, Complete, Target, Ino, Requested, Knows, KnowsLock, KnowsFile, KnowsCall,
     KnowsRequest, KnowsPins, HasFile, Hit, Miss
<1>3. ASSUME NEW p \in Listeners, Step(p) PROVE SafeInv'
  <2>1. CASE Boot(p) BY <1>1, <2>1, SafeBoot
  <2>2. CASE GetReadLock(p)
    BY <1>1, <2>2, RdCacheSafe, RdOpenSafe, RdMissSafe, RdLockSafe, RdUnlockSafe DEF GetReadLock
  <2>3. CASE CreateAndLock(p)
    BY <1>1, <2>3, CrCacheSafe, CrOpenSafe, CrExistsSafe, CrLockSafe, CrUnlockSafe
    DEF CreateAndLock
  <2>4. CASE Fill(p) BY <1>1, <2>4, FillSafe
  <2>5. CASE UpdateAndPurge(p)
    BY <1>1, <2>5, PurgeLockSafe, PurgeStatSafe, PurgeScannedSafe, PurgeSkipSafe, PurgeTriedSafe,
       PurgeEndSafe
    DEF UpdateAndPurge
  <2>6. CASE OpenFails(p) \/ LockFails(p) BY <1>1, <2>6, OpenFailsSafe, LockFailsSafe
  <2>7. CASE RequestDone(p) \/ \E c \in Containers : Release(p, c) \/ ReleaseUnrecorded(p, c)
    BY <1>1, <2>7, EndSafe, ReleaseSafe
  <2> QED BY <1>3, <2>1, <2>2, <2>3, <2>4, <2>5, <2>6, <2>7 DEF Step
<1>4. ASSUME NEW p \in Listeners, Environment(p) PROVE SafeInv'
  BY <1>1, <1>4, AccessSafe, EndSafe, DieSafe DEF Environment
<1> QED BY <1>2, <1>3, <1>4 DEF Next

\* What a process pins is whole.
LEMMA SafeInvUse == SafeInv => UseSafe
<1> SUFFICES ASSUME SafeInv, NEW p \in Listeners, NEW f \in InUse(p) PROVE Complete(f)
  BY DEF UseSafe
<1>1. pc[p] # "ending" /\ \E c \in cached[p] : f = RealFile[c] BY DEF InUse
<1> QED BY <1>1 DEF SafeInv, Knows, KnowsPins

LEMMA SafeInvAlways == ASSUME Undisturbed PROVE Spec => []SafeInv
<1>1. Init => SafeInv BY SafeInit
<1>2. SafeInv /\ [Next]_vars => SafeInv' BY SafeNext
<1> QED BY <1>1, <1>2, PTL DEF Spec

\* A file that access() returned stays whole and in place until end_request(),
\* however many listeners fill, read and purge the cache: the locks of
\* BESCache3.cc are enough, as long as no decompression throws, no listener
\* dies in a call, and a request has one container.
THEOREM UseSafeHolds == ASSUME Undisturbed PROVE Spec => []UseSafe
BY SafeInvAlways, SafeInvUse, PTL

\* create_and_lock() never waits for the lock on the file it has just made.
THEOREM CreateNeverBlocksHolds == ASSUME Undisturbed PROVE Spec => []CreateNeverBlocks
<1>1. SafeInv => CreateNeverBlocks BY DEF SafeInv
<1> QED BY <1>1, SafeInvAlways, PTL
-----------------------------------------------------------------------------
(* The cache lock, whatever fails or dies.                                 *)

LockInv == TypeInv /\ \A p \in Listeners : KnowsLock(p)

LEMMA LockInit == Init => LockInv
BY TypeInit DEF Init, LockInv, KnowsLock, Writing, Reading

LEMMA LockNext == LockInv /\ [Next]_vars => LockInv'
<1> SUFFICES ASSUME LockInv, [Next]_vars PROVE LockInv' OBVIOUS
<1> USE DEF LockInv, KnowsLock, Writing, Reading
<1>1. TypeInv' BY TypeNext
<1>2. TypeOK BY DEF TypeInv
<1>3. CASE UNCHANGED vars BY <1>1, <1>3 DEF vars
<1>4. ASSUME NEW p \in Listeners, Step(p) \/ Environment(p) PROVE LockInv'
  <2>1. /\ \A q \in Listeners \ {p} : pc'[q] = pc[q] /\ infoLock'[q] = infoLock[q]
        /\ KnowsLock(p)'
    <3> USE <1>2 DEF TypeOK, LockModes, Goto, LockInfo, infoVars, fdVars, callVars, reqVars
    <3>1. CASE Boot(p)
      BY <3>1 DEF Boot, BootCreate, BootOpen, BootLock, BootWrite
    <3>2. CASE GetReadLock(p)
      BY <3>2 DEF GetReadLock, RdCache, RdOpen, RdMiss, RdLock, RdUnlock, Return
    <3>3. CASE CreateAndLock(p)
      BY <3>3 DEF CreateAndLock, CrCache, CrOpen, CrExists, CrLock, CrUnlock
    <3>4. CASE Fill(p)
      BY <3>4 DEF Fill, DecompressSome, DecompressEnd, DecompressFail, ToShared, UpdLock, UpdInfo,
         UpdFail, Raise, Return
    <3>5. CASE UpdateAndPurge(p)
      BY <3>5 DEF UpdateAndPurge, PurgeLock, PurgeStat, PurgeScanned, Purging, PurgeSkip,
         PurgeInUse, PurgeRemove, PurgeEnd, Return
    <3>6. CASE OpenFails(p) \/ LockFails(p) BY <3>6 DEF OpenFails, LockFails, Raise
    <3>7. CASE \/ \E c \in Containers : Release(p, c) \/ ReleaseUnrecorded(p, c)
               \/ RequestDone(p)
      BY <3>7 DEF Release, ReleaseUnrecorded, RequestDone
    <3>8. CASE Environment(p) BY <3>8 DEF Environment, Access, EndRequest, Die
    <3> QED BY <1>4, <3>1, <3>2, <3>3, <3>4, <3>5, <3>6, <3>7, <3>8 DEF Step
  <2> QED BY <1>1, <2>1
<1> QED BY <1>3, <1>4 DEF Next

\* No way out of uncompress() leaves the cache locked, the throws of a failed
\* open, a failed decompression and a refused lock included.
THEOREM CacheUnlockedOutsideHolds == Spec => []CacheUnlockedOutside
<1>1. LockInv => CacheUnlockedOutside
  BY DEF LockInv, KnowsLock, Writing, Reading, TypeInv, TypeOK, LockModes, CacheUnlockedOutside
<1> QED BY <1>1, LockInit, LockNext, PTL DEF Spec
-----------------------------------------------------------------------------
(* The promise of BESCache3.h: the processes refine the pinned cache.      *)

\* The others keep their place and their containers.
Alone(p) == \A q \in Listeners \ {p} : pc'[q] = pc[q] /\ cached'[q] = cached[q]

\* A step that changes no file and gives p no new container unpins some files
\* of p, or none.
LetsGo(p) ==
  /\ UNCHANGED <<dir, written>> /\ Alone(p)
  /\ cached'[p] \subseteq cached[p]
  /\ pc[p] = "ending" => pc'[p] = "ending" \/ cached'[p] = {}

LEMMA OthersInUse ==
  ASSUME NEW p \in Listeners, Alone(p), NEW q \in Listeners, q # p
  PROVE  InUse(q)' = InUse(q)
BY DEF Alone, InUse

LEMMA LetsGoUnpins ==
  ASSUME NEW p \in Listeners, LetsGo(p)
  PROVE  Pinned!Unpin(p)
<1>1. {f \in Files : Complete(f)}' = {f \in Files : Complete(f)}
  BY DEF LetsGo, Complete
<1>2. InUse(p)' \subseteq InUse(p)
  BY DEF LetsGo, InUse
<1>3. \A q \in Listeners : q # p => InUse(q)' = InUse(q)
  BY OthersInUse DEF LetsGo
<1>4. InUse(p)' \in SUBSET [q \in Listeners |-> InUse(q)][p]
  BY <1>2
<1>5. [q \in Listeners |-> InUse(q)]' = [[q \in Listeners |-> InUse(q)] EXCEPT ![p] = InUse(p)']
  BY <1>3
<1> QED
  BY <1>1, <1>4, <1>5 DEF Pinned!Unpin

\* access() returns a file that is whole.
LEMMA ReturnPins ==
  ASSUME SafeInv, NEW p \in Listeners, UNCHANGED <<dir, written>>, Return(p, TRUE),
         pc[p] \in InCall, Complete(Target(p))
  PROVE  \E f \in Files : Pinned!Pin(p, f)
<1> USE DEF SafeInv, TypeInv, TypeOK
<1>1. /\ pc'[p] = "idle" /\ cached'[p] = cached[p] \cup {cur[p]} /\ Alone(p)
      /\ pc[p] # "ending" /\ cur[p] \in Containers
  BY DEF Return, Goto, Alone, InCall, CurOK
<1>2. Target(p) \in Files
  BY <1>1, CacheAssumption DEF Target
<1>3. {f \in Files : Complete(f)}' = {f \in Files : Complete(f)}
  BY DEF Complete
<1>4. InUse(p)' = InUse(p) \cup {Target(p)}
  BY <1>1 DEF InUse, Target
<1>5. [q \in Listeners |-> InUse(q)]' =
        [[q \in Listeners |-> InUse(q)] EXCEPT ![p] = @ \cup {Target(p)}]
  BY <1>1, <1>4, OthersInUse
<1>6. Target(p) \in {f \in Files : Complete(f)}
  BY <1>2
<1> QED
  BY <1>2, <1>3, <1>5, <1>6 DEF Pinned!Pin

\* A file is made, empty.
LEMMA CrOpenPinned ==
  ASSUME SafeInv, NEW p \in Listeners, CrOpen(p)
  PROVE  UNCHANGED Pinned!pinVars
<1> USE DEF SafeInv, TypeInv, TypeOK
<1>1. pc' = [pc EXCEPT ![p] = "crLock"] /\ cached' = cached /\ pc[p] = "crOpen" /\ dir[Target(p)] = None
  BY DEF CrOpen, Goto, reqVars
<1>2. PICK i \in FreeInodes : dir' = [dir EXCEPT ![Target(p)] = i] /\ written' = [written EXCEPT ![i] = 0]
  BY DEF CrOpen
<1>3. i \in Inodes /\ \A f \in Files : dir[f] # i
  BY <1>2 DEF FreeInodes
<1>4. Target(p) \in Files
  BY <1>1, CacheAssumption DEF Target, CurOK, InCall, Labels
<1>5. ASSUME NEW f \in Files PROVE Complete(f)' <=> Complete(f)
  <2>1. CASE f = Target(p)
    <3>1. ~Complete(f)
      BY <1>1, <2>1 DEF Complete
    <3>2. dir'[f] = i /\ written'[i] = 0 /\ SizeOf[f] # 0
      BY <1>2, <1>3, <1>4, <2>1, CacheAssumption
    <3> QED
      BY <3>1, <3>2 DEF Complete
  <2>2. CASE f # Target(p)
    BY <1>2, <1>3, <2>2, CacheAssumption DEF Complete
  <2> QED
    BY <2>1, <2>2
<1>6. {f \in Files : Complete(f)}' = {f \in Files : Complete(f)}
  BY <1>5
<1>7. \A q \in Listeners : InUse(q)' = InUse(q)
  BY <1>1 DEF InUse
<1> QED
  BY <1>6, <1>7 DEF Pinned!pinVars

\* The last byte adds the file.
LEMMA DecompressSomePinned ==
  ASSUME SafeInv, NEW p \in Listeners, DecompressSome(p)
  PROVE  \E f \in Files : Pinned!Add(f) \/ UNCHANGED Pinned!pinVars
<1> USE DEF SafeInv, TypeInv, TypeOK
<1> DEFINE f == Target(p)
<1>1. /\ pc' = pc /\ cached' = cached /\ dir' = dir /\ pc[p] = "decompress"
      /\ written[Ino(p)] < SizeOf[f] /\ written' = [written EXCEPT ![Ino(p)] = @ + 1]
  BY DEF DecompressSome, reqVars
<1>2. f \in Files
  BY <1>1, CacheAssumption DEF Target, CurOK, InCall, Labels
<1>3. dir[f] \in Inodes /\ Ino(p) = dir[f]
  BY <1>1 DEF Knows, KnowsFile, HasFile, Filling
<1>4. ~Complete(f)
  BY <1>1, <1>2, <1>3, CacheAssumption DEF Complete
<1>5. ASSUME NEW g \in Files, g # f PROVE Complete(g)' <=> Complete(g)
  <2>1. dir[g] # None => dir[g] # dir[f]
    BY <1>2, <1>5 DEF DirInv
  <2> QED
    BY <1>1, <1>3, <2>1 DEF Complete
<1>6. \A q \in Listeners : InUse(q)' = InUse(q)
  BY <1>1 DEF InUse
<1>7. [q \in Listeners |-> InUse(q)]' = [q \in Listeners |-> InUse(q)]
  BY <1>6
<1>8. \/ {g \in Files : Complete(g)}' = {g \in Files : Complete(g)} \cup {f}
      \/ {g \in Files : Complete(g)}' = {g \in Files : Complete(g)}
  BY <1>2, <1>4, <1>5
<1> QED
  BY <1>2, <1>7, <1>8 DEF Pinned!Add, Pinned!pinVars

\* Whoever purges a file that is in use fails to lock it.
LEMMA PurgeRemovePinned ==
  ASSUME SafeInv, NEW p \in Listeners, NEW e \in scan[p], PurgeRemove(p, e)
  PROVE  \E f \in Files : Pinned!Evict(f)
<1> USE DEF SafeInv, TypeInv, TypeOK
<1> DEFINE f == e.file
<1>1. f \in Files
  BY DEF Entry
<1>2. /\ pc[p] = "purge" /\ pc' = pc /\ cached' = cached /\ written' = written
      /\ dir[f] # None /\ FileWritable(p, dir[f]) /\ dir' = [dir EXCEPT ![f] = None]
  BY DEF PurgeRemove, Purging, reqVars
<1>3. \A q \in Listeners : InUse(q)' = InUse(q)
  BY <1>2 DEF InUse
<1>4. [q \in Listeners |-> InUse(q)]' = [q \in Listeners |-> InUse(q)]
  BY <1>3
<1>5. {g \in Files : Complete(g)}' = {g \in Files : Complete(g)} \ {f}
  BY <1>1, <1>2 DEF Complete
<1>6. ASSUME NEW q \in Listeners, f \in InUse(q) PROVE FALSE
  <2>1. PICK c \in cached[q] : f = RealFile[c] /\ pc[q] # "ending"
    BY <1>6 DEF InUse
  <2>2. flock[q][dir[f]] = "read"
    BY <2>1 DEF Knows, KnowsPins
  <2>3. q = p
    BY <1>2, <2>2 DEF FileWritable
  <2> QED
    BY <1>2, <2>1, <2>3 DEF Knows, KnowsRequest, Filled
<1>7. \A q \in Listeners : f \notin [r \in Listeners |-> InUse(r)][q]
  BY <1>6
<1> QED
  BY <1>1, <1>4, <1>5, <1>7 DEF Pinned!Evict

\* All other steps change no file; those that do not return a file give the
\* process no container.
LEMMA StepPinned ==
  ASSUME SafeInv, NEW p \in Listeners, Step(p) \/ Environment(p)
  PROVE  Pinned!PinNext \/ UNCHANGED Pinned!pinVars
<1> USE DEF SafeInv, TypeInv, TypeOK, Goto, fsVars, infoVars, fdVars, callVars, reqVars
<1>1. LetsGo(p) => Pinned!PinNext
  BY LetsGoUnpins DEF Pinned!PinNext
<1>2. CASE Boot(p)
  <2>1. LetsGo(p)
    BY <1>2 DEF LetsGo, Alone, Boot, BootCreate, BootOpen, BootLock, BootWrite
  <2> QED
    BY <1>1, <2>1
<1>3. CASE GetReadLock(p)
  <2>1. CASE RdUnlock(p) /\ Return(p, TRUE) /\ Hit(p)
    <3>1. Complete(Target(p)) /\ pc[p] \in InCall /\ UNCHANGED <<dir, written>>
      BY <2>1 DEF RdUnlock, Hit, InCall, Labels, Knows, KnowsCall
    <3> QED
      BY <2>1, <3>1, ReturnPins DEF Pinned!PinNext
  <2>2. CASE RdUnlock(p) /\ ~(Return(p, TRUE) /\ Hit(p))
    <3>1. LetsGo(p)
      BY <2>2 DEF LetsGo, Alone, RdUnlock, Return, Hit
    <3> QED
      BY <1>1, <3>1
  <2>3. CASE RdCache(p) \/ RdOpen(p) \/ RdMiss(p) \/ RdLock(p)
    <3>1. LetsGo(p)
      BY <2>3 DEF LetsGo, Alone, RdCache, RdOpen, RdMiss, RdLock
    <3> QED
      BY <1>1, <3>1
  <2> QED
    BY <1>3, <2>1, <2>2, <2>3 DEF GetReadLock
<1>4. CASE CreateAndLock(p)
  <2>1. CASE CrOpen(p)
    BY <2>1, CrOpenPinned
  <2>2. CASE CrCache(p) \/ CrExists(p) \/ CrLock(p) \/ CrUnlock(p)
    <3>1. LetsGo(p)
      BY <2>2 DEF LetsGo, Alone, CrCache, CrExists, CrLock, CrUnlock
    <3> QED
      BY <1>1, <3>1
  <2> QED
    BY <1>4, <2>1, <2>2 DEF CreateAndLock
<1>5. CASE Fill(p)
  <2>1. CASE DecompressSome(p)
    BY <2>1, DecompressSomePinned DEF Pinned!PinNext
  <2>2. CASE UpdInfo(p) /\ Return(p, TRUE)
    <3>1. Complete(Target(p)) /\ pc[p] \in InCall /\ UNCHANGED <<dir, written>>
      BY <2>2 DEF UpdInfo, Filled, InCall, Labels, Knows, KnowsCall
    <3> QED
      BY <2>2, <3>1, ReturnPins DEF Pinned!PinNext
  <2>3. CASE \/ DecompressEnd(p) \/ DecompressFail(p) \/ ToShared(p) \/ UpdLock(p) \/ UpdFail(p)
             \/ UpdInfo(p) /\ ~Return(p, TRUE)
    <3>1. LetsGo(p)
      BY <2>3 DEF LetsGo, Alone, DecompressEnd, DecompressFail, ToShared, UpdLock, UpdInfo, UpdFail, Raise
    <3> QED
      BY <1>1, <3>1
  <2> QED
    BY <1>5, <2>1, <2>2, <2>3 DEF Fill
<1>6. CASE UpdateAndPurge(p)
  <2>1. CASE PurgeEnd(p)
    <3>1. Complete(Target(p)) /\ pc[p] \in InCall /\ UNCHANGED <<dir, written>> /\ Return(p, TRUE)
      BY <2>1 DEF PurgeEnd, Filled, InCall, Labels, Knows, KnowsCall
    <3> QED
      BY <3>1, ReturnPins DEF Pinned!PinNext
  <2>2. ASSUME NEW e \in scan[p], PurgeRemove(p, e) PROVE Pinned!PinNext
    BY <2>2, PurgeRemovePinned DEF Pinned!PinNext
  <2>3. CASE \/ PurgeLock(p) \/ PurgeScanned(p) \/ \E f \in Files : PurgeStat(p, f)
             \/ \E e \in scan[p] : PurgeSkip(p, e) \/ PurgeInUse(p, e)
    <3>1. LetsGo(p)
      BY <2>3 DEF LetsGo, Alone, PurgeLock, PurgeScanned, PurgeStat, PurgeSkip, PurgeInUse, Purging
    <3> QED
      BY <1>1, <3>1
  <2> QED
    BY <1>6, <2>1, <2>2, <2>3 DEF UpdateAndPurge
<1>7. CASE OpenFails(p) \/ LockFails(p)
  <2>1. LetsGo(p)
    BY <1>7 DEF LetsGo, Alone, OpenFails, LockFails, Raise
  <2> QED
    BY <1>1, <2>1
<1>8. CASE RequestDone(p) \/ \E c \in Containers : Release(p, c) \/ ReleaseUnrecorded(p, c)
  <2>1. LetsGo(p)
    BY <1>8 DEF LetsGo, Alone, RequestDone, Release, ReleaseUnrecorded
  <2> QED
    BY <1>1, <2>1
<1>9. CASE Environment(p)
  <2>1. LetsGo(p)
    BY <1>9 DEF LetsGo, Alone, Environment, Access, EndRequest, Die
  <2> QED
    BY <1>1, <2>1
<1> QED
  BY <1>2, <1>3, <1>4, <1>5, <1>6, <1>7, <1>8, <1>9 DEF Step

\* BESCache3.h: what the processes do with locks, sizes and partial files is,
\* for their users, the pinned cache.
THEOREM ImplementsPinnedCacheHolds == ASSUME Undisturbed PROVE Spec => ImplementsPinnedCache
<1>1. Init => Pinned!PinInit
  BY DEF Init, Pinned!PinInit, Complete, InUse
<1>2. SafeInv /\ [Next]_vars => [Pinned!PinNext]_Pinned!pinVars
  <2>1. CASE UNCHANGED vars
    BY <2>1 DEF vars, Pinned!pinVars, Complete, InUse
  <2>2. ASSUME SafeInv, NEW p \in Listeners, Step(p) \/ Environment(p)
        PROVE  Pinned!PinNext \/ UNCHANGED Pinned!pinVars
    BY <2>2, StepPinned
  <2> QED
    BY <2>1, <2>2 DEF Next
<1> QED
  BY <1>1, <1>2, SafeInvAlways, PTL DEF Spec, ImplementsPinnedCache, Pinned!PinSpec
-----------------------------------------------------------------------------
(* No ring of waiting processes.                                           *)

\* Only a process that fills a file has it locked exclusively.
FillInv ==
  \A p \in Listeners : \A i \in Inodes :
    flock[p][i] = "write" => pc[p] \in Filling /\ i = Ino(p)

\* A step that takes no exclusive lock, of a process that does not fill a file
\* or goes on with it.
LEMMA FillKept ==
  ASSUME FillInv, NEW p \in Listeners,
         \A q \in Listeners \ {p} : pc'[q] = pc[q] /\ fd'[q] = fd[q] /\ fdt'[q] = fdt[q] /\ flock'[q] = flock[q],
         \A i \in Inodes : flock'[p][i] = "write" => flock[p][i] = "write",
         \/ pc[p] \notin Filling
         \/ pc'[p] \in Filling /\ fd'[p] = fd[p] /\ fdt'[p] = fdt[p]
  PROVE  FillInv'
<1> SUFFICES ASSUME NEW q \in Listeners, NEW i \in Inodes, flock'[q][i] = "write"
             PROVE  pc'[q] \in Filling /\ i = Ino(q)'
  BY DEF FillInv
<1> QED
  BY DEF FillInv, Ino

LEMMA FillNext ==
  ASSUME Undisturbed, SafeInv, FillInv, NEW p \in Listeners, Step(p) \/ Environment(p)
  PROVE  FillInv'
<1> USE CacheAssumption DEF SafeInv, TypeInv, TypeOK, Goto, fsVars, infoVars, fdVars, callVars, reqVars, purgeVars
<1> DEFINE Others == \A q \in Listeners \ {p} :
                       pc'[q] = pc[q] /\ fd'[q] = fd[q] /\ fdt'[q] = fdt[q] /\ flock'[q] = flock[q]
           Fewer == \A i \in Inodes : flock'[p][i] = "write" => flock[p][i] = "write"
           On == \/ pc[p] \notin Filling
                 \/ pc'[p] \in Filling /\ fd'[p] = fd[p] /\ fdt'[p] = fdt[p]
<1>1. Others /\ Fewer /\ On => FillInv'
  BY FillKept
<1>2. CASE Boot(p)
  <2>1. Others /\ Fewer /\ On
    BY <1>2 DEF Boot, BootCreate, BootOpen, BootLock, BootWrite, Filling
  <2> QED
    BY <1>1, <2>1
<1>3. CASE RdCache(p) \/ RdMiss(p) \/ RdUnlock(p) \/ CrCache(p) \/ CrExists(p)
  <2>1. Others /\ Fewer /\ On
    BY <1>3 DEF RdCache, RdMiss, RdUnlock, Return, ForgetCall, CrCache, CrExists, Filling
  <2> QED
    BY <1>1, <2>1
<1>4. CASE RdOpen(p) \/ CrOpen(p)
  <2>1. Others /\ Fewer /\ On
    BY <1>4 DEF RdOpen, CrOpen, Filling
  <2> QED
    BY <1>1, <2>1
<1>5. CASE RdLock(p)
  <2>1. Others /\ Fewer /\ On
    BY <1>5 DEF RdLock, Filling
  <2> QED
    BY <1>1, <2>1
<1>6. CASE CrLock(p)
  <2>1. pc[p] = "crLock" /\ pc' = [pc EXCEPT ![p] = "crUnlock"] /\ fd' = fd /\ fdt' = fdt
        /\ flock' = [flock EXCEPT ![p][Ino(p)] = "write"]
    BY <1>6 DEF CrLock
  <2> SUFFICES ASSUME NEW q \in Listeners, NEW i \in Inodes, flock'[q][i] = "write"
               PROVE  pc'[q] \in Filling /\ i = Ino(q)'
    BY DEF FillInv
  <2>2. CASE q = p
    <3>1. i = Ino(p)
      BY <2>1, <2>2 DEF FillInv, Filling
    <3> QED
      BY <2>1, <2>2, <3>1 DEF Ino, Filling
  <2>3. CASE q # p
    BY <2>1, <2>3 DEF FillInv, Ino
  <2> QED
    BY <2>2, <2>3
<1>7. CASE CrUnlock(p) \/ DecompressSome(p) \/ DecompressEnd(p)
  <2>1. Others /\ Fewer /\ On
    BY <1>7 DEF CrUnlock, DecompressSome, DecompressEnd, Filling
  <2> QED
    BY <1>1, <2>1
<1>8. CASE ToShared(p)
  <2>1. pc[p] = "toShared" /\ pc' = [pc EXCEPT ![p] = "updLock"] /\ fd' = fd /\ fdt' = fdt
        /\ flock' = [flock EXCEPT ![p][Ino(p)] = "read"]
    BY <1>8 DEF ToShared
  <2> SUFFICES ASSUME NEW q \in Listeners, NEW i \in Inodes, flock'[q][i] = "write"
               PROVE  pc'[q] \in Filling /\ i = Ino(q)'
    BY DEF FillInv
  <2>2. q # p
    BY <2>1 DEF FillInv
  <2> QED
    BY <2>1, <2>2 DEF FillInv, Ino
<1>9. CASE UpdLock(p) \/ UpdInfo(p) \/ UpdFail(p)
  <2>1. Others /\ Fewer /\ On
    BY <1>9 DEF UpdLock, UpdInfo, UpdFail, Return, Raise, ForgetCall, Filling
  <2> QED
    BY <1>1, <2>1
<1>10. CASE PurgeLock(p) \/ PurgeScanned(p) \/ PurgeEnd(p) \/ \E f \in Files : PurgeStat(p, f)
  <2>1. Others /\ Fewer /\ On
    BY <1>10 DEF PurgeLock, PurgeScanned, PurgeEnd, PurgeStat, Return, ForgetCall, Filling
  <2> QED
    BY <1>1, <2>1
<1>11. CASE \E e \in scan[p] : PurgeSkip(p, e) \/ PurgeInUse(p, e) \/ PurgeRemove(p, e)
  <2>1. Others /\ Fewer /\ On
    BY <1>11 DEF PurgeSkip, PurgeInUse, PurgeRemove, Purging, Filling
  <2> QED
    BY <1>1, <2>1
<1>12. CASE OpenFails(p)
  <2>1. Others /\ Fewer /\ On
    BY <1>12 DEF OpenFails, Raise, ForgetCall, Filling
  <2> QED
    BY <1>1, <2>1
<1>13. CASE LockFails(p)
  <2>1. pc[p] \notin Filling
    BY <1>13, DeadlockedWaits DEF LockFails, WaitsFor, Filling
  <2>2. Raise(p) /\ (UNCHANGED <<fdt, flock>> \/ Close(p, fd[p]))
    BY <1>13 DEF LockFails
  <2>3. Others /\ Fewer /\ On
    BY <2>1, <2>2 DEF Raise, ForgetCall, Close
  <2> QED
    BY <1>1, <2>3
<1>14. CASE DecompressFail(p)
  BY <1>14 DEF DecompressFail, Undisturbed
<1>15. CASE RequestDone(p) \/ \E c \in Containers : ReleaseUnrecorded(p, c)
  <2>1. Others /\ Fewer /\ On
    BY <1>15 DEF RequestDone, ReleaseUnrecorded, Filling
  <2> QED
    BY <1>1, <2>1
<1>16. ASSUME NEW c \in Containers, Release(p, c) PROVE FillInv'
  <2>1. PICK d : Close(p, d)
    BY <1>16 DEF Release
  <2>2. /\ \A q \in Listeners \ {p} : fdt'[q] = fdt[q] /\ flock'[q] = flock[q]
        /\ Fewer
    BY <2>1 DEF Close
  <2>3. pc' = pc /\ fd' = fd /\ pc[p] \notin Filling
    BY <1>16 DEF Release, Filling
  <2> HIDE DEF TypeOK
  <2> QED
    BY <1>1, <2>2, <2>3
<1>17. CASE Environment(p)
  <2>1. CASE Die(p)
    <3>1. pc[p] \notin Filling
      BY <2>1 DEF Die, Filling, Undisturbed
    <3>2. \A q \in Listeners \ {p} : pc'[q] = pc[q] /\ fd'[q] = fd[q] /\ fdt'[q] = fdt[q] /\ flock'[q] = flock[q]
      BY <2>1 DEF Die, ForgetCall
    <3>3. Fewer
      BY <2>1 DEF Die
    <3> QED
      BY <1>1, <3>1, <3>2, <3>3
  <2>2. CASE EndRequest(p) \/ \E c \in Containers : Access(p, c)
    <3>1. Others /\ Fewer /\ On
      BY <2>2 DEF Access, EndRequest, Filling
    <3> QED
      BY <1>1, <3>1
  <2> QED
    BY <1>17, <2>1, <2>2 DEF Environment
<1> QED
  BY <1>2, <1>3, <1>4, <1>5, <1>6, <1>7, <1>8, <1>9, <1>10, <1>11, <1>12, <1>13, <1>14, <1>15, <1>16, <1>17
  DEF Step, GetReadLock, CreateAndLock, Fill, UpdateAndPurge

LEMMA FillInvAlways == ASSUME Undisturbed PROVE Spec => [](SafeInv /\ FillInv)
<1>1. Init => SafeInv /\ FillInv
  BY SafeInit DEF Init, FillInv
<1>2. SafeInv /\ FillInv /\ [Next]_vars => (SafeInv /\ FillInv)'
  <2>1. ASSUME SafeInv, FillInv, UNCHANGED vars PROVE FillInv'
    BY <2>1 DEF vars, FillInv, Ino
  <2>2. ASSUME SafeInv, FillInv, NEW p \in Listeners, Step(p) \/ Environment(p) PROVE FillInv'
    BY <2>2, FillNext
  <2> QED
    BY <2>1, <2>2, SafeNext DEF Next
<1> QED
  BY <1>1, <1>2, PTL DEF Spec

\* Whom a process waits for does not wait, unless it is reading a file that is
\* being filled; and who fills a file does not wait.
LEMMA WaitsEnd ==
  ASSUME SafeInv, FillInv, NEW p \in Listeners, NEW q \in Listeners, NEW r \in Listeners, NEW s \in Listeners,
         WaitsFor(p, q), WaitsFor(q, r), WaitsFor(r, s)
  PROVE  FALSE
<1> USE DEF SafeInv, TypeInv, TypeOK
<1>1. ASSUME NEW x \in Listeners, NEW y \in Listeners, NEW z \in Listeners, WaitsFor(x, y), WaitsFor(y, z)
      PROVE  pc[x] # "rdLock" /\ pc[x] # "crLock"
  <2>1. pc[y] \notin Filling
    BY <1>1 DEF WaitsFor, Filling
  <2>2. ASSUME pc[x] = "rdLock" PROVE FALSE
    <3>1. flock[y][Ino(x)] = "write" /\ Ino(x) \in Inodes
      BY <1>1, <2>2 DEF WaitsFor, Knows, KnowsFile, HasFile
    <3> QED
      BY <2>1, <3>1 DEF FillInv
  <2>3. ASSUME pc[x] = "crLock" PROVE FALSE
    BY <1>1, <2>3 DEF WaitsFor, CreateNeverBlocks, FileWritable
  <2> QED
    BY <2>2, <2>3
<1>2. pc[p] \notin {"rdLock", "crLock"} /\ pc[q] \notin {"rdLock", "crLock"}
  BY <1>1
<1>3. infoLock[q] # "none"
  BY <1>2 DEF WaitsFor
<1>4. pc[q] \in Writing \cup Reading
  BY <1>3 DEF Knows, KnowsLock, LockModes
<1> QED
  BY <1>2, <1>4 DEF WaitsFor, Writing, Reading

\* A ring would be a chain of any length.
LEMMA NeverDeadlocked ==
  ASSUME Undisturbed, SafeInv, FillInv, NEW p \in Listeners
  PROVE  ~Deadlocked(p)
<1> SUFFICES ASSUME Deadlocked(p) PROVE FALSE
  OBVIOUS
<1>1. Cardinality(Listeners) \in Nat
  BY FS_CardinalityType DEF Undisturbed
<1>2. PICK n \in 1..Cardinality(Listeners) : \E chain \in [0..n -> Listeners] :
        chain[0] = p /\ chain[n] = p /\ \A k \in 0..(n - 1) : WaitsFor(chain[k], chain[k + 1])
  BY DEF Deadlocked
<1>3. PICK chain \in [0..n -> Listeners] :
        chain[0] = p /\ chain[n] = p /\ \A k \in 0..(n - 1) : WaitsFor(chain[k], chain[k + 1])
  BY <1>2
<1> DEFINE Ring == {x \in Listeners : \E k \in 0..(n - 1) : x = chain[k]}
<1>4. ASSUME NEW x \in Ring PROVE \E y \in Ring : WaitsFor(x, y)
  <2>1. PICK k \in 0..(n - 1) : x = chain[k]
    OBVIOUS
  <2>2. n \in Nat /\ k + 1 \in 0..n /\ (k + 1 = n \/ k + 1 \in 0..(n - 1)) /\ 0 \in 0..(n - 1)
    BY <1>1
  <2>3. chain[k + 1] \in Listeners /\ WaitsFor(x, chain[k + 1])
    BY <1>3, <2>1, <2>2
  <2>4. chain[k + 1] \in Ring
    BY <1>3, <2>2, <2>3
  <2> QED
    BY <2>3, <2>4
<1>5. p \in Ring
  BY <1>1, <1>3
<1>6. Ring \subseteq Listeners
  OBVIOUS
<1> HIDE DEF Ring
<1>7. PICK q \in Ring : WaitsFor(p, q)
  BY <1>4, <1>5
<1>8. PICK r \in Ring : WaitsFor(q, r)
  BY <1>4, <1>7
<1>9. PICK s \in Ring : WaitsFor(r, s)
  BY <1>4, <1>8
<1> QED
  BY <1>6, <1>7, <1>8, <1>9, WaitsEnd

\* exclusive_to_shared_lock() and unlock_cache() come before whatever a process
\* waits for next: the kernel never finds a ring, so fcntl() never fails with
\* EDEADLK.
THEOREM NoDeadlockHolds == ASSUME Undisturbed PROVE Spec => []NoDeadlock
<1>1. SafeInv /\ FillInv => NoDeadlock
  BY NeverDeadlocked DEF NoDeadlock
<1> QED
  BY <1>1, FillInvAlways, PTL
-----------------------------------------------------------------------------
(* The recorded size.  It is a sum over a set of files, and that is a      *)
(* recursive function over the subsets of the set; these lemmas use that a *)
(* nonempty collection of finite sets has a smallest member.               *)

\* The bytes of the files in s, where d and w say what dir and written do.
Weight(w, d, f) == w[d[f]]
Bytes(w, d, s) == MapThenSumSet(LAMBDA f : w[d[f]], s)

LEMMA Smallest ==
  ASSUME NEW S, IsFiniteSet(S), NEW C, C \subseteq SUBSET S, C # {}
  PROVE  \E m \in C : \A r \in C : ~ (r \subseteq m /\ r # m)
<1>1. IsWellFoundedOn(StrictSubsetOrdering(S), FiniteSubsetsOf(S))
  BY FS_StrictSubsetOrderingWellFounded
<1>2. C \subseteq FiniteSubsetsOf(S)
  BY FS_Subset DEF FiniteSubsetsOf
<1>3. PICK m \in C : \A r \in C : ~ (<<r, m>> \in StrictSubsetOrdering(S))
  BY <1>1, <1>2, WFMin
<1>4. ASSUME NEW r \in C, r \subseteq m, r # m PROVE FALSE
  <2>1. <<r, m>> \in StrictSubsetOrdering(S)
    BY <1>4 DEF StrictSubsetOrdering
  <2> QED
    BY <2>1, <1>3
<1> QED
  BY <1>4

\* What is summed first.
First(s) == CHOOSE x \in s : TRUE

\* The function that Bytes() evaluates at the whole set.
Sums(w, d, s, f) == f = [r \in SUBSET s |-> IF r = {} THEN 0 ELSE Weight(w, d, First(r)) + f[r \ {First(r)}]]

LEMMA BytesIs == \A w, d, s : Bytes(w, d, s) = (CHOOSE f : Sums(w, d, s, f))[s]
BY DEF Bytes, MapThenSumSet, MapThenFoldSet, Sums, First, Weight

LEMMA SumsUnique ==
  ASSUME NEW w, NEW d, NEW s, IsFiniteSet(s), NEW f, NEW g, Sums(w, d, s, f), Sums(w, d, s, g)
  PROVE  f = g
<1> DEFINE C == {r \in SUBSET s : f[r] # g[r]}
<1>1. CASE C = {}
  <2>1. \A r \in SUBSET s : f[r] = g[r]
    BY <1>1
  <2>2. /\ f = [r \in SUBSET s |-> f[r]]
        /\ g = [r \in SUBSET s |-> g[r]]
    BY DEF Sums
  <2> QED
    BY <2>1, <2>2
<1>2. CASE C # {}
  <2>1. PICK m \in C : \A r \in C : ~ (r \subseteq m /\ r # m)
    <3>1. C \subseteq SUBSET s
      OBVIOUS
    <3> HIDE DEF C
    <3> QED
      BY <3>1, <1>2, Smallest
  <2>2. m # {}
    BY <2>1 DEF Sums
  <2>3. First(m) \in m
    BY <2>2 DEF First
  <2>4. f[m \ {First(m)}] = g[m \ {First(m)}]
    BY <2>1, <2>3
  <2> QED
    BY <2>1, <2>2, <2>4 DEF Sums
<1> QED
  BY <1>1, <1>2

\* Sums() has a solution: take Bytes() below the whole set.
LEMMA BytesStep ==
  ASSUME NEW w, NEW d, NEW S, IsFiniteSet(S)
  PROVE  \A s \in SUBSET S : Bytes(w, d, s) = IF s = {} THEN 0 ELSE Weight(w, d, First(s)) + Bytes(w, d, s \ {First(s)})
<1> DEFINE Fits(s) == Bytes(w, d, s) = IF s = {} THEN 0 ELSE Weight(w, d, First(s)) + Bytes(w, d, s \ {First(s)})
           C == {s \in SUBSET S : ~Fits(s)}
<1>1. CASE C # {}
  <2>1. PICK m \in C : \A r \in C : ~ (r \subseteq m /\ r # m)
    <3>1. C \subseteq SUBSET S
      OBVIOUS
    <3> HIDE DEF C
    <3> QED
      BY <3>1, <1>1, Smallest
  <2>2. IsFiniteSet(m)
    BY <2>1, FS_Subset
  <2>3. \A r \in SUBSET m : r # m => Fits(r)
    BY <2>1
  <2> DEFINE g == [r \in SUBSET m |-> IF r = {} THEN 0 ELSE Weight(w, d, First(r)) + Bytes(w, d, r \ {First(r)})]
  <2>4. \A r \in SUBSET m : r # m => g[r] = Bytes(w, d, r)
    BY <2>3
  <2>5. \A r \in SUBSET m : r # {} => r \ {First(r)} \in SUBSET m /\ r \ {First(r)} # m
    BY DEF First
  <2>6. Sums(w, d, m, g)
    <3> HIDE DEF Fits
    <3>1. \A r \in SUBSET m : r # {} => g[r \ {First(r)}] = Bytes(w, d, r \ {First(r)})
      BY <2>4, <2>5
    <3> QED
      BY <3>1 DEF Sums
  <2>7. (CHOOSE f : Sums(w, d, m, f)) = g
    <3> HIDE DEF g
    <3>1. Sums(w, d, m, CHOOSE f : Sums(w, d, m, f))
      BY <2>6
    <3> QED
      BY <3>1, <2>2, <2>6, SumsUnique
  <2>8. Bytes(w, d, m) = g[m]
    BY <2>7, BytesIs
  <2>9. Fits(m)
    BY <2>8
  <2> QED
    BY <2>1, <2>9
<1> QED
  BY <1>1

LEMMA BytesNat ==
  ASSUME NEW w, NEW d, NEW S, IsFiniteSet(S), \A u \in S : Weight(w, d, u) \in Nat
  PROVE  \A s \in SUBSET S : Bytes(w, d, s) \in Nat
<1> DEFINE C == {s \in SUBSET S : Bytes(w, d, s) \notin Nat}
<1>1. CASE C # {}
  <2>1. PICK m \in C : \A r \in C : ~ (r \subseteq m /\ r # m)
    <3>1. C \subseteq SUBSET S
      OBVIOUS
    <3> HIDE DEF C
    <3> QED
      BY <3>1, <1>1, Smallest
  <2>2. m # {} /\ Bytes(w, d, m) = Weight(w, d, First(m)) + Bytes(w, d, m \ {First(m)})
    <3>1. m \in SUBSET S /\ Bytes(w, d, m) \notin Nat
      BY <2>1
    <3>2. Bytes(w, d, m) = IF m = {} THEN 0 ELSE Weight(w, d, First(m)) + Bytes(w, d, m \ {First(m)})
      BY <3>1, BytesStep
    <3> QED
      BY <3>1, <3>2
  <2>3. First(m) \in m
    BY <2>2 DEF First
  <2>4. Bytes(w, d, m \ {First(m)}) \in Nat
    BY <2>1, <2>3
  <2> QED
    BY <2>1, <2>2, <2>3, <2>4
<1> QED
  BY <1>1

\* The order does not matter: any element can be taken first.
LEMMA BytesTake ==
  ASSUME NEW w, NEW d, NEW S, IsFiniteSet(S), \A u \in S : Weight(w, d, u) \in Nat
  PROVE  \A s \in SUBSET S : \A x \in s : Bytes(w, d, s) = Weight(w, d, x) + Bytes(w, d, s \ {x})
<1> DEFINE C == {s \in SUBSET S : \E x \in s : Bytes(w, d, s) # Weight(w, d, x) + Bytes(w, d, s \ {x})}
<1>1. CASE C # {}
  <2>1. PICK m \in C : \A r \in C : ~ (r \subseteq m /\ r # m)
    <3>1. C \subseteq SUBSET S
      OBVIOUS
    <3> HIDE DEF C
    <3> QED
      BY <3>1, <1>1, Smallest
  <2>2. PICK x \in m : Bytes(w, d, m) # Weight(w, d, x) + Bytes(w, d, m \ {x})
    BY <2>1
  <2> DEFINE y == First(m)
  <2>3. y \in m /\ Bytes(w, d, m) = Weight(w, d, y) + Bytes(w, d, m \ {y})
    BY <2>1, <2>2, BytesStep DEF First
  <2> HIDE DEF y
  <2>4. x # y
    BY <2>2, <2>3
  <2>5. m \ {x} \in SUBSET S /\ m \ {x} \notin C /\ m \ {y} \in SUBSET S /\ m \ {y} \notin C
    BY <2>1, <2>2, <2>3
  <2>6. Bytes(w, d, m \ {y}) = Weight(w, d, x) + Bytes(w, d, (m \ {y}) \ {x})
    BY <2>2, <2>4, <2>5
  <2>7. Bytes(w, d, m \ {x}) = Weight(w, d, y) + Bytes(w, d, (m \ {x}) \ {y})
    BY <2>3, <2>4, <2>5
  <2>8. (m \ {y}) \ {x} = (m \ {x}) \ {y}
    OBVIOUS
  <2>9. Bytes(w, d, (m \ {x}) \ {y}) \in Nat /\ Weight(w, d, x) \in Nat /\ Weight(w, d, y) \in Nat
    BY <2>1, <2>3, BytesNat
  <2>10. Bytes(w, d, m \ {y}) = Weight(w, d, x) + Bytes(w, d, (m \ {x}) \ {y})
    BY <2>6, <2>8
  <2> HIDE DEF C
  <2> QED
    BY <2>2, <2>3, <2>7, <2>9, <2>10
<1> QED
  BY <1>1

\* The space of what is left.
LEMMA BytesWithout ==
  ASSUME NEW w, NEW d, NEW S, IsFiniteSet(S), \A u \in S : Weight(w, d, u) \in Nat
  PROVE  \A s \in SUBSET S : Bytes(w, d, S) = Bytes(w, d, s) + Bytes(w, d, S \ s)
<1> DEFINE C == {s \in SUBSET S : Bytes(w, d, S) # Bytes(w, d, s) + Bytes(w, d, S \ s)}
<1>1. CASE C # {}
  <2>1. PICK m \in C : \A r \in C : ~ (r \subseteq m /\ r # m)
    <3>1. C \subseteq SUBSET S
      OBVIOUS
    <3> HIDE DEF C
    <3> QED
      BY <3>1, <1>1, Smallest
  <2>2. m # {}
    <3>1. Bytes(w, d, {}) = 0 /\ S \ {} = S /\ Bytes(w, d, S) \in Nat
      BY BytesStep, BytesNat
    <3>2. Bytes(w, d, S) # Bytes(w, d, m) + Bytes(w, d, S \ m)
      BY <2>1
    <3> HIDE DEF C
    <3> QED
      BY <3>1, <3>2
  <2>3. PICK x \in m : TRUE
    BY <2>2
  <2>4. Bytes(w, d, m) = Weight(w, d, x) + Bytes(w, d, m \ {x})
    BY <2>1, BytesTake
  <2>5. Bytes(w, d, S) = Bytes(w, d, m \ {x}) + Bytes(w, d, S \ (m \ {x}))
    BY <2>1
  <2>6. x \in S \ (m \ {x}) /\ (S \ (m \ {x})) \ {x} = S \ m
    BY <2>1
  <2>7. Bytes(w, d, S \ (m \ {x})) = Weight(w, d, x) + Bytes(w, d, S \ m)
    BY <2>6, BytesTake
  <2>8. Bytes(w, d, m \ {x}) \in Nat /\ Bytes(w, d, S \ m) \in Nat /\ Weight(w, d, x) \in Nat
    BY <2>1, BytesNat
  <2> QED
    BY <2>1, <2>4, <2>5, <2>7, <2>8
<1> QED
  BY <1>1

\* Only the blocks matter.
LEMMA BytesSame ==
  ASSUME NEW w, NEW d, NEW v, NEW e, NEW S, IsFiniteSet(S), \A u \in S : Weight(w, d, u) = Weight(v, e, u)
  PROVE  Bytes(w, d, S) = Bytes(v, e, S)
<1> DEFINE C == {s \in SUBSET S : Bytes(w, d, s) # Bytes(v, e, s)}
<1>1. CASE C # {}
  <2>1. PICK m \in C : \A q \in C : ~ (q \subseteq m /\ q # m)
    <3>1. C \subseteq SUBSET S
      OBVIOUS
    <3> HIDE DEF C
    <3> QED
      BY <3>1, <1>1, Smallest
  <2>2. m # {}
    BY <2>1, BytesStep
  <2>3. First(m) \in m
    BY <2>2 DEF First
  <2>4. Bytes(w, d, m \ {First(m)}) = Bytes(v, e, m \ {First(m)})
    BY <2>1, <2>3
  <2>5. m \in SUBSET S /\ Bytes(w, d, m) # Bytes(v, e, m)
    BY <2>1
  <2>6. /\ Bytes(w, d, m) = Weight(w, d, First(m)) + Bytes(w, d, m \ {First(m)})
        /\ Bytes(v, e, m) = Weight(v, e, First(m)) + Bytes(v, e, m \ {First(m)})
    BY <2>2, <2>5, BytesStep
  <2>7. Weight(w, d, First(m)) = Weight(v, e, First(m))
    BY <2>3, <2>5
  <2> QED
    BY <2>4, <2>5, <2>6, <2>7
<1> QED
  BY <1>1

\* Fewer files have fewer bytes.
LEMMA BytesFewer ==
  ASSUME NEW w, NEW d, NEW v, NEW e, NEW S, IsFiniteSet(S), \A u \in S : Weight(w, d, u) \in Nat,
         NEW R, R \subseteq S, \A u \in R : Weight(v, e, u) = Weight(w, d, u)
  PROVE  /\ Bytes(w, d, S) \in Nat /\ Bytes(v, e, R) \in Nat
         /\ Bytes(v, e, R) <= Bytes(w, d, S)
<1>1. IsFiniteSet(R)
  BY FS_Subset
<1>2. Bytes(w, d, R) = Bytes(v, e, R)
  BY <1>1, BytesSame
<1>3. R \in SUBSET S /\ S \ R \in SUBSET S /\ S \in SUBSET S
  OBVIOUS
<1>4. Bytes(w, d, R) \in Nat /\ Bytes(w, d, S \ R) \in Nat /\ Bytes(w, d, S) \in Nat
  BY <1>3, BytesNat
<1>5. Bytes(w, d, S) = Bytes(w, d, R) + Bytes(w, d, S \ R)
  BY <1>3, BytesWithout
<1> QED
  BY <1>2, <1>4, <1>5

\* One file adds its bytes at most.
LEMMA BytesMore ==
  ASSUME NEW w, NEW d, NEW S, IsFiniteSet(S), NEW x, \A u \in S \cup {x} : Weight(w, d, u) \in Nat,
         NEW R, R \subseteq S \cup {x}
  PROVE  Bytes(w, d, R) <= Bytes(w, d, S) + Weight(w, d, x)
<1> DEFINE T == S \cup {x}
<1>1. IsFiniteSet(T)
  BY FS_AddElement
<1>2. Bytes(w, d, R) \in Nat /\ Bytes(w, d, T) \in Nat /\ Bytes(w, d, R) <= Bytes(w, d, T)
  BY <1>1, BytesFewer
<1>3. T \in SUBSET T /\ x \in T
  OBVIOUS
<1>4. Bytes(w, d, T) = Weight(w, d, x) + Bytes(w, d, T \ {x})
  BY <1>1, <1>3, BytesTake
<1>5. T \ {x} \subseteq S
  OBVIOUS
<1>6. Bytes(w, d, T \ {x}) \in Nat /\ Bytes(w, d, S) \in Nat /\ Bytes(w, d, T \ {x}) <= Bytes(w, d, S)
  BY <1>5, BytesFewer
<1>7. Weight(w, d, x) \in Nat
  OBVIOUS
<1> HIDE DEF T
<1> QED
  BY <1>2, <1>4, <1>6, <1>7

-----------------------------------------------------------------------------
(* What a purge counts, and what the recorded size covers.                 *)

\* The files that RecordedSizeCovers counts.
Accounted == {f \in Files : Complete(f) /\ ~Unaccounted(f)}

\* The files that a purge has counted.
Counted(p) ==
  IF pc[p] = "purge" THEN Accounted ELSE {f \in Accounted : \E e \in scan[p] : e.file = f}

\* A purge has counted no less than what it will leave; no process that finds the
\* cache in order writes a size of 0.
Counts(p) ==
  /\ pc[p] \notin {"bootLock", "bootWrite"}
  /\ IF pc[p] \in {"purgeScan", "purge"}
     THEN /\ \A e \in scan[p] : e.file \in Accounted => e.size = SizeOf[e.file]
          /\ computed[p] >= Bytes(written, dir, Counted(p))
     ELSE scan[p] = {} /\ computed[p] = 0

CoverInv ==
  /\ infoFile = "sized" /\ infoSize >= Bytes(written, dir, Accounted)
  /\ \A p \in Listeners : Counts(p)

\* What the theorem on the recorded size needs besides.
FromStart == Undisturbed /\ InfoExists /\ IsFiniteSet(Files)

\* Where the file of a process is not yet added to the recorded size.
Adding == {"crLock", "crUnlock", "decompress", "toShared", "updLock", "updInfo"}

LEMMA AccountedFacts ==
  ASSUME IsFiniteSet(Files)
  PROVE  /\ IsFiniteSet(Accounted)
         /\ \A f \in Accounted : written[dir[f]] = SizeOf[f] /\ SizeOf[f] \in Nat /\ Weight(written, dir, f) = SizeOf[f]
<1>1. Accounted \subseteq Files
  BY DEF Accounted
<1> QED
  BY <1>1, FS_Subset, CacheAssumption DEF Accounted, Complete, Weight

\* Only the maker of a file can make it count.
LEMMA FewerAccounted ==
  ASSUME NEW p \in Listeners, \A q \in Listeners \ {p} : pc'[q] = pc[q] /\ cur'[q] = cur[q],
         pc[p] \in Adding => pc'[p] \in Adding /\ cur'[p] = cur[p],
         \A f \in Files : Complete(f)' => Complete(f) \/ Unaccounted(f)'
  PROVE  Accounted' \subseteq Accounted
<1>1. ASSUME NEW f \in Files, Unaccounted(f) PROVE Unaccounted(f)'
  <2>1. PICK q \in Listeners : pc[q] \in Adding /\ Target(q) = f
    BY <1>1 DEF Unaccounted, Adding
  <2>2. pc'[q] \in Adding /\ Target(q)' = f
    BY <2>1 DEF Target
  <2> QED
    BY <2>2 DEF Unaccounted, Adding
<1> QED
  BY <1>1 DEF Accounted

\* A step that makes no file count, and after which p has counted enough.
LEMMA CoverKept ==
  ASSUME IsFiniteSet(Files), TypeOK, CoverInv, NEW p \in Listeners,
         \A q \in Listeners \ {p} : pc'[q] = pc[q] /\ scan'[q] = scan[q] /\ computed'[q] = computed[q],
         Accounted' \subseteq Accounted, infoFile' = "sized",
         infoSize' = infoSize \/ infoSize' >= Bytes(written, dir, Accounted)', Counts(p)'
  PROVE  CoverInv'
<1>1. /\ IsFiniteSet(Accounted)
      /\ \A f \in Accounted : written[dir[f]] = SizeOf[f] /\ SizeOf[f] \in Nat /\ Weight(written, dir, f) = SizeOf[f]
  BY AccountedFacts
<1>2. \A f \in Accounted' : Weight(written', dir', f) = Weight(written, dir, f)
  BY <1>1 DEF Accounted, Complete, Weight
<1>3. infoSize' >= Bytes(written, dir, Accounted)'
  <2>1. CASE infoSize' = infoSize
    <3>1. /\ Bytes(written, dir, Accounted) \in Nat /\ Bytes(written', dir', Accounted') \in Nat
          /\ Bytes(written', dir', Accounted') <= Bytes(written, dir, Accounted)
      BY <1>1, <1>2, BytesFewer
    <3> QED
      BY <2>1, <3>1 DEF CoverInv, TypeOK
  <2> QED
    BY <2>1
<1>4. ASSUME NEW q \in Listeners, q # p PROVE Counts(q)'
  <2>1. pc'[q] = pc[q] /\ scan'[q] = scan[q] /\ computed'[q] = computed[q] /\ Counts(q)
    BY <1>4 DEF CoverInv
  <2>2. CASE pc[q] \in {"purgeScan", "purge"}
    <3>1. Counted(q)' \subseteq Counted(q) /\ Counted(q) \subseteq Accounted /\ Counted(q)' \subseteq Accounted'
      BY <2>1 DEF Counted
    <3>2. IsFiniteSet(Counted(q))
      BY <1>1, <3>1, FS_Subset
    <3>3. /\ Bytes(written, dir, Counted(q)) \in Nat /\ Bytes(written', dir', Counted(q)') \in Nat
          /\ Bytes(written', dir', Counted(q)') <= Bytes(written, dir, Counted(q))
      BY <1>1, <1>2, <3>1, <3>2, BytesFewer
    <3>4. computed[q] >= Bytes(written, dir, Counted(q)) /\ computed[q] \in Int
      BY <2>1, <2>2 DEF Counts, TypeOK
    <3>5. computed'[q] >= Bytes(written, dir, Counted(q))'
      BY <2>1, <3>3, <3>4
    <3> QED
      BY <2>1, <2>2, <3>5 DEF Counts
  <2>3. CASE pc[q] \notin {"purgeScan", "purge"}
    BY <2>1, <2>3 DEF Counts
  <2> QED
    BY <2>2, <2>3
<1> QED
  BY <1>3, <1>4 DEF CoverInv

\* So does a step that is not one of a purge.
Aside(p) ==
  /\ \A q \in Listeners \ {p} : /\ pc'[q] = pc[q] /\ cur'[q] = cur[q]
                                /\ scan'[q] = scan[q] /\ computed'[q] = computed[q]
  /\ pc'[p] \notin {"bootLock", "bootWrite", "purgeScan", "purge"}
  /\ \/ scan'[p] = {} /\ computed'[p] = 0
     \/ pc[p] \notin {"purgeScan", "purge"} /\ scan'[p] = scan[p] /\ computed'[p] = computed[p]
  /\ pc[p] \in Adding => pc'[p] \in Adding /\ cur'[p] = cur[p]
  /\ infoFile' = infoFile /\ infoSize' = infoSize

LEMMA AsideCovers ==
  ASSUME IsFiniteSet(Files), TypeOK, CoverInv, NEW p \in Listeners, Aside(p),
         \A f \in Files : Complete(f)' => Complete(f) \/ Unaccounted(f)'
  PROVE  CoverInv'
<1>1. Accounted' \subseteq Accounted
  BY FewerAccounted DEF Aside
<1>2. Counts(p)'
  BY DEF Aside, Counts, CoverInv
<1> QED
  BY <1>1, <1>2, CoverKept DEF Aside, CoverInv

LEMMA CrOpenCovers ==
  ASSUME IsFiniteSet(Files), SafeInv, CoverInv, NEW p \in Listeners, CrOpen(p)
  PROVE  CoverInv'
<1> USE DEF SafeInv, TypeInv, TypeOK
<1>1. Aside(p)
  BY DEF CrOpen, Goto, Aside, Adding, infoVars, reqVars, purgeVars
<1>2. PICK i \in FreeInodes : dir' = [dir EXCEPT ![Target(p)] = i] /\ written' = [written EXCEPT ![i] = 0]
  BY DEF CrOpen
<1>3. i \in Inodes /\ \A f \in Files : dir[f] # i
  BY <1>2 DEF FreeInodes
<1>4. ASSUME NEW f \in Files, Complete(f)' PROVE Complete(f)
  <2>1. SizeOf[f] # 0
    BY CacheAssumption
  <2>2. dir'[f] # i
    BY <1>2, <1>3, <1>4, <2>1 DEF Complete
  <2>3. dir'[f] = dir[f] /\ (dir[f] # None => written'[dir[f]] = written[dir[f]])
    BY <1>2, <1>3, <2>2, CacheAssumption
  <2> QED
    BY <1>4, <2>3 DEF Complete
<1> QED
  BY <1>1, <1>4, AsideCovers

LEMMA DecompressSomeCovers ==
  ASSUME IsFiniteSet(Files), SafeInv, CoverInv, NEW p \in Listeners, DecompressSome(p)
  PROVE  CoverInv'
<1> USE DEF SafeInv, TypeInv, TypeOK
<1>1. Aside(p)
  BY DEF DecompressSome, Goto, Aside, Adding, CoverInv, Counts, infoVars, callVars, purgeVars
<1>2. /\ pc' = pc /\ cur' = cur /\ dir' = dir /\ pc[p] = "decompress"
      /\ written' = [written EXCEPT ![Ino(p)] = @ + 1]
  BY DEF DecompressSome, callVars
<1>3. Target(p) \in Files /\ dir[Target(p)] \in Inodes /\ Ino(p) = dir[Target(p)]
  BY <1>2, CacheAssumption DEF Target, CurOK, InCall, Labels, Knows, KnowsFile, HasFile, Filling
<1>4. \A f : f = Target(p) => Unaccounted(f)'
  BY <1>2 DEF Unaccounted, Target
<1>5. ASSUME NEW f \in Files, f # Target(p), Complete(f)' PROVE Complete(f)
  <2>1. dir[f] # None => dir[f] # Ino(p)
    BY <1>3, <1>5 DEF DirInv
  <2> QED
    BY <1>2, <1>5, <2>1 DEF Complete
<1>6. \A f \in Files : Complete(f)' => Complete(f) \/ Unaccounted(f)'
  BY <1>4, <1>5
<1> QED
  BY <1>1, <1>6, AsideCovers

\* While one process writes the size, no other purges.
LEMMA OnePurges ==
  ASSUME SafeInv, NEW p \in Listeners, pc[p] \in Writing, NEW q \in Listeners, q # p
  PROVE  pc[q] \notin {"purgeScan", "purge", "crLock", "updInfo"}
BY DEF SafeInv, InfoLockInv, Knows, KnowsLock, Writing

LEMMA UpdInfoCovers ==
  ASSUME IsFiniteSet(Files), SafeInv, CoverInv, NEW p \in Listeners, UpdInfo(p)
  PROVE  CoverInv'
<1> USE DEF SafeInv, TypeInv, TypeOK
<1> DEFINE f == Target(p)
<1>1. /\ pc[p] = "updInfo" /\ dir' = dir /\ written' = written /\ infoFile' = infoFile
      /\ infoSize' = infoSize + written[dir[f]]
      /\ \/ pc' = [pc EXCEPT ![p] = "purgeLock"] /\ cur' = cur /\ scan' = scan /\ computed' = computed
         \/ pc' = [pc EXCEPT ![p] = "idle"] /\ ForgetCall(p)
  BY DEF UpdInfo, Return, Goto, fsVars, callVars, purgeVars
<1>2. /\ \A q \in Listeners \ {p} : /\ pc'[q] = pc[q] /\ cur'[q] = cur[q]
                                    /\ scan'[q] = scan[q] /\ computed'[q] = computed[q]
      /\ pc'[p] \in {"purgeLock", "idle"}
      /\ \/ scan'[p] = {} /\ computed'[p] = 0
         \/ scan'[p] = scan[p] /\ computed'[p] = computed[p]
  BY <1>1 DEF ForgetCall
<1>3. f \in Files /\ dir[f] \in Inodes /\ Complete(f)
  <2>1. cur[p] \in Containers
    BY <1>1 DEF CurOK, InCall, Labels
  <2>2. dir[f] \in Inodes /\ Complete(f)
    BY <1>1 DEF Knows, KnowsFile, KnowsCall, HasFile, Filled
  <2> QED
    BY <2>1, <2>2, CacheAssumption DEF Target
<1>4. Accounted' \subseteq Accounted \cup {f}
  <2> SUFFICES ASSUME NEW g \in Accounted', g # f PROVE g \in Accounted
    OBVIOUS
  <2>1. g \in Files /\ Complete(g) /\ ~Unaccounted(g)'
    BY <1>1 DEF Accounted, Complete
  <2>2. ASSUME Unaccounted(g) PROVE FALSE
    <3>1. PICK q \in Listeners : pc[q] \in Adding /\ Target(q) = g
      BY <2>2 DEF Unaccounted, Adding
    <3>2. q # p
      BY <3>1
    <3>3. pc'[q] \in Adding /\ Target(q)' = g
      BY <1>2, <3>1, <3>2 DEF Target
    <3> QED
      BY <2>1, <3>3 DEF Unaccounted, Adding
  <2> QED
    BY <2>1, <2>2 DEF Accounted
<1>5. /\ IsFiniteSet(Accounted)
      /\ \A u \in Accounted \cup {f} : Weight(written, dir, u) \in Nat
  BY <1>3, AccountedFacts DEF Weight
<1>6. Bytes(written, dir, Accounted') <= Bytes(written, dir, Accounted) + Weight(written, dir, f)
  BY <1>4, <1>5, BytesMore
<1>7. Bytes(written, dir, Accounted) \in Nat /\ Bytes(written, dir, Accounted') \in Nat
      /\ Weight(written, dir, f) \in Nat /\ infoSize \in Int /\ infoSize >= Bytes(written, dir, Accounted)
  <2>1. IsFiniteSet(Accounted \cup {f})
    BY <1>5, FS_AddElement
  <2>2. Bytes(written, dir, Accounted) \in Nat
    BY <1>5, BytesFewer
  <2>3. Bytes(written, dir, Accounted') \in Nat
    BY <1>4, <1>5, <2>1, BytesFewer
  <2> QED
    BY <1>5, <2>2, <2>3 DEF CoverInv
<1>8. infoSize' >= Bytes(written, dir, Accounted)'
  <2>1. infoSize' = infoSize + Weight(written, dir, f)
    BY <1>1 DEF Weight
  <2>2. infoSize' >= Bytes(written, dir, Accounted')
    BY <1>6, <1>7, <2>1
  <2> QED
    BY <1>1, <2>2
<1>9. ASSUME NEW q \in Listeners PROVE Counts(q)'
  <2>1. pc[q] \notin {"purgeScan", "purge"} /\ pc'[q] \notin {"purgeScan", "purge"}
    BY <1>1, <1>2, OnePurges DEF Writing
  <2> QED
    BY <1>2, <2>1 DEF Counts, CoverInv
<1> QED
  BY <1>1, <1>8, <1>9 DEF CoverInv

LEMMA PurgeScanCovers ==
  ASSUME IsFiniteSet(Files), SafeInv, CoverInv, NEW p \in Listeners,
         PurgeLock(p) \/ PurgeScanned(p) \/ \E f \in Files : PurgeStat(p, f)
  PROVE  CoverInv'
<1> USE DEF SafeInv, TypeInv, TypeOK, Goto, fsVars, infoVars, callVars, purgeVars
<1>1. /\ UNCHANGED <<dir, written, cur, infoFile, infoSize>>
      /\ \A q \in Listeners \ {p} : pc'[q] = pc[q] /\ scan'[q] = scan[q] /\ computed'[q] = computed[q]
      /\ pc[p] \in {"purgeLock", "purgeScan"} /\ pc'[p] \in {"purgeScan", "purge"}
  BY DEF PurgeLock, PurgeScanned, PurgeStat
<1>2. \A f \in Files : (Complete(f)' <=> Complete(f)) /\ (Unaccounted(f)' <=> Unaccounted(f))
  BY <1>1 DEF Complete, Unaccounted, Target
<1>3. Accounted' = Accounted
  BY <1>2 DEF Accounted
<1>4. Counts(p)
  BY DEF CoverInv
<1>5. /\ IsFiniteSet(Accounted)
      /\ \A f \in Accounted : written[dir[f]] = SizeOf[f] /\ SizeOf[f] \in Nat /\ Weight(written, dir, f) = SizeOf[f]
  BY AccountedFacts
<1>6. CASE PurgeLock(p)
  <2>1. scan'[p] = {} /\ computed'[p] = 0 /\ pc'[p] = "purgeScan"
    BY <1>4, <1>6 DEF PurgeLock, Counts
  <2>2. Counted(p)' = {}
    BY <2>1 DEF Counted
  <2>3. Bytes(written', dir', {}) = 0
    BY BytesStep, FS_EmptySet
  <2>4. Bytes(written, dir, Counted(p))' = 0
    BY <2>2, <2>3
  <2>5. Counts(p)'
    BY <2>1, <2>4 DEF Counts
  <2> QED
    BY <1>1, <1>3, <2>5, CoverKept DEF CoverInv
<1>7. ASSUME NEW f \in Files, PurgeStat(p, f) PROVE CoverInv'
  <2> DEFINE n == [file |-> f, size |-> written[dir[f]]]
  <2>1. /\ pc[p] = "purgeScan" /\ pc'[p] = "purgeScan" /\ dir[f] # None
        /\ scan'[p] = scan[p] \cup {n} /\ computed'[p] = computed[p] + written[dir[f]]
    BY <1>7 DEF PurgeStat
  <2>2. written[dir[f]] \in Nat
    BY <2>1
  <2>3. Counted(p)' \subseteq Counted(p) \cup {f} /\ Counted(p) \subseteq Accounted
    BY <1>3, <2>1 DEF Counted
  <2>4. IsFiniteSet(Counted(p))
    BY <1>5, <2>3, FS_Subset
  <2>5. \A u \in Counted(p) \cup {f} : Weight(written, dir, u) \in Nat
    BY <1>5, <2>2, <2>3 DEF Weight
  <2>6. Bytes(written, dir, Counted(p)') <= Bytes(written, dir, Counted(p)) + Weight(written, dir, f)
    BY <2>3, <2>4, <2>5, BytesMore
  <2>7. Bytes(written, dir, Counted(p)) \in Nat /\ Bytes(written, dir, Counted(p)') \in Nat
    <3>1. IsFiniteSet(Counted(p) \cup {f})
      BY <2>4, FS_AddElement
    <3>2. Bytes(written, dir, Counted(p)) \in Nat
      BY <2>4, <2>5, BytesFewer
    <3>3. Bytes(written, dir, Counted(p)') \in Nat
      BY <2>3, <2>5, <3>1, BytesFewer
    <3> QED
      BY <3>2, <3>3
  <2>8. computed[p] >= Bytes(written, dir, Counted(p)) /\ computed[p] \in Int
    BY <1>4, <2>1 DEF Counts
  <2>9. computed'[p] >= Bytes(written, dir, Counted(p))'
    <3>1. computed'[p] = computed[p] + Weight(written, dir, f) /\ Weight(written, dir, f) \in Nat
      BY <2>1, <2>2 DEF Weight
    <3>2. computed'[p] >= Bytes(written, dir, Counted(p)')
      BY <2>6, <2>7, <2>8, <3>1
    <3> QED
      BY <1>1, <3>2
  <2>10. \A e \in scan'[p] : e.file \in Accounted' => e.size = SizeOf[e.file]
    BY <1>3, <1>4, <1>5, <2>1 DEF Counts
  <2>11. Counts(p)'
    BY <2>1, <2>9, <2>10 DEF Counts
  <2> QED
    BY <1>1, <1>3, <2>11, CoverKept DEF CoverInv
<1>8. CASE PurgeScanned(p)
  <2>1. /\ pc[p] = "purgeScan" /\ pc'[p] = "purge" /\ scan'[p] \subseteq scan[p] /\ computed'[p] = computed[p]
        /\ \A f \in Files : dir[f] # None => \E e \in scan[p] : e.file = f
    BY <1>8 DEF PurgeScanned
  <2>2. Counted(p)' = Counted(p)
    BY <1>3, <2>1 DEF Counted, Accounted, Complete
  <2>3. computed'[p] >= Bytes(written, dir, Counted(p))'
    BY <1>1, <1>4, <2>1, <2>2 DEF Counts
  <2>4. Counts(p)'
    BY <1>3, <1>4, <2>1, <2>3 DEF Counts
  <2> QED
    BY <1>1, <1>3, <2>4, CoverKept DEF CoverInv
<1> QED
  BY <1>6, <1>7, <1>8

\* A file that a purge can lock is accounted for, and was when it was counted.
LEMMA PurgeRemoveCovers ==
  ASSUME IsFiniteSet(Files), SafeInv, CoverInv, NEW p \in Listeners, NEW e \in scan[p], PurgeRemove(p, e)
  PROVE  CoverInv'
<1> USE DEF SafeInv, TypeInv, TypeOK
<1> DEFINE f == e.file
<1>1. /\ pc[p] = "purge" /\ pc' = pc /\ cur' = cur /\ written' = written /\ infoFile' = infoFile /\ infoSize' = infoSize
      /\ dir[f] # None /\ f # Target(p) /\ FileWritable(p, dir[f]) /\ dir' = [dir EXCEPT ![f] = None]
      /\ scan' = [scan EXCEPT ![p] = @ \ {e}] /\ computed' = [computed EXCEPT ![p] = @ - e.size]
  BY DEF PurgeRemove, Purging, infoVars, callVars
<1>2. f \in Files /\ e.size \in Nat
  BY DEF Entry
<1>3. dir[f] \in Inodes
  BY <1>1, <1>2
<1>4. ASSUME NEW q \in Listeners, pc[q] \in Adding, Target(q) = f PROVE FALSE
  <2>1. q # p
    BY <1>1, <1>4 DEF Adding
  <2>2. pc[q] \notin {"crLock", "updInfo"}
    BY <1>1, <2>1, OnePurges DEF Writing
  <2>3. Knows(q) /\ pc[q] \in Filling \cup Filled
    BY <1>4, <2>2 DEF Adding, Filling, Filled
  <2>4. Ino(q) = dir[f] /\ flock[q][Ino(q)] # "none"
    BY <1>4, <2>3 DEF Knows, KnowsFile, KnowsCall, HasFile
  <2> QED
    BY <1>1, <2>1, <2>4 DEF FileWritable
<1>5. ~Unaccounted(f)
  BY <1>4 DEF Unaccounted, Adding
<1>6. Complete(f)
  BY <1>1, <1>2, <1>4 DEF PartInv, Adding
<1>7. f \in Accounted
  BY <1>2, <1>5, <1>6 DEF Accounted
<1>8. Accounted' = Accounted \ {f}
  <2>1. \A g \in Files : Unaccounted(g)' <=> Unaccounted(g)
    BY <1>1 DEF Unaccounted, Target
  <2>2. \A g \in Files : Complete(g)' <=> Complete(g) /\ g # f
    BY <1>1, <1>2 DEF Complete
  <2> QED
    BY <2>1, <2>2 DEF Accounted
<1>9. /\ IsFiniteSet(Accounted)
      /\ \A g \in Accounted : written[dir[g]] = SizeOf[g] /\ SizeOf[g] \in Nat /\ Weight(written, dir, g) = SizeOf[g]
  BY AccountedFacts
<1>10. Counts(p)
  BY DEF CoverInv
<1>11. e.size = SizeOf[f] /\ computed[p] >= Bytes(written, dir, Accounted) /\ computed[p] \in Int
  BY <1>1, <1>7, <1>10 DEF Counts, Counted
<1> HIDE DEF f, SafeInv, TypeInv, TypeOK
<1>12. Bytes(written, dir, Accounted) = SizeOf[f] + Bytes(written, dir, Accounted \ {f})
  <2>1. Accounted \in SUBSET Accounted /\ \A u \in Accounted : Weight(written, dir, u) \in Nat
    BY <1>9
  <2>2. Bytes(written, dir, Accounted) = Weight(written, dir, f) + Bytes(written, dir, Accounted \ {f})
    BY <1>7, <1>9, <2>1, BytesTake
  <2>3. Weight(written, dir, f) = SizeOf[f]
    BY <1>7, <1>9
  <2> QED
    BY <2>2, <2>3
<1>13. \A g \in Accounted \ {f} : Weight(written', dir', g) = Weight(written, dir, g)
  BY <1>1, <1>2, <1>9 DEF Accounted, Weight
<1>14. IsFiniteSet(Accounted \ {f})
  BY <1>9, FS_Subset
<1>15. /\ Bytes(written, dir, Accounted \ {f}) \in Nat /\ Bytes(written', dir', Accounted') \in Nat
       /\ Bytes(written', dir', Accounted') <= Bytes(written, dir, Accounted \ {f})
  <2>1. \A u \in Accounted \ {f} : Weight(written, dir, u) \in Nat
    BY <1>9
  <2>2. \A u \in Accounted' : Weight(written', dir', u) = Weight(written, dir, u)
    BY <1>8, <1>13
  <2> QED
    BY <1>8, <1>14, <2>1, <2>2, BytesFewer
<1>16. computed'[p] >= Bytes(written, dir, Accounted)'
  BY <1>1, <1>2, <1>11, <1>12, <1>15
<1>17. Counts(p)'
  BY <1>1, <1>8, <1>10, <1>16 DEF Counts, Counted
<1>18. TypeOK
  BY DEF SafeInv, TypeInv
<1>19. \A q \in Listeners \ {p} : pc'[q] = pc[q] /\ scan'[q] = scan[q] /\ computed'[q] = computed[q]
  BY <1>1, <1>18 DEF TypeOK
<1> QED
  BY <1>1, <1>8, <1>17, <1>18, <1>19, CoverKept DEF CoverInv

LEMMA PurgeTriedCovers ==
  ASSUME IsFiniteSet(Files), SafeInv, CoverInv, NEW p \in Listeners, NEW e \in scan[p],
         PurgeSkip(p, e) \/ PurgeInUse(p, e)
  PROVE  CoverInv'
<1> USE DEF SafeInv, TypeInv, TypeOK
<1>1. /\ pc[p] = "purge" /\ UNCHANGED <<dir, written, pc, cur, computed, infoFile, infoSize>>
      /\ scan' = [scan EXCEPT ![p] = @ \ {e}]
  BY DEF PurgeSkip, PurgeInUse, Purging, fsVars, infoVars, callVars
<1>2. \A f \in Files : (Complete(f)' <=> Complete(f)) /\ (Unaccounted(f)' <=> Unaccounted(f))
  BY <1>1 DEF Complete, Unaccounted, Target
<1>3. Accounted' = Accounted
  BY <1>2 DEF Accounted
<1>4. Counts(p) /\ Counted(p) = Accounted /\ Counted(p)' = Accounted
  BY <1>1, <1>3 DEF CoverInv, Counted
<1>5. computed'[p] >= Bytes(written, dir, Counted(p))'
  BY <1>1, <1>4 DEF Counts
<1>6. Counts(p)'
  BY <1>1, <1>3, <1>4, <1>5 DEF Counts
<1> QED
  BY <1>1, <1>3, <1>6, CoverKept DEF CoverInv

LEMMA PurgeEndCovers ==
  ASSUME IsFiniteSet(Files), SafeInv, CoverInv, NEW p \in Listeners, PurgeEnd(p)
  PROVE  CoverInv'
<1> USE DEF SafeInv, TypeInv, TypeOK
<1>1. /\ pc[p] = "purge" /\ pc' = [pc EXCEPT ![p] = "idle"] /\ dir' = dir /\ written' = written
      /\ infoFile' = "sized" /\ infoSize' = computed[p] /\ ForgetCall(p)
  BY DEF PurgeEnd, Return, Goto, fsVars
<1>2. /\ \A q \in Listeners \ {p} : /\ pc'[q] = pc[q] /\ cur'[q] = cur[q]
                                    /\ scan'[q] = scan[q] /\ computed'[q] = computed[q]
      /\ pc'[p] = "idle" /\ scan'[p] = {} /\ computed'[p] = 0
  BY <1>1 DEF ForgetCall
<1>3. \A f \in Files : Complete(f)' <=> Complete(f)
  BY <1>1 DEF Complete
<1>4. Accounted' \subseteq Accounted
  BY <1>1, <1>2, <1>3, FewerAccounted DEF Adding
<1>5. computed[p] >= Bytes(written, dir, Accounted) /\ computed[p] \in Int
  BY <1>1 DEF CoverInv, Counts, Counted
<1>6. /\ Bytes(written, dir, Accounted) \in Nat /\ Bytes(written', dir', Accounted') \in Nat
      /\ Bytes(written', dir', Accounted') <= Bytes(written, dir, Accounted)
  <2>1. /\ IsFiniteSet(Accounted) /\ \A u \in Accounted : Weight(written, dir, u) \in Nat
        /\ \A u \in Accounted' : Weight(written', dir', u) = Weight(written, dir, u)
    BY <1>1, AccountedFacts
  <2> QED
    BY <1>4, <2>1, BytesFewer
<1>7. infoSize' >= Bytes(written, dir, Accounted)'
  BY <1>1, <1>5, <1>6
<1>8. Counts(p)'
  BY <1>2 DEF Counts
<1> QED
  BY <1>1, <1>2, <1>4, <1>7, <1>8, CoverKept

LEMMA CoverNext ==
  ASSUME FromStart, SafeInv, FillInv, CoverInv, NEW p \in Listeners, Step(p) \/ Environment(p)
  PROVE  CoverInv'
<1> USE DEF SafeInv, TypeInv, TypeOK, Goto, fsVars, infoVars, fdVars, callVars, reqVars, purgeVars, FromStart
<1>1. UNCHANGED <<dir, written>> /\ Aside(p) => CoverInv'
  BY AsideCovers DEF Complete
<1>2. Counts(p) /\ infoFile = "sized"
  BY DEF CoverInv
<1>3. CASE Boot(p)
  <2>1. UNCHANGED <<dir, written>> /\ Aside(p)
    BY <1>2, <1>3 DEF Boot, BootCreate, BootOpen, BootLock, BootWrite, Aside, Adding, Counts
  <2> QED
    BY <1>1, <2>1
<1>4. CASE GetReadLock(p)
  <2>1. CASE RdUnlock(p)
    <3>1. UNCHANGED <<dir, written>> /\ Aside(p)
      BY <2>1 DEF RdUnlock, Return, ForgetCall, Aside, Adding
    <3> QED
      BY <1>1, <3>1
  <2>2. CASE RdCache(p) \/ RdOpen(p) \/ RdMiss(p) \/ RdLock(p)
    <3>1. UNCHANGED <<dir, written>> /\ Aside(p)
      BY <2>2 DEF RdCache, RdOpen, RdMiss, RdLock, Aside, Adding
    <3> QED
      BY <1>1, <3>1
  <2> QED
    BY <1>4, <2>1, <2>2 DEF GetReadLock
<1>5. CASE CreateAndLock(p)
  <2>1. CASE CrCache(p) \/ CrExists(p) \/ CrLock(p) \/ CrUnlock(p)
    <3>1. UNCHANGED <<dir, written>> /\ Aside(p)
      BY <2>1 DEF CrCache, CrExists, CrLock, CrUnlock, Aside, Adding
    <3> QED
      BY <1>1, <3>1
  <2> QED
    BY <1>5, <2>1, CrOpenCovers DEF CreateAndLock
<1>6. CASE Fill(p)
  <2>1. CASE DecompressEnd(p) \/ ToShared(p) \/ UpdLock(p)
    <3>1. UNCHANGED <<dir, written>> /\ Aside(p)
      BY <2>1 DEF DecompressEnd, ToShared, UpdLock, Aside, Adding
    <3> QED
      BY <1>1, <3>1
  <2>2. CASE DecompressFail(p)
    BY <2>2 DEF DecompressFail, Undisturbed
  <2>3. CASE UpdFail(p)
    <3>1. pc[p] = "updInfo" /\ dir[Target(p)] = None
      BY <1>2, <2>3 DEF UpdFail
    <3>2. dir[Target(p)] \in Inodes
      BY <3>1 DEF Knows, KnowsFile, HasFile, Filled
    <3> QED
      BY <3>1, <3>2, CacheAssumption
  <2> QED
    BY <1>6, <2>1, <2>2, <2>3, DecompressSomeCovers, UpdInfoCovers DEF Fill
<1>7. CASE UpdateAndPurge(p)
  BY <1>7, PurgeScanCovers, PurgeRemoveCovers, PurgeTriedCovers, PurgeEndCovers DEF UpdateAndPurge
<1>8. CASE OpenFails(p)
  <2>1. UNCHANGED <<dir, written>> /\ Aside(p)
    BY <1>8 DEF OpenFails, Raise, ForgetCall, Aside, Adding
  <2> QED
    BY <1>1, <2>1
<1>9. CASE LockFails(p)
  BY <1>9, NeverDeadlocked DEF LockFails
<1>10. CASE RequestDone(p) \/ \E c \in Containers : Release(p, c) \/ ReleaseUnrecorded(p, c)
  <2>1. UNCHANGED <<dir, written>> /\ Aside(p)
    BY <1>10 DEF RequestDone, Release, ReleaseUnrecorded, Aside, Adding
  <2> QED
    BY <1>1, <2>1
<1>11. CASE Environment(p)
  <2>1. CASE Die(p)
    <3>1. pc[p] \notin Adding
      BY <2>1 DEF Die, Adding, Undisturbed
    <3>2. UNCHANGED <<dir, written, infoFile, infoSize>> /\ pc' = [pc EXCEPT ![p] = "boot"] /\ ForgetCall(p)
      BY <2>1 DEF Die
    <3>3. UNCHANGED <<dir, written>> /\ Aside(p)
      BY <3>1, <3>2 DEF ForgetCall, Aside
    <3> QED
      BY <1>1, <3>3
  <2>2. CASE EndRequest(p) \/ \E c \in Containers : Access(p, c)
    <3>1. UNCHANGED <<dir, written>> /\ Aside(p)
      BY <1>2, <2>2 DEF Access, EndRequest, Aside, Adding, Counts
    <3> QED
      BY <1>1, <3>1
  <2> QED
    BY <1>11, <2>1, <2>2 DEF Environment
<1> QED
  BY <1>3, <1>4, <1>5, <1>6, <1>7, <1>8, <1>9, <1>10, <1>11 DEF Step

LEMMA CoverInit == ASSUME FromStart, Init PROVE CoverInv
<1>1. infoFile = "sized" /\ infoSize = 0
  BY DEF Init, FromStart
<1>2. Accounted = {}
  BY DEF Init, Accounted, Complete
<1>3. Bytes(written, dir, {}) = 0
  BY BytesStep, FS_EmptySet
<1>4. infoSize >= Bytes(written, dir, Accounted)
  BY <1>1, <1>2, <1>3
<1>5. \A p \in Listeners : Counts(p)
  BY DEF Init, Counts
<1> QED
  BY <1>1, <1>4, <1>5 DEF CoverInv

\* update_cache_info() and update_and_purge(): the recorded size never falls
\* below the size of the files that were added and are still there, so a full
\* cache is purged, if the cache has its info file from the start.
THEOREM RecordedSizeCoversHolds == ASSUME FromStart PROVE Spec => []RecordedSizeCovers
<1>1. Init => CoverInv
  BY CoverInit
<1>2. SafeInv /\ FillInv /\ CoverInv /\ [Next]_vars => CoverInv'
  <2>1. ASSUME CoverInv, UNCHANGED vars PROVE CoverInv'
    <3>1. UNCHANGED <<dir, written, infoFile, infoSize, pc, cur, scan, computed>>
      BY <2>1 DEF vars
    <3>2. Accounted' = Accounted
      BY <3>1 DEF Accounted, Complete, Unaccounted, Target
    <3>3. \A p \in Listeners : Counted(p)' = Counted(p)
      BY <3>1, <3>2 DEF Counted
    <3> QED
      BY <2>1, <3>1, <3>2, <3>3 DEF CoverInv, Counts
  <2> QED
    BY <2>1, CoverNext DEF Next
<1>3. CoverInv => RecordedSizeCovers
  BY DEF CoverInv, RecordedSizeCovers, Bytes, Accounted
<1>4. Undisturbed
  BY DEF FromStart
<1> QED
  BY <1>1, <1>2, <1>3, <1>4, FillInvAlways, PTL DEF Spec
=============================================================================
