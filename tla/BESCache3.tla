------------------------------ MODULE BESCache3 ------------------------------
(***************************************************************************)
(* The BES cache of decompressed data files.                               *)
(*                                                                         *)
(* Every beslistener process has one BESCache3 object; the processes share *)
(* nothing but a directory of cache files and the file bes.cache.info, and *)
(* coordinate with POSIX fcntl locks on both (dispatch/BESCache3.cc).  A   *)
(* request reaches the cache through BESFileContainer::access(), which     *)
(* runs BESUncompressManager3::uncompress(), and leaves it through         *)
(* BESFileContainer::release() in BESInterface::end_request().             *)
(*                                                                         *)
(* One action is one system call of the code, or a run of calls that no    *)
(* other process can observe half done.  Waiting is the guard of the       *)
(* action that takes the lock.  The kernel's part (who conflicts with      *)
(* whom, what close(2) does to a process's locks, EDEADLK) is modelled     *)
(* from POSIX.                                                             *)
(***************************************************************************)
EXTENDS Integers, FiniteSets, FiniteSetsExt

CONSTANTS
  Listeners,     \* the beslistener processes
  Files,         \* names of cache files (targets of uncompress())
  Containers,    \* the containers a request may name
  RealFile,      \* the cache file of each container
  SizeOf,        \* the decompressed size of each file
  Inodes,        \* what a directory entry or a descriptor refers to
  FDs,           \* descriptor numbers a process may have open
  MaxSize,       \* d_max_cache_size_in_bytes
  MaxContainers, \* how many containers one request may name
  MaxAccess,     \* how often a request calls access() on a container
  CanFail,       \* the processes whose decompression may throw
  CanCrash,      \* the processes that may die at any point
  InfoExists,    \* whether bes.cache.info is there at the start
  None           \* no inode, no descriptor, no container

ASSUME CacheAssumption ==
  /\ RealFile \in [Containers -> Files]
  /\ SizeOf \in [Files -> Nat \ {0}]
  /\ FDs \subseteq Nat
  /\ MaxSize \in Nat /\ MaxContainers \in Nat /\ MaxAccess \in Nat
  /\ CanFail \subseteq Listeners /\ CanCrash \subseteq Listeners
  /\ InfoExists \in BOOLEAN
  /\ None \notin Inodes /\ None \notin FDs /\ None \notin Containers

\* d_target_size = d_max_cache_size_in_bytes * 0.8, truncated.
TargetSize == (8 * MaxSize) \div 10

VARIABLES
  dir,       \* dir[f]: the inode the cache directory has for f, or None
  written,   \* written[i]: the bytes in inode i
  infoFile,  \* bes.cache.info: "absent", "empty" (created, not written), "sized"
  infoSize,  \* the size recorded in it
  infoLock,  \* infoLock[p]: the lock p has on it
  flock,     \* flock[p][i]: the lock p has on inode i
  fdt,       \* fdt[p][d]: the inode that descriptor d of p refers to, or None
  dlocks,    \* dlocks[p][f]: BESCache3::d_locks, the descriptor recorded for f
  pc,        \* where p is
  cur,       \* the container whose access() is running
  fd,        \* the local variable fd of uncompress()
  attempt,   \* which of the two get_read_lock() calls of uncompress() runs
  cached,    \* the containers of p's request whose _cached is true
  acc,       \* acc[p][c]: the access() calls made so far on c in the request
  scan,      \* the entries a purge has still to look at
  computed   \* computed_size of a purge

fsVars    == <<dir, written>>
infoVars  == <<infoFile, infoSize>>
fdVars    == <<flock, fdt, dlocks>>
callVars  == <<cur, fd, attempt>>
reqVars   == <<cached, acc>>
purgeVars == <<scan, computed>>
vars == <<dir, written, infoFile, infoSize, infoLock, flock, fdt, dlocks, pc,
          cur, fd, attempt, cached, acc, scan, computed>>

LockModes == {"none", "read", "write"}

Labels == {"boot", "bootLock", "bootWrite", "idle", "ending",
           "rdCache", "rdOpen", "rdLock", "rdUnlock",
           "crCache", "crOpen", "crLock", "crUnlock",
           "decompress", "toShared", "updLock", "updInfo",
           "purgeLock", "purgeScan", "purge"}

Entry == [file : Files, size : Nat]

TypeOK ==
  /\ dir \in [Files -> Inodes \cup {None}]
  /\ written \in [Inodes -> Nat]
  /\ infoFile \in {"absent", "empty", "sized"}
  /\ infoSize \in Int
  /\ infoLock \in [Listeners -> LockModes]
  /\ flock \in [Listeners -> [Inodes -> LockModes]]
  /\ fdt \in [Listeners -> [FDs -> Inodes \cup {None}]]
  /\ dlocks \in [Listeners -> [Files -> FDs \cup {None}]]
  /\ pc \in [Listeners -> Labels]
  /\ cur \in [Listeners -> Containers \cup {None}]
  /\ fd \in [Listeners -> FDs \cup {None}]
  /\ attempt \in [Listeners -> {1, 2}]
  /\ cached \in [Listeners -> SUBSET Containers]
  /\ acc \in [Listeners -> [Containers -> Nat]]
  /\ scan \in [Listeners -> SUBSET Entry]
  /\ computed \in [Listeners -> Int]

-----------------------------------------------------------------------------
(* The file system and its locks. *)

\* The cache file that the running access() of p is about.
Target(p) == RealFile[cur[p]]

\* The inode behind the local variable fd of p.
Ino(p) == fdt[p][fd[p]]

\* An inode exists as long as it has a name or an open descriptor.
FreeInodes ==
  {i \in Inodes : /\ \A f \in Files : dir[f] # i
                  /\ \A p \in Listeners : \A d \in FDs : fdt[p][d] # i}

FreeFds(p) == {d \in FDs : fdt[p][d] = None}

\* open(2) returns the lowest number that is free.
Lowest(d, p) == d \in FreeFds(p) /\ \A e \in FreeFds(p) : d <= e

\* fcntl(2): a lock conflicts with the locks of other processes only.
InfoReadable(p)  == \A q \in Listeners \ {p} : infoLock[q] # "write"
InfoWritable(p)  == \A q \in Listeners \ {p} : infoLock[q] = "none"
FileReadable(p, i) == \A q \in Listeners \ {p} : flock[q][i] # "write"
FileWritable(p, i) == \A q \in Listeners \ {p} : flock[q][i] = "none"

\* close(2) drops every lock the process has on the file, whichever
\* descriptor it was taken through.
Close(p, d) ==
  /\ fdt' = [fdt EXCEPT ![p][d] = None]
  /\ flock' = [flock EXCEPT ![p][fdt[p][d]] = "none"]

Goto(p, l) == pc' = [pc EXCEPT ![p] = l]

LockInfo(p, mode) == infoLock' = [infoLock EXCEPT ![p] = mode]

\* m_record_descriptor(): map::insert leaves an existing entry alone.
Record(p, f, d) ==
  dlocks' = [dlocks EXCEPT ![p][f] = IF @ = None THEN d ELSE @]

-----------------------------------------------------------------------------
(* The call and its outcomes. *)

ForgetCall(p) ==
  /\ cur' = [cur EXCEPT ![p] = None]
  /\ fd' = [fd EXCEPT ![p] = None]
  /\ attempt' = [attempt EXCEPT ![p] = 1]
  /\ scan' = [scan EXCEPT ![p] = {}]
  /\ computed' = [computed EXCEPT ![p] = 0]

\* uncompress() returned b: access() assigns _cached and returns to its caller.
Return(p, b) ==
  /\ cached' = [cached EXCEPT ![p] = IF b THEN @ \cup {cur[p]} ELSE @ \ {cur[p]}]
  /\ acc' = [acc EXCEPT ![p][cur[p]] = @ + 1]
  /\ ForgetCall(p)
  /\ Goto(p, "idle")

\* An exception: uncompress() unlocks the cache and rethrows, access() leaves
\* _cached as it was, and the request ends with end_request().
Raise(p) ==
  /\ LockInfo(p, "none")
  /\ ForgetCall(p)
  /\ Goto(p, "ending")
  /\ UNCHANGED reqVars

-----------------------------------------------------------------------------
(* Variants with one fault each, which the properties below must notice.   *)
(* No action uses them.                                                    *)

\* get_read_lock() without the cache lock.
RdCacheUnlocked(p) ==
  /\ pc[p] = "rdCache"
  /\ Goto(p, "rdOpen")
  /\ UNCHANGED <<fsVars, infoVars, infoLock, fdVars, callVars, reqVars, purgeVars>>

\* The file still locked exclusively while its size is recorded.
DecompressEndKeepsLock(p) ==
  /\ pc[p] = "decompress"
  /\ written[Ino(p)] = SizeOf[Target(p)]
  /\ Goto(p, "updLock")
  /\ UNCHANGED <<fsVars, infoVars, infoLock, fdVars, callVars, reqVars, purgeVars>>

\* The new file unlocked instead of converted.
ToSharedUnlocks(p) ==
  /\ pc[p] = "toShared"
  /\ flock' = [flock EXCEPT ![p][Ino(p)] = "none"]
  /\ Goto(p, "updLock")
  /\ UNCHANGED <<fsVars, infoVars, infoLock, fdt, dlocks, callVars, reqVars, purgeVars>>

\* A purge that subtracts the size of a file in use, which it leaves.
PurgeInUseCounted(p, e) ==
  /\ pc[p] = "purge" /\ computed[p] > TargetSize /\ e \in scan[p]
  /\ e.file # Target(p) /\ dir[e.file] # None
  /\ FreeFds(p) # {}
  /\ ~ FileWritable(p, dir[e.file])
  /\ scan' = [scan EXCEPT ![p] = @ \ {e}]
  /\ flock' = [flock EXCEPT ![p][dir[e.file]] = "none"]
  /\ computed' = [computed EXCEPT ![p] = @ - e.size]
  /\ UNCHANGED <<fsVars, infoVars, infoLock, fdt, dlocks, pc, callVars, reqVars>>

\* update_cache_info() that returns without unlock_cache().
UpdInfoKeepsLock(p) ==
  /\ pc[p] = "updInfo"
  /\ infoFile = "sized" /\ dir[Target(p)] # None
  /\ infoSize' = infoSize + written[dir[Target(p)]]
  /\ IF infoSize' > MaxSize
     THEN Goto(p, "purgeLock") /\ UNCHANGED <<callVars, reqVars, purgeVars>>
     ELSE Return(p, TRUE)
  /\ UNCHANGED <<fsVars, infoFile, infoLock, fdVars>>

\* A purge that removes files without trying their locks.
PurgeRemoveUnlocked(p, e) ==
  /\ pc[p] = "purge" /\ computed[p] > TargetSize /\ e \in scan[p]
  /\ e.file # Target(p) /\ dir[e.file] # None
  /\ scan' = [scan EXCEPT ![p] = @ \ {e}]
  /\ dir' = [dir EXCEPT ![e.file] = None]
  /\ computed' = [computed EXCEPT ![p] = @ - e.size]
  /\ UNCHANGED <<written, infoVars, infoLock, fdVars, pc, callVars, reqVars>>

\* getSharedLock() that goes on when open(2) returns -1.
RdOpenUnchecked(p) ==
  /\ pc[p] = "rdOpen"
  /\ dir[Target(p)] # None
  /\ IF FreeFds(p) = {}
     THEN fd' = [fd EXCEPT ![p] = 0 - 1] /\ UNCHANGED fdt
     ELSE \E d \in FDs :
            /\ Lowest(d, p)
            /\ fdt' = [fdt EXCEPT ![p][d] = dir[Target(p)]]
            /\ fd' = [fd EXCEPT ![p] = d]
  /\ Goto(p, "rdLock")
  /\ UNCHANGED <<fsVars, infoVars, infoLock, flock, dlocks, cur, attempt, reqVars, purgeVars>>

-----------------------------------------------------------------------------
(* get_instance(): the first access() of a process opens the info file. *)

BootCreate(p) ==
  /\ pc[p] = "boot"
  /\ infoFile = "absent"
  /\ infoFile' = "empty"
  /\ Goto(p, "bootLock")
  /\ UNCHANGED <<fsVars, infoSize, infoLock, fdVars, callVars, reqVars, purgeVars>>

BootOpen(p) ==
  /\ pc[p] = "boot"
  /\ infoFile # "absent"
  /\ Goto(p, "idle")
  /\ UNCHANGED <<fsVars, infoVars, infoLock, fdVars, callVars, reqVars, purgeVars>>

BootLock(p) ==
  /\ pc[p] = "bootLock"
  /\ InfoWritable(p)
  /\ LockInfo(p, "write")
  /\ Goto(p, "bootWrite")
  /\ UNCHANGED <<fsVars, infoVars, fdVars, callVars, reqVars, purgeVars>>

BootWrite(p) ==
  /\ pc[p] = "bootWrite"
  /\ infoFile' = "sized"
  /\ infoSize' = 0
  /\ LockInfo(p, "none")
  /\ Goto(p, "idle")
  /\ UNCHANGED <<fsVars, fdVars, callVars, reqVars, purgeVars>>

-----------------------------------------------------------------------------
(* The request: access() on its containers, use of the data, end_request(). *)

Requested(p) == {c \in Containers : acc[p][c] > 0}

Access(p, c) ==
  /\ pc[p] = "idle"
  /\ acc[p][c] < MaxAccess
  /\ Cardinality(Requested(p) \cup {c}) <= MaxContainers
  /\ cur' = [cur EXCEPT ![p] = c]
  /\ Goto(p, "rdCache")
  /\ UNCHANGED <<fsVars, infoVars, infoLock, fdVars, fd, attempt, reqVars, purgeVars>>

EndRequest(p) ==
  /\ pc[p] = "idle"
  /\ Requested(p) # {}
  /\ Goto(p, "ending")
  /\ UNCHANGED <<fsVars, infoVars, infoLock, fdVars, callVars, reqVars, purgeVars>>

\* release(): unlock_and_close() of the descriptor recorded for the file.
Release(p, c) ==
  /\ pc[p] = "ending"
  /\ c \in cached[p]
  /\ dlocks[p][RealFile[c]] # None
  /\ Close(p, dlocks[p][RealFile[c]])
  /\ dlocks' = [dlocks EXCEPT ![p][RealFile[c]] = None]
  /\ cached' = [cached EXCEPT ![p] = @ \ {c}]
  /\ UNCHANGED <<fsVars, infoVars, infoLock, pc, callVars, acc, purgeVars>>

\* No descriptor is recorded: m_get_descriptor() dereferences and erases
\* end().  The process may survive that; that it may die is in Die.
ReleaseUnrecorded(p, c) ==
  /\ pc[p] = "ending"
  /\ c \in cached[p]
  /\ dlocks[p][RealFile[c]] = None
  /\ cached' = [cached EXCEPT ![p] = @ \ {c}]
  /\ UNCHANGED <<fsVars, infoVars, infoLock, fdVars, pc, callVars, acc, purgeVars>>

RequestDone(p) ==
  /\ pc[p] = "ending"
  /\ cached[p] = {}
  /\ acc' = [acc EXCEPT ![p] = [c \in Containers |-> 0]]
  /\ Goto(p, "idle")
  /\ UNCHANGED <<fsVars, infoVars, infoLock, fdVars, callVars, cached, purgeVars>>

-----------------------------------------------------------------------------
(* get_read_lock() *)

RdCache(p) ==
  /\ pc[p] = "rdCache"
  /\ InfoReadable(p)
  /\ LockInfo(p, "read")
  /\ Goto(p, "rdOpen")
  /\ UNCHANGED <<fsVars, infoVars, fdVars, callVars, reqVars, purgeVars>>

RdOpen(p) ==
  /\ pc[p] = "rdOpen"
  /\ dir[Target(p)] # None
  /\ \E d \in FDs :
       /\ Lowest(d, p)
       /\ fdt' = [fdt EXCEPT ![p][d] = dir[Target(p)]]
       /\ fd' = [fd EXCEPT ![p] = d]
  /\ Goto(p, "rdLock")
  /\ UNCHANGED <<fsVars, infoVars, infoLock, flock, dlocks, cur, attempt, reqVars, purgeVars>>

RdMiss(p) ==
  /\ pc[p] = "rdOpen"
  /\ dir[Target(p)] = None
  /\ Goto(p, "rdUnlock")
  /\ UNCHANGED <<fsVars, infoVars, infoLock, fdVars, callVars, reqVars, purgeVars>>

\* Blocks while another process is filling the file, with the cache locked.
RdLock(p) ==
  /\ pc[p] = "rdLock"
  /\ FileReadable(p, Ino(p))
  /\ flock' = [flock EXCEPT ![p][Ino(p)] = "read"]
  /\ Record(p, Target(p), fd[p])
  /\ Goto(p, "rdUnlock")
  /\ UNCHANGED <<fsVars, infoVars, infoLock, fdt, callVars, reqVars, purgeVars>>

\* A hit returns true.  The first miss goes on to create the file; after the
\* second one uncompress() returns false.
RdUnlock(p) ==
  /\ pc[p] = "rdUnlock"
  /\ LockInfo(p, "none")
  /\ \/ /\ fd[p] # None
        /\ Return(p, TRUE)
     \/ /\ fd[p] = None /\ attempt[p] = 1
        /\ Goto(p, "crCache")
        /\ UNCHANGED <<callVars, reqVars, purgeVars>>
     \/ /\ fd[p] = None /\ attempt[p] = 2
        /\ Return(p, FALSE)
  /\ UNCHANGED <<fsVars, infoVars, fdVars>>

-----------------------------------------------------------------------------
(* create_and_lock() *)

CrCache(p) ==
  /\ pc[p] = "crCache"
  /\ InfoWritable(p)
  /\ LockInfo(p, "write")
  /\ Goto(p, "crOpen")
  /\ UNCHANGED <<fsVars, infoVars, fdVars, callVars, reqVars, purgeVars>>

CrOpen(p) ==
  /\ pc[p] = "crOpen"
  /\ dir[Target(p)] = None
  /\ \E d \in FDs, i \in FreeInodes :
       /\ Lowest(d, p)
       /\ dir' = [dir EXCEPT ![Target(p)] = i]
       /\ written' = [written EXCEPT ![i] = 0]
       /\ fdt' = [fdt EXCEPT ![p][d] = i]
       /\ fd' = [fd EXCEPT ![p] = d]
  /\ Goto(p, "crLock")
  /\ UNCHANGED <<infoVars, infoLock, flock, dlocks, cur, attempt, reqVars, purgeVars>>

\* EEXIST: another process made the file first; look for it again.
CrExists(p) ==
  /\ pc[p] = "crOpen"
  /\ dir[Target(p)] # None
  /\ LockInfo(p, "none")
  /\ attempt' = [attempt EXCEPT ![p] = 2]
  /\ Goto(p, "rdCache")
  /\ UNCHANGED <<fsVars, infoVars, fdVars, cur, fd, reqVars, purgeVars>>

CrLock(p) ==
  /\ pc[p] = "crLock"
  /\ FileWritable(p, Ino(p))
  /\ flock' = [flock EXCEPT ![p][Ino(p)] = "write"]
  /\ Record(p, Target(p), fd[p])
  /\ Goto(p, "crUnlock")
  /\ UNCHANGED <<fsVars, infoVars, infoLock, fdt, callVars, reqVars, purgeVars>>

CrUnlock(p) ==
  /\ pc[p] = "crUnlock"
  /\ LockInfo(p, "none")
  /\ Goto(p, "decompress")
  /\ UNCHANGED <<fsVars, infoVars, fdVars, callVars, reqVars, purgeVars>>

-----------------------------------------------------------------------------
(* p(src, fd), exclusive_to_shared_lock(), update_cache_info() *)

DecompressSome(p) ==
  /\ pc[p] = "decompress"
  /\ written[Ino(p)] < SizeOf[Target(p)]
  /\ written' = [written EXCEPT ![Ino(p)] = @ + 1]
  /\ UNCHANGED <<dir, infoVars, infoLock, fdVars, pc, callVars, reqVars, purgeVars>>

DecompressEnd(p) ==
  /\ pc[p] = "decompress"
  /\ written[Ino(p)] = SizeOf[Target(p)]
  /\ Goto(p, "toShared")
  /\ UNCHANGED <<fsVars, infoVars, infoLock, fdVars, callVars, reqVars, purgeVars>>

\* A bad source or a full disk: the decompressor throws and leaves the target
\* as it is, open, locked and recorded.
DecompressFail(p) ==
  /\ pc[p] = "decompress"
  /\ p \in CanFail
  /\ written[Ino(p)] < SizeOf[Target(p)]
  /\ Raise(p)
  /\ UNCHANGED <<fsVars, infoVars, fdVars>>

ToShared(p) ==
  /\ pc[p] = "toShared"
  /\ FileReadable(p, Ino(p))
  /\ flock' = [flock EXCEPT ![p][Ino(p)] = "read"]
  /\ Goto(p, "updLock")
  /\ UNCHANGED <<fsVars, infoVars, infoLock, fdt, dlocks, callVars, reqVars, purgeVars>>

UpdLock(p) ==
  /\ pc[p] = "updLock"
  /\ InfoWritable(p)
  /\ LockInfo(p, "write")
  /\ Goto(p, "updInfo")
  /\ UNCHANGED <<fsVars, infoVars, fdVars, callVars, reqVars, purgeVars>>

\* Read the size, stat the new file, write the sum; then cache_too_big().
UpdInfo(p) ==
  /\ pc[p] = "updInfo"
  /\ infoFile = "sized" /\ dir[Target(p)] # None
  /\ infoSize' = infoSize + written[dir[Target(p)]]
  /\ LockInfo(p, "none")
  /\ \/ /\ infoSize' > MaxSize
        /\ Goto(p, "purgeLock")
        /\ UNCHANGED <<callVars, reqVars, purgeVars>>
     \/ /\ infoSize' <= MaxSize
        /\ Return(p, TRUE)
  /\ UNCHANGED <<fsVars, infoFile, fdVars>>

\* The read returns no bytes, or the stat fails.
UpdFail(p) ==
  /\ pc[p] = "updInfo"
  /\ infoFile # "sized" \/ dir[Target(p)] = None
  /\ Raise(p)
  /\ UNCHANGED <<fsVars, infoVars, fdVars>>

-----------------------------------------------------------------------------
(* update_and_purge() *)

PurgeLock(p) ==
  /\ pc[p] = "purgeLock"
  /\ InfoWritable(p)
  /\ LockInfo(p, "write")
  /\ Goto(p, "purgeScan")
  /\ UNCHANGED <<fsVars, infoVars, fdVars, callVars, reqVars, purgeVars>>

\* m_collect_cache_dir_info(): stat every file of the directory, in some order.
PurgeStat(p, f) ==
  /\ pc[p] = "purgeScan"
  /\ dir[f] # None
  /\ \A e \in scan[p] : e.file # f
  /\ scan' = [scan EXCEPT ![p] = @ \cup {[file |-> f, size |-> written[dir[f]]]}]
  /\ computed' = [computed EXCEPT ![p] = @ + written[dir[f]]]
  /\ UNCHANGED <<fsVars, infoVars, infoLock, fdVars, pc, callVars, reqVars>>

PurgeScanned(p) ==
  /\ pc[p] = "purgeScan"
  /\ \A f \in Files : dir[f] # None => \E e \in scan[p] : e.file = f
  /\ scan' = [scan EXCEPT ![p] = IF computed[p] > MaxSize THEN @ ELSE {}]
  /\ Goto(p, "purge")
  /\ UNCHANGED <<fsVars, infoVars, infoLock, fdVars, callVars, reqVars, computed>>

\* The entries are examined in the order of their access times, whose grain is
\* coarse and whose update the file system may put off: any order.
Purging(p, e) ==
  /\ pc[p] = "purge"
  /\ computed[p] > TargetSize
  /\ e \in scan[p]
  /\ scan' = [scan EXCEPT ![p] = @ \ {e}]

\* The file just added is skipped by name; one that is gone, by ENOENT.
PurgeSkip(p, e) ==
  /\ Purging(p, e)
  /\ e.file = Target(p) \/ dir[e.file] = None
  /\ UNCHANGED <<fsVars, infoVars, infoLock, fdVars, pc, callVars, reqVars, computed>>

\* Another process has a lock: close the descriptor just opened.
PurgeInUse(p, e) ==
  /\ Purging(p, e)
  /\ e.file # Target(p) /\ dir[e.file] # None
  /\ FreeFds(p) # {}
  /\ ~ FileWritable(p, dir[e.file])
  /\ flock' = [flock EXCEPT ![p][dir[e.file]] = "none"]
  /\ UNCHANGED <<fsVars, infoVars, infoLock, fdt, dlocks, pc, callVars, reqVars, computed>>

\* Lock, unlink, unlock and close.  A lock of this process is no obstacle,
\* and closing the descriptor drops it.
PurgeRemove(p, e) ==
  /\ Purging(p, e)
  /\ e.file # Target(p) /\ dir[e.file] # None
  /\ FreeFds(p) # {}
  /\ FileWritable(p, dir[e.file])
  /\ dir' = [dir EXCEPT ![e.file] = None]
  /\ flock' = [flock EXCEPT ![p][dir[e.file]] = "none"]
  /\ computed' = [computed EXCEPT ![p] = @ - e.size]
  /\ UNCHANGED <<written, infoVars, infoLock, fdt, dlocks, pc, callVars, reqVars>>

PurgeEnd(p) ==
  /\ pc[p] = "purge"
  /\ computed[p] <= TargetSize \/ scan[p] = {}
  /\ infoFile' = "sized"
  /\ infoSize' = computed[p]
  /\ LockInfo(p, "none")
  /\ Return(p, TRUE)
  /\ UNCHANGED <<fsVars, fdVars>>

-----------------------------------------------------------------------------
(* What goes wrong. *)

\* open(2) fails: EMFILE, or no inode is left for O_CREAT.
OpenFails(p) ==
  /\ \/ pc[p] = "rdOpen" /\ dir[Target(p)] # None /\ FreeFds(p) = {}
     \/ pc[p] = "crOpen" /\ dir[Target(p)] = None /\ (FreeFds(p) = {} \/ FreeInodes = {})
     \/ /\ pc[p] = "purge" /\ computed[p] > TargetSize /\ FreeFds(p) = {}
        /\ \E e \in scan[p] : e.file # Target(p) /\ dir[e.file] # None
  /\ Raise(p)
  /\ UNCHANGED <<fsVars, infoVars, fdVars>>

\* p is in a blocking fcntl() call that a lock of q holds up.
WaitsFor(p, q) ==
  /\ p # q
  /\ \/ pc[p] = "rdCache" /\ infoLock[q] = "write"
     \/ pc[p] \in {"bootLock", "crCache", "updLock", "purgeLock"} /\ infoLock[q] # "none"
     \/ pc[p] = "rdLock" /\ flock[q][Ino(p)] = "write"
     \/ pc[p] = "crLock" /\ flock[q][Ino(p)] # "none"

\* The kernel's test: a chain of waiting processes leads from p back to p.
Deadlocked(p) ==
  \E n \in 1..Cardinality(Listeners) : \E chain \in [0..n -> Listeners] :
     /\ chain[0] = p /\ chain[n] = p
     /\ \A k \in 0..(n - 1) : WaitsFor(chain[k], chain[k + 1])

\* EDEADLK; a file lock that failed closes its descriptor first.
LockFails(p) ==
  /\ Deadlocked(p)
  /\ \/ pc[p] \in {"rdLock", "crLock"} /\ Close(p, fd[p])
     \/ pc[p] \notin {"rdLock", "crLock"} /\ UNCHANGED <<fdt, flock>>
  /\ Raise(p)
  /\ UNCHANGED <<fsVars, infoVars, dlocks>>

\* The process ends, at the end of its connection or anywhere if it may crash;
\* the kernel closes its descriptors and drops its locks.  A new one follows.
Die(p) ==
  /\ \/ pc[p] = "idle" /\ Requested(p) = {}
     \/ pc[p] # "boot" /\ p \in CanCrash
     \/ pc[p] = "ending" /\ \E c \in cached[p] : dlocks[p][RealFile[c]] = None
  /\ infoLock' = [infoLock EXCEPT ![p] = "none"]
  /\ flock' = [flock EXCEPT ![p] = [i \in Inodes |-> "none"]]
  /\ fdt' = [fdt EXCEPT ![p] = [d \in FDs |-> None]]
  /\ dlocks' = [dlocks EXCEPT ![p] = [f \in Files |-> None]]
  /\ cached' = [cached EXCEPT ![p] = {}]
  /\ acc' = [acc EXCEPT ![p] = [c \in Containers |-> 0]]
  /\ ForgetCall(p)
  /\ Goto(p, "boot")
  /\ UNCHANGED <<fsVars, infoVars>>

-----------------------------------------------------------------------------
(* The specification. *)

Init ==
  /\ dir = [f \in Files |-> None]
  /\ written = [i \in Inodes |-> 0]
  /\ infoFile = IF InfoExists THEN "sized" ELSE "absent"
  /\ infoSize = 0
  /\ infoLock = [p \in Listeners |-> "none"]
  /\ flock = [p \in Listeners |-> [i \in Inodes |-> "none"]]
  /\ fdt = [p \in Listeners |-> [d \in FDs |-> None]]
  /\ dlocks = [p \in Listeners |-> [f \in Files |-> None]]
  /\ pc = [p \in Listeners |-> "boot"]
  /\ cur = [p \in Listeners |-> None]
  /\ fd = [p \in Listeners |-> None]
  /\ attempt = [p \in Listeners |-> 1]
  /\ cached = [p \in Listeners |-> {}]
  /\ acc = [p \in Listeners |-> [c \in Containers |-> 0]]
  /\ scan = [p \in Listeners |-> {}]
  /\ computed = [p \in Listeners |-> 0]

Boot(p) == BootCreate(p) \/ BootOpen(p) \/ BootLock(p) \/ BootWrite(p)

GetReadLock(p) ==
  RdCache(p) \/ RdOpen(p) \/ RdMiss(p) \/ RdLock(p) \/ RdUnlock(p)

CreateAndLock(p) ==
  CrCache(p) \/ CrOpen(p) \/ CrExists(p) \/ CrLock(p) \/ CrUnlock(p)

Fill(p) ==
  \/ DecompressSome(p) \/ DecompressEnd(p) \/ DecompressFail(p)
  \/ ToShared(p) \/ UpdLock(p) \/ UpdInfo(p) \/ UpdFail(p)

UpdateAndPurge(p) ==
  \/ PurgeLock(p)
  \/ \E f \in Files : PurgeStat(p, f)
  \/ PurgeScanned(p)
  \/ \E e \in scan[p] : PurgeSkip(p, e) \/ PurgeInUse(p, e) \/ PurgeRemove(p, e)
  \/ PurgeEnd(p)

\* What a process does by itself once a request has called into the cache.
Step(p) ==
  \/ Boot(p) \/ GetReadLock(p) \/ CreateAndLock(p) \/ Fill(p)
  \/ UpdateAndPurge(p) \/ OpenFails(p) \/ LockFails(p)
  \/ \E c \in Containers : Release(p, c) \/ ReleaseUnrecorded(p, c)
  \/ RequestDone(p)

\* What its client and its surroundings make it do.
Environment(p) ==
  (\E c \in Containers : Access(p, c)) \/ EndRequest(p) \/ Die(p)

Next == \E p \in Listeners : Step(p) \/ Environment(p)

Spec == Init /\ [][Next]_vars

-----------------------------------------------------------------------------
(* Properties. *)

Complete(f) == dir[f] # None /\ written[dir[f]] = SizeOf[f]

\* The files a process is reading: its handlers open them by name.
InUse(p) == IF pc[p] = "ending" THEN {} ELSE {RealFile[c] : c \in cached[p]}

\* From the return of access() to end_request(), the name that access()
\* returned leads to the whole decompressed file: nobody unlinks it and nobody
\* is still writing it (get_read_lock(), exclusive_to_shared_lock() and the
\* test for locks in update_and_purge()).
UseSafe == \A p \in Listeners : \A f \in InUse(p) : Complete(f)

\* create_and_lock(): "The locking operation blocks, although that should
\* never happen".
CreateNeverBlocks ==
  \A p \in Listeners : pc[p] = "crLock" => FileWritable(p, Ino(p))

\* Every way out of uncompress(), the throws included, passes unlock_cache(): a
\* process that is not in a call holds no lock on the cache.
CacheUnlockedOutside ==
  \A p \in Listeners :
    pc[p] \in {"boot", "bootLock", "idle", "ending"} => infoLock[p] = "none"

\* exclusive_to_shared_lock() runs without the cache lock so that no ring of
\* processes waits for one another; the kernel never has to break one.
NoDeadlock == \A p \in Listeners : ~ Deadlocked(p)

\* The process that made f has not yet added it to the recorded size.
Unaccounted(f) ==
  \E p \in Listeners :
    /\ pc[p] \in {"crLock", "crUnlock", "decompress", "toShared", "updLock", "updInfo"}
    /\ Target(p) = f

\* The size in bes.cache.info, on which a purge depends, never falls below the
\* size of the files that update_cache_info() has added and that are still
\* there, whatever purges ran in between.
RecordedSizeCovers ==
  infoFile = "sized" =>
    infoSize >= MapThenSumSet(LAMBDA f : written[dir[f]],
                              {f \in Files : Complete(f) /\ ~ Unaccounted(f)})

\* The promise of BESCache3.h, as an abstract specification: the present files
\* are the complete ones, the pins are the files in use.
Pinned == INSTANCE PinnedCache WITH
            present <- {f \in Files : Complete(f)},
            pins <- [p \in Listeners |-> InUse(p)]

\* Every step of the processes is a step of the pinned cache, or none: purges,
\* hits, fills and the ends of requests included.
ImplementsPinnedCache == Pinned!PinSpec
=============================================================================
