# Verification of the Hyrax data server

TLA+ models of the OPeNDAP Hyrax server (`src/opendap`), TLC configurations that check them on small instances, and
proofs about them for TLAPS. Paths below are relative to `src/opendap` unless they start with `src/`.

## 1. The system

Hyrax serves scientific data. A request for data crosses these parts:

    client --HTTP--> OLFS (Java servlets) --PPT--> master beslistener --fork--> beslistener child
                                                        ^                          | containers, definitions,
                     administrator --PPT--> besdaemon --+ signals, pipe, wait      | cache of decompressed files,
                                                                                   | handlers (HDF, netCDF, ...), libdap

| Component | Where | State | Hard behaviour |
|---|---|---|---|
| Cache of decompressed files | bes/dispatch/BESCache3.cc, BESUncompressManager3.cc, BESUncompress3GZ.cc, BESFileContainer.cc | a directory of files and one info file, shared by processes; fcntl locks; a table of descriptors per process | interleaving of processes, lock order, purge against readers, failures half way, death of a process |
| Daemon | bes/server/daemon.cc, DaemonCommandHandler.cc | pid and status of the master beslistener, pid file, blocked signals | signals against the main loop, coalesced SIGCHLD, start that fails, restart |
| Master beslistener and handshake | bes/server/ServerApp.cc, bes/ppt/SocketListener.cc, PPTServer.cc | sockets, children, restart flag | signals against accept and fork, status sent to the daemon, clients that do not speak |
| PPT connection | bes/ppt/PPTConnection.cc, PPTStreamBuf.cc, bes/server/BESServerHandler.cc, olfs/.../ppt, olfs/.../io | the chunks in flight, extensions, who speaks | framing, errors in the middle of a response, exit, desynchronised streams |
| OLFS connection pool | olfs/src/opendap/bes/BES.java | queue of idle clients, map of all clients, semaphore, lock | threads, permits lost on errors, shutdown while clients are out |
| BES groups | olfs/src/opendap/bes/BESManager.java, BesGroup.java, CyclicGroup.java | members, counter of the next | drain against use, a counter that wraps |
| Request execution | bes/xmlcommand, bes/dispatch/BESInterface.cc | command list, the data handler interface, containers, status | one of several commands failing, release of containers, which command answers |
| Containers, definitions | bes/dispatch/*Storage*.cc, bes/xmlcommand/BESXMLDefineCommand.cc | lists with reference counts | order of release, redefinition |
| DAP response caches | bes/dap/BESDAPCache.cc, BESDapResponseCache.cc, libdap/DAPCache3.cc | as the first component | as the first component |
| HTTP cache of the client library | libdap/HTTPCache.cc, HTTPCacheTable.cc | hash table of entries with read and write locks, size, single-user lock | pins against garbage collection, revalidation, expiry |
| Data model and constraints | libdap (DDS, Sequence, Array, Grid, ConstraintEvaluator, XDR streams) | trees of variables | numeric edges of slices |
| Asynchronous responses | olfs/src/opendap/async, olfs/src/opendap/aws/glacier | maps of pending jobs and downloads | late answers, restart |
| Command line client | bes/cmdln, bes/ppt/PPTClient.cc | one connection | none of its own |
| Other servlets | olfs/src/opendap (coreServlet, wcs, threddsHandler, semantics, ...) | catalogs and caches of catalogs | reload against readers |
| Handlers | hdf5_handler, netcdf_handler, dap-server | per request | conversion of data |
| Scripts, third party, data | bin, conf, prov_module, src/lodspeakr, src/data, src/dataone, src/doc | - | not system logic |

What makes them correct, in one line each: the **cache** never lets a reader see a partial or removed file, never
deadlocks, and its recorded size is an upper bound on what is there; the **daemon** knows whether the master
beslistener runs, restarts it when told, stops everything when told and leaves no pid file behind; the **protocol**
delivers the bytes of each message once, in order, and both ends agree when a message ends; the **pool** never has more
clients than permits, loses no permit and never hands one client to two threads; **request execution** transmits one
response and releases what every command opened; the **master beslistener** stays up whatever its clients do and tells the
daemon the truth; the **HTTP cache** keeps what a thread reads and leaves a store behind that the next process can trust;
a **download** that was accepted arrives, or is still on the list after a crash.

| Section | Modules | Component |
|---|---|---|
| 2 | BESCache3, PinnedCache, MCBESCache3, MCBESCache3Live, BESCache3_proofs | cache of decompressed files |
| 3 | BESDaemon | daemon |
| 4 | BESPool, BESPool_proofs | OLFS connection pool |
| 5 | PPTSession | PPT connection |
| 6 | HTTPCache, MCHTTPCache | HTTP cache of the client library |
| 7 | BESRequest, MCBESRequest | request execution, containers and definitions |
| 8 | BESListener, BESMaster | master beslistener and handshake |
| 9 | DownloadManager | asynchronous responses |

In a module a definition whose comment begins with "A bug" (or "Mutant") is no part of the model: it is a wrong form of the
definition after it, and PROJECT.json names the property that fails with it.

## 2. The cache: `BESCache3.tla`

One action is one system call of the code, or a run of calls of which no other process can see a part. Waiting for a
lock is the guard of the action that takes it.

| Code | Model |
|---|---|
| cache directory, lengths of files | `dir` (name to inode), `written` (bytes of an inode). Unlinking removes the name; the inode lives while it is open |
| bes.cache.info and its fcntl lock | `infoFile`, `infoSize`, `infoLock` |
| fcntl locks on cache files, descriptor table, `d_locks` | `flock`, `fdt`, `dlocks`. `close()` drops all locks of the process on that inode, as POSIX says |
| program counter and locals of `uncompress()` | `pc`, `cur`, `fd`, `attempt` |
| containers of the request, `BESContainer::_cached` | `acc`, `cached` |
| purge: directory listing, `computed_size` | `scan`, `computed` |
| `m_initialize_cache_info()` | `BootCreate`, `BootOpen`, `BootLock`, `BootWrite` |
| `BESFileContainer::access()`, `release()`, `BESInterface::end_request()` | `Access`, `Return`, `Raise`, `EndRequest`, `Release`, `ReleaseUnrecorded`, `RequestDone` |
| `get_read_lock()` | `RdCache`, `RdOpen`, `RdMiss`, `RdLock`, `RdUnlock` |
| `create_and_lock()` | `CrCache`, `CrOpen`, `CrExists`, `CrLock`, `CrUnlock` |
| decompressor, `exclusive_to_shared_lock()`, `update_cache_info()` | `DecompressSome`, `DecompressEnd`, `DecompressFail`, `ToShared`, `UpdLock`, `UpdInfo`, `UpdFail` |
| `update_and_purge()` | `PurgeLock`, `PurgeStat` (one file per step), `PurgeScanned`, `PurgeSkip`, `PurgeInUse`, `PurgeRemove`, `PurgeEnd` |
| EMFILE, EDEADLK, death of the process | `OpenFails`, `LockFails`, `Die` |

`PinnedCache.tla` is what BESCache3.h promises: files are present or not, processes pin them, and only a file nobody has
pinned is evicted. `ImplementsPinnedCache` is the refinement: the present files are the complete ones in the directory,
and a process pins the file of every container that access() has returned.

`CanFail` and `CanCrash` name the processes whose decompression may throw and that may die at any point. They are empty
in the runs that ask what the design promises when nothing breaks and non-empty in the others.

### Runs

| Run | Shows |
|---|---|
| MCBESCache3_core | two listeners, two files of sizes 2 and 1 that do not fit together (`MaxSize` 2), one container per request, access() called twice on it as the server does, two descriptors so that they run out: `UseSafe`, `NoDeadlock`, `RecordedSizeCovers`, the types and the refinement |
| MCBESCache3_faults | no info file at the start, two containers of one file, and a listener whose decompression may throw, another that may die anywhere: the cache lock is given back on every way out (`CacheUnlockedOutside`), and create_and_lock() does not block |
| MCBESCache3Live | `MaxCalls` calls per listener, two containers per request (a process keeps locks of earlier files while it fills and purges), a listener that may die anywhere, and weak fairness of each process: every access() returns |

The bounds: two processes suffice for every conflict between two roles; sizes 2
and 1 with `MaxSize` 2 make every second fill purge; an inode more than there are names lets a removed file live on in a
descriptor; `FDs` is the descriptor limit. The recorded size grows without end if a process dies in each of its purges,
so the faults run has the constraint `InfoSizeBound`.

Left out: the failure of `opendir()` in the purge (BESCache3.cc:750), and a corrupt source, on which BESUncompress3GZ loops for ever
(BESUncompress3GZ.cc:72). A source that cannot be opened (BESUncompress3GZ.cc:63) is a `DecompressFail`, so only a listener in `CanFail` meets it.

Fairness (MCBESCache3Live): weak fairness of every step of a process that its client does not decide, because the
operating system schedules every process. Requests, their ends and crashes are not fair. fcntl locks have no queue, so a
stream of readers may starve a writer for ever; the run gives each listener a bounded number of calls and says nothing
about an endless stream.

### What else the model reaches

Six more things happen in the model and are not runs of their own. With other constants than those of the runs TLC finds
them: `AccessReturns` fails with `CanFail = {l2}`, because a decompression that throws leaves its partial target locked and
the next reader waits for it with the cache locked; `UseSafe` fails with two containers per request, because a process
does not conflict with its own fcntl locks and purges the file of its first container while it fills the second; and each
second access() of a container leaks the descriptor of the first, as `d_locks` has room for one per file. (a) The info file is created and locked in two
calls (BESCache3.cc:319), and a process that finds it opens it without a lock, so `update_cache_info()` may read an
empty file and throw (`UpdFail`). (b) A miss, a lost race to create the file (`CrExists`) and a purge in between make
the second `get_read_lock()` miss too, and `uncompress()` returns false for a good compressed file. (c) With two
containers of one file the second `release()` finds no entry in `d_locks` (`ReleaseUnrecorded`), and
`m_get_descriptor()` (BESCache3.cc:133) dereferences the end iterator. A decompression that throws also leaves the
partial target in the directory, although BESUncompressManager3.cc:117 says the decompressor removes it.

## 3. The daemon: `BESDaemon.tla`

besdaemon is one thread that its own signal handlers interrupt, and these handlers fork, wait and exit. `stack` holds a
frame for the thread and one for each handler that has interrupted it; a frame says where it is (`at`) and who called
(`why`). `At(place)` is the guard of every step: a pending signal that is not blocked comes first, as the kernel delivers
it before the process is back in user mode.

| Code | Model |
|---|---|
| `start_master_beslistener()` | `Fork` (pipe() and fork() may fail), `Read` (pipe), `SetPid`, `SetStatus`, `StartFails` (the return of 0 in each caller) |
| `stop_all_beslisteners()` | `Kill` (blocks the signals, killpg), `Reap` (one wait), `Reaped` (no child is left; unblocks), `StopReturns` (back in each caller) |
| `CatchSigChild()`, `CatchSigHup()`, `CatchSigTerm()` | `Deliver` pushes the handler, `CatchSigChild`, and the stop and start above with `why` "term" and "hup" |
| `pr_exit()` | `PrExit` |
| `start_command_processor()`, `execute_command()` | `OpenPort`, `ServeFails`, `CmdStart`, `CmdStopNow`, `CmdExit` |
| the loop of `main()` with pause() | `Pause`, `Check`; `woken` is set by a handler that interrupts pause() |
| beslistener (ServerApp) | `child`, `pipe`, `code`, `sigs`; `ChildRuns`, `ChildCannotRun`, `ChildFails`, `ChildObeys`, `ChildCrashes` |

The children that the master forks per connection are in its process group and die with it; they are not in the model.
Process ids are not reused. The master has a TCP port. `main()` assigns the pid of the first start a second time (daemon.cc:1114), which
makes a difference only if a HUP comes in between.

| Run | Shows |
|---|---|
| MCBESDaemon | no command interface, one, and one whose port is not a number; up to three beslisteners, two signals to anyone and two commands, crashes and failed starts at any moment. `KnownListener`: a beslistener that serves clients is the one whose pid and status the daemon has, or it is just being started. `Consistent` is this together with the types. `NoOrphans`: no way out of the daemon leaves a beslistener behind, but for the one below. `TermStops`, `HandlersReturn` |

One way out does leave a beslistener: `main()` starts it before `start_command_processor()` reads BES.DaemonPort, and if that is
not a number, `exit(1)` (daemon.cc:502) ends the daemon without `stop_all_beslisteners()`; the beslistener keeps the port, and bes.pid
stays. `OpenPort` does this when `cmdPort` is "invalid", and `NoOrphans` excepts this configuration and no other.

In the run operators send TERM and HUP to the daemon only when it is idle (`QuietSignals`): that is the promise the
code can keep. Without it a TERM during a start stops nothing, because killpg() does not know the new process yet, and the
daemon hangs in wait(); TLC also violates `NoOrphans`: `stop_all_beslisteners()` unblocks the signals at its end although
its caller has blocked them (daemon.cc:245, 545), a pending HUP starts a new beslistener, and the daemon exits. Signals to
the beslisteners, crashes and commands are not restricted. Three beslisteners are a first one, one that fails to start and
one that runs; more only repeat these roles. Two signals allow every pair of them, two commands a stop with a start.

Fairness: weak fairness of the daemon's own steps and of those of each beslistener, which the operating system runs; none
of signals, commands, crashes or failures of the command interface.

Also in the model and not runs of their own: (a) a beslistener that dies between its status and the assignment of the pid
is recorded as RUNNING for ever, because SIGCHLD came first; (b) with an end of file on the pipe the compared status is
not initialized (daemon.cc:344), so a process that never ran may be recorded; (c) a signal between `Check` and pause() is
slept through; (d) the Exit command, a failed first start and an invalid port
leave bes.pid behind.

## 4. The connection pool: `BESPool.tla`

Servlet threads run one transaction at a time on a client that they borrow. `line` is the fair checkout lock (its head
owns it), `permits` the semaphore, `idle` the queue, `clients` the keys of the map, `open` the clients whose connection
this side has not closed, `has` what each thread holds. A client is a number and a command count. The keys of `_clients`
are strings made from the number, and `get(i)` of `destroy()` uses an Integer; both keys are in the model.

| Code | Model |
|---|---|
| `getClient()` | `GetClient` (joins the line), `Acquire` (lock, permit, look at the queue), `Take`, and `Throws` for an interrupt or an unchecked exception |
| `getNewClient()` | `New`, `NewFails` |
| `besTransaction()` | `TransactionEnds` (a response or an error document), `TransactionFails` (PPTException: the client has closed itself) |
| `returnClient()`, `checkInClient()`, `discardClient()` | `CheckIn`, `Discard`, `Release` (the finally clause) |
| `destroy()` | `Destroy`, `AcquireAll`, `TimesOut`, `ShutDown` (one client), `Drained`, `Kill` |

| Run | Shows |
|---|---|
| BESPool.cfg | `PoolBound`: never more open clients than MaxClients. `NotShared`. `OpenAreKnown`: each open client is in the queue or with a thread, so offer() never fails, and each client in the queue is open and not worn out. `PermitsKept`: a permit is lost only by an interrupt or an unchecked exception in getClient(). `GetClientReturns`. `DrainCloses`: a `destroy()` whose waits do not time out leaves no connection open |

After a timeout `destroy()` closes nothing (`Kill`): it asks a map with String keys for an Integer, gets null for each, and
the threads return their clients to a pool that nobody looks at again.

Three threads and two clients let one thread wait for a permit and another for the lock. Five transactions fill the pool,
wear a client out (`MaxCommands` 1: it is discarded after its second command, one more than the configuration says) and
replace it. One exception (`MaxThrows`) loses one permit of two; with as many as clients `getClient()` would wait for ever
and, holding the lock, stop every other thread, so `GetClientReturns` is stated for fewer. The sockets that
`NewPPTClient.initConnection()` leaves open when the handshake fails belong to no client and are not counted.

Fairness: weak fairness for each thread and for `destroy()` once they are called. A transaction ends because the socket has
a timeout of 300 seconds; `ReentrantLock(true)` is first come, first served, which `line` is by construction.

## 5. A PPT connection: `PPTSession.tla`

An OPeNDAPClient of the OLFS and the beslistener child that serves it, after the handshake. `toServer` and `toClient`
are the chunks that one end has written and the other has not read; the TCP connection loses only what follows the end of
the reader. A chunk is its type, the request it belongs to, its number in the answer and what its body holds.

| Code | Model |
|---|---|
| `sendXMLRequest()`, `ChunkedOutputStream.finish()` | `SendRequest`, `SendLast`, `SendFails` |
| `readChunkedMessage()`, `processExtensionContent()` | `ReadData`, `ReadExtension` (status=error switches to the error stream), `ReadLast` |
| `readChunkHeader()`, `readFully()` at the end of the stream | `ReadEnd`, `ReadCut` |
| `getResponse()` and its IOExceptions | `WriteFails` (the caller's stream), `TimesOut`, `Reset`: each closes the connection |
| `shutdownClient()`, death of the OLFS | `Shutdown`, `ClientDies` |
| `besTransaction()` | `Ends`, `Fails`: `result` |
| `PPTConnection::receive()` | `Receive` (data, the exit extension, the closing chunk), `ReceiveEnd` |
| printing of a response into PPTStreamBuf | `PrintResponse`, `Overflow`, `Sync` |
| `BESServerHandler::execute()` after execute_request() | `Succeed`; or `GoWrong`, `Flush`, `Tell` (the extensions, past the buffer), `TellFails`, `Explain`; then `Finish`, `WriteLast` |
| SIGKILL, a crash in a handler | `Die`, also in the middle of a chunk |

| Run | Shows |
|---|---|
| PPTSession.cfg | `OwnAnswer`: the caller gets the chunks of its own answer only, in order, without a gap; data never reaches the error stream nor an error document the data. `WholeOrCutShort`: a transaction that returns has the whole answer and its status, unless the child ended first. `AnswerEnds`, `ChildEnds` |

Three requests let an answer meet the one before and the one after it; two chunks make an answer that fails after a part of
it is out. Between requests the client is in the pool; that the pool keeps a client after `true`, `false` and an unchecked
exception, and discards it after a PPTException, is `returnClient()` (section 4).

`true` does not mean an answer: after a fatal error the child is gone, and the next transaction on the pooled client returns
true with nothing received, because the closing chunk and the end of the stream are both -1.

`ReadCut` shows one more consequence of the end of a stream: `readFully()` adds -1 to its position and passes it to
`write()`, the unchecked exception bypasses the PPTException handler, and a client whose child is dead returns to the pool
and fails for the next thread too.

Assumptions. The caller's streams fail with an IOException; an unchecked exception or an OutOfMemoryError from them would
return a client with half an answer, and `OwnAnswer` would be false. The eight bytes of a chunk header arrive together.
Writes of the child are complete, or lost with the connection. The handlers of the child come to an end.

Fairness: weak fairness of each process, because each is scheduled; a read of the client ends after 300 seconds at the
latest (`TimesOut`). New requests, `Shutdown`, `ClientDies` and `Die` are not fair. CHECK_DEADLOCK is off because both
ends may stop.

## 6. The HTTP cache of libdap: `HTTPCache.tla`

The threads of one client process fetch URLs through one `HTTPCache`. Every public method holds `d_cache_mutex` from its first
line to its last, so a method that cannot block is one action; `cache_response()` and `update_response()` are several, because
they wait for the lock of an entry, or leave files behind if the process ends, with the mutex held (`iface`). A response is a
number of blocks, an entry is its file name, its blocks, its readers, its lock and whether it still counts as valid.

| Code | Model |
|---|---|
| `caching_fetch_url()` | `Begin`, `GetMisses` (the fetch that follows may fail), `Answer`, and the calls below between them |
| `get_cached_response()` | `Get`, `GetBlocks` (the entry is locked for writing), `GetFails` (its files are gone: it throws and leaves a reader) |
| `is_url_valid()`, `get_conditional_request_headers()` | `IsValid`, `Conditional` |
| `cache_response()` | `StoreBegin`, `RemoveOld`, `NotStored`, `CreateBody`, `WriteBody`, `WriteFails`, `AddEntry` (`OneMore`: the counter of new entries, kept at the value that has the index written), `StoreEnds` |
| `update_response()` | `UpdateBegin`, `UpdateMisses`, `Update`, `UpdateFails` |
| `release_cached_response()`, with a null FILE too | `Release`, `ReleaseNull` |
| `perform_garbage_collection()` | `PerformGC`: `ExpiredGC`, `HitsGC`, `TooBigGC`; `GCSpins` if `hits_gc()` never ends |
| `purge_cache()`, `set_max_size()` | `Purge`, `SetMaxSize` (HTTPConnect calls it before it fetches, so the limits of the collection are those it sets, HTTPConnect.cc:536) |
| `cache_index_write()` | `WriteIndex`, and when it fails `CutIndex`, `IndexFails`; `SaveIndex` in a method, `Shutdown` in the destructor |
| the constructor, `delete_instance()` at exit, the signal handler, a crash | `Start`, `Exit`, `Interrupt`, `Crash` |

| Run | Shows |
|---|---|
| MCHTTPCache | two threads, two URLs, two file names, responses of one or two blocks in a cache of one or two, I/O that fails (bodies, headers and the index), signals, crashes and the next process. `Consistent`: the types, `ReadersAreHolders` (reader counts, locks and the FILEs that threads have agree) and `SizeIsSum` (`d_current_size` is the space of the entries). `HeldStays`: what a thread reads keeps its entry and its files. `EntriesWhole`: every entry that a request can find, also in an index that another process has left, has both files |
| MCHTTPCache_hang | the cache is not "MT-safe" (HTTPCache.cc:104): two threads miss the same URL, the first stores it, fetches it again and reads the entry, and the second, which now stores its own answer, waits for that entry with `d_cache_mutex` held, which the first one needs to release it |

Two threads and two URLs let one thread read what the other replaces or collects; two names let a collected file name be used
again; a cache of one or two blocks makes every second response start a collection. The number of hits decides which unused
entries go first; the model takes any. `MaxLeaks` bounds the readers that failing calls leave.

Four failures spoil the counts or the files and the code does not repair it. `harmed` remembers them, and the properties say
what holds before.

- (a) When `update_response()` cannot read or write the headers, its handler calls `unlock_read_response()` (HTTPCache.cc:1350):
  the readers become -1, both locks of the entry stay, and the next reader waits for them with the mutex held.
- (b) A crash between two steps of `cache_response()` leaves an index that lists files that are gone; `get_cached_response()` then
  throws on each try and leaves a reader behind, so that the entry can never be removed, and `purge_cache()` throws in the
  middle with half of the table gone.
- (c) A process that ends without being able to write its index: `~HTTPCache()` catches the `Error` of `cache_index_write()` and
  drops it (HTTPCache.cc:298–310), and a failed `fclose()` is ignored (HTTPCacheTable.cc:422). The old index, or a shortened one, stays, and
  the next process trusts it although what it lists may have been collected.
- (d) An `fprintf()` of the index that fails in a method: `cache_index_write()` throws with its FILE open (HTTPCacheTable.cc:386), and
  what the FILE still holds goes into whatever index is there when the process ends.

An index that could not be opened, or not be closed, before the end of the process is not among them: if the last write
succeeds, nothing is lost, and `EntriesWhole` says so.

Also in the model: a 304 answer for an entry that has been collected meanwhile makes `HTTPCacheResponse` release a null FILE,
`d_locked_entries` gets an element for it and `purge_cache()` never works again (`nullKey`); `hits_gc()` goes round for ever if
what is in use fills the cache (`GCSpins`); exit() does not look at `d_open_files`, as the signal handler does.

Not modelled: the lock file of the cache, which every client overrides with `force`; a signal in the middle of a method (a
handler that runs there would use the table while it is changed); a collection by the signal handler that does not end; how ages
are computed from headers; what `cache_index_parse_line()` makes of the rest of a line that was cut, or of an entry whose line is longer than 1023 characters,
which `cache_index_read()` reads in pieces (HTTPCacheTable.cc:305). CHECK_DEADLOCK is off because the cache really can stop.

## 7. Requests, containers, definitions: `BESRequest.tla`

A child executes the commands of a request one by one; containers and definitions outlive the request. A container object has an
identity (`heap`): it belongs to the definition that was made with it, and the commands that use it point to it. Containers in
the storage are only ever copied, so the storage is a map from names to files (`store`). `recorded` is the `d_locks` of the cache of
section 2, as one child sees it.

| Code | Model |
|---|---|
| `build_data_request_plan()` | `Receive`, `Build`, `BuildFails`, `Built` |
| `set container`, `delete`, `define`, `get`, `show` | `SetContainer`, `DeleteContainer`, `DeleteDefinition`, `DefineFails`, `Define`, `Get`, `GetFails`, `Show` |
| `execute_each()`, `access()`, the handler | `Access`, `AccessFails`, `HandlerFails`, `Accessed` |
| `transmit_data()`, after each command | `Transmit` |
| `BESInterface::execute_request()`, `finish()` | `Succeeds`, `SendStatus`, `FinishWithError` (and a second error if sending the first fails) |
| `end_request()`, `~BESXMLInterface()` | `Release` (one container), `Clean` |
| the end of the child | `NextChild` |

| Run | Shows |
|---|---|
| MCBESRequest | every list of up to three commands, two requests to a child, a definition of up to two containers, failures everywhere. `Consistent`: the types and `NoDangling`: nothing that has been deleted with its definition is used or released, though commands still point to it. `ErrorEndsAnswer`: a failed answer is what was sent before, a status, and the error last. `LastReleases`: at the end no file is locked but those of an earlier command and those whose decompression failed. `DefinedForTame`: a client that behaves as the OLFS does never makes `release()` look for a file that is not there |
| MCBESRequest_responses | `BESXMLInterface.cc:201` assigns `has_response` where it should accumulate it: show, setContainer, show passes the test, and the client gets two responses |

The bounds: with three commands a command without a response fits between two with one, and a definition can be replaced
between its making and its use; two requests let the second meet what the first left; one file that is compressed and one
that is not are all that `access()` tells apart.

What the properties leave out on purpose. A container that an earlier command has accessed stays locked until the child ends (`early`),
because `end_request()` releases those of the last command only; so does a file whose decompression failed. `_cached` is set by no
constructor: `Garbage` are the values it may read as. With TRUE, or with a definition that lives on after a request and whose next
access() throws, `release()` of a file that is not locked dereferences the end of `d_locks` (`undefined`; `tame` says that neither
has happened).

Not modelled: the containers that a failing `define` has copied, which nobody deletes; a failing setContainer, which has removed the
old one before; `isnice`, whose null pointer is used at BESXMLDefineCommand.cc:344; several storages, catalogs, contexts, aggregation,
constraints, the commands that delete everything. access() is called twice on each container by the code and once here: the second
call adds a descriptor, which section 2 describes.

## 8. The master beslistener: `BESListener.tla`, `BESMaster.tla`

One thread accepts a connection, waits for the first word of its client, answers it and forks a child; its signal handlers reap
children and end it. A connection names its client and the child that serves it. `held` and `port` say which processes have the
descriptor of a connection or of the listening socket: children inherit both.

| Code | Model |
|---|---|
| `ServerApp::run()` | `Listen`, `ListenFails`, `Fails`, `Throws` (an exception out of the loop ends the master) |
| `SocketListener::accept()` | `Accept`, with connections that are not allowed |
| `welcomeClient()`, `readBufferNonBlocking()` | `PollReady`, `PollNothing`, `GiveUp`, `Read`, `Refuse`, `Welcome` |
| `BESServerHandler::handle()`, `initConnection()` | `Fork`, `ForkFails`, `Close` |
| `CatchSigChild()`, `CatchSigHup()`, `CatchSigTerm()` | `CatchSigChild`, `WaitEnds` (it blocked in wait()), `Signal` |
| `execute()` of the children | `ChildExits`, `ChildThrows`, `ChildStops` |
| the clients | `Connect`, `Send` (the word, a part of it, or something else), `Leave` (close or reset) |
| the daemon starts another master | `Restart` |

`BESMaster.tla` is what section 3 assumes of a beslistener: the first word in the pipe says whether it serves, and is there before
it ends by itself. `LifeSpec` is the refinement: BESListener does this.

| Run | Shows |
|---|---|
| BESListener | three connections, one not allowed, two masters one after the other, one child that is stopped. `Consistent`: the types and `NoStrayHolder`: a connection is held by its own child, and by the master only while it greets, so that its client sees the end of the child. `WaitReturns`: wait() in the handler finds a zombie unless a child was stopped. `PatientHarmless`: only a client that leaves during its own welcome ends the master. `LifeSpec`. `TokenAnswered`: a client in the queue that has sent its word is welcomed however slow those before it are |

Three connections are one that is greeted, one whose child runs and one in the queue; `Timeout` 1 is
PPT_SERVER_DEFAULT_TIMEOUT; the second master meets the orphans of the first, which keep the port. Only the master's steps are
fair (`WF_vars(MasterStep)`): the system runs it, and clients, children and operators do what they like. Clients and masters are
finite, so the system comes to rest, and CHECK_DEADLOCK is off.

What the model also shows. (a) A client that connects and closes, without a word or with half of one, makes poll() report input,
read() return 0 and `Socket::receive()` throw; nothing catches this below `ServerApp::run()` (ServerApp.cc:453) and the master
ends, although PPTServer.cc:214 says "we don't want to exit by throwing an exception". That is the exception in
`PatientHarmless`. (b) SIGCHLDs merge, one wait() is called for each, and zombies stay: nothing says that all children are
reaped. (c) A SIGCHLD during poll() uses up the only try, and a client on its way is dropped. (d) A child that is
stopped makes wait() block with all signals blocked, until some child ends. (e) Without a TCP port (`HasTcp` FALSE) nothing is
written to the pipe and `LifeSpec` is violated at once. (f) Clients that connect while orphans alone hold the port are never
answered.

Not modelled: the secure form of the handshake, the mode without fork(), the limit of the queue, the loading of modules, and the
OLFS's side of a handshake that fails (it leaves its socket open).

## 9. Downloads from Glacier: `DownloadManager.tla`

The Glacier service keeps its data where a retrieval takes hours. A request for data that is not in the cache starts a job, the
client is told to come back, and a worker thread polls the jobs and copies what is ready into the cache. The table of downloads is
in memory and in a backup file, both changed under `_managerLock` (`lock`); a process that ends loses the first and starts from
the second.

| Code | Model |
|---|---|
| `GlacierDapDispatcher.requestDispatch()` | `Dispatch` (no file in the cache), `AlreadyRequested`, `Initiate`: three looks at the state, with the lock free between them |
| `initiateArchiveDownload()` | `StartJob`, `StartJobFails`, `Put`, `Accept` |
| `downloadArchive()`, `downloadJobOutput()`, `jobCompleted()` | `JobNotCompleted`, `NoOutput`, `OpenFile`, `Copied`, `CopyFails`, `JobCompletedThrows`, `Remove` |
| `saveActiveArchiveDownloads()` | `SaveOpens` (the old backup is gone: `Torn`), `Saved`, `SaveFails`; `SaveOpenFails` (the backup cannot be opened and stays as it was) |
| `WorkerThread.run()` | `Wake`, `WorkerLocks`, the downloads above, `RemoveCompleted`, `RoundEnds`; `WorkerEnds` on any exception |
| `destroy()` | `Destroy`, `DestroyLocks`, `Interrupt`, `Join` |
| `init()`, `startDownloadWorker()` | `Start` |
| Glacier, the end of the process | `JobCompletes`, `JobExpires`, `Crash` |

| Run | Shows |
|---|---|
| DownloadManager | two archives, two request threads, three requests, two failures and a crash. `Consistent`: the types and `BackupIsActive`: whenever the lock is free the backup holds the table, unless the last save failed (`saveFailed`). `NothingLost`: an archive whose request was accepted is whole in the cache or still listed, in memory and, after a crash, on disk; and a file that is not whole is always going to be written again; except what a failed save and then a crash have lost (`lost`). `RequestedArrives`: what is listed arrives without a further request while the worker lives. `LockReleased`: every call gives the lock back, whatever it throws, but for the one deadlock of `destroy()` |

Two requests for one archive meet in `initiateArchiveDownload()`; a third lists another archive, whose save or failure comes between.
Two failures let one hit a copy and another a save.

Fairness: each request in progress, the worker and `destroy()` are scheduled; Glacier completes its jobs. Requests are finitely many, so a
thread that waits for the lock gets it (a `ReentrantLock` that is not fair promises this only then). New requests, `Destroy`, crashes and
failures are not fair.

What the model also shows, and the properties name as their exceptions. (a) `resourceIsCached()` is true as soon as the file
exists, so a request can be answered from a file that is being copied. (b) Between the three looks of a request the worker may
finish: a second job is started for an archive that is cached, and its copy truncates the file. (c) The worker ends at any
exception, for example when Glacier is out of reach once; `_workerThread` is not null, so nobody starts another, and every
request for a listed archive is answered "pending" from then on. A job that expired while no worker ran ends the next one, too. (d) A
crash between `SaveOpens` and `Saved` leaves a backup that `init()` cannot read (`phase` "failed"): the service does not
start again until somebody removes the file. (e) A worker that has just woken waits for the lock that `destroy()` holds
while it joins the worker (`Stuck`). (f) `new FileOutputStream(backup)` (DownloadManager.java:417) may throw before anything is truncated, for
want of descriptors, for example, since none of these streams is ever closed. The old backup stays and can be read, but the table has
changed. If the process then ends before a save succeeds, the downloads that only memory had are gone; one whose copy had begun leaves a
partial file that nobody lists, and `resourceIsCached()` serves it for ever. The history variables `saveFailed` and `lost` say when this has happened and
to which archives; a later save that lists the archive again takes it out of `lost`. In the other direction an
old backup that lists too much does no harm.

Assumed: the ids of resources differ between vaults (`_activeArchiveDownloads` has the id alone for a key). An archive is retrieved
within the time that Glacier keeps it as long as a worker polls. Not modelled: inventories, which only the command line tool of
`Vault` downloads (one of their saves is commented out, DownloadManager.java:356); the length of the naps; the negotiation of the
delay; `AsyncDispatcher`, which keeps the start time of each pending response and answers by the clock.

## 10. Proofs

| Theorem | Establishes | From |
|---|---|---|
| BESCache3_proofs!TypeCorrect | `TypeOK` | CacheAssumption |
| BESCache3_proofs!UseSafeHolds | `UseSafe` | CacheAssumption and `Undisturbed` |
| BESCache3_proofs!CreateNeverBlocksHolds | `CreateNeverBlocks` | CacheAssumption and `Undisturbed` |
| BESCache3_proofs!ImplementsPinnedCacheHolds | `ImplementsPinnedCache`: the refinement of PinnedCache | CacheAssumption and `Undisturbed` |
| BESCache3_proofs!NoDeadlockHolds | `NoDeadlock` | CacheAssumption and `Undisturbed` |
| BESCache3_proofs!RecordedSizeCoversHolds | `RecordedSizeCovers` | the same, `InfoExists` and a finite set of files (`FromStart`) |
| BESCache3_proofs!CacheUnlockedOutsideHolds | `CacheUnlockedOutside` | CacheAssumption |
| BESPool_proofs!TypeCorrect, NotSharedHolds, OpenAreKnownHolds, PermitsKeptHolds, PoolBoundHolds | `TypeOK`, `NotShared`, `OpenAreKnown`, `PermitsKept`, `PoolBound` | PoolAssumption |
| DownloadManager_proofs!ConsistentHolds, NothingLostHolds | `Consistent`, `NothingLost` | ThreadsDiffer, BoundsAreNumbers |
| BESListener_proofs!ConsistentHolds, WaitReturnsHolds, PatientHarmlessHolds | `Consistent`, `WaitReturns`, `PatientHarmless` | ListenerAssumption, NamesDiffer |
| BESListener_proofs!LifeHolds | `LifeSpec`: the refinement of BESMaster | the same and `HasTcp` |
| BESDaemon_proofs!ConsistentHolds, NoOrphansHolds | `Consistent`, `NoOrphans` | DaemonAssumption and `QuietSignals` |
| PPTSession_proofs!TypeOKHolds, OwnAnswerHolds, WholeOrCutShortHolds | `TypeOK`, `OwnAnswer`, `WholeOrCutShort` | SessionAssumption |
| HTTPCache_proofs!ConsistentHolds, HeldStaysHolds, EntriesWholeHolds | `Consistent`, `HeldStays`, `EntriesWhole` | HTTPAssumption, EntriesDiffer |
| BESRequest_proofs!ConsistentHolds, ErrorEndsAnswerHolds, LastReleasesHolds, DefinedForTameHolds | `Consistent`, `ErrorEndsAnswer`, `LastReleases`, `DefinedForTame` | RequestAssumption |

They hold for any number of processes, threads, files, descriptors and clients and for any sizes, where the runs have two or
three of each.

**Cache.** `TypeOK` is not inductive: a process inside uncompress() must have a container (`CurOK`). `UseSafe` says that a
file in use is whole, which the next step preserves only if nobody can write, truncate or remove it. `SafeInv` adds what
keeps the others away: the cache lock has one writer (`InfoLockInv`); a writer of a file is alone and a lock needs an open
descriptor (`FileLockInv`); two names never share an inode (`DirInv`); a partial file is being filled by somebody who holds
it (`PartInv`); and `Knows(p)`, what the place of a process says about its locks, its descriptor and its pins. A lemma for
each action shows that the process that moves keeps its part, and `OtherKnows` that the others keep theirs as long as the
mover leaves the files that they hold alone. Purge is where this is decided: it removes a file only under a write lock, which
nobody gets while another process holds a read lock.

`Undisturbed` names what the theorem needs. A request with two containers can evict its own first file, because a process
never conflicts with its own fcntl locks. A decompression that throws, or a process that dies in one,
leaves a partial file that the next reader takes for a whole one once the lock is free. Containers and listeners are finite so
that a ring of waiting processes can be counted. `CacheUnlockedOutside` needs none of this: `LockInv` relates the lock to the
place of the process, and every failure goes through `Raise`.

The refinement has three steps that matter. The byte that completes a file adds it; DirInv keeps all other files as they are. A return
of access() pins a file that `KnowsCall` says is whole. PurgeRemove evicts, and a process that had pinned the file would hold a read lock on
it (`KnowsPins`), which the purge would have met. Every other step changes no file and gives no process a container (`LetsGo`).

`NoDeadlock`: by `FillInv` only a process that fills a file has it locked exclusively, and such a process waits for nobody; so
whoever waits for a file is no part of a ring, nor then is whoever waits for the cache.

`RecordedSizeCovers` is a sum over the files that are whole and added. `CoverInv` says besides that a purge has counted no less than the files
it will leave: while it holds the cache lock no file becomes one that counts, and a file that it can lock has no maker, so it is whole,
was so when it was counted, and its recorded size is what the sum loses. Without `FromStart` the theorem is false: a process that finds
the info file still empty fails to add its file, and the one that made the info file then writes 0. `NoDeadlock` is needed as well: a refused lock in
update_cache_info() would leave a file that is never added.

**Pool.** `IInv` has five parts. `LineInv`: whoever is between the lock and the release of it is the head of the line.
`PermitInv`: permits and holders together never exceed MaxClients and fall short of it by the exceptions at most. `Capacity`: clients in the queue and threads that
use one, or are about to make one, never exceed MaxClients; a client is only made when the queue is empty and by a holder of a
permit, and this is why offer() has room. `KnownInv`: the queue has no client twice, and open clients are in the queue or with
exactly one thread. `PoolBound` follows from `Capacity` and `KnownInv` by counting.

**Downloads.** `BackupIsActive` speaks of moments when the lock is free; `NothingLost` of the table while the process runs and of the
backup when it does not. Neither is inductive: a crash can come inside a save. `IInv` says what a thread knows at its place:
the lock is held by exactly the thread between lock() and unlock() (`LockInv`); a file that is being copied is listed, and one
whose download is about to be removed is whole (`PlaceInv`, `RoundInv`); the backup is behind the table only while somebody saves it, or after a failed save, and
is torn while it is being written (`BackupInv`); and both the table and a readable backup keep all that was promised and is not `lost`
(`ListInv`), which is what a crash needs. Nothing is assumed about crashes and failures. A lemma for each of the 29 actions keeps
each conjunct.

**Listener.** That wait() returns is a matter of counting signals, children and zombies only at first sight: `ChldInv` says that a
pending SIGCHLD comes with a zombie, unless a child was stopped. `FreshInv` says that a connection is made once, so a child is
forked for a connection that has none; `HeldInv` says where descriptors are; `WordInv` ties the place of the master to the first word in its
pipe. The refinement needs `WordInv`: `told` changes on the way up, or to a failure, and never again. `HasTcp` is needed for it
because a master with a unix socket only reports nothing. `PatientHarmless` is an action property; it follows from `WordReady`:
a read comes after poll() has said that there is something to read, or that the connection has ended.

**Daemon.** The stack of handlers makes this proof: `ShapeInv` says that there are three frames at most, that of SIGCHLD on top and that
of SIGTERM or SIGHUP over a thread that waits; `SignalInv`, which signals are blocked or pending meanwhile; `PipeInv`, what the first
word in a pipe says of the beslistener that wrote it. `LiveInv` is the heart: at most one beslistener lives, and the frame that starts it or `master` knows it.
`QuietSignals` stands in both theorems because without it they are false: a SIGTERM that comes while a beslistener is being started
finds no `master` to stop (section 3). `ExitInv` needs that nobody lives when the daemon exits, or the invalid port, whose exit `NoOrphans` excepts.

**PPT.** `OwnAnswer` speaks of what has been read; the invariant speaks of what is under way. `InboxInv`: what the client has written and
the child has not read is one request at most, then the extension that ends the session. `StreamInv`: there are p chunks of a response
and w chunks written, such that the child is about to write the one after the w-th (`Stage`) and those the client has not read are
exactly on the way, except perhaps one that was cut off (`OnTheWay`). A lemma for each action of either end re-establishes p and w.

**HTTP cache.** `PlaceInv` says what a thread at each place holds; `CountInv`, that the readers of an entry are its holders;
`IndexInv` and `WholeInv`, that what the table or a saved index lists has both its files; `DownInv`, what remains of a process that has ended.
An index that was written in part, or not at all, still says of no entry that it is in use (`IndexSaved`); that its files are there holds only of
one written in full, which is why a process that ends without that, and an fprintf() that fails, set `harmed`. `HeldStays` needs `CountInv`: collection and replacement look at the reader count only. `SizeInv` says that the recorded size is
a sum over the table. The sum is a fold, which has a recursive definition; the lemmas on `Space()` find what it does at an insertion, a
removal and a change, not by induction but from a smallest counterexample (the library proves that strict inclusion of finite sets is well-founded).
The lemmas on `Bytes()` in BESCache3_proofs do the same for the recorded size.

**Requests.** `Consistent` says that whatever will be used or released exists. For this `NewIs` shows that `New` always finds an object that nothing points to:
the lists that can point to objects have MaxContainers * (MaxCommands + |Defs|) places in all, and RequestAssumption gives at least
that many objects. `LiveInv` says that no list points to a deleted object and no two definitions share one; `RecordedInv` and
`HeldInv`, that the locked files and the cached containers still to be released correspond (the second for a tame client), which gives `LastReleases` and
`DefinedForTame`; `MadeInv`, `NewInv` and `FreshInv` say the same of a request that is still being built or executed.

Of the assumptions on the constants, those that the proofs have added say that threads, URLs, connections, objects and definitions are
finitely many, that a value for "none" is not one of the things, and that one of the sizes of the HTTP cache is the largest.

Every invariant that a run checks is proved, and so are both refinements. Only model-checked: `DrainCloses` of the pool and the other liveness properties (weak
fairness and ENABLED are beyond the proof system), and the two runs that find a violation.

## 11. Plan, and what is not modelled

Done: the modules of sections 2 to 9, the proofs of section 10.

Proofs that are left: `RecordedSizeCovers` with processes that die (it needs the weaker sum of the files whose maker lived), and `UseSafe` for requests with
several containers of one file.

### Not modelled

| Part | Why |
|---|---|
| bes/cmdln, bes/ppt/PPTClient.cc | one connection and one thread; its server side is section 5 |
| bes/dap/BESDAPCache.cc, BESDapResponseCache.cc, libdap/DAPCache3.cc | copies of the cache of section 2 with other keys, which also look at the age of a file and purge a single one; most of a module of their own would repeat section 2 |
| BES groups (olfs/.../bes/BesGroup.java, CyclicGroup.java) | a counter over a list; one hazard, listed (the counter wraps after 2^31 calls) |
| libdap's data model, constraints, marshalling | sequential conversions of trees of data with no state that outlives a call |
| hdf5_handler, netcdf_handler, dap-server | translation of file formats through external libraries |
| the other servlets of the OLFS | documents and catalogs made for one request |
| libdap/gl and win32, src/lodspeakr, src/data, src/dataone, doc, bin, conf | third-party code, data, scripts |

These parts are most of the repository by lines: the models cover the code that keeps state between calls or shares it
between threads and processes. Left out of the modelled parts, besides what their sections say: the command that returns the tail of
the log, whose positions are static, unsigned and blind to rotation (DaemonCommandHandler.cc:456); the size of the cache, clamped
to 2^44 megabytes and multiplied by 2^20 in 64 bits (BESCache3.cc:376); in `AsyncDispatcher` the start time of a response that is read,
compared and removed in separate steps (AsyncDispatcher.java:505).
