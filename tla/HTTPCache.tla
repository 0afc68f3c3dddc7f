----------------------------- MODULE HTTPCache -----------------------------
(***************************************************************************)
(* The HTTP cache of libdap (HTTPCache, HTTPCacheTable) and the threads of *)
(* one process that fetch URLs through it (HTTPConnect::caching_fetch_url).*)
(* Every public method holds the interface mutex d_cache_mutex from its    *)
(* first line to its last, so a method that cannot block is one step here; *)
(* cache_response() and update_response() are several, because they wait   *)
(* for the lock of an entry, or leave files behind when the process ends,  *)
(* while they hold it.                                                     *)
(*                                                                         *)
(* An entry's d_response_lock and d_response_write_lock are its `lock':    *)
(* "read" holds the first, "write" holds both.  Sizes are in blocks.       *)
(***************************************************************************)
EXTENDS Integers, FiniteSets, FiniteSetsExt

CONSTANTS
  Threads,        \* the threads that fetch
  Urls,           \* the URLs they fetch
  Names,          \* bound: cache file names that exist at a time
  Blocks,         \* the sizes a response can have, in blocks
  Totals,         \* the values set_max_size() is called with
  MaxEntrySize,   \* d_max_entry_size
  DumpFrequency,  \* DUMP_FREQUENCY
  MaxLeaks,       \* bound: readers that failing calls leave on an entry
  Faults,         \* I/O that may fail: "write" in cache_response(), "update" in update_response(),
                  \* "index" in cache_index_write() and cache_index_delete()
  Crashes,        \* the process may end without its destructors
  NoThread, NoUrl, NoEntry, NoName

ASSUME HTTPAssumption ==
  /\ Blocks \subseteq Nat /\ Totals \subseteq Nat /\ Totals # {}
  /\ MaxEntrySize \in Nat /\ DumpFrequency \in Nat /\ MaxLeaks \in Nat
  /\ Faults \subseteq {"write", "update", "index"} /\ Crashes \in BOOLEAN
  /\ NoThread \notin Threads /\ NoUrl \notin Urls /\ NoName \notin Names
  /\ IsFiniteSet(Threads) /\ IsFiniteSet(Urls)
  /\ \E n \in Totals : \A m \in Totals : m <= n

VARIABLES
  \* the process
  up,          \* it runs
  iface,       \* the thread that holds d_cache_mutex
  table,       \* d_cache_table
  size,        \* d_current_size
  total,       \* d_total_size
  newEntries,  \* d_new_entries, which stops where it makes a dump due
  openFiles,   \* d_open_files
  newName,     \* cachename of the entry that cache_response() is writing
  locked,      \* d_locked_entries: the entry bound to the FILE each thread has
  nullKey,     \* d_locked_entries has an element for a null FILE
  \* the threads
  pc, url,
  \* the persistent store
  bodies, metas,  \* names of the files that exist
  index,          \* the entries listed in .index
  harmed          \* history: update_response() or an fprintf() or the last write of the index has failed,
                  \* or a process has crashed

procVars == <<up, iface, table, size, total, newEntries, openFiles, newName, locked, nullKey>>
storeVars == <<bodies, metas, index, harmed>>
vars == <<procVars, pc, url, storeVars>>

Entry == [name : Names, blocks : Blocks, readers : -1..Cardinality(Threads) + MaxLeaks,
          lock : {"free", "read", "write"}, valid : {"fresh", "stale"}]
ASSUME EntriesDiffer == NoEntry \notin Entry

File == [url : Urls, name : Names]
NoFile == [url |-> NoUrl]

Steps == {"idle", "get", "hit", "reading", "null", "stale", "conditional", "asked", "store",
          "remove", "create", "body", "meta", "update", "again", "stuck"}

TypeOK ==
  /\ up \in BOOLEAN /\ iface \in Threads \cup {NoThread}
  /\ table \in [Urls -> Entry \cup {NoEntry}]
  /\ size \in Nat /\ total \in Totals /\ newEntries \in 0..DumpFrequency + 1
  /\ newName \in Names \cup {NoName}
  /\ openFiles \subseteq ({"body", "meta"} \X Names)
  /\ locked \in [Threads -> File \cup {NoFile}] /\ nullKey \in BOOLEAN
  /\ pc \in [Threads -> Steps] /\ url \in [Threads -> Urls \cup {NoUrl}]
  /\ bodies \subseteq Names /\ metas \subseteq Names
  /\ index \in [Urls -> Entry \cup {NoEntry}] /\ harmed \in BOOLEAN

Listed(t) == {u \in Urls : t[u] # NoEntry}
NamesIn(t) == {t[u].name : u \in Listed(t)}
Space(t, us) == MapThenSumSet(LAMBDA u : t[u].blocks, us)
Holders(u) == {t \in Threads : locked[t] # NoFile /\ locked[t].url = u}

Init ==
  /\ up = TRUE /\ iface = NoThread
  /\ table = [u \in Urls |-> NoEntry] /\ size = 0 /\ total = Max(Totals) /\ newEntries = 0
  /\ openFiles = {} /\ newName = NoName /\ locked = [t \in Threads |-> NoFile] /\ nullKey = FALSE
  /\ pc = [t \in Threads |-> "idle"] /\ url = [t \in Threads |-> NoUrl]
  /\ bodies = {} /\ metas = {} /\ index = [u \in Urls |-> NoEntry] /\ harmed = FALSE

-----------------------------------------------------------------------------
(* Garbage collection.  A cache c is its table and its d_current_size.  *)

\* remove_cache_entry() for each of us; the size never gets below zero.
Drop(c, us) ==
  LET gone == Space(c.table, us)
  IN [table |-> [u \in Urls |-> IF u \in us THEN NoEntry ELSE c.table[u]],
      size |-> IF gone > c.size THEN 0 ELSE c.size - gone]

Unused(c) == {u \in Listed(c.table) : c.table[u].readers = 0}

\* d_folder_size and d_gc_buffer are a tenth of the total size: HTTPConnect
\* calls set_max_size() before it fetches, and the constructor's values go.
StartGC(c, tot) == c.size + tot \div 10 > tot
StopGC(c, tot) == c.size + tot \div 10 < tot - tot \div 10

\* Each phase leaves one of a set of caches.  A stale entry has expired, or
\* must be revalidated whatever its age, which does not make it expire.
ExpiredGC(c) == {Drop(c, us) : us \in SUBSET {u \in Unused(c) : c.table[u].valid = "stale"}}
TooBigGC(c, tot) ==
  IF StartGC(c, tot) THEN Drop(c, {u \in Unused(c) : c.table[u].blocks > MaxEntrySize}) ELSE c

\* hits_gc() removes the entries with no hits, then those with one, and so on
\* until stopGC().  The hits are left out: any entries may go that are enough.
\* It does not end if the entries in use are too many.
HitsGC(c, tot) ==
  IF StartGC(c, tot)
    THEN {d \in {Drop(c, us) : us \in SUBSET Unused(c)} : StopGC(d, tot)}
    ELSE {c}

PerformGC(c, tot) == UNION {HitsGC(TooBigGC(d, tot), tot) : d \in ExpiredGC(c)}
\* The caches in which hits_gc() goes round for ever.
GCSpins(c, tot) ==
  {Drop(d, Unused(d)) : d \in {e \in {TooBigGC(f, tot) : f \in ExpiredGC(c)} : HitsGC(e, tot) = {}}}

\* The table t becomes c, and the files of the entries it lost are removed; ms
\* are the headers' files before that.
Install(t, c, ms) ==
  LET gone == NamesIn(t) \ NamesIn(c.table)
  IN /\ table' = c.table /\ size' = c.size
     /\ bodies' = bodies \ gone /\ metas' = ms \ gone

\* A bug: the index lists what the collection has removed.
WriteIndexEarly(t) ==
  index' = [u \in Urls |-> IF table[u] = NoEntry THEN NoEntry ELSE [table[u] EXCEPT !.readers = 0, !.lock = "free"]]

\* cache_index_write(): the readers and the locks of an entry are not saved.
WriteIndex(t) ==
  index' = [u \in Urls |-> IF t[u] = NoEntry THEN NoEntry ELSE [t[u] EXCEPT !.readers = 0, !.lock = "free"]]

\* cache_index_write() comes to some entries only.  What is left of a line that
\* is cut short is not listed.
CutIndex(t) ==
  \E us \in SUBSET Listed(t) : WriteIndex([u \in Urls |-> IF u \in us THEN t[u] ELSE NoEntry])

\* It fails: the file cannot be opened, or an fprintf() or fclose() fails.
IndexFails(t) == "index" \in Faults /\ (UNCHANGED index \/ CutIndex(t))

\* cache_index_write() by a method, which ends in either case; n new entries
\* remain if it throws, but a failing fclose() is ignored.  When fprintf() fails
\* the FILE stays open, and what it holds goes into whatever index is there when
\* the process ends.
SaveIndex(t, n) ==
  \/ WriteIndex(t) /\ newEntries' = 0 /\ UNCHANGED harmed
  \/ /\ "index" \in Faults
     /\ \/ UNCHANGED <<index, harmed>> /\ newEntries' = n
        \/ CutIndex(t) /\ newEntries' = n /\ harmed' = TRUE
        \/ CutIndex(t) /\ newEntries' = 0 /\ UNCHANGED harmed

Cache == [table |-> table, size |-> size]

-----------------------------------------------------------------------------
(* A thread fetches a URL. *)

Goto(t, step) ==
  /\ pc' = [pc EXCEPT ![t] = step]
  /\ url' = [url EXCEPT ![t] = IF step = "idle" THEN NoUrl ELSE @]
Free == up /\ iface = NoThread

Begin(t) ==
  /\ up /\ pc[t] = "idle"
  /\ \E u \in Urls : url' = [url EXCEPT ![t] = u]
  /\ pc' = [pc EXCEPT ![t] = "get"]
  /\ UNCHANGED <<procVars, storeVars>>

\* lock_read_response(): the first reader takes the lock, the others find it
\* taken and wait for a writer only.
LockRead(e) == [e EXCEPT !.lock = "read", !.readers = @ + 1]

\* A bug: every reader unlocks the mutex.
UnlockReadAlways(e) == [e EXCEPT !.readers = @ - 1, !.lock = "free"]

UnlockRead(e) ==
  [e EXCEPT !.readers = @ - 1, !.lock = IF e.readers = 1 THEN "free" ELSE @]

\* get_cached_response() finds the entry and its files, and binds the entry to
\* the FILE it returns.
Get(t) ==
  /\ Free /\ pc[t] \in {"get", "again"}
  /\ LET u == url[t] e == table[u] IN
     /\ e # NoEntry /\ e.lock # "write"
     /\ e.name \in bodies \cap metas
     /\ table' = [table EXCEPT ![u] = LockRead(e)]
     /\ locked' = [locked EXCEPT ![t] = [url |-> u, name |-> e.name]]
  /\ Goto(t, IF pc[t] = "get" THEN "hit" ELSE "reading")
  /\ UNCHANGED <<up, iface, size, total, newEntries, openFiles, newName, nullKey, storeVars>>

\* A file of the entry is missing: the exception leaves the entry locked.
GetFails(t) ==
  /\ Free /\ pc[t] \in {"get", "again"}
  /\ LET u == url[t] e == table[u] IN
     /\ e # NoEntry /\ e.lock # "write"
     /\ e.name \notin bodies \cap metas /\ e.readers < MaxLeaks
     /\ table' = [table EXCEPT ![u] = LockRead(e)]
  /\ Goto(t, "idle")
  /\ UNCHANGED <<up, iface, size, total, newEntries, openFiles, newName, locked, nullKey, storeVars>>

\* No entry: the caller asks the server, which answers or not.  After
\* update_response() it does not look, and makes a response of a null FILE.
GetMisses(t) ==
  /\ Free /\ pc[t] \in {"get", "again"} /\ table[url[t]] = NoEntry
  /\ \E step \in IF pc[t] = "get" THEN {"store", "idle"} ELSE {"null"} : Goto(t, step)
  /\ UNCHANGED <<procVars, storeVars>>

\* lock_read_response() waits for a writer that will not come back.
GetBlocks(t) ==
  /\ Free /\ pc[t] \in {"get", "again", "conditional"}
  /\ table[url[t]] # NoEntry /\ table[url[t]].lock = "write"
  /\ iface' = t
  /\ Goto(t, "stuck")
  /\ UNCHANGED <<up, table, size, total, newEntries, openFiles, newName, locked, nullKey, storeVars>>

\* is_url_valid() of a URL whose entry this thread has locked; it throws if
\* there is no entry.
IsValid(t) ==
  /\ Free /\ pc[t] = "hit"
  /\ LET e == table[url[t]]
     IN Goto(t, IF e = NoEntry THEN "idle" ELSE IF e.valid = "fresh" THEN "reading" ELSE "stale")
  /\ UNCHANGED <<procVars, storeVars>>

\* release_cached_response(): at the end of the response, or before it is
\* validated.
Release(t) ==
  /\ Free /\ pc[t] \in {"reading", "stale"}
  /\ table' = [table EXCEPT ![locked[t].url] = UnlockRead(@)]
  /\ locked' = [locked EXCEPT ![t] = NoFile]
  /\ Goto(t, IF pc[t] = "stale" THEN "conditional" ELSE "idle")
  /\ UNCHANGED <<up, iface, size, total, newEntries, openFiles, newName, nullKey, storeVars>>

\* A response without a stream is deleted: uncouple_entry_from_data() looks the
\* null FILE up with operator[], which adds it to the map, and throws.
ReleaseNull(t) ==
  /\ Free /\ pc[t] = "null"
  /\ nullKey' = TRUE
  /\ Goto(t, "idle")
  /\ UNCHANGED <<up, iface, table, size, total, newEntries, openFiles, newName, locked, storeVars>>

\* get_conditional_request_headers() throws if the entry is gone.
Conditional(t) ==
  /\ Free /\ pc[t] = "conditional"
  /\ table[url[t]] # NoEntry => table[url[t]].lock # "write"
  /\ Goto(t, IF table[url[t]] = NoEntry THEN "idle" ELSE "asked")
  /\ UNCHANGED <<procVars, storeVars>>

\* The server answers the conditional request, with 200, 304 or an error.
Answer(t) ==
  /\ up /\ pc[t] = "asked"
  /\ \E step \in {"store", "update", "idle"} : Goto(t, step)
  /\ UNCHANGED <<procVars, storeVars>>

-----------------------------------------------------------------------------
(* cache_response() *)

StoreBegin(t) ==
  /\ Free /\ pc[t] = "store"
  /\ iface' = t
  /\ Goto(t, "remove")
  /\ UNCHANGED <<up, table, size, total, newEntries, openFiles, newName, locked, nullKey, storeVars>>

\* A bug: the entry is removed without its write lock.
RemoveOldAtOnce(t) ==
  /\ up /\ pc[t] = "remove"
  /\ Install(table, Drop(Cache, {url[t]} \cap Listed(table)), metas)
  /\ Goto(t, "create")
  /\ UNCHANGED <<up, iface, total, newEntries, openFiles, newName, locked, nullKey, index, harmed>>

\* remove_entry_from_cache_table() waits for the write lock of the old entry.
RemoveOld(t) ==
  /\ up /\ pc[t] = "remove"
  /\ table[url[t]] # NoEntry => table[url[t]].lock = "free"
  /\ Install(table, Drop(Cache, {url[t]} \cap Listed(table)), metas)
  /\ Goto(t, "create")
  /\ UNCHANGED <<up, iface, total, newEntries, openFiles, newName, locked, nullKey, index, harmed>>

\* The method returns or throws; the response itself goes to the caller.
StoreEnds(t) ==
  /\ iface' = NoThread
  /\ Goto(t, "idle")

\* The response may not be cached, or there is no room for a file.
NotStored(t) ==
  /\ up /\ pc[t] = "create"
  /\ StoreEnds(t)
  /\ UNCHANGED <<up, table, size, total, newEntries, openFiles, newName, locked, nullKey, storeVars>>

\* create_location() makes the file, write_body() starts to fill it.
Unnamed == Names \ (bodies \cup metas \cup NamesIn(table) \cup NamesIn(index))
CreateBody(t) ==
  /\ up /\ pc[t] = "create"
  /\ newName' \in Unnamed
  /\ bodies' = bodies \cup {newName'}
  /\ openFiles' = openFiles \cup {<<"body", newName'>>}
  /\ Goto(t, "body")
  /\ UNCHANGED <<up, iface, table, size, total, newEntries, locked, nullKey, metas, index, harmed>>

\* write_body() is through; write_metadata() starts.
WriteBody(t) ==
  /\ up /\ pc[t] = "body"
  /\ openFiles' = (openFiles \ {<<"body", newName>>}) \cup {<<"meta", newName>>}
  /\ metas' = metas \cup {newName}
  /\ Goto(t, "meta")
  /\ UNCHANGED <<up, iface, table, size, total, newEntries, newName, locked, nullKey, bodies, index, harmed>>

\* A file cannot be opened or written: the exception leaves the name in
\* d_open_files; write_body() removes a file it could open.
WriteFails(t) ==
  /\ up /\ "write" \in Faults
  /\ \/ /\ pc[t] = "body"
        /\ bodies' \in {bodies, bodies \ {newName}} /\ UNCHANGED metas
     \/ /\ pc[t] = "meta"
        /\ metas' \in {metas, metas \ {newName}} /\ UNCHANGED bodies
  /\ newName' = NoName
  /\ StoreEnds(t)
  /\ UNCHANGED <<up, table, size, total, newEntries, openFiles, locked, nullKey, index, harmed>>

DumpDue(n) == n > DumpFrequency

\* The counter is kept where every further entry has the index written, which
\* it reaches only when that fails.
OneMore == IF DumpDue(newEntries) THEN newEntries ELSE newEntries + 1

\* The entry enters the table; every DUMP_FREQUENCY entries the cache is
\* collected if it is too large, and the index written.
AddEntry(t) ==
  /\ up /\ pc[t] = "meta"
  /\ \E b \in Blocks, v \in {"fresh", "stale"} :
       LET e == [name |-> newName, blocks |-> b, readers |-> 0, lock |-> "free", valid |-> v]
           c == [table |-> [table EXCEPT ![url[t]] = e], size |-> size + b]
           dump == DumpDue(OneMore)
           gc == dump /\ StartGC(c, total)
       IN \/ /\ ~dump
             /\ Install(c.table, c, metas) /\ newEntries' = OneMore
             /\ StoreEnds(t) /\ UNCHANGED <<index, harmed>>
          \/ /\ dump
             /\ \E d \in IF gc THEN PerformGC(c, total) ELSE {c} :
                  Install(c.table, d, metas) /\ SaveIndex(d.table, OneMore)
             /\ StoreEnds(t)
          \/ /\ gc
             /\ \E d \in GCSpins(c, total) : Install(c.table, d, metas)
             /\ newEntries' = OneMore
             /\ Goto(t, "stuck") /\ UNCHANGED <<iface, index, harmed>>
  /\ openFiles' = openFiles \ {<<"meta", newName>>}
  /\ newName' = NoName
  /\ UNCHANGED <<up, total, locked, nullKey>>

-----------------------------------------------------------------------------
(* update_response() and purge_cache() and set_max_size() *)

UpdateMisses(t) ==
  /\ Free /\ pc[t] = "update" /\ table[url[t]] = NoEntry
  /\ Goto(t, "idle")
  /\ UNCHANGED <<procVars, storeVars>>

UpdateBegin(t) ==
  /\ Free /\ pc[t] = "update" /\ table[url[t]] # NoEntry
  /\ iface' = t
  /\ UNCHANGED <<up, table, size, total, newEntries, openFiles, newName, locked, nullKey, pc, url, storeVars>>

\* With the write lock: the headers are merged and written back.  The caller
\* then takes the response from the cache.
Update(t) ==
  /\ up /\ pc[t] = "update" /\ iface = t
  /\ table[url[t]].lock = "free" /\ table[url[t]].name \in metas
  /\ \E v \in {"fresh", "stale"} :
       table' = [table EXCEPT ![url[t]].valid = v]
  /\ iface' = NoThread
  /\ Goto(t, "again")
  /\ UNCHANGED <<up, size, total, newEntries, openFiles, newName, locked, nullKey, storeVars>>

\* The headers cannot be read or written: the handler calls
\* unlock_read_response(), which releases neither lock.
UpdateFails(t) ==
  /\ up /\ pc[t] = "update" /\ iface = t
  /\ table[url[t]].lock = "free"
  /\ "update" \in Faults \/ table[url[t]].name \notin metas
  /\ openFiles' \in {openFiles, openFiles \cup {<<"meta", table[url[t]].name>>}}
  /\ table' = [table EXCEPT ![url[t]] = UnlockRead([@ EXCEPT !.lock = "write"])]
  /\ iface' = NoThread
  /\ Goto(t, "idle")
  /\ harmed' = TRUE
  /\ UNCHANGED <<up, size, total, newEntries, newName, locked, nullKey, bodies, metas, index>>

\* purge_cache(): throws if a FILE is bound.  delete_all_entries() goes through
\* the table and throws at the first entry that has readers; what it has
\* removed by then stays removed, and the index stays.
Purge(t) ==
  /\ Free /\ pc[t] = "idle"
  /\ \A s \in Threads : locked[s] = NoFile
  /\ ~nullKey
  /\ \E us \in SUBSET Unused(Cache) :
       /\ us # Listed(table) => Unused(Cache) # Listed(table)
       /\ Install(table, Drop(Cache, us), metas)
       /\ IF us = Listed(table)
            THEN /\ newEntries' = 0
                 /\ index' = [u \in Urls |-> NoEntry] \/ ("index" \in Faults /\ UNCHANGED index)
            ELSE UNCHANGED <<index, newEntries>>
  /\ UNCHANGED <<up, iface, total, openFiles, newName, locked, nullKey, pc, url, harmed>>

\* set_max_size(): a smaller cache is collected and the index written.
SetMaxSize(t) ==
  /\ Free /\ pc[t] = "idle"
  /\ \E n \in Totals \ {total} :
       LET gc == n < total /\ StartGC(Cache, n)
       IN /\ total' = n
          /\ \/ ~gc /\ Install(table, Cache, metas) /\ UNCHANGED <<iface, newEntries, pc, url, index, harmed>>
             \/ /\ gc
                /\ \E c \in PerformGC(Cache, n) : Install(table, c, metas) /\ SaveIndex(c.table, newEntries)
                /\ UNCHANGED <<iface, pc, url>>
             \/ /\ gc
                /\ \E c \in GCSpins(Cache, n) : Install(table, c, metas)
                /\ iface' = t /\ Goto(t, "stuck") /\ UNCHANGED <<newEntries, index, harmed>>
  /\ UNCHANGED <<up, openFiles, newName, locked, nullKey>>

-----------------------------------------------------------------------------
(* Time, and the life of the process. *)

Age(u) ==
  /\ up /\ table[u] # NoEntry /\ table[u].valid = "fresh"
  /\ table' = [table EXCEPT ![u].valid = "stale"]
  /\ UNCHANGED <<up, iface, size, total, newEntries, openFiles, newName, locked, nullKey, pc, url, storeVars>>

\* What dies with the process.
Dies ==
  /\ up' = FALSE /\ iface' = NoThread
  /\ table' = [u \in Urls |-> NoEntry] /\ size' = 0 /\ total' = Max(Totals) /\ newEntries' = 0
  /\ openFiles' = {} /\ newName' = NoName
  /\ locked' = [t \in Threads |-> NoFile] /\ nullKey' = FALSE
  /\ pc' = [t \in Threads |-> "idle"] /\ url' = [t \in Threads |-> NoUrl]

\* ~HTTPCache(): collects, and writes the index.  It takes no lock, and drops
\* the exception if there is no index: the next process trusts what is there.
\* The files in junk have been removed before.
Shutdown(junk) ==
  \E c \in IF StartGC(Cache, total) THEN PerformGC(Cache, total) ELSE {Cache} :
    LET gone == NamesIn(table) \ NamesIn(c.table)
    IN /\ \/ WriteIndex(c.table) /\ UNCHANGED harmed
          \/ IndexFails(c.table) /\ harmed' = TRUE
       /\ bodies' = (bodies \ gone) \ {n \in Names : <<"body", n>> \in junk}
       /\ metas' = (metas \ gone) \ {n \in Names : <<"meta", n>> \in junk}

\* exit(): delete_instance() is registered with atexit(); it does not look at
\* d_open_files.
Exit ==
  /\ up /\ \A t \in Threads : pc[t] = "idle"
  /\ Shutdown({})
  /\ Dies

\* SIGINT, SIGTERM or SIGPIPE: HTTPCacheInterruptHandler removes the files in
\* d_open_files and deletes the instance, whatever the threads are doing.
Interrupt ==
  /\ up
  /\ Shutdown(openFiles)
  /\ Dies

Crash ==
  /\ up /\ Crashes
  /\ Dies
  /\ harmed' = TRUE
  /\ UNCHANGED <<bodies, metas, index>>

\* The next process: instance(root, true) takes the store over and reads the
\* index; it does not look for the files.
Start ==
  /\ ~up
  /\ up' = TRUE
  /\ table' = index
  /\ size' = Space(index, Listed(index))
  /\ UNCHANGED <<iface, total, newEntries, openFiles, newName, locked, nullKey, pc, url, storeVars>>

-----------------------------------------------------------------------------
Fetches(t) ==
  \/ Begin(t) \/ Get(t) \/ GetFails(t) \/ GetMisses(t) \/ GetBlocks(t)
  \/ IsValid(t) \/ Release(t) \/ ReleaseNull(t) \/ Conditional(t) \/ Answer(t)
Stores(t) ==
  \/ StoreBegin(t) \/ RemoveOld(t) \/ NotStored(t) \/ CreateBody(t)
  \/ WriteBody(t) \/ WriteFails(t) \/ AddEntry(t)
Updates(t) == UpdateMisses(t) \/ UpdateBegin(t) \/ Update(t) \/ UpdateFails(t)

Next ==
  \/ \E t \in Threads : Fetches(t) \/ Stores(t) \/ Updates(t) \/ Purge(t) \/ SetMaxSize(t)
  \/ \E u \in Urls : Age(u)
  \/ Exit \/ Interrupt \/ Crash \/ Start

Spec == Init /\ [][Next]_vars

-----------------------------------------------------------------------------
(* Properties.  What a failing update_response(), an index that is left half  *)
(* written, a process that ends without its index and a crash spoil, and the  *)
(* code does not repair, is claimed as long as none of these has happened.    *)

\* The reader count of an entry, the lock it stands for and the FILEs bound to
\* the entry agree, whatever order threads take, release, replace and collect
\* in (HTTPCacheTable.h lock_read_response() .. unlock_write_response()).  A
\* get_cached_response() that fails leaves readers too many, never too few.
ReadersAreHolders ==
  up => \A u \in Listed(table) :
    LET r == table[u].readers h == Cardinality(Holders(u)) IN
    /\ ~harmed => r = h
    /\ table[u].lock # "write" => r >= h /\ (table[u].lock = "read" <=> r > 0)
    /\ table[u].lock = "write" => harmed /\ h = 0

\* What a thread reads is neither collected, purged nor replaced before it
\* calls release_cached_response(): its entry and both files stay.
HeldStays ==
  \A t \in Threads : locked[t] # NoFile =>
    LET e == table[locked[t].url]
    IN e # NoEntry /\ e.name = locked[t].name /\ e.name \in bodies \cap metas

\* d_current_size, which is only ever added to and subtracted from, is the
\* space of the entries, also across replacements, collections, purges and the
\* next process: otherwise startGC() collects too much or never.
SizeIsSum == up => size = Space(table, Listed(table))

\* The types of the table, its reader counts and its size.
Consistent == TypeOK /\ ReadersAreHolders /\ SizeIsSum

\* An entry that a request can find is whole: nothing in the table, and nothing
\* in an index that ~HTTPCache() wrote on exit() or on a signal, lacks a file
\* or is among the files the interrupt handler removes; so a cache that could
\* not open its index on the way, or not close it, loses nothing by it if it can
\* write one in the end.
EntriesWhole ==
  LET listed == IF up THEN NamesIn(table) ELSE NamesIn(index) IN
  ~harmed =>
  /\ listed \subseteq bodies \cap metas
  /\ \A n \in listed : <<"body", n>> \notin openFiles /\ <<"meta", n>> \notin openFiles

\* A thread that waits for an entry with the interface locked.
Waits(t) ==
  /\ pc[t] = "remove" \/ (pc[t] = "update" /\ iface = t)
  /\ table[url[t]] # NoEntry /\ table[url[t]].lock # "free"

\* "Also note that HTTPCache is MT-safe": no thread holds the interface for
\* ever.  Nobody can release an entry while a thread that holds the interface
\* waits for it.
NoHang == \A t \in Threads : ~Waits(t) /\ pc[t] # "stuck"
=============================================================================
