----------------------------- MODULE BESRequest -----------------------------
(***************************************************************************)
(* The execution of requests in one child of the beslistener: the commands *)
(* of a request document (BESXMLInterface), the containers and definitions *)
(* that they make and use (the volatile storages, which outlive a request),*)
(* the answer and its error (BESInterface, BESServerHandler::execute), and *)
(* the release of what a request has used.                                 *)
(*                                                                         *)
(* A BESFileContainer is an object with an identity: it belongs to the     *)
(* definition that was made with it, and the commands that use it point to *)
(* it.  The one in the container storage is only ever copied, so the       *)
(* storage is a map to files.                                              *)
(***************************************************************************)
EXTENDS Integers, Sequences, SequencesExt, FiniteSets, TLC

CONSTANTS
  Names,          \* symbolic names of containers
  Defs,           \* names of definitions
  Files,          \* real names
  Compressed,     \* the files that access() decompresses into the cache
  Objects,        \* the container objects
  MaxCommands,    \* bound: commands of a request
  MaxRequests,    \* bound: requests to a child
  MaxContainers,  \* bound: containers of a definition
  Garbage,        \* the values that an uninitialized bool can read as
  NoFile

ASSUME RequestAssumption ==
  /\ Compressed \subseteq Files /\ NoFile \notin Files
  /\ MaxCommands \in Nat /\ MaxRequests \in Nat /\ MaxContainers \in Nat /\ Garbage \subseteq BOOLEAN
  \* There is always another object to make.
  /\ IsFiniteSet(Objects) /\ IsFiniteSet(Defs)
  /\ Cardinality(Objects) >= MaxContainers * (MaxCommands + Cardinality(Defs))

VARIABLES
  \* the child, between and during requests
  store,     \* the container storage: the file of each symbolic name
  defs,      \* the definition storage: the objects of each definition
  heap,      \* the container objects; Freed if deleted or never made
  cache,     \* the BESCache3 instance exists
  recorded,  \* d_locks: files with a read lock and a recorded descriptor
  requests,  \* how many this child has received
  \* the request
  phase,
  cmds,         \* _cmd_list: the commands, each with the objects its dhi points to
  next,         \* the command that is executed next, or is being executed
  k,            \* containers_iterator
  hasResponse,  \* has_response
  answer,       \* what has been sent
  \* history
  undefined,  \* release() has used the end of d_locks as an element
  tame,       \* see DefinedForTame
  early       \* files that a command before the last one has accessed, or that
              \* could not be decompressed

childVars == <<store, defs, heap, cache, recorded, requests>>
histVars == <<undefined, tame, early>>
vars == <<childVars, phase, cmds, next, k, hasResponse, answer, histVars>>

\* cached is BESFileContainer::_cached, which no constructor sets.
Container == [file : Files, cached : {"unset", "yes", "no"}, target : Files \cup {NoFile}]
Freed == [cached |-> "freed"]

Lists(S, n) == UNION {[1..m -> S] : m \in 1..n}
Commands ==
  [op : {"setContainer"}, name : Names, file : Files]
    \cup [op : {"define"}, def : Defs, names : Lists(Names, MaxContainers)]
    \cup [op : {"get", "deleteDefinition"}, def : Defs]
    \cup [op : {"deleteContainer"}, name : Names]
    \cup [op : {"show"}]

\* has_response() of each class of commands.
HasResponse(c) == c.op \in {"get", "show"}

TypeOK ==
  /\ store \in [Names -> Files \cup {NoFile}]
  /\ \A d \in Defs : defs[d] \in Seq(Objects)
  /\ heap \in [Objects -> Container \cup {Freed}]
  /\ requests \in 0..MaxRequests /\ cache \in BOOLEAN /\ recorded \subseteq Compressed
  /\ phase \in {"idle", "build", "execute", "get", "transmit", "failed", "error", "end", "dead"}
  /\ Len(cmds) <= MaxCommands
  /\ \A i \in DOMAIN cmds : cmds[i].cmd \in Commands /\ cmds[i].containers \in Seq(Objects)
  /\ next \in 0..MaxCommands + 1 /\ k \in 0..MaxContainers + 1
  /\ hasResponse \in BOOLEAN /\ answer \in Seq({"response", "part", "status", "error"})
  /\ undefined \in BOOLEAN /\ tame \in BOOLEAN /\ early \subseteq Compressed

NoDef == <<>>

Init ==
  /\ store = [n \in Names |-> NoFile] /\ defs = [d \in Defs |-> NoDef]
  /\ heap = [o \in Objects |-> Freed] /\ cache = FALSE /\ recorded = {} /\ requests = 0
  /\ phase = "idle" /\ cmds = <<>> /\ next = 0 /\ k = 0 /\ hasResponse = FALSE /\ answer = <<>>
  /\ undefined = FALSE /\ tame = TRUE /\ early = {}

-----------------------------------------------------------------------------
(* A request arrives and is built.  *)

Receive ==
  /\ phase = "idle" /\ requests < MaxRequests
  /\ phase' = "build" /\ requests' = requests + 1
  /\ UNCHANGED <<store, defs, heap, cache, recorded, cmds, next, k, hasResponse, answer, histVars>>

Command(c) == [cmd |-> c, containers |-> <<>>]

\* The command enters the list, then it is compared with the one before it,
\* then it is parsed.
Build(c) ==
  /\ phase = "build" /\ Len(cmds) < MaxCommands
  /\ cmds' = Append(cmds, Command(c))
  /\ IF hasResponse /\ HasResponse(c)
       THEN phase' = "failed" /\ UNCHANGED hasResponse
       ELSE UNCHANGED phase /\ hasResponse' = HasResponse(c)
  /\ UNCHANGED <<childVars, next, k, answer, histVars>>

\* The document, an element or its transmitter is unknown or wrong.
BuildFails ==
  /\ phase = "build"
  /\ phase' = "failed"
  /\ UNCHANGED <<childVars, cmds, next, k, hasResponse, answer, histVars>>

Built ==
  /\ phase = "build"
  /\ phase' = "execute" /\ next' = 1
  /\ UNCHANGED <<childVars, cmds, k, hasResponse, answer, histVars>>

-----------------------------------------------------------------------------
(* The commands are executed, one after the other, until one throws.  *)

Now == cmds[next].cmd
Executes(op) == phase = "execute" /\ next \in DOMAIN cmds /\ Now.op = op
Done == next' = next + 1 /\ UNCHANGED phase
Throws == phase' = "failed" /\ UNCHANGED next

\* del_container(), then add_container(), which checks the path.
SetContainer ==
  /\ Executes("setContainer")
  /\ \/ store' = [store EXCEPT ![Now.name] = Now.file] /\ Done
     \/ store' = [store EXCEPT ![Now.name] = NoFile] /\ Throws
  /\ UNCHANGED <<defs, heap, cache, recorded, requests, cmds, k, hasResponse, answer, histVars>>

DeleteContainer ==
  /\ Executes("deleteContainer")
  /\ store' = [store EXCEPT ![Now.name] = NoFile]
  /\ IF store[Now.name] = NoFile THEN Throws ELSE Done
  /\ UNCHANGED <<defs, heap, cache, recorded, requests, cmds, k, hasResponse, answer, histVars>>

\* ~BESDefine(): the containers belong to the definition.
Delete(h, os) == [o \in Objects |-> IF o \in os THEN Freed ELSE h[o]]

\* ptr_duplicate() of the stored containers, with an uninitialized _cached.
Copies(h, os, ns) ==
  [o \in Objects |->
     IF o \in ToSet(os)
       THEN [file |-> store[ns[CHOOSE i \in DOMAIN os : os[i] = o]], cached |-> "unset", target |-> NoFile]
       ELSE h[o]]

\* n objects nobody points to.
New(n) ==
  LET reachable == (UNION {ToSet(defs[d]) : d \in Defs}) \cup (UNION {ToSet(cmds[i].containers) : i \in DOMAIN cmds})
  IN CHOOSE os \in [1..n -> Objects \ reachable] : IsInjective(os)

\* prep_request() looks the containers up; the first that is missing throws,
\* with the copies made so far in the dhi.
DefineFails ==
  /\ Executes("define")
  /\ \E n \in DOMAIN Now.names :
       /\ store[Now.names[n]] = NoFile
       /\ \A m \in 1..n - 1 : store[Now.names[m]] # NoFile
       /\ LET os == New(n - 1) IN
          /\ heap' = Copies(heap, os, Now.names)
          /\ cmds' = [cmds EXCEPT ![next].containers = os]
  /\ Throws
  /\ UNCHANGED <<store, defs, cache, recorded, requests, k, hasResponse, answer, histVars>>

\* The old definition is deleted, the new one added; the dhi keeps its pointers
\* to the containers.
Define ==
  /\ Executes("define")
  /\ \A n \in DOMAIN Now.names : store[Now.names[n]] # NoFile
  /\ LET os == New(Len(Now.names)) IN
     /\ heap' = Copies(Delete(heap, ToSet(defs[Now.def])), os, Now.names)
     /\ defs' = [defs EXCEPT ![Now.def] = os]
     /\ cmds' = [cmds EXCEPT ![next].containers = os]
  /\ Done
  /\ UNCHANGED <<store, cache, recorded, requests, k, hasResponse, answer, histVars>>

DeleteDefinition ==
  /\ Executes("deleteDefinition")
  /\ heap' = Delete(heap, ToSet(defs[Now.def])) /\ defs' = [defs EXCEPT ![Now.def] = NoDef]
  /\ IF defs[Now.def] = NoDef THEN Throws ELSE Done
  /\ UNCHANGED <<store, cache, recorded, requests, cmds, k, hasResponse, answer, histVars>>

Show ==
  /\ Executes("show")
  /\ phase' = "transmit"
  /\ UNCHANGED <<childVars, cmds, next, k, hasResponse, answer, histVars>>

\* No container of the definition is used that an earlier request has used, and
\* no two decompress the same file.
Fresh(os) ==
  /\ \E i \in 1..next - 1 : cmds[i].cmd.op = "define" /\ cmds[i].containers = os
  /\ \A i, j \in DOMAIN os : heap[os[i]].file = heap[os[j]].file /\ i # j => heap[os[i]].file \notin Compressed

\* prep_request() of a get: the dhi points to the containers of the definition.
Get ==
  /\ Executes("get")
  /\ LET os == defs[Now.def] IN
     /\ os # NoDef
     /\ cmds' = [cmds EXCEPT ![next].containers = os]
     /\ tame' = (tame /\ Fresh(os))
  /\ phase' = "get" /\ k' = 1
  /\ UNCHANGED <<childVars, next, hasResponse, answer, undefined, early>>

GetFails ==
  /\ Executes("get") /\ defs[Now.def] = NoDef
  /\ Throws
  /\ UNCHANGED <<childVars, cmds, k, hasResponse, answer, histVars>>

Used == cmds[next].containers
Early(f) == early' = IF next < Len(cmds) /\ f \in Compressed THEN early \cup {f} ELSE early

\* execute_each(): access() of the next container, and its handler.  Calling
\* access() again, as the handler does, changes nothing here: d_locks keeps
\* the first descriptor.
Access ==
  /\ phase = "get" /\ k <= Len(Used)
  /\ cache' = TRUE
  /\ LET o == Used[k] f == heap[o].file IN
     /\ heap' = [heap EXCEPT ![o].cached = IF f \in Compressed THEN "yes" ELSE "no",
                             ![o].target = IF f \in Compressed THEN f ELSE @]
     /\ recorded' = recorded \cup ({f} \cap Compressed)
     /\ Early(f)
  /\ k' = k + 1
  /\ UNCHANGED <<store, requests, defs, phase, cmds, next, hasResponse, answer, undefined, tame>>

\* A bug: _cached is set before uncompress() is called.
AccessFailsCached ==
  /\ phase = "get" /\ k <= Len(Used)
  /\ cache' = TRUE
  /\ LET o == Used[k] f == heap[o].file IN
     /\ f \in Compressed
     /\ heap' = [heap EXCEPT ![o].cached = "yes", ![o].target = f]
     /\ recorded' \in {recorded, recorded \cup {f}}
     /\ early' = IF recorded' = recorded THEN early ELSE early \cup {f}
  /\ Throws
  /\ UNCHANGED <<store, requests, defs, cmds, k, hasResponse, answer, undefined, tame>>

\* uncompress() throws: the target's name is set, _cached is not.  A file that
\* could not be decompressed keeps its lock.  Or the handler throws after that.
AccessFails ==
  /\ phase = "get" /\ k <= Len(Used)
  /\ cache' = TRUE
  /\ LET o == Used[k] f == heap[o].file IN
     /\ f \in Compressed
     /\ heap' = [heap EXCEPT ![o].target = f]
     /\ recorded' \in {recorded, recorded \cup {f}}
     /\ early' = IF recorded' = recorded THEN early ELSE early \cup {f}
  /\ Throws
  /\ UNCHANGED <<store, requests, defs, cmds, k, hasResponse, answer, undefined, tame>>

\* The handler of the container accessed last, the aggregation or the checks
\* before the response throw.
HandlerFails ==
  /\ phase = "get" /\ k > 1
  /\ Throws
  /\ UNCHANGED <<childVars, cmds, k, hasResponse, answer, histVars>>

Accessed ==
  /\ phase = "get" /\ k > Len(Used)
  /\ phase' = "transmit"
  /\ UNCHANGED <<childVars, cmds, next, k, hasResponse, answer, histVars>>

\* transmit_data() of a command with a response, before the next is executed.
Transmit ==
  /\ phase = "transmit"
  /\ \/ answer' = Append(answer, "response") /\ phase' = "execute" /\ next' = next + 1
     \/ answer' = Append(answer, "part") /\ Throws
  /\ UNCHANGED <<childVars, cmds, k, hasResponse, histVars>>

-----------------------------------------------------------------------------
(* The end of the request.  log_status() leaves _dhi at the last command of  *)
(* the list, or where it is if there is none, and end_request() follows.     *)

\* A bug: a request that failed is not ended.
ToReleaseOnSuccess ==
  IF cmds = <<>> \/ Contains(answer, "error") THEN <<>> ELSE Last(cmds).containers

\* A bug: the containers of all the commands are released.
ToReleaseAll == FlattenSeq([i \in DOMAIN cmds |-> cmds[i].containers])

ToRelease == IF cmds = <<>> THEN <<>> ELSE Last(cmds).containers

Succeeds ==
  /\ phase = "execute" /\ next > Len(cmds)
  /\ phase' = "end" /\ k' = 1
  /\ UNCHANGED <<childVars, cmds, next, hasResponse, answer, histVars>>

\* The server tells the client to reset.
SendStatus ==
  /\ phase = "failed"
  /\ answer' = Append(answer, "status")
  /\ phase' = "error"
  /\ UNCHANGED <<childVars, cmds, next, k, hasResponse, histVars>>

\* A bug: the error is printed as well, though it has been transmitted.
FinishWithErrorTwice ==
  /\ phase = "error"
  /\ answer' \in {answer \o <<"error", "error">>, answer \o <<"part", "error">>}
  /\ phase' = "end" /\ k' = 1
  /\ UNCHANGED <<childVars, cmds, next, hasResponse, histVars>>

\* finish_with_error(): the error is transmitted; if that fails, the error of
\* the failure is printed.
FinishWithError ==
  /\ phase = "error"
  /\ answer' \in {answer \o <<"error">>, answer \o <<"part", "error">>}
  /\ phase' = "end" /\ k' = 1
  /\ UNCHANGED <<childVars, cmds, next, hasResponse, histVars>>

\* release() unlocks if _cached; get_instance() throws if there is no cache,
\* and end_request() ends there.  unset is what an uninitialized _cached reads as.
Release ==
  /\ phase = "end" /\ k <= Len(ToRelease)
  /\ LET o == ToRelease[k] c == heap[o] IN
     \E unset \in Garbage :
       LET unlocks == c.cached = "yes" \/ (c.cached = "unset" /\ unset) IN
       /\ tame' = (tame /\ ~(c.cached = "unset" /\ unset))
       /\ recorded' = IF unlocks /\ cache THEN recorded \ {c.target} ELSE recorded
       /\ undefined' = (unlocks /\ cache /\ c.target \notin recorded)
       /\ k' = IF unlocks /\ ~cache THEN Len(ToRelease) + 1 ELSE k + 1
  /\ phase' = IF undefined' THEN "dead" ELSE phase
  /\ UNCHANGED <<store, requests, defs, heap, cache, cmds, next, hasResponse, answer, early>>

NoRequest ==
  /\ phase' = "idle" /\ cmds' = <<>> /\ next' = 0 /\ k' = 0
  /\ hasResponse' = FALSE /\ answer' = <<>>

\* ~BESXMLInterface(): clean() deletes the commands, not their containers; the
\* model forgets those that nobody can reach any more.
Clean ==
  /\ phase = "end" /\ k > Len(ToRelease)
  /\ NoRequest
  /\ tame' = TRUE
  /\ heap' = Delete(heap, Objects \ UNION {ToSet(defs[d]) : d \in Defs})
  /\ UNCHANGED <<store, defs, cache, recorded, requests, undefined, early>>

\* The client leaves, the error was fatal, or the child has crashed; the next
\* child is a copy of the master, whose storages are empty.
NextChild ==
  /\ phase \in {"idle", "dead"}
  /\ store' = [n \in Names |-> NoFile] /\ defs' = [d \in Defs |-> NoDef]
  /\ heap' = [o \in Objects |-> Freed] /\ cache' = FALSE /\ recorded' = {} /\ requests' = 0
  /\ NoRequest
  /\ undefined' = FALSE /\ tame' = TRUE /\ early' = {}

-----------------------------------------------------------------------------
Builds == Receive \/ (\E c \in Commands : Build(c)) \/ BuildFails \/ Built
ExecutesOne ==
  \/ SetContainer \/ DeleteContainer \/ DefineFails \/ Define \/ DeleteDefinition
  \/ Show \/ Get \/ GetFails \/ Access \/ AccessFails \/ HandlerFails \/ Accessed \/ Transmit
Ends == Succeeds \/ SendStatus \/ FinishWithError \/ Release \/ Clean \/ NextChild

Next == Builds \/ ExecutesOne \/ Ends
Spec == Init /\ [][Next]_vars

-----------------------------------------------------------------------------
(* Properties *)

\* BESDefine deletes its containers while commands still point to them:
\* whatever a request uses or releases, and whatever a definition holds, has
\* not been deleted, and no container belongs to two definitions.
NoDangling ==
  /\ \A d \in Defs : \A o \in ToSet(defs[d]) :
       heap[o] # Freed /\ \A e \in Defs \ {d} : o \notin ToSet(defs[e])
  /\ phase = "get" => \A o \in ToSet(Used) : heap[o] # Freed
  /\ phase = "end" => \A o \in ToSet(ToRelease) : heap[o] # Freed

\* The types, and pointers only to what has not been deleted.
Consistent == TypeOK /\ NoDangling

\* Each request is answered by what its commands have sent, and if one has
\* failed, whatever has been sent by then, by the status and one error at the
\* end (BESServerHandler::execute(), BESInterface::finish()).
ErrorEndsAnswer ==
  phase = "end" =>
    \A i \in DOMAIN answer :
      /\ answer[i] = "error" => i = Len(answer)
      /\ answer[i] = "status" => Last(answer) = "error" /\ \A j \in 1..i - 1 : answer[j] # "status"
      /\ answer[i] = "part" => Last(answer) = "error"
      /\ answer[i] = "error" => \E j \in 1..i - 1 : answer[j] = "status"

\* At the end of a request every decompressed file is unlocked, except those
\* that a command before the last one has accessed, or that could not be
\* decompressed (BESInterface::end_request()): the child keeps no others from
\* being collected.
LastReleases == phase = "idle" => recorded \subseteq early

\* A client that defines in each request what it gets, from different files, as
\* the OLFS does, never makes release() look for a file that is not locked,
\* whatever fails; as long as no uninitialized _cached reads TRUE.
DefinedForTame == undefined => ~tame

\* "only one of the commands can build a response": an answer has two only if a
\* command without a response lies between.
OneResponse ==
  phase \in {"execute", "idle"} => Len(SelectSeq(answer, LAMBDA a : a \in {"response", "part"})) <= 1
=============================================================================
