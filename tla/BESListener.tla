----------------------------- MODULE BESListener -----------------------------
(***************************************************************************)
(* The master beslistener: it listens, accepts a connection, greets the    *)
(* client and forks a child that serves it (server/ServerApp.cc,           *)
(* ppt/SocketListener.cc, ppt/PPTServer.cc, server/BESServerHandler.cc).   *)
(*                                                                         *)
(* A connection names its client and the child that serves it.  Processes  *)
(* share what they inherit: held says who has the descriptor of a          *)
(* connection, port who has the listening socket.  The connection ends for *)
(* the client when nobody holds it any more.                               *)
(***************************************************************************)
EXTENDS Naturals, Sequences, SequencesExt, FiniteSets

CONSTANTS
  Conns,       \* the connections that clients make
  Denied,      \* those that allowConnection() refuses
  Timeout,     \* PPT_SERVER_DEFAULT_TIMEOUT: how often the first word is polled for
  HasTcp,      \* bes.conf has a TCP port; there may be a unix socket as well
  MaxMasters,  \* bound: masters that are started, one after the other
  MaxStops     \* bound: children that are stopped (SIGSTOP)

ASSUME ListenerAssumption ==
  /\ IsFiniteSet(Conns) /\ Denied \subseteq Conns /\ Timeout \in Nat \ {0} /\ HasTcp \in BOOLEAN
  /\ MaxMasters \in Nat \ {0} /\ MaxStops \in Nat

VARIABLES
  \* the master
  pc,       \* where it is
  cur,      \* _mySock: the connection it has accepted
  tries,    \* what is left of the loop in readBufferNonBlocking()
  waiting,  \* CatchSigChild() blocks in wait(), with the signals blocked
  chld,     \* SIGCHLD is pending
  told,     \* the first word in the pipe to the daemon
  masters,  \* how many have been started
  \* sockets and children
  port, held, queue,
  child,
  \* the clients
  sent,     \* what of the client's first word has arrived and is not read
  end,      \* how the client has ended its side
  got,      \* what the client has received
  \* history
  stops,    \* children that were stopped
  ended     \* why the last master ended

masterVars == <<pc, cur, tries, waiting, chld, told, masters>>
socketVars == <<port, held, queue, child>>
clientVars == <<sent, end, got>>
vars == <<masterVars, socketVars, clientVars, stops, ended>>

Master == "master"
NoConn == "none"
ASSUME NamesDiffer == Master \notin Conns /\ NoConn \notin Conns

Processes == Conns \cup {Master}

IsUp == pc \notin {"init", "failing", "ended"}
Zombies == {c \in Conns : child[c] = "zombie"}

TypeOK ==
  /\ pc \in {"init", "failing", "select", "poll", "read", "refuse", "welcome", "fork", "close", "ended"}
  /\ cur \in Conns \cup {NoConn} /\ tries \in 0..Timeout /\ waiting \in BOOLEAN /\ chld \in BOOLEAN
  /\ told \in {"nothing", "running", "fatal", "text"} /\ masters \in 0..MaxMasters
  /\ port \subseteq Processes /\ held \in [Conns -> SUBSET Processes]
  /\ queue \in Seq(Conns)
  /\ child \in [Conns -> {"none", "running", "orphan", "zombie", "gone"}]
  /\ sent \in [Conns -> {"nothing", "part", "token", "read"}]
  /\ end \in [Conns -> {"away", "open", "fin", "rst"}]
  /\ got \in [Conns -> {"nothing", "ok", "refusal", "end"}]
  /\ stops \in 0..MaxStops /\ ended \in {"no", "start", "signal", "fork", "client"}

Init ==
  /\ pc = "init" /\ cur = NoConn /\ tries = 0 /\ waiting = FALSE /\ chld = FALSE
  /\ told = "nothing" /\ masters = 1
  /\ port = {} /\ held = [c \in Conns |-> {}] /\ queue = <<>> /\ child = [c \in Conns |-> "none"]
  /\ sent = [c \in Conns |-> "nothing"] /\ end = [c \in Conns |-> "away"] /\ got = [c \in Conns |-> "nothing"]
  /\ stops = 0 /\ ended = "no"

-----------------------------------------------------------------------------
(* Descriptors. *)

\* Process p closes the connections cs, and the listening socket if that is
\* said; a client whose connection nobody holds sees its end.  When nobody
\* listens any more, the connections in the queue end too.
Closes(p, cs, listening) ==
  /\ held' = [c \in Conns |-> IF c \in cs THEN held[c] \ {p} ELSE held[c]]
  /\ port' = IF listening THEN port \ {p} ELSE port
  /\ queue' = IF port' = {} THEN <<>> ELSE queue
  /\ got' = [c \in Conns |->
               IF (held[c] # {} /\ held'[c] = {}) \/ (port' = {} /\ c \in ToSet(queue)) THEN "end" ELSE got[c]]

\* The first word that is written to the pipe is the one that the daemon reads.
Tell(word) == told' = IF told = "nothing" THEN word ELSE told

\* Where the master does something by itself.
At(place) == pc = place /\ ~waiting

\* The process of the master ends: what it holds is closed, its children get
\* another parent.
MasterEnds(why) ==
  /\ pc' = "ended" /\ ended' = why
  /\ cur' = NoConn /\ tries' = 0 /\ waiting' = FALSE /\ chld' = FALSE
  /\ Closes(Master, Conns, TRUE)
  /\ child' = [c \in Conns |-> CASE child[c] = "running" -> "orphan"
                                  [] child[c] = "zombie" -> "gone"
                                  [] OTHER -> child[c]]
  /\ UNCHANGED <<masters, sent, end, stops>>

\* A BESError reaches run(), which tells the daemon that it cannot start.
Throws(why) == Tell("fatal") /\ MasterEnds(why)

-----------------------------------------------------------------------------
(* ServerApp::run() *)

\* A bug: the status is not written.
ListenSilent ==
  /\ At("init") /\ (HasTcp => port = {})
  /\ port' = {Master} /\ queue' = <<>>
  /\ got' = [c \in Conns |-> IF c \in ToSet(queue) THEN "end" ELSE got[c]]
  /\ pc' = "select"
  /\ UNCHANGED <<cur, tries, waiting, chld, told, masters, held, child, sent, end, stops, ended>>

\* The TCP port can be bound when no process listens to it.  The status is
\* written for this port only; a unix socket is unlinked and bound anew.
Listen ==
  /\ At("init") /\ (HasTcp => port = {})
  /\ port' = {Master} /\ queue' = <<>>
  /\ got' = [c \in Conns |-> IF c \in ToSet(queue) THEN "end" ELSE got[c]]
  /\ pc' = "select"
  /\ IF HasTcp THEN Tell("running") ELSE UNCHANGED told
  /\ UNCHANGED <<cur, tries, waiting, chld, masters, held, child, sent, end, stops, ended>>

\* bind() or anything else fails.
ListenFails ==
  /\ At("init")
  /\ Tell("fatal")
  /\ pc' = "failing"
  /\ UNCHANGED <<cur, tries, waiting, chld, masters, socketVars, clientVars, stops, ended>>

Fails == At("failing") /\ MasterEnds("start") /\ UNCHANGED told

\* The daemon, or an operator, starts another one.
Restart ==
  /\ pc = "ended" /\ masters < MaxMasters
  /\ pc' = "init" /\ masters' = masters + 1 /\ told' = "nothing" /\ ended' = "no"
  /\ UNCHANGED <<cur, tries, waiting, chld, socketVars, clientVars, stops>>

-----------------------------------------------------------------------------
(* PPTServer::initConnection() *)

Accept ==
  /\ At("select") /\ queue # <<>>
  /\ cur' = Head(queue) /\ queue' = Tail(queue)
  /\ held' = [held EXCEPT ![Head(queue)] = {Master}]
  /\ IF Head(queue) \in Denied THEN pc' = "close" /\ UNCHANGED tries ELSE pc' = "poll" /\ tries' = Timeout
  /\ UNCHANGED <<waiting, chld, told, masters, port, child, clientVars, stops, ended>>

\* close(), and back to accept().
CloseCurrent ==
  /\ Closes(Master, {cur}, FALSE)
  /\ cur' = NoConn /\ pc' = "select" /\ tries' = 0

Readable == end[cur] # "rst" /\ (sent[cur] \in {"part", "token"} \/ end[cur] = "fin")

\* poll() says POLLIN and nothing else: there is something to read, or the end.
PollReady ==
  /\ At("poll") /\ tries > 0 /\ Readable
  /\ pc' = "read"
  /\ UNCHANGED <<cur, tries, waiting, chld, told, masters, socketVars, clientVars, stops, ended>>

\* A bug: a read that blocks.
PollBlocks ==
  /\ At("poll") /\ tries > 0 /\ end[cur] = "rst"
  /\ tries' = tries - 1
  /\ Tell("text")
  /\ UNCHANGED <<pc, cur, waiting, chld, masters, socketVars, clientVars, stops, ended>>

\* A second without a word; or POLLHUP, at once.
PollNothing ==
  /\ At("poll") /\ tries > 0 /\ ~Readable
  /\ tries' = tries - 1
  /\ Tell("text")
  /\ UNCHANGED <<pc, cur, waiting, chld, masters, socketVars, clientVars, stops, ended>>

\* readBufferNonBlocking() returns -1.
GiveUp ==
  /\ At("poll") /\ tries = 0
  /\ CloseCurrent
  /\ Tell("text")
  /\ UNCHANGED <<waiting, chld, masters, child, sent, end, stops, ended>>

\* receive(): what has arrived, or an exception at the end or after a reset.
Read ==
  /\ At("read")
  /\ \/ /\ end[cur] # "rst" /\ sent[cur] \in {"part", "token"}
        /\ pc' = IF sent[cur] = "token" THEN "welcome" ELSE "refuse"
        /\ sent' = [sent EXCEPT ![cur] = "read"]
        /\ UNCHANGED <<cur, tries, waiting, chld, told, masters, socketVars, end, got, stops, ended>>
     \/ /\ end[cur] = "rst" \/ sent[cur] \in {"nothing", "read"}
        /\ Throws("client")

\* A bug: an exception for a client that says something else.
RefuseThrows == At("refuse") /\ Throws("client")

\* send() of what is wrong; it throws if the client has reset the connection.
Refuse ==
  /\ At("refuse")
  /\ \/ /\ end[cur] # "rst"
        /\ got' = [got EXCEPT ![cur] = "refusal"]
        /\ held' = [held EXCEPT ![cur] = @ \ {Master}]
        /\ cur' = NoConn /\ pc' = "select" /\ tries' = 0
        /\ UNCHANGED <<waiting, chld, told, masters, port, queue, child, sent, end, stops, ended>>
     \/ end[cur] = "rst" /\ Throws("client")

Welcome ==
  /\ At("welcome")
  /\ \/ /\ end[cur] # "rst"
        /\ got' = [got EXCEPT ![cur] = "ok"]
        /\ pc' = "fork"
        /\ UNCHANGED <<cur, tries, waiting, chld, told, masters, socketVars, sent, end, stops, ended>>
     \/ end[cur] = "rst" /\ Throws("client")

\* BESServerHandler::handle(): the child inherits all that the master holds.
Fork ==
  /\ At("fork")
  /\ child' = [child EXCEPT ![cur] = "running"]
  /\ held' = [c \in Conns |-> IF Master \in held[c] THEN held[c] \cup {cur} ELSE held[c]]
  /\ port' = port \cup {cur}
  /\ pc' = "close"
  /\ UNCHANGED <<cur, tries, waiting, chld, told, masters, queue, clientVars, stops, ended>>

ForkFails == At("fork") /\ Throws("fork")

\* A bug: the master keeps the connection when it has handed it to its child.
CloseForgets ==
  /\ At("close")
  /\ cur' = NoConn /\ pc' = "select" /\ tries' = 0
  /\ UNCHANGED <<waiting, chld, told, masters, socketVars, clientVars, stops, ended>>

Close ==
  /\ At("close")
  /\ CloseCurrent
  /\ UNCHANGED <<waiting, chld, told, masters, child, sent, end, stops, ended>>

-----------------------------------------------------------------------------
(* Signals of the master. *)

\* A handler that runs while poll() waits ends this try.
Interrupts ==
  tries' \in IF pc = "poll" /\ tries > 0 /\ ~Readable THEN {tries, tries - 1} ELSE {tries}

Reaps(c) == child' = [child EXCEPT ![c] = "gone"]

\* A bug: wait() is called until there is no child.
CatchSigChildAll ==
  /\ chld /\ ~waiting /\ pc # "ended"
  /\ chld' = FALSE
  /\ child' = [c \in Conns |-> IF child[c] = "zombie" THEN "gone" ELSE child[c]]
  /\ waiting' = (\E c \in Conns : child[c] = "running")
  /\ Interrupts
  /\ UNCHANGED <<pc, cur, told, masters, port, held, queue, clientVars, stops, ended>>

\* One wait(): a child that has ended, an error if there is none at all, or it
\* blocks, with all signals blocked.
CatchSigChild ==
  /\ chld /\ ~waiting /\ pc # "ended"
  /\ chld' = FALSE
  /\ \/ \E c \in Zombies : Reaps(c) /\ UNCHANGED waiting
     \/ Zombies = {} /\ waiting' = (\E c \in Conns : child[c] = "running") /\ UNCHANGED child
  /\ Interrupts
  /\ UNCHANGED <<pc, cur, told, masters, port, held, queue, clientVars, stops, ended>>

WaitEnds ==
  /\ waiting
  /\ \E c \in Zombies : Reaps(c)
  /\ waiting' = FALSE
  /\ UNCHANGED <<pc, cur, tries, chld, told, masters, port, held, queue, clientVars, stops, ended>>

\* CatchSigTerm(), CatchSigHup(): terminate() and exit().
Signal ==
  /\ pc \notin {"failing", "ended"} /\ ~waiting
  /\ MasterEnds("signal") /\ UNCHANGED told

-----------------------------------------------------------------------------
(* The children: BESServerHandler::execute(). *)

Serves(c) == child[c] \in {"running", "orphan"}

ChildEnds(c) ==
  /\ child' = [child EXCEPT ![c] = IF @ = "running" THEN "zombie" ELSE "gone"]
  /\ chld' = (chld \/ child[c] = "running")
  /\ Closes(c, Conns, TRUE)
  /\ UNCHANGED <<pc, cur, tries, waiting, masters, sent, end, stops, ended>>

\* The client says PPT_EXIT_NOW, a fatal error, a signal or a crash.
ChildExits(c) == Serves(c) /\ ChildEnds(c) /\ UNCHANGED told

\* receive() throws, and the exception reaches run() in the child, too.
ChildThrows(c) ==
  /\ Serves(c) /\ end[c] \in {"fin", "rst"}
  /\ ChildEnds(c)
  /\ IF child[c] = "running" THEN Tell("fatal") ELSE UNCHANGED told

\* The parent of a child that stops gets SIGCHLD as well.
ChildStops(c) ==
  /\ Serves(c) /\ stops < MaxStops
  /\ stops' = stops + 1
  /\ chld' = (chld \/ child[c] = "running")
  /\ UNCHANGED <<pc, cur, tries, waiting, told, masters, socketVars, clientVars, ended>>

-----------------------------------------------------------------------------
(* The clients: the OLFS, and whatever else connects to the port. *)

Connect(c) ==
  /\ end[c] = "away" /\ port # {}
  /\ end' = [end EXCEPT ![c] = "open"]
  /\ queue' = Append(queue, c)
  /\ UNCHANGED <<masterVars, port, held, child, sent, got, stops, ended>>

\* PPTCLIENT_TESTING_CONNECTION arrives, whole or in parts, or other text does.
Send(c) ==
  /\ end[c] = "open" /\ got[c] = "nothing"
  /\ \/ sent[c] = "nothing" /\ sent' = [sent EXCEPT ![c] = "part"]
     \/ sent[c] \in {"nothing", "part"} /\ sent' = [sent EXCEPT ![c] = "token"]
  /\ UNCHANGED <<masterVars, socketVars, end, got, stops, ended>>

Leave(c) ==
  /\ end[c] = "open"
  /\ \E how \in {"fin", "rst"} : end' = [end EXCEPT ![c] = how]
  /\ UNCHANGED <<masterVars, socketVars, sent, got, stops, ended>>

-----------------------------------------------------------------------------
MasterStep ==
  \/ Listen \/ ListenFails \/ Fails \/ Accept \/ PollReady \/ PollNothing \/ GiveUp \/ Read
  \/ Refuse \/ Welcome \/ Fork \/ Close \/ CatchSigChild \/ WaitEnds

Environment ==
  \/ Restart \/ ForkFails \/ Signal
  \/ \E c \in Conns : ChildExits(c) \/ ChildThrows(c) \/ ChildStops(c) \/ Connect(c) \/ Send(c) \/ Leave(c)

Next == MasterStep \/ Environment
Spec == Init /\ [][Next]_vars

\* The system runs the master.  Clients, children and operators are free.
FairSpec == Spec /\ WF_vars(MasterStep)

-----------------------------------------------------------------------------
(* Properties *)

\* A connection is held by its own child, and by the master while it handles
\* it, and by nobody else (close() after handle()): the client sees the end of
\* its child.
NoStrayHolder == \A c \in Conns : held[c] \subseteq {c, Master} /\ (Master \in held[c] => c = cur)

\* The types, and descriptors only where they belong.
Consistent == TypeOK /\ NoStrayHolder

\* wait() in the handler of SIGCHLD finds a child that has ended, or none at
\* all, unless a child was stopped: there are never more signals than zombies.
WaitReturns == waiting => stops > 0

\* A client that says something else, nothing, or not in time never ends the
\* master: only one that leaves during its own welcome does.
PatientHarmless == [][ended' = "client" /\ ended # "client" => end[cur] \in {"fin", "rst"}]_vars

\* A client that waits in the queue of a master that is up, with its first word
\* sent, is welcomed, however slow those before it are: readBufferNonBlocking()
\* gives up on them.
TokenAnswered ==
  \A c \in Conns \ Denied :
    (IsUp /\ c \in ToSet(queue) /\ sent[c] = "token")
      ~> (got[c] = "ok" \/ end[c] # "open" \/ ~IsUp \/ stops > 0)

\* What the daemon may rely on: the life of a beslistener and the first word in
\* its pipe.
Life ==
  INSTANCE BESMaster WITH
    state <- CASE pc = "init" -> "init" [] pc = "failing" -> "failing" [] pc = "ended" -> "ended" [] OTHER -> "up",
    word <- told
LifeSpec == Life!Spec

=============================================================================
