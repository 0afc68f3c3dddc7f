-------------------------- MODULE BESListener_proofs --------------------------
(***************************************************************************)
(* What the master beslistener guarantees for any number of connections,   *)
(* children and polls, and that it keeps to what the daemon relies on.     *)
(***************************************************************************)
EXTENDS BESListener, TLAPS

\* The master has a connection exactly while it handles one.
CurInv == cur # NoConn <=> pc \in {"poll", "read", "refuse", "welcome", "fork", "close"}

\* Descriptors are where they belong: NoStrayHolder, in a form of its own.
HeldInv == \A c \in Conns : held[c] \subseteq {c, Master} /\ (Master \in held[c] => c = cur)

\* There is a child to wait for when SIGCHLD is pending, and wait() in a handler
\* blocks only if the signal came from a child that was stopped.
ChldInv ==
  /\ chld => stops > 0 \/ \E c \in Conns : child[c] = "zombie"
  /\ waiting => stops > 0

\* A connection is made once: one that has not been handled yet has no child, and
\* is in the queue once at most.
FreshInv ==
  /\ \A i \in 1..Len(queue) : end[queue[i]] # "away" /\ child[queue[i]] = "none" /\ queue[i] # cur
  /\ \A i, j \in 1..Len(queue) : queue[i] = queue[j] => i = j
  /\ pc \in {"poll", "read", "refuse", "welcome", "fork"} => child[cur] = "none"
  /\ cur # NoConn => end[cur] # "away"
  /\ \A c \in Conns : end[c] = "away" => child[c] = "none"

\* What the pipe holds in each state of the master; only a master that is up
\* has children that could write to it.
WordInv ==
  /\ pc = "init" => told = "nothing"
  /\ pc = "failing" => told = "fatal"
  /\ HasTcp /\ IsUp => told # "nothing"
  /\ \A c \in Conns : child[c] = "running" => IsUp

\* poll() has said that there is something to read, or the end.
WordReady == pc = "read" => end[cur] \in {"fin", "rst"} \/ sent[cur] \in {"part", "token"}

IInv == TypeOK /\ CurInv /\ HeldInv /\ FreshInv /\ ChldInv /\ WordInv /\ WordReady

-----------------------------------------------------------------------------
\* Closing descriptors keeps the types.
LEMMA ClosesTypes ==
  ASSUME TypeOK, NEW p, NEW cs, NEW listening, Closes(p, cs, listening)
  PROVE  /\ held' \in [Conns -> SUBSET Processes] /\ port' \subseteq Processes
         /\ queue' \in Seq(Conns) /\ got' \in [Conns -> {"nothing", "ok", "refusal", "end"}]
<1>1. held' \in [Conns -> SUBSET Processes]
  BY DEF TypeOK, Closes
<1>2. port' \subseteq Processes
  BY DEF TypeOK, Closes
<1>3. queue' \in Seq(Conns)
  BY DEF TypeOK, Closes
<1>4. got' \in [Conns -> {"nothing", "ok", "refusal", "end"}]
  BY DEF TypeOK, Closes
<1> QED
  BY <1>1, <1>2, <1>3, <1>4

\* So does the end of the master.
LEMMA MasterEndsTypes ==
  ASSUME TypeOK, NEW why \in {"start", "signal", "fork", "client"}, MasterEnds(why),
         told' \in {"nothing", "running", "fatal", "text"}
  PROVE  TypeOK'
<1>1. /\ held' \in [Conns -> SUBSET Processes] /\ port' \subseteq Processes
      /\ queue' \in Seq(Conns) /\ got' \in [Conns -> {"nothing", "ok", "refusal", "end"}]
  BY ClosesTypes DEF MasterEnds
<1>2. child' \in [Conns -> {"none", "running", "orphan", "zombie", "gone"}]
  BY DEF TypeOK, MasterEnds
<1>3. tries' \in 0..Timeout
  BY ListenerAssumption DEF MasterEnds
<1> QED
  BY <1>1, <1>2, <1>3 DEF TypeOK, MasterEnds

-----------------------------------------------------------------------------
\* Every conjunct of IInv is kept by each action.
LEMMA InitInv == Init => IInv
<1> SUFFICES ASSUME Init PROVE IInv
  OBVIOUS
<1>1. TypeOK
  <2>1. masters \in 0..MaxMasters /\ stops \in 0..MaxStops /\ tries \in 0..Timeout
    BY ListenerAssumption DEF Init
  <2>2. /\ held \in [Conns -> SUBSET Processes]
        /\ child \in [Conns -> {"none", "running", "orphan", "zombie", "gone"}]
        /\ sent \in [Conns -> {"nothing", "part", "token", "read"}]
        /\ end \in [Conns -> {"away", "open", "fin", "rst"}]
        /\ got \in [Conns -> {"nothing", "ok", "refusal", "end"}]
    BY DEF Init
  <2>3. queue \in Seq(Conns) /\ port \subseteq Processes
    BY DEF Init
  <2> QED
    BY <2>1, <2>2, <2>3 DEF Init, TypeOK
<1> QED
  BY <1>1 DEF Init, IInv, CurInv, HeldInv, FreshInv, ChldInv, WordInv, WordReady, IsUp

LEMMA ListenInv ==
  ASSUME IInv, Listen
  PROVE  IInv'
<1> USE DEF Listen, Tell, At
<1>1. TypeOK'
  BY DEF IInv, TypeOK, Processes
<1>2. CurInv'
  BY DEF IInv, CurInv
<1>3. HeldInv'
  BY DEF IInv, HeldInv
<1>4. FreshInv'
  BY DEF IInv, FreshInv
<1>5. ChldInv'
  BY DEF IInv, ChldInv
<1>6. WordInv'
  BY DEF IInv, WordInv, IsUp
<1>7. WordReady'
  BY DEF IInv, WordReady
<1> QED
  BY <1>1, <1>2, <1>3, <1>4, <1>5, <1>6, <1>7 DEF IInv

LEMMA ListenFailsInv ==
  ASSUME IInv, ListenFails
  PROVE  IInv'
<1> USE DEF ListenFails, Tell, At, socketVars, clientVars
<1>1. TypeOK'
  BY DEF IInv, TypeOK
<1>2. CurInv'
  BY DEF IInv, CurInv
<1>3. HeldInv'
  BY DEF IInv, HeldInv
<1>4. FreshInv'
  BY DEF IInv, FreshInv
<1>5. ChldInv'
  BY DEF IInv, ChldInv
<1>6. WordInv'
  BY DEF IInv, WordInv, IsUp
<1>7. WordReady'
  BY DEF IInv, WordReady
<1> QED
  BY <1>1, <1>2, <1>3, <1>4, <1>5, <1>6, <1>7 DEF IInv

LEMMA FailsInv ==
  ASSUME IInv, Fails
  PROVE  IInv'
<1> USE DEF Fails, MasterEnds, Closes, At
<1>1. TypeOK'
  BY MasterEndsTypes DEF IInv, TypeOK
<1>2. CurInv'
  BY DEF IInv, CurInv
<1>3. HeldInv'
  BY DEF IInv, HeldInv
<1>4. FreshInv'
  BY DEF IInv, TypeOK, CurInv, FreshInv
<1>5. ChldInv'
  BY DEF IInv, ChldInv
<1>6. WordInv'
  BY DEF IInv, WordInv, IsUp
<1>7. WordReady'
  BY DEF IInv, WordReady
<1> QED
  BY <1>1, <1>2, <1>3, <1>4, <1>5, <1>6, <1>7 DEF IInv

LEMMA RestartInv ==
  ASSUME IInv, Restart
  PROVE  IInv'
<1> USE DEF Restart, socketVars, clientVars
<1>1. TypeOK'
  BY ListenerAssumption DEF IInv, TypeOK
<1>2. CurInv'
  BY DEF IInv, CurInv
<1>3. HeldInv'
  BY DEF IInv, HeldInv
<1>4. FreshInv'
  BY DEF IInv, FreshInv
<1>5. ChldInv'
  BY DEF IInv, ChldInv
<1>6. WordInv'
  BY DEF IInv, WordInv, IsUp
<1>7. WordReady'
  BY DEF IInv, WordReady
<1> QED
  BY <1>1, <1>2, <1>3, <1>4, <1>5, <1>6, <1>7 DEF IInv

LEMMA AcceptInv ==
  ASSUME IInv, Accept
  PROVE  IInv'
<1> USE DEF Accept, At, clientVars
<1>1. TypeOK'
  BY ListenerAssumption DEF IInv, TypeOK, Processes, CurInv
<1>2. CurInv'
  BY NamesDiffer DEF IInv, TypeOK, CurInv
<1>3. HeldInv'
  BY NamesDiffer DEF IInv, TypeOK, CurInv, HeldInv
<1>4. FreshInv'
  BY DEF IInv, FreshInv
<1>5. ChldInv'
  BY DEF IInv, ChldInv
<1>6. WordInv'
  BY DEF IInv, WordInv, IsUp
<1>7. WordReady'
  BY DEF IInv, WordReady
<1> QED
  BY <1>1, <1>2, <1>3, <1>4, <1>5, <1>6, <1>7 DEF IInv

LEMMA PollReadyInv ==
  ASSUME IInv, PollReady
  PROVE  IInv'
<1> USE DEF PollReady, Readable, At, socketVars, clientVars
<1>1. TypeOK'
  BY DEF IInv, TypeOK
<1>2. CurInv'
  BY DEF IInv, CurInv
<1>3. HeldInv'
  BY DEF IInv, HeldInv
<1>4. FreshInv'
  BY DEF IInv, FreshInv
<1>5. ChldInv'
  BY DEF IInv, ChldInv
<1>6. WordInv'
  BY DEF IInv, WordInv, IsUp
<1>7. WordReady'
  BY DEF IInv, WordReady
<1> QED
  BY <1>1, <1>2, <1>3, <1>4, <1>5, <1>6, <1>7 DEF IInv

LEMMA PollNothingInv ==
  ASSUME IInv, PollNothing
  PROVE  IInv'
<1> USE DEF PollNothing, Tell, At, socketVars, clientVars
<1>1. TypeOK'
  BY ListenerAssumption DEF IInv, TypeOK
<1>2. CurInv'
  BY DEF IInv, CurInv
<1>3. HeldInv'
  BY DEF IInv, HeldInv
<1>4. FreshInv'
  BY DEF IInv, FreshInv
<1>5. ChldInv'
  BY DEF IInv, ChldInv
<1>6. WordInv'
  BY DEF IInv, WordInv, IsUp
<1>7. WordReady'
  BY DEF IInv, WordReady
<1> QED
  BY <1>1, <1>2, <1>3, <1>4, <1>5, <1>6, <1>7 DEF IInv

LEMMA GiveUpInv ==
  ASSUME IInv, GiveUp
  PROVE  IInv'
<1> USE DEF GiveUp, CloseCurrent, Closes, Tell, At
<1>1. TypeOK'
  BY DEF IInv, TypeOK
<1>2. CurInv'
  BY DEF IInv, CurInv
<1>3. HeldInv'
  BY DEF IInv, HeldInv
<1>4. FreshInv'
  BY NamesDiffer DEF IInv, TypeOK, CurInv, FreshInv
<1>5. ChldInv'
  BY DEF IInv, ChldInv
<1>6. WordInv'
  BY DEF IInv, WordInv, IsUp
<1>7. WordReady'
  BY DEF IInv, WordReady
<1> QED
  BY <1>1, <1>2, <1>3, <1>4, <1>5, <1>6, <1>7 DEF IInv

LEMMA ReadInv ==
  ASSUME IInv, Read
  PROVE  IInv'
<1> USE DEF Read, Throws, MasterEnds, Tell, Closes, At, socketVars
<1>1. TypeOK'
  <2>1. CASE Throws("client")
    BY <2>1, MasterEndsTypes DEF IInv, TypeOK
  <2>2. CASE ~Throws("client")
    BY <2>2, ListenerAssumption DEF IInv, TypeOK, CurInv, Processes
  <2> QED
    BY <2>1, <2>2
<1>2. CurInv'
  BY DEF IInv, CurInv
<1>3. HeldInv'
  BY DEF IInv, HeldInv
<1>4. FreshInv'
  BY NamesDiffer DEF IInv, TypeOK, CurInv, FreshInv
<1>5. ChldInv'
  BY DEF IInv, ChldInv
<1>6. WordInv'
  BY DEF IInv, WordInv, IsUp
<1>7. WordReady'
  BY DEF IInv, WordReady
<1> QED
  BY <1>1, <1>2, <1>3, <1>4, <1>5, <1>6, <1>7 DEF IInv

LEMMA RefuseInv ==
  ASSUME IInv, Refuse
  PROVE  IInv'
<1> USE DEF Refuse, Throws, MasterEnds, Tell, Closes, At
<1>1. TypeOK'
  <2>1. CASE Throws("client")
    BY <2>1, MasterEndsTypes DEF IInv, TypeOK
  <2>2. CASE ~Throws("client")
    BY <2>2, ListenerAssumption DEF IInv, TypeOK, CurInv, Processes
  <2> QED
    BY <2>1, <2>2
<1>2. CurInv'
  BY DEF IInv, CurInv
<1>3. HeldInv'
  BY DEF IInv, TypeOK, HeldInv
<1>4. FreshInv'
  BY NamesDiffer DEF IInv, TypeOK, CurInv, FreshInv
<1>5. ChldInv'
  BY DEF IInv, ChldInv
<1>6. WordInv'
  BY DEF IInv, WordInv, IsUp
<1>7. WordReady'
  BY DEF IInv, WordReady
<1> QED
  BY <1>1, <1>2, <1>3, <1>4, <1>5, <1>6, <1>7 DEF IInv

LEMMA WelcomeInv ==
  ASSUME IInv, Welcome
  PROVE  IInv'
<1> USE DEF Welcome, Throws, MasterEnds, Tell, Closes, At, socketVars
<1>1. TypeOK'
  <2>1. CASE Throws("client")
    BY <2>1, MasterEndsTypes DEF IInv, TypeOK
  <2>2. CASE ~Throws("client")
    BY <2>2, ListenerAssumption DEF IInv, TypeOK, CurInv, Processes
  <2> QED
    BY <2>1, <2>2
<1>2. CurInv'
  BY DEF IInv, CurInv
<1>3. HeldInv'
  BY DEF IInv, HeldInv
<1>4. FreshInv'
  BY NamesDiffer DEF IInv, TypeOK, CurInv, FreshInv
<1>5. ChldInv'
  BY DEF IInv, ChldInv
<1>6. WordInv'
  BY DEF IInv, WordInv, IsUp
<1>7. WordReady'
  BY DEF IInv, WordReady
<1> QED
  BY <1>1, <1>2, <1>3, <1>4, <1>5, <1>6, <1>7 DEF IInv

LEMMA ForkInv ==
  ASSUME IInv, Fork
  PROVE  IInv'
<1> USE DEF Fork, At, clientVars
<1>1. TypeOK'
  BY DEF IInv, TypeOK, CurInv, Processes
<1>2. CurInv'
  BY DEF IInv, CurInv
<1>3. HeldInv'
  BY DEF IInv, HeldInv
<1>4. FreshInv'
  BY DEF IInv, TypeOK, CurInv, FreshInv
<1>5. ChldInv'
  BY DEF IInv, TypeOK, ChldInv, FreshInv
<1>6. WordInv'
  BY DEF IInv, WordInv, IsUp
<1>7. WordReady'
  BY DEF IInv, WordReady
<1> QED
  BY <1>1, <1>2, <1>3, <1>4, <1>5, <1>6, <1>7 DEF IInv

LEMMA ForkFailsInv ==
  ASSUME IInv, ForkFails
  PROVE  IInv'
<1> USE DEF ForkFails, Throws, MasterEnds, Tell, Closes, At
<1>1. TypeOK'
  BY MasterEndsTypes DEF IInv, TypeOK
<1>2. CurInv'
  BY DEF IInv, CurInv
<1>3. HeldInv'
  BY DEF IInv, HeldInv
<1>4. FreshInv'
  BY NamesDiffer DEF IInv, TypeOK, CurInv, FreshInv
<1>5. ChldInv'
  BY DEF IInv, ChldInv
<1>6. WordInv'
  BY DEF IInv, WordInv, IsUp
<1>7. WordReady'
  BY DEF IInv, WordReady
<1> QED
  BY <1>1, <1>2, <1>3, <1>4, <1>5, <1>6, <1>7 DEF IInv

LEMMA CloseInv ==
  ASSUME IInv, Close
  PROVE  IInv'
<1> USE DEF Close, CloseCurrent, Closes, At
<1>1. TypeOK'
  BY ListenerAssumption DEF IInv, TypeOK
<1>2. CurInv'
  BY DEF IInv, CurInv
<1>3. HeldInv'
  BY DEF IInv, HeldInv
<1>4. FreshInv'
  BY NamesDiffer DEF IInv, TypeOK, CurInv, FreshInv
<1>5. ChldInv'
  BY DEF IInv, ChldInv
<1>6. WordInv'
  BY DEF IInv, WordInv, IsUp
<1>7. WordReady'
  BY DEF IInv, WordReady
<1> QED
  BY <1>1, <1>2, <1>3, <1>4, <1>5, <1>6, <1>7 DEF IInv

LEMMA CatchSigChildInv ==
  ASSUME IInv, CatchSigChild
  PROVE  IInv'
<1> USE DEF CatchSigChild, Interrupts, Reaps, Readable, clientVars, Zombies
<1>1. TypeOK'
  <2>1. tries' \in 0..Timeout
    BY ListenerAssumption DEF IInv, TypeOK
  <2>2. waiting' \in BOOLEAN /\ child' \in [Conns -> {"none", "running", "orphan", "zombie", "gone"}]
    BY DEF IInv, TypeOK
  <2> QED
    BY <2>1, <2>2 DEF IInv, TypeOK
<1>2. CurInv'
  BY DEF IInv, CurInv
<1>3. HeldInv'
  BY DEF IInv, HeldInv
<1>4. FreshInv'
  <2>1. \A c \in Conns : child[c] = "none" => child'[c] = "none"
    BY DEF IInv, TypeOK
  <2>2. UNCHANGED <<pc, cur, queue, end>>
    OBVIOUS
  <2> HIDE DEF CatchSigChild, Interrupts
  <2> QED
    BY <2>1, <2>2 DEF IInv, TypeOK, CurInv, FreshInv
<1>5. ChldInv'
  <2>1. CASE \E c \in Zombies : Reaps(c) /\ UNCHANGED waiting
    BY <2>1 DEF IInv, ChldInv
  <2>2. CASE Zombies = {}
    BY <2>2 DEF IInv, ChldInv
  <2> QED
    BY <2>1, <2>2
<1>6. WordInv'
  BY DEF IInv, TypeOK, WordInv, IsUp
<1>7. WordReady'
  BY DEF IInv, WordReady
<1> QED
  BY <1>1, <1>2, <1>3, <1>4, <1>5, <1>6, <1>7 DEF IInv

LEMMA WaitEndsInv ==
  ASSUME IInv, WaitEnds
  PROVE  IInv'
<1> USE DEF WaitEnds, Reaps, clientVars, Zombies
<1>1. TypeOK'
  BY DEF IInv, TypeOK
<1>2. CurInv'
  BY DEF IInv, CurInv
<1>3. HeldInv'
  BY DEF IInv, HeldInv
<1>4. FreshInv'
  BY DEF IInv, FreshInv
<1>5. ChldInv'
  BY DEF IInv, ChldInv
<1>6. WordInv'
  BY DEF IInv, WordInv, IsUp
<1>7. WordReady'
  BY DEF IInv, WordReady
<1> QED
  BY <1>1, <1>2, <1>3, <1>4, <1>5, <1>6, <1>7 DEF IInv

LEMMA SignalInv ==
  ASSUME IInv, Signal
  PROVE  IInv'
<1> USE DEF Signal, MasterEnds, Closes
<1>1. TypeOK'
  BY MasterEndsTypes DEF IInv, TypeOK
<1>2. CurInv'
  BY DEF IInv, CurInv
<1>3. HeldInv'
  BY DEF IInv, HeldInv
<1>4. FreshInv'
  BY NamesDiffer DEF IInv, TypeOK, CurInv, FreshInv
<1>5. ChldInv'
  BY DEF IInv, ChldInv
<1>6. WordInv'
  BY DEF IInv, WordInv, IsUp
<1>7. WordReady'
  BY DEF IInv, WordReady
<1> QED
  BY <1>1, <1>2, <1>3, <1>4, <1>5, <1>6, <1>7 DEF IInv

LEMMA ChildExitsInv ==
  ASSUME IInv, NEW c \in Conns, ChildExits(c)
  PROVE  IInv'
<1> USE DEF ChildExits, ChildEnds, Serves, Closes
<1>1. TypeOK'
  BY DEF IInv, TypeOK
<1>2. CurInv'
  BY DEF IInv, CurInv
<1>3. HeldInv'
  BY DEF IInv, HeldInv
<1>4. FreshInv'
  BY DEF IInv, FreshInv
<1>5. ChldInv'
  BY DEF IInv, TypeOK, ChldInv
<1>6. WordInv'
  BY DEF IInv, WordInv, IsUp
<1>7. WordReady'
  BY DEF IInv, WordReady
<1> QED
  BY <1>1, <1>2, <1>3, <1>4, <1>5, <1>6, <1>7 DEF IInv

LEMMA ChildThrowsInv ==
  ASSUME IInv, NEW c \in Conns, ChildThrows(c)
  PROVE  IInv'
<1> USE DEF ChildThrows, ChildEnds, Serves, Closes, Tell
<1>1. TypeOK'
  BY DEF IInv, TypeOK
<1>2. CurInv'
  BY DEF IInv, CurInv
<1>3. HeldInv'
  BY DEF IInv, HeldInv
<1>4. FreshInv'
  BY DEF IInv, FreshInv
<1>5. ChldInv'
  BY DEF IInv, TypeOK, ChldInv
<1>6. WordInv'
  BY DEF IInv, WordInv, IsUp
<1>7. WordReady'
  BY DEF IInv, WordReady
<1> QED
  BY <1>1, <1>2, <1>3, <1>4, <1>5, <1>6, <1>7 DEF IInv

LEMMA ChildStopsInv ==
  ASSUME IInv, NEW c \in Conns, ChildStops(c)
  PROVE  IInv'
<1> USE DEF ChildStops, Serves, socketVars, clientVars
<1>1. TypeOK'
  BY ListenerAssumption DEF IInv, TypeOK
<1>2. CurInv'
  BY DEF IInv, CurInv
<1>3. HeldInv'
  BY DEF IInv, HeldInv
<1>4. FreshInv'
  BY DEF IInv, FreshInv
<1>5. ChldInv'
  BY DEF IInv, TypeOK, ChldInv
<1>6. WordInv'
  BY DEF IInv, WordInv, IsUp
<1>7. WordReady'
  BY DEF IInv, WordReady
<1> QED
  BY <1>1, <1>2, <1>3, <1>4, <1>5, <1>6, <1>7 DEF IInv

LEMMA ConnectInv ==
  ASSUME IInv, NEW c \in Conns, Connect(c)
  PROVE  IInv'
<1> USE DEF Connect, masterVars
<1>1. TypeOK'
  BY DEF IInv, TypeOK
<1>2. CurInv'
  BY DEF IInv, CurInv
<1>3. HeldInv'
  BY DEF IInv, HeldInv
<1>4. FreshInv'
  BY NamesDiffer DEF IInv, TypeOK, CurInv, FreshInv
<1>5. ChldInv'
  BY DEF IInv, ChldInv
<1>6. WordInv'
  BY DEF IInv, WordInv, IsUp
<1>7. WordReady'
  BY DEF IInv, WordReady
<1> QED
  BY <1>1, <1>2, <1>3, <1>4, <1>5, <1>6, <1>7 DEF IInv

LEMMA SendInv ==
  ASSUME IInv, NEW c \in Conns, Send(c)
  PROVE  IInv'
<1> USE DEF Send, socketVars, masterVars
<1>1. TypeOK'
  BY DEF IInv, TypeOK
<1>2. CurInv'
  BY DEF IInv, CurInv
<1>3. HeldInv'
  BY DEF IInv, HeldInv
<1>4. FreshInv'
  BY DEF IInv, FreshInv
<1>5. ChldInv'
  BY DEF IInv, ChldInv
<1>6. WordInv'
  BY DEF IInv, WordInv, IsUp
<1>7. WordReady'
  BY DEF IInv, TypeOK, CurInv, WordReady
<1> QED
  BY <1>1, <1>2, <1>3, <1>4, <1>5, <1>6, <1>7 DEF IInv

LEMMA LeaveInv ==
  ASSUME IInv, NEW c \in Conns, Leave(c)
  PROVE  IInv'
<1> USE DEF Leave, socketVars, masterVars
<1>1. TypeOK'
  BY DEF IInv, TypeOK
<1>2. CurInv'
  BY DEF IInv, CurInv
<1>3. HeldInv'
  BY DEF IInv, HeldInv
<1>4. FreshInv'
  BY DEF IInv, FreshInv
<1>5. ChldInv'
  BY DEF IInv, ChldInv
<1>6. WordInv'
  BY DEF IInv, WordInv, IsUp
<1>7. WordReady'
  BY DEF IInv, WordReady
<1> QED
  BY <1>1, <1>2, <1>3, <1>4, <1>5, <1>6, <1>7 DEF IInv

LEMMA NextInv == IInv /\ [Next]_vars => IInv'
<1> SUFFICES ASSUME IInv, [Next]_vars PROVE IInv'
  OBVIOUS
<1>1. CASE MasterStep
  BY <1>1, ListenInv, ListenFailsInv, FailsInv, AcceptInv, PollReadyInv, PollNothingInv, GiveUpInv, ReadInv,
      RefuseInv,
     WelcomeInv, ForkInv, CloseInv, CatchSigChildInv, WaitEndsInv DEF MasterStep
<1>2. CASE Environment
  BY <1>2, RestartInv, ForkFailsInv, SignalInv, ChildExitsInv, ChildThrowsInv, ChildStopsInv, ConnectInv,
      SendInv,
     LeaveInv DEF Environment
<1>3. CASE UNCHANGED vars
  BY <1>3
    DEF IInv, TypeOK, CurInv, HeldInv, FreshInv, ChldInv, WordInv, WordReady, IsUp, vars, masterVars,
         socketVars, clientVars
<1> QED
  BY <1>1, <1>2, <1>3 DEF Next

LEMMA SpecInv == Spec => []IInv
BY InitInv, NextInv, PTL DEF Spec

-----------------------------------------------------------------------------
\* The types, and PPTServer::initConnection(), BESServerHandler::handle(): a
\* connection is held by its own child, and by the master while it handles it.
THEOREM ConsistentHolds == Spec => []Consistent
<1>1. IInv => Consistent
  BY DEF IInv, Consistent, NoStrayHolder, HeldInv
<1> QED
  BY SpecInv, <1>1, PTL

\* CatchSigChild(): wait() in the handler blocks only after a child was stopped.
THEOREM WaitReturnsHolds == Spec => []WaitReturns
<1>1. IInv => WaitReturns
  BY DEF IInv, WaitReturns, ChldInv
<1> QED
  BY SpecInv, <1>1, PTL

\* readBufferNonBlocking(), welcomeClient(): a client ends the master only by
\* leaving in the middle of its own welcome.
THEOREM PatientHarmlessHolds == Spec => PatientHarmless
<1>1. IInv /\ [Next]_vars => [ended' = "client" /\ ended # "client" => end[cur] \in {"fin", "rst"}]_vars
  <2> SUFFICES ASSUME IInv, [Next]_vars, ended' = "client", ended # "client"
               PROVE  end[cur] \in {"fin", "rst"}
    OBVIOUS
  <2>1. Read \/ Refuse \/ Welcome
    BY DEF Next, MasterStep, Environment, vars, masterVars, socketVars, clientVars, Listen, ListenFails, Fails,
           Accept,
       PollReady, PollNothing, GiveUp, Fork, Close, CatchSigChild, WaitEnds, Restart, ForkFails, Signal, ChildExits,
       ChildThrows, ChildStops, Connect, Send, Leave, Throws, MasterEnds, ChildEnds
  <2>2. CASE Read
    BY <2>2 DEF IInv, WordReady, Read, At
  <2>3. CASE Refuse \/ Welcome
    BY <2>3 DEF Refuse, Welcome
  <2> QED
    BY <2>1, <2>2, <2>3
<1> QED
  BY SpecInv, <1>1, PTL DEF Spec, PatientHarmless

\* ServerApp::run(): the life of a master beslistener, and the first word in its
\* pipe, are what the daemon relies on, if there is a TCP port.
THEOREM LifeHolds == HasTcp => (Spec => LifeSpec)
<1> SUFFICES ASSUME HasTcp PROVE Spec => LifeSpec
  OBVIOUS
<1>1. Init => Life!Init
  BY DEF Init, Life!Init
<1>2. IInv /\ [Next]_vars => [Life!Next]_Life!vars
  <2> SUFFICES ASSUME IInv, [Next]_vars PROVE [Life!Next]_Life!vars
    OBVIOUS
  <2> USE DEF Life!Next, Life!Up, Life!CannotStart, Life!End, Life!Restart, Life!vars, IInv, WordInv, IsUp, At
  <2>1. CASE Listen
    BY <2>1 DEF Listen, Tell
  <2>2. CASE ListenFails
    BY <2>2 DEF ListenFails, Tell
  <2>3. CASE Fails \/ Signal
    BY <2>3 DEF Fails, Signal, MasterEnds
  <2>4. CASE Restart
    BY <2>4 DEF Restart
  <2>5. CASE Accept \/ PollReady \/ PollNothing \/ GiveUp \/ Fork \/ Close
    BY <2>5 DEF Accept, PollReady, PollNothing, GiveUp, Fork, Close, CloseCurrent, Tell
  <2>6. CASE Read \/ Refuse \/ Welcome \/ ForkFails
    BY <2>6 DEF Read, Refuse, Welcome, ForkFails, Throws, MasterEnds, Tell
  <2>7. CASE CatchSigChild \/ WaitEnds
    BY <2>7 DEF CatchSigChild, WaitEnds
  <2>8. ASSUME NEW c \in Conns, ChildExits(c) \/ ChildThrows(c) PROVE [Life!Next]_Life!vars
    BY <2>8 DEF ChildExits, ChildThrows, ChildEnds, Tell
  <2>9. ASSUME NEW c \in Conns, ChildStops(c) \/ Connect(c) \/ Send(c) \/ Leave(c) PROVE [Life!Next]_Life!vars
    BY <2>9 DEF ChildStops, Connect, Send, Leave, masterVars
  <2>10. CASE UNCHANGED vars
    BY <2>10 DEF vars, masterVars
  <2> QED
    BY <2>1, <2>2, <2>3, <2>4, <2>5, <2>6, <2>7, <2>8, <2>9, <2>10 DEF Next, MasterStep, Environment
<1> QED
  BY SpecInv, <1>1, <1>2, PTL DEF Spec, LifeSpec, Life!Spec
=============================================================================
