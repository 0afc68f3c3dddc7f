------------------------------- MODULE BESPool -------------------------------
(***************************************************************************)
(* The pool of connections that the OLFS has to one BES (opendap/bes/      *)
(* BES.java): threads borrow a client, run one transaction on it and       *)
(* return it, and one more thread, the destroyer, closes the pool at the   *)
(* end of the program.                                                     *)
(*                                                                         *)
(* _clientCheckoutLock is a fair lock: line holds its owner, which is the  *)
(* head, and those who wait for it in their order.  Only the owner ever    *)
(* waits for permits, so the semaphore needs no queue of its own.          *)
(***************************************************************************)
EXTENDS Integers, Sequences, FiniteSets

CONSTANTS
  Threads,      \* the threads that run transactions
  Destroyer,    \* the thread that calls destroy()
  MaxClients,   \* the configured size of the pool
  MaxCommands,  \* the configured commands per client, 0 for no limit
  MaxCalls,     \* bound: the transactions of all threads
  MaxThrows     \* bound: the interrupts and unchecked exceptions in getClient()

ASSUME PoolAssumption ==
  /\ IsFiniteSet(Threads) /\ Destroyer \notin Threads
  /\ MaxClients \in Nat \ {0} /\ MaxCommands \in Nat
  /\ MaxCalls \in Nat /\ MaxThrows \in Nat

VARIABLES
  permits,  \* the free permits of _checkOutFlag
  idle,     \* _clientQueue
  clients,  \* the keys of _clients
  total,    \* totalClients
  open,     \* the ids of the clients whose connection this side has not closed
  line,     \* _clientCheckoutLock: its owner, then those who wait
  pc,       \* where each thread is
  has,      \* the client that each thread has borrowed
  closing,  \* where destroy() is
  calls,    \* how many transactions have begun
  thrown    \* how many interrupts and exceptions have hit getClient()

vars == <<permits, idle, clients, total, open, line, pc, has, closing, calls, thrown>>

\* A client: its number and its command count.
Client   == [id : Nat, count : Nat]
NoClient == [id |-> -1, count |-> 0]

\* The keys of _clients are the strings "besC-<n>".
StringKey(n) == [type |-> "String", n |-> n]
IntKey(n)    == [type |-> "Integer", n |-> n]

TypeOK ==
  /\ permits \in 0..MaxClients
  /\ idle \in Seq(Client)
  /\ clients \subseteq [type : {"String"}, n : Nat]
  /\ total \in Nat
  /\ open \subseteq Nat
  /\ line \in Seq(Threads \cup {Destroyer})
  /\ pc \in [Threads -> {"idle", "lock", "take", "new", "use", "checkIn", "discard", "release"}]
  /\ has \in [Threads -> Client \cup {NoClient}]
  /\ closing \in {"idle", "lock", "drain", "kill", "done"}
  /\ calls \in 0..MaxCalls
  /\ thrown \in 0..MaxThrows

-----------------------------------------------------------------------------
(* Variants with one fault each, which the properties below must notice.   *)
(* No action uses them.                                                    *)

Owns(p) == line # <<>> /\ Head(line) = p

Goto(t, place) == pc' = [pc EXCEPT ![t] = place]

\* A client is taken without a permit.
AcquireUnlimited(t) ==
  /\ pc[t] = "lock" /\ Owns(t)
  /\ Goto(t, IF idle = <<>> THEN "new" ELSE "take")
  /\ UNCHANGED <<permits, idle, clients, total, open, line, has, closing, calls, thrown>>

\* The client stays in the queue.
TakePeeks(t) ==
  /\ pc[t] = "take"
  /\ has' = [has EXCEPT ![t] = Head(idle)]
  /\ Goto(t, "use")
  /\ line' = Tail(line)
  /\ UNCHANGED <<permits, idle, clients, total, open, closing, calls, thrown>>

\* A transaction that failed returns its client as if it had not.
TransactionForgets(t) ==
  /\ pc[t] = "use"
  /\ open' = open \ {has[t].id}
  /\ Goto(t, "checkIn")
  /\ UNCHANGED <<permits, idle, clients, total, line, has, closing, calls, thrown>>

\* A start that failed keeps its permit.
NewFailsKeepsPermit(t) ==
  /\ pc[t] = "new"
  /\ line' = Tail(line)
  /\ Goto(t, "idle")
  /\ UNCHANGED <<permits, idle, clients, total, open, has, closing, calls, thrown>>

\* A start that failed keeps the lock.
NewFailsKeepsLock(t) ==
  /\ pc[t] = "new"
  /\ permits' = permits + 1
  /\ Goto(t, "idle")
  /\ UNCHANGED <<idle, clients, total, open, line, has, closing, calls, thrown>>

\* A client that is discarded gives its permit back, and again at the end.
DiscardReleases(t) ==
  /\ pc[t] = "discard"
  /\ clients' = clients \ {StringKey(has[t].id)}
  /\ open' = open \ {has[t].id}
  /\ permits' = permits + 1
  /\ Goto(t, "release")
  /\ UNCHANGED <<idle, total, line, has, closing, calls, thrown>>

-----------------------------------------------------------------------------
(* getClient() *)

\* besTransaction() asks for a client.
GetClient(t) ==
  /\ pc[t] = "idle" /\ calls < MaxCalls
  /\ calls' = calls + 1
  /\ line' = Append(line, t)
  /\ Goto(t, "lock")
  /\ UNCHANGED <<permits, idle, clients, total, open, has, closing, thrown>>

\* The lock, _checkOutFlag.acquire() and _clientQueue.size() == 0: what others
\* do between the last two they can as well do before.
Acquire(t) ==
  /\ pc[t] = "lock" /\ Owns(t) /\ permits > 0
  /\ permits' = permits - 1
  /\ Goto(t, IF idle = <<>> THEN "new" ELSE "take")
  /\ UNCHANGED <<idle, clients, total, open, line, has, closing, calls, thrown>>

\* A client that this side has closed is discarded, and a new one is made.
Take(t) ==
  /\ pc[t] = "take" /\ idle # <<>>
  /\ idle' = Tail(idle)
  /\ IF Head(idle).id \in open
     THEN /\ has' = [has EXCEPT ![t] = Head(idle)]
          /\ Goto(t, "use")
          /\ line' = Tail(line)
          /\ UNCHANGED clients
     ELSE /\ clients' = clients \ {StringKey(Head(idle).id)}
          /\ Goto(t, "new")
          /\ UNCHANGED <<has, line>>
  /\ UNCHANGED <<permits, total, open, closing, calls, thrown>>

\* getNewClient()
New(t) ==
  /\ pc[t] = "new"
  /\ has' = [has EXCEPT ![t] = [id |-> total, count |-> 0]]
  /\ clients' = clients \cup {StringKey(total)}
  /\ open' = open \cup {total}
  /\ total' = total + 1
  /\ line' = Tail(line)
  /\ Goto(t, "use")
  /\ UNCHANGED <<permits, idle, closing, calls, thrown>>

\* The BES does not answer: PPTException, which besTransaction() passes on.
NewFails(t) ==
  /\ pc[t] = "new"
  /\ permits' = permits + 1
  /\ line' = Tail(line)
  /\ Goto(t, "idle")
  /\ UNCHANGED <<idle, clients, total, open, has, closing, calls, thrown>>

\* An interrupt in lock() takes effect in acquire(), one after acquire() in
\* take(), where besClient is still null; an unchecked exception of the new
\* connection is not caught at all.  Only the lock is given back.
Throws(t) ==
  /\ \/ pc[t] = "lock" /\ Owns(t)
     \/ pc[t] \in {"take", "new"}
  /\ thrown < MaxThrows
  /\ thrown' = thrown + 1
  /\ line' = Tail(line)
  /\ Goto(t, "idle")
  /\ UNCHANGED <<permits, idle, clients, total, open, has, closing, calls>>

-----------------------------------------------------------------------------
(* The transaction, and returnClient() *)

\* A response, or an error document, that was read to its end.
TransactionEnds(t) ==
  /\ pc[t] = "use"
  /\ has' = [has EXCEPT ![t].count = @ + 1]
  /\ Goto(t, "checkIn")
  /\ UNCHANGED <<permits, idle, clients, total, open, line, closing, calls, thrown>>

\* PPTException, at the latest when the socket times out: the client is closed.
TransactionFails(t) ==
  /\ pc[t] = "use"
  /\ open' = open \ {has[t].id}
  /\ Goto(t, "discard")
  /\ UNCHANGED <<permits, idle, clients, total, line, has, closing, calls, thrown>>

WornOut(c) == MaxCommands > 0 /\ c.count > MaxCommands

\* checkInClient(); offer() refuses a client when the queue is full.
CheckIn(t) ==
  /\ pc[t] = "checkIn"
  /\ IF WornOut(has[t])
     THEN Goto(t, "discard") /\ UNCHANGED idle
     ELSE /\ Goto(t, "release")
          /\ idle' = IF Len(idle) < MaxClients THEN Append(idle, has[t]) ELSE idle
  /\ UNCHANGED <<permits, clients, total, open, line, has, closing, calls, thrown>>

\* discardClient()
Discard(t) ==
  /\ pc[t] = "discard"
  /\ clients' = clients \ {StringKey(has[t].id)}
  /\ open' = open \ {has[t].id}
  /\ Goto(t, "release")
  /\ UNCHANGED <<permits, idle, total, line, has, closing, calls, thrown>>

\* finally: _checkOutFlag.release()
Release(t) ==
  /\ pc[t] = "release"
  /\ permits' = permits + 1
  /\ has' = [has EXCEPT ![t] = NoClient]
  /\ Goto(t, "idle")
  /\ UNCHANGED <<idle, clients, total, open, line, closing, calls, thrown>>

-----------------------------------------------------------------------------
(* destroy() *)

Destroy ==
  /\ closing = "idle"
  /\ line' = Append(line, Destroyer)
  /\ closing' = "lock"
  /\ UNCHANGED <<permits, idle, clients, total, open, pc, has, calls, thrown>>

\* A bug: one permit is acquired, as a thread does it.
AcquireOne ==
  /\ closing = "lock" /\ Owns(Destroyer) /\ permits > 0
  /\ permits' = permits - 1
  /\ closing' = "drain"
  /\ UNCHANGED <<idle, clients, total, open, line, pc, has, calls, thrown>>

\* tryLock(10 seconds), then tryAcquire(getMaxClients(), 10 seconds)
AcquireAll ==
  /\ closing = "lock" /\ Owns(Destroyer) /\ permits = MaxClients
  /\ permits' = 0
  /\ closing' = "drain"
  /\ UNCHANGED <<idle, clients, total, open, line, pc, has, calls, thrown>>

Without(k) == [j \in 1..(Len(line) - 1) |-> IF j < k THEN line[j] ELSE line[j + 1]]

\* One of the two gives up; the lock is given back if it was had.
TimesOut ==
  /\ closing = "lock"
  /\ \E k \in 1..Len(line) : line[k] = Destroyer /\ line' = Without(k)
  /\ closing' = "kill"
  /\ UNCHANGED <<permits, idle, clients, total, open, pc, has, calls, thrown>>

\* shutdownClient() of a client that was taken from the queue.
ShutDown ==
  /\ closing = "drain" /\ idle # <<>>
  /\ idle' = Tail(idle)
  /\ open' = open \ {Head(idle).id}
  /\ UNCHANGED <<permits, clients, total, line, pc, has, closing, calls, thrown>>

Drained ==
  /\ closing = "drain" /\ idle = <<>>
  /\ permits' = permits + MaxClients
  /\ line' = Tail(line)
  /\ closing' = "done"
  /\ UNCHANGED <<idle, clients, total, open, pc, has, calls, thrown>>

\* for (i = 0; i < totalClients; i++) _clients.get(i), with an Integer.
Kill ==
  /\ closing = "kill"
  /\ open' = {i \in open : ~ (i < total /\ IntKey(i) \in clients)}
  /\ closing' = "done"
  /\ UNCHANGED <<permits, idle, clients, total, line, pc, has, calls, thrown>>

-----------------------------------------------------------------------------

Init ==
  /\ permits = MaxClients /\ idle = <<>> /\ clients = {} /\ total = 0 /\ open = {}
  /\ line = <<>>
  /\ pc = [t \in Threads |-> "idle"] /\ has = [t \in Threads |-> NoClient]
  /\ closing = "idle"
  /\ calls = 0 /\ thrown = 0

\* What a thread does once besTransaction() has been called.
ThreadStep(t) ==
  \/ Acquire(t) \/ Take(t) \/ New(t) \/ NewFails(t)
  \/ TransactionEnds(t) \/ TransactionFails(t)
  \/ CheckIn(t) \/ Discard(t) \/ Release(t)

\* What destroy() does once it has been called.
DestroyStep == AcquireAll \/ TimesOut \/ ShutDown \/ Drained \/ Kill

Next ==
  \/ \E t \in Threads : GetClient(t) \/ Throws(t) \/ ThreadStep(t)
  \/ Destroy \/ DestroyStep

Spec == Init /\ [][Next]_vars

\* The threads run, and what they wait for has a timeout; the lock is fair.
FairSpec == Spec /\ WF_vars(DestroyStep) /\ \A t \in Threads : WF_vars(ThreadStep(t))

-----------------------------------------------------------------------------
(* Properties. *)

\* The ids of the idle clients, and of those that a thread works with.
Idle  == {idle[i].id : i \in 1..Len(idle)}
Users == {t \in Threads : pc[t] \in {"use", "checkIn", "discard"}}

\* getClient(): "Acquiring this semaphore is what limits the number of clients
\* that will be in the pool", although clients are made and discarded on the
\* way, and a client is back in the queue before its permit is.
PoolBound == Cardinality(open) <= MaxClients

\* No two threads talk on one connection, and none talks on an idle one.
NotShared ==
  /\ \A t \in Users : has[t].id \notin Idle /\ \A u \in Users \ {t} : has[t].id # has[u].id
  /\ \A i, j \in 1..Len(idle) : idle[i].id = idle[j].id => i = j

\* offer() never refuses ("This Should NEVER Happen!"), so no open connection
\* is forgotten, and none that is closed or worn out waits to be borrowed.
OpenAreKnown ==
  /\ open \subseteq Idle \cup {has[t].id : t \in Users}
  /\ Idle \subseteq open
  /\ \A i \in 1..Len(idle) : ~ WornOut(idle[i])

\* Those who have a permit.
Holders == {t \in Threads : pc[t] \notin {"idle", "lock"}}
Lost    == MaxClients - permits - Cardinality(Holders) - (IF closing = "drain" THEN MaxClients ELSE 0)

\* No way through a transaction, or through destroy(), loses or duplicates a
\* permit, except an interrupt or an unchecked exception in getClient().
PermitsKept == Lost \in 0..thrown

\* getClient(): "this method will BLOCK until a client becomes" available, and
\* no longer.
GetClientReturns == \A t \in Threads : pc[t] = "lock" ~> pc[t] # "lock"

\* destroy(): "It waits until all clients are checked into the pool and then
\* gracefully shuts down each client's connection to the BES": unless its waits
\* time out nobody has a connection left when it is done.
DrainCloses == [][closing = "drain" /\ closing' = "done" => open' = {}]_vars
=============================================================================
