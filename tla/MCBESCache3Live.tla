--------------------------- MODULE MCBESCache3Live ---------------------------
(***************************************************************************)
(* Liveness of BESCache3.  fcntl locks are granted in no order, so readers *)
(* of the cache may starve a writer for as long as requests keep coming.   *)
(* Here every listener has MaxCalls calls of access(); then it is enough   *)
(* that each process is scheduled (weak fairness of its own steps).        *)
(***************************************************************************)
EXTENDS MCBESCache3

CONSTANT MaxCalls

VARIABLE calls  \* calls[p]: how often p has called access()

liveVars == <<vars, calls>>

LiveInit == Init /\ calls = [p \in Listeners |-> 0]

LiveStep(p) == Step(p) /\ UNCHANGED calls

LiveAccess(p) ==
  /\ calls[p] < MaxCalls
  /\ \E c \in Containers : Access(p, c)
  /\ calls' = [calls EXCEPT ![p] = @ + 1]

LiveRest(p) == (EndRequest(p) \/ Die(p)) /\ UNCHANGED calls

LiveNext == \E p \in Listeners : LiveStep(p) \/ LiveAccess(p) \/ LiveRest(p)

\* The operating system runs every process; clients and crashes are free.
LiveSpec ==
  /\ LiveInit /\ [][LiveNext]_liveVars
  /\ \A p \in Listeners : WF_liveVars(LiveStep(p))

\* Every access() returns or throws (unless its process dies): nobody waits
\* forever for the cache or for a file that another process is filling, even
\* if that process is killed.
AccessReturns ==
  \A p \in Listeners : (pc[p] = "rdCache") ~> (pc[p] \in {"idle", "ending", "boot"})
=============================================================================
