----------------------------- MODULE PinnedCache -----------------------------
(***************************************************************************)
(* What BESCache3.h promises of the cache: "Several processes can share    *)
(* the cache with each reading from files.  At the same time, new files    *)
(* can be added and the cache can be purged, without disrupting the        *)
(* existing read operations."  There are no locks, sizes or partial files  *)
(* here: a file is present or not, and a process reads it or not.          *)
(***************************************************************************)
CONSTANTS Listeners, Files

VARIABLES
  present,  \* the files that can be read
  pins      \* pins[p]: the files that p reads

pinVars == <<present, pins>>

PinInit ==
  /\ present = {}
  /\ pins = [p \in Listeners |-> {}]

\* A new file is added, whole.
Add(f) ==
  /\ present' = present \cup {f}
  /\ UNCHANGED pins

\* A process starts to read a file that is present.
Pin(p, f) ==
  /\ f \in present
  /\ pins' = [pins EXCEPT ![p] = @ \cup {f}]
  /\ UNCHANGED present

\* A process finishes with everything it reads, or with one file.
Unpin(p) ==
  /\ \E rest \in SUBSET pins[p] : pins' = [pins EXCEPT ![p] = rest]
  /\ UNCHANGED present

\* A purge removes a file that no process reads.
Evict(f) ==
  /\ \A p \in Listeners : f \notin pins[p]
  /\ present' = present \ {f}
  /\ UNCHANGED pins

PinNext ==
  \/ \E f \in Files : Add(f) \/ Evict(f)
  \/ \E p \in Listeners : Unpin(p) \/ \E f \in Files : Pin(p, f)

PinSpec == PinInit /\ [][PinNext]_pinVars
=============================================================================
