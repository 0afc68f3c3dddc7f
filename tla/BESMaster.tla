------------------------------ MODULE BESMaster ------------------------------
(***************************************************************************)
(* What the besdaemon may rely on of a master beslistener (daemon.cc,      *)
(* start_master_beslistener()): the first word in its pipe says whether it *)
(* serves clients, and it is written before the process ends by itself.    *)
(* BESDaemon lets its beslisteners do no more than this.                   *)
(***************************************************************************)
VARIABLES
  state,  \* of the beslistener that was started last
  word    \* the first word in its pipe

vars == <<state, word>>

Init == state = "init" /\ word = "nothing"

Up == state = "init" /\ state' = "up" /\ word' = "running"
CannotStart == state = "init" /\ state' = "failing" /\ word' = "fatal"

\* By a signal, an exception or a crash; before it is up, too.
End == state # "ended" /\ state' = "ended" /\ UNCHANGED word

\* The daemon starts another one, with a pipe of its own.
Restart == state = "ended" /\ state' = "init" /\ word' = "nothing"

Next == Up \/ CannotStart \/ End \/ Restart
Spec == Init /\ [][Next]_vars
=============================================================================
