------------------------------ MODULE BESDaemon ------------------------------
(***************************************************************************)
(* The besdaemon and the master beslistener (server/daemon.cc,             *)
(* server/DaemonCommandHandler.cc, server/ServerApp.cc).                   *)
(*                                                                         *)
(* The daemon is one thread, interrupted by its own signal handlers, which *)
(* fork, wait and exit as the thread does.  stack is its call stack: a     *)
(* frame for the thread (the last one) and one for every handler that has  *)
(* interrupted it.  A pending signal that is not blocked is handled before *)
(* the daemon's next step, as the kernel does on the way back to user      *)
(* mode.  Every wait(), read() and pause() of the code is a guard.         *)
(***************************************************************************)
EXTENDS Integers, Sequences, FiniteSets

CONSTANTS
  MaxStarts,    \* bound: the master beslisteners that can be forked
  MaxSignals,   \* bound: the signals that an operator sends
  MaxCommands,  \* bound: the commands of the administration client
  QuietSignals  \* whether operators wait until the daemon has done what it was told

ASSUME DaemonAssumption ==
  /\ MaxStarts \in Nat /\ MaxSignals \in Nat /\ MaxCommands \in Nat
  /\ QuietSignals \in BOOLEAN

VARIABLES
  running,  \* the besdaemon process exists
  cmdPort,  \* what bes.conf says of the command interface
  stack,    \* the frames of the daemon, the innermost first
  blocked,  \* SIGCHLD, SIGTERM and SIGHUP are blocked
  pending,  \* the signals that are pending for the daemon
  woken,    \* a handler has interrupted pause()
  status,   \* master_beslistener_status
  master,   \* master_beslistener_pid
  pidFile,  \* bes.pid exists
  child,    \* the state of every master beslistener that was or can be forked
  pipe,     \* what each of them wrote to its pipe first
  code,     \* the exit status of each of them
  sigs,     \* the signals that each of them has yet to handle
  signals,  \* how many signals operators sent
  commands  \* how many commands the client sent

daemonVars == <<running, stack, blocked, pending, woken, status, master, pidFile>>
childVars  == <<child, pipe, code, sigs>>
vars == <<running, cmdPort, stack, blocked, pending, woken, status, master, pidFile,
          child, pipe, code, sigs, signals, commands>>

Children == 1..MaxStarts
NoChild  == 0

\* No socket for commands; a BES.DaemonPort that is not a number; or a good one.
CmdPorts == {"none", "invalid", "open"}

Signals  == {"CHLD", "TERM", "HUP"}
Statuses == {"stopped", "running", "restart", "abnormal"}
Exits    == {"normal", "restart", "fatal", "killed"}

\* Places in start_master_beslistener(), in stop_all_beslisteners(), elsewhere.
InStart == {"fork", "read", "setPid", "setStatus"}
InStop  == {"kill", "reap", "stopped"}
Places  == InStart \cup InStop \cup {"chld", "open", "idle", "pause", "check"}

\* Who called: main(), the pause loop, a command, a handler.
Callers == {"first", "again", "start", "stopNow", "exit", "end", "chld", "term", "hup", "hupFail"}

Frame == [at : Places, why : Callers, pid : Children \cup {NoChild}]

TypeOK ==
  /\ running \in BOOLEAN /\ cmdPort \in CmdPorts
  /\ stack \in Seq(Frame)
  /\ blocked \in BOOLEAN /\ pending \subseteq Signals /\ woken \in BOOLEAN
  /\ status \in Statuses /\ master \in Children \cup {NoChild} /\ pidFile \in BOOLEAN
  /\ child \in [Children -> {"unborn", "init", "failing", "up", "zombie", "gone"}]
  /\ pipe \in [Children -> {"open", "running", "fatal", "closed"}]
  /\ code \in [Children -> Exits]
  /\ sigs \in [Children -> SUBSET {"TERM", "HUP"}]
  /\ signals \in 0..MaxSignals /\ commands \in 0..MaxCommands

-----------------------------------------------------------------------------
(* The stack. *)

Top == Head(stack)

At(place) == running /\ (blocked \/ pending = {}) /\ Top.at = place

Put(frame) == stack' = <<frame>> \o Tail(stack)

Goto(place) == Put([Top EXCEPT !.at = place])

Call(place, why) == Put([at |-> place, why |-> why, pid |-> NoChild])

\* exit(): the kernel hands the children to init, which reaps them.
Exit ==
  /\ running' = FALSE
  /\ child' = [c \in Children |-> IF child[c] = "zombie" THEN "gone" ELSE child[c]]
  /\ stack' = <<>> /\ pending' = {} /\ blocked' = FALSE
  /\ UNCHANGED <<woken, status, pipe, code, sigs>>

-----------------------------------------------------------------------------
(* pr_exit(): what the exit of a child makes of the status. *)

PrExit(exit) ==
  CASE exit = "normal"  -> "stopped"
    [] exit = "restart" -> "restart"
    [] OTHER            -> "abnormal"

-----------------------------------------------------------------------------
(* Variants with one fault each, which the properties below must notice.   *)
(* No action uses them.                                                    *)

\* SIGCHLD recorded whichever child has exited.
CatchSigChildAny ==
  /\ At("chld")
  /\ \/ \E c \in Children :
          /\ child[c] = "zombie"
          /\ child' = [child EXCEPT ![c] = "gone"]
          /\ status' = PrExit(code[c])
     \/ (\A c \in Children : child[c] \in {"unborn", "gone"}) /\ UNCHANGED <<child, status>>
  /\ stack' = Tail(stack) /\ blocked' = FALSE
  /\ UNCHANGED <<running, cmdPort, pending, woken, master, pidFile, pipe, code, sigs, signals, commands>>

\* killpg() of a process group that is not the master's.
KillNobody ==
  /\ At("kill")
  /\ blocked' = TRUE
  /\ Goto("reap")
  /\ UNCHANGED <<running, cmdPort, pending, woken, status, master, pidFile, childVars, signals, commands>>

\* An exception that ends the daemon without stopping the beslisteners.
ServeFailsAtOnce ==
  /\ At("idle")
  /\ Exit /\ pidFile' = FALSE
  /\ UNCHANGED <<cmdPort, master, signals, commands>>

-----------------------------------------------------------------------------
(* stop_all_beslisteners() *)

StopSignal == IF Top.why = "hup" THEN "HUP" ELSE "TERM"

\* Block the signals; killpg(): only a process that called setsid() and lives
\* gets it.
Kill ==
  /\ At("kill")
  /\ blocked' = TRUE
  /\ sigs' = [c \in Children |->
                IF c = master /\ child[c] = "up" THEN sigs[c] \cup {StopSignal} ELSE sigs[c]]
  /\ Goto("reap")
  /\ UNCHANGED <<running, cmdPort, pending, woken, status, master, pidFile, child, pipe, code, signals, commands>>

\* while ((pid = wait(&status)) > 0)
Reap(c) ==
  /\ At("reap") /\ child[c] = "zombie"
  /\ child' = [child EXCEPT ![c] = "gone"]
  /\ status' = IF c = master THEN PrExit(code[c]) ELSE status
  /\ UNCHANGED <<running, cmdPort, stack, blocked, pending, woken, master, pidFile, pipe, code, sigs, signals, commands>>

NoChildren == \A c \in Children : child[c] \in {"unborn", "gone"}

\* ECHILD ends the loop; what is pending is handled as soon as it is unblocked.
Reaped ==
  /\ At("reap") /\ NoChildren
  /\ blocked' = FALSE
  /\ Goto("stopped")
  /\ UNCHANGED <<running, cmdPort, pending, woken, status, master, pidFile, childVars, signals, commands>>

\* Back in the caller.
StopReturns ==
  /\ At("stopped")
  /\ \/ /\ Top.why = "hup" /\ Call("fork", "hup")
        /\ UNCHANGED <<running, blocked, pending, woken, status, master, pidFile, childVars>>
     \/ /\ Top.why = "stopNow" /\ Call("idle", "stopNow")
        /\ UNCHANGED <<running, blocked, pending, woken, status, master, pidFile, childVars>>
     \/ Top.why \in {"term", "hupFail", "end"} /\ Exit /\ pidFile' = FALSE /\ UNCHANGED master
     \/ Top.why = "exit" /\ Exit /\ UNCHANGED <<pidFile, master>>
  /\ UNCHANGED <<cmdPort, signals, commands>>

-----------------------------------------------------------------------------
(* start_master_beslistener() *)

\* The start failed: it returns 0.
StartFails ==
  \/ /\ Top.why = "first" /\ Exit /\ master' = NoChild /\ UNCHANGED pidFile
  \/ /\ Top.why \in {"again", "start", "hup"}
     /\ \/ Top.why = "again" /\ Call("pause", "again") /\ woken' = FALSE
        \/ Top.why = "start" /\ Call("idle", "start") /\ UNCHANGED woken
        \/ Top.why = "hup" /\ Call("kill", "hupFail") /\ UNCHANGED woken
     /\ UNCHANGED <<running, blocked, pending, status, master, pidFile, childVars>>

\* pipe() or fork() may fail.
Fork ==
  /\ At("fork")
  /\ \/ \E c \in Children :
          /\ child[c] = "unborn" /\ \A d \in Children : d < c => child[d] # "unborn"
          /\ child' = [child EXCEPT ![c] = "init"]
          /\ Put([Top EXCEPT !.at = "read", !.pid = c])
          /\ UNCHANGED <<running, blocked, pending, woken, status, master, pidFile, pipe, code, sigs>>
     \/ StartFails
  /\ UNCHANGED <<cmdPort, signals, commands>>

\* The status in the pipe.  At the end of the file none is there, and the
\* variable that the code compares is not initialized.
Read ==
  /\ At("read") /\ pipe[Top.pid] # "open"
  /\ \/ /\ pipe[Top.pid] \in {"running", "closed"}
        /\ Goto("setPid")
        /\ UNCHANGED <<running, blocked, pending, woken, status, master, pidFile, childVars>>
     \/ pipe[Top.pid] \in {"fatal", "closed"} /\ StartFails
  /\ UNCHANGED <<cmdPort, signals, commands>>

SetPid ==
  /\ At("setPid")
  /\ master' = Top.pid
  /\ Goto("setStatus")
  /\ UNCHANGED <<running, cmdPort, blocked, pending, woken, status, pidFile, childVars, signals, commands>>

\* main() assigns the pid that is returned once more, which changes nothing
\* unless a HUP comes first (QuietSignals).
SetStatus ==
  /\ At("setStatus")
  /\ status' = "running"
  /\ \/ Top.why = "first" /\ cmdPort # "none" /\ Call("open", "first") /\ UNCHANGED <<blocked, woken>>
     \/ Top.why = "first" /\ cmdPort = "none" /\ Call("pause", "first") /\ UNCHANGED <<blocked, woken>>
     \/ Top.why = "again" /\ Call("pause", "again") /\ woken' = FALSE /\ UNCHANGED blocked
     \/ Top.why = "start" /\ Call("idle", "start") /\ UNCHANGED <<blocked, woken>>
     \/ Top.why = "hup" /\ stack' = Tail(stack) /\ blocked' = FALSE /\ UNCHANGED woken
  /\ UNCHANGED <<running, cmdPort, pending, master, pidFile, childVars, signals, commands>>

-----------------------------------------------------------------------------
(* The handlers: a signal interrupts the daemon, and all three are blocked. *)

Deliver(s) ==
  /\ running /\ ~ blocked /\ s \in pending
  /\ pending' = pending \ {s}
  /\ blocked' = TRUE
  /\ woken' = (woken \/ Top.at = "pause")
  /\ stack' = << CASE s = "CHLD" -> [at |-> "chld", why |-> "chld", pid |-> NoChild]
                   [] s = "TERM" -> [at |-> "kill", why |-> "term", pid |-> NoChild]
                   [] s = "HUP"  -> [at |-> "kill", why |-> "hup", pid |-> NoChild] >> \o stack
  /\ UNCHANGED <<running, cmdPort, status, master, pidFile, childVars, signals, commands>>

\* One wait() for however many children have exited; it returns at once when
\* there is none, and blocks when all of them live.
CatchSigChild ==
  /\ At("chld")
  /\ \/ \E c \in Children :
          /\ child[c] = "zombie"
          /\ child' = [child EXCEPT ![c] = "gone"]
          /\ status' = IF c = master THEN PrExit(code[c]) ELSE status
     \/ NoChildren /\ UNCHANGED <<child, status>>
  /\ stack' = Tail(stack) /\ blocked' = FALSE
  /\ UNCHANGED <<running, cmdPort, pending, woken, master, pidFile, pipe, code, sigs, signals, commands>>

-----------------------------------------------------------------------------
(* start_command_processor(), DaemonCommandHandler::execute_command() *)

\* A port that is not a number ends the daemon at once, and stops nobody.  Else
\* the sockets of the command interface are opened, or an exception stops all.
OpenPort ==
  /\ At("open")
  /\ \/ cmdPort = "invalid" /\ Exit /\ UNCHANGED <<master, pidFile>>
     \/ /\ cmdPort = "open"
        /\ Call("idle", "first") \/ Call("kill", "end")
        /\ UNCHANGED <<running, blocked, pending, woken, status, master, pidFile, childVars>>
  /\ UNCHANGED <<cmdPort, signals, commands>>

\* An exception of the connection leaves PPTServer::initConnection().
ServeFails ==
  /\ At("idle")
  /\ Call("kill", "end")
  /\ UNCHANGED <<running, cmdPort, blocked, pending, woken, status, master, pidFile, childVars, signals, commands>>

Command(place, why) ==
  /\ At("idle") /\ commands < MaxCommands
  /\ commands' = commands + 1
  /\ Call(place, why)
  /\ UNCHANGED <<running, cmdPort, blocked, pending, woken, status, master, pidFile, childVars, signals>>

\* Start is refused while the status is RUNNING.
CmdStart   == status # "running" /\ Command("fork", "start")
CmdStopNow == Command("kill", "stopNow")
CmdExit    == Command("kill", "exit")

-----------------------------------------------------------------------------
(* The loop of main() when there is no command interface. *)

\* pause() returns after a handler that ran while it waited.
Pause ==
  /\ At("pause") /\ woken
  /\ woken' = FALSE
  /\ Goto("check")
  /\ UNCHANGED <<running, cmdPort, blocked, pending, status, master, pidFile, childVars, signals, commands>>

Check ==
  /\ At("check")
  /\ \/ /\ status = "restart"
        /\ status' = "stopped"
        /\ Call("fork", "again")
        /\ UNCHANGED <<running, blocked, pending, woken, master, pidFile, childVars>>
     \/ /\ status = "running"
        /\ Goto("pause")
        /\ UNCHANGED <<running, blocked, pending, woken, status, master, pidFile, childVars>>
     \/ /\ status \in {"stopped", "abnormal"}
        /\ Exit /\ pidFile' = FALSE /\ UNCHANGED master
  /\ UNCHANGED <<cmdPort, signals, commands>>

-----------------------------------------------------------------------------
(* The master beslistener: ServerApp. *)

\* The end of the process: a zombie and SIGCHLD, unless the daemon is gone.
Ends(c, how) ==
  /\ child' = [child EXCEPT ![c] = IF running THEN "zombie" ELSE "gone"]
  /\ code' = [code EXCEPT ![c] = how]
  /\ pending' = IF running THEN pending \cup {"CHLD"} ELSE pending
  /\ UNCHANGED <<running, cmdPort, stack, blocked, woken, status, master, pidFile, sigs, signals, commands>>

\* run(): the port is bound, which no other beslistener may have, and the
\* status is written; or the FATAL status, and then the process exits.
ChildRuns(c) ==
  /\ child[c] = "init"
  /\ \/ /\ \A d \in Children : child[d] # "up"
        /\ child' = [child EXCEPT ![c] = "up"]
        /\ pipe' = [pipe EXCEPT ![c] = "running"]
     \/ /\ child' = [child EXCEPT ![c] = "failing"]
        /\ pipe' = [pipe EXCEPT ![c] = "fatal"]
  /\ UNCHANGED <<daemonVars, cmdPort, code, sigs, signals, commands>>

\* execvp() or initialize() fails: the process ends before run().
ChildCannotRun(c) ==
  /\ child[c] = "init"
  /\ pipe' = [pipe EXCEPT ![c] = "closed"]
  /\ Ends(c, "fatal")

ChildFails(c) == child[c] = "failing" /\ Ends(c, "fatal") /\ UNCHANGED pipe

\* CatchSigTerm() and CatchSigHup() of the beslistener.
ChildObeys(c) ==
  /\ child[c] = "up"
  /\ \/ "TERM" \in sigs[c] /\ Ends(c, "normal")
     \/ "HUP" \in sigs[c] /\ Ends(c, "restart")
  /\ UNCHANGED pipe

\* A crash, or an exception of run() after the status was written.
ChildCrashes(c) == child[c] = "up" /\ Ends(c, "killed") /\ UNCHANGED pipe

-----------------------------------------------------------------------------
(* Operators send signals, to the daemon or to the beslisteners. *)

\* Neither starting nor stopping a beslistener, nor about to.
Quiet ==
  /\ Len(stack) = 1 /\ Top.at \in {"idle", "pause"}
  /\ pending \cap {"TERM", "HUP"} = {}

SignalDaemon(s) ==
  /\ running /\ signals < MaxSignals
  /\ QuietSignals => Quiet
  /\ pending' = pending \cup {s}
  /\ signals' = signals + 1
  /\ UNCHANGED <<running, cmdPort, stack, blocked, woken, status, master, pidFile, childVars, commands>>

SignalChild(c, s) ==
  /\ child[c] = "up" /\ signals < MaxSignals
  /\ sigs' = [sigs EXCEPT ![c] = @ \cup {s}]
  /\ signals' = signals + 1
  /\ UNCHANGED <<daemonVars, cmdPort, child, pipe, code, commands>>

-----------------------------------------------------------------------------
(* The specification: from the registration of the handlers in main(). *)

Init ==
  /\ running = TRUE /\ cmdPort \in CmdPorts
  /\ stack = <<[at |-> "fork", why |-> "first", pid |-> NoChild]>>
  /\ blocked = FALSE /\ pending = {} /\ woken = FALSE
  /\ status = "stopped" /\ master = NoChild /\ pidFile = TRUE
  /\ child = [c \in Children |-> "unborn"]
  /\ pipe = [c \in Children |-> "open"]
  /\ code = [c \in Children |-> "normal"]
  /\ sigs = [c \in Children |-> {}]
  /\ signals = 0 /\ commands = 0

\* What the daemon does by itself.
DaemonStep ==
  \/ Kill \/ Reaped \/ StopReturns \/ Fork \/ Read \/ SetPid \/ SetStatus
  \/ CatchSigChild \/ OpenPort \/ Pause \/ Check
  \/ \E c \in Children : Reap(c)
  \/ \E s \in Signals : Deliver(s)

\* What a beslistener does by itself.
ChildStep(c) == ChildRuns(c) \/ ChildCannotRun(c) \/ ChildFails(c) \/ ChildObeys(c)

Environment ==
  \/ ServeFails \/ CmdStart \/ CmdStopNow \/ CmdExit
  \/ \E s \in {"TERM", "HUP"} :
       SignalDaemon(s) \/ \E c \in Children : SignalChild(c, s)
  \/ \E c \in Children : ChildCrashes(c)

Next == DaemonStep \/ Environment \/ \E c \in Children : ChildStep(c)

Spec == Init /\ [][Next]_vars

\* The system runs the processes; signals, commands and crashes are free.
FairSpec == Spec /\ WF_vars(DaemonStep) /\ \A c \in Children : WF_vars(ChildStep(c))

-----------------------------------------------------------------------------
(* Properties. *)

\* A beslistener that serves clients is the one the daemon knows, or the one it
\* is just starting: otherwise killpg() misses it and wait() never returns.
KnownListener ==
  \A c \in Children : child[c] = "up" /\ running =>
    \/ c = master /\ status = "running"
    \/ \E k \in 1..Len(stack) : stack[k].at \in InStart /\ stack[k].pid = c

\* The daemon's variables have their types, and agree with the children it has.
Consistent == TypeOK /\ KnownListener

\* One way out of the daemon leaves a beslistener behind, which holds the port
\* and makes the next start fail: the exit(1) of start_command_processor() for a
\* port that is not a number.  No other one does.
NoOrphans ==
  ~ running /\ cmdPort # "invalid" => \A c \in Children : child[c] \notin {"init", "up"}

\* CatchSigTerm(): "When TERM (the default for 'kill') is sent to this process,
\* send it also to each beslistener. This will cause the beslisteners to all
\* exit", and then the daemon exits.
TermStops == ("TERM" \in pending) ~> ~ running

\* No handler hangs in wait() or read().
HandlersReturn == (Len(stack) > 1) ~> (Len(stack) <= 1)
=============================================================================
