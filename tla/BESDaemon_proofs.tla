--------------------------- MODULE BESDaemon_proofs ---------------------------
(***************************************************************************)
(* The besdaemon always knows its beslistener and leaves none behind, for  *)
(* any number of starts, signals and commands, if operators wait until the *)
(* daemon has done what it was told (QuietSignals) and the port of its     *)
(* command interface, if it has one, is a number.                          *)
(***************************************************************************)
EXTENDS BESDaemon, SequenceTheorems, TLAPS

\* The handler of SIGCHLD is interrupted by nothing; below it, or on top if it
\* does not run, is the frame that starts or stops beslisteners, or waits.
Depth  == IF stack[1].at = "chld" THEN 1 ELSE 0
Active == stack[Depth + 1]

Waiting == {"idle", "pause"}
Thread  == {"first", "again", "start", "stopNow", "exit", "end"}

\* Who can be where.
CallerOK ==
  /\ Active.at \in InStart => Active.why \in {"first", "again", "start", "hup"}
  /\ Active.at \in InStop => Active.why \in {"stopNow", "exit", "end", "term", "hup", "hupFail"}
  /\ Active.at \in {"open", "idle", "pause", "check"} => Active.why \in Thread
  /\ Active.at # "chld"

\* One handler of SIGTERM or SIGHUP at most is below that of SIGCHLD, and it has
\* interrupted a thread that waits.
ShapeInv ==
  /\ running <=> stack # <<>>
  /\ running =>
       /\ CallerOK
       /\ \/ Len(stack) = Depth + 1 /\ Active.why \in Thread
          \/ /\ Len(stack) = Depth + 2 /\ Active.why \notin Thread
             /\ stack[Depth + 2].at \in Waiting /\ stack[Depth + 2].why \in Thread

\* Signals are blocked in the handler of SIGCHLD and around wait().  SIGTERM and
\* SIGHUP come one by one, while the daemon waits.
SignalInv ==
  running =>
    /\ stack[1].at \in {"chld", "reap"} => blocked
    /\ blocked => stack[1].at \in {"chld", "kill", "reap"}
    /\ Depth = 1 => Active.at # "reap"
    /\ pending \cap {"TERM", "HUP"} # {} => Len(stack) = Depth + 1 /\ Active.at \in Waiting
    /\ ~({"TERM", "HUP"} \subseteq pending)

\* What the first word in the pipe says of a beslistener.
PipeInv ==
  \A c \in Children :
    /\ pipe[c] = "open" <=> child[c] \in {"unborn", "init"}
    /\ pipe[c] \in {"fatal", "closed"} => child[c] # "up"

Lives(c) == child[c] \in {"init", "up"}

\* A beslistener lives while it is being started, or as the one that the daemon
\* knows; none does when a start begins, or when all have been stopped.
LiveInv ==
  running =>
    /\ Active.at = "read" \/ Active.at = "setPid" \/ Active.at = "setStatus" =>
         Active.pid \in Children /\ \A c \in Children : Lives(c) => c = Active.pid
    /\ Active.at \in {"setPid", "setStatus"} => pipe[Active.pid] # "open"
    /\ Active.at = "setStatus" => master = Active.pid
    /\ Active.at \in {"fork", "stopped"} => \A c \in Children : ~Lives(c)
    /\ Active.at \notin InStart => \A c \in Children : Lives(c) => child[c] = "up" /\ c = master /\ status = "running"

IInv == TypeOK /\ ShapeInv /\ SignalInv /\ PipeInv /\ LiveInv /\ NoOrphans

-----------------------------------------------------------------------------
\* Every conjunct of IInv holds at the beginning.
LEMMA InitInv == Init => IInv
<1> SUFFICES ASSUME Init PROVE IInv
  OBVIOUS
<1>1. /\ stack \in Seq(Frame) /\ Len(stack) = 1
      /\ stack[1] = [at |-> "fork", why |-> "first", pid |-> NoChild]
  BY DEF Init, Frame, Places, InStart, Callers
<1>2. signals \in 0..MaxSignals /\ commands \in 0..MaxCommands
  BY DaemonAssumption DEF Init
<1>3. child \in [Children -> {"unborn"}] /\ pipe \in [Children -> {"open"}] /\ code \in [Children -> {"normal"}]
      /\ sigs \in [Children -> SUBSET {"TERM", "HUP"}]
  BY DEF Init
<1>4. TypeOK
  BY <1>1, <1>2, <1>3 DEF Init, TypeOK, Statuses, Exits
<1>5. ShapeInv /\ SignalInv
  BY <1>1 DEF Init, ShapeInv, SignalInv, CallerOK, Depth, Active, InStart, InStop, Thread
<1>6. PipeInv
  BY <1>3 DEF PipeInv
<1>7. LiveInv /\ NoOrphans
  BY <1>1, <1>3 DEF Init, LiveInv, NoOrphans, Depth, Active, Lives, InStart
<1> QED
  BY <1>4, <1>5, <1>6, <1>7 DEF IInv

-----------------------------------------------------------------------------
(* The stack. *)

\* The daemon's frames while it runs.
LEMMA TopFacts ==
  ASSUME TypeOK, ShapeInv, running
  PROVE  /\ Len(stack) \in Nat \ {0} /\ Top = stack[1] /\ stack[1] \in Frame
         /\ Active \in Frame /\ (Len(stack) >= 2 => stack[2] \in Frame)
         /\ stack[1].at # "chld" => Depth = 0 /\ Active = stack[1]
<1>1. stack \in Seq(Frame) /\ stack # <<>>
  BY DEF TypeOK, ShapeInv
<1>2. Len(stack) \in Nat \ {0} /\ Top = stack[1] /\ stack[1] \in Frame
  BY <1>1 DEF Top
<1>3. Len(stack) >= Depth + 1
  BY <1>2 DEF ShapeInv, Depth
<1> QED
  BY <1>1, <1>2, <1>3 DEF Depth, Active

\* f takes the place of the frame that starts, stops or waits.
Becomes(f) ==
  /\ stack' \in Seq(Frame) /\ stack' # <<>> /\ Len(stack') = Len(stack)
  /\ Depth' = 0 /\ Active' = f /\ stack'[1] = f
  /\ Len(stack) >= 2 => stack'[2] = stack[2]

LEMMA PutBecomes ==
  ASSUME TypeOK, ShapeInv, running, NEW f \in Frame, f.at # "chld", Put(f)
  PROVE  Becomes(f)
<1>1. Len(stack) \in Nat \ {0}
  BY TopFacts
<1>2. Tail(stack) \in Seq(Frame) /\ Len(Tail(stack)) = Len(stack) - 1 /\ \A i \in 1..Len(stack) - 1 : Tail(stack)[i] = stack[i + 1]
  BY <1>1, HeadTailProperties DEF TypeOK
<1>3. /\ stack' \in Seq(Frame) /\ Len(stack') = Len(stack) /\ stack'[1] = f
      /\ Len(stack) >= 2 => stack'[2] = stack[2]
  BY <1>1, <1>2, ConcatProperties DEF Put
<1> QED
  BY <1>1, <1>3 DEF Becomes, Depth, Active

LEMMA GotoBecomes ==
  ASSUME TypeOK, ShapeInv, running, NEW place \in Places \ {"chld"}, Goto(place)
  PROVE  \E f \in Frame : Becomes(f) /\ f.at = place /\ f.why = Top.why /\ f.pid = Top.pid
<1> DEFINE f == [Top EXCEPT !.at = place]
<1>1. f \in Frame /\ f.at = place /\ f.why = Top.why /\ f.pid = Top.pid
  BY TopFacts DEF Frame
<1> QED
  BY <1>1, PutBecomes DEF Goto

LEMMA CallBecomes ==
  ASSUME TypeOK, ShapeInv, running, NEW place \in Places \ {"chld"}, NEW why \in Callers, Call(place, why)
  PROVE  \E f \in Frame : Becomes(f) /\ f.at = place /\ f.why = why
<1> DEFINE f == [at |-> place, why |-> why, pid |-> NoChild]
<1>1. f \in Frame /\ f.at = place /\ f.why = why
  BY DEF Frame
<1> QED
  BY <1>1, PutBecomes DEF Call

\* A handler returns, to what it has interrupted.
LEMMA PopFacts ==
  ASSUME TypeOK, ShapeInv, running, Len(stack) >= 2, stack' = Tail(stack)
  PROVE  /\ stack' \in Seq(Frame) /\ Len(stack') = Len(stack) - 1 /\ stack' # <<>>
         /\ stack'[1] = stack[2] /\ (Len(stack) >= 3 => stack'[2] = stack[3])
<1>1. Len(stack) \in Nat /\ stack # <<>>
  BY TopFacts DEF ShapeInv
<1>2. /\ Tail(stack) \in Seq(Frame) /\ Len(Tail(stack)) = Len(stack) - 1
      /\ \A i \in 1..Len(stack) - 1 : Tail(stack)[i] = stack[i + 1]
  BY <1>1, HeadTailProperties DEF TypeOK
<1> QED
  BY <1>1, <1>2

\* A handler interrupts the daemon.
LEMMA PushFacts ==
  ASSUME TypeOK, ShapeInv, running, NEW f \in Frame, stack' = <<f>> \o stack
  PROVE  /\ stack' \in Seq(Frame) /\ Len(stack') = Len(stack) + 1 /\ stack' # <<>>
         /\ stack'[1] = f /\ stack'[2] = stack[1] /\ (Len(stack) >= 2 => stack'[3] = stack[2])
<1>1. Len(stack) \in Nat \ {0}
  BY TopFacts
<1> QED
  BY <1>1, ConcatProperties DEF TypeOK

-----------------------------------------------------------------------------
(* The actions. *)

\* The daemon exits, and no beslistener lives unless its port is invalid.
LEMMA ExitInv ==
  ASSUME IInv, running, cmdPort = "invalid" \/ \A c \in Children : ~Lives(c), Exit,
         pidFile' \in BOOLEAN, master' \in Children \cup {NoChild}, UNCHANGED <<cmdPort, signals, commands>>
  PROVE  IInv'
<1> USE DEF Exit, Lives
<1>1. TypeOK'
  <2>1. child' \in [Children -> {"unborn", "init", "failing", "up", "zombie", "gone"}]
    BY DEF IInv, TypeOK
  <2>2. stack' \in Seq(Frame)
    BY EmptySeq
  <2>3. pending' \subseteq Signals /\ blocked' \in BOOLEAN /\ running' \in BOOLEAN
    OBVIOUS
  <2> QED
    BY <2>1, <2>2, <2>3 DEF IInv, TypeOK
<1>2. ShapeInv'
  BY DEF IInv, ShapeInv, CallerOK, Depth, Active
<1>3. SignalInv'
  BY DEF IInv, SignalInv, Depth, Active
<1>4. PipeInv'
  BY DEF IInv, PipeInv
<1>5. LiveInv'
  BY DEF IInv, LiveInv, Depth, Active, Lives, InStart
<1>6. NoOrphans'
  BY DEF IInv, NoOrphans
<1> QED
  BY <1>1, <1>2, <1>3, <1>4, <1>5, <1>6 DEF IInv

LEMMA KillInv ==
  ASSUME IInv, Kill
  PROVE  IInv'
<1> USE DEF Kill, At, StopSignal
<1>a. running /\ Top = stack[1] /\ Top \in Frame /\ Depth = 0 /\ Active = Top
  BY TopFacts DEF IInv, At
<1>b. PICK f \in Frame : Becomes(f) /\ f.at = "reap" /\ f.why = Top.why /\ f.pid = Top.pid
  BY <1>a, GotoBecomes DEF IInv, Places, InStart, InStop
<1>1. TypeOK'
  BY <1>a, <1>b DEF IInv, TypeOK, Becomes, Signals, Statuses, Exits
<1>2. ShapeInv'
  BY <1>a, <1>b DEF IInv, ShapeInv, CallerOK, Becomes, Thread, Waiting, InStart, InStop
<1>3. SignalInv'
  BY <1>a, <1>b DEF IInv, SignalInv, Becomes, Waiting, ShapeInv, CallerOK, Thread
<1>4. PipeInv'
  BY <1>a, <1>b DEF IInv, PipeInv
<1>5. LiveInv'
  BY <1>a, <1>b DEF IInv, TypeOK, LiveInv, Becomes, Lives, InStart
<1>6. NoOrphans'
  BY <1>a, <1>b DEF IInv, NoOrphans
<1> QED
  BY <1>1, <1>2, <1>3, <1>4, <1>5, <1>6 DEF IInv

LEMMA ReapInv ==
  ASSUME IInv, NEW c \in Children, Reap(c)
  PROVE  IInv'
<1> USE DEF Reap, At, PrExit
<1>a. running /\ Top = stack[1] /\ Depth = 0 /\ Active = Top
  BY TopFacts DEF IInv, At
<1>1. TypeOK'
  BY <1>a DEF IInv, TypeOK, Becomes, Signals, Statuses, Exits
<1>2. ShapeInv'
  BY <1>a DEF IInv, ShapeInv, CallerOK, Depth, Active
<1>3. SignalInv'
  BY <1>a DEF IInv, SignalInv, Depth, Active
<1>4. PipeInv'
  BY <1>a DEF IInv, PipeInv
<1>5. LiveInv'
  BY <1>a DEF IInv, LiveInv, Depth, Active, Lives, InStart
<1>6. NoOrphans'
  BY <1>a DEF IInv, NoOrphans
<1> QED
  BY <1>1, <1>2, <1>3, <1>4, <1>5, <1>6 DEF IInv

LEMMA ReapedInv ==
  ASSUME IInv, Reaped
  PROVE  IInv'
<1> USE DEF Reaped, At, NoChildren, childVars
<1>a. running /\ Top = stack[1] /\ Top \in Frame /\ Depth = 0 /\ Active = Top
  BY TopFacts DEF IInv, At
<1>b. PICK f \in Frame : Becomes(f) /\ f.at = "stopped" /\ f.why = Top.why /\ f.pid = Top.pid
  BY <1>a, GotoBecomes DEF IInv, Places, InStart, InStop
<1>1. TypeOK'
  BY <1>a, <1>b DEF IInv, TypeOK, Becomes, Signals, Statuses, Exits
<1>2. ShapeInv'
  BY <1>a, <1>b DEF IInv, ShapeInv, CallerOK, Becomes, Thread, Waiting, InStart, InStop
<1>3. SignalInv'
  BY <1>a, <1>b DEF IInv, SignalInv, Becomes, Waiting, ShapeInv, CallerOK, Thread
<1>4. PipeInv'
  BY <1>a, <1>b DEF IInv, PipeInv
<1>5. LiveInv'
  BY <1>a, <1>b DEF IInv, TypeOK, LiveInv, Becomes, Lives, InStart
<1>6. NoOrphans'
  BY <1>a, <1>b DEF IInv, NoOrphans
<1> QED
  BY <1>1, <1>2, <1>3, <1>4, <1>5, <1>6 DEF IInv

LEMMA StopGoesOnInv ==
  ASSUME IInv, StopReturns, running'
  PROVE  IInv'
<1> USE DEF StopReturns, At, Exit, childVars
<1>a. running /\ Top = stack[1] /\ Top \in Frame /\ Depth = 0 /\ Active = Top
  BY TopFacts DEF IInv, At
<1>b. PICK f \in Frame : /\ Becomes(f)
                         /\ \/ Top.why = "hup" /\ f.at = "fork" /\ f.why = "hup"
                            \/ Top.why = "stopNow" /\ f.at = "idle" /\ f.why = "stopNow"
  BY <1>a, CallBecomes DEF IInv, Places, InStart, InStop, Callers
<1>1. TypeOK'
  BY <1>a, <1>b DEF IInv, TypeOK, Becomes, Signals, Statuses, Exits
<1>2. ShapeInv'
  BY <1>a, <1>b DEF IInv, ShapeInv, CallerOK, Becomes, Thread, Waiting, InStart, InStop
<1>3. SignalInv'
  BY <1>a, <1>b DEF IInv, SignalInv, Becomes, Waiting, ShapeInv, CallerOK, Thread
<1>4. PipeInv'
  BY <1>a, <1>b DEF IInv, PipeInv
<1>5. LiveInv'
  BY <1>a, <1>b DEF IInv, TypeOK, LiveInv, Becomes, Lives, InStart
<1>6. NoOrphans'
  BY <1>a, <1>b DEF IInv, NoOrphans
<1> QED
  BY <1>1, <1>2, <1>3, <1>4, <1>5, <1>6 DEF IInv

LEMMA StartGoesOnInv ==
  ASSUME IInv, At("fork") \/ At("read"), \A c \in Children : ~Lives(c), StartFails, running',
         UNCHANGED <<cmdPort, signals, commands>>
  PROVE  IInv'
<1> USE DEF StartFails, At, Exit, childVars
<1>a. running /\ Top = stack[1] /\ Top \in Frame /\ Depth = 0 /\ Active = Top
  BY TopFacts DEF IInv, At
<1>b. PICK f \in Frame : /\ Becomes(f)
                         /\ \/ Top.why = "again" /\ f.at = "pause" /\ f.why = "again"
                            \/ Top.why = "start" /\ f.at = "idle" /\ f.why = "start"
                            \/ Top.why = "hup" /\ f.at = "kill" /\ f.why = "hupFail"
  BY <1>a, CallBecomes DEF IInv, Places, InStart, InStop, Callers
<1>1. TypeOK'
  BY <1>a, <1>b DEF IInv, TypeOK, Becomes, Signals, Statuses, Exits
<1>2. ShapeInv'
  BY <1>a, <1>b DEF IInv, ShapeInv, CallerOK, Becomes, Thread, Waiting, InStart, InStop
<1>3. SignalInv'
  BY <1>a, <1>b DEF IInv, SignalInv, Becomes, Waiting, ShapeInv, CallerOK, Thread
<1>4. PipeInv'
  BY <1>a, <1>b DEF IInv, PipeInv
<1>5. LiveInv'
  BY <1>a, <1>b DEF IInv, TypeOK, LiveInv, Becomes, Lives, InStart
<1>6. NoOrphans'
  BY <1>a, <1>b DEF IInv, NoOrphans
<1> QED
  BY <1>1, <1>2, <1>3, <1>4, <1>5, <1>6 DEF IInv

LEMMA ForkChildInv ==
  ASSUME IInv, NEW c \in Children, At("fork"), child[c] = "unborn", child' = [child EXCEPT ![c] = "init"],
         Put([Top EXCEPT !.at = "read", !.pid = c]),
         UNCHANGED <<running, blocked, pending, woken, status, master, pidFile, pipe, code, sigs>>,
         UNCHANGED <<cmdPort, signals, commands>>
  PROVE  IInv'
<1> USE DEF At
<1> DEFINE f == [Top EXCEPT !.at = "read", !.pid = c]
<1>a. running /\ Top = stack[1] /\ Top \in Frame /\ Depth = 0 /\ Active = Top /\ Top.at = "fork"
  BY TopFacts DEF IInv, At
<1>b. f \in Frame /\ f.at = "read" /\ f.why = Top.why /\ f.pid = c
  BY <1>a DEF Frame, Places, InStart
<1>c. Becomes(f)
  BY <1>a, <1>b, PutBecomes DEF IInv
<1> HIDE DEF f
<1>1. TypeOK'
  BY <1>a, <1>b, <1>c DEF IInv, TypeOK, Becomes, Signals, Statuses, Exits
<1>2. ShapeInv'
  BY <1>a, <1>b, <1>c
    DEF IInv, TypeOK, ShapeInv, CallerOK, Becomes, Thread, Waiting, InStart, InStop, Depth, Active, SignalInv
<1>3. SignalInv'
  BY <1>a, <1>b, <1>c DEF IInv, SignalInv, Becomes, Waiting, ShapeInv, CallerOK, Thread
<1>4. PipeInv'
  BY <1>a, <1>b, <1>c DEF IInv, TypeOK, PipeInv
<1>5. LiveInv'
  BY <1>a, <1>b, <1>c DEF IInv, TypeOK, LiveInv, Becomes, Lives, InStart
<1>6. NoOrphans'
  BY <1>a, <1>b, <1>c DEF IInv, NoOrphans
<1> QED
  BY <1>1, <1>2, <1>3, <1>4, <1>5, <1>6 DEF IInv

LEMMA ReadGoesOnInv ==
  ASSUME IInv, At("read"), pipe[Top.pid] \in {"running", "closed"}, Goto("setPid"),
         UNCHANGED <<running, blocked, pending, woken, status, master, pidFile, childVars>>,
         UNCHANGED <<cmdPort, signals, commands>>
  PROVE  IInv'
<1> USE DEF At, childVars
<1>a. running /\ Top = stack[1] /\ Top \in Frame /\ Depth = 0 /\ Active = Top
  BY TopFacts DEF IInv, At
<1>b. PICK f \in Frame : Becomes(f) /\ f.at = "setPid" /\ f.why = Top.why /\ f.pid = Top.pid
  BY <1>a, GotoBecomes DEF IInv, Places, InStart, InStop
<1>1. TypeOK'
  BY <1>a, <1>b DEF IInv, TypeOK, Becomes, Signals, Statuses, Exits
<1>2. ShapeInv'
  BY <1>a, <1>b
    DEF IInv, TypeOK, ShapeInv, CallerOK, Becomes, Thread, Waiting, InStart, InStop, Depth, Active, SignalInv
<1>3. SignalInv'
  BY <1>a, <1>b DEF IInv, SignalInv, Becomes, Waiting, ShapeInv, CallerOK, Thread
<1>4. PipeInv'
  BY <1>a, <1>b DEF IInv, PipeInv
<1>5. LiveInv'
  BY <1>a, <1>b DEF IInv, TypeOK, LiveInv, Becomes, Lives, InStart
<1>6. NoOrphans'
  BY <1>a, <1>b DEF IInv, NoOrphans
<1> QED
  BY <1>1, <1>2, <1>3, <1>4, <1>5, <1>6 DEF IInv

LEMMA SetPidInv ==
  ASSUME IInv, SetPid
  PROVE  IInv'
<1> USE DEF SetPid, At, childVars
<1>a. running /\ Top = stack[1] /\ Top \in Frame /\ Depth = 0 /\ Active = Top
  BY TopFacts DEF IInv, At
<1>b. PICK f \in Frame : Becomes(f) /\ f.at = "setStatus" /\ f.why = Top.why /\ f.pid = Top.pid
  BY <1>a, GotoBecomes DEF IInv, Places, InStart, InStop
<1>1. TypeOK'
  BY <1>a, <1>b, DaemonAssumption DEF IInv, TypeOK, Becomes, ShapeInv, LiveInv, Signals, Statuses, Exits, Frame
<1>2. ShapeInv'
  BY <1>a, <1>b DEF IInv, ShapeInv, CallerOK, Becomes, Thread, Waiting, InStart, InStop
<1>3. SignalInv'
  BY <1>a, <1>b DEF IInv, SignalInv, Becomes, Waiting, ShapeInv, CallerOK, Thread
<1>4. PipeInv'
  BY <1>a, <1>b DEF IInv, PipeInv
<1>5. LiveInv'
  BY <1>a, <1>b DEF IInv, TypeOK, LiveInv, Becomes, Lives, InStart
<1>6. NoOrphans'
  BY <1>a, <1>b DEF IInv, NoOrphans
<1> QED
  BY <1>1, <1>2, <1>3, <1>4, <1>5, <1>6 DEF IInv

LEMMA SetStatusThreadInv ==
  ASSUME IInv, SetStatus, Top.why # "hup"
  PROVE  IInv'
<1> USE DEF SetStatus, At, childVars
<1>a. Top.why # "hup" /\ running /\ Top = stack[1] /\ Top \in Frame /\ Depth = 0 /\ Active = Top
  BY TopFacts DEF IInv, At
<1>b. PICK f \in Frame : /\ Becomes(f)
                         /\ \/ f.at = "open" /\ Top.why = f.why /\ f.why = "first"
                            \/ f.at = "pause" /\ Top.why = f.why /\ f.why = "first"
                            \/ f.at = "pause" /\ Top.why = f.why /\ f.why = "again"
                            \/ f.at = "idle" /\ Top.why = f.why /\ f.why = "start"
  BY <1>a, CallBecomes DEF IInv, Places, InStart, InStop, Callers
<1>1. TypeOK'
  BY <1>a, <1>b DEF IInv, TypeOK, Becomes, Signals, Statuses, Exits
<1>2. ShapeInv'
  BY <1>a, <1>b DEF IInv, ShapeInv, CallerOK, Becomes, Thread, Waiting, InStart, InStop
<1>3. SignalInv'
  BY <1>a, <1>b DEF IInv, SignalInv, Becomes, Waiting, ShapeInv, CallerOK, Thread
<1>4. PipeInv'
  BY <1>a, <1>b DEF IInv, PipeInv
<1>5. LiveInv'
  BY <1>a, <1>b DEF IInv, TypeOK, LiveInv, Becomes, Lives, InStart, PipeInv, ShapeInv, CallerOK
<1>6. NoOrphans'
  BY <1>a, <1>b DEF IInv, NoOrphans
<1> QED
  BY <1>1, <1>2, <1>3, <1>4, <1>5, <1>6 DEF IInv

LEMMA SetStatusHupInv ==
  ASSUME IInv, SetStatus, Top.why = "hup"
  PROVE  IInv'
<1> USE DEF SetStatus, At, childVars
<1>a. running /\ Top = stack[1] /\ Depth = 0 /\ Active = Top /\ Top.why = "hup"
  BY TopFacts DEF IInv, At
<1>b. Len(stack) = 2 /\ stack' = Tail(stack)
  BY <1>a DEF IInv, ShapeInv, Thread
<1>c. stack' \in Seq(Frame) /\ Len(stack') = 1 /\ stack' # <<>> /\ stack'[1] = stack[2]
  BY <1>a, <1>b, PopFacts DEF IInv
<1>1. TypeOK'
  BY <1>a, <1>b, <1>c DEF IInv, TypeOK, Becomes, Signals, Statuses, Exits
<1>2. ShapeInv'
  BY <1>a, <1>b, <1>c
    DEF IInv, TypeOK, ShapeInv, CallerOK, Becomes, Thread, Waiting, InStart, InStop, Depth, Active, SignalInv
<1>3. SignalInv'
  BY <1>a, <1>b, <1>c
    DEF IInv, SignalInv, Becomes, Waiting, ShapeInv, CallerOK, Thread, InStart, InStop, Depth, Active, TypeOK
<1>4. PipeInv'
  BY <1>a, <1>b, <1>c DEF IInv, PipeInv
<1>5. LiveInv'
  BY <1>a, <1>b, <1>c
    DEF IInv, TypeOK, LiveInv, Becomes, Lives, InStart, PipeInv, ShapeInv, CallerOK, Thread, Waiting, Depth,
         Active, InStop, NoOrphans
<1>6. NoOrphans'
  BY <1>a, <1>b, <1>c DEF IInv, NoOrphans
<1> QED
  BY <1>1, <1>2, <1>3, <1>4, <1>5, <1>6 DEF IInv

LEMMA DeliverChldInv ==
  ASSUME IInv, Deliver("CHLD")
  PROVE  IInv'
<1> USE DEF Deliver, childVars
<1> DEFINE f == [at |-> "chld", why |-> "chld", pid |-> NoChild]
<1>a. f \in Frame /\ f.at = "chld" /\ stack' = <<f>> \o stack
  BY DEF Frame, Places, Callers
<1>b. running /\ Top = stack[1] /\ Depth = 0 /\ Active = Top /\ Len(stack) \in {1, 2}
  BY TopFacts DEF IInv, ShapeInv, SignalInv, Depth
<1>c. /\ stack' \in Seq(Frame) /\ Len(stack') = Len(stack) + 1 /\ stack' # <<>>
      /\ stack'[1] = f /\ stack'[2] = stack[1] /\ (Len(stack) >= 2 => stack'[3] = stack[2])
  BY <1>a, <1>b, PushFacts DEF IInv
<1>d. Depth' = 1 /\ Active' = Active
  BY <1>a, <1>b, <1>c DEF Depth, Active
<1> HIDE DEF f
<1>1. TypeOK'
  BY <1>a, <1>b, <1>c, <1>d DEF IInv, TypeOK, Becomes, Signals, Statuses, Exits
<1>2. ShapeInv'
  BY <1>a, <1>b, <1>c, <1>d DEF IInv, ShapeInv, CallerOK, Depth, Active
<1>3. SignalInv'
  BY <1>a, <1>b, <1>c, <1>d DEF IInv, SignalInv, Depth, Active
<1>4. PipeInv'
  BY <1>a, <1>b, <1>c, <1>d DEF IInv, PipeInv
<1>5. LiveInv'
  BY <1>a, <1>b, <1>c, <1>d DEF IInv, LiveInv, Depth, Active, Lives, InStart
<1>6. NoOrphans'
  BY <1>a, <1>b, <1>c, <1>d DEF IInv, NoOrphans
<1> QED
  BY <1>1, <1>2, <1>3, <1>4, <1>5, <1>6 DEF IInv

LEMMA DeliverStopInv ==
  ASSUME IInv, NEW s \in {"TERM", "HUP"}, Deliver(s)
  PROVE  IInv'
<1> USE DEF Deliver, childVars
<1> DEFINE f == [at |-> "kill", why |-> IF s = "TERM" THEN "term" ELSE "hup", pid |-> NoChild]
<1>a. f \in Frame /\ f.at = "kill" /\ f.why \in {"term", "hup"} /\ stack' = <<f>> \o stack
  BY DEF Frame, Places, Callers, InStop
<1>b. running /\ Top = stack[1] /\ Depth = 0 /\ Active = Top /\ Len(stack) = 1
  BY TopFacts DEF IInv, ShapeInv, SignalInv, Depth
<1>c. stack' \in Seq(Frame) /\ Len(stack') = 2 /\ stack' # <<>> /\ stack'[1] = f /\ stack'[2] = stack[1]
  BY <1>a, <1>b, PushFacts DEF IInv
<1>d. Depth' = 0 /\ Active' = f
  BY <1>a, <1>b, <1>c DEF Depth, Active
<1> HIDE DEF f
<1>1. TypeOK'
  BY <1>a, <1>b, <1>c, <1>d DEF IInv, TypeOK, Becomes, Signals, Statuses, Exits
<1>2. ShapeInv'
  BY <1>a, <1>b, <1>c, <1>d
    DEF IInv, TypeOK, ShapeInv, CallerOK, Becomes, Thread, Waiting, InStart, InStop, Depth, Active, SignalInv
<1>3. SignalInv'
  BY <1>a, <1>b, <1>c, <1>d DEF IInv, SignalInv, Depth, Active
<1>4. PipeInv'
  BY <1>a, <1>b, <1>c, <1>d DEF IInv, PipeInv
<1>5. LiveInv'
  <2>1. Active.at \notin InStart
    BY <1>b DEF IInv, SignalInv, InStart, Waiting
  <2>2. Active'.at = "kill"
    BY <1>a, <1>d
  <2>3. \A c \in Children : Lives(c) => child[c] = "up" /\ c = master /\ status = "running"
    BY <1>b, <2>1 DEF IInv, LiveInv
  <2>4. \A c \in Children : Lives(c)' => child'[c] = "up" /\ c = master' /\ status' = "running"
    BY <2>3 DEF Lives
  <2> QED
    BY <2>2, <2>4 DEF LiveInv, InStart
<1>6. NoOrphans'
  BY <1>a, <1>b, <1>c, <1>d DEF IInv, NoOrphans
<1> QED
  BY <1>1, <1>2, <1>3, <1>4, <1>5, <1>6 DEF IInv

LEMMA CatchSigChildInv ==
  ASSUME IInv, CatchSigChild
  PROVE  IInv'
<1> USE DEF CatchSigChild, At, PrExit, NoChildren
<1>a. running /\ Top = stack[1] /\ Depth = 1 /\ Len(stack) \in {2, 3} /\ Active = stack[2]
  BY TopFacts DEF IInv, At, Depth, Active, ShapeInv
<1>b. /\ stack' \in Seq(Frame) /\ Len(stack') = Len(stack) - 1 /\ stack' # <<>>
      /\ stack'[1] = stack[2] /\ (Len(stack) >= 3 => stack'[2] = stack[3])
  BY <1>a, PopFacts DEF IInv
<1>c. Depth' = 0 /\ Active' = Active
  BY <1>a, <1>b DEF Depth, Active, IInv, ShapeInv, CallerOK
<1>1. TypeOK'
  BY <1>a, <1>b, <1>c DEF IInv, TypeOK, Becomes, Signals, Statuses, Exits
<1>2. ShapeInv'
  BY <1>a, <1>b, <1>c DEF IInv, ShapeInv, CallerOK, Depth, Active
<1>3. SignalInv'
  BY <1>a, <1>b, <1>c DEF IInv, SignalInv, Depth, Active
<1>4. PipeInv'
  BY <1>a, <1>b, <1>c DEF IInv, TypeOK, PipeInv
<1>5. LiveInv'
  BY <1>a, <1>b, <1>c DEF IInv, TypeOK, LiveInv, Becomes, Lives, InStart
<1>6. NoOrphans'
  BY <1>a, <1>b, <1>c DEF IInv, NoOrphans
<1> QED
  BY <1>1, <1>2, <1>3, <1>4, <1>5, <1>6 DEF IInv

LEMMA PortOpensInv ==
  ASSUME IInv, OpenPort, cmdPort = "open"
  PROVE  IInv'
<1> USE DEF OpenPort, At, childVars
<1>a. running /\ Top = stack[1] /\ Top \in Frame /\ Depth = 0 /\ Active = Top
  BY TopFacts DEF IInv, At
<1>b. PICK f \in Frame : Becomes(f) /\ ((f.at = "idle" /\ f.why = "first") \/ (f.at = "kill" /\ f.why = "end"))
  BY <1>a, CallBecomes DEF IInv, Places, InStart, InStop, Callers
<1>1. TypeOK'
  BY <1>a, <1>b DEF IInv, TypeOK, Becomes, Signals, Statuses, Exits
<1>2. ShapeInv'
  BY <1>a, <1>b DEF IInv, ShapeInv, CallerOK, Becomes, Thread, Waiting, InStart, InStop
<1>3. SignalInv'
  BY <1>a, <1>b DEF IInv, SignalInv, Becomes, Waiting, ShapeInv, CallerOK, Thread
<1>4. PipeInv'
  BY <1>a, <1>b DEF IInv, PipeInv
<1>5. LiveInv'
  BY <1>a, <1>b DEF IInv, TypeOK, LiveInv, Becomes, Lives, InStart
<1>6. NoOrphans'
  BY <1>a, <1>b DEF IInv, NoOrphans
<1> QED
  BY <1>1, <1>2, <1>3, <1>4, <1>5, <1>6 DEF IInv

LEMMA ServeFailsInv ==
  ASSUME IInv, ServeFails
  PROVE  IInv'
<1> USE DEF ServeFails, At, childVars
<1>a. running /\ Top = stack[1] /\ Top \in Frame /\ Depth = 0 /\ Active = Top
  BY TopFacts DEF IInv, At
<1>b. PICK f \in Frame : Becomes(f) /\ ((f.at = "kill" /\ f.why = "end"))
  BY <1>a, CallBecomes DEF IInv, Places, InStart, InStop, Callers
<1>1. TypeOK'
  BY <1>a, <1>b DEF IInv, TypeOK, Becomes, Signals, Statuses, Exits
<1>2. ShapeInv'
  BY <1>a, <1>b DEF IInv, ShapeInv, CallerOK, Becomes, Thread, Waiting, InStart, InStop
<1>3. SignalInv'
  BY <1>a, <1>b DEF IInv, SignalInv, Becomes, Waiting, ShapeInv, CallerOK, Thread
<1>4. PipeInv'
  BY <1>a, <1>b DEF IInv, PipeInv
<1>5. LiveInv'
  BY <1>a, <1>b DEF IInv, TypeOK, LiveInv, Becomes, Lives, InStart
<1>6. NoOrphans'
  BY <1>a, <1>b DEF IInv, NoOrphans
<1> QED
  BY <1>1, <1>2, <1>3, <1>4, <1>5, <1>6 DEF IInv

LEMMA CmdStartInv ==
  ASSUME IInv, CmdStart
  PROVE  IInv'
<1> USE DEF CmdStart, At, Command, childVars
<1>a. running /\ Top = stack[1] /\ Top \in Frame /\ Depth = 0 /\ Active = Top
  BY TopFacts DEF IInv, At
<1>b. PICK f \in Frame : Becomes(f) /\ ((f.at = "fork" /\ f.why = "start"))
  BY <1>a, CallBecomes DEF IInv, Places, InStart, InStop, Callers
<1>1. TypeOK'
  BY <1>a, <1>b, DaemonAssumption DEF IInv, TypeOK, Becomes, ShapeInv, LiveInv, Signals, Statuses, Exits, Frame
<1>2. ShapeInv'
  BY <1>a, <1>b DEF IInv, ShapeInv, CallerOK, Becomes, Thread, Waiting, InStart, InStop
<1>3. SignalInv'
  BY <1>a, <1>b DEF IInv, SignalInv, Becomes, Waiting, ShapeInv, CallerOK, Thread
<1>4. PipeInv'
  BY <1>a, <1>b DEF IInv, PipeInv
<1>5. LiveInv'
  BY <1>a, <1>b DEF IInv, TypeOK, LiveInv, Becomes, Lives, InStart
<1>6. NoOrphans'
  BY <1>a, <1>b DEF IInv, NoOrphans
<1> QED
  BY <1>1, <1>2, <1>3, <1>4, <1>5, <1>6 DEF IInv

LEMMA CmdStopNowInv ==
  ASSUME IInv, CmdStopNow
  PROVE  IInv'
<1> USE DEF CmdStopNow, At, Command, childVars
<1>a. running /\ Top = stack[1] /\ Top \in Frame /\ Depth = 0 /\ Active = Top
  BY TopFacts DEF IInv, At
<1>b. PICK f \in Frame : Becomes(f) /\ ((f.at = "kill" /\ f.why = "stopNow"))
  BY <1>a, CallBecomes DEF IInv, Places, InStart, InStop, Callers
<1>1. TypeOK'
  BY <1>a, <1>b, DaemonAssumption DEF IInv, TypeOK, Becomes, ShapeInv, LiveInv, Signals, Statuses, Exits, Frame
<1>2. ShapeInv'
  BY <1>a, <1>b DEF IInv, ShapeInv, CallerOK, Becomes, Thread, Waiting, InStart, InStop
<1>3. SignalInv'
  BY <1>a, <1>b DEF IInv, SignalInv, Becomes, Waiting, ShapeInv, CallerOK, Thread
<1>4. PipeInv'
  BY <1>a, <1>b DEF IInv, PipeInv
<1>5. LiveInv'
  BY <1>a, <1>b DEF IInv, TypeOK, LiveInv, Becomes, Lives, InStart
<1>6. NoOrphans'
  BY <1>a, <1>b DEF IInv, NoOrphans
<1> QED
  BY <1>1, <1>2, <1>3, <1>4, <1>5, <1>6 DEF IInv

LEMMA CmdExitInv ==
  ASSUME IInv, CmdExit
  PROVE  IInv'
<1> USE DEF CmdExit, At, Command, childVars
<1>a. running /\ Top = stack[1] /\ Top \in Frame /\ Depth = 0 /\ Active = Top
  BY TopFacts DEF IInv, At
<1>b. PICK f \in Frame : Becomes(f) /\ ((f.at = "kill" /\ f.why = "exit"))
  BY <1>a, CallBecomes DEF IInv, Places, InStart, InStop, Callers
<1>1. TypeOK'
  BY <1>a, <1>b, DaemonAssumption DEF IInv, TypeOK, Becomes, ShapeInv, LiveInv, Signals, Statuses, Exits, Frame
<1>2. ShapeInv'
  BY <1>a, <1>b DEF IInv, ShapeInv, CallerOK, Becomes, Thread, Waiting, InStart, InStop
<1>3. SignalInv'
  BY <1>a, <1>b DEF IInv, SignalInv, Becomes, Waiting, ShapeInv, CallerOK, Thread
<1>4. PipeInv'
  BY <1>a, <1>b DEF IInv, PipeInv
<1>5. LiveInv'
  BY <1>a, <1>b DEF IInv, TypeOK, LiveInv, Becomes, Lives, InStart
<1>6. NoOrphans'
  BY <1>a, <1>b DEF IInv, NoOrphans
<1> QED
  BY <1>1, <1>2, <1>3, <1>4, <1>5, <1>6 DEF IInv

LEMMA PauseInv ==
  ASSUME IInv, Pause
  PROVE  IInv'
<1> USE DEF Pause, At, childVars
<1>a. running /\ Top = stack[1] /\ Top \in Frame /\ Depth = 0 /\ Active = Top
  BY TopFacts DEF IInv, At
<1>b. PICK f \in Frame : Becomes(f) /\ f.at = "check" /\ f.why = Top.why /\ f.pid = Top.pid
  BY <1>a, GotoBecomes DEF IInv, Places, InStart, InStop
<1>1. TypeOK'
  BY <1>a, <1>b DEF IInv, TypeOK, Becomes, Signals, Statuses, Exits
<1>2. ShapeInv'
  BY <1>a, <1>b DEF IInv, ShapeInv, CallerOK, Becomes, Thread, Waiting, InStart, InStop
<1>3. SignalInv'
  BY <1>a, <1>b DEF IInv, SignalInv, Becomes, Waiting, ShapeInv, CallerOK, Thread
<1>4. PipeInv'
  BY <1>a, <1>b DEF IInv, PipeInv
<1>5. LiveInv'
  BY <1>a, <1>b DEF IInv, TypeOK, LiveInv, Becomes, Lives, InStart
<1>6. NoOrphans'
  BY <1>a, <1>b DEF IInv, NoOrphans
<1> QED
  BY <1>1, <1>2, <1>3, <1>4, <1>5, <1>6 DEF IInv

LEMMA CheckGoesOnInv ==
  ASSUME IInv, Check, running'
  PROVE  IInv'
<1> USE DEF Check, At, Exit, childVars
<1>a. running /\ Top = stack[1] /\ Top \in Frame /\ Depth = 0 /\ Active = Top
  BY TopFacts DEF IInv, At
<1>b. PICK f \in Frame : /\ Becomes(f)
                        /\ \/ status = "restart" /\ f.at = "fork" /\ f.why = "again"
                           \/ status = "running" /\ f.at = "pause" /\ f.why = Top.why
  BY <1>a, CallBecomes, GotoBecomes DEF IInv, Places, InStart, InStop, Callers
<1>1. TypeOK'
  BY <1>a, <1>b DEF IInv, TypeOK, Becomes, Signals, Statuses, Exits
<1>2. ShapeInv'
  BY <1>a, <1>b DEF IInv, ShapeInv, CallerOK, Becomes, Thread, Waiting, InStart, InStop
<1>3. SignalInv'
  BY <1>a, <1>b DEF IInv, SignalInv, Becomes, Waiting, ShapeInv, CallerOK, Thread
<1>4. PipeInv'
  BY <1>a, <1>b DEF IInv, PipeInv
<1>5. LiveInv'
  BY <1>a, <1>b DEF IInv, TypeOK, LiveInv, Becomes, Lives, InStart
<1>6. NoOrphans'
  BY <1>a, <1>b DEF IInv, NoOrphans
<1> QED
  BY <1>1, <1>2, <1>3, <1>4, <1>5, <1>6 DEF IInv

LEMMA ChildRunsInv ==
  ASSUME IInv, NEW c \in Children, ChildRuns(c)
  PROVE  IInv'
<1> USE DEF ChildRuns, daemonVars
<1>1. TypeOK'
  BY DEF IInv, TypeOK, Becomes, Signals, Statuses, Exits
<1>2. ShapeInv'
  BY DEF IInv, ShapeInv, CallerOK, Depth, Active
<1>3. SignalInv'
  BY DEF IInv, SignalInv, Depth, Active
<1>4. PipeInv'
  BY DEF IInv, TypeOK, PipeInv
<1>5. LiveInv'
  BY DEF IInv, TypeOK, LiveInv, Becomes, Lives, InStart, PipeInv, ShapeInv, CallerOK, Thread, Waiting, Depth,
         Active, InStop, NoOrphans
<1>6. NoOrphans'
  BY DEF IInv, NoOrphans
<1> QED
  BY <1>1, <1>2, <1>3, <1>4, <1>5, <1>6 DEF IInv

LEMMA ChildCannotRunInv ==
  ASSUME IInv, NEW c \in Children, ChildCannotRun(c)
  PROVE  IInv'
<1> USE DEF ChildCannotRun, Ends, daemonVars
<1>1. TypeOK'
  BY DEF IInv, TypeOK, Becomes, Signals, Statuses, Exits
<1>2. ShapeInv'
  BY DEF IInv, ShapeInv, CallerOK, Depth, Active
<1>3. SignalInv'
  BY DEF IInv, SignalInv, Depth, Active
<1>4. PipeInv'
  BY DEF IInv, TypeOK, PipeInv
<1>5. LiveInv'
  BY DEF IInv, LiveInv, Depth, Active, Lives, InStart
<1>6. NoOrphans'
  BY DEF IInv, NoOrphans
<1> QED
  BY <1>1, <1>2, <1>3, <1>4, <1>5, <1>6 DEF IInv

LEMMA ChildFailsInv ==
  ASSUME IInv, NEW c \in Children, ChildFails(c)
  PROVE  IInv'
<1> USE DEF ChildFails, Ends, daemonVars
<1>1. TypeOK'
  BY DEF IInv, TypeOK, Becomes, Signals, Statuses, Exits
<1>2. ShapeInv'
  BY DEF IInv, ShapeInv, CallerOK, Depth, Active
<1>3. SignalInv'
  BY DEF IInv, SignalInv, Depth, Active
<1>4. PipeInv'
  BY DEF IInv, PipeInv
<1>5. LiveInv'
  BY DEF IInv, LiveInv, Depth, Active, Lives, InStart
<1>6. NoOrphans'
  BY DEF IInv, NoOrphans
<1> QED
  BY <1>1, <1>2, <1>3, <1>4, <1>5, <1>6 DEF IInv

LEMMA ChildObeysInv ==
  ASSUME IInv, NEW c \in Children, ChildObeys(c)
  PROVE  IInv'
<1> USE DEF ChildObeys, Ends, daemonVars
<1>1. TypeOK'
  BY DEF IInv, TypeOK, Becomes, Signals, Statuses, Exits
<1>2. ShapeInv'
  BY DEF IInv, ShapeInv, CallerOK, Depth, Active
<1>3. SignalInv'
  BY DEF IInv, SignalInv, Depth, Active
<1>4. PipeInv'
  BY DEF IInv, TypeOK, PipeInv
<1>5. LiveInv'
  <2>1. Depth' = Depth /\ Active' = Active /\ ~Lives(c)' /\ Active'.at = Active.at /\ Active'.pid = Active.pid
    BY DEF IInv, TypeOK, Depth, Active, Lives
  <2>2. \A d \in Children : Lives(d)' => Lives(d) /\ child'[d] = child[d]
    BY <2>1 DEF IInv, TypeOK, Lives
  <2> QED
    BY <2>1, <2>2 DEF IInv, LiveInv
<1>6. NoOrphans'
  BY DEF IInv, NoOrphans
<1> QED
  BY <1>1, <1>2, <1>3, <1>4, <1>5, <1>6 DEF IInv

LEMMA ChildCrashesInv ==
  ASSUME IInv, NEW c \in Children, ChildCrashes(c)
  PROVE  IInv'
<1> USE DEF ChildCrashes, Ends, daemonVars
<1>1. TypeOK'
  BY DEF IInv, TypeOK, Becomes, Signals, Statuses, Exits
<1>2. ShapeInv'
  BY DEF IInv, ShapeInv, CallerOK, Depth, Active
<1>3. SignalInv'
  BY DEF IInv, SignalInv, Depth, Active
<1>4. PipeInv'
  BY DEF IInv, PipeInv
<1>5. LiveInv'
  BY DEF IInv, LiveInv, Depth, Active, Lives, InStart
<1>6. NoOrphans'
  BY DEF IInv, NoOrphans
<1> QED
  BY <1>1, <1>2, <1>3, <1>4, <1>5, <1>6 DEF IInv

LEMMA SignalDaemonInv ==
  ASSUME IInv, NEW s \in {"TERM", "HUP"}, QuietSignals, SignalDaemon(s)
  PROVE  IInv'
<1> USE DEF SignalDaemon, Quiet, childVars
<1>a. running /\ Top = stack[1] /\ Depth = 0 /\ Active = Top
  BY TopFacts DEF IInv, Depth
<1>1. TypeOK'
  BY <1>a, DaemonAssumption DEF IInv, TypeOK, Becomes, ShapeInv, LiveInv, Signals, Statuses, Exits, Frame
<1>2. ShapeInv'
  BY <1>a DEF IInv, ShapeInv, CallerOK, Depth, Active
<1>3. SignalInv'
  BY <1>a
    DEF IInv, SignalInv, Becomes, Waiting, ShapeInv, CallerOK, Thread, InStart, InStop, Depth, Active, TypeOK
<1>4. PipeInv'
  BY <1>a DEF IInv, PipeInv
<1>5. LiveInv'
  BY <1>a DEF IInv, LiveInv, Depth, Active, Lives, InStart
<1>6. NoOrphans'
  BY <1>a DEF IInv, NoOrphans
<1> QED
  BY <1>1, <1>2, <1>3, <1>4, <1>5, <1>6 DEF IInv

LEMMA SignalChildInv ==
  ASSUME IInv, NEW c \in Children, NEW s \in {"TERM", "HUP"}, SignalChild(c, s)
  PROVE  IInv'
<1> USE DEF SignalChild, daemonVars
<1>1. TypeOK'
  BY DaemonAssumption DEF IInv, TypeOK, Becomes, ShapeInv, LiveInv, Signals, Statuses, Exits, Frame
<1>2. ShapeInv'
  BY DEF IInv, ShapeInv, CallerOK, Depth, Active
<1>3. SignalInv'
  BY DEF IInv, SignalInv, Depth, Active
<1>4. PipeInv'
  BY DEF IInv, PipeInv
<1>5. LiveInv'
  BY DEF IInv, LiveInv, Depth, Active, Lives, InStart
<1>6. NoOrphans'
  BY DEF IInv, NoOrphans
<1> QED
  BY <1>1, <1>2, <1>3, <1>4, <1>5, <1>6 DEF IInv

LEMMA StopReturnsInv == ASSUME IInv, StopReturns PROVE IInv'
<1>1. CASE running'
  BY <1>1, StopGoesOnInv
<1>2. CASE ~running'
  <2>1. running /\ Exit /\ pidFile' \in BOOLEAN /\ UNCHANGED <<cmdPort, master, signals, commands>>
    BY <1>2 DEF StopReturns, At, IInv, TypeOK
  <2>2. Active = Top /\ Top.at = "stopped"
    BY <2>1, TopFacts DEF IInv, StopReturns, At
  <2> QED
    BY <2>1, <2>2, ExitInv DEF IInv, TypeOK, LiveInv
<1> QED
  BY <1>1, <1>2

LEMMA OpenPortInv == ASSUME IInv, OpenPort PROVE IInv'
<1>1. CASE cmdPort = "open"
  BY <1>1, PortOpensInv
<1>2. CASE cmdPort # "open"
  BY <1>2, ExitInv DEF OpenPort, At, IInv, TypeOK
<1> QED
  BY <1>1, <1>2

LEMMA StartFailsInv ==
  ASSUME IInv, At("fork") \/ At("read"), \A c \in Children : ~Lives(c), StartFails,
         UNCHANGED <<cmdPort, signals, commands>>
  PROVE  IInv'
<1>1. CASE running'
  BY <1>1, StartGoesOnInv
<1>2. CASE ~running'
  BY <1>2, ExitInv DEF StartFails, At, IInv, TypeOK
<1> QED
  BY <1>1, <1>2

LEMMA ForkInv == ASSUME IInv, Fork PROVE IInv'
<1>1. CASE StartFails
  <2>1. running /\ Active = Top /\ Top.at = "fork"
    BY TopFacts DEF IInv, Fork, At
  <2> QED
    BY <1>1, <2>1, StartFailsInv DEF IInv, Fork, LiveInv
<1>2. CASE ~ StartFails
  BY <1>2, ForkChildInv DEF Fork
<1> QED
  BY <1>1, <1>2

LEMMA ReadInv == ASSUME IInv, Read PROVE IInv'
<1>1. CASE pipe[Top.pid] \in {"fatal", "closed"} /\ StartFails
  <2>1. running /\ Active = Top /\ Top.at = "read"
    BY TopFacts DEF IInv, Read, At
  <2>2. pipe[Top.pid] # "open" /\ Top.pid \in Children /\ \A c \in Children : Lives(c) => c = Top.pid
    BY <2>1 DEF IInv, Read, LiveInv
  <2>3. ~Lives(Top.pid)
    BY <1>1, <2>2 DEF IInv, PipeInv, Lives
  <2> QED
    BY <1>1, <2>2, <2>3, StartFailsInv DEF Read
<1>2. CASE ~(pipe[Top.pid] \in {"fatal", "closed"} /\ StartFails)
  BY <1>2, ReadGoesOnInv DEF Read
<1> QED
  BY <1>1, <1>2

LEMMA CheckInv == ASSUME IInv, Check PROVE IInv'
<1>1. CASE running'
  BY <1>1, CheckGoesOnInv
<1>2. CASE ~running'
  <2>1. /\ running /\ Exit /\ pidFile' \in BOOLEAN /\ UNCHANGED <<cmdPort, master, signals, commands>>
        /\ status # "running"
    BY <1>2 DEF Check, At
  <2>2. Active = Top /\ Top.at = "check"
    BY <2>1, TopFacts DEF IInv, Check, At
  <2> QED
    BY <2>1, <2>2, ExitInv DEF IInv, TypeOK, LiveInv, InStart
<1> QED
  BY <1>1, <1>2

LEMMA NextInv == QuietSignals /\ IInv /\ [Next]_vars => IInv'
<1> SUFFICES ASSUME QuietSignals, IInv, [Next]_vars PROVE IInv'
  OBVIOUS
<1>1. CASE DaemonStep
  <2>1. ASSUME NEW s \in Signals, Deliver(s) PROVE IInv'
    BY <2>1, DeliverChldInv, DeliverStopInv DEF Signals
  <2> QED
    BY <1>1, <2>1, KillInv, ReapedInv, StopReturnsInv, ForkInv, ReadInv, SetPidInv, SetStatusThreadInv,
        SetStatusHupInv,
       CatchSigChildInv, OpenPortInv, PauseInv, CheckInv, ReapInv DEF DaemonStep
<1>2. CASE Environment
  BY <1>2, ServeFailsInv, CmdStartInv, CmdStopNowInv, CmdExitInv, SignalDaemonInv, SignalChildInv,
      ChildCrashesInv
  DEF Environment
<1>3. ASSUME NEW c \in Children, ChildStep(c) PROVE IInv'
  BY <1>3, ChildRunsInv, ChildCannotRunInv, ChildFailsInv, ChildObeysInv DEF ChildStep
<1>4. CASE UNCHANGED vars
  BY <1>4
    DEF IInv, TypeOK, ShapeInv, CallerOK, SignalInv, PipeInv, LiveInv, Lives, NoOrphans, Depth, Active, vars
<1> QED
  BY <1>1, <1>2, <1>3, <1>4 DEF Next

LEMMA SpecInv == QuietSignals => (Spec => []IInv)
<1> SUFFICES ASSUME QuietSignals PROVE Spec => []IInv
  OBVIOUS
<1> QED
  BY InitInv, NextInv, PTL DEF Spec

-----------------------------------------------------------------------------
\* start_master_beslistener(), stop_all_beslisteners(): the types, and a
\* beslistener that serves clients is the one the daemon knows or is starting.
THEOREM ConsistentHolds == QuietSignals => (Spec => []Consistent)
<1>1. IInv => KnownListener
  <2> SUFFICES ASSUME IInv, running, NEW c \in Children, child[c] = "up"
               PROVE  \/ c = master /\ status = "running"
                      \/ \E k \in 1..Len(stack) : stack[k].at \in InStart /\ stack[k].pid = c
    BY DEF KnownListener
  <2>1. Depth + 1 \in 1..Len(stack)
    BY TopFacts DEF IInv, ShapeInv, Depth
  <2>2. CASE Active.at \in InStart
    BY <2>1, <2>2 DEF IInv, LiveInv, Lives, InStart, Active
  <2>3. CASE Active.at \notin InStart
    BY <2>3 DEF IInv, LiveInv, Lives
  <2> QED
    BY <2>2, <2>3
<1>2. IInv => Consistent
  BY <1>1 DEF IInv, Consistent
<1> QED
  BY SpecInv, <1>2, PTL

\* The exits of main(), CatchSigTerm(), CatchSigHup() and execute_command() leave
\* no beslistener behind: the only one that does is start_command_processor()'s,
\* for a port that is not a number.
THEOREM NoOrphansHolds == QuietSignals => (Spec => []NoOrphans)
<1>1. IInv => NoOrphans
  BY DEF IInv
<1> QED
  BY SpecInv, <1>1, PTL
=============================================================================
