-------------------------- MODULE BESRequest_proofs --------------------------
(***************************************************************************)
(* Proofs about BESRequest: whatever a request uses or releases has not    *)
(* been deleted (Consistent), an error ends the answer (ErrorEndsAnswer),  *)
(* the end of a request unlocks what its last command has locked           *)
(* (LastReleases), and release() never looks for a file that is not locked *)
(* if the client defines what it gets (DefinedForTame).                    *)
(***************************************************************************)
EXTENDS BESRequest, FiniteSetTheorems, SequenceTheorems, TLAPS

Parsed == [cmd : Commands, containers : Seq(Objects)]

\* The list of commands and the definitions are sequences of bounded length.
SeqInv ==
  /\ cmds \in Seq(Parsed)
  /\ \A i \in DOMAIN cmds : Len(cmds[i].containers) <= MaxContainers
  /\ \A d \in Defs : Len(defs[d]) <= MaxContainers
  /\ defs \in [Defs -> Seq(Objects)]

\* Where a request is; the commands it has not executed yet point to no
\* container, nor do those that are neither a get nor a define.
PlaceInv ==
  /\ phase = "idle" => cmds = <<>>
  /\ phase \in {"idle", "build"} => next = 0
  /\ phase = "execute" => next \in 1..Len(cmds) + 1
  /\ phase \in {"get", "transmit"} => next \in DOMAIN cmds
  /\ phase = "get" => cmds[next].cmd.op = "get"
  /\ phase \in {"get", "end"} => k > 0
  /\ \A i \in DOMAIN cmds :
       next = 0 \/ i > next \/ (phase = "execute" /\ i >= next) \/ cmds[i].cmd.op \notin {"get", "define"}
         => cmds[i].containers = <<>>

\* A container that is cached knows the name of its own decompressed file.
HeapInv ==
  \A o \in Objects : heap[o] # Freed =>
    /\ heap[o].target \in {NoFile, heap[o].file}
    /\ heap[o].cached = "yes" => heap[o].target = heap[o].file
    /\ heap[o].target # NoFile => heap[o].file \in Compressed

\* What definitions hold, what a get uses, and what will be released exists.
LiveInv ==
  /\ \A d \in Defs : \A o \in ToSet(defs[d]) :
       heap[o] # Freed /\ \A e \in Defs \ {d} : o \notin ToSet(defs[e])
  /\ phase = "get" => \A o \in ToSet(Used) : heap[o] # Freed
  /\ \A o \in ToSet(ToRelease) : heap[o] # Freed

\* What has been sent at each place.
AnswerInv ==
  /\ phase \in {"idle", "build"} => answer = <<>>
  /\ phase \in {"execute", "get", "transmit"} => \A i \in DOMAIN answer : answer[i] = "response"
  /\ phase = "failed" => \A i \in DOMAIN answer : answer[i] \in {"response", "part"}
  /\ phase = "error" =>
       /\ Len(answer) > 0
       /\ \A i \in DOMAIN answer :
            answer[i] \in {"response", "part", "status"} /\ (answer[i] = "status" <=> i = Len(answer))
  /\ ErrorEndsAnswer

\* The locks that nobody will release are those of early; every other locked
\* file is the target of a cached container that is still to be released.
RecordedInv ==
  /\ recorded # {} => cache
  /\ \A f \in recorded \ early : \E i \in DOMAIN ToRelease :
       /\ heap[ToRelease[i]].cached = "yes" /\ heap[ToRelease[i]].target = f
       /\ phase = "end" => i >= k

\* A container that this request has made is locked if it is cached.
MadeInv ==
  phase \in {"execute", "get", "transmit", "failed", "error"} =>
    \A i \in DOMAIN cmds : cmds[i].cmd.op = "define" =>
      \A o \in ToSet(cmds[i].containers) : heap[o].cached = "yes" => heap[o].target \in recorded

\* The containers that a last command has defined are not used yet.
NewInv ==
  cmds # <<>> /\ Last(cmds).cmd.op = "define" => \A o \in ToSet(ToRelease) : heap[o].cached = "unset"

\* What the last command of a tame request gets, the request has defined, from
\* different files.
FreshInv ==
  tame /\ cmds # <<>> /\ Last(cmds).cmd.op = "get" /\ ToRelease # <<>> =>
    /\ \E i \in DOMAIN cmds : cmds[i].cmd.op = "define" /\ cmds[i].containers = ToRelease
    /\ \A i, j \in DOMAIN ToRelease :
         heap[ToRelease[i]].file = heap[ToRelease[j]].file /\ i # j => heap[ToRelease[i]].file \notin Compressed

\* What is still to be released is locked, if the request is tame.
HeldInv ==
  tame /\ phase = "end" =>
    \A i \in DOMAIN ToRelease : i >= k /\ heap[ToRelease[i]].cached = "yes"
              => heap[ToRelease[i]].target \in recorded

\* The child dies of what is undefined.
TameInv == undefined => phase = "dead" /\ ~tame

IInv ==
  /\ TypeOK /\ SeqInv /\ PlaceInv /\ HeapInv /\ LiveInv /\ AnswerInv /\ RecordedInv
  /\ MadeInv /\ NewInv /\ FreshInv /\ HeldInv /\ TameInv
-----------------------------------------------------------------------------
(* Commands and containers *)

\* What the commands of a request name.
LEMMA CommandFacts ==
  ASSUME NEW c \in Commands
  PROVE  /\ c.op = "setContainer" => c.name \in Names /\ c.file \in Files
         /\ c.op = "deleteContainer" => c.name \in Names
         /\ c.op \in {"define", "get", "deleteDefinition"} => c.def \in Defs
         /\ c.op = "define" => \E m \in 1..MaxContainers : c.names \in [1..m -> Names]
BY DEF Commands, Lists

LEMMA ContainerFacts ==
  ASSUME NEW c \in Container
  PROVE  c.file \in Files /\ c.cached \in {"unset", "yes", "no"} /\ c.target \in Files \cup {NoFile}
        /\ c # Freed
BY DEF Container, Freed

\* The elements of a list of objects.
LEMMA Elements ==
  ASSUME NEW os \in Seq(Objects)
  PROVE  /\ Len(os) \in Nat /\ DOMAIN os = 1..Len(os) /\ ToSet(os) \subseteq Objects
         /\ \A i \in DOMAIN os : os[i] \in ToSet(os) /\ os[i] \in Objects
BY DEF ToSet

\* The lists that the invariant speaks of.
LEMMA ListsAre ==
  ASSUME IInv
  PROVE  /\ Len(cmds) \in Nat /\ DOMAIN cmds = 1..Len(cmds)
         /\ cmds # <<>> => Len(cmds) \in DOMAIN cmds /\ ToRelease = cmds[Len(cmds)].containers
         /\ cmds = <<>> => ToRelease = <<>>
         /\ ToRelease \in Seq(Objects) /\ Len(ToRelease) <= MaxContainers
         /\ \A i \in DOMAIN cmds : /\ cmds[i] \in Parsed /\ cmds[i].cmd \in Commands
                                   /\ cmds[i].containers \in Seq(Objects)
                                   /\ cmds[i] = [cmd |-> cmds[i].cmd, containers |-> cmds[i].containers]
<1>1. cmds \in Seq(Parsed) /\ \A i \in DOMAIN cmds : Len(cmds[i].containers) <= MaxContainers
  BY DEF IInv, SeqInv
<1>2. Len(cmds) \in Nat /\ DOMAIN cmds = 1..Len(cmds) /\ (cmds # <<>> => Len(cmds) \in DOMAIN cmds)
  BY <1>1
<1>3. \A i \in DOMAIN cmds : cmds[i] \in Parsed
  BY <1>1
<1>4. \A c \in Parsed : /\ c.cmd \in Commands /\ c.containers \in Seq(Objects)
                        /\ c = [cmd |-> c.cmd, containers |-> c.containers]
  BY DEF Parsed
<1>5. /\ cmds # <<>> => ToRelease = cmds[Len(cmds)].containers
      /\ cmds = <<>> => ToRelease = <<>>
  BY DEF ToRelease, Last
<1>6. ToRelease \in Seq(Objects) /\ Len(ToRelease) <= MaxContainers
  <2>1. CASE cmds = <<>>
    BY <2>1, <1>5, RequestAssumption
  <2>2. CASE cmds # <<>>
    BY <2>2, <1>1, <1>2, <1>3, <1>4, <1>5
  <2> QED
    BY <2>1, <2>2
<1> QED
  BY <1>2, <1>3, <1>4, <1>5, <1>6

\* A command is made to point to containers: the other commands and what they
\* are stay; what will be released changes if the command is the last.
LEMMA PointsTo ==
  ASSUME IInv, NEW i \in DOMAIN cmds, NEW os \in Seq(Objects),
         cmds' = [cmds EXCEPT ![i].containers = os]
  PROVE  /\ cmds' \in Seq(Parsed) /\ Len(cmds') = Len(cmds) /\ DOMAIN cmds' = DOMAIN cmds
         /\ \A j \in DOMAIN cmds : cmds'[j].cmd = cmds[j].cmd
         /\ cmds'[i].containers = os
         /\ \A j \in DOMAIN cmds : j # i => cmds'[j] = cmds[j]
         /\ ToRelease' = IF i = Len(cmds) THEN os ELSE ToRelease
         /\ cmds # <<>> /\ cmds' # <<>> /\ Last(cmds)' = cmds'[Len(cmds)] /\ Last(cmds) = cmds[Len(cmds)]
         /\ Last(cmds)'.cmd = Last(cmds).cmd
<1>1. cmds \in Seq(Parsed)
  BY DEF IInv, SeqInv
<1>2. [cmds[i] EXCEPT !.containers = os] \in Parsed
      /\ [cmds[i] EXCEPT !.containers = os].cmd = cmds[i].cmd
      /\ [cmds[i] EXCEPT !.containers = os].containers = os
  <2>1. cmds[i] \in Parsed
    BY <1>1
  <2> HIDE DEF Parsed
  <2>2. \A c \in Parsed : /\ [c EXCEPT !.containers = os] \in Parsed
                          /\ [c EXCEPT !.containers = os].cmd = c.cmd
                          /\ [c EXCEPT !.containers = os].containers = os
    BY DEF Parsed
  <2> QED
    BY <2>1, <2>2
<1> DEFINE w == [cmds[i] EXCEPT !.containers = os]
<1>3. cmds' = [cmds EXCEPT ![i] = w]
  BY <1>1
<1> HIDE DEF w
<1>4. w \in Parsed /\ w.cmd = cmds[i].cmd /\ w.containers = os
  BY <1>2 DEF w
<1>5. /\ cmds' \in Seq(Parsed) /\ Len(cmds') = Len(cmds) /\ DOMAIN cmds' = DOMAIN cmds
      /\ cmds'[i] = w /\ \A j \in DOMAIN cmds : j # i => cmds'[j] = cmds[j]
  BY <1>1, <1>3, <1>4
<1>6. Len(cmds) \in Nat /\ Len(cmds) \in DOMAIN cmds /\ cmds # <<>> /\ cmds' # <<>>
  BY <1>1, <1>5
<1>7. ToRelease' = cmds'[Len(cmds)].containers /\ ToRelease = cmds[Len(cmds)].containers
  BY <1>5, <1>6 DEF ToRelease, Last
<1> QED
  BY <1>4, <1>5, <1>6, <1>7 DEF Last

\* The list of commands stays, or a command is added to it.
LEMMA Appended ==
  ASSUME IInv, NEW c \in Commands, cmds' = Append(cmds, Command(c))
  PROVE  /\ cmds' \in Seq(Parsed) /\ Len(cmds') = Len(cmds) + 1 /\ ToRelease' = <<>> /\ cmds' # <<>>
         /\ \A j \in DOMAIN cmds : cmds'[j] = cmds[j]
         /\ DOMAIN cmds' = DOMAIN cmds \cup {Len(cmds) + 1}
         /\ cmds'[Len(cmds) + 1].cmd = c /\ cmds'[Len(cmds) + 1].containers = <<>>
<1>1. cmds \in Seq(Parsed) /\ Command(c) \in Parsed /\ Command(c).cmd = c /\ Command(c).containers = <<>>
  BY DEF IInv, SeqInv, Parsed, Command
<1>2. /\ cmds' \in Seq(Parsed) /\ Len(cmds') = Len(cmds) + 1 /\ Len(cmds) \in Nat
      /\ cmds'[Len(cmds) + 1] = Command(c)
      /\ \A j \in DOMAIN cmds : cmds'[j] = cmds[j]
  BY <1>1
<1>3. cmds' # <<>> /\ DOMAIN cmds' = DOMAIN cmds \cup {Len(cmds) + 1}
  BY <1>1, <1>2
<1>4. ToRelease' = <<>>
  BY <1>1, <1>2, <1>3 DEF ToRelease, Last
<1> QED
  BY <1>1, <1>2, <1>3, <1>4

\* ~BESDefine() deletes the containers and no other.
LEMMA Deleted ==
  ASSUME NEW h \in [Objects -> Container \cup {Freed}], NEW os \in SUBSET Objects
  PROVE  /\ Delete(h, os) \in [Objects -> Container \cup {Freed}]
         /\ \A o \in os : Delete(h, os)[o] = Freed
         /\ \A o \in Objects \ os : Delete(h, os)[o] = h[o]
BY DEF Delete

\* The copies are new containers, and nothing else changes.
LEMMA Copied ==
  ASSUME NEW h \in [Objects -> Container \cup {Freed}], NEW os \in Seq(Objects), NEW ns,
         \A i \in DOMAIN os : store[ns[i]] \in Files
  PROVE  LET g == Copies(h, os, ns)
         IN  /\ g \in [Objects -> Container \cup {Freed}]
             /\ \A o \in ToSet(os) : g[o] \in Container /\ g[o].cached = "unset" /\ g[o].target = NoFile
             /\ \A o \in Objects \ ToSet(os) : g[o] = h[o]
<1> DEFINE C(o) == [file |-> store[ns[CHOOSE i \in DOMAIN os : os[i] = o]], cached |-> "unset", target |-> NoFile]
<1>1. \A o \in ToSet(os) : (CHOOSE i \in DOMAIN os : os[i] = o) \in DOMAIN os
  BY DEF ToSet
<1>2. \A o \in ToSet(os) : C(o) \in Container /\ C(o).cached = "unset" /\ C(o).target = NoFile
  BY <1>1 DEF Container
<1>3. ToSet(os) \subseteq Objects
  BY Elements
<1>4. Copies(h, os, ns) = [o \in Objects |-> IF o \in ToSet(os) THEN C(o) ELSE h[o]]
  BY DEF Copies
<1> HIDE DEF C
<1> QED
  BY <1>2, <1>3, <1>4

-----------------------------------------------------------------------------
(* There is always another object to make *)

Pointed == (UNION {ToSet(defs[d]) : d \in Defs}) \cup (UNION {ToSet(cmds[i].containers) : i \in DOMAIN cmds})

\* Sets that lists of a bounded length hold have no more elements than the
\* lists have places.
LEMMA HeldIsBounded ==
  ASSUME NEW S, IsFiniteSet(S), NEW f \in [S -> Seq(Objects)], NEW m \in Nat, \A s \in S : Len(f[s]) <= m
  PROVE  LET H == UNION {ToSet(f[s]) : s \in S}
         IN  IsFiniteSet(H) /\ Cardinality(H) \in Nat /\ Cardinality(H) <= Cardinality(S) * m
<1> DEFINE H == UNION {ToSet(f[s]) : s \in S}
           P == {p \in S \X (1..m) : p[2] \in DOMAIN f[p[1]]}
           g == [p \in P |-> f[p[1]][p[2]]]
<1>1. IsFiniteSet(1..m) /\ Cardinality(1..m) = m
  BY FS_Interval
<1>2. IsFiniteSet(S \X (1..m)) /\ Cardinality(S \X (1..m)) = Cardinality(S) * m
  BY <1>1, FS_Product
<1>3. IsFiniteSet(P) /\ Cardinality(P) <= Cardinality(S) * m
  <2>1. P \in SUBSET (S \X (1..m))
    OBVIOUS
  <2> QED
    BY <1>2, <2>1, FS_Subset
<1>4. \A p \in P : g[p] \in H
  <2> SUFFICES ASSUME NEW p \in P PROVE f[p[1]][p[2]] \in H
    OBVIOUS
  <2>1. p[1] \in S /\ f[p[1]][p[2]] \in ToSet(f[p[1]])
    BY DEF ToSet
  <2> QED
    BY <2>1
<1>5. \A o \in H : \E p \in P : g[p] = o
  <2> SUFFICES ASSUME NEW s \in S, NEW o \in ToSet(f[s]) PROVE \E p \in P : g[p] = o
    OBVIOUS
  <2>1. PICK i \in DOMAIN f[s] : f[s][i] = o
    BY DEF ToSet
  <2>2. i \in 1..m
    <3>1. f[s] \in Seq(Objects) /\ Len(f[s]) \in Nat /\ Len(f[s]) <= m /\ DOMAIN f[s] = 1..Len(f[s])
      OBVIOUS
    <3> QED
      BY <2>1, <3>1
  <2>3. <<s, i>> \in P /\ g[<<s, i>>] = o
    BY <2>1, <2>2
  <2> QED
    BY <2>3
<1> HIDE DEF H, P
<1>6. g \in Surjection(P, H)
  BY <1>4, <1>5 DEF Surjection
<1> HIDE DEF g
<1>7. IsFiniteSet(H) /\ Cardinality(H) <= Cardinality(P)
  BY <1>3, <1>6, FS_Surjection
<1>8. Cardinality(H) \in Nat /\ Cardinality(P) \in Nat /\ Cardinality(S) * m \in Int
  BY <1>3, <1>7, <1>1, FS_CardinalityType
<1>9. IsFiniteSet(H) /\ Cardinality(H) \in Nat /\ Cardinality(H) <= Cardinality(S) * m
  BY <1>3, <1>7, <1>8
<1> QED
  BY <1>9 DEF H

LEMMA Room ==
  ASSUME NEW d \in Nat, NEW c \in Nat, NEW m \in Nat, NEW o \in Nat, NEW a \in Nat, NEW b \in Nat,
         c > 0, o >= m * (c + d), a <= d * m, b <= (c - 1) * m
  PROVE  o - (a + b) >= m
<1>1. m * (c + d) = m * c + m * d /\ (c - 1) * m = m * c - m /\ d * m = m * d
  OBVIOUS
<1>2. m * c \in Int /\ m * d \in Int
  OBVIOUS
<1> QED
  BY <1>1, <1>2

LEMMA MonotoneProduct ==
  ASSUME NEW a \in Nat, NEW b \in Nat, NEW m \in Nat, a <= b
  PROVE  a * m <= b * m
OBVIOUS

\* A command that is being executed, which points to nothing yet, finds as many
\* new objects as it may need.
LEMMA NewIs ==
  ASSUME IInv, next \in DOMAIN cmds, phase = "execute", NEW n \in Nat, n <= MaxContainers
  PROVE  /\ New(n) \in Seq(Objects) /\ Len(New(n)) = n
         /\ \A o \in ToSet(New(n)) : /\ o \in Objects
                                     /\ \A d \in Defs : o \notin ToSet(defs[d])
                                     /\ \A i \in DOMAIN cmds : o \notin ToSet(cmds[i].containers)
<1> DEFINE A == UNION {ToSet(defs[d]) : d \in Defs}
           J == DOMAIN cmds \ {next}
           f == [i \in J |-> cmds[i].containers]
           B == UNION {ToSet(f[i]) : i \in J}
           R == Objects \ Pointed
<1>1. IsFiniteSet(A) /\ Cardinality(A) \in Nat /\ Cardinality(A) <= Cardinality(Defs) * MaxContainers
  BY RequestAssumption, HeldIsBounded DEF IInv, SeqInv
<1>2. DOMAIN cmds = 1..Len(cmds) /\ Len(cmds) \in Nat /\ Len(cmds) <= MaxCommands /\ next \in Nat
  BY ListsAre DEF IInv, TypeOK
<1>3. IsFiniteSet(J) /\ Cardinality(J) = Len(cmds) - 1 /\ Len(cmds) > 0
  <2>1. \A m \in Nat : IsFiniteSet(1..m) /\ Cardinality(1..m) = m
    BY FS_Interval
  <2>2. IsFiniteSet(DOMAIN cmds) /\ Cardinality(DOMAIN cmds) = Len(cmds) /\ Len(cmds) > 0
    BY <1>2, <2>1
  <2>3. IsFiniteSet(DOMAIN cmds \ {next}) /\ Cardinality(DOMAIN cmds \ {next}) = Cardinality(DOMAIN cmds) - 1
    BY <2>2, FS_RemoveElement
  <2> QED
    BY <2>2, <2>3
<1>4. IsFiniteSet(B) /\ Cardinality(B) \in Nat /\ Cardinality(B) <= (Len(cmds) - 1) * MaxContainers
  <2>1. f \in [J -> Seq(Objects)] /\ \A i \in J : Len(f[i]) <= MaxContainers
    BY ListsAre DEF IInv, SeqInv
  <2> HIDE DEF f, J
  <2> QED
    BY <1>3, <2>1, HeldIsBounded, RequestAssumption
<1>5. ToSet(cmds[next].containers) = {}
  <2>1. cmds[next].containers = <<>>
    BY <1>2 DEF IInv, PlaceInv
  <2> QED
    BY <2>1 DEF ToSet
<1>6. Pointed \subseteq A \cup B
  <2> SUFFICES ASSUME NEW i \in DOMAIN cmds, NEW o \in ToSet(cmds[i].containers)
               PROVE  o \in B
    BY DEF Pointed
  <2>1. i \in J /\ f[i] = cmds[i].containers
    BY <1>5
  <2> QED
    BY <2>1
<1>7. /\ IsFiniteSet(Objects) /\ Cardinality(Objects) \in Nat /\ Cardinality(Defs) \in Nat
      /\ MaxContainers \in Nat /\ MaxCommands \in Nat
      /\ Cardinality(Objects) >= MaxContainers * (MaxCommands + Cardinality(Defs))
  BY RequestAssumption, FS_CardinalityType
<1>8. MaxCommands > 0 /\ Cardinality(B) <= (MaxCommands - 1) * MaxContainers
  <2>1. (Len(cmds) - 1) * MaxContainers <= (MaxCommands - 1) * MaxContainers
    BY <1>2, <1>3, <1>7, MonotoneProduct
  <2> HIDE DEF B
  <2>2. (Len(cmds) - 1) * MaxContainers \in Int /\ (MaxCommands - 1) * MaxContainers \in Int
    BY <1>2, <1>7
  <2> QED
    BY <1>2, <1>3, <1>4, <1>7, <2>1, <2>2
<1> HIDE DEF A, B, R
<1>9. Cardinality(Objects) - (Cardinality(A) + Cardinality(B)) >= MaxContainers
  BY <1>1, <1>4, <1>7, <1>8, Room
<1>10. IsFiniteSet(R) /\ Cardinality(R) \in Nat /\ Cardinality(R) >= n
  <2>1. /\ IsFiniteSet(A \cup B) /\ Cardinality(A \cup B) \in Nat
        /\ Cardinality(A \cup B) <= Cardinality(A) + Cardinality(B)
    <3>1. IsFiniteSet(A \cup B)
          /\ Cardinality(A \cup B) = Cardinality(A) + Cardinality(B) - Cardinality(A \cap B)
      BY <1>1, <1>4, FS_Union
    <3>2. Cardinality(A \cap B) \in Nat /\ Cardinality(A \cup B) \in Nat
      <4>1. IsFiniteSet(A \cap B)
        BY <1>1, FS_Intersection, <1>4
      <4> QED
        BY <3>1, <4>1, FS_CardinalityType
    <3> QED
      BY <1>1, <1>4, <3>1, <3>2
  <2>2. /\ IsFiniteSet(Objects \cap (A \cup B)) /\ Cardinality(Objects \cap (A \cup B)) \in Nat
        /\ Cardinality(Objects \cap (A \cup B)) <= Cardinality(A \cup B)
    <3>1. Objects \cap (A \cup B) \in SUBSET (A \cup B)
      OBVIOUS
    <3> QED
      BY <2>1, <3>1, FS_Subset, FS_CardinalityType
  <2>3. /\ IsFiniteSet(Objects \ (A \cup B))
        /\ Cardinality(Objects \ (A \cup B)) = Cardinality(Objects) - Cardinality(Objects \cap (A \cup B))
    BY <1>7, FS_Difference
  <2>4. Objects \ (A \cup B) \in SUBSET R /\ R \in SUBSET Objects
    BY <1>6 DEF R
  <2>5. IsFiniteSet(R) /\ Cardinality(R) \in Nat
    BY <1>7, <2>4, FS_Subset, FS_CardinalityType
  <2>6. Cardinality(Objects \ (A \cup B)) <= Cardinality(R)
    BY <2>4, <2>5, FS_Subset
  <2>7. Cardinality(Objects \ (A \cup B)) \in Nat
    BY <2>3, FS_CardinalityType
  <2> QED
    BY <1>1, <1>4, <1>7, <1>9, <2>1, <2>2, <2>3, <2>5, <2>6, <2>7
<1>11. \E os \in [1..n -> R] : IsInjective(os)
  <2>1. PICK b \in Bijection(1..Cardinality(R), R) : TRUE
    BY <1>10, FS_CardinalityType DEF ExistsBijection
  <2>2. b \in [1..Cardinality(R) -> R] /\ \A i, j \in 1..Cardinality(R) : b[i] = b[j] => i = j
    BY <2>1 DEF Bijection, Injection, Surjection, IsInjective
  <2>3. \A i \in 1..n : i \in 1..Cardinality(R)
    BY <1>10
  <2>4. [i \in 1..n |-> b[i]] \in [1..n -> R] /\ IsInjective([i \in 1..n |-> b[i]])
    BY <2>2, <2>3 DEF IsInjective
  <2> QED
    BY <2>4
<1>12. New(n) \in [1..n -> R]
  <2>1. New(n) = CHOOSE os \in [1..n -> R] : IsInjective(os)
    BY DEF New, R, Pointed
  <2> QED
    BY <1>11, <2>1
<1>13. R \subseteq Objects
  BY DEF R
<1>14. New(n) \in Seq(Objects) /\ Len(New(n)) = n /\ DOMAIN New(n) = 1..n
  BY <1>12, <1>13
<1>15. \A o \in ToSet(New(n)) : o \in R
  BY <1>12, <1>14 DEF ToSet
<1> QED
  BY <1>14, <1>15 DEF R, Pointed

\* While there is something to use or to release, k is not 0.
LEMMA KPositive ==
  ASSUME IInv
  PROVE  phase \in {"get", "end"} => k \in Nat /\ k > 0
BY DEF IInv, TypeOK, PlaceInv

\* When the end begins, everything cached that a tame request releases is
\* locked.
LEMMA HeldAtEnd ==
  ASSUME IInv, phase \in {"execute", "error"}, tame, NEW i \in DOMAIN ToRelease, heap[ToRelease[i]].cached = "yes"
  PROVE  heap[ToRelease[i]].target \in recorded
<1>1. ToRelease # <<>> /\ cmds # <<>> /\ ToRelease[i] \in ToSet(ToRelease)
  BY ListsAre, Elements
<1>2. Last(cmds).cmd.op \in {"get", "define"}
  BY <1>1, ListsAre DEF IInv, PlaceInv, Last
<1>3. Last(cmds).cmd.op # "define"
  BY <1>1 DEF IInv, NewInv
<1>4. PICK j \in DOMAIN cmds : cmds[j].cmd.op = "define" /\ cmds[j].containers = ToRelease
  BY <1>1, <1>2, <1>3 DEF IInv, FreshInv
<1> QED
  BY <1>1, <1>4 DEF IInv, MadeInv

\* An answer to which one or two parts are added.
LEMMA Concatenated ==
  ASSUME NEW a \in Seq({"response", "part", "status", "error"}), NEW x \in {"part", "error"}
  PROVE  /\ a \o <<x>> \in Seq({"response", "part", "status", "error"})
         /\ Len(a \o <<x>>) = Len(a) + 1 /\ (a \o <<x>>)[Len(a) + 1] = x
         /\ \A i \in 1..Len(a) : (a \o <<x>>)[i] = a[i]
         /\ a \o <<x, "error">> \in Seq({"response", "part", "status", "error"})
         /\ Len(a \o <<x, "error">>) = Len(a) + 2
         /\ (a \o <<x, "error">>)[Len(a) + 1] = x /\ (a \o <<x, "error">>)[Len(a) + 2] = "error"
         /\ \A i \in 1..Len(a) : (a \o <<x, "error">>)[i] = a[i]
<1>1. /\ <<x>> \in Seq({"response", "part", "status", "error"}) /\ Len(<<x>>) = 1
      /\ <<x, "error">> \in Seq({"response", "part", "status", "error"}) /\ Len(<<x, "error">>) = 2
  OBVIOUS
<1> QED
  BY <1>1

LEMMA ParsedAre ==
  \A s \in Seq(Parsed) : \A i \in DOMAIN s : s[i].cmd \in Commands /\ s[i].containers \in Seq(Objects)
<1>1. \A c \in Parsed : c.cmd \in Commands /\ c.containers \in Seq(Objects)
  BY DEF Parsed
<1>2. \A s \in Seq(Parsed) : \A i \in DOMAIN s : s[i] \in Parsed
  OBVIOUS
<1> QED
  BY <1>1, <1>2

-----------------------------------------------------------------------------
(* The invariant is kept by each action *)

LEMMA ReceiveInv ==
  ASSUME IInv, Receive
  PROVE  IInv'
<1> USE DEF Receive, histVars
<1>r. ToRelease' = ToRelease /\ Last(cmds)' = Last(cmds) /\ cmds' = cmds
  BY DEF ToRelease, Last
<1>1. TypeOK'
  BY <1>r, ListsAre, CommandFacts, RequestAssumption DEF IInv, TypeOK, SeqInv, PlaceInv, Parsed, Command
<1>2. SeqInv'
  BY <1>r DEF IInv, SeqInv
<1>3. PlaceInv'
  BY <1>r DEF IInv, PlaceInv
<1>4. HeapInv'
  BY <1>r DEF IInv, HeapInv
<1>5. LiveInv'
  BY <1>r DEF IInv, LiveInv
<1>6. AnswerInv'
  BY <1>r DEF IInv, AnswerInv, ErrorEndsAnswer
<1>7. RecordedInv'
  BY <1>r DEF IInv, RecordedInv
<1>8. MadeInv'
  BY <1>r DEF IInv, MadeInv
<1>9. NewInv'
  BY <1>r DEF IInv, NewInv
<1>10. FreshInv'
  BY <1>r DEF IInv, FreshInv
<1>11. HeldInv'
  BY <1>r DEF IInv, HeldInv
<1>12. TameInv'
  BY <1>r DEF IInv, TameInv
<1> QED
  BY <1>1, <1>2, <1>3, <1>4, <1>5, <1>6, <1>7, <1>8, <1>9, <1>10, <1>11, <1>12 DEF IInv

LEMMA BuildFailsInv ==
  ASSUME IInv, BuildFails
  PROVE  IInv'
<1> USE DEF BuildFails, childVars, histVars
<1>r. ToRelease' = ToRelease /\ Last(cmds)' = Last(cmds) /\ cmds' = cmds
  BY DEF ToRelease, Last
<1>1. TypeOK'
  BY <1>r DEF IInv, TypeOK
<1>2. SeqInv'
  BY <1>r DEF IInv, SeqInv
<1>3. PlaceInv'
  BY <1>r DEF IInv, PlaceInv
<1>4. HeapInv'
  BY <1>r DEF IInv, HeapInv
<1>5. LiveInv'
  BY <1>r DEF IInv, LiveInv
<1>6. AnswerInv'
  BY <1>r DEF IInv, AnswerInv, ErrorEndsAnswer
<1>7. RecordedInv'
  BY <1>r DEF IInv, RecordedInv
<1>8. MadeInv'
  BY <1>r, ListsAre, Elements, ContainerFacts DEF IInv, MadeInv, PlaceInv, Freed, HeapInv, ToSet
<1>9. NewInv'
  BY <1>r DEF IInv, NewInv
<1>10. FreshInv'
  BY <1>r DEF IInv, FreshInv
<1>11. HeldInv'
  BY <1>r DEF IInv, HeldInv
<1>12. TameInv'
  BY <1>r DEF IInv, TameInv
<1> QED
  BY <1>1, <1>2, <1>3, <1>4, <1>5, <1>6, <1>7, <1>8, <1>9, <1>10, <1>11, <1>12 DEF IInv

LEMMA BuiltInv ==
  ASSUME IInv, Built
  PROVE  IInv'
<1> USE DEF Built, childVars, histVars
<1>r. ToRelease' = ToRelease /\ Last(cmds)' = Last(cmds) /\ cmds' = cmds
  BY DEF ToRelease, Last
<1>1. TypeOK'
  BY <1>r, ListsAre, CommandFacts, RequestAssumption DEF IInv, TypeOK, SeqInv, PlaceInv, Parsed, Command
<1>2. SeqInv'
  BY <1>r DEF IInv, SeqInv
<1>3. PlaceInv'
  BY <1>r DEF IInv, PlaceInv
<1>4. HeapInv'
  BY <1>r DEF IInv, HeapInv
<1>5. LiveInv'
  BY <1>r DEF IInv, LiveInv
<1>6. AnswerInv'
  BY <1>r DEF IInv, AnswerInv, ErrorEndsAnswer
<1>7. RecordedInv'
  BY <1>r DEF IInv, RecordedInv
<1>8. MadeInv'
  BY <1>r, ListsAre, Elements, ContainerFacts DEF IInv, MadeInv, PlaceInv, Freed, HeapInv, ToSet
<1>9. NewInv'
  BY <1>r DEF IInv, NewInv
<1>10. FreshInv'
  BY <1>r DEF IInv, FreshInv
<1>11. HeldInv'
  BY <1>r DEF IInv, HeldInv
<1>12. TameInv'
  BY <1>r DEF IInv, TameInv
<1> QED
  BY <1>1, <1>2, <1>3, <1>4, <1>5, <1>6, <1>7, <1>8, <1>9, <1>10, <1>11, <1>12 DEF IInv

LEMMA AccessedInv ==
  ASSUME IInv, Accessed
  PROVE  IInv'
<1> USE DEF Accessed, childVars, histVars
<1>r. ToRelease' = ToRelease /\ Last(cmds)' = Last(cmds) /\ cmds' = cmds
  BY DEF ToRelease, Last
<1>1. TypeOK'
  BY <1>r DEF IInv, TypeOK
<1>2. SeqInv'
  BY <1>r DEF IInv, SeqInv
<1>3. PlaceInv'
  BY <1>r DEF IInv, PlaceInv
<1>4. HeapInv'
  BY <1>r DEF IInv, HeapInv
<1>5. LiveInv'
  BY <1>r DEF IInv, LiveInv
<1>6. AnswerInv'
  BY <1>r DEF IInv, AnswerInv, ErrorEndsAnswer
<1>7. RecordedInv'
  BY <1>r DEF IInv, RecordedInv
<1>8. MadeInv'
  BY <1>r DEF IInv, MadeInv
<1>9. NewInv'
  BY <1>r DEF IInv, NewInv
<1>10. FreshInv'
  BY <1>r DEF IInv, FreshInv
<1>11. HeldInv'
  BY <1>r DEF IInv, HeldInv
<1>12. TameInv'
  BY <1>r DEF IInv, TameInv
<1> QED
  BY <1>1, <1>2, <1>3, <1>4, <1>5, <1>6, <1>7, <1>8, <1>9, <1>10, <1>11, <1>12 DEF IInv

LEMMA HandlerFailsInv ==
  ASSUME IInv, HandlerFails
  PROVE  IInv'
<1> USE DEF HandlerFails, childVars, histVars, Throws
<1>r. ToRelease' = ToRelease /\ Last(cmds)' = Last(cmds) /\ cmds' = cmds
  BY DEF ToRelease, Last
<1>1. TypeOK'
  BY <1>r DEF IInv, TypeOK
<1>2. SeqInv'
  BY <1>r DEF IInv, SeqInv
<1>3. PlaceInv'
  BY <1>r DEF IInv, PlaceInv
<1>4. HeapInv'
  BY <1>r DEF IInv, HeapInv
<1>5. LiveInv'
  BY <1>r DEF IInv, LiveInv
<1>6. AnswerInv'
  BY <1>r DEF IInv, AnswerInv, ErrorEndsAnswer
<1>7. RecordedInv'
  BY <1>r DEF IInv, RecordedInv
<1>8. MadeInv'
  BY <1>r DEF IInv, MadeInv
<1>9. NewInv'
  BY <1>r DEF IInv, NewInv
<1>10. FreshInv'
  BY <1>r DEF IInv, FreshInv
<1>11. HeldInv'
  BY <1>r DEF IInv, HeldInv
<1>12. TameInv'
  BY <1>r DEF IInv, TameInv
<1> QED
  BY <1>1, <1>2, <1>3, <1>4, <1>5, <1>6, <1>7, <1>8, <1>9, <1>10, <1>11, <1>12 DEF IInv

LEMMA TransmitInv ==
  ASSUME IInv, Transmit
  PROVE  IInv'
<1> USE DEF Transmit, childVars, histVars, Throws
<1>r. ToRelease' = ToRelease /\ Last(cmds)' = Last(cmds) /\ cmds' = cmds
  BY DEF ToRelease, Last
<1>1. TypeOK'
  <2>1. store' \in [Names -> Files \cup {NoFile}]
    BY <1>r DEF IInv, TypeOK
  <2>2. \A d \in Defs : defs'[d] \in Seq(Objects)
    BY <1>r DEF IInv, TypeOK
  <2>3. heap' \in [Objects -> Container \cup {Freed}]
    BY <1>r DEF IInv, TypeOK
  <2>4. requests' \in 0..MaxRequests
    BY <1>r DEF IInv, TypeOK
  <2>5. phase' \in {"idle", "build", "execute", "get", "transmit", "failed", "error", "end", "dead"}
    BY <1>r DEF IInv, TypeOK
  <2>6. Len(cmds') <= MaxCommands
    BY <1>r DEF IInv, TypeOK
  <2>7. \A i \in DOMAIN cmds' : cmds'[i].cmd \in Commands /\ cmds'[i].containers \in Seq(Objects)
    BY <1>r DEF IInv, TypeOK
  <2>8. next' \in 0..MaxCommands + 1
    BY <1>r, ListsAre, RequestAssumption DEF IInv, TypeOK, PlaceInv
  <2>9. k' \in 0..MaxContainers + 1
    BY <1>r DEF IInv, TypeOK
  <2>10. undefined' \in BOOLEAN /\ tame' \in BOOLEAN /\ early' \subseteq Compressed
    BY <1>r DEF IInv, TypeOK
  <2>11. answer' \in Seq({"response", "part", "status", "error"})
    BY <1>r DEF IInv, TypeOK
  <2>12. cache' \in BOOLEAN /\ recorded' \subseteq Compressed
    BY <1>r DEF IInv, TypeOK
  <2>13. hasResponse' \in BOOLEAN
    BY <1>r DEF IInv, TypeOK
  <2> QED
    BY <2>1, <2>2, <2>3, <2>4, <2>5, <2>6, <2>7, <2>8, <2>9, <2>10, <2>11, <2>12, <2>13 DEF TypeOK
<1>2. SeqInv'
  BY <1>r DEF IInv, SeqInv
<1>3. PlaceInv'
  BY <1>r DEF IInv, PlaceInv
<1>4. HeapInv'
  BY <1>r DEF IInv, HeapInv
<1>5. LiveInv'
  BY <1>r DEF IInv, LiveInv
<1>6. AnswerInv'
  BY <1>r DEF IInv, AnswerInv, ErrorEndsAnswer
<1>7. RecordedInv'
  BY <1>r DEF IInv, RecordedInv
<1>8. MadeInv'
  BY <1>r DEF IInv, MadeInv
<1>9. NewInv'
  BY <1>r DEF IInv, NewInv
<1>10. FreshInv'
  BY <1>r DEF IInv, FreshInv
<1>11. HeldInv'
  BY <1>r DEF IInv, HeldInv
<1>12. TameInv'
  BY <1>r DEF IInv, TameInv
<1> QED
  BY <1>1, <1>2, <1>3, <1>4, <1>5, <1>6, <1>7, <1>8, <1>9, <1>10, <1>11, <1>12 DEF IInv

LEMMA SucceedsInv ==
  ASSUME IInv, Succeeds
  PROVE  IInv'
<1> USE DEF Succeeds, childVars, histVars
<1>r. ToRelease' = ToRelease /\ Last(cmds)' = Last(cmds) /\ cmds' = cmds
  BY DEF ToRelease, Last
<1>1. TypeOK'
  BY <1>r, ListsAre, CommandFacts, RequestAssumption DEF IInv, TypeOK, SeqInv, PlaceInv, Parsed, Command
<1>2. SeqInv'
  BY <1>r DEF IInv, SeqInv
<1>3. PlaceInv'
  BY <1>r DEF IInv, PlaceInv
<1>4. HeapInv'
  BY <1>r DEF IInv, HeapInv
<1>5. LiveInv'
  BY <1>r DEF IInv, LiveInv
<1>6. AnswerInv'
  BY <1>r DEF IInv, AnswerInv, ErrorEndsAnswer
<1>7. RecordedInv'
  BY <1>r, ListsAre DEF IInv, RecordedInv, PlaceInv, TypeOK, HeapInv
<1>8. MadeInv'
  BY <1>r DEF IInv, MadeInv
<1>9. NewInv'
  BY <1>r DEF IInv, NewInv
<1>10. FreshInv'
  BY <1>r DEF IInv, FreshInv
<1>11. HeldInv'
  <2> SUFFICES ASSUME tame', NEW i \in DOMAIN ToRelease', heap'[ToRelease'[i]].cached = "yes"
               PROVE  heap'[ToRelease'[i]].target \in recorded'
    BY DEF HeldInv
  <2>1. tame /\ i \in DOMAIN ToRelease /\ heap[ToRelease[i]].cached = "yes" /\ heap' = heap
        /\ recorded' = recorded
    BY <1>r DEF childVars, histVars
  <2> QED
    BY <1>r, <2>1, HeldAtEnd
<1>12. TameInv'
  BY <1>r DEF IInv, TameInv
<1> QED
  BY <1>1, <1>2, <1>3, <1>4, <1>5, <1>6, <1>7, <1>8, <1>9, <1>10, <1>11, <1>12 DEF IInv

LEMMA SendStatusInv ==
  ASSUME IInv, SendStatus
  PROVE  IInv'
<1> USE DEF SendStatus, childVars, histVars
<1>r. ToRelease' = ToRelease /\ Last(cmds)' = Last(cmds) /\ cmds' = cmds
  BY DEF ToRelease, Last
<1>1. TypeOK'
  BY <1>r DEF IInv, TypeOK
<1>2. SeqInv'
  BY <1>r DEF IInv, SeqInv
<1>3. PlaceInv'
  BY <1>r DEF IInv, PlaceInv
<1>4. HeapInv'
  BY <1>r DEF IInv, HeapInv
<1>5. LiveInv'
  BY <1>r DEF IInv, LiveInv
<1>6. AnswerInv'
  BY <1>r DEF IInv, AnswerInv, ErrorEndsAnswer
<1>7. RecordedInv'
  BY <1>r DEF IInv, RecordedInv
<1>8. MadeInv'
  BY <1>r DEF IInv, MadeInv
<1>9. NewInv'
  BY <1>r DEF IInv, NewInv
<1>10. FreshInv'
  BY <1>r DEF IInv, FreshInv
<1>11. HeldInv'
  BY <1>r DEF IInv, HeldInv
<1>12. TameInv'
  BY <1>r DEF IInv, TameInv
<1> QED
  BY <1>1, <1>2, <1>3, <1>4, <1>5, <1>6, <1>7, <1>8, <1>9, <1>10, <1>11, <1>12 DEF IInv

LEMMA FinishWithErrorInv ==
  ASSUME IInv, FinishWithError
  PROVE  IInv'
<1> USE DEF FinishWithError, childVars, histVars
<1>r. ToRelease' = ToRelease /\ Last(cmds)' = Last(cmds) /\ cmds' = cmds
  BY DEF ToRelease, Last
<1>1. TypeOK'
  <2>1. store' \in [Names -> Files \cup {NoFile}]
    BY <1>r DEF IInv, TypeOK
  <2>2. \A d \in Defs : defs'[d] \in Seq(Objects)
    BY <1>r DEF IInv, TypeOK
  <2>3. heap' \in [Objects -> Container \cup {Freed}]
    BY <1>r DEF IInv, TypeOK
  <2>4. requests' \in 0..MaxRequests
    BY <1>r DEF IInv, TypeOK
  <2>5. phase' \in {"idle", "build", "execute", "get", "transmit", "failed", "error", "end", "dead"}
    BY <1>r DEF IInv, TypeOK
  <2>6. Len(cmds') <= MaxCommands
    BY <1>r DEF IInv, TypeOK
  <2>7. \A i \in DOMAIN cmds' : cmds'[i].cmd \in Commands /\ cmds'[i].containers \in Seq(Objects)
    BY <1>r DEF IInv, TypeOK
  <2>8. next' \in 0..MaxCommands + 1
    BY <1>r DEF IInv, TypeOK
  <2>9. k' \in 0..MaxContainers + 1
    BY RequestAssumption DEF IInv, TypeOK
  <2>10. undefined' \in BOOLEAN /\ tame' \in BOOLEAN /\ early' \subseteq Compressed
    BY <1>r DEF IInv, TypeOK
  <2>11. answer' \in Seq({"response", "part", "status", "error"})
    BY Concatenated DEF IInv, TypeOK
  <2>12. cache' \in BOOLEAN /\ recorded' \subseteq Compressed
    BY <1>r DEF IInv, TypeOK
  <2>13. hasResponse' \in BOOLEAN
    BY <1>r DEF IInv, TypeOK
  <2> QED
    BY <2>1, <2>2, <2>3, <2>4, <2>5, <2>6, <2>7, <2>8, <2>9, <2>10, <2>11, <2>12, <2>13 DEF TypeOK
<1>2. SeqInv'
  BY <1>r DEF IInv, SeqInv
<1>3. PlaceInv'
  BY <1>r DEF IInv, PlaceInv
<1>4. HeapInv'
  BY <1>r DEF IInv, HeapInv
<1>5. LiveInv'
  BY <1>r DEF IInv, LiveInv
<1>6. AnswerInv'
  <2> DEFINE a == answer n == Len(answer)
  <2>1. /\ a \in Seq({"response", "part", "status", "error"}) /\ n \in Nat /\ n > 0 /\ DOMAIN a = 1..n
        /\ \A i \in 1..n : a[i] \in {"response", "part", "status"} /\ (a[i] = "status" <=> i = n)
    BY DEF IInv, TypeOK, AnswerInv
  <2>2. CASE answer' = a \o <<"error">>
    <3>1. /\ answer' \in Seq({"response", "part", "status", "error"}) /\ Len(answer') = n + 1
          /\ answer'[n + 1] = "error" /\ \A i \in 1..n : answer'[i] = a[i]
      BY <2>1, <2>2, Concatenated
    <3> HIDE DEF a, n
    <3>2. DOMAIN answer' = 1..n + 1 /\ Last(answer') = "error"
      BY <3>1 DEF Last
    <3> QED
      BY <2>1, <3>1, <3>2 DEF AnswerInv, ErrorEndsAnswer
  <2>3. CASE answer' = a \o <<"part", "error">>
    <3>1. /\ answer' \in Seq({"response", "part", "status", "error"}) /\ Len(answer') = n + 2
          /\ answer'[n + 1] = "part" /\ answer'[n + 2] = "error" /\ \A i \in 1..n : answer'[i] = a[i]
      BY <2>1, <2>3, Concatenated
    <3> HIDE DEF a, n
    <3>2. DOMAIN answer' = 1..n + 2 /\ Last(answer') = "error"
      BY <3>1 DEF Last
    <3> QED
      BY <2>1, <3>1, <3>2 DEF AnswerInv, ErrorEndsAnswer
  <2> QED
    BY <2>2, <2>3
<1>7. RecordedInv'
  BY <1>r, ListsAre DEF IInv, RecordedInv, PlaceInv, TypeOK, HeapInv
<1>8. MadeInv'
  BY <1>r DEF IInv, MadeInv
<1>9. NewInv'
  BY <1>r DEF IInv, NewInv
<1>10. FreshInv'
  BY <1>r DEF IInv, FreshInv
<1>11. HeldInv'
  <2> SUFFICES ASSUME tame', NEW i \in DOMAIN ToRelease', heap'[ToRelease'[i]].cached = "yes"
               PROVE  heap'[ToRelease'[i]].target \in recorded'
    BY DEF HeldInv
  <2>1. tame /\ i \in DOMAIN ToRelease /\ heap[ToRelease[i]].cached = "yes" /\ heap' = heap
        /\ recorded' = recorded
    BY <1>r DEF childVars, histVars
  <2> QED
    BY <1>r, <2>1, HeldAtEnd
<1>12. TameInv'
  BY <1>r DEF IInv, TameInv
<1> QED
  BY <1>1, <1>2, <1>3, <1>4, <1>5, <1>6, <1>7, <1>8, <1>9, <1>10, <1>11, <1>12 DEF IInv

LEMMA SetContainerInv ==
  ASSUME IInv, SetContainer
  PROVE  IInv'
<1> USE DEF SetContainer, histVars, Done, Throws, Executes
<1>n. /\ next \in DOMAIN cmds /\ phase = "execute" /\ Now \in Commands /\ cmds[next].cmd = Now
      /\ cmds[next].containers = <<>> /\ cmds[next].cmd.op = "setContainer"
  <2>1. next \in DOMAIN cmds /\ phase = "execute"
    BY DEF Executes
  <2> QED
    BY <2>1, ListsAre DEF Now, IInv, PlaceInv
<1>r. ToRelease' = ToRelease /\ Last(cmds)' = Last(cmds) /\ cmds' = cmds
  BY DEF ToRelease, Last
<1>1. TypeOK'
  <2>1. store' \in [Names -> Files \cup {NoFile}]
    BY <1>n, <1>r, CommandFacts DEF IInv, TypeOK
  <2>2. \A d \in Defs : defs'[d] \in Seq(Objects)
    BY <1>n, <1>r, CommandFacts DEF IInv, TypeOK
  <2>3. heap' \in [Objects -> Container \cup {Freed}]
    BY <1>n, <1>r, CommandFacts DEF IInv, TypeOK
  <2>4. requests' \in 0..MaxRequests
    BY <1>n, <1>r, CommandFacts DEF IInv, TypeOK
  <2>5. phase' \in {"idle", "build", "execute", "get", "transmit", "failed", "error", "end", "dead"}
    BY <1>n, <1>r, CommandFacts DEF IInv, TypeOK
  <2>6. Len(cmds') <= MaxCommands
    BY <1>n, <1>r, CommandFacts DEF IInv, TypeOK
  <2>7. \A i \in DOMAIN cmds' : cmds'[i].cmd \in Commands /\ cmds'[i].containers \in Seq(Objects)
    BY <1>n, <1>r, CommandFacts DEF IInv, TypeOK
  <2>8. next' \in 0..MaxCommands + 1
    BY <1>n, ListsAre, RequestAssumption DEF IInv, TypeOK
  <2>9. k' \in 0..MaxContainers + 1
    BY <1>n, <1>r, CommandFacts DEF IInv, TypeOK
  <2>10. undefined' \in BOOLEAN /\ tame' \in BOOLEAN /\ early' \subseteq Compressed
    BY <1>n, <1>r, CommandFacts DEF IInv, TypeOK
  <2>11. answer' \in Seq({"response", "part", "status", "error"})
    BY <1>n, <1>r, CommandFacts DEF IInv, TypeOK
  <2>12. cache' \in BOOLEAN /\ recorded' \subseteq Compressed
    BY <1>n, <1>r, CommandFacts DEF IInv, TypeOK
  <2>13. hasResponse' \in BOOLEAN
    BY <1>n, <1>r, CommandFacts DEF IInv, TypeOK
  <2> QED
    BY <2>1, <2>2, <2>3, <2>4, <2>5, <2>6, <2>7, <2>8, <2>9, <2>10, <2>11, <2>12, <2>13 DEF TypeOK
<1>2. SeqInv'
  BY <1>n, <1>r DEF IInv, SeqInv
<1>3. PlaceInv'
  BY <1>n, <1>r, ListsAre DEF IInv, PlaceInv, TypeOK
<1>4. HeapInv'
  BY <1>n, <1>r DEF IInv, HeapInv
<1>5. LiveInv'
  BY <1>n, <1>r DEF IInv, LiveInv
<1>6. AnswerInv'
  BY <1>n, <1>r DEF IInv, AnswerInv, ErrorEndsAnswer
<1>7. RecordedInv'
  BY <1>n, <1>r DEF IInv, RecordedInv
<1>8. MadeInv'
  BY <1>n, <1>r DEF IInv, MadeInv
<1>9. NewInv'
  BY <1>n, <1>r DEF IInv, NewInv
<1>10. FreshInv'
  BY <1>n, <1>r DEF IInv, FreshInv
<1>11. HeldInv'
  BY <1>n, <1>r DEF IInv, HeldInv
<1>12. TameInv'
  BY <1>n, <1>r DEF IInv, TameInv
<1> QED
  BY <1>1, <1>2, <1>3, <1>4, <1>5, <1>6, <1>7, <1>8, <1>9, <1>10, <1>11, <1>12 DEF IInv

LEMMA DeleteContainerInv ==
  ASSUME IInv, DeleteContainer
  PROVE  IInv'
<1> USE DEF DeleteContainer, histVars, Done, Throws, Executes
<1>n. /\ next \in DOMAIN cmds /\ phase = "execute" /\ Now \in Commands /\ cmds[next].cmd = Now
      /\ cmds[next].containers = <<>> /\ cmds[next].cmd.op = "deleteContainer"
  <2>1. next \in DOMAIN cmds /\ phase = "execute"
    BY DEF Executes
  <2> QED
    BY <2>1, ListsAre DEF Now, IInv, PlaceInv
<1>r. ToRelease' = ToRelease /\ Last(cmds)' = Last(cmds) /\ cmds' = cmds
  BY DEF ToRelease, Last
<1>1. TypeOK'
  <2>1. store' \in [Names -> Files \cup {NoFile}]
    BY <1>n, <1>r, CommandFacts DEF IInv, TypeOK
  <2>2. \A d \in Defs : defs'[d] \in Seq(Objects)
    BY <1>n, <1>r, CommandFacts DEF IInv, TypeOK
  <2>3. heap' \in [Objects -> Container \cup {Freed}]
    BY <1>n, <1>r, CommandFacts DEF IInv, TypeOK
  <2>4. requests' \in 0..MaxRequests
    BY <1>n, <1>r, CommandFacts DEF IInv, TypeOK
  <2>5. phase' \in {"idle", "build", "execute", "get", "transmit", "failed", "error", "end", "dead"}
    BY <1>n, <1>r, CommandFacts DEF IInv, TypeOK
  <2>6. Len(cmds') <= MaxCommands
    BY <1>n, <1>r, CommandFacts DEF IInv, TypeOK
  <2>7. \A i \in DOMAIN cmds' : cmds'[i].cmd \in Commands /\ cmds'[i].containers \in Seq(Objects)
    BY <1>n, <1>r, CommandFacts DEF IInv, TypeOK
  <2>8. next' \in 0..MaxCommands + 1
    BY <1>n, ListsAre, RequestAssumption DEF IInv, TypeOK
  <2>9. k' \in 0..MaxContainers + 1
    BY <1>n, <1>r, CommandFacts DEF IInv, TypeOK
  <2>10. undefined' \in BOOLEAN /\ tame' \in BOOLEAN /\ early' \subseteq Compressed
    BY <1>n, <1>r, CommandFacts DEF IInv, TypeOK
  <2>11. answer' \in Seq({"response", "part", "status", "error"})
    BY <1>n, <1>r, CommandFacts DEF IInv, TypeOK
  <2>12. cache' \in BOOLEAN /\ recorded' \subseteq Compressed
    BY <1>n, <1>r, CommandFacts DEF IInv, TypeOK
  <2>13. hasResponse' \in BOOLEAN
    BY <1>n, <1>r, CommandFacts DEF IInv, TypeOK
  <2> QED
    BY <2>1, <2>2, <2>3, <2>4, <2>5, <2>6, <2>7, <2>8, <2>9, <2>10, <2>11, <2>12, <2>13 DEF TypeOK
<1>2. SeqInv'
  BY <1>n, <1>r DEF IInv, SeqInv
<1>3. PlaceInv'
  BY <1>n, <1>r DEF IInv, PlaceInv
<1>4. HeapInv'
  BY <1>n, <1>r DEF IInv, HeapInv
<1>5. LiveInv'
  BY <1>n, <1>r DEF IInv, LiveInv
<1>6. AnswerInv'
  BY <1>n, <1>r DEF IInv, AnswerInv, ErrorEndsAnswer
<1>7. RecordedInv'
  BY <1>n, <1>r DEF IInv, RecordedInv
<1>8. MadeInv'
  BY <1>n, <1>r DEF IInv, MadeInv
<1>9. NewInv'
  BY <1>n, <1>r DEF IInv, NewInv
<1>10. FreshInv'
  BY <1>n, <1>r DEF IInv, FreshInv
<1>11. HeldInv'
  BY <1>n, <1>r DEF IInv, HeldInv
<1>12. TameInv'
  BY <1>n, <1>r DEF IInv, TameInv
<1> QED
  BY <1>1, <1>2, <1>3, <1>4, <1>5, <1>6, <1>7, <1>8, <1>9, <1>10, <1>11, <1>12 DEF IInv

LEMMA ShowInv ==
  ASSUME IInv, Show
  PROVE  IInv'
<1> USE DEF Show, childVars, histVars, Executes
<1>n. /\ next \in DOMAIN cmds /\ phase = "execute" /\ Now \in Commands /\ cmds[next].cmd = Now
      /\ cmds[next].containers = <<>> /\ cmds[next].cmd.op = "show"
  <2>1. next \in DOMAIN cmds /\ phase = "execute"
    BY DEF Executes
  <2> QED
    BY <2>1, ListsAre DEF Now, IInv, PlaceInv
<1>r. ToRelease' = ToRelease /\ Last(cmds)' = Last(cmds) /\ cmds' = cmds
  BY DEF ToRelease, Last
<1>1. TypeOK'
  BY <1>n, <1>r DEF IInv, TypeOK
<1>2. SeqInv'
  BY <1>n, <1>r DEF IInv, SeqInv
<1>3. PlaceInv'
  BY <1>n, <1>r DEF IInv, PlaceInv
<1>4. HeapInv'
  BY <1>n, <1>r DEF IInv, HeapInv
<1>5. LiveInv'
  BY <1>n, <1>r DEF IInv, LiveInv
<1>6. AnswerInv'
  BY <1>n, <1>r DEF IInv, AnswerInv, ErrorEndsAnswer
<1>7. RecordedInv'
  BY <1>n, <1>r DEF IInv, RecordedInv
<1>8. MadeInv'
  BY <1>n, <1>r DEF IInv, MadeInv
<1>9. NewInv'
  BY <1>n, <1>r DEF IInv, NewInv
<1>10. FreshInv'
  BY <1>n, <1>r DEF IInv, FreshInv
<1>11. HeldInv'
  BY <1>n, <1>r DEF IInv, HeldInv
<1>12. TameInv'
  BY <1>n, <1>r DEF IInv, TameInv
<1> QED
  BY <1>1, <1>2, <1>3, <1>4, <1>5, <1>6, <1>7, <1>8, <1>9, <1>10, <1>11, <1>12 DEF IInv

LEMMA GetFailsInv ==
  ASSUME IInv, GetFails
  PROVE  IInv'
<1> USE DEF GetFails, childVars, histVars, Throws, Executes
<1>n. /\ next \in DOMAIN cmds /\ phase = "execute" /\ Now \in Commands /\ cmds[next].cmd = Now
      /\ cmds[next].containers = <<>> /\ cmds[next].cmd.op = "get"
  <2>1. next \in DOMAIN cmds /\ phase = "execute"
    BY DEF Executes
  <2> QED
    BY <2>1, ListsAre DEF Now, IInv, PlaceInv
<1>r. ToRelease' = ToRelease /\ Last(cmds)' = Last(cmds) /\ cmds' = cmds
  BY DEF ToRelease, Last
<1>1. TypeOK'
  BY <1>n, <1>r DEF IInv, TypeOK
<1>2. SeqInv'
  BY <1>n, <1>r DEF IInv, SeqInv
<1>3. PlaceInv'
  BY <1>n, <1>r DEF IInv, PlaceInv
<1>4. HeapInv'
  BY <1>n, <1>r DEF IInv, HeapInv
<1>5. LiveInv'
  BY <1>n, <1>r DEF IInv, LiveInv
<1>6. AnswerInv'
  BY <1>n, <1>r DEF IInv, AnswerInv, ErrorEndsAnswer
<1>7. RecordedInv'
  BY <1>n, <1>r DEF IInv, RecordedInv
<1>8. MadeInv'
  BY <1>n, <1>r DEF IInv, MadeInv
<1>9. NewInv'
  BY <1>n, <1>r DEF IInv, NewInv
<1>10. FreshInv'
  BY <1>n, <1>r DEF IInv, FreshInv
<1>11. HeldInv'
  BY <1>n, <1>r DEF IInv, HeldInv
<1>12. TameInv'
  BY <1>n, <1>r DEF IInv, TameInv
<1> QED
  BY <1>1, <1>2, <1>3, <1>4, <1>5, <1>6, <1>7, <1>8, <1>9, <1>10, <1>11, <1>12 DEF IInv

LEMMA BuildInv ==
  ASSUME IInv, NEW c \in Commands, Build(c)
  PROVE  IInv'
<1> USE DEF Build, childVars, histVars
<1>a. /\ cmds' \in Seq(Parsed) /\ Len(cmds') = Len(cmds) + 1 /\ ToRelease' = <<>> /\ cmds' # <<>>
      /\ \A j \in DOMAIN cmds : cmds'[j] = cmds[j]
      /\ DOMAIN cmds' = DOMAIN cmds \cup {Len(cmds) + 1}
      /\ cmds'[Len(cmds) + 1].cmd = c /\ cmds'[Len(cmds) + 1].containers = <<>>
  BY Appended
<1>b. ToRelease = <<>> /\ next = 0 /\ phase = "build"
  <2>1. next = 0 /\ phase = "build"
    BY DEF IInv, PlaceInv
  <2> QED
    BY <2>1, ListsAre DEF IInv, PlaceInv
<1>1. TypeOK'
  <2>1. store' \in [Names -> Files \cup {NoFile}]
    BY DEF IInv, TypeOK
  <2>2. \A d \in Defs : defs'[d] \in Seq(Objects)
    BY DEF IInv, TypeOK
  <2>3. heap' \in [Objects -> Container \cup {Freed}]
    BY DEF IInv, TypeOK
  <2>4. requests' \in 0..MaxRequests
    BY DEF IInv, TypeOK
  <2>5. phase' \in {"idle", "build", "execute", "get", "transmit", "failed", "error", "end", "dead"}
    BY DEF IInv, TypeOK
  <2>6. Len(cmds') <= MaxCommands
    BY <1>a, <1>b, ListsAre, RequestAssumption DEF IInv, TypeOK
  <2>7. \A i \in DOMAIN cmds' : cmds'[i].cmd \in Commands /\ cmds'[i].containers \in Seq(Objects)
    BY <1>a, ParsedAre DEF SeqInv
  <2>8. next' \in 0..MaxCommands + 1
    BY DEF IInv, TypeOK
  <2>9. k' \in 0..MaxContainers + 1
    BY DEF IInv, TypeOK
  <2>10. undefined' \in BOOLEAN /\ tame' \in BOOLEAN /\ early' \subseteq Compressed
    BY DEF IInv, TypeOK
  <2>11. answer' \in Seq({"response", "part", "status", "error"})
    BY DEF IInv, TypeOK
  <2>12. cache' \in BOOLEAN /\ recorded' \subseteq Compressed
    BY DEF IInv, TypeOK
  <2>13. hasResponse' \in BOOLEAN
    <3>1. hasResponse' = hasResponse \/ hasResponse' = HasResponse(c)
      OBVIOUS
    <3>2. HasResponse(c) \in BOOLEAN
      BY DEF HasResponse
    <3> QED
      BY <3>1, <3>2 DEF IInv, TypeOK
  <2> QED
    BY <2>1, <2>2, <2>3, <2>4, <2>5, <2>6, <2>7, <2>8, <2>9, <2>10, <2>11, <2>12, <2>13 DEF TypeOK
<1>2. SeqInv'
  BY <1>a, <1>b, ListsAre DEF IInv, SeqInv, TypeOK
<1>3. PlaceInv'
  BY <1>a, <1>b DEF IInv, PlaceInv
<1>4. HeapInv'
  BY <1>a, <1>b DEF IInv, HeapInv
<1>5. LiveInv'
  BY <1>a, <1>b DEF IInv, LiveInv
<1>6. AnswerInv'
  BY <1>a, <1>b DEF IInv, AnswerInv, ErrorEndsAnswer
<1>7. RecordedInv'
  BY <1>a, <1>b DEF IInv, RecordedInv
<1>8. MadeInv'
  BY <1>a, <1>b, ListsAre, Elements, ContainerFacts DEF IInv, MadeInv, PlaceInv, Freed, HeapInv, ToSet
<1>9. NewInv'
  BY <1>a, <1>b, ListsAre, Elements, ContainerFacts DEF IInv, NewInv, PlaceInv, HeapInv, ToSet, Last
<1>10. FreshInv'
  BY <1>a, <1>b DEF IInv, FreshInv
<1>11. HeldInv'
  BY <1>a, <1>b DEF IInv, HeldInv
<1>12. TameInv'
  BY <1>a, <1>b DEF IInv, TameInv
<1> QED
  BY <1>1, <1>2, <1>3, <1>4, <1>5, <1>6, <1>7, <1>8, <1>9, <1>10, <1>11, <1>12 DEF IInv

LEMMA GetInv ==
  ASSUME IInv, Get
  PROVE  IInv'
<1> USE DEF Get, childVars, Executes
<1>n. /\ next \in DOMAIN cmds /\ phase = "execute" /\ Now \in Commands /\ cmds[next].cmd = Now
      /\ cmds[next].containers = <<>> /\ cmds[next].cmd.op = "get"
  <2>1. next \in DOMAIN cmds /\ phase = "execute"
    BY DEF Executes
  <2> QED
    BY <2>1, ListsAre DEF Now, IInv, PlaceInv
<1> DEFINE os == defs[Now.def]
<1>s. /\ os \in Seq(Objects) /\ Len(os) <= MaxContainers /\ os # <<>> /\ ToSet(os) \subseteq Objects
      /\ Now.def \in Defs
      /\ cmds' = [cmds EXCEPT ![next].containers = os] /\ tame' = (tame /\ Fresh(os))
  BY <1>n, CommandFacts, Elements DEF IInv, SeqInv, NoDef
<1>u. \A o \in ToSet(os) : heap[o] # Freed
  BY <1>s DEF IInv, LiveInv
<1> HIDE DEF os
<1>p. /\ cmds' \in Seq(Parsed) /\ Len(cmds') = Len(cmds) /\ DOMAIN cmds' = DOMAIN cmds
      /\ \A j \in DOMAIN cmds : cmds'[j].cmd = cmds[j].cmd
      /\ cmds'[next].containers = os
      /\ \A j \in DOMAIN cmds : j # next => cmds'[j] = cmds[j]
      /\ ToRelease' = IF next = Len(cmds) THEN os ELSE ToRelease
      /\ cmds # <<>> /\ cmds' # <<>> /\ Last(cmds)' = cmds'[Len(cmds)] /\ Last(cmds) = cmds[Len(cmds)]
      /\ Last(cmds)'.cmd = Last(cmds).cmd
  BY <1>n, <1>s, PointsTo
<1>t. ToRelease = <<>>
  BY <1>n, ListsAre DEF IInv, PlaceInv
<1>v. phase' = "get" /\ k' = 1 /\ Used' = os
      /\ UNCHANGED <<childVars, next, hasResponse, answer, undefined, early>>
  BY <1>p DEF Used
<1> HIDE DEF Get
<1>1. TypeOK'
  <2>1. store' \in [Names -> Files \cup {NoFile}]
    BY <1>v DEF IInv, TypeOK
  <2>2. \A d \in Defs : defs'[d] \in Seq(Objects)
    BY <1>v DEF IInv, TypeOK
  <2>3. heap' \in [Objects -> Container \cup {Freed}]
    BY <1>v DEF IInv, TypeOK
  <2>4. requests' \in 0..MaxRequests
    BY <1>v DEF IInv, TypeOK
  <2>5. phase' \in {"idle", "build", "execute", "get", "transmit", "failed", "error", "end", "dead"}
    BY <1>v DEF IInv, TypeOK
  <2>6. Len(cmds') <= MaxCommands
    BY <1>p DEF IInv, TypeOK
  <2>7. \A i \in DOMAIN cmds' : cmds'[i].cmd \in Commands /\ cmds'[i].containers \in Seq(Objects)
    BY <1>p, ParsedAre DEF SeqInv
  <2>8. next' \in 0..MaxCommands + 1
    BY <1>v DEF IInv, TypeOK
  <2>9. k' \in 0..MaxContainers + 1
    BY <1>v, RequestAssumption DEF IInv, TypeOK
  <2>10. undefined' \in BOOLEAN /\ tame' \in BOOLEAN /\ early' \subseteq Compressed
    BY <1>s, <1>v DEF IInv, TypeOK
  <2>11. answer' \in Seq({"response", "part", "status", "error"})
    BY <1>v DEF IInv, TypeOK
  <2>12. cache' \in BOOLEAN /\ recorded' \subseteq Compressed
    BY <1>v DEF IInv, TypeOK
  <2>13. hasResponse' \in BOOLEAN
    BY <1>v DEF IInv, TypeOK
  <2> QED
    BY <2>1, <2>2, <2>3, <2>4, <2>5, <2>6, <2>7, <2>8, <2>9, <2>10, <2>11, <2>12, <2>13 DEF TypeOK
<1>2. SeqInv'
  BY <1>n, <1>s, <1>u, <1>p, <1>t, <1>v DEF IInv, SeqInv
<1>3. PlaceInv'
  <2>1. next \in Nat /\ next > 0 /\ phase' = "get" /\ next' = next /\ k' = 1
    BY <1>n, <1>v, ListsAre
  <2>2. cmds'[next].cmd.op = "get" /\ next \in DOMAIN cmds'
    BY <1>n, <1>p
  <2>3. ASSUME NEW i \in DOMAIN cmds', i > next \/ cmds'[i].cmd.op \notin {"get", "define"}
        PROVE  cmds'[i].containers = <<>>
    <3>1. i # next /\ i \in DOMAIN cmds /\ cmds'[i] = cmds[i]
      BY <1>p, <2>1, <2>2, <2>3
    <3> QED
      BY <1>n, <2>1, <2>3, <3>1 DEF IInv, PlaceInv
  <2> QED
    BY <2>1, <2>2, <2>3 DEF PlaceInv
<1>4. HeapInv'
  BY <1>n, <1>s, <1>u, <1>p, <1>t, <1>v DEF IInv, HeapInv
<1>5. LiveInv'
  BY <1>n, <1>s, <1>u, <1>p, <1>t, <1>v DEF IInv, LiveInv
<1>6. AnswerInv'
  BY <1>n, <1>s, <1>u, <1>p, <1>t, <1>v DEF IInv, AnswerInv, ErrorEndsAnswer
<1>7. RecordedInv'
  BY <1>n, <1>s, <1>u, <1>p, <1>t, <1>v DEF IInv, RecordedInv
<1>8. MadeInv'
  <2>1. heap' = heap /\ recorded' = recorded
    BY <1>v DEF childVars
  <2>2. \A i \in DOMAIN cmds' : cmds'[i].cmd.op = "define"
                  => i # next /\ i \in DOMAIN cmds /\ cmds'[i] = cmds[i]
    BY <1>n, <1>p
  <2> QED
    BY <1>n, <2>1, <2>2 DEF IInv, MadeInv
<1>9. NewInv'
  BY <1>n, <1>s, <1>u, <1>p, <1>t, <1>v DEF IInv, NewInv
<1>10. FreshInv'
  <2> SUFFICES ASSUME tame', ToRelease' # <<>>
               PROVE  /\ \E i \in DOMAIN cmds' : cmds'[i].cmd.op = "define" /\ cmds'[i].containers = ToRelease'
                      /\ \A i, j \in DOMAIN ToRelease' :
                           heap'[ToRelease'[i]].file = heap'[ToRelease'[j]].file /\ i # j
                             => heap'[ToRelease'[i]].file \notin Compressed
    BY DEF FreshInv
  <2>1. next = Len(cmds) /\ ToRelease' = os /\ heap' = heap
    BY <1>p, <1>t, <1>v
  <2>2. Fresh(os)
    BY <1>s
  <2>3. PICK i \in 1..next - 1 : cmds[i].cmd.op = "define" /\ cmds[i].containers = os
    BY <2>2 DEF Fresh
  <2>4. i \in DOMAIN cmds /\ i # next
    BY <1>n, ListsAre
  <2>5. cmds'[i].cmd.op = "define" /\ cmds'[i].containers = ToRelease' /\ i \in DOMAIN cmds'
    BY <1>p, <2>1, <2>3, <2>4
  <2> QED
    BY <2>1, <2>2, <2>5 DEF Fresh
<1>11. HeldInv'
  BY <1>n, <1>s, <1>u, <1>p, <1>t, <1>v DEF IInv, HeldInv
<1>12. TameInv'
  BY <1>n, <1>s, <1>u, <1>p, <1>t, <1>v DEF IInv, TameInv
<1> QED
  BY <1>1, <1>2, <1>3, <1>4, <1>5, <1>6, <1>7, <1>8, <1>9, <1>10, <1>11, <1>12 DEF IInv

LEMMA DefineFailsInv ==
  ASSUME IInv, DefineFails
  PROVE  IInv'
<1> USE DEF DefineFails, histVars, Throws, Executes
<1>n. /\ next \in DOMAIN cmds /\ phase = "execute" /\ Now \in Commands /\ cmds[next].cmd = Now
      /\ cmds[next].containers = <<>> /\ cmds[next].cmd.op = "define"
  <2>1. next \in DOMAIN cmds /\ phase = "execute"
    BY DEF Executes
  <2> QED
    BY <2>1, ListsAre DEF Now, IInv, PlaceInv
<1>c. PICK n \in DOMAIN Now.names :
        /\ \A m \in 1..n - 1 : store[Now.names[m]] # NoFile
        /\ heap' = Copies(heap, New(n - 1), Now.names)
        /\ cmds' = [cmds EXCEPT ![next].containers = New(n - 1)]
  BY DEF DefineFails
<1>m. PICK m \in 1..MaxContainers : Now.names \in [1..m -> Names]
  BY <1>n, CommandFacts DEF Executes, Now
<1> DEFINE os == New(n - 1)
<1>s. /\ os \in Seq(Objects) /\ Len(os) <= MaxContainers /\ Len(os) = n - 1 /\ ToSet(os) \subseteq Objects
      /\ \A o \in ToSet(os) : /\ \A d \in Defs : o \notin ToSet(defs[d])
                              /\ \A i \in DOMAIN cmds : o \notin ToSet(cmds[i].containers)
      /\ cmds' = [cmds EXCEPT ![next].containers = os]
  <2>1. n - 1 \in Nat /\ n - 1 <= MaxContainers
    BY <1>m, RequestAssumption
  <2> QED
    BY <1>c, <1>n, <2>1, NewIs, Elements
<1>h. /\ \A o \in Objects \ ToSet(os) : heap'[o] = heap[o]
      /\ heap' \in [Objects -> Container \cup {Freed}]
      /\ \A o \in ToSet(os) : heap'[o] \in Container /\ heap'[o].cached = "unset" /\ heap'[o].target = NoFile
  <2>1. \A i \in DOMAIN os : store[Now.names[i]] \in Files
    <3>1. \A i \in DOMAIN os : i \in 1..n - 1 /\ Now.names[i] \in Names
      BY <1>s, <1>m
    <3> QED
      BY <1>c, <3>1 DEF IInv, TypeOK
  <2>2. heap \in [Objects -> Container \cup {Freed}] /\ heap' = Copies(heap, os, Now.names)
    BY <1>c DEF IInv, TypeOK
  <2> HIDE DEF os, DefineFails
  <2> QED
    BY <1>s, <2>1, <2>2, Copied
<1> HIDE DEF os
<1>p. /\ cmds' \in Seq(Parsed) /\ Len(cmds') = Len(cmds) /\ DOMAIN cmds' = DOMAIN cmds
      /\ \A j \in DOMAIN cmds : cmds'[j].cmd = cmds[j].cmd
      /\ cmds'[next].containers = os
      /\ \A j \in DOMAIN cmds : j # next => cmds'[j] = cmds[j]
      /\ ToRelease' = IF next = Len(cmds) THEN os ELSE ToRelease
      /\ cmds # <<>> /\ cmds' # <<>> /\ Last(cmds)' = cmds'[Len(cmds)] /\ Last(cmds) = cmds[Len(cmds)]
      /\ Last(cmds)'.cmd = Last(cmds).cmd
  BY <1>n, <1>s, PointsTo
<1>t. ToRelease = <<>>
  BY <1>n, ListsAre DEF IInv, PlaceInv
<1>v. phase' = "failed"
      /\ UNCHANGED <<next, store, defs, cache, recorded, requests, k, hasResponse, answer, histVars>>
  OBVIOUS
<1> HIDE DEF DefineFails
<1>1. TypeOK'
  BY <1>n, <1>s, <1>h, <1>p, <1>t, <1>v DEF IInv, TypeOK
<1>2. SeqInv'
  BY <1>n, <1>s, <1>h, <1>p, <1>t, <1>v DEF IInv, SeqInv
<1>3. PlaceInv'
  BY <1>n, <1>s, <1>h, <1>p, <1>t, <1>v, ListsAre DEF IInv, PlaceInv, TypeOK, SeqInv, Now
<1>4. HeapInv'
  BY <1>n, <1>s, <1>h, <1>p, <1>t, <1>v DEF IInv, HeapInv
<1>5. LiveInv'
  <2>1. \A d \in Defs : \A x \in ToSet(defs[d]) : x \in Objects
    BY Elements DEF IInv, SeqInv
  <2>2. \A x \in ToSet(os) : heap'[x] # Freed
    BY <1>h, ContainerFacts
  <2>3. \A d \in Defs : \A x \in ToSet(defs[d]) : heap'[x] = heap[x]
    BY <1>s, <1>h, <2>1
  <2>4. \A x \in ToSet(ToRelease') : heap'[x] # Freed
    <3>1. ToSet(ToRelease) = {}
      BY <1>t DEF ToSet
    <3> QED
      BY <1>p, <2>2, <3>1
  <2> QED
    BY <1>v, <2>3, <2>4 DEF IInv, LiveInv
<1>6. AnswerInv'
  BY <1>n, <1>s, <1>h, <1>p, <1>t, <1>v DEF IInv, AnswerInv, ErrorEndsAnswer
<1>7. RecordedInv'
  BY <1>n, <1>s, <1>h, <1>p, <1>t, <1>v DEF IInv, RecordedInv
<1>8. MadeInv'
  <2> SUFFICES ASSUME NEW i \in DOMAIN cmds', cmds'[i].cmd.op = "define",
                      NEW x \in ToSet(cmds'[i].containers), heap'[x].cached = "yes"
               PROVE  heap'[x].target \in recorded'
    BY DEF MadeInv
  <2>1. CASE i = next
    BY <1>p, <1>h, <2>1
  <2>2. CASE i # next
    <3>1. i \in DOMAIN cmds /\ cmds[i].cmd.op = "define" /\ x \in ToSet(cmds[i].containers) /\ x \in Objects
      BY <1>p, <2>2, ListsAre, Elements
    <3>2. x \notin ToSet(os)
      BY <1>s, <3>1
    <3>3. heap'[x] = heap[x]
      BY <1>h, <3>1, <3>2
    <3> QED
      BY <1>n, <1>v, <3>1, <3>3 DEF IInv, MadeInv
  <2> QED
    BY <2>1, <2>2
<1>9. NewInv'
  BY <1>n, <1>s, <1>h, <1>p, <1>t, <1>v, ListsAre, Elements, ContainerFacts
    DEF IInv, NewInv, PlaceInv, HeapInv, ToSet, Last
<1>10. FreshInv'
  BY <1>n, <1>s, <1>h, <1>p, <1>t, <1>v DEF IInv, FreshInv
<1>11. HeldInv'
  BY <1>n, <1>s, <1>h, <1>p, <1>t, <1>v DEF IInv, HeldInv
<1>12. TameInv'
  BY <1>n, <1>s, <1>h, <1>p, <1>t, <1>v DEF IInv, TameInv
<1> QED
  BY <1>1, <1>2, <1>3, <1>4, <1>5, <1>6, <1>7, <1>8, <1>9, <1>10, <1>11, <1>12 DEF IInv

LEMMA DefineInv ==
  ASSUME IInv, Define
  PROVE  IInv'
<1> USE DEF Define, histVars, Done, Executes
<1>n. /\ next \in DOMAIN cmds /\ phase = "execute" /\ Now \in Commands /\ cmds[next].cmd = Now
      /\ cmds[next].containers = <<>> /\ cmds[next].cmd.op = "define"
  <2>1. next \in DOMAIN cmds /\ phase = "execute"
    BY DEF Executes
  <2> QED
    BY <2>1, ListsAre DEF Now, IInv, PlaceInv
<1>m. PICK m \in 1..MaxContainers : Now.names \in [1..m -> Names]
  BY <1>n, CommandFacts DEF Executes, Now
<1> DEFINE os == New(Len(Now.names))
           old == ToSet(defs[Now.def])
<1>d. Now.def \in Defs /\ Now.op = "define" /\ old \subseteq Objects
  BY <1>n, CommandFacts, Elements DEF IInv, SeqInv
<1>s. /\ os \in Seq(Objects) /\ Len(os) <= MaxContainers /\ Len(os) = m /\ ToSet(os) \subseteq Objects
      /\ \A o \in ToSet(os) : /\ \A d \in Defs : o \notin ToSet(defs[d])
                              /\ \A i \in DOMAIN cmds : o \notin ToSet(cmds[i].containers)
      /\ cmds' = [cmds EXCEPT ![next].containers = os]
  <2>1. Len(Now.names) = m /\ m \in Nat /\ m <= MaxContainers
    BY <1>m, RequestAssumption
  <2> QED
    BY <1>n, <2>1, NewIs, Elements
<1>h. /\ \A o \in old : o \notin ToSet(os) => heap'[o] = Freed
      /\ \A o \in Objects \ (ToSet(os) \cup old) : heap'[o] = heap[o]
      /\ heap' \in [Objects -> Container \cup {Freed}]
      /\ \A o \in ToSet(os) : heap'[o] \in Container /\ heap'[o].cached = "unset" /\ heap'[o].target = NoFile
  <2>1. \A i \in DOMAIN os : store[Now.names[i]] \in Files
    <3>1. \A i \in DOMAIN os : i \in DOMAIN Now.names /\ Now.names[i] \in Names
      BY <1>s, <1>m
    <3> QED
      BY <3>1 DEF IInv, TypeOK
  <2>2. heap \in [Objects -> Container \cup {Freed}] /\ heap' = Copies(Delete(heap, old), os, Now.names)
    BY DEF IInv, TypeOK
  <2> HIDE DEF os, old
  <2>3. /\ Delete(heap, old) \in [Objects -> Container \cup {Freed}]
        /\ \A o \in old : Delete(heap, old)[o] = Freed
        /\ \A o \in Objects \ old : Delete(heap, old)[o] = heap[o]
    BY <1>d, <2>2, Deleted
  <2>4. /\ heap' \in [Objects -> Container \cup {Freed}]
        /\ \A o \in ToSet(os) : heap'[o] \in Container /\ heap'[o].cached = "unset" /\ heap'[o].target = NoFile
        /\ \A o \in Objects \ ToSet(os) : heap'[o] = Delete(heap, old)[o]
    BY <1>s, <2>1, <2>2, <2>3, Copied
  <2> QED
    BY <1>d, <2>3, <2>4
<1>e. /\ defs' \in [Defs -> Seq(Objects)] /\ defs'[Now.def] = os
      /\ \A d \in Defs : d # Now.def => defs'[d] = defs[d]
  <2>1. defs' = [defs EXCEPT ![Now.def] = os]
    OBVIOUS
  <2> HIDE DEF os
  <2> QED
    BY <1>d, <1>s, <2>1 DEF IInv, SeqInv
<1>o. \A d \in Defs : d # Now.def => \A o \in ToSet(defs[d]) : o \notin old
  BY <1>d DEF IInv, LiveInv
<1> HIDE DEF os
<1>p. /\ cmds' \in Seq(Parsed) /\ Len(cmds') = Len(cmds) /\ DOMAIN cmds' = DOMAIN cmds
      /\ \A j \in DOMAIN cmds : cmds'[j].cmd = cmds[j].cmd
      /\ cmds'[next].containers = os
      /\ \A j \in DOMAIN cmds : j # next => cmds'[j] = cmds[j]
      /\ ToRelease' = IF next = Len(cmds) THEN os ELSE ToRelease
      /\ cmds # <<>> /\ cmds' # <<>> /\ Last(cmds)' = cmds'[Len(cmds)] /\ Last(cmds) = cmds[Len(cmds)]
      /\ Last(cmds)'.cmd = Last(cmds).cmd
  BY <1>n, <1>s, PointsTo
<1>t. ToRelease = <<>>
  BY <1>n, ListsAre DEF IInv, PlaceInv
<1>v. phase' = "execute" /\ next' = next + 1
      /\ UNCHANGED <<store, cache, recorded, requests, k, hasResponse, answer, histVars>>
  BY <1>n
<1>w. old = ToSet(defs[Now.def])
  OBVIOUS
<1> HIDE DEF old
<1> HIDE DEF Define
<1>1. TypeOK'
  <2>1. store' \in [Names -> Files \cup {NoFile}]
    BY <1>n, <1>d, <1>s, <1>h, <1>e, <1>p, <1>v DEF IInv, TypeOK
  <2>2. \A d \in Defs : defs'[d] \in Seq(Objects)
    BY <1>n, <1>d, <1>s, <1>h, <1>e, <1>p, <1>v DEF IInv, TypeOK
  <2>3. heap' \in [Objects -> Container \cup {Freed}]
    BY <1>n, <1>d, <1>s, <1>h, <1>e, <1>p, <1>v DEF IInv, TypeOK
  <2>4. requests' \in 0..MaxRequests
    BY <1>n, <1>d, <1>s, <1>h, <1>e, <1>p, <1>v DEF IInv, TypeOK
  <2>5. phase' \in {"idle", "build", "execute", "get", "transmit", "failed", "error", "end", "dead"}
    BY <1>n, <1>d, <1>s, <1>h, <1>e, <1>p, <1>v DEF IInv, TypeOK
  <2>6. Len(cmds') <= MaxCommands
    BY <1>n, <1>d, <1>s, <1>h, <1>e, <1>p, <1>v DEF IInv, TypeOK
  <2>7. \A i \in DOMAIN cmds' : cmds'[i].cmd \in Commands /\ cmds'[i].containers \in Seq(Objects)
    BY <1>p, ParsedAre DEF SeqInv
  <2>8. next' \in 0..MaxCommands + 1
    BY <1>n, <1>v, ListsAre, RequestAssumption DEF IInv, TypeOK
  <2>9. k' \in 0..MaxContainers + 1
    BY <1>n, <1>d, <1>s, <1>h, <1>e, <1>p, <1>v DEF IInv, TypeOK
  <2>10. undefined' \in BOOLEAN /\ tame' \in BOOLEAN /\ early' \subseteq Compressed
    BY <1>n, <1>d, <1>s, <1>h, <1>e, <1>p, <1>v DEF IInv, TypeOK
  <2>11. answer' \in Seq({"response", "part", "status", "error"})
    BY <1>n, <1>d, <1>s, <1>h, <1>e, <1>p, <1>v DEF IInv, TypeOK
  <2>12. cache' \in BOOLEAN /\ recorded' \subseteq Compressed
    BY <1>n, <1>d, <1>s, <1>h, <1>e, <1>p, <1>v DEF IInv, TypeOK
  <2>13. hasResponse' \in BOOLEAN
    BY <1>n, <1>d, <1>s, <1>h, <1>e, <1>p, <1>v DEF IInv, TypeOK
  <2> QED
    BY <2>1, <2>2, <2>3, <2>4, <2>5, <2>6, <2>7, <2>8, <2>9, <2>10, <2>11, <2>12, <2>13 DEF TypeOK
<1>2. SeqInv'
  BY <1>n, <1>d, <1>s, <1>h, <1>e, <1>o, <1>p, <1>t, <1>v DEF IInv, SeqInv
<1>3. PlaceInv'
  BY <1>n, <1>d, <1>s, <1>h, <1>e, <1>o, <1>p, <1>t, <1>v DEF IInv, PlaceInv
<1>4. HeapInv'
  BY <1>n, <1>d, <1>s, <1>h, <1>e, <1>o, <1>p, <1>t, <1>v DEF IInv, HeapInv
<1>5. LiveInv'
  <2>1. \A d \in Defs : \A x \in ToSet(defs[d]) : x \in Objects
    BY Elements DEF IInv, SeqInv
  <2>2. \A x \in ToSet(os) : heap'[x] # Freed
    BY <1>h, ContainerFacts
  <2>3. \A d \in Defs : d # Now.def => \A x \in ToSet(defs[d]) : heap'[x] = heap[x] /\ x \notin ToSet(os)
    BY <1>s, <1>h, <1>o, <2>1
  <2>4. \A d \in Defs : ToSet(defs'[d]) = IF d = Now.def THEN ToSet(os) ELSE ToSet(defs[d])
    BY <1>e
  <2>5. \A d \in Defs : \A x \in ToSet(defs'[d]) :
          heap'[x] # Freed /\ \A e \in Defs \ {d} : x \notin ToSet(defs'[e])
    BY <1>s, <2>2, <2>3, <2>4 DEF IInv, LiveInv
  <2>6. \A x \in ToSet(ToRelease') : heap'[x] # Freed
    <3>1. ToSet(ToRelease) = {}
      BY <1>t DEF ToSet
    <3> QED
      BY <1>p, <2>2, <3>1
  <2> QED
    BY <1>v, <2>5, <2>6 DEF LiveInv
<1>6. AnswerInv'
  BY <1>n, <1>d, <1>s, <1>h, <1>e, <1>o, <1>p, <1>t, <1>v DEF IInv, AnswerInv, ErrorEndsAnswer
<1>7. RecordedInv'
  BY <1>n, <1>d, <1>s, <1>h, <1>e, <1>o, <1>p, <1>t, <1>v DEF IInv, RecordedInv
<1>8. MadeInv'
  <2> SUFFICES ASSUME NEW i \in DOMAIN cmds', cmds'[i].cmd.op = "define",
                      NEW x \in ToSet(cmds'[i].containers), heap'[x].cached = "yes"
               PROVE  heap'[x].target \in recorded'
    BY DEF MadeInv
  <2>1. CASE i = next
    BY <1>p, <1>h, <2>1
  <2>2. CASE i # next
    <3>1. i \in DOMAIN cmds /\ cmds[i].cmd.op = "define" /\ x \in ToSet(cmds[i].containers) /\ x \in Objects
      BY <1>p, <2>2, ListsAre, Elements
    <3>2. x \notin ToSet(os)
      BY <1>s, <3>1
    <3>3. heap'[x] = heap[x]
      BY <1>h, <3>1, <3>2 DEF Freed
    <3> QED
      BY <1>n, <1>v, <3>1, <3>3 DEF IInv, MadeInv
  <2> QED
    BY <2>1, <2>2
<1>9. NewInv'
  BY <1>n, <1>d, <1>s, <1>h, <1>e, <1>o, <1>p, <1>t, <1>v, ListsAre, Elements, ContainerFacts
    DEF IInv, NewInv, PlaceInv, HeapInv, ToSet, Last
<1>10. FreshInv'
  BY <1>n, <1>d, <1>s, <1>h, <1>e, <1>o, <1>p, <1>t, <1>v DEF IInv, FreshInv
<1>11. HeldInv'
  BY <1>n, <1>d, <1>s, <1>h, <1>e, <1>o, <1>p, <1>t, <1>v DEF IInv, HeldInv
<1>12. TameInv'
  BY <1>n, <1>d, <1>s, <1>h, <1>e, <1>o, <1>p, <1>t, <1>v DEF IInv, TameInv
<1> QED
  BY <1>1, <1>2, <1>3, <1>4, <1>5, <1>6, <1>7, <1>8, <1>9, <1>10, <1>11, <1>12 DEF IInv

LEMMA DeleteDefinitionInv ==
  ASSUME IInv, DeleteDefinition
  PROVE  IInv'
<1> USE DEF DeleteDefinition, histVars, Done, Throws, Executes
<1>n. /\ next \in DOMAIN cmds /\ phase = "execute" /\ Now \in Commands /\ cmds[next].cmd = Now
      /\ cmds[next].containers = <<>> /\ cmds[next].cmd.op = "deleteDefinition"
  <2>1. next \in DOMAIN cmds /\ phase = "execute"
    BY DEF Executes
  <2> QED
    BY <2>1, ListsAre DEF Now, IInv, PlaceInv
<1> DEFINE old == ToSet(defs[Now.def])
<1>d. Now.def \in Defs /\ Now.op = "deleteDefinition" /\ old \subseteq Objects
  BY <1>n, CommandFacts, Elements DEF IInv, SeqInv
<1>h. /\ heap' \in [Objects -> Container \cup {Freed}]
      /\ \A o \in old : heap'[o] = Freed
      /\ \A o \in Objects \ old : heap'[o] = heap[o]
  <2>1. heap \in [Objects -> Container \cup {Freed}] /\ heap' = Delete(heap, old)
    BY DEF IInv, TypeOK
  <2> HIDE DEF old
  <2> QED
    BY <1>d, <2>1, Deleted
<1>e. /\ defs' \in [Defs -> Seq(Objects)] /\ defs'[Now.def] = <<>>
      /\ \A d \in Defs : d # Now.def => defs'[d] = defs[d]
  BY <1>d DEF IInv, SeqInv, NoDef
<1>o. \A d \in Defs : d # Now.def => \A o \in ToSet(defs[d]) : o \notin old
  BY <1>d DEF IInv, LiveInv
<1>t. ToRelease = <<>>
  BY <1>n, ListsAre DEF IInv, PlaceInv
<1>r. ToRelease' = ToRelease /\ Last(cmds)' = Last(cmds) /\ cmds' = cmds
  BY DEF ToRelease, Last
<1>v. /\ (phase' = "execute" /\ next' = next + 1) \/ (phase' = "failed" /\ next' = next)
      /\ UNCHANGED <<store, cache, recorded, requests, cmds, k, hasResponse, answer, histVars>>
  BY <1>n
<1> HIDE DEF old
<1> HIDE DEF DeleteDefinition
<1>1. TypeOK'
  <2>1. store' \in [Names -> Files \cup {NoFile}]
    BY <1>n, <1>d, <1>h, <1>e, <1>r, <1>v DEF IInv, TypeOK
  <2>2. \A d \in Defs : defs'[d] \in Seq(Objects)
    BY <1>e DEF IInv
  <2>3. heap' \in [Objects -> Container \cup {Freed}]
    BY <1>n, <1>d, <1>h, <1>e, <1>r, <1>v DEF IInv, TypeOK
  <2>4. requests' \in 0..MaxRequests
    BY <1>n, <1>d, <1>h, <1>e, <1>r, <1>v DEF IInv, TypeOK
  <2>5. phase' \in {"idle", "build", "execute", "get", "transmit", "failed", "error", "end", "dead"}
    BY <1>n, <1>d, <1>h, <1>e, <1>r, <1>v DEF IInv, TypeOK
  <2>6. Len(cmds') <= MaxCommands
    BY <1>n, <1>d, <1>h, <1>e, <1>r, <1>v DEF IInv, TypeOK
  <2>7. \A i \in DOMAIN cmds' : cmds'[i].cmd \in Commands /\ cmds'[i].containers \in Seq(Objects)
    BY <1>n, <1>d, <1>h, <1>e, <1>r, <1>v DEF IInv, TypeOK
  <2>8. next' \in 0..MaxCommands + 1
    BY <1>n, <1>v, ListsAre, RequestAssumption DEF IInv, TypeOK
  <2>9. k' \in 0..MaxContainers + 1
    BY <1>n, <1>d, <1>h, <1>e, <1>r, <1>v DEF IInv, TypeOK
  <2>10. undefined' \in BOOLEAN /\ tame' \in BOOLEAN /\ early' \subseteq Compressed
    BY <1>n, <1>d, <1>h, <1>e, <1>r, <1>v DEF IInv, TypeOK
  <2>11. answer' \in Seq({"response", "part", "status", "error"})
    BY <1>n, <1>d, <1>h, <1>e, <1>r, <1>v DEF IInv, TypeOK
  <2>12. cache' \in BOOLEAN /\ recorded' \subseteq Compressed
    BY <1>n, <1>d, <1>h, <1>e, <1>r, <1>v DEF IInv, TypeOK
  <2>13. hasResponse' \in BOOLEAN
    BY <1>n, <1>d, <1>h, <1>e, <1>r, <1>v DEF IInv, TypeOK
  <2> QED
    BY <2>1, <2>2, <2>3, <2>4, <2>5, <2>6, <2>7, <2>8, <2>9, <2>10, <2>11, <2>12, <2>13 DEF TypeOK
<1>2. SeqInv'
  BY <1>n, <1>d, <1>h, <1>e, <1>o, <1>r, <1>t, <1>v DEF IInv, SeqInv
<1>3. PlaceInv'
  BY <1>n, <1>d, <1>h, <1>e, <1>o, <1>r, <1>t, <1>v, ListsAre DEF IInv, PlaceInv, TypeOK
<1>4. HeapInv'
  BY <1>n, <1>d, <1>h, <1>e, <1>o, <1>r, <1>t, <1>v DEF IInv, HeapInv
<1>5. LiveInv'
  <2>1. \A d \in Defs : \A x \in ToSet(defs[d]) : x \in Objects
    BY Elements DEF IInv, SeqInv
  <2>2. \A d \in Defs : d # Now.def => \A x \in ToSet(defs[d]) : heap'[x] = heap[x]
    BY <1>h, <1>o, <2>1
  <2>3. \A d \in Defs : ToSet(defs'[d]) = IF d = Now.def THEN {} ELSE ToSet(defs[d])
    BY <1>e DEF ToSet
  <2>4. \A d \in Defs : \A x \in ToSet(defs'[d]) :
          heap'[x] # Freed /\ \A e \in Defs \ {d} : x \notin ToSet(defs'[e])
    BY <2>2, <2>3 DEF IInv, LiveInv
  <2>5. ToSet(ToRelease') = {}
    BY <1>r, <1>t DEF ToSet
  <2> QED
    BY <1>v, <2>4, <2>5 DEF LiveInv
<1>6. AnswerInv'
  BY <1>n, <1>d, <1>h, <1>e, <1>o, <1>r, <1>t, <1>v DEF IInv, AnswerInv, ErrorEndsAnswer
<1>7. RecordedInv'
  BY <1>n, <1>d, <1>h, <1>e, <1>o, <1>r, <1>t, <1>v DEF IInv, RecordedInv
<1>8. MadeInv'
  <2> SUFFICES ASSUME NEW i \in DOMAIN cmds', cmds'[i].cmd.op = "define",
                      NEW x \in ToSet(cmds'[i].containers), heap'[x].cached = "yes"
               PROVE  heap'[x].target \in recorded'
    BY DEF MadeInv
  <2>1. i \in DOMAIN cmds /\ cmds[i].cmd.op = "define" /\ x \in ToSet(cmds[i].containers) /\ x \in Objects
    BY <1>r, ListsAre, Elements
  <2>2. heap'[x] = heap[x]
    BY <1>h, <2>1 DEF Freed
  <2> QED
    BY <1>n, <1>v, <2>1, <2>2 DEF IInv, MadeInv
<1>9. NewInv'
  BY <1>n, <1>d, <1>h, <1>e, <1>o, <1>r, <1>t, <1>v, ListsAre, Elements, ContainerFacts
    DEF IInv, NewInv, PlaceInv, HeapInv, ToSet, Last
<1>10. FreshInv'
  BY <1>n, <1>d, <1>h, <1>e, <1>o, <1>r, <1>t, <1>v DEF IInv, FreshInv
<1>11. HeldInv'
  BY <1>n, <1>d, <1>h, <1>e, <1>o, <1>r, <1>t, <1>v DEF IInv, HeldInv
<1>12. TameInv'
  BY <1>n, <1>d, <1>h, <1>e, <1>o, <1>r, <1>t, <1>v DEF IInv, TameInv
<1> QED
  BY <1>1, <1>2, <1>3, <1>4, <1>5, <1>6, <1>7, <1>8, <1>9, <1>10, <1>11, <1>12 DEF IInv

LEMMA AccessInv ==
  ASSUME IInv, Access
  PROVE  IInv'
<1> USE DEF Access, Early
<1>u. /\ next \in DOMAIN cmds /\ Used \in Seq(Objects) /\ Len(Used) <= MaxContainers /\ k \in DOMAIN Used
      /\ Used[k] \in Objects /\ Used[k] \in ToSet(Used) /\ heap[Used[k]] \in Container /\ heap[Used[k]] # Freed
      /\ cmds[next].containers = Used /\ cmds[next].cmd.op = "get" /\ phase = "get" /\ Used' = Used
      /\ k \in 1..Len(Used)
      /\ next = Len(cmds) => ToRelease = Used
      /\ next # Len(cmds) => ToRelease = <<>>
  <2>1. next \in DOMAIN cmds /\ Used = cmds[next].containers /\ cmds[next].cmd.op = "get"
    BY DEF IInv, PlaceInv, Used
  <2>2. Used \in Seq(Objects) /\ Len(Used) <= MaxContainers
    BY <2>1, ListsAre DEF IInv, SeqInv
  <2>3. k \in DOMAIN Used /\ k \in 1..Len(Used)
    BY <2>2, KPositive
  <2>4. Used[k] \in Objects /\ Used[k] \in ToSet(Used)
    BY <2>2, <2>3, Elements
  <2>5. heap[Used[k]] # Freed /\ heap[Used[k]] \in Container
    BY <2>4 DEF IInv, LiveInv, TypeOK
  <2>6. Used' = Used
    BY DEF Used
  <2>7. next = Len(cmds) => ToRelease = Used
    BY <2>1, ListsAre
  <2>8. next # Len(cmds) => ToRelease = <<>>
    <3>1. next # Len(cmds) => Len(cmds) \in DOMAIN cmds /\ Len(cmds) > next /\ next # 0
      BY <2>1, ListsAre
    <3> QED
      BY <3>1, ListsAre DEF IInv, PlaceInv
  <2> QED
    BY <2>1, <2>2, <2>3, <2>4, <2>5, <2>6, <2>7, <2>8
<1>r. ToRelease' = ToRelease /\ Last(cmds)' = Last(cmds) /\ cmds' = cmds
  BY DEF ToRelease, Last
<1> DEFINE o == Used[k] f == heap[o].file
<1>f. f \in Files /\ heap \in [Objects -> Container \cup {Freed}] /\ heap[o].target \in Files \cup {NoFile}
      /\ heap[o].cached \in {"unset", "yes", "no"}
  BY <1>u, ContainerFacts DEF IInv, TypeOK
<1>h. /\ heap' \in [Objects -> Container \cup {Freed}] /\ heap'[o] \in Container
      /\ heap'[o].file = f /\ heap'[o].cached = (IF f \in Compressed THEN "yes" ELSE "no")
      /\ heap'[o].target = (IF f \in Compressed THEN f ELSE heap[o].target)
      /\ \A p \in Objects : p # o => heap'[p] = heap[p]
  <2> DEFINE g == [heap EXCEPT ![o].cached = IF f \in Compressed THEN "yes" ELSE "no"]
  <2>1. heap' = [g EXCEPT ![o].target = IF f \in Compressed THEN f ELSE heap[o].target]
    BY <1>u, <1>f
  <2>2. /\ g \in [Objects -> Container \cup {Freed}] /\ g[o] \in Container /\ g[o].file = f
        /\ g[o].cached = (IF f \in Compressed THEN "yes" ELSE "no") /\ g[o].target = heap[o].target
        /\ \A p \in Objects : p # o => g[p] = heap[p]
    BY <1>u, <1>f DEF Container
  <2> DEFINE t == IF f \in Compressed THEN f ELSE heap[o].target
  <2>3. t \in Files \cup {NoFile} /\ o \in Objects
    BY <1>u, <1>f
  <2>4. heap' = [g EXCEPT ![o].target = t]
    BY <2>1
  <2> HIDE DEF g, t, o, f, Access
  <2>5. /\ heap' \in [Objects -> Container \cup {Freed}] /\ heap'[o] \in Container
        /\ heap'[o].file = g[o].file /\ heap'[o].cached = g[o].cached /\ heap'[o].target = t
        /\ \A p \in Objects : p # o => heap'[p] = g[p]
    BY <2>2, <2>3, <2>4 DEF Container
  <2> QED
    BY <2>2, <2>5 DEF t
<1>v. /\ recorded' = recorded \cup ({f} \cap Compressed) /\ cache' = TRUE /\ k' = k + 1
      /\ early' = IF next < Len(cmds) /\ f \in Compressed THEN early \cup {f} ELSE early
      /\ UNCHANGED <<store, requests, defs, phase, cmds, next, hasResponse, answer, undefined, tame>>
  OBVIOUS
<1>g. o = Used[k] /\ f = heap[o].file
  OBVIOUS
<1> HIDE DEF o, f
<1> HIDE DEF Access
<1>1. TypeOK'
  <2>1. store' \in [Names -> Files \cup {NoFile}]
    BY <1>u, <1>r, <1>f, <1>h, <1>v DEF IInv, TypeOK
  <2>2. \A d \in Defs : defs'[d] \in Seq(Objects)
    BY <1>u, <1>r, <1>f, <1>h, <1>v DEF IInv, TypeOK
  <2>3. heap' \in [Objects -> Container \cup {Freed}]
    BY <1>u, <1>r, <1>f, <1>h, <1>v DEF IInv, TypeOK
  <2>4. requests' \in 0..MaxRequests
    BY <1>u, <1>r, <1>f, <1>h, <1>v DEF IInv, TypeOK
  <2>5. phase' \in {"idle", "build", "execute", "get", "transmit", "failed", "error", "end", "dead"}
    BY <1>u, <1>r, <1>f, <1>h, <1>v DEF IInv, TypeOK
  <2>6. Len(cmds') <= MaxCommands
    BY <1>u, <1>r, <1>f, <1>h, <1>v DEF IInv, TypeOK
  <2>7. \A i \in DOMAIN cmds' : cmds'[i].cmd \in Commands /\ cmds'[i].containers \in Seq(Objects)
    BY <1>u, <1>r, <1>f, <1>h, <1>v DEF IInv, TypeOK
  <2>8. next' \in 0..MaxCommands + 1
    BY <1>u, <1>r, <1>f, <1>h, <1>v DEF IInv, TypeOK
  <2>9. k' \in 0..MaxContainers + 1
    BY <1>u, <1>v, RequestAssumption DEF IInv, TypeOK
  <2>10. undefined' \in BOOLEAN /\ tame' \in BOOLEAN /\ early' \subseteq Compressed
    BY <1>u, <1>r, <1>f, <1>h, <1>v DEF IInv, TypeOK
  <2>11. answer' \in Seq({"response", "part", "status", "error"})
    BY <1>u, <1>r, <1>f, <1>h, <1>v DEF IInv, TypeOK
  <2>12. cache' \in BOOLEAN /\ recorded' \subseteq Compressed
    BY <1>u, <1>r, <1>f, <1>h, <1>v DEF IInv, TypeOK
  <2>13. hasResponse' \in BOOLEAN
    BY <1>u, <1>r, <1>f, <1>h, <1>v DEF IInv, TypeOK
  <2> QED
    BY <2>1, <2>2, <2>3, <2>4, <2>5, <2>6, <2>7, <2>8, <2>9, <2>10, <2>11, <2>12, <2>13 DEF TypeOK
<1>2. SeqInv'
  BY <1>u, <1>r, <1>f, <1>h, <1>v, <1>g DEF IInv, SeqInv
<1>3. PlaceInv'
  BY <1>u, <1>r, <1>f, <1>h, <1>v, <1>g DEF IInv, PlaceInv
<1>4. HeapInv'
  BY <1>u, <1>r, <1>f, <1>h, <1>v, <1>g DEF IInv, HeapInv
<1>5. LiveInv'
  <2>1. \A d \in Defs : \A x \in ToSet(defs[d]) : x \in Objects
    BY Elements DEF IInv, SeqInv
  <2>2. ToSet(ToRelease) \subseteq Objects /\ ToSet(Used) \subseteq Objects
    BY <1>u, ListsAre, Elements
  <2>3. \A x \in Objects : heap[x] # Freed => heap'[x] # Freed
    BY <1>h, ContainerFacts
  <2> QED
    BY <1>u, <1>v, <1>r, <2>1, <2>2, <2>3 DEF IInv, LiveInv
<1>6. AnswerInv'
  BY <1>u, <1>r, <1>f, <1>h, <1>v, <1>g DEF IInv, AnswerInv, ErrorEndsAnswer
<1>7. RecordedInv'
  BY <1>u, <1>r, <1>f, <1>h, <1>v, <1>g, ListsAre DEF IInv, RecordedInv, PlaceInv, TypeOK, HeapInv
<1>8. MadeInv'
  <2> SUFFICES ASSUME NEW i \in DOMAIN cmds', cmds'[i].cmd.op = "define",
                      NEW x \in ToSet(cmds'[i].containers), heap'[x].cached = "yes"
               PROVE  heap'[x].target \in recorded'
    BY DEF MadeInv
  <2>1. i \in DOMAIN cmds /\ cmds[i].cmd.op = "define" /\ x \in ToSet(cmds[i].containers) /\ x \in Objects
    BY <1>r, ListsAre, Elements
  <2>2. CASE x = o
    BY <1>h, <1>v, <2>2
  <2>3. CASE x # o
    BY <1>u, <1>h, <1>v, <2>1, <2>3 DEF IInv, MadeInv
  <2> QED
    BY <2>2, <2>3
<1>9. NewInv'
  <2>1. Last(cmds).cmd.op = "define" => ToRelease = <<>>
    BY <1>u DEF Last
  <2> QED
    BY <1>r, <2>1 DEF NewInv, ToSet
<1>10. FreshInv'
  BY <1>u, <1>r, <1>f, <1>h, <1>v, <1>g DEF IInv, FreshInv
<1>11. HeldInv'
  BY <1>u, <1>r, <1>f, <1>h, <1>v, <1>g DEF IInv, HeldInv
<1>12. TameInv'
  BY <1>u, <1>r, <1>f, <1>h, <1>v, <1>g DEF IInv, TameInv
<1> QED
  BY <1>1, <1>2, <1>3, <1>4, <1>5, <1>6, <1>7, <1>8, <1>9, <1>10, <1>11, <1>12 DEF IInv

LEMMA AccessFailsInv ==
  ASSUME IInv, AccessFails
  PROVE  IInv'
<1> USE DEF AccessFails, Throws
<1>u. /\ next \in DOMAIN cmds /\ Used \in Seq(Objects) /\ Len(Used) <= MaxContainers /\ k \in DOMAIN Used
      /\ Used[k] \in Objects /\ Used[k] \in ToSet(Used) /\ heap[Used[k]] \in Container /\ heap[Used[k]] # Freed
      /\ cmds[next].containers = Used /\ cmds[next].cmd.op = "get" /\ phase = "get" /\ Used' = Used
      /\ k \in 1..Len(Used)
      /\ next = Len(cmds) => ToRelease = Used
      /\ next # Len(cmds) => ToRelease = <<>>
  <2>1. next \in DOMAIN cmds /\ Used = cmds[next].containers /\ cmds[next].cmd.op = "get"
    BY DEF IInv, PlaceInv, Used
  <2>2. Used \in Seq(Objects) /\ Len(Used) <= MaxContainers
    BY <2>1, ListsAre DEF IInv, SeqInv
  <2>3. k \in DOMAIN Used /\ k \in 1..Len(Used)
    BY <2>2, KPositive
  <2>4. Used[k] \in Objects /\ Used[k] \in ToSet(Used)
    BY <2>2, <2>3, Elements
  <2>5. heap[Used[k]] # Freed /\ heap[Used[k]] \in Container
    BY <2>4 DEF IInv, LiveInv, TypeOK
  <2>6. Used' = Used
    BY DEF Used
  <2>7. next = Len(cmds) => ToRelease = Used
    BY <2>1, ListsAre
  <2>8. next # Len(cmds) => ToRelease = <<>>
    <3>1. next # Len(cmds) => Len(cmds) \in DOMAIN cmds /\ Len(cmds) > next /\ next # 0
      BY <2>1, ListsAre
    <3> QED
      BY <3>1, ListsAre DEF IInv, PlaceInv
  <2> QED
    BY <2>1, <2>2, <2>3, <2>4, <2>5, <2>6, <2>7, <2>8
<1>r. ToRelease' = ToRelease /\ Last(cmds)' = Last(cmds) /\ cmds' = cmds
  BY DEF ToRelease, Last
<1> DEFINE o == Used[k] f == heap[o].file
<1>f. f \in Files /\ heap \in [Objects -> Container \cup {Freed}] /\ heap[o].target \in Files \cup {NoFile}
      /\ heap[o].cached \in {"unset", "yes", "no"}
  BY <1>u, ContainerFacts DEF IInv, TypeOK
<1>h. /\ heap' \in [Objects -> Container \cup {Freed}] /\ heap'[o] \in Container
      /\ heap'[o].file = f /\ heap'[o].cached = heap[o].cached /\ heap'[o].target = f
      /\ \A p \in Objects : p # o => heap'[p] = heap[p]
  <2>1. heap' = [heap EXCEPT ![o].target = f]
    OBVIOUS
  <2> HIDE DEF f
  <2> QED
    BY <1>u, <1>f, <2>1 DEF Container, f
<1>v. /\ f \in Compressed /\ cache' = TRUE /\ phase' = "failed"
      /\ (recorded' = recorded /\ early' = early) \/ (recorded' = recorded \cup {f} /\ early' = early \cup {f})
      /\ UNCHANGED <<next, store, requests, defs, cmds, k, hasResponse, answer, undefined, tame>>
  OBVIOUS
<1>g. o = Used[k] /\ f = heap[o].file
  OBVIOUS
<1> HIDE DEF o, f
<1> HIDE DEF AccessFails
<1>1. TypeOK'
  BY <1>u, <1>r, <1>f, <1>h, <1>v, <1>g DEF IInv, TypeOK
<1>2. SeqInv'
  BY <1>u, <1>r, <1>f, <1>h, <1>v, <1>g DEF IInv, SeqInv
<1>3. PlaceInv'
  BY <1>u, <1>r, <1>f, <1>h, <1>v, <1>g DEF IInv, PlaceInv
<1>4. HeapInv'
  BY <1>u, <1>r, <1>f, <1>h, <1>v, <1>g DEF IInv, HeapInv
<1>5. LiveInv'
  <2>1. \A d \in Defs : \A x \in ToSet(defs[d]) : x \in Objects
    BY Elements DEF IInv, SeqInv
  <2>2. ToSet(ToRelease) \subseteq Objects /\ ToSet(Used) \subseteq Objects
    BY <1>u, ListsAre, Elements
  <2>3. \A x \in Objects : heap[x] # Freed => heap'[x] # Freed
    BY <1>h, ContainerFacts
  <2> QED
    BY <1>u, <1>v, <1>r, <2>1, <2>2, <2>3 DEF IInv, LiveInv
<1>6. AnswerInv'
  BY <1>u, <1>r, <1>f, <1>h, <1>v, <1>g DEF IInv, AnswerInv, ErrorEndsAnswer
<1>7. RecordedInv'
  <2>1. recorded' # {} => cache'
    BY <1>v
  <2>2. ASSUME NEW g \in recorded' \ early'
        PROVE  \E i \in DOMAIN ToRelease : heap'[ToRelease[i]].cached = "yes" /\ heap'[ToRelease[i]].target = g
    <3>1. g \in recorded \ early
      BY <1>v, <2>2
    <3>2. PICK i \in DOMAIN ToRelease : heap[ToRelease[i]].cached = "yes" /\ heap[ToRelease[i]].target = g
      BY <3>1 DEF IInv, RecordedInv
    <3>3. ToRelease[i] \in Objects /\ heap[ToRelease[i]] # Freed
      BY ListsAre, Elements DEF IInv, LiveInv
    <3>4. CASE ToRelease[i] = o
      <4>1. g = f
        BY <1>g, <3>2, <3>3, <3>4 DEF IInv, HeapInv
      <4> QED
        BY <1>h, <3>2, <3>4, <4>1
    <3>5. CASE ToRelease[i] # o
      BY <1>h, <3>2, <3>3, <3>5
    <3> QED
      BY <3>4, <3>5
  <2> QED
    BY <1>r, <1>v, <2>1, <2>2 DEF RecordedInv
<1>8. MadeInv'
  <2> SUFFICES ASSUME NEW i \in DOMAIN cmds, cmds[i].cmd.op = "define",
                      NEW x \in ToSet(cmds[i].containers), heap'[x].cached = "yes"
               PROVE  heap'[x].target \in recorded'
    BY <1>r DEF MadeInv
  <2>1. x \in Objects
    BY ListsAre, Elements
  <2>2. heap[x].cached = "yes"
    BY <1>h, <2>1
  <2>3. heap[x].target \in recorded
    BY <1>u, <2>2 DEF IInv, MadeInv
  <2>4. CASE x = o
    <3>1. heap[x].target = f
      BY <1>u, <1>g, <2>2, <2>4 DEF IInv, HeapInv
    <3> QED
      BY <1>h, <1>v, <2>3, <2>4, <3>1
  <2>5. CASE x # o
    BY <1>h, <1>v, <2>1, <2>3, <2>5
  <2> QED
    BY <2>4, <2>5
<1>9. NewInv'
  <2>1. Last(cmds).cmd.op = "define" => ToRelease = <<>>
    BY <1>u DEF Last
  <2> QED
    BY <1>r, <2>1 DEF NewInv, ToSet
<1>10. FreshInv'
  BY <1>u, <1>r, <1>f, <1>h, <1>v, <1>g DEF IInv, FreshInv
<1>11. HeldInv'
  BY <1>u, <1>r, <1>f, <1>h, <1>v, <1>g DEF IInv, HeldInv
<1>12. TameInv'
  BY <1>u, <1>r, <1>f, <1>h, <1>v, <1>g DEF IInv, TameInv
<1> QED
  BY <1>1, <1>2, <1>3, <1>4, <1>5, <1>6, <1>7, <1>8, <1>9, <1>10, <1>11, <1>12 DEF IInv

LEMMA ReleaseInv ==
  ASSUME IInv, Release
  PROVE  IInv'
<1> USE DEF Release
<1>r. ToRelease' = ToRelease /\ Last(cmds)' = Last(cmds) /\ cmds' = cmds
  BY DEF ToRelease, Last
<1>u. /\ ToRelease \in Seq(Objects) /\ Len(ToRelease) <= MaxContainers /\ k \in DOMAIN ToRelease
      /\ k \in 1..Len(ToRelease)
      /\ cmds # <<>> /\ ToRelease # <<>> /\ cmds[Len(cmds)].containers = ToRelease /\ Len(cmds) \in DOMAIN cmds
      /\ Last(cmds).cmd.op \in {"get", "define"}
  <2>1. ToRelease \in Seq(Objects) /\ Len(ToRelease) <= MaxContainers /\ Len(ToRelease) \in Nat
    BY ListsAre
  <2>2. k \in DOMAIN ToRelease /\ k \in 1..Len(ToRelease)
    BY <2>1, KPositive
  <2>3. ToRelease # <<>>
    BY <2>2
  <2>4. cmds # <<>> /\ cmds[Len(cmds)].containers = ToRelease /\ Len(cmds) \in DOMAIN cmds
    BY <2>3, ListsAre
  <2>5. Last(cmds).cmd.op \in {"get", "define"}
    BY <2>3, <2>4 DEF IInv, PlaceInv, Last
  <2> QED
    BY <2>1, <2>2, <2>3, <2>4, <2>5
<1>v. PICK unset \in Garbage :
        LET o == ToRelease[k] x == heap[o]
            unlocks == x.cached = "yes" \/ (x.cached = "unset" /\ unset)
        IN /\ tame' = (tame /\ ~(x.cached = "unset" /\ unset))
           /\ recorded' = IF unlocks /\ cache THEN recorded \ {x.target} ELSE recorded
           /\ undefined' = (unlocks /\ cache /\ x.target \notin recorded)
           /\ k' = IF unlocks /\ ~cache THEN Len(ToRelease) + 1 ELSE k + 1
  OBVIOUS
<1>w. /\ phase = "end" /\ phase' = IF undefined' THEN "dead" ELSE phase
      /\ UNCHANGED <<store, requests, defs, heap, cache, cmds, next, hasResponse, answer, early>>
  OBVIOUS
<1> HIDE DEF Release
<1>1. TypeOK'
  BY <1>u, <1>r, <1>v, <1>w, ListsAre, CommandFacts, RequestAssumption
    DEF IInv, TypeOK, SeqInv, PlaceInv, Parsed, Command
<1>2. SeqInv'
  BY <1>u, <1>r, <1>v, <1>w DEF IInv, SeqInv
<1>3. PlaceInv'
  BY <1>u, <1>r, <1>v, <1>w DEF IInv, PlaceInv
<1>4. HeapInv'
  BY <1>u, <1>r, <1>v, <1>w DEF IInv, HeapInv
<1>5. LiveInv'
  BY <1>u, <1>r, <1>v, <1>w DEF IInv, LiveInv
<1>6. AnswerInv'
  BY <1>u, <1>r, <1>v, <1>w DEF IInv, AnswerInv, ErrorEndsAnswer
<1>7. RecordedInv'
  BY <1>u, <1>r, <1>v, <1>w DEF IInv, RecordedInv
<1>8. MadeInv'
  BY <1>u, <1>r, <1>v, <1>w DEF IInv, MadeInv
<1>9. NewInv'
  BY <1>u, <1>r, <1>v, <1>w DEF IInv, NewInv
<1>10. FreshInv'
  BY <1>u, <1>r, <1>v, <1>w DEF IInv, FreshInv
<1>11. HeldInv'
  <2> SUFFICES ASSUME tame', NEW i \in DOMAIN ToRelease, i >= k', heap[ToRelease[i]].cached = "yes"
               PROVE  heap[ToRelease[i]].target \in recorded'
    BY <1>r, <1>w DEF HeldInv
  <2> DEFINE o == ToRelease[k] x == heap[o]
             unlocks == x.cached = "yes" \/ (x.cached = "unset" /\ unset)
  <2>1. tame /\ ~(x.cached = "unset" /\ unset) /\ i \in 1..Len(ToRelease) /\ Len(ToRelease) \in Nat
    <3>1. tame /\ ~(x.cached = "unset" /\ unset)
      BY <1>v, Zenon
    <3> QED
      BY <1>r, <3>1, ListsAre
  <2>2. i > k /\ (unlocks => cache)
    <3>1. k' = IF unlocks /\ ~cache THEN Len(ToRelease) + 1 ELSE k + 1
      BY <1>v
    <3> HIDE DEF unlocks
    <3> QED
      BY <1>u, <2>1, <3>1
  <2>3. heap[ToRelease[i]].target \in recorded
    <3>1. \A j \in DOMAIN ToRelease : j >= k /\ heap[ToRelease[j]].cached = "yes"
                    => heap[ToRelease[j]].target \in recorded
      BY <1>w, <2>1, Zenon DEF IInv, HeldInv
    <3>2. i >= k
      BY <1>u, <2>1, <2>2
    <3> QED
      BY <3>1, <3>2
  <2>4. CASE ~unlocks
    BY <1>v, <2>3, <2>4
  <2>5. CASE unlocks
    <3>1. x.cached = "yes" /\ recorded' = recorded \ {x.target}
      BY <1>v, <2>1, <2>2, <2>5
    <3>2. Last(cmds).cmd.op = "get"
      <4>1. o \in ToSet(ToRelease)
        BY <1>u DEF ToSet
      <4> QED
        BY <1>u, <3>1, <4>1 DEF IInv, NewInv
    <3>3. heap[ToRelease[i]].file = x.file => x.file \notin Compressed
      BY <1>u, <2>1, <2>2, <3>2 DEF IInv, FreshInv
    <3>4. \A j \in DOMAIN ToRelease : heap[ToRelease[j]].cached = "yes" =>
            heap[ToRelease[j]].target = heap[ToRelease[j]].file /\ heap[ToRelease[j]].file \in Compressed
      <4>1. \A j \in DOMAIN ToRelease : ToRelease[j] \in Objects /\ heap[ToRelease[j]] # Freed
        BY ListsAre, Elements DEF IInv, LiveInv
      <4>2. \A p \in Objects : heap[p] # Freed => heap[p].file \in Files
        BY ContainerFacts DEF IInv, TypeOK
      <4> QED
        BY <4>1, <4>2, RequestAssumption DEF IInv, HeapInv
    <3> QED
      BY <1>u, <2>3, <3>1, <3>3, <3>4
  <2> QED
    BY <2>4, <2>5
<1>12. TameInv'
  <2> DEFINE x == heap[ToRelease[k]]
  <2>1. CASE ~undefined'
    BY <2>1 DEF TameInv
  <2>2. CASE undefined'
    <3>1. x.target \notin recorded /\ (x.cached = "yes" \/ (x.cached = "unset" /\ unset))
      BY <1>v, <2>2
    <3>2. tame => x.cached # "yes"
      BY <1>u, <1>w, <3>1 DEF IInv, HeldInv
    <3>3. ~tame'
      BY <1>v, <3>1, <3>2, Zenon
    <3> QED
      BY <1>w, <2>2, <3>3 DEF TameInv
  <2> QED
    BY <2>1, <2>2
<1> QED
  BY <1>1, <1>2, <1>3, <1>4, <1>5, <1>6, <1>7, <1>8, <1>9, <1>10, <1>11, <1>12 DEF IInv

LEMMA CleanInv ==
  ASSUME IInv, Clean
  PROVE  IInv'
<1> USE DEF Clean, NoRequest
<1>r. cmds' = <<>> /\ ToRelease' = <<>> /\ recorded' \subseteq early' /\ ~undefined
  <2>1. \A i \in DOMAIN ToRelease : ~(i >= k)
    BY ListsAre DEF IInv, TypeOK
  <2>2. recorded \subseteq early
    BY <2>1 DEF IInv, RecordedInv
  <2> QED
    BY <2>2 DEF ToRelease, IInv, TameInv
<1> DEFINE kept == UNION {ToSet(defs[d]) : d \in Defs}
<1>h. /\ heap' \in [Objects -> Container \cup {Freed}]
      /\ \A o \in Objects \ kept : heap'[o] = Freed
      /\ \A d \in Defs : \A o \in ToSet(defs[d]) : heap'[o] = heap[o]
  <2>1. heap \in [Objects -> Container \cup {Freed}] /\ heap' = Delete(heap, Objects \ kept)
    BY DEF IInv, TypeOK
  <2>2. \A d \in Defs : \A o \in ToSet(defs[d]) : o \in kept /\ o \in Objects
    BY Elements DEF IInv, SeqInv
  <2> HIDE DEF kept
  <2> QED
    BY <2>1, <2>2, Deleted
<1>k. \A o \in Objects : heap'[o] = Freed \/ heap'[o] = heap[o]
  BY <1>h
<1> HIDE DEF kept
<1>1. TypeOK'
  <2>1. store' \in [Names -> Files \cup {NoFile}]
    BY <1>r, <1>h, RequestAssumption DEF IInv, TypeOK
  <2>2. \A d \in Defs : defs'[d] \in Seq(Objects)
    BY <1>r, <1>h, RequestAssumption DEF IInv, TypeOK
  <2>3. heap' \in [Objects -> Container \cup {Freed}]
    BY <1>r, <1>h, RequestAssumption DEF IInv, TypeOK
  <2>4. requests' \in 0..MaxRequests
    BY DEF IInv, TypeOK
  <2>5. phase' \in {"idle", "build", "execute", "get", "transmit", "failed", "error", "end", "dead"}
    BY <1>r, <1>h, RequestAssumption DEF IInv, TypeOK
  <2>6. Len(cmds') <= MaxCommands
    BY <1>r, <1>h, RequestAssumption DEF IInv, TypeOK
  <2>7. \A i \in DOMAIN cmds' : cmds'[i].cmd \in Commands /\ cmds'[i].containers \in Seq(Objects)
    BY <1>r, <1>h, RequestAssumption DEF IInv, TypeOK
  <2>8. next' \in 0..MaxCommands + 1
    BY <1>r, <1>h, RequestAssumption DEF IInv, TypeOK
  <2>9. k' \in 0..MaxContainers + 1
    BY <1>r, <1>h, RequestAssumption DEF IInv, TypeOK
  <2>10. undefined' \in BOOLEAN /\ tame' \in BOOLEAN /\ early' \subseteq Compressed
    BY <1>r, <1>h, RequestAssumption DEF IInv, TypeOK
  <2>11. answer' \in Seq({"response", "part", "status", "error"})
    BY <1>r, <1>h, RequestAssumption DEF IInv, TypeOK
  <2>12. cache' \in BOOLEAN /\ recorded' \subseteq Compressed
    BY DEF IInv, TypeOK
  <2>13. hasResponse' \in BOOLEAN
    BY <1>r, <1>h, RequestAssumption DEF IInv, TypeOK
  <2> QED
    BY <2>1, <2>2, <2>3, <2>4, <2>5, <2>6, <2>7, <2>8, <2>9, <2>10, <2>11, <2>12, <2>13 DEF TypeOK
<1>2. SeqInv'
  BY <1>r, <1>h, <1>k DEF IInv, SeqInv
<1>3. PlaceInv'
  BY <1>r, <1>h, <1>k DEF IInv, PlaceInv
<1>4. HeapInv'
  BY <1>r, <1>h, <1>k DEF IInv, HeapInv
<1>5. LiveInv'
  BY <1>r, <1>h, <1>k DEF IInv, LiveInv, Used, ToSet
<1>6. AnswerInv'
  BY <1>r, <1>h, <1>k DEF IInv, AnswerInv, ErrorEndsAnswer
<1>7. RecordedInv'
  BY <1>r, <1>h, <1>k DEF IInv, RecordedInv
<1>8. MadeInv'
  BY <1>r, <1>h, <1>k DEF IInv, MadeInv
<1>9. NewInv'
  BY <1>r, <1>h, <1>k DEF IInv, NewInv
<1>10. FreshInv'
  BY <1>r, <1>h, <1>k DEF IInv, FreshInv
<1>11. HeldInv'
  BY <1>r, <1>h, <1>k DEF IInv, HeldInv
<1>12. TameInv'
  BY <1>r, <1>h, <1>k DEF IInv, TameInv
<1> QED
  BY <1>1, <1>2, <1>3, <1>4, <1>5, <1>6, <1>7, <1>8, <1>9, <1>10, <1>11, <1>12 DEF IInv

LEMMA NextChildInv ==
  ASSUME IInv, NextChild
  PROVE  IInv'
<1> USE DEF NextChild, NoRequest
<1>r. cmds' = <<>> /\ ToRelease' = <<>>
  BY DEF ToRelease
<1>1. TypeOK'
  <2>1. store' \in [Names -> Files \cup {NoFile}]
    BY <1>r, RequestAssumption DEF IInv, TypeOK
  <2>2. \A d \in Defs : defs'[d] \in Seq(Objects)
    BY DEF NoDef
  <2>3. heap' \in [Objects -> Container \cup {Freed}]
    BY <1>r, RequestAssumption DEF IInv, TypeOK
  <2>4. requests' \in 0..MaxRequests
    BY <1>r, RequestAssumption DEF IInv, TypeOK
  <2>5. phase' \in {"idle", "build", "execute", "get", "transmit", "failed", "error", "end", "dead"}
    BY <1>r, RequestAssumption DEF IInv, TypeOK
  <2>6. Len(cmds') <= MaxCommands
    BY <1>r, RequestAssumption DEF IInv, TypeOK
  <2>7. \A i \in DOMAIN cmds' : cmds'[i].cmd \in Commands /\ cmds'[i].containers \in Seq(Objects)
    BY <1>r, RequestAssumption DEF IInv, TypeOK
  <2>8. next' \in 0..MaxCommands + 1
    BY <1>r, RequestAssumption DEF IInv, TypeOK
  <2>9. k' \in 0..MaxContainers + 1
    BY <1>r, RequestAssumption DEF IInv, TypeOK
  <2>10. undefined' \in BOOLEAN /\ tame' \in BOOLEAN /\ early' \subseteq Compressed
    BY <1>r, RequestAssumption DEF IInv, TypeOK
  <2>11. answer' \in Seq({"response", "part", "status", "error"})
    BY <1>r, RequestAssumption DEF IInv, TypeOK
  <2>12. cache' \in BOOLEAN /\ recorded' \subseteq Compressed
    BY <1>r, RequestAssumption DEF IInv, TypeOK
  <2>13. hasResponse' \in BOOLEAN
    BY <1>r, RequestAssumption DEF IInv, TypeOK
  <2> QED
    BY <2>1, <2>2, <2>3, <2>4, <2>5, <2>6, <2>7, <2>8, <2>9, <2>10, <2>11, <2>12, <2>13 DEF TypeOK
<1>2. SeqInv'
  BY <1>r, ListsAre, RequestAssumption DEF IInv, SeqInv, TypeOK, NoDef
<1>3. PlaceInv'
  BY <1>r DEF IInv, PlaceInv
<1>4. HeapInv'
  BY <1>r DEF IInv, HeapInv
<1>5. LiveInv'
  BY <1>r, ListsAre, ContainerFacts, Elements DEF IInv, LiveInv, NoDef, Used, ToSet, TypeOK, SeqInv
<1>6. AnswerInv'
  BY <1>r DEF IInv, AnswerInv, ErrorEndsAnswer
<1>7. RecordedInv'
  BY <1>r DEF IInv, RecordedInv
<1>8. MadeInv'
  BY <1>r DEF IInv, MadeInv
<1>9. NewInv'
  BY <1>r DEF IInv, NewInv
<1>10. FreshInv'
  BY <1>r DEF IInv, FreshInv
<1>11. HeldInv'
  BY <1>r DEF IInv, HeldInv
<1>12. TameInv'
  BY <1>r DEF IInv, TameInv
<1> QED
  BY <1>1, <1>2, <1>3, <1>4, <1>5, <1>6, <1>7, <1>8, <1>9, <1>10, <1>11, <1>12 DEF IInv

-----------------------------------------------------------------------------
(* The theorems *)

LEMMA InitInv == Init => IInv
<1> SUFFICES ASSUME Init PROVE IInv
  OBVIOUS
<1>1. cmds = <<>> /\ DOMAIN cmds = {} /\ ToRelease = <<>> /\ answer = <<>> /\ Len(cmds) = 0
  BY DEF Init, ToRelease
<1>2. \A d \in Defs : defs[d] = <<>> /\ ToSet(defs[d]) = {} /\ Len(defs[d]) = 0
  BY DEF Init, NoDef, ToSet
<1>3. 0 \in 0..MaxRequests /\ 0 <= MaxCommands /\ 0 \in 0..MaxCommands + 1 /\ 0 \in 0..MaxContainers + 1
      /\ 0 <= MaxContainers
  BY RequestAssumption
<1>4. TypeOK
  <2>1. store \in [Names -> Files \cup {NoFile}] /\ heap \in [Objects -> Container \cup {Freed}]
    BY DEF Init
  <2>2. /\ requests \in 0..MaxRequests /\ next \in 0..MaxCommands + 1 /\ k \in 0..MaxContainers + 1
    BY <1>3 DEF Init
  <2>3. /\ cache \in BOOLEAN /\ recorded \subseteq Compressed /\ phase = "idle" /\ hasResponse \in BOOLEAN
        /\ undefined \in BOOLEAN /\ tame \in BOOLEAN /\ early \subseteq Compressed
    BY DEF Init
  <2>4. answer \in Seq({"response", "part", "status", "error"})
    BY <1>1
  <2>5. \A d \in Defs : defs[d] \in Seq(Objects)
    <3>1. <<>> \in Seq(Objects)
      OBVIOUS
    <3> QED
      BY <1>2, <3>1, Zenon
  <2>6. /\ Len(cmds) <= MaxCommands
        /\ \A i \in DOMAIN cmds : cmds[i].cmd \in Commands /\ cmds[i].containers \in Seq(Objects)
    BY <1>1, <1>3
  <2> QED
    BY <2>1, <2>2, <2>3, <2>4, <2>5, <2>6 DEF TypeOK
<1>5. SeqInv /\ PlaceInv
  BY <1>1, <1>2, <1>3 DEF Init, SeqInv, PlaceInv, NoDef
<1>6. HeapInv /\ RecordedInv /\ MadeInv /\ NewInv /\ FreshInv /\ HeldInv /\ TameInv
  BY <1>1 DEF Init, HeapInv, RecordedInv, MadeInv, NewInv, FreshInv, HeldInv, TameInv
<1>7. LiveInv
  BY <1>1, <1>2 DEF Init, LiveInv, ToSet
<1>8. AnswerInv
  BY <1>1 DEF Init, AnswerInv, ErrorEndsAnswer
<1> QED
  BY <1>4, <1>5, <1>6, <1>7, <1>8 DEF IInv

LEMMA NextInv == IInv /\ [Next]_vars => IInv'
<1> SUFFICES ASSUME IInv, [Next]_vars PROVE IInv'
  OBVIOUS
<1>1. CASE Builds
  BY <1>1, ReceiveInv, BuildInv, BuildFailsInv, BuiltInv DEF Builds
<1>2. CASE ExecutesOne
  BY <1>2, SetContainerInv, DeleteContainerInv, DefineFailsInv, DefineInv, DeleteDefinitionInv, ShowInv, GetInv,
     GetFailsInv, AccessInv, AccessFailsInv, HandlerFailsInv, AccessedInv, TransmitInv DEF ExecutesOne
<1>3. CASE Ends
  BY <1>3, SucceedsInv, SendStatusInv, FinishWithErrorInv, ReleaseInv, CleanInv, NextChildInv DEF Ends
<1>4. CASE UNCHANGED vars
  <2>1. ToRelease' = ToRelease /\ Used' = Used /\ Last(cmds)' = Last(cmds) /\ ErrorEndsAnswer' = ErrorEndsAnswer
    BY <1>4 DEF vars, childVars, histVars, ToRelease, Used, Last, ErrorEndsAnswer
  <2>2. TypeOK' /\ SeqInv' /\ PlaceInv' /\ HeapInv'
    BY <1>4 DEF vars, childVars, histVars, IInv, TypeOK, SeqInv, PlaceInv, HeapInv
  <2>3. LiveInv' /\ AnswerInv' /\ RecordedInv' /\ MadeInv' /\ NewInv' /\ FreshInv' /\ HeldInv' /\ TameInv'
    BY <1>4, <2>1 DEF vars, childVars, histVars, IInv, LiveInv, AnswerInv,
                     RecordedInv, MadeInv, NewInv, FreshInv, HeldInv, TameInv
  <2> QED
    BY <2>2, <2>3 DEF IInv
<1> QED
  BY <1>1, <1>2, <1>3, <1>4 DEF Next

LEMMA InvHolds == Spec => []IInv
BY InitInv, NextInv, PTL DEF Spec

\* The types, and no pointer to what has been deleted: what definitions hold,
\* what a get uses and what end_request() releases (BESDefine::~BESDefine()).
THEOREM ConsistentHolds == Spec => []Consistent
<1>1. IInv => Consistent
  BY DEF IInv, Consistent, NoDangling, LiveInv
<1> QED
  BY <1>1, InvHolds, PTL

\* A failed request is answered by the status and one error at the end
\* (BESServerHandler::execute(), BESInterface::finish()).
THEOREM ErrorEndsAnswerHolds == Spec => []ErrorEndsAnswer
<1>1. IInv => ErrorEndsAnswer
  BY DEF IInv, AnswerInv
<1> QED
  BY <1>1, InvHolds, PTL

\* Between requests the locked files are those that a command before the last
\* one has accessed or that could not be decompressed (end_request()).
THEOREM LastReleasesHolds == Spec => []LastReleases
<1>1. IInv => LastReleases
  <2> SUFFICES ASSUME IInv, phase = "idle" PROVE recorded \subseteq early
    BY DEF LastReleases
  <2>1. ToRelease = <<>>
    BY DEF IInv, PlaceInv, ToRelease
  <2> QED
    BY <2>1 DEF IInv, RecordedInv
<1> QED
  BY <1>1, InvHolds, PTL

\* release() looks for a file that is not locked only after a get of an earlier
\* request's definition, of two containers with one compressed file, or an
\* uninitialized _cached that reads TRUE (BESFileContainer::release()).
THEOREM DefinedForTameHolds == Spec => []DefinedForTame
<1>1. IInv => DefinedForTame
  BY DEF IInv, TameInv, DefinedForTame
<1> QED
  BY <1>1, InvHolds, PTL
=============================================================================
