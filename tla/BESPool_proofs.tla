---------------------------- MODULE BESPool_proofs ----------------------------
(***************************************************************************)
(* Proofs about BESPool: for any number of threads, any size of the pool   *)
(* and any limit of commands.                                              *)
(*                                                                         *)
(* The argument: whoever is in the middle of getClient() owns the lock, so *)
(* at most one thread is about to make a client, and it has seen an empty  *)
(* queue; with the count of the permits this bounds the queue and the      *)
(* clients in use together (Capacity).  Every open client is in one place  *)
(* (KnownInv), so their number is bounded too.                             *)
(***************************************************************************)
EXTENDS BESPool, FiniteSetTheorems, SequenceTheorems, TLAPS

-----------------------------------------------------------------------------
(* The invariant. *)

\* The threads that are at one of the places.
InPlaces(at, places) == {t \in Threads : at[t] \in places}

Places == {"idle", "lock", "take", "new", "use", "checkIn", "discard", "release"}

TypeInv ==
  /\ permits \in Nat
  /\ idle \in Seq(Client)
  /\ clients \subseteq [type : {"String"}, n : Nat]
  /\ total \in Nat
  /\ open \subseteq Nat
  /\ line \in Seq(Threads \cup {Destroyer})
  /\ pc \in [Threads -> Places]
  /\ has \in [Threads -> Client \cup {NoClient}]
  /\ closing \in {"idle", "lock", "drain", "kill", "done"}
  /\ calls \in 0..MaxCalls
  /\ thrown \in 0..MaxThrows
  /\ \A t \in Threads : pc[t] \in {"use", "checkIn", "discard"} => has[t] \in Client

\* Who is past the permit in getClient(), or in destroy(), owns the lock.
LineInv ==
  /\ \A t \in Threads : pc[t] \in {"take", "new"} => Owns(t)
  /\ closing = "drain" => Owns(Destroyer)

\* The threads that have a permit, that work with a client, and that work with
\* one or are about to make one.
HolderPlaces == Places \ {"idle", "lock"}
UserPlaces   == {"use", "checkIn", "discard"}
BusyPlaces   == UserPlaces \cup {"new"}

Busy == Cardinality(InPlaces(pc, BusyPlaces))

\* The queue and the clients in use fit in the pool together.
Capacity == Len(idle) + Busy <= MaxClients

\* The permits that threads have, and that destroy() has.
Held   == Cardinality(InPlaces(pc, HolderPlaces))
Closed == IF closing = "drain" THEN MaxClients ELSE 0

\* PermitsKept, without the subtraction.
PermitInv ==
  /\ permits + Held + Closed <= MaxClients
  /\ MaxClients <= permits + Held + Closed + thrown

\* Each client in one place, each open client in a place, the others forgotten.
KnownInv ==
  /\ NotShared
  /\ OpenAreKnown
  /\ \A t \in Users : has[t].id < total
  /\ \A t \in Threads : pc[t] \in {"use", "checkIn"} => has[t].id \in open
  /\ \A i \in open : i < total

IInv == TypeInv /\ LineInv /\ PermitInv /\ Capacity /\ KnownInv

-----------------------------------------------------------------------------
(* Counting the threads at some places. *)

LEMMA InPlacesFinite ==
  ASSUME NEW at, NEW places
  PROVE  /\ IsFiniteSet(InPlaces(at, places))
         /\ Cardinality(InPlaces(at, places)) \in Nat
<1>1. InPlaces(at, places) \in SUBSET Threads  BY DEF InPlaces
<1> QED  BY <1>1, FS_Subset, FS_CardinalityType, PoolAssumption

\* A thread that moves changes the count by itself.
LEMMA CountMoves ==
  ASSUME NEW at, at \in [Threads -> Places], NEW t \in Threads, NEW place \in Places, NEW places
  PROVE  Cardinality(InPlaces([at EXCEPT ![t] = place], places))
           = Cardinality(InPlaces(at, places)) - (IF at[t] \in places THEN 1 ELSE 0)
                                               + (IF place \in places THEN 1 ELSE 0)
<1> DEFINE before == InPlaces(at, places)
           after  == InPlaces([at EXCEPT ![t] = place], places)
<1>0. IsFiniteSet(before) /\ Cardinality(before) \in Nat  BY InPlacesFinite
<1>1. after \ {t} = before \ {t}  BY DEF InPlaces
<1>2. t \in before <=> at[t] \in places  BY DEF InPlaces
<1>3. t \in after <=> place \in places  BY DEF InPlaces
<1>4. /\ IsFiniteSet(before \ {t})
      /\ Cardinality(before \ {t}) = IF t \in before THEN Cardinality(before) - 1 ELSE Cardinality(before)
  BY <1>0, FS_RemoveElement, Zenon
<1>5. after = IF place \in places THEN (before \ {t}) \cup {t} ELSE before \ {t}
  BY <1>1, <1>3
<1>6. Cardinality((before \ {t}) \cup {t}) = Cardinality(before \ {t}) + 1
  <2> t \notin before \ {t}  OBVIOUS
  <2> QED  BY <1>4, FS_AddElement, Zenon
<1>7. Cardinality(after) = Cardinality(before) - (IF at[t] \in places THEN 1 ELSE 0)
                                             + (IF place \in places THEN 1 ELSE 0)
  <2> HIDE DEF before, after
  <2> QED  BY <1>0, <1>2, <1>4, <1>5, <1>6
<1> QED  BY <1>7

\* Those who work with a client, or make one, have a permit.
LEMMA BusyHold ==
  ASSUME NEW at
  PROVE  Cardinality(InPlaces(at, BusyPlaces)) <= Cardinality(InPlaces(at, HolderPlaces))
<1>1. InPlaces(at, BusyPlaces) \subseteq InPlaces(at, HolderPlaces)
  BY DEF InPlaces, BusyPlaces, UserPlaces, HolderPlaces, Places
<1> QED  BY <1>1, InPlacesFinite, FS_Subset

-----------------------------------------------------------------------------
(* The sequences. *)

LEMMA IdleHead ==
  ASSUME TypeInv, idle # <<>>
  PROVE  /\ Head(idle) = idle[1] /\ Head(idle) \in Client /\ 1 \in 1..Len(idle)
         /\ Tail(idle) \in Seq(Client) /\ Len(Tail(idle)) = Len(idle) - 1
         /\ \A i \in 1..Len(Tail(idle)) : Tail(idle)[i] = idle[i + 1] /\ i + 1 \in 1..Len(idle)
BY HeadTailProperties DEF TypeInv

LEMMA LineTail ==
  ASSUME TypeInv, NEW p, Owns(p)
  PROVE  Tail(line) \in Seq(Threads \cup {Destroyer})
BY DEF TypeInv, Owns

LEMMA LineAppend ==
  ASSUME TypeInv, NEW p \in Threads \cup {Destroyer}
  PROVE  /\ Append(line, p) \in Seq(Threads \cup {Destroyer})
         /\ \A q : Owns(q) => Append(line, p) # <<>> /\ Head(Append(line, p)) = q
BY AppendProperties, HeadTailAppend DEF TypeInv, Owns

LEMMA LineWithout ==
  ASSUME TypeInv, NEW k \in 1..Len(line), line[k] = Destroyer
  PROVE  /\ Without(k) \in Seq(Threads \cup {Destroyer})
         /\ \A t \in Threads : Owns(t) => Without(k) # <<>> /\ Head(Without(k)) = t
<1>1. Len(line) \in Nat /\ Len(line) - 1 \in Nat /\ \A j \in 1..Len(line) : line[j] \in Threads \cup {Destroyer}
  BY LenProperties, ElementOfSeq DEF TypeInv
<1>2. \A j \in 1..(Len(line) - 1) :
        (IF j < k THEN line[j] ELSE line[j + 1]) \in Threads \cup {Destroyer}
  BY <1>1
<1>3. Without(k) \in [1..(Len(line) - 1) -> Threads \cup {Destroyer}]  BY <1>2 DEF Without
<1>4. Without(k) \in Seq(Threads \cup {Destroyer}) /\ Len(Without(k)) = Len(line) - 1
  BY <1>1, <1>3
<1>5. ASSUME NEW t \in Threads, Owns(t)
      PROVE  Without(k) # <<>> /\ Head(Without(k)) = t
  <2>1. line[1] = t /\ t # Destroyer  BY <1>5, PoolAssumption DEF Owns, TypeInv
  <2>2. k > 1 /\ Len(line) > 1  BY <2>1, <1>1
  <2>3. Without(k)[1] = line[1]  BY <2>2, <1>1 DEF Without
  <2> QED  BY <2>1, <2>2, <2>3, <1>4
<1> QED  BY <1>4, <1>5

-----------------------------------------------------------------------------
(* Types and the lock. *)

LEMMA TypeInit == Init => TypeInv /\ LineInv
BY PoolAssumption DEF Init, TypeInv, LineInv, Client, NoClient, Places

LEMMA TypeStep == TypeInv /\ LineInv /\ [Next]_vars => TypeInv'
<1> SUFFICES ASSUME TypeInv, LineInv, [Next]_vars PROVE TypeInv'  OBVIOUS
<1> USE PoolAssumption DEF TypeInv, Places, Goto
<1>1. ASSUME NEW t \in Threads, GetClient(t) PROVE TypeInv'
  BY <1>1, LineAppend DEF GetClient
<1>2. ASSUME NEW t \in Threads, Throws(t) PROVE TypeInv'
  <2>1. line' \in Seq(Threads \cup {Destroyer})  BY <1>2, LineTail DEF Throws, LineInv
  <2> QED  BY <1>2, <2>1 DEF Throws
<1>3. ASSUME NEW t \in Threads, Acquire(t) PROVE TypeInv'  BY <1>3 DEF Acquire
<1>4. ASSUME NEW t \in Threads, Take(t) PROVE TypeInv'
  <2>1. line' \in Seq(Threads \cup {Destroyer})  BY <1>4, LineTail DEF Take, LineInv
  <2> QED  BY <1>4, <2>1, IdleHead DEF Take
<1>5. ASSUME NEW t \in Threads, New(t) PROVE TypeInv'
  <2>1. line' \in Seq(Threads \cup {Destroyer})  BY <1>5, LineTail DEF New, LineInv
  <2> QED  BY <1>5, <2>1 DEF New, StringKey, Client
<1>6. ASSUME NEW t \in Threads, NewFails(t) PROVE TypeInv'
  <2>1. line' \in Seq(Threads \cup {Destroyer})  BY <1>6, LineTail DEF NewFails, LineInv
  <2> QED  BY <1>6, <2>1 DEF NewFails
<1>7. ASSUME NEW t \in Threads, TransactionEnds(t) PROVE TypeInv'
  <2>1. has[t] \in Client  BY <1>7 DEF TransactionEnds
  <2>2. [id |-> has[t].id, count |-> has[t].count + 1] \in Client  BY <2>1 DEF Client
  <2>3. has' \in [Threads -> Client \cup {NoClient}] /\ has'[t] \in Client
    BY <2>1, <2>2, <1>7 DEF TransactionEnds, Client
  <2> QED  BY <1>7, <2>3 DEF TransactionEnds
<1>8. ASSUME NEW t \in Threads, TransactionFails(t) PROVE TypeInv'  BY <1>8 DEF TransactionFails
<1>9. ASSUME NEW t \in Threads, CheckIn(t) PROVE TypeInv'
  <2>1. has[t] \in Client  BY <1>9 DEF CheckIn
  <2>2. Append(idle, has[t]) \in Seq(Client)  BY <2>1, AppendProperties
  <2>3. idle' \in Seq(Client)  BY <2>2, <1>9 DEF CheckIn
  <2> QED  BY <1>9, <2>1, <2>3 DEF CheckIn
<1>10. ASSUME NEW t \in Threads, Discard(t) PROVE TypeInv'  BY <1>10 DEF Discard
<1>11. ASSUME NEW t \in Threads, Release(t) PROVE TypeInv'  BY <1>11 DEF Release
<1>12. CASE Destroy  BY <1>12, LineAppend DEF Destroy
<1>13. CASE AcquireAll  BY <1>13 DEF AcquireAll
<1>14. CASE TimesOut  BY <1>14, LineWithout DEF TimesOut
<1>15. CASE ShutDown  BY <1>15, IdleHead DEF ShutDown
<1>16. CASE Drained  BY <1>16, LineTail DEF Drained, LineInv
<1>17. CASE Kill  BY <1>17 DEF Kill
<1>18. CASE UNCHANGED vars  BY <1>18 DEF vars
<1> QED
  BY <1>1, <1>2, <1>3, <1>4, <1>5, <1>6, <1>7, <1>8, <1>9, <1>10, <1>11, <1>12, <1>13, <1>14, <1>15,
     <1>16, <1>17, <1>18 DEF Next, ThreadStep, DestroyStep

LEMMA LineStep == TypeInv /\ LineInv /\ [Next]_vars => LineInv'
<1> SUFFICES ASSUME TypeInv, LineInv, [Next]_vars PROVE LineInv'  OBVIOUS
<1> USE PoolAssumption DEF LineInv, Goto
<1>0. pc \in [Threads -> Places]  BY DEF TypeInv
<1>1. ASSUME NEW t \in Threads, GetClient(t) PROVE LineInv'
  BY <1>0, <1>1, LineAppend DEF GetClient, Owns
\* Whoever gives the lock back was the only one to need it.
<1>2. ASSUME NEW t \in Threads, Throws(t) \/ NewFails(t) \/ New(t) PROVE LineInv'
  BY <1>0, <1>2 DEF Throws, NewFails, New, Owns
<1>3. ASSUME NEW t \in Threads, Acquire(t) PROVE LineInv'
  BY <1>0, <1>3 DEF Acquire, Owns
<1>4. ASSUME NEW t \in Threads, Take(t) PROVE LineInv'
  BY <1>0, <1>4 DEF Take, Owns
<1>5. ASSUME NEW t \in Threads,
             TransactionEnds(t) \/ TransactionFails(t) \/ CheckIn(t) \/ Discard(t) \/ Release(t)
      PROVE LineInv'
  BY <1>0, <1>5 DEF TransactionEnds, TransactionFails, CheckIn, Discard, Release, Owns
<1>6. CASE Destroy  BY <1>6, LineAppend DEF Destroy, Owns
<1>7. CASE AcquireAll  BY <1>7 DEF AcquireAll, Owns
<1>8. CASE TimesOut
  <2>1. PICK k \in 1..Len(line) : line[k] = Destroyer /\ line' = Without(k)  BY <1>8 DEF TimesOut
  <2>2. \A t \in Threads : Owns(t) => Owns(t)'  BY <2>1, LineWithout DEF Owns
  <2> QED  BY <1>8, <2>2 DEF TimesOut
<1>9. CASE ShutDown \/ Kill  BY <1>9 DEF ShutDown, Kill, Owns
<1>10. CASE Drained  BY <1>10 DEF Drained, Owns
<1>11. CASE UNCHANGED vars  BY <1>11 DEF vars, Owns
<1> QED
  BY <1>1, <1>2, <1>3, <1>4, <1>5, <1>6, <1>7, <1>8, <1>9, <1>10, <1>11
  DEF Next, ThreadStep, DestroyStep

-----------------------------------------------------------------------------
(* Permits. *)

\* A step in which one thread moves, and one in which none does.
LEMMA CountStep ==
  ASSUME TypeInv
  PROVE  /\ Held \in Nat /\ Busy \in Nat /\ Busy <= Held
         /\ \A t \in Threads, place \in Places : pc' = [pc EXCEPT ![t] = place] =>
              /\ Held' = Held - (IF pc[t] \in HolderPlaces THEN 1 ELSE 0)
                              + (IF place \in HolderPlaces THEN 1 ELSE 0)
              /\ Busy' = Busy - (IF pc[t] \in BusyPlaces THEN 1 ELSE 0)
                              + (IF place \in BusyPlaces THEN 1 ELSE 0)
         /\ pc' = pc => Held' = Held /\ Busy' = Busy
<1>1. Held \in Nat /\ Busy \in Nat /\ Busy <= Held  BY InPlacesFinite, BusyHold DEF Held, Busy
<1>2. Held' = Cardinality(InPlaces(pc', HolderPlaces)) /\ Busy' = Cardinality(InPlaces(pc', BusyPlaces))
  BY DEF Held, Busy, InPlaces
<1>3. ASSUME NEW t \in Threads, NEW place \in Places, pc' = [pc EXCEPT ![t] = place]
      PROVE  /\ Held' = Held - (IF pc[t] \in HolderPlaces THEN 1 ELSE 0)
                             + (IF place \in HolderPlaces THEN 1 ELSE 0)
             /\ Busy' = Busy - (IF pc[t] \in BusyPlaces THEN 1 ELSE 0)
                             + (IF place \in BusyPlaces THEN 1 ELSE 0)
  <2>1. pc \in [Threads -> Places]  BY DEF TypeInv
  <2>2. \A places : Cardinality(InPlaces([pc EXCEPT ![t] = place], places))
                       = Cardinality(InPlaces(pc, places)) - (IF pc[t] \in places THEN 1 ELSE 0)
                                                           + (IF place \in places THEN 1 ELSE 0)
    BY <2>1, CountMoves, Zenon
  <2> QED  BY <1>2, <1>3, <2>2 DEF Held, Busy
<1>4. pc' = pc => Held' = Held /\ Busy' = Busy  BY <1>2 DEF Held, Busy
<1> QED  BY <1>1, <1>3, <1>4

LEMMA PermitInit == Init => PermitInv
<1> SUFFICES ASSUME Init PROVE PermitInv  OBVIOUS
<1>1. InPlaces(pc, HolderPlaces) = {}  BY DEF Init, InPlaces, HolderPlaces
<1>2. Held = 0  BY <1>1, FS_EmptySet DEF Held
<1> QED  BY <1>2, PoolAssumption DEF Init, PermitInv, Closed

LEMMA PermitStep == TypeInv /\ PermitInv /\ [Next]_vars => PermitInv'
<1> SUFFICES ASSUME TypeInv, PermitInv, [Next]_vars PROVE PermitInv'  OBVIOUS
<1>0. /\ pc \in [Threads -> Places] /\ permits \in Nat /\ thrown \in Nat /\ MaxClients \in Nat
      /\ Held \in Nat
  BY CountStep, PoolAssumption DEF TypeInv
<1>1. \A t \in Threads, place \in Places : pc' = [pc EXCEPT ![t] = place] =>
         Held' = Held - (IF pc[t] \in HolderPlaces THEN 1 ELSE 0)
                      + (IF place \in HolderPlaces THEN 1 ELSE 0)
  BY CountStep
<1>2. pc' = pc => Held' = Held  BY CountStep
<1> USE DEF PermitInv, Closed, Goto, HolderPlaces, Places
<1>3. ASSUME NEW t \in Threads, GetClient(t) \/ Acquire(t) \/ Throws(t) PROVE PermitInv'
  BY <1>0, <1>1, <1>3 DEF GetClient, Acquire, Throws
<1>4. ASSUME NEW t \in Threads, Take(t) \/ New(t) \/ NewFails(t) PROVE PermitInv'
  BY <1>0, <1>1, <1>4 DEF Take, New, NewFails
<1>5. ASSUME NEW t \in Threads,
             TransactionEnds(t) \/ TransactionFails(t) \/ CheckIn(t) \/ Discard(t) \/ Release(t)
      PROVE PermitInv'
  BY <1>0, <1>1, <1>5 DEF TransactionEnds, TransactionFails, CheckIn, Discard, Release
<1>6. CASE Destroy \/ DestroyStep \/ UNCHANGED vars
  BY <1>0, <1>2, <1>6 DEF Destroy, DestroyStep, AcquireAll, TimesOut, ShutDown, Drained, Kill, vars
<1> QED  BY <1>3, <1>4, <1>5, <1>6 DEF Next, ThreadStep

-----------------------------------------------------------------------------
(* The queue and the clients in use fit in the pool. *)

LEMMA CapacityInit == Init => Capacity
<1> SUFFICES ASSUME Init PROVE Capacity  OBVIOUS
<1>1. InPlaces(pc, BusyPlaces) = {}  BY DEF Init, InPlaces, BusyPlaces, UserPlaces
<1>2. Busy = 0  BY <1>1, FS_EmptySet DEF Busy
<1> QED  BY <1>2, PoolAssumption DEF Init, Capacity

LEMMA CapacityStep == TypeInv /\ PermitInv /\ Capacity /\ [Next]_vars => Capacity'
<1> SUFFICES ASSUME TypeInv, PermitInv, Capacity, [Next]_vars PROVE Capacity'  OBVIOUS
<1>0. /\ pc \in [Threads -> Places] /\ permits \in Nat /\ MaxClients \in Nat /\ Closed \in Nat
      /\ Held \in Nat /\ Busy \in Nat /\ Busy <= Held /\ idle \in Seq(Client) /\ Len(idle) \in Nat
  BY CountStep, LenProperties, PoolAssumption DEF TypeInv, Closed
<1>1. \A t \in Threads, place \in Places : pc' = [pc EXCEPT ![t] = place] =>
         Busy' = Busy - (IF pc[t] \in BusyPlaces THEN 1 ELSE 0)
                      + (IF place \in BusyPlaces THEN 1 ELSE 0)
  BY CountStep
<1>a. ASSUME NEW t \in Threads, NEW place \in Places, pc' = [pc EXCEPT ![t] = place]
      PROVE  Busy' = Busy - (IF pc[t] \in BusyPlaces THEN 1 ELSE 0)
                          + (IF place \in BusyPlaces THEN 1 ELSE 0)
  BY <1>1, <1>a, Zenon
<1>2. pc' = pc => Busy' = Busy  BY CountStep
<1> USE DEF Capacity, Goto, BusyPlaces, UserPlaces, Places
<1>3. ASSUME NEW t \in Threads, GetClient(t) \/ Throws(t) \/ New(t) \/ NewFails(t) PROVE Capacity'
  BY <1>0, <1>1, <1>3 DEF GetClient, Throws, New, NewFails
\* The queue is empty, and those who are busy have the other permits.
<1>4. ASSUME NEW t \in Threads, Acquire(t) PROVE Capacity'
  <2>1. Busy + 1 <= MaxClients  BY <1>0, <1>4 DEF Acquire, PermitInv
  <2>2. CASE idle = <<>>
    <3>1. pc' = [pc EXCEPT ![t] = "new"] /\ idle' = <<>>  BY <1>4, <2>2 DEF Acquire
    <3>2. Busy' = Busy - (IF pc[t] \in BusyPlaces THEN 1 ELSE 0) + (IF "new" \in BusyPlaces THEN 1 ELSE 0)
      <4>1. "new" \in Places  OBVIOUS
      <4> QED  BY <1>a, <3>1, <4>1, Zenon
    <3>3. Busy' = Busy + 1  BY <1>0, <1>4, <3>2 DEF Acquire
    <3> QED  BY <3>1, <3>3, <2>1, <1>0
  <2>3. CASE idle # <<>>
    <3>1. pc' = [pc EXCEPT ![t] = "take"] /\ idle' = idle  BY <1>4, <2>3 DEF Acquire
    <3>2. Busy' = Busy - (IF pc[t] \in BusyPlaces THEN 1 ELSE 0) + (IF "take" \in BusyPlaces THEN 1 ELSE 0)
      <4>1. "take" \in Places  OBVIOUS
      <4> QED  BY <1>a, <3>1, <4>1, Zenon
    <3>3. Busy' = Busy  BY <1>0, <1>4, <3>2 DEF Acquire
    <3> QED  BY <3>1, <3>3, <1>0
  <2> QED  BY <2>2, <2>3
<1>5. ASSUME NEW t \in Threads, Take(t) PROVE Capacity'
  <2>1. idle # <<>> /\ idle' = Tail(idle)  BY <1>5 DEF Take
  <2>2. Len(idle') = Len(idle) - 1  BY <2>1, IdleHead
  <2>3. PICK place \in {"use", "new"} : pc' = [pc EXCEPT ![t] = place]  BY <1>5 DEF Take
  <2>4. place \in Places  OBVIOUS
  <2>5. Busy' = Busy - (IF pc[t] \in BusyPlaces THEN 1 ELSE 0) + (IF place \in BusyPlaces THEN 1 ELSE 0)
    BY <1>a, <2>3, <2>4, Zenon
  <2>6. Busy' = Busy + 1  BY <1>0, <1>5, <2>5 DEF Take
  <2> QED  BY <1>0, <2>2, <2>6
<1>6. ASSUME NEW t \in Threads, CheckIn(t) PROVE Capacity'
  <2>0. has[t] \in Client  BY <1>6 DEF CheckIn, TypeInv
  <2>1. CASE WornOut(has[t])
    <3>1. pc' = [pc EXCEPT ![t] = "discard"] /\ idle' = idle  BY <1>6, <2>1 DEF CheckIn
    <3>2. Busy' = Busy - (IF pc[t] \in BusyPlaces THEN 1 ELSE 0) + (IF "discard" \in BusyPlaces THEN 1 ELSE 0)
      <4>1. "discard" \in Places  OBVIOUS
      <4> QED  BY <1>a, <3>1, <4>1, Zenon
    <3>3. Busy' = Busy  BY <1>0, <1>6, <3>2 DEF CheckIn
    <3> QED  BY <1>0, <3>1, <3>3
  <2>2. CASE ~ WornOut(has[t])
    <3>1. pc' = [pc EXCEPT ![t] = "release"]  BY <1>6, <2>2 DEF CheckIn
    <3>2. Busy' = Busy - (IF pc[t] \in BusyPlaces THEN 1 ELSE 0) + (IF "release" \in BusyPlaces THEN 1 ELSE 0)
      <4>1. "release" \in Places  OBVIOUS
      <4> QED  BY <1>a, <3>1, <4>1, Zenon
    <3>3. Busy' = Busy - 1  BY <1>0, <1>6, <3>2 DEF CheckIn
    <3>4. Len(Append(idle, has[t])) = Len(idle) + 1  BY <1>0, <2>0, AppendProperties
    <3>5. idle' = idle \/ idle' = Append(idle, has[t])  BY <1>6, <2>2 DEF CheckIn
    <3> QED  BY <1>0, <3>3, <3>4, <3>5
  <2> QED  BY <2>1, <2>2
<1>7. ASSUME NEW t \in Threads,
             TransactionEnds(t) \/ TransactionFails(t) \/ Discard(t) \/ Release(t)
      PROVE Capacity'
  BY <1>0, <1>1, <1>7 DEF TransactionEnds, TransactionFails, Discard, Release
<1>8. CASE ShutDown
  <2>1. Len(idle') = Len(idle) - 1  BY <1>8, IdleHead DEF ShutDown
  <2> QED  BY <1>0, <1>2, <1>8, <2>1 DEF ShutDown
<1>9. CASE Destroy \/ AcquireAll \/ TimesOut \/ Drained \/ Kill \/ UNCHANGED vars
  BY <1>0, <1>2, <1>9 DEF Destroy, AcquireAll, TimesOut, Drained, Kill, vars
<1> QED  BY <1>3, <1>4, <1>5, <1>6, <1>7, <1>8, <1>9 DEF Next, ThreadStep, DestroyStep

-----------------------------------------------------------------------------
(* Each client is in one place. *)

LEMMA KnownInit == Init => KnownInv
BY DEF Init, KnownInv, NotShared, OpenAreKnown, Users, Idle

\* The first client of the queue leaves it.
LEMMA IdleLeaves ==
  ASSUME TypeInv, KnownInv, idle # <<>>, idle' = Tail(idle)
  PROVE  /\ Idle' = Idle \ {Head(idle).id}
         /\ Head(idle).id \in Idle
         /\ \A i, j \in 1..Len(idle') : idle'[i].id = idle'[j].id => i = j
         /\ \A i \in 1..Len(idle') : ~ WornOut(idle'[i])
<1>0. Len(idle) \in Nat  BY LenProperties DEF TypeInv
<1>1. /\ Head(idle) = idle[1] /\ 1 \in 1..Len(idle) /\ Len(idle') = Len(idle) - 1
      /\ \A i \in 1..Len(idle') : idle'[i] = idle[i + 1] /\ i + 1 \in 1..Len(idle)
  BY IdleHead
<1>2. \A i, j \in 1..Len(idle) : idle[i].id = idle[j].id => i = j  BY DEF KnownInv, NotShared
<1>3. \A j \in 1..Len(idle) : j # 1 => j - 1 \in 1..Len(idle') /\ idle[j] = idle'[j - 1]
  BY <1>0, <1>1
<1>4. Idle' = {idle'[i].id : i \in 1..Len(idle')}  BY DEF Idle
<1>5. Idle' \subseteq Idle \ {Head(idle).id}
  <2> SUFFICES ASSUME NEW i \in 1..Len(idle') PROVE idle'[i].id \in Idle \ {Head(idle).id}  BY <1>4
  <2>1. i + 1 # 1 /\ i + 1 \in 1..Len(idle) /\ idle'[i] = idle[i + 1]  BY <1>1
  <2> QED  BY <2>1, <1>1, <1>2 DEF Idle
<1>6. Idle \ {Head(idle).id} \subseteq Idle'
  <2> SUFFICES ASSUME NEW j \in 1..Len(idle), idle[j].id # Head(idle).id PROVE idle[j].id \in Idle'
    BY DEF Idle
  <2>1. j # 1  BY <1>1
  <2> QED  BY <2>1, <1>3, <1>4
<1>7. \A i, j \in 1..Len(idle') : idle'[i].id = idle'[j].id => i = j  BY <1>1, <1>2, <1>0
<1>8. \A i \in 1..Len(idle') : ~ WornOut(idle'[i])  BY <1>1 DEF KnownInv, OpenAreKnown
<1> QED  BY <1>1, <1>5, <1>6, <1>7, <1>8 DEF Idle

\* A client joins the queue.
LEMMA IdleJoins ==
  ASSUME TypeInv, KnownInv, NEW c \in Client, c.id \notin Idle, ~ WornOut(c), idle' = Append(idle, c)
  PROVE  /\ Idle' = Idle \cup {c.id}
         /\ \A i, j \in 1..Len(idle') : idle'[i].id = idle'[j].id => i = j
         /\ \A i \in 1..Len(idle') : ~ WornOut(idle'[i])
<1>0. Len(idle) \in Nat  BY LenProperties DEF TypeInv
<1>1. /\ Len(idle') = Len(idle) + 1 /\ idle'[Len(idle) + 1] = c
      /\ \A i \in 1..Len(idle) : idle'[i] = idle[i]
  BY AppendProperties DEF TypeInv
<1>2. \A i \in 1..Len(idle') : i \in 1..Len(idle) \/ i = Len(idle) + 1  BY <1>0, <1>1
<1>3. Idle' = {idle'[i].id : i \in 1..Len(idle')}  BY DEF Idle
<1>4. Idle' = Idle \cup {c.id}  BY <1>0, <1>1, <1>2, <1>3 DEF Idle
<1>5. \A i \in 1..Len(idle) : idle[i].id # c.id  BY DEF Idle
<1>6. \A i, j \in 1..Len(idle') : idle'[i].id = idle'[j].id => i = j
  BY <1>1, <1>2, <1>5 DEF KnownInv, NotShared
<1>7. \A i \in 1..Len(idle') : ~ WornOut(idle'[i])
  BY <1>1, <1>2 DEF KnownInv, OpenAreKnown
<1> QED  BY <1>4, <1>6, <1>7

\* The steps that move no client and touch no connection.
LEMMA KnownSame ==
  ASSUME TypeInv, KnownInv, idle' = idle, open' = open, total' = total, Users' = Users,
         \A t \in Users : has'[t].id = has[t].id,
         \A t \in Threads : pc'[t] \in {"use", "checkIn"} => pc[t] \in {"use", "checkIn"}
  PROVE  KnownInv'
<1>1. Idle' = Idle  BY DEF Idle
<1>2. {has'[t].id : t \in Users'} = {has[t].id : t \in Users}  OBVIOUS
<1>3. NotShared'  BY <1>1 DEF KnownInv, NotShared
<1>4. OpenAreKnown'  BY <1>1, <1>2 DEF KnownInv, OpenAreKnown, WornOut
<1>5. \A t \in Threads : pc'[t] \in {"use", "checkIn"} => t \in Users  BY DEF Users
<1> QED  BY <1>3, <1>4, <1>5 DEF KnownInv

\* A thread at work has a client, so there is room for it in the queue.
LEMMA RoomToCheckIn ==
  ASSUME TypeInv, Capacity, NEW t \in Threads, pc[t] = "checkIn"
  PROVE  Len(idle) < MaxClients
<1>1. t \in InPlaces(pc, BusyPlaces)  BY DEF InPlaces, BusyPlaces, UserPlaces
<1>2. Busy \in Nat /\ Busy # 0  BY <1>1, InPlacesFinite, FS_EmptySet DEF Busy
<1>3. Len(idle) \in Nat  BY LenProperties DEF TypeInv
<1> QED  BY <1>2, <1>3, PoolAssumption DEF Capacity

LEMMA KnownStep == TypeInv /\ Capacity /\ KnownInv /\ [Next]_vars => KnownInv'
<1> SUFFICES ASSUME TypeInv, Capacity, KnownInv, [Next]_vars PROVE KnownInv'  OBVIOUS
<1> USE DEF Goto
<1>0. /\ pc \in [Threads -> Places] /\ has \in [Threads -> Client \cup {NoClient}] /\ total \in Nat
      /\ \A t \in Users : has[t] \in Client /\ has[t].id \in Nat
      /\ open \subseteq Nat
  BY DEF TypeInv, Users, Client
<1>1. ASSUME NEW t \in Threads, GetClient(t) \/ Acquire(t) \/ Throws(t) \/ NewFails(t) \/ Release(t)
      PROVE KnownInv'
  <2>1. /\ Users' = Users
        /\ \A u \in Threads : pc'[u] \in {"use", "checkIn"} => pc[u] \in {"use", "checkIn"}
    BY <1>0, <1>1 DEF GetClient, Acquire, Throws, NewFails, Release, Users
  <2>2. idle' = idle /\ open' = open /\ total' = total /\ \A u \in Users : has'[u].id = has[u].id
    BY <1>0, <1>1 DEF GetClient, Acquire, Throws, NewFails, Release, Users
  <2> QED  BY <2>1, <2>2, KnownSame
<1>2. CASE Destroy \/ AcquireAll \/ TimesOut \/ Drained \/ UNCHANGED vars
  <2>1. /\ idle' = idle /\ open' = open /\ total' = total /\ pc' = pc /\ has' = has
    BY <1>2 DEF Destroy, AcquireAll, TimesOut, Drained, vars
  <2>2. Users' = Users  BY <2>1 DEF Users
  <2> QED  BY <2>1, <2>2, KnownSame
\* No key of the map is an Integer.
<1>3. CASE Kill
  <2>1. \A i \in open : IntKey(i) \notin clients  BY DEF TypeInv, IntKey
  <2>2. /\ idle' = idle /\ open' = open /\ total' = total /\ pc' = pc /\ has' = has
    BY <1>3, <2>1 DEF Kill
  <2>3. Users' = Users  BY <2>2 DEF Users
  <2> QED  BY <2>2, <2>3, KnownSame
<1>4. ASSUME NEW t \in Threads, TransactionEnds(t) PROVE KnownInv'
  <2>1. /\ Users' = Users
        /\ \A u \in Threads : pc'[u] \in {"use", "checkIn"} => pc[u] \in {"use", "checkIn"}
    BY <1>0, <1>4 DEF TransactionEnds, Users
  <2>2. has[t] \in Client  BY <1>0, <1>4 DEF TransactionEnds, Users
  <2>3. \A u \in Users : has'[u].id = has[u].id  BY <1>0, <1>4, <2>2 DEF TransactionEnds, Client
  <2>4. idle' = idle /\ open' = open /\ total' = total  BY <1>4 DEF TransactionEnds
  <2> QED  BY <2>1, <2>3, <2>4, KnownSame
<1>5. ASSUME NEW t \in Threads, New(t) PROVE KnownInv'
  <2>1. /\ Users' = Users \cup {t} /\ t \notin Users
        /\ \A u \in Threads : pc'[u] \in {"use", "checkIn"} => u = t \/ pc[u] \in {"use", "checkIn"}
    BY <1>0, <1>5 DEF New, Users
  <2>2. /\ has'[t].id = total /\ \A u \in Users : has'[u] = has[u]
        /\ \A u \in Threads : u # t => has'[u] = has[u]
    BY <1>0, <1>5, <2>1 DEF New, Users
  <2>3. idle' = idle /\ Idle' = Idle /\ open' = open \cup {total} /\ total' = total + 1
    BY <1>5 DEF New, Idle
  <2>4. total \notin open /\ total \notin Idle /\ \A u \in Users : has[u].id # total
    BY <1>0 DEF KnownInv, OpenAreKnown
  <2>5. NotShared'  BY <2>1, <2>2, <2>3, <2>4 DEF KnownInv, NotShared
  <2>6. OpenAreKnown'  BY <2>1, <2>2, <2>3 DEF KnownInv, OpenAreKnown, WornOut
  <2>7. /\ \A u \in Users' : has'[u].id < total'
        /\ \A u \in Threads : pc'[u] \in {"use", "checkIn"} => has'[u].id \in open'
        /\ \A i \in open' : i < total'
    <3>1. \A u \in Users' : has'[u].id < total'  BY <1>0, <2>1, <2>2, <2>3 DEF KnownInv
    <3>2. \A u \in Threads : pc'[u] \in {"use", "checkIn"} => has'[u].id \in open'
      BY <2>1, <2>2, <2>3 DEF KnownInv
    <3>3. \A i \in open' : i < total'  BY <1>0, <2>3 DEF KnownInv
    <3> QED  BY <3>1, <3>2, <3>3
  <2> QED  BY <2>5, <2>6, <2>7 DEF KnownInv
<1>6. ASSUME NEW t \in Threads, Take(t) PROVE KnownInv'
  <2>1. idle # <<>> /\ idle' = Tail(idle) /\ open' = open /\ total' = total  BY <1>6 DEF Take
  <2>2. /\ Idle' = Idle \ {Head(idle).id} /\ Head(idle).id \in Idle
        /\ \A i, j \in 1..Len(idle') : idle'[i].id = idle'[j].id => i = j
        /\ \A i \in 1..Len(idle') : ~ WornOut(idle'[i])
    BY <2>1, IdleLeaves
  \* The client is open: the test for a dead one finds none.
  <2>3. Head(idle).id \in open  BY <2>2 DEF KnownInv, OpenAreKnown
  <2>4. has' = [has EXCEPT ![t] = Head(idle)] /\ pc' = [pc EXCEPT ![t] = "use"]
    BY <1>6, <2>3 DEF Take
  <2>5. /\ Users' = Users \cup {t} /\ t \notin Users
        /\ \A u \in Threads : pc'[u] \in {"use", "checkIn"} => u = t \/ pc[u] \in {"use", "checkIn"}
    BY <1>0, <1>6, <2>4 DEF Take, Users
  <2>6. /\ has'[t] = Head(idle) /\ \A u \in Users : has'[u] = has[u]
        /\ \A u \in Threads : u # t => has'[u] = has[u]
    BY <1>0, <2>4, <2>5
  <2>7. NotShared'  BY <2>2, <2>5, <2>6 DEF KnownInv, NotShared
  <2>8. OpenAreKnown'
    <3>1. open' \subseteq Idle' \cup {has'[u].id : u \in Users'}
      BY <2>1, <2>2, <2>5, <2>6 DEF KnownInv, OpenAreKnown
    <3>2. Idle' \subseteq open'  BY <2>1, <2>2 DEF KnownInv, OpenAreKnown
    <3> QED  BY <2>2, <3>1, <3>2 DEF OpenAreKnown, WornOut
  <2>9. /\ \A u \in Users' : has'[u].id < total'
        /\ \A u \in Threads : pc'[u] \in {"use", "checkIn"} => has'[u].id \in open'
        /\ \A i \in open' : i < total'
    BY <2>1, <2>3, <2>5, <2>6 DEF KnownInv
  <2> QED  BY <2>7, <2>8, <2>9 DEF KnownInv
<1>7. ASSUME NEW t \in Threads, TransactionFails(t) PROVE KnownInv'
  <2>1. /\ t \in Users /\ Users' = Users
        /\ \A u \in Threads : pc'[u] \in {"use", "checkIn"} => u # t /\ u \in Users /\ pc[u] \in {"use", "checkIn"}
    BY <1>0, <1>7 DEF TransactionFails, Users
  <2>2. /\ idle' = idle /\ has' = has /\ open' = open \ {has[t].id} /\ total' = total /\ Idle' = Idle
    BY <1>7 DEF TransactionFails, Idle
  <2>3. has[t].id \notin Idle /\ \A u \in Users \ {t} : has[u].id # has[t].id
    BY <2>1 DEF KnownInv, NotShared
  <2>4. NotShared'  BY <2>1, <2>2 DEF KnownInv, NotShared
  <2>5. OpenAreKnown'  BY <2>1, <2>2, <2>3 DEF KnownInv, OpenAreKnown, WornOut
  <2> QED  BY <2>1, <2>2, <2>3, <2>4, <2>5 DEF KnownInv
<1>8. ASSUME NEW t \in Threads, Discard(t) PROVE KnownInv'
  <2>1. /\ t \in Users /\ Users' = Users \ {t}
        /\ \A u \in Threads : pc'[u] \in {"use", "checkIn"} => u # t /\ u \in Users /\ pc[u] \in {"use", "checkIn"}
    BY <1>0, <1>8 DEF Discard, Users
  <2>2. /\ idle' = idle /\ has' = has /\ open' = open \ {has[t].id} /\ total' = total /\ Idle' = Idle
    BY <1>8 DEF Discard, Idle
  <2>3. has[t].id \notin Idle /\ \A u \in Users \ {t} : has[u].id # has[t].id
    BY <2>1 DEF KnownInv, NotShared
  <2>4. NotShared'  BY <2>1, <2>2 DEF KnownInv, NotShared
  <2>5. OpenAreKnown'  BY <2>1, <2>2, <2>3 DEF KnownInv, OpenAreKnown, WornOut
  <2> QED  BY <2>1, <2>2, <2>3, <2>4, <2>5 DEF KnownInv
<1>9. ASSUME NEW t \in Threads, CheckIn(t) PROVE KnownInv'
  <2>0. /\ t \in Users /\ has[t] \in Client /\ has[t].id \in open
        /\ has' = has /\ open' = open /\ total' = total
    BY <1>0, <1>9 DEF CheckIn, Users, KnownInv
  <2>1. CASE WornOut(has[t])
    <3>1. /\ Users' = Users /\ idle' = idle
          /\ \A u \in Threads : pc'[u] \in {"use", "checkIn"} => pc[u] \in {"use", "checkIn"}
      BY <1>0, <1>9, <2>1 DEF CheckIn, Users
    <3> QED  BY <2>0, <3>1, KnownSame
  <2>2. CASE ~ WornOut(has[t])
    <3>1. Len(idle) < MaxClients  BY <1>9, RoomToCheckIn DEF CheckIn
    <3>2. idle' = Append(idle, has[t]) /\ pc' = [pc EXCEPT ![t] = "release"]
      BY <1>9, <2>2, <3>1 DEF CheckIn
    <3>3. has[t].id \notin Idle /\ \A u \in Users \ {t} : has[u].id # has[t].id
      BY <2>0 DEF KnownInv, NotShared
    <3>4. /\ Idle' = Idle \cup {has[t].id}
          /\ \A i, j \in 1..Len(idle') : idle'[i].id = idle'[j].id => i = j
          /\ \A i \in 1..Len(idle') : ~ WornOut(idle'[i])
      BY <2>0, <2>2, <3>2, <3>3, IdleJoins
    <3>5. /\ Users' = Users \ {t}
          /\ \A u \in Threads : pc'[u] \in {"use", "checkIn"} => u \in Users /\ pc[u] \in {"use", "checkIn"}
      BY <1>0, <3>2 DEF Users
    <3>6. NotShared'  BY <2>0, <3>3, <3>4, <3>5 DEF KnownInv, NotShared
    <3>7. OpenAreKnown'
      <4>1. open' \subseteq Idle' \cup {has'[u].id : u \in Users'}
        BY <2>0, <3>4, <3>5 DEF KnownInv, OpenAreKnown
      <4>2. Idle' \subseteq open'  BY <2>0, <3>4 DEF KnownInv, OpenAreKnown
      <4> QED  BY <3>4, <4>1, <4>2 DEF OpenAreKnown, WornOut
    <3> QED  BY <2>0, <3>5, <3>6, <3>7 DEF KnownInv
  <2> QED  BY <2>1, <2>2
<1>10. CASE ShutDown
  <2>1. /\ idle # <<>> /\ idle' = Tail(idle) /\ open' = open \ {Head(idle).id} /\ total' = total
        /\ pc' = pc /\ has' = has
    BY <1>10 DEF ShutDown
  <2>2. /\ Idle' = Idle \ {Head(idle).id} /\ Head(idle).id \in Idle
        /\ \A i, j \in 1..Len(idle') : idle'[i].id = idle'[j].id => i = j
        /\ \A i \in 1..Len(idle') : ~ WornOut(idle'[i])
    BY <2>1, IdleLeaves
  <2>3. Users' = Users /\ \A u \in Threads : pc'[u] \in {"use", "checkIn"} => u \in Users
    BY <2>1 DEF Users
  <2>4. \A u \in Users : has[u].id # Head(idle).id  BY <2>2 DEF KnownInv, NotShared
  <2>5. NotShared'  BY <2>1, <2>2, <2>3 DEF KnownInv, NotShared
  <2>6. OpenAreKnown'  BY <2>1, <2>2, <2>3, <2>4 DEF KnownInv, OpenAreKnown, WornOut
  <2> QED  BY <2>1, <2>3, <2>4, <2>5, <2>6 DEF KnownInv
<1> QED
  BY <1>1, <1>2, <1>3, <1>4, <1>5, <1>6, <1>7, <1>8, <1>9, <1>10 DEF Next, ThreadStep, DestroyStep

-----------------------------------------------------------------------------
(* The theorems. *)

LEMMA Invariant == Spec => []IInv
<1>1. Init => IInv  BY TypeInit, PermitInit, CapacityInit, KnownInit DEF IInv
<1>2. IInv /\ [Next]_vars => IInv'
  BY TypeStep, LineStep, PermitStep, CapacityStep, KnownStep DEF IInv
<1> QED  BY <1>1, <1>2, PTL DEF Spec

\* Every variable keeps its type; the permits never exceed the clients.
THEOREM TypeCorrect == Spec => []TypeOK
<1>1. IInv => TypeOK
  <2> SUFFICES ASSUME IInv PROVE TypeOK  OBVIOUS
  <2>1. permits \in 0..MaxClients
    BY CountStep, PoolAssumption DEF IInv, TypeInv, PermitInv, Closed
  <2> QED  BY <2>1 DEF IInv, TypeInv, TypeOK, Places
<1> QED  BY <1>1, Invariant, PTL

\* No connection has two users, and none in the queue has one.
THEOREM NotSharedHolds == Spec => []NotShared
<1>1. IInv => NotShared  BY DEF IInv, KnownInv
<1> QED  BY <1>1, Invariant, PTL

\* offer() never refuses a client; no open connection is forgotten, none that is
\* closed or worn out is in the queue.
THEOREM OpenAreKnownHolds == Spec => []OpenAreKnown
<1>1. IInv => OpenAreKnown  BY DEF IInv, KnownInv
<1> QED  BY <1>1, Invariant, PTL

\* Only interrupts and unchecked exceptions of getClient() lose a permit, and
\* nothing makes one.
THEOREM PermitsKeptHolds == Spec => []PermitsKept
<1>1. IInv => PermitsKept
  <2> SUFFICES ASSUME IInv PROVE PermitsKept  OBVIOUS
  <2>1. Holders = InPlaces(pc, HolderPlaces)
    BY DEF IInv, TypeInv, Holders, InPlaces, HolderPlaces
  <2>2. Lost = MaxClients - permits - Held - Closed  BY <2>1 DEF Lost, Held, Closed
  <2>3. permits \in Nat /\ Held \in Nat /\ Closed \in Nat /\ MaxClients \in Nat /\ thrown \in Nat
    BY CountStep, PoolAssumption DEF IInv, TypeInv, Closed
  <2> QED  BY <2>2, <2>3 DEF IInv, PermitInv, PermitsKept
<1> QED  BY <1>1, Invariant, PTL

\* The image of a finite set is not larger.
LEMMA ImageBound ==
  ASSUME NEW S, IsFiniteSet(S), NEW f, NEW T, T = {f[x] : x \in S}
  PROVE  IsFiniteSet(T) /\ Cardinality(T) <= Cardinality(S)
<1> DEFINE g == [x \in S |-> f[x]]
<1>1. g \in [S -> T]  OBVIOUS
<1>2. \A y \in T : \E x \in S : g[x] = y  OBVIOUS
<1> HIDE DEF g
<1>3. g \in Surjection(S, T)  BY <1>1, <1>2 DEF Surjection
<1> QED  BY <1>3, FS_Surjection, Zenon

\* There are never more open connections than the pool has places.
THEOREM PoolBoundHolds == Spec => []PoolBound
<1>1. IInv => PoolBound
  <2> SUFFICES ASSUME IInv PROVE PoolBound  OBVIOUS
  <2> DEFINE UserIds == {has[t].id : t \in Users}
             idOf    == [i \in 1..Len(idle) |-> idle[i].id]
             idOfHis == [t \in Users |-> has[t].id]
  <2>0. Len(idle) \in Nat /\ MaxClients \in Nat
    BY LenProperties, PoolAssumption DEF IInv, TypeInv
  <2>1. IsFiniteSet(Idle) /\ Cardinality(Idle) <= Len(idle)
    <3>1. IsFiniteSet(1..Len(idle)) /\ Cardinality(1..Len(idle)) = Len(idle)  BY <2>0, FS_Interval
    <3>2. Idle = {idOf[i] : i \in 1..Len(idle)}  BY DEF Idle
    <3> HIDE DEF idOf
    <3>3. IsFiniteSet(Idle) /\ Cardinality(Idle) <= Cardinality(1..Len(idle))
      BY <3>1, <3>2, ImageBound, Zenon
    <3> QED  BY <3>1, <3>3
  <2>2. IsFiniteSet(Users) /\ Cardinality(Users) <= Busy
    <3>1. Users \subseteq InPlaces(pc, BusyPlaces)  BY DEF Users, InPlaces, BusyPlaces, UserPlaces
    <3> QED  BY <3>1, InPlacesFinite, FS_Subset DEF Busy
  <2>3. IsFiniteSet(UserIds) /\ Cardinality(UserIds) <= Cardinality(Users)
    <3>1. UserIds = {idOfHis[t] : t \in Users}  OBVIOUS
    <3> HIDE DEF idOfHis, UserIds
    <3> QED  BY <2>2, <3>1, ImageBound, Zenon
  <2>4. /\ IsFiniteSet(Idle \cup UserIds)
        /\ Cardinality(Idle \cup UserIds) <= Cardinality(Idle) + Cardinality(UserIds)
    <3>1. IsFiniteSet(Idle \cap UserIds)  BY <2>1, FS_Subset
    <3>2. Cardinality(Idle \cap UserIds) \in Nat /\ Cardinality(Idle) \in Nat /\ Cardinality(UserIds) \in Nat
      BY <3>1, <2>1, <2>3, FS_CardinalityType
    <3>3. /\ IsFiniteSet(Idle \cup UserIds)
          /\ Cardinality(Idle \cup UserIds)
               = Cardinality(Idle) + Cardinality(UserIds) - Cardinality(Idle \cap UserIds)
      BY <2>1, <2>3, FS_Union
    <3> HIDE DEF UserIds
    <3> QED  BY <3>2, <3>3
  <2>5. open \subseteq Idle \cup UserIds  BY DEF IInv, KnownInv, OpenAreKnown
  <2>6. Cardinality(open) <= Cardinality(Idle \cup UserIds)  BY <2>4, <2>5, FS_Subset
  <2>7. /\ Cardinality(open) \in Nat /\ Cardinality(Idle \cup UserIds) \in Nat /\ Cardinality(Idle) \in Nat
        /\ Cardinality(UserIds) \in Nat /\ Cardinality(Users) \in Nat /\ Busy \in Nat
    BY <2>1, <2>2, <2>3, <2>4, <2>5, FS_Subset, FS_CardinalityType, CountStep DEF IInv
  <2> HIDE DEF UserIds
  <2> QED  BY <2>0, <2>1, <2>2, <2>3, <2>4, <2>6, <2>7 DEF IInv, Capacity, PoolBound
<1> QED  BY <1>1, Invariant, PTL

=============================================================================
