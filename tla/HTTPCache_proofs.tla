-------------------------- MODULE HTTPCache_proofs --------------------------
(***************************************************************************)
(* What the HTTP cache guarantees for any number of threads, URLs, names   *)
(* and sizes: the reader counts, the size, and the entries in use.         *)
(***************************************************************************)
EXTENDS HTTPCache, FiniteSetTheorems, WellFoundedInduction, TLAPS

-----------------------------------------------------------------------------
(* The space of a set of entries is the sum of their blocks.  Space() is a *)
(* recursive function over the subsets of the set; these lemmas use that a *)
(* nonempty collection of finite sets has a smallest member.               *)

LEMMA Smallest ==
  ASSUME NEW S, IsFiniteSet(S), NEW C, C \subseteq SUBSET S, C # {}
  PROVE  \E m \in C : \A r \in C : ~ (r \subseteq m /\ r # m)
<1>1. IsWellFoundedOn(StrictSubsetOrdering(S), FiniteSubsetsOf(S))
  BY FS_StrictSubsetOrderingWellFounded
<1>2. C \subseteq FiniteSubsetsOf(S)
  BY FS_Subset DEF FiniteSubsetsOf
<1>3. PICK m \in C : \A r \in C : ~ (<<r, m>> \in StrictSubsetOrdering(S))
  BY <1>1, <1>2, WFMin
<1>4. ASSUME NEW r \in C, r \subseteq m, r # m PROVE FALSE
  <2>1. <<r, m>> \in StrictSubsetOrdering(S)
    BY <1>4 DEF StrictSubsetOrdering
  <2> QED
    BY <2>1, <1>3
<1> QED
  BY <1>4

\* What is summed first.
First(s) == CHOOSE x \in s : TRUE

\* The function that Space() evaluates at the whole set.
Sums(t, s, f) == f = [r \in SUBSET s |-> IF r = {} THEN 0 ELSE t[First(r)].blocks + f[r \ {First(r)}]]

LEMMA SpaceIs == \A t, s : Space(t, s) = (CHOOSE f : Sums(t, s, f))[s]
BY DEF Space, MapThenSumSet, MapThenFoldSet, Sums, First

LEMMA SumsUnique ==
  ASSUME NEW t, NEW s, IsFiniteSet(s), NEW f, NEW g, Sums(t, s, f), Sums(t, s, g)
  PROVE  f = g
<1> DEFINE C == {r \in SUBSET s : f[r] # g[r]}
<1>1. CASE C = {}
  <2>1. \A r \in SUBSET s : f[r] = g[r]
    BY <1>1
  <2>2. /\ f = [r \in SUBSET s |-> f[r]]
        /\ g = [r \in SUBSET s |-> g[r]]
    BY DEF Sums
  <2> QED
    BY <2>1, <2>2
<1>2. CASE C # {}
  <2>1. PICK m \in C : \A r \in C : ~ (r \subseteq m /\ r # m)
    <3>1. C \subseteq SUBSET s
      OBVIOUS
    <3> HIDE DEF C
    <3> QED
      BY <3>1, <1>2, Smallest
  <2>2. m # {}
    BY <2>1 DEF Sums
  <2>3. First(m) \in m
    BY <2>2 DEF First
  <2>4. f[m \ {First(m)}] = g[m \ {First(m)}]
    BY <2>1, <2>3
  <2> QED
    BY <2>1, <2>2, <2>4 DEF Sums
<1> QED
  BY <1>1, <1>2

\* Sums() has a solution: take Space() below the whole set.
LEMMA SpaceStep ==
  ASSUME NEW t, NEW S, IsFiniteSet(S)
  PROVE  \A s \in SUBSET S : Space(t, s) = IF s = {} THEN 0 ELSE t[First(s)].blocks + Space(t, s \ {First(s)})
<1> DEFINE Holds(s) == Space(t, s) = IF s = {} THEN 0 ELSE t[First(s)].blocks + Space(t, s \ {First(s)})
           C == {s \in SUBSET S : ~Holds(s)}
<1>1. CASE C # {}
  <2>1. PICK m \in C : \A r \in C : ~ (r \subseteq m /\ r # m)
    <3>1. C \subseteq SUBSET S
      OBVIOUS
    <3> HIDE DEF C
    <3> QED
      BY <3>1, <1>1, Smallest
  <2>2. IsFiniteSet(m)
    BY <2>1, FS_Subset
  <2>3. \A r \in SUBSET m : r # m => Holds(r)
    BY <2>1
  <2> DEFINE g == [r \in SUBSET m |-> IF r = {} THEN 0 ELSE t[First(r)].blocks + Space(t, r \ {First(r)})]
  <2>4. \A r \in SUBSET m : r # m => g[r] = Space(t, r)
    BY <2>3
  <2>5. \A r \in SUBSET m : r # {} => r \ {First(r)} \in SUBSET m /\ r \ {First(r)} # m
    BY DEF First
  <2>6. Sums(t, m, g)
    <3> HIDE DEF Holds
    <3>1. \A r \in SUBSET m : r # {} => g[r \ {First(r)}] = Space(t, r \ {First(r)})
      BY <2>4, <2>5
    <3> QED
      BY <3>1 DEF Sums
  <2>7. (CHOOSE f : Sums(t, m, f)) = g
    <3> HIDE DEF g
    <3>1. Sums(t, m, CHOOSE f : Sums(t, m, f))
      BY <2>6
    <3> QED
      BY <3>1, <2>2, <2>6, SumsUnique
  <2>8. Space(t, m) = g[m]
    BY <2>7, SpaceIs
  <2>9. Holds(m)
    BY <2>8
  <2> QED
    BY <2>1, <2>9
<1> QED
  BY <1>1

LEMMA SpaceNat ==
  ASSUME NEW t, NEW S, IsFiniteSet(S), \A u \in S : t[u].blocks \in Nat
  PROVE  \A s \in SUBSET S : Space(t, s) \in Nat
<1> DEFINE C == {s \in SUBSET S : Space(t, s) \notin Nat}
<1>1. CASE C # {}
  <2>1. PICK m \in C : \A r \in C : ~ (r \subseteq m /\ r # m)
    <3>1. C \subseteq SUBSET S
      OBVIOUS
    <3> HIDE DEF C
    <3> QED
      BY <3>1, <1>1, Smallest
  <2>2. m # {} /\ Space(t, m) = t[First(m)].blocks + Space(t, m \ {First(m)})
    <3>1. m \in SUBSET S /\ Space(t, m) \notin Nat
      BY <2>1
    <3>2. Space(t, m) = IF m = {} THEN 0 ELSE t[First(m)].blocks + Space(t, m \ {First(m)})
      BY <3>1, SpaceStep
    <3> QED
      BY <3>1, <3>2
  <2>3. First(m) \in m
    BY <2>2 DEF First
  <2>4. Space(t, m \ {First(m)}) \in Nat
    BY <2>1, <2>3
  <2> QED
    BY <2>1, <2>2, <2>3, <2>4
<1> QED
  BY <1>1

\* The order does not matter: any element can be taken first.
LEMMA SpaceTake ==
  ASSUME NEW t, NEW S, IsFiniteSet(S), \A u \in S : t[u].blocks \in Nat
  PROVE  \A s \in SUBSET S : \A x \in s : Space(t, s) = t[x].blocks + Space(t, s \ {x})
<1> DEFINE C == {s \in SUBSET S : \E x \in s : Space(t, s) # t[x].blocks + Space(t, s \ {x})}
<1>1. CASE C # {}
  <2>1. PICK m \in C : \A r \in C : ~ (r \subseteq m /\ r # m)
    <3>1. C \subseteq SUBSET S
      OBVIOUS
    <3> HIDE DEF C
    <3> QED
      BY <3>1, <1>1, Smallest
  <2>2. PICK x \in m : Space(t, m) # t[x].blocks + Space(t, m \ {x})
    BY <2>1
  <2> DEFINE y == First(m)
  <2>3. y \in m /\ Space(t, m) = t[y].blocks + Space(t, m \ {y})
    BY <2>1, <2>2, SpaceStep DEF First
  <2> HIDE DEF y
  <2>4. x # y
    BY <2>2, <2>3
  <2>5. m \ {x} \in SUBSET S /\ m \ {x} \notin C /\ m \ {y} \in SUBSET S /\ m \ {y} \notin C
    BY <2>1, <2>2, <2>3
  <2>6. Space(t, m \ {y}) = t[x].blocks + Space(t, (m \ {y}) \ {x})
    BY <2>2, <2>4, <2>5
  <2>7. Space(t, m \ {x}) = t[y].blocks + Space(t, (m \ {x}) \ {y})
    BY <2>3, <2>4, <2>5
  <2>8. (m \ {y}) \ {x} = (m \ {x}) \ {y}
    OBVIOUS
  <2>9. Space(t, (m \ {x}) \ {y}) \in Nat /\ t[x].blocks \in Nat /\ t[y].blocks \in Nat
    BY <2>1, <2>3, SpaceNat
  <2>10. Space(t, m \ {y}) = t[x].blocks + Space(t, (m \ {x}) \ {y})
    BY <2>6, <2>8
  <2> HIDE DEF C
  <2> QED
    BY <2>2, <2>3, <2>7, <2>9, <2>10
<1> QED
  BY <1>1

\* The space of what is left.
LEMMA SpaceWithout ==
  ASSUME NEW t, NEW S, IsFiniteSet(S), \A u \in S : t[u].blocks \in Nat
  PROVE  \A s \in SUBSET S : Space(t, S) = Space(t, s) + Space(t, S \ s)
<1> DEFINE C == {s \in SUBSET S : Space(t, S) # Space(t, s) + Space(t, S \ s)}
<1>1. CASE C # {}
  <2>1. PICK m \in C : \A r \in C : ~ (r \subseteq m /\ r # m)
    <3>1. C \subseteq SUBSET S
      OBVIOUS
    <3> HIDE DEF C
    <3> QED
      BY <3>1, <1>1, Smallest
  <2>2. m # {}
    <3>1. Space(t, {}) = 0 /\ S \ {} = S /\ Space(t, S) \in Nat
      BY SpaceStep, SpaceNat
    <3>2. Space(t, S) # Space(t, m) + Space(t, S \ m)
      BY <2>1
    <3> HIDE DEF C
    <3> QED
      BY <3>1, <3>2
  <2>3. PICK x \in m : TRUE
    BY <2>2
  <2>4. Space(t, m) = t[x].blocks + Space(t, m \ {x})
    BY <2>1, SpaceTake
  <2>5. Space(t, S) = Space(t, m \ {x}) + Space(t, S \ (m \ {x}))
    BY <2>1
  <2>6. x \in S \ (m \ {x}) /\ (S \ (m \ {x})) \ {x} = S \ m
    BY <2>1
  <2>7. Space(t, S \ (m \ {x})) = t[x].blocks + Space(t, S \ m)
    BY <2>6, SpaceTake
  <2>8. Space(t, m \ {x}) \in Nat /\ Space(t, S \ m) \in Nat /\ t[x].blocks \in Nat
    BY <2>1, SpaceNat
  <2> QED
    BY <2>1, <2>4, <2>5, <2>7, <2>8
<1> QED
  BY <1>1

\* Only the blocks matter.
LEMMA SpaceSame ==
  ASSUME NEW t, NEW r, NEW S, IsFiniteSet(S), \A u \in S : t[u].blocks = r[u].blocks
  PROVE  Space(t, S) = Space(r, S)
<1> DEFINE C == {s \in SUBSET S : Space(t, s) # Space(r, s)}
<1>1. CASE C # {}
  <2>1. PICK m \in C : \A q \in C : ~ (q \subseteq m /\ q # m)
    <3>1. C \subseteq SUBSET S
      OBVIOUS
    <3> HIDE DEF C
    <3> QED
      BY <3>1, <1>1, Smallest
  <2>2. m # {}
    BY <2>1, SpaceStep
  <2>3. First(m) \in m
    BY <2>2 DEF First
  <2>4. Space(t, m \ {First(m)}) = Space(r, m \ {First(m)})
    BY <2>1, <2>3
  <2> QED
    BY <2>1, <2>2, <2>3, <2>4, SpaceStep
<1> QED
  BY <1>1

-----------------------------------------------------------------------------
(* What a step relies on. *)

\* What a thread knows at its place: which FILE it has, who has the interface,
\* that the entry it replaces is out of the table, and that the file it writes is
\* nobody else's.
PlaceInv ==
  \A t \in Threads :
    /\ locked[t] # NoFile <=> pc[t] \in {"hit", "reading", "stale"}
    /\ locked[t] # NoFile => locked[t].url = url[t]
    /\ pc[t] \notin {"idle", "stuck"} => url[t] \in Urls
    /\ pc[t] \in {"remove", "create", "body", "meta", "stuck"} => iface = t
    /\ iface = t => pc[t] \in {"remove", "create", "body", "meta", "stuck", "update"}
    /\ pc[t] = "update" /\ iface = t => table[url[t]] # NoEntry
    /\ pc[t] \in {"create", "body", "meta"} => table[url[t]] = NoEntry
    /\ pc[t] \in {"body", "meta"} => newName \in bodies \ NamesIn(table)
    /\ pc[t] = "meta" => newName \in metas /\ <<"body", newName>> \notin openFiles

\* Nothing is left of a process that has ended.
DownInv ==
  ~up => /\ iface = NoThread /\ \A t \in Threads : pc[t] = "idle"
         /\ table = [u \in Urls |-> NoEntry] /\ openFiles = {}

\* An entry has the readers that its holders are, and those that failing calls
\* have left; its lock is that of the readers, unless update_response() failed.
CountInv ==
  \A u \in Listed(table) :
    LET e == table[u] h == Cardinality(Holders(u)) IN
    /\ ~harmed => e.readers = h
    /\ e.lock # "write" => e.readers \in h..h + MaxLeaks /\ (e.lock = "read" <=> e.readers > 0)
    /\ e.lock = "write" => harmed /\ h = 0 /\ e.readers = -1

\* No reader and no lock is saved.
IndexInv == \A u \in Listed(index) : index[u].readers = 0 /\ index[u].lock = "free"

\* The entries of the table, or of the index that the next process will read,
\* have their files, and none of these is being written.
WholeInv ==
  /\ ~harmed => NamesIn(IF up THEN table ELSE index) \subseteq bodies \cap metas
  /\ ~harmed => \A n \in NamesIn(table) : <<"body", n>> \notin openFiles /\ <<"meta", n>> \notin openFiles

\* d_current_size is the space of the entries.
SizeInv == size = Space(table, Listed(table))

IInv == TypeOK /\ PlaceInv /\ DownInv /\ CountInv /\ IndexInv /\ WholeInv /\ SizeInv /\ HeldStays

-----------------------------------------------------------------------------
Tables == [Urls -> Entry \cup {NoEntry}]

\* An entry but for the fields that the methods change.
With(e, r, l, v) == [name |-> e.name, blocks |-> e.blocks, readers |-> r, lock |-> l, valid |-> v]

\* Entries, whatever their readers.
Loose == [name : Names, blocks : Blocks, readers : Int, lock : {"free", "read", "write"},
          valid : {"fresh", "stale"}]

LEMMA MaxTotal == Max(Totals) \in Totals
BY HTTPAssumption DEF Max

\* Entries are records: what the operators on them return, field by field.
LEMMA FieldsIs ==
  ASSUME NEW e \in Loose
  PROVE  /\ \A r \in Int, l \in {"free", "read", "write"} :
              /\ [[e EXCEPT !.readers = r] EXCEPT !.lock = l] = With(e, r, l, e.valid)
              /\ [[e EXCEPT !.lock = l] EXCEPT !.readers = r] = With(e, r, l, e.valid)
         /\ \A v \in {"fresh", "stale"} :
              [e EXCEPT !.valid = v] = With(e, e.readers, e.lock, v)
<1>1. ASSUME NEW r \in Int, NEW l \in {"free", "read", "write"}
      PROVE  [[e EXCEPT !.readers = r] EXCEPT !.lock = l] = With(e, r, l, e.valid)
  <2> DEFINE w == [e EXCEPT !.readers = r]
  <2>1. w \in Loose /\ w.name = e.name /\ w.blocks = e.blocks /\ w.readers = r /\ w.valid = e.valid
    BY DEF Loose
  <2> HIDE DEF w
  <2>2. [w EXCEPT !.lock = l] = With(w, w.readers, l, w.valid)
    BY <2>1 DEF Loose, With
  <2>3. [w EXCEPT !.lock = l] = With(e, r, l, e.valid)
    BY <2>1, <2>2 DEF With
  <2> QED
    BY <2>3 DEF w
<1>2. ASSUME NEW r \in Int, NEW l \in {"free", "read", "write"}
      PROVE  [[e EXCEPT !.lock = l] EXCEPT !.readers = r] = With(e, r, l, e.valid)
  <2> DEFINE w == [e EXCEPT !.lock = l]
  <2>1. w \in Loose /\ w.name = e.name /\ w.blocks = e.blocks /\ w.lock = l /\ w.valid = e.valid
    BY DEF Loose
  <2> HIDE DEF w
  <2>2. [w EXCEPT !.readers = r] = With(w, r, w.lock, w.valid)
    BY <2>1 DEF Loose, With
  <2>3. [w EXCEPT !.readers = r] = With(e, r, l, e.valid)
    BY <2>1, <2>2 DEF With
  <2> QED
    BY <2>3 DEF w
<1>3. \A v \in {"fresh", "stale"} :
        [e EXCEPT !.valid = v] = With(e, e.readers, e.lock, v)
  BY DEF Loose, With
<1> QED
  BY <1>1, <1>2, <1>3

LEMMA EntryLoose == Entry \subseteq Loose
<1>1. -1..Cardinality(Threads) + MaxLeaks \subseteq Int
  BY HTTPAssumption, FS_CardinalityType
<1> QED
  BY <1>1 DEF Entry, Loose

LEMMA LockReadIs ==
  ASSUME NEW e \in Entry
  PROVE  LockRead(e) = With(e, e.readers + 1, "read", e.valid)
<1>1. e \in Loose /\ e.readers \in Int
  BY EntryLoose DEF Loose
<1>2. LockRead(e) = [[e EXCEPT !.lock = "read"] EXCEPT !.readers = e.readers + 1]
  BY <1>1 DEF LockRead, Loose
<1>3. e.readers + 1 \in Int /\ "read" \in {"free", "read", "write"}
  BY <1>1
<1> QED
  BY <1>1, <1>2, <1>3, FieldsIs

LEMMA UnlockReadIs ==
  ASSUME NEW e \in Loose
  PROVE  UnlockRead(e) = With(e, e.readers - 1, IF e.readers = 1 THEN "free" ELSE e.lock, e.valid)
<1> DEFINE w == [e EXCEPT !.readers = e.readers - 1]
<1>1. w \in Loose /\ w.name = e.name /\ w.blocks = e.blocks /\ w.readers = e.readers - 1
      /\ w.lock = e.lock /\ w.valid = e.valid
  BY DEF Loose
<1>2. UnlockRead(e) = [w EXCEPT !.lock = IF e.readers = 1 THEN "free" ELSE e.lock]
  BY DEF UnlockRead, Loose
<1> HIDE DEF w
<1>3. [w EXCEPT !.lock = IF e.readers = 1 THEN "free" ELSE e.lock]
        = With(w, w.readers, IF e.readers = 1 THEN "free" ELSE e.lock, w.valid)
  BY <1>1 DEF Loose, With
<1> QED
  BY <1>1, <1>2, <1>3 DEF With

LEMMA UnlockWrittenIs ==
  ASSUME NEW e \in Entry
  PROVE  UnlockRead([e EXCEPT !.lock = "write"])
           = With(e, e.readers - 1, IF e.readers = 1 THEN "free" ELSE "write", e.valid)
<1> DEFINE w == [e EXCEPT !.lock = "write"]
<1>1. w \in Loose /\ w.name = e.name /\ w.blocks = e.blocks 
      /\ w.readers = e.readers /\ w.lock = "write" /\ w.valid = e.valid
  BY EntryLoose DEF Loose
<1> HIDE DEF w
<1>2. UnlockRead(w) = With(e, e.readers - 1, IF e.readers = 1 THEN "free" ELSE "write", e.valid)
  BY <1>1, UnlockReadIs DEF With
<1> QED
  BY <1>2 DEF w

LEMMA SavedIs ==
  ASSUME NEW e \in Entry
  PROVE  [e EXCEPT !.readers = 0, !.lock = "free"] = With(e, 0, "free", e.valid)
<1>1. [e EXCEPT !.readers = 0, !.lock = "free"] = [[e EXCEPT !.readers = 0] EXCEPT !.lock = "free"]
  BY EntryLoose DEF Loose
<1>2. [[e EXCEPT !.readers = 0] EXCEPT !.lock = "free"] = With(e, 0, "free", e.valid)
  <2>1. e \in Loose /\ 0 \in Int /\ "free" \in {"free", "read", "write"}
    BY EntryLoose
  <2> QED
    BY <2>1, FieldsIs
<1> QED
  BY <1>1, <1>2

LEMMA EntryFacts ==
  /\ \A e \in Entry : /\ e.name \in Names /\ e.blocks \in Nat /\ e.blocks \in Blocks /\ e.readers \in Int
                      /\ e.lock \in {"free", "read", "write"} /\ e.valid \in {"fresh", "stale"} /\ e # NoEntry
  /\ Cardinality(Threads) \in Nat /\ MaxLeaks \in Nat
  /\ \A n : \A u \in Urls : [url |-> u, name |-> n] # NoFile
  /\ NoFile \notin File
<1>1. Cardinality(Threads) \in Nat
  BY HTTPAssumption, FS_CardinalityType
<1>2. MaxLeaks \in Nat /\ Blocks \subseteq Nat
  BY HTTPAssumption
<1>3. \A e \in Entry : /\ e.name \in Names /\ e.blocks \in Nat /\ e.blocks \in Blocks /\ e.readers \in Int
                       /\ e.lock \in {"free", "read", "write"} /\ e.valid \in {"fresh", "stale"}
  BY <1>2, EntryLoose DEF Loose
<1>4. \A e \in Entry : e # NoEntry
  BY EntriesDiffer
<1>5. \A f \in File : f.url \in Urls
  BY DEF File
<1>6. \A n : \A u \in Urls : [url |-> u, name |-> n].url = u /\ NoFile.url = NoUrl /\ NoUrl \notin Urls
  BY HTTPAssumption DEF NoFile
<1> QED
  BY <1>1, <1>2, <1>3, <1>4, <1>5, <1>6

LEMMA EntryMade ==
  \A n \in Names, b \in Blocks, v \in {"fresh", "stale"} :
    [name |-> n, blocks |-> b, readers |-> 0, lock |-> "free", valid |-> v] \in Entry
<1>1. 0 \in -1..Cardinality(Threads) + MaxLeaks
  BY EntryFacts
<1> QED
  BY <1>1 DEF Entry

LEMMA WithMade ==
  \A e \in Entry, r \in -1..Cardinality(Threads) + MaxLeaks, l \in {"free", "read", "write"},
     v \in {"fresh", "stale"} : With(e, r, l, v) \in Entry
BY DEF Entry, With

LEMMA ListedFinite == \A t : IsFiniteSet(Listed(t)) /\ Listed(t) \subseteq Urls
BY HTTPAssumption, FS_Subset DEF Listed

\* The readers of an entry are counted over threads.
LEMMA HoldersFinite ==
  \A u : /\ Holders(u) \subseteq Threads /\ IsFiniteSet(Holders(u)) /\ Cardinality(Holders(u)) \in Nat
         /\ Cardinality(Holders(u)) <= Cardinality(Threads)
         /\ Cardinality(Holders(u)) = 0 <=> Holders(u) = {}
<1> TAKE u
<1>1. Holders(u) \subseteq Threads
  BY DEF Holders
<1>2. IsFiniteSet(Holders(u)) /\ Cardinality(Holders(u)) <= Cardinality(Threads)
  BY <1>1, HTTPAssumption, FS_Subset
<1>3. Cardinality(Holders(u)) \in Nat /\ (Cardinality(Holders(u)) = 0 <=> Holders(u) = {})
  BY <1>2, FS_CardinalityType, FS_EmptySet
<1> QED
  BY <1>1, <1>2, <1>3

\* An entry whose FILE a thread has is in the table and has readers.
LEMMA HeldAreRead ==
  ASSUME IInv, NEW t \in Threads, locked[t] # NoFile
  PROVE  /\ locked[t] \in File /\ locked[t].url = url[t] /\ url[t] \in Urls
         /\ table[url[t]] \in Entry /\ table[url[t]].readers > 0 /\ table[url[t]].lock = "read"
<1>1. locked[t] \in File /\ locked[t].url \in Urls /\ locked[t].url = url[t]
  BY DEF IInv, TypeOK, PlaceInv, File
<1>2. table[url[t]] # NoEntry /\ table[url[t]] \in Entry
  BY <1>1 DEF IInv, TypeOK, HeldStays
<1>3. t \in Holders(url[t])
  BY <1>1 DEF Holders
<1>4. Cardinality(Holders(url[t])) \in Nat /\ Cardinality(Holders(url[t])) # 0
  BY <1>3, HoldersFinite
<1> DEFINE h == Cardinality(Holders(url[t]))
<1>5. /\ table[url[t]].lock # "write" => table[url[t]].readers \in h..h + MaxLeaks
                                         /\ (table[url[t]].lock = "read" <=> table[url[t]].readers > 0)
      /\ table[url[t]].lock = "write" => h = 0
  BY <1>1, <1>2 DEF IInv, CountInv, Listed
<1> HIDE DEF h
<1>6. h \in Nat /\ h # 0
  BY <1>4 DEF h
<1>7. table[url[t]].lock # "write" /\ table[url[t]].readers > 0
  BY <1>5, <1>6, EntryFacts
<1> QED
  BY <1>1, <1>2, <1>5, <1>7

\* The readers of an entry that is listed, by cases.
LEMMA Readers ==
  ASSUME IInv, NEW u \in Listed(table)
  PROVE  LET e == table[u] h == Cardinality(Holders(u)) IN
         /\ h \in Nat /\ e \in Entry /\ e.readers \in Int /\ (~harmed => e.readers = h)
         /\ e.lock # "write"
                 => h <= e.readers /\ e.readers <= h + MaxLeaks /\ (e.lock = "read" <=> e.readers > 0)
         /\ e.lock = "free" => h = 0 /\ e.readers = 0
<1> DEFINE h == Cardinality(Holders(u)) r == table[u].readers l == table[u].lock
<1>1. table[u] \in Entry /\ r \in Int
  BY EntryFacts DEF IInv, TypeOK, Listed
<1>2. h \in Nat
  BY HoldersFinite
<1>3. (~harmed => r = h) /\ (l # "write" => r \in h..h + MaxLeaks /\ (l = "read" <=> r > 0))
  BY DEF IInv, CountInv
<1> HIDE DEF h, r, l
<1>4. r \in h..h + MaxLeaks => h <= r /\ r <= h + MaxLeaks
  BY <1>1, <1>2, EntryFacts
<1>5. h <= r /\ ~ (r > 0) => h = 0 /\ r = 0
  BY <1>1, <1>2
<1>6. /\ h \in Nat /\ table[u] \in Entry /\ r \in Int /\ (~harmed => r = h)
      /\ l # "write" => h <= r /\ r <= h + MaxLeaks /\ (l = "read" <=> r > 0)
      /\ l = "free" => h = 0 /\ r = 0
  BY <1>1, <1>2, <1>3, <1>4, <1>5
<1> QED
  BY <1>6 DEF h, r, l

-----------------------------------------------------------------------------
\* The readers and the validity of entries change, and nothing else of the table.
Keeps == \A u \in Urls : /\ table'[u] = NoEntry <=> table[u] = NoEntry
                         /\ table[u] # NoEntry => 
                              table'[u].name = table[u].name /\ table'[u].blocks = table[u].blocks

LEMMA KeepsFacts ==
  ASSUME Keeps
  PROVE  Listed(table') = Listed(table) /\ NamesIn(table') = NamesIn(table)
         /\ Space(table', Listed(table')) = Space(table, Listed(table))
<1>1. Listed(table') = Listed(table)
  BY DEF Keeps, Listed
<1>2. \A u \in Listed(table) : table'[u].name = table[u].name /\ table'[u].blocks = table[u].blocks
  BY DEF Keeps, Listed
<1>3. NamesIn(table') = NamesIn(table)
  BY <1>1, <1>2 DEF NamesIn
<1>4. Space(table', Listed(table)) = Space(table, Listed(table))
  BY <1>2, ListedFinite, SpaceSame
<1> QED
  BY <1>1, <1>3, <1>4

-----------------------------------------------------------------------------
\* Garbage collection: it takes entries out that have no readers, and the size
\* stays that of the entries.
Sized(c) == c.table \in Tables /\ c.size = Space(c.table, Listed(c.table))
Collects(c, d) ==
  /\ Sized(d)
  /\ \A u \in Urls : d.table[u] # c.table[u] => 
         d.table[u] = NoEntry /\ c.table[u] # NoEntry /\ c.table[u].readers = 0

LEMMA SpaceOfTable ==
  ASSUME NEW t \in Tables
  PROVE  /\ Space(t, Listed(t)) \in Nat
         /\ \A s \in SUBSET Listed(t) : /\ Space(t, s) \in Nat
                                        /\ Space(t, Listed(t)) = Space(t, s) + Space(t, Listed(t) \ s)
<1>1. \A u \in Listed(t) : t[u].blocks \in Nat
  BY EntryFacts DEF Listed, Tables
<1>2. \A s \in SUBSET Listed(t) : Space(t, s) \in Nat
  BY <1>1, ListedFinite, SpaceNat
<1>3. \A s \in SUBSET Listed(t) : Space(t, Listed(t)) = Space(t, s) + Space(t, Listed(t) \ s)
  BY <1>1, ListedFinite, SpaceWithout
<1> QED
  BY <1>2, <1>3

LEMMA DropCollects ==
  ASSUME NEW c, Sized(c), NEW us \in SUBSET Unused(c)
  PROVE  Collects(c, Drop(c, us))
<1> DEFINE d == Drop(c, us) gone == Space(c.table, us)
<1>1. us \subseteq Listed(c.table)
  BY DEF Unused
<1>2. d.table = [u \in Urls |-> IF u \in us THEN NoEntry ELSE c.table[u]]
      /\ d.size = IF gone > c.size THEN 0 ELSE c.size - gone
  BY DEF Drop
<1>3. d.table \in Tables
  BY <1>2 DEF Sized, Tables
<1>4. Listed(d.table) = Listed(c.table) \ us
  BY <1>2 DEF Listed
<1>5. gone \in Nat /\ Space(c.table, Listed(c.table) \ us) \in Nat
      /\ c.size = gone + Space(c.table, Listed(c.table) \ us)
  BY <1>1, SpaceOfTable DEF Sized
<1>6. d.size = Space(c.table, Listed(c.table) \ us)
  <2> HIDE DEF d, gone
  <2> QED
    BY <1>2, <1>5
<1>7. Space(d.table, Listed(d.table)) = Space(c.table, Listed(c.table) \ us)
  <2>1. \A u \in Listed(d.table) : d.table[u].blocks = c.table[u].blocks
    BY <1>1, <1>2, <1>4 DEF Listed
  <2> HIDE DEF d
  <2> QED
    BY <2>1, <1>4, ListedFinite, SpaceSame
<1>8. \A u \in Urls : d.table[u] # c.table[u] =>
        d.table[u] = NoEntry /\ c.table[u] # NoEntry /\ c.table[u].readers = 0
  BY <1>2 DEF Unused, Listed
<1> HIDE DEF d
<1>9. Collects(c, d)
  BY <1>3, <1>6, <1>7, <1>8 DEF Collects, Sized
<1> QED
  BY <1>9 DEF d

LEMMA CollectsAgain ==
  ASSUME NEW c, NEW d, NEW e, Collects(c, d), Collects(d, e)
  PROVE  Collects(c, e)
BY DEF Collects

LEMMA CollectsNothing ==
  ASSUME NEW c, Sized(c)
  PROVE  Collects(c, c)
BY DEF Collects

\* expired_gc(), too_big_gc(), hits_gc(), whichever of them run.
LEMMA GCCollects ==
  ASSUME NEW c, Sized(c), NEW tot
  PROVE  /\ \A e \in PerformGC(c, tot) : Collects(c, e)
         /\ \A e \in GCSpins(c, tot) : Collects(c, e)
<1>1. \A d \in ExpiredGC(c) : Collects(c, d)
  BY DropCollects DEF ExpiredGC
<1>2. ASSUME NEW d, Collects(c, d) PROVE Collects(c, TooBigGC(d, tot))
  <2>1. Sized(d)
    BY <1>2 DEF Collects
  <2>2. CASE StartGC(d, tot)
    <3>1. Collects(d, Drop(d, {u \in Unused(d) : d.table[u].blocks > MaxEntrySize}))
      BY <2>1, DropCollects
    <3> QED
      BY <3>1, <1>2, <2>2, CollectsAgain DEF TooBigGC
  <2> QED
    BY <2>2, <1>2 DEF TooBigGC
<1>3. ASSUME NEW d, Collects(c, d), NEW us \in SUBSET Unused(d) PROVE Collects(c, Drop(d, us))
  <2>1. Sized(d)
    BY <1>3 DEF Collects
  <2>2. Collects(d, Drop(d, us))
    BY <2>1, DropCollects
  <2> QED
    BY <2>2, <1>3, CollectsAgain
<1>4. ASSUME NEW e \in PerformGC(c, tot) PROVE Collects(c, e)
  <2>1. PICK d \in ExpiredGC(c) : e \in HitsGC(TooBigGC(d, tot), tot)
    BY DEF PerformGC
  <2> DEFINE b == TooBigGC(d, tot)
  <2>2. Collects(c, b)
    BY <1>1, <1>2
  <2> HIDE DEF b
  <2>3. e \in HitsGC(b, tot)
    BY <2>1 DEF b
  <2> QED
    BY <2>2, <2>3, <1>3 DEF HitsGC
<1>5. ASSUME NEW e \in GCSpins(c, tot) PROVE Collects(c, e)
  <2>1. PICK d \in {TooBigGC(f, tot) : f \in ExpiredGC(c)} : e = Drop(d, Unused(d))
    BY DEF GCSpins
  <2>2. Collects(c, d)
    BY <2>1, <1>1, <1>2
  <2> QED
    BY <2>1, <2>2, <1>3
<1> QED
  BY <1>4, <1>5

LEMMA CacheSized ==
  ASSUME IInv
  PROVE  /\ Sized(Cache) /\ Cache.table = table /\ Cache.size = size
         /\ table \in Tables /\ index \in Tables
<1>1. Cache.table = table /\ Cache.size = size
  BY DEF Cache
<1>2. table \in Tables /\ index \in Tables
  BY DEF IInv, TypeOK, Tables
<1>3. size = Space(table, Listed(table))
  BY DEF IInv, SizeInv
<1> QED
  BY <1>1, <1>2, <1>3 DEF Sized

\* An entry that is taken out has no holder.
LEMMA UnusedUnheld ==
  ASSUME IInv, NEW u \in Listed(table), table[u].readers = 0
  PROVE  Holders(u) = {}
<1>1. Holders(u) # {} => table[u].readers > 0
  BY HeldAreRead DEF Holders
<1> QED
  BY <1>1

\* The names of a table that has been collected, and the files that stay.
LEMMA CollectedNames ==
  ASSUME NEW c, NEW d, Sized(c), Collects(c, d)
  PROVE  /\ NamesIn(d.table) \subseteq NamesIn(c.table)
         /\ \A u \in Urls : d.table[u] # NoEntry
                 => d.table[u] = c.table[u] /\ d.table[u].name \in NamesIn(d.table)
         /\ \A u \in Urls : c.table[u] # NoEntry /\ c.table[u].readers # 0 => d.table[u] = c.table[u]
BY DEF Collects, NamesIn, Listed

\* Names of entries are Names.
LEMMA NamesAre == \A t \in Tables : NamesIn(t) \subseteq Names
BY EntryFacts DEF Tables, NamesIn, Listed

\* The index that is written lists the entries of the table.
LEMMA IndexWritten ==
  ASSUME NEW t \in Tables, WriteIndex(t)
  PROVE  /\ index' \in Tables /\ NamesIn(index') = NamesIn(t)
         /\ \A u \in Listed(index') : index'[u].readers = 0 /\ index'[u].lock = "free"
<1>1. \A u \in Urls : /\ index'[u] = IF t[u] = NoEntry THEN NoEntry ELSE With(t[u], 0, "free", t[u].valid)
                      /\ t[u] # NoEntry => t[u] \in Entry
  BY SavedIs DEF WriteIndex, Tables
<1>2. \A u \in Urls : t[u] # NoEntry => index'[u] \in Entry /\ index'[u] # NoEntry /\ index'[u].name = t[u].name
                                         /\ index'[u].readers = 0 /\ index'[u].lock = "free"
  <2> SUFFICES ASSUME NEW u \in Urls, t[u] # NoEntry
               PROVE  index'[u] \in Entry /\ index'[u] # NoEntry /\ index'[u].name = t[u].name
                      /\ index'[u].readers = 0 /\ index'[u].lock = "free"
    OBVIOUS
  <2>1. t[u] \in Entry /\ index'[u] = With(t[u], 0, "free", t[u].valid)
        /\ 0 \in -1..Cardinality(Threads) + MaxLeaks
    BY <1>1, EntryFacts
  <2>2. index'[u] \in Entry
    BY <2>1, EntryFacts, WithMade
  <2> QED
    BY <2>1, <2>2, EntryFacts DEF With
<1>3. index' = [u \in Urls |-> index'[u]]
  BY DEF WriteIndex
<1>4. index' \in Tables
  BY <1>1, <1>2, <1>3 DEF Tables
<1>5. Listed(index') = Listed(t)
  BY <1>1, <1>2 DEF Listed
<1>6. NamesIn(index') = NamesIn(t)
  BY <1>2, <1>5 DEF NamesIn, Listed
<1> QED
  BY <1>2, <1>4, <1>5, <1>6 DEF Listed

\* Nor does an index that was not written to its end say of an entry that it is
\* in use.
LEMMA IndexCut ==
  ASSUME NEW t \in Tables, CutIndex(t)
  PROVE  index' \in Tables /\ IndexInv'
<1>1. PICK us \in SUBSET Listed(t) : WriteIndex([u \in Urls |-> IF u \in us THEN t[u] ELSE NoEntry])
  BY DEF CutIndex
<1> DEFINE r == [u \in Urls |-> IF u \in us THEN t[u] ELSE NoEntry]
<1>2. r \in Tables
  BY DEF Tables
<1> HIDE DEF r
<1>3. WriteIndex(r)
  BY <1>1 DEF r
<1> QED
  BY <1>2, <1>3, IndexWritten DEF IndexInv

LEMMA IndexFailed ==
  ASSUME IInv, NEW t \in Tables, IndexFails(t)
  PROVE  index' \in Tables /\ IndexInv'
<1>1. CASE UNCHANGED index
  BY <1>1, CacheSized DEF IInv, IndexInv
<1> QED
  BY <1>1, IndexCut DEF IndexFails

LEMMA IndexSaved ==
  ASSUME IInv, NEW t \in Tables, NEW n, SaveIndex(t, n)
  PROVE  /\ index' \in Tables /\ IndexInv' /\ newEntries' \in {0, n}
         /\ harmed' \in BOOLEAN /\ (harmed => harmed')
<1>1. CASE WriteIndex(t) /\ newEntries' = 0 /\ UNCHANGED harmed
  BY <1>1, IndexWritten DEF IndexInv, IInv, TypeOK
<1>2. CASE UNCHANGED <<index, harmed>> /\ newEntries' = n
  BY <1>2, CacheSized DEF IInv, IndexInv, TypeOK
<1>3. CASE CutIndex(t) /\ newEntries' = n /\ harmed' = TRUE
  BY <1>3, IndexCut
<1>4. CASE CutIndex(t) /\ newEntries' = 0 /\ UNCHANGED harmed
  BY <1>4, IndexCut DEF IInv, TypeOK
<1> QED
  BY <1>1, <1>2, <1>3, <1>4, Zenon DEF SaveIndex

\* The counter of new entries stays where a dump is due.
LEMMA OneMoreBounded ==
  ASSUME IInv
  PROVE  OneMore \in 0..DumpFrequency + 1 /\ 0 \in 0..DumpFrequency + 1
BY HTTPAssumption DEF IInv, TypeOK, OneMore, DumpDue

-----------------------------------------------------------------------------
\* Every conjunct of IInv is kept by each action.

LEMMA BeginInv ==
  ASSUME IInv, NEW t \in Threads, Begin(t)
  PROVE  IInv'
<1> USE DEF Begin, procVars, storeVars
<1>h. \A u : Holders(u)' = Holders(u)
  BY DEF Holders
<1>1. TypeOK'
  BY <1>h DEF IInv, TypeOK, PlaceInv, Steps
<1>2. PlaceInv'
  BY <1>h DEF IInv, TypeOK, PlaceInv, NoFile
<1>3. DownInv'
  BY <1>h DEF IInv, DownInv
<1>4. CountInv'
  BY <1>h DEF IInv, CountInv
<1>5. IndexInv'
  BY <1>h DEF IInv, IndexInv
<1>6. WholeInv'
  BY <1>h DEF IInv, WholeInv
<1>7. SizeInv'
  BY <1>h DEF IInv, SizeInv
<1>8. HeldStays'
  BY <1>h DEF IInv, HeldStays
<1> QED
  BY <1>1, <1>2, <1>3, <1>4, <1>5, <1>6, <1>7, <1>8 DEF IInv

LEMMA GetInv ==
  ASSUME IInv, NEW t \in Threads, Get(t)
  PROVE  IInv'
<1> USE DEF Get, storeVars, Goto, Free
<1>u. url[t] \in Urls /\ table \in Tables /\ table[url[t]] \in Entry
  BY EntryFacts DEF IInv, TypeOK, PlaceInv, Tables
<1>c. LET e == table[url[t]] h == Cardinality(Holders(url[t])) IN
      /\ h \in Nat /\ e \in Entry /\ e.readers \in Int /\ (~harmed => e.readers = h)
      /\ e.lock # "write" => h <= e.readers /\ e.readers <= h + MaxLeaks /\ (e.lock = "read" <=> e.readers > 0)
      /\ e.lock = "free" => h = 0 /\ e.readers = 0
  <2>1. url[t] \in Listed(table)
    BY <1>u, EntryFacts DEF Listed
  <2> QED
    BY <2>1, Readers
<1>h. /\ \A u : u # url[t] => Holders(u)' = Holders(u)
      /\ \A u : u = url[t] => Cardinality(Holders(u)') = Cardinality(Holders(u)) + 1
      /\ Cardinality(Holders(url[t])) + 1 <= Cardinality(Threads)
  <2>1. url[t] \in Urls /\ locked[t] = NoFile /\ locked \in [Threads -> File \cup {NoFile}]
    BY DEF IInv, TypeOK, PlaceInv
  <2>2. /\ locked' \in [Threads -> File \cup {NoFile}]
        /\ locked'[t] # NoFile /\ locked'[t].url = url[t] /\ \A s \in Threads \ {t} : locked'[s] = locked[s]
    <3>1. [url |-> url[t], name |-> table[url[t]].name] \in File
      BY <2>1, EntryFacts DEF IInv, TypeOK, File
    <3> QED
      BY <2>1, <3>1, EntryFacts
  <2>3. \A u : u # url[t] => Holders(u)' = Holders(u)
    BY <2>1, <2>2 DEF Holders
  <2>4. t \notin Holders(url[t]) /\ \A u : u = url[t] => Holders(u)' = Holders(u) \cup {t}
    BY <2>1, <2>2 DEF Holders
  <2>5. Cardinality(Holders(url[t]) \cup {t}) = Cardinality(Holders(url[t])) + 1
    BY <2>4, HoldersFinite, FS_AddElement
  <2>6. Cardinality(Holders(url[t]) \cup {t}) <= Cardinality(Threads)
    <3>1. Holders(url[t]) \cup {t} \in SUBSET Threads
      BY HoldersFinite
    <3> QED
      BY <3>1, FS_Subset, HTTPAssumption
  <2> QED
    BY <2>3, <2>4, <2>5, <2>6
<1>e. /\ table'[url[t]] = With(table[url[t]], table[url[t]].readers + 1,
                "read", table[url[t]].valid)
      /\ table'[url[t]] \in Entry /\ table' = [table EXCEPT ![url[t]] = table'[url[t]]]
  <2>1. /\ table'[url[t]] = With(table[url[t]], table[url[t]].readers + 1,
                "read", table[url[t]].valid)
        /\ table' = [table EXCEPT ![url[t]] = table'[url[t]]]
    <3>1. LockRead(table[url[t]]) = With(table[url[t]], table[url[t]].readers + 1,
                "read", table[url[t]].valid)
      BY <1>u, LockReadIs
    <3> QED
      BY <1>u, <3>1 DEF Tables
  <2>2. table[url[t]].readers + 1 \in -1..Cardinality(Threads) + MaxLeaks
    <3> DEFINE h == Cardinality(Holders(url[t])) n == Cardinality(Threads)
    <3>1. /\ h \in Nat /\ n \in Nat /\ table[url[t]].readers \in Int /\ h + 1 <= n
          /\ h <= table[url[t]].readers /\ table[url[t]].readers <= h + MaxLeaks
      BY <1>c, <1>h, EntryFacts
    <3> HIDE DEF h, n
    <3>2. table[url[t]].readers + 1 \in -1..n + MaxLeaks
      BY <3>1, EntryFacts
    <3> QED
      BY <3>2 DEF n
  <2>3. table[url[t]].lock \in {"free", "read", "write"} /\ table[url[t]].valid \in {"fresh", "stale"}
    BY <1>u, EntryFacts
  <2>4. With(table[url[t]], table[url[t]].readers + 1,
                "read", table[url[t]].valid) \in Entry
    BY <1>u, <2>2, <2>3, WithMade
  <2> QED
    BY <2>1, <2>4
<1>q. /\ table' \in Tables /\ table'[url[t]] # NoEntry /\ table[url[t]] # NoEntry
      /\ table'[url[t]].name = table[url[t]].name /\ table'[url[t]].blocks = table[url[t]].blocks
      /\ \A v \in Urls : v # url[t] => table'[v] = table[v]
  <2>1. table' \in Tables /\ \A v \in Urls : v # url[t] => table'[v] = table[v]
    BY <1>u, <1>e DEF Tables
  <2>2. table'[url[t]].name = table[url[t]].name /\ table'[url[t]].blocks = table[url[t]].blocks
    BY <1>e DEF With
  <2> QED
    BY <1>u, <1>e, <2>1, <2>2, EntryFacts
<1>k. Keeps
  BY <1>q DEF Keeps
<1>n. Listed(table') = Listed(table) /\ NamesIn(table') = NamesIn(table)
      /\ Space(table', Listed(table')) = Space(table, Listed(table))
  BY <1>k, KeepsFacts
<1>1. TypeOK'
  BY <1>u, <1>e, <1>h, <1>q, <1>n, EntryFacts DEF IInv, TypeOK, PlaceInv, Steps, File, Tables
<1>2. PlaceInv'
  BY <1>u, <1>e, <1>h, <1>q, <1>n, EntryFacts DEF IInv, TypeOK, PlaceInv
<1>3. DownInv'
  BY <1>u, <1>e, <1>h, <1>q, <1>n DEF IInv, DownInv
<1>4. CountInv'
  <2> SUFFICES ASSUME NEW v \in Listed(table')
               PROVE  LET e == table'[v] h == Cardinality(Holders(v)') IN
                      /\ ~harmed' => e.readers = h
                      /\ e.lock # "write"
                              => e.readers \in h..h + MaxLeaks /\ (e.lock = "read" <=> e.readers > 0)
                      /\ e.lock = "write" => harmed' /\ h = 0 /\ e.readers = -1
    BY DEF CountInv
  <2>1. v \in Listed(table) /\ v \in Urls
    BY <1>n DEF Listed
  <2>2. CASE v # url[t]
    <3>1. table'[v] = table[v] /\ Holders(v)' = Holders(v) /\ (harmed => harmed')
      BY <1>q, <1>h, <2>1, <2>2
    <3> QED
      BY <2>1, <3>1 DEF IInv, CountInv
  <2>3. CASE v = url[t]
    <3> DEFINE h == Cardinality(Holders(url[t])) g == Cardinality(Holders(v)')
               r == table[url[t]].readers s == table'[url[t]].readers
    <3>1. /\ h \in Nat /\ g = h + 1 /\ r \in Int /\ s = r + 1 /\ table'[url[t]].lock = "read"
          /\ harmed' = harmed
          /\ (~harmed => r = h) /\ h <= r /\ r <= h + MaxLeaks
      BY <1>u, <1>c, <1>e, <1>h, <2>3 DEF With
    <3> HIDE DEF h, g, r, s
    <3>2. (~harmed' => s = g) /\ s \in g..g + MaxLeaks /\ s > 0 /\ table'[url[t]].lock = "read"
      BY <3>1, EntryFacts
    <3> QED
      BY <2>3, <3>2 DEF g, s
  <2> QED
    BY <2>2, <2>3
<1>5. IndexInv'
  BY <1>u, <1>e, <1>h, <1>q, <1>n DEF IInv, IndexInv
<1>6. WholeInv'
  BY <1>u, <1>e, <1>h, <1>q, <1>n DEF IInv, WholeInv
<1>7. SizeInv'
  BY <1>u, <1>e, <1>h, <1>q, <1>n DEF IInv, SizeInv
<1>8. HeldStays'
  BY <1>u, <1>e, <1>h, <1>q, <1>n, EntryFacts DEF IInv, HeldStays, TypeOK, PlaceInv, File, NamesIn, Listed
<1> QED
  BY <1>1, <1>2, <1>3, <1>4, <1>5, <1>6, <1>7, <1>8 DEF IInv

LEMMA GetFailsInv ==
  ASSUME IInv, NEW t \in Threads, GetFails(t)
  PROVE  IInv'
<1> USE DEF GetFails, storeVars, Goto, Free
<1>u. url[t] \in Urls /\ table \in Tables /\ table[url[t]] \in Entry
  BY EntryFacts DEF IInv, TypeOK, PlaceInv, Tables
<1>c. LET e == table[url[t]] h == Cardinality(Holders(url[t])) IN
      /\ h \in Nat /\ e \in Entry /\ e.readers \in Int /\ (~harmed => e.readers = h)
      /\ e.lock # "write" => h <= e.readers /\ e.readers <= h + MaxLeaks /\ (e.lock = "read" <=> e.readers > 0)
      /\ e.lock = "free" => h = 0 /\ e.readers = 0
  <2>1. url[t] \in Listed(table)
    BY <1>u, EntryFacts DEF Listed
  <2> QED
    BY <2>1, Readers
<1>h. \A u : Holders(u)' = Holders(u)
  BY DEF Holders
<1>e. /\ table'[url[t]] = With(table[url[t]], table[url[t]].readers + 1,
                "read", table[url[t]].valid)
      /\ table'[url[t]] \in Entry /\ table' = [table EXCEPT ![url[t]] = table'[url[t]]]
  <2>1. /\ table'[url[t]] = With(table[url[t]], table[url[t]].readers + 1,
                "read", table[url[t]].valid)
        /\ table' = [table EXCEPT ![url[t]] = table'[url[t]]]
    <3>1. LockRead(table[url[t]]) = With(table[url[t]], table[url[t]].readers + 1,
                "read", table[url[t]].valid)
      BY <1>u, LockReadIs
    <3> QED
      BY <1>u, <3>1 DEF Tables
  <2>2. table[url[t]].readers + 1 \in -1..Cardinality(Threads) + MaxLeaks
    BY <1>c, EntryFacts
  <2>3. table[url[t]].lock \in {"free", "read", "write"} /\ table[url[t]].valid \in {"fresh", "stale"}
    BY <1>u, EntryFacts
  <2>4. With(table[url[t]], table[url[t]].readers + 1,
                "read", table[url[t]].valid) \in Entry
    BY <1>u, <2>2, <2>3, WithMade
  <2> QED
    BY <2>1, <2>4
<1>q. /\ table' \in Tables /\ table'[url[t]] # NoEntry /\ table[url[t]] # NoEntry
      /\ table'[url[t]].name = table[url[t]].name /\ table'[url[t]].blocks = table[url[t]].blocks
      /\ \A v \in Urls : v # url[t] => table'[v] = table[v]
  <2>1. table' \in Tables /\ \A v \in Urls : v # url[t] => table'[v] = table[v]
    BY <1>u, <1>e DEF Tables
  <2>2. table'[url[t]].name = table[url[t]].name /\ table'[url[t]].blocks = table[url[t]].blocks
    BY <1>e DEF With
  <2> QED
    BY <1>u, <1>e, <2>1, <2>2, EntryFacts
<1>k. Keeps
  BY <1>q DEF Keeps
<1>n. Listed(table') = Listed(table) /\ NamesIn(table') = NamesIn(table)
      /\ Space(table', Listed(table')) = Space(table, Listed(table))
  BY <1>k, KeepsFacts
<1>1. TypeOK'
  BY <1>u, <1>e, <1>h, <1>q, <1>n DEF IInv, TypeOK, PlaceInv, Steps
<1>2. PlaceInv'
  BY <1>u, <1>e, <1>h, <1>q, <1>n, EntryFacts DEF IInv, TypeOK, PlaceInv
<1>3. DownInv'
  BY <1>u, <1>e, <1>h, <1>q, <1>n DEF IInv, DownInv
<1>4. CountInv'
  <2> SUFFICES ASSUME NEW v \in Listed(table')
               PROVE  LET e == table'[v] h == Cardinality(Holders(v)') IN
                      /\ ~harmed' => e.readers = h
                      /\ e.lock # "write"
                              => e.readers \in h..h + MaxLeaks /\ (e.lock = "read" <=> e.readers > 0)
                      /\ e.lock = "write" => harmed' /\ h = 0 /\ e.readers = -1
    BY DEF CountInv
  <2>1. v \in Listed(table) /\ v \in Urls
    BY <1>n DEF Listed
  <2>2. CASE v # url[t]
    <3>1. table'[v] = table[v] /\ Holders(v)' = Holders(v) /\ (harmed => harmed')
      BY <1>q, <1>h, <2>1, <2>2
    <3> QED
      BY <2>1, <3>1 DEF IInv, CountInv
  <2>3. CASE v = url[t]
    <3> DEFINE h == Cardinality(Holders(url[t])) g == Cardinality(Holders(v)')
               r == table[url[t]].readers s == table'[url[t]].readers
    <3>1. table[url[t]].lock # "write" /\ r < MaxLeaks /\ harmed' = harmed
      OBVIOUS
    <3>2. harmed
      BY <1>u, EntryFacts DEF IInv, WholeInv, NamesIn, Listed
    <3>3. s = r + 1 /\ table'[url[t]].lock = "read" /\ g = h
      BY <1>e, <1>h, <2>3 DEF With
    <3>4. h \in Nat /\ r \in Int /\ h <= r
      BY <1>c, <3>1
    <3> HIDE DEF h, g, r, s
    <3>5. s \in g..g + MaxLeaks /\ s > 0
      BY <3>1, <3>3, <3>4, EntryFacts
    <3> QED
      BY <2>3, <3>1, <3>2, <3>3, <3>5 DEF g, s
  <2> QED
    BY <2>2, <2>3
<1>5. IndexInv'
  BY <1>u, <1>e, <1>h, <1>q, <1>n DEF IInv, IndexInv
<1>6. WholeInv'
  BY <1>u, <1>e, <1>h, <1>q, <1>n DEF IInv, WholeInv
<1>7. SizeInv'
  BY <1>u, <1>e, <1>h, <1>q, <1>n DEF IInv, SizeInv
<1>8. HeldStays'
  BY <1>u, <1>e, <1>h, <1>q, <1>n DEF IInv, HeldStays
<1> QED
  BY <1>1, <1>2, <1>3, <1>4, <1>5, <1>6, <1>7, <1>8 DEF IInv

LEMMA GetMissesInv ==
  ASSUME IInv, NEW t \in Threads, GetMisses(t)
  PROVE  IInv'
<1> USE DEF GetMisses, procVars, storeVars, Goto, Free
<1>h. \A u : Holders(u)' = Holders(u)
  BY DEF Holders
<1>s. PICK step \in {"store", "idle", "null"} : Goto(t, step)
  OBVIOUS
<1>1. TypeOK'
  BY <1>s DEF IInv, TypeOK, Steps
<1>2. PlaceInv'
  BY <1>s DEF IInv, TypeOK, PlaceInv
<1>3. DownInv'
  BY <1>h DEF IInv, DownInv
<1>4. CountInv'
  BY <1>h DEF IInv, CountInv
<1>5. IndexInv'
  BY <1>h DEF IInv, IndexInv
<1>6. WholeInv'
  BY <1>h DEF IInv, WholeInv
<1>7. SizeInv'
  BY <1>h DEF IInv, SizeInv
<1>8. HeldStays'
  BY <1>h DEF IInv, HeldStays
<1> QED
  BY <1>1, <1>2, <1>3, <1>4, <1>5, <1>6, <1>7, <1>8 DEF IInv

LEMMA GetBlocksInv ==
  ASSUME IInv, NEW t \in Threads, GetBlocks(t)
  PROVE  IInv'
<1> USE DEF GetBlocks, storeVars, Goto, Free
<1>h. \A u : Holders(u)' = Holders(u)
  BY DEF Holders
<1>1. TypeOK'
  BY <1>h DEF IInv, TypeOK, PlaceInv, Steps
<1>2. PlaceInv'
  BY <1>h, HTTPAssumption DEF IInv, TypeOK, PlaceInv, HeldStays, DownInv
<1>3. DownInv'
  BY <1>h DEF IInv, DownInv
<1>4. CountInv'
  BY <1>h DEF IInv, CountInv
<1>5. IndexInv'
  BY <1>h DEF IInv, IndexInv
<1>6. WholeInv'
  BY <1>h DEF IInv, WholeInv
<1>7. SizeInv'
  BY <1>h DEF IInv, SizeInv
<1>8. HeldStays'
  BY <1>h DEF IInv, HeldStays
<1> QED
  BY <1>1, <1>2, <1>3, <1>4, <1>5, <1>6, <1>7, <1>8 DEF IInv

LEMMA IsValidInv ==
  ASSUME IInv, NEW t \in Threads, IsValid(t)
  PROVE  IInv'
<1> USE DEF IsValid, procVars, storeVars, Goto, Free
<1>h. \A u : Holders(u)' = Holders(u)
  BY DEF Holders
<1>1. TypeOK'
  BY <1>h DEF IInv, TypeOK, PlaceInv, Steps
<1>2. PlaceInv'
  BY <1>h, HTTPAssumption DEF IInv, TypeOK, PlaceInv, HeldStays, DownInv
<1>3. DownInv'
  BY <1>h DEF IInv, DownInv
<1>4. CountInv'
  BY <1>h DEF IInv, CountInv
<1>5. IndexInv'
  BY <1>h DEF IInv, IndexInv
<1>6. WholeInv'
  BY <1>h DEF IInv, WholeInv
<1>7. SizeInv'
  BY <1>h DEF IInv, SizeInv
<1>8. HeldStays'
  BY <1>h DEF IInv, HeldStays
<1> QED
  BY <1>1, <1>2, <1>3, <1>4, <1>5, <1>6, <1>7, <1>8 DEF IInv

LEMMA ReleaseInv ==
  ASSUME IInv, NEW t \in Threads, Release(t)
  PROVE  IInv'
<1> USE DEF Release, storeVars, Goto, Free
<1>u. /\ url[t] \in Urls /\ table \in Tables /\ table[url[t]] \in Entry /\ locked[t].url = url[t]
      /\ table[url[t]].lock = "read" /\ locked[t] # NoFile
  BY HeldAreRead DEF IInv, TypeOK, PlaceInv, Tables
<1>c. LET e == table[url[t]] h == Cardinality(Holders(url[t])) IN
      /\ h \in Nat /\ e \in Entry /\ e.readers \in Int /\ (~harmed => e.readers = h)
      /\ e.lock # "write" => h <= e.readers /\ e.readers <= h + MaxLeaks /\ (e.lock = "read" <=> e.readers > 0)
      /\ e.lock = "free" => h = 0 /\ e.readers = 0
  <2>1. url[t] \in Listed(table)
    BY <1>u, EntryFacts DEF Listed
  <2> QED
    BY <2>1, Readers
<1>h. /\ \A u : u # url[t] => Holders(u)' = Holders(u)
      /\ \A u : u = url[t] => Cardinality(Holders(u)') = Cardinality(Holders(u)) - 1
      /\ Cardinality(Holders(url[t])) <= Cardinality(Threads) /\ Cardinality(Holders(url[t])) # 0
  <2>1. locked \in [Threads -> File \cup {NoFile}]
    BY DEF IInv, TypeOK
  <2>2. locked'[t] = NoFile /\ \A s \in Threads \ {t} : locked'[s] = locked[s]
    BY <2>1
  <2>3. \A u : u # url[t] => Holders(u)' = Holders(u)
    BY <1>u, <2>2 DEF Holders
  <2>4. t \in Holders(url[t])
    <3> HIDE DEF Release
    <3> QED
      BY <1>u DEF Holders
  <2>5. \A u : u = url[t] => Holders(u)' = Holders(u) \ {t}
    BY <2>2 DEF Holders
  <2>6. Cardinality(Holders(url[t]) \ {t}) = Cardinality(Holders(url[t])) - 1
    BY <2>4, HoldersFinite, FS_RemoveElement
  <2> QED
    BY <2>3, <2>4, <2>5, <2>6, HoldersFinite
<1>e. /\ table'[url[t]] = With(table[url[t]], table[url[t]].readers - 1,
                IF table[url[t]].readers = 1 THEN "free" ELSE table[url[t]].lock, table[url[t]].valid)
      /\ table'[url[t]] \in Entry /\ table' = [table EXCEPT ![url[t]] = table'[url[t]]]
  <2>1. /\ table'[url[t]] = With(table[url[t]], table[url[t]].readers - 1,
                IF table[url[t]].readers = 1 THEN "free" ELSE table[url[t]].lock, table[url[t]].valid)
        /\ table' = [table EXCEPT ![url[t]] = table'[url[t]]]
    <3>1. UnlockRead(table[url[t]]) = With(table[url[t]], table[url[t]].readers - 1,
                IF table[url[t]].readers = 1 THEN "free" ELSE table[url[t]].lock, table[url[t]].valid)
      BY <1>u, EntryLoose, UnlockReadIs
    <3> QED
      BY <1>u, <3>1 DEF Tables
  <2>2. table[url[t]].readers - 1 \in -1..Cardinality(Threads) + MaxLeaks
    <3> DEFINE h == Cardinality(Holders(url[t])) n == Cardinality(Threads)
    <3>1. /\ h \in Nat /\ n \in Nat /\ table[url[t]].readers \in Int /\ h <= n
          /\ h <= table[url[t]].readers /\ table[url[t]].readers <= h + MaxLeaks
      BY <1>u, <1>c, <1>h, EntryFacts
    <3> HIDE DEF h, n
    <3>2. table[url[t]].readers - 1 \in -1..n + MaxLeaks
      BY <3>1, EntryFacts
    <3> QED
      BY <3>2 DEF n
  <2>3. table[url[t]].lock \in {"free", "read", "write"} /\ table[url[t]].valid \in {"fresh", "stale"}
    BY <1>u, EntryFacts
  <2>4. With(table[url[t]], table[url[t]].readers - 1,
                IF table[url[t]].readers = 1 THEN "free" ELSE table[url[t]].lock, table[url[t]].valid) \in Entry
    BY <1>u, <2>2, <2>3, WithMade
  <2> QED
    BY <2>1, <2>4
<1>q. /\ table' \in Tables /\ table'[url[t]] # NoEntry /\ table[url[t]] # NoEntry
      /\ table'[url[t]].name = table[url[t]].name /\ table'[url[t]].blocks = table[url[t]].blocks
      /\ \A v \in Urls : v # url[t] => table'[v] = table[v]
  <2>1. table' \in Tables /\ \A v \in Urls : v # url[t] => table'[v] = table[v]
    BY <1>u, <1>e DEF Tables
  <2>2. table'[url[t]].name = table[url[t]].name /\ table'[url[t]].blocks = table[url[t]].blocks
    BY <1>e DEF With
  <2> QED
    BY <1>u, <1>e, <2>1, <2>2, EntryFacts
<1>k. Keeps
  BY <1>q DEF Keeps
<1>n. Listed(table') = Listed(table) /\ NamesIn(table') = NamesIn(table)
      /\ Space(table', Listed(table')) = Space(table, Listed(table))
  BY <1>k, KeepsFacts
<1>1. TypeOK'
  BY <1>u, <1>e, <1>h, <1>q, <1>n DEF IInv, TypeOK, PlaceInv, Steps
<1>2. PlaceInv'
  BY <1>u, <1>e, <1>h, <1>q, <1>n, EntryFacts DEF IInv, TypeOK, PlaceInv
<1>3. DownInv'
  BY <1>u, <1>e, <1>h, <1>q, <1>n DEF IInv, DownInv
<1>4. CountInv'
  <2> SUFFICES ASSUME NEW v \in Listed(table')
               PROVE  LET e == table'[v] h == Cardinality(Holders(v)') IN
                      /\ ~harmed' => e.readers = h
                      /\ e.lock # "write"
                              => e.readers \in h..h + MaxLeaks /\ (e.lock = "read" <=> e.readers > 0)
                      /\ e.lock = "write" => harmed' /\ h = 0 /\ e.readers = -1
    BY DEF CountInv
  <2>1. v \in Listed(table) /\ v \in Urls
    BY <1>n DEF Listed
  <2>2. CASE v # url[t]
    <3>1. table'[v] = table[v] /\ Holders(v)' = Holders(v) /\ (harmed => harmed')
      BY <1>q, <1>h, <2>1, <2>2
    <3> QED
      BY <2>1, <3>1 DEF IInv, CountInv
  <2>3. CASE v = url[t]
    <3> DEFINE h == Cardinality(Holders(url[t])) g == Cardinality(Holders(v)')
               r == table[url[t]].readers s == table'[url[t]].readers
    <3>1. table[url[t]].lock = "read" /\ harmed' = harmed
      BY <1>u
    <3>2. s = r - 1 /\ table'[url[t]].lock = (IF r = 1 THEN "free" ELSE "read") /\ g = h - 1
      BY <1>e, <1>h, <2>3, <3>1 DEF With
    <3>3. h # 0
      BY <1>h
    <3>4. h \in Nat /\ r \in Int /\ h <= r /\ r <= h + MaxLeaks /\ r > 0
      BY <1>c, <3>1
    <3>5. ~harmed => r = h
      BY <1>c
    <3> HIDE DEF h, g, r, s
    <3>6. s \in g..g + MaxLeaks /\ (s > 0 <=> r # 1)
      BY <3>2, <3>3, <3>4, EntryFacts
    <3>7. r = h => s = g
      BY <3>2
    <3>8. table'[url[t]].lock # "write" /\ (table'[url[t]].lock = "read" <=> r # 1)
      BY <3>2
    <3> QED
      BY <2>3, <3>1, <3>5, <3>6, <3>7, <3>8 DEF g, s
  <2> QED
    BY <2>2, <2>3
<1>5. IndexInv'
  BY <1>u, <1>e, <1>h, <1>q, <1>n DEF IInv, IndexInv
<1>6. WholeInv'
  BY <1>u, <1>e, <1>h, <1>q, <1>n DEF IInv, WholeInv
<1>7. SizeInv'
  BY <1>u, <1>e, <1>h, <1>q, <1>n DEF IInv, SizeInv
<1>8. HeldStays'
  BY <1>u, <1>e, <1>h, <1>q, <1>n, EntryFacts DEF IInv, HeldStays, TypeOK, PlaceInv, File, NamesIn, Listed
<1> QED
  BY <1>1, <1>2, <1>3, <1>4, <1>5, <1>6, <1>7, <1>8 DEF IInv

LEMMA ReleaseNullInv ==
  ASSUME IInv, NEW t \in Threads, ReleaseNull(t)
  PROVE  IInv'
<1> USE DEF ReleaseNull, storeVars, Goto, Free
<1>h. \A u : Holders(u)' = Holders(u)
  BY DEF Holders
<1>1. TypeOK'
  BY <1>h DEF IInv, TypeOK, PlaceInv, Steps
<1>2. PlaceInv'
  BY <1>h DEF IInv, TypeOK, PlaceInv, NoFile
<1>3. DownInv'
  BY <1>h DEF IInv, DownInv
<1>4. CountInv'
  BY <1>h DEF IInv, CountInv
<1>5. IndexInv'
  BY <1>h DEF IInv, IndexInv
<1>6. WholeInv'
  BY <1>h DEF IInv, WholeInv
<1>7. SizeInv'
  BY <1>h DEF IInv, SizeInv
<1>8. HeldStays'
  BY <1>h DEF IInv, HeldStays
<1> QED
  BY <1>1, <1>2, <1>3, <1>4, <1>5, <1>6, <1>7, <1>8 DEF IInv

LEMMA ConditionalInv ==
  ASSUME IInv, NEW t \in Threads, Conditional(t)
  PROVE  IInv'
<1> USE DEF Conditional, procVars, storeVars, Goto, Free
<1>h. \A u : Holders(u)' = Holders(u)
  BY DEF Holders
<1>1. TypeOK'
  BY <1>h DEF IInv, TypeOK, PlaceInv, Steps
<1>2. PlaceInv'
  BY <1>h DEF IInv, TypeOK, PlaceInv, NoFile
<1>3. DownInv'
  BY <1>h DEF IInv, DownInv
<1>4. CountInv'
  BY <1>h DEF IInv, CountInv
<1>5. IndexInv'
  BY <1>h DEF IInv, IndexInv
<1>6. WholeInv'
  BY <1>h DEF IInv, WholeInv
<1>7. SizeInv'
  BY <1>h DEF IInv, SizeInv
<1>8. HeldStays'
  BY <1>h DEF IInv, HeldStays
<1> QED
  BY <1>1, <1>2, <1>3, <1>4, <1>5, <1>6, <1>7, <1>8 DEF IInv

LEMMA AnswerInv ==
  ASSUME IInv, NEW t \in Threads, Answer(t)
  PROVE  IInv'
<1> USE DEF Answer, procVars, storeVars, Goto
<1>h. \A u : Holders(u)' = Holders(u)
  BY DEF Holders
<1>1. TypeOK'
  BY <1>h DEF IInv, TypeOK, PlaceInv, Steps
<1>2. PlaceInv'
  BY <1>h DEF IInv, TypeOK, PlaceInv, NoFile
<1>3. DownInv'
  BY <1>h DEF IInv, DownInv
<1>4. CountInv'
  BY <1>h DEF IInv, CountInv
<1>5. IndexInv'
  BY <1>h DEF IInv, IndexInv
<1>6. WholeInv'
  BY <1>h DEF IInv, WholeInv
<1>7. SizeInv'
  BY <1>h DEF IInv, SizeInv
<1>8. HeldStays'
  BY <1>h DEF IInv, HeldStays
<1> QED
  BY <1>1, <1>2, <1>3, <1>4, <1>5, <1>6, <1>7, <1>8 DEF IInv

LEMMA StoreBeginInv ==
  ASSUME IInv, NEW t \in Threads, StoreBegin(t)
  PROVE  IInv'
<1> USE DEF StoreBegin, storeVars, Goto, Free
<1>h. \A u : Holders(u)' = Holders(u)
  BY DEF Holders
<1>1. TypeOK'
  BY <1>h DEF IInv, TypeOK, PlaceInv, Steps
<1>2. PlaceInv'
  BY <1>h, HTTPAssumption DEF IInv, TypeOK, PlaceInv, HeldStays, DownInv
<1>3. DownInv'
  BY <1>h DEF IInv, DownInv
<1>4. CountInv'
  BY <1>h DEF IInv, CountInv
<1>5. IndexInv'
  BY <1>h DEF IInv, IndexInv
<1>6. WholeInv'
  BY <1>h DEF IInv, WholeInv
<1>7. SizeInv'
  BY <1>h DEF IInv, SizeInv
<1>8. HeldStays'
  BY <1>h DEF IInv, HeldStays
<1> QED
  BY <1>1, <1>2, <1>3, <1>4, <1>5, <1>6, <1>7, <1>8 DEF IInv

LEMMA NotStoredInv ==
  ASSUME IInv, NEW t \in Threads, NotStored(t)
  PROVE  IInv'
<1> USE DEF NotStored, storeVars, StoreEnds, Goto
<1>h. \A u : Holders(u)' = Holders(u)
  BY DEF Holders
<1>1. TypeOK'
  BY <1>h DEF IInv, TypeOK, PlaceInv, Steps
<1>2. PlaceInv'
  BY <1>h, HTTPAssumption DEF IInv, TypeOK, PlaceInv, HeldStays, DownInv
<1>3. DownInv'
  BY <1>h DEF IInv, DownInv
<1>4. CountInv'
  BY <1>h DEF IInv, CountInv
<1>5. IndexInv'
  BY <1>h DEF IInv, IndexInv
<1>6. WholeInv'
  BY <1>h DEF IInv, WholeInv
<1>7. SizeInv'
  BY <1>h DEF IInv, SizeInv
<1>8. HeldStays'
  BY <1>h DEF IInv, HeldStays
<1> QED
  BY <1>1, <1>2, <1>3, <1>4, <1>5, <1>6, <1>7, <1>8 DEF IInv

LEMMA WriteBodyInv ==
  ASSUME IInv, NEW t \in Threads, WriteBody(t)
  PROVE  IInv'
<1> USE DEF WriteBody, Goto
<1>h. \A u : Holders(u)' = Holders(u)
  BY DEF Holders
<1>1. TypeOK'
  BY <1>h DEF IInv, TypeOK, PlaceInv, Steps
<1>2. PlaceInv'
  BY <1>h DEF IInv, PlaceInv
<1>3. DownInv'
  BY <1>h DEF IInv, DownInv
<1>4. CountInv'
  BY <1>h DEF IInv, CountInv
<1>5. IndexInv'
  BY <1>h DEF IInv, IndexInv
<1>6. WholeInv'
  BY <1>h DEF IInv, WholeInv, PlaceInv, TypeOK
<1>7. SizeInv'
  BY <1>h DEF IInv, SizeInv
<1>8. HeldStays'
  BY <1>h DEF IInv, HeldStays
<1> QED
  BY <1>1, <1>2, <1>3, <1>4, <1>5, <1>6, <1>7, <1>8 DEF IInv

LEMMA WriteFailsInv ==
  ASSUME IInv, NEW t \in Threads, WriteFails(t)
  PROVE  IInv'
<1> USE DEF WriteFails, StoreEnds, Goto
<1>h. \A u : Holders(u)' = Holders(u)
  BY DEF Holders
<1>1. TypeOK'
  BY <1>h DEF IInv, TypeOK, PlaceInv, Steps
<1>2. PlaceInv'
  BY <1>h, HTTPAssumption DEF IInv, TypeOK, PlaceInv, HeldStays, DownInv
<1>3. DownInv'
  BY <1>h DEF IInv, DownInv
<1>4. CountInv'
  BY <1>h DEF IInv, CountInv
<1>5. IndexInv'
  BY <1>h DEF IInv, IndexInv
<1>6. WholeInv'
  BY <1>h DEF IInv, WholeInv, PlaceInv, TypeOK
<1>7. SizeInv'
  BY <1>h DEF IInv, SizeInv
<1>8. HeldStays'
  BY <1>h, EntryFacts DEF IInv, HeldStays, TypeOK, PlaceInv, File, NamesIn, Listed
<1> QED
  BY <1>1, <1>2, <1>3, <1>4, <1>5, <1>6, <1>7, <1>8 DEF IInv

LEMMA UpdateMissesInv ==
  ASSUME IInv, NEW t \in Threads, UpdateMisses(t)
  PROVE  IInv'
<1> USE DEF UpdateMisses, procVars, storeVars, Goto, Free
<1>h. \A u : Holders(u)' = Holders(u)
  BY DEF Holders
<1>1. TypeOK'
  BY <1>h DEF IInv, TypeOK, PlaceInv, Steps
<1>2. PlaceInv'
  BY <1>h DEF IInv, TypeOK, PlaceInv, NoFile
<1>3. DownInv'
  BY <1>h DEF IInv, DownInv
<1>4. CountInv'
  BY <1>h DEF IInv, CountInv
<1>5. IndexInv'
  BY <1>h DEF IInv, IndexInv
<1>6. WholeInv'
  BY <1>h DEF IInv, WholeInv
<1>7. SizeInv'
  BY <1>h DEF IInv, SizeInv
<1>8. HeldStays'
  BY <1>h DEF IInv, HeldStays
<1> QED
  BY <1>1, <1>2, <1>3, <1>4, <1>5, <1>6, <1>7, <1>8 DEF IInv

LEMMA UpdateBeginInv ==
  ASSUME IInv, NEW t \in Threads, UpdateBegin(t)
  PROVE  IInv'
<1> USE DEF UpdateBegin, storeVars, Free
<1>h. \A u : Holders(u)' = Holders(u)
  BY DEF Holders
<1>1. TypeOK'
  BY <1>h DEF IInv, TypeOK
<1>2. PlaceInv'
  BY <1>h, HTTPAssumption DEF IInv, TypeOK, PlaceInv, HeldStays, DownInv
<1>3. DownInv'
  BY <1>h DEF IInv, DownInv
<1>4. CountInv'
  BY <1>h DEF IInv, CountInv
<1>5. IndexInv'
  BY <1>h DEF IInv, IndexInv
<1>6. WholeInv'
  BY <1>h DEF IInv, WholeInv
<1>7. SizeInv'
  BY <1>h DEF IInv, SizeInv
<1>8. HeldStays'
  BY <1>h DEF IInv, HeldStays
<1> QED
  BY <1>1, <1>2, <1>3, <1>4, <1>5, <1>6, <1>7, <1>8 DEF IInv

LEMMA CreateBodyInv ==
  ASSUME IInv, NEW t \in Threads, CreateBody(t)
  PROVE  IInv'
<1> USE DEF CreateBody, Goto
<1>h. \A u : Holders(u)' = Holders(u)
  BY DEF Holders
<1>u. newName' \in Names /\ newName' \notin bodies \cup metas \cup NamesIn(table)
      /\ bodies' = bodies \cup {newName'}
      /\ openFiles' = openFiles \cup {<<"body", newName'>>} /\ iface = t /\ table[url[t]] = NoEntry
  BY DEF Unnamed, IInv, PlaceInv
<1>o. /\ up /\ pc[t] = "create" /\ Goto(t, "body")
      /\ UNCHANGED <<up, iface, table, size, total, newEntries, locked, nullKey, metas, index, harmed>>
  OBVIOUS
<1> HIDE DEF CreateBody
<1>1. TypeOK'
  BY <1>h, <1>u, <1>o, EntryFacts, HTTPAssumption
    DEF IInv, TypeOK, PlaceInv, DownInv, Steps, File, Tables
<1>2. PlaceInv'
  BY <1>h, <1>u, <1>o, HTTPAssumption DEF IInv, TypeOK, PlaceInv, HeldStays, DownInv
<1>3. DownInv'
  BY <1>h, <1>u, <1>o DEF IInv, DownInv
<1>4. CountInv'
  BY <1>h, <1>u, <1>o DEF IInv, CountInv
<1>5. IndexInv'
  BY <1>h, <1>u, <1>o DEF IInv, IndexInv
<1>6. WholeInv'
  BY <1>h, <1>u, <1>o DEF IInv, WholeInv, PlaceInv, TypeOK, NamesIn, Listed
<1>7. SizeInv'
  BY <1>h, <1>u, <1>o DEF IInv, SizeInv
<1>8. HeldStays'
  BY <1>h, <1>u, <1>o DEF IInv, HeldStays
<1> QED
  BY <1>1, <1>2, <1>3, <1>4, <1>5, <1>6, <1>7, <1>8 DEF IInv

LEMMA UpdateInv ==
  ASSUME IInv, NEW t \in Threads, Update(t)
  PROVE  IInv'
<1> USE DEF Update, storeVars, Goto
<1>u. url[t] \in Urls /\ table \in Tables /\ table[url[t]] \in Entry
  BY EntryFacts DEF IInv, TypeOK, PlaceInv, Tables
<1>v. PICK w \in {"fresh", "stale"} : table' = [table EXCEPT ![url[t]].valid = w]
  OBVIOUS
<1>h. \A u : Holders(u)' = Holders(u)
  BY DEF Holders
<1>e. /\ table'[url[t]] = With(table[url[t]], table[url[t]].readers, table[url[t]].lock, w)
      /\ table'[url[t]] \in Entry /\ table' = [table EXCEPT ![url[t]] = table'[url[t]]]
  <2>1. /\ table'[url[t]] = With(table[url[t]], table[url[t]].readers, table[url[t]].lock, w)
        /\ table' = [table EXCEPT ![url[t]] = table'[url[t]]]
    <3>1. [table[url[t]] EXCEPT !.valid = w] = With(table[url[t]], table[url[t]].readers, table[url[t]].lock, w)
      BY <1>u, EntryLoose, FieldsIs
    <3>2. table' = [table EXCEPT ![url[t]] = [table[url[t]] EXCEPT !.valid = w]]
      BY <1>u, <1>v DEF Tables
    <3> QED
      BY <1>u, <3>1, <3>2 DEF Tables
  <2>2. table[url[t]].readers \in -1..Cardinality(Threads) + MaxLeaks
    BY <1>u DEF Entry
  <2>3. table[url[t]].lock \in {"free", "read", "write"} /\ table[url[t]].valid \in {"fresh", "stale"}
    BY <1>u, EntryFacts
  <2>4. With(table[url[t]], table[url[t]].readers, table[url[t]].lock, w) \in Entry
    BY <1>u, <2>2, <2>3, WithMade
  <2> QED
    BY <2>1, <2>4
<1>q. /\ table' \in Tables /\ table'[url[t]] # NoEntry /\ table[url[t]] # NoEntry
      /\ table'[url[t]].name = table[url[t]].name /\ table'[url[t]].blocks = table[url[t]].blocks
      /\ \A v \in Urls : v # url[t] => table'[v] = table[v]
  <2>1. table' \in Tables /\ \A v \in Urls : v # url[t] => table'[v] = table[v]
    BY <1>u, <1>e DEF Tables
  <2>2. table'[url[t]].name = table[url[t]].name /\ table'[url[t]].blocks = table[url[t]].blocks
    BY <1>e DEF With
  <2> QED
    BY <1>u, <1>e, <2>1, <2>2, EntryFacts
<1>k. Keeps
  BY <1>q DEF Keeps
<1>n. Listed(table') = Listed(table) /\ NamesIn(table') = NamesIn(table)
      /\ Space(table', Listed(table')) = Space(table, Listed(table))
  BY <1>k, KeepsFacts
<1>1. TypeOK'
  BY <1>u, <1>e, <1>h, <1>q, <1>n DEF IInv, TypeOK, PlaceInv, Steps
<1>2. PlaceInv'
  BY <1>u, <1>e, <1>h, <1>q, <1>n, HTTPAssumption DEF IInv, TypeOK, PlaceInv, HeldStays, DownInv
<1>3. DownInv'
  BY <1>u, <1>e, <1>h, <1>q, <1>n DEF IInv, DownInv
<1>4. CountInv'
  BY <1>u, <1>e, <1>h, <1>q, <1>n DEF IInv, CountInv
<1>5. IndexInv'
  BY <1>u, <1>e, <1>h, <1>q, <1>n DEF IInv, IndexInv
<1>6. WholeInv'
  BY <1>u, <1>e, <1>h, <1>q, <1>n DEF IInv, WholeInv
<1>7. SizeInv'
  BY <1>u, <1>e, <1>h, <1>q, <1>n DEF IInv, SizeInv
<1>8. HeldStays'
  <2> SUFFICES ASSUME NEW s \in Threads, locked'[s] # NoFile
               PROVE  LET x == table'[locked'[s].url]
                      IN x # NoEntry /\ x.name = locked'[s].name /\ x.name \in bodies' \cap metas'
    BY DEF HeldStays
  <2>1. locked' = locked
    BY <1>u
  <2>2. /\ locked[s].url = url[s] /\ url[s] \in Urls /\ table[url[s]] # NoEntry /\ table[url[s]].readers # 0
        /\ table[url[s]].name = locked[s].name /\ table[url[s]].name \in bodies \cap metas
    <3>1. /\ locked[s].url = url[s] /\ url[s] \in Urls /\ table[url[s]] \in Entry /\ table[url[s]].readers > 0
      BY <2>1, HeldAreRead
    <3>2. LET x == table[locked[s].url]
          IN x # NoEntry /\ x.name = locked[s].name /\ x.name \in bodies \cap metas
      BY <2>1 DEF IInv, HeldStays
    <3>3. table[url[s]].readers # 0
      BY <3>1, EntryFacts
    <3> QED
      BY <3>1, <3>2, <3>3
  <2>3. table'[url[s]] # NoEntry /\ table'[url[s]].name = table[url[s]].name
    BY <1>k, <2>2 DEF Keeps
  <2> QED
    BY <2>1, <2>2, <2>3
<1> QED
  BY <1>1, <1>2, <1>3, <1>4, <1>5, <1>6, <1>7, <1>8 DEF IInv

LEMMA UpdateFailsInv ==
  ASSUME IInv, NEW t \in Threads, UpdateFails(t)
  PROVE  IInv'
<1> USE DEF UpdateFails, Goto
<1>u. url[t] \in Urls /\ table \in Tables /\ table[url[t]] \in Entry
  BY EntryFacts DEF IInv, TypeOK, PlaceInv, Tables
<1>c. LET e == table[url[t]] h == Cardinality(Holders(url[t])) IN
      /\ h \in Nat /\ e \in Entry /\ e.readers \in Int /\ (~harmed => e.readers = h)
      /\ e.lock # "write" => h <= e.readers /\ e.readers <= h + MaxLeaks /\ (e.lock = "read" <=> e.readers > 0)
      /\ e.lock = "free" => h = 0 /\ e.readers = 0
  <2>1. url[t] \in Listed(table)
    BY <1>u, EntryFacts DEF Listed
  <2> QED
    BY <2>1, Readers
<1>f. table[url[t]].readers = 0 /\ Cardinality(Holders(url[t])) = 0
  BY <1>c
<1>h. \A u : Holders(u)' = Holders(u)
  BY DEF Holders
<1>e. /\ table'[url[t]] = With(table[url[t]], table[url[t]].readers - 1,
                IF table[url[t]].readers = 1 THEN "free" ELSE "write", table[url[t]].valid)
      /\ table'[url[t]] \in Entry /\ table' = [table EXCEPT ![url[t]] = table'[url[t]]]
  <2>1. /\ table'[url[t]] = With(table[url[t]], table[url[t]].readers - 1,
                IF table[url[t]].readers = 1 THEN "free" ELSE "write", table[url[t]].valid)
        /\ table' = [table EXCEPT ![url[t]] = table'[url[t]]]
    <3>1. UnlockRead([table[url[t]] EXCEPT !.lock = "write"]) = With(table[url[t]], table[url[t]].readers - 1,
                IF table[url[t]].readers = 1 THEN "free" ELSE "write", table[url[t]].valid)
      BY <1>u, UnlockWrittenIs
    <3> QED
      BY <1>u, <3>1 DEF Tables
  <2>2. table[url[t]].readers - 1 \in -1..Cardinality(Threads) + MaxLeaks
    BY <1>f, EntryFacts
  <2>3. table[url[t]].lock \in {"free", "read", "write"} /\ table[url[t]].valid \in {"fresh", "stale"}
    BY <1>u, EntryFacts
  <2>4. With(table[url[t]], table[url[t]].readers - 1,
                IF table[url[t]].readers = 1 THEN "free" ELSE "write", table[url[t]].valid) \in Entry
    BY <1>u, <2>2, <2>3, WithMade
  <2> QED
    BY <2>1, <2>4
<1>q. /\ table' \in Tables /\ table'[url[t]] # NoEntry /\ table[url[t]] # NoEntry
      /\ table'[url[t]].name = table[url[t]].name /\ table'[url[t]].blocks = table[url[t]].blocks
      /\ \A v \in Urls : v # url[t] => table'[v] = table[v]
  <2>1. table' \in Tables /\ \A v \in Urls : v # url[t] => table'[v] = table[v]
    BY <1>u, <1>e DEF Tables
  <2>2. table'[url[t]].name = table[url[t]].name /\ table'[url[t]].blocks = table[url[t]].blocks
    BY <1>e DEF With
  <2> QED
    BY <1>u, <1>e, <2>1, <2>2, EntryFacts
<1>k. Keeps
  BY <1>q DEF Keeps
<1>n. Listed(table') = Listed(table) /\ NamesIn(table') = NamesIn(table)
      /\ Space(table', Listed(table')) = Space(table, Listed(table))
  BY <1>k, KeepsFacts
<1>1. TypeOK'
  BY <1>u, <1>e, <1>f, <1>h, <1>q, <1>n, EntryFacts DEF IInv, TypeOK, PlaceInv, Steps, File, Tables
<1>2. PlaceInv'
  BY <1>u, <1>e, <1>f, <1>h, <1>q, <1>n, HTTPAssumption DEF IInv, TypeOK, PlaceInv, HeldStays, DownInv
<1>3. DownInv'
  BY <1>u, <1>e, <1>f, <1>h, <1>q, <1>n DEF IInv, DownInv
<1>4. CountInv'
  <2> SUFFICES ASSUME NEW v \in Listed(table')
               PROVE  LET e == table'[v] h == Cardinality(Holders(v)') IN
                      /\ ~harmed' => e.readers = h
                      /\ e.lock # "write"
                              => e.readers \in h..h + MaxLeaks /\ (e.lock = "read" <=> e.readers > 0)
                      /\ e.lock = "write" => harmed' /\ h = 0 /\ e.readers = -1
    BY DEF CountInv
  <2>1. v \in Listed(table) /\ v \in Urls
    BY <1>n DEF Listed
  <2>2. CASE v # url[t]
    <3>1. table'[v] = table[v] /\ Holders(v)' = Holders(v) /\ (harmed => harmed')
      BY <1>q, <1>h, <2>1, <2>2
    <3> QED
      BY <2>1, <3>1 DEF IInv, CountInv
  <2>3. CASE v = url[t]
    <3> DEFINE h == Cardinality(Holders(url[t])) g == Cardinality(Holders(v)')
               r == table[url[t]].readers s == table'[url[t]].readers
    <3>1. h = 0 /\ g = h /\ r = 0
      BY <1>f, <1>h, <2>3
    <3>2. s = -1 /\ table'[url[t]].lock = "write"
      BY <1>e, <3>1 DEF With
    <3> QED
      BY <2>3, <3>1, <3>2
  <2> QED
    BY <2>2, <2>3
<1>5. IndexInv'
  BY <1>u, <1>e, <1>f, <1>h, <1>q, <1>n DEF IInv, IndexInv
<1>6. WholeInv'
  BY <1>u, <1>e, <1>f, <1>h, <1>q, <1>n DEF IInv, WholeInv
<1>7. SizeInv'
  BY <1>u, <1>e, <1>f, <1>h, <1>q, <1>n DEF IInv, SizeInv
<1>8. HeldStays'
  BY <1>u, <1>e, <1>f, <1>h, <1>q, <1>n, EntryFacts DEF IInv, HeldStays, TypeOK, PlaceInv, File, NamesIn, Listed
<1> QED
  BY <1>1, <1>2, <1>3, <1>4, <1>5, <1>6, <1>7, <1>8 DEF IInv

LEMMA RemoveOldInv ==
  ASSUME IInv, NEW t \in Threads, RemoveOld(t)
  PROVE  IInv'
<1> USE DEF RemoveOld, Collects, Sized, Goto, Install
<1>h. \A u : Holders(u)' = Holders(u)
  BY DEF Holders
<1>s. /\ Sized(Cache) /\ Cache.table = table /\ Cache.size = size /\ table \in Tables
  BY CacheSized
<1>d. PICK d : Collects(Cache, d) /\ Install(table, d, metas) /\ d.table[url[t]] = NoEntry
  <2>1. url[t] \in Urls
    BY DEF IInv, PlaceInv
  <2>2. CASE table[url[t]] = NoEntry
    <3>1. {url[t]} \cap Listed(table) = {}
      BY <2>2 DEF Listed
    <3>2. Collects(Cache, Drop(Cache, {})) /\ Drop(Cache, {}).table[url[t]] = NoEntry
      BY <1>s, <2>1, <2>2, DropCollects DEF Drop
    <3> QED
      BY <3>1, <3>2
  <2>3. CASE table[url[t]] # NoEntry
    <3>1. url[t] \in Listed(table) /\ {url[t]} \cap Listed(table) = {url[t]} /\ table[url[t]] \in Entry
      BY <1>s, <2>1, <2>3 DEF Listed, Tables
    <3>2. table[url[t]].lock = "free"
      BY <2>3
    <3>3. table[url[t]].readers = 0
      BY <3>1, <3>2, Readers
    <3>4. {url[t]} \in SUBSET Unused(Cache)
      BY <1>s, <3>1, <3>3 DEF Unused
    <3>5. Collects(Cache, Drop(Cache, {url[t]})) /\ Drop(Cache, {url[t]}).table[url[t]] = NoEntry
      BY <1>s, <2>1, <3>4, DropCollects DEF Drop
    <3> QED
      BY <3>1, <3>5
  <2> QED
    BY <2>2, <2>3
<1>n. /\ d.table \in Tables /\ d.size \in Nat /\ d.size = Space(d.table, Listed(d.table))
      /\ NamesIn(d.table) \subseteq NamesIn(table) /\ NamesIn(d.table) \subseteq Names
      /\ \A u \in Urls : d.table[u] # NoEntry => d.table[u] = table[u] /\ d.table[u].name \in NamesIn(d.table)
      /\ \A u \in Urls : table[u] # NoEntry /\ table[u].readers # 0 => d.table[u] = table[u]
  BY <1>s, <1>d, CollectedNames, SpaceOfTable, NamesAre DEF Collects, Sized
<1>1. TypeOK'
  BY <1>h, <1>s, <1>d, <1>n, EntryFacts DEF IInv, TypeOK, PlaceInv, Steps, File, Tables
<1>2. PlaceInv'
  BY <1>h, <1>s, <1>d, <1>n DEF IInv, TypeOK, PlaceInv, NoFile
<1>3. DownInv'
  BY <1>h, <1>s, <1>d, <1>n DEF IInv, DownInv
<1>4. CountInv'
  BY <1>h, <1>s, <1>d, <1>n DEF IInv, CountInv, Listed
<1>5. IndexInv'
  BY <1>h, <1>s, <1>d, <1>n DEF IInv, IndexInv
<1>6. WholeInv'
  BY <1>h, <1>s, <1>d, <1>n DEF IInv, WholeInv
<1>7. SizeInv'
  BY <1>h, <1>s, <1>d, <1>n DEF IInv, SizeInv
<1>8. HeldStays'
  <2> SUFFICES ASSUME NEW s \in Threads, locked'[s] # NoFile
               PROVE  LET x == table'[locked'[s].url]
                      IN x # NoEntry /\ x.name = locked'[s].name /\ x.name \in bodies' \cap metas'
    BY DEF HeldStays
  <2>1. locked' = locked
    BY <1>d
  <2>2. /\ locked[s].url = url[s] /\ url[s] \in Urls /\ table[url[s]] # NoEntry /\ table[url[s]].readers # 0
        /\ table[url[s]].name = locked[s].name /\ table[url[s]].name \in bodies \cap metas
    <3>1. /\ locked[s].url = url[s] /\ url[s] \in Urls /\ table[url[s]] \in Entry /\ table[url[s]].readers > 0
      BY <2>1, HeldAreRead
    <3>2. LET x == table[locked[s].url]
          IN x # NoEntry /\ x.name = locked[s].name /\ x.name \in bodies \cap metas
      BY <2>1 DEF IInv, HeldStays
    <3>3. table[url[s]].readers # 0
      BY <3>1, EntryFacts
    <3> QED
      BY <3>1, <3>2, <3>3
  <2>3. d.table[url[s]] = table[url[s]] /\ d.table[url[s]].name \in NamesIn(d.table)
    BY <1>n, <2>2
  <2>4. table'[url[s]] = d.table[url[s]] /\ d.table[url[s]].name \in bodies' \cap metas'
    BY <1>d, <2>2, <2>3 DEF Install
  <2> QED
    BY <2>1, <2>2, <2>3, <2>4
<1> QED
  BY <1>1, <1>2, <1>3, <1>4, <1>5, <1>6, <1>7, <1>8 DEF IInv

LEMMA PurgeInv ==
  ASSUME IInv, NEW t \in Threads, Purge(t)
  PROVE  IInv'
<1> USE DEF Purge, Free, Install
<1>h. \A u : Holders(u)' = Holders(u)
  BY DEF Holders
<1>s. /\ Sized(Cache) /\ Cache.table = table /\ Cache.size = size /\ table \in Tables
  BY CacheSized
<1>d. PICK d : Collects(Cache, d) /\ Install(table, d, metas)
  BY <1>s, DropCollects
<1>n. /\ d.table \in Tables /\ d.size \in Nat /\ d.size = Space(d.table, Listed(d.table))
      /\ NamesIn(d.table) \subseteq NamesIn(table) /\ NamesIn(d.table) \subseteq Names
      /\ \A u \in Urls : d.table[u] # NoEntry => d.table[u] = table[u] /\ d.table[u].name \in NamesIn(d.table)
      /\ \A u \in Urls : table[u] # NoEntry /\ table[u].readers # 0 => d.table[u] = table[u]
  BY <1>s, <1>d, CollectedNames, SpaceOfTable, NamesAre DEF Collects, Sized
<1>1. TypeOK'
  BY <1>h, <1>s, <1>d, <1>n, EntryFacts, HTTPAssumption
    DEF IInv, TypeOK, PlaceInv, DownInv, Steps, File, Tables
<1>2. PlaceInv'
  BY <1>h, <1>s, <1>d, <1>n, HTTPAssumption DEF IInv, TypeOK, PlaceInv, HeldStays, DownInv
<1>3. DownInv'
  BY <1>h, <1>s, <1>d, <1>n DEF IInv, DownInv
<1>4. CountInv'
  BY <1>h, <1>s, <1>d, <1>n DEF IInv, CountInv, Listed
<1>5. IndexInv'
  BY <1>h, <1>s, <1>d, <1>n DEF IInv, IndexInv, Listed
<1>6. WholeInv'
  BY <1>h, <1>s, <1>d, <1>n DEF IInv, WholeInv
<1>7. SizeInv'
  BY <1>h, <1>s, <1>d, <1>n DEF IInv, SizeInv
<1>8. HeldStays'
  BY <1>h, <1>s, <1>d, <1>n DEF IInv, HeldStays
<1> QED
  BY <1>1, <1>2, <1>3, <1>4, <1>5, <1>6, <1>7, <1>8 DEF IInv

LEMMA SetMaxSizeInv ==
  ASSUME IInv, NEW t \in Threads, SetMaxSize(t)
  PROVE  IInv'
<1> USE DEF SetMaxSize, Goto, Free, Install
<1>h. \A u : Holders(u)' = Holders(u)
  BY DEF Holders
<1>s. /\ Sized(Cache) /\ Cache.table = table /\ Cache.size = size /\ table \in Tables
  BY CacheSized
<1>d. PICK d : /\ Collects(Cache, d) /\ Install(table, d, metas)
               /\ UNCHANGED <<index, newEntries, harmed>> \/ SaveIndex(d.table, newEntries)
  BY <1>s, GCCollects, CollectsNothing
<1>n. /\ d.table \in Tables /\ d.size \in Nat /\ d.size = Space(d.table, Listed(d.table))
      /\ NamesIn(d.table) \subseteq NamesIn(table) /\ NamesIn(d.table) \subseteq Names
      /\ \A u \in Urls : d.table[u] # NoEntry => d.table[u] = table[u] /\ d.table[u].name \in NamesIn(d.table)
      /\ \A u \in Urls : table[u] # NoEntry /\ table[u].readers # 0 => d.table[u] = table[u]
  BY <1>s, <1>d, CollectedNames, SpaceOfTable, NamesAre DEF Collects, Sized
<1>i. /\ index' \in Tables /\ IndexInv' /\ newEntries' \in 0..DumpFrequency + 1
      /\ harmed' \in BOOLEAN /\ (harmed => harmed')
  <2>1. CASE UNCHANGED <<index, newEntries, harmed>>
    BY <2>1, CacheSized DEF IInv, IndexInv, TypeOK
  <2>2. CASE SaveIndex(d.table, newEntries)
    BY <2>2, <1>n, IndexSaved, OneMoreBounded DEF IInv, TypeOK
  <2> QED
    BY <2>1, <2>2, <1>d
<1>1. TypeOK'
  BY <1>h, <1>s, <1>d, <1>n, <1>i, EntryFacts, HTTPAssumption
    DEF IInv, TypeOK, PlaceInv, DownInv, Steps, File, Tables
<1>2. PlaceInv'
  BY <1>h, <1>s, <1>d, <1>n, <1>i, HTTPAssumption DEF IInv, TypeOK, PlaceInv, HeldStays, DownInv
<1>3. DownInv'
  BY <1>h, <1>s, <1>d, <1>n, <1>i DEF IInv, DownInv
<1>4. CountInv'
  BY <1>h, <1>s, <1>d, <1>n, <1>i DEF IInv, CountInv, Listed
<1>5. IndexInv'
  BY <1>h, <1>s, <1>d, <1>n, <1>i DEF IInv, IndexInv
<1>6. WholeInv'
  BY <1>h, <1>s, <1>d, <1>n, <1>i DEF IInv, WholeInv
<1>7. SizeInv'
  BY <1>h, <1>s, <1>d, <1>n, <1>i DEF IInv, SizeInv
<1>8. HeldStays'
  <2> SUFFICES ASSUME NEW s \in Threads, locked'[s] # NoFile
               PROVE  LET x == table'[locked'[s].url]
                      IN x # NoEntry /\ x.name = locked'[s].name /\ x.name \in bodies' \cap metas'
    BY DEF HeldStays
  <2>1. locked' = locked
    BY <1>d
  <2>2. /\ locked[s].url = url[s] /\ url[s] \in Urls /\ table[url[s]] # NoEntry /\ table[url[s]].readers # 0
        /\ table[url[s]].name = locked[s].name /\ table[url[s]].name \in bodies \cap metas
    <3>1. /\ locked[s].url = url[s] /\ url[s] \in Urls /\ table[url[s]] \in Entry /\ table[url[s]].readers > 0
      BY <2>1, HeldAreRead
    <3>2. LET x == table[locked[s].url]
          IN x # NoEntry /\ x.name = locked[s].name /\ x.name \in bodies \cap metas
      BY <2>1 DEF IInv, HeldStays
    <3>3. table[url[s]].readers # 0
      BY <3>1, EntryFacts
    <3> QED
      BY <3>1, <3>2, <3>3
  <2>3. d.table[url[s]] = table[url[s]] /\ d.table[url[s]].name \in NamesIn(d.table)
    BY <1>n, <2>2
  <2>4. table'[url[s]] = d.table[url[s]] /\ d.table[url[s]].name \in bodies' \cap metas'
    BY <1>d, <2>2, <2>3 DEF Install
  <2> QED
    BY <2>1, <2>2, <2>3, <2>4
<1> QED
  BY <1>1, <1>2, <1>3, <1>4, <1>5, <1>6, <1>7, <1>8 DEF IInv

LEMMA AddEntryInv ==
  ASSUME IInv, NEW t \in Threads, AddEntry(t)
  PROVE  IInv'
<1> USE DEF AddEntry, Goto, StoreEnds, Install
<1>h. \A u : Holders(u)' = Holders(u)
  BY DEF Holders
<1>u. url[t] \in Urls /\ newName \in Names /\ table[url[t]] = NoEntry /\ table \in Tables /\ size \in Nat
      /\ newName \notin NamesIn(table) /\ newName \in bodies \cap metas
      /\ <<"body", newName>> \notin openFiles /\ iface = t
  BY DEF IInv, TypeOK, PlaceInv, Tables
<1>p. PICK b \in Blocks, v \in {"fresh", "stale"} :
        LET e == [name |-> newName, blocks |-> b, readers |-> 0, lock |-> "free", valid |-> v]
            c == [table |-> [table EXCEPT ![url[t]] = e], size |-> size + b]
            dump == DumpDue(OneMore)
            gc == dump /\ StartGC(c, total)
        IN \/ /\ ~dump
              /\ Install(c.table, c, metas) /\ newEntries' = OneMore
              /\ StoreEnds(t) /\ UNCHANGED <<index, harmed>>
           \/ /\ dump
              /\ \E d \in IF gc THEN PerformGC(c, total) ELSE {c} :
                   Install(c.table, d, metas) /\ SaveIndex(d.table, OneMore)
              /\ StoreEnds(t)
           \/ /\ gc
              /\ \E d \in GCSpins(c, total) : Install(c.table, d, metas)
              /\ newEntries' = OneMore
              /\ Goto(t, "stuck") /\ UNCHANGED <<iface, index, harmed>>
  OBVIOUS
<1>o. /\ openFiles' = openFiles \ {<<"meta", newName>>} /\ newName' = NoName /\ up /\ pc[t] = "meta"
      /\ UNCHANGED <<up, total, locked, nullKey>>
  OBVIOUS
<1> HIDE DEF AddEntry
<1> DEFINE e == [name |-> newName, blocks |-> b, readers |-> 0, lock |-> "free", valid |-> v]
           c == [table |-> [table EXCEPT ![url[t]] = e], size |-> size + b]
<1>e. /\ e \in Entry /\ e # NoEntry /\ e.name = newName /\ e.readers = 0 /\ e.lock = "free"
      /\ e.blocks = b /\ b \in Nat
  <2>1. e \in Entry
    BY <1>u, EntryMade
  <2> QED
    BY <2>1, EntryFacts
<1>c. /\ c.table \in Tables /\ c.table[url[t]] = e /\ c.size = size + b
      /\ \A u \in Urls : u # url[t] => c.table[u] = table[u]
  <2> HIDE DEF e
  <2> QED
    BY <1>u, <1>e DEF Tables
<1> HIDE DEF e
<1>m. /\ \/ /\ ~ DumpDue(OneMore)
            /\ Install(c.table, c, metas) /\ newEntries' = OneMore
            /\ StoreEnds(t) /\ UNCHANGED <<index, harmed>>
         \/ /\ \E d \in PerformGC(c, total) \cup {c} : Install(c.table, d, metas) /\ SaveIndex(d.table, OneMore)
            /\ StoreEnds(t)
         \/ /\ \E d \in GCSpins(c, total) : Install(c.table, d, metas)
            /\ newEntries' = OneMore
            /\ Goto(t, "stuck") /\ UNCHANGED <<iface, index, harmed>>
  <2> HIDE DEF Install, StoreEnds, Goto
  <2> QED
    BY <1>p DEF e
<1> HIDE DEF c
<1>s. Sized(c)
  <2>1. Listed(c.table) = Listed(table) \cup {url[t]} /\ url[t] \notin Listed(table)
    BY <1>u, <1>c, <1>e DEF Listed
  <2>2. \A u \in Listed(c.table) : c.table[u].blocks \in Nat
    BY <1>c, EntryFacts DEF Listed, Tables
  <2>3. Space(c.table, Listed(c.table)) = b + Space(c.table, Listed(c.table) \ {url[t]})
    BY <1>c, <1>e, <2>1, <2>2, ListedFinite, SpaceTake
  <2>4. Listed(c.table) \ {url[t]} = Listed(table)
    BY <2>1
  <2>5. Space(c.table, Listed(table)) = Space(table, Listed(table))
    <3>1. \A u \in Listed(table) : c.table[u].blocks = table[u].blocks
      BY <1>c, <2>1 DEF Listed
    <3> QED
      BY <3>1, ListedFinite, SpaceSame
  <2>6. size = Space(table, Listed(table))
    BY DEF IInv, SizeInv
  <2>7. Space(c.table, Listed(c.table)) = b + size
    BY <2>3, <2>4, <2>5, <2>6
  <2> QED
    BY <1>u, <1>c, <1>e, <2>7 DEF Sized
<1>x. NamesIn(c.table) \subseteq NamesIn(table) \cup {newName}
  BY <1>c, <1>e DEF NamesIn, Listed
<1>d. PICK d : /\ Collects(c, d) /\ Install(c.table, d, metas)
               /\ (UNCHANGED <<index, harmed>> /\ newEntries' = OneMore) \/ SaveIndex(d.table, OneMore)
  <2> HIDE DEF Install, StoreEnds, Goto
  <2> QED
    BY <1>m, <1>s, GCCollects, CollectsNothing
<1>w. (iface' = NoThread /\ Goto(t, "idle")) \/ (iface' = t /\ Goto(t, "stuck"))
  <2> HIDE DEF Install, Goto
  <2> QED
    BY <1>m, <1>u
<1>n. /\ d.table \in Tables /\ d.size \in Nat /\ d.size = Space(d.table, Listed(d.table))
      /\ NamesIn(d.table) \subseteq NamesIn(c.table) /\ NamesIn(d.table) \subseteq Names
      /\ \A u \in Urls : d.table[u] # NoEntry => d.table[u] = c.table[u] /\ d.table[u].name \in NamesIn(d.table)
      /\ \A u \in Urls : c.table[u] # NoEntry /\ c.table[u].readers # 0 => d.table[u] = c.table[u]
  BY <1>s, <1>d, CollectedNames, SpaceOfTable, NamesAre DEF Collects, Sized
<1>i. /\ index' \in Tables /\ IndexInv' /\ newEntries' \in 0..DumpFrequency + 1
      /\ harmed' \in BOOLEAN /\ (harmed => harmed')
  <2>1. CASE UNCHANGED <<index, harmed>> /\ newEntries' = OneMore
    BY <2>1, CacheSized, OneMoreBounded DEF IInv, IndexInv, TypeOK
  <2>2. CASE SaveIndex(d.table, OneMore)
    BY <2>2, <1>n, IndexSaved, OneMoreBounded
  <2> QED
    BY <2>1, <2>2, <1>d
<1>1. TypeOK'
  BY <1>h, <1>u, <1>e, <1>c, <1>x, <1>d, <1>n, <1>i, <1>w, <1>o, EntryFacts, HTTPAssumption
    DEF IInv, TypeOK, PlaceInv, DownInv, Steps, File, Tables
<1>2. PlaceInv'
  BY <1>h, <1>u, <1>e, <1>c, <1>x, <1>d, <1>n, <1>i, <1>w, <1>o, HTTPAssumption
    DEF IInv, TypeOK, PlaceInv, HeldStays, DownInv
<1>3. DownInv'
  BY <1>h, <1>u, <1>e, <1>c, <1>x, <1>d, <1>n, <1>i, <1>w, <1>o DEF IInv, DownInv
<1>4. CountInv'
  <2> SUFFICES ASSUME NEW w \in Listed(table')
               PROVE  LET x == table'[w] h == Cardinality(Holders(w)') IN
                      /\ ~harmed' => x.readers = h
                      /\ x.lock # "write"
                              => x.readers \in h..h + MaxLeaks /\ (x.lock = "read" <=> x.readers > 0)
                      /\ x.lock = "write" => harmed' /\ h = 0 /\ x.readers = -1
    BY DEF CountInv
  <2>1. table'[w] = c.table[w] /\ w \in Urls /\ Holders(w)' = Holders(w) /\ (harmed => harmed')
    BY <1>d, <1>n, <1>h, <1>i DEF Install, Listed
  <2>2. CASE w # url[t]
    <3>1. table'[w] = table[w] /\ w \in Listed(table)
      BY <2>1, <2>2, <1>c, <1>d DEF Install, Listed
    <3> QED
      BY <2>1, <3>1 DEF IInv, CountInv
  <2>3. CASE w = url[t]
    <3>1. Holders(url[t]) = {}
      BY <1>u, HeldAreRead, EntryFacts DEF Holders
    <3>2. Cardinality(Holders(w)') = 0
      BY <2>1, <2>3, <3>1, FS_EmptySet
    <3>3. table'[w].readers = 0 /\ table'[w].lock = "free"
      BY <2>1, <2>3, <1>c, <1>e
    <3>4. 0 \in 0..0 + MaxLeaks
      BY EntryFacts
    <3> QED
      BY <3>2, <3>3, <3>4
  <2> QED
    BY <2>2, <2>3
<1>5. IndexInv'
  BY <1>h, <1>u, <1>e, <1>c, <1>x, <1>d, <1>n, <1>i, <1>w, <1>o DEF IInv, IndexInv
<1>6. WholeInv'
  BY <1>h, <1>u, <1>e, <1>c, <1>x, <1>d, <1>n, <1>i, <1>w, <1>o DEF IInv, WholeInv
<1>7. SizeInv'
  BY <1>h, <1>u, <1>e, <1>c, <1>x, <1>d, <1>n, <1>i, <1>w, <1>o DEF IInv, SizeInv
<1>8. HeldStays'
  <2> SUFFICES ASSUME NEW s \in Threads, locked'[s] # NoFile
               PROVE  LET x == table'[locked'[s].url]
                      IN x # NoEntry /\ x.name = locked'[s].name /\ x.name \in bodies' \cap metas'
    BY DEF HeldStays
  <2>1. locked' = locked
    BY <1>o
  <2>2. /\ locked[s].url = url[s] /\ url[s] \in Urls /\ table[url[s]] # NoEntry /\ table[url[s]].readers # 0
        /\ table[url[s]].name = locked[s].name /\ table[url[s]].name \in bodies \cap metas
    <3>1. /\ locked[s].url = url[s] /\ url[s] \in Urls /\ table[url[s]] \in Entry /\ table[url[s]].readers > 0
      BY <2>1, HeldAreRead
    <3>2. LET x == table[locked[s].url]
          IN x # NoEntry /\ x.name = locked[s].name /\ x.name \in bodies \cap metas
      BY <2>1 DEF IInv, HeldStays
    <3>3. table[url[s]].readers # 0
      BY <3>1, EntryFacts
    <3> QED
      BY <3>1, <3>2, <3>3
  <2>3. d.table[url[s]] = table[url[s]] /\ d.table[url[s]].name \in NamesIn(d.table)
    BY <1>n, <2>2, <1>u, <1>c
  <2>4. table'[url[s]] = d.table[url[s]] /\ d.table[url[s]].name \in bodies' \cap metas'
    BY <1>d, <2>2, <2>3 DEF Install
  <2> QED
    BY <2>1, <2>2, <2>3, <2>4
<1> QED
  BY <1>1, <1>2, <1>3, <1>4, <1>5, <1>6, <1>7, <1>8 DEF IInv

LEMMA AgeInv ==
  ASSUME IInv, NEW u \in Urls, Age(u)
  PROVE  IInv'
<1> USE DEF Age, storeVars
<1>h. \A w : Holders(w)' = Holders(w)
  BY DEF Holders
<1>u. /\ table \in Tables /\ table[u] \in Entry
      /\ table' = [table EXCEPT ![u] = [table[u] EXCEPT !.valid = "stale"]]
  BY EntryFacts DEF IInv, TypeOK, Tables
<1>e. /\ table'[u] = With(table[u], table[u].readers, table[u].lock, "stale")
      /\ table'[u] \in Entry /\ table' = [table EXCEPT ![u] = table'[u]]
  <2>1. [table[u] EXCEPT !.valid = "stale"] = With(table[u], table[u].readers, table[u].lock, "stale")
    BY <1>u, EntryLoose, FieldsIs
  <2>2. [table[u] EXCEPT !.valid = "stale"] \in Entry
    BY <1>u DEF Entry
  <2> QED
    BY <1>u, <2>1, <2>2 DEF Tables
<1>q. /\ table' \in Tables /\ table'[u] # NoEntry /\ table[u] # NoEntry
      /\ table'[u].name = table[u].name /\ table'[u].blocks = table[u].blocks
      /\ \A v \in Urls : v # u => table'[v] = table[v]
  <2>1. table' \in Tables /\ \A v \in Urls : v # u => table'[v] = table[v]
    BY <1>u, <1>e DEF Tables
  <2>2. table'[u].name = table[u].name /\ table'[u].blocks = table[u].blocks
    BY <1>e DEF With
  <2> QED
    BY <1>u, <1>e, <2>1, <2>2, EntryFacts
<1>k. Keeps
  BY <1>q DEF Keeps
<1>n. Listed(table') = Listed(table) /\ NamesIn(table') = NamesIn(table)
      /\ Space(table', Listed(table')) = Space(table, Listed(table))
  BY <1>k, KeepsFacts
<1>1. TypeOK'
  BY <1>u, <1>e, <1>h, <1>q, <1>n DEF IInv, TypeOK
<1>2. PlaceInv'
  BY <1>u, <1>e, <1>h, <1>q, <1>n, EntryFacts DEF IInv, TypeOK, PlaceInv
<1>3. DownInv'
  BY <1>u, <1>e, <1>h, <1>q, <1>n DEF IInv, DownInv
<1>4. CountInv'
  BY <1>u, <1>e, <1>h, <1>q, <1>n DEF IInv, CountInv
<1>5. IndexInv'
  BY <1>u, <1>e, <1>h, <1>q, <1>n DEF IInv, IndexInv
<1>6. WholeInv'
  BY <1>u, <1>e, <1>h, <1>q, <1>n DEF IInv, WholeInv
<1>7. SizeInv'
  BY <1>u, <1>e, <1>h, <1>q, <1>n DEF IInv, SizeInv
<1>8. HeldStays'
  <2> SUFFICES ASSUME NEW s \in Threads, locked'[s] # NoFile
               PROVE  LET x == table'[locked'[s].url]
                      IN x # NoEntry /\ x.name = locked'[s].name /\ x.name \in bodies' \cap metas'
    BY DEF HeldStays
  <2>1. locked' = locked
    BY <1>u
  <2>2. /\ locked[s].url = url[s] /\ url[s] \in Urls /\ table[url[s]] # NoEntry /\ table[url[s]].readers # 0
        /\ table[url[s]].name = locked[s].name /\ table[url[s]].name \in bodies \cap metas
    <3>1. /\ locked[s].url = url[s] /\ url[s] \in Urls /\ table[url[s]] \in Entry /\ table[url[s]].readers > 0
      BY <2>1, HeldAreRead
    <3>2. LET x == table[locked[s].url]
          IN x # NoEntry /\ x.name = locked[s].name /\ x.name \in bodies \cap metas
      BY <2>1 DEF IInv, HeldStays
    <3>3. table[url[s]].readers # 0
      BY <3>1, EntryFacts
    <3> QED
      BY <3>1, <3>2, <3>3
  <2>3. table'[url[s]] # NoEntry /\ table'[url[s]].name = table[url[s]].name
    BY <1>k, <2>2 DEF Keeps
  <2> QED
    BY <2>1, <2>2, <2>3
<1> QED
  BY <1>1, <1>2, <1>3, <1>4, <1>5, <1>6, <1>7, <1>8 DEF IInv

LEMMA ExitInv ==
  ASSUME IInv, Exit
  PROVE  IInv'
<1> USE DEF Exit, Dies
<1>s. /\ Sized(Cache) /\ Cache.table = table /\ Cache.size = size /\ table \in Tables
  BY CacheSized
<1>d. PICK d : /\ Collects(Cache, d)
               /\ \/ WriteIndex(d.table) /\ UNCHANGED harmed
                  \/ IndexFails(d.table) /\ harmed' = TRUE
               /\ LET gone == NamesIn(table) \ NamesIn(d.table)
                  IN /\ bodies' = (bodies \ gone) \ {n \in Names : <<"body", n>> \in {}}
                     /\ metas' = (metas \ gone) \ {n \in Names : <<"meta", n>> \in {}}
  BY <1>s, GCCollects, CollectsNothing DEF Shutdown
<1>n. /\ d.table \in Tables /\ d.size \in Nat /\ d.size = Space(d.table, Listed(d.table))
      /\ NamesIn(d.table) \subseteq NamesIn(table) /\ NamesIn(d.table) \subseteq Names
      /\ \A u \in Urls : d.table[u] # NoEntry => d.table[u] = table[u] /\ d.table[u].name \in NamesIn(d.table)
      /\ \A u \in Urls : table[u] # NoEntry /\ table[u].readers # 0 => d.table[u] = table[u]
  BY <1>s, <1>d, CollectedNames, SpaceOfTable, NamesAre DEF Collects, Sized
<1>i. /\ index' \in Tables /\ IndexInv' /\ harmed' \in BOOLEAN
      /\ ~harmed' => ~harmed /\ NamesIn(index') = NamesIn(d.table)
  <2>1. CASE WriteIndex(d.table) /\ UNCHANGED harmed
    BY <2>1, <1>n, IndexWritten DEF IndexInv, IInv, TypeOK
  <2>2. CASE IndexFails(d.table) /\ harmed' = TRUE
    BY <2>2, <1>n, IndexFailed
  <2> QED
    BY <2>1, <2>2, <1>d
<1>a. /\ up' = FALSE /\ iface' = NoThread /\ table' = [u \in Urls |-> NoEntry] /\ size' = 0 /\ total' \in Totals
      /\ newEntries' = 0 /\ openFiles' = {} /\ newName' = NoName
      /\ locked' = [t \in Threads |-> NoFile] /\ nullKey' = FALSE
      /\ pc' = [t \in Threads |-> "idle"] /\ url' = [t \in Threads |-> NoUrl]
      /\ Listed(table') = {} /\ NamesIn(table') = {} /\ size' = Space(table', Listed(table'))
  <2>1. Listed(table') = {} /\ NamesIn(table') = {}
    BY DEF Listed, NamesIn
  <2> QED
    BY <2>1, MaxTotal, FS_EmptySet, SpaceStep
<1>1. TypeOK'
  <2>1. 0 \in Nat /\ 0 \in 0..DumpFrequency + 1
    BY HTTPAssumption
  <2>2. table' \in [Urls -> Entry \cup {NoEntry}] /\ locked' \in [Threads -> File \cup {NoFile}]
        /\ pc' \in [Threads -> Steps] /\ url' \in [Threads -> Urls \cup {NoUrl}]
    BY <1>a DEF Steps
  <2>3. index' \in [Urls -> Entry \cup {NoEntry}] /\ bodies' \subseteq Names /\ metas' \subseteq Names
        /\ harmed' \in BOOLEAN
    BY <1>d, <1>i DEF IInv, TypeOK, Tables
  <2> QED
    BY <1>a, <2>1, <2>2, <2>3 DEF TypeOK
<1>2. PlaceInv'
  BY <1>a, <1>d, <1>i, <1>n DEF IInv, TypeOK, PlaceInv, NoFile
<1>3. DownInv'
  BY <1>a, <1>d, <1>i, <1>n DEF IInv, DownInv
<1>4. CountInv'
  BY <1>a, <1>d, <1>i, <1>n DEF IInv, CountInv
<1>5. IndexInv'
  BY <1>a, <1>d, <1>i, <1>n DEF IInv, IndexInv
<1>6. WholeInv'
  BY <1>a, <1>d, <1>i, <1>n DEF IInv, WholeInv
<1>7. SizeInv'
  BY <1>a, <1>d, <1>i, <1>n DEF IInv, SizeInv
<1>8. HeldStays'
  BY <1>a, <1>d, <1>i, <1>n DEF IInv, HeldStays
<1> QED
  BY <1>1, <1>2, <1>3, <1>4, <1>5, <1>6, <1>7, <1>8 DEF IInv

LEMMA InterruptInv ==
  ASSUME IInv, Interrupt
  PROVE  IInv'
<1> USE DEF Interrupt, Dies
<1>s. /\ Sized(Cache) /\ Cache.table = table /\ Cache.size = size /\ table \in Tables
  BY CacheSized
<1>d. PICK d : /\ Collects(Cache, d)
               /\ \/ WriteIndex(d.table) /\ UNCHANGED harmed
                  \/ IndexFails(d.table) /\ harmed' = TRUE
               /\ LET gone == NamesIn(table) \ NamesIn(d.table)
                  IN /\ bodies' = (bodies \ gone) \ {n \in Names : <<"body", n>> \in openFiles}
                     /\ metas' = (metas \ gone) \ {n \in Names : <<"meta", n>> \in openFiles}
  BY <1>s, GCCollects, CollectsNothing DEF Shutdown
<1>n. /\ d.table \in Tables /\ d.size \in Nat /\ d.size = Space(d.table, Listed(d.table))
      /\ NamesIn(d.table) \subseteq NamesIn(table) /\ NamesIn(d.table) \subseteq Names
      /\ \A u \in Urls : d.table[u] # NoEntry => d.table[u] = table[u] /\ d.table[u].name \in NamesIn(d.table)
      /\ \A u \in Urls : table[u] # NoEntry /\ table[u].readers # 0 => d.table[u] = table[u]
  BY <1>s, <1>d, CollectedNames, SpaceOfTable, NamesAre DEF Collects, Sized
<1>i. /\ index' \in Tables /\ IndexInv' /\ harmed' \in BOOLEAN
      /\ ~harmed' => ~harmed /\ NamesIn(index') = NamesIn(d.table)
  <2>1. CASE WriteIndex(d.table) /\ UNCHANGED harmed
    BY <2>1, <1>n, IndexWritten DEF IndexInv, IInv, TypeOK
  <2>2. CASE IndexFails(d.table) /\ harmed' = TRUE
    BY <2>2, <1>n, IndexFailed
  <2> QED
    BY <2>1, <2>2, <1>d
<1>a. /\ up' = FALSE /\ iface' = NoThread /\ table' = [u \in Urls |-> NoEntry] /\ size' = 0 /\ total' \in Totals
      /\ newEntries' = 0 /\ openFiles' = {} /\ newName' = NoName
      /\ locked' = [t \in Threads |-> NoFile] /\ nullKey' = FALSE
      /\ pc' = [t \in Threads |-> "idle"] /\ url' = [t \in Threads |-> NoUrl]
      /\ Listed(table') = {} /\ NamesIn(table') = {} /\ size' = Space(table', Listed(table'))
  <2>1. Listed(table') = {} /\ NamesIn(table') = {}
    BY DEF Listed, NamesIn
  <2> QED
    BY <2>1, MaxTotal, FS_EmptySet, SpaceStep
<1>1. TypeOK'
  <2>1. 0 \in Nat /\ 0 \in 0..DumpFrequency + 1
    BY HTTPAssumption
  <2>2. table' \in [Urls -> Entry \cup {NoEntry}] /\ locked' \in [Threads -> File \cup {NoFile}]
        /\ pc' \in [Threads -> Steps] /\ url' \in [Threads -> Urls \cup {NoUrl}]
    BY <1>a DEF Steps
  <2>3. index' \in [Urls -> Entry \cup {NoEntry}] /\ bodies' \subseteq Names /\ metas' \subseteq Names
        /\ harmed' \in BOOLEAN
    BY <1>d, <1>i DEF IInv, TypeOK, Tables
  <2> QED
    BY <1>a, <2>1, <2>2, <2>3 DEF TypeOK
<1>2. PlaceInv'
  BY <1>a, <1>d, <1>i, <1>n, HTTPAssumption DEF IInv, TypeOK, PlaceInv, HeldStays, DownInv
<1>3. DownInv'
  BY <1>a, <1>d, <1>i, <1>n DEF IInv, DownInv
<1>4. CountInv'
  BY <1>a, <1>d, <1>i, <1>n DEF IInv, CountInv
<1>5. IndexInv'
  BY <1>a, <1>d, <1>i, <1>n DEF IInv, IndexInv
<1>6. WholeInv'
  BY <1>a, <1>d, <1>i, <1>n DEF IInv, WholeInv
<1>7. SizeInv'
  BY <1>a, <1>d, <1>i, <1>n DEF IInv, SizeInv
<1>8. HeldStays'
  BY <1>a, <1>d, <1>i, <1>n DEF IInv, HeldStays
<1> QED
  BY <1>1, <1>2, <1>3, <1>4, <1>5, <1>6, <1>7, <1>8 DEF IInv

LEMMA CrashInv ==
  ASSUME IInv, Crash
  PROVE  IInv'
<1> USE DEF Crash, Dies
<1>a. /\ up' = FALSE /\ iface' = NoThread /\ table' = [u \in Urls |-> NoEntry] /\ size' = 0 /\ total' \in Totals
      /\ newEntries' = 0 /\ openFiles' = {} /\ newName' = NoName
      /\ locked' = [t \in Threads |-> NoFile] /\ nullKey' = FALSE
      /\ pc' = [t \in Threads |-> "idle"] /\ url' = [t \in Threads |-> NoUrl]
      /\ Listed(table') = {} /\ NamesIn(table') = {} /\ size' = Space(table', Listed(table'))
  <2>1. Listed(table') = {} /\ NamesIn(table') = {}
    BY DEF Listed, NamesIn
  <2> QED
    BY <2>1, MaxTotal, FS_EmptySet, SpaceStep
<1>1. TypeOK'
  <2>1. 0 \in Nat /\ 0 \in 0..DumpFrequency + 1
    BY HTTPAssumption
  <2>2. table' \in [Urls -> Entry \cup {NoEntry}] /\ locked' \in [Threads -> File \cup {NoFile}]
        /\ pc' \in [Threads -> Steps] /\ url' \in [Threads -> Urls \cup {NoUrl}]
    BY <1>a DEF Steps
  <2>3. index' \in [Urls -> Entry \cup {NoEntry}] /\ bodies' \subseteq Names /\ metas' \subseteq Names
        /\ harmed' \in BOOLEAN
    BY DEF IInv, TypeOK, Tables
  <2> QED
    BY <1>a, <2>1, <2>2, <2>3 DEF TypeOK
<1>2. PlaceInv'
  BY <1>a, HTTPAssumption DEF IInv, TypeOK, PlaceInv, HeldStays, DownInv
<1>3. DownInv'
  BY <1>a DEF IInv, DownInv
<1>4. CountInv'
  BY <1>a DEF IInv, CountInv
<1>5. IndexInv'
  BY <1>a DEF IInv, IndexInv
<1>6. WholeInv'
  BY <1>a DEF IInv, WholeInv
<1>7. SizeInv'
  BY <1>a DEF IInv, SizeInv
<1>8. HeldStays'
  BY <1>a DEF IInv, HeldStays
<1> QED
  BY <1>1, <1>2, <1>3, <1>4, <1>5, <1>6, <1>7, <1>8 DEF IInv

LEMMA StartInv ==
  ASSUME IInv, Start
  PROVE  IInv'
<1> USE DEF Start, storeVars
<1>a. /\ index \in Tables /\ table' \in Tables /\ size' \in Nat
      /\ \A t \in Threads : locked[t] = NoFile /\ pc[t] = "idle"
      /\ \A u : Holders(u)' = {} /\ Cardinality(Holders(u)') = 0
  <2>1. index \in Tables
    BY CacheSized
  <2>2. \A t \in Threads : locked[t] = NoFile /\ pc[t] = "idle"
    BY DEF IInv, PlaceInv, DownInv
  <2>3. \A u : Holders(u)' = {}
    BY <2>2 DEF Holders
  <2> QED
    BY <2>1, <2>2, <2>3, SpaceOfTable, FS_EmptySet
<1>1. TypeOK'
  BY <1>a DEF IInv, TypeOK
<1>2. PlaceInv'
  BY <1>a DEF IInv, PlaceInv
<1>3. DownInv'
  BY <1>a DEF IInv, DownInv
<1>4. CountInv'
  BY <1>a, EntryFacts DEF IInv, CountInv, IndexInv, Listed
<1>5. IndexInv'
  BY <1>a DEF IInv, IndexInv
<1>6. WholeInv'
  <2>1. openFiles = {}
    BY DEF IInv, DownInv
  <2> QED
    BY <2>1 DEF IInv, WholeInv
<1>7. SizeInv'
  BY <1>a DEF IInv, SizeInv
<1>8. HeldStays'
  BY <1>a DEF IInv, HeldStays
<1> QED
  BY <1>1, <1>2, <1>3, <1>4, <1>5, <1>6, <1>7, <1>8 DEF IInv

LEMMA InitInv == Init => IInv
<1> SUFFICES ASSUME Init PROVE IInv
  OBVIOUS
<1>1. TypeOK
  <2>1. 0 \in Nat /\ 0 \in 0..DumpFrequency + 1
    BY HTTPAssumption
  <2>2. table \in [Urls -> Entry \cup {NoEntry}] /\ index \in [Urls -> Entry \cup {NoEntry}]
        /\ locked \in [Threads -> File \cup {NoFile}]
        /\ pc \in [Threads -> Steps] /\ url \in [Threads -> Urls \cup {NoUrl}]
    BY DEF Init, Steps
  <2>3. /\ up \in BOOLEAN /\ iface \in Threads \cup {NoThread} /\ size \in Nat /\ total \in Totals
        /\ newEntries \in 0..DumpFrequency + 1 /\ newName \in Names \cup {NoName}
    BY <2>1, MaxTotal DEF Init
  <2>4. /\ openFiles \subseteq ({"body", "meta"} \X Names) /\ nullKey \in BOOLEAN
        /\ bodies \subseteq Names /\ metas \subseteq Names /\ harmed \in BOOLEAN
    BY DEF Init
  <2> QED
    BY <2>2, <2>3, <2>4 DEF TypeOK
<1>2. Listed(table) = {} /\ Listed(index) = {} /\ NamesIn(table) = {}
               /\ NamesIn(index) = {}
  <2>1. Listed(table) = {}
    BY DEF Init, Listed
  <2>2. Listed(index) = {}
    BY DEF Init, Listed
  <2> QED
    BY <2>1, <2>2 DEF NamesIn
<1>3. PlaceInv /\ HeldStays
  <2>1. \A t \in Threads : pc[t] = "idle" /\ locked[t] = NoFile /\ iface # t
    BY HTTPAssumption DEF Init
  <2> QED
    BY <2>1 DEF PlaceInv, HeldStays
<1>4. DownInv
  BY DEF Init, DownInv
<1>5. CountInv /\ IndexInv /\ WholeInv
  BY <1>2 DEF Init, CountInv, IndexInv, WholeInv
<1>6. SizeInv
  BY <1>2, FS_EmptySet, SpaceStep DEF Init, SizeInv
<1> QED
  BY <1>1, <1>3, <1>4, <1>5, <1>6 DEF IInv

LEMMA NextInv == IInv /\ [Next]_vars => IInv'
<1> SUFFICES ASSUME IInv, [Next]_vars PROVE IInv'
  OBVIOUS
<1>1. ASSUME NEW t \in Threads, Fetches(t) PROVE IInv'
  BY <1>1, BeginInv, GetInv, GetFailsInv, GetMissesInv, GetBlocksInv, IsValidInv, ReleaseInv, ReleaseNullInv,
     ConditionalInv, AnswerInv DEF Fetches
<1>2. ASSUME NEW t \in Threads, Stores(t) PROVE IInv'
  BY <1>2, StoreBeginInv, RemoveOldInv, NotStoredInv, CreateBodyInv, WriteBodyInv, WriteFailsInv, AddEntryInv
    DEF Stores
<1>3. ASSUME NEW t \in Threads, Updates(t) PROVE IInv'
  BY <1>3, UpdateMissesInv, UpdateBeginInv, UpdateInv, UpdateFailsInv DEF Updates
<1>4. CASE UNCHANGED vars
  <2>1. /\ TypeOK' /\ PlaceInv' /\ DownInv' /\ IndexInv' /\ WholeInv' /\ SizeInv' /\ HeldStays'
    BY <1>4
      DEF vars, procVars, storeVars, IInv, TypeOK, PlaceInv, DownInv, IndexInv, WholeInv, SizeInv,
           HeldStays
  <2>2. CountInv'
    BY <1>4 DEF vars, procVars, storeVars, IInv, CountInv, Holders
  <2> QED
    BY <2>1, <2>2 DEF IInv
<1> QED
  BY <1>1, <1>2, <1>3, <1>4, PurgeInv, SetMaxSizeInv, AgeInv, ExitInv, InterruptInv, CrashInv, StartInv DEF Next

LEMMA SpecInv == Spec => []IInv
BY InitInv, NextInv, PTL DEF Spec

-----------------------------------------------------------------------------
\* HTTPCacheTable: the types; the reader count of an entry, its lock and the
\* FILEs bound to it agree; and d_current_size is the space of the entries.
THEOREM ConsistentHolds == Spec => []Consistent
<1>1. IInv => Consistent
  <2> SUFFICES ASSUME IInv PROVE Consistent
    OBVIOUS
  <2>1. TypeOK /\ SizeIsSum
    BY DEF IInv, SizeInv, SizeIsSum
  <2>2. ASSUME NEW u \in Listed(table)
        PROVE  LET r == table[u].readers h == Cardinality(Holders(u)) IN
               /\ ~harmed => r = h
               /\ table[u].lock # "write" => r >= h /\ (table[u].lock = "read" <=> r > 0)
               /\ table[u].lock = "write" => harmed /\ h = 0
    <3> DEFINE h == Cardinality(Holders(u))
    <3>1. h \in Nat
      BY HoldersFinite
    <3>2. /\ ~harmed => table[u].readers = h
          /\ table[u].lock # "write" => 
               table[u].readers \in h..h + MaxLeaks /\ (table[u].lock = "read" <=> table[u].readers > 0)
          /\ table[u].lock = "write" => harmed /\ h = 0 /\ table[u].readers = -1
      BY DEF IInv, CountInv
    <3> HIDE DEF h
    <3>3. table[u].readers \in h..h + MaxLeaks => table[u].readers >= h
      BY <3>1, EntryFacts
    <3>4. /\ ~harmed => table[u].readers = h
          /\ table[u].lock # "write" => 
               table[u].readers >= h /\ (table[u].lock = "read" <=> table[u].readers > 0)
          /\ table[u].lock = "write" => harmed /\ h = 0
      BY <3>2, <3>3
    <3> QED
      BY <3>4 DEF h
  <2> QED
    BY <2>1, <2>2 DEF Consistent, ReadersAreHolders
<1> QED
  BY SpecInv, <1>1, PTL

\* HTTPCache::get_cached_response() .. release_cached_response(): what a thread
\* reads is neither collected, purged nor replaced.
THEOREM HeldStaysHolds == Spec => []HeldStays
<1>1. IInv => HeldStays
  BY DEF IInv
<1> QED
  BY SpecInv, <1>1, PTL

\* HTTPCache::cache_response() and HTTPCacheInterruptHandler: what is in the
\* table, or in an index that ~HTTPCache() could write, has its two files, unless
\* an fprintf() to the index has failed or a process ended without writing it.
THEOREM EntriesWholeHolds == Spec => []EntriesWhole
<1>1. IInv => EntriesWhole
  <2> SUFFICES ASSUME IInv, ~harmed PROVE EntriesWhole
    BY DEF EntriesWhole
  <2>1. CASE up
    BY <2>1 DEF IInv, WholeInv, EntriesWhole
  <2>2. CASE ~up
    BY <2>2 DEF IInv, WholeInv, DownInv, EntriesWhole
  <2> QED
    BY <2>1, <2>2
<1> QED
  BY SpecInv, <1>1, PTL
=============================================================================
