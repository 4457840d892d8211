---------------------------- MODULE TablesProofs ----------------------------
(***************************************************************************)
(* Proofs about Tables, for any root table, buffers and bounds, first that *)
(* the references and buffers of the tables are sound, then that each      *)
(* definition block is found and loaded once.                              *)
(***************************************************************************)
EXTENDS Tables, FiniteSetTheorems, SequenceTheorems,
        WellFoundedInduction, NaturalsInduction, TLAPS

-----------------------------------------------------------------------------
(* Numbers                                                                 *)

\* A set of natural numbers that is not empty has a least element.
LEMMA NatMin ==
  ASSUME NEW T, T \subseteq Nat, T # {}
  PROVE  \E x \in T : \A y \in T : x <= y
<1>1. PICK x \in T : \A y \in T : ~ (<<y, x>> \in OpToRel(<, Nat))
  BY NatLessThanWellFounded, WFMin
<1>2. ASSUME NEW y \in T, y < x
      PROVE  FALSE
  <2>1. <<y, x>> \in {ss \in Nat \X Nat : ss[1] < ss[2]}
    BY <1>2
  <2>2. <<y, x>> \in OpToRel(<, Nat)
    BY <2>1, Zenon DEF OpToRel
  <2>3. QED
    BY <1>1, <2>2
<1>3. \A y \in T : ~ (y < x)
  BY <1>2
<1>4. QED
  BY <1>3

\* Induction: a set with 0, and with n + 1 whenever it has n, has every natural number.
LEMMA SetInduction ==
  ASSUME NEW T, 0 \in T, \A n \in Nat : n \in T => n + 1 \in T
  PROVE  Nat \subseteq T
<1>1. SUFFICES ASSUME Nat \ T # {}
               PROVE  FALSE
  OBVIOUS
<1>2. PICK x \in Nat \ T : \A y \in Nat \ T : x <= y
  BY <1>1, NatMin
<1>3. x - 1 \in Nat /\ x - 1 \in T
  BY <1>2
<1>4. QED
  BY <1>2, <1>3

-----------------------------------------------------------------------------
\* The memory AML may run from
Memory == [in : {"table"}, id : Nat] \cup [in : {"buffer"}, id : Buffers] \cup {HostMem}
Loads == [op : {"namespace", "Load", "LoadTable"}, asked : BOOLEAN, mem : Memory]
Entries == [sig : Sigs \cup {AnySig}, buffer : SUBSET Buffers, mapped : BOOLEAN, refs : Nat]

Typed ==
  /\ tables \in Seq(Entries) /\ host \in Seq(Nat) /\ Len(host) = Len(tables)
  /\ buffers \in SUBSET Buffers /\ leaked \in SUBSET buffers /\ code \in SUBSET Memory
  /\ loads \in Seq(Loads) /\ Len(loads) <= MaxDepth
  /\ phase \in {"init", "ready", "failed", "loading", "loaded", "gone"}

\* Memory that is still there: a table of the list of len tables, or a buffer.
Present(m, len) == m.in = "table" => m.id \in 1..len
\* Only the innermost load waits for the handler, and it is a LoadTable of a table.
LoadFine(ld, k, len) ==
  /\ Present(ld[k].mem, len)
  /\ ld[k].asked => k = Len(ld) /\ ld[k].op = "LoadTable" /\ ld[k].mem.in = "table"
  /\ ld[k].op = "Load" <=> ld[k].mem.in = "buffer"
  /\ ld[k].op = "namespace" => ld[k].mem.in = "table"
LoadsFit(ld, len) == \A k \in 1..Len(ld) : LoadFine(ld, k, len)
LoadsFine == LoadsFit(loads, Len(tables))

\* The code of the namespace is in tables, or in buffers that a table owns or that
\* nobody will free (lk).
CodeFits(c, ts, lk) ==
  \A m \in c : /\ Present(m, Len(ts))
               /\ m.in = "buffer" => m.id \in lk \/ \E i \in 1..Len(ts) : m.id \in ts[i].buffer
CodeFine == CodeFits(code, tables, leaked)

Places(ld, m) == {n \in DOMAIN ld : ld[n].mem = m}
Holders(ts, b) == {i \in DOMAIN ts : b \in ts[i].buffer}
Member(c, m) == IF m \in c THEN 1 ELSE 0

\* RefsExact, where code that stays counts besides the loads that still run from it
Users(i, hs, ld, c) == hs[i] + Cardinality(Places(ld, TableMem(i))) + Member(c, TableMem(i))
Counts(ts, hs, ld, c) ==
  \A i \in 1..Len(ts) : /\ ts[i].mapped <=> ts[i].refs > 0
                        /\ ts[i].refs >= Users(i, hs, ld, c)
Counted == Counts(tables, host, loads, code)

Owners(ts, ld, b) == Cardinality(Places(ld, BufferMem(b))) + Cardinality(Holders(ts, b))
\* The host lets go of a Table* only where the list still is.
OwnPointers == "unrefMoved" \notin HostMay

Kept == buffers \ leaked
Owned == \A b \in Buffers : Owners(tables, loads, b) = Member(Kept, b)

\* Loads run when load_namespace has begun, until the context is destroyed.
Idle == phase \in {"init", "ready", "failed", "gone"} => loads = <<>>

IInv == Typed /\ LoadsFine /\ CodeFine /\ Counted /\ Owned /\ Idle

-----------------------------------------------------------------------------
(* Memory, and counting where it is used                                   *)

LEMMA Memories ==
  /\ \A i, j : TableMem(i) = TableMem(j) <=> i = j
  /\ \A a, b : BufferMem(a) = BufferMem(b) <=> a = b
  /\ \A i, b : TableMem(i) # BufferMem(b) /\ TableMem(i) # HostMem /\ BufferMem(b) # HostMem
  /\ \A i, b : TableMem(i).in = "table" /\ TableMem(i).id = i
               /\ BufferMem(b).in = "buffer" /\ BufferMem(b).id = b /\ HostMem.in = "host"
<1>1. \A i, j : TableMem(i) = TableMem(j) <=> i = j
  BY DEF TableMem
<1>2. \A a, b : BufferMem(a) = BufferMem(b) <=> a = b
  BY DEF BufferMem
<1>3. \A i, b : TableMem(i).in = "table" /\ TableMem(i).id = i
               /\ BufferMem(b).in = "buffer" /\ BufferMem(b).id = b /\ HostMem.in = "host"
  BY DEF TableMem, BufferMem, HostMem
<1>4. QED
  BY <1>1, <1>2, <1>3

LEMMA MemoryIs ==
  ASSUME NEW m \in Memory
  PROVE  \/ m.in = "table" /\ m.id \in Nat /\ m = TableMem(m.id)
         \/ m.in = "buffer" /\ m.id \in Buffers /\ m = BufferMem(m.id)
         \/ m.in = "host" /\ m = HostMem
<1>1. CASE m \in [in : {"table"}, id : Nat]
  BY <1>1 DEF TableMem
<1>2. CASE m \in [in : {"buffer"}, id : Buffers]
  BY <1>2 DEF BufferMem
<1>3. CASE m = HostMem
  BY <1>3 DEF HostMem
<1>4. QED
  BY <1>1, <1>2, <1>3 DEF Memory

LEMMA MemoryTyped ==
  /\ \A i \in Nat : TableMem(i) \in Memory
  /\ \A b \in Buffers : BufferMem(b) \in Memory
  /\ HostMem \in Memory
BY DEF Memory, TableMem, BufferMem

LEMMA CountAppend ==
  ASSUME NEW n \in Nat, NEW A, A \subseteq 1..n
  PROVE  /\ IsFiniteSet(A) /\ Cardinality(A) \in Nat
         /\ Cardinality(A \cup {n + 1}) = Cardinality(A) + 1
<1>1. IsFiniteSet(1..n)
  BY FS_Interval, 1 \in Int, n \in Int
<1>2. IsFiniteSet(A)
  BY <1>1, FS_Subset
<1>3. n + 1 \notin A
  OBVIOUS
<1>4. QED
  BY <1>2, <1>3, FS_AddElement, FS_CardinalityType

Hit(l, m) == IF l.mem = m THEN 1 ELSE 0
LEMMA PlacesAppend ==
  ASSUME NEW ld \in Seq(Loads), NEW l \in Loads, NEW m
  PROVE  /\ Cardinality(Places(ld, m)) \in Nat
         /\ Cardinality(Places(Append(ld, l), m)) = Cardinality(Places(ld, m)) + Hit(l, m)
<1>1. PICK n, A, B : n = Len(ld) /\ A = Places(ld, m) /\ B = Places(Append(ld, l), m)
  OBVIOUS
<1>2. n \in Nat /\ A \subseteq 1..n
  BY <1>1 DEF Places
<1>3. /\ IsFiniteSet(A) /\ Cardinality(A) \in Nat
      /\ Cardinality(A \cup {n + 1}) = Cardinality(A) + 1
  BY <1>2, CountAppend
<1>4. DOMAIN Append(ld, l) = 1..n + 1 /\ DOMAIN ld = 1..n /\ Append(ld, l)[n + 1] = l
  BY <1>1
<1>5. \A i \in 1..n : Append(ld, l)[i] = ld[i]
  BY <1>1
<1>6. \A i \in 1..n + 1 : i \in 1..n \/ i = n + 1
  BY <1>2
<1>7. CASE l.mem = m
  <2>1. B = A \cup {n + 1}
    BY <1>1, <1>2, <1>4, <1>5, <1>6, <1>7 DEF Places
  <2>2. QED
    BY <1>1, <1>3, <1>7, <2>1 DEF Hit
<1>8. CASE l.mem # m
  <2>1. B = A
    BY <1>1, <1>2, <1>4, <1>5, <1>6, <1>8 DEF Places
  <2>2. QED
    BY <1>1, <1>3, <1>8, <2>1 DEF Hit
<1>9. QED
  BY <1>7, <1>8

Held(t, b) == IF b \in t.buffer THEN 1 ELSE 0
LEMMA HoldersAppend ==
  ASSUME NEW ts \in Seq(Entries), NEW t \in Entries, NEW b
  PROVE  /\ Cardinality(Holders(ts, b)) \in Nat
         /\ Cardinality(Holders(Append(ts, t), b)) = Cardinality(Holders(ts, b)) + Held(t, b)
<1>1. PICK n, A, B : n = Len(ts) /\ A = Holders(ts, b) /\ B = Holders(Append(ts, t), b)
  OBVIOUS
<1>2. n \in Nat /\ A \subseteq 1..n
  BY <1>1 DEF Holders
<1>3. /\ IsFiniteSet(A) /\ Cardinality(A) \in Nat
      /\ Cardinality(A \cup {n + 1}) = Cardinality(A) + 1
  BY <1>2, CountAppend
<1>4. DOMAIN Append(ts, t) = 1..n + 1 /\ DOMAIN ts = 1..n /\ Append(ts, t)[n + 1] = t
  BY <1>1
<1>5. \A i \in 1..n : Append(ts, t)[i] = ts[i]
  BY <1>1
<1>6. \A i \in 1..n + 1 : i \in 1..n \/ i = n + 1
  BY <1>2
<1>7. CASE b \in t.buffer
  <2>1. B = A \cup {n + 1}
    BY <1>1, <1>2, <1>4, <1>5, <1>6, <1>7 DEF Holders
  <2>2. QED
    BY <1>1, <1>3, <1>7, <2>1 DEF Held
<1>8. CASE b \notin t.buffer
  <2>1. B = A
    BY <1>1, <1>2, <1>4, <1>5, <1>6, <1>8 DEF Holders
  <2>2. QED
    BY <1>1, <1>3, <1>8, <2>1 DEF Held
<1>9. QED
  BY <1>7, <1>8

\* A count above zero has something that it counts.
LEMMA PlaceCounts ==
  ASSUME NEW ld \in Seq(Loads), NEW k \in 1..Len(ld)
  PROVE  Cardinality(Places(ld, ld[k].mem)) >= 1
<1>1. PICK A, n : A = Places(ld, ld[k].mem) /\ n = Len(ld)
  OBVIOUS
<1>2. n \in Nat /\ A \subseteq 1..n /\ k \in A
  BY <1>1 DEF Places
<1>3. IsFiniteSet(A) /\ Cardinality(A) \in Nat
  BY <1>2, CountAppend
<1>4. Cardinality(A) # 0
  BY <1>2, <1>3, FS_EmptySet
<1>5. QED
  BY <1>1, <1>3, <1>4

LEMMA HolderCounts ==
  ASSUME NEW ts \in Seq(Entries), NEW b
  PROVE  Cardinality(Holders(ts, b)) >= 1 <=> \E i \in 1..Len(ts) : b \in ts[i].buffer
<1>1. PICK A, n : A = Holders(ts, b) /\ n = Len(ts)
  OBVIOUS
<1>2. n \in Nat /\ A \subseteq 1..n /\ (A # {} <=> \E i \in 1..Len(ts) : b \in ts[i].buffer)
  BY <1>1 DEF Holders
<1>3. IsFiniteSet(A) /\ Cardinality(A) \in Nat
  BY <1>2, CountAppend
<1>4. Cardinality(A) = 0 <=> A = {}
  BY <1>3, FS_EmptySet
<1>5. QED
  BY <1>1, <1>2, <1>3, <1>4

LEMMA NoLoads ==
  ASSUME NEW m
  PROVE  Cardinality(Places(<<>>, m)) = 0
<1>1. Places(<<>>, m) = {}
  BY DEF Places
<1>2. QED
  BY <1>1, FS_EmptySet

LEMMA NoHolders ==
  ASSUME NEW b
  PROVE  Cardinality(Holders(<<>>, b)) = 0
<1>1. Holders(<<>>, b) = {}
  BY DEF Holders
<1>2. QED
  BY <1>1, FS_EmptySet

-----------------------------------------------------------------------------
(* What a step does to the tables and to the loads                         *)

SameTables(ts, us) ==
  /\ us \in Seq(Entries) /\ Len(us) = Len(ts)
  /\ \A j \in 1..Len(ts) : us[j].buffer = ts[j].buffer /\ us[j].sig = ts[j].sig
                           /\ (us[j].mapped <=> us[j].refs > 0)

LEMMA HoldersSame ==
  ASSUME NEW ts \in Seq(Entries), NEW us, SameTables(ts, us), NEW b
  PROVE  Holders(us, b) = Holders(ts, b)
BY DEF SameTables, Holders

LEMMA CodeSame ==
  ASSUME NEW ts \in Seq(Entries), NEW us, SameTables(ts, us), NEW c, NEW lk, CodeFits(c, ts, lk)
  PROVE  CodeFits(c, us, lk)
<1>1. Len(us) = Len(ts) /\ \A j \in 1..Len(ts) : us[j].buffer = ts[j].buffer
  BY DEF SameTables
<1>2. QED
  BY <1>1 DEF CodeFits

One(i, j) == IF j = i THEN 1 ELSE 0
Recounted(t, n, r) == [[t EXCEPT !.refs = n] EXCEPT !.mapped = r]
LEMMA Recounts ==
  ASSUME NEW t \in Entries, NEW n \in Nat, NEW r \in BOOLEAN, NEW u, u = Recounted(t, n, r)
  PROVE  /\ u \in Entries /\ u.buffer = t.buffer /\ u.sig = t.sig
         /\ (u.mapped <=> r) /\ u.refs = n
BY DEF Entries, Recounted

LEMMA Counting ==
  ASSUME Typed, Counted, NEW j \in 1..Len(tables)
  PROVE  /\ tables[j] \in Entries /\ tables[j].refs \in Nat
         /\ (tables[j].mapped <=> tables[j].refs > 0)
         /\ tables[j].refs >= Users(j, host, loads, code)
<1>1. tables[j] \in Entries
  BY DEF Typed
<1>2. tables[j].refs \in Nat
  BY <1>1 DEF Entries
<1>3. (tables[j].mapped <=> tables[j].refs > 0) /\ tables[j].refs >= Users(j, host, loads, code)
  BY DEF Counted, Counts
<1>4. QED
  BY <1>1, <1>2, <1>3

LEMMA RefFacts ==
  ASSUME Typed, Counted, NEW i \in 1..Len(tables), NEW us, us = Ref(tables, i)
  PROVE  /\ SameTables(tables, us)
         /\ \A j \in 1..Len(tables) :
              us[j].refs = tables[j].refs + One(i, j)
<1>1. tables \in Seq(Entries) /\ tables[i] \in Entries
  BY DEF Typed
<1>2. PICK t, u : t = tables[i] /\ u = [[t EXCEPT !.refs = @ + 1] EXCEPT !.mapped = TRUE]
  OBVIOUS
<1>3. u = Recounted(t, t.refs + 1, TRUE)
  BY <1>2 DEF Recounted
<1>4. /\ u \in Entries /\ u.buffer = t.buffer /\ u.sig = t.sig
      /\ (u.mapped <=> TRUE) /\ u.refs = t.refs + 1 /\ t.refs \in Nat
  <2>1. t \in Entries
    BY <1>1, <1>2
  <2>2. t.refs \in Nat
    BY <2>1 DEF Entries
  <2>3. PICK n, q : n = t.refs + 1 /\ q = TRUE
    OBVIOUS
  <2>4. n \in Nat /\ q \in BOOLEAN /\ u = Recounted(t, n, q)
    BY <1>3, <2>2, <2>3
  <2>5. u \in Entries /\ u.buffer = t.buffer /\ u.sig = t.sig /\ (u.mapped <=> q) /\ u.refs = n
    BY ONLY <2>1, <2>4, Recounts
  <2>6. QED
    BY <2>2, <2>3, <2>5
<1>5. us = [tables EXCEPT ![i] = u]
  BY <1>1, <1>2 DEF Ref
<1>6. us \in Seq(Entries) /\ Len(us) = Len(tables)
  BY <1>1, <1>4, <1>5
<1>7. us[i] = u /\ \A j \in 1..Len(tables) : j # i => us[j] = tables[j]
  BY <1>1, <1>5
<1>8. \A j \in 1..Len(tables) :
         /\ tables[j] \in Entries /\ tables[j].refs \in Nat
         /\ (tables[j].mapped <=> tables[j].refs > 0)
  BY <1>1, Counting
<1>9. u.mapped <=> u.refs > 0
  BY <1>4
<1>10. ASSUME NEW j \in 1..Len(tables)
       PROVE  /\ us[j].buffer = tables[j].buffer /\ us[j].sig = tables[j].sig
              /\ (us[j].mapped <=> us[j].refs > 0)
              /\ us[j].refs = tables[j].refs + One(i, j)
  <2>1. CASE j = i
    BY <1>2, <1>4, <1>7, <1>9, <2>1 DEF One
  <2>2. CASE j # i
    BY <1>7, <1>8, <2>2 DEF One
  <2>3. QED
    BY <2>1, <2>2
<1>11. QED
  BY <1>6, <1>10 DEF SameTables

LEMMA UnrefFacts ==
  ASSUME Typed, Counted, NEW i \in 1..Len(tables), tables[i].refs > 0,
         NEW us, us = Unref(tables, i)
  PROVE  /\ SameTables(tables, us)
         /\ \A j \in 1..Len(tables) :
              us[j].refs = tables[j].refs - One(i, j)
<1>1. tables \in Seq(Entries) /\ tables[i] \in Entries
  BY DEF Typed
<1>2. PICK t, r, u : /\ t = tables[i] /\ r = (t.refs # 1)
                     /\ u = [[t EXCEPT !.refs = @ - 1] EXCEPT !.mapped = r]
  OBVIOUS
<1>3. u = Recounted(t, t.refs - 1, r)
  BY <1>2 DEF Recounted
<1>4. /\ u \in Entries /\ u.buffer = t.buffer /\ u.sig = t.sig
      /\ (u.mapped <=> r) /\ u.refs = t.refs - 1 /\ t.refs \in Nat /\ t.refs > 0
  <2>1. t \in Entries
    BY <1>1, <1>2
  <2>2. t.refs \in Nat
    BY <2>1 DEF Entries
  <2>3. PICK n : n = t.refs - 1
    OBVIOUS
  <2>4. n \in Nat /\ r \in BOOLEAN /\ t.refs > 0 /\ u = Recounted(t, n, r)
    BY <1>2, <1>3, <2>2, <2>3
  <2>5. u \in Entries /\ u.buffer = t.buffer /\ u.sig = t.sig /\ (u.mapped <=> r) /\ u.refs = n
    BY ONLY <2>1, <2>4, Recounts
  <2>6. QED
    BY <2>2, <2>3, <2>4, <2>5
<1>5. us = [tables EXCEPT ![i] = u]
  BY <1>1, <1>2 DEF Unref
<1>6. us \in Seq(Entries) /\ Len(us) = Len(tables)
  BY <1>1, <1>4, <1>5
<1>7. us[i] = u /\ \A j \in 1..Len(tables) : j # i => us[j] = tables[j]
  BY <1>1, <1>5
<1>8. \A j \in 1..Len(tables) :
         /\ tables[j] \in Entries /\ tables[j].refs \in Nat
         /\ (tables[j].mapped <=> tables[j].refs > 0)
  BY <1>1, Counting
<1>9. u.mapped <=> u.refs > 0
  <2>1. PICK a, z, q : a = u.refs /\ z = t.refs /\ q = u.mapped
    OBVIOUS
  <2>2. a = z - 1 /\ z \in Nat /\ z > 0 /\ (q <=> z # 1)
    BY <1>2, <1>4, <2>1
  <2>3. q <=> a > 0
    BY <2>2
  <2>4. QED
    BY <2>1, <2>3
<1>10. ASSUME NEW j \in 1..Len(tables)
       PROVE  /\ us[j].buffer = tables[j].buffer /\ us[j].sig = tables[j].sig
              /\ (us[j].mapped <=> us[j].refs > 0)
              /\ us[j].refs = tables[j].refs - One(i, j)
  <2>1. CASE j = i
    BY <1>2, <1>4, <1>7, <1>9, <2>1 DEF One
  <2>2. CASE j # i
    BY <1>7, <1>8, <2>2 DEF One
  <2>3. QED
    BY <2>1, <2>2
<1>11. QED
  BY <1>6, <1>10 DEF SameTables

LEMMA PopFacts ==
  ASSUME Typed, LoadsFine, loads # <<>>
  PROVE  /\ Below \in Seq(Loads) /\ Top \in Loads /\ Len(Below) = Len(loads) - 1
         /\ Len(loads) \in 1..Len(loads) /\ loads = Append(Below, Top)
         /\ LoadFine(loads, Len(loads), Len(tables))
         /\ LoadsFit(Below, Len(tables)) /\ \A k \in 1..Len(Below) : ~ Below[k].asked
         /\ \A m : /\ Cardinality(Places(Below, m)) \in Nat
                   /\ Cardinality(Places(loads, m)) = Cardinality(Places(Below, m)) + Hit(Top, m)
<1>1. loads \in Seq(Loads) /\ Len(loads) \in Nat
  BY DEF Typed
<1>2. Len(loads) # 0
  BY <1>1
<1>3. Len(loads) \in 1..Len(loads) /\ Len(loads) - 1 \in Nat
  BY <1>1, <1>2
<1>4. \A k \in 1..Len(loads) - 1 : loads[k] \in Loads
  BY <1>1
<1>5. /\ Below \in Seq(Loads) /\ Len(Below) = Len(loads) - 1
      /\ \A k \in 1..Len(loads) - 1 : Below[k] = loads[k]
  <2>1. PICK n, x : n = Len(loads) - 1 /\ x = Below
    OBVIOUS
  <2>2. /\ x \in Seq(Loads) /\ Len(x) = (IF 1 <= n THEN n - 1 + 1 ELSE 0)
        /\ \A k \in 1..n - 1 + 1 : x[k] = loads[1 + k - 1]
    <3>1. 1 \in Int /\ n \in Int /\ x = SubSeq(loads, 1, n) /\ \A k \in 1..n : loads[k] \in Loads
      BY <1>3, <1>4, <2>1 DEF Below
    <3>2. QED
      BY <3>1, SubSeqProperties
  <2>3. Len(x) = n /\ \A k \in 1..n : x[k] = loads[k]
    BY <1>3, <2>1, <2>2
  <2>4. QED
    BY <2>1, <2>2, <2>3
<1>6. Top \in Loads
  BY <1>1, <1>3 DEF Top
<1>7. loads = Append(Below, Top)
  <2>1. PICK x : x = Append(Below, Top)
    OBVIOUS
  <2>2. x \in Seq(Loads) /\ Len(x) = Len(loads)
    BY <1>1, <1>5, <1>6, <2>1
  <2>3. ASSUME NEW k \in 1..Len(loads)
        PROVE  loads[k] = x[k]
    <3>1. CASE k = Len(loads)
      BY <1>5, <2>1, <3>1 DEF Top
    <3>2. CASE k # Len(loads)
      BY <1>5, <2>1, <3>2
    <3>3. QED
      BY <3>1, <3>2
  <2>4. QED
    BY <1>1, <2>1, <2>2, <2>3, SeqEqual
<1>8. LoadFine(loads, Len(loads), Len(tables))
  BY <1>3 DEF LoadsFine, LoadsFit
<1>9. ASSUME NEW k \in 1..Len(Below)
      PROVE  LoadFine(Below, k, Len(tables)) /\ ~ Below[k].asked
  <2>1. k \in 1..Len(loads) /\ k # Len(loads) /\ Below[k] = loads[k]
    BY <1>1, <1>5
  <2>2. LoadFine(loads, k, Len(tables))
    BY <2>1 DEF LoadsFine, LoadsFit
  <2>3. ~ loads[k].asked
    BY <2>1, <2>2 DEF LoadFine
  <2>4. QED
    BY <2>1, <2>2, <2>3 DEF LoadFine
<1>10. ASSUME NEW m
       PROVE  /\ Cardinality(Places(Below, m)) \in Nat
              /\ Cardinality(Places(loads, m)) = Cardinality(Places(Below, m)) + Hit(Top, m)
  BY <1>5, <1>6, <1>7, PlacesAppend
<1>11. QED
  BY <1>3, <1>5, <1>6, <1>7, <1>8, <1>9, <1>10 DEF LoadsFit

\* A load that is fine comes on top of loads that wait for nothing.
LEMMA LoadsGrow ==
  ASSUME NEW ld \in Seq(Loads), NEW l \in Loads, NEW len, LoadsFit(ld, len),
         \A k \in 1..Len(ld) : ~ ld[k].asked,
         Present(l.mem, len), l.asked => l.op = "LoadTable" /\ l.mem.in = "table",
         l.op = "Load" <=> l.mem.in = "buffer", l.op = "namespace" => l.mem.in = "table"
  PROVE  LoadsFit(Append(ld, l), len) /\ Append(ld, l) \in Seq(Loads)
<1>1. PICK n, x : n = Len(ld) /\ x = Append(ld, l)
  OBVIOUS
<1>2. n \in Nat /\ x \in Seq(Loads) /\ Len(x) = n + 1 /\ x[n + 1] = l
  BY <1>1
<1>3. ASSUME NEW k \in 1..n + 1
      PROVE  LoadFine(x, k, len)
  <2>1. CASE k = n + 1
    BY <1>2, <2>1 DEF LoadFine
  <2>2. CASE k # n + 1
    <3>1. k \in 1..Len(ld) /\ x[k] = ld[k]
      BY <1>1, <1>2, <2>2
    <3>2. LoadFine(ld, k, len) /\ ~ ld[k].asked
      BY <3>1 DEF LoadsFit
    <3>3. QED
      BY <3>1, <3>2 DEF LoadFine
  <2>3. QED
    BY <2>1, <2>2
<1>4. QED
  BY <1>1, <1>2, <1>3 DEF LoadsFit

\* More tables do no harm to what loads and code are in.
LEMMA MoreTables ==
  ASSUME NEW ts \in Seq(Entries), NEW us \in Seq(Entries), Len(ts) <= Len(us),
         \A j \in 1..Len(ts) : us[j] = ts[j]
  PROVE  /\ \A ld : LoadsFit(ld, Len(ts)) => LoadsFit(ld, Len(us))
         /\ \A c, lk : CodeFits(c, ts, lk) => CodeFits(c, us, lk)
<1>1. PICK n, k : n = Len(ts) /\ k = Len(us)
  OBVIOUS
<1>2. n \in Nat /\ k \in Nat /\ n <= k /\ \A j \in 1..n : j \in 1..k
  BY <1>1
<1>3. \A m : Present(m, n) => Present(m, k)
  BY <1>2 DEF Present
<1>4. ASSUME NEW ld, LoadsFit(ld, n)
      PROVE  LoadsFit(ld, k)
  BY <1>3, <1>4 DEF LoadsFit, LoadFine
<1>5. ASSUME NEW c, NEW lk, CodeFits(c, ts, lk)
      PROVE  CodeFits(c, us, lk)
  <2>1. ASSUME NEW m \in c
        PROVE  /\ Present(m, k)
               /\ m.in = "buffer" => m.id \in lk \/ \E i \in 1..k : m.id \in us[i].buffer
    <3>1. /\ Present(m, n)
          /\ m.in = "buffer" => m.id \in lk \/ \E i \in 1..n : m.id \in ts[i].buffer
      BY <1>1, <1>5 DEF CodeFits
    <3>2. QED
      BY <1>1, <1>2, <1>3, <3>1
  <2>2. QED
    BY <1>1, <2>1 DEF CodeFits
<1>6. QED
  BY <1>1, <1>4, <1>5

-----------------------------------------------------------------------------
(* The actions keep the invariant                                          *)

LEMMA Known ==
  ASSUME IInv
  PROVE  /\ Typed /\ LoadsFine /\ CodeFine /\ Counted /\ Owned /\ Idle
         /\ tables \in Seq(Entries) /\ host \in Seq(Nat) /\ Len(host) = Len(tables)
         /\ Len(tables) \in Nat /\ DOMAIN tables = 1..Len(tables) /\ DOMAIN host = 1..Len(tables)
         /\ buffers \in SUBSET Buffers /\ leaked \in SUBSET buffers /\ Kept \in SUBSET Buffers
         /\ code \in SUBSET Memory
         /\ loads \in Seq(Loads) /\ Len(loads) <= MaxDepth /\ Len(loads) \in Nat
         /\ LoadsFit(loads, Len(tables)) /\ CodeFits(code, tables, leaked)
         /\ Counts(tables, host, loads, code)
         /\ \A b \in Buffers : Owners(tables, loads, b) = Member(Kept, b)
<1>1. Kept \in SUBSET Buffers
  BY DEF IInv, Typed, Kept
<1>2. \A b \in Buffers : Owners(tables, loads, b) = Member(Kept, b)
  BY DEF IInv, Owned
<1>3. QED
  BY <1>1, <1>2 DEF IInv, Typed, LoadsFine, CodeFine, Counted

LEMMA CountsAre ==
  ASSUME NEW ld \in Seq(Loads), NEW ts \in Seq(Entries), NEW m, NEW b
  PROVE  Cardinality(Places(ld, m)) \in Nat /\ Cardinality(Holders(ts, b)) \in Nat
<1>1. PICK l : l \in [op : {"Load"}, asked : {FALSE}, mem : {HostMem}]
  <2>1. [op |-> "Load", asked |-> FALSE, mem |-> HostMem] \in
          [op : {"Load"}, asked : {FALSE}, mem : {HostMem}]
    OBVIOUS
  <2>2. QED
    BY <2>1
<1>2. l \in Loads
  BY <1>1, MemoryTyped DEF Loads
<1>3. PICK A, n : A = Holders(ts, b) /\ n = Len(ts)
  OBVIOUS
<1>4. n \in Nat /\ A \subseteq 1..n
  BY <1>3 DEF Holders
<1>5. Cardinality(A) \in Nat
  BY <1>4, CountAppend
<1>6. QED
  BY <1>2, <1>3, <1>5, PlacesAppend

\* Nothing runs from a table that is not there.
LEMMA FreshTable ==
  ASSUME IInv, NEW j \in Nat, j > Len(tables)
  PROVE  Cardinality(Places(loads, TableMem(j))) = 0 /\ Member(code, TableMem(j)) = 0
<1>1. j \notin 1..Len(tables) /\ ~ Present(TableMem(j), Len(tables))
  BY Known, Memories DEF Present
<1>2. ASSUME NEW k \in 1..Len(loads)
      PROVE  loads[k].mem # TableMem(j)
  <2>1. Present(loads[k].mem, Len(tables))
    BY Known DEF LoadsFit, LoadFine
  <2>2. QED
    BY <1>1, <2>1
<1>3. Places(loads, TableMem(j)) = {}
  <2>1. DOMAIN loads = 1..Len(loads)
    BY Known
  <2>2. QED
    BY <1>2, <2>1 DEF Places
<1>4. TableMem(j) \notin code
  BY <1>1, Known DEF CodeFits
<1>5. QED
  BY <1>3, <1>4, FS_EmptySet DEF Member

\* What a table's count has to cover
LEMMA Uses ==
  ASSUME IInv, NEW j \in 1..Len(tables)
  PROVE  /\ tables[j].refs \in Nat /\ host[j] \in Nat
         /\ \E p \in Nat, c \in Nat :
              /\ p = Cardinality(Places(loads, TableMem(j))) /\ c = Member(code, TableMem(j))
              /\ tables[j].refs >= host[j] + p + c
<1>1. PICK p, c : p = Cardinality(Places(loads, TableMem(j))) /\ c = Member(code, TableMem(j))
  OBVIOUS
<1>2. p \in Nat
  BY <1>1, Known, CountsAre
<1>3. c \in Nat
  BY <1>1 DEF Member
<1>4. tables[j].refs \in Nat /\ tables[j].refs >= Users(j, host, loads, code)
  BY Known, Counting
<1>5. host[j] \in Nat
  BY Known
<1>6. QED
  BY <1>1, <1>2, <1>3, <1>4, <1>5 DEF Users

\* A step that counts tables anew but takes or frees no buffer
LEMMA RecountInv ==
  ASSUME IInv, SameTables(tables, tables'), host' \in Seq(Nat), Len(host') = Len(tables),
         buffers' = buffers, leaked' = leaked, code' = code, loads' \in Seq(Loads), Len(loads') <= MaxDepth,
         phase' \in {"init", "ready", "failed", "loading", "loaded", "gone"}, Idle',
         LoadsFit(loads', Len(tables)),
         \A b \in Buffers : Cardinality(Places(loads', BufferMem(b)))
                              = Cardinality(Places(loads, BufferMem(b))),
         \A j \in 1..Len(tables) : tables'[j].refs >= Users(j, host', loads', code)
  PROVE  IInv'
<1>1. /\ tables' \in Seq(Entries) /\ Len(tables') = Len(tables)
      /\ \A j \in 1..Len(tables) : tables'[j].mapped <=> tables'[j].refs > 0
  BY DEF SameTables
<1>2. Typed'
  BY <1>1, Known DEF Typed
<1>3. LoadsFine'
  BY <1>1 DEF LoadsFine
<1>4. CodeFine'
  BY Known, CodeSame DEF CodeFine
<1>5. Counted'
  BY <1>1 DEF Counted, Counts
<1>6. Owned'
  <2>1. ASSUME NEW b \in Buffers
        PROVE  Owners(tables', loads', b) = Member(Kept, b)
    <3>1. Holders(tables', b) = Holders(tables, b)
      BY Known, HoldersSame
    <3>2. QED
      BY <3>1, Known DEF Owners
  <2>2. QED
    BY <2>1 DEF Owned, Kept
<1>7. QED
  BY <1>2, <1>3, <1>4, <1>5, <1>6 DEF IInv

LEMMA FoundIn ==
  ASSUME IInv, NEW sig, NEW k, NEW i \in Found(sig, k)
  PROVE  i \in 1..Len(tables)
BY Known DEF Found, Matches

LEMMA HostFindInv ==
  ASSUME IInv, NEW sig, NEW k, HostFind(sig, k)
  PROVE  IInv'
<1>1. PICK i \in Found(sig, k) : tables' = Ref(tables, i) /\ host' = [host EXCEPT ![i] = @ + 1]
  BY DEF HostFind
<1>2. i \in 1..Len(tables) /\ UNCHANGED <<phase, buffers, loads, code, leaked>>
  BY FoundIn DEF HostFind
<1>3. /\ SameTables(tables, tables')
      /\ \A j \in 1..Len(tables) : tables'[j].refs = tables[j].refs + One(i, j)
  BY <1>1, <1>2, Known, RefFacts
<1>4. /\ host' \in Seq(Nat) /\ Len(host') = Len(tables)
      /\ \A j \in 1..Len(tables) : host[j] \in Nat /\ host'[j] = host[j] + One(i, j)
  <2>1. i \in 1..Len(host) /\ host \in Seq(Nat) /\ host[i] + 1 \in Nat
    BY <1>2, Known
  <2>2. QED
    BY <1>1, <2>1, Known DEF One
<1>5. ASSUME NEW j \in 1..Len(tables)
      PROVE  tables'[j].refs >= Users(j, host', loads', code)
  <2>1. PICK p \in Nat, c \in Nat :
          /\ p = Cardinality(Places(loads, TableMem(j))) /\ c = Member(code, TableMem(j))
          /\ tables[j].refs >= host[j] + p + c
    BY Uses
  <2>2. PICK r, h, d : r = tables[j].refs /\ h = host[j] /\ d = One(i, j)
    OBVIOUS
  <2>3. r \in Nat /\ h \in Nat /\ d \in Nat /\ r >= h + p + c
    BY <2>1, <2>2, Uses DEF One
  <2>4. tables'[j].refs = r + d /\ host'[j] = h + d
    BY <1>3, <1>4, <2>2
  <2>5. r + d >= h + d + p + c
    BY <2>3
  <2>6. QED
    BY <1>2, <2>1, <2>4, <2>5 DEF Users
<1>6. QED
  <2>1. /\ loads' \in Seq(Loads) /\ Len(loads') <= MaxDepth /\ LoadsFit(loads', Len(tables))
        /\ phase' \in {"init", "ready", "failed", "loading", "loaded", "gone"} /\ Idle'
    BY <1>2, Known DEF Idle, Typed
  <2>2. QED
    BY <1>2, <1>3, <1>4, <1>5, <2>1, RecountInv

LEMMA HostUnrefInv ==
  ASSUME OwnPointers, IInv, NEW i \in DOMAIN tables, HostUnref(i)
  PROVE  IInv'
<1>1. /\ host[i] > 0 /\ tables' = Unref(tables, i) /\ host' = [host EXCEPT ![i] = @ - 1]
      /\ i \in 1..Len(tables) /\ UNCHANGED <<phase, buffers, loads, code, leaked>>
  BY Known DEF HostUnref, UnrefMoved, OwnPointers
<1>2. \A j \in 1..Len(tables) : host[j] \in Nat
  BY Known
<1>4. tables[i].refs > 0
  <2>1. PICK p \in Nat, c \in Nat : tables[i].refs >= host[i] + p + c
    BY <1>1, Uses
  <2>2. tables[i].refs \in Nat
    BY <1>1, Uses
  <2>3. QED
    BY <1>1, <1>2, <2>1, <2>2
<1>5. /\ SameTables(tables, tables')
      /\ \A j \in 1..Len(tables) : tables'[j].refs = tables[j].refs - One(i, j)
  BY <1>1, <1>4, Known, UnrefFacts
<1>6. /\ host' \in Seq(Nat) /\ Len(host') = Len(tables)
      /\ \A j \in 1..Len(tables) : host'[j] = host[j] - One(i, j)
  <2>1. i \in 1..Len(host) /\ host \in Seq(Nat) /\ host[i] - 1 \in Nat
    BY <1>1, <1>2, Known
  <2>2. QED
    BY <1>1, <1>2, <2>1, Known DEF One
<1>7. ASSUME NEW j \in 1..Len(tables)
      PROVE  tables'[j].refs >= Users(j, host', loads', code)
  <2>1. PICK p \in Nat, c \in Nat :
          /\ p = Cardinality(Places(loads, TableMem(j))) /\ c = Member(code, TableMem(j))
          /\ tables[j].refs >= host[j] + p + c
    BY Uses
  <2>2. PICK r, h, d : r = tables[j].refs /\ h = host[j] /\ d = One(i, j)
    OBVIOUS
  <2>3. r \in Nat /\ h \in Nat /\ d \in Nat /\ r >= h + p + c
    BY <2>1, <2>2, Uses DEF One
  <2>4. tables'[j].refs = r - d /\ host'[j] = h - d
    BY <1>5, <1>6, <2>2
  <2>5. r - d >= h - d + p + c
    BY <2>3
  <2>6. QED
    BY <1>1, <2>1, <2>4, <2>5 DEF Users
<1>8. QED
  <2>1. /\ loads' \in Seq(Loads) /\ Len(loads') <= MaxDepth /\ LoadsFit(loads', Len(tables))
        /\ phase' \in {"init", "ready", "failed", "loading", "loaded", "gone"} /\ Idle'
    BY <1>1, Known DEF Idle, Typed
  <2>2. QED
    BY <1>1, <1>5, <1>6, <1>7, <2>1, RecountInv

LEMMA FrameTyped ==
  ASSUME NEW op \in {"namespace", "Load", "LoadTable"}, NEW m \in Memory
  PROVE  /\ Frame(op, m) \in Loads /\ Frame(op, m).mem = m /\ Frame(op, m).op = op
         /\ Frame(op, m).asked <=> op = "LoadTable"
BY DEF Frame, Loads

\* A table is referred to and a load of it begins.
TableLoad(i, op) ==
  /\ tables' = Ref(tables, i) /\ loads' = Append(loads, Frame(op, TableMem(i)))
  /\ UNCHANGED <<buffers, host, code, leaked>>

LEMMA TableLoadInv ==
  ASSUME IInv, NEW i \in 1..Len(tables), NEW op \in {"namespace", "LoadTable"},
         TableLoad(i, op), \A k \in 1..Len(loads) : ~ loads[k].asked, Len(loads) < MaxDepth,
         phase' \in {"init", "ready", "failed", "loading", "loaded", "gone"}, Idle'
  PROVE  IInv'
<1>1. PICK l, n : l = Frame(op, TableMem(i)) /\ n = Len(tables)
  OBVIOUS
<1>2. /\ l \in Loads /\ l.mem = TableMem(i) /\ l.op = op /\ (l.asked <=> op = "LoadTable")
      /\ n \in Nat /\ i \in 1..n /\ i \in Nat
  <2>1. n \in Nat /\ i \in 1..n /\ i \in Nat
    BY <1>1, Known
  <2>2. TableMem(i) \in Memory /\ op \in {"namespace", "Load", "LoadTable"}
    BY <2>1, MemoryTyped
  <2>3. QED
    BY <1>1, <2>1, <2>2, FrameTyped
<1>3. loads' = Append(loads, l) /\ tables' = Ref(tables, i) /\ UNCHANGED <<buffers, host, code, leaked>>
  BY <1>1 DEF TableLoad
<1>4. LoadsFit(loads', Len(tables)) /\ loads' \in Seq(Loads) /\ Len(loads') <= MaxDepth
  <2>1. Present(l.mem, n) /\ l.mem.in = "table"
    BY <1>2, Memories DEF Present
  <2>2. /\ l.asked => l.op = "LoadTable" /\ l.mem.in = "table"
        /\ l.op = "Load" <=> l.mem.in = "buffer"
        /\ l.op = "namespace" => l.mem.in = "table"
    BY <1>2, <2>1
  <2>3. loads \in Seq(Loads) /\ LoadsFit(loads, n)
    BY <1>1, Known
  <2>4. LoadsFit(Append(loads, l), n) /\ Append(loads, l) \in Seq(Loads)
    BY <1>2, <2>1, <2>2, <2>3, LoadsGrow
  <2>5. Len(Append(loads, l)) = Len(loads) + 1 /\ MaxDepth \in Nat /\ Len(loads) \in Nat
    BY Known, TablesAssumption
  <2>6. QED
    BY <1>1, <1>3, <2>4, <2>5
<1>5. /\ SameTables(tables, tables')
      /\ \A j \in 1..Len(tables) : tables'[j].refs = tables[j].refs + One(i, j)
  BY <1>3, Known, RefFacts
<1>6. \A m : Cardinality(Places(loads', m)) = Cardinality(Places(loads, m)) + Hit(l, m)
  BY <1>2, <1>3, Known, PlacesAppend
<1>7. ASSUME NEW b \in Buffers
      PROVE  Cardinality(Places(loads', BufferMem(b))) = Cardinality(Places(loads, BufferMem(b)))
  <2>1. Hit(l, BufferMem(b)) = 0
    BY <1>2, Memories DEF Hit
  <2>2. Cardinality(Places(loads, BufferMem(b))) \in Nat
    BY Known, CountsAre
  <2>3. QED
    BY <1>6, <2>1, <2>2
<1>8. ASSUME NEW j \in 1..Len(tables)
      PROVE  tables'[j].refs >= Users(j, host', loads', code)
  <2>1. PICK p \in Nat, c \in Nat :
          /\ p = Cardinality(Places(loads, TableMem(j))) /\ c = Member(code, TableMem(j))
          /\ tables[j].refs >= host[j] + p + c
    BY Uses
  <2>2. PICK r, h, d : r = tables[j].refs /\ h = host[j] /\ d = One(i, j)
    OBVIOUS
  <2>3. r \in Nat /\ h \in Nat /\ d \in Nat /\ r >= h + p + c
    BY <2>1, <2>2, Uses DEF One
  <2>4. Hit(l, TableMem(j)) = d
    BY <1>2, <2>2, Memories DEF Hit, One
  <2>5. tables'[j].refs = r + d /\ Cardinality(Places(loads', TableMem(j))) = p + d
    BY <1>5, <1>6, <2>1, <2>2, <2>4
  <2>6. r + d >= h + (p + d) + c
    BY <2>3
  <2>7. QED
    BY <1>3, <2>1, <2>2, <2>5, <2>6 DEF Users
<1>9. QED
  <2>1. host' \in Seq(Nat) /\ Len(host') = Len(tables)
    BY <1>3, Known
  <2>2. QED
    BY <1>3, <1>4, <1>5, <1>7, <1>8, <2>1, RecountInv

LEMMA NothingAsked ==
  ASSUME IInv, loads = <<>> \/ Running
  PROVE  \A k \in 1..Len(loads) : ~ loads[k].asked
<1>1. CASE loads = <<>>
  BY <1>1
<1>2. CASE loads # <<>> /\ Running
  <2>1. ASSUME NEW k \in 1..Len(loads), loads[k].asked
        PROVE  FALSE
    <3>1. LoadFine(loads, k, Len(tables))
      BY Known DEF LoadsFit
    <3>2. k = Len(loads)
      BY <2>1, <3>1 DEF LoadFine
    <3>3. QED
      BY <1>2, <2>1, <3>2 DEF Running, Top
  <2>2. QED
    BY <2>1
<1>3. QED
  BY <1>1, <1>2

LEMMA NamespaceLoadInv ==
  ASSUME IInv, NEW i \in 1..Len(tables), NamespaceLoad(i), loads = <<>>,
         phase' = "loading", UNCHANGED <<buffers, host, code, leaked>>
  PROVE  IInv'
<1>1. loads' = Append(loads, Frame("namespace", TableMem(i))) /\ tables' = Ref(tables, i)
  BY DEF NamespaceLoad
<1>2. TableLoad(i, "namespace")
  BY <1>1 DEF TableLoad
<1>3. Len(loads) < MaxDepth /\ \A k \in 1..Len(loads) : ~ loads[k].asked
  BY TablesAssumption
<1>4. Idle'
  BY DEF Idle
<1>5. QED
  BY <1>2, <1>3, <1>4, TableLoadInv

LEMMA LoadNamespaceInv ==
  ASSUME IInv, LoadNamespace
  PROVE  IInv'
<1>1. PICK i \in Found("DSDT", 0) : NamespaceLoad(i)
  BY DEF LoadNamespace
<1>2. loads = <<>> /\ i \in 1..Len(tables)
  BY Known, FoundIn DEF LoadNamespace, Idle
<1>3. phase' = "loading" /\ UNCHANGED <<buffers, host, code, leaked>>
  BY DEF LoadNamespace
<1>4. QED
  BY <1>1, <1>2, <1>3, NamespaceLoadInv

LEMMA Unchanged ==
  ASSUME IInv, UNCHANGED <<tables, buffers, loads, host, code, leaked>>,
         phase' \in {"init", "ready", "failed", "loading", "loaded", "gone"}, Idle'
  PROVE  IInv'
<1>1. Typed'
  BY Known DEF Typed
<1>2. LoadsFine' /\ CodeFine' /\ Counted' /\ Owned'
  BY Known DEF LoadsFine, CodeFine, Counted, Owned, Kept
<1>3. QED
  BY <1>1, <1>2 DEF IInv

LEMMA NextSsdtInv ==
  ASSUME IInv, NextSsdt
  PROVE  IInv'
<1>1. phase = "loading" /\ loads = <<>> /\ UNCHANGED <<buffers, host, code, leaked>>
  BY DEF NextSsdt
<1>2. CASE Found("SSDT", ssdt) = {}
  <2>1. phase' = "loaded" /\ UNCHANGED <<tables, loads>>
    BY <1>2 DEF NextSsdt
  <2>2. Idle'
    BY <2>1 DEF Idle
  <2>3. QED
    BY <1>1, <2>1, <2>2, Unchanged
<1>3. CASE Found("SSDT", ssdt) # {}
  <2>1. PICK i \in Found("SSDT", ssdt) : NamespaceLoad(i)
    BY <1>3 DEF NextSsdt
  <2>2. phase' = "loading"
    BY <1>3 DEF NextSsdt
  <2>3. i \in 1..Len(tables)
    BY FoundIn
  <2>4. QED
    BY <1>1, <2>1, <2>2, <2>3, NamespaceLoadInv
<1>4. QED
  BY <1>2, <1>3

LEMMA LoadTableInv ==
  ASSUME IInv, NEW sig, LoadTable(sig)
  PROVE  IInv'
<1>1. PICK i \in Found(sig, 0) :
        tables' = Ref(tables, i) /\ loads' = Append(loads, Frame("LoadTable", TableMem(i)))
  BY DEF LoadTable
<1>2. /\ i \in 1..Len(tables) /\ Len(loads) < MaxDepth /\ UNCHANGED <<phase, buffers, host, code, leaked>>
      /\ \A k \in 1..Len(loads) : ~ loads[k].asked
  BY FoundIn, NothingAsked DEF LoadTable, MayLoad
<1>3. Idle'
  BY <1>2, Known DEF LoadTable, MayLoad, Running, Idle
<1>4. TableLoad(i, "LoadTable")
  BY <1>1, <1>2 DEF TableLoad
<1>5. QED
  BY <1>2, <1>3, <1>4, Known, TableLoadInv DEF Typed

LEMMA LoadInv ==
  ASSUME IInv, NEW b \in Buffers, Load(b)
  PROVE  IInv'
<1>1. PICK l : l = Frame("Load", BufferMem(b))
  OBVIOUS
<1>2. /\ b \notin buffers /\ buffers' = buffers \cup {b} /\ loads' = Append(loads, l)
      /\ Len(loads) < MaxDepth /\ UNCHANGED <<phase, tables, host, code, leaked>>
      /\ \A k \in 1..Len(loads) : ~ loads[k].asked
  BY <1>1, NothingAsked DEF Load, MayLoad
<1>3. l \in Loads /\ l.mem = BufferMem(b) /\ l.op = "Load" /\ ~ l.asked
  BY <1>1, MemoryTyped, FrameTyped
<1>4. LoadsFit(loads', Len(tables)) /\ loads' \in Seq(Loads) /\ Len(loads') <= MaxDepth
  <2>1. PICK n : n = Len(tables)
    OBVIOUS
  <2>2. /\ Present(l.mem, n) /\ (l.asked => l.op = "LoadTable" /\ l.mem.in = "table")
        /\ (l.op = "Load" <=> l.mem.in = "buffer") /\ (l.op = "namespace" => l.mem.in = "table")
    BY <1>3, Memories DEF Present
  <2>3. loads \in Seq(Loads) /\ LoadsFit(loads, n)
    BY <2>1, Known
  <2>4. LoadsFit(Append(loads, l), n) /\ Append(loads, l) \in Seq(Loads)
    BY <1>2, <1>3, <2>2, <2>3, LoadsGrow
  <2>5. Len(Append(loads, l)) = Len(loads) + 1 /\ MaxDepth \in Nat /\ Len(loads) \in Nat
    BY Known, TablesAssumption
  <2>6. QED
    BY <1>2, <2>1, <2>4, <2>5
<1>5. \A m : Cardinality(Places(loads', m)) = Cardinality(Places(loads, m)) + Hit(l, m)
  BY <1>2, <1>3, Known, PlacesAppend
<1>6. Counted'
  <2>1. ASSUME NEW j \in 1..Len(tables)
        PROVE  (tables[j].mapped <=> tables[j].refs > 0) /\ tables[j].refs >= Users(j, host, loads', code)
    <3>1. Hit(l, TableMem(j)) = 0
      BY <1>3, Memories DEF Hit
    <3>2. Cardinality(Places(loads, TableMem(j))) \in Nat
      BY Known, CountsAre
    <3>3. Cardinality(Places(loads', TableMem(j))) = Cardinality(Places(loads, TableMem(j)))
      BY <1>5, <3>1, <3>2
    <3>4. QED
      BY <3>3, Known, Counting DEF Users
  <2>2. QED
    BY <1>2, <2>1 DEF Counted, Counts
<1>7. Owned'
  <2>1. ASSUME NEW a \in Buffers
        PROVE  Owners(tables, loads', a) = Member(Kept', a)
    <3>1. PICK p, q : p = Cardinality(Places(loads, BufferMem(a))) /\ q = Cardinality(Holders(tables, a))
      OBVIOUS
    <3>2. p \in Nat /\ q \in Nat /\ p + q = Member(Kept, a)
      BY <3>1, Known, CountsAre DEF Owners
    <3>3. CASE a = b
      <4>1. Hit(l, BufferMem(a)) = 1 /\ Member(Kept, a) = 0 /\ Member(Kept', a) = 1
        BY <1>2, <1>3, <3>3, Known DEF Hit, Member, Kept
      <4>2. QED
        BY <1>5, <3>1, <3>2, <4>1 DEF Owners
    <3>4. CASE a # b
      <4>1. Hit(l, BufferMem(a)) = 0
        BY <1>3, <3>4, Memories DEF Hit
      <4>2. Member(Kept', a) = Member(Kept, a)
        BY <1>2, <3>4 DEF Member, Kept
      <4>3. QED
        BY <1>5, <3>1, <3>2, <4>1, <4>2 DEF Owners
    <3>5. QED
      BY <3>3, <3>4
  <2>2. QED
    BY <1>2, <2>1 DEF Owned, Kept
<1>8. Typed' /\ LoadsFine' /\ CodeFine' /\ Idle'
  <2>1. Idle'
    BY <1>2, Known DEF Load, MayLoad, Running, Idle
  <2>2. QED
    BY <1>2, <1>4, <2>1, Known DEF Typed, LoadsFine, CodeFine
<1>9. QED
  BY <1>6, <1>7, <1>8 DEF IInv

LEMMA TopIs ==
  ASSUME IInv, loads # <<>>
  PROVE  /\ Top \in Loads /\ Top.mem \in Memory
         /\ Present(Top.mem, Len(tables))
         /\ Top.asked => Top.op = "LoadTable" /\ Top.mem.in = "table"
         /\ Top.op = "Load" <=> Top.mem.in = "buffer"
         /\ Top.op = "namespace" => Top.mem.in = "table"
<1>1. LoadFine(loads, Len(loads), Len(tables)) /\ Top \in Loads
  BY Known, PopFacts
<1>2. Top.mem \in Memory
  BY <1>1 DEF Loads
<1>3. QED
  BY <1>1, <1>2 DEF LoadFine, Top

\* A LoadTable that waits for the handler holds a reference.
LEMMA AskedTable ==
  ASSUME IInv, loads # <<>>, Top.asked
  PROVE  \E i \in 1..Len(tables) : /\ Top.mem = TableMem(i) /\ Top.mem.id = i
                                   /\ tables[i].refs > 0
<1>1. PICK i : i = Top.mem.id
  OBVIOUS
<1>2. Top.mem.in = "table" /\ Present(Top.mem, Len(tables)) /\ Top.mem \in Memory
  BY TopIs
<1>3. i \in 1..Len(tables) /\ Top.mem = TableMem(i)
  BY <1>1, <1>2, MemoryIs DEF Present
<1>4. PICK p \in Nat, c \in Nat :
        p = Cardinality(Places(loads, TableMem(i))) /\ tables[i].refs >= host[i] + p + c
  BY <1>3, Uses
<1>5. p >= 1
  <2>1. loads \in Seq(Loads) /\ Len(loads) \in 1..Len(loads) /\ loads[Len(loads)].mem = TableMem(i)
    BY <1>3, Known, PopFacts DEF Top
  <2>2. QED
    BY <1>4, <2>1, PlaceCounts
<1>6. tables[i].refs \in Nat /\ host[i] \in Nat
  BY <1>3, Uses
<1>7. QED
  BY <1>1, <1>3, <1>4, <1>5, <1>6

LEMMA SameSame ==
  ASSUME IInv
  PROVE  SameTables(tables, tables)
BY Known, Counting DEF SameTables

\* What is left of a load that was let go or that goes on elsewhere
LEMMA ReleaseInv ==
  ASSUME IInv, loads # <<>>, Top.asked, tables' = Unref(tables, Top.mem.id),
         UNCHANGED <<phase, buffers, host, code, leaked>>,
         loads' \in Seq(Loads), Len(loads') <= MaxDepth, LoadsFit(loads', Len(tables)),
         \A i : Cardinality(Places(loads', TableMem(i))) = Cardinality(Places(Below, TableMem(i))),
         \A b \in Buffers : Cardinality(Places(loads', BufferMem(b)))
                              = Cardinality(Places(Below, BufferMem(b)))
  PROVE  IInv'
<1>1. PICK i \in 1..Len(tables) : Top.mem = TableMem(i) /\ Top.mem.id = i /\ tables[i].refs > 0
  BY AskedTable
<1>2. /\ SameTables(tables, tables')
      /\ \A j \in 1..Len(tables) : tables'[j].refs = tables[j].refs - One(i, j)
  BY <1>1, Known, UnrefFacts
<1>3. \A m : /\ Cardinality(Places(Below, m)) \in Nat
             /\ Cardinality(Places(loads, m)) = Cardinality(Places(Below, m)) + Hit(Top, m)
  BY Known, PopFacts
<1>4. ASSUME NEW b \in Buffers
      PROVE  Cardinality(Places(loads', BufferMem(b))) = Cardinality(Places(loads, BufferMem(b)))
  <2>1. Hit(Top, BufferMem(b)) = 0
    BY <1>1, Memories DEF Hit
  <2>2. QED
    BY <1>3, <2>1
<1>5. ASSUME NEW j \in 1..Len(tables)
      PROVE  tables'[j].refs >= Users(j, host', loads', code)
  <2>1. PICK p \in Nat, c \in Nat :
          /\ p = Cardinality(Places(loads, TableMem(j))) /\ c = Member(code, TableMem(j))
          /\ tables[j].refs >= host[j] + p + c
    BY Uses
  <2>2. PICK r, h, d, q : /\ r = tables[j].refs /\ h = host[j] /\ d = One(i, j)
                          /\ q = Cardinality(Places(Below, TableMem(j)))
    OBVIOUS
  <2>3. r \in Nat /\ h \in Nat /\ d \in Nat /\ r >= h + p + c /\ q \in Nat
    BY <1>3, <2>1, <2>2, Uses DEF One
  <2>4. Hit(Top, TableMem(j)) = d
    BY <1>1, <2>2, Memories DEF Hit, One
  <2>5. tables'[j].refs = r - d /\ p = q + d /\ Cardinality(Places(loads', TableMem(j))) = q
    BY <1>2, <1>3, <2>1, <2>2, <2>4
  <2>6. r - d >= h + q + c
    BY <2>3, <2>5
  <2>7. QED
    BY <2>1, <2>2, <2>5, <2>6 DEF Users
<1>6. /\ host' \in Seq(Nat) /\ Len(host') = Len(tables)
      /\ phase' \in {"init", "ready", "failed", "loading", "loaded", "gone"}
  BY Known DEF Typed
<1>7. Idle'
  BY Known DEF Idle
<1>8. QED
  BY <1>2, <1>4, <1>5, <1>6, <1>7, RecountInv

LEMMA AnswerInv ==
  ASSUME IInv, NEW verdict \in {"allow", "deny", "override"}, Answer(verdict)
  PROVE  IInv'
<1>1. loads # <<>> /\ Top.asked /\ UNCHANGED <<phase, buffers, host, code, leaked>>
  BY DEF Answer
<1>2. /\ Below \in Seq(Loads) /\ Top \in Loads /\ Len(Below) = Len(loads) - 1
      /\ LoadsFit(Below, Len(tables)) /\ \A k \in 1..Len(Below) : ~ Below[k].asked
      /\ \A m : /\ Cardinality(Places(Below, m)) \in Nat
                /\ Cardinality(Places(loads, m)) = Cardinality(Places(Below, m)) + Hit(Top, m)
  BY <1>1, Known, PopFacts
<1>3. Top.op = "LoadTable" /\ Top.mem.in = "table" /\ Present(Top.mem, Len(tables))
  BY <1>1, TopIs
<1>4. Len(loads) \in Nat /\ Len(loads) <= MaxDepth /\ MaxDepth \in Nat
  BY Known, TablesAssumption
<1>5. CASE verdict = "deny"
  <2>1. loads' = Below /\ tables' = Unref(tables, Top.mem.id)
    BY <1>5 DEF Answer
  <2>2. Len(loads') <= MaxDepth
    BY <1>2, <1>4, <2>1
  <2>3. QED
    BY <1>1, <1>2, <2>1, <2>2, ReleaseInv
<1>6. CASE verdict = "override"
  <2>1. PICK l : l = [Top EXCEPT !.asked = FALSE, !.mem = HostMem]
    OBVIOUS
  <2>2. loads' = Append(Below, l) /\ tables' = Unref(tables, Top.mem.id)
    BY <1>6, <2>1 DEF Answer
  <2>3. l \in Loads /\ l.mem = HostMem /\ ~ l.asked /\ l.op = "LoadTable"
    <3>1. HostMem \in Memory
      BY MemoryTyped
    <3>2. QED
      BY <1>2, <1>3, <2>1, <3>1 DEF Loads
  <2>4. LoadsFit(loads', Len(tables)) /\ loads' \in Seq(Loads)
    <3>1. PICK n : n = Len(tables)
      OBVIOUS
    <3>2. /\ Present(l.mem, n) /\ (l.asked => l.op = "LoadTable" /\ l.mem.in = "table")
          /\ (l.op = "Load" <=> l.mem.in = "buffer") /\ (l.op = "namespace" => l.mem.in = "table")
      BY <2>3, Memories DEF Present
    <3>3. LoadsFit(Below, n)
      BY <1>2, <3>1
    <3>4. LoadsFit(Append(Below, l), n) /\ Append(Below, l) \in Seq(Loads)
      BY <1>2, <2>3, <3>2, <3>3, LoadsGrow
    <3>5. QED
      BY <2>2, <3>1, <3>4
  <2>5. Len(loads') <= MaxDepth
    BY <1>2, <1>4, <2>2
  <2>6. \A m : Cardinality(Places(loads', m)) = Cardinality(Places(Below, m)) + Hit(l, m)
    BY <1>2, <2>2, <2>3, PlacesAppend
  <2>7. ASSUME NEW m, m # HostMem
        PROVE  Cardinality(Places(loads', m)) = Cardinality(Places(Below, m))
    <3>1. Hit(l, m) = 0
      BY <2>3, <2>7 DEF Hit
    <3>2. QED
      BY <1>2, <2>6, <3>1
  <2>8. /\ \A i : Cardinality(Places(loads', TableMem(i))) = Cardinality(Places(Below, TableMem(i)))
        /\ \A b \in Buffers : Cardinality(Places(loads', BufferMem(b)))
                                = Cardinality(Places(Below, BufferMem(b)))
    BY <2>7, Memories
  <2>9. QED
    BY <1>1, <2>2, <2>4, <2>5, <2>8, ReleaseInv
<1>7. CASE verdict = "allow"
  <2>1. PICK l : l = [Top EXCEPT !.asked = FALSE]
    OBVIOUS
  <2>2. loads' = Append(Below, l) /\ tables' = tables
    BY <1>7, <2>1 DEF Answer
  <2>3. l \in Loads /\ l.mem = Top.mem /\ ~ l.asked /\ l.op = "LoadTable"
    BY <1>2, <1>3, <2>1 DEF Loads
  <2>4. LoadsFit(loads', Len(tables)) /\ loads' \in Seq(Loads)
    <3>1. PICK n : n = Len(tables)
      OBVIOUS
    <3>2. /\ Present(l.mem, n) /\ (l.asked => l.op = "LoadTable" /\ l.mem.in = "table")
          /\ (l.op = "Load" <=> l.mem.in = "buffer") /\ (l.op = "namespace" => l.mem.in = "table")
      BY <1>3, <2>3, <3>1
    <3>3. LoadsFit(Below, n)
      BY <1>2, <3>1
    <3>4. LoadsFit(Append(Below, l), n) /\ Append(Below, l) \in Seq(Loads)
      BY <1>2, <2>3, <3>2, <3>3, LoadsGrow
    <3>5. QED
      BY <2>2, <3>1, <3>4
  <2>5. Len(loads') <= MaxDepth
    BY <1>2, <1>4, <2>2
  <2>6. \A m : Cardinality(Places(loads', m)) = Cardinality(Places(loads, m))
    <3>1. \A m : Cardinality(Places(loads', m)) = Cardinality(Places(Below, m)) + Hit(l, m)
      BY <1>2, <2>2, <2>3, PlacesAppend
    <3>2. \A m : Hit(l, m) = Hit(Top, m)
      BY <2>3 DEF Hit
    <3>3. QED
      BY <1>2, <3>1, <3>2
  <2>7. ASSUME NEW j \in 1..Len(tables)
        PROVE  tables'[j].refs >= Users(j, host', loads', code)
    BY <1>1, <2>2, <2>6, Known, Counting DEF Users
  <2>8. SameTables(tables, tables') /\ host' \in Seq(Nat) /\ Len(host') = Len(tables)
    BY <1>1, <2>2, SameSame, Known
  <2>9. Idle' /\ phase' \in {"init", "ready", "failed", "loading", "loaded", "gone"}
    BY <1>1, Known DEF Idle, Typed
  <2>10. QED
    BY <1>1, <2>4, <2>5, <2>6, <2>7, <2>8, <2>9, RecountInv
<1>8. QED
  BY <1>5, <1>6, <1>7

\* A load of a table has ended, its methods may stay.
LEMMA TableEndsInv ==
  ASSUME IInv, loads # <<>>, Top.op # "Load", loads' = Below,
         UNCHANGED <<phase, tables, host, buffers, leaked>>,
         code' = code \/ code' = code \cup {Top.mem}
  PROVE  IInv'
<1>1. /\ Below \in Seq(Loads) /\ Top \in Loads /\ Len(Below) = Len(loads) - 1
      /\ LoadsFit(Below, Len(tables))
      /\ \A m : /\ Cardinality(Places(Below, m)) \in Nat
                /\ Cardinality(Places(loads, m)) = Cardinality(Places(Below, m)) + Hit(Top, m)
  BY Known, PopFacts
<1>2. Top.mem \in Memory /\ Present(Top.mem, Len(tables)) /\ Top.mem.in # "buffer"
  BY TopIs
<1>3. Typed'
  <2>1. code' \in SUBSET Memory
    BY <1>2, Known
  <2>2. Len(Below) <= MaxDepth
    BY <1>1, Known, TablesAssumption
  <2>3. QED
    BY <1>1, <2>1, <2>2, Known DEF Typed
<1>4. LoadsFine'
  BY <1>1 DEF LoadsFine
<1>5. CodeFine'
  BY <1>2, Known DEF CodeFine, CodeFits
<1>6. Counted'
  <2>1. ASSUME NEW j \in 1..Len(tables)
        PROVE  tables[j].refs >= Users(j, host, Below, code')
    <3>1. PICK p \in Nat, c \in Nat :
            /\ p = Cardinality(Places(loads, TableMem(j))) /\ c = Member(code, TableMem(j))
            /\ tables[j].refs >= host[j] + p + c
      BY Uses
    <3>2. PICK r, h, d, q, e : /\ r = tables[j].refs /\ h = host[j] /\ d = Hit(Top, TableMem(j))
                               /\ q = Cardinality(Places(Below, TableMem(j)))
                               /\ e = Member(code', TableMem(j))
      OBVIOUS
    <3>3. r \in Nat /\ h \in Nat /\ d \in Nat /\ e \in Nat /\ q \in Nat /\ p = q + d
      BY <1>1, <3>1, <3>2, Uses DEF Hit, Member
    <3>4. e <= c + d
      BY <3>1, <3>2 DEF Hit, Member
    <3>5. r >= h + p + c
      BY <3>1, <3>2
    <3>6. r >= h + q + e
      BY <3>3, <3>4, <3>5
    <3>7. QED
      BY <3>2, <3>6 DEF Users
  <2>2. \A j \in 1..Len(tables) : tables[j].mapped <=> tables[j].refs > 0
    BY Known, Counting
  <2>3. QED
    BY <2>1, <2>2 DEF Counted, Counts
<1>7. Owned'
  <2>1. ASSUME NEW b \in Buffers
        PROVE  Owners(tables, Below, b) = Member(Kept, b)
    <3>1. Hit(Top, BufferMem(b)) = 0
      BY <1>2, Memories DEF Hit
    <3>2. Cardinality(Places(Below, BufferMem(b))) = Cardinality(Places(loads, BufferMem(b)))
      BY <1>1, <3>1
    <3>3. QED
      BY <3>2, Known DEF Owners
  <2>2. QED
    BY <2>1 DEF Owned, Kept
<1>8. Idle'
  BY Known DEF Idle
<1>9. QED
  BY <1>3, <1>4, <1>5, <1>6, <1>7, <1>8 DEF IInv

LEMMA NewEntry ==
  ASSUME NEW s \in Sigs \cup {AnySig}, NEW B \in SUBSET Buffers, IsFiniteSet(B), NEW e, e = Entry(s, B)
  PROVE  /\ e \in Entries /\ e.buffer = B /\ e.refs = Cardinality(B) /\ e.sig = s
         /\ e.mapped <=> B # {}
<1>1. PICK r, n : r = (B # {}) /\ n = Cardinality(B)
  OBVIOUS
<1>2. r \in BOOLEAN /\ n \in Nat
  BY <1>1, FS_CardinalityType
<1>3. e = [sig |-> s, buffer |-> B, mapped |-> r, refs |-> n]
  BY <1>1 DEF Entry
<1>4. e \in Entries
  BY <1>2, <1>3 DEF Entries
<1>5. e.buffer = B /\ e.refs = n /\ e.sig = s /\ e.mapped = r
  BY ONLY <1>3
<1>6. QED
  BY <1>1, <1>4, <1>5

\* A Load has ended: its buffer becomes a table of the list.
LEMMA BufferEndsInv ==
  ASSUME IInv, loads # <<>>, Top.op = "Load", loads' = Below,
         tables' = Append(tables, Entry(AnySig, {Top.mem.id})), host' = Append(host, 0),
         UNCHANGED <<phase, buffers, leaked>>, code' = code \cup {Top.mem}
  PROVE  IInv'
<1>1. /\ Below \in Seq(Loads) /\ Top \in Loads /\ Len(Below) = Len(loads) - 1
      /\ LoadsFit(Below, Len(tables))
      /\ \A m : /\ Cardinality(Places(Below, m)) \in Nat
                /\ Cardinality(Places(loads, m)) = Cardinality(Places(Below, m)) + Hit(Top, m)
  BY Known, PopFacts
<1>2. PICK b, t, n : b = Top.mem.id /\ t = Entry(AnySig, {b}) /\ n = Len(tables)
  OBVIOUS
<1>3. b \in Buffers /\ Top.mem = BufferMem(b) /\ Top.mem \in Memory
  <2>1. Top.mem \in Memory /\ Top.mem.in = "buffer"
    BY TopIs
  <2>2. QED
    BY <1>2, <2>1, MemoryIs
<1>4. t \in Entries /\ t.buffer = {b} /\ t.refs = 1 /\ t.mapped
  <2>1. PICK B : B = {b}
    OBVIOUS
  <2>2. B \in SUBSET Buffers /\ IsFiniteSet(B) /\ Cardinality(B) = 1 /\ B # {}
    BY <1>3, <2>1, FS_Singleton
  <2>3. PICK s : s = AnySig
    OBVIOUS
  <2>4. t = Entry(s, B) /\ s \in Sigs \cup {AnySig}
    BY <1>2, <2>1, <2>3
  <2>5. /\ t \in Entries /\ t.buffer = B /\ t.refs = Cardinality(B)
        /\ t.mapped <=> B # {}
    BY ONLY <2>2, <2>4, NewEntry
  <2>6. QED
    BY <2>1, <2>2, <2>5
<1>5. /\ tables' = Append(tables, t) /\ tables' \in Seq(Entries) /\ n \in Nat
      /\ Len(tables') = n + 1 /\ tables'[n + 1] = t /\ \A j \in 1..n : tables'[j] = tables[j]
  BY <1>2, <1>4, Known
<1>6. /\ host' \in Seq(Nat) /\ Len(host') = n + 1
      /\ host'[n + 1] = 0 /\ \A j \in 1..n : host'[j] = host[j]
  BY <1>2, Known
<1>7. Typed'
  <2>1. code' \in SUBSET Memory /\ Len(Below) <= MaxDepth
    BY <1>1, <1>3, Known, TablesAssumption
  <2>2. QED
    BY <1>1, <1>5, <1>6, <2>1, Known DEF Typed
<1>8. Len(tables) <= Len(tables') /\ \A j \in 1..Len(tables) : tables'[j] = tables[j]
  BY <1>2, <1>5
<1>9. (\A ld : LoadsFit(ld, Len(tables)) => LoadsFit(ld, Len(tables'))) /\ CodeFits(code, tables', leaked)
  BY <1>5, <1>8, Known, MoreTables
<1>10. LoadsFine'
  BY <1>1, <1>9 DEF LoadsFine
<1>11. CodeFine'
  <2>1. /\ Present(Top.mem, Len(tables'))
        /\ Top.mem.in = "buffer" => \E i \in 1..Len(tables') : Top.mem.id \in tables'[i].buffer
    <3>1. n + 1 \in 1..Len(tables') /\ b \in tables'[n + 1].buffer
      BY <1>4, <1>5
    <3>2. Top.mem.in = "buffer"
      BY TopIs
    <3>3. QED
      BY <1>2, <3>1, <3>2 DEF Present
  <2>2. QED
    BY <1>9, <2>1 DEF CodeFine, CodeFits
<1>12. Counted'
  <2>1. ASSUME NEW j \in 1..n
        PROVE  (tables[j].mapped <=> tables[j].refs > 0) /\ tables[j].refs >= Users(j, host', Below, code')
    <3>1. Hit(Top, TableMem(j)) = 0 /\ Member(code', TableMem(j)) = Member(code, TableMem(j))
      BY <1>3, Memories DEF Hit, Member
    <3>2. Cardinality(Places(loads, TableMem(j))) = Cardinality(Places(Below, TableMem(j)))
      BY <1>1, <3>1
    <3>3. QED
      BY <1>2, <1>6, <3>1, <3>2, Known, Counting DEF Users
  <2>2. t.refs >= Users(n + 1, host', Below, code')
    <3>1. n + 1 \in Nat /\ n + 1 > Len(tables)
      BY <1>2, <1>5
    <3>2. Cardinality(Places(loads, TableMem(n + 1))) = 0 /\ Member(code, TableMem(n + 1)) = 0
      BY <3>1, FreshTable
    <3>3. Hit(Top, TableMem(n + 1)) = 0 /\ Member(code', TableMem(n + 1)) = 0
      BY <1>3, <3>2, Memories DEF Hit, Member
    <3>4. Cardinality(Places(Below, TableMem(n + 1))) = 0
      BY <1>1, <3>2, <3>3
    <3>5. QED
      BY <1>4, <1>6, <3>3, <3>4 DEF Users
  <2>3. ASSUME NEW j \in 1..n + 1
        PROVE  /\ tables'[j].mapped <=> tables'[j].refs > 0
               /\ tables'[j].refs >= Users(j, host', Below, code')
    <3>1. CASE j = n + 1
      BY <1>4, <1>5, <2>2, <3>1
    <3>2. CASE j # n + 1
      <4>1. j \in 1..n
        BY <1>5, <3>2
      <4>2. QED
        BY <1>5, <2>1, <4>1
    <3>3. QED
      BY <3>1, <3>2
  <2>4. QED
    BY <1>5, <2>3 DEF Counted, Counts
<1>13. Owned'
  <2>1. ASSUME NEW a \in Buffers
        PROVE  Owners(tables', Below, a) = Member(Kept, a)
    <3>1. PICK p, q, e, d, h : /\ p = Cardinality(Places(loads, BufferMem(a)))
                               /\ q = Cardinality(Holders(tables, a))
                               /\ e = Cardinality(Places(Below, BufferMem(a)))
                               /\ d = Hit(Top, BufferMem(a)) /\ h = Held(t, a)
      OBVIOUS
    <3>2. /\ p \in Nat /\ q \in Nat /\ e \in Nat /\ p + q = Member(Kept, a)
          /\ p = e + d /\ d \in Nat
      BY <1>1, <3>1, Known, CountsAre DEF Owners, Hit
    <3>3. d = h
      BY <1>3, <1>4, <3>1, Memories DEF Hit, Held
    <3>4. Cardinality(Holders(tables', a)) = q + h
      BY <1>4, <1>5, <3>1, Known, HoldersAppend
    <3>5. QED
      BY <3>1, <3>2, <3>3, <3>4 DEF Owners
  <2>2. QED
    BY <2>1 DEF Owned, Kept
<1>14. Idle'
  BY Known DEF Idle
<1>15. QED
  BY <1>7, <1>10, <1>11, <1>12, <1>13, <1>14 DEF IInv

LEMMA LoadEndsInv ==
  ASSUME IInv, LoadEnds
  PROVE  IInv'
<1>1. /\ loads # <<>> /\ loads' = Below /\ code' = code \cup {Top.mem}
      /\ UNCHANGED <<phase, buffers, leaked>>
  BY DEF LoadEnds, Running
<1>2. CASE Top.op = "Load"
  BY <1>1, <1>2, BufferEndsInv DEF LoadEnds
<1>3. CASE Top.op # "Load"
  BY <1>1, <1>3, TableEndsInv DEF LoadEnds
<1>4. QED
  BY <1>2, <1>3

\* A Load has failed and frees its buffer.
LEMMA BufferFailsInv ==
  ASSUME IInv, loads # <<>>, Top.op = "Load", loads' = Below,
         buffers' = buffers \ {Top.mem.id}, UNCHANGED <<phase, tables, host, code, leaked>>
  PROVE  IInv'
<1>1. /\ Below \in Seq(Loads) /\ Top \in Loads /\ Len(Below) = Len(loads) - 1
      /\ LoadsFit(Below, Len(tables))
      /\ \A m : /\ Cardinality(Places(Below, m)) \in Nat
                /\ Cardinality(Places(loads, m)) = Cardinality(Places(Below, m)) + Hit(Top, m)
  BY Known, PopFacts
<1>2. PICK b : b = Top.mem.id
  OBVIOUS
<1>3. b \in Buffers /\ Top.mem = BufferMem(b)
  <2>1. Top.mem \in Memory /\ Top.mem.in = "buffer"
    BY TopIs
  <2>2. QED
    BY <1>2, <2>1, MemoryIs
<1>4. Typed'
  <2>1. buffers' \in SUBSET Buffers /\ Len(Below) <= MaxDepth
    BY <1>1, Known, TablesAssumption
  <2>2. b \in Kept
    <3>1. PICK p, q, r : /\ p = Cardinality(Places(loads, BufferMem(b)))
                         /\ q = Cardinality(Holders(tables, b))
                         /\ r = Cardinality(Places(Below, BufferMem(b)))
      OBVIOUS
    <3>2. p \in Nat /\ q \in Nat /\ p + q = Member(Kept, b)
      BY <1>3, <3>1, Known, CountsAre DEF Owners
    <3>3. r \in Nat /\ p = r + 1
      BY <1>1, <1>3, <3>1 DEF Hit
    <3>4. Member(Kept, b) # 0
      BY <3>2, <3>3
    <3>5. QED
      BY <3>4 DEF Member
  <2>3. leaked' \in SUBSET buffers'
    BY <1>2, <2>2, Known DEF Kept
  <2>4. QED
    BY <1>1, <2>1, <2>3, Known DEF Typed
<1>5. LoadsFine' /\ CodeFine' /\ Idle'
  BY <1>1, Known DEF LoadsFine, CodeFine, Idle
<1>6. Counted'
  <2>1. ASSUME NEW j \in 1..Len(tables)
        PROVE  (tables[j].mapped <=> tables[j].refs > 0) /\ tables[j].refs >= Users(j, host, Below, code)
    <3>1. Hit(Top, TableMem(j)) = 0
      BY <1>3, Memories DEF Hit
    <3>2. Cardinality(Places(loads, TableMem(j))) = Cardinality(Places(Below, TableMem(j)))
      BY <1>1, <3>1
    <3>3. QED
      BY <3>2, Known, Counting DEF Users
  <2>2. QED
    BY <2>1 DEF Counted, Counts
<1>7. Owned'
  <2>1. ASSUME NEW a \in Buffers
        PROVE  Owners(tables, Below, a) = Member(Kept', a)
    <3>1. PICK p, q, e, d : /\ p = Cardinality(Places(loads, BufferMem(a)))
                            /\ q = Cardinality(Holders(tables, a))
                            /\ e = Cardinality(Places(Below, BufferMem(a)))
                            /\ d = Hit(Top, BufferMem(a))
      OBVIOUS
    <3>2. /\ p \in Nat /\ q \in Nat /\ e \in Nat /\ p + q = Member(Kept, a)
          /\ p = e + d /\ d \in Nat
      BY <1>1, <3>1, Known, CountsAre DEF Owners, Hit
    <3>3. CASE a = b
      <4>1. Top.mem = BufferMem(a) /\ a \notin Kept'
        BY <1>2, <1>3, <3>3 DEF Kept
      <4>2. d = 1
        BY <3>1, <4>1 DEF Hit
      <4>3. Member(Kept', a) = 0 /\ Member(Kept, a) \in 0..1
        BY <4>1 DEF Member
      <4>4. QED
        BY <3>1, <3>2, <4>2, <4>3 DEF Owners
    <3>4. CASE a # b
      <4>1. d = 0 /\ Member(Kept', a) = Member(Kept, a)
        BY <1>2, <1>3, <3>1, <3>4, Memories DEF Hit, Member, Kept
      <4>2. QED
        BY <3>1, <3>2, <4>1 DEF Owners
    <3>5. QED
      BY <3>3, <3>4
  <2>2. QED
    BY <2>1 DEF Owned, Kept
<1>8. QED
  BY <1>4, <1>5, <1>6, <1>7 DEF IInv

LEMMA LoadFailsInv ==
  ASSUME IInv, LoadFails
  PROVE  IInv'
<1>1. loads # <<>> /\ loads' = Below /\ UNCHANGED <<phase, tables, host, leaked>>
  BY DEF LoadFails, Running
<1>2. CASE Top.op = "Load"
  <2>1. buffers' = buffers \ {Top.mem.id} /\ code' = code
    BY <1>2 DEF LoadFails
  <2>2. QED
    BY <1>1, <1>2, <2>1, BufferFailsInv
<1>3. CASE Top.op # "Load"
  <2>1. buffers' = buffers /\ (code' = code \/ code' = code \cup {Top.mem})
    BY <1>3 DEF LoadFails
  <2>2. QED
    BY <1>1, <1>3, <2>1, TableEndsInv
<1>4. QED
  BY <1>2, <1>3

\* parse returns at once: the methods of all the loads stay, and so does their memory.
LEMMA AbandonInv ==
  ASSUME IInv, Abandon
  PROVE  IInv'
<1>1. PICK lost : lost = {loads[n].mem.id : n \in {k \in DOMAIN loads : loads[k].op = "Load"}}
  OBVIOUS
<1>2. /\ loads' = <<>> /\ code' = code \cup {loads[n].mem : n \in DOMAIN loads}
      /\ leaked' = leaked \cup lost /\ UNCHANGED <<phase, tables, buffers, host>>
  BY <1>1 DEF Abandon
<1>3. ASSUME NEW n \in 1..Len(loads)
      PROVE  /\ loads[n].mem \in Memory /\ Present(loads[n].mem, Len(tables))
             /\ loads[n].op = "Load" <=> loads[n].mem.in = "buffer"
  <2>1. LoadFine(loads, n, Len(tables)) /\ loads[n] \in Loads
    BY Known DEF LoadsFit
  <2>2. QED
    BY <2>1 DEF LoadFine, Loads
<1>4. DOMAIN loads = 1..Len(loads)
  BY Known
<1>5. ASSUME NEW b \in Buffers
      PROVE  /\ b \in lost => Cardinality(Places(loads, BufferMem(b))) >= 1
             /\ b \notin lost => Cardinality(Places(loads, BufferMem(b))) = 0
  <2>1. ASSUME b \in lost
        PROVE  Cardinality(Places(loads, BufferMem(b))) >= 1
    <3>1. PICK n \in 1..Len(loads) : loads[n].op = "Load" /\ b = loads[n].mem.id
      BY <1>1, <1>4, <2>1
    <3>2. loads[n].mem = BufferMem(b)
      BY <1>3, <3>1, MemoryIs
    <3>3. QED
      BY <3>1, <3>2, Known, PlaceCounts
  <2>2. ASSUME b \notin lost
        PROVE  Cardinality(Places(loads, BufferMem(b))) = 0
    <3>1. ASSUME NEW n \in 1..Len(loads), loads[n].mem = BufferMem(b)
          PROVE  FALSE
      <4>1. loads[n].op = "Load" /\ loads[n].mem.id = b
        BY <1>3, <3>1, Memories
      <4>2. QED
        BY <1>1, <1>4, <2>2, <4>1
    <3>2. Places(loads, BufferMem(b)) = {}
      BY <1>4, <3>1 DEF Places
    <3>3. QED
      BY <3>2, FS_EmptySet
  <2>3. QED
    BY <2>1, <2>2
<1>6. lost \subseteq Kept
  <2>1. ASSUME NEW b \in lost
        PROVE  b \in Kept
    <3>1. PICK n \in 1..Len(loads) : loads[n].op = "Load" /\ b = loads[n].mem.id
      BY <1>1, <1>4
    <3>2. b \in Buffers
      BY <1>3, <3>1, MemoryIs
    <3>3. PICK p, q : p = Cardinality(Places(loads, BufferMem(b))) /\ q = Cardinality(Holders(tables, b))
      OBVIOUS
    <3>4. p \in Nat /\ q \in Nat /\ p + q = Member(Kept, b)
      BY <3>2, <3>3, Known, CountsAre DEF Owners
    <3>5. p >= 1
      BY <1>5, <3>2, <3>3
    <3>6. QED
      BY <3>4, <3>5 DEF Member
  <2>2. QED
    BY <2>1
<1>7. Typed'
  <2>1. code' \in SUBSET Memory
    BY <1>2, <1>3, <1>4, Known
  <2>2. leaked' \in SUBSET buffers'
    BY <1>2, <1>6, Known DEF Kept
  <2>3. loads' \in Seq(Loads) /\ Len(loads') <= MaxDepth
    BY <1>2, TablesAssumption
  <2>4. QED
    BY <1>2, <2>1, <2>2, <2>3, Known DEF Typed
<1>8. LoadsFine' /\ Idle'
  BY <1>2 DEF LoadsFine, LoadsFit, Idle
<1>9. CodeFine'
  <2>1. ASSUME NEW m \in code'
        PROVE  /\ Present(m, Len(tables))
               /\ m.in = "buffer" => m.id \in leaked' \/ \E i \in 1..Len(tables) : m.id \in tables[i].buffer
    <3>1. CASE m \in code
      BY <1>2, <3>1, Known DEF CodeFits
    <3>2. CASE m \notin code
      <4>1. PICK n \in 1..Len(loads) : m = loads[n].mem
        BY <1>2, <1>4, <3>2
      <4>2. m.in = "buffer" => m.id \in lost
        BY <1>1, <1>3, <1>4, <4>1
      <4>3. QED
        BY <1>2, <1>3, <4>1, <4>2
    <3>3. QED
      BY <3>1, <3>2
  <2>2. QED
    BY <1>2, <2>1 DEF CodeFine, CodeFits
<1>10. Counted'
  <2>1. ASSUME NEW j \in 1..Len(tables)
        PROVE  tables[j].refs >= Users(j, host, <<>>, code')
    <3>1. PICK p \in Nat, c \in Nat :
            /\ p = Cardinality(Places(loads, TableMem(j))) /\ c = Member(code, TableMem(j))
            /\ tables[j].refs >= host[j] + p + c
      BY Uses
    <3>2. PICK r, h, e : r = tables[j].refs /\ h = host[j] /\ e = Member(code', TableMem(j))
      OBVIOUS
    <3>3. r \in Nat /\ h \in Nat /\ e \in 0..1 /\ r >= h + p + c
      BY <3>1, <3>2, Uses DEF Member
    <3>4. e <= p + c
      <4>1. CASE TableMem(j) \in code
        <5>1. c = 1
          BY <3>1, <4>1 DEF Member
        <5>2. QED
          BY <3>3, <5>1
      <4>2. CASE TableMem(j) \notin code /\ TableMem(j) \in code'
        <5>1. PICK n \in 1..Len(loads) : TableMem(j) = loads[n].mem
          BY <1>2, <1>4, <4>2
        <5>2. p >= 1
          BY <3>1, <5>1, Known, PlaceCounts
        <5>3. p \in Nat /\ c \in Nat /\ e \in 0..1
          BY <3>1, <3>3
        <5>4. QED
          BY ONLY <5>2, <5>3
      <4>3. CASE TableMem(j) \notin code'
        BY <3>1, <3>2, <4>3 DEF Member
      <4>4. QED
        BY <4>1, <4>2, <4>3
    <3>5. Cardinality(Places(<<>>, TableMem(j))) = 0
      BY NoLoads
    <3>6. r >= h + 0 + e
      BY <3>3, <3>4
    <3>7. QED
      BY <3>2, <3>5, <3>6 DEF Users
  <2>2. \A j \in 1..Len(tables) : tables[j].mapped <=> tables[j].refs > 0
    BY Known, Counting
  <2>3. QED
    BY <1>2, <2>1, <2>2 DEF Counted, Counts
<1>11. Owned'
  <2>1. ASSUME NEW b \in Buffers
        PROVE  Owners(tables, <<>>, b) = Member(Kept', b)
    <3>1. PICK p, q : p = Cardinality(Places(loads, BufferMem(b))) /\ q = Cardinality(Holders(tables, b))
      OBVIOUS
    <3>2. p \in Nat /\ q \in Nat /\ p + q = Member(Kept, b)
      BY <3>1, Known, CountsAre DEF Owners
    <3>3. Cardinality(Places(<<>>, BufferMem(b))) = 0
      BY NoLoads
    <3>4. Kept' = Kept \ lost
      BY <1>2 DEF Kept
    <3>5. CASE b \in lost
      <4>1. p >= 1 /\ Member(Kept, b) \in 0..1 /\ Member(Kept', b) = 0
        BY <1>5, <3>1, <3>4, <3>5 DEF Member
      <4>2. q = 0
        BY <3>2, <4>1
      <4>3. QED
        BY <3>1, <3>3, <4>1, <4>2 DEF Owners
    <3>6. CASE b \notin lost
      <4>1. p = 0 /\ Member(Kept', b) = Member(Kept, b)
        BY <1>5, <3>1, <3>4, <3>6 DEF Member
      <4>2. QED
        BY <3>1, <3>2, <3>3, <4>1 DEF Owners
    <3>7. QED
      BY <3>5, <3>6
  <2>2. QED
    BY <1>2, <2>1 DEF Owned
<1>12. QED
  BY <1>7, <1>8, <1>9, <1>10, <1>11 DEF IInv

LEMMA DestroyInv ==
  ASSUME IInv, Destroy
  PROVE  IInv'
<1>1. /\ loads = <<>> /\ loads' = <<>> /\ tables' = <<>> /\ host' = <<>> /\ code' = {}
      /\ phase' = "gone" /\ leaked' = leaked
      /\ buffers' = buffers \ UNION {tables[i].buffer : i \in DOMAIN tables}
  BY DEF Destroy
<1>6. ASSUME NEW b \in leaked, NEW i \in DOMAIN tables
      PROVE  b \notin tables[i].buffer
  <2>1. b \in Buffers /\ b \notin Kept
    BY Known DEF Kept
  <2>2. PICK p, q : p = Cardinality(Places(loads, BufferMem(b))) /\ q = Cardinality(Holders(tables, b))
    OBVIOUS
  <2>3. p \in Nat /\ q \in Nat /\ p + q = 0
    BY <2>1, <2>2, Known, CountsAre DEF Owners, Member
  <2>4. q = 0
    BY <2>3
  <2>5. ~ q >= 1
    BY <2>4
  <2>6. QED
    BY <2>2, <2>5, Known, HolderCounts
<1>2. Typed'
  <2>1. buffers' \in SUBSET Buffers /\ Len(loads') <= MaxDepth
    BY <1>1, Known
  <2>2. leaked' \in SUBSET buffers'
    BY <1>1, <1>6, Known
  <2>3. QED
    BY <1>1, <2>1, <2>2 DEF Typed
<1>3. LoadsFine' /\ CodeFine' /\ Counted' /\ Idle'
  BY <1>1 DEF LoadsFine, LoadsFit, CodeFine, CodeFits, Counted, Counts, Idle
<1>4. Owned'
  <2>1. ASSUME NEW b \in Buffers
        PROVE  Owners(<<>>, <<>>, b) = Member(Kept', b)
    <3>1. PICK q : q = Cardinality(Holders(tables, b))
      OBVIOUS
    <3>2. q \in Nat /\ q = Member(Kept, b)
      <4>1. q \in Nat
        BY <3>1, Known, CountsAre
      <4>2. Owners(tables, <<>>, b) = Member(Kept, b)
        BY <1>1, Known
      <4>3. Cardinality(Places(<<>>, BufferMem(b))) = 0
        BY NoLoads
      <4>4. QED
        BY <3>1, <4>1, <4>2, <4>3 DEF Owners
    <3>3. b \in Kept => \E i \in 1..Len(tables) : b \in tables[i].buffer
      <4>1. ASSUME b \in Kept
            PROVE  Cardinality(Holders(tables, b)) >= 1
        BY <3>1, <3>2, <4>1 DEF Member
      <4>2. QED
        BY <4>1, Known, HolderCounts
    <3>4. b \notin Kept'
      BY <1>1, <3>3, Known DEF Kept
    <3>5. QED
      BY <3>4, NoLoads, NoHolders DEF Owners, Member
  <2>2. QED
    BY <1>1, <2>1 DEF Owned, Kept
<1>5. QED
  BY <1>2, <1>3, <1>4 DEF IInv

LEMMA PushFacts ==
  ASSUME IInv, NEW sigs \in Seq(Sigs), Push(sigs)
  PROVE  /\ tables' \in Seq(Entries) /\ host' \in Seq(Nat) /\ Len(host') = Len(tables')
         /\ Len(tables') = Len(tables) + Len(sigs)
         /\ \A j \in 1..Len(tables) : tables'[j] = tables[j] /\ host'[j] = host[j]
         /\ \A j \in 1..Len(sigs) : LET k == Len(tables) + j IN
              /\ tables'[k].sig = sigs[j] /\ tables'[k].buffer = {} /\ tables'[k].refs = 0
              /\ ~ tables'[k].mapped /\ host'[k] = 0
<1>1. PICK m, n, e, z : /\ m = Len(sigs) /\ n = Len(tables) /\ e = [i \in 1..m |-> Entry(sigs[i], {})]
                        /\ z = [i \in 1..m |-> 0]
  OBVIOUS
<1>2. m \in Nat /\ n \in Nat /\ DOMAIN sigs = 1..m /\ \A i \in 1..m : sigs[i] \in Sigs
  BY <1>1, Known
<1>3. tables' = tables \o e /\ host' = host \o z
  BY <1>1, <1>2 DEF Push
<1>4. ASSUME NEW i \in 1..m
      PROVE  /\ e[i] \in Entries /\ e[i].sig = sigs[i] /\ e[i].buffer = {} /\ e[i].refs = 0
             /\ ~ e[i].mapped
  <2>1. PICK s, x : s = sigs[i] /\ x = e[i]
    OBVIOUS
  <2>2. x = Entry(s, {}) /\ s \in Sigs \cup {AnySig}
    BY <1>1, <1>2, <2>1
  <2>3. {} \in SUBSET Buffers /\ IsFiniteSet({}) /\ Cardinality({}) = 0
    BY FS_EmptySet
  <2>4. PICK b : b = {}
    OBVIOUS
  <2>5. b \in SUBSET Buffers /\ IsFiniteSet(b) /\ x = Entry(s, b)
    BY <2>2, <2>3, <2>4
  <2>6. /\ x \in Entries /\ x.buffer = b /\ x.refs = Cardinality(b) /\ x.sig = s
        /\ x.mapped <=> b # {}
    BY ONLY <2>2, <2>5, NewEntry
  <2>7. QED
    BY <2>1, <2>3, <2>4, <2>6
<1>5. e \in Seq(Entries) /\ Len(e) = m /\ z \in Seq(Nat) /\ Len(z) = m
  BY <1>1, <1>2, <1>4
<1>6. /\ tables' \in Seq(Entries) /\ Len(tables') = n + m
      /\ \A i \in 1..n + m : tables'[i] = IF i <= n THEN tables[i] ELSE e[i - n]
  BY <1>1, <1>3, <1>5, Known, ConcatProperties
<1>7. /\ host' \in Seq(Nat) /\ Len(host') = n + m
      /\ \A i \in 1..n + m : host'[i] = IF i <= n THEN host[i] ELSE z[i - n]
  <2>1. host \in Seq(Nat) /\ Len(host) = n
    BY <1>1, Known
  <2>2. /\ host \o z \in Seq(Nat) /\ Len(host \o z) = Len(host) + Len(z)
        /\ \A i \in 1..Len(host) + Len(z) :
             (host \o z)[i] = IF i <= Len(host) THEN host[i] ELSE z[i - Len(host)]
    BY ONLY <1>5, <2>1, ConcatProperties
  <2>3. QED
    BY <1>3, <1>5, <2>1, <2>2
<1>8. ASSUME NEW j \in 1..n
      PROVE  tables'[j] = tables[j] /\ host'[j] = host[j]
  <2>1. j \in 1..n + m /\ j <= n
    BY <1>2
  <2>2. QED
    BY <1>6, <1>7, <2>1
<1>9. ASSUME NEW j \in 1..m
      PROVE  tables'[n + j] = e[j] /\ host'[n + j] = 0
  <2>1. PICK k : k = n + j
    OBVIOUS
  <2>2. k \in 1..n + m /\ ~ k <= n /\ k - n = j
    BY <1>2, <2>1
  <2>3. tables'[k] = e[j] /\ host'[k] = z[j]
    BY <1>6, <1>7, <2>2
  <2>4. z[j] = 0
    BY <1>1
  <2>5. QED
    BY <2>1, <2>3, <2>4
<1>10. ASSUME NEW j \in 1..m
       PROVE  /\ tables'[n + j].sig = sigs[j] /\ tables'[n + j].buffer = {}
              /\ tables'[n + j].refs = 0 /\ ~ tables'[n + j].mapped /\ host'[n + j] = 0
  BY <1>4, <1>9
<1>11. Len(host') = Len(tables')
  BY <1>6, <1>7
<1>12. QED
  BY <1>1, <1>6, <1>7, <1>8, <1>10, <1>11

Added == IF SigAt[EntryAt(entry)] = "FACP" THEN <<SigAt[DsdtAt], "FACP">>
         ELSE <<SigAt[EntryAt(entry)]>>
LEMMA AddedFacts ==
  ASSUME EntryAt(entry) \in DOMAIN SigAt
  PROVE  Added \in Seq(Sigs) /\ Len(Added) >= 1
<1>1. SigAt[EntryAt(entry)] \in Sigs /\ SigAt[DsdtAt] \in Sigs
  BY TablesAssumption DEF Sigs
<1>2. CASE SigAt[EntryAt(entry)] = "FACP"
  BY <1>1, <1>2 DEF Added
<1>3. CASE SigAt[EntryAt(entry)] # "FACP"
  BY <1>1, <1>3 DEF Added
<1>4. QED
  BY <1>2, <1>3

LEMMA AddTableInv ==
  ASSUME IInv, AddTable
  PROVE  IInv'
<1>1. phase = "init" /\ UNCHANGED <<buffers, loads, code, leaked>> /\ loads = <<>>
  BY Known DEF AddTable, Idle
<1>2. CASE EntryAt(entry) \notin DOMAIN SigAt
  <2>1. phase' = "failed" /\ UNCHANGED <<tables, host>>
    BY <1>2 DEF AddTable
  <2>2. Idle'
    BY <1>1 DEF Idle
  <2>3. QED
    BY <1>1, <2>1, <2>2, Unchanged
<1>3. CASE EntryAt(entry) \in DOMAIN SigAt
  <2>1. PICK sigs, n, m : sigs = Added /\ n = Len(tables) /\ m = Len(sigs)
    OBVIOUS
  <2>2. sigs \in Seq(Sigs) /\ Push(sigs) /\ phase' = "init" /\ m \in Nat /\ n \in Nat
    BY <1>1, <1>3, <2>1, AddedFacts, Known DEF AddTable, Added
  <2>3. /\ tables' \in Seq(Entries) /\ host' \in Seq(Nat) /\ Len(host') = Len(tables')
        /\ Len(tables') = n + m
        /\ \A j \in 1..n : tables'[j] = tables[j] /\ host'[j] = host[j]
        /\ \A j \in 1..m :
             /\ tables'[n + j].sig = sigs[j] /\ tables'[n + j].buffer = {} /\ tables'[n + j].refs = 0
             /\ ~ tables'[n + j].mapped /\ host'[n + j] = 0
    BY <2>1, <2>2, PushFacts
  <2>4. Typed'
    BY <1>1, <2>2, <2>3, Known DEF Typed
  <2>5. Len(tables) <= Len(tables') /\ \A j \in 1..Len(tables) : tables'[j] = tables[j]
    BY <2>1, <2>2, <2>3
  <2>6. LoadsFine' /\ CodeFine'
    BY <1>1, <2>3, <2>5, Known, MoreTables DEF LoadsFine, CodeFine
  <2>7. Counted'
    <3>1. ASSUME NEW k \in 1..n + m
          PROVE  /\ tables'[k].mapped <=> tables'[k].refs > 0
                 /\ tables'[k].refs >= Users(k, host', loads, code)
      <4>1. CASE k \in 1..n
        BY <2>1, <2>3, <4>1, Known, Counting DEF Users
      <4>2. CASE k \notin 1..n
        <5>1. k - n \in 1..m /\ n + (k - n) = k /\ k \in Nat /\ k > Len(tables)
          BY <2>1, <2>2, <4>2
        <5>2. ~ tables'[k].mapped /\ tables'[k].refs = 0 /\ host'[k] = 0
          BY <2>3, <5>1
        <5>3. Cardinality(Places(loads, TableMem(k))) = 0 /\ Member(code, TableMem(k)) = 0
          BY <5>1, FreshTable
        <5>4. QED
          BY <5>2, <5>3 DEF Users
      <4>3. QED
        BY <4>1, <4>2
    <3>2. QED
      BY <1>1, <2>3, <3>1 DEF Counted, Counts
  <2>8. Owned'
    <3>1. ASSUME NEW b \in Buffers
          PROVE  Holders(tables', b) = Holders(tables, b)
      <4>1. DOMAIN tables = 1..n /\ DOMAIN tables' = 1..n + m
        BY <2>1, <2>3, Known
      <4>2. ASSUME NEW k \in 1..n + m, k \notin 1..n
            PROVE  b \notin tables'[k].buffer
        <5>1. k - n \in 1..m /\ n + (k - n) = k
          BY <2>2, <4>2
        <5>2. tables'[k].buffer = {}
          BY <2>3, <5>1
        <5>3. QED
          BY <5>2
      <4>3. \A k \in 1..n : k \in 1..n + m /\ tables'[k] = tables[k]
        BY <2>2, <2>3
      <4>4. QED
        BY <4>1, <4>2, <4>3 DEF Holders
    <3>2. QED
      BY <1>1, <3>1, Known DEF Owned, Owners, Kept
  <2>9. Idle'
    BY <1>1 DEF Idle
  <2>10. QED
    BY <2>4, <2>6, <2>7, <2>8, <2>9 DEF IInv
<1>4. QED
  BY <1>2, <1>3

-----------------------------------------------------------------------------
(* The memory of the tables                                                *)

LEMMA InitInv == Init => IInv
<1> SUFFICES ASSUME Init
               PROVE  IInv
  OBVIOUS
<1>2. /\ phase = "init" /\ tables = <<>> /\ buffers = {} /\ loads = <<>> /\ host = <<>> /\ code = {}
      /\ leaked = {} /\ MaxDepth \in Nat
  BY TablesAssumption DEF Init
<1>3. Typed /\ LoadsFine /\ CodeFine /\ Counted /\ Idle
  BY <1>2 DEF Typed, LoadsFine, LoadsFit, CodeFine, CodeFits, Counted, Counts, Idle
<1>4. Owned
  BY <1>2, NoLoads, NoHolders DEF Owned, Owners, Member, Kept
<1>5. QED
  BY <1>3, <1>4 DEF IInv

LEMMA NextInv == OwnPointers /\ IInv /\ [Next]_vars => IInv'
<1> SUFFICES ASSUME OwnPointers, IInv, [Next]_vars
               PROVE  IInv'
  OBVIOUS
<1>2. CASE AddTable
  BY <1>2, AddTableInv
<1>3. CASE InitDone
  <2>1. UNCHANGED <<tables, buffers, loads, host, code, leaked>> /\ phase = "init" /\ phase' = "ready"
    BY <1>3 DEF InitDone
  <2>2. Idle'
    BY <2>1, Known DEF Idle
  <2>3. QED
    BY <2>1, <2>2, Unchanged
<1>4. CASE LoadNamespace
  BY <1>4, LoadNamespaceInv
<1>5. CASE NextSsdt
  BY <1>5, NextSsdtInv
<1>6. CASE \E sig \in Sigs, k \in 0..1 : HostFind(sig, k)
  BY <1>6, HostFindInv
<1>7. CASE \E i \in DOMAIN tables : HostUnref(i)
  BY <1>7, HostUnrefInv
<1>8. CASE \E b \in Buffers : Load(b)
  BY <1>8, LoadInv
<1>9. CASE \E sig \in Sigs \cup {AnySig} : LoadTable(sig)
  BY <1>9, LoadTableInv
<1>10. CASE \E verdict \in {"allow", "deny", "override"} : Answer(verdict)
  BY <1>10, AnswerInv
<1>11. CASE LoadEnds
  BY <1>11, LoadEndsInv
<1>12. CASE LoadFails
  BY <1>12, LoadFailsInv
<1>13. CASE Destroy
  BY <1>13, DestroyInv
<1>14. CASE UNCHANGED vars
  <2>1. UNCHANGED <<phase, tables, buffers, loads, host, code, leaked>>
    BY <1>14 DEF vars
  <2>2. Idle' /\ phase' \in {"init", "ready", "failed", "loading", "loaded", "gone"}
    BY <2>1, Known DEF Idle, Typed
  <2>3. QED
    BY <2>1, <2>2, Unchanged
<1>15. CASE Abandon
  BY <1>15, AbandonInv
<1>16. QED
  BY <1>2, <1>3, <1>4, <1>5, <1>6, <1>7, <1>8, <1>9, <1>10, <1>11, <1>12, <1>13, <1>14, <1>15
     DEF Next

LEMMA Soundness ==
  ASSUME IInv
  PROVE  ReferencesSound
<1>1. TypeOK
  <2>1. ASSUME NEW i \in DOMAIN tables
        PROVE  /\ tables[i].sig \in Sigs \cup {AnySig} /\ tables[i].mapped \in BOOLEAN
               /\ tables[i].refs \in Nat
    <3>1. tables[i] \in Entries
      BY Known
    <3>2. QED
      BY <3>1 DEF Entries
  <2>2. QED
    BY <2>1, Known DEF TypeOK, Typed
<1>2. \A m : Loading(m) = Cardinality(Places(loads, m))
  BY DEF Loading, Places
<1>3. RefsExact
  <2>1. ASSUME NEW i \in DOMAIN tables
        PROVE  /\ tables[i].mapped <=> tables[i].refs > 0
               /\ tables[i].refs >= host[i] + Loading(TableMem(i))
                    + (IF TableMem(i) \in code /\ Loading(TableMem(i)) = 0 THEN 1 ELSE 0)
    <3>1. i \in 1..Len(tables)
      BY Known
    <3>2. PICK p \in Nat, c \in Nat :
            /\ p = Cardinality(Places(loads, TableMem(i))) /\ c = Member(code, TableMem(i))
            /\ tables[i].refs >= host[i] + p + c
      BY <3>1, Uses
    <3>3. PICK d, r, h : /\ d = (IF TableMem(i) \in code /\ Loading(TableMem(i)) = 0 THEN 1 ELSE 0)
                         /\ r = tables[i].refs /\ h = host[i]
      OBVIOUS
    <3>4. d \in Nat /\ d <= c /\ r \in Nat /\ h \in Nat
      BY <3>1, <3>2, <3>3, Uses DEF Member
    <3>5. r >= h + p + d
      BY <3>2, <3>3, <3>4
    <3>6. tables[i].mapped <=> tables[i].refs > 0
      BY <3>1, Known, Counting
    <3>7. QED
      BY <1>2, <3>2, <3>3, <3>5, <3>6
  <2>2. QED
    BY <2>1 DEF RefsExact
<1>4. CodeIsLive
  <2>1. ASSUME NEW m \in code \cup {loads[n].mem : n \in DOMAIN loads}
        PROVE  /\ m.in = "table" => tables[m.id].mapped
               /\ m.in = "buffer" => m.id \in buffers
               /\ m.in \in {"table", "buffer", "host"}
    <3>1. /\ m \in Memory /\ Present(m, Len(tables))
          /\ m \in code \/ Cardinality(Places(loads, m)) >= 1
      <4>1. CASE m \in code
        BY <4>1, Known DEF CodeFits
      <4>2. CASE m \notin code
        <5>1. PICK n \in 1..Len(loads) : m = loads[n].mem
          BY <2>1, <4>2, Known
        <5>2. LoadFine(loads, n, Len(tables)) /\ loads[n] \in Loads
          BY <5>1, Known DEF LoadsFit
        <5>3. m \in Memory /\ Present(m, Len(tables))
          BY <5>1, <5>2 DEF LoadFine, Loads
        <5>4. Cardinality(Places(loads, m)) >= 1
          BY <5>1, Known, PlaceCounts
        <5>5. QED
          BY <5>3, <5>4
      <4>3. QED
        BY <4>1, <4>2
    <3>2. PICK i : i = m.id
      OBVIOUS
    <3>3. CASE m.in = "table"
      <4>1. i \in 1..Len(tables) /\ m = TableMem(i)
        BY <3>1, <3>2, <3>3, MemoryIs DEF Present
      <4>2. PICK p \in Nat, c \in Nat :
              /\ p = Cardinality(Places(loads, TableMem(i))) /\ c = Member(code, TableMem(i))
              /\ tables[i].refs >= host[i] + p + c
        BY <4>1, Uses
      <4>3. p >= 1 \/ c >= 1
        BY <3>1, <4>1, <4>2 DEF Member
      <4>4. tables[i].refs \in Nat /\ host[i] \in Nat
        BY <4>1, Uses
      <4>5. tables[i].refs > 0
        BY <4>2, <4>3, <4>4
      <4>6. QED
        BY <3>2, <3>3, <4>1, <4>5, Known, Counting
    <3>4. CASE m.in = "buffer"
      <4>1. i \in Buffers /\ m = BufferMem(i)
        BY <3>1, <3>2, <3>4, MemoryIs
      <4>2. PICK p, q : p = Cardinality(Places(loads, BufferMem(i))) /\ q = Cardinality(Holders(tables, i))
        OBVIOUS
      <4>3. p \in Nat /\ q \in Nat /\ p + q = Member(Kept, i)
        BY <4>1, <4>2, Known, CountsAre DEF Owners
      <4>4. p >= 1 \/ q >= 1 \/ i \in leaked
        <5>1. CASE m \in code
          <6>1. i \in leaked \/ \E j \in 1..Len(tables) : i \in tables[j].buffer
            BY <3>2, <3>4, <5>1, Known DEF CodeFits
          <6>2. QED
            BY <4>2, <6>1, Known, HolderCounts
        <5>2. CASE m \notin code
          BY <3>1, <4>1, <4>2, <5>2
        <5>3. QED
          BY <5>1, <5>2
      <4>5. i \in buffers
        <5>1. i \in leaked \/ i \in Kept
          BY <4>3, <4>4 DEF Member
        <5>2. QED
          BY <5>1, Known DEF Kept
      <4>6. QED
        BY <3>2, <3>4, <4>5
    <3>5. QED
      BY <3>1, <3>3, <3>4, MemoryIs
  <2>2. QED
    BY <2>1 DEF CodeIsLive
<1>5. BufferOwned
  <2>1. ASSUME NEW b \in Buffers
        PROVE  Loading(BufferMem(b)) + Cardinality({i \in DOMAIN tables : b \in tables[i].buffer})
                   + (IF b \in leaked THEN 1 ELSE 0)
                 = IF b \in buffers THEN 1 ELSE 0
    <3>1. PICK p, q : p = Loading(BufferMem(b))
                      /\ q = Cardinality({i \in DOMAIN tables : b \in tables[i].buffer})
      OBVIOUS
    <3>2. p = Cardinality(Places(loads, BufferMem(b))) /\ q = Cardinality(Holders(tables, b))
      BY <1>2, <3>1 DEF Holders
    <3>3. p \in Nat /\ q \in Nat /\ p + q = Member(Kept, b)
      BY <3>2, Known, CountsAre DEF Owners
    <3>4. b \in Kept <=> b \in buffers /\ b \notin leaked
      BY DEF Kept
    <3>5. b \in leaked => b \in buffers
      BY Known
    <3>6. p + q + (IF b \in leaked THEN 1 ELSE 0) = IF b \in buffers THEN 1 ELSE 0
      BY <3>3, <3>4, <3>5 DEF Member
    <3>7. QED
      BY <3>1, <3>6
  <2>2. QED
    BY <2>1 DEF BufferOwned
<1>6. QED
  BY <1>1, <1>3, <1>4, <1>5 DEF ReferencesSound

\* The tables stay mapped as long as the host, a load or a method of the namespace uses
\* them, what AML runs from is there, and each buffer of Load is owned once and freed
\* once, or never where parse has returned at once (find_table_by_name, Table::unref,
\* Load, LoadTable, unwind_stack, ~Context). A Table* is not used after a Load has grown
\* the list, as the code cannot ensure.
THEOREM References == ASSUME OwnPointers PROVE Spec => []ReferencesSound
<1>1. Init => IInv
  BY InitInv
<1>2. IInv /\ [Next]_vars => IInv'
  BY NextInv
<1>3. IInv => ReferencesSound
  BY Soundness
<1>4. QED
  BY <1>1, <1>2, <1>3, PTL DEF Spec

-----------------------------------------------------------------------------
(* The k-th element of a set of numbers                                    *)

Ahead(M, i) == {j \in M : j < i}
Rank(M, i) == Cardinality(Ahead(M, i))

LEMMA Ranks ==
  ASSUME NEW n \in Nat, NEW M, M \subseteq 1..n, NEW i \in M
  PROVE  /\ Rank(M, i) \in Nat /\ Cardinality(M) \in Nat /\ Rank(M, i) < Cardinality(M)
         /\ \A j \in M : i < j => Rank(M, i) < Rank(M, j)
<1>1. PICK A, B : A = Ahead(M, i) /\ B = A \cup {i}
  OBVIOUS
<1>2. IsFiniteSet(M) /\ Cardinality(M) \in Nat
  BY CountAppend
<1>3. A \subseteq M /\ i \notin A /\ B \subseteq M
  BY <1>1 DEF Ahead
<1>4. IsFiniteSet(A) /\ Cardinality(A) \in Nat
  BY <1>2, <1>3, FS_Subset, FS_CardinalityType
<1>5. Cardinality(B) = Cardinality(A) + 1
  BY <1>1, <1>3, <1>4, FS_AddElement
<1>6. Cardinality(B) <= Cardinality(M)
  BY <1>2, <1>3, FS_Subset
<1>7. ASSUME NEW j \in M, i < j
      PROVE  Cardinality(A) < Rank(M, j)
  <2>1. PICK C : C = Ahead(M, j)
    OBVIOUS
  <2>2. C \subseteq M /\ B \subseteq C
    <3>1. C \subseteq M /\ i \in C
      BY <1>7, <2>1 DEF Ahead
    <3>2. ASSUME NEW x \in A
          PROVE  x \in C
      <4>1. x \in M /\ x < i
        BY <1>1, <3>2 DEF Ahead
      <4>2. x \in Nat /\ i \in Nat /\ j \in Nat
        BY <1>7, <4>1
      <4>3. x < j
        BY <1>7, <4>1, <4>2
      <4>4. QED
        BY <2>1, <4>1, <4>3 DEF Ahead
    <3>3. QED
      BY <1>1, <3>1, <3>2
  <2>3. IsFiniteSet(C)
    BY <1>2, <2>2, FS_Subset
  <2>4. Cardinality(C) \in Nat
    BY <2>3, FS_CardinalityType
  <2>5. Cardinality(B) <= Cardinality(C)
    BY <2>2, <2>3, FS_Subset
  <2>6. QED
    BY <1>4, <1>5, <2>1, <2>4, <2>5 DEF Rank
<1>8. QED
  BY <1>1, <1>2, <1>4, <1>5, <1>6, <1>7 DEF Rank

\* Every number below its cardinality is the rank of an element.
Ranked(M) == \A k \in Nat : k < Cardinality(M) => \E i \in M : Rank(M, i) = k
LEMMA AllRanked ==
  ASSUME NEW n \in Nat, NEW M, M \subseteq 1..n
  PROVE  Ranked(M)
<1> DEFINE Goal == {m \in Nat : \A N \in SUBSET (1..m) : Ranked(N)}
<1>1. 0 \in Goal
  <2>1. ASSUME NEW N \in SUBSET (1..0)
        PROVE  Ranked(N)
    <3>1. Cardinality(N) = 0
      <4>1. N = {}
        OBVIOUS
      <4>2. QED
        BY <4>1, FS_EmptySet
    <3>2. QED
      BY <3>1 DEF Ranked
  <2>2. QED
    BY <2>1
<1>2. ASSUME NEW m \in Nat, m \in Goal
      PROVE  m + 1 \in Goal
  <2>1. ASSUME NEW N \in SUBSET (1..m + 1)
        PROVE  Ranked(N)
    <3>1. CASE m + 1 \notin N
      <4>1. N \in SUBSET (1..m)
        <5>1. ASSUME NEW x \in N
              PROVE  x \in 1..m
          <6>1. x \in 1..m + 1 /\ x # m + 1
            BY <3>1
          <6>2. QED
            BY <6>1
        <5>2. QED
          BY <5>1
      <4>2. QED
        BY <1>2, <4>1
    <3>2. CASE m + 1 \in N
      <4>1. PICK K : K = N \ {m + 1}
        OBVIOUS
      <4>2. ASSUME NEW x \in K
            PROVE  x \in 1..m
        <5>1. x \in 1..m + 1 /\ x # m + 1
          BY <4>1
        <5>2. QED
          BY <5>1
      <4>3. K \subseteq 1..m /\ Ranked(K) /\ N = K \cup {m + 1}
        BY <1>2, <3>2, <4>1, <4>2
      <4>4. Cardinality(K) \in Nat /\ Cardinality(N) = Cardinality(K) + 1
        BY <4>3, CountAppend
      <4>5. Ahead(N, m + 1) = K
        <5>1. \A x \in K : x < m + 1
          BY <4>2
        <5>2. ~ (m + 1 < m + 1)
          OBVIOUS
        <5>3. QED
          BY <4>3, <5>1, <5>2 DEF Ahead
      <4>6. \A i \in K : Ahead(N, i) = Ahead(K, i)
        BY <4>2, <4>3 DEF Ahead
      <4>7. ASSUME NEW k \in Nat, k < Cardinality(N)
            PROVE  \E i \in N : Rank(N, i) = k
        <5>1. CASE k = Cardinality(K)
          BY <3>2, <4>5, <5>1 DEF Rank
        <5>2. CASE k # Cardinality(K)
          <6>1. k < Cardinality(K)
            BY <4>4, <4>7, <5>2
          <6>2. PICK i \in K : Rank(K, i) = k
            BY <4>3, <6>1 DEF Ranked
          <6>3. QED
            BY <4>3, <4>6, <6>2 DEF Rank
        <5>3. QED
          BY <5>1, <5>2
      <4>8. QED
        BY <4>7 DEF Ranked
    <3>3. QED
      BY <3>1, <3>2
  <2>2. QED
    BY <2>1
<1> HIDE DEF Goal
<1>3. n \in Goal
  BY <1>1, <1>2, SetInduction
<1>4. QED
  BY <1>3 DEF Goal

-----------------------------------------------------------------------------
(* What load_namespace has loaded                                          *)

\* The tables with a signature, and the k-th of them
Of(ts, sig) == {i \in 1..Len(ts) : ts[i].sig = sig}
Nth(ts, sig, k) == {i \in Of(ts, sig) : Rank(Of(ts, sig), i) = k}

\* Buffers become tables without a signature, the firmware's tables have one.
Labelled(ts) == \A i \in 1..Len(ts) : ts[i].sig = AnySig <=> ts[i].buffer # {}
Rising(v) == \A m, n \in 1..Len(v) : m < n /\ m > 1 => v[m] < v[n]
\* The DSDT has been loaded, and then the first k SSDTs, one after the other.
Visits(ts, v, k) ==
  /\ Len(v) = k + 1 /\ v[1] \in Nth(ts, "DSDT", 0)
  /\ \A j \in 1..k : v[j + 1] \in Nth(ts, "SSDT", j - 1)

Progress ==
  /\ Labelled(tables) /\ visited \in Seq(Nat) /\ ssdt \in Nat /\ Rising(visited)
  /\ phase \in {"init", "ready", "failed"} => visited = <<>> /\ ssdt = 0
  /\ phase \in {"loading", "loaded"} => Visits(tables, visited, ssdt)
  /\ phase = "loaded" => Nth(tables, "SSDT", ssdt) = {}

\* The list only grows, by tables that a Load has made.
Grown(ts, us) ==
  /\ Len(us) \in Nat /\ Len(ts) <= Len(us)
  /\ \A j \in 1..Len(ts) : us[j].sig = ts[j].sig /\ us[j].buffer = ts[j].buffer
  /\ \A j \in 1..Len(us) : j \notin 1..Len(ts) => us[j].sig = AnySig /\ us[j].buffer # {}

LEMMA GrownFacts ==
  ASSUME NEW ts \in Seq(Entries), NEW us, Grown(ts, us), Labelled(ts)
  PROVE  /\ Labelled(us)
         /\ \A sig, k : sig # AnySig => Of(us, sig) = Of(ts, sig) /\ Nth(us, sig, k) = Nth(ts, sig, k)
<1>1. Len(ts) \in Nat /\ Len(us) \in Nat /\ Len(ts) <= Len(us)
  BY DEF Grown
<1>2. \A j \in 1..Len(ts) : j \in 1..Len(us)
  BY <1>1
<1>3. Labelled(us)
  BY DEF Labelled, Grown
<1>4. ASSUME NEW sig, sig # AnySig
      PROVE  Of(us, sig) = Of(ts, sig)
  BY <1>2, <1>4 DEF Of, Grown
<1>5. QED
  BY <1>3, <1>4 DEF Nth

LEMMA Signatures == AnySig # "DSDT" /\ AnySig # "SSDT" /\ AnySig \notin Sigs
BY TablesAssumption DEF Sigs

LEMMA OfFacts ==
  ASSUME IInv, NEW sig
  PROVE  /\ Of(tables, sig) \subseteq 1..Len(tables)
         /\ sig # AnySig => Matches(sig) = Of(tables, sig)
         /\ \A k : sig # AnySig => Found(sig, k) = Nth(tables, sig, k)
<1>1. Of(tables, sig) \subseteq 1..Len(tables)
  BY DEF Of
<1>2. ASSUME sig # AnySig
      PROVE  Matches(sig) = Of(tables, sig)
  BY <1>2, Known DEF Matches, Of
<1>3. ASSUME sig # AnySig, NEW k
      PROVE  Found(sig, k) = Nth(tables, sig, k)
  <2>1. Matches(sig) = Of(tables, sig)
    BY <1>2, <1>3
  <2>2. QED
    BY <2>1 DEF Found, Nth, Rank, Ahead
<1>4. QED
  BY <1>1, <1>2, <1>3

\* The k-th table comes before the one after it, and there is one at most.
LEMMA NthOrder ==
  ASSUME IInv, NEW sig, NEW k \in Nat, NEW l \in Nat,
         NEW i \in Nth(tables, sig, k), NEW j \in Nth(tables, sig, l)
  PROVE  i \in Nat /\ j \in Nat /\ (k = l => i = j) /\ (k < l => i < j)
<1>1. PICK M, n : M = Of(tables, sig) /\ n = Len(tables)
  OBVIOUS
<1>2. n \in Nat /\ M \subseteq 1..n /\ i \in M /\ j \in M /\ Rank(M, i) = k /\ Rank(M, j) = l
  BY <1>1, Known, OfFacts DEF Nth
<1>3. i \in Nat /\ j \in Nat
  BY <1>2
<1>4. i < j => Rank(M, i) < Rank(M, j)
  BY <1>2, Ranks
<1>5. j < i => Rank(M, j) < Rank(M, i)
  BY <1>2, Ranks
<1>6. QED
  BY <1>2, <1>3, <1>4, <1>5

LEMMA ProgressKept ==
  ASSUME IInv, Progress, Grown(tables, tables'), UNCHANGED <<phase, visited, ssdt>>
  PROVE  Progress'
<1>1. Labelled(tables')
  BY Known, GrownFacts DEF Progress
<1>2. \A k : Nth(tables', "DSDT", k) = Nth(tables, "DSDT", k)
             /\ Nth(tables', "SSDT", k) = Nth(tables, "SSDT", k)
  BY Known, GrownFacts, Signatures DEF Progress
<1>3. Visits(tables, visited, ssdt) => Visits(tables', visited, ssdt)
  BY <1>2 DEF Visits
<1>4. QED
  BY <1>1, <1>2, <1>3 DEF Progress

LEMMA GrownSame ==
  ASSUME NEW ts \in Seq(Entries), NEW us, Len(us) = Len(ts),
         \A j \in 1..Len(ts) : us[j].sig = ts[j].sig /\ us[j].buffer = ts[j].buffer
  PROVE  Grown(ts, us)
BY DEF Grown

LEMMA GrownRef ==
  ASSUME NEW ts \in Seq(Entries), NEW i, NEW us, us = Ref(ts, i) \/ us = Unref(ts, i)
  PROVE  Grown(ts, us)
<1>1. PICK n, r : us = [[ts EXCEPT ![i].refs = n] EXCEPT ![i].mapped = r]
  BY DEF Ref, Unref
<1>2. us = [ts EXCEPT ![i] = Recounted(@, n, r)]
  BY <1>1 DEF Recounted
<1>3. Len(us) = Len(ts) /\ \A j \in 1..Len(ts) : j # i => us[j] = ts[j]
  BY <1>2
<1>4. ASSUME i \in 1..Len(ts)
      PROVE  us[i].sig = ts[i].sig /\ us[i].buffer = ts[i].buffer
  <2>1. ts[i] \in Entries /\ us[i] = Recounted(ts[i], n, r)
    BY <1>2, <1>4
  <2>2. QED
    BY <2>1 DEF Recounted, Entries
<1>5. QED
  BY <1>3, <1>4, GrownSame

LEMMA GrownAppend ==
  ASSUME NEW ts \in Seq(Entries), NEW e, e.sig = AnySig, e.buffer # {}
  PROVE  Grown(ts, Append(ts, e))
<1>1. Len(ts) \in Nat /\ Len(Append(ts, e)) = Len(ts) + 1
  OBVIOUS
<1>2. \A j \in 1..Len(ts) : Append(ts, e)[j] = ts[j]
  OBVIOUS
<1>3. Append(ts, e)[Len(ts) + 1] = e
  OBVIOUS
<1>4. \A j \in 1..Len(ts) + 1 : j \notin 1..Len(ts) => j = Len(ts) + 1
  BY <1>1
<1>5. QED
  BY <1>1, <1>2, <1>3, <1>4 DEF Grown

LEMMA LoadNamespaceProgress ==
  ASSUME IInv, Progress, LoadNamespace
  PROVE  Progress'
<1>1. PICK i \in Found("DSDT", 0) :
        tables' = Ref(tables, i) /\ visited' = Append(visited, i)
  BY DEF LoadNamespace, NamespaceLoad
<1>2. phase = "ready" /\ phase' = "loading" /\ ssdt' = ssdt
  BY DEF LoadNamespace
<1>3. visited = <<>> /\ ssdt = 0 /\ Labelled(tables)
  BY <1>2 DEF Progress
<1>4. i \in Nth(tables, "DSDT", 0) /\ i \in 1..Len(tables) /\ i \in Nat
  <2>1. i \in Nth(tables, "DSDT", 0) /\ i \in 1..Len(tables)
    BY OfFacts, Signatures, FoundIn
  <2>2. QED
    BY <2>1, Known
<1>5. Grown(tables, tables')
  BY <1>1, Known, GrownRef
<1>6. visited' = <<i>>
  BY <1>1, <1>3
<1>7. Labelled(tables') /\ i \in Nth(tables', "DSDT", 0)
  BY <1>3, <1>4, <1>5, Known, GrownFacts, Signatures
<1>8. visited' \in Seq(Nat) /\ Len(visited') = 1 /\ visited'[1] = i
  BY <1>4, <1>6
<1>9. Rising(visited')
  BY <1>8 DEF Rising
<1>10. Visits(tables', visited', 0)
  BY <1>7, <1>8 DEF Visits
<1>11. QED
  BY <1>2, <1>3, <1>7, <1>8, <1>9, <1>10 DEF Progress

LEMMA NextSsdtProgress ==
  ASSUME IInv, Progress, NextSsdt
  PROVE  Progress'
<1>1. /\ phase = "loading" /\ Labelled(tables) /\ Visits(tables, visited, ssdt)
      /\ visited \in Seq(Nat) /\ ssdt \in Nat /\ Rising(visited)
  BY DEF NextSsdt, Progress
<1>2. Found("SSDT", ssdt) = Nth(tables, "SSDT", ssdt)
  BY OfFacts, Signatures
<1>3. CASE Found("SSDT", ssdt) = {}
  <2>1. phase' = "loaded" /\ UNCHANGED <<tables, visited, ssdt>>
    BY <1>3 DEF NextSsdt
  <2>2. QED
    BY <1>1, <1>2, <1>3, <2>1 DEF Progress
<1>4. CASE Found("SSDT", ssdt) # {}
  <2>1. PICK i \in Found("SSDT", ssdt) :
          tables' = Ref(tables, i) /\ visited' = Append(visited, i)
    BY <1>4 DEF NextSsdt, NamespaceLoad
  <2>2. ssdt' = ssdt + 1 /\ phase' = "loading"
    BY <1>1, <1>4 DEF NextSsdt
  <2>3. PICK v, k : v = visited /\ k = ssdt
    OBVIOUS
  <2>4. /\ i \in Nth(tables, "SSDT", k) /\ i \in Nat /\ k \in Nat /\ v \in Seq(Nat)
        /\ visited' = Append(v, i) /\ ssdt' = k + 1
    <3>1. i \in 1..Len(tables) /\ Len(tables) \in Nat
      BY Known, FoundIn
    <3>2. QED
      BY <1>1, <1>2, <2>1, <2>2, <2>3, <3>1
  <2>5. /\ Len(v) = k + 1 /\ v[1] \in Nth(tables, "DSDT", 0)
        /\ \A j \in 1..k : v[j + 1] \in Nth(tables, "SSDT", j - 1)
    BY <1>1, <2>3 DEF Visits
  <2>6. /\ Append(v, i) \in Seq(Nat) /\ Len(Append(v, i)) = k + 2
        /\ Append(v, i)[k + 2] = i /\ \A j \in 1..k + 1 : Append(v, i)[j] = v[j]
    BY <2>4, <2>5
  <2>7. Rising(visited')
    <3>1. ASSUME NEW m \in 1..k + 2, NEW n \in 1..k + 2, m < n, m > 1
          PROVE  Append(v, i)[m] < Append(v, i)[n]
      <4>1. CASE n \in 1..k + 1
        <5>1. m \in 1..k + 1
          BY <2>4, <3>1, <4>1
        <5>2. v[m] < v[n]
          BY <1>1, <2>3, <2>5, <3>1, <4>1, <5>1 DEF Rising
        <5>3. QED
          BY <2>6, <4>1, <5>1, <5>2
      <4>2. CASE n \notin 1..k + 1
        <5>1. n = k + 2 /\ m \in 1..k + 1 /\ m - 1 \in 1..k /\ m - 2 \in Nat /\ m - 2 < k
          BY <2>4, <3>1, <4>2
        <5>2. v[(m - 1) + 1] \in Nth(tables, "SSDT", (m - 1) - 1)
          BY <2>5, <5>1
        <5>3. (m - 1) + 1 = m /\ (m - 1) - 1 = m - 2
          BY <3>1
        <5>4. PICK x, l : x = v[m] /\ l = m - 2
          OBVIOUS
        <5>5. x \in Nth(tables, "SSDT", l) /\ l \in Nat /\ l < k
          BY <5>1, <5>2, <5>3, <5>4
        <5>6. x < i
          BY <2>4, <5>5, NthOrder
        <5>7. QED
          BY <2>6, <5>1, <5>4, <5>6
      <4>3. QED
        BY <4>1, <4>2
    <3>2. QED
      BY <2>4, <2>6, <3>1 DEF Rising
  <2>8. Grown(tables, tables')
    BY <2>1, Known, GrownRef
  <2>9. /\ Labelled(tables')
        /\ \A l : /\ Nth(tables', "DSDT", l) = Nth(tables, "DSDT", l)
                  /\ Nth(tables', "SSDT", l) = Nth(tables, "SSDT", l)
    BY <1>1, <2>8, Known, GrownFacts, Signatures
  <2>10. Visits(tables', visited', ssdt')
    <3>1. ASSUME NEW j \in 1..k + 1
          PROVE  Append(v, i)[j + 1] \in Nth(tables, "SSDT", j - 1)
      <4>1. CASE j \in 1..k
        <5>1. j + 1 \in 1..k + 1
          BY <2>4, <4>1
        <5>2. QED
          BY <2>5, <2>6, <4>1, <5>1
      <4>2. CASE j \notin 1..k
        <5>1. j = k + 1
          BY <2>4, <4>2
        <5>2. j + 1 = k + 2 /\ j - 1 = k
          BY <2>4, <5>1
        <5>3. QED
          BY <2>4, <2>6, <5>2
      <4>3. QED
        BY <4>1, <4>2
    <3>2. 1 \in 1..k + 1 /\ k + 2 = (k + 1) + 1
      BY <2>4
    <3>3. Append(v, i)[1] \in Nth(tables, "DSDT", 0)
      BY <2>5, <2>6, <3>2
    <3>4. QED
      BY <2>4, <2>6, <2>9, <3>1, <3>2, <3>3 DEF Visits
  <2>11. visited' \in Seq(Nat) /\ ssdt' \in Nat
    BY <2>4, <2>6
  <2>12. QED
    BY <2>2, <2>7, <2>9, <2>10, <2>11 DEF Progress
<1>5. QED
  BY <1>3, <1>4

LEMMA AddTableProgress ==
  ASSUME IInv, Progress, AddTable
  PROVE  Progress'
<1>1. phase = "init" /\ phase' \in {"init", "failed"} /\ UNCHANGED <<visited, ssdt>>
  BY DEF AddTable
<1>2. Labelled(tables')
  <2>1. CASE EntryAt(entry) \notin DOMAIN SigAt
    BY <2>1 DEF AddTable, Progress
  <2>2. CASE EntryAt(entry) \in DOMAIN SigAt
    <3>1. PICK sigs, n, m : sigs = Added /\ n = Len(tables) /\ m = Len(sigs)
      OBVIOUS
    <3>2. sigs \in Seq(Sigs) /\ Push(sigs) /\ m \in Nat /\ n \in Nat
      BY <2>2, <3>1, AddedFacts, Known DEF AddTable, Added
    <3>3. /\ Len(tables') = n + m /\ \A j \in 1..n : tables'[j] = tables[j]
          /\ \A j \in 1..m : tables'[n + j].sig = sigs[j] /\ tables'[n + j].buffer = {}
      BY <3>1, <3>2, PushFacts
    <3>4. ASSUME NEW k \in 1..n + m
          PROVE  tables'[k].sig = AnySig <=> tables'[k].buffer # {}
      <4>1. CASE k \in 1..n
        BY <3>1, <3>3, <4>1 DEF Progress, Labelled
      <4>2. CASE k \notin 1..n
        <5>1. k - n \in 1..m /\ n + (k - n) = k
          BY <3>2, <4>2
        <5>2. tables'[k].sig = sigs[k - n] /\ tables'[k].buffer = {} /\ sigs[k - n] \in Sigs
          BY <3>1, <3>2, <3>3, <5>1
        <5>3. QED
          BY <5>2, Signatures
      <4>3. QED
        BY <4>1, <4>2
    <3>5. QED
      BY <3>3, <3>4 DEF Labelled
  <2>3. QED
    BY <2>1, <2>2
<1>3. QED
  BY <1>1, <1>2 DEF Progress

LEMMA DestroyProgress ==
  ASSUME Progress, Destroy
  PROVE  Progress'
<1>1. phase' = "gone" /\ tables' = <<>> /\ UNCHANGED <<visited, ssdt>>
  BY DEF Destroy
<1>2. Labelled(tables')
  BY <1>1 DEF Labelled
<1>3. QED
  BY <1>1, <1>2 DEF Progress

\* The steps of the host and of AML only let the list grow.
LEMMA OthersGrow ==
  ASSUME OwnPointers, IInv,
         \/ \E sig, k : HostFind(sig, k)
         \/ \E i : HostUnref(i)
         \/ \E b : Load(b)
         \/ \E sig : LoadTable(sig)
         \/ \E verdict : Answer(verdict)
         \/ LoadEnds \/ LoadFails \/ Abandon
  PROVE  Grown(tables, tables') /\ UNCHANGED <<phase, visited, ssdt>>
<1>1. UNCHANGED <<phase, visited, ssdt>>
  BY DEF HostFind, HostUnref, Load, LoadTable, Answer, LoadEnds, LoadFails, Abandon
<1>2. tables' = tables => Grown(tables, tables')
  BY Known, GrownSame
<1>3. ASSUME NEW i, tables' = Ref(tables, i) \/ tables' = Unref(tables, i)
      PROVE  Grown(tables, tables')
  BY <1>3, Known, GrownRef
<1>4. ASSUME NEW sig, NEW k, HostFind(sig, k)
      PROVE  Grown(tables, tables')
  BY <1>3, <1>4 DEF HostFind
<1>5. ASSUME NEW i, HostUnref(i)
      PROVE  Grown(tables, tables')
  BY <1>3, <1>5 DEF HostUnref, UnrefMoved, OwnPointers
<1>6. ASSUME NEW sig, LoadTable(sig)
      PROVE  Grown(tables, tables')
  BY <1>3, <1>6 DEF LoadTable
<1>7. ASSUME NEW verdict, Answer(verdict)
      PROVE  Grown(tables, tables')
  BY <1>2, <1>3, <1>7 DEF Answer
<1>8. ASSUME LoadEnds
      PROVE  Grown(tables, tables')
  <2>1. CASE Top.op = "Load"
    <3>1. PICK e : e = Entry(AnySig, {Top.mem.id})
      OBVIOUS
    <3>2. tables' = Append(tables, e) /\ e.sig = AnySig /\ e.buffer # {}
      BY <1>8, <2>1, <3>1 DEF LoadEnds, Entry
    <3>3. QED
      BY <3>2, Known, GrownAppend
  <2>2. CASE Top.op # "Load"
    BY <1>2, <1>8, <2>2 DEF LoadEnds
  <2>3. QED
    BY <2>1, <2>2
<1>9. (\E b : Load(b)) \/ LoadFails \/ Abandon => tables' = tables
  BY DEF Load, LoadFails, Abandon
<1>10. QED
  BY <1>1, <1>2, <1>4, <1>5, <1>6, <1>7, <1>8, <1>9

LEMMA InitProgress == Init => Progress
<1> SUFFICES ASSUME Init
               PROVE  Progress
  OBVIOUS
<1>2. phase = "init" /\ tables = <<>> /\ visited = <<>> /\ ssdt = 0
  BY DEF Init
<1>3. Labelled(tables) /\ Rising(visited) /\ visited \in Seq(Nat)
  BY <1>2 DEF Labelled, Rising
<1>4. QED
  BY <1>2, <1>3 DEF Progress

LEMMA NextProgress == OwnPointers /\ IInv /\ Progress /\ [Next]_vars => Progress'
<1> SUFFICES ASSUME OwnPointers, IInv, Progress, [Next]_vars
               PROVE  Progress'
  OBVIOUS
<1>2. CASE AddTable
  BY <1>2, AddTableProgress
<1>3. CASE InitDone
  BY <1>3 DEF InitDone, Progress
<1>4. CASE LoadNamespace
  BY <1>4, LoadNamespaceProgress
<1>5. CASE NextSsdt
  BY <1>5, NextSsdtProgress
<1>6. CASE Destroy
  BY <1>6, DestroyProgress
<1>7. CASE \/ \E sig, k : HostFind(sig, k)
           \/ \E i : HostUnref(i)
           \/ \E b : Load(b)
           \/ \E sig : LoadTable(sig)
           \/ \E verdict : Answer(verdict)
           \/ LoadEnds \/ LoadFails \/ Abandon
  <2>1. Grown(tables, tables') /\ UNCHANGED <<phase, visited, ssdt>>
    BY <1>7, OthersGrow
  <2>2. QED
    BY <2>1, ProgressKept
<1>8. CASE UNCHANGED vars
  BY <1>8 DEF vars, Progress
<1>9. QED
  BY <1>2, <1>3, <1>4, <1>5, <1>6, <1>7, <1>8 DEF Next

\* When load_namespace is done, it has loaded as many SSDTs as there are.
LEMMA SsdtsLoaded ==
  ASSUME IInv, Progress, phase = "loaded"
  PROVE  Cardinality(Of(tables, "SSDT")) = ssdt
<1>1. PICK M, n, k, c : M = Of(tables, "SSDT") /\ n = Len(tables) /\ k = ssdt /\ c = Cardinality(M)
  OBVIOUS
<1>2. n \in Nat /\ M \subseteq 1..n /\ k \in Nat
  BY <1>1, Known, OfFacts DEF Progress
<1>3. c \in Nat
  BY <1>1, <1>2, CountAppend
<1>4. ~ k < c
  <2>1. k < c => \E i \in M : Rank(M, i) = k
    BY <1>1, <1>2, AllRanked DEF Ranked
  <2>2. ~ \E i \in M : Rank(M, i) = k
    BY <1>1 DEF Progress, Nth
  <2>3. QED
    BY <2>1, <2>2
<1>5. k > 0 => k - 1 < c
  <2>1. SUFFICES ASSUME k > 0
                 PROVE  k - 1 < c
    OBVIOUS
  <2>2. k \in 1..k
    BY <1>2, <2>1
  <2>3. visited[k + 1] \in Nth(tables, "SSDT", k - 1)
    BY <1>1, <2>2 DEF Progress, Visits
  <2>4. PICK i : i \in M /\ Rank(M, i) = k - 1
    BY <1>1, <2>3 DEF Nth
  <2>5. Rank(M, i) < Cardinality(M)
    BY <1>2, <2>4, Ranks
  <2>6. QED
    BY <1>1, <2>4, <2>5
<1>6. QED
  BY <1>1, <1>2, <1>3, <1>4, <1>5

LEMMA VisitedAll ==
  ASSUME IInv, Progress, phase = "loaded"
  PROVE  /\ ToSet(visited) = Of(tables, "SSDT") \cup Found("DSDT", 0)
         /\ Len(visited) = Cardinality(Of(tables, "SSDT")) + 1
<1>1. PICK M, n, k, v : M = Of(tables, "SSDT") /\ n = Len(tables) /\ k = ssdt /\ v = visited
  OBVIOUS
<1>2. /\ n \in Nat /\ M \subseteq 1..n /\ k \in Nat /\ v \in Seq(Nat) /\ Len(v) = k + 1
      /\ Cardinality(M) = k /\ v[1] \in Nth(tables, "DSDT", 0)
      /\ \A j \in 1..k : v[j + 1] \in Nth(tables, "SSDT", j - 1)
  BY <1>1, Known, OfFacts, SsdtsLoaded DEF Progress, Visits
<1>3. Found("DSDT", 0) = Nth(tables, "DSDT", 0)
  BY OfFacts, Signatures
<1>4. ASSUME NEW x \in Found("DSDT", 0)
      PROVE  x = v[1]
  BY <1>2, <1>3, <1>4, NthOrder
<1>5. ASSUME NEW x \in M
      PROVE  \E j \in 1..k : x = v[j + 1]
  <2>1. PICK r : r = Rank(M, x)
    OBVIOUS
  <2>2. r \in Nat /\ r < k
    BY <1>2, <2>1, Ranks
  <2>3. r + 1 \in 1..k /\ (r + 1) - 1 = r
    BY <1>2, <2>2
  <2>4. v[(r + 1) + 1] \in Nth(tables, "SSDT", r)
    BY <1>2, <2>3
  <2>5. x \in Nth(tables, "SSDT", r)
    BY <1>1, <2>1 DEF Nth
  <2>6. x = v[(r + 1) + 1]
    BY <2>2, <2>4, <2>5, NthOrder
  <2>7. QED
    BY <2>3, <2>6
<1>6. ASSUME NEW j \in 1..k + 1
      PROVE  v[j] \in M \cup Found("DSDT", 0)
  <2>1. CASE j = 1
    BY <1>2, <1>3, <2>1
  <2>2. CASE j # 1
    <3>1. j - 1 \in 1..k /\ (j - 1) + 1 = j
      BY <1>2, <2>2
    <3>2. v[j] \in Nth(tables, "SSDT", (j - 1) - 1)
      BY <1>2, <3>1
    <3>3. QED
      BY <1>1, <3>2 DEF Nth
  <2>3. QED
    BY <2>1, <2>2
<1>7. DOMAIN v = 1..k + 1 /\ 1 \in 1..k + 1 /\ \A j \in 1..k : j + 1 \in 1..k + 1
  BY <1>2
<1>8. ToSet(v) = M \cup Found("DSDT", 0)
  BY <1>4, <1>5, <1>6, <1>7 DEF ToSet
<1>9. QED
  BY <1>1, <1>2, <1>8

LEMMA LoadsOnce ==
  ASSUME IInv, Progress
  PROVE  NamespaceOnce
<1>1. DOMAIN tables = 1..Len(tables) /\ DOMAIN visited = 1..Len(visited)
  BY Known DEF Progress
<1>2. \A m, n \in DOMAIN visited : m < n /\ m > 1 => visited[m] < visited[n]
  BY <1>1 DEF Progress, Rising
<1>3. {i \in {j \in DOMAIN tables : tables[j].buffer = {}} : tables[i].sig = "SSDT"}
        = Of(tables, "SSDT")
  BY <1>1, Signatures DEF Progress, Labelled, Of
<1>4. QED
  BY <1>2, <1>3, VisitedAll DEF NamespaceOnce

\* load_namespace loads the DSDT and each SSDT of the firmware once and in the order of
\* the list, however many buffers the loads that it runs append to it meanwhile.
THEOREM LoadsInOrder == ASSUME OwnPointers PROVE Spec => []NamespaceOnce
<1>1. Init => IInv /\ Progress
  BY InitInv, InitProgress
<1>2. IInv /\ Progress /\ [Next]_vars => IInv' /\ Progress'
  BY NextInv, NextProgress
<1>3. IInv /\ Progress => NamespaceOnce
  BY LoadsOnce
<1>4. QED
  BY <1>1, <1>2, <1>3, PTL DEF Spec

-----------------------------------------------------------------------------
(* The tables that init finds                                              *)

Chain(seqs, n, f) == f = [i \in 1..n |-> IF i = 1 THEN seqs[i] ELSE f[i - 1] \o seqs[i]]

\* The concatenations of the first sequences of a list exist.
LEMMA Chains ==
  ASSUME NEW seqs, NEW n \in Nat
  PROVE  \E f : Chain(seqs, n, f)
<1> DEFINE Goal == {m \in Nat : \E f : Chain(seqs, m, f)}
<1>1. 0 \in Goal
  <2>1. Chain(seqs, 0, [i \in 1..0 |-> <<>>])
    BY DEF Chain
  <2>2. QED
    BY <2>1
<1>2. ASSUME NEW m \in Nat, m \in Goal
      PROVE  m + 1 \in Goal
  <2>1. PICK f : f = [i \in 1..m |-> IF i = 1 THEN seqs[i] ELSE f[i - 1] \o seqs[i]]
    BY <1>2 DEF Chain
  <2>2. PICK last : last = IF m + 1 = 1 THEN seqs[m + 1] ELSE f[m] \o seqs[m + 1]
    OBVIOUS
  <2>3. PICK g : g = [i \in 1..m + 1 |-> IF i = m + 1 THEN last ELSE f[i]]
    OBVIOUS
  <2>4. ASSUME NEW i \in 1..m + 1
        PROVE  g[i] = IF i = 1 THEN seqs[i] ELSE g[i - 1] \o seqs[i]
    <3>1. CASE i = m + 1
      <4>1. i # 1 => m \in 1..m /\ i - 1 = m /\ m # m + 1 /\ m \in 1..m + 1
        BY <3>1
      <4>2. g[i] = last
        BY <2>3, <3>1
      <4>3. i # 1 => g[i - 1] = f[m]
        BY <2>3, <4>1
      <4>4. QED
        BY <2>2, <3>1, <4>2, <4>3
    <3>2. CASE i # m + 1
      <4>1. i \in 1..m /\ (i # 1 => i - 1 \in 1..m /\ i - 1 \in 1..m + 1 /\ i - 1 # m + 1)
        BY <3>2
      <4>2. g[i] = f[i] /\ (i # 1 => g[i - 1] = f[i - 1])
        BY <2>3, <3>2, <4>1
      <4>3. f[i] = IF i = 1 THEN seqs[i] ELSE f[i - 1] \o seqs[i]
        BY <2>1, <4>1
      <4>4. QED
        BY <4>2, <4>3
    <3>3. QED
      BY <3>1, <3>2
  <2>5. g = [i \in 1..m + 1 |-> IF i = 1 THEN seqs[i] ELSE g[i - 1] \o seqs[i]]
    BY <2>3, <2>4
  <2>6. Chain(seqs, m + 1, g)
    BY <2>5 DEF Chain
  <2>7. QED
    BY <2>6
<1> HIDE DEF Goal
<1>3. n \in Goal
  BY <1>1, <1>2, SetInduction
<1>4. QED
  BY <1>3 DEF Goal

Chained(seqs) == CHOOSE f : Chain(seqs, Len(seqs), f)
LEMMA Flattened ==
  ASSUME NEW seqs, Len(seqs) \in Nat
  PROVE  /\ Chain(seqs, Len(seqs), Chained(seqs))
         /\ Len(seqs) # 0 => FlattenSeq(seqs) = Chained(seqs)[Len(seqs)]
         /\ Len(seqs) = 0 => FlattenSeq(seqs) = seqs
<1>1. Chain(seqs, Len(seqs), Chained(seqs))
  BY Chains DEF Chained
<1>2. Len(seqs) # 0 => FlattenSeq(seqs) = Chained(seqs)[Len(seqs)]
  BY DEF FlattenSeq, Chained, Chain
<1>3. Len(seqs) = 0 => FlattenSeq(seqs) = seqs
  BY DEF FlattenSeq
<1>4. QED
  BY <1>1, <1>2, <1>3

\* What init adds for an entry of the root table, and for the first n of them
AddedAt(i) == IF SigAt[EntryAt(i)] = "FACP" THEN <<SigAt[DsdtAt], "FACP">>
              ELSE <<SigAt[EntryAt(i)]>>
AddedAll == [i \in 1..EntryCount |-> AddedAt(i)]
First(n) == IF n = 0 THEN <<>> ELSE Chained(AddedAll)[n]
Labels(ts) == [i \in DOMAIN ts |-> ts[i].sig]

\* An XSDT, each of whose entries is the address of a table.
XsdtFine == Wide /\ \A i \in 1..EntryCount : EntryAt(i) \in DOMAIN SigAt

Searched ==
  /\ phase = "init" => entry \in 1..EntryCount + 1 /\ Labels(tables) = First(entry - 1)
  /\ phase = "ready" => Labels(tables) = First(EntryCount)
  /\ phase # "failed"

LEMMA Entrances ==
  /\ EntryCount \in Nat /\ Len(AddedAll) = EntryCount
  /\ \A n \in 1..EntryCount : (First(n) = First(n - 1) \o AddedAt(n)) \/ (n = 1 /\ First(1) = AddedAt(1))
<1>1. Len(Root) \in Nat /\ Len(Root) \div 2 \in Nat
  BY TablesAssumption
<1>2. EntryCount \in Nat
  BY <1>1 DEF EntryCount
<1>3. Len(AddedAll) = EntryCount
  BY <1>2 DEF AddedAll
<1>4. PICK f, n : f = Chained(AddedAll) /\ n = EntryCount
  OBVIOUS
<1>5. f = [i \in 1..n |-> IF i = 1 THEN AddedAll[i] ELSE f[i - 1] \o AddedAll[i]]
  BY <1>2, <1>3, <1>4, Flattened DEF Chain
<1>6. ASSUME NEW m \in 1..n
      PROVE  First(m) = First(m - 1) \o AddedAt(m) \/ (m = 1 /\ First(1) = AddedAt(1))
  <2>1. AddedAll[m] = AddedAt(m)
    BY <1>4 DEF AddedAll
  <2>2. First(m) = f[m] /\ (m # 1 => First(m - 1) = f[m - 1])
    BY <1>4 DEF First
  <2>3. f[m] = IF m = 1 THEN AddedAll[m] ELSE f[m - 1] \o AddedAll[m]
    BY <1>5
  <2>4. QED
    BY <2>1, <2>2, <2>3
<1>7. QED
  BY <1>2, <1>3, <1>4, <1>6

LEMMA LabelsSame ==
  ASSUME NEW ts \in Seq(Entries), NEW us \in Seq(Entries), Grown(ts, us), Len(us) = Len(ts)
  PROVE  Labels(us) = Labels(ts)
<1>1. DOMAIN us = 1..Len(ts) /\ DOMAIN ts = 1..Len(ts)
  OBVIOUS
<1>2. QED
  BY <1>1 DEF Labels, Grown

LEMMA LabelsPush ==
  ASSUME IInv, NEW sigs \in Seq(Sigs), Push(sigs)
  PROVE  /\ Labels(tables') = Labels(tables) \o sigs
         /\ tables = <<>> => Labels(tables') = sigs
<1>1. PICK n, m : n = Len(tables) /\ m = Len(sigs)
  OBVIOUS
<1>2. n \in Nat /\ m \in Nat
  BY <1>1, Known
<1>3. /\ tables' \in Seq(Entries) /\ Len(tables') = n + m
      /\ \A j \in 1..n : tables'[j] = tables[j]
      /\ \A j \in 1..m : tables'[n + j].sig = sigs[j]
  BY <1>1, PushFacts
<1>4. PICK S, a, b : S = Sigs \cup {AnySig} /\ a = Labels(tables) /\ b = Labels(tables')
  OBVIOUS
<1>5. \A ts \in Seq(Entries) : /\ Labels(ts) \in Seq(S) /\ Len(Labels(ts)) = Len(ts)
                               /\ \A j \in 1..Len(ts) : Labels(ts)[j] = ts[j].sig
  <2>1. ASSUME NEW ts \in Seq(Entries)
        PROVE  /\ Labels(ts) \in Seq(S) /\ Len(Labels(ts)) = Len(ts)
               /\ \A j \in 1..Len(ts) : Labels(ts)[j] = ts[j].sig
    <3>1. DOMAIN ts = 1..Len(ts) /\ Len(ts) \in Nat
      OBVIOUS
    <3>2. \A j \in 1..Len(ts) : ts[j].sig \in S
      <4>1. \A j \in 1..Len(ts) : ts[j] \in Entries
        OBVIOUS
      <4>2. QED
        BY <1>4, <4>1 DEF Entries
    <3>3. QED
      BY <3>1, <3>2 DEF Labels
  <2>2. QED
    BY <2>1
<1>6. a \in Seq(S) /\ Len(a) = n /\ b \in Seq(S) /\ Len(b) = n + m
  BY <1>1, <1>3, <1>4, <1>5, Known
<1>7. sigs \in Seq(S)
  BY <1>4
<1>8. /\ a \o sigs \in Seq(S) /\ Len(a \o sigs) = n + m
      /\ \A i \in 1..n + m : (a \o sigs)[i] = IF i <= n THEN a[i] ELSE sigs[i - n]
  BY ONLY <1>1, <1>6, <1>7, ConcatProperties
<1>9. ASSUME NEW i \in 1..n + m
      PROVE  b[i] = (a \o sigs)[i]
  <2>1. b[i] = tables'[i].sig
    BY <1>3, <1>4, <1>5
  <2>2. CASE i <= n
    <3>1. i \in 1..n
      BY <1>2, <2>2
    <3>2. tables'[i] = tables[i] /\ a[i] = tables[i].sig
      BY <1>1, <1>3, <1>4, <1>5, <3>1, Known
    <3>3. QED
      BY <1>8, <2>1, <2>2, <3>2
  <2>3. CASE ~ i <= n
    <3>1. i - n \in 1..m /\ n + (i - n) = i
      BY <1>2, <2>3
    <3>2. tables'[i].sig = sigs[i - n]
      BY <1>3, <3>1
    <3>3. QED
      BY <1>8, <2>1, <2>3, <3>2
  <2>4. QED
    BY <2>2, <2>3
<1>10. b = a \o sigs
  BY ONLY <1>6, <1>8, <1>9, SeqEqual
<1>11. tables = <<>> => b = sigs
  <2>1. SUFFICES ASSUME tables = <<>>
                 PROVE  b = sigs
    OBVIOUS
  <2>2. n = 0
    BY <1>1, <2>1
  <2>3. Len(b) = Len(sigs) /\ \A i \in 1..Len(b) : b[i] = sigs[i]
    BY <1>1, <1>2, <1>6, <1>8, <1>9, <2>2
  <2>4. QED
    BY ONLY <1>6, <1>7, <2>3, SeqEqual
<1>12. QED
  BY <1>4, <1>10, <1>11

LEMMA InitSearched == Init => Searched
<1> SUFFICES ASSUME Init
               PROVE  Searched
  OBVIOUS
<1>2. phase = "init" /\ entry = 1 /\ tables = <<>>
  BY DEF Init
<1>3. 1 \in 1..EntryCount + 1
  BY Entrances
<1>4. Labels(tables) = <<>> /\ First(0) = <<>>
  BY <1>2 DEF Labels, First
<1>5. QED
  BY <1>2, <1>3, <1>4 DEF Searched

LEMMA AddTableSearched ==
  ASSUME XsdtFine, IInv, Searched, AddTable
  PROVE  Searched'
<1>1. PICK k, n : k = entry /\ n = EntryCount
  OBVIOUS
<1>2. k \in 1..n /\ n \in Nat /\ Labels(tables) = First(k - 1)
  BY <1>1, Entrances DEF AddTable, Searched
<1>3. EntryAt(k) \in DOMAIN SigAt
  BY <1>1, <1>2 DEF XsdtFine
<1>4. phase' = "init" /\ entry' = k + 1 /\ Push(Added) /\ Added = AddedAt(k)
  BY <1>1, <1>3 DEF AddTable, Added, AddedAt
<1>5. Added \in Seq(Sigs)
  BY <1>1, <1>3, AddedFacts
<1>6. Labels(tables') = Labels(tables) \o Added /\ (tables = <<>> => Labels(tables') = Added)
  BY <1>4, <1>5, LabelsPush
<1>7. Labels(tables') = First(k)
  <2>1. CASE First(k) = First(k - 1) \o AddedAt(k)
    BY <1>2, <1>4, <1>6, <2>1
  <2>2. CASE k = 1 /\ First(1) = AddedAt(1)
    <3>1. Labels(tables) = <<>>
      BY <1>2, <2>2 DEF First
    <3>2. tables = <<>>
      <4>1. tables \in Seq(Entries) /\ DOMAIN tables = {}
        BY <3>1, Known DEF Labels
      <4>2. QED
        BY <4>1
    <3>3. QED
      BY <1>4, <1>6, <2>2, <3>2
  <2>3. QED
    BY <1>1, <1>2, <2>1, <2>2, Entrances
<1>8. k + 1 \in 1..n + 1 /\ (k + 1) - 1 = k
  BY <1>2
<1>9. QED
  BY <1>1, <1>4, <1>7, <1>8 DEF Searched

LEMMA NextSearched == OwnPointers /\ XsdtFine /\ IInv /\ Searched /\ [Next]_vars => Searched'
<1> SUFFICES ASSUME OwnPointers, XsdtFine, IInv, Searched, [Next]_vars
               PROVE  Searched'
  OBVIOUS
<1>2. CASE AddTable
  BY <1>2, AddTableSearched
<1>3. CASE InitDone
  <2>1. /\ phase = "init" /\ phase' = "ready" /\ tables' = tables
        /\ entry > EntryCount
    BY <1>3 DEF InitDone
  <2>2. entry \in 1..EntryCount + 1 /\ Labels(tables) = First(entry - 1) /\ EntryCount \in Nat
    BY <2>1, Entrances DEF Searched
  <2>3. entry - 1 = EntryCount
    BY <2>1, <2>2
  <2>4. QED
    BY <2>1, <2>2, <2>3 DEF Searched
<1>4. CASE LoadNamespace \/ NextSsdt \/ Destroy
  <2>1. phase' \in {"loading", "loaded", "gone"}
    BY <1>4 DEF LoadNamespace, NextSsdt, Destroy
  <2>2. QED
    BY <2>1 DEF Searched
<1>5. CASE (\E sig \in Sigs, k \in 0..1 : HostFind(sig, k)) \/ (\E i \in DOMAIN tables : HostUnref(i))
  <2>1. PICK i : tables' = Ref(tables, i) \/ tables' = Unref(tables, i)
    BY <1>5 DEF HostFind, HostUnref, UnrefMoved, OwnPointers
  <2>2. Grown(tables, tables') /\ tables' \in Seq(Entries) /\ Len(tables') = Len(tables)
    <3>1. Grown(tables, tables')
      BY <2>1, Known, GrownRef
    <3>2. Len(tables') = Len(tables)
      BY <2>1, Known DEF Ref, Unref
    <3>3. tables' \in Seq(Entries)
      <4>1. IInv'
        BY NextInv
      <4>2. QED
        BY <4>1 DEF IInv, Typed
    <3>4. QED
      BY <3>1, <3>2, <3>3
  <2>3. Labels(tables') = Labels(tables)
    BY <2>2, Known, LabelsSame
  <2>4. phase' = phase /\ entry' = entry
    BY <1>5 DEF HostFind, HostUnref
  <2>5. QED
    BY <2>3, <2>4 DEF Searched
<1>6. CASE \/ \E b \in Buffers : Load(b)
           \/ \E sig \in Sigs \cup {AnySig} : LoadTable(sig)
           \/ \E verdict \in {"allow", "deny", "override"} : Answer(verdict)
           \/ LoadEnds \/ LoadFails \/ Abandon
  <2>1. phase' = phase
    BY <1>6 DEF Load, LoadTable, Answer, LoadEnds, LoadFails, Abandon
  <2>2. loads # <<>> \/ phase = "loaded"
    BY <1>6 DEF Load, LoadTable, Answer, LoadEnds, LoadFails, Abandon, MayLoad, Running
  <2>3. phase \notin {"init", "ready"}
    BY <2>2, Known DEF Idle
  <2>4. QED
    BY <2>1, <2>3 DEF Searched
<1>7. CASE UNCHANGED vars
  BY <1>7 DEF vars, Searched
<1>8. QED
  BY <1>2, <1>3, <1>4, <1>5, <1>6, <1>7 DEF Next

LEMMA AllFound ==
  ASSUME XsdtFine, Searched
  PROVE  AllTablesFound
<1>1. PICK n : n = EntryCount
  OBVIOUS
<1>2. n \in Nat /\ n = Len(Root) \div 2 /\ Len(AddedAll) = n /\ Wide
  BY <1>1, Entrances DEF XsdtFine, EntryCount
<1>3. PICK address : address = IF Wide THEN [i \in 1..(Len(Root) \div 2) |-> EntryAt(i)]
                               ELSE [i \in 1..Len(Root) |-> <<Root[i], 0>>]
  OBVIOUS
<1>4. address = [i \in 1..n |-> EntryAt(i)]
  BY <1>2, <1>3
<1>5. [i \in DOMAIN address |-> IF SigAt[address[i]] = "FACP" THEN <<SigAt[DsdtAt], "FACP">>
                                ELSE <<SigAt[address[i]]>>] = AddedAll
  BY <1>1, <1>4 DEF AddedAll, AddedAt
<1>6. FlattenSeq(AddedAll) = First(n)
  <2>1. CASE n = 0
    <3>1. AddedAll = <<>>
      BY <1>1, <2>1 DEF AddedAll
    <3>2. QED
      BY <1>2, <2>1, <3>1, Flattened DEF First
  <2>2. CASE n # 0
    BY <1>2, <2>2, Flattened DEF First
  <2>3. QED
    BY <2>1, <2>2
<1>7. phase # "failed" /\ (phase = "ready" => [i \in DOMAIN tables |-> tables[i].sig] = First(n))
  BY <1>1 DEF Searched, Labels
<1>8. QED
  BY <1>3, <1>5, <1>6, <1>7 DEF AllTablesFound

\* From an XSDT each of whose entries is the address of a table, init lists all of them,
\* each FACP behind its DSDT, and load_namespace loads the definition blocks of the list
\* once. (With an RSDT init reads two entries as one, and this is not so.)
THEOREM FoundAndLoaded == ASSUME OwnPointers, XsdtFine PROVE Spec => []LoadedOnce
<1>1. Init => IInv /\ Progress /\ Searched
  BY InitInv, InitProgress, InitSearched
<1>2. IInv /\ Progress /\ Searched /\ [Next]_vars => IInv' /\ Progress' /\ Searched'
  BY NextInv, NextProgress, NextSearched
<1>3. IInv /\ Progress /\ Searched => LoadedOnce
  BY LoadsOnce, AllFound DEF LoadedOnce
<1>4. QED
  BY <1>1, <1>2, <1>3, PTL DEF Spec
=============================================================================
