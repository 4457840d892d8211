-------------------------- MODULE NamespaceProofs ---------------------------
(***************************************************************************)
(* Proofs about Namespace, for any nodes and names and any nesting of      *)
(* frames: who owns the nodes, what the search finds, and what a Load that *)
(* fails leaves, where AML creates things by plain names.                  *)
(***************************************************************************)
EXTENDS Namespace, Integers, FiniteSetTheorems, SequenceTheorems,
        WellFoundedInduction, NaturalsInduction, TLAPS

\* AML names what it creates by one segment, in the scope it is in.
PlainPaths == \A p \in Paths : p.from = "scope" /\ p.up = 0 /\ Len(p.segs) = 1

Places == Nodes \cup {Null}
Frames == [op : {"table", "scope", "method", "load"}, back : Nodes, made : Seq(Ids)]

\* The nodes that stay at least until the k-th frame has ended
Made(fs, i) == ToSet(fs[i].made)
Held(fs, perm, k) == perm \cup {n \in Nodes : \E j \in 1..k : n \in Made(fs, j)}

\* A frame and the nodes it owns: nothing else owns them, their parents are older
\* than they are, and the scope to come back to stays longer than the frame.
OwnsAlone(fs, perm, i) ==
  \A n \in Made(fs, i) : n \notin perm /\ \A j \in 1..Len(fs) : n \in Made(fs, j) => i = j
Younger(fs, perm, par, i) ==
  \A b \in 1..Len(fs[i].made) :
    /\ par[fs[i].made[b]] \in Held(fs, perm, i)
    /\ \A a \in 1..b : par[fs[i].made[b]] # fs[i].made[a]
FrameFits(fs, perm, par, i) ==
  /\ OwnsAlone(fs, perm, i) /\ Younger(fs, perm, par, i)
  /\ ~ Owns(fs[i]) => fs[i].made = <<>>
  /\ fs[i].back \in Held(fs, perm, i - 1)

Fits(fs, perm, lv, par) ==
  /\ fs \in Seq(Frames) /\ perm \in SUBSET Nodes /\ Root \in perm
  /\ lv = Held(fs, perm, Len(fs))
  /\ \A i \in 1..Len(fs) : FrameFits(fs, perm, par, i)

Typed ==
  /\ live \in SUBSET Nodes /\ parent \in [Nodes -> Places] /\ children \in [Nodes -> SUBSET Ids]
  /\ kind \in [Nodes -> {"none", "value", "device", "method"}] /\ DOMAIN name = Nodes

\* What is below a node is alive, has the node as its parent and a name of its own.
ChildrenFit ==
  /\ \A n \in Nodes : \A c \in children[n] :
       /\ n \in live /\ c \in live /\ parent[c] = n
       /\ \A d \in children[n] : name[c] = name[d] => c = d
  /\ parent[Root] = Null /\ \A n \in live : kind[n] # "none"

\* The nodes that no frame owns, and never both the context and nobody
Keeps == permanent \cup stray
Apart == permanent \in SUBSET Nodes /\ stray \in SUBSET Ids /\ permanent \cap stray = {}

IInv == /\ Typed /\ ChildrenFit /\ Fits(frames, Keeps, live, parent)
        /\ scope \in live /\ Apart /\ (misfreed => cutShort)

-----------------------------------------------------------------------------
(* Numbers and recursive functions                                         *)

\* A set of natural numbers that is not empty has a least element.
LEMMA NatMin ==
  ASSUME NEW T, T \subseteq Nat, T # {}
  PROVE  \E x \in T : \A y \in T : x <= y
<1>1. PICK x \in T : \A y \in T : ~ (<<y, x>> \in OpToRel(<, Nat))
  BY NatLessThanWellFounded, WFMin
<1>2. ASSUME NEW y \in T, y < x
      PROVE  FALSE
  <2>1. <<y, x>> \in {ss \in Nat \X Nat : ss[1] < ss[2]}
    BY <1>2
  <2>2. <<y, x>> \in OpToRel(<, Nat)
    BY <2>1, Zenon DEF OpToRel
  <2>3. QED
    BY <1>1, <2>2
<1>3. \A y \in T : ~ (y < x)
  BY <1>2
<1>4. QED
  BY <1>3

\* Induction: a set with 0, and with n + 1 whenever it has n, has every natural number.
LEMMA SetInduction ==
  ASSUME NEW T, 0 \in T, \A n \in Nat : n \in T => n + 1 \in T
  PROVE  Nat \subseteq T
<1>1. SUFFICES ASSUME Nat \ T # {}
               PROVE  FALSE
  OBVIOUS
<1>2. PICK x \in Nat \ T : \A y \in Nat \ T : x <= y
  BY <1>1, NatMin
<1>3. x - 1 \in Nat /\ x - 1 \in T
  BY <1>2
<1>4. QED
  BY <1>2, <1>3

\* A function on the first n numbers that begins with a and goes on by g
Begins(S, g, a, n) ==
  {f \in [0..n -> S] : f[0] = a /\ \A i \in 0..(n - 1) : f[i + 1] = g[i][f[i]]}

LEMMA BeginsExist ==
  ASSUME NEW S, NEW g \in [Nat -> [S -> S]], NEW a \in S, NEW n \in Nat
  PROVE  Begins(S, g, a, n) # {}
<1> DEFINE T == {k \in Nat : Begins(S, g, a, k) # {}}
<1>1. 0 \in T
  <2>1. [i \in 0..0 |-> a] \in Begins(S, g, a, 0)
    BY DEF Begins
  <2>2. QED
    BY <2>1
<1>2. ASSUME NEW k \in Nat, k \in T
      PROVE  k + 1 \in T
  <2>1. PICK f \in [0..k -> S] : f[0] = a /\ \A i \in 0..(k - 1) : f[i + 1] = g[i][f[i]]
    BY <1>2 DEF Begins
  <2>2. PICK last : last = g[k][f[k]]
    OBVIOUS
  <2>3. last \in S
    BY <2>1, <2>2
  <2>4. PICK h : h = [i \in 0..(k + 1) |-> IF i = k + 1 THEN last ELSE f[i]]
    OBVIOUS
  <2>5. h \in [0..(k + 1) -> S] /\ h[0] = a
    BY <2>1, <2>3, <2>4
  <2>6. ASSUME NEW i \in 0..((k + 1) - 1)
        PROVE  h[i + 1] = g[i][h[i]]
    <3>1. CASE i = k
      BY <2>2, <2>4, <3>1
    <3>2. CASE i # k
      BY <2>1, <2>4, <3>2
    <3>3. QED
      BY <3>1, <3>2
  <2>7. h \in Begins(S, g, a, k + 1)
    BY <2>5, <2>6 DEF Begins
  <2>8. QED
    BY <2>7
<1> HIDE DEF T
<1>3. Nat \subseteq T
  BY <1>1, <1>2, SetInduction
<1>4. QED
  BY <1>3 DEF T

LEMMA BeginsAgree ==
  ASSUME NEW S, NEW g \in [Nat -> [S -> S]], NEW a \in S, NEW n \in Nat, NEW m \in Nat, n <= m,
         NEW f \in Begins(S, g, a, n), NEW h \in Begins(S, g, a, m)
  PROVE  f[n] = h[n]
<1> DEFINE T == {k \in Nat : k <= n => f[k] = h[k]}
<1>1. 0 \in T
  BY DEF Begins
<1>2. ASSUME NEW k \in Nat, k \in T
      PROVE  k + 1 \in T
  <2>1. SUFFICES ASSUME k + 1 <= n
                 PROVE  f[k + 1] = h[k + 1]
    OBVIOUS
  <2>2. k \in 0..(n - 1) /\ k \in 0..(m - 1) /\ f[k] = h[k]
    BY <1>2, <2>1
  <2>3. f[k + 1] = g[k][f[k]] /\ h[k + 1] = g[k][h[k]]
    BY <2>2 DEF Begins
  <2>4. QED
    BY <2>2, <2>3
<1> HIDE DEF T
<1>3. n \in T
  BY <1>1, <1>2, SetInduction
<1>4. QED
  BY <1>3 DEF T

\* A function on the numbers that begins with a and goes on by g
Runs(S, g, a) == {f \in [Nat -> S] : f[0] = a /\ \A i \in Nat : f[i + 1] = g[i][f[i]]}

LEMMA Recursion ==
  ASSUME NEW S, NEW g \in [Nat -> [S -> S]], NEW a \in S
  PROVE  Runs(S, g, a) # {}
<1> DEFINE st(n) == CHOOSE h \in Begins(S, g, a, n) : TRUE
           f == [n \in Nat |-> st(n)[n]]
<1>1. ASSUME NEW n \in Nat
      PROVE  st(n) \in Begins(S, g, a, n)
  BY BeginsExist
<1> HIDE DEF st
<1>2. f \in [Nat -> S]
  BY <1>1 DEF Begins
<1>3. f[0] = a
  BY <1>1 DEF Begins
<1>4. ASSUME NEW n \in Nat
      PROVE  f[n + 1] = g[n][f[n]]
  <2>1. st(n) \in Begins(S, g, a, n) /\ st(n + 1) \in Begins(S, g, a, n + 1)
    BY <1>1
  <2>2. st(n + 1)[n + 1] = g[n][st(n + 1)[n]]
    BY <2>1 DEF Begins
  <2>3. st(n)[n] = st(n + 1)[n]
    BY <2>1, BeginsAgree
  <2>4. QED
    BY <2>2, <2>3
<1>5. f \in Runs(S, g, a)
  BY <1>2, <1>3, <1>4 DEF Runs
<1>6. QED
  BY <1>5

-----------------------------------------------------------------------------
(* What the recursive definitions of the model are                         *)

LEMMA Kids ==
  ASSUME Typed, NEW n \in Nodes, NEW s
  PROVE  /\ Child(n, s) = Null \/ (Child(n, s) \in children[n] /\ name[Child(n, s)] = s)
         /\ Child(n, s) = Null => \A c \in children[n] : name[c] # s
         /\ Child(n, s) \in Places
         /\ children[n] \subseteq Ids /\ children[n] \subseteq Nodes
<1>1. PICK K : K = {c \in children[n] : name[c] = s}
  OBVIOUS
<1>2. children[n] \subseteq Ids /\ children[n] \subseteq Nodes /\ Null \notin Ids
  BY NamespaceAssumption DEF Typed, Nodes
<1>3. CASE K = {}
  <2>1. Child(n, s) = Null
    BY <1>1, <1>3 DEF Child
  <2>2. QED
    BY <1>1, <1>2, <1>3, <2>1 DEF Places
<1>4. CASE K # {}
  <2>1. PICK c : c = CHOOSE d \in K : TRUE
    OBVIOUS
  <2>2. c \in K
    BY <1>4, <2>1
  <2>3. Child(n, s) = c
    BY <1>1, <1>4, <2>1 DEF Child
  <2>4. c \in children[n] /\ name[c] = s /\ c # Null
    BY <1>1, <1>2, <2>2
  <2>5. QED
    BY <1>2, <2>3, <2>4 DEF Places
<1>5. QED
  BY <1>3, <1>4

LEMMA AboveNone ==
  ASSUME Typed, NEW n \in Nodes
  PROVE  Above(n, 0) = n
<1>1. PICK up : up = [x \in Places |-> IF x = Null THEN Null ELSE parent[x]]
  OBVIOUS
<1>2. up \in [Places -> Places] /\ n \in Places
  BY <1>1 DEF Typed, Places
<1>3. PICK g : g = [k \in Nat |-> up]
  OBVIOUS
<1>4. g \in [Nat -> [Places -> Places]]
  BY <1>2, <1>3
<1>5. PICK f : f \in Runs(Places, g, n)
  BY ONLY <1>2, <1>4, Recursion
<1>6. f \in [Nat -> Places] /\ f[0] = n /\ \A k \in Nat : f[k + 1] = up[f[k]]
  BY <1>3, <1>5 DEF Runs
<1>7. ASSUME NEW k \in Nat
      PROVE  f[k] = IF k = 0 THEN n ELSE IF f[k - 1] = Null THEN Null ELSE parent[f[k - 1]]
  <2>1. CASE k = 0
    BY <1>6, <2>1
  <2>2. CASE k # 0
    <3>1. k - 1 \in Nat /\ (k - 1) + 1 = k
      BY <2>2
    <3>2. f[k] = up[f[k - 1]] /\ f[k - 1] \in Places
      BY <1>6, <3>1
    <3>3. QED
      BY <1>1, <2>2, <3>2
  <2>3. QED
    BY <2>1, <2>2
<1>8. f = [k \in Nat |-> IF k = 0 THEN n ELSE IF f[k - 1] = Null THEN Null ELSE parent[f[k - 1]]]
  BY <1>6, <1>7
<1>9. QED
  BY <1>6, <1>8 DEF Above

LEMMA PrefixIs ==
  ASSUME Typed, NEW n \in Nodes, NEW segs \in Seq(Names), Len(segs) = 1
  PROVE  Prefix(n, segs) = IF Child(n, segs[1]) = Null THEN <<>> ELSE <<Child(n, segs[1])>>
<1>1. PICK g : g = [k \in Nat |-> [x \in Places |-> IF x = Null THEN Null ELSE Child(x, segs[k + 1])]]
  OBVIOUS
<1>2. g \in [Nat -> [Places -> Places]] /\ n \in Places /\ n # Null
  <2>1. ASSUME NEW k \in Nat, NEW x \in Places
        PROVE  (IF x = Null THEN Null ELSE Child(x, segs[k + 1])) \in Places
    BY Kids DEF Places
  <2>2. QED
    BY <1>1, <2>1, NamespaceAssumption DEF Places, Nodes
<1>3. PICK f : f \in Runs(Places, g, n)
  BY ONLY <1>2, Recursion
<1>4. f \in [Nat -> Places] /\ f[0] = n /\ \A k \in Nat : f[k + 1] = g[k][f[k]]
  BY <1>3 DEF Runs
<1>5. ASSUME NEW i \in Nat
      PROVE  f[i] = IF i = 0 THEN n ELSE IF f[i - 1] = Null THEN Null ELSE Child(f[i - 1], segs[i])
  <2>1. CASE i = 0
    BY <1>4, <2>1
  <2>2. CASE i # 0
    <3>1. PICK k \in Nat : k = i - 1
      BY <2>2
    <3>2. k + 1 = i
      BY <3>1
    <3>3. f[k + 1] = g[k][f[k]] /\ f[k] \in Places
      BY <1>4
    <3>4. f[i] = IF f[k] = Null THEN Null ELSE Child(f[k], segs[i])
      BY <1>1, <3>2, <3>3
    <3>5. QED
      BY <2>2, <3>1, <3>4
  <2>3. QED
    BY <2>1, <2>2
<1>14. f = [i \in Nat |-> IF i = 0 THEN n ELSE IF f[i - 1] = Null THEN Null ELSE Child(f[i - 1], segs[i])]
  BY <1>4, <1>5
<1>6. \E h : h = [i \in Nat |-> IF i = 0 THEN n ELSE IF h[i - 1] = Null THEN Null ELSE Child(h[i - 1], segs[i])]
  BY ONLY <1>14, Zenon
<1>7. PICK h : /\ h = [i \in Nat |-> IF i = 0 THEN n ELSE IF h[i - 1] = Null THEN Null ELSE Child(h[i - 1], segs[i])]
               /\ Prefix(n, segs) = [i \in 1..Cardinality({j \in 1..Len(segs) : h[j] # Null}) |-> h[i]]
  BY <1>6 DEF Prefix
<1>8. h[1] = Child(n, segs[1])
  <2>1. 1 \in Nat /\ 1 # 0 /\ 1 - 1 = 0 /\ 0 \in Nat
    OBVIOUS
  <2>2. h[0] = n
    BY <1>7, <2>1
  <2>3. h[1] = IF h[0] = Null THEN Null ELSE Child(h[0], segs[1])
    BY <1>7, <2>1
  <2>4. QED
    BY <1>2, <2>2, <2>3
<1>9. PICK found : found = {j \in 1..Len(segs) : h[j] # Null}
  OBVIOUS
<1>13. Prefix(n, segs) = [i \in 1..Cardinality(found) |-> h[i]]
  BY ONLY <1>7, <1>9
<1>10. CASE h[1] = Null
  <2>1. found = {}
    BY <1>9, <1>10
  <2>2. Cardinality(found) = 0
    BY <2>1, FS_EmptySet
  <2>3. Prefix(n, segs) = <<>>
    BY <1>13, <2>2
  <2>4. QED
    BY <1>8, <1>10, <2>3
<1>11. CASE h[1] # Null
  <2>1. found = {1}
    BY <1>9, <1>11
  <2>2. Cardinality(found) = 1
    BY <2>1, FS_Singleton
  <2>3. Prefix(n, segs) = <<h[1]>>
    BY <1>13, <2>2
  <2>4. QED
    BY <1>8, <1>11, <2>3
<1>12. QED
  BY <1>10, <1>11

LEMMA FiniteNodes ==
  /\ Cardinality(Ids) \in Nat /\ Cardinality(Nodes) = Cardinality(Ids) + 1
  /\ Longest \in Nat /\ Longest > Cardinality(Ids)
<1>1. IsFiniteSet(Ids) /\ IsFiniteSet(Names) /\ Root \notin Ids
  BY NamespaceAssumption
<1>2. Cardinality(Ids) \in Nat /\ Cardinality(Names) \in Nat
  BY <1>1, FS_CardinalityType
<1>3. Cardinality(Nodes) = Cardinality(Ids) + 1
  BY <1>1, FS_AddElement DEF Nodes
<1>4. QED
  BY <1>2, <1>3 DEF Longest

\* The searches for s by the number of places they may look in
Seeks(s) ==
  {F \in [Nat -> [Places -> Places]] :
     /\ \A n \in Places : F[0][n] = Null
     /\ \A k \in Nat, n \in Places :
          F[k + 1][n] = IF n = Null THEN Null
                        ELSE IF Child(n, s) = Null THEN F[k][parent[n]] ELSE Child(n, s)}

\* What a search with one more step finds, for the i-th segment of those left
Further(h, segs, n, i) ==
  IF n = Null THEN Null
  ELSE IF Child(n, segs[i]) = Null THEN h[parent[n]][i]
       ELSE IF i = Len(segs) THEN Child(n, segs[i]) ELSE h[Child(n, segs[i])][i + 1]

LEMMA SearchIs ==
  ASSUME Typed, NEW s \in Names
  PROVE  \E F \in Seeks(s) : \A n \in Places : Search(n, <<s>>) = F[Longest][n]
<1>1. PICK segs : segs = <<s>>
  OBVIOUS
<1>2. Len(segs) = 1 /\ segs[1] = s
  BY <1>1
<1>3. PICK S : S = [Places -> [Nat -> Places]]
  OBVIOUS
<1>4. PICK next : next = [h \in S |-> [n \in Places |-> [i \in Nat |-> Further(h, segs, n, i)]]]
  OBVIOUS
<1>5. next \in [S -> S]
  <2>1. ASSUME NEW h \in S, NEW n \in Places, NEW i \in Nat
        PROVE  Further(h, segs, n, i) \in Places
    <3>1. CASE n = Null
      BY <3>1 DEF Further, Places
    <3>2. CASE n # Null
      <4>1. n \in Nodes /\ parent[n] \in Places
        BY <3>2 DEF Places, Typed
      <4>2. PICK c : c = Child(n, segs[i])
        OBVIOUS
      <4>3. c \in Places
        BY <4>1, <4>2, Kids
      <4>4. h[parent[n]][i] \in Places /\ h[c][i + 1] \in Places
        BY <1>3, <4>1, <4>3
      <4>5. QED
        BY <3>2, <4>2, <4>3, <4>4 DEF Further
    <3>3. QED
      BY <3>1, <3>2
  <2>2. QED
    BY <1>3, <1>4, <2>1
<1>6. PICK g : g = [k \in Nat |-> next]
  OBVIOUS
<1>7. g \in [Nat -> [S -> S]]
  BY <1>5, <1>6
<1>8. PICK nothing : nothing = [n \in Places |-> [i \in Nat |-> Null]]
  OBVIOUS
<1>9. nothing \in S
  BY <1>3, <1>8 DEF Places
<1>10. PICK f : f \in Runs(S, g, nothing)
  BY ONLY <1>7, <1>9, Recursion
<1>11. f \in [Nat -> S] /\ f[0] = nothing /\ \A k \in Nat : f[k + 1] = next[f[k]]
  BY <1>6, <1>10 DEF Runs
<1>12. ASSUME NEW k \in Nat
       PROVE  f[k + 1] = [n \in Places |-> [i \in Nat |-> Further(f[k], segs, n, i)]]
  BY <1>4, <1>11
<1>13. ASSUME NEW k \in Nat
       PROVE  f[k] = [n \in Nodes \cup {Null} |-> [i \in Nat |->
                IF k = 0 \/ n = Null THEN Null
                ELSE IF Child(n, segs[i]) = Null THEN f[k - 1][parent[n]][i]
                     ELSE IF i = Len(segs) THEN Child(n, segs[i])
                          ELSE f[k - 1][Child(n, segs[i])][i + 1]]]
  <2>1. CASE k = 0
    BY <1>8, <1>11, <2>1 DEF Places
  <2>2. CASE k # 0
    <3>1. PICK j \in Nat : j = k - 1
      BY <2>2
    <3>2. j + 1 = k
      BY <3>1
    <3>3. f[k] = [n \in Places |-> [i \in Nat |-> Further(f[j], segs, n, i)]]
      BY <1>12, <3>2
    <3>4. QED
      BY <2>2, <3>1, <3>3 DEF Further, Places
  <2>3. QED
    BY <2>1, <2>2
<1>14. f = [k \in Nat |-> [n \in Nodes \cup {Null} |-> [i \in Nat |->
                IF k = 0 \/ n = Null THEN Null
                ELSE IF Child(n, segs[i]) = Null THEN f[k - 1][parent[n]][i]
                     ELSE IF i = Len(segs) THEN Child(n, segs[i])
                          ELSE f[k - 1][Child(n, segs[i])][i + 1]]]]
  BY <1>11, <1>13
<1>25. \E h : h = [k \in Nat |-> [n \in Nodes \cup {Null} |-> [i \in Nat |->
                IF k = 0 \/ n = Null THEN Null
                ELSE IF Child(n, segs[i]) = Null THEN h[k - 1][parent[n]][i]
                     ELSE IF i = Len(segs) THEN Child(n, segs[i])
                          ELSE h[k - 1][Child(n, segs[i])][i + 1]]]]
  BY ONLY <1>14, Zenon
<1>15. PICK h :
         /\ h = [k \in Nat |-> [n \in Nodes \cup {Null} |-> [i \in Nat |->
                IF k = 0 \/ n = Null THEN Null
                ELSE IF Child(n, segs[i]) = Null THEN h[k - 1][parent[n]][i]
                     ELSE IF i = Len(segs) THEN Child(n, segs[i])
                          ELSE h[k - 1][Child(n, segs[i])][i + 1]]]]
         /\ \A n : Search(n, segs) = h[Longest][n][1]
  BY <1>25 DEF Search
<1>24. ASSUME NEW k \in Nat
       PROVE  h[k] = f[k]
  <2> DEFINE T == {j \in Nat : h[j] = f[j]}
  <2>1. ASSUME NEW j \in Nat, j = 0 \/ (j - 1 \in Nat /\ h[j - 1] = f[j - 1])
        PROVE  h[j] = f[j]
    <3>1. h[j] = [n \in Nodes \cup {Null} |-> [i \in Nat |->
                IF j = 0 \/ n = Null THEN Null
                ELSE IF Child(n, segs[i]) = Null THEN h[j - 1][parent[n]][i]
                     ELSE IF i = Len(segs) THEN Child(n, segs[i])
                          ELSE h[j - 1][Child(n, segs[i])][i + 1]]]
      BY <1>15
    <3>2. CASE j = 0
      <4>1. h[j] = [n \in Nodes \cup {Null} |-> [i \in Nat |-> Null]]
        BY <3>1, <3>2
      <4>2. QED
        BY <1>8, <1>11, <3>2, <4>1 DEF Places
    <3>3. CASE j # 0
      <4>1. PICK a : a = j - 1
        OBVIOUS
      <4>2. a \in Nat /\ a + 1 = j /\ h[a] = f[a]
        BY <2>1, <3>3, <4>1
      <4>3. h[j] = [n \in Places |-> [i \in Nat |-> Further(h[a], segs, n, i)]]
        BY <3>1, <3>3, <4>1 DEF Further, Places
      <4>4. f[a + 1] = [n \in Places |-> [i \in Nat |-> Further(f[a], segs, n, i)]]
        BY <1>12, <4>2
      <4>5. QED
        BY ONLY <4>2, <4>3, <4>4
    <3>4. QED
      BY <3>2, <3>3
  <2>2. 0 \in T
    BY <2>1
  <2>3. ASSUME NEW j \in Nat, j \in T
        PROVE  j + 1 \in T
    BY <2>1, <2>3
  <2> HIDE DEF T
  <2>4. k \in T
    BY <2>2, <2>3, SetInduction
  <2>5. QED
    BY <2>4 DEF T
<1>16. PICK F : F = [k \in Nat |-> [n \in Places |-> f[k][n][1]]]
  OBVIOUS
<1>17. F \in [Nat -> [Places -> Places]]
  BY <1>3, <1>11, <1>16
<1>18. ASSUME NEW n \in Places
       PROVE  F[0][n] = Null
  BY <1>8, <1>11, <1>16
<1>19. ASSUME NEW k \in Nat, NEW n \in Places
       PROVE  F[k + 1][n] = IF n = Null THEN Null
                            ELSE IF Child(n, s) = Null THEN F[k][parent[n]] ELSE Child(n, s)
  <2>5. f[k + 1] = [x \in Places |-> [i \in Nat |-> Further(f[k], segs, x, i)]] /\ k + 1 \in Nat
    BY <1>12
  <2>6. F[k + 1] = [x \in Places |-> f[k + 1][x][1]]
    BY <1>16, <2>5
  <2>7. f[k + 1][n] = [i \in Nat |-> Further(f[k], segs, n, i)]
    BY ONLY <2>5, n \in Places
  <2>1. F[k + 1][n] = Further(f[k], segs, n, 1)
    BY ONLY <2>6, <2>7, n \in Places
  <2>2. n # Null => parent[n] \in Places
    BY DEF Places, Typed
  <2>3. n # Null => F[k][parent[n]] = f[k][parent[n]][1]
    BY <1>16, <2>2
  <2>4. QED
    BY <1>2, <2>1, <2>3 DEF Further
<1>20. F \in Seeks(s)
  BY <1>17, <1>18, <1>19 DEF Seeks
<1>21. Longest \in Nat
  BY FiniteNodes
<1>22. ASSUME NEW n \in Places
       PROVE  Search(n, <<s>>) = F[Longest][n]
  BY <1>1, <1>15, <1>16, <1>21, <1>24
<1>23. QED
  BY <1>20, <1>22

-----------------------------------------------------------------------------
(* What is reached from the root                                           *)

\* What a walk down from the root comes to, by the number of its steps
Levels ==
  {f \in [Nat -> SUBSET Nodes] :
     f[0] = {Root} /\ \A k \in Nat : f[k + 1] = f[k] \cup UNION {children[n] : n \in f[k]}}

LEMMA ReachIs ==
  ASSUME Typed
  PROVE  \E f \in Levels : Reachable = f[Cardinality(Ids)]
<1>1. PICK S : S = SUBSET Nodes
  OBVIOUS
<1>2. PICK wider : wider = [X \in S |-> X \cup UNION {children[n] : n \in X}]
  OBVIOUS
<1>3. wider \in [S -> S]
  <2>1. ASSUME NEW X \in S
        PROVE  X \cup UNION {children[n] : n \in X} \in S
    <3>1. \A n \in Nodes : children[n] \subseteq Nodes
      BY DEF Typed, Nodes
    <3>2. QED
      BY <1>1, <3>1
  <2>2. QED
    BY <1>2, <2>1
<1>4. PICK g : g = [k \in Nat |-> wider]
  OBVIOUS
<1>5. g \in [Nat -> [S -> S]]
  BY <1>3, <1>4
<1>6. {Root} \in S
  BY <1>1 DEF Nodes
<1>7. PICK f : f \in Runs(S, g, {Root})
  BY ONLY <1>5, <1>6, Recursion
<1>8. f \in [Nat -> S] /\ f[0] = {Root} /\ \A k \in Nat : f[k + 1] = wider[f[k]]
  BY <1>4, <1>7 DEF Runs
<1>9. ASSUME NEW k \in Nat
      PROVE  f[k + 1] = f[k] \cup UNION {children[n] : n \in f[k]}
  BY <1>2, <1>8
<1>10. f \in Levels
  BY <1>1, <1>8, <1>9 DEF Levels
<1>11. ASSUME NEW k \in Nat
       PROVE  f[k] = IF k = 0 THEN {Root} ELSE f[k - 1] \cup UNION {children[n] : n \in f[k - 1]}
  <2>1. CASE k = 0
    BY <1>8, <2>1
  <2>2. CASE k # 0
    <3>1. PICK j \in Nat : j = k - 1
      BY <2>2
    <3>2. j + 1 = k
      BY <3>1
    <3>3. f[k] = f[j] \cup UNION {children[n] : n \in f[j]}
      BY <1>9, <3>2
    <3>4. QED
      BY <2>2, <3>1, <3>3
  <2>3. QED
    BY <2>1, <2>2
<1>12. f = [k \in Nat |-> IF k = 0 THEN {Root}
                          ELSE f[k - 1] \cup UNION {children[n] : n \in f[k - 1]}]
  BY <1>8, <1>11
<1>13. \E h : h = [k \in Nat |-> IF k = 0 THEN {Root}
                                 ELSE h[k - 1] \cup UNION {children[n] : n \in h[k - 1]}]
  BY ONLY <1>12, Zenon
<1>14. PICK h : /\ h = [k \in Nat |-> IF k = 0 THEN {Root}
                                      ELSE h[k - 1] \cup UNION {children[n] : n \in h[k - 1]}]
                /\ Reachable = h[Cardinality(Ids)]
  BY <1>13 DEF Reachable
<1>15. ASSUME NEW k \in Nat
       PROVE  h[k] = f[k]
  <2> DEFINE T == {j \in Nat : h[j] = f[j]}
  <2>1. 0 \in T
    BY <1>8, <1>14
  <2>2. ASSUME NEW j \in Nat, j \in T
        PROVE  j + 1 \in T
    <3>1. j + 1 # 0 /\ (j + 1) - 1 = j /\ j + 1 \in Nat
      OBVIOUS
    <3>2. h[j + 1] = h[j] \cup UNION {children[n] : n \in h[j]}
      BY <1>14, <3>1
    <3>3. h[j] = f[j] /\ f[j + 1] = f[j] \cup UNION {children[n] : n \in f[j]}
      BY <1>9, <2>2
    <3>4. h[j + 1] = f[j + 1]
      BY ONLY <3>2, <3>3
    <3>5. QED
      BY <3>1, <3>4
  <2> HIDE DEF T
  <2>3. k \in T
    BY <2>1, <2>2, SetInduction
  <2>4. QED
    BY <2>3 DEF T
<1>16. Cardinality(Ids) \in Nat
  BY NamespaceAssumption, FS_CardinalityType
<1>17. QED
  BY <1>10, <1>14, <1>15, <1>16

\* Each level: its nodes are alive, and their parents are on the level before.
LevelFits(f, k) ==
  /\ f[k] \subseteq live
  /\ \A n \in f[k] \ {Root} : k # 0 /\ n \in children[parent[n]] /\ parent[n] \in f[k - 1]
                              /\ parent[n] \in f[k]

LEMMA LevelsFit ==
  ASSUME Typed, ChildrenFit, Root \in live, NEW f \in Levels, NEW k \in Nat
  PROVE  LevelFits(f, k)
<1> DEFINE T == {j \in Nat : LevelFits(f, j)}
<1>1. f[0] = {Root} /\ \A j \in Nat : f[j + 1] = f[j] \cup UNION {children[n] : n \in f[j]}
  BY DEF Levels
<1>2. f \in [Nat -> SUBSET Nodes]
  BY DEF Levels
<1>3. 0 \in T
  BY <1>1 DEF LevelFits
<1>4. ASSUME NEW j \in Nat, j \in T
      PROVE  j + 1 \in T
  <2>1. LevelFits(f, j)
    BY <1>4
  <2>2. f[j] \subseteq Nodes /\ f[j + 1] = f[j] \cup UNION {children[n] : n \in f[j]}
    BY <1>1, <1>2
  <2>3. ASSUME NEW n \in f[j + 1]
        PROVE  /\ n \in live
               /\ n # Root => n \in children[parent[n]] /\ parent[n] \in f[j]
    <3>1. CASE n \in f[j]
      BY <2>1, <3>1 DEF LevelFits
    <3>2. CASE n \notin f[j]
      <4>1. PICK m \in f[j] : n \in children[m]
        BY <2>2, <2>3, <3>2
      <4>2. n \in live /\ parent[n] = m
        BY <2>2, <4>1 DEF ChildrenFit
      <4>3. QED
        BY <4>1, <4>2
    <3>3. QED
      BY <3>1, <3>2
  <2>4. j + 1 # 0 /\ (j + 1) - 1 = j /\ j + 1 \in Nat /\ f[j] \subseteq f[j + 1]
    BY <2>2
  <2>5. LevelFits(f, j + 1)
    BY <2>3, <2>4 DEF LevelFits
  <2>6. QED
    BY <2>4, <2>5
<1> HIDE DEF T
<1>5. k \in T
  BY <1>3, <1>4, SetInduction
<1>6. QED
  BY <1>5 DEF T

\* Where the root leads is alive, and each node there is a child of its parent.
ReachesWell ==
  Reachable \subseteq live
  /\ \A n \in Reachable \ {Root} : n \in children[parent[n]] /\ parent[n] \in Reachable

LEMMA Reached ==
  ASSUME Typed, ChildrenFit, Root \in live
  PROVE  ReachesWell
<1>1. PICK f \in Levels : Reachable = f[Cardinality(Ids)]
  BY ReachIs
<1>2. Cardinality(Ids) \in Nat
  BY NamespaceAssumption, FS_CardinalityType
<1>3. LevelFits(f, Cardinality(Ids))
  BY <1>2, LevelsFit
<1>4. QED
  BY <1>1, <1>3 DEF LevelFits, ReachesWell

-----------------------------------------------------------------------------
(* What a search finds                                                     *)

\* The scope around a node, by the children
Outer(n) == {m \in Reachable : n \in children[m]}

\* What one more scope to look in finds
Nearer(h, n, s) ==
  IF \E c \in children[n] : name[c] = s THEN CHOOSE c \in children[n] : name[c] = s
  ELSE IF Outer(n) = {} THEN Null ELSE h[CHOOSE m \in Outer(n) : TRUE]

\* The nearest nodes of a name by the number of scopes to look in
Nears(s) ==
  {G \in [Nat -> [Nodes -> Places]] :
     /\ \A n \in Nodes : G[0][n] = Null
     /\ \A k \in Nat, n \in Nodes : G[k + 1][n] = Nearer(G[k], n, s)}

NearTo(n, s) ==
  LET f[k \in Nat] == [m \in Nodes |-> IF k = 0 THEN Null ELSE Nearer(f[k - 1], m, s)]
  IN  f[Cardinality(Nodes) + 1][n]

LEMMA Nearest == ASSUME \A n \in Reachable \cap live, s \in Names : Search(n, <<s>>) = NearTo(n, s)
                 PROVE  SearchNearest
BY DEF SearchNearest, NearTo, Nearer, Outer

LEMMA NearIs ==
  ASSUME Typed, Reachable \subseteq Nodes, NEW s \in Names
  PROVE  \E G \in Nears(s) : \A n \in Nodes : NearTo(n, s) = G[Cardinality(Nodes) + 1][n]
<1>1. PICK S : S = [Nodes -> Places]
  OBVIOUS
<1>2. PICK next : next = [h \in S |-> [n \in Nodes |-> Nearer(h, n, s)]]
  OBVIOUS
<1>3. next \in [S -> S]
  <2>1. ASSUME NEW h \in S, NEW n \in Nodes
        PROVE  Nearer(h, n, s) \in Places
    <3>1. CASE \E c \in children[n] : name[c] = s
      <4>1. PICK c : c = CHOOSE d \in children[n] : name[d] = s
        OBVIOUS
      <4>2. c \in children[n]
        BY <3>1, <4>1
      <4>3. c \in Places
        BY <4>2, Kids DEF Places
      <4>4. QED
        BY <3>1, <4>1, <4>3 DEF Nearer
    <3>2. CASE ~ \E c \in children[n] : name[c] = s
      <4>1. CASE Outer(n) = {}
        BY <3>2, <4>1 DEF Nearer, Places
      <4>2. CASE Outer(n) # {}
        <5>1. PICK m : m = CHOOSE q \in Outer(n) : TRUE
          OBVIOUS
        <5>2. m \in Outer(n)
          BY <4>2, <5>1
        <5>3. m \in Nodes
          BY <5>2 DEF Outer
        <5>4. h[m] \in Places
          BY <1>1, <5>3
        <5>5. QED
          BY <3>2, <4>2, <5>1, <5>4 DEF Nearer
      <4>3. QED
        BY <4>1, <4>2
    <3>3. QED
      BY <3>1, <3>2
  <2>2. QED
    BY <1>1, <1>2, <2>1
<1>4. PICK g : g = [k \in Nat |-> next]
  OBVIOUS
<1>5. g \in [Nat -> [S -> S]]
  BY <1>3, <1>4
<1>6. PICK nothing : nothing = [n \in Nodes |-> Null]
  OBVIOUS
<1>7. nothing \in S
  BY <1>1, <1>6 DEF Places
<1>8. PICK f : f \in Runs(S, g, nothing)
  BY ONLY <1>5, <1>7, Recursion
<1>9. f \in [Nat -> S] /\ f[0] = nothing /\ \A k \in Nat : f[k + 1] = next[f[k]]
  BY <1>4, <1>8 DEF Runs
<1>10. ASSUME NEW k \in Nat
       PROVE  f[k + 1] = [n \in Nodes |-> Nearer(f[k], n, s)]
  BY <1>2, <1>9
<1>11. f \in Nears(s)
  <2>1. ASSUME NEW k \in Nat, NEW n \in Nodes
        PROVE  f[k + 1][n] = Nearer(f[k], n, s)
    BY <1>10
  <2>2. \A n \in Nodes : f[0][n] = Null
    BY <1>6, <1>9
  <2>3. f \in [Nat -> [Nodes -> Places]]
    BY <1>1, <1>9
  <2>4. QED
    BY <2>1, <2>2, <2>3 DEF Nears
<1>12. ASSUME NEW k \in Nat
       PROVE  f[k] = [m \in Nodes |-> IF k = 0 THEN Null ELSE Nearer(f[k - 1], m, s)]
  <2>1. CASE k = 0
    BY <1>6, <1>9, <2>1
  <2>2. CASE k # 0
    <3>1. PICK j \in Nat : j = k - 1
      BY <2>2
    <3>2. j + 1 = k
      BY <3>1
    <3>3. f[k] = [n \in Nodes |-> Nearer(f[j], n, s)]
      BY <1>10, <3>2
    <3>4. QED
      BY <2>2, <3>1, <3>3
  <2>3. QED
    BY <2>1, <2>2
<1>13. f = [k \in Nat |-> [m \in Nodes |-> IF k = 0 THEN Null ELSE Nearer(f[k - 1], m, s)]]
  BY <1>9, <1>12
<1>14. \E h : h = [k \in Nat |-> [m \in Nodes |-> IF k = 0 THEN Null ELSE Nearer(h[k - 1], m, s)]]
  BY ONLY <1>13, Zenon
<1>15. PICK h :
         /\ h = [k \in Nat |-> [m \in Nodes |-> IF k = 0 THEN Null ELSE Nearer(h[k - 1], m, s)]]
         /\ \A n : NearTo(n, s) = h[Cardinality(Nodes) + 1][n]
  BY <1>14 DEF NearTo
<1>16. ASSUME NEW k \in Nat
       PROVE  h[k] = f[k]
  <2> DEFINE T == {j \in Nat : h[j] = f[j]}
  <2>1. h[0] = f[0]
    <3>1. h[0] = [m \in Nodes |-> Null]
      BY <1>15
    <3>2. QED
      BY <1>6, <1>9, <3>1
  <2>2. ASSUME NEW j \in Nat, h[j] = f[j]
        PROVE  h[j + 1] = f[j + 1]
    <3>1. j + 1 # 0 /\ (j + 1) - 1 = j /\ j + 1 \in Nat
      OBVIOUS
    <3>2. h[j + 1] = [m \in Nodes |-> IF j + 1 = 0 THEN Null ELSE Nearer(h[(j + 1) - 1], m, s)]
      BY ONLY <1>15, j + 1 \in Nat
    <3>3. h[j + 1] = [n \in Nodes |-> Nearer(h[j], n, s)]
      BY <3>1, <3>2
    <3>4. f[j + 1] = [n \in Nodes |-> Nearer(f[j], n, s)]
      BY <1>10
    <3>5. QED
      BY ONLY <2>2, <3>3, <3>4
  <2>3. 0 \in T
    BY <2>1
  <2>4. ASSUME NEW j \in Nat, j \in T
        PROVE  j + 1 \in T
    BY <2>2, <2>4
  <2> HIDE DEF T
  <2>5. k \in T
    BY <2>3, <2>4, SetInduction
  <2>6. QED
    BY <2>5 DEF T
<1>17. Cardinality(Nodes) + 1 \in Nat
  BY FiniteNodes
<1>18. h[Cardinality(Nodes) + 1] = f[Cardinality(Nodes) + 1]
  BY <1>16, <1>17
<1>19. \A n \in Nodes : NearTo(n, s) = f[Cardinality(Nodes) + 1][n]
  BY <1>15, <1>18
<1>20. QED
  BY <1>11, <1>19

\* F, which may look in k places, and G, in j of them, come to the same from n on.
Agree(F, G, k, j, n) == F[k][n] = G[j][n]

LEMMA SameFound ==
  ASSUME Typed, ChildrenFit, ReachesWell, NEW s \in Names, NEW F \in Seeks(s), NEW G \in Nears(s),
         NEW n \in Nodes, n \in Reachable, NEW k \in Nat, NEW j \in Nat,
         n # Root => Agree(F, G, k, j, parent[n])
  PROVE  Agree(F, G, k + 1, j + 1, n)
<1>1. n \in Places /\ n # Null /\ Root \in Nodes /\ Null \in Places
  BY NamespaceAssumption DEF Places, Nodes
<1>2. F[k + 1][n] = IF Child(n, s) = Null THEN F[k][parent[n]] ELSE Child(n, s)
  BY <1>1 DEF Seeks
<1>3. G[j + 1][n] = IF \E c \in children[n] : name[c] = s
                    THEN CHOOSE c \in children[n] : name[c] = s
                    ELSE IF Outer(n) = {} THEN Null ELSE G[j][CHOOSE m \in Outer(n) : TRUE]
  BY DEF Nears, Nearer
<1>4. CASE Child(n, s) # Null
  <2>1. PICK c : c = CHOOSE d \in children[n] : name[d] = s
    OBVIOUS
  <2>2. Child(n, s) \in children[n] /\ name[Child(n, s)] = s
    BY <1>4, Kids
  <2>3. c \in children[n] /\ name[c] = s
    BY <2>1, <2>2
  <2>4. c = Child(n, s)
    BY <2>2, <2>3 DEF ChildrenFit
  <2>5. G[j + 1][n] = c
    BY <1>3, <2>1, <2>2
  <2>6. QED
    BY <1>2, <1>4, <2>4, <2>5 DEF Agree
<1>5. CASE Child(n, s) = Null
  <2>1. \A c \in children[n] : name[c] # s
    BY <1>5, Kids
  <2>2. G[j + 1][n] = IF Outer(n) = {} THEN Null ELSE G[j][CHOOSE m \in Outer(n) : TRUE]
    BY <1>3, <2>1
  <2>3. F[k + 1][n] = F[k][parent[n]]
    BY <1>2, <1>5
  <2>4. CASE n = Root
    <3>1. Outer(n) = {}
      <4>1. ASSUME NEW m \in Reachable
            PROVE  n \notin children[m]
        <5>1. m \in Nodes
          BY DEF ReachesWell, Typed
        <5>2. QED
          BY <2>4, <5>1, NamespaceAssumption DEF Typed
      <4>2. QED
        BY <4>1 DEF Outer
    <3>2. parent[n] = Null
      BY <2>4 DEF ChildrenFit
    <3>3. F[k][Null] = Null
      <4>1. CASE k = 0
        BY <1>1, <4>1 DEF Seeks
      <4>2. CASE k # 0
        <5>1. PICK i \in Nat : i = k - 1
          BY <4>2
        <5>2. i + 1 = k
          BY <5>1
        <5>3. F[i + 1][Null] = Null
          BY <1>1 DEF Seeks
        <5>4. QED
          BY <5>2, <5>3
      <4>3. QED
        BY <4>1, <4>2
    <3>4. QED
      BY <2>2, <2>3, <3>1, <3>2, <3>3 DEF Agree
  <2>5. CASE n # Root
    <3>1. n \in children[parent[n]] /\ parent[n] \in Reachable
      BY <2>5 DEF ReachesWell
    <3>2. \A m \in Reachable : m \in Nodes
      BY DEF ReachesWell, Typed
    <3>3. Outer(n) = {parent[n]}
      BY <3>1, <3>2 DEF Outer, ChildrenFit
    <3>4. QED
      BY <2>2, <2>3, <2>5, <3>3 DEF Agree
  <2>6. QED
    BY <2>4, <2>5
<1>6. QED
  BY <1>4, <1>5

LEMMA Found ==
  ASSUME Typed, ChildrenFit, Root \in live
  PROVE  SearchNearest
<1>1. ReachesWell
  BY Reached
<1>2. Reachable \subseteq Nodes
  BY <1>1 DEF ReachesWell, Typed
<1>3. PICK f \in Levels : Reachable = f[Cardinality(Ids)]
  BY ReachIs
<1>4. ASSUME NEW n \in Reachable, NEW s \in Names
      PROVE  Search(n, <<s>>) = NearTo(n, s)
  <2>1. PICK F \in Seeks(s) : \A m \in Places : Search(m, <<s>>) = F[Longest][m]
    BY SearchIs
  <2>2. PICK G \in Nears(s) : \A m \in Nodes : NearTo(m, s) = G[Cardinality(Nodes) + 1][m]
    BY <1>2, NearIs
  <2> DEFINE T == {d \in Nat : \A k, j \in Nat : k > d /\ j > d
                     => \A m \in f[d] \cap Reachable : F[k][m] = G[j][m]}
  <2>3. ASSUME NEW d \in Nat, d = 0 \/ (d - 1 \in Nat /\ d - 1 \in T),
               NEW k \in Nat, NEW j \in Nat, k > d, j > d, NEW m \in f[d] \cap Reachable
        PROVE  F[k][m] = G[j][m]
    <3>1. LevelFits(f, d)
      BY LevelsFit
    <3>2. PICK a \in Nat : a = k - 1
      BY <2>3
    <3>3. PICK b \in Nat : b = j - 1
      BY <2>3
    <3>4. a + 1 = k /\ b + 1 = j
      BY <3>2, <3>3
    <3>5. ASSUME m # Root
          PROVE  F[a][parent[m]] = G[b][parent[m]]
      <4>1. d # 0 /\ parent[m] \in f[d - 1] /\ parent[m] \in Reachable
        BY <1>1, <3>1, <3>5 DEF LevelFits, ReachesWell
      <4>2. d - 1 \in T /\ a > d - 1 /\ b > d - 1
        BY <2>3, <3>2, <3>3, <4>1
      <4>3. QED
        BY <4>1, <4>2
    <3>6. m \in Nodes /\ m \in Reachable
      BY <1>2
    <3>7. m # Root => Agree(F, G, a, b, parent[m])
      BY <3>5 DEF Agree
    <3>8. Typed /\ ChildrenFit /\ ReachesWell /\ s \in Names /\ F \in Seeks(s) /\ G \in Nears(s)
      BY <1>1
    <3>9. Agree(F, G, a + 1, b + 1, m)
      BY ONLY <3>6, <3>7, <3>8, a \in Nat, b \in Nat, SameFound
    <3>10. QED
      BY <3>4, <3>9 DEF Agree
  <2>4. 0 \in T
    BY <2>3
  <2>5. ASSUME NEW d \in Nat, d \in T
        PROVE  d + 1 \in T
    <3>1. d + 1 \in Nat /\ (d + 1) - 1 = d
      OBVIOUS
    <3>2. QED
      BY <2>3, <2>5, <3>1
  <2> HIDE DEF T
  <2>6. Cardinality(Ids) \in T
    BY <2>4, <2>5, SetInduction, FiniteNodes
  <2>7. Longest \in Nat /\ Longest > Cardinality(Ids)
        /\ Cardinality(Nodes) + 1 \in Nat /\ Cardinality(Nodes) + 1 > Cardinality(Ids)
    BY FiniteNodes
  <2>8. F[Longest][n] = G[Cardinality(Nodes) + 1][n]
    BY <1>3, <2>6, <2>7 DEF T
  <2>9. QED
    BY <1>2, <2>1, <2>2, <2>8 DEF Places
<1>5. QED
  BY <1>4, Nearest

-----------------------------------------------------------------------------
(* The frames and what they own                                            *)

LEMMA Tops ==
  ASSUME NEW fs \in Seq(Frames), fs # <<>>
  PROVE  /\ Len(fs) \in Nat \ {0} /\ fs[Len(fs)] \in Frames
         /\ SubSeq(fs, 1, Len(fs) - 1) \in Seq(Frames)
         /\ Len(SubSeq(fs, 1, Len(fs) - 1)) = Len(fs) - 1
         /\ \A i \in 1..(Len(fs) - 1) : SubSeq(fs, 1, Len(fs) - 1)[i] = fs[i]
<1>1. PICK n : n = Len(fs)
  OBVIOUS
<1>2. n \in Nat \ {0} /\ n - 1 \in Nat /\ n - 1 <= n
  BY <1>1
<1>3. fs[n] \in Frames
  BY <1>1, <1>2
<1>4. PICK gs : gs = SubSeq(fs, 1, n - 1)
  OBVIOUS
<1>5. gs = [i \in 1..(n - 1) |-> fs[i]]
  BY <1>1, <1>2, <1>4
<1>6. \A i \in 1..(n - 1) : fs[i] \in Frames
  BY <1>1, <1>2
<1>7. gs \in Seq(Frames) /\ Len(gs) = n - 1
  BY <1>2, <1>5, <1>6
<1>8. QED
  BY <1>1, <1>2, <1>3, <1>4, <1>5, <1>7

LEMMA Pushes ==
  ASSUME NEW fs \in Seq(Frames), NEW f \in Frames
  PROVE  /\ Append(fs, f) \in Seq(Frames) /\ Len(Append(fs, f)) = Len(fs) + 1
         /\ \A i \in 1..Len(fs) : Append(fs, f)[i] = fs[i]
         /\ Append(fs, f)[Len(fs) + 1] = f
OBVIOUS

\* Frames i of one list own what frames i of another do.
LEMMA SameHeld ==
  ASSUME NEW fs, NEW gs, NEW perm, NEW k \in Nat, \A i \in 1..k : gs[i].made = fs[i].made
  PROVE  Held(gs, perm, k) = Held(fs, perm, k)
<1>1. \A i \in 1..k : Made(gs, i) = Made(fs, i)
  BY DEF Made
<1>2. QED
  BY <1>1 DEF Held

LEMMA HeldGrows ==
  ASSUME NEW fs, NEW perm, NEW k \in Nat, NEW j \in Nat, j <= k
  PROVE  Held(fs, perm, j) \subseteq Held(fs, perm, k)
<1>1. 1..j \subseteq 1..k
  OBVIOUS
<1>2. QED
  BY <1>1 DEF Held

LEMMA PushFits ==
  ASSUME NEW fs, NEW perm, NEW lv, NEW par, Fits(fs, perm, lv, par), NEW f \in Frames,
         f.made = <<>>, f.back \in lv
  PROVE  Fits(Append(fs, f), perm, lv, par)
<1>1. PICK gs : gs = Append(fs, f)
  OBVIOUS
<1>2. fs \in Seq(Frames) /\ Len(fs) \in Nat /\ lv = Held(fs, perm, Len(fs))
      /\ perm \in SUBSET Nodes /\ Root \in perm /\ \A i \in 1..Len(fs) : FrameFits(fs, perm, par, i)
  BY DEF Fits
<1>3. gs \in Seq(Frames) /\ Len(gs) = Len(fs) + 1 /\ gs[Len(fs) + 1] = f
      /\ \A i \in 1..Len(fs) : gs[i] = fs[i]
  BY <1>1, <1>2, Pushes
<1>4. Made(gs, Len(fs) + 1) = {}
  BY <1>3 DEF Made, ToSet
<1>5. \A i \in 1..Len(fs) : Made(gs, i) = Made(fs, i)
  BY <1>3 DEF Made
<1>6. ASSUME NEW k \in Nat, k <= Len(fs)
      PROVE  Held(gs, perm, k) = Held(fs, perm, k)
  <2>1. \A i \in 1..k : i \in 1..Len(fs)
    BY <1>2, <1>6
  <2>2. \A i \in 1..k : gs[i].made = fs[i].made
    BY <1>3, <2>1
  <2>3. QED
    BY <2>2, SameHeld
<1>7. Held(gs, perm, Len(gs)) = lv
  <2>1. Held(gs, perm, Len(fs)) = lv
    BY <1>2, <1>6
  <2>2. \A j \in 1..Len(gs) : j \in 1..Len(fs) \/ j = Len(fs) + 1
    BY <1>2, <1>3
  <2>3. 1..Len(fs) \subseteq 1..Len(gs)
    BY <1>2, <1>3
  <2>4. QED
    BY <1>4, <2>1, <2>2, <2>3 DEF Held
<1>8. ASSUME NEW i \in 1..Len(gs)
      PROVE  FrameFits(gs, perm, par, i)
  <2>1. CASE i = Len(fs) + 1
    <3>1. OwnsAlone(gs, perm, i)
      BY <1>4, <2>1 DEF OwnsAlone
    <3>2. Len(gs[i].made) = 0
      BY <1>3, <2>1
    <3>3. Younger(gs, perm, par, i)
      BY <3>2 DEF Younger
    <3>4. gs[i].back \in Held(gs, perm, i - 1)
      BY <1>2, <1>3, <1>6, <2>1
    <3>5. QED
      BY <1>3, <2>1, <3>1, <3>3, <3>4 DEF FrameFits
  <2>2. CASE i # Len(fs) + 1
    <3>1. i \in 1..Len(fs) /\ i - 1 \in Nat /\ i \in Nat
      BY <1>2, <1>3, <2>2
    <3>2. FrameFits(fs, perm, par, i) /\ gs[i] = fs[i]
      BY <1>2, <1>3, <3>1
    <3>3. Held(gs, perm, i) = Held(fs, perm, i) /\ Held(gs, perm, i - 1) = Held(fs, perm, i - 1)
      BY <1>2, <1>6, <3>1
    <3>4. OwnsAlone(gs, perm, i)
      <4>1. \A j \in 1..Len(gs) : j \in 1..Len(fs) \/ j = Len(fs) + 1
        BY <1>2, <1>3
      <4>2. QED
        BY <1>4, <1>5, <3>1, <3>2, <4>1 DEF OwnsAlone, FrameFits
    <3>5. Younger(gs, perm, par, i)
      BY <3>2, <3>3 DEF Younger, FrameFits
    <3>6. QED
      BY <3>2, <3>3, <3>4, <3>5 DEF FrameFits
  <2>3. QED
    BY <2>1, <2>2
<1>9. QED
  BY <1>1, <1>2, <1>3, <1>7, <1>8 DEF Fits

\* The top frame ends: what is left fits together, without what that frame owns.
LEMMA DropFits ==
  ASSUME NEW fs, NEW perm, NEW lv, NEW par, Fits(fs, perm, lv, par), fs # <<>>
  PROVE  /\ Fits(SubSeq(fs, 1, Len(fs) - 1), perm, lv \ Made(fs, Len(fs)), par)
         /\ fs[Len(fs)].back \in lv \ Made(fs, Len(fs))
<1>1. PICK gs : gs = SubSeq(fs, 1, Len(fs) - 1)
  OBVIOUS
<1>2. PICK n : n = Len(fs)
  OBVIOUS
<1>3. fs \in Seq(Frames) /\ n \in Nat \ {0} /\ lv = Held(fs, perm, n)
      /\ perm \in SUBSET Nodes /\ Root \in perm /\ \A i \in 1..n : FrameFits(fs, perm, par, i)
  BY <1>2, Tops DEF Fits
<1>4. gs \in Seq(Frames) /\ Len(gs) = n - 1 /\ \A i \in 1..(n - 1) : gs[i] = fs[i]
  BY <1>1, <1>2, <1>3, Tops
<1>5. \A i \in 1..(n - 1) : Made(gs, i) = Made(fs, i)
  BY <1>4 DEF Made
<1>6. ASSUME NEW k \in Nat, k <= n - 1
      PROVE  Held(gs, perm, k) = Held(fs, perm, k)
  <2>1. \A i \in 1..k : i \in 1..(n - 1)
    BY <1>3, <1>6
  <2>2. \A i \in 1..k : gs[i].made = fs[i].made
    BY <1>4, <2>1
  <2>3. QED
    BY <2>2, SameHeld
<1>7. OwnsAlone(fs, perm, n) /\ n \in 1..n
  BY <1>3 DEF FrameFits
<1>8. Held(fs, perm, n - 1) = lv \ Made(fs, n)
  <2>1. \A j \in 1..n : j = n \/ j \in 1..(n - 1)
    BY <1>3
  <2>2. \A j \in 1..(n - 1) : j \in 1..n /\ j # n
    BY <1>3
  <2>3. \A x \in Made(fs, n) : x \notin perm /\ \A j \in 1..(n - 1) : x \notin Made(fs, j)
    BY <1>2, <1>7, <2>2 DEF OwnsAlone
  <2>4. ASSUME NEW x
        PROVE  x \in Held(fs, perm, n - 1) <=> x \in Held(fs, perm, n) /\ x \notin Made(fs, n)
    BY <2>1, <2>2, <2>3 DEF Held
  <2>5. QED
    BY <1>3, <2>4
<1>9. ASSUME NEW i \in 1..(n - 1)
      PROVE  FrameFits(gs, perm, par, i)
  <2>1. i \in 1..n /\ i \in Nat /\ i - 1 \in Nat /\ i <= n - 1 /\ i - 1 <= n - 1
    BY <1>3
  <2>2. FrameFits(fs, perm, par, i) /\ gs[i] = fs[i]
    BY <1>3, <1>4, <2>1
  <2>3. Held(gs, perm, i) = Held(fs, perm, i) /\ Held(gs, perm, i - 1) = Held(fs, perm, i - 1)
    BY <1>6, <2>1
  <2>4. OwnsAlone(gs, perm, i)
    <3>1. \A j \in 1..(n - 1) : j \in 1..n
      BY <1>3
    <3>2. QED
      BY <1>2, <1>4, <1>5, <2>2, <3>1 DEF OwnsAlone, FrameFits
  <2>5. Younger(gs, perm, par, i)
    BY <2>2, <2>3 DEF Younger, FrameFits
  <2>6. QED
    BY <2>2, <2>3, <2>4, <2>5 DEF FrameFits
<1>10. n - 1 \in Nat /\ Held(gs, perm, n - 1) = Held(fs, perm, n - 1)
  BY <1>3, <1>6
<1>11. Fits(gs, perm, lv \ Made(fs, n), par)
  BY <1>3, <1>4, <1>8, <1>9, <1>10 DEF Fits
<1>12. fs[n].back \in lv \ Made(fs, n)
  BY <1>3, <1>7, <1>8 DEF FrameFits
<1>13. QED
  BY <1>1, <1>2, <1>11, <1>12

LEMMA MadeHeld ==
  ASSUME NEW fs, NEW perm, NEW lv, NEW par, Fits(fs, perm, lv, par), NEW i \in 1..Len(fs)
  PROVE  /\ fs[i] \in Frames /\ fs[i].made \in Seq(Ids)
         /\ Made(fs, i) \subseteq Ids /\ Made(fs, i) \subseteq lv
         /\ \A b \in 1..Len(fs[i].made) : fs[i].made[b] \in Made(fs, i)
<1>1. fs \in Seq(Frames) /\ lv = Held(fs, perm, Len(fs))
  BY DEF Fits
<1>2. fs[i] \in Frames
  BY <1>1
<1>3. PICK m : m = fs[i].made
  OBVIOUS
<1>4. m \in Seq(Ids)
  BY <1>2, <1>3 DEF Frames
<1>5. Made(fs, i) = {m[b] : b \in 1..Len(m)}
  BY <1>3, <1>4 DEF Made, ToSet
<1>6. Made(fs, i) \subseteq Ids
  BY <1>4, <1>5
<1>7. Made(fs, i) \subseteq lv
  BY <1>1, <1>6 DEF Held, Nodes
<1>8. QED
  BY <1>2, <1>3, <1>4, <1>5, <1>6, <1>7

\* Only the parents of what the frames own matter.
LEMMA ParentFits ==
  ASSUME NEW fs, NEW perm, NEW lv, NEW par, Fits(fs, perm, lv, par), NEW new,
         \A n \in lv : new[n] = par[n]
  PROVE  Fits(fs, perm, lv, new)
<1>1. ASSUME NEW i \in 1..Len(fs)
      PROVE  FrameFits(fs, perm, new, i)
  <2>1. FrameFits(fs, perm, par, i)
    BY DEF Fits
  <2>2. \A b \in 1..Len(fs[i].made) : new[fs[i].made[b]] = par[fs[i].made[b]]
    BY MadeHeld
  <2>3. QED
    BY <2>1, <2>2 DEF FrameFits, Younger
<1>2. QED
  BY <1>1 DEF Fits

\* What nothing owned goes to the nodes that stay.
LEMMA StayFits ==
  ASSUME NEW fs, NEW perm, NEW lv, NEW par, Fits(fs, perm, lv, par),
         NEW X \in SUBSET Nodes, X \cap lv = {}
  PROVE  Fits(fs, perm \cup X, lv \cup X, par)
<1>1. \A k : Held(fs, perm \cup X, k) = Held(fs, perm, k) \cup X
  BY DEF Held
<1>2. ASSUME NEW i \in 1..Len(fs)
      PROVE  FrameFits(fs, perm \cup X, par, i)
  <2>1. FrameFits(fs, perm, par, i)
    BY DEF Fits
  <2>2. Made(fs, i) \cap X = {}
    BY MadeHeld
  <2>3. OwnsAlone(fs, perm \cup X, i)
    BY <2>1, <2>2 DEF FrameFits, OwnsAlone
  <2>4. Younger(fs, perm \cup X, par, i)
    BY <1>1, <2>1 DEF FrameFits, Younger
  <2>5. QED
    BY <1>1, <2>1, <2>3, <2>4 DEF FrameFits
<1>3. QED
  BY <1>1, <1>2 DEF Fits

\* A new node, of the innermost frame that owns nodes: the scope is older.
LEMMA AddFits ==
  ASSUME NEW fs, NEW perm, NEW lv, NEW par, Fits(fs, perm, lv, par),
         NEW x \in Ids, x \notin lv, par[x] \in lv,
         NEW o \in 1..Len(fs), Owns(fs[o]), \A j \in 1..Len(fs) : Owns(fs[j]) => j <= o
  PROVE  Fits([fs EXCEPT ![o].made = <<x>> \o @], perm, lv \cup {x}, par)
<1>1. PICK old : old = fs[o].made
  OBVIOUS
<1>2. PICK gs : gs = [fs EXCEPT ![o].made = <<x>> \o @]
  OBVIOUS
<1>3. PICK n : n = Len(fs)
  OBVIOUS
<1>4. fs \in Seq(Frames) /\ n \in Nat /\ lv = Held(fs, perm, n) /\ o \in 1..n
      /\ perm \in SUBSET Nodes /\ Root \in perm /\ \A i \in 1..n : FrameFits(fs, perm, par, i)
  BY <1>3 DEF Fits
<1>5. old \in Seq(Ids) /\ Made(fs, o) = {old[b] : b \in 1..Len(old)}
  BY <1>1, MadeHeld DEF Made, ToSet
<1>6. PICK made : made = <<x>> \o old
  OBVIOUS
<1>7. made \in Seq(Ids) /\ Len(made) = Len(old) + 1 /\ made[1] = x
      /\ \A b \in 2..Len(made) : b - 1 \in 1..Len(old) /\ made[b] = old[b - 1]
  BY <1>5, <1>6
<1>8. PICK f : f = [fs[o] EXCEPT !.made = made]
  OBVIOUS
<1>9. f \in Frames /\ f.made = made /\ f.op = fs[o].op /\ f.back = fs[o].back
  <2>1. PICK h : h = fs[o]
    OBVIOUS
  <2>2. h \in Frames
    BY <1>4, <2>1
  <2>3. f = [h EXCEPT !.made = made]
    BY <1>8, <2>1
  <2>4. QED
    BY <1>7, <2>1, <2>2, <2>3 DEF Frames
<1>10. gs = [fs EXCEPT ![o] = f]
  BY <1>1, <1>2, <1>6, <1>8
<1>11. gs \in Seq(Frames) /\ Len(gs) = n /\ gs[o] = f /\ \A i \in 1..n : i # o => gs[i] = fs[i]
  BY <1>3, <1>4, <1>9, <1>10
<1>12. Made(gs, o) = Made(fs, o) \cup {x}
  <2>1. Made(gs, o) = {made[b] : b \in 1..Len(made)}
    <3>1. gs[o].made = made /\ DOMAIN made = 1..Len(made)
      BY <1>7, <1>9, <1>11
    <3>2. QED
      BY <3>1 DEF Made, ToSet
  <2>2. \A y \in Made(gs, o) : y = x \/ y \in Made(fs, o)
    <3>1. ASSUME NEW b \in 1..Len(made)
          PROVE  made[b] = x \/ made[b] \in Made(fs, o)
      <4>1. b = 1 \/ b \in 2..Len(made)
        BY <1>5, <1>7
      <4>2. QED
        BY <1>5, <1>7, <4>1
    <3>2. QED
      BY <2>1, <3>1
  <2>3. x \in Made(gs, o)
    BY <1>5, <1>7, <2>1
  <2>4. ASSUME NEW a \in 1..Len(old)
        PROVE  old[a] \in Made(gs, o)
    <3>1. a + 1 \in 2..Len(made) /\ a + 1 \in 1..Len(made) /\ (a + 1) - 1 = a
      BY <1>5, <1>7
    <3>2. made[a + 1] = old[a]
      BY <1>7, <3>1
    <3>3. QED
      BY <2>1, <3>1, <3>2
  <2>5. QED
    BY <1>5, <2>2, <2>3, <2>4
<1>13. \A i \in 1..n : i # o => Made(gs, i) = Made(fs, i)
  BY <1>11 DEF Made
<1>14. \A i \in 1..n : Made(fs, i) \subseteq Made(gs, i) /\ Made(gs, i) \subseteq Made(fs, i) \cup {x}
  BY <1>12, <1>13
<1>15. ASSUME NEW k \in Nat, k <= n
       PROVE  Held(fs, perm, k) \subseteq Held(gs, perm, k)
              /\ Held(gs, perm, k) \subseteq Held(fs, perm, k) \cup {x}
  <2>1. \A i \in 1..k : i \in 1..n
    BY <1>4, <1>15
  <2>2. QED
    BY <1>14, <2>1 DEF Held
<1>16. Held(gs, perm, n) = lv \cup {x}
  <2>1. x \in Held(gs, perm, n)
    BY <1>4, <1>12 DEF Held, Nodes
  <2>2. QED
    BY <1>4, <1>15, <2>1
<1>17. Held(fs, perm, o) = lv
  <2>1. ASSUME NEW j \in 1..n, j \notin 1..o
        PROVE  Made(fs, j) = {}
    <3>1. ~ Owns(fs[j])
      BY <1>3, <1>4, <2>1
    <3>2. fs[j].made = <<>>
      BY <1>4, <3>1 DEF FrameFits
    <3>3. QED
      BY <3>2 DEF Made, ToSet
  <2>2. \A j \in 1..o : j \in 1..n
    BY <1>4
  <2>3. QED
    BY <1>4, <2>1, <2>2 DEF Held
<1>18. ASSUME NEW i \in 1..n
       PROVE  FrameFits(gs, perm, par, i)
  <2>1. FrameFits(fs, perm, par, i) /\ i \in Nat /\ i - 1 \in Nat /\ i <= n /\ i - 1 <= n
    BY <1>4
  <2>2. OwnsAlone(gs, perm, i)
    <3>1. ASSUME NEW y \in Made(gs, i)
          PROVE  y \notin perm /\ \A j \in 1..n : y \in Made(gs, j) => i = j
      <4>1. CASE y = x
        <5>1. x \notin perm /\ \A j \in 1..n : x \notin Made(fs, j)
          BY <1>3, <1>4, MadeHeld DEF Held
        <5>2. \A j \in 1..n : x \in Made(gs, j) => j = o
          BY <1>13, <5>1
        <5>3. QED
          BY <3>1, <4>1, <5>1, <5>2
      <4>2. CASE y # x
        <5>1. \A j \in 1..n : y \in Made(gs, j) => y \in Made(fs, j)
          BY <1>14, <4>2
        <5>2. QED
          BY <1>3, <2>1, <3>1, <5>1 DEF FrameFits, OwnsAlone
      <4>3. QED
        BY <4>1, <4>2
    <3>2. QED
      BY <1>11, <3>1 DEF OwnsAlone
  <2>3. Younger(gs, perm, par, i)
    <3>1. Held(fs, perm, i) \subseteq Held(gs, perm, i)
      BY <1>15, <2>1
    <3>2. CASE i # o
      BY <1>11, <2>1, <3>1, <3>2 DEF FrameFits, Younger
    <3>3. CASE i = o
      <4>1. ASSUME NEW b \in 1..Len(made)
            PROVE  par[made[b]] \in Held(gs, perm, o) /\ \A a \in 1..b : par[made[b]] # made[a]
        <5>1. CASE b = 1
          <6>1. made[b] = x /\ par[x] \in Held(gs, perm, o) /\ par[x] # x
            BY <1>7, <1>17, <3>1, <3>3, <5>1
          <6>2. \A a \in 1..b : a = 1
            BY <5>1
          <6>3. QED
            BY <1>7, <6>1, <6>2
        <5>2. CASE b # 1
          <6>1. b \in 2..Len(made) /\ b \in Nat
            BY <1>5, <1>7, <5>2
          <6>2. PICK d : d = b - 1
            OBVIOUS
          <6>3. d \in 1..Len(old) /\ made[b] = old[d] /\ d \in Nat
            BY <1>7, <6>1, <6>2
          <6>4. Younger(fs, perm, par, o)
            BY <2>1, <3>3 DEF FrameFits
          <6>5. par[old[d]] \in Held(fs, perm, o) /\ \A a \in 1..d : par[old[d]] # old[a]
            BY <1>1, <6>3, <6>4 DEF Younger
          <6>6. par[old[d]] # x
            BY <1>17, <6>5
          <6>7. ASSUME NEW a \in 1..b
                PROVE  par[old[d]] # made[a]
            <7>1. CASE a = 1
              BY <1>7, <6>6, <7>1
            <7>2. CASE a # 1
              <8>1. a \in 2..Len(made) /\ a - 1 \in 1..d
                BY <1>5, <1>7, <6>1, <6>2, <7>2
              <8>2. made[a] = old[a - 1]
                BY <1>7, <8>1
              <8>3. QED
                BY <6>5, <8>1, <8>2
            <7>3. QED
              BY <7>1, <7>2
          <6>8. QED
            BY <3>1, <3>3, <6>3, <6>5, <6>7
        <5>3. QED
          BY <5>1, <5>2
      <4>2. QED
        BY <1>9, <1>11, <3>3, <4>1 DEF Younger
    <3>4. QED
      BY <3>2, <3>3
  <2>4. gs[i].back = fs[i].back /\ gs[i].op = fs[i].op
    BY <1>9, <1>11
  <2>5. ~ Owns(gs[i]) => gs[i].made = <<>>
    <3>1. CASE i = o
      BY <2>4, <3>1 DEF Owns
    <3>2. CASE i # o
      BY <1>11, <2>1, <3>2 DEF FrameFits
    <3>3. QED
      BY <3>1, <3>2
  <2>6. gs[i].back \in Held(gs, perm, i - 1)
    BY <1>15, <2>1, <2>4 DEF FrameFits
  <2>7. QED
    BY <2>2, <2>3, <2>5, <2>6 DEF FrameFits
<1>19. Fits(gs, perm, lv \cup {x}, par)
  BY <1>4, <1>11, <1>16, <1>18 DEF Fits
<1>20. QED
  BY <1>2, <1>19

-----------------------------------------------------------------------------
(* The actions                                                             *)

\* What creating something does to the tree
Adds(x, k, s) ==
  /\ live' = live \cup {x} /\ parent' = [parent EXCEPT ![x] = scope]
  /\ name' = [name EXCEPT ![x] = s] /\ kind' = [kind EXCEPT ![x] = k]
  /\ children' = [children EXCEPT ![scope] = @ \cup {x}]
  /\ \A c \in children[scope] : name[c] # s

LEMMA PlainStart ==
  ASSUME PlainPaths, Typed, scope \in live, NEW p \in Paths
  PROVE  /\ Start(p) = scope /\ scope \in Nodes /\ scope # Null
         /\ p.segs \in Seq(Names) /\ Len(p.segs) = 1 /\ p.segs[1] \in Names /\ p.segs = <<p.segs[1]>>
<1>1. p.from = "scope" /\ p.up = 0 /\ Len(p.segs) = 1 /\ p.segs \in Seq(Names)
  BY NamespaceAssumption DEF PlainPaths
<1>2. scope \in Nodes /\ scope # Null
  BY NamespaceAssumption DEF Typed, Nodes
<1>3. Start(p) = scope
  BY <1>1, <1>2, AboveNone DEF Start
<1>4. PICK s : s = p.segs
  OBVIOUS
<1>5. s \in Seq(Names) /\ Len(s) = 1
  BY <1>1, <1>4
<1>6. s[1] \in Names /\ s = <<s[1]>>
  BY <1>5
<1>7. QED
  BY <1>1, <1>2, <1>3, <1>4, <1>6

LEMMA Makes ==
  ASSUME PlainPaths, Typed, ChildrenFit, scope \in live, NEW p \in Paths, NEW k,
         NEW new \in Fresh(p), Make(p, k, new)
  PROVE  \E x \in Ids \ live : /\ new = <<x>> /\ Adds(x, k, p.segs[1])
                               /\ Last(Prefix(Start(p), p.segs) \o new) = x
<1>1. PICK segs : segs = p.segs
  OBVIOUS
<1>2. /\ Start(p) = scope /\ scope \in Nodes /\ scope # Null
      /\ segs \in Seq(Names) /\ Len(segs) = 1 /\ segs[1] \in Names
  BY <1>1, PlainStart
<1>3. PICK at : at = Prefix(scope, segs)
  OBVIOUS
<1>4. at = IF Child(scope, segs[1]) = Null THEN <<>> ELSE <<Child(scope, segs[1])>>
  BY <1>2, <1>3, PrefixIs
<1>5. new \in [1..(1 - Len(at)) -> Ids \ live]
  BY <1>1, <1>2, <1>3 DEF Fresh
<1>6. /\ kind[Last(at \o new)] = "none"
      /\ live' = live \cup ToSet(new)
      /\ name' = [n \in Nodes |-> IF n \in ToSet(new)
                    THEN segs[CHOOSE i \in DOMAIN (at \o new) : (at \o new)[i] = n] ELSE name[n]]
      /\ children' = [n \in Nodes |->
           (IF n \in ToSet(new) THEN {} ELSE children[n])
             \cup {new[i] : i \in {j \in DOMAIN new :
                     (<<IF at = <<>> THEN scope ELSE Last(at)>> \o new)[j] = n}}]
      /\ parent' = [n \in Nodes |-> IF n = Last(at \o new) THEN scope
                                    ELSE IF n \in ToSet(new) THEN Null ELSE parent[n]]
      /\ kind' = [n \in Nodes |-> IF n = Last(at \o new) THEN k
                                  ELSE IF n \in ToSet(new) THEN "none" ELSE kind[n]]
  BY <1>1, <1>2, <1>3 DEF Make
<1>7. Child(scope, segs[1]) = Null
  <2>1. SUFFICES ASSUME Child(scope, segs[1]) # Null
                 PROVE  FALSE
    OBVIOUS
  <2>2. PICK c : c = Child(scope, segs[1])
    OBVIOUS
  <2>3. at = <<c>>
    BY <1>4, <2>1, <2>2
  <2>4. c \in children[scope]
    BY <1>2, <2>1, <2>2, Kids
  <2>5. c \in live
    BY <1>2, <2>4 DEF ChildrenFit
  <2>6. Len(at) = 1
    BY <2>3
  <2>7. new \in [1..0 -> Ids \ live]
    BY <1>5, <2>6
  <2>8. new = <<>>
    BY <2>7
  <2>9. Last(at \o new) = c
    BY <2>3, <2>8 DEF Last
  <2>10. QED
    BY <1>6, <2>5, <2>9 DEF ChildrenFit
<1>8. at = <<>>
  BY <1>4, <1>7
<1>9. new \in [1..1 -> Ids \ live]
  BY <1>5, <1>8
<1>10. PICK x : x = new[1]
  OBVIOUS
<1>11. x \in Ids /\ x \notin live /\ x # scope /\ x \in Nodes
  BY <1>9, <1>10 DEF Nodes
<1>12. new = <<x>>
  BY <1>9, <1>10
<1>13. ToSet(new) = {x} /\ at \o new = <<x>> /\ Last(at \o new) = x
  BY <1>8, <1>12 DEF ToSet, Last
<1>14. \A c \in children[scope] : name[c] # segs[1]
  BY <1>2, <1>7, Kids
<1>15. live' = live \cup {x}
  BY <1>6, <1>13
<1>16. name' = [name EXCEPT ![x] = segs[1]]
  <2>1. (CHOOSE i \in DOMAIN <<x>> : <<x>>[i] = x) = 1
    <3>1. DOMAIN <<x>> = {1} /\ <<x>>[1] = x
      OBVIOUS
    <3>2. QED
      BY <3>1
  <2>2. name' = [n \in Nodes |-> IF n = x THEN segs[CHOOSE i \in DOMAIN <<x>> : <<x>>[i] = n] ELSE name[n]]
    BY <1>6, <1>13
  <2>3. name' = [n \in Nodes |-> IF n = x THEN segs[1] ELSE name[n]]
    BY <2>1, <2>2
  <2>4. QED
    BY <2>3 DEF Typed
<1>17. parent' = [parent EXCEPT ![x] = scope] /\ kind' = [kind EXCEPT ![x] = k]
  <2>1. parent' = [n \in Nodes |-> IF n = x THEN scope ELSE parent[n]]
    BY <1>6, <1>13
  <2>2. kind' = [n \in Nodes |-> IF n = x THEN k ELSE kind[n]]
    BY <1>6, <1>13
  <2>3. QED
    BY <2>1, <2>2 DEF Typed
<1>18. children' = [children EXCEPT ![scope] = @ \cup {x}]
  <2>1. ASSUME NEW n \in Nodes
        PROVE  {<<x>>[i] : i \in {j \in DOMAIN <<x>> : (<<scope>> \o <<x>>)[j] = n}}
                 = IF n = scope THEN {x} ELSE {}
    <3>1. DOMAIN <<x>> = {1} /\ <<x>>[1] = x /\ (<<scope>> \o <<x>>)[1] = scope
      OBVIOUS
    <3>2. QED
      BY <3>1
  <2>2. children[x] = {}
    BY <1>11 DEF ChildrenFit
  <2>3. children' = [n \in Nodes |-> (IF n \in {x} THEN {} ELSE children[n])
           \cup {<<x>>[i] : i \in {j \in DOMAIN <<x>> : (<<scope>> \o <<x>>)[j] = n}}]
    BY <1>6, <1>8, <1>12, <1>13
  <2>4. children' = [n \in Nodes |-> (IF n \in {x} THEN {} ELSE children[n])
                                       \cup (IF n = scope THEN {x} ELSE {})]
    BY <2>1, <2>3
  <2>5. children' = [n \in Nodes |-> IF n = scope THEN children[n] \cup {x} ELSE children[n]]
    BY <1>11, <2>2, <2>4
  <2>6. QED
    BY <1>2, <2>5 DEF Typed
<1>19. Adds(x, k, segs[1])
  BY <1>14, <1>15, <1>16, <1>17, <1>18 DEF Adds
<1>20. Prefix(Start(p), p.segs) \o new = at \o new
  BY <1>1, <1>2, <1>3
<1>21. QED
  BY <1>1, <1>11, <1>12, <1>13, <1>19, <1>20

\* A node is added to the scope: the tree stays as it must be.
LEMMA AddTree ==
  ASSUME Typed, ChildrenFit, scope \in live, NEW x \in Ids, x \notin live,
         NEW k \in {"value", "device", "method"}, NEW s \in Names, Adds(x, k, s)
  PROVE  /\ Typed' /\ ChildrenFit'
         /\ \A n \in live : parent'[n] = parent[n]
         /\ parent'[x] = scope /\ parent' \in [Nodes -> Places]
<1>1. /\ live \subseteq Nodes /\ scope \in Nodes /\ x \in Nodes /\ x # scope /\ x # Root
      /\ parent \in [Nodes -> Places] /\ children \in [Nodes -> SUBSET Ids] /\ DOMAIN name = Nodes
      /\ kind \in [Nodes -> {"none", "value", "device", "method"}]
  BY NamespaceAssumption DEF Typed, Nodes
<1>2. /\ live' = live \cup {x}
      /\ \A n \in Nodes : parent'[n] = (IF n = x THEN scope ELSE parent[n])
      /\ \A n \in Nodes : kind'[n] = (IF n = x THEN k ELSE kind[n])
      /\ \A n \in Nodes : name'[n] = (IF n = x THEN s ELSE name[n])
      /\ \A n \in Nodes : children'[n] = (IF n = scope THEN children[n] \cup {x} ELSE children[n])
      /\ \A c \in children[scope] : name[c] # s
  BY <1>1 DEF Adds
<1>3. parent' \in [Nodes -> Places]
  BY <1>1 DEF Adds, Places
<1>4. Typed'
  <2>1. children' \in [Nodes -> SUBSET Ids]
    BY <1>1 DEF Adds
  <2>2. kind' \in [Nodes -> {"none", "value", "device", "method"}]
    BY <1>1 DEF Adds
  <2>3. DOMAIN name' = Nodes
    BY <1>1 DEF Adds
  <2>4. live' \in SUBSET Nodes
    BY <1>1, <1>2
  <2>5. QED
    BY <1>3, <2>1, <2>2, <2>3, <2>4 DEF Typed
<1>5. ASSUME NEW n \in Nodes, NEW c \in children'[n]
      PROVE  n \in live' /\ c \in live' /\ parent'[c] = n /\ c \in Nodes
             /\ (c = x => n = scope) /\ (c # x => c \in children[n])
  <2>1. CASE c = x
    <3>1. n = scope
      <4>1. SUFFICES ASSUME n # scope
                     PROVE  FALSE
        OBVIOUS
      <4>2. x \in children[n]
        BY <1>2, <1>5, <2>1, <4>1
      <4>3. QED
        BY <4>2 DEF ChildrenFit
    <3>2. QED
      BY <1>1, <1>2, <2>1, <3>1
  <2>2. CASE c # x
    <3>1. c \in children[n]
      BY <1>2, <1>5, <2>2
    <3>2. n \in live /\ c \in live /\ parent[c] = n
      BY <3>1 DEF ChildrenFit
    <3>3. QED
      BY <1>1, <1>2, <2>2, <3>1, <3>2
  <2>3. QED
    BY <2>1, <2>2
<1>6. ASSUME NEW n \in Nodes, NEW c \in children'[n], NEW d \in children'[n], name'[c] = name'[d]
      PROVE  c = d
  <2>1. CASE c = x /\ d = x
    BY <2>1
  <2>2. CASE c = x /\ d # x
    <3>1. n = scope /\ d \in children[scope]
      BY <1>5, <2>2
    <3>2. name'[c] = s /\ name'[d] = name[d]
      BY <1>1, <1>2, <1>5, <2>2
    <3>3. QED
      BY <1>2, <1>6, <3>1, <3>2
  <2>3. CASE c # x /\ d = x
    <3>1. n = scope /\ c \in children[scope]
      BY <1>5, <2>3
    <3>2. name'[d] = s /\ name'[c] = name[c]
      BY <1>1, <1>2, <1>5, <2>3
    <3>3. QED
      BY <1>2, <1>6, <3>1, <3>2
  <2>4. CASE c # x /\ d # x
    <3>1. c \in children[n] /\ d \in children[n] /\ name'[c] = name[c] /\ name'[d] = name[d]
      BY <1>2, <1>5, <2>4
    <3>2. QED
      BY <1>6, <3>1 DEF ChildrenFit
  <2>5. QED
    BY <2>1, <2>2, <2>3, <2>4
<1>7. parent'[Root] = Null
  BY <1>1, <1>2 DEF ChildrenFit, Nodes
<1>8. \A n \in live' : kind'[n] # "none"
  BY <1>1, <1>2 DEF ChildrenFit
<1>9. ChildrenFit'
  BY <1>5, <1>6, <1>7, <1>8 DEF ChildrenFit
<1>10. QED
  BY <1>1, <1>2, <1>3, <1>4, <1>9

LEMMA OwnerIs ==
  ASSUME frames \in Seq(Frames)
  PROVE  \/ Owner = 0 /\ \A j \in 1..Len(frames) : ~ Owns(frames[j])
         \/ /\ Owner \in 1..Len(frames) /\ Owner # 0 /\ Owns(frames[Owner])
            /\ \A j \in 1..Len(frames) : Owns(frames[j]) => j <= Owner
<1>1. PICK own : own = {i \in DOMAIN frames : Owns(frames[i])}
  OBVIOUS
<1>2. Len(frames) \in Nat /\ DOMAIN frames = 1..Len(frames)
  OBVIOUS
<1>3. CASE own = {}
  <2>1. Owner = 0
    BY <1>1, <1>3 DEF Owner
  <2>2. QED
    BY <1>1, <1>2, <1>3, <2>1
<1>4. CASE own # {}
  <2>1. PICK T : T = {j \in Nat : \E i \in own : j = Len(frames) - i}
    OBVIOUS
  <2>2. T \subseteq Nat /\ T # {}
    <3>1. PICK i : i \in own
      BY <1>4
    <3>2. Len(frames) - i \in Nat
      BY <1>1, <1>2, <3>1
    <3>3. QED
      BY <2>1, <3>1, <3>2
  <2>3. PICK m \in T : \A j \in T : m <= j
    BY <2>2, NatMin
  <2>4. PICK i \in own : m = Len(frames) - i
    BY <2>1, <2>3
  <2>5. \A j \in own : j <= i
    <3>1. ASSUME NEW j \in own
          PROVE  j <= i
      <4>1. j \in 1..Len(frames) /\ i \in 1..Len(frames)
        BY <1>1, <1>2, <3>1
      <4>2. Len(frames) - j \in T
        <5>1. PICK w : w = Len(frames) - j
          OBVIOUS
        <5>2. w \in Nat
          BY <1>2, <4>1, <5>1
        <5>3. w \in T
          BY <2>1, <5>1, <5>2
        <5>4. QED
          BY <5>1, <5>3
      <4>3. m <= Len(frames) - j
        BY <2>3, <4>2
      <4>4. QED
        BY <1>2, <2>4, <4>1, <4>3
    <3>2. QED
      BY <3>1
  <2>6. PICK o : o = CHOOSE a \in own : \A j \in own : j <= a
    OBVIOUS
  <2>7. o \in own /\ \A j \in own : j <= o
    BY <2>5, <2>6
  <2>8. Owner = o
    BY <1>1, <1>4, <2>6 DEF Owner
  <2>9. o # 0 /\ o \in 1..Len(frames)
    BY <1>1, <1>2, <2>7
  <2>10. QED
    BY <1>1, <1>2, <2>7, <2>8, <2>9
<1>5. QED
  BY <1>3, <1>4

\* The new node x goes to the frame that owns nodes, or to those that stay.
Takes(x, fs, perm) ==
  \/ Owner = 0 /\ fs = frames /\ perm = permanent \cup {x}
  \/ Owner # 0 /\ fs = [frames EXCEPT ![Owner].made = <<x>> \o @] /\ perm = permanent

LEMMA TakesFits ==
  ASSUME IInv, NEW x \in Ids, x \notin live, NEW par, \A n \in live : par[n] = parent[n],
         par[x] = scope, NEW fs, NEW perm, Takes(x, fs, perm)
  PROVE  /\ Fits(fs, perm \cup stray, live \cup {x}, par) /\ Len(fs) = Len(frames)
         /\ perm \in SUBSET Nodes /\ perm \cap stray = {}
<1>1. Fits(frames, Keeps, live, parent) /\ scope \in live /\ frames \in Seq(Frames) /\ Apart
      /\ x \notin Keeps /\ x \in Nodes
  BY DEF IInv, Fits, Held, Nodes
<1>2. Fits(frames, Keeps, live, par)
  BY <1>1, ParentFits
<1>3. CASE Owner = 0
  <2>1. fs = frames /\ perm = permanent \cup {x}
    BY <1>3 DEF Takes
  <2>2. {x} \in SUBSET Nodes /\ {x} \cap live = {}
    BY DEF Nodes
  <2>3. Fits(frames, Keeps \cup {x}, live \cup {x}, par)
    BY ONLY <1>2, <2>2, StayFits
  <2>4. Keeps \cup {x} = perm \cup stray
    BY <2>1 DEF Keeps
  <2>5. QED
    BY <1>1, <2>1, <2>3, <2>4 DEF Apart, Keeps
<1>4. CASE Owner # 0
  <2>1. PICK o : o = Owner
    OBVIOUS
  <2>2. o \in 1..Len(frames) /\ Owns(frames[o]) /\ \A j \in 1..Len(frames) : Owns(frames[j]) => j <= o
    BY <1>1, <1>4, <2>1, OwnerIs
  <2>3. fs = [frames EXCEPT ![o].made = <<x>> \o @] /\ perm = permanent
    BY <1>4, <2>1 DEF Takes
  <2>4. x \in Ids /\ x \notin live /\ par[x] \in live
    BY <1>1
  <2>5. Fits([frames EXCEPT ![o].made = <<x>> \o @], Keeps, live \cup {x}, par)
    BY ONLY <1>2, <2>2, <2>4, AddFits
  <2>6. Len(fs) = Len(frames)
    BY <1>1, <2>3
  <2>7. QED
    BY <1>1, <2>3, <2>5, <2>6 DEF Apart, Keeps
<1>5. QED
  BY <1>3, <1>4

LEMMA NextFits ==
  ASSUME Typed', ChildrenFit', Fits(frames', permanent' \cup stray', live', parent'),
         scope' \in live', Apart', misfreed' => cutShort'
  PROVE  IInv'
BY DEF IInv, Keeps

\* What most steps leave alone
LEMMA FateKept ==
  ASSUME IInv, UNCHANGED fate
  PROVE  /\ stray' = stray /\ (misfreed' => cutShort') /\ (misfreed => cutShort)
         /\ Apart /\ (permanent' = permanent => Apart' /\ permanent' \cup stray' = Keeps)
BY DEF IInv, fate, Apart, Keeps

LEMMA CreateFits ==
  ASSUME PlainPaths, IInv, NEW p \in Paths, NEW k \in {"value", "method"}, Create(p, k)
  PROVE  IInv' /\ Len(frames') = Len(frames)
<1>1. PICK new \in Fresh(p) : Make(p, k, new) /\ Own(new)
  BY DEF Create
<1>2. scope' = scope /\ stray' = stray /\ (misfreed' => cutShort') /\ Apart
  BY FateKept DEF Create
<1>3. Typed /\ ChildrenFit /\ scope \in live
  BY DEF IInv
<1>4. PICK x \in Ids \ live : new = <<x>> /\ Adds(x, k, p.segs[1])
  BY <1>1, <1>3, Makes
<1>5. p.segs[1] \in Names /\ k \in {"value", "device", "method"}
  BY <1>3, PlainStart
<1>6. /\ Typed' /\ ChildrenFit' /\ \A n \in live : parent'[n] = parent[n]
      /\ parent'[x] = scope /\ parent' \in [Nodes -> Places]
  BY <1>3, <1>4, <1>5, AddTree
<1>7. live' = live \cup {x}
  BY <1>4 DEF Adds
<1>8. Takes(x, frames', permanent')
  <2>1. ToSet(new) = {x} /\ Reverse(new) = <<x>>
    BY <1>4 DEF ToSet, Reverse
  <2>2. QED
    BY <1>1, <2>1 DEF Own, Takes
<1>9. /\ Fits(frames', permanent' \cup stray, live', parent') /\ Len(frames') = Len(frames)
      /\ permanent' \in SUBSET Nodes /\ permanent' \cap stray = {}
  <2>1. PICK fs, perm, par : fs = frames' /\ perm = permanent' /\ par = parent'
    OBVIOUS
  <2>2. /\ Takes(x, fs, perm) /\ \A n \in live : par[n] = parent[n]
        /\ par[x] = scope /\ x \in Ids /\ x \notin live
    BY <1>4, <1>6, <1>8, <2>1
  <2>3. /\ Fits(fs, perm \cup stray, live \cup {x}, par) /\ Len(fs) = Len(frames)
        /\ perm \in SUBSET Nodes /\ perm \cap stray = {}
    BY <2>2, TakesFits
  <2>4. QED
    BY <1>7, <2>1, <2>3
<1>10. Apart'
  BY <1>2, <1>9 DEF Apart
<1>11. QED
  BY <1>2, <1>3, <1>6, <1>7, <1>9, <1>10, NextFits

LEMMA Fresh1 ==
  ASSUME NEW op \in {"table", "scope", "method", "load"}, scope \in Nodes
  PROVE  Frame(op) \in Frames /\ Frame(op).made = <<>> /\ Frame(op).back = scope
BY DEF Frame, Frames

LEMMA DeviceFits ==
  ASSUME PlainPaths, IInv, NEW p \in Paths, Device(p)
  PROVE  IInv' /\ Len(frames') = Len(frames) + 1
<1>1. PICK new \in Fresh(p) :
        /\ Make(p, "device", new)
        /\ Enter(IF Owner = 0 THEN frames ELSE [frames EXCEPT ![Owner].made = Reverse(new) \o @],
                 Last(Prefix(Start(p), p.segs) \o new))
        /\ permanent' = IF Owner = 0 THEN permanent \cup ToSet(new) ELSE permanent
  BY DEF Device
<1>2. stray' = stray /\ (misfreed' => cutShort') /\ Apart
  BY FateKept DEF Device
<1>3. Typed /\ ChildrenFit /\ scope \in live /\ scope \in Nodes /\ frames \in Seq(Frames)
  BY DEF IInv, Typed, Fits
<1>4. PICK x \in Ids \ live : /\ new = <<x>> /\ Adds(x, "device", p.segs[1])
                              /\ Last(Prefix(Start(p), p.segs) \o new) = x
  BY <1>1, <1>3, Makes
<1>5. p.segs[1] \in Names
  BY <1>3, PlainStart
<1>6. /\ Typed' /\ ChildrenFit' /\ \A n \in live : parent'[n] = parent[n]
      /\ parent'[x] = scope /\ parent' \in [Nodes -> Places]
  BY <1>3, <1>4, <1>5, AddTree
<1>7. live' = live \cup {x}
  BY <1>4 DEF Adds
<1>8. PICK owned : owned = IF Owner = 0 THEN frames ELSE [frames EXCEPT ![Owner].made = <<x>> \o @]
  OBVIOUS
<1>9. ToSet(new) = {x} /\ Reverse(new) = <<x>>
  BY <1>4 DEF ToSet, Reverse
<1>10. Takes(x, owned, permanent')
  BY <1>1, <1>8, <1>9 DEF Takes
<1>11. /\ Fits(owned, permanent' \cup stray, live', parent') /\ Len(owned) = Len(frames)
       /\ permanent' \in SUBSET Nodes /\ permanent' \cap stray = {}
  <2>1. PICK perm, par : perm = permanent' /\ par = parent'
    OBVIOUS
  <2>2. /\ Takes(x, owned, perm) /\ \A n \in live : par[n] = parent[n]
        /\ par[x] = scope /\ x \in Ids /\ x \notin live
    BY <1>4, <1>6, <1>10, <2>1
  <2>3. /\ Fits(owned, perm \cup stray, live \cup {x}, par) /\ Len(owned) = Len(frames)
        /\ perm \in SUBSET Nodes /\ perm \cap stray = {}
    BY <2>2, TakesFits
  <2>4. QED
    BY <1>7, <2>1, <2>3
<1>12. frames' = Append(owned, Frame("scope")) /\ scope' = x
  BY <1>1, <1>4, <1>8, <1>9 DEF Enter
<1>13. Frame("scope") \in Frames /\ Frame("scope").made = <<>> /\ Frame("scope").back \in live'
  BY <1>3, <1>7, Fresh1
<1>14. Fits(frames', permanent' \cup stray', live', parent') /\ Apart'
  <2>1. Fits(Append(owned, Frame("scope")), permanent' \cup stray, live', parent')
    BY ONLY <1>11, <1>13, PushFits
  <2>2. Fits(frames', permanent' \cup stray', live', parent')
    BY <1>2, <1>12, <2>1
  <2>3. Apart'
    BY <1>2, <1>11 DEF Apart
  <2>4. QED
    BY <2>2, <2>3
<1>15. Len(frames') = Len(frames) + 1
  <2>1. owned \in Seq(Frames)
    BY <1>11 DEF Fits
  <2>2. QED
    BY <1>11, <1>12, <1>13, <2>1, Pushes
<1>16. QED
  BY <1>2, <1>3, <1>6, <1>7, <1>12, <1>14, <1>15, NextFits

\* A frame is entered that owns nothing yet.
LEMMA EnterFits ==
  ASSUME IInv, NEW op \in {"table", "scope", "method", "load"}, NEW n \in live,
         frames' = Append(frames, Frame(op)), scope' = n,
         UNCHANGED <<live, name, parent, children, kind, permanent, fate>>
  PROVE  IInv' /\ Len(frames') = Len(frames) + 1
<1>1. /\ Typed /\ ChildrenFit /\ scope \in live /\ scope \in Nodes
      /\ frames \in Seq(Frames) /\ Fits(frames, Keeps, live, parent)
  BY DEF IInv, Typed, Fits
<1>2. Frame(op) \in Frames /\ Frame(op).made = <<>> /\ Frame(op).back \in live
  BY <1>1, Fresh1
<1>3. Fits(frames', Keeps, live, parent) /\ Len(frames') = Len(frames) + 1
  BY <1>1, <1>2, PushFits, Pushes
<1>6. permanent' \cup stray' = Keeps /\ Apart' /\ (misfreed' => cutShort')
  BY FateKept
<1>4. Typed' /\ ChildrenFit'
  BY <1>1 DEF Typed, ChildrenFit
<1>5. QED
  BY <1>1, <1>3, <1>4, <1>6, NextFits

LEMMA SearchLive ==
  ASSUME Typed, ChildrenFit, NEW n \in Places, NEW s \in Names
  PROVE  Search(n, <<s>>) \in live \cup {Null}
<1>1. PICK F \in Seeks(s) : \A m \in Places : Search(m, <<s>>) = F[Longest][m]
  BY SearchIs
<1> DEFINE T == {k \in Nat : \A m \in Places : F[k][m] \in live \cup {Null}}
<1>2. 0 \in T
  BY DEF Seeks
<1>3. ASSUME NEW k \in Nat, k \in T
      PROVE  k + 1 \in T
  <2>1. ASSUME NEW m \in Places
        PROVE  F[k + 1][m] \in live \cup {Null}
    <3>1. F[k + 1][m] = IF m = Null THEN Null
                        ELSE IF Child(m, s) = Null THEN F[k][parent[m]] ELSE Child(m, s)
      BY DEF Seeks
    <3>2. CASE m = Null
      BY <3>1, <3>2
    <3>3. CASE m # Null
      <4>1. m \in Nodes
        BY <3>3 DEF Places
      <4>2. Child(m, s) # Null => Child(m, s) \in live
        BY <4>1, Kids DEF ChildrenFit
      <4>3. F[k][parent[m]] \in live \cup {Null}
        BY <1>3, <4>1 DEF Typed
      <4>4. QED
        BY <3>1, <3>3, <4>2, <4>3
    <3>4. QED
      BY <3>2, <3>3
  <2>2. QED
    BY <2>1
<1> HIDE DEF T
<1>4. Longest \in T
  BY <1>2, <1>3, SetInduction, FiniteNodes
<1>5. QED
  BY <1>1, <1>4 DEF T

LEMMA ScopeFits ==
  ASSUME PlainPaths, IInv, NEW p \in Paths, Scope(p)
  PROVE  IInv' /\ Len(frames') = Len(frames) + 1
<1>1. Typed /\ ChildrenFit /\ scope \in live /\ scope \in Nodes
  BY DEF IInv, Typed
<1>2. Start(p) = scope /\ scope # Null /\ p.segs[1] \in Names /\ p.segs = <<p.segs[1]>>
  BY <1>1, PlainStart
<1>3. PICK n : n = Search(scope, p.segs)
  OBVIOUS
<1>4. n \in live \cup {Null}
  BY <1>1, <1>2, <1>3, SearchLive DEF Places
<1>5. /\ n # Null /\ Enter(frames, n) /\ UNCHANGED <<live, name, children, permanent, fate>>
      /\ IF kind[n] = "none"
         THEN kind' = [kind EXCEPT ![n] = "device"] /\ parent' = [parent EXCEPT ![n] = scope]
         ELSE UNCHANGED <<kind, parent>>
  BY <1>2, <1>3 DEF Scope
<1>6. n \in live /\ kind[n] # "none"
  BY <1>1, <1>4, <1>5 DEF ChildrenFit
<1>7. frames' = Append(frames, Frame("scope")) /\ scope' = n
  BY <1>5 DEF Enter
<1>8. UNCHANGED <<live, name, parent, children, kind, permanent, fate>>
  BY <1>5, <1>6
<1>9. QED
  BY <1>6, <1>7, <1>8, EnterFits

LEMMA TopIs ==
  ASSUME IInv, frames # <<>>
  PROVE  /\ frames \in Seq(Frames) /\ Len(frames) \in Nat \ {0}
         /\ Fits(Below, Keeps, live \ ToSet(Top.made), parent)
         /\ Top.back \in live \ ToSet(Top.made)
         /\ Top \in Frames /\ ToSet(Top.made) \subseteq Ids /\ ToSet(Top.made) \subseteq live
         /\ Len(Below) = Len(frames) - 1 /\ Top.made \in Seq(Ids)
<1>1. PICK n : n = Len(frames)
  OBVIOUS
<1>2. Fits(frames, Keeps, live, parent) /\ frames \in Seq(Frames)
  BY DEF IInv, Fits
<1>3. n \in Nat \ {0} /\ n \in 1..Len(frames)
  BY <1>1, <1>2, Tops
<1>4. Top = frames[n] /\ Below = SubSeq(frames, 1, Len(frames) - 1) /\ Made(frames, n) = ToSet(Top.made)
  BY <1>1 DEF Top, Below, Made
<1>5. /\ Fits(SubSeq(frames, 1, Len(frames) - 1), Keeps, live \ Made(frames, Len(frames)), parent)
      /\ frames[Len(frames)].back \in live \ Made(frames, Len(frames))
  BY <1>2, DropFits
<1>6. /\ frames[n] \in Frames /\ frames[n].made \in Seq(Ids)
      /\ Made(frames, n) \subseteq Ids /\ Made(frames, n) \subseteq live
  BY <1>2, <1>3, MadeHeld
<1>7. Len(Below) = Len(frames) - 1
  BY <1>2, <1>4, Tops
<1>8. QED
  BY <1>1, <1>2, <1>3, <1>4, <1>5, <1>6, <1>7

LEMMA ScopeEndsFits ==
  ASSUME IInv, ScopeEnds
  PROVE  IInv' /\ Len(frames') = Len(frames) - 1
<1>1. /\ frames # <<>> /\ Top.op \in {"scope", "table"} /\ frames' = Below /\ scope' = Top.back
      /\ UNCHANGED <<live, name, parent, children, kind, permanent, fate>>
  BY DEF ScopeEnds, Pop, tree
<1>2. Typed /\ ChildrenFit /\ Fits(frames, Keeps, live, parent)
  BY DEF IInv
<1>9. permanent' \cup stray' = Keeps /\ Apart' /\ (misfreed' => cutShort')
  BY <1>1, FateKept
<1>3. /\ Fits(Below, Keeps, live \ ToSet(Top.made), parent)
      /\ Top.back \in live \ ToSet(Top.made) /\ Len(Below) = Len(frames) - 1
      /\ Len(frames) \in Nat \ {0}
  BY <1>1, TopIs
<1>4. Top.made = <<>>
  <2>1. FrameFits(frames, Keeps, parent, Len(frames))
    BY <1>2, <1>3 DEF Fits
  <2>2. ~ Owns(Top)
    BY <1>1 DEF Owns
  <2>3. QED
    BY <2>1, <2>2 DEF FrameFits, Top
<1>5. live \ ToSet(Top.made) = live
  BY <1>4 DEF ToSet
<1>6. Typed' /\ ChildrenFit'
  BY <1>1, <1>2 DEF Typed, ChildrenFit
<1>7. Fits(frames', permanent' \cup stray', live', parent') /\ scope' \in live'
  BY <1>1, <1>3, <1>5, <1>9
<1>8. QED
  BY <1>1, <1>2, <1>3, <1>6, <1>7, <1>9, NextFits

\* What frames own is taken from the tree.
LEMMA FreeFits ==
  ASSUME Typed, ChildrenFit, NEW gone \in SUBSET Ids, Free(gone)
  PROVE  /\ Typed' /\ ChildrenFit' /\ live' = live \ gone
         /\ \A n \in live \ gone : parent'[n] = parent[n]
<1>3. /\ live' = live \ gone
      /\ name' = [n \in Nodes |-> IF n \in gone THEN Null ELSE name[n]]
      /\ parent' = [n \in Nodes |-> IF n \in gone THEN Null ELSE parent[n]]
      /\ kind' = [n \in Nodes |-> IF n \in gone THEN "none" ELSE kind[n]]
      /\ children' = [n \in Nodes |-> IF n \in gone THEN {}
                        ELSE children[n] \ {c \in gone : parent[c] = n}]
  BY DEF Free
<1>5. live \subseteq Nodes
  BY DEF Typed
<1>7. Typed'
  <2>1. parent' \in [Nodes -> Places]
    BY <1>3, <1>5 DEF Typed, Places
  <2>2. children' \in [Nodes -> SUBSET Ids]
    BY <1>3, <1>5 DEF Typed
  <2>3. kind' \in [Nodes -> {"none", "value", "device", "method"}]
    BY <1>3, <1>5 DEF Typed
  <2>4. DOMAIN name' = Nodes /\ live' \in SUBSET Nodes
    BY <1>3, <1>5
  <2>5. QED
    BY <2>1, <2>2, <2>3, <2>4 DEF Typed
<1>8. ChildrenFit'
  <2>1. ASSUME NEW n \in Nodes, NEW c \in children'[n]
        PROVE  /\ c \in children[n] /\ c \in Nodes /\ n \notin gone /\ c \notin gone
               /\ n \in live /\ c \in live /\ parent[c] = n
    <3>1. n \notin gone /\ c \in children[n] /\ ~ (c \in gone /\ parent[c] = n)
      BY <1>3, <2>1
    <3>2. n \in live /\ c \in live /\ parent[c] = n
      BY <3>1, <1>5 DEF ChildrenFit
    <3>3. QED
      BY <1>5, <3>1, <3>2
  <2>2. ASSUME NEW n \in Nodes, NEW c \in children'[n]
        PROVE  /\ n \in live' /\ c \in live' /\ parent'[c] = n
               /\ \A d \in children'[n] : name'[c] = name'[d] => c = d
    <3>1. n \in live' /\ c \in live' /\ parent'[c] = n /\ name'[c] = name[c]
      BY <1>3, <2>1
    <3>2. \A d \in children'[n] : d \in children[n] /\ name'[d] = name[d]
      BY <1>3, <2>1
    <3>3. c \in children[n]
      BY <2>1
    <3>4. \A d \in children[n] : name[c] = name[d] => c = d
      BY <1>5, <3>3 DEF ChildrenFit
    <3>5. QED
      BY <3>1, <3>2, <3>4
  <2>3. parent'[Root] = Null
    <3>1. Root \in Nodes /\ Root \notin gone
      BY NamespaceAssumption DEF Nodes
    <3>2. QED
      BY <1>3, <3>1 DEF ChildrenFit
  <2>4. \A n \in live' : kind'[n] # "none"
    BY <1>3, <1>5 DEF ChildrenFit
  <2>5. QED
    BY <2>2, <2>3, <2>4 DEF ChildrenFit
<1>9. \A n \in live \ gone : parent'[n] = parent[n]
  BY <1>3, <1>5
<1>12. QED
  BY <1>3, <1>7, <1>8, <1>9

\* The parents of what a frame owns are there when it ends, but for what was freed
\* before it.
LEMMA FreedInTurn ==
  ASSUME IInv, NEW k \in 1..Len(frames), NEW before, Misfrees(frames[k].made, before)
  PROVE  before # {}
<1>1. PICK made : made = frames[k].made
  OBVIOUS
<1>2. /\ Fits(frames, Keeps, live, parent) /\ FrameFits(frames, Keeps, parent, k)
      /\ live = Held(frames, Keeps, Len(frames)) /\ Len(frames) \in Nat
  BY DEF IInv, Fits
<1>3. made \in Seq(Ids)
  BY <1>1, <1>2, MadeHeld
<1>4. Held(frames, Keeps, k) \subseteq live
  BY <1>2, HeldGrows
<1>5. \A b \in 1..Len(made) : parent[made[b]] \in live /\ \A a \in 1..b : parent[made[b]] # made[a]
  BY <1>1, <1>2, <1>4 DEF FrameFits, Younger
<1>6. PICK b \in DOMAIN made : parent[made[b]] \notin live \ (before \cup {made[j] : j \in 1..(b - 1)})
  BY <1>1 DEF Misfrees
<1>7. b \in 1..Len(made) /\ b \in Nat /\ \A j \in 1..(b - 1) : j \in 1..b
  BY <1>3
<1>8. QED
  BY <1>5, <1>6, <1>7

\* A call or load takes the nodes it made with it.
LEMMA DeleteFits ==
  ASSUME IInv, frames # <<>>, Delete(Top.made), Pop, permanent' = permanent
  PROVE  IInv' /\ Len(frames') = Len(frames) - 1 /\ live' = live \ ToSet(Top.made)
<1>2. PICK gone : gone = ToSet(Top.made)
  OBVIOUS
<1>3. Free(gone) /\ misfreed' = (misfreed \/ Misfrees(Top.made, {})) /\ UNCHANGED <<stray, cutShort>>
  BY <1>2 DEF Delete
<1>4. frames' = Below /\ scope' = Top.back
  BY DEF Pop
<1>5. Typed /\ ChildrenFit /\ Apart /\ (misfreed => cutShort) /\ frames \in Seq(Frames)
  BY DEF IInv, Fits
<1>6. /\ Fits(Below, Keeps, live \ gone, parent) /\ Top.back \in live \ gone /\ gone \subseteq Ids
      /\ Len(Below) = Len(frames) - 1 /\ Len(frames) \in Nat \ {0}
  BY <1>2, TopIs
<1>7. /\ Typed' /\ ChildrenFit' /\ live' = live \ gone
      /\ \A n \in live \ gone : parent'[n] = parent[n]
  BY <1>3, <1>5, <1>6, FreeFits
<1>9. misfreed' => cutShort'
  <2>1. Len(frames) \in 1..Len(frames) /\ Top = frames[Len(frames)]
    BY <1>6 DEF Top
  <2>2. ~ Misfrees(Top.made, {})
    BY <2>1, FreedInTurn
  <2>3. QED
    BY <1>3, <1>5, <2>2
<1>10. Fits(frames', permanent' \cup stray', live', parent')
  <2>2. Fits(Below, Keeps, live \ gone, parent')
    BY <1>6, <1>7, ParentFits
  <2>3. QED
    BY <1>3, <1>4, <1>7, <2>2 DEF Keeps
<1>11. scope' \in live' /\ Apart'
  BY <1>3, <1>4, <1>5, <1>6, <1>7 DEF Apart
<1>12. QED
  BY <1>2, <1>4, <1>6, <1>7, <1>9, <1>10, <1>11, NextFits

\* parse returns at once: what the calls own goes, what the loads own stays.
LEMMA AbandonFits ==
  ASSUME IInv, Abandon
  PROVE  /\ IInv' /\ frames' = <<>>
         /\ Top.op = "load" => ToSet(Top.made) \subseteq stray'
<1>1. PICK gone : gone = MadeBy(FramesOf("method"))
  OBVIOUS
<1>2. PICK lost : lost = MadeBy(FramesOf("load"))
  OBVIOUS
<1>3. /\ frames # <<>> /\ Free(gone) /\ stray' = stray \cup lost /\ frames' = <<>> /\ scope' = Root
      /\ permanent' = permanent
      /\ misfreed' = (misfreed \/ \E k \in FramesOf("method") :
                        Misfrees(frames[k].made, MadeBy({j \in FramesOf("method") : j < k})))
      /\ cutShort' = (cutShort \/ \E j, k \in FramesOf("method") : j < k)
  BY <1>1, <1>2 DEF Abandon
<1>4. /\ Typed /\ ChildrenFit /\ Apart /\ (misfreed => cutShort) /\ Fits(frames, Keeps, live, parent)
      /\ frames \in Seq(Frames) /\ DOMAIN frames = 1..Len(frames) /\ Len(frames) \in Nat
      /\ live = Held(frames, Keeps, Len(frames)) /\ Root \in Keeps /\ Keeps \in SUBSET Nodes
      /\ \A i \in 1..Len(frames) : FrameFits(frames, Keeps, parent, i)
  BY DEF IInv, Fits
<1>5. \A k \in 1..Len(frames) :
        /\ Made(frames, k) \subseteq Ids /\ Made(frames, k) \cap Keeps = {}
        /\ Made(frames, k) = ToSet(frames[k].made)
        /\ \A j \in 1..Len(frames) : j # k => Made(frames, j) \cap Made(frames, k) = {}
  BY <1>4, MadeHeld DEF FrameFits, OwnsAlone, Made
<1>6. \A k \in 1..Len(frames) :
        k \in FramesOf("method") \/ k \in FramesOf("load") \/ Made(frames, k) = {}
  BY <1>4, <1>5 DEF FrameFits, Owns, FramesOf, ToSet
<1>7. FramesOf("method") \subseteq 1..Len(frames) /\ FramesOf("load") \subseteq 1..Len(frames)
      /\ FramesOf("method") \cap FramesOf("load") = {}
  BY <1>4 DEF FramesOf
<1>8. /\ \A n : n \in gone <=> \E k \in FramesOf("method") : n \in Made(frames, k)
      /\ \A n : n \in lost <=> \E k \in FramesOf("load") : n \in Made(frames, k)
  BY <1>1, <1>2, <1>5, <1>7 DEF MadeBy
<1>9. gone \subseteq Ids /\ lost \subseteq Ids /\ gone \cap (Keeps \cup lost) = {} /\ lost \cap Keeps = {}
  BY <1>5, <1>7, <1>8
<1>10. live = Keeps \cup gone \cup lost
  <2>1. \A n \in Nodes : n \in live <=> n \in Keeps \/ \E k \in 1..Len(frames) : n \in Made(frames, k)
    BY <1>4 DEF Held
  <2>2. \A n \in Nodes : n \in live <=> n \in Keeps \/ n \in gone \/ n \in lost
    BY <1>6, <1>7, <1>8, <2>1
  <2>3. live \subseteq Nodes
    BY <1>4 DEF Typed
  <2>4. QED
    BY <1>4, <1>9, <2>2, <2>3 DEF Nodes
<1>11. live \ gone = permanent' \cup stray'
  BY <1>3, <1>9, <1>10 DEF Keeps
<1>12. Typed' /\ ChildrenFit' /\ live' = live \ gone
  BY <1>3, <1>4, <1>9, FreeFits
<1>13. Apart'
  BY <1>3, <1>4, <1>9 DEF Apart, Keeps
<1>14. Root \in permanent' \cup stray' /\ permanent' \cup stray' \in SUBSET Nodes
  BY <1>3, <1>4, <1>9 DEF Keeps, Nodes
<1>15. Fits(frames', permanent' \cup stray', live', parent')
  <2>1. frames' \in Seq(Frames) /\ Len(frames') = 0
    BY <1>3
  <2>2. Held(frames', permanent' \cup stray', Len(frames')) = permanent' \cup stray'
    BY <2>1 DEF Held
  <2>3. \A i \in 1..Len(frames') : FrameFits(frames', permanent' \cup stray', parent', i)
    BY <2>1
  <2>4. QED
    BY <1>11, <1>12, <1>14, <2>1, <2>2, <2>3 DEF Fits
<1>16. misfreed' => cutShort'
  <2>1. CASE misfreed
    BY <1>3, <1>4, <2>1
  <2>2. ASSUME NEW k \in FramesOf("method"),
               Misfrees(frames[k].made, MadeBy({j \in FramesOf("method") : j < k}))
        PROVE  cutShort'
    <3>1. MadeBy({j \in FramesOf("method") : j < k}) # {}
      BY <1>7, <2>2, FreedInTurn
    <3>2. PICK j \in FramesOf("method") : j < k
      BY <3>1 DEF MadeBy
    <3>3. QED
      BY <1>3, <3>2
  <2>3. QED
    BY <1>3, <2>1, <2>2
<1>17. scope' \in live'
  BY <1>3, <1>11, <1>12, <1>14
<1>18. ASSUME Top.op = "load"
       PROVE  ToSet(Top.made) \subseteq stray'
  <2>1. Len(frames) \in 1..Len(frames)
    BY <1>3, <1>4, Tops
  <2>2. Len(frames) \in FramesOf("load") /\ ToSet(Top.made) = Made(frames, Len(frames))
    BY <1>4, <1>18, <2>1 DEF FramesOf, Top, Made
  <2>3. QED
    BY <1>3, <1>8, <2>2
<1>19. QED
  BY <1>3, <1>12, <1>13, <1>15, <1>16, <1>17, <1>18, NextFits

LEMMA LoadEndsFits ==
  ASSUME IInv, LoadEnds
  PROVE  IInv' /\ Len(frames') = Len(frames) - 1
<1>1. /\ frames # <<>> /\ permanent' = permanent \cup ToSet(Top.made)
      /\ frames' = Below /\ scope' = Top.back
      /\ UNCHANGED <<live, name, parent, children, kind, fate>>
  BY DEF LoadEnds, Pop, tree
<1>2. /\ Typed /\ ChildrenFit /\ Fits(frames, Keeps, live, parent) /\ live \subseteq Nodes
      /\ frames \in Seq(Frames) /\ FrameFits(frames, Keeps, parent, Len(frames))
  <2>1. Len(frames) \in 1..Len(frames)
    BY <1>1, TopIs
  <2>2. QED
    BY <2>1 DEF IInv, Typed, Fits
<1>10. stray' = stray /\ Apart /\ (misfreed' => cutShort')
  BY <1>1, FateKept
<1>3. PICK X : X = ToSet(Top.made)
  OBVIOUS
<1>4. /\ Fits(Below, Keeps, live \ X, parent) /\ Top.back \in live \ X /\ X \subseteq live
      /\ Len(Below) = Len(frames) - 1
  BY <1>1, <1>3, TopIs
<1>5. X \in SUBSET Nodes /\ X \cap (live \ X) = {} /\ (live \ X) \cup X = live
  BY <1>2, <1>4
<1>6. Fits(Below, Keeps \cup X, (live \ X) \cup X, parent)
  BY ONLY <1>4, <1>5, StayFits
<1>7. Typed' /\ ChildrenFit'
  BY <1>1, <1>2 DEF Typed, ChildrenFit
<1>8. Fits(frames', permanent' \cup stray', live', parent') /\ scope' \in live'
  <2>1. permanent' \cup stray' = Keeps \cup X
    BY <1>1, <1>3, <1>10 DEF Keeps
  <2>2. QED
    BY <1>1, <1>3, <1>4, <1>5, <1>6, <2>1
<1>11. Apart'
  <2>1. X \cap Keeps = {}
    BY <1>2, <1>3 DEF FrameFits, OwnsAlone, Made, Top
  <2>2. QED
    BY <1>1, <1>3, <1>5, <1>10, <2>1 DEF Apart, Keeps
<1>9. QED
  BY <1>1, <1>2, <1>4, <1>7, <1>8, <1>10, <1>11, NextFits

LEMMA InitFits == Init => IInv
<1> SUFFICES ASSUME Init
             PROVE  IInv
  OBVIOUS
<1>1. Typed /\ scope \in live /\ Apart /\ (misfreed => cutShort)
  BY DEF Init, Typed, Nodes, Places, Apart
<1>2. ChildrenFit
  BY DEF Init, ChildrenFit, Nodes
<1>3. Fits(frames, Keeps, live, parent)
  <2>1. frames = <<>> /\ Keeps = {Root} /\ live = {Root}
    BY DEF Init, Keeps
  <2>2. Held(frames, Keeps, Len(frames)) = {Root}
    BY <2>1 DEF Held
  <2>3. frames \in Seq(Frames) /\ Len(frames) = 0
    BY <2>1
  <2>4. \A i \in 1..Len(frames) : FrameFits(frames, Keeps, parent, i)
    BY <2>3
  <2>5. Keeps \in SUBSET Nodes /\ Root \in Keeps
    BY <2>1 DEF Nodes
  <2>6. QED
    BY <2>1, <2>2, <2>3, <2>4, <2>5 DEF Fits
<1>4. QED
  BY <1>1, <1>2, <1>3 DEF IInv

\* Each step keeps the tree and its owners, and what a load that fails made is not
\* in what is left.
LoadsLeave ==
  Len(frames') < Len(frames) /\ Top.op = "load"
    => \/ ToSet(Top.made) \subseteq permanent' \/ live' \cap ToSet(Top.made) = {}
       \/ frames' = <<>> /\ ToSet(Top.made) \subseteq stray'

LEMMA NextKeeps ==
  ASSUME PlainPaths, IInv, Next
  PROVE  IInv' /\ LoadsLeave
<1>1. frames \in Seq(Frames) /\ Len(frames) \in Nat /\ Root \in live /\ ReachesWell
  <2>1. frames \in Seq(Frames) /\ Len(frames) \in Nat /\ Root \in live /\ Typed /\ ChildrenFit
    BY DEF IInv, Fits, Held, Nodes
  <2>2. QED
    BY <2>1, Reached
<1>2. ASSUME NEW p \in Paths, NEW k \in {"value", "method"}, Create(p, k)
      PROVE  IInv' /\ LoadsLeave
  BY <1>1, <1>2, CreateFits DEF LoadsLeave
<1>3. ASSUME NEW p \in Paths, Device(p)
      PROVE  IInv' /\ LoadsLeave
  BY <1>1, <1>3, DeviceFits DEF LoadsLeave
<1>4. ASSUME NEW p \in Paths, Scope(p)
      PROVE  IInv' /\ LoadsLeave
  BY <1>1, <1>4, ScopeFits DEF LoadsLeave
<1>5. ASSUME NEW n \in Ids, Call(n)
      PROVE  IInv' /\ LoadsLeave
  <2>1. /\ n \in live /\ frames' = Append(frames, Frame("method")) /\ scope' = n
        /\ UNCHANGED <<live, name, parent, children, kind, permanent, fate>>
    BY <1>5 DEF Call, tree
  <2>2. IInv' /\ Len(frames') = Len(frames) + 1
    BY <2>1, EnterFits
  <2>3. QED
    BY <1>1, <2>2 DEF LoadsLeave
<1>6. CASE TableBegins
  <2>1. /\ frames' = Append(frames, Frame("table")) /\ scope' = Root
        /\ UNCHANGED <<live, name, parent, children, kind, permanent, fate>>
    BY <1>6 DEF TableBegins, tree
  <2>2. IInv' /\ Len(frames') = Len(frames) + 1
    BY <1>1, <2>1, EnterFits
  <2>3. QED
    BY <1>1, <2>2 DEF LoadsLeave
<1>7. CASE LoadBegins
  <2>1. /\ frames' = Append(frames, Frame("load")) /\ scope' = Root
        /\ UNCHANGED <<live, name, parent, children, kind, permanent, fate>>
    BY <1>7 DEF LoadBegins, tree
  <2>2. IInv' /\ Len(frames') = Len(frames) + 1
    BY <1>1, <2>1, EnterFits
  <2>3. QED
    BY <1>1, <2>2 DEF LoadsLeave
<1>8. CASE ScopeEnds
  <2>1. IInv'
    BY <1>8, ScopeEndsFits
  <2>2. Top.op # "load"
    BY <1>8 DEF ScopeEnds
  <2>3. QED
    BY <2>1, <2>2 DEF LoadsLeave
<1>9. CASE MethodEnds
  <2>1. IInv'
    BY <1>9, DeleteFits DEF MethodEnds
  <2>2. Top.op # "load"
    BY <1>9 DEF MethodEnds
  <2>3. QED
    BY <2>1, <2>2 DEF LoadsLeave
<1>10. CASE LoadFails
  <2>1. IInv'
    BY <1>10, DeleteFits DEF LoadFails
  <2>2. live' = live \ ToSet(Top.made)
    BY <1>10, DeleteFits DEF LoadFails
  <2>3. QED
    BY <2>1, <2>2 DEF LoadsLeave
<1>11. CASE LoadEnds
  <2>1. IInv'
    BY <1>11, LoadEndsFits
  <2>2. permanent' = permanent \cup ToSet(Top.made)
    BY <1>11 DEF LoadEnds
  <2>3. QED
    BY <2>1, <2>2 DEF LoadsLeave
<1>12. CASE Abandon
  BY <1>12, AbandonFits DEF LoadsLeave
<1>13. QED
  BY <1>2, <1>3, <1>4, <1>5, <1>6, <1>7, <1>8, <1>9, <1>10, <1>11, <1>12 DEF Next

-----------------------------------------------------------------------------
(* The theorems                                                            *)

LEMMA OwnedByOne ==
  ASSUME IInv
  PROVE  OwnedOnce
<1>1. /\ frames \in Seq(Frames) /\ Len(frames) \in Nat /\ DOMAIN frames = 1..Len(frames)
      /\ live = Held(frames, Keeps, Len(frames)) /\ Keeps \subseteq Nodes /\ Apart
      /\ \A i \in 1..Len(frames) : OwnsAlone(frames, Keeps, i)
  BY DEF IInv, Fits, FrameFits
<1>2. ASSUME NEW n \in Nodes
      PROVE  Cardinality({i \in DOMAIN frames : n \in ToSet(frames[i].made)})
               + (IF n \in permanent THEN 1 ELSE 0) + (IF n \in stray THEN 1 ELSE 0)
               = IF n \in live THEN 1 ELSE 0
  <2>1. PICK own : own = {i \in DOMAIN frames : n \in ToSet(frames[i].made)}
    OBVIOUS
  <2>2. \A i \in 1..Len(frames) : i \in own <=> n \in Made(frames, i)
    BY <1>1, <2>1 DEF Made
  <2>3. own \subseteq 1..Len(frames)
    BY <1>1, <2>1
  <2>4. CASE n \in Keeps
    <3>1. own = {}
      BY <1>1, <2>2, <2>3, <2>4 DEF OwnsAlone
    <3>2. n \in live
      BY <1>1, <2>4 DEF Held
    <3>3. (IF n \in permanent THEN 1 ELSE 0) + (IF n \in stray THEN 1 ELSE 0) = 1
      BY <1>1, <2>4 DEF Keeps, Apart
    <3>4. Cardinality(own) = 0
      BY <3>1, FS_EmptySet
    <3>5. QED
      BY <2>1, <3>2, <3>3, <3>4
  <2>5. CASE n \notin Keeps /\ n \in live
    <3>1. PICK i \in 1..Len(frames) : n \in Made(frames, i)
      BY <1>1, <2>5 DEF Held
    <3>2. own = {i}
      BY <1>1, <2>2, <2>3, <3>1 DEF OwnsAlone
    <3>3. Cardinality(own) = 1
      BY <3>2, FS_Singleton
    <3>4. QED
      BY <2>1, <2>5, <3>3 DEF Keeps
  <2>6. CASE n \notin Keeps /\ n \notin live
    <3>1. own = {}
      BY <1>1, <2>2, <2>3, <2>6 DEF Held
    <3>2. QED
      BY <2>1, <2>6, <3>1, FS_EmptySet DEF Keeps
  <2>7. QED
    BY <2>4, <2>5, <2>6
<1>3. QED
  BY <1>2 DEF OwnedOnce

LEMMA Sound ==
  ASSUME IInv
  PROVE  TreeSound /\ ReachesWell
<1>1. /\ Typed /\ ChildrenFit /\ scope \in live /\ (misfreed => cutShort) /\ Apart
      /\ Fits(frames, Keeps, live, parent) /\ live \subseteq Nodes
  BY DEF IInv, Typed
<1>2. /\ frames \in Seq(Frames) /\ DOMAIN frames = 1..Len(frames) /\ Len(frames) \in Nat
      /\ live = Held(frames, Keeps, Len(frames)) /\ Root \in Keeps
      /\ \A i \in 1..Len(frames) : frames[i].back \in Held(frames, Keeps, i - 1)
  BY <1>1 DEF Fits, FrameFits
<1>3. Root \in live
  BY <1>2 DEF Held
<1>4. ReachesWell
  BY <1>1, <1>3, Reached
<1>5. \A i \in 1..Len(frames) : frames[i].back \in live
  <2>1. ASSUME NEW i \in 1..Len(frames)
        PROVE  frames[i].back \in live
    <3>1. i - 1 \in Nat /\ i - 1 <= Len(frames)
      BY <1>2
    <3>2. Held(frames, Keeps, i - 1) \subseteq Held(frames, Keeps, Len(frames))
      BY <1>2, <3>1, HeldGrows
    <3>3. QED
      BY <1>2, <3>2
  <2>2. QED
    BY <2>1
<1>6. TypeOK
  <2>1. ASSUME NEW i \in DOMAIN frames
        PROVE  ToSet(frames[i].made) \subseteq Ids /\ frames[i].back \in Nodes
    BY <1>1, <1>2, <1>5, MadeHeld DEF Made
  <2>2. QED
    BY <1>1, <1>2, <1>3, <2>1 DEF TypeOK, Typed, Places, Apart
<1>7. NoDangling
  BY <1>1, <1>4 DEF NoDangling, ReachesWell
<1>8. ParentHolds
  BY <1>4 DEF ParentHolds, ReachesWell
<1>9. ScopeLive
  BY <1>1, <1>2, <1>5 DEF ScopeLive
<1>10. OwnedOnce
  BY OwnedByOne
<1>11. QED
  BY <1>4, <1>6, <1>7, <1>8, <1>9, <1>10 DEF TreeSound

LEMMA Invariance ==
  ASSUME PlainPaths
  PROVE  Spec => []IInv
<1>1. Init => IInv
  BY InitFits
<1>2. IInv /\ [Next]_vars => IInv'
  <2> SUFFICES ASSUME IInv, [Next]_vars
               PROVE  IInv'
    OBVIOUS
  <2>1. CASE Next
    BY <2>1, NextKeeps
  <2>2. CASE UNCHANGED vars
    BY <2>2 DEF vars, tree, fate, IInv, Typed, ChildrenFit, Keeps, Apart
  <2>3. QED
    BY <2>1, <2>2
<1>3. QED
  BY <1>1, <1>2, PTL DEF Spec

\* Nothing reaches a freed node, each node has one owner and one parent, and the
\* interpreter works and comes back to scopes that are alive (~MethodFrame).
THEOREM Tree ==
  ASSUME PlainPaths
  PROVE  Spec => []TreeSound
<1>1. Spec => []IInv
  BY Invariance
<1>2. IInv => TreeSound
  BY Sound
<1>3. QED
  BY <1>1, <1>2, PTL

\* A search by the parents finds a name in the innermost scope around that has it
\* (create_or_find_node, Search).
THEOREM Searches ==
  ASSUME PlainPaths
  PROVE  Spec => []SearchNearest
<1>1. Spec => []IInv
  BY Invariance
<1>2. IInv => SearchNearest
  <2> SUFFICES ASSUME IInv
               PROVE  SearchNearest
    OBVIOUS
  <2>1. Typed /\ ChildrenFit /\ Root \in live
    BY DEF IInv, Fits, Held
  <2>2. QED
    BY <2>1, Found
<1>3. QED
  BY <1>1, <1>2, PTL

\* A Load that fails leaves none of its nodes in the namespace, one that ends leaves
\* all of them to the context, and only one that parse abandons leaves them to nobody
\* (unwind_stack, ~MethodFrame).
THEOREM Failures ==
  ASSUME PlainPaths
  PROVE  Spec => FailureDeletes
<1>1. Spec => []IInv
  BY Invariance
<1>2. IInv => ReachesWell
  BY Sound
<1>3. IInv /\ ReachesWell' /\ [Next]_vars
        => [Len(frames') < Len(frames) /\ Top.op = "load"
              => \/ ToSet(Top.made) \subseteq permanent'
                 \/ Reachable' \cap ToSet(Top.made) = {}
                 \/ frames' = <<>> /\ ToSet(Top.made) \subseteq stray']_vars
  <2> SUFFICES ASSUME IInv, ReachesWell', Next, Len(frames') < Len(frames), Top.op = "load"
               PROVE  \/ ToSet(Top.made) \subseteq permanent'
                      \/ Reachable' \cap ToSet(Top.made) = {}
                      \/ frames' = <<>> /\ ToSet(Top.made) \subseteq stray'
    OBVIOUS
  <2>1. \/ ToSet(Top.made) \subseteq permanent' \/ live' \cap ToSet(Top.made) = {}
        \/ frames' = <<>> /\ ToSet(Top.made) \subseteq stray'
    BY NextKeeps DEF LoadsLeave
  <2>2. Reachable' \subseteq live'
    BY DEF ReachesWell
  <2>3. QED
    BY <2>1, <2>2
<1>4. QED
  BY <1>1, <1>2, <1>3, PTL DEF Spec, FailureDeletes
=============================================================================
