------------------------- MODULE NotifyHandlersProofs -------------------------
(***************************************************************************)
(* Proofs about NotifyHandlers, for any number of entries, of nodes and of  *)
(* handlers that notify from handlers: the list stays linked as it was      *)
(* installed, on_notify reads no freed entry, and calls the handler that    *)
(* was installed last for the node.                                         *)
(***************************************************************************)
EXTENDS NotifyHandlers, Integers, SequenceTheorems, TLAPS

\* An entry is in the list once.
Distinct ==
  \A i, j \in 1..Len(installed) : installed[i] = installed[j] => i = j

\* Only the innermost on_notify is between two entries.
OutersCall == \A i \in 1..(Len(walks) - 1) : walks[i].calling

\* What a walk has come past is for other nodes.
Passed ==
  walks # <<>> /\ ~Walk.calling =>
    \A i \in 1..Len(installed) :
      installed[i] = Walk.at => \A j \in 1..(i - 1) : node[installed[j]] # Walk.for

\* The inductive invariant: a list can change only while the innermost walk is in a
\* call, which is the last that it does with its entry.
IInv ==
  /\ TypeOK /\ ListExact /\ Distinct
  /\ OutersCall /\ NoFreedRead /\ Passed

-----------------------------------------------------------------------------
\* Entries of the list and Null, which is none.
LEMMA AtType ==
  ASSUME TypeOK, NEW i \in Int
  PROVE  /\ At(i) \in Entries \cup {Null}
         /\ At(i) = Null <=> i \notin 1..Len(installed)
BY NotifyAssumption DEF TypeOK, At

LEMMA HasPlace ==
  ASSUME TypeOK, Distinct, NEW e, NEW p \in 1..Len(installed), installed[p] = e
  PROVE  Place(e) = p
<1>1. Place(e) \in 1..Len(installed) /\ installed[Place(e)] = e
  BY DEF Place
<1>2. QED
  BY <1>1 DEF Distinct

\* The last element of a sequence, one in its place, and the sequence without it.
LEMMA LastOf ==
  ASSUME NEW S, NEW s \in Seq(S), s # <<>>
  PROVE  Len(s) \in 1..Len(s) /\ s[Len(s)] \in S
OBVIOUS

LEMMA LastSet ==
  ASSUME NEW S, NEW s \in Seq(S), s # <<>>, NEW w \in S,
         NEW t, t = [s EXCEPT ![Len(s)] = w]
  PROVE  /\ t \in Seq(S) /\ Len(t) = Len(s) /\ t[Len(t)] = w
         /\ \A i \in 1..(Len(s) - 1) : t[i] = s[i]
BY LastOf

LEMMA LastDropped ==
  ASSUME NEW S, NEW s \in Seq(S), s # <<>>,
         NEW t, t = SubSeq(s, 1, Len(s) - 1)
  PROVE  /\ t \in Seq(S) /\ Len(t) = Len(s) - 1
         /\ \A i \in 1..Len(t) : t[i] = s[i]
<1>1. Len(s) \in Nat /\ Len(s) >= 1 /\ \A i \in 1..(Len(s) - 1) : s[i] \in S
  BY LastOf
<1>2. /\ t \in Seq(S)
      /\ Len(t) = IF 1 <= Len(s) - 1 THEN (Len(s) - 1) - 1 + 1 ELSE 0
      /\ \A i \in 1..((Len(s) - 1) - 1 + 1) : t[i] = s[1 + i - 1]
  BY <1>1, SubSeqProperties
<1>3. Len(t) = Len(s) - 1
  <2>1. ASSUME NEW n \in Nat, n >= 1, NEW m, m = IF 1 <= n - 1 THEN (n - 1) - 1 + 1 ELSE 0
        PROVE  m = n - 1
    BY <2>1
  <2>2. QED
    BY <1>1, <1>2, <2>1
<1>4. ASSUME NEW i \in 1..Len(t)
      PROVE  t[i] = s[i]
  <2>1. i \in 1..((Len(s) - 1) - 1 + 1) /\ 1 + i - 1 = i
    BY <1>1, <1>3
  <2>2. QED
    BY <1>2, <2>1
<1>5. QED
  BY <1>2, <1>3, <1>4

\* Install puts its entry before the others.
LEMMA Prepended ==
  ASSUME TypeOK, NEW e \in Entries, installed' = <<e>> \o installed
  PROVE  /\ installed' \in Seq(Entries)
         /\ Len(installed') = Len(installed) + 1
         /\ installed'[1] = e
         /\ \A i \in 1..Len(installed) : installed'[i + 1] = installed[i]
         /\ \A i \in 2..Len(installed') : installed'[i] = installed[i - 1]
         /\ At(1)' = e
         /\ At(0)' = Null
         /\ \A i \in Nat : i > 1 => At(i)' = At(i - 1)
<1>1. /\ installed' \in Seq(Entries)
      /\ Len(installed') = Len(installed) + 1
      /\ installed'[1] = e
      /\ \A i \in 2..Len(installed') : installed'[i] = installed[i - 1]
  BY DEF TypeOK
<1>2. \A i \in 1..Len(installed) : installed'[i + 1] = installed[i]
  <2>1. SUFFICES ASSUME NEW i \in 1..Len(installed)
                 PROVE  installed'[i + 1] = installed[i]
    OBVIOUS
  <2>2. i + 1 \in 2..Len(installed') /\ (i + 1) - 1 = i
    BY <1>1 DEF TypeOK
  <2>3. QED
    BY <1>1, <2>2
<1>3. Len(installed) \in Nat
  BY DEF TypeOK
<1>4. At(1)' = e /\ At(0)' = Null
  BY <1>1, <1>3 DEF At
<1>5. ASSUME NEW i \in Nat, i > 1
      PROVE  At(i)' = At(i - 1)
  BY <1>1, <1>3, <1>5 DEF At
<1>6. QED
  BY <1>1, <1>2, <1>4, <1>5

\* Uninstall closes the gap that its entry leaves.
LEMMA Removed ==
  ASSUME TypeOK, Distinct, NEW e, NEW p \in 1..Len(installed), installed[p] = e,
         installed' = Without(e)
  PROVE  /\ installed' \in Seq(Entries)
         /\ Len(installed') = Len(installed) - 1
         /\ \A i \in 1..Len(installed') :
              installed'[i] = installed[IF i < p THEN i ELSE i + 1]
         /\ \A i \in Nat : At(i)' = IF i < p THEN At(i) ELSE At(i + 1)
<1>1. Place(e) = p
  BY HasPlace
<1>2. Len(installed) \in Nat /\ Len(installed) >= 1
      /\ \A i \in 1..Len(installed) : installed[i] \in Entries
  BY DEF TypeOK
<1>3. installed' = [i \in 1..(Len(installed) - 1) |-> installed[IF i < p THEN i ELSE i + 1]]
  BY <1>1 DEF Without
<1>4. /\ installed' \in Seq(Entries)
      /\ Len(installed') = Len(installed) - 1
  BY <1>2, <1>3
<1>5. \A i \in 1..Len(installed') :
         installed'[i] = installed[IF i < p THEN i ELSE i + 1]
  BY <1>3, <1>4
<1>6. ASSUME NEW i \in Nat
      PROVE  At(i)' = IF i < p THEN At(i) ELSE At(i + 1)
  BY <1>2, <1>4, <1>5 DEF At
<1>7. QED
  BY <1>4, <1>5, <1>6

-----------------------------------------------------------------------------
LEMMA InstallKeeps ==
  ASSUME IInv, NEW e \in Entries, NEW n \in Nodes, Install(e, n)
  PROVE  TypeOK' /\ ListExact' /\ Distinct'
<1> USE DEF Install
<1>1. TypeOK /\ ListExact /\ Distinct
  BY DEF IInv
<1>2. Len(installed) \in Nat /\ \A i \in 1..Len(installed) : installed[i] \in Entries
  BY <1>1 DEF TypeOK
<1>3. \A i \in 1..Len(installed) : installed[i] # e
  BY <1>1 DEF ListExact
<1>4. TypeOK'
  BY <1>1, Prepended DEF TypeOK
<1>5. Distinct'
  <2>1. SUFFICES ASSUME NEW i \in 1..Len(installed'), NEW j \in 1..Len(installed'),
                        installed'[i] = installed'[j]
                 PROVE  i = j
    BY DEF Distinct
  <2>2. CASE i = 1 \/ j = 1
    BY <1>1, <1>2, <1>3, <2>1, <2>2, Prepended
  <2>3. CASE i # 1 /\ j # 1
    <3>1. /\ i - 1 \in 1..Len(installed) /\ j - 1 \in 1..Len(installed)
          /\ installed[i - 1] = installed[j - 1]
      BY <1>1, <1>2, <2>1, <2>3, Prepended
    <3>2. i - 1 = j - 1
      BY <1>1, <3>1 DEF Distinct
    <3>3. QED
      BY <3>2
  <2>4. QED
    BY <2>2, <2>3
<1>6. head' = At(1)'
  BY <1>1, Prepended
<1>7. ASSUME NEW i \in 1..Len(installed')
      PROVE  next'[installed'[i]] = At(i + 1)' /\ prev'[installed'[i]] = At(i - 1)'
  <2>1. CASE i = 1
    <3>1. next'[e] = head /\ prev'[e] = Null
      BY <1>1 DEF TypeOK
    <3>2. At(2)' = At(1)
      BY <1>1, Prepended
    <3>3. head = At(1)
      BY <1>1 DEF ListExact
    <3>4. QED
      BY <1>1, <2>1, <3>1, <3>2, <3>3, Prepended
  <2>2. CASE i > 1
    <3> DEFINE f == installed[i - 1]
    <3>1. i - 1 \in 1..Len(installed) /\ installed'[i] = f /\ f \in Entries /\ f # e
      BY <1>1, <1>2, <1>3, <2>2, Prepended
    <3>2. next[f] = At(i) /\ prev[f] = At(i - 2)
      BY <1>1, <3>1 DEF ListExact
    <3>3. next'[f] = At(i) /\ At(i + 1)' = At(i)
      <4>1. next'[f] = next[f]
        BY <1>1, <3>1 DEF TypeOK
      <4>2. i + 1 \in Nat /\ i + 1 > 1 /\ (i + 1) - 1 = i
        BY <2>2
      <4>3. At(i + 1)' = At((i + 1) - 1)
        BY <1>1, <4>2, Prepended
      <4>4. QED
        BY <3>2, <4>1, <4>2, <4>3
    <3>4. CASE i = 2
      <4>1. f = head
        BY <1>1, <3>1, <3>4 DEF ListExact, At
      <4>2. prev'[f] = e
        BY <3>1, <4>1
      <4>3. QED
        BY <1>1, <3>1, <3>3, <3>4, <4>2, Prepended
    <3>5. CASE i > 2
      <4>1. f # head
        BY <1>1, <1>2, <3>1, <3>5 DEF ListExact, At, Distinct
      <4>2. prev'[f] = At(i - 2)
        BY <3>1, <3>2, <4>1
      <4>3. At(i - 1)' = At(i - 2)
        BY <1>1, <3>5, Prepended
      <4>4. QED
        BY <3>1, <3>3, <4>2, <4>3
    <3>6. QED
      BY <2>2, <3>4, <3>5
  <2>3. QED
    BY <2>1, <2>2, <1>1, <1>2, Prepended
<1>8. ASSUME NEW f \in Entries
      PROVE  Allocated(f)' <=> \E i \in 1..Len(installed') : installed'[i] = f
  <2>1. CASE f = e
    <3>1. Allocated(f)'
      BY <1>1, <2>1, NotifyAssumption DEF TypeOK, Allocated
    <3>2. 1 \in 1..Len(installed') /\ installed'[1] = f
      BY <1>1, <1>2, <2>1, Prepended
    <3>3. QED
      BY <3>1, <3>2
  <2>2. CASE f # e
    <3>1. Allocated(f)' <=> Allocated(f)
      BY <1>1, <2>2 DEF TypeOK, Allocated
    <3>2. Allocated(f) <=> \E i \in 1..Len(installed) : installed[i] = f
      BY <1>1 DEF ListExact
    <3>3. ASSUME NEW i \in 1..Len(installed), installed[i] = f
          PROVE  i + 1 \in 1..Len(installed') /\ installed'[i + 1] = f
      BY <1>1, <1>2, <3>3, Prepended
    <3>4. ASSUME NEW i \in 1..Len(installed'), installed'[i] = f
          PROVE  i - 1 \in 1..Len(installed) /\ installed[i - 1] = f
      BY <1>1, <1>2, <2>2, <3>4, Prepended
    <3>5. QED
      BY <3>1, <3>2, <3>3, <3>4
  <2>3. QED
    BY <2>1, <2>2
<1>9. QED
  BY <1>4, <1>5, <1>6, <1>7, <1>8 DEF ListExact

LEMMA UninstallKeeps ==
  ASSUME IInv, NEW n \in Nodes, Uninstall(n)
  PROVE  TypeOK' /\ ListExact' /\ Distinct'
<1>1. TypeOK /\ ListExact /\ Distinct
  BY DEF IInv
<1>2. PICK e \in Entries :
        /\ node[e] = n
        /\ next' = [f \in Entries |-> IF f = prev[e] THEN next[e] ELSE next[f]]
        /\ head' = IF prev[e] = Null THEN next[e] ELSE head
        /\ prev' = [f \in Entries |-> IF f = next[e] THEN prev[e] ELSE prev[f]]
        /\ node' = [node EXCEPT ![e] = Null]
        /\ installed' = Without(e)
        /\ UNCHANGED walks
  BY DEF Uninstall
<1>3. PICK p \in 1..Len(installed) : installed[p] = e
  <2>1. Allocated(e)
    BY <1>2, NotifyAssumption DEF Allocated
  <2>2. QED
    BY <1>1, <2>1 DEF ListExact
<1>4. Len(installed) \in Nat /\ \A i \in 1..Len(installed) : installed[i] \in Entries
  BY <1>1 DEF TypeOK
<1>5. /\ installed' \in Seq(Entries)
      /\ Len(installed') = Len(installed) - 1
      /\ \A i \in 1..Len(installed') :
           installed'[i] = installed[IF i < p THEN i ELSE i + 1]
      /\ \A i \in Nat : At(i)' = IF i < p THEN At(i) ELSE At(i + 1)
  BY <1>1, <1>2, <1>3, Removed
<1>6. next[e] = At(p + 1) /\ prev[e] = At(p - 1)
  BY <1>1, <1>3 DEF ListExact
<1>7. TypeOK'
  <2>1. next[e] \in Entries \cup {Null} /\ prev[e] \in Entries \cup {Null}
    BY <1>1, <1>2 DEF TypeOK
  <2>2. QED
    BY <1>1, <1>2, <1>5, <2>1 DEF TypeOK
<1>8. Distinct'
  <2>1. SUFFICES ASSUME NEW i \in 1..Len(installed'), NEW j \in 1..Len(installed'),
                        installed'[i] = installed'[j]
                 PROVE  i = j
    BY DEF Distinct
  <2> DEFINE was(k) == IF k < p THEN k ELSE k + 1
  <2> HIDE DEF was
  <2>2. was(i) \in 1..Len(installed) /\ was(j) \in 1..Len(installed)
    <3>1. Len(installed') = Len(installed) - 1
      BY <1>5
    <3>2. QED
      BY <1>4, <3>1 DEF was
  <2>3. installed[was(i)] = installed[was(j)]
    BY <1>5, <2>1 DEF was
  <2>4. was(i) = was(j)
    BY <1>1, <2>2, <2>3 DEF Distinct
  <2>5. QED
    BY <2>4 DEF was
<1>9. head' = At(1)'
  <2>1. head = At(1)
    BY <1>1 DEF ListExact
  <2>2. At(1)' = IF 1 < p THEN At(1) ELSE At(1 + 1)
    BY <1>5
  <2>3. CASE p = 1
    <3>1. prev[e] = Null
      BY <1>6, <2>3 DEF At
    <3>2. QED
      BY <1>2, <1>6, <2>2, <2>3, <3>1
  <2>4. CASE p > 1
    <3>1. prev[e] # Null
      BY <1>1, <1>4, <1>6, <2>4, AtType
    <3>2. QED
      BY <1>2, <2>1, <2>2, <2>4, <3>1
  <2>5. QED
    BY <2>3, <2>4
<1>10. ASSUME NEW i \in 1..Len(installed')
       PROVE  next'[installed'[i]] = At(i + 1)' /\ prev'[installed'[i]] = At(i - 1)'
  <2> DEFINE k == IF i < p THEN i ELSE i + 1
             f == installed[k]
  <2>1. k \in 1..Len(installed) /\ installed'[i] = f /\ f \in Entries /\ k # p
    <3>1. Len(installed') = Len(installed) - 1 /\ installed'[i] = f
      BY <1>5
    <3>2. k \in 1..Len(installed) /\ k # p
      BY <1>4, <3>1
    <3>3. QED
      BY <1>4, <3>1, <3>2
  <2>2. next[f] = At(k + 1) /\ prev[f] = At(k - 1)
    BY <1>1, <2>1 DEF ListExact
  <2>3. /\ next'[f] = IF f = prev[e] THEN next[e] ELSE next[f]
        /\ prev'[f] = IF f = next[e] THEN prev[e] ELSE prev[f]
    BY <1>2, <2>1
  <2>4. f = prev[e] <=> k = p - 1
    BY <1>1, <1>4, <1>6, <2>1, NotifyAssumption DEF At, Distinct
  <2>5. f = next[e] <=> k = p + 1
    BY <1>1, <1>4, <1>6, <2>1, NotifyAssumption DEF At, Distinct
  <2>6. /\ At(i + 1)' = IF i + 1 < p THEN At(i + 1) ELSE At((i + 1) + 1)
        /\ At(i - 1)' = IF i - 1 < p THEN At(i - 1) ELSE At((i - 1) + 1)
    <3>1. i + 1 \in Nat /\ i - 1 \in Nat
      BY <1>4, <1>5
    <3>2. QED
      BY <1>5, <3>1
  <2>7. next'[f] = At(i + 1)'
    <3>1. CASE i < p
      <4>1. k = i
        BY <3>1
      <4>2. CASE i = p - 1
        <5>1. (i + 1) + 1 = p + 1 /\ ~(i + 1 < p)
          BY <4>2
        <5>2. QED
          BY <1>6, <2>3, <2>4, <2>6, <4>1, <4>2, <5>1
      <4>3. CASE i # p - 1
        <5>1. i + 1 < p
          BY <3>1, <4>3
        <5>2. QED
          BY <2>2, <2>3, <2>4, <2>6, <4>1, <4>3, <5>1
      <4>4. QED
        BY <4>2, <4>3
    <3>2. CASE i >= p
      <4>1. k = i + 1 /\ k # p - 1 /\ ~(i + 1 < p)
        BY <3>2
      <4>2. QED
        BY <2>2, <2>3, <2>4, <2>6, <4>1
    <3>3. QED
      BY <3>1, <3>2
  <2>8. prev'[f] = At(i - 1)'
    <3>1. CASE i < p
      <4>1. k = i /\ k # p + 1 /\ i - 1 < p
        BY <3>1
      <4>2. QED
        BY <2>2, <2>3, <2>5, <2>6, <4>1
    <3>2. CASE i = p
      <4>1. k = p + 1 /\ i - 1 < p
        BY <3>2
      <4>2. QED
        BY <1>6, <2>3, <2>5, <2>6, <3>2, <4>1
    <3>3. CASE i > p
      <4>1. k = i + 1 /\ k # p + 1 /\ ~(i - 1 < p)
        BY <3>3
      <4>2. (i - 1) + 1 = i /\ k - 1 = i
        BY <4>1
      <4>3. QED
        BY <2>2, <2>3, <2>5, <2>6, <4>1, <4>2
    <3>4. QED
      BY <3>1, <3>2, <3>3
  <2>9. QED
    BY <2>1, <2>7, <2>8
<1>11. ASSUME NEW f \in Entries
       PROVE  Allocated(f)' <=> \E i \in 1..Len(installed') : installed'[i] = f
  <2>1. CASE f = e
    <3>1. ~Allocated(f)'
      BY <1>1, <1>2, <2>1 DEF TypeOK, Allocated
    <3>2. ASSUME NEW i \in 1..Len(installed'), installed'[i] = f
          PROVE  FALSE
      <4> DEFINE k == IF i < p THEN i ELSE i + 1
      <4>1. Len(installed') = Len(installed) - 1 /\ installed[k] = installed[p]
        BY <1>3, <1>5, <2>1, <3>2
      <4>2. k \in 1..Len(installed) /\ k # p
        BY <1>4, <4>1
      <4>3. QED
        BY <1>1, <4>1, <4>2 DEF Distinct
    <3>3. QED
      BY <3>1, <3>2
  <2>2. CASE f # e
    <3>1. Allocated(f)' <=> Allocated(f)
      BY <1>1, <1>2, <2>2 DEF TypeOK, Allocated
    <3>2. Allocated(f) <=> \E i \in 1..Len(installed) : installed[i] = f
      BY <1>1 DEF ListExact
    <3>3. ASSUME NEW k \in 1..Len(installed), installed[k] = f
          PROVE  \E i \in 1..Len(installed') : installed'[i] = f
      <4> DEFINE i == IF k < p THEN k ELSE k - 1
      <4>1. k # p
        BY <1>3, <2>2, <3>3
      <4>2. i \in 1..Len(installed') /\ (IF i < p THEN i ELSE i + 1) = k
        BY <1>4, <1>5, <4>1
      <4>3. installed'[i] = installed[k]
        BY <1>5, <4>2
      <4>4. QED
        BY <3>3, <4>2, <4>3
    <3>4. ASSUME NEW i \in 1..Len(installed'), installed'[i] = f
          PROVE  \E k \in 1..Len(installed) : installed[k] = f
      <4> DEFINE k == IF i < p THEN i ELSE i + 1
      <4>1. Len(installed') = Len(installed) - 1 /\ installed[k] = f
        BY <1>5, <3>4
      <4>2. k \in 1..Len(installed)
        BY <1>4, <4>1
      <4>3. QED
        BY <4>1, <4>2
    <3>5. QED
      BY <3>1, <3>2, <3>3, <3>4
  <2>3. QED
    BY <2>1, <2>2
<1>12. QED
  BY <1>7, <1>8, <1>9, <1>10, <1>11 DEF ListExact

-----------------------------------------------------------------------------
\* The walks of on_notify.
LEMMA WalksKeep ==
  ASSUME IInv, [Next]_vars
  PROVE  OutersCall' /\ NoFreedRead' /\ Passed'
<1>1. /\ TypeOK /\ ListExact /\ Distinct /\ OutersCall /\ NoFreedRead /\ Passed
  BY DEF IInv
<1>2. Len(walks) \in Nat /\ (walks # <<>> => Len(walks) > 0)
  BY <1>1 DEF TypeOK
<1>3. ASSUME UNCHANGED vars
      PROVE  OutersCall' /\ NoFreedRead' /\ Passed'
  BY <1>1, <1>3 DEF vars, list, OutersCall, NoFreedRead, Passed, Walk, Allocated
\* Between two entries there is no change.
<1>4. ASSUME MayChange, UNCHANGED walks
      PROVE  OutersCall' /\ NoFreedRead' /\ Passed'
  BY <1>1, <1>4 DEF MayChange, OutersCall, NoFreedRead, Passed, Walk
<1>5. ASSUME NEW e \in Entries, NEW n \in Nodes, Install(e, n)
      PROVE  OutersCall' /\ NoFreedRead' /\ Passed'
  BY <1>4, <1>5 DEF Install
<1>6. ASSUME NEW n \in Nodes, Uninstall(n)
      PROVE  OutersCall' /\ NoFreedRead' /\ Passed'
  BY <1>4, <1>6 DEF Uninstall
<1>7. ASSUME NEW n \in Nodes, NotifyBegin(n)
      PROVE  OutersCall' /\ NoFreedRead' /\ Passed'
  <2> DEFINE w == [at |-> head, for |-> n, calling |-> FALSE]
  <2>1. /\ walks' = Append(walks, w) /\ MayChange
        /\ UNCHANGED <<head, node, prev, next, installed>>
    BY <1>7 DEF NotifyBegin, list
  <2>2. /\ Len(walks') = Len(walks) + 1 /\ Walk' = w
        /\ \A i \in 1..Len(walks) : walks'[i] = walks[i]
    BY <1>1, <2>1 DEF TypeOK, Walk
  <2>3. OutersCall'
    <3>1. \A i \in 1..Len(walks) : walks[i].calling
      BY <1>1, <1>2, <2>1 DEF MayChange, Walk, OutersCall
    <3>2. QED
      BY <1>2, <2>2, <3>1 DEF OutersCall
  <2>4. NoFreedRead'
    <3>1. SUFFICES ASSUME head # Null PROVE Allocated(head)
      BY <2>1, <2>2 DEF NoFreedRead, Allocated
    <3>2. QED
      BY <1>1, <3>1 DEF ListExact, At, TypeOK
  <2>5. Passed'
    <3>1. SUFFICES ASSUME NEW i \in 1..Len(installed), installed[i] = head
                   PROVE  i = 1
      BY <2>1, <2>2 DEF Passed
    <3>2. installed[i] \in Entries
      BY <1>1 DEF TypeOK
    <3>3. QED
      BY <1>1, <3>1, <3>2, NotifyAssumption DEF ListExact, At, Distinct
  <2>6. QED
    BY <2>3, <2>4, <2>5
<1>8. ASSUME NotifySkip
      PROVE  OutersCall' /\ NoFreedRead' /\ Passed'
  <2> DEFINE w == [Walk EXCEPT !.at = next[Walk.at]]
  <2>1. /\ walks # <<>> /\ ~Walk.calling /\ Walk.at # Null /\ node[Walk.at] # Walk.for
        /\ walks' = [walks EXCEPT ![Len(walks)] = w]
        /\ UNCHANGED <<head, node, prev, next, installed>>
    BY <1>8 DEF NotifySkip, SetWalk, list
  <2>2. Walk \in Walks
    BY <1>1, <2>1, LastOf DEF TypeOK, Walk
  <2>3. w \in Walks /\ w.at = next[Walk.at] /\ w.for = Walk.for /\ ~w.calling
    <3>1. next[Walk.at] \in Entries \cup {Null}
      BY <1>1, <2>1, <2>2 DEF TypeOK, Walks
    <3>2. QED
      BY <2>1, <2>2, <3>1 DEF Walks
  <2> HIDE DEF w
  <2>4. /\ Len(walks') = Len(walks) /\ Walk' = w
        /\ \A i \in 1..(Len(walks) - 1) : walks'[i] = walks[i]
    BY <1>1, <2>1, <2>3, LastSet DEF TypeOK, Walk
  <2>5. PICK p \in 1..Len(installed) : installed[p] = Walk.at
    BY <1>1, <2>1, <2>2 DEF NoFreedRead, ListExact, Walks
  <2>6. w.at = At(p + 1)
    BY <1>1, <2>3, <2>5 DEF ListExact
  <2>7. OutersCall'
    BY <1>1, <2>4 DEF OutersCall
  <2>8. NoFreedRead'
    <3>1. SUFFICES ASSUME w.at # Null PROVE Allocated(w.at)
      BY <2>1, <2>4 DEF NoFreedRead, Allocated
    <3>2. p + 1 \in 1..Len(installed) /\ w.at = installed[p + 1] /\ w.at \in Entries
      BY <1>1, <2>6, <3>1 DEF At, TypeOK
    <3>3. QED
      BY <1>1, <3>2 DEF ListExact
  <2>9. Passed'
    <3>1. SUFFICES ASSUME NEW i \in 1..Len(installed), installed[i] = w.at,
                          NEW j \in 1..(i - 1)
                   PROVE  node[installed[j]] # Walk.for
      BY <2>1, <2>3, <2>4 DEF Passed
    <3>2. i = p + 1
      <4>1. installed[i] \in Entries
        BY <1>1 DEF TypeOK
      <4>2. p + 1 \in 1..Len(installed) /\ installed[i] = installed[p + 1]
        BY <2>6, <3>1, <4>1, NotifyAssumption DEF At
      <4>3. QED
        BY <1>1, <4>2 DEF Distinct
    <3>3. CASE j = p
      BY <2>1, <2>5, <3>3
    <3>4. CASE j # p
      <4>1. j \in 1..(p - 1)
        BY <3>2, <3>4
      <4>2. QED
        BY <1>1, <2>1, <2>5, <4>1 DEF Passed
    <3>5. QED
      BY <3>3, <3>4
  <2>10. QED
    BY <2>7, <2>8, <2>9
<1>9. ASSUME NotifyCall
      PROVE  OutersCall' /\ NoFreedRead' /\ Passed'
  <2> DEFINE w == [Walk EXCEPT !.calling = TRUE]
  <2>1. walks # <<>> /\ walks' = [walks EXCEPT ![Len(walks)] = w]
    BY <1>9 DEF NotifyCall, SetWalk
  <2>2. Walk \in Walks
    BY <1>1, <2>1, LastOf DEF TypeOK, Walk
  <2>3. w \in Walks /\ w.calling
    BY <2>2 DEF Walks
  <2> HIDE DEF w
  <2>4. /\ Len(walks') = Len(walks) /\ Walk' = w
        /\ \A i \in 1..(Len(walks) - 1) : walks'[i] = walks[i]
    BY <1>1, <2>1, <2>3, LastSet DEF TypeOK, Walk
  <2>5. QED
    BY <1>1, <2>3, <2>4 DEF OutersCall, NoFreedRead, Passed
\* When a walk ends, the one around it is in a call.
<1>10. ASSUME walks # <<>>, walks' = SubSeq(walks, 1, Len(walks) - 1)
       PROVE  OutersCall' /\ NoFreedRead' /\ Passed'
  <2>1. /\ Len(walks') = Len(walks) - 1
        /\ \A i \in 1..Len(walks') : walks'[i] = walks[i]
    <3>1. walks \in Seq(Walks)
      BY <1>1 DEF TypeOK
    <3>2. QED
      BY <1>10, <3>1, LastDropped
  <2>2. \A i \in 1..Len(walks') : walks'[i].calling
    BY <1>1, <2>1 DEF OutersCall
  <2>3. walks' # <<>> => Walk'.calling
    <3>1. walks' # <<>> => Len(walks') \in 1..Len(walks')
      BY <1>1, <1>10, LastDropped, LastOf DEF TypeOK
    <3>2. QED
      BY <2>2, <3>1 DEF Walk
  <2>4. OutersCall'
    BY <1>2, <2>1, <2>2 DEF OutersCall
  <2>5. QED
    BY <2>3, <2>4 DEF NoFreedRead, Passed
<1>11. CASE NotifyReturn
  BY <1>10, <1>11 DEF NotifyReturn
<1>12. CASE NotifyNone
  BY <1>10, <1>12 DEF NotifyNone
<1>13. QED
  BY <1>3, <1>5, <1>6, <1>7, <1>8, <1>9, <1>11, <1>12 DEF Next

LEMMA ListKept ==
  ASSUME IInv, UNCHANGED list, walks' \in Seq(Walks)
  PROVE  TypeOK' /\ ListExact' /\ Distinct'
<1>1. TypeOK /\ ListExact /\ Distinct
  BY DEF IInv
<1>2. TypeOK'
  BY <1>1 DEF TypeOK, list
<1>3. ListExact'
  BY <1>1 DEF ListExact, At, Allocated, list
<1>4. Distinct'
  BY <1>1 DEF Distinct, list
<1>5. QED
  BY <1>2, <1>3, <1>4

LEMMA WalksType ==
  ASSUME IInv, UNCHANGED walks \/ (\E n \in Nodes : NotifyBegin(n)) \/ NotifySkip
                 \/ NotifyCall \/ NotifyReturn \/ NotifyNone
  PROVE  walks' \in Seq(Walks)
<1>1. /\ walks \in Seq(Walks) /\ head \in Entries \cup {Null}
      /\ next \in [Entries -> Entries \cup {Null}]
  BY DEF IInv, TypeOK
<1>2. walks # <<>> => Walk \in Walks
  BY <1>1, LastOf DEF Walk
<1>3. ASSUME NEW n \in Nodes, NotifyBegin(n)
      PROVE  walks' \in Seq(Walks)
  <2>1. [at |-> head, for |-> n, calling |-> FALSE] \in Walks
    BY <1>1 DEF Walks
  <2>2. QED
    BY <1>1, <1>3, <2>1 DEF NotifyBegin
<1>4. ASSUME walks # <<>>, NEW w \in Walks, SetWalk(w)
      PROVE  walks' \in Seq(Walks)
  BY <1>1, <1>4, LastSet DEF SetWalk
<1>5. CASE NotifySkip
  <2>1. walks # <<>> /\ Walk.at # Null /\ SetWalk([Walk EXCEPT !.at = next[Walk.at]])
    BY <1>5 DEF NotifySkip
  <2>2. next[Walk.at] \in Entries \cup {Null}
    BY <1>1, <1>2, <2>1 DEF Walks
  <2>3. [Walk EXCEPT !.at = next[Walk.at]] \in Walks
    BY <1>2, <2>1, <2>2 DEF Walks
  <2>4. QED
    BY <1>4, <2>1, <2>3
<1>6. CASE NotifyCall
  <2>1. walks # <<>> /\ SetWalk([Walk EXCEPT !.calling = TRUE])
    BY <1>6 DEF NotifyCall
  <2>2. [Walk EXCEPT !.calling = TRUE] \in Walks
    BY <1>2, <2>1 DEF Walks
  <2>3. QED
    BY <1>4, <2>1, <2>2
<1>7. ASSUME walks # <<>>, walks' = SubSeq(walks, 1, Len(walks) - 1)
      PROVE  walks' \in Seq(Walks)
  BY <1>1, <1>7, LastDropped
<1>8. QED
  BY <1>1, <1>3, <1>5, <1>6, <1>7 DEF NotifyReturn, NotifyNone

LEMMA Inductive ==
  ASSUME IInv, [Next]_vars
  PROVE  IInv'
<1>1. TypeOK' /\ ListExact' /\ Distinct'
  <2>1. CASE \E e \in Entries, n \in Nodes : Install(e, n)
    BY <2>1, InstallKeeps
  <2>2. CASE \E n \in Nodes : Uninstall(n)
    BY <2>2, UninstallKeeps
  <2>3. CASE \E n \in Nodes : NotifyBegin(n)
    <3>1. UNCHANGED list
      BY <2>3 DEF NotifyBegin
    <3>2. QED
      BY <2>3, <3>1, WalksType, ListKept
  <2>4. CASE NotifySkip \/ NotifyCall \/ NotifyReturn \/ NotifyNone
    <3>1. UNCHANGED list
      BY <2>4 DEF NotifySkip, NotifyCall, NotifyReturn, NotifyNone
    <3>2. QED
      BY <2>4, <3>1, WalksType, ListKept
  <2>5. CASE UNCHANGED vars
    <3>1. UNCHANGED list /\ UNCHANGED walks
      BY <2>5 DEF vars
    <3>2. QED
      BY <3>1, WalksType, ListKept
  <2>6. QED
    BY <2>1, <2>2, <2>3, <2>4, <2>5 DEF Next
<1>2. QED
  BY <1>1, WalksKeep DEF IInv

LEMMA Invariance == Spec => []IInv
<1>1. Init => IInv
  <2>1. SUFFICES ASSUME Init PROVE IInv
    OBVIOUS
  <2>2. installed = <<>> /\ walks = <<>> /\ head = Null
    BY <2>1 DEF Init
  <2>3. TypeOK
    BY <2>1 DEF Init, TypeOK
  <2>4. ListExact
    BY <2>1 DEF Init, ListExact, At, Allocated
  <2>5. Distinct /\ OutersCall /\ NoFreedRead /\ Passed
    BY <2>2 DEF Distinct, OutersCall, NoFreedRead, Passed
  <2>6. QED
    BY <2>3, <2>4, <2>5 DEF IInv
<1>2. IInv /\ [Next]_vars => IInv'
  BY Inductive
<1>3. QED
  BY <1>1, <1>2, PTL DEF Spec

\* The list of notify handlers is linked as it was installed and on_notify reads no
\* freed entry, whatever handlers install and uninstall from within a call
\* (src/src/event.cpp:698-747).
THEOREM HandlersSound == Spec => []ListSound
<1>1. IInv => ListSound
  BY DEF IInv, ListSound
<1>2. QED
  BY <1>1, Invariance, PTL

\* on_notify calls the handler that was installed last for the node
\* (src/src/event.cpp:740).
THEOREM CallsLatest == Spec => LatestCalled
<1> DEFINE A == NotifyCall =>
                  \A i \in 1..Len(installed) :
                    installed[i] = Walk.at =>
                      \A j \in 1..(i - 1) : node[installed[j]] # Walk.for
<1>1. IInv => A
  BY DEF IInv, Passed, NotifyCall
<1>2. IInv /\ [Next]_vars => [A]_vars
  BY <1>1
<1>3. QED
  BY <1>2, Invariance, PTL DEF Spec, LatestCalled
=============================================================================
