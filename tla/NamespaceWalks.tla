---------------------------- MODULE NamespaceWalks ----------------------------
(***************************************************************************)
(* The walks over the namespace of src/src/context.cpp: init_namespace     *)
(* with its _STA and _INI, the two searches by _HID and _CID, and          *)
(* iterate_nodes. Each keeps a stack of nodes to come; the AML it          *)
(* evaluates may load tables, which add nodes while it runs. What a method *)
(* answers is chosen when it is evaluated, once for each node.             *)
(***************************************************************************)
EXTENDS Naturals, FiniteSets, Sequences, SequencesExt

CONSTANTS Root, Sb, Ids,  \* the root, \_SB, and other nodes
          Null,
          Walks,          \* the walks that the host begins
          MayHaveSta,     \* those of Root and Sb that may have a _STA
          MaxElements     \* bound: the ids in a _CID package

ASSUME NamespaceWalksAssumption ==
  /\ Root # Sb /\ {Root, Sb} \cap Ids = {} /\ Null \notin Ids \cup {Root, Sb}
  /\ Walks \subseteq {"init", "eisa", "string", "iterate"}
  /\ MayHaveSta \subseteq {Root, Sb}
  /\ MaxElements \in Nat

Nodes == Ids \cup {Root, Sb}

\* What _STA answers: present, not present but functioning, neither, an error
Stas == {"present", "functioning", "absent", "fails"}
\* What a node is to init_namespace: an alias, a node with a _STA, a device or
\* another node without one.
Sorts == {"alias", "device", "other"} \cup Stas
\* What an id is to a search: one that is looked for, another, or in a package
\* an object that is no id (a string that is too short, or another package)
IdKinds == {"match", "other", "odd"}

VARIABLES children, \* the namespace
          walk,     \* the walk the host has begun, Null before
          phase,    \* where it is
          stack,    \* the nodes to come, the last one next
          cur,      \* the node it is at
          sort,     \* history: what a node was found to be, Null before
          order,    \* history: the nodes whose _INI was evaluated
          rest,     \* the elements of a _CID package that are left
          id,       \* cid_id: whether it is one of those looked for
          matched,
          matches,  \* history: nodes with an id that is looked for
          calls,    \* history: the nodes the host's function was called with
          early,    \* history: the nodes at the start of the walk
          seen      \* history: the nodes that were taken from the stack

search == <<rest, id, matched, matches, calls>>
vars == <<children, walk, phase, stack, cur, sort, order, search, early, seen>>

InTree == {Root} \cup UNION {ToSet(children[n]) : n \in Nodes}

Init ==
  /\ children = [n \in Nodes |-> IF n = Root THEN <<Sb>> ELSE <<>>]
  /\ walk = Null /\ phase = "idle"
  /\ stack = <<>> /\ cur = Null
  /\ sort = [n \in Nodes |-> Null] /\ order = <<>>
  /\ rest = <<>> /\ id = "other" /\ matched = FALSE
  /\ matches = {} /\ calls = <<>>
  /\ early = {} /\ seen = {}

\* A table is loaded, by load_namespace before the walk or by AML in it: it adds
\* a node, which of those that are free makes no difference.
Load(n) ==
  /\ phase \in {"idle", "root", "sb", "sta", "ini", "hid", "cid"}
  /\ n \in InTree /\ Ids \ InTree # {}
  /\ children' = [children EXCEPT ![n] = Append(@, CHOOSE child \in Ids \ InTree : TRUE)]
  /\ UNCHANGED <<walk, phase, stack, cur, sort, order, search, early, seen>>

-----------------------------------------------------------------------------
\* The start of a walk: of init_namespace at the root, of a search anywhere, or
\* at the root when the host names no node.
Begin(w, start) ==
  /\ phase = "idle" /\ w \in Walks
  /\ start \in InTree \cup {Null} /\ (w = "init" => start = Root)
  /\ walk' = w
  /\ phase' = IF w = "init" THEN "root" ELSE "next"
  /\ stack' = <<IF start = Null THEN Root ELSE start>>
  /\ early' = InTree
  /\ UNCHANGED <<children, cur, sort, order, search, seen>>

\* init_namespace begins with the _INI of the root and of \_SB.
RootIni ==
  /\ phase = "root"
  /\ phase' = "sb" /\ order' = Append(order, Root)
  /\ UNCHANGED <<children, walk, stack, cur, sort, search, early, seen>>

SbIni ==
  /\ phase = "sb"
  /\ phase' = "next" /\ order' = Append(order, Sb)
  /\ UNCHANGED <<children, walk, stack, cur, sort, search, early, seen>>

Take ==
  /\ phase = "next" /\ stack # <<>>
  /\ cur' = Last(stack) /\ stack' = Front(stack)
  /\ seen' = seen \cup {cur'}
  /\ phase' = CASE walk = "init" -> "sta" [] walk = "iterate" -> "fn" [] OTHER -> "hid"
  /\ rest' = <<>> /\ id' = "other" /\ matched' = FALSE
  /\ UNCHANGED <<children, walk, sort, order, matches, calls, early>>

End ==
  /\ phase = "next" /\ stack = <<>>
  /\ phase' = "done"
  /\ UNCHANGED <<children, walk, stack, cur, sort, order, search, early, seen>>

-----------------------------------------------------------------------------
\* What a node may turn out to be
May(n) ==
  CASE n = Root -> {"other"} \cup (IF n \in MayHaveSta THEN Stas ELSE {})
    [] n = Sb   -> {"device"} \cup (IF n \in MayHaveSta THEN Stas ELSE {})
    [] OTHER    -> Sorts

\* Whether the children of such a node are examined
Opens(s) == s \in {"present", "functioning", "device", "other"}

\* Whether its _INI is evaluated; that of \_SB has been if there is no _STA.
RunsIni(n, s) == s = "present" \/ (s = "device" /\ n # Sb)

\* The alias test, _STA, and what is done about it
Sta(s) ==
  /\ phase = "sta"
  /\ s \in May(cur)
  /\ sort' = [sort EXCEPT ![cur] = s]
  /\ phase' = IF RunsIni(cur, s) THEN "ini" ELSE IF Opens(s) THEN "push" ELSE "next"
  /\ UNCHANGED <<children, walk, stack, cur, order, search, early, seen>>

Ini ==
  /\ phase = "ini"
  /\ order' = Append(order, cur)
  /\ phase' = IF Opens(sort[cur]) THEN "push" ELSE "next"
  /\ UNCHANGED <<children, walk, stack, cur, sort, search, early, seen>>

Push_Forward ==
  /\ phase = "push"
  /\ phase' = "next"
  /\ stack' = stack \o children[cur]
  /\ UNCHANGED <<children, walk, cur, sort, order, search, early, seen>>
Push_Keeps ==
  /\ phase = "push"
  /\ phase' = "next"
  /\ stack' = stack \o <<cur>> \o Reverse(children[cur])
  /\ UNCHANGED <<children, walk, cur, sort, order, search, early, seen>>
\* init_namespace pushes the last child first, the searches the first one.
Push ==
  /\ phase = "push"
  /\ phase' = "next"
  /\ stack' = stack \o (IF walk = "init" THEN Reverse(children[cur]) ELSE children[cur])
  /\ UNCHANGED <<children, walk, cur, sort, order, search, early, seen>>

-----------------------------------------------------------------------------
\* fn is called with the node; Break ends the walk.
Called(then) ==
  /\ calls' = Append(calls, cur)
  /\ phase' \in {then, "broken"}

Visit ==
  /\ phase = "fn"
  /\ Called("push")
  /\ UNCHANGED <<children, walk, stack, cur, sort, order, rest, id, matched, matches, early, seen>>

\* An evaluation that fails otherwise than with NotFound ends the search.
EvaluateFails ==
  /\ phase \in {"hid", "cid"}
  /\ phase' = "failed"
  /\ UNCHANGED <<children, walk, stack, cur, sort, order, search, early, seen>>

Found(k) == matches' = IF k = "match" THEN matches \cup {cur} ELSE matches

\* _HID; the search by string looks at _CID only if it does not match.
Hid(k) ==
  /\ phase = "hid" /\ k # "odd"
  /\ Found(k)
  /\ matched' = (k = "match")
  /\ IF k = "match" THEN Called(IF walk = "string" THEN "push" ELSE "cid")
     ELSE phase' = "cid" /\ UNCHANGED calls
  /\ UNCHANGED <<children, walk, stack, cur, sort, order, rest, id, early, seen>>

\* _CID with one id
Cid(k) ==
  /\ phase = "cid" /\ k # "odd"
  /\ Found(k)
  /\ IF k = "match" /\ ~matched THEN Called("push") ELSE phase' = "push" /\ UNCHANGED calls
  /\ UNCHANGED <<children, walk, stack, cur, sort, order, rest, id, matched, early, seen>>

\* _CID with a package of ids
CidPackage(ids) ==
  /\ phase = "cid" /\ ids \in SeqOf(IdKinds, MaxElements)
  /\ rest' = ids /\ phase' = "elements"
  /\ matches' = IF "match" \in ToSet(ids) THEN matches \cup {cur} ELSE matches
  /\ UNCHANGED <<children, walk, stack, cur, sort, order, id, matched, calls, early, seen>>

Element_NoBreak ==
  LET is == Head(rest)
  IN  /\ phase = "elements" /\ rest # <<>>
      /\ id' = is /\ rest' = Tail(rest)
      /\ IF is = "match" THEN Called("elements") ELSE UNCHANGED <<phase, calls>>
      /\ UNCHANGED <<children, walk, stack, cur, sort, order, matched, matches, early, seen>>
\* The search by string stops at the first element that matches. The one by
\* EISA id goes on, and takes an element that is no id for the one before it.
Element ==
  LET is == IF Head(rest) = "odd" THEN id ELSE Head(rest)
      hit == IF walk = "string" THEN Head(rest) = "match" ELSE is = "match"
  IN  /\ phase = "elements" /\ rest # <<>>
      /\ id' = is
      /\ rest' = IF walk = "string" /\ hit THEN <<>> ELSE Tail(rest)
      /\ IF hit THEN Called("elements") ELSE UNCHANGED <<phase, calls>>
      /\ UNCHANGED <<children, walk, stack, cur, sort, order, matched, matches, early, seen>>

ElementsEnd ==
  /\ phase = "elements" /\ rest = <<>>
  /\ phase' = "push"
  /\ UNCHANGED <<children, walk, stack, cur, sort, order, search, early, seen>>

-----------------------------------------------------------------------------
Step ==
  \/ RootIni \/ SbIni \/ Take \/ End \/ (\E s \in Sorts : Sta(s)) \/ Ini \/ Push
  \/ Visit \/ EvaluateFails \/ (\E k \in IdKinds : Hid(k) \/ Cid(k))
  \/ (\E ids \in SeqOf(IdKinds, MaxElements) : CidPackage(ids)) \/ Element \/ ElementsEnd

Next ==
  \/ Step
  \/ \E n \in Nodes : Load(n)
  \/ \E w \in Walks, start \in Nodes \cup {Null} : Begin(w, start)

\* A walk goes on: it is a loop of one thread, and its AML returns.
Spec == Init /\ [][Next]_vars /\ WF_vars(Step)

-----------------------------------------------------------------------------
TypeOK ==
  /\ children \in [Nodes -> Seq(Ids \cup {Sb})]
  /\ ToSet(stack) \subseteq InTree /\ cur \in InTree \cup {Null}
  /\ sort \in [Nodes -> Sorts \cup {Null}]
  /\ ToSet(order) \cup ToSet(calls) \cup seen \subseteq InTree
  /\ matches \subseteq seen

ParentOf(n) == CHOOSE m \in Nodes : n \in ToSet(children[m])
AboveOf(n) ==
  LET f[k \in Nat, m \in Nodes] ==
        IF k = 0 \/ m = Root THEN {} ELSE {ParentOf(m)} \cup f[k - 1, ParentOf(m)]
  IN  f[Cardinality(Nodes), n]

\* m comes before n in the tree: it is above it, or on an earlier branch.
Before(m, n) ==
  \/ m \in AboveOf(n)
  \/ \E p \in AboveOf(m) \cap AboveOf(n) :
       \E i, j \in DOMAIN children[p] :
         /\ i < j
         /\ children[p][i] = m \/ children[p][i] \in AboveOf(m)
         /\ children[p][j] = n \/ children[p][j] \in AboveOf(n)

\* init_namespace evaluates no _INI twice, whatever its methods load.
IniOnce == IsInjective(order)

\* It initialises what is above before what is below, and the nodes of one
\* parent in the order in which they were created.
IniInOrder ==
  \A i, j \in 3..Len(order) : i < j => Before(order[i], order[j])

\* It initialises nothing that is not present, and nothing below a node that is
\* neither present nor functioning, an alias, or a node whose _STA fails.
AbsentStaysQuiet ==
  \A i \in 3..Len(order) :
    /\ sort[order[i]] \in {"present", "device"}
    /\ \A m \in AboveOf(order[i]) : sort[m] \in {"present", "functioning", "device", "other"}

\* And it leaves out none of the devices that were there when it began.
AllInitialised ==
  walk = "init" /\ phase = "done" =>
    \A n \in early :
      (\A m \in AboveOf(n) : sort[m] \in {"present", "functioning", "device", "other"}) =>
         n \in seen /\ (sort[n] \in {"present", "device"} => n \in ToSet(order))

\* A search calls the function with exactly the nodes below its start that have
\* one of the ids (src/README.md:75, "discover all nodes starting at the root
\* node whose _HID/_CID matches any of the given strings").
FoundExact ==
  /\ walk \in {"eisa", "string"} /\ phase = "push" => (cur \in matches <=> cur \in ToSet(calls))
  /\ walk \in {"eisa", "string"} /\ phase = "done" => ToSet(calls) = matches

\* A walk that is not broken off comes to every node below its start that was
\* there when it began.
Complete ==
  walk \in {"eisa", "string", "iterate"} /\ phase = "done" =>
    \A n \in early : (\E m \in AboveOf(n) : m \in seen) => n \in seen

\* The search by string, and iterate_nodes, call the function once for a node.
CalledOnce == walk \in {"string", "iterate"} => IsInjective(calls)

\* Every walk comes to its end, though tables are loaded while it runs.
WalkEnds == (phase = "next") ~> (phase \in {"done", "broken", "failed"})

\* init_namespace: once, in order, nothing below what is absent, nothing left out.
Initialised == TypeOK /\ IniOnce /\ IniInOrder /\ AbsentStaysQuiet /\ AllInitialised

\* discover_nodes and iterate_nodes: exactly what matches, wherever it is, once.
Discovered == FoundExact /\ Complete /\ CalledOnce
=============================================================================
