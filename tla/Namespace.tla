------------------------------ MODULE Namespace ------------------------------
(***************************************************************************)
(* The namespace of a context and who owns its nodes: the search and the   *)
(* creation of nodes by path (src/src/context.cpp, create_or_find_node),   *)
(* the operations that name something, Scope and Device, and the calls and *)
(* loads of src/src/interpreter.cpp, which own the nodes they create until *)
(* they end (~MethodFrame). One interpreter; its frames are those that     *)
(* move current_scope or own nodes.                                        *)
(***************************************************************************)
EXTENDS Naturals, FiniteSets, Sequences, SequencesExt

CONSTANTS Root, Ids,     \* the root, and memory for other nodes
          Names,         \* name segments
          Null,
          Paths,         \* the paths AML uses to create something
          MaxFrames      \* bound: frames inside of each other

\* A path starts at the root, or some parents above the current scope.
ASSUME NamespaceAssumption ==
  /\ Root \notin Ids /\ Null \notin Ids \cup {Root}
  /\ IsFiniteSet(Ids) /\ IsFiniteSet(Names)
  /\ \A p \in Paths : /\ p.from \in {"root", "scope"} /\ p.up \in Nat
                      /\ p.segs \in Seq(Names) \ {<<>>}
  /\ MaxFrames \in Nat \ {0}

Nodes == Ids \cup {Root}

VARIABLES live,      \* the nodes that are allocated
          name, parent, children,
          kind,      \* the object of a node: none, value, device or method
          permanent, \* all_nodes
          frames,    \* the frames, the innermost last
          scope,     \* current_scope
          stray,     \* nodes that stay in no list: what an abandoned load made
          misfreed,  \* history: a node was removed from a parent that is not there
          cutShort   \* history: parse has returned at once inside of nested methods

tree == <<live, name, parent, children, kind>>
fate == <<stray, misfreed, cutShort>>
vars == <<tree, permanent, frames, scope, fate>>

Init ==
  /\ live = {Root}
  /\ name = [n \in Nodes |-> Null] /\ parent = [n \in Nodes |-> Null]
  /\ children = [n \in Nodes |-> {}]
  /\ kind = [n \in Nodes |-> IF n = Root THEN "value" ELSE "none"]
  /\ permanent = {Root}
  /\ frames = <<>>
  /\ scope = Root
  /\ stray = {} /\ misfreed = FALSE /\ cutShort = FALSE

-----------------------------------------------------------------------------
\* get_child, Null when there is none
Child(n, s) ==
  LET named == {c \in children[n] : name[c] = s}
  IN  IF named = {} THEN Null ELSE CHOOSE c \in named : TRUE

\* The node some parents above; Null above the root.
Above(n, up) ==
  LET f[k \in Nat] == IF k = 0 THEN n ELSE IF f[k - 1] = Null THEN Null ELSE parent[f[k - 1]]
  IN  f[up]

Start(p) == IF p.from = "root" THEN Root ELSE Above(scope, p.up)

Longest == Cardinality(Nodes) + Cardinality(Names)

Search_Skips(start, segs) ==
  LET f[k \in Nat] == [n \in Nodes \cup {Null} |-> [i \in Nat |->
        IF k = 0 \/ n = Null THEN Null
        ELSE IF Child(n, segs[i]) = Null
             THEN IF parent[n] = Null THEN Null ELSE f[k - 1][parent[parent[n]]][i]
             ELSE IF i = Len(segs) THEN Child(n, segs[i])
                  ELSE f[k - 1][Child(n, segs[i])][i + 1]]]
  IN  f[Longest][start][1]
\* create_or_find_node with Search: a segment that is not there is looked for
\* in the parents of the node that the earlier segments led to.
Search(start, segs) ==
  LET f[k \in Nat] == [n \in Nodes \cup {Null} |-> [i \in Nat |->
        IF k = 0 \/ n = Null THEN Null
        ELSE IF Child(n, segs[i]) = Null THEN f[k - 1][parent[n]][i]
             ELSE IF i = Len(segs) THEN Child(n, segs[i])
                  ELSE f[k - 1][Child(n, segs[i])][i + 1]]]
  IN  f[Longest][start][1]

\* The nodes that exist along a path, from its start.
Prefix(start, segs) ==
  LET f[i \in Nat] == IF i = 0 THEN start
                      ELSE IF f[i - 1] = Null THEN Null ELSE Child(f[i - 1], segs[i])
      found == {i \in 1..Len(segs) : f[i] # Null}
  IN  [i \in 1..Cardinality(found) |-> f[i]]

Owns(f) == f.op \in {"method", "load"}
\* The frame whose node_link takes new nodes, 0 for all_nodes.
Owner ==
  LET own == {i \in DOMAIN frames : Owns(frames[i])}
  IN  IF own = {} THEN 0 ELSE CHOOSE i \in own : \A j \in own : j <= i

Frame(op) == [op |-> op, back |-> scope, made |-> <<>>]

\* frames with nodes added to their owner, the last one in front
Own(new) ==
  IF Owner = 0 THEN permanent' = permanent \cup ToSet(new) /\ UNCHANGED frames
  ELSE /\ frames' = [frames EXCEPT ![Owner].made = Reverse(new) \o @]
       /\ UNCHANGED permanent

-----------------------------------------------------------------------------
\* What create_or_find_node with Create and the operation after it do: the
\* missing nodes of the path are created, those between without a parent and
\* an object; the last one gets the current scope as its parent. A name that
\* is taken by an object is left as it is.
Make(p, k, new) ==
  LET at == Prefix(Start(p), p.segs)
      from == IF at = <<>> THEN Start(p) ELSE Last(at)
      ids == at \o new
      target == Last(ids)
      over == <<from>> \o new
  IN  /\ Start(p) # Null
      /\ Len(ids) = Len(p.segs)
      /\ kind[target] = "none"
      /\ live' = live \cup ToSet(new)
      /\ name' = [n \in Nodes |-> IF n \in ToSet(new)
                                  THEN p.segs[CHOOSE i \in DOMAIN ids : ids[i] = n] ELSE name[n]]
      /\ children' = [n \in Nodes |->
           (IF n \in ToSet(new) THEN {} ELSE children[n])
             \cup {new[i] : i \in {j \in DOMAIN new : over[j] = n}}]
      /\ parent' = [n \in Nodes |-> IF n = target THEN scope
                                    ELSE IF n \in ToSet(new) THEN Null ELSE parent[n]]
      /\ kind' = [n \in Nodes |-> IF n = target THEN k
                                  ELSE IF n \in ToSet(new) THEN "none" ELSE kind[n]]

\* New nodes for the segments of a path that are missing
Fresh(p) ==
  {s \in [1..(Len(p.segs) - Len(Prefix(Start(p), p.segs))) -> Ids \ live] : IsInjective(s)}

\* Name, Method, Mutex, Event, OperationRegion, the fields, Alias
Create(p, k) ==
  /\ frames # <<>>
  /\ \E new \in Fresh(p) : Make(p, k, new) /\ Own(new)
  /\ UNCHANGED <<scope, fate>>

Enter(f, n) == frames' = Append(f, Frame("scope")) /\ scope' = n

Device(p) ==
  /\ frames # <<>> /\ Len(frames) < MaxFrames
  /\ \E new \in Fresh(p) :
       /\ Make(p, "device", new)
       /\ LET owned == IF Owner = 0 THEN frames
                       ELSE [frames EXCEPT ![Owner].made = Reverse(new) \o @]
          IN  Enter(owned, Last(Prefix(Start(p), p.segs) \o new))
       /\ permanent' = IF Owner = 0 THEN permanent \cup ToSet(new) ELSE permanent
  /\ UNCHANGED fate

\* Scope of a node that the search finds; one without an object becomes a device.
Scope(p) ==
  LET n == IF Start(p) = Null THEN Null ELSE Search(Start(p), p.segs)
  IN  /\ frames # <<>> /\ Len(frames) < MaxFrames
      /\ n # Null
      /\ Enter(frames, n)
      /\ IF kind[n] = "none"
         THEN kind' = [kind EXCEPT ![n] = "device"] /\ parent' = [parent EXCEPT ![n] = scope]
         ELSE UNCHANGED <<kind, parent>>
      /\ UNCHANGED <<live, name, children, permanent, fate>>

-----------------------------------------------------------------------------
\* load_table of a table that init found: its nodes go to all_nodes.
TableBegins ==
  /\ frames = <<>>
  /\ frames' = <<Frame("table")>> /\ scope' = Root
  /\ UNCHANGED <<tree, permanent, fate>>

\* The nodes that a walk from the root comes to
Reachable ==
  LET f[k \in Nat] == IF k = 0 THEN {Root}
                      ELSE f[k - 1] \cup UNION {children[n] : n \in f[k - 1]}
  IN  f[Cardinality(Ids)]

\* A method, called by the host or by AML: both find it by its name.
Call(n) ==
  /\ Len(frames) < MaxFrames /\ n \in live /\ kind[n] = "method"
  /\ IF frames = <<>> THEN n \in Reachable ELSE n = Search(scope, <<name[n]>>)
  /\ frames' = Append(frames, Frame("method")) /\ scope' = n
  /\ UNCHANGED <<tree, permanent, fate>>

LoadBegins ==
  /\ frames # <<>> /\ Len(frames) < MaxFrames
  /\ frames' = Append(frames, Frame("load")) /\ scope' = Root
  /\ UNCHANGED <<tree, permanent, fate>>

Top == frames[Len(frames)]
Below == SubSeq(frames, 1, Len(frames) - 1)
Pop == frames' = Below /\ scope' = Top.back

ScopeEnds ==
  /\ frames # <<>> /\ Top.op \in {"scope", "table"}
  /\ Pop
  /\ UNCHANGED <<tree, permanent, fate>>

\* Nodes are taken from the children of their parents and freed. What freed memory
\* holds no longer matters.
Free(gone) ==
  /\ live' = live \ gone
  /\ name' = [n \in Nodes |-> IF n \in gone THEN Null ELSE name[n]]
  /\ parent' = [n \in Nodes |-> IF n \in gone THEN Null ELSE parent[n]]
  /\ kind' = [n \in Nodes |-> IF n \in gone THEN "none" ELSE kind[n]]
  /\ children' = [n \in Nodes |-> IF n \in gone THEN {}
                 ELSE children[n] \ {c \in gone : parent[c] = n}]

\* ~MethodFrame, the newest node first, with some nodes freed before. A node
\* between others has no parent: that is a null pointer to the code, and the model
\* goes no further.
HasParents(made) == \A i \in DOMAIN made : parent[made[i]] # Null
Misfrees(made, before) ==
  \E i \in DOMAIN made : parent[made[i]] \notin live \ (before \cup {made[j] : j \in 1..(i - 1)})

Delete(made) ==
  /\ HasParents(made)
  /\ Free(ToSet(made))
  /\ misfreed' = (misfreed \/ Misfrees(made, {}))
  /\ UNCHANGED <<stray, cutShort>>

\* A method returns, or is unwound: the nodes it made go with it.
MethodEnds ==
  /\ frames # <<>> /\ Top.op = "method"
  /\ Delete(Top.made)
  /\ Pop
  /\ UNCHANGED permanent

LoadFails_Keeps ==
  /\ frames # <<>> /\ Top.op = "load"
  /\ Pop
  /\ UNCHANGED <<tree, permanent, fate>>
\* unwind_stack, and the end of a load whose target cannot be stored
LoadFails ==
  /\ frames # <<>> /\ Top.op = "load"
  /\ Delete(Top.made)
  /\ Pop
  /\ UNCHANGED permanent

LoadEnds_Twice ==
  /\ frames # <<>> /\ Top.op = "load"
  /\ permanent' = permanent \cup ToSet(Top.made)
  /\ LET f == Below
     IN  frames' = [i \in DOMAIN f |-> IF i = 1 /\ Owns(f[1])
                                       THEN [f[i] EXCEPT !.made = Top.made \o @] ELSE f[i]]
  /\ scope' = Top.back
  /\ UNCHANGED <<tree, fate>>
\* The nodes of a load that succeeds go to all_nodes.
LoadEnds ==
  /\ frames # <<>> /\ Top.op = "load"
  /\ permanent' = permanent \cup ToSet(Top.made)
  /\ Pop
  /\ UNCHANGED <<tree, fate>>

FramesOf(op) == {k \in DOMAIN frames : frames[k].op = op}
MadeBy(ks) == UNION {ToSet(frames[k].made) : k \in ks}

\* parse returns at once, for an opcode without a handler, and ~Interpreter destroys
\* the frames from the outermost on. Loads are passed over: nothing frees their nodes.
Abandon ==
  /\ frames # <<>>
  /\ \A k \in FramesOf("method") : HasParents(frames[k].made)
  /\ Free(MadeBy(FramesOf("method")))
  /\ misfreed' = (misfreed \/ \E k \in FramesOf("method") :
                    Misfrees(frames[k].made, MadeBy({j \in FramesOf("method") : j < k})))
  /\ cutShort' = (cutShort \/ \E j, k \in FramesOf("method") : j < k)
  /\ stray' = stray \cup MadeBy(FramesOf("load"))
  /\ frames' = <<>> /\ scope' = Root
  /\ UNCHANGED permanent

\* What the code does after it has used freed memory is not modelled.
Next ==
  /\ ~misfreed
  /\ \/ \E p \in Paths : (\E k \in {"value", "method"} : Create(p, k)) \/ Device(p) \/ Scope(p)
     \/ \E n \in Ids : Call(n)
     \/ TableBegins \/ LoadBegins \/ ScopeEnds
     \/ MethodEnds \/ LoadFails \/ LoadEnds \/ Abandon

Spec == Init /\ [][Next]_vars

-----------------------------------------------------------------------------
TypeOK ==
  /\ Root \in live /\ live \subseteq Nodes /\ permanent \subseteq Nodes /\ stray \subseteq Ids
  /\ parent \in [Nodes -> Nodes \cup {Null}]
  /\ children \in [Nodes -> SUBSET Ids]
  /\ kind \in [Nodes -> {"none", "value", "device", "method"}]
  /\ scope \in Nodes
  /\ \A i \in DOMAIN frames : ToSet(frames[i].made) \subseteq Ids /\ frames[i].back \in Nodes

\* Every node that is reached from the root is allocated, and so is its parent. No
\* node is taken from a parent that has gone before it, unless parse has returned at
\* once inside of nested methods: there the nodes of the callers go first.
NoDangling ==
  /\ misfreed => cutShort
  /\ Reachable \subseteq live
  /\ \A n \in Reachable \ {Root} : parent[n] \in live

\* A node is a child of its parent: the way up is the way down.
ParentHolds == \A n \in Reachable \ {Root} : n \in children[parent[n]]

\* A node that is allocated has one owner: the context, or the one call or load
\* that made it and that has not ended. A load that was abandoned leaves some that
\* nobody owns.
OwnedOnce ==
  \A n \in Nodes :
    Cardinality({i \in DOMAIN frames : n \in ToSet(frames[i].made)})
      + (IF n \in permanent THEN 1 ELSE 0) + (IF n \in stray THEN 1 ELSE 0) = IF n \in live THEN 1 ELSE 0

\* The interpreter works in a scope that is allocated, and comes back to such.
ScopeLive == scope \in live /\ \A i \in DOMAIN frames : frames[i].back \in live

\* A name is found in the innermost scope around the start that has it. The
\* nodes around it are told by the children, not by the parents of the code.
SearchNearest ==
  LET Around(n) == {m \in Reachable : n \in children[m]}
      Nearest(start, s) ==
        LET f[k \in Nat] == [n \in Nodes |->
              IF k = 0 THEN Null
              ELSE IF \E c \in children[n] : name[c] = s
                   THEN CHOOSE c \in children[n] : name[c] = s
                   ELSE IF Around(n) = {} THEN Null ELSE f[k - 1][CHOOSE m \in Around(n) : TRUE]]
        IN  f[Cardinality(Nodes) + 1][start]
  IN  \A n \in Reachable \cap live, s \in Names : Search(n, <<s>>) = Nearest(n, s)

\* A Load that fails leaves none of its nodes in the namespace
\* (src/src/interpreter.cpp:1155, "delete nodes in case of a load failure"), and one
\* that ends leaves all. Only where parse returns at once do they stay unowned.
FailureDeletes ==
  [][Len(frames') < Len(frames) /\ Top.op = "load"
       => \/ ToSet(Top.made) \subseteq permanent'
          \/ Reachable' \cap ToSet(Top.made) = {}
          \/ frames' = <<>> /\ ToSet(Top.made) \subseteq stray']_vars

\* The tree of nodes and the lists that own them: nothing reaches a freed node, the
\* parent of a node is its own, a node has one owner, and scopes are alive.
TreeSound == TypeOK /\ NoDangling /\ ParentHolds /\ OwnedOnce /\ ScopeLive
=============================================================================
