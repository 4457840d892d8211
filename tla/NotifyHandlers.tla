---------------------------- MODULE NotifyHandlers ----------------------------
(***************************************************************************)
(* The notify handlers of an event context (src/src/event.cpp 690-747): a  *)
(* doubly linked list of allocated entries that is changed by install and  *)
(* uninstall, and walked by on_notify. A handler that is called may itself *)
(* install and uninstall handlers before it returns.                       *)
(***************************************************************************)
EXTENDS Naturals, Sequences

CONSTANTS Nodes,    \* namespace nodes
          Entries,  \* memory for entries
          Null,
          MaxCalls  \* bound: how deep handlers notify from handlers

ASSUME NotifyAssumption == Null \notin Entries \cup Nodes /\ MaxCalls \in Nat

VARIABLES head,      \* notify_handlers
          node,      \* per entry, the node it is for; Null when it is free
          prev, next,
          walks,     \* the active on_notify calls, the innermost last
          installed  \* history: the entries, the last one installed first

list == <<head, node, prev, next, installed>>
vars == <<list, walks>>

Init ==
  /\ head = Null
  /\ node = [e \in Entries |-> Null]
  /\ prev = [e \in Entries |-> Null]
  /\ next = [e \in Entries |-> Null]
  /\ walks = <<>>
  /\ installed = <<>>

Allocated(e) == node[e] # Null

\* The host changes the list outside of on_notify or from a handler.
MayChange == IF walks = <<>> THEN TRUE ELSE walks[Len(walks)].calling

\* install_notify_handler
Install(e, n) ==
  /\ MayChange /\ ~Allocated(e)
  /\ node' = [node EXCEPT ![e] = n]
  /\ next' = [next EXCEPT ![e] = head]
  /\ prev' = [f \in Entries |-> IF f = e THEN Null ELSE IF f = head THEN e ELSE prev[f]]
  /\ head' = e
  /\ installed' = <<e>> \o installed
  /\ UNCHANGED walks

\* The entry at which the walk of uninstall_notify_handler stops.
FirstFrom(n) ==
  LET f[k \in Nat, e \in Entries \cup {Null}] ==
        IF k = 0 \/ e = Null THEN Null
        ELSE IF node[e] = n THEN e ELSE f[k - 1, next[e]]
  IN  f

First(n) == FirstFrom(n)[Len(installed) + 1, head]

Place(e) == CHOOSE i \in 1..Len(installed) : installed[i] = e
Without(e) ==
  [i \in 1..(Len(installed) - 1) |-> installed[IF i < Place(e) THEN i ELSE i + 1]]

\* uninstall_notify_handler: the first entry of the node is unlinked and freed.
Uninstall(n) ==
  \E e \in Entries :
    /\ MayChange /\ node[e] = n /\ e = First(n)
    /\ next' = [f \in Entries |-> IF f = prev[e] THEN next[e] ELSE next[f]]
    /\ head' = IF prev[e] = Null THEN next[e] ELSE head
    /\ prev' = [f \in Entries |-> IF f = next[e] THEN prev[e] ELSE prev[f]]
    /\ node' = [node EXCEPT ![e] = Null]
    /\ installed' = Without(e)
    /\ UNCHANGED walks

Walk == walks[Len(walks)]
SetWalk(w) == walks' = [walks EXCEPT ![Len(walks)] = w]

\* on_notify begins at the head
NotifyBegin(n) ==
  /\ MayChange /\ Len(walks) < MaxCalls
  /\ walks' = Append(walks, [at |-> head, for |-> n, calling |-> FALSE])
  /\ UNCHANGED list

NotifySkip_Blind ==
  /\ walks # <<>> /\ ~Walk.calling /\ Walk.at # Null
  /\ SetWalk([Walk EXCEPT !.at = next[Walk.at]])
  /\ UNCHANGED list
NotifySkip ==
  /\ walks # <<>> /\ ~Walk.calling /\ Walk.at # Null
  /\ node[Walk.at] # Walk.for
  /\ SetWalk([Walk EXCEPT !.at = next[Walk.at]])
  /\ UNCHANGED list

NotifyCall ==
  /\ walks # <<>> /\ ~Walk.calling /\ Walk.at # Null
  /\ node[Walk.at] = Walk.for
  /\ SetWalk([Walk EXCEPT !.calling = TRUE])
  /\ UNCHANGED list

NotifyReturn_GoesOn ==
  /\ walks # <<>> /\ Walk.calling
  /\ SetWalk([Walk EXCEPT !.calling = FALSE, !.at = next[Walk.at]])
  /\ UNCHANGED list
\* The walk ends with the call: on_notify does not look at the entry again.
NotifyReturn ==
  /\ walks # <<>> /\ Walk.calling
  /\ walks' = SubSeq(walks, 1, Len(walks) - 1)
  /\ UNCHANGED list

NotifyNone ==
  /\ walks # <<>> /\ ~Walk.calling /\ Walk.at = Null
  /\ walks' = SubSeq(walks, 1, Len(walks) - 1)
  /\ UNCHANGED list

Next ==
  \/ \E e \in Entries, n \in Nodes : Install(e, n)
  \/ \E n \in Nodes : Uninstall(n) \/ NotifyBegin(n)
  \/ NotifySkip \/ NotifyCall \/ NotifyReturn \/ NotifyNone

Spec == Init /\ [][Next]_vars

-----------------------------------------------------------------------------
At(i) == IF i \in 1..Len(installed) THEN installed[i] ELSE Null

Walks == [at : Entries \cup {Null}, for : Nodes, calling : BOOLEAN]

TypeOK ==
  /\ head \in Entries \cup {Null}
  /\ node \in [Entries -> Nodes \cup {Null}]
  /\ prev \in [Entries -> Entries \cup {Null}]
  /\ next \in [Entries -> Entries \cup {Null}]
  /\ installed \in Seq(Entries)
  /\ walks \in Seq(Walks)

\* The links of install_notify_handler and uninstall_notify_handler are those
\* of the entries that are installed, in both directions, with no other entry.
ListExact ==
  /\ head = At(1)
  /\ \A i \in 1..Len(installed) :
       next[installed[i]] = At(i + 1) /\ prev[installed[i]] = At(i - 1)
  /\ \A e \in Entries : Allocated(e) <=> \E i \in 1..Len(installed) : installed[i] = e

\* on_notify does not read an entry that uninstall_notify_handler has freed,
\* although a handler may free its own entry and others.
NoFreedRead ==
  walks # <<>> /\ ~Walk.calling /\ Walk.at # Null => Allocated(Walk.at)

\* The handler that is called is the one installed last for the node, for as
\* long as the list has not changed: at the moment of the call.
LatestCalled ==
  [][NotifyCall =>
       \A i \in 1..Len(installed) :
         installed[i] = Walk.at =>
           \A j \in 1..(i - 1) : node[installed[j]] # Walk.for]_vars

\* The list of handlers, whatever the handlers do to it from within a call: it is
\* linked as it was installed, and on_notify reads no entry that was freed.
ListSound == TypeOK /\ ListExact /\ NoFreedRead
=============================================================================
