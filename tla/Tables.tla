------------------------------- MODULE Tables --------------------------------
(***************************************************************************)
(* The tables of a context: the list init makes of the firmware's tables   *)
(* (src/src/context.cpp 11-180), the references that keep them mapped      *)
(* (find_table_by_name, find_table_by_signature, Table::unref), and the    *)
(* memory the loads of the interpreter run from: load_namespace, and the   *)
(* AML operations Load and LoadTable, which nest and may fail              *)
(* (src/src/interpreter.cpp). An install handler of the host may deny or   *)
(* replace what Load and LoadTable load.                                   *)
(***************************************************************************)
EXTENDS Naturals, FiniteSets, Sequences, SequencesExt

CONSTANTS Root,      \* the 32-bit words after the header of the RSDT or XSDT
          Wide,      \* whether it is an XSDT, with addresses of two words
          SigAt,     \* per address of a table, as <<low, high>>, its signature
          DsdtAt,    \* the address the FACP gives for the DSDT
          Beyond,    \* what the memory behind the root table reads as
          Buffers,   \* memory that a Load may allocate
          MaxDepth,  \* bound: loads inside of each other
          MaxFinds,  \* bound: references the host and failed loads hold
          AnySig,    \* the empty signature, of LoadTable and of loaded buffers
          HostMay    \* what the host does beyond the rules of section 8 of README.md

ASSUME TablesAssumption ==
  /\ Root \in Seq(Nat) /\ Wide \in BOOLEAN
  /\ DsdtAt \in DOMAIN SigAt
  /\ AnySig \notin {"DSDT", "SSDT"} \cup {SigAt[a] : a \in DOMAIN SigAt}
  /\ MaxDepth \in Nat \ {0} /\ MaxFinds \in Nat
  /\ HostMay \subseteq {"unrefMoved"}

VARIABLES phase,    \* init, ready, failed, loading, loaded or gone
          entry,    \* the entry of the root table that init looks at
          tables,   \* the vector of InternalTable
          buffers,  \* the buffers that are allocated
          loads,    \* the loads that run, the innermost last
          ssdt,     \* the index load_namespace looks for
          host,     \* history: per table, the references of the host
          old,      \* history: those among them that point to where the list was before
          code,     \* history: the memory that methods in the namespace are in
          visited,  \* history: the tables load_namespace has loaded
          leaked    \* history: the buffers of loads that parse has abandoned

vars == <<phase, entry, tables, buffers, loads, ssdt, host, old, code, visited, leaked>>

Init ==
  /\ phase = "init" /\ entry = 1 /\ tables = <<>>
  /\ buffers = {} /\ loads = <<>> /\ ssdt = 0
  /\ host = <<>> /\ old = <<>> /\ code = {} /\ visited = <<>> /\ leaked = {}

-----------------------------------------------------------------------------
Word(i) == IF i \in 1..Len(Root) THEN Root[i] ELSE Beyond

EntryCount == IF Wide THEN Len(Root) \div 2 ELSE Len(Root)

\* Both root tables are read through XsdtHeader, whose entries are 64 bits wide.
EntryAt(i) == <<Word(2 * i - 1), Word(2 * i)>>

Entry(sig, buffer) ==
  [sig |-> sig, buffer |-> buffer, mapped |-> buffer # {}, refs |-> Cardinality(buffer)]
Push(sigs) ==
  /\ tables' = tables \o [i \in DOMAIN sigs |-> Entry(sigs[i], {})]
  /\ host' = host \o [i \in DOMAIN sigs |-> 0]

\* add_table: the DSDT comes before the FACP that leads to it. An address
\* where there is no table cannot be mapped, and init fails.
AddTable ==
  LET a == EntryAt(entry)
  IN  /\ phase = "init" /\ entry <= EntryCount
      /\ IF a \notin DOMAIN SigAt
         THEN phase' = "failed" /\ UNCHANGED <<entry, tables, host>>
         ELSE /\ entry' = entry + 1
              /\ Push(IF SigAt[a] = "FACP" THEN <<SigAt[DsdtAt], "FACP">> ELSE <<SigAt[a]>>)
              /\ UNCHANGED phase
      /\ UNCHANGED <<buffers, loads, ssdt, code, visited, old, leaked>>

InitDone ==
  /\ phase = "init" /\ entry > EntryCount
  /\ phase' = "ready"
  /\ UNCHANGED <<entry, tables, buffers, loads, ssdt, host, code, visited, old, leaked>>

-----------------------------------------------------------------------------
\* find_table_by_name and find_table_by_signature: the k-th match, from 0
Matches(sig) == {i \in DOMAIN tables : sig \in {AnySig, tables[i].sig}}
Found(sig, k) == {i \in Matches(sig) : Cardinality({j \in Matches(sig) : j < i}) = k}

Ref(ts, i) == [ts EXCEPT ![i].refs = @ + 1, ![i].mapped = TRUE]

\* Table::unref
Unref(ts, i) == [ts EXCEPT ![i].refs = @ - 1, ![i].mapped = ts[i].refs # 1]

Usable == phase \in {"ready", "loading", "loaded"}
Refs == FoldSet(LAMBDA i, n : n + tables[i].refs, 0, DOMAIN tables)

HostFind(sig, k) ==
  /\ Usable /\ Refs < MaxFinds
  /\ \E i \in Found(sig, k) :
       tables' = Ref(tables, i) /\ host' = [host EXCEPT ![i] = @ + 1]
  /\ UNCHANGED <<phase, entry, buffers, loads, ssdt, code, visited, old, leaked>>

\* A Table* points into the list: it is good until the list grows out of its memory.
Old(i) == IF i \in DOMAIN old THEN old[i] ELSE 0

\* unref of a pointer to where the list was counts down in memory that is free, and
\* may unmap the table although the list holds references to it.
UnrefMoved(i) ==
  /\ "unrefMoved" \in HostMay /\ Old(i) > 0
  /\ \E still \in {tables[i].mapped, FALSE} : tables' = [tables EXCEPT ![i].mapped = still]
  /\ old' = [old EXCEPT ![i] = @ - 1]

HostUnref(i) ==
  /\ \/ host[i] > 0 /\ host[i] > Old(i) /\ tables' = Unref(tables, i) /\ UNCHANGED old
     \/ UnrefMoved(i)
  /\ host' = [host EXCEPT ![i] = @ - 1]
  /\ UNCHANGED <<phase, entry, buffers, loads, ssdt, code, visited, leaked>>

-----------------------------------------------------------------------------
TableMem(i) == [in |-> "table", id |-> i]
BufferMem(b) == [in |-> "buffer", id |-> b]
HostMem == [in |-> "host", id |-> 0]
Frame(op, mem) == [op |-> op, asked |-> op = "LoadTable", mem |-> mem]

Top == loads[Len(loads)]
Below == SubSeq(loads, 1, Len(loads) - 1)
Running == loads # <<>> /\ ~Top.asked
\* AML runs: a table that is being loaded, or a method the host evaluates.
MayLoad ==
  /\ Len(loads) < MaxDepth /\ Refs < MaxFinds
  /\ Running \/ (loads = <<>> /\ phase = "loaded")

NamespaceLoad(i) ==
  /\ tables' = Ref(tables, i)
  /\ loads' = <<Frame("namespace", TableMem(i))>>
  /\ visited' = Append(visited, i)

LoadNamespace ==
  /\ phase = "ready"
  /\ \E i \in Found("DSDT", 0) : NamespaceLoad(i)
  /\ phase' = "loading"
  /\ UNCHANGED <<entry, buffers, ssdt, host, code, old, leaked>>

NextSsdt ==
  /\ phase = "loading" /\ loads = <<>>
  /\ IF Found("SSDT", ssdt) = {}
     THEN phase' = "loaded" /\ UNCHANGED <<tables, loads, visited, ssdt>>
     ELSE /\ \E i \in Found("SSDT", ssdt) : NamespaceLoad(i)
          /\ ssdt' = ssdt + 1
          /\ UNCHANGED phase
  /\ UNCHANGED <<entry, buffers, host, code, old, leaked>>

\* Load of a table that the handler allows or replaces. (A denied one, and one
\* that is no SSDT, is freed in the same operation and changes nothing.)
Load(b) ==
  /\ MayLoad /\ b \notin buffers
  /\ buffers' = buffers \cup {b}
  /\ loads' = Append(loads, Frame("Load", BufferMem(b)))
  /\ UNCHANGED <<phase, entry, tables, ssdt, host, code, visited, old, leaked>>

\* LoadTable finds its table, and the install handler is asked.
LoadTable(sig) ==
  /\ MayLoad
  /\ \E i \in Found(sig, 0) :
       tables' = Ref(tables, i) /\ loads' = Append(loads, Frame("LoadTable", TableMem(i)))
  /\ UNCHANGED <<phase, entry, buffers, ssdt, host, code, visited, old, leaked>>

\* The handler's answer: a table that is denied or replaced is let go.
Answer(verdict) ==
  /\ loads # <<>> /\ Top.asked
  /\ loads' = CASE verdict = "deny" -> Below
                [] verdict = "allow" -> Append(Below, [Top EXCEPT !.asked = FALSE])
                [] verdict = "override" -> Append(Below, [Top EXCEPT !.asked = FALSE, !.mem = HostMem])
  /\ tables' = IF verdict = "allow" THEN tables ELSE Unref(tables, Top.mem.id)
  /\ UNCHANGED <<phase, entry, buffers, ssdt, host, code, visited, old, leaked>>

LoadEnds_Unrefs ==
  /\ Running
  /\ code' = code \cup {Top.mem}
  /\ IF Top.op = "Load"
     THEN /\ tables' = Append(tables, Entry(AnySig, {Top.mem.id}))
          /\ host' = Append(host, 0) /\ old' \in {old, host}
     ELSE /\ tables' = IF Top.op = "LoadTable" /\ Top.mem.in = "table"
                       THEN Unref(tables, Top.mem.id) ELSE tables
          /\ UNCHANGED <<host, old>>
  /\ loads' = Below
  /\ UNCHANGED <<phase, entry, buffers, ssdt, visited, leaked>>
LoadEnds_Named ==
  /\ Running
  /\ code' = code \cup {Top.mem}
  /\ IF Top.op = "Load"
     THEN /\ tables' = Append(tables, Entry("SSDT", {Top.mem.id}))
          /\ host' = Append(host, 0) /\ old' \in {old, host}
     ELSE UNCHANGED <<tables, host, old>>
  /\ loads' = Below
  /\ UNCHANGED <<phase, entry, buffers, ssdt, visited, leaked>>
\* A load comes to its end: its methods stay, and so does its memory. A loaded
\* buffer becomes a table without a signature, in a list that may have to move; the
\* others keep their reference.
LoadEnds ==
  /\ Running
  /\ code' = code \cup {Top.mem}
  /\ IF Top.op = "Load"
     THEN /\ tables' = Append(tables, Entry(AnySig, {Top.mem.id}))
          /\ host' = Append(host, 0) /\ old' \in {old, host}
     ELSE UNCHANGED <<tables, host, old>>
  /\ loads' = Below
  /\ UNCHANGED <<phase, entry, buffers, ssdt, visited, leaked>>

\* A load fails: Load frees its buffer, and the nodes of both operations are
\* deleted. A LoadTable keeps its reference; what load_namespace has created
\* stays, and the next table is loaded.
LoadFails ==
  /\ Running
  /\ code' = IF Top.op = "namespace" THEN code \cup {Top.mem} ELSE code
  /\ buffers' = IF Top.op = "Load" THEN buffers \ {Top.mem.id} ELSE buffers
  /\ loads' = Below
  /\ UNCHANGED <<phase, entry, tables, ssdt, host, visited, old, leaked>>

\* parse returns at once, for an opcode without a handler: nothing frees the buffers
\* of the loads that run, and nothing deletes the nodes they made.
Abandon ==
  /\ Running
  /\ code' = code \cup {loads[n].mem : n \in DOMAIN loads}
  /\ leaked' = leaked \cup {loads[n].mem.id : n \in {k \in DOMAIN loads : loads[k].op = "Load"}}
  /\ loads' = <<>>
  /\ UNCHANGED <<phase, entry, tables, buffers, ssdt, host, old, visited>>

\* ~Context
Destroy ==
  /\ phase = "loaded" /\ loads = <<>>
  /\ phase' = "gone"
  /\ buffers' = buffers \ UNION {tables[i].buffer : i \in DOMAIN tables}
  /\ tables' = <<>> /\ host' = <<>> /\ old' = <<>> /\ code' = {}
  /\ UNCHANGED <<entry, loads, ssdt, visited, leaked>>

Sigs == {SigAt[a] : a \in DOMAIN SigAt}

Next ==
  \/ AddTable \/ InitDone \/ LoadNamespace \/ NextSsdt
  \/ \E sig \in Sigs, k \in 0..1 : HostFind(sig, k)
  \/ \E i \in DOMAIN tables : HostUnref(i)
  \/ \E b \in Buffers : Load(b)
  \/ \E sig \in Sigs \cup {AnySig} : LoadTable(sig)
  \/ \E verdict \in {"allow", "deny", "override"} : Answer(verdict)
  \/ LoadEnds \/ LoadFails \/ Abandon \/ Destroy

Spec == Init /\ [][Next]_vars

-----------------------------------------------------------------------------
TypeOK ==
  /\ phase \in {"init", "ready", "failed", "loading", "loaded", "gone"}
  /\ \A i \in DOMAIN tables :
       /\ tables[i].sig \in Sigs \cup {AnySig} /\ tables[i].mapped \in BOOLEAN
       /\ tables[i].refs \in Nat
  /\ buffers \subseteq Buffers /\ Len(loads) <= MaxDepth
  /\ Len(host) = Len(tables)

Loading(mem) == Cardinality({n \in DOMAIN loads : loads[n].mem = mem})

\* A table is mapped as long as it is referred to, no more and no less, and
\* every user counts: each find of the host, each load, and the methods that a
\* load has left in the namespace.
RefsExact ==
  \A i \in DOMAIN tables :
    /\ tables[i].mapped <=> tables[i].refs > 0
    /\ tables[i].refs >= host[i] + Loading(TableMem(i))
                           + (IF TableMem(i) \in code /\ Loading(TableMem(i)) = 0 THEN 1 ELSE 0)

\* The AML that runs, and every method the namespace holds, is in memory that
\* is mapped or allocated, whoever has let go of the table since.
CodeIsLive ==
  \A m \in code \cup {loads[n].mem : n \in DOMAIN loads} :
    CASE m.in = "table" -> tables[m.id].mapped
      [] m.in = "buffer" -> m.id \in buffers
      [] m.in = "host" -> TRUE

\* A buffer that a Load has allocated has one owner: the load while it runs,
\* then the list of tables. None is freed twice, and none is left over but those of
\* loads that parse has abandoned.
BufferOwned ==
  \A b \in Buffers :
    Loading(BufferMem(b)) + Cardinality({i \in DOMAIN tables : b \in tables[i].buffer})
        + (IF b \in leaked THEN 1 ELSE 0)
      = IF b \in buffers THEN 1 ELSE 0

\* load_namespace loads the DSDT and each SSDT of the firmware, in the order of
\* the list and once, although the loads it runs append to the list.
NamespaceOnce ==
  LET firmware == {i \in DOMAIN tables : tables[i].buffer = {}}
      due == {i \in firmware : tables[i].sig = "SSDT"}
  IN  /\ \A m, n \in DOMAIN visited : m < n /\ m > 1 => visited[m] < visited[n]
      /\ phase = "loaded" =>
           ToSet(visited) = due \cup Found("DSDT", 0) /\ Len(visited) = Cardinality(due) + 1

\* init finds the tables whose addresses the root table holds, each behind the
\* DSDT when it is the FACP (src/include/qacpi/tables.hpp: the entries of an
\* RSDT are 32 bits wide, those of an XSDT 64).
AllTablesFound ==
  LET address == IF Wide THEN [i \in 1..(Len(Root) \div 2) |-> EntryAt(i)]
                 ELSE [i \in 1..Len(Root) |-> <<Root[i], 0>>]
      expected == FlattenSeq([i \in DOMAIN address |->
                    IF SigAt[address[i]] = "FACP" THEN <<SigAt[DsdtAt], "FACP">>
                    ELSE <<SigAt[address[i]]>>])
  IN  /\ phase # "failed"
      /\ phase = "ready" => [i \in DOMAIN tables |-> tables[i].sig] = expected

\* The memory of the tables: every user of a table counts, what AML runs from is
\* mapped or allocated, and a buffer of Load has one owner.
ReferencesSound == TypeOK /\ RefsExact /\ CodeIsLive /\ BufferOwned

\* init finds every table of the XSDT, and load_namespace loads each definition
\* block of them once.
LoadedOnce == AllTablesFound /\ NamespaceOnce
=============================================================================
