--------------------------- MODULE MCNotifyHandlers ---------------------------
\* Small instances of NotifyHandlers.
EXTENDS NotifyHandlers, TLC

EntrySymmetry == Permutations(Entries) \cup Permutations(Nodes)
=============================================================================
