----------------------------- MODULE MCNamespace -----------------------------
\* Small instances of Namespace.
EXTENDS Namespace, TLC

CONSTANTS A, B

Relative(segs) == [from |-> "scope", up |-> 0, segs |-> segs]
PlainNames == {Relative(<<s>>) : s \in Names}
\* With these FailureDeletes is violated (README.md, section 14).
AllPaths == PlainNames
  \cup {[from |-> "root", up |-> 0, segs |-> s] : s \in {<<A>>, <<A, B>>}}
  \cup {[from |-> "scope", up |-> 1, segs |-> <<A>>]}

NodeSymmetry == Permutations(Ids)
=============================================================================
