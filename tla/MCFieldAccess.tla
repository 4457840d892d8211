---------------------------- MODULE MCFieldAccess ----------------------------
\* Small instances of FieldAccess: bytes of two bits, a word of two bytes, and
\* four bytes of region. No step depends on the bits, so it is enough that
\* each is once zero and once one.
EXTENDS FieldAccess

AllBits == 0..(RegionBits - 1)
MCContents == {{}, AllBits}
MCValues == {{}, AllBits} \cup {{p} : p \in AllBits}
=============================================================================
