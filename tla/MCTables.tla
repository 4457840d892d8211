------------------------------- MODULE MCTables -------------------------------
\* Small instances of Tables: a FACP, two SSDTs and another table.
EXTENDS Tables, TLC

MCSigAt == <<1, 0>> :> "FACP" @@ <<2, 0>> :> "SSDT" @@ <<3, 0>> :> "OEM1"
             @@ <<4, 0>> :> "SSDT" @@ <<5, 0>> :> "DSDT"
MCDsdtAt == <<5, 0>>
XsdtWords == <<2, 0, 1, 0, 3, 0, 4, 0>>
\* With these, and Wide = FALSE, AllTablesFound is violated (README.md, section 14).
RsdtWords == <<2, 1, 3, 4>>

BufferSymmetry == Permutations(Buffers)
===============================================================================
