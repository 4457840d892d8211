-------------------------- MODULE MCNamespaceWalks --------------------------
\* Small instances of NamespaceWalks.
EXTENDS NamespaceWalks
=============================================================================
