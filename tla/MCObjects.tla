----------------------------- MODULE MCObjects -----------------------------
EXTENDS Objects

\* One name besides the local and the argument of each frame.
OneName == <<"X">>
=============================================================================
