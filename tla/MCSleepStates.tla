---------------------------- MODULE MCSleepStates ----------------------------
\* Small instances of SleepStates.
EXTENDS SleepStates

TwoTypes == {<<5, 0>>, <<0, 9>>}
=============================================================================
