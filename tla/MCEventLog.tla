----------------------------- MODULE MCEventLog -----------------------------
EXTENDS EventLog, TLC

\* A frame of the stream, the envelope of the commitment, and a lifecycle event.
AllBatches == {<<"raw", "event">>, <<"raw", "decision">>, <<"terminal">>}
TwoBatches == {<<"raw", "event">>, <<"terminal">>}
Symmetry == Permutations(Writers)
AllHubs == {"memory", "local", "remote", "replay"}
=============================================================================
