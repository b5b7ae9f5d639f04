---------------------------- MODULE MCAddMultiple ----------------------------
EXTENDS AddMultiple

MCHashes == {1, 2, 3}
=============================================================================
