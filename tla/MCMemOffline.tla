---------------------------- MODULE MCMemOffline ----------------------------
EXTENDS MemOffline

\* Every run of up to two blocks.
MCRanges == {<<b * BlockPages, n * BlockPages>> : b \in 0 .. bitmap_entries, n \in 0 .. 2}
=============================================================================
