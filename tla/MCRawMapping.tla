---------------------------- MODULE MCRawMapping ----------------------------
(***************************************************************************)
(* Small sizes for RawMapping: a page of 2 bytes, a 4-bit usize (so        *)
(* MAX_LEN is 7), a file smaller and one larger than MAX_LEN.              *)
(***************************************************************************)
EXTENDS RawMapping

MCFileLens == {0, 5, 8}
MCOffsets  == {0, 1, 3, 5, 6}
MCLens     == {0, 1, 4, 7, 15}
MCStarts   == {0, 3, 15}
MCCounts   == {0, 2, 4, 15}
MCStores   == {0, 3}
MCBases    == {4, 8}
MCForeign  == {6}
=============================================================================
