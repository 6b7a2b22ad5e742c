--------------------------- MODULE MCViewRegistry ---------------------------
(***************************************************************************)
(* A small instance of ViewRegistry: a plain range that overlaps atomic    *)
(* views of both element sizes, one next to them, and an empty atomic view *)
(***************************************************************************)
EXTENDS ViewRegistry

MCElemSize   == {4, 8}
MCPlainSpan  == {<<0, 5>>, <<8, 10>>}
MCAtomicSpan == {<<0, 8, 8>>, <<4, 12, 4>>, <<4, 4, 4>>}

=============================================================================
