---------------------------- MODULE MCStructSpec ----------------------------
(* Two goroutines; every struct type of at most MaxFields fields, with two  *)
(* names, embedded up to depth MaxDepth.                                    *)
EXTENDS StructSpec

CONSTANTS a, b, t1, t2, MaxFields, MaxDepth

MCField == [name: {a, b}, depth: 0 .. MaxDepth,
            tag: {"plain", "omitempty", "unknown"}]
MCTypes == UNION {[1 .. n -> MCField] : n \in 1 .. MaxFields}
=============================================================================
