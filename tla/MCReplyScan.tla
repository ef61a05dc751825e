----------------------------- MODULE MCReplyScan -----------------------------
(* Widths of three to five bits, so that the values arriving lie at and     *)
(* beyond the limits of every kind; all arrays of at most two replies, and  *)
(* arrays of four for the pairs of maps and lists by score.                *)
EXTENDS ReplyScan

MCHalf == [int8 |-> 4, uint8 |-> 4, int |-> 8, int64 |-> 16, uint64 |-> 16]
MCSigned == {"int8", "int", "int64"}
MCKinds == {"int8", "uint8", "uint64", "bool", "string", "float", "map"}

MCSome == {NilReply, IntReply(-1), IntReply(4), IntReply(15),
           Bulk(Dec(-5)), Bulk(Dec(7)), Bulk(Dec(40)), Bulk(Word),
           Simple(Dec(1)), Simple(Frac), Other}
MCNested == {Array(<<Simple(Frac), Bulk(Dec(2))>>),
             Array(<<Simple(Word), IntReply(3), Simple(Frac)>>),
             Array(<<Simple(Word), IntReply(3), IntReply(-1)>>),
             Array(<<Simple(Word), Array(<<Bulk(Dec(2)), Simple(Frac)>>)>>)}
MCPairs == [1 .. 4 -> {Simple(Dec(1)), Bulk(Dec(2))}]

MCAnswers ==
    {NilReply, Simple(Word)}
        \cup {Array(e) : e \in BoundedSeq(MCSome, 2) \cup BoundedSeq(MCNested, 2) \cup MCPairs}

MCReply == MCAnswers \cup MCSome \cup MCNested \cup
           {Array(<<Bulk(Dec(2)), Simple(Frac)>>), Bulk(Dec(2)), Simple(Word), IntReply(3)}
=============================================================================
