------------------------ MODULE MCConfigurationParser ------------------------
EXTENDS ConfigurationParser, TLC

\* Bounds: the number of entries and the size of a sequence.
CONSTANTS MaxEntries, MaxSize

Scalar == [scalar |-> TRUE, node |-> 0, size |-> 0]
SequenceOf(node, size) == [scalar |-> FALSE, node |-> node, size |-> size]

Tuples(S) == UNION {[1 .. n -> S] : n \in 0 .. MaxEntries}

\* Every entry has a node of its own, its position.
PlainDocs ==
  {[k \in DOMAIN t |-> IF t[k] = 0 THEN Scalar ELSE SequenceOf(k, t[k])] :
     t \in Tuples(0 .. MaxSize)}

\* Node n has n values, so that two entries of one size are aliases.
AliasDocs ==
  {[k \in DOMAIN t |-> IF t[k] = 0 THEN Scalar ELSE SequenceOf(t[k], t[k])] :
     t \in Tuples(0 .. MaxSize)}

AnyDocs == PlainDocs \cup AliasDocs
=============================================================================
