---------------------------- MODULE MCWriterRole ----------------------------
EXTENDS WriterRole, TLC

\* The nodes are alike when no operator singles one out.
NodeSymmetry == Permutations(Node)

=============================================================================
