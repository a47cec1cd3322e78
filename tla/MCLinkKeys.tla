----------------------------- MODULE MCLinkKeys ------------------------------
\* Instances of LinkKeys.
EXTENDS LinkKeys, TLC

CONSTANTS left, right, w1, w2

WorkersAndEnds == Permutations(Workers) \union Permutations(Ends)
=============================================================================
