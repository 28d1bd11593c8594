----------------------------- MODULE MCMailbox -----------------------------
\* Small instances of Mailbox for TLC.
EXTENDS Mailbox, TLC

\* Attachments at different addresses, alive at the same time or not: the mask
\* is as good as the context itself.
DistinctMasks == [c \in Contexts |-> c]

Symmetry == Permutations(Contexts)
=============================================================================
