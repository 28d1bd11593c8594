----------------------------- MODULE MCIrqWait -----------------------------
\* Small instances of IrqWait for TLC.
EXTENDS IrqWait

CONSTANTS a, b  \* two tasks' contexts

\* The bounds of the cfg are those of a task alone.  Once a second task has
\* armed, both keep to one call, and to one round of a loop but for the watch.
WithinBounds ==
    \/ \A d \in Contexts \ {a} : pc'[d] = "unarmed"
    \/ \A c \in Contexts : calls'[c] <= 1 /\ (pc'[c] # "watch" => count'[c] <= 1)

MCNext == Next /\ WithinBounds

MCSpec == Init /\ [][MCNext]_vars /\ Fairness
=============================================================================
