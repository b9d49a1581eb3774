----------------------------- MODULE WindowRead -----------------------------
\* What a source promises the pass that reads it, whatever it pages, caches or
\* resumes: a reading may be called finished only when every row that stood in
\* the window when the reading began was handed over, but for the rows the
\* source is known to drop. The three search scans of the repository are shown
\* to implement this reading.
CONSTANT Row

VARIABLES window,    \* the rows the reading owes its caller
          got,       \* the rows handed over
          dropped,   \* the rows lost in a way the source's code admits
          closed     \* the caller was told that nothing more follows

vars == <<window, got, dropped, closed>>

Init ==
    /\ window \subseteq Row
    /\ got = {} /\ dropped = {} /\ closed = FALSE

\* An answer hands over some rows, drops some, and may end the reading.
Answer ==
    /\ ~closed
    /\ got \subseteq got' /\ got' \subseteq Row
    /\ dropped \subseteq dropped' /\ dropped' \subseteq Row
    /\ closed' => window \subseteq got' \union dropped'
    /\ closed' \in BOOLEAN
    /\ UNCHANGED window

\* The caller changes its question, or asks anew: another window is owed, and
\* the source may be past some of its rows already.
Reask ==
    /\ window' \subseteq Row
    /\ dropped \subseteq dropped' /\ dropped' \subseteq Row
    /\ closed' = FALSE
    /\ UNCHANGED got

\* A row the reading has not reached moves out of its way.
Slip ==
    /\ dropped \subseteq dropped' /\ dropped' \subseteq Row
    /\ UNCHANGED <<window, got, closed>>

Next == Answer \/ Reask \/ Slip
Spec == Init /\ [][Next]_vars
=============================================================================
