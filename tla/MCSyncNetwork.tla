--------------------------- MODULE MCSyncNetwork ---------------------------
EXTENDS SyncNetwork

CONSTANTS l, c1, s1, u1, u2

\* The owner of one endpoint closes it, or the server's both of its own.
MCScenes ==
    { [present |-> {l, c1, s1}, closed |-> c] : c \in {{l, s1}, {c1}} }
    \union { [present |-> {u1, u2}, closed |-> {u1, u2}] }
=============================================================================
