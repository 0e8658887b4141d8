--------------------------- MODULE MCQuicStreams ----------------------------
EXTENDS QuicStreams
\* One application does everything, the other reads and frees.
Busy == [e \in Ends |-> IF e = A THEN CallNames ELSE {"read", "free"}]
Concluding == [e \in Ends |-> IF e = A THEN {"empty_write", "free"} ELSE {"read"}]
Resetting == [e \in Ends |-> IF e = A THEN {"write", "reset"} ELSE {"read"}]
=============================================================================
