----------------------------- MODULE MCQuicFlow -----------------------------
EXTENDS QuicFlow
=============================================================================
