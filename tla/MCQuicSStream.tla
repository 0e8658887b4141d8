---- MODULE MCQuicSStream ----
EXTENDS QuicSStream
====
