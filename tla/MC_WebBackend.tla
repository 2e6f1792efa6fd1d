---------------------------- MODULE MC_WebBackend ----------------------------
EXTENDS WebBackend

CONSTANTS u1, h1, h2

MCUsers == {u1}
MCHandlers == {h1, h2}
MCUserOf == [h \in MCHandlers |-> u1]
=============================================================================
