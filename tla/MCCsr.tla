------------------------------- MODULE MCCsr -------------------------------
EXTENDS Csr

MCCallers == {1, 2}
MCWordRegs == {r \in Registers : r.name \notin Ports}
=============================================================================
