--------------------------- MODULE MCCommandGate ---------------------------
(* Three goroutines that contend for instance locks and the gate.          *)
EXTENDS CommandGate, TLC

CONSTANTS c1, c2, c3, n1, n2, e1, e2, e3

MCCmds == {c1, c2, c3}
MCPair == {c1, c2}
MCNames == {n1, n2}
MCOneName == {n1}
MCEntries == {e1, e2, e3}

=============================================================================
