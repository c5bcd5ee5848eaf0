----------------------------- MODULE MCProcPool -----------------------------
(* Small instances of ProcPool. *)
EXTENDS ProcPool

CONSTANTS p1, p2, p3, j1, j2

ThreeProcs == {p1, p2, p3}
TwoJobs == {j1, j2}

NoTarget == {}
ScaleToZero == {0, NumIdle}

OnlyDrain == {"drain"}

\* Every job gets a process and aclose() returns (see both).
PoolSettles == JobGetsProcess /\ CloseReturns

=============================================================================
