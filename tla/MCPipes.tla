-------------------------------- MODULE MCPipes --------------------------------
(* Small instances of Pipes.                                                *)
EXTENDS Pipes

CONSTANTS p1, p2, p3

MCData == [p \in {p1, p2, p3} |-> IF p = p1 THEN {"read", "write"} ELSE IF p = p2 THEN {"write"} ELSE {"read"}]
MCAny == [p \in {p1, p2} |-> {"read", "write", "clear"}]
MCIds == [p \in {p1, p2} |-> IF p = p1 THEN {"create", "close", "write"} ELSE {"read", "write"}]
=============================================================================
