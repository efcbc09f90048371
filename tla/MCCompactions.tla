--------------------------- MODULE MCCompactions ---------------------------
(* Three user keys and four levels; a table of one or two entries is full. *)
EXTENDS Compactions

MCUserLess(a, b) == a < b
MCMaxBytes(l) == 3
MCWrites == {<<1, 1>>, <<1, 0>>, <<2, 1>>, <<3, 1>>}
MCBound(start, n, snaps, calls, reads, fail, close) ==
    [start |-> start, seq |-> Len(start) + n, snapshots |-> snaps, calls |-> calls,
     reads |-> reads, fail |-> fail, close |-> close]
MCPuts(us) == [i \in DOMAIN us |-> <<us[i], 1>>]
MCBounds ==
    {MCBound(<<>>, 5, 0, 0, 0, FALSE, FALSE),
     MCBound(MCPuts(<<1>>), 4, 1, 0, 0, FALSE, FALSE),
     MCBound(MCPuts(<<1>>), 3, 2, 0, 0, FALSE, FALSE),
     MCBound(MCPuts(<<1, 3, 1, 3>>), 2, 0, 1, 0, FALSE, FALSE),
     MCBound(MCPuts(<<1, 1, 1>>), 4, 0, 0, 0, FALSE, FALSE),
     MCBound(MCPuts(<<1, 3>>), 2, 1, 0, 1, FALSE, FALSE),
     MCBound(MCPuts(<<1, 2, 1>>), 2, 0, 1, 0, TRUE, TRUE)}
MCRanges == {<<0, 9>>}
=============================================================================
