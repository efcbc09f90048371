---------------------------- MODULE MCRecovery ----------------------------
(* A memtable takes two entries, a group three. *)
EXTENDS Recovery

MCBound(w, c, o, machine, fail, rep, sizes) ==
    [writes |-> w, crashes |-> c, opens |-> o, machine |-> machine, fail |-> fail,
     repair |-> rep, sizes |-> sizes]
MCBounds ==
    {MCBound(3, 1, 2, FALSE, FALSE, FALSE, {0, 1, 2}),
     MCBound(4, 1, 2, TRUE, FALSE, FALSE, {1}),
     MCBound(3, 2, 3, TRUE, FALSE, FALSE, {1}),
     MCBound(3, 1, 2, TRUE, TRUE, FALSE, {1}),
     MCBound(2, 1, 4, TRUE, TRUE, TRUE, {1})}
=============================================================================
