----------------------------- MODULE MCSimCore -----------------------------
(* A file of six quads, a memory of six cells of which two hold code. *)
EXTENDS SimCore

Code_  == {2, 3}
Activities_ ==
    {[does |-> {"calls"}, boot |-> 1, app |-> 4],
     [does |-> {"calls", "hooks"}, boot |-> 4, app |-> 0],
     [does |-> {"calls", "faults"}, boot |-> 1, app |-> 3],
     [does |-> {"calls", "faults"}, boot |-> 3, app |-> 0],
     [does |-> {"calls", "interrupts"}, boot |-> 1, app |-> 2],
     [does |-> {"calls", "interrupts"}, boot |-> 3, app |-> 0],
     [does |-> {"interrupts"}, boot |-> 4, app |-> 0],
     [does |-> {"calls", "faults", "resets"}, boot |-> 2, app |-> 0],
     [does |-> {"locks", "resets"}, boot |-> 6, app |-> 0],
     [does |-> {"words", "interrupts"}, boot |-> 4, app |-> 0],
     [does |-> {"setup", "resets"}, boot |-> 6, app |-> 0],
     [does |-> {"copies"}, boot |-> 3, app |-> 0],
     [does |-> {"calls", "events"}, boot |-> 1, app |-> 0],
     [does |-> {"events"}, boot |-> 3, app |-> 0]}
=============================================================================
