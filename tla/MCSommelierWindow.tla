------------------------- MODULE MCSommelierWindow -------------------------
(* Instantiation of SommelierWindow for TLC. *)
EXTENDS SommelierWindow, TLC

CONSTANTS w1, w2, w3, p1, c1

MCWin == {w1, w2}
MCOneWin == {w1}
MCThreeWin == {w1, w2, w3}
MCSymmetry == Permutations(MCWin)
MCTransientNone == [w \in MCWin |-> None]
MCTransientNone3 == [w \in MCThreeWin |-> None]
MCTransientNone1 == [w \in MCOneWin |-> None]
MCTransient12 == [w \in MCWin |-> IF w = w2 THEN w1 ELSE None]
MCStateSets == {{}, {"maximized"}}
(* No identity property set: every id is the window id. *)
MCNoIdentity == [w \in Win |-> [prop |-> NoValue, clazz |-> NoValue,
                                leader |-> None]]
(* w1 has a WM_CLASS; w2 has the property and w1 as its client leader. *)
MCIdentity == [w \in Win |->
                 IF w = w1 THEN [prop |-> NoValue, clazz |-> c1, leader |-> None]
                 ELSE [prop |-> p1, clazz |-> NoValue, leader |-> w1]]
MCStateSetsFull == {{}, {"fullscreen", "maximized"}}
=============================================================================
