--------------------------- MODULE MCApplicationId ---------------------------
(* Two windows, one managed and one override-redirect, each with one     *)
(* possible value per identity property; the leader may be either window. *)
EXTENDS ApplicationId, TLC

CONSTANTS w1, w2, p1, c1

MCWin == {w1, w2}
MCManaged == {w1}
MCProps == {p1}
MCClasses == {c1}
=============================================================================
