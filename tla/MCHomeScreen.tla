----------------------------- MODULE MCHomeScreen -----------------------------
(* Two notes on pages of one, two loads and two creates under way.           *)
EXTENDS HomeScreen
=============================================================================
