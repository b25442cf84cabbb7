------------------------------- MODULE MCReturns -------------------------------
(* Constants of Returns for TLC: a registered and an unregistered buyer in *)
(* another state, a registered one at home, and a sell-out.  A place of    *)
(* supply abroad comes of an edit.                                         *)
EXTENDS Returns

Buyer(place, registered, primary) ==
    [place |-> place, registered |-> registered, primary |-> primary]

MCBuyers == {Buyer("AWAY", TRUE, TRUE), Buyer("AWAY", FALSE, TRUE),
             Buyer("HOME", TRUE, TRUE), Buyer("HOME", FALSE, FALSE)}
=============================================================================
