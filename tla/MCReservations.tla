--------------------------- MODULE MCReservations ---------------------------
(* A small instance of Reservations for TLC.  No symmetry, as liveness is  *)
(* checked.                                                                *)
EXTENDS Reservations
=============================================================================
