------------------------ MODULE MCReservationClients ------------------------
(***************************************************************************)
(* The instance of ReservationClients for TLC.                             *)
(***************************************************************************)
EXTENDS ReservationClients, TLC

CONSTANTS c1, c2

MCClients == {c1, c2}

MCSymmetry == Permutations(MCClients)
=============================================================================
