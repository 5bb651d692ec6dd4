------------------------------ MODULE MCBookings ------------------------------
(***************************************************************************)
(* Instances of Bookings for TLC.                                          *)
(***************************************************************************)
EXTENDS Bookings, TLC

CONSTANTS r1, r2, w1, w2

\* Two rooms, or two workers, are interchangeable.
Symmetry == Permutations({r1, r2}) \cup Permutations({w1, w2})
RoomSymmetry == Permutations({r1, r2})

=============================================================================
