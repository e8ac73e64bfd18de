-------------------------- MODULE MCImageProcessor --------------------------
(* Windows with a negative origin, with no row, with no column, and with a *)
(* number of rows that the threads do not divide, or that is below theirs. *)
EXTENDS ImageProcessor

W(y1, y2, dx) == [y1 |-> y1, y2 |-> y2, dx |-> dx]

SmallWindows == {W(-2, 3, 2), W(1, 3, 1), W(0, 6, 1), W(0, 0, 2), W(0, 2, 0)}

=============================================================================
