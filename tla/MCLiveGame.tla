----------------------------- MODULE MCLiveGame -----------------------------
(* The Thief in a corner next to the Police, or in the middle away from it. *)
EXTENDS LiveGame

Corner == [r \in Roles |-> IF r = "police" THEN <<1, 1>> ELSE <<0, 0>>]
Apart == [r \in Roles |-> IF r = "police" THEN <<0, 0>> ELSE <<2, 2>>]

Positions == {Corner, Apart}

=============================================================================
