--------------------------- MODULE MCAMDispatcher ---------------------------
(* Values for AMDispatcher that a .cfg cannot write: lengths around the    *)
(* minimum, the stated length and the limit of a u8.                       *)
EXTENDS AMDispatcher
MCOddShapes == {<<6, 0>>, <<8, 2>>, <<9, 1>>, <<255, 249>>, <<256, 249>>}
=============================================================================
