--------------------------- MODULE MCHeaderSearch ---------------------------
(* The bytes of uart_magic, for TLC.                                       *)
EXTENDS HeaderSearch

Ops == <<"0", "o", "p", "s">>
=============================================================================
