-------------------------------- MODULE MCRtc --------------------------------
(* A day of three hours of two minutes of two seconds.                     *)
EXTENDS Rtc

MCOffset == {-3, -2, 0, 3}
=============================================================================
