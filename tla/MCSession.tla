------------------------------- MODULE MCSession -------------------------------
(* Two USB devices with the same vid and pid and one with another, a serial *)
(* port and an FTDI bridge.                                                  *)
EXTENDS Session, TLC

CONSTANTS h1, h2, h3, twin, single

MCVidPid == (h1 :> twin) @@ (h2 :> twin) @@ (h3 :> single)
=============================================================================
