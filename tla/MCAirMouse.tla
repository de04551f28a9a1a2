----------------------------- MODULE MCAirMouse -----------------------------
(* A small instance of AirMouse.                                            *)
EXTENDS AirMouse

=============================================================================
