--------------------------- MODULE MCPhoneClient ---------------------------
(* PhoneClient as TLC runs it: the cfg files give all constants.            *)
EXTENDS PhoneClient

=============================================================================
