--------------------------- MODULE MCServiceAdmin ---------------------------
(* A small instance of ServiceAdmin.                                        *)
EXTENDS ServiceAdmin

=============================================================================
