---------------------------- MODULE MCWinInject ----------------------------
(* A small instance of WinInject.                                           *)
EXTENDS WinInject, TLC

(* One monitor, one with another to its left, no virtual metrics, none. *)
MCMetrics ==
  { [x |-> 0, w |-> 3, p |-> 3], [x |-> -2, w |-> 5, p |-> 3],
    [x |-> 0, w |-> 0, p |-> 2], [x |-> 0, w |-> 0, p |-> 0] }

(* Steps, the largest int32, and distances that int32 cuts off. *)
MCDelta == {-1, 1, Half - 1, -Half, Half, 2 * Half + 1}

MCPosition == {-1, 0, 7, Scale, Scale + 1, Half}

(* The ends of the ranges, and an emoji; alone and side by side. *)
MCRune == {0, 55295, 57344, 65535, 65536, 128512, 1114111}
MCMessage == {<<r>> : r \in MCRune} \cup (MCRune \X MCRune)

=============================================================================
