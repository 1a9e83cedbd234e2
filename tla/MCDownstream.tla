---------------------------- MODULE MCDownstream ----------------------------
(* Downstream for TLC.                                                       *)
EXTENDS Downstream

CONSTANTS s1, s2

(* Sessions are interchangeable, so that every behaviour that starts on s2   *)
(* has its mirror image among those that start on s1.                        *)
FirstInit == Init /\ current = s1

FromFirst == FirstInit /\ [][Next]_vars /\ Fairness

=============================================================================
