----------------------------- MODULE MCEggTimer ------------------------------
(***************************************************************************)
(* Two levels, of two and three seconds, and three timers, one more than   *)
(* the view controller can have at a time.  The clock runs on to two       *)
(* seconds past the longer level.                                          *)
(***************************************************************************)
EXTENDS EggTimer

CONSTANTS soft, hard

MCHardness == {soft, hard}
MCEggTime == [h \in MCHardness |-> IF h = soft THEN 2 ELSE 3]
=============================================================================
