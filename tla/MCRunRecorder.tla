--------------------------- MODULE MCRunRecorder ---------------------------
(* Model-checking instance of RunRecorder: every stream of at most four
   acquisitions over a window of MaxDuration (in units of a third of an acquire
   interval: a gap is more than 4, so that one of 5 is shorter than the log
   interval of 6 and has to be remembered while its acquisition is held). *)
EXTENDS RunRecorder
=============================================================================
