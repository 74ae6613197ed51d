----------------------------- MODULE MCMainLoop -----------------------------
(* Two trees of three and five nodes, as if every node had two children.   *)
EXTENDS MainLoop

CONSTANTS none

MCTrees == {<<TRUE, FALSE, FALSE>>, <<TRUE, FALSE, TRUE, FALSE, FALSE>>}
MCShares == {<<1, 1>>, <<3, 2>>}
MCName == {X(n) : n \in 0..(StopTime \div OutputDt)} \cup {Final, Analytic, Once}

(* Each way of running, and each option at least once.                     *)
Plain == [mode |-> "run", stop_step |-> 2, disable_output |-> FALSE,
          bench |-> FALSE, analytic |-> TRUE]
MCOptions ==
  {Plain,
   [Plain EXCEPT !.bench = TRUE, !.analytic = FALSE],
   [Plain EXCEPT !.stop_step = 0],
   [Plain EXCEPT !.disable_output = TRUE],
   [Plain EXCEPT !.mode = "scf", !.analytic = FALSE],
   [Plain EXCEPT !.mode = "static"],
   [Plain EXCEPT !.mode = "once"],
   [Plain EXCEPT !.mode = "rewrite", !.analytic = FALSE]}
=============================================================================
