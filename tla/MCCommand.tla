------------------------------- MODULE MCCommand -------------------------------
(* Command for TLC: a silent command on a machine that is busy and started *)
(* again, and one that writes more than pipes and logs hold.               *)
EXTENDS Command

MCLoads ==
  {[platform |-> os, output |-> 0, ticks |-> 3, boots |-> 1] : os \in {"linux", "macos"}} \cup
  {[platform |-> "linux", output |-> 3, ticks |-> 1, boots |-> 0]}

===============================================================================
