------------------------------ MODULE MCRunner ------------------------------
(* Scenarios for Runner: files without and with a prime machine, guests that *)
(* are killed, a program that cannot be executed, and files that are missing *)
(* or malformed.                                                             *)
EXTENDS Runner

Good == [table |-> TRUE, path |-> "good", prime |-> FALSE]
Marked == [Good EXCEPT !.prime = TRUE]
Bad == [Good EXCEPT !.path = "bad"]
NoPath == [Good EXCEPT !.path = "missing"]
NoTable == [Good EXCEPT !.table = FALSE]

File(rs) ==
  [given |-> TRUE, valid |-> TRUE, replicas |-> rs, kills |-> FALSE, calls |-> 1]

MCScenarios ==
  {[File(<<Good, Good>>) EXCEPT !.kills = TRUE],
   [File(<<Good, Good>>) EXCEPT !.calls = 2],
   File(<<Marked, Good, Bad>>),
   File(<<Bad>>), File(<<>>),
   File(<<Good, NoTable, NoPath>>), File(<<Good, NoPath, NoTable>>),
   [File(<<>>) EXCEPT !.valid = FALSE], [File(<<>>) EXCEPT !.given = FALSE]}

\* Of two marked machines the last is prime.
MCPrime == {File(<<Marked, Marked>>)}
=============================================================================
