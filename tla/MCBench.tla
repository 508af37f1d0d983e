------------------------------ MODULE MCBench ------------------------------
(* Command lines with lists of two names for the benchmark driver.          *)
EXTENDS Bench

Names == Known \cup {"", "unknown"}
CommandLines(lists, raws) ==
  [list : lists, num : {3}, reads : {2}, raw : raws,
   existing : BOOLEAN, transaction : BOOLEAN, exits : BOOLEAN, table : BOOLEAN]

\* Without raw data, with a list that ends in a comma.
MCFlags == CommandLines({<<a, b, "">> : a, b \in Names}, {FALSE})
\* The list ends in a comma, and raw data is asked for.
MCRaw == CommandLines({<<a, "">> : a \in Names}, {TRUE})
=============================================================================
