---------------------------- MODULE MCLumioSocket ----------------------------
(* TLC instance of LumioSocket: a metrics channel and one whose source ends. *)
EXTENDS LumioSocket

CONSTANTS metrics, terminal

Numbers == [s \in Sub |-> IF s = metrics THEN 1 ELSE 2]

\* A write to a shell that blocks comes before the first event.  Answers and pings fill
\* the queue meanwhile as events would.
QuietInput == reader.at = "input" => \A s \in Sub : seq[s] = 0
=============================================================================
