------------------------------- MODULE MCFiles -------------------------------
(* TLC instance of UserFiles.  w1 and w2 are one request and write a, d1 and *)
(* d2 are one request and delete it; d3 deletes b, a file of the same name;  *)
(* s1 and s2 save a as the administrator.  b holds v2, and everybody has     *)
(* read v0 of a.                                                             *)
EXTENDS UserFiles

CONSTANTS w1, w2, d1, d2, d3, i1, i2, i3, s1, s2, a, b, v0, v1, v2, v3, x, n0, n1, n2

Requests == [c \in Call |-> CASE c \in {w1, w2} -> i1 [] c \in {d1, d2} -> i2 [] c = d3 -> i3]
Paths == [c \in Call |-> IF c = d3 THEN b ELSE a]
Contents == [c \in Call |-> v1]
Expects == [c \in Call |-> v0]

SaveOnA == [s \in Save |-> a]
SaveContents == [s \in Save |-> IF s = s1 THEN v2 ELSE v3]
SaveExpected == [s \in Save |-> v0]

AtFirst == [p \in Path |-> IF p = b THEN v2 ELSE v0]
Names == [pk \in Path \X (0..MaxNumber) |-> CASE pk[2] = 0 -> n0 [] pk[2] = 1 -> n1 [] pk[2] = 2 -> n2]

\* Who comes together: the repetitions with one save, two saves of one revision with
\* the agent's calls, or the deletes that share a name.
Begun == {c \in Call : call[c].at # "new"} \cup {s \in Save : save[s].at # "new"}
Together == \E crowd \in {{w1, w2, d1, d2, s1}, {w1, d1, s1, s2}, {d1, d2, d3}} : Begun \subseteq crowd
=============================================================================
