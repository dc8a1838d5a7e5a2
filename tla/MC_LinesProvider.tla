-------------------------- MODULE MC_LinesProvider --------------------------
(* Two sports and three scores, so that deltas range over -2..2; the     *)
(* writer asks for both sports or for one.                               *)
EXTENDS LinesProvider

MCSports == {"s1", "s2"}
MCScores == {0, 1, 2}
MCRequests == {<<"s1", "s2">>, <<"s2">>}
=============================================================================
