-------------------------- MODULE MCServiceClients --------------------------
(* Values for checking ServiceClients with TLC: a movie and a show section,  *)
(* a movie without a file, and episode files of which two share a name.      *)
EXTENDS ServiceClients, TLC

CONSTANTS m1, m2, m3, blank, e1, movies, shows, music, one, other, silent

Everything == {m1, m2, m3, blank, e1}
Home == [x \in Everything |-> IF x = e1 THEN shows ELSE movies]
Listed == (movies :> <<m1, blank, m2>>) @@ (shows :> <<e1>>)
AskedFor == {<<>>, <<shows, music, shows>>}

File(s, p, n, i) == [series |-> s, path |-> p, name |-> n, id |-> i]
EpisodeFiles ==
    {File(one, 1, "pilot", 11), File(other, 2, "pilot", 22), File(other, 3, "finale", 33),
     File(one, 4, "special", NoId), File(silent, 5, "finale", 55)}

=============================================================================
