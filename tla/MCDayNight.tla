----------------------------- MODULE MCDayNight -----------------------------
(* One patch of a car, which sets every look and the cluster apart.        *)
(* Patient scenes: all four writers of the look, or two of them and a      *)
(* phone.  Hasty ones: two toggles, or one and the sun; and a save that    *)
(* fails.                                                                  *)
EXTENDS DayNight

Car == {[night |-> "night", cluster |-> "day", theme |-> "night"]}

Only(whats) == [what \in Happenings |-> IF what \in whats THEN 1 ELSE 0]
MCScenes ==
  {[manner |-> "patient", budget |-> Only(whats)] :
     whats \in {{"modes", "toggles", "suns", "cars"},
                {"visits", "modes", "cars"}, {"visits", "suns", "cars"}}}
  \cup {[manner |-> "hasty", budget |-> b] :
     b \in {[Only({"fails"}) EXCEPT !.toggles = 2], Only({"toggles", "suns", "fails"})}}
=============================================================================
