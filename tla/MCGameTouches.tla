--------------------------- MODULE MCGameTouches ---------------------------
(* GameTouches with one name of each type. The names of a key while Ctrl is *)
(* down belong to the same key, so it may be released as another one.       *)
EXTENDS GameTouches

MCPhysical == [k \in Keys |-> CASE k = "CTRL+C" -> "C"
                                [] k = "CTRL+W" -> "W"
                                [] OTHER -> k]

MCValue == [k \in Keys |-> IF k \in Wheels \cup Views THEN 1 ELSE 0]
=============================================================================
