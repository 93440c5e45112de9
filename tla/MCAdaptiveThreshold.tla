--------------------------- MODULE MCAdaptiveThreshold -------------------------
(* AdaptiveThreshold for TLC: the five minutes of an emergency, small counts,*)
(* and an operator who asks for too much, too little, a low and an odd value.*)
EXTENDS AdaptiveThreshold

AskedFor == {-100, 4300, 6900, 12000}

================================================================================
