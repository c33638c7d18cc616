---- MODULE MCStreamChunker ----
(* Inputs up to three times max_size and more than the buffer, with every set *)
(* of cuts in the first few positions and some later on.                      *)
EXTENDS StreamChunker

MCInputSizes == {0, 1, 3, 4, 8, 11, 13, 18}
MCCutSets == { c \cup d : c \in SUBSET (2..6), d \in SUBSET {9, 12, 15} }
====
