--------------------------- MODULE MCPackPipeline ---------------------------
(* Instances of PackPipeline for TLC.                                      *)
EXTENDS PackPipeline

CONSTANTS c1, c2, c3, c4, c5

MCChunk == {c1, c2, c3, c4, c5}
MCInput == <<c1, c2, c3, c4, c5>>
\* Enough for the worker errors alone.
MCShortInput == <<c1, c2>>
=============================================================================
