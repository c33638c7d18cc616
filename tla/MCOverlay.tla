---- MODULE MCOverlay ----
(* An archive with a file at the root and one in a directory.                *)
EXTENDS Workspace, TLC

CONSTANTS a, d

MCNames == {a, d}
MCArchive == (<<a>> :> <<1>>) @@ (<<d, a>> :> <<2, 3>>)
====
