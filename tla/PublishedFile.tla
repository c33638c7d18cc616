---------------------------- MODULE PublishedFile ----------------------------
(***************************************************************************)
(* What the archive file at one path promises its readers, whatever is     *)
(* killed or fails: it is refused or it holds the whole of one input, and  *)
(* once pack_archive has returned Ok it holds that input until the path is *)
(* packed to again, also after a power loss.                               *)
(***************************************************************************)
CONSTANTS Inputs, None, Unknown

VARIABLES view,         \* the input that a reader of the file gets, None when it is
                        \* refused, Unknown when a power loss may have torn it
          promised      \* the input whose pack returned Ok, or None

vars == <<view, promised>>

Init == view = None /\ promised = None

\* The path is packed to again: whatever it held is gone.
Withdraw == view' = None /\ promised' = None

Publish == view = None /\ view' \in Inputs /\ UNCHANGED promised

Promise == view \in Inputs /\ promised' = view /\ UNCHANGED view

\* Only what was promised survives a power loss.
PowerLoss == promised = None /\ view' = Unknown /\ UNCHANGED promised

Next == Withdraw \/ Publish \/ Promise \/ PowerLoss

Spec == Init /\ [][Next]_vars
=============================================================================
