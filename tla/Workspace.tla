------------------------------ MODULE Workspace ------------------------------
(***************************************************************************)
(* Checking an archive out, changing it and committing it, as              *)
(* cli/src/cmd/data/{checkout,workspace,commit}.rs do it with the mount of  *)
(* Overlay and the walk of pack_directory (ops/src/pack.rs).               *)
(*                                                                         *)
(* A commit lists the mount's directories and packs what the listing calls *)
(* files over the archive that is mounted.  It reads them through the      *)
(* mount, and there opening a file copies it up: also the markers of       *)
(* whiteouts, which a mount over an overlay that has some lists as files.  *)
(* What an archive holds is what was packed into it: that is the subject   *)
(* of PackArchive.  The workspace's configuration is left out but for the  *)
(* base and the place of the overlay.                                      *)
(***************************************************************************)
EXTENDS Overlay

CONSTANT CommitCost         \* bound: the requests a commit counts as

ASSUME CostAssumption == CommitCost \in Nat

VARIABLES
    committed,  \* the manifest of the last archive that was committed
    saved,      \* history: what it must hold of what programs wrote
    outcome     \* of the last commit: "none", "ok", "lossy" or "failed"

commitVars == <<committed, saved, outcome>>
workspaceVars == <<vars, commitVars>>

-----------------------------------------------------------------------------
(* The walk over the mount.                                                 *)

FoundDir(p) == Walk(inodes, p) # NoInode /\ IsDir(inodes, Walk(inodes, p))

\* What a listing says of the kind of a name: the child's node decides, even if
\* the name has gone to another inode since.
ListedAsDir(p) ==
    LET parent == Walk(inodes, Front(p))
    IN  IF Last(p) \in readdir(inodes, parent)
           THEN inodes.nodes[inodes.nodes[parent].children[Last(p)]].dir
           ELSE p \in dirs

\* The deepest path is that of a marker in a directory.
Depth == 3

Entries(at) == UNION { { Append(p, n) : n \in Listing(inodes, Walk(inodes, p)) } : p \in at }

\* Directories are entered level by level; one that cannot be read is passed over.
Level[k \in 0..Depth] ==
    IF k = 0 THEN { <<>> }
    ELSE Entries({ p \in Level[k - 1] : p = <<>> \/ (ListedAsDir(p) /\ FoundDir(p)) })

\* What pack_directory collects, and what of it can be read.
Collected == { p \in UNION { Level[k] : k \in 1..Depth } : ~ ListedAsDir(p) }
Missing   == { p \in Collected : Walk(inodes, p) = NoInode }
Readable  == { p \in Collected \ Missing : ~ FoundDir(p) }

-----------------------------------------------------------------------------
(* Reading the mount.                                                       *)

IsMarker(p) == Len(p) > 1 /\ p[Len(p) - 1] = Whiteout
MarkedBy(p) == Append(SubSeq(p, 1, Len(p) - 2), Last(p))

\* The paths that opening some files whites out: a marker whose path was made
\* visible again is still in the inode map, and is copied up like any file.
Hidden(opened) == { MarkedBy(p) : p \in { q \in opened : IsMarker(q) } } \ marks

\* Opening files copies them up.
CopyUp(opened) ==
    LET up == { p \in opened : ~ IsMarker(p) /\ ~ OnOverlay(p) }
    IN  /\ files' = [p \in DOMAIN files \cup up |->
                        IF p \in up THEN read(inodes, Walk(inodes, p)) ELSE files[p]]
        /\ dirs' = dirs \cup UNION { DirsTo(p) : p \in up \cup Hidden(opened) }
        /\ marks' = marks \cup Hidden(opened)
        /\ marked' = marked \cup { Front(p) : p \in Hidden(opened) }
        /\ written' = Without(written, { p \in DOMAIN written :
                                            \E q \in Hidden(opened) : Under(q, p) })

-----------------------------------------------------------------------------
(* The commands.                                                            *)

WorkspaceInit == Init /\ committed = <<>> /\ saved = <<>> /\ outcome = "none"

BeginCommit == requests + CommitCost <= MaxRequests /\ requests' = requests + CommitCost

\* Everything that was collected is packed.
CommitOk ==
    /\ BeginCommit
    /\ Collected = Readable
    /\ CopyUp(Readable)
    /\ committed' = [p \in Readable |-> read(inodes, Walk(inodes, p))]
    /\ saved' = [p \in DOMAIN written \cap Readable |-> written[p]]
    /\ outcome' = IF DOMAIN written' \subseteq Readable /\ DOMAIN written' = DOMAIN written
                     THEN "ok" ELSE "lossy"
    /\ UNCHANGED <<archive, inodes>>

\* A name that is listed and not found ends the commit before anything is read; a
\* directory that is listed as a file, or a file that is whited out before its
\* turn, ends it when some of the others have been read.
CommitFails ==
    /\ BeginCommit
    /\ \/ Missing # {} /\ UNCHANGED <<hostVars, written>>
       \/ /\ Missing = {}
          /\ \E opened \in SUBSET Readable :
                /\ Collected # Readable \/ Hidden(opened) # {}
                /\ CopyUp(opened)
    /\ outcome' = "failed"
    /\ UNCHANGED <<archive, inodes, committed, saved>>

\* The committed archive is checked out where there was no workspace.
CheckoutElsewhere ==
    /\ outcome \in {"ok", "lossy"}
    /\ archive' = committed /\ written' = saved
    /\ files' = <<>> /\ dirs' = { <<>> } /\ marks' = {} /\ marked' = {}
    /\ inodes' = Mounted(committed, {}, {})
    /\ UNCHANGED <<requests, commitVars>>

\* The committed archive is checked out in the place of the workspace, once that
\* is unmounted: the overlay, which is found by the place, is still there.
CheckoutHere ==
    /\ outcome \in {"ok", "lossy"}
    /\ archive' = committed
    /\ inodes' = MountedOver(committed)
    /\ UNCHANGED <<hostVars, written, requests, commitVars>>

Commands == CommitOk \/ CommitFails \/ CheckoutElsewhere \/ CheckoutHere

WorkspaceNext == (Next /\ UNCHANGED commitVars) \/ Commands

WorkspaceSpec == WorkspaceInit /\ [][WorkspaceNext]_workspaceVars

-----------------------------------------------------------------------------
(* What a commit promises.                                                  *)

\* "Execute the commit command to save workspace changes as a new thin archive"
\* (cli/src/cmd/data/commit.rs:13): a commit that returns Ok has left out nothing
\* that programs wrote, and has not removed it from the workspace either.
CommitSaves == outcome # "lossy"
=============================================================================
