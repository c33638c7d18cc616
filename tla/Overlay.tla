------------------------------- MODULE Overlay -------------------------------
(***************************************************************************)
(* The writable mount of fuse/src/fuse/mod.rs: an archive seen through an   *)
(* overlay directory.  A file is copied up when it is opened, changed or    *)
(* renamed; a name of the archive that must no longer be seen is whited     *)
(* out by a marker file in a ".hexz_whiteout" directory beside it.  One     *)
(* thread serves every request, so a handler is one step.                   *)
(*                                                                          *)
(* The requests are those the kernel makes for path operations of programs: *)
(* it walks the path by lookups, passes on what it found, and does not call *)
(* create, mkdir or unlink for a name that is, or is not, there.  Links,    *)
(* symbolic links, attributes and the passthrough metadata are not          *)
(* modelled; mknod is create.  Writes through a file that was opened under  *)
(* a name that has since gone to another file are not modelled.             *)
(***************************************************************************)
EXTENDS InodeMap, FiniteSets

CONSTANTS Names,            \* names a program uses
          Whiteout,         \* ".hexz_whiteout"
          Archive,          \* the first archive's manifest: a function from paths to bytes
          Offsets, Sizes,   \* bound: where a byte is written, what files are cut to
          MaxRequests       \* bound: requests that change something

\* A name is not a number: the inode <<k>> that is added later is no path's.
ASSUME NamesAssumption ==
    /\ Whiteout \notin Names
    /\ (Names \cup {Whiteout}) \cap Nat = {}
ASSUME ArchiveAssumption ==
    \A p \in DOMAIN Archive : p \in Seq(Names) \ {<<>>} /\ Archive[p] \in Seq(Nat)
ASSUME BoundAssumption ==
    Offsets \subseteq Nat /\ Sizes \subseteq Nat /\ MaxRequests \in Nat

VARIABLES
    archive,    \* the manifest of the archive that is mounted
    files,      \* regular files of the overlay: a function from paths to bytes
    dirs,       \* its directories, the root among them
    marks,      \* paths that are whited out
    marked,     \* directories that have a ".hexz_whiteout" directory, emptied or not
    inodes,     \* the InodeMap
    written,    \* history: what the files programs changed must hold, by path
    requests    \* requests served so far

hostVars == <<files, dirs, marks, marked>>
vars == <<archive, hostVars, inodes, written, requests>>

\* Bytes a program writes, and those of a hole; the archive has its own.
NewByte == 7
ZeroByte == 0

\* Directories are one level deep.
Tops == { <<n>> : n \in Names }
Paths == Tops \cup { <<d, n>> : d \in Names, n \in Names }

-----------------------------------------------------------------------------
(* What is seen.                                                            *)

\* full_path.exists()
OnOverlay(p) == p \in DOMAIN files \/ p \in dirs

is_whiteout(p) == p \in marks

\* lookup of a name under a directory's inode.
lookup(m, parent, name) ==
    IF ~ has_path(m, parent) THEN NoInode
    ELSE LET p == Append(get_path(m, parent), name)
         IN  IF is_whiteout(p) THEN NoInode ELSE get_inode(m, p)

\* getattr_internal: the kind of an inode, from the overlay if its path is there.
IsDir(m, ino) ==
    LET p == get_path(m, ino)
    IN  IF OnOverlay(p) THEN p \in dirs ELSE ~ is_file(m, ino)

\* The kernel's walk of a path: every name but the last must be a directory's.
Walk(m, path) ==
    FoldLeft(LAMBDA ino, n : IF ino = NoInode \/ ~ IsDir(m, ino) THEN NoInode
                             ELSE lookup(m, ino, n),
             ROOT_INODE, path)

\* read: the bytes of an inode.
read(m, ino) ==
    LET p == get_path(m, ino)
    IN  IF p \in DOMAIN files THEN files[p] ELSE m.nodes[ino].data

Exists(p) == Walk(inodes, p) # NoInode
DirAt(p) == Exists(p) /\ IsDir(inodes, Walk(inodes, p))
FileAt(p) == Exists(p) /\ ~ IsDir(inodes, Walk(inodes, p))

\* The inode map that a mount of an archive over this overlay starts with: the
\* marker directories are entries of the overlay, too.
MarkerDirs == { Append(x, Whiteout) : x \in marked }
MountedOver(manifest) ==
    Mounted(manifest, (dirs \ {<<>>}) \cup MarkerDirs,
            DOMAIN files \cup { Front(p) \o <<Whiteout, Last(p)>> : p \in marks })
Remounted == MountedOver(archive)

\* readdir: the children and the overlay's entries, less what is whited out.
Listing_ChildrenOnly(m, ino) ==
    { n \in readdir(m, ino) : ~ is_whiteout(Append(get_path(m, ino), n)) }
Listing(m, ino) ==
    LET at == get_path(m, ino)
        host == { Last(p) : p \in { q \in (DOMAIN files \cup dirs) \ {<<>>} : Front(q) = at } }
    IN  { n \in readdir(m, ino) \cup host : ~ is_whiteout(Append(at, n)) }

-----------------------------------------------------------------------------
(* The helpers of the handlers.                                             *)

\* create_dir_all of the directory a path is in.
DirsTo_Shallow(p) == { <<>> }
DirsTo(p) == { SubSeq(p, 1, n) : n \in 0..(Len(p) - 1) }
WithParent(p) == dirs \cup DirsTo(p)

\* ensure_cow of an inode whose path is p.
CopiedUp_Empty(p, ino) ==
    IF OnOverlay(p) \/ ~ is_file(inodes, ino) THEN files ELSE With(files, p, <<>>)
CopiedUp(p, ino) ==
    IF OnOverlay(p) \/ ~ is_file(inodes, ino) THEN files
    ELSE With(files, p, inodes.nodes[ino].data)
CowDirs(p, ino) == IF OnOverlay(p) \/ ~ is_file(inodes, ino) THEN dirs ELSE WithParent(p)

\* Writing a byte at position k, and cutting or extending to n bytes.
WriteByte(bytes, k) ==
    [i \in 1..(IF k > Len(bytes) THEN k ELSE Len(bytes)) |->
        IF i = k THEN NewByte ELSE IF i <= Len(bytes) THEN bytes[i] ELSE ZeroByte]
SetLen(bytes, n) == [i \in 1..n |-> IF i <= Len(bytes) THEN bytes[i] ELSE ZeroByte]

\* What the file at p held when a program looked at it last.
Expected(p) == IF p \in DOMAIN written THEN written[p] ELSE read(inodes, Walk(inodes, p))

-----------------------------------------------------------------------------
(* The handlers.                                                            *)

Init ==
    /\ archive = Archive
    /\ files = <<>> /\ dirs = { <<>> } /\ marks = {} /\ marked = {}
    /\ inodes = Mounted(Archive, {}, {})
    /\ written = <<>> /\ requests = 0

\* create, mknod: the host refuses where a directory is that is whited out.
\* remove_whiteout removes a marker, and never the directory it is in.
create(p) ==
    /\ DirAt(Front(p)) /\ ~ Exists(p)
    /\ dirs' = WithParent(p)
    /\ marks' = marks \ {p} /\ UNCHANGED marked
    /\ IF p \in dirs
          THEN UNCHANGED <<files, inodes, written>>
          ELSE /\ files' = With(files, p, <<>>)
               /\ inodes' = add_file_at_path(inodes, p, FALSE)
               /\ written' = With(written, p, <<>>)

\* mkdir, which a file that is whited out prevents.
mkdir(p) ==
    /\ ~ Exists(p)
    /\ marks' = marks \ {p} /\ UNCHANGED marked
    /\ IF p \in DOMAIN files
          THEN UNCHANGED <<dirs, inodes>>
          ELSE /\ dirs' = WithParent(p) \cup {p}
               /\ inodes' = add_file_at_path(inodes, p, TRUE)
    /\ UNCHANGED <<files, written>>

\* Opening a file of a writable mount copies it up, even to read it.
open(p) ==
    /\ FileAt(p)
    /\ files' = CopiedUp(p, Walk(inodes, p))
    /\ dirs' = CowDirs(p, Walk(inodes, p))
    /\ UNCHANGED <<marks, marked, inodes, written>>

\* write of a byte, setattr of the size: what a file's bytes become, and what
\* the program expects of them.
Content(p) == CopiedUp(p, Walk(inodes, p))[p]
Change(p, bytes, expected) ==
    /\ files' = With(CopiedUp(p, Walk(inodes, p)), p, bytes)
    /\ dirs' = CowDirs(p, Walk(inodes, p))
    /\ written' = With(written, p, expected)
    /\ UNCHANGED <<marks, marked, inodes>>

write(p) ==
    /\ FileAt(p)
    /\ \E k \in Offsets : Change(p, WriteByte(Content(p), k), WriteByte(Expected(p), k))
setattr(p) ==
    /\ FileAt(p)
    /\ \E n \in Sizes : Change(p, SetLen(Content(p), n), SetLen(Expected(p), n))

\* unlink looks for the path in the inode map after it has removed it.
unlink(p) ==
    /\ FileAt(p)
    /\ files' = Without(files, {p})
    /\ inodes' = remove_path(inodes, p)
    /\ marks' = IF get_inode(inodes', p) # NoInode THEN marks \cup {p} ELSE marks
    /\ marked' = IF get_inode(inodes', p) # NoInode THEN marked \cup {Front(p)} ELSE marked
    /\ written' = Without(written, {p})
    /\ UNCHANGED dirs

Below(p, set) == { q \in set : Under(p, q) }

\* rmdir removes what the overlay has of the directory, markers included.
rmdir(p) ==
    /\ DirAt(p)
    /\ files' = Without(files, Below(p, DOMAIN files))
    /\ dirs' = dirs \ Below(p, dirs)
    /\ inodes' = remove_path(inodes, p)
    /\ marks' = LET left == { x \in marks : ~ Under(p, x) \/ x = p }
                IN  IF get_inode(inodes', p) # NoInode THEN left \cup {p} ELSE left
    /\ marked' = LET left == marked \ Below(p, marked)
                 IN  IF get_inode(inodes', p) # NoInode THEN left \cup {Front(p)} ELSE left
    /\ written' = Without(written, Below(p, DOMAIN written))

\* Everything at and below p in a function of paths moves over what is at q.
MovedTo(f, p, q) ==
    LET kept == DOMAIN f \ (Below(p, DOMAIN f) \cup Below(q, DOMAIN f))
        moved == { Rebase(x, p, q) : x \in Below(p, DOMAIN f) }
    IN  [x \in kept \cup moved |-> IF x \in moved THEN f[Rebase(x, q, p)] ELSE f[x]]
MovedSet(set, p, q) ==
    (set \ (Below(p, set) \cup Below(q, set))) \cup { Rebase(x, p, q) : x \in Below(p, set) }

\* A directory takes the markers in it along.
MovedMarks(p, q) ==
    { x \in marks : ~ Under(p, x) \/ x = p } \cup { Rebase(x, p, q) : x \in Below(p, marks) \ {p} }

\* The kernel lets a file replace a file, and a directory a directory.
MayRename(p, q) ==
    /\ p # q /\ Exists(p) /\ DirAt(Front(q)) /\ ~ Under(p, q)
    /\ DirAt(p) => q \in Tops
    /\ Exists(q) => (DirAt(p) <=> DirAt(q))

\* std::fs::rename: the source must be there, a file may only replace a file and
\* a directory an empty one; a directory for markers is an entry, emptied or not.
HostRenames(copied, p, q) ==
    /\ \/ p \in DOMAIN copied /\ q \notin dirs
       \/ p \in dirs /\ q \notin DOMAIN files
    /\ q \in dirs => (Below(q, DOMAIN files) \cup Below(q, dirs) \cup Below(q, MarkerDirs)) = {q}

\* What is in a directory of the archive only does not move with it.
LeftBehind(p) == Below(p, DOMAIN written) \ DOMAIN files

rename(p, q) ==
    /\ MayRename(p, q)
    /\ LET ino == get_inode(inodes, p)
           copied == IF OnOverlay(p) THEN files ELSE CopiedUp(p, ino)
           made == (IF OnOverlay(p) THEN dirs ELSE CowDirs(p, ino)) \cup WithParent(q)
       IN  IF HostRenames(copied, p, q)
              THEN /\ files' = MovedTo(copied, p, q)
                   /\ dirs' = MovedSet(made, p, q) \cup DirsTo(p)
                   /\ inodes' = rename_path(inodes, p, q)
                   /\ marks' = (MovedMarks(p, q) \cup {p}) \ {q}
                   /\ marked' = MovedSet(marked, p, q) \cup {Front(p)}
                   /\ written' = MovedTo(IF FileAt(p) THEN With(written, p, Expected(p))
                                                      ELSE Without(written, LeftBehind(p)), p, q)
              ELSE /\ files' = copied /\ dirs' = made
                   /\ UNCHANGED <<marks, marked, inodes, written>>

\* The mount is taken down and put up again, over the same overlay.
Remount ==
    /\ inodes' = Remounted
    /\ UNCHANGED <<archive, hostVars, written, requests>>

Request ==
    \/ \E p \in Paths : create(p) \/ open(p) \/ write(p) \/ setattr(p) \/ unlink(p)
    \/ \E p \in Tops : mkdir(p) \/ rmdir(p)
    \/ \E p, q \in Paths : rename(p, q)

Next ==
    \/ requests < MaxRequests /\ requests' = requests + 1 /\ Request /\ UNCHANGED archive
    \/ Remount

Spec == Init /\ [][Next]_vars

-----------------------------------------------------------------------------
(* What the mount promises.                                                 *)

Bytes == Seq(Nat)

\* The overlay is a tree with its root, of files programs can name: no marker
\* of a whiteout is ever copied up as if it were one, and a marker is in a
\* directory for markers of a directory that is there.  No path is a file and a
\* directory of it, and the maps are between paths and inodes that have nodes.
TypeOK ==
    /\ \A p \in DOMAIN files : p \in Seq(Names) \ {<<>>} /\ files[p] \in Bytes
    /\ <<>> \in dirs /\ dirs \subseteq Seq(Names) /\ dirs \cap DOMAIN files = {}
    /\ \A p \in DOMAIN files : Front(p) \in dirs
    /\ marked \subseteq dirs /\ \A p \in marks : Front(p) \in marked
    /\ marks \subseteq Seq(Names) \ {<<>>}
    /\ requests \in 0..MaxRequests /\ inodes.next_inode \in Nat
    /\ \A i \in DOMAIN inodes.ino_to_path : i \in DOMAIN inodes.nodes
    /\ \A p \in DOMAIN inodes.path_to_ino : inodes.path_to_ino[p] \in DOMAIN inodes.nodes
    /\ \A p \in DOMAIN written : p \in Seq(Names) \ {<<>>} /\ written[p] \in Bytes

\* The inode a path is found under stands for that path, whatever has been
\* renamed, replaced or removed: a handler that goes back from the inode to
\* the path works on the file the program named.
PathsInverse ==
    \A p \in DOMAIN inodes.path_to_ino : get_path(inodes, inodes.path_to_ino[p]) = p

\* What is on the overlay has an inode: lookup and readdir find it, and never
\* have to add it.
OverlayHasInodes ==
    \A p \in (DOMAIN files \cup dirs) \ {<<>>} : p \in DOMAIN inodes.path_to_ino

\* What a program wrote, made or renamed is there under its name, byte for
\* byte with what the archive had where it did not write, in this mount and
\* in the next one.
Holds(m, p, bytes) == Walk(m, p) # NoInode /\ ~ IsDir(m, Walk(m, p)) /\ read(m, Walk(m, p)) = bytes
WritesSurvive ==
    \A m \in {inodes, Remounted}, p \in DOMAIN written : Holds(m, p, written[p])

\* And it is listed in its directory, for a commit packs what it finds by
\* listing directories.
WrittenListed ==
    \A m \in {inodes, Remounted}, p \in DOMAIN written :
        Last(p) \in Listing(m, Walk(m, Front(p)))

\* A file of the archive that was deleted stays deleted in the next mount, as
\* long as its directory is there ("Always create whiteout if it exists in
\* archive", fuse/src/fuse/mod.rs:682).
NoResurrection ==
    \A m \in {Remounted}, p \in DOMAIN archive :
        Exists(Front(p)) /\ Walk(m, p) # NoInode => Exists(p)
=============================================================================
