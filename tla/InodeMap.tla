------------------------------ MODULE InodeMap ------------------------------
(***************************************************************************)
(* InodeMap of vfs/src/lib.rs: the inodes of a mounted archive, as         *)
(* functions on the record m of its fields.                                *)
(*                                                                         *)
(* A path is the sequence of its names, <<>> the root.  An inode the map   *)
(* is built with is named after its path; one that is added later is       *)
(* <<k>> for a counter k.  A node is a directory with children, by name,   *)
(* or a file with the bytes its range of the archive holds: none for a     *)
(* file the archive does not have.  Owners, modes and times are left out.  *)
(***************************************************************************)
EXTENDS Naturals, SequencesExt

ROOT_INODE == <<>>
NoInode == <<0>>      \* no inode: the counter starts at 1

Directory(children) == [dir |-> TRUE, data |-> <<>>, children |-> children]
File(data) == [dir |-> FALSE, data |-> data, children |-> <<>>]

Without(f, keys) == [x \in DOMAIN f \ keys |-> f[x]]
With(f, key, value) == [x \in DOMAIN f \cup {key} |-> IF x = key THEN value ELSE f[x]]

-----------------------------------------------------------------------------
(* Lookups.                                                                *)

get_inode(m, path) == IF path \in DOMAIN m.path_to_ino THEN m.path_to_ino[path] ELSE NoInode
has_path(m, ino) == ino \in DOMAIN m.ino_to_path
get_path(m, ino) == m.ino_to_path[ino]
is_file(m, ino) == ino \in DOMAIN m.nodes /\ ~ m.nodes[ino].dir

\* readdir: the names of the children that have a node.
readdir(m, ino) ==
    IF ino \notin DOMAIN m.nodes THEN {}
    ELSE { n \in DOMAIN m.nodes[ino].children : m.nodes[ino].children[n] \in DOMAIN m.nodes }

-----------------------------------------------------------------------------
(* Changes.                                                                *)

\* A new node for a path, entered as a child of parent if that is a directory.
AddNode(m, path, parent, node) ==
    LET ino == << m.next_inode >>
        nodes == With(m.nodes, ino, node)
        entered == [nodes EXCEPT ![parent].children = With(@, Last(path), ino)]
    IN  [nodes |-> IF m.nodes[parent].dir THEN entered ELSE nodes,
         path_to_ino |-> With(m.path_to_ino, path, ino),
         ino_to_path |-> With(m.ino_to_path, ino, path),
         next_inode |-> m.next_inode + 1]

\* get_or_create_dir walks the children, not the paths.
DirStep(s, name) ==
    LET m == s.map
        at == m.nodes[s.ino]
        path == Append(s.path, name)
    IN  IF at.dir /\ name \in DOMAIN at.children
           THEN [map |-> m, ino |-> at.children[name], path |-> path]
        ELSE IF at.dir
           THEN [map |-> AddNode(m, path, s.ino, Directory(<<>>)),
                 ino |-> << m.next_inode >>, path |-> path]
        ELSE [s EXCEPT !.path = path]

get_or_create_dir(m, path) ==
    FoldLeft(DirStep, [map |-> m, ino |-> ROOT_INODE, path |-> <<>>], path)

add_file_at_path(m, path, is_dir) ==
    IF path \in DOMAIN m.path_to_ino THEN m
    ELSE LET parent == get_or_create_dir(m, Front(path))
         IN  AddNode(parent.map, path, parent.ino,
                     IF is_dir THEN Directory(<<>>) ELSE File(<<>>))

\* The node and its entry in the parent directory stay.
remove_path(m, path) ==
    IF path \notin DOMAIN m.path_to_ino THEN m
    ELSE [m EXCEPT !.path_to_ino = Without(@, {path}),
                   !.ino_to_path = Without(@, {m.path_to_ino[path]})]

\* path.starts_with(prefix), and the path under another prefix.
Under(prefix, path) == IsPrefix(prefix, path)
Rebase(path, old, new) == new \o SubSeq(path, Len(old) + 1, Len(path))

\* rename_path moves the paths at and below the old one over what the new one
\* has; the children of the directories stay as they are.
rename_path_PathOnly(m, old, new) ==
    IF old \notin DOMAIN m.path_to_ino THEN m
    ELSE [m EXCEPT !.path_to_ino = With(Without(@, {old}), new, m.path_to_ino[old]),
                   !.ino_to_path = With(@, m.path_to_ino[old], new)]
rename_path_OldInodePaths(m, old, new) ==
    IF old \notin DOMAIN m.path_to_ino THEN m
    ELSE [m EXCEPT !.path_to_ino = With(Without(@, {old}), new, m.path_to_ino[old])]
rename_path(m, old, new) ==
    IF old \notin DOMAIN m.path_to_ino THEN m
    ELSE LET moved == { p \in DOMAIN m.path_to_ino : Under(old, p) }
             from(p) == Rebase(p, new, old)
             target == { Rebase(p, old, new) : p \in moved }
         IN  [m EXCEPT
                !.path_to_ino = [p \in (DOMAIN @ \ moved) \cup target |->
                                    IF p \in target THEN @[from(p)] ELSE @[p]],
                !.ino_to_path = [i \in DOMAIN @ |->
                                    IF \E p \in moved : m.path_to_ino[p] = i
                                    THEN Rebase(@[i], old, new) ELSE @[i]]]

-----------------------------------------------------------------------------
(* Mounting.                                                               *)

Ancestors(paths) == UNION { { SubSeq(p, 1, n) : n \in 0..(Len(p) - 1) } : p \in paths }

\* InodeMap::new over the archive's manifest (a function of paths), then
\* populate_from_overlay over what a walk of the overlay finds.
Mounted(archive, overlayDirs, overlayFiles) ==
    LET dirs == (Ancestors(DOMAIN archive \cup overlayDirs \cup overlayFiles) \cup overlayDirs)
                    \ DOMAIN archive
        files == (DOMAIN archive \cup overlayFiles) \ dirs
        paths == dirs \cup files \cup { ROOT_INODE }
        children(p) == { q \in paths : Len(q) = Len(p) + 1 /\ Under(p, q) }
        node(p) ==
            IF p \in files
               THEN File(IF p \in DOMAIN archive THEN archive[p] ELSE <<>>)
               ELSE Directory([n \in { Last(q) : q \in children(p) } |-> Append(p, n)])
    IN  [nodes |-> [p \in paths |-> node(p)],
         path_to_ino |-> [p \in paths \ {ROOT_INODE} |-> p],
         ino_to_path |-> [p \in paths |-> p],
         next_inode |-> 1]
=============================================================================
