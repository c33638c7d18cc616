---------------------------- MODULE OverlayProofs ----------------------------
(***************************************************************************)
(* The theorems about the writable mount and the commands over it, for any *)
(* names, archive and number of requests.                                  *)
(*                                                                         *)
(* PathsInverse is not inductive: an inode that is added must be new, which*)
(* needs the counter (FreshInv), and paths that a rename moves must come   *)
(* back when they are moved back, which needs that they are sequences      *)
(* (RebaseBack).  OverlayHasInodes needs that what the kernel's walk finds *)
(* is in the map with every directory above it (WalkFinds), as the host    *)
(* makes the directories on the way when a file is copied up.              *)
(*                                                                         *)
(* WritesSurvive and WrittenListed follow from WInv: the overlay is a tree *)
(* (Tree), and what programs wrote is a file of it, or a file of the       *)
(* archive that a commit packed, whose way the inode map still has as it   *)
(* was mounted (Kept, FromArchive).  A lemma for each request and command  *)
(* shows that it survives.                                                 *)
(*                                                                         *)
(* A directory that is renamed over is empty of markers, because a marker   *)
(* is in a directory for markers (MarkersMarked).                           *)
(*                                                                         *)
(* TypeOK, that no marker of a whiteout becomes a file of the overlay,     *)
(* needs the shape of the paths of the map and of an archive (TInv).       *)
(***************************************************************************)
EXTENDS Workspace, SequenceTheorems, NaturalsInduction, WellFoundedInduction, TLAPS

\* The names of entries, the marker directories among them, and their paths.
Entry == Names \cup {Whiteout}
Keys == Seq(Entry)

-----------------------------------------------------------------------------
(* Paths.                                                                   *)

LEMMA PathsAreKeys == Paths \subseteq Keys \ {<<>>} /\ Tops \subseteq Paths
BY DEF Paths, Tops, Keys, Entry

LEMMA AppendIsKey ==
    ASSUME NEW p \in Keys, NEW n \in Entry
    PROVE  /\ Append(p, n) \in Keys \ {<<>>}
           /\ Len(Append(p, n)) = Len(p) + 1
BY AppendProperties DEF Keys

LEMMA PrefixIsKey ==
    ASSUME NEW p \in Keys, NEW n \in 0..Len(p)
    PROVE  SubSeq(p, 1, n) \in Keys /\ Len(SubSeq(p, 1, n)) = n
<1>1. \A i \in 1..n : p[i] \in Entry
  BY ElementOfSeq DEF Keys
<1> QED BY <1>1, SubSeqProperties DEF Keys

LEMMA LastIsEntry ==
    ASSUME NEW p \in Keys \ {<<>>}
    PROVE  /\ Last(p) \in Entry /\ Front(p) \in Keys /\ Len(p) \in Nat \ {0}
           /\ Len(Front(p)) = Len(p) - 1
<1>1. Len(p) \in Nat \ {0}
  BY EmptySeq DEF Keys
<1>2. p[Len(p)] \in Entry
  BY <1>1, ElementOfSeq DEF Keys
<1>3. SubSeq(p, 1, Len(p) - 1) \in Keys /\ Len(SubSeq(p, 1, Len(p) - 1)) = Len(p) - 1
  <2>1. PICK n \in 0..Len(p) : n = Len(p) - 1
    BY <1>1
  <2>2. SubSeq(p, 1, n) \in Keys /\ Len(SubSeq(p, 1, n)) = n
    BY PrefixIsKey
  <2> QED BY <2>1, <2>2
<1> QED BY <1>1, <1>2, <1>3 DEF Last, Front

LEMMA DirsToAreKeys ==
    ASSUME NEW p \in Keys
    PROVE  DirsTo(p) \subseteq Keys
<1>1. ASSUME NEW n \in 0..(Len(p) - 1) PROVE SubSeq(p, 1, n) \in Keys
  <2>1. n \in 0..Len(p)
    BY LenProperties DEF Keys
  <2> QED BY <2>1, PrefixIsKey
<1> QED BY <1>1 DEF DirsTo

\* A path under a prefix goes to the new prefix and back.
LEMMA RebaseBack ==
    ASSUME NEW p \in Keys, NEW old \in Keys, NEW new \in Keys, Under(old, p)
    PROVE  /\ Rebase(p, old, new) \in Keys
           /\ Len(Rebase(p, old, new)) = Len(new) + (Len(p) - Len(old))
           /\ Rebase(Rebase(p, old, new), new, old) = p
<1> DEFINE rest == SubSeq(p, Len(old) + 1, Len(p))
           there == new \o rest
           back == SubSeq(there, Len(new) + 1, Len(there))
<1>1. /\ Len(p) \in Nat /\ Len(old) \in Nat /\ Len(new) \in Nat
      /\ Len(old) <= Len(p)
      /\ SubSeq(old, 1, Len(old)) = SubSeq(p, 1, Len(old))
  BY LenProperties DEF Keys, Under, IsPrefix
<1>2. /\ rest \in Keys /\ Len(rest) = Len(p) - Len(old)
      /\ \A i \in 1..(Len(p) - Len(old)) : rest[i] = p[Len(old) + i]
  <2>1. \A i \in (Len(old) + 1)..Len(p) : p[i] \in Entry
    BY <1>1, ElementOfSeq DEF Keys
  <2>2. /\ rest \in Seq(Entry)
        /\ Len(rest) = IF Len(old) + 1 <= Len(p) THEN Len(p) - (Len(old) + 1) + 1 ELSE 0
        /\ \A i \in 1..(Len(p) - (Len(old) + 1) + 1) : rest[i] = p[(Len(old) + 1) + i - 1]
    BY <1>1, <2>1, SubSeqProperties
  <2> QED BY <1>1, <2>2 DEF Keys
<1>3. /\ there \in Keys /\ Len(there) = Len(new) + (Len(p) - Len(old))
      /\ \A i \in 1..(Len(p) - Len(old)) : there[Len(new) + i] = rest[i]
  <2> HIDE DEF rest
  <2>1. /\ there \in Seq(Entry) /\ Len(there) = Len(new) + Len(rest)
        /\ \A i \in 1..(Len(new) + Len(rest)) :
              there[i] = IF i <= Len(new) THEN new[i] ELSE rest[i - Len(new)]
    BY <1>2, ConcatProperties DEF Keys
  <2> HIDE DEF there
  <2>2. ASSUME NEW i \in 1..(Len(p) - Len(old)) PROVE there[Len(new) + i] = rest[i]
    <3>1. Len(new) + i \in 1..(Len(new) + Len(rest)) /\ ~ (Len(new) + i <= Len(new))
      BY <1>1, <1>2
    <3>2. (Len(new) + i) - Len(new) = i
      BY <1>1
    <3> QED BY <2>1, <3>1, <3>2
  <2> QED BY <1>2, <2>1, <2>2 DEF Keys
<1>4. back = rest
  <2> HIDE DEF rest, there
  <2>1. \A i \in (Len(new) + 1)..Len(there) : there[i] \in Entry
    BY <1>1, <1>3, ElementOfSeq DEF Keys
  <2>2. /\ back \in Seq(Entry)
        /\ Len(back) = IF Len(new) + 1 <= Len(there) THEN Len(there) - (Len(new) + 1) + 1 ELSE 0
        /\ \A i \in 1..(Len(there) - (Len(new) + 1) + 1) : back[i] = there[(Len(new) + 1) + i - 1]
    BY <1>1, <1>3, <2>1, SubSeqProperties
  <2> HIDE DEF back
  <2>3. Len(back) = Len(rest)
    BY <1>1, <1>2, <1>3, <2>2
  <2>4. ASSUME NEW i \in 1..Len(back) PROVE back[i] = rest[i]
    <3>1. i \in 1..(Len(p) - Len(old)) /\ (Len(new) + 1) + i - 1 = Len(new) + i
          /\ i \in 1..(Len(there) - (Len(new) + 1) + 1)
      BY <1>1, <1>2, <1>3, <2>3
    <3> QED BY <1>3, <2>2, <3>1
  <2>5. rest \in Seq(Entry)
    BY <1>2 DEF Keys
  <2> QED BY <2>2, <2>3, <2>4, <2>5, SeqEqual
<1>5. old \o rest = p
  <2>1. old = SubSeq(p, 1, Len(old))
    BY <1>1, SubSeqFull DEF Keys
  <2>2. SubSeq(p, 1, Len(old)) \o SubSeq(p, Len(old) + 1, Len(p)) = SubSeq(p, 1, Len(p))
    <3>1. \A m \in 1..Len(p)+1 : \A k \in m-1..Len(p) : \A n \in k..Len(p) :
              SubSeq(p, m, k) \o SubSeq(p, k+1, n) = SubSeq(p, m, n)
      BY ConcatAdjacentSubSeq DEF Keys
    <3>2. 1 \in 1..Len(p)+1 /\ Len(old) \in 1-1..Len(p) /\ Len(p) \in Len(old)..Len(p)
      BY <1>1
    <3> QED BY <3>1, <3>2
  <2> QED BY <2>1, <2>2, SubSeqFull DEF Keys
<1>6. Rebase(p, old, new) = there
  BY DEF Rebase
<1>7. Rebase(there, new, old) = old \o back
  BY DEF Rebase
<1> QED BY <1>3, <1>4, <1>5, <1>6, <1>7

-----------------------------------------------------------------------------
(* The inode map.                                                           *)

NodesInv(m) ==
    \A i \in DOMAIN m.nodes :
        /\ DOMAIN m.nodes[i] = {"dir", "data", "children"}
        /\ DOMAIN m.nodes[i].children \subseteq Entry

InverseInv(m) ==
    \A p \in DOMAIN m.path_to_ino :
        /\ p \in Keys \ {<<>>}
        /\ m.path_to_ino[p] \in DOMAIN m.ino_to_path
        /\ m.ino_to_path[m.path_to_ino[p]] = p

RootInv(m) == ROOT_INODE \in DOMAIN m.ino_to_path /\ m.ino_to_path[ROOT_INODE] = <<>>

FreshInv(m) == \A k \in Nat : <<k>> \in DOMAIN m.ino_to_path => k # 0 /\ k < m.next_inode

\* The root stays a directory; what is in it has the inode of its path, or one
\* that was added.
RootNodeInv(m) ==
    /\ ROOT_INODE \in DOMAIN m.nodes /\ m.nodes[ROOT_INODE].dir
    /\ \A n \in DOMAIN m.nodes[ROOT_INODE].children :
          \/ m.nodes[ROOT_INODE].children[n] = <<n>>
          \/ \E j \in Nat : m.nodes[ROOT_INODE].children[n] = <<j>>

MapInv(m) ==
    /\ DOMAIN m = {"nodes", "path_to_ino", "ino_to_path", "next_inode"}
    /\ m.next_inode \in Nat \ {0}
    /\ NodesInv(m) /\ InverseInv(m) /\ RootInv(m) /\ FreshInv(m) /\ RootNodeInv(m)

LEMMA AddNodeKeeps ==
    ASSUME NEW m, MapInv(m), NEW path \in Keys \ {<<>>}, NEW parent, NEW node,
           DOMAIN node = {"dir", "data", "children"}, DOMAIN node.children \subseteq Entry
    PROVE  /\ MapInv(AddNode(m, path, parent, node))
           /\ DOMAIN AddNode(m, path, parent, node).path_to_ino = DOMAIN m.path_to_ino \cup {path}
<1> DEFINE k == m.next_inode
           nodes == With(m.nodes, <<k>>, node)
           entered == [nodes EXCEPT ![parent].children = With(@, Last(path), <<k>>)]
           new == AddNode(m, path, parent, node)
<1>1. /\ new.nodes = IF m.nodes[parent].dir THEN entered ELSE nodes
      /\ new.path_to_ino = With(m.path_to_ino, path, <<k>>)
      /\ new.ino_to_path = With(m.ino_to_path, <<k>>, path)
      /\ new.next_inode = k + 1
      /\ DOMAIN new = {"nodes", "path_to_ino", "ino_to_path", "next_inode"}
  BY DEF AddNode
<1>2. DOMAIN new.path_to_ino = DOMAIN m.path_to_ino \cup {path}
  BY <1>1 DEF With
<1>3. k \in Nat \ {0} /\ <<k>> # ROOT_INODE /\ <<k>> \notin DOMAIN m.ino_to_path
  BY DEF MapInv, FreshInv, ROOT_INODE
<1>4. NodesInv(new)
  <2>1. ASSUME NEW i \in DOMAIN nodes
        PROVE  DOMAIN nodes[i] = {"dir", "data", "children"} /\ DOMAIN nodes[i].children \subseteq Entry
    BY DEF With, MapInv, NodesInv
  <2>2. ASSUME NEW i \in DOMAIN entered
        PROVE  DOMAIN entered[i] = {"dir", "data", "children"} /\ DOMAIN entered[i].children \subseteq Entry
    <3> HIDE DEF nodes
    <3>1. i \in DOMAIN nodes
      OBVIOUS
    <3>2. CASE i # parent
      <4>1. entered[i] = nodes[i]
        BY <3>1, <3>2
      <4> QED BY <2>1, <3>1, <4>1
    <3>3. CASE i = parent
      <4>1. entered[i] = [nodes[i] EXCEPT !.children = With(nodes[i].children, Last(path), <<k>>)]
        BY <3>1, <3>3
      <4>2. DOMAIN entered[i] = DOMAIN nodes[i]
            /\ entered[i].children = With(nodes[i].children, Last(path), <<k>>)
        BY <2>1, <3>1, <4>1
      <4>3. Last(path) \in Entry
        BY LastIsEntry
      <4> QED BY <2>1, <3>1, <4>2, <4>3 DEF With
    <3> QED BY <3>2, <3>3
  <2> QED BY <1>1, <2>1, <2>2 DEF NodesInv
<1>5. InverseInv(new)
  <2> SUFFICES ASSUME NEW p \in DOMAIN new.path_to_ino
               PROVE  /\ p \in Keys \ {<<>>}
                      /\ new.path_to_ino[p] \in DOMAIN new.ino_to_path
                      /\ new.ino_to_path[new.path_to_ino[p]] = p
    BY DEF InverseInv
  <2>1. CASE p = path
    BY <1>1, <2>1 DEF With
  <2>2. CASE p # path
    <3>1. p \in DOMAIN m.path_to_ino /\ new.path_to_ino[p] = m.path_to_ino[p]
      BY <1>1, <1>2, <2>2 DEF With
    <3>2. /\ p \in Keys \ {<<>>}
          /\ m.path_to_ino[p] \in DOMAIN m.ino_to_path
          /\ m.ino_to_path[m.path_to_ino[p]] = p
      BY <3>1 DEF MapInv, InverseInv
    <3> QED BY <1>1, <1>3, <3>1, <3>2 DEF With
  <2> QED BY <2>1, <2>2
<1>6. RootInv(new)
  BY <1>1, <1>3 DEF With, MapInv, RootInv
<1>7. FreshInv(new)
  <2> SUFFICES ASSUME NEW j \in Nat, <<j>> \in DOMAIN new.ino_to_path
               PROVE  j # 0 /\ j < k + 1
    BY <1>1 DEF FreshInv
  <2>1. <<j>> \in DOMAIN m.ino_to_path \/ <<j>> = <<k>>
    BY <1>1 DEF With
  <2>2. CASE <<j>> \in DOMAIN m.ino_to_path
    BY <1>3, <2>2 DEF MapInv, FreshInv
  <2>3. CASE <<j>> = <<k>>
    BY <1>3, <2>3
  <2> QED BY <2>1, <2>2, <2>3
<1>8. RootNodeInv(new)
  <2>1. /\ ROOT_INODE \in DOMAIN m.nodes /\ m.nodes[ROOT_INODE].dir
        /\ DOMAIN m.nodes[ROOT_INODE] = {"dir", "data", "children"}
        /\ \A n \in DOMAIN m.nodes[ROOT_INODE].children :
              \/ m.nodes[ROOT_INODE].children[n] = <<n>>
              \/ \E j \in Nat : m.nodes[ROOT_INODE].children[n] = <<j>>
    BY DEF MapInv, RootNodeInv, NodesInv
  <2>2. ROOT_INODE \in DOMAIN nodes /\ nodes[ROOT_INODE] = m.nodes[ROOT_INODE]
    BY <1>3, <2>1 DEF With
  <2>3. DOMAIN entered = DOMAIN nodes
    OBVIOUS
  <2> HIDE DEF nodes
  <2>4. CASE parent = ROOT_INODE
    <3>1. entered[ROOT_INODE] =
              [nodes[ROOT_INODE] EXCEPT !.children = With(nodes[ROOT_INODE].children, Last(path), <<k>>)]
      BY <2>2, <2>4
    <3> HIDE DEF entered
    <3>2. entered[ROOT_INODE].children = With(m.nodes[ROOT_INODE].children, Last(path), <<k>>)
          /\ entered[ROOT_INODE].dir = m.nodes[ROOT_INODE].dir
      BY <2>1, <2>2, <3>1
    <3>3. new.nodes = entered
      BY <1>1, <2>1, <2>4
    <3>4. ASSUME NEW n \in DOMAIN entered[ROOT_INODE].children
          PROVE  \/ entered[ROOT_INODE].children[n] = <<n>>
                 \/ \E j \in Nat : entered[ROOT_INODE].children[n] = <<j>>
      <4>1. CASE n = Last(path)
        <5>1. entered[ROOT_INODE].children[n] = <<k>>
          BY <3>2, <4>1 DEF With
        <5> QED BY <1>3, <5>1
      <4>2. CASE n # Last(path)
        <5>1. n \in DOMAIN m.nodes[ROOT_INODE].children
              /\ entered[ROOT_INODE].children[n] = m.nodes[ROOT_INODE].children[n]
          BY <3>2, <4>2 DEF With
        <5> QED BY <2>1, <5>1
      <4> QED BY <4>1, <4>2
    <3> QED BY <2>1, <2>2, <2>3, <3>2, <3>3, <3>4 DEF RootNodeInv
  <2>5. CASE parent # ROOT_INODE
    <3>1. entered[ROOT_INODE] = nodes[ROOT_INODE]
      BY <2>2, <2>5
    <3>2. new.nodes[ROOT_INODE] = m.nodes[ROOT_INODE] /\ ROOT_INODE \in DOMAIN new.nodes
      BY <1>1, <2>2, <2>3, <3>1
    <3> QED BY <2>1, <3>2 DEF RootNodeInv
  <2> QED BY <2>4, <2>5
<1> QED BY <1>1, <1>2, <1>3, <1>4, <1>5, <1>6, <1>7, <1>8 DEF MapInv

LEMMA NewNodes ==
    ASSUME NEW data
    PROVE  /\ DOMAIN Directory(<<>>) = {"dir", "data", "children"} /\ DOMAIN Directory(<<>>).children \subseteq Entry
           /\ DOMAIN File(data) = {"dir", "data", "children"} /\ DOMAIN File(data).children \subseteq Entry
BY DEF Directory, File

LEMMA RemoveKeeps ==
    ASSUME NEW m, MapInv(m), NEW path
    PROVE  /\ MapInv(remove_path(m, path))
           /\ DOMAIN remove_path(m, path).path_to_ino = DOMAIN m.path_to_ino \ {path}
<1> DEFINE new == remove_path(m, path)
           ino == m.path_to_ino[path]
<1>1. CASE path \notin DOMAIN m.path_to_ino
  BY <1>1 DEF remove_path
<1>2. CASE path \in DOMAIN m.path_to_ino
  <2>1. /\ DOMAIN new = DOMAIN m
        /\ new.nodes = m.nodes /\ new.next_inode = m.next_inode
        /\ new.path_to_ino = Without(m.path_to_ino, {path})
        /\ new.ino_to_path = Without(m.ino_to_path, {ino})
    BY <1>2 DEF remove_path, MapInv
  <2>2. ino \in DOMAIN m.ino_to_path /\ m.ino_to_path[ino] = path /\ path # <<>>
    BY <1>2 DEF MapInv, InverseInv
  <2>3. InverseInv(new)
    <3> SUFFICES ASSUME NEW p \in DOMAIN new.path_to_ino
                 PROVE  /\ p \in Keys \ {<<>>}
                        /\ new.path_to_ino[p] \in DOMAIN new.ino_to_path
                        /\ new.ino_to_path[new.path_to_ino[p]] = p
      BY DEF InverseInv
    <3>1. p \in DOMAIN m.path_to_ino /\ p # path /\ new.path_to_ino[p] = m.path_to_ino[p]
      BY <2>1 DEF Without
    <3>2. /\ p \in Keys \ {<<>>}
          /\ m.path_to_ino[p] \in DOMAIN m.ino_to_path
          /\ m.ino_to_path[m.path_to_ino[p]] = p
      BY <3>1 DEF MapInv, InverseInv
    <3>3. m.path_to_ino[p] # ino
      BY <2>2, <3>1, <3>2
    <3> QED BY <2>1, <3>1, <3>2, <3>3 DEF Without
  <2>4. RootInv(new)
    BY <2>1, <2>2 DEF MapInv, RootInv, Without
  <2>5. NodesInv(new) /\ FreshInv(new) /\ RootNodeInv(new)
    BY <2>1 DEF MapInv, NodesInv, FreshInv, RootNodeInv, Without
  <2>6. DOMAIN new.path_to_ino = DOMAIN m.path_to_ino \ {path}
    BY <2>1 DEF Without
  <2> QED BY <2>1, <2>3, <2>4, <2>5, <2>6 DEF MapInv
<1> QED BY <1>1, <1>2

LEMMA RenameKeeps ==
    ASSUME NEW m, MapInv(m), NEW old \in Keys, NEW to \in Keys \ {<<>>},
           old \in DOMAIN m.path_to_ino
    PROVE  /\ MapInv(rename_path(m, old, to))
           /\ \A p \in DOMAIN m.path_to_ino :
                 /\ ~ Under(old, p) => p \in DOMAIN rename_path(m, old, to).path_to_ino
                 /\ Under(old, p) => Rebase(p, old, to) \in DOMAIN rename_path(m, old, to).path_to_ino
<1> DEFINE new == rename_path(m, old, to)
           moved == { p \in DOMAIN m.path_to_ino : Under(old, p) }
           target == { Rebase(p, old, to) : p \in moved }
           stays == DOMAIN m.path_to_ino \ moved
<1>1. /\ DOMAIN new = DOMAIN m
      /\ new.nodes = m.nodes /\ new.next_inode = m.next_inode
      /\ new.path_to_ino =
            [p \in stays \cup target |->
                IF p \in target THEN m.path_to_ino[Rebase(p, to, old)] ELSE m.path_to_ino[p]]
      /\ new.ino_to_path =
            [i \in DOMAIN m.ino_to_path |->
                IF \E p \in moved : m.path_to_ino[p] = i
                THEN Rebase(m.ino_to_path[i], old, to) ELSE m.ino_to_path[i]]
  BY DEF rename_path, MapInv
<1>2. \A p \in DOMAIN m.path_to_ino :
          /\ p \in Keys \ {<<>>}
          /\ m.path_to_ino[p] \in DOMAIN m.ino_to_path
          /\ m.ino_to_path[m.path_to_ino[p]] = p
  BY DEF MapInv, InverseInv
<1>3. \A p \in moved : /\ Rebase(p, old, to) \in Keys \ {<<>>}
                       /\ Rebase(Rebase(p, old, to), to, old) = p
  <2> SUFFICES ASSUME NEW p \in moved
               PROVE  /\ Rebase(p, old, to) \in Keys \ {<<>>}
                      /\ Rebase(Rebase(p, old, to), to, old) = p
    OBVIOUS
  <2>1. p \in Keys /\ Under(old, p)
    BY <1>2
  <2>2. /\ Rebase(p, old, to) \in Keys
        /\ Len(Rebase(p, old, to)) = Len(to) + (Len(p) - Len(old))
        /\ Rebase(Rebase(p, old, to), to, old) = p
    BY <2>1, RebaseBack
  <2>3. Len(to) \in Nat \ {0} /\ Len(p) \in Nat /\ Len(old) \in Nat /\ Len(old) <= Len(p)
    BY <2>1, EmptySeq, LenProperties DEF Keys, Under, IsPrefix
  <2>4. Rebase(p, old, to) # <<>>
    BY <2>2, <2>3, EmptySeq
  <2> QED BY <2>2, <2>4
<1> HIDE DEF moved, target, stays, new
<1>4. moved \subseteq DOMAIN m.path_to_ino /\ stays = DOMAIN m.path_to_ino \ moved
  BY DEF moved, stays
<1>5. InverseInv(new)
  <2> SUFFICES ASSUME NEW p \in DOMAIN new.path_to_ino
               PROVE  /\ p \in Keys \ {<<>>}
                      /\ new.path_to_ino[p] \in DOMAIN new.ino_to_path
                      /\ new.ino_to_path[new.path_to_ino[p]] = p
    BY DEF InverseInv
  <2>1. CASE p \in target
    <3>1. PICK q \in moved : p = Rebase(q, old, to)
      BY <2>1 DEF target
    <3>2. Rebase(p, to, old) = q
      BY <1>3, <3>1
    <3>3. new.path_to_ino[p] = m.path_to_ino[q]
      BY <1>1, <2>1, <3>2
    <3>4. /\ m.path_to_ino[q] \in DOMAIN m.ino_to_path
          /\ m.ino_to_path[m.path_to_ino[q]] = q
      BY <1>2, <1>4
    <3>5. new.ino_to_path[m.path_to_ino[q]] = Rebase(q, old, to)
      BY <1>1, <3>4
    <3>6. DOMAIN new.ino_to_path = DOMAIN m.ino_to_path
      BY <1>1
    <3> QED BY <1>3, <3>1, <3>3, <3>4, <3>5, <3>6
  <2>2. CASE p \notin target
    <3>1. p \in stays /\ new.path_to_ino[p] = m.path_to_ino[p]
      BY <1>1, <2>2
    <3>2. /\ p \in Keys \ {<<>>} /\ p \notin moved
          /\ m.path_to_ino[p] \in DOMAIN m.ino_to_path
          /\ m.ino_to_path[m.path_to_ino[p]] = p
      BY <1>2, <1>4, <3>1
    <3>3. ~ \E q \in moved : m.path_to_ino[q] = m.path_to_ino[p]
      BY <1>2, <1>4, <3>2
    <3>4. new.ino_to_path[m.path_to_ino[p]] = p
      BY <1>1, <3>2, <3>3
    <3>5. DOMAIN new.ino_to_path = DOMAIN m.ino_to_path
      BY <1>1
    <3> QED BY <3>1, <3>2, <3>4, <3>5
  <2> QED BY <2>1, <2>2
<1>6. RootInv(new)
  <2>1. ~ \E q \in moved : m.path_to_ino[q] = ROOT_INODE
    BY <1>2, <1>4 DEF MapInv, RootInv
  <2> QED BY <1>1, <2>1 DEF MapInv, RootInv
<1>7. NodesInv(new) /\ FreshInv(new) /\ RootNodeInv(new)
  BY <1>1 DEF MapInv, NodesInv, FreshInv, RootNodeInv
<1>8. MapInv(new)
  BY <1>1, <1>5, <1>6, <1>7 DEF MapInv
<1>9. ASSUME NEW p \in DOMAIN m.path_to_ino
      PROVE  /\ ~ Under(old, p) => p \in DOMAIN new.path_to_ino
             /\ Under(old, p) => Rebase(p, old, to) \in DOMAIN new.path_to_ino
  <2>1. DOMAIN new.path_to_ino = stays \cup target
    BY <1>1
  <2> QED BY <2>1 DEF stays, target, moved
<1> QED BY <1>8, <1>9 DEF new

-----------------------------------------------------------------------------
(* The walk of a path.                                                      *)

LEMMA LeastNumber ==
    ASSUME NEW S, S \subseteq Nat, S # {}
    PROVE  \E x \in S : \A y \in S : x <= y
<1>1. PICK x \in S : \A y \in S : ~ (<<y, x>> \in OpToRel(<, Nat))
  BY WFMin, NatLessThanWellFounded
<1>2. ASSUME NEW y \in S PROVE x <= y
  <2>1. x \in Nat /\ y \in Nat /\ ~ (<<y, x>> \in OpToRel(<, Nat))
    BY <1>1
  <2> QED BY <2>1 DEF OpToRel
<1> QED BY <1>2

WalkStep(m, ino, n) ==
    IF ino = NoInode \/ ~ IsDir(m, ino) THEN NoInode ELSE lookup(m, ino, n)

\* The function on sets of positions by which the fold over a path's first n
\* names is defined.
IsWalk(m, path, n, g) ==
    g = [s \in SUBSET (1..n) |->
            IF s = {} THEN ROOT_INODE ELSE WalkStep(m, g[s \ {Max(s)}], path[Max(s)])]

LEMMA MaxIs ==
    ASSUME NEW n \in Nat, NEW s \in SUBSET (1..n), n \in s
    PROVE  Max(s) = n
<1>1. \A y \in s : n >= y
  OBVIOUS
<1>2. ASSUME NEW x \in s, \A y \in s : x >= y PROVE x = n
  BY <1>2
<1> QED BY <1>1, <1>2 DEF Max

LEMMA WalkExists ==
    ASSUME NEW m, NEW path, NEW n \in Nat
    PROVE  \E g : IsWalk(m, path, n, g)
<1> DEFINE none == { k \in Nat : ~ \E g : IsWalk(m, path, k, g) }
<1>1. CASE none = {}
  BY <1>1
<1>2. CASE none # {}
  <2>1. PICK k \in none : \A j \in none : k <= j
    <3>1. none \subseteq Nat
      OBVIOUS
    <3> HIDE DEF none
    <3> QED BY <1>2, <3>1, LeastNumber
  <2>2. k # 0
    <3>1. \A s \in SUBSET (1..0) : s = {}
      OBVIOUS
    <3> DEFINE g == [s \in SUBSET (1..0) |-> ROOT_INODE]
    <3>2. IsWalk(m, path, 0, g)
      BY <3>1 DEF IsWalk
    <3> HIDE DEF g
    <3> QED BY <3>2
  <2>3. PICK j \in Nat : k = j + 1
    <3>1. k - 1 \in Nat /\ k = (k - 1) + 1
      BY <2>2
    <3> QED BY <3>1
  <2>4. j \notin none
    BY <2>1, <2>3
  <2>5. PICK g : IsWalk(m, path, j, g)
    BY <2>4
  <2> DEFINE h == [s \in SUBSET (1..k) |->
                      IF k \in s THEN WalkStep(m, g[s \ {k}], path[k]) ELSE g[s]]
             value(s) == IF s = {} THEN ROOT_INODE ELSE WalkStep(m, h[s \ {Max(s)}], path[Max(s)])
  <2>6. ASSUME NEW s \in SUBSET (1..k) PROVE h[s] = value(s)
    <3>1. CASE k \in s
      <4>1. Max(s) = k
        BY <2>3, <3>1, MaxIs
      <4>2. s \ {k} \in SUBSET (1..k) /\ k \notin s \ {k} /\ s # {}
        BY <3>1
      <4>3. h[s \ {k}] = g[s \ {k}]
        BY <4>2
      <4>4. h[s] = WalkStep(m, g[s \ {k}], path[k])
        BY <3>1
      <4> QED BY <4>1, <4>2, <4>3, <4>4
    <3>2. CASE k \notin s
      <4>1. s \in SUBSET (1..j)
        BY <2>3, <3>2
      <4>2. g[s] = IF s = {} THEN ROOT_INODE ELSE WalkStep(m, g[s \ {Max(s)}], path[Max(s)])
        BY <2>5, <4>1 DEF IsWalk
      <4>3. s \ {Max(s)} \in SUBSET (1..k) /\ k \notin s \ {Max(s)}
        BY <3>2
      <4>4. h[s \ {Max(s)}] = g[s \ {Max(s)}]
        BY <4>3
      <4>5. h[s] = g[s]
        BY <3>2
      <4> QED BY <4>2, <4>4, <4>5
    <3> QED BY <3>1, <3>2
  <2>7. h = [s \in SUBSET (1..k) |-> h[s]]
    OBVIOUS
  <2> HIDE DEF h
  <2>8. h = [s \in SUBSET (1..k) |-> value(s)]
    BY <2>6, <2>7
  <2>9. IsWalk(m, path, k, h)
    BY <2>8 DEF IsWalk
  <2> QED BY <2>1, <2>9
<1> QED BY <1>1, <1>2

InodeAt(m, p) == IF p = <<>> THEN ROOT_INODE ELSE m.path_to_ino[p]

LEMMA PathOfInode ==
    ASSUME NEW m, MapInv(m), NEW p, p = <<>> \/ p \in DOMAIN m.path_to_ino
    PROVE  get_path(m, InodeAt(m, p)) = p /\ InodeAt(m, p) # NoInode /\ has_path(m, InodeAt(m, p))
<1>1. get_path(m, InodeAt(m, p)) = p /\ has_path(m, InodeAt(m, p))
  BY DEF MapInv, RootInv, InverseInv, InodeAt, get_path, has_path
<1>2. <<0>> \notin DOMAIN m.ino_to_path
  BY DEF MapInv, FreshInv
<1> QED BY <1>1, <1>2 DEF NoInode, has_path

\* A path that is found has an inode, and so have the directories it goes
\* through, none of them whited out.
LEMMA WalkFinds ==
    ASSUME NEW m, MapInv(m), NEW path \in Keys, Walk(m, path) # NoInode
    PROVE  /\ \A k \in 1..Len(path) : /\ SubSeq(path, 1, k) \in DOMAIN m.path_to_ino
                                      /\ SubSeq(path, 1, k) \notin marks
           /\ \A k \in 0..(Len(path) - 1) : IsDir(m, InodeAt(m, SubSeq(path, 1, k)))
           /\ path # <<>> => path \in DOMAIN m.path_to_ino
           /\ Walk(m, path) = InodeAt(m, path)
<1>0. PICK n \in Nat : n = Len(path) /\ DOMAIN path = 1..n
  BY LenProperties DEF Keys
<1> DEFINE g == CHOOSE x : IsWalk(m, path, n, x)
<1>1. Walk(m, path) = g[DOMAIN path]
  BY <1>0, Zenon DEF Walk, FoldLeft, MapThenFoldSet, IsWalk, WalkStep
<1>2. IsWalk(m, path, n, g)
  BY WalkExists
<1> HIDE DEF g
<1>3. g[1..0] = ROOT_INODE
  <2>1. 1..0 = {} /\ {} \in SUBSET (1..n)
    OBVIOUS
  <2> QED BY <1>2, <2>1 DEF IsWalk
<1>4. ASSUME NEW k \in 1..n PROVE g[1..k] = WalkStep(m, g[1..(k - 1)], path[k])
  <2>1. k \in 1..k /\ 1..k \in SUBSET (1..n) /\ 1..k # {} /\ (1..k) \ {k} = 1..(k - 1)
    OBVIOUS
  <2>2. Max(1..k) = k
    BY <2>1, MaxIs
  <2> QED BY <1>2, <2>1, <2>2 DEF IsWalk
<1> DEFINE Found(k) ==
        /\ g[1..0] = ROOT_INODE
        /\ \A j \in 1..k : /\ g[1..j] = m.path_to_ino[SubSeq(path, 1, j)]
                           /\ SubSeq(path, 1, j) \in DOMAIN m.path_to_ino
                           /\ SubSeq(path, 1, j) \notin marks
                           /\ IsDir(m, g[1..(j - 1)])
    bad == { k \in 0..n : g[1..k] # NoInode /\ ~ Found(k) }
<1>5. bad = {}
  <2> SUFFICES ASSUME bad # {} PROVE FALSE
    OBVIOUS
  <2>1. PICK k \in bad : \A j \in bad : k <= j
    <3>1. bad \subseteq Nat
      OBVIOUS
    <3> HIDE DEF bad
    <3> QED BY <3>1, LeastNumber
  <2>2. k # 0
    <3>1. Found(0)
      BY <1>3
    <3> QED BY <2>1, <3>1
  <2>3. k \in 1..n /\ k - 1 \in 0..n /\ k - 1 \notin bad /\ g[1..k] # NoInode
    BY <2>1, <2>2
  <2>4. /\ g[1..(k - 1)] # NoInode /\ IsDir(m, g[1..(k - 1)])
        /\ g[1..k] = lookup(m, g[1..(k - 1)], path[k])
    BY <1>4, <2>3 DEF WalkStep
  <2>5. Found(k - 1)
    BY <2>3, <2>4
  <2>6. m.ino_to_path[g[1..(k - 1)]] = SubSeq(path, 1, k - 1)
    <3>1. CASE k - 1 = 0
      <4>1. SubSeq(path, 1, k - 1) = <<>>
        BY <3>1, SubSeqEmpty
      <4> QED BY <2>5, <3>1, <4>1 DEF MapInv, RootInv
    <3>2. CASE k - 1 # 0
      <4>1. k - 1 \in 1..(k - 1)
        BY <2>3, <3>2
      <4> QED BY <2>5, <3>2, <4>1 DEF MapInv, InverseInv
    <3> QED BY <3>1, <3>2
  <2>7. Append(SubSeq(path, 1, k - 1), path[k]) = SubSeq(path, 1, k)
    <3>1. SubSeq(path, 1, k) = SubSeq(path, 1, k - 1) \o <<path[k]>>
      <4>1. \A i \in 1..Len(path) : \A j \in i..Len(path) :
                SubSeq(path, i, j) = SubSeq(path, i, j - 1) \o <<path[j]>>
        BY SubSeqRecursiveSecond DEF Keys
      <4>2. 1 \in 1..Len(path) /\ k \in 1..Len(path)
        BY <1>0, <2>3
      <4> QED BY <4>1, <4>2
    <3>2. SubSeq(path, 1, k - 1) \in Seq(Entry) /\ path[k] \in Entry
      <4>1. PICK j \in 0..Len(path) : j = k - 1
        BY <1>0, <2>3
      <4> QED BY <1>0, <2>3, <4>1, PrefixIsKey, ElementOfSeq DEF Keys
    <3> QED BY <3>1, <3>2, AppendIsConcat
  <2>8. /\ SubSeq(path, 1, k) \in DOMAIN m.path_to_ino
        /\ SubSeq(path, 1, k) \notin marks
        /\ g[1..k] = m.path_to_ino[SubSeq(path, 1, k)]
    BY <2>3, <2>4, <2>6, <2>7 DEF lookup, get_path, get_inode, is_whiteout
  <2>9. \A j \in 1..k : j \in 1..(k - 1) \/ j = k
    BY <2>3
  <2>10. Found(k)
    BY <2>4, <2>5, <2>8, <2>9
  <2> QED BY <2>1, <2>10
<1>6. g[1..n] # NoInode
  BY <1>0, <1>1
<1>7. Found(n)
  BY <1>5, <1>6
<1>8. SubSeq(path, 1, n) = path /\ (path # <<>> => n \in 1..n)
  BY <1>0, EmptySeq, SubSeqFull DEF Keys
<1>9. path = <<>> => n = 0
  BY <1>0
<1>10. ASSUME NEW k \in 0..n PROVE g[1..k] = InodeAt(m, SubSeq(path, 1, k))
  <2>1. CASE k = 0
    BY <1>7, <2>1, SubSeqEmpty DEF InodeAt
  <2>2. CASE k # 0
    <3>1. k \in 1..n /\ k \in 0..Len(path)
      BY <1>0, <2>2
    <3>2. Len(SubSeq(path, 1, k)) = k /\ Len(<<>>) = 0
      BY <3>1, PrefixIsKey, EmptySeq
    <3>3. SubSeq(path, 1, k) # <<>>
      BY <2>2, <3>2
    <3> QED BY <1>7, <3>1, <3>3 DEF InodeAt
  <2> QED BY <2>1, <2>2
<1>11. ASSUME NEW k \in 0..(n - 1) PROVE IsDir(m, InodeAt(m, SubSeq(path, 1, k)))
  <2>1. k + 1 \in 1..n /\ (k + 1) - 1 = k /\ k \in 0..n
    OBVIOUS
  <2>2. IsDir(m, g[1..((k + 1) - 1)])
    BY <1>7, <2>1
  <2> QED BY <1>10, <2>1, <2>2
<1>12. Walk(m, path) = InodeAt(m, path)
  <2>1. n \in 0..n
    OBVIOUS
  <2>2. g[1..n] = InodeAt(m, SubSeq(path, 1, n))
    BY <1>10, <2>1
  <2> QED BY <1>0, <1>1, <1>8, <2>2
<1> HIDE DEF bad
<1>13. path # <<>> => path \in DOMAIN m.path_to_ino
  BY <1>7, <1>8
<1> QED BY <1>0, <1>7, <1>11, <1>12, <1>13

\* And a path that is not whited out, below directories, is found.
LEMMA WalkReaches ==
    ASSUME NEW m, MapInv(m), NEW path \in Keys,
           \A k \in 1..Len(path) : /\ SubSeq(path, 1, k) \in DOMAIN m.path_to_ino
                                   /\ SubSeq(path, 1, k) \notin marks,
           \A k \in 0..(Len(path) - 1) : IsDir(m, InodeAt(m, SubSeq(path, 1, k)))
    PROVE  Walk(m, path) = InodeAt(m, path) /\ Walk(m, path) # NoInode
<1>0. PICK n \in Nat : n = Len(path) /\ DOMAIN path = 1..n
  BY LenProperties DEF Keys
<1> DEFINE g == CHOOSE x : IsWalk(m, path, n, x)
<1>1. Walk(m, path) = g[DOMAIN path]
  BY <1>0, Zenon DEF Walk, FoldLeft, MapThenFoldSet, IsWalk, WalkStep
<1>2. IsWalk(m, path, n, g)
  BY WalkExists
<1> HIDE DEF g
<1>3. g[1..0] = ROOT_INODE
  <2>1. 1..0 = {} /\ {} \in SUBSET (1..n)
    OBVIOUS
  <2> QED BY <1>2, <2>1 DEF IsWalk
<1>4. ASSUME NEW k \in 1..n PROVE g[1..k] = WalkStep(m, g[1..(k - 1)], path[k])
  <2>1. k \in 1..k /\ 1..k \in SUBSET (1..n) /\ 1..k # {} /\ (1..k) \ {k} = 1..(k - 1)
    <3>1. k \in 1..k /\ 1..k \in SUBSET (1..n)
      OBVIOUS
    <3>2. (1..k) \ {k} = 1..(k - 1)
      OBVIOUS
    <3> QED BY <3>1, <3>2
  <2>2. Max(1..k) = k
    BY <2>1, MaxIs
  <2> QED BY <1>2, <2>1, <2>2 DEF IsWalk
<1>5. ASSUME NEW k \in 0..n
      PROVE  /\ get_path(m, InodeAt(m, SubSeq(path, 1, k))) = SubSeq(path, 1, k)
             /\ InodeAt(m, SubSeq(path, 1, k)) # NoInode
             /\ has_path(m, InodeAt(m, SubSeq(path, 1, k)))
  <2>1. SubSeq(path, 1, k) = <<>> \/ SubSeq(path, 1, k) \in DOMAIN m.path_to_ino
    <3>1. CASE k = 0
      BY <3>1, SubSeqEmpty
    <3>2. CASE k # 0
      <4>1. k \in 1..Len(path)
        BY <1>0, <3>2
      <4> QED BY <4>1
    <3> QED BY <3>1, <3>2
  <2> DEFINE x == SubSeq(path, 1, k)
  <2>2. x = <<>> \/ x \in DOMAIN m.path_to_ino
    BY <2>1
  <2> HIDE DEF x
  <2>3. get_path(m, InodeAt(m, x)) = x /\ InodeAt(m, x) # NoInode /\ has_path(m, InodeAt(m, x))
    BY <2>2, PathOfInode
  <2> QED BY <2>3 DEF x
<1> DEFINE bad == { k \in 0..n : g[1..k] # InodeAt(m, SubSeq(path, 1, k)) }
<1>6. bad = {}
  <2> SUFFICES ASSUME bad # {} PROVE FALSE
    OBVIOUS
  <2>1. PICK k \in bad : \A j \in bad : k <= j
    <3>1. bad \subseteq Nat
      OBVIOUS
    <3> HIDE DEF bad
    <3> QED BY <3>1, LeastNumber
  <2>2. k # 0
    <3>1. g[1..0] = InodeAt(m, SubSeq(path, 1, 0))
      BY <1>3, SubSeqEmpty DEF InodeAt
    <3> QED BY <2>1, <3>1
  <2>3. k \in 1..n /\ k - 1 \in 0..n /\ k - 1 \notin bad /\ k - 1 \in 0..(n - 1)
    BY <2>1, <2>2
  <2>4. g[1..(k - 1)] = InodeAt(m, SubSeq(path, 1, k - 1))
    BY <2>3
  <2>5. Append(SubSeq(path, 1, k - 1), path[k]) = SubSeq(path, 1, k)
    <3>1. SubSeq(path, 1, k) = SubSeq(path, 1, k - 1) \o <<path[k]>>
      <4>1. \A i \in 1..Len(path) : \A j \in i..Len(path) :
                SubSeq(path, i, j) = SubSeq(path, i, j - 1) \o <<path[j]>>
        BY SubSeqRecursiveSecond DEF Keys
      <4>2. 1 \in 1..Len(path) /\ k \in 1..Len(path)
        BY <1>0, <2>3
      <4> QED BY <4>1, <4>2
    <3>2. SubSeq(path, 1, k - 1) \in Seq(Entry) /\ path[k] \in Entry
      <4>1. PICK j \in 0..Len(path) : j = k - 1
        BY <1>0, <2>3
      <4> QED BY <1>0, <2>3, <4>1, PrefixIsKey, ElementOfSeq DEF Keys
    <3> QED BY <3>1, <3>2, AppendIsConcat
  <2>6. /\ get_path(m, g[1..(k - 1)]) = SubSeq(path, 1, k - 1)
        /\ g[1..(k - 1)] # NoInode /\ has_path(m, g[1..(k - 1)])
        /\ IsDir(m, g[1..(k - 1)])
    BY <1>0, <1>5, <2>3, <2>4
  <2>7. SubSeq(path, 1, k) \in DOMAIN m.path_to_ino /\ SubSeq(path, 1, k) \notin marks
    BY <1>0, <2>3
  <2>8. g[1..k] = m.path_to_ino[SubSeq(path, 1, k)]
    BY <1>4, <2>3, <2>5, <2>6, <2>7 DEF WalkStep, lookup, is_whiteout, get_inode
  <2>9. SubSeq(path, 1, k) # <<>>
    BY <2>7 DEF MapInv, InverseInv
  <2> QED BY <2>1, <2>8, <2>9 DEF InodeAt
<1>7. n \in 0..n /\ SubSeq(path, 1, n) = path
  BY <1>0, SubSeqFull DEF Keys
<1>8. g[1..n] = InodeAt(m, SubSeq(path, 1, n))
  BY <1>6, <1>7
<1> QED BY <1>0, <1>1, <1>5, <1>7, <1>8

-----------------------------------------------------------------------------
(* Adding a file and mounting.                                              *)

LEMMA DirMadeIs ==
    ASSUME NEW m, NEW dir \in {<<>>} \cup { <<n>> : n \in Entry }
    PROVE  LET first == [map |-> m, ino |-> ROOT_INODE, path |-> <<>>]
           IN  /\ dir = <<>> => get_or_create_dir(m, dir) = first
               /\ \A n \in Entry : dir = <<n>> => get_or_create_dir(m, dir) = DirStep(first, n)
<1> DEFINE first == [map |-> m, ino |-> ROOT_INODE, path |-> <<>>]
           Is(h) == h = [s \in SUBSET (DOMAIN dir) |->
                            IF s = {} THEN first ELSE DirStep(h[s \ {Max(s)}], dir[Max(s)])]
           g == CHOOSE h : Is(h)
<1>1. get_or_create_dir(m, dir) = g[DOMAIN dir]
  BY Zenon DEF get_or_create_dir, FoldLeft, MapThenFoldSet
<1>2. ASSUME dir = <<>> PROVE get_or_create_dir(m, dir) = first
  <2>1. DOMAIN dir = {} /\ \A s \in SUBSET (DOMAIN dir) : s = {}
    BY <1>2
  <2>2. Is([s \in SUBSET (DOMAIN dir) |-> first])
    BY <2>1
  <2>3. Is(g)
    <3> HIDE DEF Is
    <3> QED BY <2>2
  <2> HIDE DEF g
  <2>4. g[DOMAIN dir] = first
    BY <2>1, <2>3
  <2> QED BY <1>1, <2>4
<1>3. ASSUME NEW n \in Entry, dir = <<n>>
      PROVE  get_or_create_dir(m, dir) = DirStep(first, n)
  <2> DEFINE one == DirStep(first, n)
  <2>1. DOMAIN dir = 1..1 /\ dir[1] = n
    BY <1>3
  <2>2. ASSUME NEW s \in SUBSET (DOMAIN dir), s # {}
        PROVE  s = DOMAIN dir /\ Max(s) = 1 /\ s \ {Max(s)} = {}
    <3>1. 1 \in s /\ s = 1..1
      BY <2>1, <2>2
    <3>2. Max(s) = 1
      BY <3>1, MaxIs
    <3> QED BY <2>1, <3>1, <3>2
  <2> DEFINE h == [s \in SUBSET (DOMAIN dir) |-> IF s = {} THEN first ELSE one]
  <2>3. Is(h)
    <3> HIDE DEF one, first
    <3>1. h[{}] = first
      OBVIOUS
    <3> DEFINE value(s) == IF s = {} THEN first ELSE DirStep(h[s \ {Max(s)}], dir[Max(s)])
    <3>2. ASSUME NEW s \in SUBSET (DOMAIN dir) PROVE h[s] = value(s)
      BY <2>1, <2>2, <3>1 DEF one
    <3>3. h = [s \in SUBSET (DOMAIN dir) |-> h[s]]
      OBVIOUS
    <3> HIDE DEF h
    <3> QED BY <3>2, <3>3
  <2>4. Is(g)
    <3> HIDE DEF Is, h
    <3> QED BY <2>3
  <2> HIDE DEF g, first
  <2>5. {} \in SUBSET (DOMAIN dir) /\ DOMAIN dir \in SUBSET (DOMAIN dir) /\ DOMAIN dir # {}
    BY <2>1
  <2>6. g[{}] = first
    BY <2>4, <2>5
  <2>7. g[DOMAIN dir] = one
    BY <2>1, <2>2, <2>4, <2>5, <2>6
  <2> QED BY <1>1, <2>7
<1> HIDE DEF g, Is
<1> QED BY <1>2, <1>3

\* In the root, the directory is there, or is added.
LEMMA DirMade ==
    ASSUME NEW m, MapInv(m), NEW dir \in {<<>>} \cup { <<n>> : n \in Entry }
    PROVE  LET made == get_or_create_dir(m, dir)
               kids == m.nodes[ROOT_INODE].children
           IN  /\ dir = <<>> => made.map = m /\ made.ino = ROOT_INODE
               /\ \A n \in Entry : dir = <<n>> =>
                     \/ n \in DOMAIN kids /\ made.map = m /\ made.ino = kids[n]
                     \/ /\ n \notin DOMAIN kids /\ made.ino = << m.next_inode >>
                        /\ made.map = AddNode(m, dir, ROOT_INODE, Directory(<<>>))
               /\ MapInv(made.map)
               /\ DOMAIN m.path_to_ino \subseteq DOMAIN made.map.path_to_ino
<1> DEFINE made == get_or_create_dir(m, dir)
           kids == m.nodes[ROOT_INODE].children
           first == [map |-> m, ino |-> ROOT_INODE, path |-> <<>>]
<1>1. ASSUME dir = <<>> PROVE made.map = m /\ made.ino = ROOT_INODE
  <2>1. made = first
    BY <1>1, DirMadeIs
  <2> HIDE DEF made
  <2> QED BY <2>1
<1>2. ASSUME NEW n \in Entry, dir = <<n>>
      PROVE  /\ \/ n \in DOMAIN kids /\ made.map = m /\ made.ino = kids[n]
                \/ /\ n \notin DOMAIN kids /\ made.ino = << m.next_inode >>
                   /\ made.map = AddNode(m, dir, ROOT_INODE, Directory(<<>>))
             /\ MapInv(made.map)
             /\ DOMAIN m.path_to_ino \subseteq DOMAIN made.map.path_to_ino
  <2>1. made = DirStep(first, n)
    BY <1>2, DirMadeIs
  <2>2. m.nodes[ROOT_INODE].dir /\ Append(<<>>, n) = dir
    BY <1>2 DEF MapInv, RootNodeInv
  <2>3. \/ n \in DOMAIN kids /\ made.map = m /\ made.ino = kids[n]
        \/ /\ n \notin DOMAIN kids /\ made.ino = << m.next_inode >>
           /\ made.map = AddNode(m, dir, ROOT_INODE, Directory(<<>>))
    BY <2>1, <2>2 DEF DirStep
  <2>4. dir \in Keys \ {<<>>}
    BY <1>2 DEF Keys
  <2>5. /\ MapInv(AddNode(m, dir, ROOT_INODE, Directory(<<>>)))
        /\ DOMAIN AddNode(m, dir, ROOT_INODE, Directory(<<>>)).path_to_ino
              = DOMAIN m.path_to_ino \cup {dir}
    BY <2>4, NewNodes, AddNodeKeeps
  <2> HIDE DEF made, kids
  <2> QED BY <2>3, <2>5
<1> HIDE DEF made, kids
<1>3. dir = <<>> \/ \E n \in Entry : dir = <<n>>
  OBVIOUS
<1>4. MapInv(made.map) /\ DOMAIN m.path_to_ino \subseteq DOMAIN made.map.path_to_ino
  <2>1. CASE dir = <<>>
    BY <1>1, <2>1
  <2>2. CASE \E n \in Entry : dir = <<n>>
    BY <1>2, <2>2
  <2> QED BY <1>3, <2>1, <2>2
<1> QED BY <1>1, <1>2, <1>4 DEF made, kids

LEMMA PathFront ==
    ASSUME NEW p \in Paths
    PROVE  Front(p) \in {<<>>} \cup { <<n>> : n \in Entry }
<1>1. CASE p \in Tops
  <2>1. PICK n \in Names : p = <<n>>
    BY <1>1 DEF Tops
  <2>2. SubSeq(p, 1, 0) = <<>>
    BY SubSeqEmpty
  <2>3. Len(p) - 1 = 0
    BY <2>1
  <2> QED BY <2>2, <2>3 DEF Front
<1>2. ASSUME NEW d \in Names, NEW n \in Names, p = <<d, n>> PROVE Front(p) = <<d>>
  <2>1. Len(p) - 1 = 1 /\ p[1] = d
    BY <1>2
  <2>2. SubSeq(p, 1, 1) = <<d>>
    <3>1. PICK k \in Int : k = 1
      OBVIOUS
    <3>2. \A i \in k..k : p[i] \in Entry
      BY <2>1, <3>1 DEF Entry
    <3>3. /\ SubSeq(p, k, k) \in Seq(Entry)
          /\ Len(SubSeq(p, k, k)) = IF k <= k THEN k - k + 1 ELSE 0
          /\ \A i \in 1..(k - k + 1) : SubSeq(p, k, k)[i] = p[k + i - 1]
      BY <3>2, SubSeqProperties
    <3>4. Len(SubSeq(p, k, k)) = 1 /\ SubSeq(p, k, k)[1] = d
      BY <2>1, <3>1, <3>3
    <3>5. <<d>> \in Seq(Entry) /\ Len(<<d>>) = 1 /\ <<d>>[1] = d
      BY DEF Entry
    <3>6. SubSeq(p, 1, 1) \in Seq(Entry) /\ Len(SubSeq(p, 1, 1)) = 1 /\ SubSeq(p, 1, 1)[1] = d
      BY <3>1, <3>3, <3>4
    <3>7. \A i \in 1..Len(SubSeq(p, 1, 1)) : SubSeq(p, 1, 1)[i] = <<d>>[i]
      BY <3>5, <3>6
    <3> QED BY <3>5, <3>6, <3>7, SeqEqual
  <2> QED BY <2>1, <2>2 DEF Front
<1> QED BY <1>1, <1>2 DEF Paths, Entry

LEMMA AddFileKeeps ==
    ASSUME NEW m, MapInv(m), NEW p \in Paths, NEW is_dir
    PROVE  /\ MapInv(add_file_at_path(m, p, is_dir))
           /\ DOMAIN m.path_to_ino \cup {p} \subseteq DOMAIN add_file_at_path(m, p, is_dir).path_to_ino
<1>1. CASE p \in DOMAIN m.path_to_ino
  BY <1>1 DEF add_file_at_path
<1>2. CASE p \notin DOMAIN m.path_to_ino
  <2> DEFINE parent == get_or_create_dir(m, Front(p))
             node == IF is_dir THEN Directory(<<>>) ELSE File(<<>>)
  <2>1. Front(p) \in {<<>>} \cup { <<n>> : n \in Entry }
    BY PathFront
  <2>2. MapInv(parent.map) /\ DOMAIN m.path_to_ino \subseteq DOMAIN parent.map.path_to_ino
    BY <2>1, DirMade
  <2>3. DOMAIN node = {"dir", "data", "children"} /\ DOMAIN node.children \subseteq Entry
    BY NewNodes
  <2>4. p \in Keys \ {<<>>}
    BY PathsAreKeys
  <2>5. add_file_at_path(m, p, is_dir) = AddNode(parent.map, p, parent.ino, node)
    BY <1>2 DEF add_file_at_path
  <2> HIDE DEF parent, node
  <2>6. /\ MapInv(AddNode(parent.map, p, parent.ino, node))
        /\ DOMAIN AddNode(parent.map, p, parent.ino, node).path_to_ino
              = DOMAIN parent.map.path_to_ino \cup {p}
    BY <2>2, <2>3, <2>4, AddNodeKeeps
  <2> QED BY <2>2, <2>5, <2>6
<1> QED BY <1>1, <1>2

LEMMA MountedKeeps ==
    ASSUME NEW manifest, DOMAIN manifest \subseteq Keys \ {<<>>},
           NEW hostDirs \in SUBSET Keys, NEW hostFiles \in SUBSET (Keys \ {<<>>})
    PROVE  /\ MapInv(Mounted(manifest, hostDirs, hostFiles))
           /\ (hostDirs \cup hostFiles) \ {<<>>}
                 \subseteq DOMAIN Mounted(manifest, hostDirs, hostFiles).path_to_ino
<1> DEFINE all == DOMAIN manifest \cup hostDirs \cup hostFiles
           ds == (Ancestors(all) \cup hostDirs) \ DOMAIN manifest
           fs == (DOMAIN manifest \cup hostFiles) \ ds
           paths == ds \cup fs \cup { ROOT_INODE }
           children(p) == { q \in paths : Len(q) = Len(p) + 1 /\ Under(p, q) }
           node(p) ==
               IF p \in fs
                  THEN File(IF p \in DOMAIN manifest THEN manifest[p] ELSE <<>>)
                  ELSE Directory([n \in { Last(q) : q \in children(p) } |-> Append(p, n)])
           new == Mounted(manifest, hostDirs, hostFiles)
<1>1. new = [nodes |-> [p \in paths |-> node(p)],
             path_to_ino |-> [p \in paths \ {ROOT_INODE} |-> p],
             ino_to_path |-> [p \in paths |-> p],
             next_inode |-> 1]
  BY DEF Mounted
<1>2. Ancestors(all) \subseteq Keys
  <2> SUFFICES ASSUME NEW p \in all PROVE { SubSeq(p, 1, n) : n \in 0..(Len(p) - 1) } \subseteq Keys
    BY DEF Ancestors
  <2>1. p \in Keys
    OBVIOUS
  <2> QED BY <2>1, DirsToAreKeys DEF DirsTo
<1>3. paths \subseteq Keys /\ ROOT_INODE \in paths /\ <<>> \in Keys
  BY <1>2, EmptySeq DEF ROOT_INODE, Keys
<1>4. (hostDirs \cup hostFiles) \ {<<>>} \subseteq paths \ {ROOT_INODE}
  BY DEF ROOT_INODE
<1>5. ASSUME NEW p \in paths
      PROVE  DOMAIN node(p) = {"dir", "data", "children"} /\ DOMAIN node(p).children \subseteq Entry
  <2>1. CASE p \in fs
    BY <2>1, NewNodes
  <2>2. CASE p \notin fs
    <3>1. ASSUME NEW q \in children(p) PROVE Last(q) \in Entry
      <4>1. q \in Keys /\ p \in Keys /\ Len(q) = Len(p) + 1
        BY <1>3
      <4>2. Len(p) \in Nat /\ Len(<<>>) = 0
        BY <4>1, LenProperties, EmptySeq DEF Keys
      <4>3. q # <<>>
        BY <4>1, <4>2
      <4> QED BY <4>1, <4>3, LastIsEntry
    <3> HIDE DEF children
    <3>2. node(p).children = [n \in { Last(q) : q \in children(p) } |-> Append(p, n)]
          /\ DOMAIN node(p) = {"dir", "data", "children"}
      BY <2>2 DEF Directory
    <3> QED BY <3>1, <3>2
  <2> QED BY <2>1, <2>2
<1>10. /\ node(ROOT_INODE).dir
       /\ \A n \in DOMAIN node(ROOT_INODE).children : node(ROOT_INODE).children[n] = <<n>>
  <2>1. ROOT_INODE \notin fs
    BY DEF ROOT_INODE
  <2> HIDE DEF fs, paths
  <2>2. node(ROOT_INODE) =
            Directory([n \in { Last(q) : q \in children(ROOT_INODE) } |-> Append(ROOT_INODE, n)])
    BY <2>1
  <2>3. \A n : Append(ROOT_INODE, n) = <<n>>
    BY DEF ROOT_INODE
  <2> DEFINE kids == [n \in { Last(q) : q \in children(ROOT_INODE) } |-> Append(ROOT_INODE, n)]
  <2>4. \A n \in DOMAIN kids : kids[n] = <<n>>
    BY <2>3
  <2>5. node(ROOT_INODE) = Directory(kids)
    BY <2>2
  <2> HIDE DEF kids, node
  <2> QED BY <2>4, <2>5 DEF Directory
<1> HIDE DEF paths, node, new
<1>11. RootNodeInv(new)
  <2>1. ROOT_INODE \in DOMAIN new.nodes /\ new.nodes[ROOT_INODE] = node(ROOT_INODE)
    BY <1>1, <1>3
  <2> QED BY <1>10, <2>1 DEF RootNodeInv
<1>6. NodesInv(new)
  BY <1>1, <1>5 DEF NodesInv
<1>7. InverseInv(new) /\ RootInv(new)
  BY <1>1, <1>3 DEF InverseInv, RootInv, ROOT_INODE
<1>8. FreshInv(new)
  <2> SUFFICES ASSUME NEW k \in Nat, <<k>> \in paths PROVE FALSE
    BY <1>1 DEF FreshInv
  <2>1. <<k>> \in Seq(Entry)
    BY <1>3 DEF Keys
  <2>2. Len(<<k>>) = 1 /\ <<k>>[1] = k
    OBVIOUS
  <2>3. k \in Entry
    BY <2>1, <2>2, ElementOfSeq
  <2> QED BY <2>3, NamesAssumption DEF Entry
<1>9. MapInv(new)
  BY <1>1, <1>6, <1>7, <1>8, <1>11 DEF MapInv
<1> QED BY <1>1, <1>4, <1>9 DEF new

-----------------------------------------------------------------------------
(* The invariant.                                                           *)

HasInodes(set, m) == \A p \in set \ {<<>>} : p \in DOMAIN m.path_to_ino

KeysInv ==
    /\ DOMAIN files \subseteq Keys \ {<<>>} /\ dirs \subseteq Keys /\ marks \subseteq Keys \ {<<>>}
    /\ DOMAIN archive \subseteq Keys \ {<<>>} /\ DOMAIN committed \subseteq Keys \ {<<>>}

\* Directories for markers are in directories that are there.
MarkedThere == <<>> \in dirs /\ marked \subseteq dirs

IInv ==
    /\ KeysInv /\ MarkedThere
    /\ MapInv(inodes)
    /\ HasInodes(DOMAIN files \cup dirs, inodes)

\* What an action does to the overlay and the map.
HostInv ==
    /\ DOMAIN files \subseteq Keys \ {<<>>} /\ dirs \subseteq Keys /\ marks \subseteq Keys \ {<<>>}
    /\ MapInv(inodes)
    /\ HasInodes(DOMAIN files \cup dirs, inodes)

LEMMA PrefixOfPrefix ==
    ASSUME NEW p \in Keys, NEW k \in 0..Len(p), NEW n \in 0..k
    PROVE  SubSeq(SubSeq(p, 1, k), 1, n) = SubSeq(p, 1, n)
<1>1. Len(p) \in Nat /\ k \in Nat /\ n \in Nat
  BY LenProperties DEF Keys
<1>2. CASE n = 0
  <2>1. SubSeq(SubSeq(p, 1, k), 1, n) = <<>> /\ SubSeq(p, 1, n) = <<>>
    BY <1>2, SubSeqEmpty
  <2> QED BY <2>1
<1>3. CASE n # 0
  <2>1. \A i \in 1..Len(p) : \A j \in 1..Len(p) : \A u \in 1..(j - i + 1) : \A v \in 1..(j - i + 1) :
            SubSeq(SubSeq(p, i, j), u, v) = SubSeq(p, i + u - 1, i + v - 1)
    <3>1. p \in Seq(Entry)
      BY DEF Keys
    <3> QED BY <3>1, SubSeqOfSubSeq
  <2>2. /\ 1 \in 1..Len(p) /\ k \in 1..Len(p)
        /\ 1 \in 1..(k - 1 + 1) /\ n \in 1..(k - 1 + 1)
    BY <1>1, <1>3
  <2>3. SubSeq(SubSeq(p, 1, k), 1, n) = SubSeq(p, 1 + 1 - 1, 1 + n - 1)
    BY <2>1, <2>2
  <2>4. 1 + 1 - 1 = 1 /\ 1 + n - 1 = n
    BY <1>1
  <2> QED BY <2>3, <2>4
<1> QED BY <1>2, <1>3

\* The directories on the way to a path are those on the way to its parent,
\* and the parent.
LEMMA DirsToParent ==
    ASSUME NEW p \in Keys \ {<<>>}, NEW x \in DirsTo(p), x # <<>>
    PROVE  \E k \in 1..Len(Front(p)) : x = SubSeq(Front(p), 1, k)
<1>1. Len(p) \in Nat \ {0} /\ Len(Front(p)) = Len(p) - 1
  BY LastIsEntry
<1>2. PICK k \in 0..(Len(p) - 1) : x = SubSeq(p, 1, k)
  BY DEF DirsTo
<1>3. k # 0
  BY <1>2, SubSeqEmpty
<1>4. PICK n \in 0..Len(p) : n = Len(p) - 1
  <2>1. Len(p) - 1 \in 0..Len(p)
    BY <1>1
  <2> QED BY <2>1
<1>5. k \in 0..n
  BY <1>2, <1>4
<1>6. SubSeq(SubSeq(p, 1, n), 1, k) = SubSeq(p, 1, k)
  BY <1>5, PrefixOfPrefix
<1>7. Front(p) = SubSeq(p, 1, n)
  BY <1>4 DEF Front
<1>8. k \in 1..Len(Front(p))
  BY <1>1, <1>3
<1> QED BY <1>2, <1>6, <1>7, <1>8

LEMMA FoundHasInodes ==
    ASSUME MapInv(inodes), NEW p \in Keys \ {<<>>}, Walk(inodes, p) # NoInode
    PROVE  HasInodes(DirsTo(p) \cup {p}, inodes)
<1>1. /\ \A k \in 1..Len(p) : SubSeq(p, 1, k) \in DOMAIN inodes.path_to_ino
      /\ p \in DOMAIN inodes.path_to_ino
  BY WalkFinds
<1>2. ASSUME NEW x \in DirsTo(p), x # <<>> PROVE x \in DOMAIN inodes.path_to_ino
  <2>1. PICK k \in 0..(Len(p) - 1) : x = SubSeq(p, 1, k)
    BY DEF DirsTo
  <2>2. k # 0 /\ Len(p) \in Nat
    BY <1>2, <2>1, SubSeqEmpty, LenProperties DEF Keys
  <2> QED BY <1>1, <2>1, <2>2
<1> QED BY <1>1, <1>2 DEF HasInodes

LEMMA ParentHasInodes ==
    ASSUME MapInv(inodes), NEW p \in Keys \ {<<>>}, DirAt(Front(p))
    PROVE  HasInodes(DirsTo(p), inodes)
<1>1. Front(p) \in Keys /\ Walk(inodes, Front(p)) # NoInode
  BY LastIsEntry DEF DirAt, Exists
<1>2. \A k \in 1..Len(Front(p)) : SubSeq(Front(p), 1, k) \in DOMAIN inodes.path_to_ino
  BY <1>1, WalkFinds
<1> QED BY <1>2, DirsToParent DEF HasInodes

LEMMA CopyUpKeeps ==
    ASSUME NEW p, NEW ino
    PROVE  /\ DOMAIN files \subseteq DOMAIN CopiedUp(p, ino)
           /\ DOMAIN CopiedUp(p, ino) \subseteq DOMAIN files \cup {p}
           /\ CowDirs(p, ino) \subseteq dirs \cup DirsTo(p)
BY DEF CopiedUp, CowDirs, With, WithParent

-----------------------------------------------------------------------------
(* The requests.                                                            *)

LEMMA CreateKeeps ==
    ASSUME HostInv, NEW p \in Paths, create(p) PROVE HostInv'
<1> USE DEF HostInv
<1>1. p \in Keys \ {<<>>} /\ DirsTo(p) \subseteq Keys
  BY PathsAreKeys, DirsToAreKeys
<1>2. HasInodes(DirsTo(p), inodes)
  BY <1>1, ParentHasInodes DEF create
<1>3. dirs' = dirs \cup DirsTo(p) /\ marks' \subseteq marks
  BY DEF create, WithParent
<1>4. CASE p \in dirs
  <2>1. UNCHANGED <<files, inodes>>
    BY <1>4 DEF create
  <2> QED BY <1>1, <1>2, <1>3, <2>1 DEF HasInodes
<1>5. CASE p \notin dirs
  <2>1. DOMAIN files' = DOMAIN files \cup {p} /\ inodes' = add_file_at_path(inodes, p, FALSE)
    BY <1>5 DEF create, With
  <2>2. /\ MapInv(inodes')
        /\ DOMAIN inodes.path_to_ino \cup {p} \subseteq DOMAIN inodes'.path_to_ino
    BY <2>1, AddFileKeeps
  <2> QED BY <1>1, <1>2, <1>3, <2>1, <2>2 DEF HasInodes
<1> QED BY <1>4, <1>5

LEMMA MkdirWay ==
    ASSUME NEW p \in Tops
    PROVE  DirsTo(p) = {<<>>}
<1>1. PICK d \in Names : p = <<d>>
  BY DEF Tops
<1>2. 0..(Len(p) - 1) = {0}
  BY <1>1
<1>3. SubSeq(p, 1, 0) = <<>>
  BY SubSeqEmpty
<1> DEFINE proper == 0..(Len(p) - 1)
<1>4. DirsTo(p) = { SubSeq(p, 1, n) : n \in proper }
  BY DEF DirsTo
<1> HIDE DEF proper
<1>5. proper = {0}
  BY <1>2 DEF proper
<1> QED BY <1>3, <1>4, <1>5

LEMMA MkdirKeeps ==
    ASSUME HostInv, NEW p \in Tops, mkdir(p) PROVE HostInv'
<1> USE DEF HostInv
<1>1. p \in Paths /\ p \in Keys \ {<<>>} /\ DirsTo(p) \subseteq Keys
  BY PathsAreKeys, DirsToAreKeys
<1>2. DirsTo(p) = {<<>>}
  BY MkdirWay
<1>3. marks' \subseteq marks /\ files' = files
  BY DEF mkdir
<1>4. CASE p \in DOMAIN files
  BY <1>3, <1>4 DEF mkdir
<1>5. CASE p \notin DOMAIN files
  <2>1. dirs' = dirs \cup {<<>>} \cup {p} /\ inodes' = add_file_at_path(inodes, p, TRUE)
    BY <1>2, <1>5 DEF mkdir, WithParent
  <2>2. /\ MapInv(inodes')
        /\ DOMAIN inodes.path_to_ino \cup {p} \subseteq DOMAIN inodes'.path_to_ino
    BY <1>1, <2>1, AddFileKeeps
  <2> QED BY <1>1, <1>2, <1>3, <2>1, <2>2 DEF HasInodes
<1> QED BY <1>4, <1>5

\* A request that copies a file up, and may change what it holds.
LEMMA CopiedKeeps ==
    ASSUME HostInv, NEW p \in Paths, FileAt(p),
           DOMAIN files' \subseteq DOMAIN files \cup {p}, dirs' \subseteq dirs \cup DirsTo(p),
           UNCHANGED <<marks, inodes>>
    PROVE  HostInv'
<1>1. p \in Keys \ {<<>>} /\ DirsTo(p) \subseteq Keys
  BY PathsAreKeys, DirsToAreKeys
<1>2. HasInodes(DirsTo(p) \cup {p}, inodes)
  BY <1>1, FoundHasInodes DEF HostInv, FileAt, Exists
<1> QED BY <1>1, <1>2 DEF HostInv, HasInodes

LEMMA OpenKeeps ==
    ASSUME HostInv, NEW p \in Paths, open(p) PROVE HostInv'
<1>1. /\ FileAt(p) /\ UNCHANGED <<marks, inodes>>
      /\ files' = CopiedUp(p, Walk(inodes, p)) /\ dirs' = CowDirs(p, Walk(inodes, p))
  BY DEF open
<1>2. DOMAIN files' \subseteq DOMAIN files \cup {p} /\ dirs' \subseteq dirs \cup DirsTo(p)
  BY <1>1, CopyUpKeeps
<1> QED BY <1>1, <1>2, CopiedKeeps

LEMMA ChangeKeeps ==
    ASSUME HostInv, NEW p \in Paths, write(p) \/ setattr(p) PROVE HostInv'
<1>1. PICK bytes, expected : Change(p, bytes, expected)
  BY DEF write, setattr
<1>2. /\ FileAt(p) /\ UNCHANGED <<marks, inodes>>
      /\ files' = With(CopiedUp(p, Walk(inodes, p)), p, bytes)
      /\ dirs' = CowDirs(p, Walk(inodes, p))
  BY <1>1 DEF Change, write, setattr
<1>3. DOMAIN files' \subseteq DOMAIN files \cup {p} /\ dirs' \subseteq dirs \cup DirsTo(p)
  BY <1>2, CopyUpKeeps DEF With
<1> QED BY <1>2, <1>3, CopiedKeeps

LEMMA UnlinkKeeps ==
    ASSUME HostInv, NEW p \in Paths, unlink(p) PROVE HostInv'
<1> USE DEF HostInv
<1>1. p \in Keys \ {<<>>}
  BY PathsAreKeys
<1>2. /\ FileAt(p) /\ DOMAIN files' = DOMAIN files \ {p} /\ dirs' = dirs
      /\ inodes' = remove_path(inodes, p) /\ marks' \subseteq marks \cup {p}
  BY DEF unlink, Without
<1>3. p \notin dirs
  <2>1. p \in DOMAIN inodes.path_to_ino /\ Walk(inodes, p) = InodeAt(inodes, p)
    BY <1>1, <1>2, WalkFinds DEF FileAt, Exists
  <2>2. get_path(inodes, Walk(inodes, p)) = p
    BY <2>1, PathOfInode
  <2> QED BY <1>2, <2>2 DEF FileAt, IsDir, OnOverlay
<1>4. MapInv(inodes') /\ DOMAIN inodes'.path_to_ino = DOMAIN inodes.path_to_ino \ {p}
  BY <1>2, RemoveKeeps
<1> QED BY <1>1, <1>2, <1>3, <1>4 DEF HasInodes

LEMMA UnderItself ==
    ASSUME NEW p \in Keys PROVE Under(p, p)
BY LenProperties DEF Keys, Under, IsPrefix

LEMMA RmdirKeeps ==
    ASSUME HostInv, NEW p \in Tops, rmdir(p) PROVE HostInv'
<1> USE DEF HostInv
<1>1. p \in Keys \ {<<>>} /\ Under(p, p)
  BY PathsAreKeys, UnderItself
<1>2. /\ DOMAIN files' = DOMAIN files \ Below(p, DOMAIN files) /\ dirs' = dirs \ Below(p, dirs)
      /\ inodes' = remove_path(inodes, p) /\ marks' \subseteq marks \cup {p}
  BY DEF rmdir, Without
<1>3. p \notin DOMAIN files' \cup dirs'
  BY <1>1, <1>2 DEF Below
<1>4. MapInv(inodes') /\ DOMAIN inodes'.path_to_ino = DOMAIN inodes.path_to_ino \ {p}
  BY <1>2, RemoveKeeps
<1> QED BY <1>1, <1>2, <1>3, <1>4 DEF HasInodes

LEMMA RenameMoves ==
    ASSUME MapInv(inodes), NEW p \in Keys \ {<<>>}, NEW q \in Keys \ {<<>>},
           p \in DOMAIN inodes.path_to_ino, NEW set \in SUBSET Keys, HasInodes(set, inodes)
    PROVE  /\ MovedSet(set, p, q) \subseteq Keys
           /\ <<>> \notin set => <<>> \notin MovedSet(set, p, q)
           /\ HasInodes(MovedSet(set, p, q), rename_path(inodes, p, q))
<1>1. ASSUME NEW x \in Below(p, set)
      PROVE  Rebase(x, p, q) \in Keys \ {<<>>}
             /\ Rebase(x, p, q) \in DOMAIN rename_path(inodes, p, q).path_to_ino
  <2>1. x \in Keys /\ Under(p, x)
    BY DEF Below
  <2>2. x # <<>>
    <3>1. Len(p) \in Nat \ {0} /\ Len(p) <= Len(x)
      BY <2>1, EmptySeq DEF Under, IsPrefix, Keys
    <3> QED BY <3>1, EmptySeq
  <2>3. x \in DOMAIN inodes.path_to_ino
    BY <2>2 DEF HasInodes, Below
  <2>4. Rebase(x, p, q) \in DOMAIN rename_path(inodes, p, q).path_to_ino
    BY <2>1, <2>3, RenameKeeps
  <2>5. Rebase(x, p, q) \in Keys /\ Len(Rebase(x, p, q)) = Len(q) + (Len(x) - Len(p))
    BY <2>1, RebaseBack
  <2>6. Len(q) \in Nat \ {0} /\ Len(p) \in Nat /\ Len(x) \in Nat /\ Len(p) <= Len(x)
    BY <2>1, EmptySeq, LenProperties DEF Under, IsPrefix, Keys
  <2> QED BY <2>4, <2>5, <2>6, EmptySeq
<1>2. ASSUME NEW x \in set \ Below(p, set), x # <<>>
      PROVE  x \in DOMAIN rename_path(inodes, p, q).path_to_ino
  <2>1. x \in DOMAIN inodes.path_to_ino /\ ~ Under(p, x)
    BY <1>2 DEF HasInodes, Below
  <2> QED BY <2>1, RenameKeeps
<1> QED BY <1>1, <1>2 DEF MovedSet, HasInodes

LEMMA RenameKeepsHost ==
    ASSUME HostInv, NEW p \in Paths, NEW q \in Paths, rename(p, q) PROVE HostInv'
<1> USE DEF HostInv
<1> DEFINE ino == get_inode(inodes, p)
           copied == IF OnOverlay(p) THEN files ELSE CopiedUp(p, ino)
           made == (IF OnOverlay(p) THEN dirs ELSE CowDirs(p, ino)) \cup WithParent(q)
<1>1. /\ p \in Keys \ {<<>>} /\ q \in Keys \ {<<>>}
      /\ DirsTo(p) \subseteq Keys /\ DirsTo(q) \subseteq Keys
  BY PathsAreKeys, DirsToAreKeys
<1>2. /\ HasInodes(DirsTo(p) \cup {p}, inodes) /\ p \in DOMAIN inodes.path_to_ino
      /\ HasInodes(DirsTo(q), inodes)
  <2>1. Walk(inodes, p) # NoInode /\ DirAt(Front(q))
    BY DEF rename, MayRename, Exists
  <2>2. HasInodes(DirsTo(p) \cup {p}, inodes) /\ HasInodes(DirsTo(q), inodes)
    BY <1>1, <2>1, FoundHasInodes, ParentHasInodes
  <2> QED BY <1>1, <2>2 DEF HasInodes
<1>3. /\ DOMAIN copied \subseteq DOMAIN files \cup {p}
      /\ made \subseteq dirs \cup DirsTo(p) \cup DirsTo(q)
  BY CopyUpKeeps DEF WithParent
<1>4. /\ DOMAIN copied \subseteq Keys /\ made \subseteq Keys /\ <<>> \notin DOMAIN copied
      /\ HasInodes(DOMAIN copied, inodes) /\ HasInodes(made, inodes)
  <2> HIDE DEF copied, made
  <2> QED BY <1>1, <1>2, <1>3 DEF HasInodes
<1>5. \/ /\ files' = MovedTo(copied, p, q)
         /\ dirs' = MovedSet(made, p, q) \cup DirsTo(p)
         /\ inodes' = rename_path(inodes, p, q)
         /\ marks' = (MovedMarks(p, q) \cup {p}) \ {q}
      \/ files' = copied /\ dirs' = made /\ UNCHANGED <<marks, inodes>>
  BY DEF rename
<1> HIDE DEF copied, made
<1>6. CASE files' = copied /\ dirs' = made /\ UNCHANGED <<marks, inodes>>
  BY <1>4, <1>6 DEF HasInodes
<1>7. CASE /\ files' = MovedTo(copied, p, q)
           /\ dirs' = MovedSet(made, p, q) \cup DirsTo(p)
           /\ inodes' = rename_path(inodes, p, q)
           /\ marks' = (MovedMarks(p, q) \cup {p}) \ {q}
  <2>1. DOMAIN files' = MovedSet(DOMAIN copied, p, q)
    BY <1>7 DEF MovedTo, MovedSet
  <2>2. MapInv(inodes')
    BY <1>1, <1>2, <1>7, RenameKeeps
  <2>3. /\ MovedSet(DOMAIN copied, p, q) \subseteq Keys \ {<<>>}
        /\ HasInodes(MovedSet(DOMAIN copied, p, q), inodes')
    BY <1>1, <1>2, <1>4, <1>7, RenameMoves
  <2>4. /\ MovedSet(made, p, q) \subseteq Keys
        /\ HasInodes(MovedSet(made, p, q), inodes')
    BY <1>1, <1>2, <1>4, <1>7, RenameMoves
  <2>5. HasInodes(DirsTo(p), inodes')
    <3>1. ASSUME NEW x \in DirsTo(p), x # <<>> PROVE x \in DOMAIN inodes'.path_to_ino
      <4>1. x \in DOMAIN inodes.path_to_ino
        BY <1>2, <3>1 DEF HasInodes
      <4>2. ~ Under(p, x)
        <5>1. PICK k \in 0..(Len(p) - 1) : x = SubSeq(p, 1, k)
          BY DEF DirsTo
        <5>2. Len(p) \in Nat \ {0} /\ k \in 0..Len(p) /\ k < Len(p)
          BY <1>1, <5>1, EmptySeq DEF Keys
        <5>3. Len(x) = k
          BY <1>1, <5>1, <5>2, PrefixIsKey
        <5> QED BY <5>2, <5>3 DEF Under, IsPrefix
      <4> QED BY <1>1, <1>2, <1>7, <4>1, <4>2, RenameKeeps
    <3> QED BY <3>1 DEF HasInodes
  <2>6. marks' \subseteq Keys \ {<<>>}
    <3>1. ASSUME NEW x \in Below(p, marks) PROVE Rebase(x, p, q) \in Keys \ {<<>>}
      <4>1. x \in Keys /\ Under(p, x)
        BY DEF Below
      <4>2. /\ Rebase(x, p, q) \in Keys
            /\ Len(Rebase(x, p, q)) = Len(q) + (Len(x) - Len(p))
        BY <1>1, <4>1, RebaseBack
      <4>3. Len(q) \in Nat \ {0} /\ Len(x) \in Nat /\ Len(p) \in Nat /\ Len(p) <= Len(x)
        BY <1>1, <4>1, EmptySeq, LenProperties DEF Keys, Under, IsPrefix
      <4> QED BY <4>2, <4>3, EmptySeq
    <3> QED BY <1>1, <1>7, <3>1 DEF MovedMarks
  <2> QED BY <1>1, <1>7, <2>1, <2>2, <2>3, <2>4, <2>5, <2>6 DEF HasInodes
<1> QED BY <1>5, <1>6, <1>7

\* A path that has been removed has no inode.
LEMMA RemovedIsGone ==
    ASSUME MapInv(inodes), NEW p, inodes' = remove_path(inodes, p)
    PROVE  get_inode(inodes', p) = NoInode
BY RemoveKeeps DEF get_inode

LEMMA MovedMore ==
    ASSUME NEW few, NEW many, few \subseteq many, NEW p, NEW q
    PROVE  MovedSet(few, p, q) \subseteq MovedSet(many, p, q)
BY DEF MovedSet, Below

LEMMA RootIsUnder ==
    ASSUME NEW p \in Keys \ {<<>>}
    PROVE  ~ Under(p, <<>>)
<1>1. Len(p) \in Nat \ {0} /\ Len(<<>>) = 0
  BY LastIsEntry, EmptySeq
<1> QED BY <1>1 DEF Under, IsPrefix

LEMMA FrontOnTheWay ==
    ASSUME NEW p \in Keys \ {<<>>}
    PROVE  Front(p) \in DirsTo(p)
<1>1. Len(p) \in Nat \ {0}
  BY LastIsEntry
<1>2. Len(p) - 1 \in 0..(Len(p) - 1)
  BY <1>1
<1> QED BY <1>2 DEF Front, DirsTo

\* Directories for markers are in directories that are there after a request, too.
LEMMA RequestMarks ==
    ASSUME HostInv, MarkedThere, Request
    PROVE  MarkedThere'
<1>1. MapInv(inodes)
  BY DEF HostInv
<1>2. ASSUME marked' = marked, dirs \subseteq dirs' PROVE MarkedThere'
  BY <1>2 DEF MarkedThere
<1>3. CASE \E p \in Paths : create(p) \/ open(p) \/ write(p) \/ setattr(p)
  BY <1>2, <1>3 DEF create, open, write, setattr, Change, CowDirs, WithParent
<1>4. CASE \E p \in Tops : mkdir(p)
  BY <1>2, <1>4 DEF mkdir, WithParent
<1>5. CASE \E p \in Paths : unlink(p)
  <2>1. PICK p \in Paths : unlink(p)
    BY <1>5
  <2>2. get_inode(inodes', p) = NoInode
    BY <1>1, <2>1, RemovedIsGone DEF unlink
  <2> QED BY <1>2, <2>1, <2>2 DEF unlink
<1>6. CASE \E p \in Tops : rmdir(p)
  <2>1. PICK p \in Tops : rmdir(p)
    BY <1>6
  <2>2. get_inode(inodes', p) = NoInode
    BY <1>1, <2>1, RemovedIsGone DEF rmdir
  <2>3. marked' = marked \ Below(p, marked) /\ dirs' = dirs \ Below(p, dirs)
    BY <2>1, <2>2 DEF rmdir
  <2>4. ~ Under(p, <<>>)
    BY PathsAreKeys, RootIsUnder
  <2> QED BY <2>3, <2>4 DEF MarkedThere, Below
<1>7. CASE \E p, q \in Paths : rename(p, q)
  <2>1. PICK p \in Paths, q \in Paths : rename(p, q)
    BY <1>7
  <2> DEFINE made == (IF OnOverlay(p) THEN dirs ELSE CowDirs(p, get_inode(inodes, p))) \cup WithParent(q)
  <2>2. dirs \subseteq made
    BY DEF WithParent
  <2>3. \/ dirs' = made /\ marked' = marked
        \/ /\ dirs' = MovedSet(made, p, q) \cup DirsTo(p)
           /\ marked' = MovedSet(marked, p, q) \cup {Front(p)}
    BY <2>1 DEF rename
  <2> HIDE DEF made
  <2>4. CASE dirs' = made /\ marked' = marked
    BY <1>2, <2>2, <2>4
  <2>5. CASE /\ dirs' = MovedSet(made, p, q) \cup DirsTo(p)
             /\ marked' = MovedSet(marked, p, q) \cup {Front(p)}
    <3>1. MovedSet(marked, p, q) \subseteq MovedSet(made, p, q)
      BY <2>2, MovedMore DEF MarkedThere
    <3>2. p \in Keys \ {<<>>} /\ q \in Keys \ {<<>>}
      BY PathsAreKeys
    <3>3. Front(p) \in DirsTo(p)
      BY <3>2, FrontOnTheWay
    <3>4. <<>> \in MovedSet(made, p, q)
      <4>1. ~ Under(p, <<>>) /\ ~ Under(q, <<>>) /\ <<>> \in made
        BY <2>2, <3>2, RootIsUnder DEF MarkedThere
      <4> QED BY <4>1 DEF MovedSet, Below
    <3> QED BY <2>5, <3>1, <3>3, <3>4 DEF MarkedThere
  <2> QED BY <2>3, <2>4, <2>5
<1> QED BY <1>3, <1>4, <1>5, <1>6, <1>7 DEF Request

LEMMA MountKeeps ==
    ASSUME HostInv, MarkedThere, NEW manifest, DOMAIN manifest \subseteq Keys \ {<<>>}
    PROVE  /\ MapInv(MountedOver(manifest))
           /\ HasInodes(DOMAIN files \cup dirs, MountedOver(manifest))
<1> USE DEF HostInv
<1> DEFINE hostDirs == (dirs \ {<<>>}) \cup MarkerDirs
           hostFiles == DOMAIN files \cup { Front(p) \o <<Whiteout, Last(p)>> : p \in marks }
<1>1. MarkerDirs \subseteq Keys
  BY AppendIsKey DEF MarkerDirs, Entry, MarkedThere
<1>2. ASSUME NEW p \in marks PROVE Front(p) \o <<Whiteout, Last(p)>> \in Keys \ {<<>>}
  <2>1. Front(p) \in Seq(Entry) /\ <<Whiteout, Last(p)>> \in Seq(Entry)
    BY LastIsEntry DEF Keys, Entry
  <2>2. Front(p) \o <<Whiteout, Last(p)>> # <<>>
    BY <2>1, ConcatEqualIffEmpty
  <2> QED BY <2>1, <2>2, ConcatProperties DEF Keys
<1>3. hostDirs \in SUBSET Keys /\ hostFiles \in SUBSET (Keys \ {<<>>})
  BY <1>1, <1>2
<1>4. MountedOver(manifest) = Mounted(manifest, hostDirs, hostFiles)
  BY DEF MountedOver
<1>5. DOMAIN files \cup (dirs \ {<<>>}) \subseteq hostDirs \cup hostFiles
  OBVIOUS
<1> HIDE DEF hostDirs, hostFiles
<1> QED BY <1>3, <1>4, <1>5, MountedKeeps DEF HasInodes

LEMMA NextKeeps ==
    ASSUME IInv, Next /\ UNCHANGED commitVars PROVE IInv'
<1>1. HostInv /\ MarkedThere /\ DOMAIN archive \subseteq Keys \ {<<>>}
  BY DEF IInv, HostInv, KeysInv
<1>2. CASE Request /\ UNCHANGED archive
  <2>1. HostInv'
    BY <1>1, <1>2, CreateKeeps, MkdirKeeps, OpenKeeps, ChangeKeeps, UnlinkKeeps, RmdirKeeps,
       RenameKeepsHost DEF Request
  <2>2. MarkedThere'
    BY <1>1, <1>2, RequestMarks
  <2> QED BY <1>2, <2>1, <2>2 DEF IInv, HostInv, KeysInv, commitVars
<1>3. CASE Remount
  <2>1. inodes' = MountedOver(archive) /\ UNCHANGED <<archive, files, dirs, marks, marked>>
    BY <1>3 DEF Remount, Remounted, hostVars
  <2>2. MapInv(inodes') /\ HasInodes(DOMAIN files \cup dirs, inodes')
    BY <1>1, <2>1, MountKeeps
  <2> QED BY <2>1, <2>2 DEF IInv, KeysInv, HasInodes, MarkedThere, commitVars
<1> QED BY <1>2, <1>3 DEF Next

-----------------------------------------------------------------------------
(* The commands.                                                            *)

LEMMA ListingHasEntries ==
    ASSUME HostInv, NEW ino
    PROVE  Listing(inodes, ino) \subseteq Entry
<1>1. readdir(inodes, ino) \subseteq Entry
  BY DEF readdir, HostInv, MapInv, NodesInv
<1>2. ASSUME NEW p \in (DOMAIN files \cup dirs) \ {<<>>} PROVE Last(p) \in Entry
  BY LastIsEntry DEF HostInv
<1> QED BY <1>1, <1>2 DEF Listing

LEMMA EntriesAreKeys ==
    ASSUME HostInv, NEW at \in SUBSET Keys
    PROVE  Entries(at) \subseteq Keys \ {<<>>}
<1>1. ASSUME NEW p \in at, NEW n \in Listing(inodes, Walk(inodes, p))
      PROVE  Append(p, n) \in Keys \ {<<>>}
  <2>1. p \in Keys /\ n \in Entry
    BY ListingHasEntries
  <2> QED BY <2>1, AppendIsKey
<1>2. ASSUME NEW x \in Entries(at) PROVE x \in Keys \ {<<>>}
  <2>1. PICK p \in at : x \in { Append(p, n) : n \in Listing(inodes, Walk(inodes, p)) }
    BY DEF Entries
  <2> QED BY <1>1, <2>1
<1> QED BY <1>2

\* The levels of the walk over the mount are defined by recursion.
NextLevel(at) == Entries({ p \in at : p = <<>> \/ (ListedAsDir(p) /\ FoundDir(p)) })

LEMMA LevelIs == \A k \in 0..Depth : Level[k] = IF k = 0 THEN {<<>>} ELSE NextLevel(Level[k - 1])
<1> DEFINE Is(f) == f = [k \in 0..Depth |-> IF k = 0 THEN {<<>>} ELSE NextLevel(f[k - 1])]
<1>1. Level = CHOOSE f : Is(f)
  BY Zenon DEF Level, NextLevel
<1> DEFINE l1 == NextLevel({<<>>})
           l2 == NextLevel(l1)
           l3 == NextLevel(l2)
           g == [k \in 0..Depth |-> IF k = 0 THEN {<<>>} ELSE IF k = 1 THEN l1
                                    ELSE IF k = 2 THEN l2 ELSE l3]
<1>2. Is(g)
  <2> DEFINE value(k) == IF k = 0 THEN {<<>>} ELSE NextLevel(g[k - 1])
  <2>1. 0..Depth = {0, 1, 2, 3}
    BY DEF Depth
  <2> HIDE DEF l3
  <2>2. g[3] = l3 /\ g[2] = l2
    BY <2>1
  <2> HIDE DEF l2
  <2>3. g[2] = l2 /\ g[1] = l1
    BY <2>1
  <2> HIDE DEF l1
  <2>4. g[1] = l1 /\ g[0] = {<<>>}
    BY <2>1
  <2> HIDE DEF g
  <2>5. value(3) = g[3] /\ value(2) = g[2] /\ value(1) = g[1] /\ value(0) = g[0]
    <3>1. ASSUME NEW k, NEW j, k # 0, k - 1 = j PROVE value(k) = NextLevel(g[j])
      BY <3>1
    <3>2. 3 # 0 /\ 3 - 1 = 2 /\ 2 # 0 /\ 2 - 1 = 1 /\ 1 # 0 /\ 1 - 1 = 0
      OBVIOUS
    <3>3. value(0) = {<<>>}
      OBVIOUS
    <3> HIDE DEF value
    <3>4. value(3) = NextLevel(g[2]) /\ value(2) = NextLevel(g[1]) /\ value(1) = NextLevel(g[0])
      BY <3>1, <3>2
    <3> QED BY <2>2, <2>3, <2>4, <3>3, <3>4 DEF l1, l2, l3
  <2>6. g = [k \in 0..Depth |-> g[k]]
    BY DEF g
  <2>7. \A k \in 0..Depth : g[k] = value(k)
    BY <2>1, <2>5
  <2> QED BY <2>6, <2>7
<1>3. Is(Level)
  <2> HIDE DEF Is, g
  <2> QED BY <1>1, <1>2
<1> QED BY <1>3

LEMMA CollectedAreKeys ==
    ASSUME HostInv
    PROVE  Collected \subseteq Keys \ {<<>>}
<1>1. ASSUME NEW at \in SUBSET Keys PROVE NextLevel(at) \subseteq Keys \ {<<>>}
  <2> DEFINE entered == { p \in at : p = <<>> \/ (ListedAsDir(p) /\ FoundDir(p)) }
  <2>1. entered \in SUBSET Keys
    OBVIOUS
  <2> HIDE DEF entered
  <2>2. Entries(entered) \subseteq Keys \ {<<>>}
    BY <2>1, EntriesAreKeys
  <2> QED BY <2>2 DEF entered, NextLevel
<1>2. 0 \in 0..Depth /\ 1 \in 0..Depth /\ 2 \in 0..Depth /\ 3 \in 0..Depth
      /\ \A k \in 1..Depth : k = 1 \/ k = 2 \/ k = 3
  BY DEF Depth
<1>3. /\ Level[0] = {<<>>} /\ Level[1] = NextLevel(Level[0])
      /\ Level[2] = NextLevel(Level[1]) /\ Level[3] = NextLevel(Level[2])
  <2>1. ASSUME NEW k \in 0..Depth, NEW j, k # 0, j = k - 1 PROVE Level[k] = NextLevel(Level[j])
    BY <2>1, LevelIs
  <2>2. Level[0] = {<<>>}
    BY <1>2, LevelIs
  <2>3. 1 # 0 /\ 0 = 1 - 1 /\ 2 # 0 /\ 1 = 2 - 1 /\ 3 # 0 /\ 2 = 3 - 1
    OBVIOUS
  <2> QED BY <1>2, <2>1, <2>2, <2>3
<1>4. Level[0] \in SUBSET Keys
  BY <1>3, EmptySeq DEF Keys
<1>5. Level[1] \subseteq Keys \ {<<>>}
  BY <1>1, <1>3, <1>4
<1>6. Level[2] \subseteq Keys \ {<<>>}
  BY <1>1, <1>3, <1>5
<1>7. Level[3] \subseteq Keys \ {<<>>}
  BY <1>1, <1>3, <1>6
<1>8. \A k \in 1..Depth : Level[k] \subseteq Keys \ {<<>>}
  BY <1>2, <1>5, <1>6, <1>7
<1> QED BY <1>8 DEF Collected

LEMMA MarkedBelow ==
    ASSUME NEW p \in Keys, IsMarker(p)
    PROVE  MarkedBy(p) \in Keys \ {<<>>} /\ DirsTo(MarkedBy(p)) \subseteq DirsTo(p)
<1>1. Len(p) \in Nat /\ Len(p) > 1 /\ p # <<>>
  BY LenProperties, EmptySeq DEF Keys, IsMarker
<1>2. PICK k \in 0..Len(p) : k = Len(p) - 2
  <2>1. Len(p) - 2 \in 0..Len(p)
    BY <1>1
  <2> QED BY <2>1
<1> DEFINE at == SubSeq(p, 1, k)
           q == MarkedBy(p)
<1>3. at \in Keys /\ Len(at) = k /\ Last(p) \in Entry
  BY <1>1, PrefixIsKey, LastIsEntry
<1>4. q = Append(at, Last(p))
  BY <1>2 DEF MarkedBy
<1> HIDE DEF at, q
<1>5. q \in Keys \ {<<>>} /\ Len(q) = k + 1 /\ Front(q) = at
  <2>1. q \in Keys \ {<<>>} /\ Len(q) = Len(at) + 1
    BY <1>3, <1>4, AppendIsKey
  <2>2. /\ Front(q) \in Keys /\ Len(Front(q)) = Len(q) - 1
    BY <2>1, LastIsEntry
  <2>3. Len(Front(q)) = Len(at)
    BY <1>2, <1>3, <2>1, <2>2
  <2>4. ASSUME NEW i \in 1..Len(at) PROVE Front(q)[i] = at[i]
    <3>1. q[i] = at[i]
      BY <1>3, <1>4, AppendProperties DEF Keys
    <3>2. \A j \in 1..(Len(q) - 1) : q[j] \in Entry
      BY <1>2, <1>3, <2>1, ElementOfSeq DEF Keys
    <3>3. PICK n \in Int : n = Len(q) - 1
      BY <1>2, <1>3, <2>1
    <3>4. \A j \in 1..(n - 1 + 1) : SubSeq(q, 1, n)[j] = q[1 + j - 1]
      BY <3>2, <3>3, SubSeqProperties
    <3>5. i \in 1..(n - 1 + 1) /\ 1 + i - 1 = i
      BY <1>2, <1>3, <2>1, <3>3
    <3>6. Front(q)[i] = q[i]
      BY <3>3, <3>4, <3>5 DEF Front
    <3> QED BY <3>1, <3>6
  <2>5. Front(q) \in Seq(Entry) /\ at \in Seq(Entry)
    BY <1>3, <2>2 DEF Keys
  <2>6. Front(q) = at
    <3> DEFINE f == Front(q)
    <3>1. f \in Seq(Entry) /\ at \in Seq(Entry) /\ Len(f) = Len(at)
          /\ \A i \in 1..Len(f) : f[i] = at[i]
      BY <2>3, <2>4, <2>5
    <3> HIDE DEF f
    <3>2. f = at
      BY <3>1, SeqEqual
    <3> QED BY <3>2 DEF f
  <2> QED BY <1>3, <2>1, <2>6
<1>6. ASSUME NEW x \in DirsTo(q) PROVE x \in DirsTo(p)
  <2>1. CASE x = <<>>
    <3>1. SubSeq(p, 1, 0) = <<>> /\ 0 \in 0..(Len(p) - 1)
      BY <1>1, SubSeqEmpty
    <3> QED BY <2>1, <3>1 DEF DirsTo
  <2>2. CASE x # <<>>
    <3>1. PICK n \in 1..k : x = SubSeq(at, 1, n)
      BY <1>3, <1>5, <2>2, DirsToParent
    <3>2. x = SubSeq(p, 1, n)
      <4>1. n \in 0..k
        OBVIOUS
      <4> QED BY <3>1, <4>1, PrefixOfPrefix DEF at
    <3>3. n \in 0..(Len(p) - 1)
      BY <1>1, <1>2
    <3> QED BY <3>2, <3>3 DEF DirsTo
  <2> QED BY <2>1, <2>2
<1> QED BY <1>5, <1>6 DEF q

LEMMA CommitKeeps ==
    ASSUME HostInv, NEW opened \in SUBSET Readable, CopyUp(opened), UNCHANGED inodes
    PROVE  HostInv'
<1> USE DEF HostInv
<1> DEFINE up == { p \in opened : ~ IsMarker(p) /\ ~ OnOverlay(p) }
<1>1. /\ DOMAIN files' = DOMAIN files \cup up
      /\ dirs' = dirs \cup UNION { DirsTo(p) : p \in up \cup Hidden(opened) }
      /\ marks' = marks \cup Hidden(opened)
  BY DEF CopyUp
<1>2. ASSUME NEW p \in opened
      PROVE  /\ p \in Keys \ {<<>>} /\ DirsTo(p) \subseteq Keys
             /\ HasInodes(DirsTo(p) \cup {p}, inodes)
  <2>1. p \in Keys \ {<<>>} /\ Walk(inodes, p) # NoInode
    BY CollectedAreKeys DEF Readable, Missing
  <2> QED BY <2>1, DirsToAreKeys, FoundHasInodes
<1>3. ASSUME NEW p \in Hidden(opened)
      PROVE  /\ p \in Keys \ {<<>>} /\ DirsTo(p) \subseteq Keys
             /\ HasInodes(DirsTo(p), inodes)
  <2>1. PICK q \in opened : IsMarker(q) /\ p = MarkedBy(q)
    BY DEF Hidden
  <2>2. p \in Keys \ {<<>>} /\ DirsTo(p) \subseteq DirsTo(q)
    BY <1>2, <2>1, MarkedBelow
  <2> QED BY <1>2, <2>1, <2>2 DEF HasInodes
<1>4. up \subseteq opened
  OBVIOUS
<1> HIDE DEF up
<1>5. DOMAIN files' \subseteq Keys \ {<<>>} /\ dirs' \subseteq Keys /\ marks' \subseteq Keys \ {<<>>}
  BY <1>1, <1>2, <1>3, <1>4
<1>6. HasInodes(DOMAIN files' \cup dirs', inodes)
  <2> SUFFICES ASSUME NEW x \in DOMAIN files' \cup dirs', x # <<>>
               PROVE  x \in DOMAIN inodes.path_to_ino
    BY DEF HasInodes
  <2>1. CASE x \in DOMAIN files \cup dirs
    BY <2>1 DEF HasInodes
  <2>2. CASE x \in up
    BY <1>2, <1>4, <2>2 DEF HasInodes
  <2>3. CASE x \in UNION { DirsTo(p) : p \in up \cup Hidden(opened) }
    <3>1. PICK p \in up \cup Hidden(opened) : x \in DirsTo(p)
      BY <2>3
    <3>2. HasInodes(DirsTo(p), inodes)
      BY <1>2, <1>3, <1>4 DEF HasInodes
    <3> QED BY <3>1, <3>2 DEF HasInodes
  <2> QED BY <1>1, <2>1, <2>2, <2>3
<1> QED BY <1>5, <1>6

\* A marker that is copied up gets a directory on the way that is made for it.
LEMMA CommitMarks ==
    ASSUME HostInv, MarkedThere, NEW opened \in SUBSET Readable, CopyUp(opened)
    PROVE  MarkedThere'
<1>1. ASSUME NEW p \in Hidden(opened) PROVE Front(p) \in DirsTo(p)
  <2>1. PICK x \in opened : IsMarker(x) /\ p = MarkedBy(x)
    BY DEF Hidden
  <2>2. x \in Keys
    BY CollectedAreKeys DEF Readable
  <2>3. p \in Keys \ {<<>>}
    BY <2>1, <2>2, MarkedBelow
  <2> QED BY <2>3, FrontOnTheWay
<1> QED BY <1>1 DEF MarkedThere, CopyUp

LEMMA EmptyOverlayKeeps ==
    ASSUME NEW manifest, DOMAIN manifest \subseteq Keys \ {<<>>}
    PROVE  MapInv(Mounted(manifest, {}, {}))
BY MountedKeeps

LEMMA CommandsKeep ==
    ASSUME IInv, Commands PROVE IInv'
<1>1. /\ HostInv /\ MarkedThere
      /\ DOMAIN archive \subseteq Keys \ {<<>>} /\ DOMAIN committed \subseteq Keys \ {<<>>}
  BY DEF IInv, HostInv, KeysInv
<1>2. CASE CommitOk
  <2>1. /\ CopyUp(Readable) /\ UNCHANGED <<archive, inodes>>
        /\ DOMAIN committed' = Readable
    BY <1>2 DEF CommitOk
  <2>2. HostInv' /\ MarkedThere'
    BY <1>1, <2>1, CommitKeeps, CommitMarks
  <2>3. DOMAIN committed' \subseteq Keys \ {<<>>}
    BY <1>1, <2>1, CollectedAreKeys DEF Readable
  <2> QED BY <1>1, <2>1, <2>2, <2>3 DEF IInv, HostInv, KeysInv
<1>3. CASE CommitFails
  <2>1. UNCHANGED <<archive, inodes, committed>>
    BY <1>3 DEF CommitFails
  <2>2. UNCHANGED hostVars \/ \E opened \in SUBSET Readable : CopyUp(opened)
    BY <1>3 DEF CommitFails
  <2>3. HostInv' /\ MarkedThere'
    <3>1. CASE UNCHANGED hostVars
      BY <1>1, <2>1, <3>1 DEF HostInv, hostVars, HasInodes, MarkedThere
    <3>2. CASE \E opened \in SUBSET Readable : CopyUp(opened)
      BY <1>1, <2>1, <3>2, CommitKeeps, CommitMarks
    <3> QED BY <2>2, <3>1, <3>2
  <2> QED BY <1>1, <2>1, <2>3 DEF IInv, HostInv, KeysInv
<1>4. CASE CheckoutElsewhere
  <2>1. /\ archive' = committed /\ committed' = committed
        /\ files' = <<>> /\ dirs' = { <<>> } /\ marks' = {} /\ marked' = {}
        /\ inodes' = Mounted(committed, {}, {})
    BY <1>4 DEF CheckoutElsewhere, commitVars
  <2>2. MapInv(inodes')
    BY <1>1, <2>1, EmptyOverlayKeeps
  <2>3. DOMAIN files' = {} /\ <<>> \in Keys
    BY <2>1, EmptySeq DEF Keys
  <2> QED BY <1>1, <2>1, <2>2, <2>3 DEF IInv, KeysInv, HasInodes, MarkedThere
<1>5. CASE CheckoutHere
  <2>1. /\ archive' = committed /\ committed' = committed
        /\ UNCHANGED <<files, dirs, marks, marked>> /\ inodes' = MountedOver(committed)
    BY <1>5 DEF CheckoutHere, commitVars, hostVars
  <2>2. MapInv(inodes') /\ HasInodes(DOMAIN files \cup dirs, inodes')
    BY <1>1, <2>1, MountKeeps
  <2> QED BY <1>1, <2>1, <2>2 DEF IInv, KeysInv, HasInodes, HostInv, MarkedThere
<1> QED BY <1>2, <1>3, <1>4, <1>5 DEF Commands

LEMMA InitHolds == WorkspaceInit => IInv
<1> SUFFICES ASSUME WorkspaceInit PROVE IInv
  OBVIOUS
<1>1. /\ archive = Archive /\ files = <<>> /\ dirs = { <<>> } /\ marks = {} /\ marked = {}
      /\ inodes = Mounted(Archive, {}, {}) /\ committed = <<>>
  BY DEF WorkspaceInit, Init
<1>2. DOMAIN Archive \subseteq Keys \ {<<>>}
  <2>1. ASSUME NEW p \in DOMAIN Archive PROVE p \in Seq(Entry) \ {<<>>}
    <3>1. p \in Seq(Names) \ {<<>>} /\ Names \subseteq Entry
      BY ArchiveAssumption DEF Entry
    <3> QED BY <3>1, SeqMonotonic
  <2> QED BY <2>1 DEF Keys
<1>3. MapInv(inodes)
  BY <1>1, <1>2, EmptyOverlayKeeps
<1>4. DOMAIN files = {} /\ DOMAIN committed = {} /\ <<>> \in Keys
  BY <1>1, EmptySeq DEF Keys
<1> QED BY <1>1, <1>2, <1>3, <1>4 DEF IInv, KeysInv, HasInodes, MarkedThere

THEOREM Invariance == WorkspaceSpec => []IInv
<1>1. IInv /\ [WorkspaceNext]_workspaceVars => IInv'
  <2> SUFFICES ASSUME IInv, [WorkspaceNext]_workspaceVars PROVE IInv'
    OBVIOUS
  <2>1. CASE UNCHANGED workspaceVars
    BY <2>1 DEF workspaceVars, vars, hostVars, commitVars, IInv, KeysInv, HasInodes, MarkedThere
  <2> QED BY <2>1, NextKeeps, CommandsKeep DEF WorkspaceNext
<1> QED BY <1>1, InitHolds, PTL DEF WorkspaceSpec

\* The inode a path is found under stands for that path, whatever requests,
\* mounts and commits came before (vfs/src/lib.rs).
THEOREM PathsInverseCorrect == WorkspaceSpec => []PathsInverse
<1>1. IInv => PathsInverse
  BY DEF IInv, MapInv, InverseInv, PathsInverse, get_path
<1> QED BY <1>1, Invariance, PTL

\* What is on the overlay has an inode, also when a commit has copied up what it
\* read (fuse/src/fuse/mod.rs).
THEOREM OverlayHasInodesCorrect == WorkspaceSpec => []OverlayHasInodes
<1>1. IInv => OverlayHasInodes
  BY DEF IInv, HasInodes, OverlayHasInodes
<1> QED BY <1>1, Invariance, PTL

-----------------------------------------------------------------------------
(* Prefixes of paths.                                                       *)

LEMMA SamePath ==
    ASSUME NEW x \in Keys, NEW y \in Keys, Len(x) = Len(y), \A i \in 1..Len(x) : x[i] = y[i]
    PROVE  x = y
<1>1. x \in Seq(Entry) /\ y \in Seq(Entry)
  BY DEF Keys
<1> QED BY <1>1, SeqEqual

LEMMA PrefixNames ==
    ASSUME NEW p \in Keys, NEW n \in 0..Len(p)
    PROVE  /\ SubSeq(p, 1, n) \in Keys /\ Len(SubSeq(p, 1, n)) = n
           /\ \A i \in 1..n : SubSeq(p, 1, n)[i] = p[i]
<1>1. SubSeq(p, 1, n) \in Keys /\ Len(SubSeq(p, 1, n)) = n
  BY PrefixIsKey
<1>2. \A i \in 1..n : p[i] \in Entry
  BY ElementOfSeq DEF Keys
<1>3. PICK k \in Int : k = 1
  OBVIOUS
<1>4. \A i \in k..n : p[i] \in Entry
  BY <1>2, <1>3
<1>5. \A i \in 1..(n - k + 1) : SubSeq(p, k, n)[i] = p[k + i - 1]
  BY <1>4, SubSeqProperties
<1>6. ASSUME NEW i \in 1..n PROVE SubSeq(p, 1, n)[i] = p[i]
  <2>1. i \in 1..(n - k + 1) /\ k + i - 1 = i
    BY <1>3
  <2> QED BY <1>3, <1>5, <2>1
<1> QED BY <1>1, <1>6

LEMMA UnderIs ==
    ASSUME NEW x \in Keys, NEW y \in Keys
    PROVE  /\ Len(x) \in Nat /\ Len(y) \in Nat
           /\ Under(x, y) <=> Len(x) <= Len(y) /\ \A i \in 1..Len(x) : x[i] = y[i]
<1>1. Len(x) \in Nat /\ Len(y) \in Nat
  BY LenProperties DEF Keys
<1>2. ASSUME Len(x) <= Len(y)
      PROVE  SubSeq(x, 1, Len(x)) = SubSeq(y, 1, Len(x)) <=> \A i \in 1..Len(x) : x[i] = y[i]
  <2>1. Len(x) \in 0..Len(y) /\ Len(x) \in 0..Len(x)
    BY <1>1, <1>2
  <2> DEFINE a == SubSeq(x, 1, Len(x))
             b == SubSeq(y, 1, Len(x))
  <2>2. a \in Keys /\ Len(a) = Len(x) /\ \A i \in 1..Len(x) : a[i] = x[i]
    BY <2>1, PrefixNames
  <2>3. b \in Keys /\ Len(b) = Len(x) /\ \A i \in 1..Len(x) : b[i] = y[i]
    BY <2>1, PrefixNames
  <2> HIDE DEF a, b
  <2>4. a = b => \A i \in 1..Len(x) : x[i] = y[i]
    BY <2>2, <2>3
  <2>5. (\A i \in 1..Len(x) : x[i] = y[i]) => a = b
    BY <2>2, <2>3, SamePath
  <2> QED BY <2>4, <2>5 DEF a, b
<1> QED BY <1>1, <1>2 DEF Under, IsPrefix

LEMMA UnderOrder ==
    ASSUME NEW x \in Keys, NEW y \in Keys
    PROVE  /\ Under(x, y) /\ Under(y, x) => x = y
           /\ Under(x, y) /\ Len(x) = Len(y) => x = y
           /\ \A z \in Keys : Under(x, y) /\ Under(y, z) => Under(x, z)
           /\ \A z \in Keys : Under(x, z) /\ Under(y, z) => Under(x, y) \/ Under(y, x)
<1>1. ASSUME Under(x, y), Len(x) = Len(y) PROVE x = y
  <2>1. \A i \in 1..Len(x) : x[i] = y[i]
    BY <1>1, UnderIs
  <2> QED BY <1>1, <2>1, SamePath
<1>2. ASSUME Under(x, y), Under(y, x) PROVE x = y
  <2>1. Len(x) = Len(y)
    BY <1>2, UnderIs
  <2> QED BY <1>1, <1>2, <2>1
<1>3. ASSUME NEW z \in Keys, Under(x, y), Under(y, z) PROVE Under(x, z)
  <2>1. /\ Len(x) \in Nat /\ Len(y) \in Nat /\ Len(z) \in Nat
        /\ Len(x) <= Len(y) /\ Len(y) <= Len(z)
        /\ \A i \in 1..Len(x) : x[i] = y[i]
        /\ \A i \in 1..Len(y) : y[i] = z[i]
    BY <1>3, UnderIs
  <2>2. \A i \in 1..Len(x) : x[i] = z[i]
    BY <2>1
  <2>3. Len(x) <= Len(z)
    BY <2>1
  <2> QED BY <2>2, <2>3, UnderIs
<1>4. ASSUME NEW z \in Keys, Under(x, z), Under(y, z) PROVE Under(x, y) \/ Under(y, x)
  <2>1. /\ Len(x) \in Nat /\ Len(y) \in Nat /\ Len(z) \in Nat
        /\ \A i \in 1..Len(x) : x[i] = z[i]
        /\ \A i \in 1..Len(y) : y[i] = z[i]
    BY <1>4, UnderIs
  <2>2. CASE Len(x) <= Len(y)
    <3>1. \A i \in 1..Len(x) : x[i] = y[i]
      BY <2>1, <2>2
    <3> QED BY <2>2, <3>1, UnderIs
  <2>3. CASE Len(y) <= Len(x)
    <3>1. \A i \in 1..Len(y) : y[i] = x[i]
      BY <2>1, <2>3
    <3> QED BY <2>3, <3>1, UnderIs
  <2> QED BY <2>1, <2>2, <2>3
<1> QED BY <1>1, <1>2, <1>3, <1>4

\* The directories on the way to a path, and the way with the path itself.
WayTo(w) == { SubSeq(w, 1, n) : n \in 1..Len(w) }

LEMMA WayIs ==
    ASSUME NEW w \in Keys, NEW x
    PROVE  /\ x \in DirsTo(w) <=> x \in Keys /\ Under(x, w) /\ x # w
           /\ x \in WayTo(w) <=> x \in Keys /\ Under(x, w) /\ x # <<>>
<1>1. Len(w) \in Nat /\ <<>> \in Keys /\ Len(<<>>) = 0 /\ \A y \in Keys : Len(y) = 0 => y = <<>>
  BY LenProperties, EmptySeq DEF Keys
<1>2. ASSUME NEW n \in 0..Len(w)
      PROVE  /\ SubSeq(w, 1, n) \in Keys /\ Len(SubSeq(w, 1, n)) = n /\ Under(SubSeq(w, 1, n), w)
  <2> DEFINE y == SubSeq(w, 1, n)
  <2>1. y \in Keys /\ Len(y) = n /\ \A i \in 1..n : y[i] = w[i]
    BY PrefixNames
  <2> HIDE DEF y
  <2>2. Len(y) <= Len(w) /\ \A i \in 1..Len(y) : y[i] = w[i]
    BY <1>1, <2>1
  <2>3. Under(y, w)
    BY <2>1, <2>2, UnderIs
  <2> QED BY <2>1, <2>3 DEF y
<1>3. ASSUME x \in Keys, Under(x, w) PROVE Len(x) \in 0..Len(w) /\ x = SubSeq(w, 1, Len(x))
  <2>1. Len(x) \in 0..Len(w) /\ \A i \in 1..Len(x) : x[i] = w[i]
    BY <1>3, UnderIs
  <2> DEFINE n == Len(x)
             y == SubSeq(w, 1, n)
  <2>2. y \in Keys /\ Len(y) = n /\ \A i \in 1..n : y[i] = w[i]
    BY <2>1, PrefixNames
  <2> HIDE DEF y
  <2>3. x = y
    BY <1>3, <2>1, <2>2, SamePath
  <2> QED BY <2>1, <2>3 DEF y
<1>4. ASSUME x \in DirsTo(w) PROVE x \in Keys /\ Under(x, w) /\ x # w
  <2>1. PICK n \in 0..(Len(w) - 1) : x = SubSeq(w, 1, n)
    BY <1>4 DEF DirsTo
  <2>2. n \in 0..Len(w) /\ n # Len(w)
    BY <1>1
  <2> QED BY <1>2, <2>1, <2>2
<1>5. ASSUME x \in Keys, Under(x, w), x # w PROVE x \in DirsTo(w)
  <2>1. Len(x) \in 0..Len(w) /\ x = SubSeq(w, 1, Len(x)) /\ Len(x) # Len(w)
    BY <1>3, <1>5, UnderOrder
  <2>2. Len(x) \in 0..(Len(w) - 1)
    BY <1>1, <2>1
  <2> QED BY <2>1, <2>2 DEF DirsTo
<1>6. ASSUME x \in WayTo(w) PROVE x \in Keys /\ Under(x, w) /\ x # <<>>
  <2>1. PICK n \in 1..Len(w) : x = SubSeq(w, 1, n)
    BY <1>6 DEF WayTo
  <2>2. n \in 0..Len(w) /\ n # 0
    BY <1>1
  <2> QED BY <1>1, <1>2, <2>1, <2>2
<1>7. ASSUME x \in Keys, Under(x, w), x # <<>> PROVE x \in WayTo(w)
  <2>1. Len(x) \in 0..Len(w) /\ x = SubSeq(w, 1, Len(x)) /\ Len(x) # 0
    BY <1>1, <1>3, <1>7
  <2>2. Len(x) \in 1..Len(w)
    BY <1>1, <2>1
  <2> QED BY <2>1, <2>2 DEF WayTo
<1> QED BY <1>4, <1>5, <1>6, <1>7

LEMMA WayParts ==
    ASSUME NEW w \in Keys \ {<<>>}
    PROVE  /\ w \in WayTo(w) /\ w \notin DirsTo(w) /\ <<>> \in DirsTo(w)
           /\ \A x : x \in WayTo(w) <=> x = w \/ (x \in DirsTo(w) /\ x # <<>>)
           /\ \A x \in DirsTo(w) : DirsTo(x) \subseteq DirsTo(w) /\ x \in Keys
<1>1. Under(w, w) /\ <<>> \in Keys
  BY UnderItself, EmptySeq DEF Keys
<1>2. Under(<<>>, w)
  <2>1. Len(<<>>) = 0 /\ Len(w) \in Nat
    BY <1>1, UnderIs
  <2> QED BY <1>1, <2>1, UnderIs
<1>3. ASSUME NEW x \in DirsTo(w), NEW y \in DirsTo(x) PROVE y \in DirsTo(w)
  <2>1. x \in Keys /\ Under(x, w) /\ x # w
    BY WayIs
  <2>2. y \in Keys /\ Under(y, x) /\ y # x
    BY <2>1, WayIs
  <2>3. Under(y, w)
    BY <2>1, <2>2, UnderOrder
  <2>4. y # w
    BY <2>1, <2>2, UnderOrder
  <2> QED BY <2>2, <2>3, <2>4, WayIs
<1> QED BY <1>1, <1>2, <1>3, WayIs

LEMMA ParentIs ==
    ASSUME NEW w \in Keys \ {<<>>}
    PROVE  /\ Front(w) \in DirsTo(w) /\ Front(w) \in Keys /\ Append(Front(w), Last(w)) = w
           /\ \A x \in DirsTo(w) : x = Front(w) \/ x \in DirsTo(Front(w))
<1>1. /\ Last(w) \in Entry /\ Front(w) \in Keys /\ Len(w) \in Nat \ {0}
      /\ Len(Front(w)) = Len(w) - 1
  BY LastIsEntry
<1>2. PICK n \in 0..Len(w) : n = Len(w) - 1
  <2>1. Len(w) - 1 \in 0..Len(w)
    BY <1>1
  <2> QED BY <2>1
<1>3. Front(w) = SubSeq(w, 1, n)
  BY <1>2 DEF Front
<1>4. \A i \in 1..n : Front(w)[i] = w[i]
  BY <1>3, PrefixNames
<1>5. Front(w) \in DirsTo(w)
  BY <1>2, <1>3 DEF DirsTo
<1>6. Append(Front(w), Last(w)) = w
  <2> DEFINE a == Append(Front(w), Last(w))
  <2>1. /\ a \in Keys /\ Len(a) = n + 1 /\ a[n + 1] = Last(w)
        /\ \A i \in 1..n : a[i] = Front(w)[i]
    <3>1. Front(w) \in Seq(Entry) /\ Len(Front(w)) = n
      BY <1>1, <1>2 DEF Keys
    <3>2. /\ a \in Seq(Entry) /\ Len(a) = Len(Front(w)) + 1
          /\ \A i \in 1..Len(Front(w)) : a[i] = Front(w)[i]
          /\ a[Len(Front(w)) + 1] = Last(w)
      BY <1>1, <3>1, AppendProperties
    <3> QED BY <3>1, <3>2 DEF Keys
  <2>2. n + 1 = Len(w)
    BY <1>1, <1>2
  <2>3. w[n + 1] = Last(w)
    BY <2>2 DEF Last
  <2> HIDE DEF a
  <2>4. ASSUME NEW i \in 1..Len(w) PROVE a[i] = w[i]
    <3>1. i \in 1..n \/ i = n + 1
      BY <2>2
    <3> QED BY <1>4, <2>1, <2>3, <3>1
  <2>5. a = w
    BY <2>1, <2>2, <2>4, SamePath
  <2> QED BY <2>5 DEF a
<1>7. ASSUME NEW x \in DirsTo(w), x # Front(w) PROVE x \in DirsTo(Front(w))
  <2>1. x \in Keys /\ Under(x, w) /\ x # w /\ Under(Front(w), w)
    BY <1>1, <1>5, WayIs
  <2>2. Under(x, Front(w)) \/ Under(Front(w), x)
    BY <1>1, <2>1, UnderOrder
  <2>3. CASE Under(x, Front(w))
    BY <1>1, <1>7, <2>1, <2>3, WayIs
  <2>4. CASE Under(Front(w), x)
    <3>1. Len(x) \in Nat /\ Len(Front(w)) <= Len(x) /\ Len(x) <= Len(w)
      BY <1>1, <2>1, <2>4, UnderIs
    <3>2. Len(x) # Len(w) /\ Len(x) # Len(Front(w))
      BY <1>1, <1>7, <2>1, <2>4, UnderOrder
    <3> QED BY <1>1, <3>1, <3>2
  <2> QED BY <2>2, <2>3, <2>4
<1> QED BY <1>1, <1>5, <1>6, <1>7

LEMMA RebaseNames ==
    ASSUME NEW p \in Keys, NEW old \in Keys, NEW new \in Keys, Under(old, p)
    PROVE  /\ \A i \in 1..Len(new) : Rebase(p, old, new)[i] = new[i]
           /\ \A i \in 1..(Len(p) - Len(old)) : Rebase(p, old, new)[Len(new) + i] = p[Len(old) + i]
           /\ new \in Seq(Names) /\ p \in Seq(Names) => Rebase(p, old, new) \in Seq(Names)
<1>1. /\ Len(p) \in Nat /\ Len(old) \in Nat /\ Len(new) \in Nat /\ Len(old) <= Len(p)
  BY UnderIs
<1> DEFINE rest == SubSeq(p, Len(old) + 1, Len(p))
           there == new \o rest
<1>2. ASSUME NEW S, p \in Seq(S)
      PROVE  /\ rest \in Seq(S) /\ Len(rest) = Len(p) - Len(old)
             /\ \A i \in 1..(Len(p) - Len(old)) : rest[i] = p[Len(old) + i]
  <2>1. \A i \in (Len(old) + 1)..Len(p) : p[i] \in S
    BY <1>1, <1>2, ElementOfSeq
  <2>2. /\ rest \in Seq(S)
        /\ Len(rest) = IF Len(old) + 1 <= Len(p) THEN Len(p) - (Len(old) + 1) + 1 ELSE 0
        /\ \A i \in 1..(Len(p) - (Len(old) + 1) + 1) : rest[i] = p[(Len(old) + 1) + i - 1]
    BY <1>1, <2>1, SubSeqProperties
  <2> QED BY <1>1, <2>2
<1>3. p \in Seq(Entry) /\ new \in Seq(Entry)
  BY DEF Keys
<1>4. /\ rest \in Seq(Entry) /\ Len(rest) = Len(p) - Len(old)
      /\ \A i \in 1..(Len(p) - Len(old)) : rest[i] = p[Len(old) + i]
  BY <1>2, <1>3
<1>5. new \in Seq(Names) /\ p \in Seq(Names) => there \in Seq(Names)
  <2> SUFFICES ASSUME new \in Seq(Names), p \in Seq(Names) PROVE there \in Seq(Names)
    OBVIOUS
  <2>1. rest \in Seq(Names)
    BY <1>2
  <2> HIDE DEF rest
  <2> QED BY <2>1, ConcatProperties
<1> HIDE DEF rest
<1>6. \A i \in 1..(Len(new) + Len(rest)) :
          there[i] = IF i <= Len(new) THEN new[i] ELSE rest[i - Len(new)]
  BY <1>3, <1>4, ConcatProperties
<1>7. there = Rebase(p, old, new)
  BY DEF Rebase, rest
<1> HIDE DEF there
<1>8. ASSUME NEW i \in 1..Len(new) PROVE there[i] = new[i]
  BY <1>1, <1>4, <1>6
<1>9. ASSUME NEW i \in 1..(Len(p) - Len(old)) PROVE there[Len(new) + i] = p[Len(old) + i]
  <2>1. Len(new) + i \in 1..(Len(new) + Len(rest)) /\ ~ (Len(new) + i <= Len(new))
        /\ (Len(new) + i) - Len(new) = i
    BY <1>1, <1>4
  <2> QED BY <1>4, <1>6, <2>1
<1> QED BY <1>5, <1>7, <1>8, <1>9

\* What is below a path is below the new one when it has moved.
LEMMA RebaseOrder ==
    ASSUME NEW p \in Keys, NEW old \in Keys, NEW new \in Keys, Under(old, p)
    PROVE  /\ Under(new, Rebase(p, old, new))
           /\ Rebase(old, old, new) = new
           /\ \A x \in Keys : Under(old, x) /\ Under(x, p)
                                 => Under(Rebase(x, old, new), Rebase(p, old, new))
<1>0. Len(p) \in Nat /\ Len(old) \in Nat /\ Len(new) \in Nat /\ Len(old) <= Len(p)
  BY UnderIs
<1>1. ASSUME NEW x \in Keys, Under(old, x)
      PROVE  /\ Rebase(x, old, new) \in Keys /\ Len(x) \in Nat /\ Len(old) <= Len(x)
             /\ Len(Rebase(x, old, new)) = Len(new) + (Len(x) - Len(old))
             /\ \A i \in 1..Len(new) : Rebase(x, old, new)[i] = new[i]
             /\ \A i \in 1..(Len(x) - Len(old)) : Rebase(x, old, new)[Len(new) + i] = x[Len(old) + i]
  BY <1>1, RebaseBack, RebaseNames, UnderIs
<1>2. Under(new, Rebase(p, old, new))
  <2> DEFINE there == Rebase(p, old, new)
  <2>1. /\ there \in Keys /\ Len(there) = Len(new) + (Len(p) - Len(old))
        /\ \A i \in 1..Len(new) : there[i] = new[i]
    BY <1>1
  <2> HIDE DEF there
  <2>2. Len(new) <= Len(there)
    BY <1>0, <2>1
  <2>3. \A i \in 1..Len(new) : new[i] = there[i]
    BY <2>1
  <2>4. Under(new, there)
    BY <2>1, <2>2, <2>3, UnderIs
  <2> QED BY <2>4 DEF there
<1>3. Rebase(old, old, new) = new
  <2> DEFINE there == Rebase(old, old, new)
  <2>1. /\ there \in Keys /\ Len(there) = Len(new) + (Len(old) - Len(old))
        /\ \A i \in 1..Len(new) : there[i] = new[i]
    BY <1>1, UnderItself
  <2> HIDE DEF there
  <2>2. Len(there) = Len(new)
    BY <1>0, <2>1
  <2>3. there = new
    BY <2>1, <2>2, SamePath
  <2> QED BY <2>3 DEF there
<1>4. ASSUME NEW x \in Keys, Under(old, x), Under(x, p)
      PROVE  Under(Rebase(x, old, new), Rebase(p, old, new))
  <2> DEFINE a == Rebase(x, old, new)
             b == Rebase(p, old, new)
  <2>1. /\ a \in Keys /\ Len(x) \in Nat /\ Len(old) <= Len(x)
        /\ Len(a) = Len(new) + (Len(x) - Len(old))
        /\ \A i \in 1..Len(new) : a[i] = new[i]
        /\ \A i \in 1..(Len(x) - Len(old)) : a[Len(new) + i] = x[Len(old) + i]
    BY <1>1, <1>4
  <2>2. /\ b \in Keys /\ Len(b) = Len(new) + (Len(p) - Len(old))
        /\ \A i \in 1..Len(new) : b[i] = new[i]
        /\ \A i \in 1..(Len(p) - Len(old)) : b[Len(new) + i] = p[Len(old) + i]
    BY <1>1
  <2>3. Len(x) <= Len(p) /\ \A i \in 1..Len(x) : x[i] = p[i]
    BY <1>4, UnderIs
  <2> HIDE DEF a, b
  <2>4. Len(a) <= Len(b)
    BY <1>0, <2>1, <2>2, <2>3
  <2>5. ASSUME NEW i \in 1..Len(a) PROVE a[i] = b[i]
    <3>1. CASE i <= Len(new)
      <4>1. i \in 1..Len(new)
        BY <1>0, <2>1, <3>1
      <4> QED BY <2>1, <2>2, <4>1
    <3>2. CASE ~ (i <= Len(new))
      <4>1. PICK j \in Int : j = i - Len(new)
        <5>1. i \in Int /\ Len(new) \in Int
          BY <1>0
        <5>2. i - Len(new) \in Int
          BY <5>1
        <5> QED BY <5>2
      <4>2. j \in 1..(Len(x) - Len(old)) /\ i = Len(new) + j
        BY <1>0, <2>1, <3>2, <4>1
      <4>3. j \in 1..(Len(p) - Len(old)) /\ Len(old) + j \in 1..Len(x)
        BY <1>0, <2>1, <2>3, <4>2
      <4>4. a[i] = x[Len(old) + j]
        BY <2>1, <4>2
      <4>5. b[i] = p[Len(old) + j]
        BY <2>2, <4>2, <4>3
      <4>6. x[Len(old) + j] = p[Len(old) + j]
        BY <2>3, <4>3
      <4> QED BY <4>4, <4>5, <4>6
    <3> QED BY <3>1, <3>2
  <2>6. Under(a, b)
    BY <2>1, <2>2, <2>4, <2>5, UnderIs
  <2> QED BY <2>6 DEF a, b
<1> QED BY <1>2, <1>3, <1>4

-----------------------------------------------------------------------------
(* Files of the archive in the map.                                         *)

\* A file of the archive that the map still has as it was mounted, with every
\* directory on the way under its own inode and entered in its parent.
FromMap(m, w) ==
    \A x \in WayTo(w) :
        /\ x \in DOMAIN m.path_to_ino /\ m.path_to_ino[x] = x
        /\ x \in DOMAIN m.nodes /\ m.nodes[x].dir = (x # w)
        /\ Last(x) \in DOMAIN m.nodes[Front(x)].children
        /\ m.nodes[Front(x)].children[Last(x)] = x

LEMMA NumberIsNoKey == ASSUME NEW k \in Nat PROVE <<k>> \notin Keys
<1> SUFFICES ASSUME <<k>> \in Keys PROVE FALSE
  OBVIOUS
<1>1. <<k>> \in Seq(Entry)
  BY DEF Keys
<1>2. Len(<<k>>) = 1 /\ <<k>>[1] = k
  OBVIOUS
<1>3. k \in Entry
  BY <1>1, <1>2, ElementOfSeq
<1> QED BY <1>3, NamesAssumption DEF Entry

LEMMA ParentNode ==
    ASSUME NEW m, MapInv(m), NEW w \in Keys \ {<<>>}, FromMap(m, w), NEW x \in WayTo(w)
    PROVE  /\ x \in Keys \ {<<>>} /\ Front(x) \in Keys /\ Front(x) \in DOMAIN m.nodes
           /\ Front(x) = <<>> \/ Front(x) \in WayTo(w)
<1>1. x \in Keys \ {<<>>} /\ (x = w \/ x \in DirsTo(w))
  BY WayIs, WayParts
<1>2. Front(x) \in DirsTo(x) /\ Front(x) \in Keys
  BY <1>1, ParentIs
<1>3. Front(x) \in DirsTo(w)
  BY <1>1, <1>2, WayParts
<1>4. Front(x) = <<>> \/ Front(x) \in WayTo(w)
  BY <1>3, WayParts
<1>5. CASE Front(x) = <<>>
  BY <1>1, <1>2, <1>5 DEF MapInv, RootNodeInv, ROOT_INODE
<1>6. CASE Front(x) \in WayTo(w)
  BY <1>1, <1>2, <1>6 DEF FromMap
<1> QED BY <1>4, <1>5, <1>6

LEMMA AddNodeLeaves ==
    ASSUME NEW m, MapInv(m), NEW w \in Keys \ {<<>>}, FromMap(m, w),
           NEW path \in Keys \ {<<>>}, path \notin WayTo(w),
           NEW parent, parent \notin Keys \/ parent = Front(path), NEW node
    PROVE  /\ FromMap(AddNode(m, path, parent, node), w)
           /\ AddNode(m, path, parent, node).nodes[w].data = m.nodes[w].data
<1> DEFINE k == m.next_inode
           nodes == With(m.nodes, <<k>>, node)
           entered == [nodes EXCEPT ![parent].children = With(@, Last(path), <<k>>)]
           new == AddNode(m, path, parent, node)
<1>1. /\ new.nodes = IF m.nodes[parent].dir THEN entered ELSE nodes
      /\ new.path_to_ino = With(m.path_to_ino, path, <<k>>)
  BY DEF AddNode
<1>2. k \in Nat /\ <<k>> \notin Keys
  BY NumberIsNoKey DEF MapInv
<1>3. ASSUME NEW x \in Keys, x \in DOMAIN m.nodes
      PROVE  /\ x \in DOMAIN new.nodes /\ new.nodes[x].dir = m.nodes[x].dir
             /\ new.nodes[x].data = m.nodes[x].data
             /\ \A n \in DOMAIN m.nodes[x].children :
                   x # parent \/ n # Last(path) =>
                      /\ n \in DOMAIN new.nodes[x].children
                      /\ new.nodes[x].children[n] = m.nodes[x].children[n]
  <2>1. x \in DOMAIN nodes /\ nodes[x] = m.nodes[x] /\ DOMAIN m.nodes[x] = {"dir", "data", "children"}
    BY <1>2, <1>3 DEF With, MapInv, NodesInv
  <2>2. DOMAIN entered = DOMAIN nodes
    OBVIOUS
  <2> HIDE DEF nodes
  <2>3. CASE x # parent
    <3>1. entered[x] = nodes[x]
      BY <2>1, <2>3
    <3> HIDE DEF entered
    <3>2. x \in DOMAIN new.nodes /\ new.nodes[x] = m.nodes[x]
      BY <1>1, <2>1, <2>2, <3>1
    <3> HIDE DEF new
    <3> QED BY <3>2
  <2>4. CASE x = parent
    <3>1. entered[x] = [nodes[x] EXCEPT !.children = With(nodes[x].children, Last(path), <<k>>)]
      BY <2>1, <2>4
    <3>2. /\ entered[x].dir = m.nodes[x].dir /\ entered[x].data = m.nodes[x].data
          /\ entered[x].children = With(m.nodes[x].children, Last(path), <<k>>)
      <4> HIDE DEF entered
      <4> QED BY <2>1, <3>1
    <3> HIDE DEF entered
    <3>3. \A n \in DOMAIN m.nodes[x].children : n # Last(path) =>
              /\ n \in DOMAIN entered[x].children
              /\ entered[x].children[n] = m.nodes[x].children[n]
      BY <3>2 DEF With
    <3>4. x \in DOMAIN new.nodes /\ (new.nodes[x] = entered[x] \/ new.nodes[x] = m.nodes[x])
      BY <1>1, <2>1, <2>2
    <3> HIDE DEF new
    <3> QED BY <2>4, <3>2, <3>3, <3>4
  <2> QED BY <2>3, <2>4
<1> HIDE DEF new, entered, nodes
<1>4. ASSUME NEW x \in WayTo(w)
      PROVE  /\ x \in DOMAIN new.path_to_ino /\ new.path_to_ino[x] = x
             /\ x \in DOMAIN new.nodes /\ new.nodes[x].dir = (x # w)
             /\ Last(x) \in DOMAIN new.nodes[Front(x)].children
             /\ new.nodes[Front(x)].children[Last(x)] = x
  <2>1. /\ x \in DOMAIN m.path_to_ino /\ m.path_to_ino[x] = x
        /\ x \in DOMAIN m.nodes /\ m.nodes[x].dir = (x # w)
        /\ Last(x) \in DOMAIN m.nodes[Front(x)].children
        /\ m.nodes[Front(x)].children[Last(x)] = x
    BY DEF FromMap
  <2>2. x \in Keys \ {<<>>} /\ Front(x) \in Keys /\ Front(x) \in DOMAIN m.nodes
    BY ParentNode
  <2>3. x \in DOMAIN new.path_to_ino /\ new.path_to_ino[x] = x
    BY <1>1, <2>1 DEF With
  <2>4. Front(x) # parent \/ Last(x) # Last(path)
    <3> SUFFICES ASSUME Front(x) = parent, Last(x) = Last(path) PROVE FALSE
      OBVIOUS
    <3>1. parent = Front(path)
      BY <2>2
    <3>2. Append(Front(x), Last(x)) = x /\ Append(Front(path), Last(path)) = path
      BY <2>2, ParentIs
    <3>3. x = path
      BY <3>1, <3>2
    <3> QED BY <3>3
  <2>5. x \in DOMAIN new.nodes /\ new.nodes[x].dir = (x # w)
    BY <1>3, <2>1, <2>2
  <2> QED BY <1>3, <2>1, <2>2, <2>3, <2>4, <2>5
<1>5. FromMap(new, w)
  BY <1>4 DEF FromMap
<1>6. w \in DOMAIN m.nodes
  BY WayParts DEF FromMap
<1> QED BY <1>3, <1>5, <1>6 DEF new

LEMMA AddFileLeaves ==
    ASSUME NEW m, MapInv(m), NEW w \in Keys \ {<<>>}, FromMap(m, w),
           NEW p \in Paths, p \notin WayTo(w), NEW is_dir
    PROVE  /\ FromMap(add_file_at_path(m, p, is_dir), w)
           /\ add_file_at_path(m, p, is_dir).nodes[w].data = m.nodes[w].data
<1>1. CASE p \in DOMAIN m.path_to_ino
  BY <1>1 DEF add_file_at_path
<1>2. CASE p \notin DOMAIN m.path_to_ino
  <2> DEFINE dir == Front(p)
             made == get_or_create_dir(m, dir)
             kids == m.nodes[ROOT_INODE].children
             node == IF is_dir THEN Directory(<<>>) ELSE File(<<>>)
  <2>1. p \in Keys \ {<<>>} /\ dir \in {<<>>} \cup { <<n>> : n \in Entry }
    BY PathsAreKeys, PathFront
  <2>2. add_file_at_path(m, p, is_dir) = AddNode(made.map, p, made.ino, node)
    BY <1>2 DEF add_file_at_path
  <2>3. /\ dir = <<>> => made.map = m /\ made.ino = ROOT_INODE
        /\ \A n \in Entry : dir = <<n>> =>
              \/ n \in DOMAIN kids /\ made.map = m /\ made.ino = kids[n]
              \/ /\ n \notin DOMAIN kids /\ made.ino = << m.next_inode >>
                 /\ made.map = AddNode(m, dir, ROOT_INODE, Directory(<<>>))
        /\ MapInv(made.map)
    BY <2>1, DirMade
  <2>4. m.next_inode \in Nat
        /\ \A n \in DOMAIN kids : kids[n] = <<n>> \/ \E j \in Nat : kids[n] = <<j>>
    BY DEF MapInv, RootNodeInv
  <2>5. ROOT_INODE = <<>>
    BY DEF ROOT_INODE
  <2> HIDE DEF made, kids, dir, node
  <2>6. made.ino = dir \/ made.ino \notin Keys
    <3>1. CASE dir = <<>>
      BY <2>3, <2>5, <3>1
    <3>2. ASSUME NEW n \in Entry, dir = <<n>> PROVE made.ino = dir \/ made.ino \notin Keys
      <4>1. CASE n \in DOMAIN kids /\ made.ino = kids[n]
        <5>1. CASE kids[n] = <<n>>
          BY <3>2, <4>1, <5>1
        <5>2. CASE \E j \in Nat : kids[n] = <<j>>
          BY <4>1, <5>2, NumberIsNoKey
        <5> QED BY <2>4, <4>1, <5>1, <5>2
      <4>2. CASE made.ino = << m.next_inode >>
        BY <2>4, <4>2, NumberIsNoKey
      <4> QED BY <2>3, <3>2, <4>1, <4>2
    <3> QED BY <2>1, <3>1, <3>2
  <2>7. FromMap(made.map, w) /\ made.map.nodes[w].data = m.nodes[w].data
    <3>1. CASE made.map = m
      BY <3>1
    <3>2. ASSUME NEW n \in Entry, dir = <<n>>, n \notin DOMAIN kids,
                 made.map = AddNode(m, dir, ROOT_INODE, Directory(<<>>))
          PROVE  FromMap(made.map, w) /\ made.map.nodes[w].data = m.nodes[w].data
      <4>1. dir \in Keys \ {<<>>} /\ Front(dir) = <<>> /\ Last(dir) = n
        <5>1. dir \in Keys \ {<<>>} /\ Len(dir) = 1
          BY <3>2 DEF Keys
        <5>2. SubSeq(dir, 1, Len(dir) - 1) = <<>>
          <6>1. Len(dir) - 1 = 0 /\ SubSeq(dir, 1, 0) = <<>>
            BY <5>1, SubSeqEmpty
          <6> QED BY <6>1
        <5>3. dir[Len(dir)] = n
          BY <3>2, <5>1
        <5> QED BY <5>1, <5>2, <5>3 DEF Front, Last
      <4>2. dir \notin WayTo(w)
        BY <2>5, <3>2, <4>1 DEF FromMap, kids
      <4>3. ROOT_INODE = Front(dir)
        BY <2>5, <4>1
      <4>4. PICK parent, empty : parent = ROOT_INODE /\ empty = Directory(<<>>)
        OBVIOUS
      <4>5. parent \notin Keys \/ parent = Front(dir)
        BY <4>3, <4>4
      <4>6. /\ FromMap(AddNode(m, dir, parent, empty), w)
            /\ AddNode(m, dir, parent, empty).nodes[w].data = m.nodes[w].data
        BY <4>1, <4>2, <4>5, AddNodeLeaves
      <4> QED BY <3>2, <4>4, <4>6
    <3> QED BY <2>1, <2>3, <3>1, <3>2
  <2>8. made.ino \notin Keys \/ made.ino = Front(p)
    BY <2>6 DEF dir
  <2> QED BY <2>1, <2>2, <2>3, <2>7, <2>8, AddNodeLeaves
<1> QED BY <1>1, <1>2

LEMMA RemoveLeaves ==
    ASSUME NEW m, MapInv(m), NEW w, FromMap(m, w), NEW p, p \notin WayTo(w)
    PROVE  /\ FromMap(remove_path(m, p), w)
           /\ remove_path(m, p).nodes[w].data = m.nodes[w].data
<1>1. CASE p \notin DOMAIN m.path_to_ino
  BY <1>1 DEF remove_path
<1>2. CASE p \in DOMAIN m.path_to_ino
  <2> DEFINE new == remove_path(m, p)
  <2>1. /\ new.nodes = m.nodes
        /\ new.path_to_ino = Without(m.path_to_ino, {p})
    BY <1>2 DEF remove_path, MapInv
  <2> HIDE DEF new
  <2>2. FromMap(new, w)
    BY <2>1 DEF FromMap, Without
  <2> QED BY <2>1, <2>2 DEF new
<1> QED BY <1>1, <1>2

LEMMA RenameLeaves ==
    ASSUME NEW m, MapInv(m), NEW p \in Keys, p \in DOMAIN m.path_to_ino, NEW q \in Keys,
           NEW w \in Keys \ {<<>>}, FromMap(m, w), ~ Under(p, w), ~ Under(q, w)
    PROVE  /\ FromMap(rename_path(m, p, q), w)
           /\ rename_path(m, p, q).nodes[w].data = m.nodes[w].data
<1> DEFINE new == rename_path(m, p, q)
           moved == { x \in DOMAIN m.path_to_ino : Under(p, x) }
           target == { Rebase(x, p, q) : x \in moved }
<1>1. /\ new.nodes = m.nodes
      /\ new.path_to_ino =
            [x \in (DOMAIN m.path_to_ino \ moved) \cup target |->
                IF x \in target THEN m.path_to_ino[Rebase(x, q, p)] ELSE m.path_to_ino[x]]
  BY DEF rename_path, MapInv
<1>2. ASSUME NEW x \in WayTo(w)
      PROVE  x \in DOMAIN new.path_to_ino /\ new.path_to_ino[x] = m.path_to_ino[x]
  <2>1. x \in Keys /\ Under(x, w) /\ x \in DOMAIN m.path_to_ino
    BY WayIs DEF FromMap
  <2>2. ~ Under(p, x) /\ ~ Under(q, x)
    BY <2>1, UnderOrder
  <2>3. ASSUME NEW y \in moved, x = Rebase(y, p, q) PROVE FALSE
    <3>1. y \in Keys /\ Under(p, y)
      BY DEF MapInv, InverseInv
    <3> QED BY <2>2, <2>3, <3>1, RebaseOrder
  <2>4. x \notin moved /\ x \notin target
    BY <2>2, <2>3
  <2> HIDE DEF moved, target, new
  <2> QED BY <1>1, <2>1, <2>4
<1> HIDE DEF new
<1>3. FromMap(new, w)
  BY <1>1, <1>2 DEF FromMap
<1> QED BY <1>1, <1>3 DEF new

\* No file is the directory of another one.
PrefixFree(manifest) == \A p, q \in DOMAIN manifest : Under(p, q) => p = q

LEMMA MountedShows ==
    ASSUME NEW manifest, DOMAIN manifest \subseteq Keys \ {<<>>}, PrefixFree(manifest),
           NEW hostDirs \in SUBSET Keys, NEW hostFiles \in SUBSET (Keys \ {<<>>}),
           NEW w \in DOMAIN manifest
    PROVE  /\ FromMap(Mounted(manifest, hostDirs, hostFiles), w)
           /\ Mounted(manifest, hostDirs, hostFiles).nodes[w].data = manifest[w]
<1> DEFINE all == DOMAIN manifest \cup hostDirs \cup hostFiles
           ds == (Ancestors(all) \cup hostDirs) \ DOMAIN manifest
           fs == (DOMAIN manifest \cup hostFiles) \ ds
           paths == ds \cup fs \cup { ROOT_INODE }
           children(p) == { q \in paths : Len(q) = Len(p) + 1 /\ Under(p, q) }
           node(p) ==
               IF p \in fs
                  THEN File(IF p \in DOMAIN manifest THEN manifest[p] ELSE <<>>)
                  ELSE Directory([n \in { Last(q) : q \in children(p) } |-> Append(p, n)])
           new == Mounted(manifest, hostDirs, hostFiles)
<1>1. /\ new.nodes = [p \in paths |-> node(p)]
      /\ new.path_to_ino = [p \in paths \ {ROOT_INODE} |-> p]
  BY DEF Mounted
<1>2. w \in Keys \ {<<>>} /\ w \in fs /\ ROOT_INODE = <<>> /\ <<>> \notin fs
  BY DEF ROOT_INODE
<1>3. ASSUME NEW x \in DirsTo(w) PROVE x \in Keys /\ x \in paths /\ x \notin fs
  <2>1. x \in Keys /\ Under(x, w) /\ x # w
    BY <1>2, WayIs
  <2>2. x \in Ancestors(all)
    BY DEF Ancestors, DirsTo
  <2>3. x \notin DOMAIN manifest
    BY <2>1 DEF PrefixFree
  <2> QED BY <2>1, <2>2, <2>3
<1>4. ASSUME NEW x \in WayTo(w)
      PROVE  /\ x \in Keys \ {<<>>} /\ x \in paths /\ (x \in fs <=> x = w)
             /\ Front(x) \in paths /\ Front(x) \notin fs /\ x \in children(Front(x))
  <2>1. x \in Keys \ {<<>>} /\ Under(x, w) /\ (x = w \/ x \in DirsTo(w))
    BY <1>2, WayIs, WayParts
  <2>2. Front(x) \in DirsTo(w)
    <3>1. Front(x) \in DirsTo(x)
      BY <2>1, ParentIs
    <3> QED BY <1>2, <2>1, <3>1, WayParts
  <2>3. x \in paths /\ (x \in fs <=> x = w)
    BY <1>2, <1>3, <2>1
  <2>4. Len(x) = Len(Front(x)) + 1 /\ Under(Front(x), x)
    <3>1. Len(x) \in Nat \ {0} /\ Len(Front(x)) = Len(x) - 1 /\ Front(x) \in DirsTo(x)
      BY <2>1, LastIsEntry, ParentIs
    <3> QED BY <2>1, <3>1, WayIs
  <2> QED BY <1>3, <2>1, <2>2, <2>3, <2>4
<1>5. ASSUME NEW x \in paths, x \notin fs, NEW y \in children(x)
      PROVE  Last(y) \in DOMAIN node(x).children /\ node(x).children[Last(y)] = Append(x, Last(y))
  <2> DEFINE kids == [n \in { Last(q) : q \in children(x) } |-> Append(x, n)]
  <2>1. node(x) = Directory(kids)
    BY <1>5
  <2>2. Last(y) \in DOMAIN kids /\ kids[Last(y)] = Append(x, Last(y))
    OBVIOUS
  <2> HIDE DEF kids, node
  <2> QED BY <2>1, <2>2 DEF Directory
<1>6. \A x \in paths : node(x).dir = (x \notin fs)
  BY DEF File, Directory
<1>7. node(w).data = manifest[w]
  BY <1>2 DEF File
<1> HIDE DEF new, paths, node, children, fs
<1>8. ASSUME NEW x \in WayTo(w)
      PROVE  /\ x \in DOMAIN new.path_to_ino /\ new.path_to_ino[x] = x
             /\ x \in DOMAIN new.nodes /\ new.nodes[x].dir = (x # w)
             /\ Last(x) \in DOMAIN new.nodes[Front(x)].children
             /\ new.nodes[Front(x)].children[Last(x)] = x
  <2>1. x \in DOMAIN new.path_to_ino /\ new.path_to_ino[x] = x
    BY <1>1, <1>2, <1>4
  <2>2. x \in DOMAIN new.nodes /\ new.nodes[x].dir = (x # w)
    BY <1>1, <1>4, <1>6
  <2>3. Last(x) \in DOMAIN node(Front(x)).children
        /\ node(Front(x)).children[Last(x)] = Append(Front(x), Last(x))
    BY <1>4, <1>5
  <2>4. new.nodes[Front(x)] = node(Front(x))
    BY <1>1, <1>4
  <2>5. Append(Front(x), Last(x)) = x
    BY <1>4, ParentIs
  <2> QED BY <2>1, <2>2, <2>3, <2>4, <2>5
<1>9. FromMap(new, w)
  BY <1>8 DEF FromMap
<1>10. w \in paths
  BY <1>2, <1>4, WayParts
<1> QED BY <1>1, <1>7, <1>9, <1>10 DEF new

-----------------------------------------------------------------------------
(* What programs wrote.                                                     *)

\* The overlay is a tree: what is in it, or whited out, has its directories, and
\* no path is a file and a directory.
Tree(f, d, k) ==
    /\ <<>> \in d /\ d \cap DOMAIN f = {}
    /\ \A p \in DOMAIN f \cup d \cup k : DirsTo(p) \subseteq d

\* What was written is in the archive, which a commit has packed, and nothing of
\* the overlay hides it.
FromArchive(f, d, m, packed, w, bytes) ==
    /\ w \in DOMAIN packed /\ packed[w] = bytes
    /\ m.nodes[w].data = bytes /\ FromMap(m, w)
    /\ w \notin d /\ WayTo(w) \cap DOMAIN f = {}

\* What was written is on the overlay or in the archive, and not whited out.
Kept(f, d, k, m, packed, wr) ==
    \A w \in DOMAIN wr :
        /\ w \in Seq(Names) \ {<<>>} /\ Len(w) <= Depth
        /\ WayTo(w) \cap k = {}
        /\ w \in DOMAIN f => f[w] = wr[w]
        /\ w \notin DOMAIN f => FromArchive(f, d, m, packed, w, wr[w])

LEMMA KindIs ==
    ASSUME NEW m, MapInv(m), NEW x, x = <<>> \/ x \in DOMAIN m.path_to_ino
    PROVE  IsDir(m, InodeAt(m, x)) <=>
               IF OnOverlay(x) THEN x \in dirs ELSE ~ is_file(m, InodeAt(m, x))
<1>1. get_path(m, InodeAt(m, x)) = x
  BY PathOfInode
<1> QED BY <1>1 DEF IsDir

\* A directory that a walk can go through.
Enterable(m, x) ==
    /\ x # <<>> => x \in DOMAIN m.path_to_ino /\ x \notin marks
    /\ IsDir(m, InodeAt(m, x))

LEMMA EnterableIsNoFile ==
    ASSUME NEW m, MapInv(m), Tree(files, dirs, marks), NEW x, Enterable(m, x)
    PROVE  x \notin DOMAIN files
<1>1. IF OnOverlay(x) THEN x \in dirs ELSE TRUE
  BY KindIs DEF Enterable
<1> QED BY <1>1 DEF OnOverlay, Tree

LEMMA FoundWay ==
    ASSUME NEW m, MapInv(m), NEW p \in Keys, Walk(m, p) # NoInode
    PROVE  /\ \A x \in DirsTo(p) : Enterable(m, x)
           /\ Walk(m, p) = InodeAt(m, p)
           /\ p # <<>> => p \in DOMAIN m.path_to_ino /\ p \notin marks
<1>1. /\ \A k \in 1..Len(p) : /\ SubSeq(p, 1, k) \in DOMAIN m.path_to_ino
                              /\ SubSeq(p, 1, k) \notin marks
      /\ \A k \in 0..(Len(p) - 1) : IsDir(m, InodeAt(m, SubSeq(p, 1, k)))
      /\ Walk(m, p) = InodeAt(m, p)
  BY WalkFinds
<1>2. ASSUME NEW x \in DirsTo(p) PROVE Enterable(m, x)
  <2>1. PICK k \in 0..(Len(p) - 1) : x = SubSeq(p, 1, k)
    BY DEF DirsTo
  <2>2. x # <<>> => k # 0
    BY <2>1, SubSeqEmpty
  <2>3. k # 0 => k \in 1..Len(p)
    BY LenProperties DEF Keys
  <2> QED BY <1>1, <2>1, <2>2, <2>3 DEF Enterable
<1>3. ASSUME p # <<>> PROVE p \in DOMAIN m.path_to_ino /\ p \notin marks
  <2>1. p \in WayTo(p)
    BY <1>3, WayParts
  <2> QED BY <1>1, <2>1 DEF WayTo
<1> QED BY <1>1, <1>2, <1>3

LEMMA ParentWay ==
    ASSUME MapInv(inodes), NEW p \in Keys \ {<<>>}, DirAt(Front(p))
    PROVE  \A x \in DirsTo(p) : Enterable(inodes, x)
<1>1. /\ Front(p) \in Keys /\ \A x \in DirsTo(p) : x = Front(p) \/ x \in DirsTo(Front(p))
  BY ParentIs
<1>2. /\ \A x \in DirsTo(Front(p)) : Enterable(inodes, x)
      /\ Walk(inodes, Front(p)) = InodeAt(inodes, Front(p))
      /\ Front(p) # <<>> => Front(p) \in DOMAIN inodes.path_to_ino /\ Front(p) \notin marks
  BY <1>1, FoundWay DEF DirAt, Exists
<1>3. Enterable(inodes, Front(p))
  BY <1>2 DEF DirAt, Enterable
<1> QED BY <1>1, <1>2, <1>3

LEMMA WayReaches ==
    ASSUME NEW m, MapInv(m), NEW p \in Keys, \A x \in DirsTo(p) : Enterable(m, x),
           p # <<>> => p \in DOMAIN m.path_to_ino /\ p \notin marks
    PROVE  Walk(m, p) = InodeAt(m, p) /\ Walk(m, p) # NoInode
<1>1. ASSUME NEW k \in 1..Len(p)
      PROVE  SubSeq(p, 1, k) \in DOMAIN m.path_to_ino /\ SubSeq(p, 1, k) \notin marks
  <2> DEFINE x == SubSeq(p, 1, k)
  <2>1. x \in WayTo(p)
    BY DEF WayTo
  <2>2. p # <<>>
    BY EmptySeq
  <2> HIDE DEF x
  <2>3. x = p \/ (x \in DirsTo(p) /\ x # <<>>)
    BY <2>1, <2>2, WayParts
  <2>4. x \in DOMAIN m.path_to_ino /\ x \notin marks
    BY <2>2, <2>3 DEF Enterable
  <2> QED BY <2>4 DEF x
<1>2. ASSUME NEW k \in 0..(Len(p) - 1) PROVE IsDir(m, InodeAt(m, SubSeq(p, 1, k)))
  BY DEF DirsTo, Enterable
<1> QED BY <1>1, <1>2, WalkReaches

\* What is written can be walked to in a map that has what is on the overlay, and
\* is listed on the way.
LEMMA ArchiveWay ==
    ASSUME NEW m, MapInv(m), NEW w \in Keys \ {<<>>}, FromMap(m, w),
           <<>> \in dirs, w \notin dirs, WayTo(w) \cap (DOMAIN files \cup marks) = {}
    PROVE  /\ \A x \in WayTo(w) : Walk(m, x) = x /\ x # NoInode /\ (IsDir(m, x) <=> x # w)
           /\ \A x \in DirsTo(w) : Enterable(m, x)
<1>1. ASSUME NEW x \in WayTo(w)
      PROVE  /\ x \in Keys \ {<<>>} /\ x \in DOMAIN m.path_to_ino /\ InodeAt(m, x) = x
             /\ (IsDir(m, x) <=> x # w) /\ x \notin marks
  <2>1. x \in Keys \ {<<>>} /\ x \in DOMAIN m.path_to_ino /\ m.path_to_ino[x] = x
        /\ x \in DOMAIN m.nodes /\ m.nodes[x].dir = (x # w) /\ x \notin DOMAIN files
    BY WayIs DEF FromMap
  <2>2. InodeAt(m, x) = x
    BY <2>1 DEF InodeAt
  <2>3. is_file(m, x) <=> x = w
    BY <2>1 DEF is_file
  <2>4. IsDir(m, x) <=> IF OnOverlay(x) THEN x \in dirs ELSE ~ is_file(m, x)
    BY <2>1, <2>2, KindIs
  <2>5. IsDir(m, x) <=> x # w
    BY <2>1, <2>3, <2>4 DEF OnOverlay
  <2> QED BY <2>1, <2>2, <2>5
<1>2. IsDir(m, InodeAt(m, <<>>))
  <2>1. m.nodes[ROOT_INODE].dir /\ InodeAt(m, <<>>) = ROOT_INODE
    BY DEF MapInv, RootNodeInv, InodeAt
  <2>2. IsDir(m, InodeAt(m, <<>>)) <=>
            IF OnOverlay(<<>>) THEN <<>> \in dirs ELSE ~ is_file(m, InodeAt(m, <<>>))
    BY KindIs
  <2> QED BY <2>1, <2>2 DEF is_file, OnOverlay
<1>3. ASSUME NEW x \in DirsTo(w) PROVE Enterable(m, x)
  <2>1. x = <<>> \/ (x \in WayTo(w) /\ x # w)
    BY WayParts
  <2> QED BY <1>1, <1>2, <2>1 DEF Enterable
<1>4. ASSUME NEW x \in WayTo(w) PROVE Walk(m, x) = x /\ x # NoInode
  <2>1. x \in Keys \ {<<>>} /\ (x = w \/ x \in DirsTo(w))
    BY <1>1, WayParts
  <2>2. \A y \in DirsTo(x) : Enterable(m, y)
    BY <1>3, <2>1, WayParts
  <2>3. Walk(m, x) = InodeAt(m, x) /\ Walk(m, x) # NoInode
    BY <1>1, <2>1, <2>2, WayReaches
  <2> QED BY <1>1, <2>3
<1> QED BY <1>1, <1>3, <1>4

LEMMA OverlayWay ==
    ASSUME NEW m, MapInv(m), Tree(files, dirs, marks), HasInodes(DOMAIN files \cup dirs, m),
           NEW w \in Keys \ {<<>>}, w \in DOMAIN files, WayTo(w) \cap marks = {}
    PROVE  /\ Walk(m, w) = InodeAt(m, w) /\ Walk(m, w) # NoInode
           /\ ~ IsDir(m, Walk(m, w)) /\ read(m, Walk(m, w)) = files[w]
           /\ \A x \in DirsTo(w) : Enterable(m, x)
<1>1. ASSUME NEW x \in DirsTo(w) PROVE Enterable(m, x)
  <2>1. x \in dirs /\ (x # <<>> => x \in WayTo(w))
    BY WayParts DEF Tree
  <2>2. x # <<>> => x \in DOMAIN m.path_to_ino /\ x \notin marks
    BY <2>1 DEF HasInodes
  <2>3. IsDir(m, InodeAt(m, x))
    BY <2>1, <2>2, KindIs DEF OnOverlay
  <2> QED BY <2>2, <2>3 DEF Enterable
<1>2. w \in DOMAIN m.path_to_ino /\ w \notin marks /\ w \notin dirs
  BY WayParts DEF HasInodes, Tree
<1>3. Walk(m, w) = InodeAt(m, w) /\ Walk(m, w) # NoInode
  BY <1>1, <1>2, WayReaches
<1>4. ~ IsDir(m, InodeAt(m, w))
  BY <1>2, KindIs DEF OnOverlay
<1>5. read(m, Walk(m, w)) = files[w]
  <2>1. get_path(m, Walk(m, w)) = w
    BY <1>2, <1>3, PathOfInode
  <2> QED BY <2>1 DEF read
<1> QED BY <1>1, <1>3, <1>4, <1>5

\* What is in its directory, on the overlay or in the map, is listed.
LEMMA ListedIn ==
    ASSUME NEW m, MapInv(m), NEW w \in Keys \ {<<>>}, w \notin marks,
           \A x \in DirsTo(w) : Enterable(m, x),
           \/ w \in DOMAIN files
           \/ /\ Front(w) = <<>> \/ m.path_to_ino[Front(w)] = Front(w)
              /\ Front(w) \in DOMAIN m.nodes /\ Last(w) \in DOMAIN m.nodes[Front(w)].children
              /\ m.nodes[Front(w)].children[Last(w)] \in DOMAIN m.nodes
    PROVE  /\ Last(w) \in Listing(m, Walk(m, Front(w)))
           /\ Walk(m, Front(w)) = InodeAt(m, Front(w))
<1> DEFINE at == Front(w)
<1>1. at \in Keys /\ at \in DirsTo(w) /\ Append(at, Last(w)) = w
  BY ParentIs
<1>2. \A x \in DirsTo(at) : Enterable(m, x)
  BY <1>1, WayParts
<1>3. at # <<>> => at \in DOMAIN m.path_to_ino /\ at \notin marks
  BY <1>1 DEF Enterable
<1>4. Walk(m, at) = InodeAt(m, at)
  BY <1>1, <1>2, <1>3, WayReaches
<1>5. get_path(m, InodeAt(m, at)) = at
  BY <1>3, PathOfInode
<1>6. CASE w \in DOMAIN files
  BY <1>1, <1>4, <1>5, <1>6 DEF Listing, is_whiteout
<1>7. CASE /\ at = <<>> \/ m.path_to_ino[at] = at
           /\ at \in DOMAIN m.nodes /\ Last(w) \in DOMAIN m.nodes[at].children
           /\ m.nodes[at].children[Last(w)] \in DOMAIN m.nodes
  <2>1. InodeAt(m, at) = at
    BY <1>7 DEF InodeAt, ROOT_INODE
  <2>2. Last(w) \in readdir(m, at)
    BY <1>7 DEF readdir
  <2> HIDE DEF at
  <2>3. Last(w) \in Listing(m, at)
    BY <1>1, <1>5, <2>1, <2>2 DEF Listing, is_whiteout
  <2> QED BY <1>4, <2>1, <2>3 DEF at
<1> QED BY <1>4, <1>6, <1>7

LEMMA ArchiveListed ==
    ASSUME NEW m, MapInv(m), NEW w \in Keys \ {<<>>}, FromMap(m, w),
           <<>> \in dirs, w \notin dirs, WayTo(w) \cap (DOMAIN files \cup marks) = {},
           NEW x \in WayTo(w)
    PROVE  /\ Last(x) \in Listing(m, Walk(m, Front(x)))
           /\ Walk(m, Front(x)) = Front(x)
<1>1. x \in Keys \ {<<>>} /\ Front(x) \in Keys /\ Front(x) \in DOMAIN m.nodes
      /\ (Front(x) = <<>> \/ Front(x) \in WayTo(w))
  BY ParentNode
<1>2. \A y \in DirsTo(x) : Enterable(m, y)
  <2>1. x = w \/ x \in DirsTo(w)
    BY WayParts
  <2> QED BY <2>1, ArchiveWay, WayParts
<1>3. Last(x) \in DOMAIN m.nodes[Front(x)].children
      /\ m.nodes[Front(x)].children[Last(x)] \in DOMAIN m.nodes
  BY DEF FromMap
<1>4. Front(x) = <<>> \/ m.path_to_ino[Front(x)] = Front(x)
  BY <1>1 DEF FromMap
<1>5. x \notin marks
  OBVIOUS
<1>6. Last(x) \in Listing(m, Walk(m, Front(x))) /\ Walk(m, Front(x)) = InodeAt(m, Front(x))
  BY <1>1, <1>2, <1>3, <1>4, <1>5, ListedIn
<1> QED BY <1>4, <1>6 DEF InodeAt, ROOT_INODE

\* A program finds what it wrote, byte for byte, and finds it listed.
LEMMA KeptIsSeen ==
    ASSUME NEW m, MapInv(m), Tree(files, dirs, marks), HasInodes(DOMAIN files \cup dirs, m),
           NEW packed, Kept(files, dirs, marks, m, packed, written), NEW w \in DOMAIN written
    PROVE  /\ Holds(m, w, written[w])
           /\ Last(w) \in Listing(m, Walk(m, Front(w)))
<1>1. w \in Keys \ {<<>>} /\ WayTo(w) \cap marks = {}
  <2>1. w \in Seq(Names) \ {<<>>} /\ Names \subseteq Entry
    BY DEF Kept, Entry
  <2>2. w \in Seq(Entry)
    BY <2>1, SeqMonotonic
  <2> QED BY <2>1, <2>2 DEF Kept, Keys
<1>2. w \in WayTo(w) /\ w \notin marks
  BY <1>1, WayParts
<1>3. CASE w \in DOMAIN files
  <2>1. /\ Walk(m, w) # NoInode /\ ~ IsDir(m, Walk(m, w)) /\ read(m, Walk(m, w)) = files[w]
        /\ \A x \in DirsTo(w) : Enterable(m, x)
    BY <1>1, <1>3, OverlayWay
  <2>2. files[w] = written[w]
    BY <1>3 DEF Kept
  <2>3. Last(w) \in Listing(m, Walk(m, Front(w)))
    BY <1>1, <1>2, <1>3, <2>1, ListedIn
  <2> QED BY <2>1, <2>2, <2>3 DEF Holds
<1>4. CASE w \notin DOMAIN files
  <2>1. /\ m.nodes[w].data = written[w] /\ FromMap(m, w)
        /\ w \notin dirs /\ WayTo(w) \cap (DOMAIN files \cup marks) = {} /\ <<>> \in dirs
    BY <1>1, <1>4 DEF Kept, FromArchive, Tree
  <2>2. Walk(m, w) = w /\ w # NoInode /\ ~ IsDir(m, w)
    BY <1>1, <1>2, <2>1, ArchiveWay
  <2>3. read(m, w) = written[w]
    <3>1. get_path(m, w) = w
      <4>1. w \in DOMAIN m.path_to_ino /\ m.path_to_ino[w] = w
        BY <1>2, <2>1 DEF FromMap
      <4> QED BY <4>1 DEF MapInv, InverseInv, get_path
    <3> QED BY <1>4, <2>1, <3>1 DEF read
  <2>4. Last(w) \in Listing(m, Walk(m, Front(w)))
    BY <1>1, <1>2, <2>1, ArchiveListed
  <2> QED BY <2>2, <2>3, <2>4 DEF Holds
<1> QED BY <1>3, <1>4

-----------------------------------------------------------------------------
(* What keeps it.                                                           *)

LEMMA KeptIsKey ==
    ASSUME NEW f, NEW d, NEW k, NEW m, NEW packed, NEW wr, Kept(f, d, k, m, packed, wr),
           NEW w \in DOMAIN wr
    PROVE  w \in Keys \ {<<>>}
<1>1. w \in Seq(Names) \ {<<>>} /\ Names \subseteq Entry
  BY DEF Kept, Entry
<1>2. w \in Seq(Entry)
  BY <1>1, SeqMonotonic
<1> QED BY <1>1, <1>2 DEF Keys

\* New directories.
LEMMA KeptDirs ==
    ASSUME NEW f, NEW d, NEW k, NEW m, NEW packed, NEW wr,
           Tree(f, d, k), Kept(f, d, k, m, packed, wr),
           NEW new, \A x \in new : DirsTo(x) \subseteq d \cup new, new \cap DOMAIN f = {},
           \A w \in DOMAIN wr : w \notin DOMAIN f => w \notin new
    PROVE  Tree(f, d \cup new, k) /\ Kept(f, d \cup new, k, m, packed, wr)
<1>1. Tree(f, d \cup new, k)
  BY DEF Tree
<1>2. Kept(f, d \cup new, k, m, packed, wr)
  BY DEF Kept, FromArchive
<1> QED BY <1>1, <1>2

\* A new file, or new bytes of one.
LEMMA KeptFile ==
    ASSUME NEW f, NEW d, NEW k, NEW m, NEW packed, NEW wr,
           Tree(f, d, k), Kept(f, d, k, m, packed, wr),
           NEW p, p \notin d, DirsTo(p) \subseteq d, NEW bytes, p \in DOMAIN wr => wr[p] = bytes,
           \A w \in DOMAIN wr : w \notin DOMAIN f => p = w \/ p \notin WayTo(w)
    PROVE  Tree(With(f, p, bytes), d, k) /\ Kept(With(f, p, bytes), d, k, m, packed, wr)
<1> DEFINE g == With(f, p, bytes)
<1>1. DOMAIN g = DOMAIN f \cup {p} /\ g[p] = bytes /\ \A x \in DOMAIN f : x # p => g[x] = f[x]
  BY DEF With
<1> HIDE DEF g
<1>2. Tree(g, d, k)
  BY <1>1 DEF Tree
<1>3. ASSUME NEW w \in DOMAIN wr
      PROVE  /\ w \in DOMAIN g => g[w] = wr[w]
             /\ w \notin DOMAIN g => FromArchive(g, d, m, packed, w, wr[w])
  <2>1. CASE w \in DOMAIN g
    BY <1>1, <2>1 DEF Kept
  <2>2. CASE w \notin DOMAIN g
    <3>1. w \notin DOMAIN f /\ w # p
      BY <1>1, <2>2
    <3>2. FromArchive(f, d, m, packed, w, wr[w]) /\ p \notin WayTo(w)
      BY <3>1 DEF Kept
    <3> QED BY <1>1, <2>2, <3>2 DEF FromArchive
  <2> QED BY <2>1, <2>2
<1>4. Kept(g, d, k, m, packed, wr)
  BY <1>3 DEF Kept
<1> QED BY <1>2, <1>4 DEF g

LEMMA KeptWritten ==
    ASSUME NEW f, NEW d, NEW k, NEW m, NEW packed, NEW wr, Kept(f, d, k, m, packed, wr),
           NEW p \in Seq(Names) \ {<<>>}, Len(p) <= Depth, WayTo(p) \cap k = {},
           NEW bytes, p \in DOMAIN f, f[p] = bytes
    PROVE  Kept(f, d, k, m, packed, With(wr, p, bytes))
<1> DEFINE new == With(wr, p, bytes)
<1>1. DOMAIN new = DOMAIN wr \cup {p} /\ new[p] = bytes /\ \A x \in DOMAIN wr : x # p => new[x] = wr[x]
  BY DEF With
<1> HIDE DEF new
<1>2. Kept(f, d, k, m, packed, new)
  BY <1>1 DEF Kept
<1> QED BY <1>2 DEF new

\* A map that has what the other has of the archive, fewer marks, less written.
LEMMA KeptLess ==
    ASSUME NEW f, NEW d, NEW k, NEW m, NEW packed, NEW wr,
           Tree(f, d, k), Kept(f, d, k, m, packed, wr),
           NEW fewer, fewer \subseteq k, NEW less, DOMAIN less \subseteq DOMAIN wr,
           \A w \in DOMAIN less : less[w] = wr[w],
           NEW new, \A w \in DOMAIN less : w \notin DOMAIN f =>
                        FromMap(new, w) /\ new.nodes[w].data = m.nodes[w].data
    PROVE  Tree(f, d, fewer) /\ Kept(f, d, fewer, new, packed, less)
<1>1. Tree(f, d, fewer)
  BY DEF Tree
<1>2. Kept(f, d, fewer, new, packed, less)
  BY DEF Kept, FromArchive
<1> QED BY <1>1, <1>2

KeptHere(packed) ==
    /\ HostInv
    /\ Tree(files, dirs, marks) /\ Kept(files, dirs, marks, inodes, packed, written)

KeptThere(packed) ==
    Tree(files', dirs', marks') /\ Kept(files', dirs', marks', inodes', packed, written')

LEMMA InArchive ==
    ASSUME NEW packed, KeptHere(packed), NEW w \in DOMAIN written, w \notin DOMAIN files
    PROVE  /\ w \in Keys \ {<<>>} /\ FromMap(inodes, w)
           /\ Walk(inodes, w) = w /\ read(inodes, w) = written[w] /\ inodes.nodes[w].data = written[w]
           /\ \A x : Enterable(inodes, x) => x # w
           /\ \A x \in WayTo(w) : Exists(x) /\ (IsDir(inodes, Walk(inodes, x)) <=> x # w)
<1>1. w \in Keys \ {<<>>}
  BY KeptIsKey DEF KeptHere
<1>2. /\ FromMap(inodes, w) /\ inodes.nodes[w].data = written[w] /\ <<>> \in dirs /\ w \notin dirs
      /\ WayTo(w) \cap (DOMAIN files \cup marks) = {} /\ MapInv(inodes)
  BY DEF KeptHere, Kept, FromArchive, Tree, HostInv
<1>3. \A x \in WayTo(w) : Walk(inodes, x) = x /\ x # NoInode /\ (IsDir(inodes, x) <=> x # w)
  BY <1>1, <1>2, ArchiveWay
<1>4. w \in WayTo(w) /\ w \in DOMAIN inodes.path_to_ino /\ inodes.path_to_ino[w] = w
  BY <1>1, <1>2, WayParts DEF FromMap
<1>5. ~ Enterable(inodes, w)
  <2>1. InodeAt(inodes, w) = w
    BY <1>1, <1>4 DEF InodeAt
  <2> QED BY <1>3, <1>4, <2>1 DEF Enterable
<1>6. read(inodes, w) = written[w]
  <2>1. get_path(inodes, w) = w
    BY <1>2, <1>4 DEF MapInv, InverseInv, get_path
  <2> QED BY <1>2, <2>1 DEF read
<1> QED BY <1>1, <1>2, <1>3, <1>4, <1>5, <1>6 DEF Exists

\* A path that is not there, or is a file, is not a directory on the way to it.
LEMMA NotOnTheWay ==
    ASSUME NEW packed, KeptHere(packed), NEW w \in DOMAIN written, w \notin DOMAIN files,
           NEW p
    PROVE  /\ ~ Exists(p) => p \notin WayTo(w)
           /\ FileAt(p) => p = w \/ p \notin WayTo(w)
BY InArchive DEF FileAt

LEMMA PathsAreShort ==
    ASSUME NEW p \in Paths
    PROVE  p \in Seq(Names) \ {<<>>} /\ Len(p) <= 2 /\ Len(p) <= Depth /\ p \in Keys \ {<<>>}
<1>1. p \in Keys \ {<<>>}
  BY PathsAreKeys
<1>2. CASE p \in Tops
  <2>1. PICK n \in Names : p = <<n>>
    BY <1>2 DEF Tops
  <2>2. Len(p) = 1 /\ p \in Seq(Names)
    BY <2>1
  <2> QED BY <1>1, <2>2 DEF Depth
<1>3. CASE p \in { <<d, n>> : d \in Names, n \in Names }
  <2>1. PICK d \in Names, n \in Names : p = <<d, n>>
    BY <1>3
  <2>2. Len(p) = 2 /\ p \in Seq(Names)
    BY <2>1
  <2> QED BY <1>1, <2>2 DEF Depth
<1> QED BY <1>2, <1>3 DEF Paths

\* The directories on the way to what is there can be made on the overlay.
LEMMA WayIsFree ==
    ASSUME NEW packed, KeptHere(packed), NEW p \in Keys \ {<<>>},
           \A x \in DirsTo(p) : Enterable(inodes, x)
    PROVE  /\ \A x \in DirsTo(p) : DirsTo(x) \subseteq dirs \cup DirsTo(p)
           /\ DirsTo(p) \cap DOMAIN files = {}
           /\ \A w \in DOMAIN written : w \notin DOMAIN files => w \notin DirsTo(p)
           /\ p \notin marks => WayTo(p) \cap marks = {}
<1>1. \A x \in DirsTo(p) : DirsTo(x) \subseteq DirsTo(p)
  BY WayParts
<1>2. \A x \in DirsTo(p) : x \notin DOMAIN files
  BY EnterableIsNoFile DEF KeptHere, HostInv
<1>3. ASSUME NEW w \in DOMAIN written, w \notin DOMAIN files PROVE w \notin DirsTo(p)
  BY <1>3, InArchive
<1>4. ASSUME p \notin marks, NEW x \in WayTo(p) PROVE x \notin marks
  BY <1>4, WayParts DEF Enterable
<1> QED BY <1>1, <1>2, <1>3, <1>4

LEMMA CreateSurvives ==
    ASSUME NEW packed, KeptHere(packed), NEW p \in Paths, create(p)
    PROVE  KeptThere(packed)
<1>1. /\ p \in Keys \ {<<>>} /\ p \in Seq(Names) \ {<<>>} /\ Len(p) <= Depth
      /\ DirAt(Front(p)) /\ ~ Exists(p) /\ MapInv(inodes)
  BY PathsAreShort DEF create, KeptHere, HostInv
<1>2. \A x \in DirsTo(p) : Enterable(inodes, x)
  BY <1>1, ParentWay
<1>3. /\ \A x \in DirsTo(p) : DirsTo(x) \subseteq dirs \cup DirsTo(p)
      /\ DirsTo(p) \cap DOMAIN files = {}
      /\ \A w \in DOMAIN written : w \notin DOMAIN files => w \notin DirsTo(p)
  BY <1>1, <1>2, WayIsFree
<1>4. dirs' = dirs \cup DirsTo(p) /\ marks' = marks \ {p}
  BY DEF create, WithParent
<1>5. Tree(files, dirs', marks) /\ Kept(files, dirs', marks, inodes, packed, written)
  BY <1>3, <1>4, KeptDirs DEF KeptHere
<1>6. CASE p \in dirs
  <2>1. UNCHANGED <<files, inodes, written>> /\ marks' \subseteq marks
    BY <1>4, <1>6 DEF create
  <2>2. \A w \in DOMAIN written : w \notin DOMAIN files => FromMap(inodes, w)
    BY InArchive
  <2>3. Tree(files, dirs', marks') /\ Kept(files, dirs', marks', inodes, packed, written)
    BY <1>5, <2>1, <2>2, KeptLess
  <2> QED BY <2>1, <2>3 DEF KeptThere
<1>7. CASE p \notin dirs
  <2>1. /\ files' = With(files, p, <<>>) /\ written' = With(written, p, <<>>)
        /\ inodes' = add_file_at_path(inodes, p, FALSE)
    BY <1>7 DEF create
  <2>2. ASSUME NEW w \in DOMAIN written, w \notin DOMAIN files
        PROVE  /\ p \notin WayTo(w)
               /\ FromMap(inodes', w) /\ inodes'.nodes[w].data = inodes.nodes[w].data
    <3>1. p \notin WayTo(w)
      BY <1>1, <2>2, NotOnTheWay
    <3>2. w \in Keys \ {<<>>} /\ FromMap(inodes, w)
      BY <2>2, InArchive
    <3> QED BY <1>1, <2>1, <3>1, <3>2, AddFileLeaves
  <2>3. marks' \subseteq marks
    BY <1>4
  <2>4. Tree(files, dirs', marks') /\ Kept(files, dirs', marks', inodes', packed, written)
    BY <1>5, <2>2, <2>3, KeptLess
  <2>5. p \notin DOMAIN written
    <3> SUFFICES ASSUME p \in DOMAIN written PROVE FALSE
      OBVIOUS
    <3>1. Holds(inodes, p, written[p])
      BY <1>1, KeptIsSeen DEF KeptHere, HostInv
    <3> QED BY <1>1, <3>1 DEF Holds, Exists
  <2>6. p \notin dirs' /\ DirsTo(p) \subseteq dirs'
    BY <1>1, <1>4, <1>7, WayParts
  <2>7. Tree(files', dirs', marks') /\ Kept(files', dirs', marks', inodes', packed, written)
    BY <2>1, <2>2, <2>4, <2>5, <2>6, KeptFile
  <2>8. WayTo(p) \cap marks' = {}
    BY <1>1, <1>2, <1>4, WayParts DEF Enterable
  <2>9. p \in DOMAIN files' /\ files'[p] = <<>>
    BY <2>1 DEF With
  <2>10. Kept(files', dirs', marks', inodes', packed, written')
    BY <1>1, <2>1, <2>7, <2>8, <2>9, KeptWritten
  <2> QED BY <2>7, <2>10 DEF KeptThere
<1> QED BY <1>6, <1>7

LEMMA MkdirSurvives ==
    ASSUME NEW packed, KeptHere(packed), NEW p \in Tops, mkdir(p)
    PROVE  KeptThere(packed)
<1>1. p \in Paths /\ p \in Keys \ {<<>>} /\ ~ Exists(p) /\ MapInv(inodes)
  BY PathsAreKeys, PathsAreShort DEF mkdir, KeptHere, HostInv
<1>2. marks' \subseteq marks /\ files' = files /\ written' = written
  BY DEF mkdir
<1>3. CASE p \in DOMAIN files
  <2>1. dirs' = dirs /\ inodes' = inodes
    BY <1>3 DEF mkdir
  <2>2. \A w \in DOMAIN written : w \notin DOMAIN files => FromMap(inodes, w)
    BY InArchive
  <2>3. Tree(files, dirs, marks') /\ Kept(files, dirs, marks', inodes, packed, written)
    BY <1>2, <2>2, KeptLess DEF KeptHere
  <2> QED BY <1>2, <2>1, <2>3 DEF KeptThere
<1>4. CASE p \notin DOMAIN files
  <2>1. dirs' = dirs \cup DirsTo(p) \cup {p} /\ inodes' = add_file_at_path(inodes, p, TRUE)
    BY <1>4 DEF mkdir, WithParent
  <2>2. ASSUME NEW w \in DOMAIN written, w \notin DOMAIN files
        PROVE  /\ p \notin WayTo(w) /\ w \in Keys \ {<<>>}
               /\ FromMap(inodes', w) /\ inodes'.nodes[w].data = inodes.nodes[w].data
    <3>1. p \notin WayTo(w)
      BY <1>1, <2>2, NotOnTheWay
    <3>2. w \in Keys \ {<<>>} /\ FromMap(inodes, w)
      BY <2>2, InArchive
    <3> QED BY <1>1, <2>1, <3>1, <3>2, AddFileLeaves
  <2>3. Tree(files, dirs, marks') /\ Kept(files, dirs, marks', inodes', packed, written)
    BY <1>2, <2>2, KeptLess DEF KeptHere
  <2>4. DirsTo(p) = {<<>>}
    BY MkdirWay
  <2>5. PICK new : new = DirsTo(p) \cup {p}
    OBVIOUS
  <2>6. /\ \A x \in new : DirsTo(x) \subseteq dirs \cup new
        /\ new \cap DOMAIN files = {}
        /\ \A w \in DOMAIN written : w \notin DOMAIN files => w \notin new
    <3>1. <<>> \notin DOMAIN files
      BY DEF KeptHere, HostInv
    <3>2. ASSUME NEW x \in new PROVE DirsTo(x) \subseteq dirs \cup new
      BY <1>1, <2>5, WayParts
    <3>3. ASSUME NEW w \in DOMAIN written, w \notin DOMAIN files PROVE w \notin new
      <4>1. w \in WayTo(w) /\ w # <<>> /\ p \notin WayTo(w)
        BY <2>2, <3>3, WayParts
      <4> QED BY <2>4, <2>5, <4>1
    <3> QED BY <1>4, <2>4, <2>5, <3>1, <3>2, <3>3
  <2>7. /\ Tree(files, dirs \cup new, marks')
        /\ Kept(files, dirs \cup new, marks', inodes', packed, written)
    BY <2>3, <2>6, KeptDirs
  <2>8. dirs' = dirs \cup new
    BY <2>1, <2>5
  <2> QED BY <1>2, <2>7, <2>8 DEF KeptThere
<1> QED BY <1>3, <1>4

LEMMA KeptChange ==
    ASSUME NEW f, NEW d, NEW k, NEW m, NEW packed, NEW wr,
           Tree(f, d, k), Kept(f, d, k, m, packed, wr),
           NEW p \in Seq(Names) \ {<<>>}, Len(p) <= Depth, WayTo(p) \cap k = {},
           p \in DOMAIN f, NEW bytes
    PROVE  Tree(With(f, p, bytes), d, k) /\ Kept(With(f, p, bytes), d, k, m, packed, With(wr, p, bytes))
<1> DEFINE g == With(f, p, bytes)
           new == With(wr, p, bytes)
<1>1. DOMAIN g = DOMAIN f /\ g[p] = bytes /\ \A x \in DOMAIN f : x # p => g[x] = f[x]
  BY DEF With
<1>2. DOMAIN new = DOMAIN wr \cup {p} /\ new[p] = bytes /\ \A x \in DOMAIN wr : x # p => new[x] = wr[x]
  BY DEF With
<1> HIDE DEF g, new
<1>3. Tree(g, d, k)
  BY <1>1 DEF Tree
<1>4. ASSUME NEW w \in DOMAIN new
      PROVE  /\ w \in Seq(Names) \ {<<>>} /\ Len(w) <= Depth
             /\ WayTo(w) \cap k = {}
             /\ w \in DOMAIN g => g[w] = new[w]
             /\ w \notin DOMAIN g => FromArchive(g, d, m, packed, w, new[w])
  <2>1. CASE w = p
    BY <1>1, <1>2, <2>1
  <2>2. CASE w # p
    <3>1. w \in DOMAIN wr /\ new[w] = wr[w]
      BY <1>2, <2>2
    <3>2. w \notin DOMAIN f => FromArchive(g, d, m, packed, w, wr[w])
      BY <1>1, <3>1 DEF Kept, FromArchive
    <3> QED BY <1>1, <2>2, <3>1, <3>2 DEF Kept
  <2> QED BY <2>1, <2>2
<1>5. Kept(g, d, k, m, packed, new)
  BY <1>4 DEF Kept
<1> QED BY <1>3, <1>5 DEF g, new

\* A file that is copied up holds what the program expects of it.
LEMMA CopiedSurvives ==
    ASSUME NEW packed, KeptHere(packed), NEW p \in Paths, FileAt(p),
           NEW ino, ino = Walk(inodes, p)
    PROVE  /\ p \notin dirs /\ WayTo(p) \cap marks = {} /\ ino = get_inode(inodes, p)
           /\ p \in DOMAIN CopiedUp(p, ino) /\ CopiedUp(p, ino)[p] = Expected(p)
           /\ DOMAIN CopiedUp(p, ino) = DOMAIN files \cup {p}
           /\ DirsTo(p) \subseteq CowDirs(p, ino) /\ CowDirs(p, ino) \subseteq dirs \cup DirsTo(p)
           /\ Tree(CopiedUp(p, ino), CowDirs(p, ino), marks)
           /\ Kept(CopiedUp(p, ino), CowDirs(p, ino), marks, inodes, packed, written)
<1>1. p \in Keys \ {<<>>} /\ MapInv(inodes) /\ ino # NoInode /\ ~ IsDir(inodes, ino)
  BY PathsAreShort DEF KeptHere, HostInv, FileAt, Exists
<1>2. /\ \A x \in DirsTo(p) : Enterable(inodes, x)
      /\ ino = InodeAt(inodes, p) /\ p \in DOMAIN inodes.path_to_ino /\ p \notin marks
  BY <1>1, FoundWay
<1>3. /\ \A x \in DirsTo(p) : DirsTo(x) \subseteq dirs \cup DirsTo(p)
      /\ DirsTo(p) \cap DOMAIN files = {}
      /\ \A w \in DOMAIN written : w \notin DOMAIN files => w \notin DirsTo(p)
      /\ WayTo(p) \cap marks = {}
  BY <1>1, <1>2, WayIsFree
<1>4. ~ IF OnOverlay(p) THEN p \in dirs ELSE ~ is_file(inodes, ino)
  BY <1>1, <1>2, KindIs
<1>5. p \notin dirs /\ get_path(inodes, ino) = p
  BY <1>1, <1>2, <1>4, PathOfInode DEF OnOverlay
<1>6. ino = get_inode(inodes, p)
  BY <1>1, <1>2 DEF InodeAt, get_inode
<1>7. CASE p \in DOMAIN files
  <2>1. CopiedUp(p, ino) = files /\ CowDirs(p, ino) = dirs
    BY <1>7 DEF CopiedUp, CowDirs, OnOverlay
  <2>2. DirsTo(p) \subseteq dirs
    BY <1>7 DEF KeptHere, Tree
  <2>3. files[p] = Expected(p)
    BY <1>5, <1>7 DEF Expected, KeptHere, Kept, read
  <2> QED BY <1>3, <1>5, <1>6, <1>7, <2>1, <2>2, <2>3 DEF KeptHere
<1>8. CASE p \notin DOMAIN files
  <2> DEFINE bytes == inodes.nodes[ino].data
             more == dirs \cup DirsTo(p)
  <2>1. CopiedUp(p, ino) = With(files, p, bytes) /\ CowDirs(p, ino) = more
    BY <1>4, <1>5, <1>8 DEF CopiedUp, CowDirs, OnOverlay, WithParent
  <2>2. Tree(files, more, marks) /\ Kept(files, more, marks, inodes, packed, written)
    BY <1>3, KeptDirs DEF KeptHere
  <2>3. bytes = Expected(p)
    <3>1. CASE p \in DOMAIN written
      BY <1>8, <3>1, InArchive DEF Expected
    <3>2. CASE p \notin DOMAIN written
      BY <1>5, <1>8, <3>2 DEF Expected, read
    <3> QED BY <3>1, <3>2
  <2>4. p \notin more /\ DirsTo(p) \subseteq more
    BY <1>1, <1>5, WayParts
  <2>5. p \in DOMAIN written => written[p] = bytes
    BY <2>3 DEF Expected
  <2>6. \A w \in DOMAIN written : w \notin DOMAIN files => p = w \/ p \notin WayTo(w)
    BY NotOnTheWay
  <2> HIDE DEF more, bytes
  <2>7. /\ Tree(With(files, p, bytes), more, marks)
        /\ Kept(With(files, p, bytes), more, marks, inodes, packed, written)
    BY <2>2, <2>4, <2>5, <2>6, KeptFile
  <2>8. DOMAIN With(files, p, bytes) = DOMAIN files \cup {p} /\ With(files, p, bytes)[p] = bytes
    BY DEF With
  <2>9. more \subseteq dirs \cup DirsTo(p)
    BY DEF more
  <2> QED BY <1>3, <1>5, <1>6, <2>1, <2>3, <2>4, <2>7, <2>8, <2>9
<1> QED BY <1>7, <1>8

LEMMA OpenSurvives ==
    ASSUME NEW packed, KeptHere(packed), NEW p \in Paths, open(p)
    PROVE  KeptThere(packed)
<1>1. /\ FileAt(p) /\ UNCHANGED <<marks, inodes, written>>
      /\ files' = CopiedUp(p, Walk(inodes, p)) /\ dirs' = CowDirs(p, Walk(inodes, p))
  BY DEF open
<1>2. Tree(files', dirs', marks) /\ Kept(files', dirs', marks, inodes, packed, written)
  BY <1>1, CopiedSurvives
<1> QED BY <1>1, <1>2 DEF KeptThere

LEMMA ChangeSurvives ==
    ASSUME NEW packed, KeptHere(packed), NEW p \in Paths, write(p) \/ setattr(p)
    PROVE  KeptThere(packed)
<1> DEFINE copied == CopiedUp(p, Walk(inodes, p))
           made == CowDirs(p, Walk(inodes, p))
<1>1. FileAt(p)
  BY DEF write, setattr
<1>2. /\ WayTo(p) \cap marks = {} /\ p \in DOMAIN copied /\ copied[p] = Expected(p)
      /\ Tree(copied, made, marks) /\ Kept(copied, made, marks, inodes, packed, written)
  BY <1>1, CopiedSurvives
<1>3. Content(p) = Expected(p)
  BY <1>2 DEF Content
<1>4. PICK bytes : Change(p, bytes, bytes)
  BY <1>3 DEF write, setattr
<1>5. /\ files' = With(copied, p, bytes) /\ dirs' = made /\ written' = With(written, p, bytes)
      /\ UNCHANGED <<marks, inodes>>
  BY <1>4 DEF Change
<1>6. p \in Seq(Names) \ {<<>>} /\ Len(p) <= Depth
  BY PathsAreShort
<1> HIDE DEF copied, made
<1>7. /\ Tree(With(copied, p, bytes), made, marks)
      /\ Kept(With(copied, p, bytes), made, marks, inodes, packed, With(written, p, bytes))
  BY <1>2, <1>6, KeptChange
<1> QED BY <1>5, <1>7 DEF KeptThere

LEMMA UnlinkSurvives ==
    ASSUME NEW packed, KeptHere(packed), NEW p \in Paths, unlink(p)
    PROVE  KeptThere(packed)
<1>1. /\ FileAt(p) /\ files' = Without(files, {p}) /\ dirs' = dirs
      /\ inodes' = remove_path(inodes, p) /\ written' = Without(written, {p})
  BY DEF unlink
<1>2. marks' = marks
  <2>1. p \notin DOMAIN inodes'.path_to_ino
    <3>1. DOMAIN inodes'.path_to_ino = DOMAIN inodes.path_to_ino \ {p}
      BY <1>1, RemoveKeeps DEF KeptHere, HostInv
    <3> QED BY <3>1
  <2>2. get_inode(inodes', p) = NoInode
    BY <2>1 DEF get_inode
  <2> QED BY <2>2 DEF unlink
<1>3. ASSUME NEW w \in DOMAIN written', w \notin DOMAIN files
      PROVE  FromMap(inodes', w) /\ inodes'.nodes[w].data = inodes.nodes[w].data
  <2>1. w \in DOMAIN written /\ w # p
    BY <1>1 DEF Without
  <2>2. p \notin WayTo(w)
    BY <1>1, <1>3, <2>1, NotOnTheWay
  <2>3. FromMap(inodes, w) /\ MapInv(inodes)
    BY <1>3, <2>1, InArchive DEF KeptHere, HostInv
  <2> QED BY <1>1, <2>2, <2>3, RemoveLeaves
<1>4. DOMAIN written' = DOMAIN written \ {p} /\ \A w \in DOMAIN written' : written'[w] = written[w]
  BY <1>1 DEF Without
<1>5. DOMAIN files' = DOMAIN files \ {p} /\ \A w \in DOMAIN files' : files'[w] = files[w]
  BY <1>1 DEF Without
<1>6. Tree(files, dirs, marks) /\ Kept(files, dirs, marks, inodes', packed, written')
  BY <1>3, <1>4, KeptLess DEF KeptHere
<1>7. Tree(files', dirs, marks)
  BY <1>5, <1>6 DEF Tree
<1>8. Kept(files', dirs, marks, inodes', packed, written')
  <2>1. ASSUME NEW w \in DOMAIN written' PROVE w \in DOMAIN files <=> w \in DOMAIN files'
    BY <1>4, <1>5
  <2> QED BY <1>5, <1>6, <2>1 DEF Kept, FromArchive
<1> QED BY <1>1, <1>2, <1>7, <1>8 DEF KeptThere

LEMMA RmdirSurvives ==
    ASSUME NEW packed, KeptHere(packed), NEW p \in Tops, rmdir(p)
    PROVE  KeptThere(packed)
<1>1. p \in Keys \ {<<>>} /\ MapInv(inodes) /\ Under(p, p)
  BY PathsAreKeys, UnderItself DEF KeptHere, HostInv
<1>2. /\ DOMAIN files' = DOMAIN files \ Below(p, DOMAIN files)
      /\ \A w \in DOMAIN files' : files'[w] = files[w]
      /\ DOMAIN written' = DOMAIN written \ Below(p, DOMAIN written)
      /\ \A w \in DOMAIN written' : written'[w] = written[w]
      /\ dirs' = dirs \ Below(p, dirs) /\ inodes' = remove_path(inodes, p)
  BY DEF rmdir, Without
<1>3. marks' = { x \in marks : ~ Under(p, x) \/ x = p }
  <2>1. DOMAIN inodes'.path_to_ino = DOMAIN inodes.path_to_ino \ {p}
    BY <1>1, <1>2, RemoveKeeps
  <2>2. get_inode(inodes', p) = NoInode
    BY <2>1 DEF get_inode
  <2> QED BY <2>2 DEF rmdir
<1>4. ASSUME NEW w \in DOMAIN written'
      PROVE  /\ w \in DOMAIN written /\ ~ Under(p, w) /\ p \notin WayTo(w) /\ w \in Keys \ {<<>>}
             /\ w \in DOMAIN files <=> w \in DOMAIN files'
  <2>1. w \in DOMAIN written /\ ~ Under(p, w)
    BY <1>2 DEF Below
  <2>2. w \in Keys \ {<<>>}
    BY <2>1, KeptIsKey DEF KeptHere
  <2> QED BY <1>2, <2>1, <2>2, WayIs DEF Below
<1>5. ASSUME NEW w \in DOMAIN written', w \notin DOMAIN files
      PROVE  FromMap(inodes', w) /\ inodes'.nodes[w].data = inodes.nodes[w].data
  <2>1. FromMap(inodes, w) /\ p \notin WayTo(w)
    BY <1>4, <1>5, InArchive
  <2> QED BY <1>1, <1>2, <2>1, RemoveLeaves
<1>6. /\ marks' \subseteq marks /\ DOMAIN written' \subseteq DOMAIN written
      /\ \A w \in DOMAIN written' : written'[w] = written[w]
      /\ Tree(files, dirs, marks) /\ Kept(files, dirs, marks, inodes, packed, written)
      /\ \A w \in DOMAIN written' : w \notin DOMAIN files =>
            FromMap(inodes', w) /\ inodes'.nodes[w].data = inodes.nodes[w].data
  BY <1>2, <1>3, <1>5 DEF KeptHere
<1>7. Tree(files, dirs, marks') /\ Kept(files, dirs, marks', inodes', packed, written')
  <2>1. PICK fewer, less, new : fewer = marks' /\ less = written' /\ new = inodes'
    OBVIOUS
  <2>2. /\ fewer \subseteq marks /\ DOMAIN less \subseteq DOMAIN written
        /\ \A w \in DOMAIN less : less[w] = written[w]
        /\ \A w \in DOMAIN less : w \notin DOMAIN files =>
              FromMap(new, w) /\ new.nodes[w].data = inodes.nodes[w].data
    BY <1>6, <2>1
  <2>3. Tree(files, dirs, fewer)
    BY <1>6, <2>2 DEF Tree
  <2>4. Kept(files, dirs, fewer, new, packed, less)
    BY <1>6, <2>2 DEF Kept, FromArchive
  <2> QED BY <2>1, <2>3, <2>4
<1>8. Tree(files', dirs', marks')
  <2>1. ASSUME NEW x \in DOMAIN files' \cup dirs' \cup marks', NEW y \in DirsTo(x) PROVE y \in dirs'
    <3>1. x \in Keys /\ x \in DOMAIN files \cup dirs \cup marks
      BY <1>2, <1>3 DEF KeptHere, HostInv
    <3>2. ~ Under(p, x) \/ x = p
      BY <1>2, <1>3 DEF Below
    <3>3. y \in dirs
      BY <3>1 DEF KeptHere, Tree
    <3>4. y \in Keys /\ Under(y, x) /\ y # x
      BY <3>1, WayIs
    <3>5. ~ Under(p, y)
      BY <1>1, <3>1, <3>2, <3>4, UnderOrder
    <3> QED BY <1>2, <3>3, <3>5 DEF Below
  <2>2. <<>> \in dirs'
    <3>1. <<>> \in dirs /\ <<>> \in Keys /\ Len(<<>>) = 0
      BY EmptySeq DEF KeptHere, Tree, Keys
    <3>2. Len(p) # 0
      BY <1>1, EmptySeq DEF Keys
    <3>3. ~ Under(p, <<>>)
      BY <1>1, <3>1, <3>2, UnderIs
    <3> QED BY <1>2, <3>1, <3>3 DEF Below
  <2>3. dirs' \cap DOMAIN files' = {}
    BY <1>2, <1>7 DEF Tree
  <2> QED BY <2>1, <2>2, <2>3 DEF Tree
<1>9. Kept(files', dirs', marks', inodes', packed, written')
  <2>1. DOMAIN files' \subseteq DOMAIN files /\ dirs' \subseteq dirs
    BY <1>2
  <2> QED BY <1>2, <1>4, <1>7, <2>1 DEF Kept, FromArchive
<1> QED BY <1>8, <1>9 DEF KeptThere

\* What is below p goes below q, over what was there.
LEMMA MovedIs ==
    ASSUME NEW set, set \subseteq Keys, NEW p \in Keys, NEW q \in Keys, NEW y \in Keys
    PROVE  y \in MovedSet(set, p, q) <=>
               IF Under(q, y) THEN Rebase(y, q, p) \in set ELSE y \in set /\ ~ Under(p, y)
<1> DEFINE moved == { Rebase(x, p, q) : x \in Below(p, set) }
<1>1. MovedSet(set, p, q) = (set \ (Below(p, set) \cup Below(q, set))) \cup moved
  BY DEF MovedSet
<1>2. ASSUME NEW x \in Below(p, set)
      PROVE  Under(q, Rebase(x, p, q)) /\ Rebase(Rebase(x, p, q), q, p) = x
  <2>1. x \in Keys /\ Under(p, x)
    BY DEF Below
  <2> QED BY <2>1, RebaseBack, RebaseOrder
<1>3. CASE Under(q, y)
  <2>1. y \in moved => Rebase(y, q, p) \in set
    BY <1>2 DEF Below
  <2>2. ASSUME Rebase(y, q, p) \in set PROVE y \in moved
    <3>1. Rebase(Rebase(y, q, p), p, q) = y /\ Under(p, Rebase(y, q, p))
      BY <1>3, RebaseBack, RebaseOrder
    <3>2. Rebase(y, q, p) \in Below(p, set)
      BY <2>2, <3>1 DEF Below
    <3> QED BY <3>1, <3>2
  <2> HIDE DEF moved
  <2> QED BY <1>1, <1>3, <2>1, <2>2 DEF Below
<1>4. CASE ~ Under(q, y)
  <2>1. y \notin moved
    BY <1>2, <1>4
  <2> HIDE DEF moved
  <2> QED BY <1>1, <1>4, <2>1 DEF Below
<1> QED BY <1>3, <1>4

LEMMA MovedToIs ==
    ASSUME NEW f, DOMAIN f \subseteq Keys, NEW p \in Keys, NEW q \in Keys
    PROVE  /\ DOMAIN MovedTo(f, p, q) = MovedSet(DOMAIN f, p, q)
           /\ \A y \in DOMAIN MovedTo(f, p, q) :
                 /\ y \in Keys
                 /\ MovedTo(f, p, q)[y] = IF Under(q, y) THEN f[Rebase(y, q, p)] ELSE f[y]
<1> DEFINE moved == { Rebase(x, p, q) : x \in Below(p, DOMAIN f) }
           kept == DOMAIN f \ (Below(p, DOMAIN f) \cup Below(q, DOMAIN f))
           g == MovedTo(f, p, q)
<1>1. g = [x \in kept \cup moved |-> IF x \in moved THEN f[Rebase(x, q, p)] ELSE f[x]]
  BY DEF MovedTo
<1>2. kept \cup moved = MovedSet(DOMAIN f, p, q)
  BY DEF MovedSet
<1>3. ASSUME NEW y \in moved PROVE y \in Keys /\ Under(q, y)
  <2>1. PICK x \in Below(p, DOMAIN f) : y = Rebase(x, p, q)
    OBVIOUS
  <2>2. x \in Keys /\ Under(p, x)
    BY DEF Below
  <2> QED BY <2>1, <2>2, RebaseBack, RebaseOrder
<1>4. ASSUME NEW y \in kept PROVE y \in Keys /\ ~ Under(q, y)
  BY DEF Below
<1> HIDE DEF g, moved, kept
<1>5. ASSUME NEW y \in DOMAIN g
      PROVE  y \in Keys /\ g[y] = IF Under(q, y) THEN f[Rebase(y, q, p)] ELSE f[y]
  <2>1. y \in kept \cup moved /\ g[y] = IF y \in moved THEN f[Rebase(y, q, p)] ELSE f[y]
    BY <1>1
  <2>2. CASE y \in moved
    BY <1>3, <2>1, <2>2
  <2>3. CASE y \notin moved
    BY <1>4, <2>1, <2>3
  <2> QED BY <2>2, <2>3
<1>6. DOMAIN g = MovedSet(DOMAIN f, p, q)
  BY <1>1, <1>2
<1> QED BY <1>5, <1>6 DEF g

LEMMA MovedMarksAre ==
    ASSUME marks \subseteq Keys, NEW p \in Keys, NEW q \in Keys,
           \A x \in marks : Under(q, x) => x = q,
           NEW x \in (MovedMarks(p, q) \cup {p}) \ {q}
    PROVE  \/ x = p
           \/ x \in marks /\ ~ Under(p, x) /\ ~ Under(q, x)
           \/ /\ x \in Keys /\ Under(q, x) /\ x # q
              /\ Rebase(x, q, p) \in marks /\ Rebase(x, q, p) # p
<1>1. CASE x \in { Rebase(y, p, q) : y \in Below(p, marks) \ {p} }
  <2>1. PICK y \in Below(p, marks) \ {p} : x = Rebase(y, p, q)
    BY <1>1
  <2>2. y \in Keys /\ Under(p, y) /\ y \in marks /\ y # p
    BY DEF Below
  <2>3. x \in Keys /\ Under(q, x) /\ Rebase(x, q, p) = y
    BY <2>1, <2>2, RebaseBack, RebaseOrder
  <2> QED BY <2>2, <2>3
<1>2. CASE x \in { y \in marks : ~ Under(p, y) \/ y = p }
  BY <1>2
<1> QED BY <1>1, <1>2 DEF MovedMarks

\* The directories on the way to what has moved have moved, or are there.
LEMMA MovedWay ==
    ASSUME NEW d, d \subseteq Keys, NEW p \in Keys, NEW q \in Keys,
           ~ Under(p, q), ~ Under(q, p), DirsTo(q) \subseteq d,
           NEW x \in Keys,
           \/ Under(q, x) /\ DirsTo(Rebase(x, q, p)) \subseteq d
           \/ ~ Under(q, x) /\ ~ Under(p, x) /\ DirsTo(x) \subseteq d
    PROVE  DirsTo(x) \subseteq MovedSet(d, p, q)
<1> SUFFICES ASSUME NEW y \in DirsTo(x) PROVE y \in MovedSet(d, p, q)
  OBVIOUS
<1>1. y \in Keys /\ Under(y, x) /\ y # x
  BY WayIs
<1>2. CASE ~ Under(q, x) /\ ~ Under(p, x) /\ DirsTo(x) \subseteq d
  <2>1. ~ Under(q, y) /\ ~ Under(p, y)
    BY <1>1, <1>2, UnderOrder
  <2> QED BY <1>1, <1>2, <2>1, MovedIs
<1>3. CASE Under(q, x) /\ DirsTo(Rebase(x, q, p)) \subseteq d
  <2>1. Under(q, y) \/ Under(y, q)
    BY <1>1, <1>3, UnderOrder
  <2>2. CASE Under(q, y)
    <3>1. Rebase(y, q, p) \in Keys /\ Rebase(x, q, p) \in Keys
          /\ Under(Rebase(y, q, p), Rebase(x, q, p))
      BY <1>1, <1>3, <2>2, RebaseBack, RebaseOrder
    <3>2. Rebase(y, q, p) # Rebase(x, q, p)
      <4>1. Rebase(Rebase(y, q, p), p, q) = y /\ Rebase(Rebase(x, q, p), p, q) = x
        BY <1>1, <1>3, <2>2, RebaseBack
      <4> QED BY <1>1, <4>1
    <3>3. Rebase(y, q, p) \in d
      BY <1>3, <3>1, <3>2, WayIs
    <3> QED BY <1>1, <2>2, <3>3, MovedIs
  <2>3. CASE ~ Under(q, y)
    <3>1. Under(y, q) /\ y # q
      BY <2>1, <2>3, UnderItself
    <3>2. y \in d
      BY <1>1, <3>1, WayIs
    <3>3. ~ Under(p, y)
      BY <1>1, <3>1, UnderOrder
    <3> QED BY <1>1, <2>3, <3>2, <3>3, MovedIs
  <2> QED BY <2>2, <2>3
<1> QED BY <1>2, <1>3

LEMMA RenamedTree ==
    ASSUME NEW f, NEW d, DOMAIN f \subseteq Keys, d \subseteq Keys, marks \subseteq Keys,
           Tree(f, d, marks),
           NEW p \in Keys \ {<<>>}, NEW q \in Keys \ {<<>>}, ~ Under(p, q), ~ Under(q, p),
           DirsTo(p) \subseteq d, DirsTo(q) \subseteq d, \A x \in marks : Under(q, x) => x = q
    PROVE  Tree(MovedTo(f, p, q), MovedSet(d, p, q) \cup DirsTo(p), (MovedMarks(p, q) \cup {p}) \ {q})
<1> DEFINE g == MovedTo(f, p, q)
           there == MovedSet(d, p, q)
           k == (MovedMarks(p, q) \cup {p}) \ {q}
<1>1. DOMAIN g = MovedSet(DOMAIN f, p, q) /\ \A y \in DOMAIN g : y \in Keys
  BY MovedToIs
<1>2. \A x \in k : \/ x = p
                   \/ x \in marks /\ ~ Under(p, x) /\ ~ Under(q, x)
                   \/ /\ x \in Keys /\ Under(q, x) /\ x # q
                      /\ Rebase(x, q, p) \in marks /\ Rebase(x, q, p) # p
  BY MovedMarksAre
<1>3. there \subseteq Keys
  <2>1. ASSUME NEW x \in Below(p, d) PROVE Rebase(x, p, q) \in Keys
    BY RebaseBack DEF Below
  <2> QED BY <2>1 DEF MovedSet
<1> HIDE DEF g, there, k
<1>4. \A y \in Keys : /\ y \in DOMAIN g <=> IF Under(q, y) THEN Rebase(y, q, p) \in DOMAIN f
                                           ELSE y \in DOMAIN f /\ ~ Under(p, y)
                      /\ y \in there <=> IF Under(q, y) THEN Rebase(y, q, p) \in d
                                        ELSE y \in d /\ ~ Under(p, y)
  BY <1>1, MovedIs DEF there
<1>5. <<>> \in there
  <2>1. <<>> \in Keys /\ Len(<<>>) = 0 /\ Len(p) # 0 /\ Len(q) # 0
    BY EmptySeq DEF Keys
  <2>2. ~ Under(p, <<>>) /\ ~ Under(q, <<>>)
    BY <2>1, UnderIs
  <2> QED BY <1>4, <2>1, <2>2 DEF Tree
<1>6. ASSUME NEW y \in DOMAIN g, y \in there \cup DirsTo(p) PROVE FALSE
  <2>1. y \in Keys
    BY <1>1
  <2>2. CASE y \in there
    BY <1>4, <2>1, <2>2 DEF Tree
  <2>3. CASE y \in DirsTo(p)
    <3>1. Under(y, p) /\ y \in d
      BY <2>3, WayIs
    <3>2. ~ Under(q, y)
      BY <2>1, <3>1, UnderOrder
    <3> QED BY <1>4, <2>1, <3>1, <3>2 DEF Tree
  <2> QED BY <1>6, <2>2, <2>3
<1>7. ASSUME NEW x \in DOMAIN g \cup there \cup DirsTo(p) \cup k
      PROVE  DirsTo(x) \subseteq there \cup DirsTo(p)
  <2>1. CASE x \in DirsTo(p) \cup {p}
    BY <2>1, WayParts
  <2>2. CASE x \in DOMAIN g \cup there
    <3>1. x \in Keys
      BY <1>1, <1>3, <2>2
    <3>2. \/ Under(q, x) /\ Rebase(x, q, p) \in DOMAIN f \cup d
          \/ ~ Under(q, x) /\ ~ Under(p, x) /\ x \in DOMAIN f \cup d
      BY <1>4, <2>2, <3>1
    <3>3. \/ Under(q, x) /\ DirsTo(Rebase(x, q, p)) \subseteq d
          \/ ~ Under(q, x) /\ ~ Under(p, x) /\ DirsTo(x) \subseteq d
      BY <3>2 DEF Tree
    <3>4. DirsTo(x) \subseteq there
      BY <3>1, <3>3, MovedWay DEF there
    <3> QED BY <3>4
  <2>3. CASE x \in k /\ x # p
    <3>1. x \in Keys
      BY <1>2, <2>3
    <3>2. \/ Under(q, x) /\ Rebase(x, q, p) \in marks
          \/ ~ Under(q, x) /\ ~ Under(p, x) /\ x \in marks
      BY <1>2, <2>3
    <3>3. \/ Under(q, x) /\ DirsTo(Rebase(x, q, p)) \subseteq d
          \/ ~ Under(q, x) /\ ~ Under(p, x) /\ DirsTo(x) \subseteq d
      BY <3>2 DEF Tree
    <3>4. DirsTo(x) \subseteq there
      BY <3>1, <3>3, MovedWay DEF there
    <3> QED BY <3>4
  <2> QED BY <2>1, <2>2, <2>3
<1>8. Tree(g, there \cup DirsTo(p), k)
  BY <1>5, <1>6, <1>7 DEF Tree
<1> QED BY <1>8 DEF g, there, k

LEMMA RenamedKept ==
    ASSUME NEW f, NEW d, DOMAIN f \subseteq Keys, d \subseteq Keys, marks \subseteq Keys,
           NEW m, MapInv(m), NEW packed, NEW wr, Kept(f, d, marks, m, packed, wr),
           NEW p \in Keys \ {<<>>}, NEW q \in Keys \ {<<>>}, ~ Under(p, q), ~ Under(q, p),
           q \in Seq(Names), p \in DOMAIN m.path_to_ino,
           DirsTo(p) \subseteq d, \A x \in DirsTo(q) : x # <<>> => x \notin marks,
           \A x \in marks : Under(q, x) => x = q,
           \A w \in DOMAIN wr : Under(p, w) =>
               w \in DOMAIN f /\ Len(q) + (Len(w) - Len(p)) <= Depth
    PROVE  Kept(MovedTo(f, p, q), MovedSet(d, p, q) \cup DirsTo(p), (MovedMarks(p, q) \cup {p}) \ {q},
                rename_path(m, p, q), packed, MovedTo(wr, p, q))
<1> DEFINE g == MovedTo(f, p, q)
           there == MovedSet(d, p, q)
           k == (MovedMarks(p, q) \cup {p}) \ {q}
           new == rename_path(m, p, q)
           wrote == MovedTo(wr, p, q)
<1>0. DOMAIN wr \subseteq Keys /\ \A w \in DOMAIN wr : w \in Keys \ {<<>>}
  BY KeptIsKey
<1>1. /\ DOMAIN g = MovedSet(DOMAIN f, p, q)
      /\ \A y \in DOMAIN g : y \in Keys /\ g[y] = IF Under(q, y) THEN f[Rebase(y, q, p)] ELSE f[y]
  BY MovedToIs
<1>2. /\ DOMAIN wrote = MovedSet(DOMAIN wr, p, q)
      /\ \A y \in DOMAIN wrote :
            y \in Keys /\ wrote[y] = IF Under(q, y) THEN wr[Rebase(y, q, p)] ELSE wr[y]
  BY <1>0, MovedToIs
<1>3. \A x \in k : \/ x = p
                   \/ x \in marks /\ ~ Under(p, x) /\ ~ Under(q, x)
                   \/ /\ x \in Keys /\ Under(q, x) /\ x # q
                      /\ Rebase(x, q, p) \in marks /\ Rebase(x, q, p) # p
  BY MovedMarksAre
<1>4. q \notin k
  OBVIOUS
<1> HIDE DEF g, there, k, new, wrote
<1>5. \A y \in Keys : /\ y \in DOMAIN g <=> IF Under(q, y) THEN Rebase(y, q, p) \in DOMAIN f
                                           ELSE y \in DOMAIN f /\ ~ Under(p, y)
                      /\ y \in there <=> IF Under(q, y) THEN Rebase(y, q, p) \in d
                                        ELSE y \in d /\ ~ Under(p, y)
                      /\ y \in DOMAIN wrote <=> IF Under(q, y) THEN Rebase(y, q, p) \in DOMAIN wr
                                               ELSE y \in DOMAIN wr /\ ~ Under(p, y)
  BY <1>0, <1>1, <1>2, MovedIs DEF there
<1>6. ASSUME NEW w \in DOMAIN wrote, Under(q, w)
      PROVE  /\ w \in Seq(Names) \ {<<>>} /\ Len(w) <= Depth
             /\ WayTo(w) \cap k = {} /\ w \in DOMAIN g /\ g[w] = wrote[w]
  <2> DEFINE w0 == Rebase(w, q, p)
  <2>1. /\ w \in Keys /\ w0 \in Keys /\ w0 \in DOMAIN wr /\ Under(p, w0)
        /\ w = Rebase(w0, p, q) /\ wrote[w] = wr[w0]
    BY <1>2, <1>5, <1>6, RebaseBack, RebaseOrder
  <2>2. w0 \in Seq(Names) /\ w0 \in DOMAIN f /\ f[w0] = wr[w0] /\ WayTo(w0) \cap marks = {}
        /\ Len(q) + (Len(w0) - Len(p)) <= Depth
    BY <2>1 DEF Kept
  <2>3. w \in Seq(Names) /\ Len(w) = Len(q) + (Len(w0) - Len(p))
    <3> HIDE DEF w0
    <3>1. q \in Seq(Names) /\ w0 \in Seq(Names) => Rebase(w0, p, q) \in Seq(Names)
      BY <2>1, RebaseNames
    <3>2. Len(Rebase(w0, p, q)) = Len(q) + (Len(w0) - Len(p))
      BY <2>1, RebaseBack
    <3> QED BY <2>1, <2>2, <3>1, <3>2
  <2>4. w # <<>>
    <3>1. Len(q) \in Nat \ {0} /\ Len(w0) \in Nat /\ Len(p) \in Nat /\ Len(p) <= Len(w0)
      BY <2>1, UnderIs, EmptySeq DEF Keys
    <3> QED BY <2>3, <3>1, EmptySeq
  <2>5. w \in DOMAIN g /\ g[w] = f[w0]
    BY <1>1, <1>5, <1>6, <2>1, <2>2
  <2>6. ASSUME NEW x \in WayTo(w), x \in k PROVE FALSE
    <3>1. x \in Keys /\ Under(x, w) /\ x # <<>>
      BY <2>1, WayIs
    <3>2. Under(q, x) \/ Under(x, q)
      BY <1>6, <2>1, <3>1, UnderOrder
    <3>3. CASE Under(q, x)
      <4>1. x # q /\ x # p
        BY <1>4, <2>6, <3>3
      <4>2. Rebase(x, q, p) \in marks
        BY <1>3, <2>6, <3>3, <4>1
      <4>3. Rebase(x, q, p) \in Keys /\ Under(Rebase(x, q, p), w0) /\ Under(p, Rebase(x, q, p))
        BY <1>6, <2>1, <3>1, <3>3, RebaseBack, RebaseOrder
      <4>4. Rebase(x, q, p) # <<>>
        <5>1. Len(p) # 0 /\ Len(<<>>) = 0 /\ <<>> \in Keys /\ Len(p) \in Nat
          BY EmptySeq, LenProperties DEF Keys
        <5>2. ~ Under(p, <<>>)
          BY <5>1, UnderIs
        <5> QED BY <4>3, <5>2
      <4>5. Rebase(x, q, p) \in WayTo(w0)
        BY <2>1, <4>3, <4>4, WayIs
      <4> QED BY <2>2, <4>2, <4>5
    <3>4. CASE ~ Under(q, x)
      <4>1. Under(x, q) /\ x # q
        BY <3>2, <3>4, UnderItself
      <4>2. x \in DirsTo(q) /\ ~ Under(p, x)
        BY <3>1, <4>1, WayIs, UnderOrder
      <4>3. x # p
        BY <4>1
      <4> QED BY <1>3, <2>6, <3>1, <3>4, <4>2, <4>3
    <3> QED BY <3>3, <3>4
  <2> QED BY <2>1, <2>2, <2>3, <2>4, <2>5, <2>6
<1>7. ASSUME NEW w \in DOMAIN wrote, ~ Under(q, w)
      PROVE  /\ w \in Seq(Names) \ {<<>>} /\ Len(w) <= Depth
             /\ WayTo(w) \cap k = {}
             /\ w \in DOMAIN g => g[w] = wrote[w]
             /\ w \notin DOMAIN g => FromArchive(g, there \cup DirsTo(p), new, packed, w, wrote[w])
  <2>1. w \in Keys \ {<<>>} /\ w \in DOMAIN wr /\ ~ Under(p, w) /\ wrote[w] = wr[w]
    BY <1>0, <1>2, <1>5, <1>7
  <2>2. \A x \in WayTo(w) : x \in Keys /\ ~ Under(p, x) /\ ~ Under(q, x)
    BY <1>7, <2>1, WayIs, UnderOrder
  <2>3. WayTo(w) \cap k = {}
    BY <1>3, <2>1, <2>2, UnderItself DEF Kept
  <2>4. w \in DOMAIN g <=> w \in DOMAIN f
    BY <1>5, <1>7, <2>1
  <2>5. w \in DOMAIN g => g[w] = wrote[w]
    BY <1>1, <1>7, <2>1, <2>4 DEF Kept
  <2>6. ASSUME w \notin DOMAIN g
        PROVE  FromArchive(g, there \cup DirsTo(p), new, packed, w, wrote[w])
    <3>1. FromArchive(f, d, m, packed, w, wr[w])
      BY <2>1, <2>4, <2>6 DEF Kept
    <3>2. FromMap(new, w) /\ new.nodes[w].data = m.nodes[w].data
      BY <1>7, <2>1, <3>1, RenameLeaves DEF FromArchive, new
    <3>3. w \notin there \cup DirsTo(p)
      BY <1>5, <1>7, <2>1, <3>1 DEF FromArchive
    <3>4. WayTo(w) \cap DOMAIN g = {}
      BY <1>5, <2>2, <3>1 DEF FromArchive
    <3> QED BY <2>1, <3>1, <3>2, <3>3, <3>4 DEF FromArchive
  <2> QED BY <2>1, <2>3, <2>5, <2>6 DEF Kept
<1>8. Kept(g, there \cup DirsTo(p), k, new, packed, wrote)
  BY <1>6, <1>7 DEF Kept
<1> QED BY <1>8 DEF g, there, k, new, wrote

\* A marker is in a directory for markers.
MarkersMarked == \A x \in marks : Front(x) \in marked

\* Where no directory for markers is, no marker is.
LEMMA NothingMarkedBelow ==
    ASSUME MarkersMarked, MarkedThere, dirs \subseteq Keys, marks \subseteq Keys,
           NEW q \in Keys \ {<<>>}, \A x \in MarkerDirs : Under(q, x) => x = q,
           NEW x \in marks, Under(q, x)
    PROVE  x = q
<1> SUFFICES ASSUME x # q PROVE FALSE
  OBVIOUS
<1>1. x \in Keys \ {<<>>}
  <2>1. q \in DirsTo(x)
    BY WayIs
  <2> QED BY <2>1, EmptySeq DEF DirsTo
<1>2. Front(x) \in Keys /\ Under(q, Front(x))
  <2>1. q = Front(x) \/ q \in DirsTo(Front(x))
    BY <1>1, ParentIs, WayIs
  <2> QED BY <1>1, <2>1, ParentIs, WayIs, UnderItself
<1> DEFINE at == Append(Front(x), Whiteout)
<1>3. at \in MarkerDirs
  BY DEF MarkersMarked, MarkerDirs
<1>4. /\ at \in Keys /\ Len(at) = Len(Front(x)) + 1
      /\ \A i \in 1..Len(Front(x)) : at[i] = Front(x)[i]
  BY <1>2, AppendIsKey, AppendProperties DEF Keys, Entry
<1> HIDE DEF at
<1>5. /\ Len(Front(x)) \in Nat /\ Len(q) \in Nat /\ Len(q) <= Len(Front(x))
      /\ \A i \in 1..Len(q) : q[i] = Front(x)[i]
  BY <1>2, UnderIs
<1>6. Under(q, at)
  <2>1. /\ Len(q) <= Len(at) /\ \A i \in 1..Len(q) : q[i] = at[i]
    BY <1>4, <1>5
  <2> QED BY <1>4, <2>1, UnderIs
<1>7. at = q
  BY <1>3, <1>6
<1> QED BY <1>4, <1>5, <1>7

LEMMA RenameSurvives ==
    ASSUME NEW packed, KeptHere(packed), MarkersMarked, MarkedThere, NEW p \in Paths, NEW q \in Paths, rename(p, q)
    PROVE  KeptThere(packed)
<1> DEFINE ino == get_inode(inodes, p)
           copied == IF OnOverlay(p) THEN files ELSE CopiedUp(p, ino)
           cow == IF OnOverlay(p) THEN dirs ELSE CowDirs(p, ino)
           made == cow \cup WithParent(q)
           wrote == IF FileAt(p) THEN With(written, p, Expected(p))
                                 ELSE Without(written, LeftBehind(p))
<1>1. /\ p \in Keys \ {<<>>} /\ q \in Keys \ {<<>>} /\ q \in Seq(Names) /\ p \in Seq(Names) \ {<<>>}
      /\ Len(q) <= 2 /\ Len(p) <= Depth
      /\ MapInv(inodes) /\ DOMAIN files \subseteq Keys /\ dirs \subseteq Keys /\ marks \subseteq Keys
  BY PathsAreShort DEF KeptHere, HostInv
<1>2. /\ p # q /\ Exists(p) /\ DirAt(Front(q)) /\ ~ Under(p, q)
      /\ DirAt(p) => q \in Tops
      /\ Exists(q) => (DirAt(p) <=> DirAt(q))
  BY DEF rename, MayRename
<1>3. \/ /\ HostRenames(copied, p, q)
         /\ files' = MovedTo(copied, p, q)
         /\ dirs' = MovedSet(made, p, q) \cup DirsTo(p)
         /\ inodes' = rename_path(inodes, p, q)
         /\ marks' = (MovedMarks(p, q) \cup {p}) \ {q}
         /\ written' = MovedTo(wrote, p, q)
      \/ files' = copied /\ dirs' = made /\ UNCHANGED <<marks, inodes, written>>
  BY DEF rename
<1>4. /\ \A x \in DirsTo(p) : Enterable(inodes, x)
      /\ Walk(inodes, p) = InodeAt(inodes, p) /\ p \in DOMAIN inodes.path_to_ino /\ p \notin marks
  BY <1>1, <1>2, FoundWay DEF Exists
<1>5. \A x \in DirsTo(q) : Enterable(inodes, x)
  BY <1>1, <1>2, ParentWay
<1>6. ino = Walk(inodes, p)
  BY <1>1, <1>4 DEF InodeAt, get_inode
<1>7. \/ /\ FileAt(p) /\ copied = CopiedUp(p, ino) /\ cow = CowDirs(p, ino)
      \/ /\ DirAt(p) /\ ~ FileAt(p) /\ copied = files /\ cow = dirs /\ p \notin DOMAIN files
  <2>1. IsDir(inodes, ino) <=> IF OnOverlay(p) THEN p \in dirs ELSE ~ is_file(inodes, ino)
    BY <1>1, <1>4, <1>6, KindIs
  <2>2. CASE IsDir(inodes, ino)
    <3>1. DirAt(p) /\ ~ FileAt(p)
      BY <1>2, <1>6, <2>2 DEF DirAt, FileAt
    <3>2. copied = files /\ cow = dirs
      BY <2>1, <2>2 DEF CopiedUp, CowDirs
    <3>3. p \notin DOMAIN files
      BY <2>1, <2>2 DEF OnOverlay, KeptHere, Tree
    <3> QED BY <3>1, <3>2, <3>3
  <2>3. CASE ~ IsDir(inodes, ino)
    <3>1. FileAt(p)
      BY <1>2, <1>6, <2>3 DEF FileAt
    <3>2. copied = CopiedUp(p, ino) /\ cow = CowDirs(p, ino)
      BY DEF CopiedUp, CowDirs
    <3> QED BY <3>1, <3>2
  <2> QED BY <2>2, <2>3
<1>8. made = cow \cup DirsTo(q) /\ dirs \subseteq cow
  BY <1>7 DEF WithParent, CowDirs
<1> HIDE DEF ino, copied, cow, made, wrote
<1>9. /\ Tree(copied, cow, marks) /\ Kept(copied, cow, marks, inodes, packed, written)
      /\ DOMAIN files \subseteq DOMAIN copied /\ DOMAIN copied \subseteq DOMAIN files \cup {p}
      /\ cow \subseteq dirs \cup DirsTo(p)
      /\ FileAt(p) => /\ p \notin dirs /\ WayTo(p) \cap marks = {}
                      /\ p \in DOMAIN copied /\ copied[p] = Expected(p)
  <2>1. CASE FileAt(p) /\ copied = CopiedUp(p, ino) /\ cow = CowDirs(p, ino)
    <3>1. /\ p \notin dirs /\ WayTo(p) \cap marks = {}
          /\ p \in DOMAIN CopiedUp(p, ino) /\ CopiedUp(p, ino)[p] = Expected(p)
          /\ DOMAIN CopiedUp(p, ino) = DOMAIN files \cup {p}
          /\ CowDirs(p, ino) \subseteq dirs \cup DirsTo(p)
          /\ Tree(CopiedUp(p, ino), CowDirs(p, ino), marks)
          /\ Kept(CopiedUp(p, ino), CowDirs(p, ino), marks, inodes, packed, written)
      BY <1>6, <2>1, CopiedSurvives
    <3> QED BY <2>1, <3>1
  <2>2. CASE ~ FileAt(p) /\ copied = files /\ cow = dirs
    BY <2>2 DEF KeptHere
  <2> QED BY <1>7, <2>1, <2>2
<1>10. /\ \A x \in DirsTo(q) : DirsTo(x) \subseteq cow \cup DirsTo(q)
       /\ DirsTo(q) \cap DOMAIN copied = {}
       /\ \A w \in DOMAIN written : w \notin DOMAIN copied => w \notin DirsTo(q)
  <2>1. /\ \A x \in DirsTo(q) : DirsTo(x) \subseteq dirs \cup DirsTo(q)
        /\ DirsTo(q) \cap DOMAIN files = {}
        /\ \A w \in DOMAIN written : w \notin DOMAIN files => w \notin DirsTo(q)
    BY <1>1, <1>5, WayIsFree
  <2>2. p \notin DirsTo(q)
    BY <1>1, <1>2, WayIs
  <2> QED BY <1>8, <1>9, <2>1, <2>2
<1>11. Tree(copied, made, marks) /\ Kept(copied, made, marks, inodes, packed, written)
  BY <1>8, <1>9, <1>10, KeptDirs
<1>12. CASE files' = copied /\ dirs' = made /\ UNCHANGED <<marks, inodes, written>>
  BY <1>11, <1>12 DEF KeptThere
<1>13. CASE /\ HostRenames(copied, p, q)
            /\ files' = MovedTo(copied, p, q)
            /\ dirs' = MovedSet(made, p, q) \cup DirsTo(p)
            /\ inodes' = rename_path(inodes, p, q)
            /\ marks' = (MovedMarks(p, q) \cup {p}) \ {q}
            /\ written' = MovedTo(wrote, p, q)
  <2>1. ASSUME q \in dirs
        PROVE  \A x \in DOMAIN files \cup dirs \cup marks : Under(q, x) => x = q
    <3>1. \A x \in DOMAIN files \cup dirs \cup MarkerDirs : Under(q, x) => x = q
      BY <1>13, <2>1 DEF HostRenames, Below
    <3> QED BY <1>1, <3>1, NothingMarkedBelow
  <2>2. p \in DOMAIN copied \/ p \in dirs
    BY <1>13 DEF HostRenames
  <2>3. ~ Under(q, p)
    <3> SUFFICES ASSUME Under(q, p) PROVE FALSE
      OBVIOUS
    <3>1. q \in DirsTo(p)
      BY <1>1, <1>2, WayIs
    <3>2. Enterable(inodes, q) /\ \A x \in DirsTo(q) : Enterable(inodes, x)
      BY <1>4, <1>5, <3>1
    <3>3. Walk(inodes, q) = InodeAt(inodes, q) /\ Walk(inodes, q) # NoInode
      BY <1>1, <3>2, WayReaches DEF Enterable
    <3>4. Exists(q) /\ DirAt(q)
      BY <3>2, <3>3 DEF Exists, DirAt, Enterable
    <3>5. DirAt(p) /\ ~ FileAt(p)
      BY <1>2, <3>4 DEF DirAt, FileAt
    <3>6. p \in dirs
      BY <1>7, <2>2, <3>5
    <3>7. q \in dirs
      BY <3>1, <3>6 DEF KeptHere, Tree
    <3> QED BY <1>2, <2>1, <3>6, <3>7
  <2>4. DirsTo(p) \subseteq made /\ DirsTo(q) \subseteq made
    BY <1>8, <1>11, <2>2 DEF Tree
  <2>5. \A x \in marks : Under(q, x) => x = q
    <3> SUFFICES ASSUME NEW x \in marks, Under(q, x), x # q PROVE FALSE
      OBVIOUS
    <3>1. q \in DirsTo(x)
      BY <1>1, WayIs
    <3>2. q \in dirs
      BY <3>1 DEF KeptHere, Tree
    <3> QED BY <2>1, <3>2
  <2>6. Kept(copied, made, marks, inodes, packed, wrote)
    <3>1. CASE FileAt(p)
      <4>1. wrote = With(written, p, Expected(p))
        BY <3>1 DEF wrote
      <4>2. Kept(copied, made, marks, inodes, packed, With(written, p, Expected(p)))
        BY <1>1, <1>9, <1>11, <3>1, KeptWritten
      <4> QED BY <4>1, <4>2
    <3>2. CASE ~ FileAt(p)
      <4>1. /\ DOMAIN wrote \subseteq DOMAIN written
            /\ \A w \in DOMAIN wrote : wrote[w] = written[w]
        BY <3>2 DEF wrote, Without
      <4> QED BY <1>11, <4>1 DEF Kept
    <3> QED BY <3>1, <3>2
  <2>7. ASSUME NEW w \in DOMAIN wrote, Under(p, w)
        PROVE  w \in DOMAIN copied /\ Len(q) + (Len(w) - Len(p)) <= Depth
    <3>1. /\ Len(p) \in Nat \ {0} /\ Len(q) \in Nat /\ Len(w) \in Nat
          /\ w \in Keys \ {<<>>} /\ Len(w) <= Depth /\ Depth = 3
      <4>1. w \in Keys \ {<<>>} /\ Len(w) <= Depth
        BY <2>6, KeptIsKey DEF Kept
      <4> QED BY <1>1, <4>1, EmptySeq, LenProperties DEF Keys, Depth
    <3>2. CASE FileAt(p)
      <4>1. w = p
        <5> SUFFICES ASSUME w # p PROVE FALSE
          OBVIOUS
        <5>1. w \in DOMAIN written
          BY <3>2 DEF wrote, With
        <5>2. p \in DirsTo(w) /\ p \in WayTo(w)
          BY <1>1, <2>7, <3>1, WayIs
        <5>3. CASE w \in DOMAIN files
          BY <1>9, <3>2, <5>2, <5>3 DEF KeptHere, Tree
        <5>4. CASE w \notin DOMAIN files
          BY <3>2, <5>1, <5>2, <5>4, NotOnTheWay
        <5> QED BY <5>3, <5>4
      <4>2. Len(q) + (Len(w) - Len(p)) <= Depth
        BY <1>1, <3>1, <4>1
      <4> QED BY <1>9, <3>2, <4>1, <4>2
    <3>3. CASE ~ FileAt(p)
      <4>1. w \in DOMAIN written /\ w \notin LeftBehind(p)
        BY <3>3 DEF wrote, Without
      <4>2. w \in DOMAIN files
        BY <2>7, <4>1 DEF LeftBehind, Below
      <4>3. q \in Tops
        BY <1>2, <1>7, <3>3
      <4>4. Len(q) = 1
        BY <4>3 DEF Tops
      <4> QED BY <1>9, <3>1, <4>2, <4>4
    <3> QED BY <3>2, <3>3
  <2>8. DOMAIN copied \subseteq Keys /\ made \subseteq Keys
    <3>1. DirsTo(p) \subseteq Keys /\ DirsTo(q) \subseteq Keys
      BY <1>1, DirsToAreKeys
    <3> QED BY <1>1, <1>8, <1>9, <3>1
  <2>9. Tree(files', dirs', marks')
    BY <1>1, <1>2, <1>11, <1>13, <2>3, <2>4, <2>5, <2>8, RenamedTree
  <2>10. \A x \in DirsTo(q) : x # <<>> => x \notin marks
    BY <1>5 DEF Enterable
  <2>11. Kept(files', dirs', marks', inodes', packed, written')
    BY <1>1, <1>2, <1>4, <1>13, <2>3, <2>4, <2>5, <2>6, <2>7, <2>8, <2>10, RenamedKept
  <2> QED BY <2>9, <2>11 DEF KeptThere
<1> QED BY <1>3, <1>12, <1>13

-----------------------------------------------------------------------------
(* What commits, checkouts and mounts keep of it.                           *)

\* A file that a commit can read is at the end of a way of directories.
LEMMA ReadableWay ==
    ASSUME HostInv, NEW p \in Readable
    PROVE  /\ p \in Keys \ {<<>>} /\ p \in Collected /\ Walk(inodes, p) # NoInode
           /\ Walk(inodes, p) = InodeAt(inodes, p) /\ p \notin marks
           /\ ~ IsDir(inodes, Walk(inodes, p))
           /\ ~ Enterable(inodes, p)
           /\ \A x \in DirsTo(p) : Enterable(inodes, x)
<1>1. p \in Keys \ {<<>>} /\ p \in Collected /\ Walk(inodes, p) # NoInode /\ ~ FoundDir(p)
  BY CollectedAreKeys DEF Readable, Missing
<1>2. MapInv(inodes)
  BY DEF HostInv
<1>3. /\ \A x \in DirsTo(p) : Enterable(inodes, x)
      /\ Walk(inodes, p) = InodeAt(inodes, p) /\ p \notin marks
  BY <1>1, <1>2, FoundWay
<1>4. ~ IsDir(inodes, Walk(inodes, p))
  BY <1>1 DEF FoundDir
<1>5. ~ Enterable(inodes, p)
  BY <1>3, <1>4 DEF Enterable
<1> QED BY <1>1, <1>3, <1>4, <1>5

LEMMA HiddenWay ==
    ASSUME HostInv, NEW opened \in SUBSET Readable, NEW p \in Hidden(opened)
    PROVE  p \in Keys \ {<<>>} /\ \A x \in DirsTo(p) : Enterable(inodes, x)
<1>1. PICK q \in opened : IsMarker(q) /\ p = MarkedBy(q)
  BY DEF Hidden
<1>2. q \in Readable
  BY <1>1
<1>3. q \in Keys \ {<<>>} /\ \A x \in DirsTo(q) : Enterable(inodes, x)
  BY <1>2, ReadableWay
<1>4. p \in Keys \ {<<>>} /\ DirsTo(p) \subseteq DirsTo(q)
  BY <1>1, <1>3, MarkedBelow
<1> QED BY <1>3, <1>4

\* Opening files keeps what is written, but for what a marker hides.
LEMMA CopyUpSurvives ==
    ASSUME NEW packed, KeptHere(packed), NEW opened \in SUBSET Readable, CopyUp(opened),
           UNCHANGED inodes
    PROVE  KeptThere(packed)
<1> DEFINE up == { p \in opened : ~ IsMarker(p) /\ ~ OnOverlay(p) }
           made == UNION { DirsTo(p) : p \in up \cup Hidden(opened) }
<1>1. /\ files' = [p \in DOMAIN files \cup up |->
                      IF p \in up THEN read(inodes, Walk(inodes, p)) ELSE files[p]]
      /\ dirs' = dirs \cup made
      /\ marks' = marks \cup Hidden(opened)
      /\ written' = Without(written, { p \in DOMAIN written :
                                          \E q \in Hidden(opened) : Under(q, p) })
  BY DEF CopyUp
<1>2. /\ \A p \in up : p \in Readable /\ p \notin DOMAIN files /\ p \notin dirs
      /\ HostInv
  BY DEF OnOverlay, KeptHere
<1>3. ASSUME NEW p \in up \cup Hidden(opened)
      PROVE  p \in Keys \ {<<>>} /\ \A x \in DirsTo(p) : Enterable(inodes, x)
  BY <1>2, ReadableWay, HiddenWay
<1>4. ASSUME NEW x \in made
      PROVE  Enterable(inodes, x) /\ DirsTo(x) \subseteq made
  <2>1. PICK p \in up \cup Hidden(opened) : x \in DirsTo(p)
    OBVIOUS
  <2>2. Enterable(inodes, x) /\ DirsTo(x) \subseteq DirsTo(p)
    BY <1>3, <2>1, WayParts
  <2> QED BY <2>1, <2>2
<1>5. \A p \in up \cup Hidden(opened) : DirsTo(p) \subseteq made
  OBVIOUS
<1> HIDE DEF up, made
<1>6. DOMAIN files' = DOMAIN files \cup up /\ \A p \in DOMAIN files : p \notin up => files'[p] = files[p]
  BY <1>1
<1>7. Tree(files', dirs', marks')
  <2>1. made \cap DOMAIN files = {}
    BY <1>2, <1>4, EnterableIsNoFile DEF KeptHere, HostInv
  <2>2. made \cap up = {}
    BY <1>2, <1>4, ReadableWay
  <2>3. dirs' \cap DOMAIN files' = {}
    BY <1>1, <1>2, <1>6, <2>1, <2>2 DEF KeptHere, Tree
  <2> QED BY <1>1, <1>4, <1>5, <1>6, <2>3 DEF KeptHere, Tree
<1>8. ASSUME NEW w \in DOMAIN written'
      PROVE  /\ w \in DOMAIN written /\ written'[w] = written[w]
             /\ \A q \in Hidden(opened) : ~ Under(q, w)
  BY <1>1 DEF Without
<1>9. ASSUME NEW w \in DOMAIN written' PROVE WayTo(w) \cap marks' = {}
  <2>1. w \in Keys /\ WayTo(w) \cap marks = {}
    BY <1>8, KeptIsKey DEF KeptHere, Kept
  <2>2. \A x \in WayTo(w) : Under(x, w)
    BY <2>1, WayIs
  <2> QED BY <1>1, <1>8, <2>1, <2>2
<1>10. ASSUME NEW w \in DOMAIN written', w \in DOMAIN files' PROVE files'[w] = written'[w]
  <2>1. w \in DOMAIN written /\ written'[w] = written[w]
    BY <1>8
  <2>2. CASE w \in up
    <3>1. w \notin DOMAIN files
      BY <1>2, <2>2
    <3>2. Walk(inodes, w) = w /\ read(inodes, w) = written[w]
      BY <2>1, <3>1, InArchive
    <3> QED BY <1>1, <2>1, <2>2, <3>2
  <2>3. CASE w \notin up
    BY <1>6, <1>10, <2>1, <2>3 DEF KeptHere, Kept
  <2> QED BY <2>2, <2>3
<1>11. ASSUME NEW w \in DOMAIN written', w \notin DOMAIN files'
       PROVE  FromArchive(files', dirs', inodes', packed, w, written'[w])
  <2>1. /\ w \in DOMAIN written /\ written'[w] = written[w]
        /\ w \notin DOMAIN files /\ w \notin up
    BY <1>6, <1>8, <1>11
  <2>2. /\ \A x : Enterable(inodes, x) => x # w
        /\ \A x \in WayTo(w) : IsDir(inodes, Walk(inodes, x)) <=> x # w
    BY <2>1, InArchive
  <2>3. FromArchive(files, dirs, inodes, packed, w, written[w])
    BY <2>1 DEF KeptHere, Kept
  <2>4. w \notin made
    BY <1>4, <2>2
  <2>5. WayTo(w) \cap up = {}
    BY <1>2, <2>1, <2>2, ReadableWay
  <2> QED BY <1>1, <1>6, <2>1, <2>3, <2>4, <2>5 DEF FromArchive
<1>12. Kept(files', dirs', marks', inodes', packed, written')
  BY <1>8, <1>9, <1>10, <1>11 DEF KeptHere, Kept
<1> QED BY <1>7, <1>12 DEF KeptThere

\* A mount over the overlay of an archive that has what was packed keeps it.
LEMMA MountSurvives ==
    ASSUME HostInv, MarkedThere, NEW manifest, DOMAIN manifest \subseteq Keys \ {<<>>}, PrefixFree(manifest),
           NEW m, Kept(files, dirs, marks, m, manifest, written)
    PROVE  Kept(files, dirs, marks, MountedOver(manifest), manifest, written)
<1> DEFINE hostDirs == (dirs \ {<<>>}) \cup MarkerDirs
           hostFiles == DOMAIN files \cup { Front(p) \o <<Whiteout, Last(p)>> : p \in marks }
<1>1. MarkerDirs \subseteq Keys
  BY AppendIsKey DEF MarkerDirs, Entry, HostInv, MarkedThere
<1>2. ASSUME NEW p \in marks PROVE Front(p) \o <<Whiteout, Last(p)>> \in Keys \ {<<>>}
  <2>1. Front(p) \in Seq(Entry) /\ <<Whiteout, Last(p)>> \in Seq(Entry)
    BY LastIsEntry DEF Keys, Entry, HostInv
  <2>2. Front(p) \o <<Whiteout, Last(p)>> # <<>>
    BY <2>1, ConcatEqualIffEmpty
  <2> QED BY <2>1, <2>2, ConcatProperties DEF Keys
<1>3. hostDirs \in SUBSET Keys /\ hostFiles \in SUBSET (Keys \ {<<>>})
  BY <1>1, <1>2 DEF HostInv
<1>4. MountedOver(manifest) = Mounted(manifest, hostDirs, hostFiles)
  BY DEF MountedOver
<1> HIDE DEF hostDirs, hostFiles
<1>5. ASSUME NEW w \in DOMAIN manifest
      PROVE  FromMap(MountedOver(manifest), w) /\ MountedOver(manifest).nodes[w].data = manifest[w]
  BY <1>3, <1>4, MountedShows
<1> QED BY <1>5 DEF Kept, FromArchive

\* The walk of a commit enters the directories on the way to what is written, and
\* collects it.
LEMMA WrittenCollected ==
    ASSUME NEW packed, KeptHere(packed), NEW w \in DOMAIN written, w \notin DOMAIN files
    PROVE  w \in Readable /\ ~ IsMarker(w)
<1>1. /\ w \in Keys \ {<<>>} /\ FromMap(inodes, w) /\ Walk(inodes, w) = w
      /\ \A x \in WayTo(w) : Exists(x) /\ (IsDir(inodes, Walk(inodes, x)) <=> x # w)
  BY InArchive
<1>2. /\ w \in Seq(Names) \ {<<>>} /\ Len(w) <= Depth /\ MapInv(inodes)
      /\ <<>> \in dirs /\ w \notin dirs /\ WayTo(w) \cap (DOMAIN files \cup marks) = {}
  BY DEF KeptHere, HostInv, Kept, FromArchive, Tree
<1>3. Len(w) \in Nat /\ Len(w) # 0
  BY <1>2, LenProperties, EmptySeq
<1>4. ASSUME NEW x \in WayTo(w)
      PROVE  /\ Last(x) \in Listing(inodes, Walk(inodes, Front(x)))
             /\ Append(Front(x), Last(x)) = x
             /\ ListedAsDir(x) <=> x # w
             /\ FoundDir(x) <=> x # w
  <2>1. /\ Last(x) \in Listing(inodes, Walk(inodes, Front(x))) /\ Walk(inodes, Front(x)) = Front(x)
    BY <1>1, <1>2, ArchiveListed
  <2>2. x \in Keys \ {<<>>} /\ Append(Front(x), Last(x)) = x /\ Front(x) \in DOMAIN inodes.nodes
    BY <1>1, <1>2, ParentNode, ParentIs
  <2>3. /\ Last(x) \in DOMAIN inodes.nodes[Front(x)].children
        /\ inodes.nodes[Front(x)].children[Last(x)] = x
        /\ x \in DOMAIN inodes.nodes /\ inodes.nodes[x].dir = (x # w)
    BY <1>1 DEF FromMap
  <2>4. Last(x) \in readdir(inodes, Front(x))
    BY <2>2, <2>3 DEF readdir
  <2>5. ListedAsDir(x) <=> x # w
    BY <2>1, <2>3, <2>4 DEF ListedAsDir
  <2>6. FoundDir(x) <=> x # w
    BY <1>1 DEF FoundDir, Exists
  <2> QED BY <2>1, <2>2, <2>5, <2>6
<1> DEFINE P(k) == k \in 1..Len(w) => SubSeq(w, 1, k) \in Level[k]
<1>5. ASSUME NEW at, NEW x \in WayTo(w),
             Front(x) \in at, Front(x) = <<>> \/ (Front(x) \in WayTo(w) /\ Front(x) # w)
      PROVE  x \in NextLevel(at)
  <2> DEFINE entered == { p \in at : p = <<>> \/ (ListedAsDir(p) /\ FoundDir(p)) }
  <2>1. Front(x) \in entered
    BY <1>4, <1>5
  <2> HIDE DEF entered
  <2>2. x \in { Append(Front(x), n) : n \in Listing(inodes, Walk(inodes, Front(x))) }
    BY <1>4
  <2>3. x \in Entries(entered)
    BY <2>1, <2>2 DEF Entries
  <2> QED BY <2>3 DEF NextLevel, entered
<1>6. ASSUME NEW k \in 0..2, k < Len(w), SubSeq(w, 1, k) \in Level[k]
      PROVE  SubSeq(w, 1, k + 1) \in Level[k + 1]
  <2>1. PICK j \in 1..3 : j = k + 1
    OBVIOUS
  <2> DEFINE x == SubSeq(w, 1, j)
  <2>2. j \in 1..Len(w) /\ j \in 0..Len(w) /\ k \in 0..j /\ k \in 0..Len(w)
    BY <1>3, <1>6, <2>1
  <2>3. x \in Keys /\ Len(x) = j
    BY <1>1, <2>2, PrefixIsKey
  <2>4. Front(x) = SubSeq(w, 1, k)
    <3>1. Front(x) = SubSeq(x, 1, k)
      BY <2>1, <2>3 DEF Front
    <3>2. SubSeq(x, 1, k) = SubSeq(w, 1, k)
      BY <1>1, <2>2, PrefixOfPrefix
    <3> QED BY <3>1, <3>2
  <2>5. x \in WayTo(w)
    BY <2>2 DEF WayTo
  <2> HIDE DEF x
  <2>6. Front(x) = <<>> \/ (Front(x) \in WayTo(w) /\ Front(x) # w)
    <3>1. Len(Front(x)) = k
      BY <1>1, <2>2, <2>4, PrefixIsKey
    <3>2. k = 0 => Front(x) = <<>>
      BY <2>4, SubSeqEmpty
    <3>3. k # 0 => Front(x) \in WayTo(w)
      BY <1>3, <1>6, <2>4 DEF WayTo
    <3> QED BY <1>6, <3>1, <3>2, <3>3
  <2>7. x \in NextLevel(Level[k])
    BY <1>5, <1>6, <2>4, <2>5, <2>6
  <2>8. Level[j] = NextLevel(Level[k])
    <3>1. j \in 0..Depth /\ j # 0 /\ j - 1 = k
      BY <2>1 DEF Depth
    <3>2. Level[j] = IF j = 0 THEN {<<>>} ELSE NextLevel(Level[j - 1])
      BY <3>1, LevelIs
    <3> QED BY <3>1, <3>2
  <2> QED BY <2>1, <2>7, <2>8 DEF x
<1>7. SubSeq(w, 1, 0) \in Level[0]
  <2>1. PICK z \in 0..Depth : z = 0
    BY DEF Depth
  <2>2. Level[z] = IF z = 0 THEN {<<>>} ELSE NextLevel(Level[z - 1])
    BY LevelIs
  <2> QED BY <2>1, <2>2, SubSeqEmpty
<1>8. PICK n \in 1..3 : n = Len(w)
  <2>1. Len(w) <= 3
    BY <1>2 DEF Depth
  <2>2. \A l \in Nat : l <= 3 /\ l # 0 => l \in 1..3
    OBVIOUS
  <2>3. Len(w) \in 1..3
    BY <1>3, <2>1, <2>2
  <2> QED BY <2>3
<1>9. SubSeq(w, 1, n) \in Level[n]
  <2> DEFINE at(k) == SubSeq(w, 1, k) \in Level[k]
  <2>1. at(0)
    BY <1>7
  <2>2. \A k \in 0..2 : k < n /\ at(k) => at(k + 1)
    BY <1>6, <1>8
  <2> HIDE DEF at
  <2>3. at(n)
    <3>1. 0 < n /\ 0 \in 0..2 /\ 0 + 1 = 1
      OBVIOUS
    <3>2. at(1)
      BY <2>1, <2>2, <3>1
    <3>3. n > 1 => at(2)
      <4>1. 1 \in 0..2 /\ 1 + 1 = 2
        OBVIOUS
      <4> QED BY <2>2, <3>2, <4>1
    <3>4. n > 2 => at(3)
      <4>1. 2 \in 0..2 /\ 2 + 1 = 3 /\ (n > 2 => n > 1)
        OBVIOUS
      <4> QED BY <2>2, <3>3, <4>1
    <3>5. n = 1 \/ n = 2 \/ n = 3
      OBVIOUS
    <3> QED BY <3>2, <3>3, <3>4, <3>5
  <2> QED BY <2>3 DEF at
<1>10. w \in WayTo(w) /\ SubSeq(w, 1, n) = w /\ w \in Level[n] /\ n \in 1..Depth
  <2>1. SubSeq(w, 1, n) = w
    BY <1>1, <1>8, SubSeqFull DEF Keys
  <2> QED BY <1>1, <1>9, <2>1, WayParts DEF Depth
<1>11. w \in Readable
  <2>1. w \in Collected
    BY <1>4, <1>10 DEF Collected
  <2> QED BY <1>1, <1>4, <1>10, <2>1 DEF Readable, Missing, Exists
<1>12. ~ IsMarker(w)
  <2>1. ASSUME Len(w) > 1 PROVE w[Len(w) - 1] \in Names
    <3>1. Len(w) - 1 \in 1..Len(w)
      BY <1>3, <2>1
    <3> QED BY <1>2, <3>1, ElementOfSeq
  <2> QED BY <2>1, NamesAssumption DEF IsMarker
<1> QED BY <1>11, <1>12

\* What was committed of what programs wrote is what they wrote.
SavedIs(manifest, kept) ==
    /\ PrefixFree(manifest)
    /\ \A p \in DOMAIN kept :
          /\ p \in Seq(Names) \ {<<>>} /\ Len(p) <= Depth
          /\ p \in DOMAIN manifest /\ manifest[p] = kept[p]

LEMMA CommitSavesWhatIsSeen ==
    ASSUME NEW packed, KeptHere(packed), NEW manifest,
           manifest = [p \in Readable |-> read(inodes, Walk(inodes, p))]
    PROVE  SavedIs(manifest, [p \in DOMAIN written \cap Readable |-> written[p]])
<1>1. ASSUME NEW p \in Readable, NEW q \in Readable, Under(p, q) PROVE p = q
  <2>1. /\ p \in Keys /\ q \in Keys /\ ~ Enterable(inodes, p)
        /\ \A x \in DirsTo(q) : Enterable(inodes, x)
    BY ReadableWay DEF KeptHere
  <2>2. p \notin DirsTo(q)
    BY <2>1
  <2> QED BY <1>1, <2>1, <2>2, WayIs
<1>2. ASSUME NEW p \in DOMAIN written \cap Readable
      PROVE  /\ p \in Seq(Names) \ {<<>>} /\ Len(p) <= Depth
             /\ read(inodes, Walk(inodes, p)) = written[p]
  <2>1. Holds(inodes, p, written[p])
    BY KeptIsSeen DEF KeptHere, HostInv
  <2> QED BY <2>1 DEF Holds, KeptHere, Kept
<1> QED BY <1>1, <1>2 DEF SavedIs, PrefixFree

\* After a commit everything that is written is on the overlay.
LEMMA CommitSurvives ==
    ASSUME NEW packed, KeptHere(packed), Collected = Readable, CopyUp(Readable),
           UNCHANGED inodes, NEW manifest
    PROVE  KeptThere(manifest)
<1>1. KeptThere(packed)
  BY CopyUpSurvives
<1>2. ASSUME NEW w \in DOMAIN written' PROVE w \in DOMAIN files'
  <2> DEFINE up == { p \in Readable : ~ IsMarker(p) /\ ~ OnOverlay(p) }
  <2>1. w \in DOMAIN written
    BY DEF CopyUp, Without
  <2>2. DOMAIN files' = DOMAIN files \cup up
    BY DEF CopyUp
  <2>3. CASE w \in DOMAIN files
    BY <2>2, <2>3
  <2>4. CASE w \notin DOMAIN files
    <3>1. w \in Readable /\ ~ IsMarker(w)
      BY <2>1, <2>4, WrittenCollected
    <3>2. w \notin dirs
      BY <2>1, <2>4 DEF KeptHere, Kept, FromArchive
    <3> QED BY <2>2, <2>4, <3>1, <3>2 DEF OnOverlay
  <2> QED BY <2>3, <2>4
<1>3. Kept(files', dirs', marks', inodes', manifest, written')
  BY <1>1, <1>2 DEF KeptThere, Kept
<1> QED BY <1>1, <1>3 DEF KeptThere

-----------------------------------------------------------------------------
(* Every state keeps what programs wrote.                                   *)

\* What a mount can count on to be in an archive: what was committed, once that
\* is what is mounted.
Packed == IF archive = committed THEN committed ELSE <<>>

SavedInv == SavedIs(committed, saved)

WInv ==
    /\ IInv /\ MarkersMarked
    /\ Tree(files, dirs, marks) /\ Kept(files, dirs, marks, inodes, Packed, written)
    /\ SavedInv

\* Until then everything that is written is on the overlay.
LEMMA KeptInEither ==
    ASSUME WInv
    PROVE  /\ KeptHere(Packed)
           /\ Kept(files, dirs, marks, inodes, committed, written)
           /\ DOMAIN committed \subseteq Keys \ {<<>>} /\ DOMAIN archive \subseteq Keys \ {<<>>}
           /\ archive # committed => DOMAIN written \subseteq DOMAIN files
<1>1. KeptHere(Packed) /\ DOMAIN committed \subseteq Keys \ {<<>>} /\ DOMAIN archive \subseteq Keys \ {<<>>}
  BY DEF WInv, IInv, KeysInv, KeptHere, HostInv
<1>2. ASSUME archive # committed PROVE DOMAIN written \subseteq DOMAIN files
  <2>1. Packed = <<>> /\ DOMAIN <<>> = {}
    BY <1>2 DEF Packed
  <2>2. ASSUME NEW w \in DOMAIN written, w \notin DOMAIN files PROVE FALSE
    <3>1. w \in DOMAIN Packed
      BY <2>2 DEF WInv, Kept, FromArchive
    <3> QED BY <2>1, <3>1
  <2> QED BY <2>2
<1>3. Kept(files, dirs, marks, inodes, committed, written)
  <2>1. CASE archive = committed
    BY <2>1 DEF WInv, Packed
  <2>2. CASE archive # committed
    BY <1>2, <2>2 DEF WInv, Kept
  <2> QED BY <2>1, <2>2
<1> QED BY <1>1, <1>2, <1>3

\* The next mount keeps it, too.
LEMMA RemountSurvives ==
    ASSUME WInv
    PROVE  /\ MapInv(Remounted) /\ HasInodes(DOMAIN files \cup dirs, Remounted)
           /\ Kept(files, dirs, marks, Remounted, Packed, written)
<1>1. /\ HostInv /\ MarkedThere /\ Kept(files, dirs, marks, inodes, committed, written)
      /\ DOMAIN committed \subseteq Keys \ {<<>>} /\ DOMAIN archive \subseteq Keys \ {<<>>}
      /\ archive # committed => DOMAIN written \subseteq DOMAIN files
  BY KeptInEither DEF KeptHere, WInv, IInv
<1>2. MapInv(Remounted) /\ HasInodes(DOMAIN files \cup dirs, Remounted)
  BY <1>1, MountKeeps DEF Remounted
<1>3. CASE archive = committed
  <2>1. PrefixFree(committed)
    BY DEF WInv, SavedInv, SavedIs
  <2>2. Kept(files, dirs, marks, MountedOver(committed), committed, written)
    BY <1>1, <2>1, MountSurvives
  <2>3. Remounted = MountedOver(committed) /\ Packed = committed
    BY <1>3 DEF Remounted, Packed
  <2> QED BY <1>2, <2>2, <2>3
<1>4. CASE archive # committed
  <2>1. Kept(files, dirs, marks, Remounted, Packed, written)
    BY <1>1, <1>4 DEF Kept
  <2> QED BY <1>2, <2>1
<1> QED BY <1>3, <1>4

\* A path below one that moves, and the directory it is in, move alike.
LEMMA RebasedFront ==
    ASSUME NEW x \in Keys, NEW old \in Keys, NEW new \in Keys, Under(old, x), x # old
    PROVE  /\ x # <<>> /\ Front(x) \in Keys /\ Under(old, Front(x))
           /\ Front(Rebase(x, old, new)) = Rebase(Front(x), old, new)
<1>1. x # <<>>
  <2>1. old \in DirsTo(x)
    BY WayIs
  <2> QED BY <2>1, EmptySeq DEF DirsTo
<1>2. Front(x) \in Keys /\ Under(old, Front(x)) /\ Under(Front(x), x) /\ Len(Front(x)) = Len(x) - 1
  <2>1. old = Front(x) \/ old \in DirsTo(Front(x))
    BY <1>1, ParentIs, WayIs
  <2> QED BY <1>1, <2>1, ParentIs, WayIs, UnderItself, LastIsEntry
<1> DEFINE y == Rebase(x, old, new)
           z == Rebase(Front(x), old, new)
<1>3. /\ y \in Keys /\ Len(y) = Len(new) + (Len(x) - Len(old))
      /\ z \in Keys /\ Len(z) = Len(new) + (Len(Front(x)) - Len(old))
      /\ Under(z, y)
  BY <1>2, RebaseBack, RebaseOrder
<1> HIDE DEF y, z
<1>4. /\ Len(x) \in Nat /\ Len(old) \in Nat /\ Len(new) \in Nat /\ Len(Front(x)) \in Nat
      /\ Len(old) <= Len(Front(x))
  BY <1>2, UnderIs
<1>5. y # <<>>
  BY <1>2, <1>3, <1>4, EmptySeq
<1>6. Front(y) \in Keys /\ Under(Front(y), y) /\ Len(Front(y)) = Len(y) - 1
  BY <1>3, <1>5, ParentIs, WayIs, LastIsEntry
<1>7. Len(Front(y)) = Len(z)
  BY <1>2, <1>3, <1>4, <1>6
<1>8. Front(y) = z
  BY <1>3, <1>6, <1>7, UnderOrder
<1> QED BY <1>1, <1>2, <1>8 DEF y, z

\* Markers are in directories for markers after a request, too.
LEMMA RequestMarkers ==
    ASSUME HostInv, MarkedThere, MarkersMarked, Tree(files, dirs, marks), Request
    PROVE  MarkersMarked'
<1>1. MapInv(inodes) /\ marks \subseteq Keys \ {<<>>} /\ marked \subseteq Keys
  BY DEF HostInv, MarkedThere
<1>2. ASSUME marked' = marked, marks' \subseteq marks PROVE MarkersMarked'
  BY <1>2 DEF MarkersMarked
<1>3. CASE \/ \E p \in Paths : create(p) \/ open(p) \/ write(p) \/ setattr(p)
           \/ \E p \in Tops : mkdir(p)
  BY <1>2, <1>3 DEF create, open, write, setattr, Change, mkdir
<1>4. CASE \E p \in Paths : unlink(p)
  <2>1. PICK p \in Paths : unlink(p)
    BY <1>4
  <2>2. get_inode(inodes', p) = NoInode
    BY <1>1, <2>1, RemovedIsGone DEF unlink
  <2> QED BY <1>2, <2>1, <2>2 DEF unlink
<1>5. CASE \E p \in Tops : rmdir(p)
  <2>1. PICK p \in Tops : rmdir(p)
    BY <1>5
  <2>2. get_inode(inodes', p) = NoInode
    BY <1>1, <2>1, RemovedIsGone DEF rmdir
  <2>3. /\ marked' = marked \ Below(p, marked)
        /\ marks' = { x \in marks : ~ Under(p, x) \/ x = p }
    BY <2>1, <2>2 DEF rmdir
  <2>4. ASSUME NEW x \in marks' PROVE ~ Under(p, Front(x))
    <3>1. p \in Keys \ {<<>>} /\ x \in Keys \ {<<>>}
      BY <1>1, <2>3, PathsAreKeys
    <3>2. Front(x) \in Keys /\ Under(Front(x), x) /\ Front(x) # x
      BY <3>1, ParentIs, WayIs
    <3> QED BY <2>3, <3>1, <3>2, UnderOrder
  <2> QED BY <2>3, <2>4 DEF MarkersMarked, Below
<1>6. CASE \E p, q \in Paths : rename(p, q)
  <2>1. PICK p \in Paths, q \in Paths : rename(p, q)
    BY <1>6
  <2>2. p \in Keys \ {<<>>} /\ q \in Keys \ {<<>>}
    BY PathsAreKeys
  <2>3. \/ marked' = marked /\ marks' = marks
        \/ /\ q \in dirs => \A x \in MarkerDirs : Under(q, x) => x = q
           /\ marked' = MovedSet(marked, p, q) \cup {Front(p)}
           /\ marks' = (MovedMarks(p, q) \cup {p}) \ {q}
    BY <2>1 DEF rename, HostRenames, Below
  <2>4. CASE /\ q \in dirs => \A x \in MarkerDirs : Under(q, x) => x = q
             /\ marked' = MovedSet(marked, p, q) \cup {Front(p)}
             /\ marks' = (MovedMarks(p, q) \cup {p}) \ {q}
    <3>1. ASSUME NEW x \in marks, Under(q, x) PROVE x = q
      <4> SUFFICES ASSUME x # q PROVE FALSE
        OBVIOUS
      <4>1. q \in DirsTo(x)
        BY <1>1, <2>2, <3>1, WayIs
      <4>2. q \in dirs
        BY <4>1 DEF Tree
      <4> QED BY <1>1, <2>2, <2>4, <3>1, <4>2, NothingMarkedBelow DEF HostInv
    <3>2. ASSUME NEW x \in marks' PROVE Front(x) \in marked'
      <4>1. CASE x = p
        BY <2>4, <4>1
      <4>2. CASE x \in marks /\ ~ Under(p, x) /\ ~ Under(q, x)
        <5>1. Front(x) \in Keys /\ Under(Front(x), x) /\ Front(x) \in marked
          BY <1>1, <4>2, ParentIs, WayIs DEF MarkersMarked
        <5>2. ~ Under(p, Front(x)) /\ ~ Under(q, Front(x))
          BY <1>1, <2>2, <4>2, <5>1, UnderOrder
        <5> QED BY <1>1, <2>2, <2>4, <5>1, <5>2, MovedIs
      <4>3. CASE /\ x \in Keys /\ Under(q, x) /\ x # q
                 /\ Rebase(x, q, p) \in marks /\ Rebase(x, q, p) # p
        <5>1. /\ Front(x) \in Keys /\ Under(q, Front(x))
              /\ Front(Rebase(x, q, p)) = Rebase(Front(x), q, p)
          BY <2>2, <4>3, RebasedFront
        <5>2. Rebase(Front(x), q, p) \in marked
          BY <4>3, <5>1 DEF MarkersMarked
        <5> QED BY <1>1, <2>2, <2>4, <5>1, <5>2, MovedIs
      <4> QED BY <1>1, <2>2, <2>4, <3>1, <3>2, <4>1, <4>2, <4>3, MovedMarksAre
    <3> QED BY <3>2 DEF MarkersMarked
  <2> QED BY <1>2, <2>3, <2>4
<1> QED BY <1>3, <1>4, <1>5, <1>6 DEF Request

LEMMA CommitMarkers ==
    ASSUME MarkersMarked, NEW opened, CopyUp(opened)
    PROVE  MarkersMarked'
BY DEF MarkersMarked, CopyUp

LEMMA NextSurvives ==
    ASSUME WInv, Next /\ UNCHANGED commitVars PROVE WInv'
<1>1. IInv' /\ MarkersMarked'
  <2>1. HostInv /\ MarkedThere /\ MarkersMarked /\ Tree(files, dirs, marks)
    BY KeptInEither DEF WInv, IInv, KeptHere
  <2>2. ASSUME Request PROVE MarkersMarked'
    BY <2>1, <2>2, RequestMarkers
  <2>3. ASSUME Remount PROVE MarkersMarked'
    BY <2>1, <2>3 DEF Remount, hostVars, MarkersMarked
  <2> QED BY <2>2, <2>3, NextKeeps DEF WInv, Next
<1>2. SavedInv'
  BY DEF WInv, SavedInv, SavedIs, commitVars
<1>3. KeptHere(Packed) /\ MarkedThere /\ MarkersMarked
  BY KeptInEither DEF WInv, IInv
<1>4. Packed' = Packed
  BY DEF Next, Remount, Packed, commitVars
<1>5. CASE Request
  <2>1. KeptThere(Packed)
    BY <1>3, <1>5, CreateSurvives, MkdirSurvives, OpenSurvives, ChangeSurvives, UnlinkSurvives,
       RmdirSurvives, RenameSurvives DEF Request
  <2> QED BY <1>1, <1>2, <1>4, <2>1 DEF WInv, KeptThere
<1>6. CASE Remount
  <2>1. inodes' = Remounted /\ UNCHANGED <<files, dirs, marks, written>>
    BY <1>6 DEF Remount, hostVars
  <2>2. Kept(files, dirs, marks, Remounted, Packed, written)
    BY RemountSurvives
  <2>3. Tree(files', dirs', marks')
    BY <2>1 DEF WInv
  <2>4. Kept(files', dirs', marks', inodes', Packed', written')
    BY <1>4, <2>1, <2>2
  <2> QED BY <1>1, <1>2, <2>3, <2>4 DEF WInv
<1> QED BY <1>5, <1>6 DEF Next

LEMMA CommandsSurvive ==
    ASSUME WInv, Commands PROVE WInv'
<1>1. IInv' /\ MarkersMarked'
  <2>1. ASSUME \E opened : CopyUp(opened) PROVE MarkersMarked'
    BY <2>1, CommitMarkers DEF WInv
  <2>2. ASSUME UNCHANGED hostVars PROVE MarkersMarked'
    BY <2>2 DEF WInv, hostVars, MarkersMarked
  <2>3. ASSUME marks' = {} PROVE MarkersMarked'
    BY <2>3 DEF MarkersMarked
  <2> QED BY <2>1, <2>2, <2>3, CommandsKeep
          DEF WInv, Commands, CommitOk, CommitFails, CheckoutElsewhere, CheckoutHere
<1>2. /\ KeptHere(Packed) /\ Kept(files, dirs, marks, inodes, committed, written)
      /\ DOMAIN committed \subseteq Keys \ {<<>>} /\ MarkedThere
  BY KeptInEither DEF WInv, IInv
<1>3. CASE CommitOk
  <2>1. /\ Collected = Readable /\ CopyUp(Readable) /\ UNCHANGED inodes
        /\ committed' = [p \in Readable |-> read(inodes, Walk(inodes, p))]
        /\ saved' = [p \in DOMAIN written \cap Readable |-> written[p]]
    BY <1>3 DEF CommitOk
  <2>2. SavedIs(committed', saved')
    BY <1>2, <2>1, CommitSavesWhatIsSeen
  <2>3. KeptThere(Packed')
    BY <1>2, <2>1, CommitSurvives
  <2> QED BY <1>1, <2>2, <2>3 DEF WInv, SavedInv, KeptThere
<1>4. CASE CommitFails
  <2>1. UNCHANGED <<archive, inodes, committed, saved>>
    BY <1>4 DEF CommitFails
  <2>2. \/ UNCHANGED <<files, dirs, marks, written>>
        \/ \E opened \in SUBSET Readable : CopyUp(opened)
    BY <1>4 DEF CommitFails, hostVars
  <2>3. KeptThere(Packed)
    <3>1. CASE UNCHANGED <<files, dirs, marks, written>>
      BY <1>2, <2>1, <3>1 DEF KeptHere, KeptThere
    <3>2. CASE \E opened \in SUBSET Readable : CopyUp(opened)
      BY <1>2, <2>1, <3>2, CopyUpSurvives
    <3> QED BY <2>2, <3>1, <3>2
  <2>4. Packed' = Packed /\ SavedInv'
    BY <2>1 DEF Packed, WInv, SavedInv
  <2> QED BY <1>1, <2>3, <2>4 DEF WInv, KeptThere
<1>5. CASE CheckoutElsewhere
  <2>1. /\ archive' = committed /\ written' = saved /\ UNCHANGED <<committed, saved>>
        /\ files' = <<>> /\ dirs' = { <<>> } /\ marks' = {}
        /\ inodes' = Mounted(committed, {}, {})
    BY <1>5 DEF CheckoutElsewhere, commitVars
  <2>2. Packed' = committed /\ SavedInv' /\ DOMAIN files' = {}
    BY <2>1 DEF Packed, WInv, SavedInv
  <2>3. Tree(files', dirs', marks')
    <3>1. DirsTo(<<>>) = {}
      BY EmptySeq DEF DirsTo
    <3> QED BY <2>1, <2>2, <3>1 DEF Tree
  <2>4. ASSUME NEW w \in DOMAIN saved
        PROVE  /\ w \in Seq(Names) \ {<<>>} /\ Len(w) <= Depth
               /\ FromArchive(files', dirs', inodes', committed, w, saved[w])
    <3>1. /\ w \in Seq(Names) \ {<<>>} /\ Len(w) <= Depth
          /\ w \in DOMAIN committed /\ committed[w] = saved[w] /\ PrefixFree(committed)
      BY DEF WInv, SavedInv, SavedIs
    <3>2. FromMap(inodes', w) /\ inodes'.nodes[w].data = committed[w]
      <4>1. PICK none \in SUBSET Keys, nobody \in SUBSET (Keys \ {<<>>}) : none = {} /\ nobody = {}
        OBVIOUS
      <4>2. FromMap(Mounted(committed, none, nobody), w)
            /\ Mounted(committed, none, nobody).nodes[w].data = committed[w]
        BY <1>2, <3>1, MountedShows
      <4> QED BY <2>1, <4>1, <4>2
    <3> QED BY <2>1, <2>2, <3>1, <3>2 DEF FromArchive
  <2>5. Kept(files', dirs', marks', inodes', Packed', written')
    BY <2>1, <2>2, <2>4 DEF Kept
  <2> QED BY <1>1, <2>2, <2>3, <2>5 DEF WInv
<1>6. CASE CheckoutHere
  <2>1. /\ archive' = committed /\ UNCHANGED <<committed, saved, files, dirs, marks, written>>
        /\ inodes' = MountedOver(committed)
    BY <1>6 DEF CheckoutHere, commitVars, hostVars
  <2>2. Packed' = committed /\ SavedInv' /\ Tree(files', dirs', marks')
    BY <2>1 DEF Packed, WInv, SavedInv
  <2>3. HostInv /\ PrefixFree(committed)
    BY <1>2 DEF KeptHere, WInv, SavedInv, SavedIs
  <2>4. Kept(files, dirs, marks, MountedOver(committed), committed, written)
    BY <1>2, <2>3, MountSurvives
  <2>5. Kept(files', dirs', marks', inodes', Packed', written')
    BY <2>1, <2>2, <2>4
  <2> QED BY <1>1, <2>2, <2>5 DEF WInv
<1> QED BY <1>3, <1>4, <1>5, <1>6 DEF Commands

LEMMA InitSurvives == WorkspaceInit => WInv
<1> SUFFICES ASSUME WorkspaceInit PROVE WInv
  OBVIOUS
<1>1. /\ files = <<>> /\ dirs = { <<>> } /\ marks = {} /\ written = <<>>
      /\ committed = <<>> /\ saved = <<>>
  BY DEF WorkspaceInit, Init
<1>2. DOMAIN files = {} /\ DOMAIN written = {} /\ DOMAIN committed = {} /\ DOMAIN saved = {}
  BY <1>1
<1>3. Tree(files, dirs, marks)
  <2>1. DirsTo(<<>>) = {}
    BY EmptySeq DEF DirsTo
  <2> QED BY <1>1, <1>2, <2>1 DEF Tree
<1>4. Kept(files, dirs, marks, inodes, Packed, written)
  BY <1>2 DEF Kept
<1>5. SavedInv
  BY <1>2 DEF SavedInv, SavedIs, PrefixFree
<1> QED BY <1>1, <1>3, <1>4, <1>5, InitHolds DEF WInv, MarkersMarked

\* The overlay stays a tree that has, with what was packed into the archive that
\* is mounted, all that programs wrote, whatever is requested, mounted, committed
\* or checked out.
THEOREM WritesAreKept == WorkspaceSpec => []WInv
<1>1. WInv /\ [WorkspaceNext]_workspaceVars => WInv'
  <2> SUFFICES ASSUME WInv, [WorkspaceNext]_workspaceVars PROVE WInv'
    OBVIOUS
  <2>1. CASE UNCHANGED workspaceVars
    <3>1. UNCHANGED <<archive, files, dirs, marks, marked, inodes, written, committed, saved>>
      BY <2>1 DEF workspaceVars, vars, hostVars, commitVars
    <3>2. IInv' /\ MarkersMarked'
      BY <3>1 DEF WInv, IInv, KeysInv, HasInodes, MarkedThere, MarkersMarked
    <3>3. Packed' = Packed /\ SavedInv'
      BY <3>1 DEF Packed, WInv, SavedInv
    <3> QED BY <3>1, <3>2, <3>3 DEF WInv
  <2> QED BY <2>1, NextSurvives, CommandsSurvive DEF WorkspaceNext
<1>2. WorkspaceInit => WInv
  BY InitSurvives
<1> QED BY <1>1, <1>2, PTL DEF WorkspaceSpec

LEMMA SeenInBoth ==
    ASSUME WInv, NEW m \in {inodes, Remounted}, NEW p \in DOMAIN written
    PROVE  /\ Holds(m, p, written[p])
           /\ Last(p) \in Listing(m, Walk(m, Front(p)))
<1>1. MapInv(m) /\ HasInodes(DOMAIN files \cup dirs, m) /\ Kept(files, dirs, marks, m, Packed, written)
  <2>1. CASE m = inodes
    BY <2>1 DEF WInv, IInv
  <2>2. CASE m = Remounted
    BY <2>2, RemountSurvives
  <2> QED BY <2>1, <2>2
<1>2. Tree(files, dirs, marks)
  BY DEF WInv
<1> QED BY <1>1, <1>2, KeptIsSeen

\* What a program wrote, made or renamed is there under its name, byte for byte, in
\* this mount and in the next one: no copy up, whiteout, rename or commit loses it
\* (fuse/src/fuse/mod.rs, cli/src/cmd/data/commit.rs).
THEOREM WritesSurviveCorrect == WorkspaceSpec => []WritesSurvive
<1>1. WInv => WritesSurvive
  BY SeenInBoth DEF WritesSurvive
<1> QED BY <1>1, WritesAreKept, PTL

\* And its directory lists it, in this mount and in the next one (readdir of
\* fuse/src/fuse/mod.rs).
THEOREM WrittenListedCorrect == WorkspaceSpec => []WrittenListed
<1>1. WInv => WrittenListed
  BY SeenInBoth DEF WrittenListed
<1> QED BY <1>1, WritesAreKept, PTL
-----------------------------------------------------------------------------
(* The types of the state.                                                  *)

\* TypeOK says that what is copied up has a name programs use.  The map of a mount
\* over an overlay with whiteouts has the markers, too, and a commit opens what it
\* lists: that no marker directory is opened, and no marker copied up as a file,
\* needs the shape of every path of the map (Shaped), and that marker directories
\* are directories in it (MapTyped) and never packed (Packable).

\* A marker directory is the last name of a path, or the one before it.
Shaped(p) ==
    /\ p \in Keys \ {<<>>}
    /\ \A i \in 1..Len(p) : \/ p[i] \in Names
                            \/ i = Len(p)
                            \/ i = Len(p) - 1 /\ p[Len(p)] \in Names

MapTyped(m) ==
    /\ \A p \in DOMAIN m.path_to_ino :
          /\ Shaped(p) /\ m.path_to_ino[p] \in DOMAIN m.nodes
          /\ Last(p) = Whiteout => m.nodes[m.path_to_ino[p]].dir
    /\ DOMAIN m.ino_to_path \subseteq DOMAIN m.nodes
    /\ \A i \in DOMAIN m.nodes : m.nodes[i].data \in Bytes

Packable(manifest) ==
    \A p \in DOMAIN manifest : Shaped(p) /\ Last(p) # Whiteout /\ manifest[p] \in Bytes

BytesIn(f) == \A p \in DOMAIN f : f[p] \in Bytes

HostTyped ==
    /\ DOMAIN files \cup marks \subseteq Seq(Names) \ {<<>>} /\ dirs \subseteq Seq(Names)
    /\ BytesIn(files) /\ BytesIn(written)
    /\ MapTyped(inodes)

TInv ==
    /\ HostTyped /\ BytesIn(saved)
    /\ Packable(archive) /\ Packable(committed)
    /\ requests \in 0..MaxRequests

LEMMA NamedIs ==
    ASSUME NEW p
    PROVE  p \in Seq(Names) <=> p \in Keys /\ \A i \in 1..Len(p) : p[i] \in Names
<1>1. ASSUME p \in Seq(Names) PROVE p \in Keys /\ \A i \in 1..Len(p) : p[i] \in Names
  <2>1. p \in Seq(Entry)
    BY <1>1, SeqMonotonic DEF Entry
  <2>2. \A i \in 1..Len(p) : p[i] \in Names
    BY <1>1, ElementOfSeq
  <2> QED BY <2>1, <2>2 DEF Keys
<1>2. ASSUME p \in Keys, \A i \in 1..Len(p) : p[i] \in Names PROVE p \in Seq(Names)
  <2>1. p \in Seq(Entry) /\ Len(p) \in Nat
    BY <1>2, LenProperties DEF Keys
  <2>2. SubSeq(p, 1, Len(p)) \in Seq(Names)
    BY <1>2, <2>1, SubSeqProperties
  <2>3. SubSeq(p, 1, Len(p)) = p
    BY <2>1, SubSeqFull
  <2> QED BY <2>2, <2>3
<1> QED BY <1>1, <1>2

LEMMA NamedIsShaped ==
    ASSUME NEW p \in Seq(Names) \ {<<>>}
    PROVE  Shaped(p) /\ Last(p) \in Names /\ Last(p) # Whiteout
<1>1. p \in Keys \ {<<>>} /\ \A i \in 1..Len(p) : p[i] \in Names
  BY NamedIs
<1>2. Len(p) \in Nat \ {0}
  BY <1>1, LastIsEntry
<1>3. Last(p) \in Names
  BY <1>1, <1>2 DEF Last
<1> QED BY <1>1, <1>3, NamesAssumption DEF Shaped

\* A path that is neither a marker directory nor in one is named by programs.
LEMMA ShapedIsNamed ==
    ASSUME NEW p, Shaped(p), Last(p) # Whiteout
    PROVE  /\ Last(p) \in Names
           /\ ~ IsMarker(p) => p \in Seq(Names) \ {<<>>}
<1>1. /\ p \in Keys \ {<<>>} /\ Len(p) \in Nat \ {0} /\ Last(p) \in Entry
      /\ \A i \in 1..Len(p) : \/ p[i] \in Names
                              \/ i = Len(p)
                              \/ i = Len(p) - 1 /\ p[Len(p)] \in Names
  BY LastIsEntry DEF Shaped
<1>2. Last(p) \in Names
  BY <1>1 DEF Entry
<1>3. ASSUME ~ IsMarker(p), NEW i \in 1..Len(p) PROVE p[i] \in Names
  <2>1. p[i] \in Entry
    BY <1>1, ElementOfSeq DEF Keys
  <2>2. CASE i = Len(p)
    BY <1>2, <2>2 DEF Last
  <2>3. CASE i = Len(p) - 1
    BY <1>1, <1>3, <2>1, <2>3 DEF IsMarker, Entry
  <2> QED BY <1>1, <2>2, <2>3
<1> QED BY <1>1, <1>2, <1>3, NamedIs

\* What a marker marks is named by programs.
LEMMA MarkedIsNamed ==
    ASSUME NEW p, Shaped(p), IsMarker(p)
    PROVE  MarkedBy(p) \in Seq(Names) \ {<<>>}
<1>1. /\ p \in Keys \ {<<>>} /\ Len(p) \in Nat \ {0} /\ Len(p) > 1 /\ p[Len(p) - 1] = Whiteout
      /\ \A i \in 1..Len(p) : \/ p[i] \in Names
                              \/ i = Len(p)
                              \/ i = Len(p) - 1 /\ p[Len(p)] \in Names
  BY LastIsEntry DEF Shaped, IsMarker
<1>2. Len(p) - 1 \in 1..Len(p) /\ Len(p) - 1 # Len(p)
  BY <1>1
<1>3. Last(p) \in Names
  BY <1>1, <1>2, NamesAssumption DEF Last
<1>4. PICK k \in Nat : k = Len(p) - 2
  BY <1>1
<1>5. \A i \in 1..k : p[i] \in Names
  BY <1>1, <1>4
<1>6. SubSeq(p, 1, k) \in Seq(Names)
  BY <1>5, SubSeqProperties
<1>7. Append(SubSeq(p, 1, k), Last(p)) \in Seq(Names) /\ Append(SubSeq(p, 1, k), Last(p)) # <<>>
  BY <1>3, <1>6, AppendProperties
<1> QED BY <1>4, <1>7 DEF MarkedBy

\* Proper prefixes, and what moves, keep the shape.
LEMMA PrefixIsShaped ==
    ASSUME NEW p, Shaped(p), NEW x \in DirsTo(p), x # <<>>
    PROVE  Shaped(x)
<1>1. p \in Keys \ {<<>>} /\ Len(p) \in Nat \ {0}
  BY LastIsEntry DEF Shaped
<1>2. PICK n \in 0..(Len(p) - 1) : x = SubSeq(p, 1, n)
  BY DEF DirsTo
<1>3. n \in 0..Len(p)
  BY <1>1
<1>4. x \in Keys /\ Len(x) = n /\ \A i \in 1..n : x[i] = p[i]
  BY <1>1, <1>2, <1>3, PrefixNames
<1>5. \A i \in 1..n : p[i] \in Names \/ i = n
  BY <1>1, <1>2 DEF Shaped
<1> QED BY <1>4, <1>5 DEF Shaped

LEMMA NamedPrefix ==
    ASSUME NEW p \in Seq(Names), NEW x \in DirsTo(p)
    PROVE  x \in Seq(Names)
<1>1. p \in Keys /\ \A i \in 1..Len(p) : p[i] \in Names
  BY NamedIs
<1>2. Len(p) \in Nat
  BY <1>1, LenProperties DEF Keys
<1>3. PICK n \in 0..(Len(p) - 1) : x = SubSeq(p, 1, n)
  BY DEF DirsTo
<1>4. \A i \in 1..n : p[i] \in Names
  BY <1>1, <1>2, <1>3
<1> QED BY <1>3, <1>4, SubSeqProperties

LEMMA RebaseIsShaped ==
    ASSUME NEW p, Shaped(p), NEW old \in Seq(Names), NEW new \in Seq(Names) \ {<<>>}, Under(old, p)
    PROVE  /\ Shaped(Rebase(p, old, new))
           /\ Last(Rebase(p, old, new)) = Whiteout => Last(p) = Whiteout
<1> DEFINE x == Rebase(p, old, new)
<1>1. /\ p \in Keys \ {<<>>} /\ old \in Keys /\ new \in Keys \ {<<>>}
      /\ \A i \in 1..Len(new) : new[i] \in Names
  BY NamedIs DEF Shaped
<1>2. /\ Len(p) \in Nat \ {0} /\ Len(old) \in Nat /\ Len(new) \in Nat \ {0} /\ Len(old) <= Len(p)
  BY <1>1, UnderIs, LastIsEntry
<1>3. x \in Keys /\ Len(x) = Len(new) + (Len(p) - Len(old))
  BY <1>1, RebaseBack
<1>4. /\ \A i \in 1..Len(new) : x[i] = new[i]
      /\ \A i \in 1..(Len(p) - Len(old)) : x[Len(new) + i] = p[Len(old) + i]
  BY <1>1, RebaseNames
<1> HIDE DEF x
<1>5. ASSUME NEW i \in 1..Len(x)
      PROVE  x[i] \in Names \/ \E j \in 1..Len(p) : x[i] = p[j] /\ Len(x) - i = Len(p) - j
  <2>1. CASE i <= Len(new)
    BY <1>1, <1>2, <1>4, <2>1
  <2>2. CASE ~ (i <= Len(new))
    <3>1. PICK k \in 1..(Len(p) - Len(old)) : i = Len(new) + k
      <4>1. i - Len(new) \in 1..(Len(p) - Len(old)) /\ i = Len(new) + (i - Len(new))
        BY <1>2, <1>3, <2>2
      <4> QED BY <4>1
    <3>2. /\ Len(old) + k \in 1..Len(p) /\ x[i] = p[Len(old) + k]
          /\ Len(x) - i = Len(p) - (Len(old) + k)
      BY <1>2, <1>3, <1>4, <3>1
    <3> QED BY <3>2
  <2> QED BY <2>1, <2>2
<1>6. x # <<>> /\ Len(x) \in Nat \ {0}
  BY <1>2, <1>3, EmptySeq
<1>7. Last(x) = Whiteout => Last(p) = Whiteout
  <2>1. Len(x) \in 1..Len(x)
    BY <1>6
  <2>2. CASE x[Len(x)] \in Names
    BY <2>2, NamesAssumption DEF Last
  <2>3. CASE \E j \in 1..Len(p) : x[Len(x)] = p[j] /\ Len(x) - Len(x) = Len(p) - j
    <3>1. x[Len(x)] = p[Len(p)]
      BY <1>2, <1>6, <2>3
    <3> QED BY <3>1 DEF Last
  <2> QED BY <1>5, <2>1, <2>2, <2>3
<1>8. ASSUME NEW i \in 1..Len(x), x[i] \notin Names
      PROVE  i = Len(x) \/ (i = Len(x) - 1 /\ x[Len(x)] \in Names)
  <2>1. PICK j \in 1..Len(p) : x[i] = p[j] /\ Len(x) - i = Len(p) - j
    BY <1>5, <1>8
  <2>2. j = Len(p) \/ (j = Len(p) - 1 /\ p[Len(p)] \in Names)
    BY <1>8, <2>1 DEF Shaped
  <2>3. CASE j = Len(p)
    BY <1>2, <1>6, <2>1, <2>3
  <2>4. CASE j = Len(p) - 1 /\ p[Len(p)] \in Names
    <3>1. i = Len(x) - 1
      BY <1>2, <1>6, <2>1, <2>4
    <3>2. x[Len(x)] \in Names
      <4>1. Len(x) \in 1..Len(x)
        BY <1>6
      <4>2. PICK h \in 1..Len(p) : x[Len(x)] \in Names \/ (x[Len(x)] = p[h] /\ Len(x) - Len(x) = Len(p) - h)
        BY <1>2, <1>5, <4>1
      <4>3. h = Len(p) \/ x[Len(x)] \in Names
        BY <1>2, <1>6, <4>2
      <4> QED BY <2>4, <4>2, <4>3
    <3> QED BY <3>1, <3>2
  <2> QED BY <2>2, <2>3, <2>4
<1>9. Shaped(x)
  BY <1>3, <1>6, <1>8 DEF Shaped
<1> QED BY <1>7, <1>9 DEF x

\* The paths of a marker and its directory.
LEMMA MarkerDirIsShaped ==
    ASSUME NEW x \in Seq(Names)
    PROVE  Shaped(Append(x, Whiteout))
<1>1. x \in Seq(Entry) /\ Len(x) \in Nat /\ \A i \in 1..Len(x) : x[i] \in Names
  BY NamedIs DEF Keys
<1> DEFINE d == Append(x, Whiteout)
<1>2. /\ d \in Seq(Entry) /\ d # <<>> /\ Len(d) = Len(x) + 1 /\ \A i \in 1..Len(x) : d[i] = x[i]
  BY <1>1, AppendProperties DEF Entry
<1> HIDE DEF d
<1>3. Shaped(d)
  BY <1>1, <1>2 DEF Shaped, Keys
<1> QED BY <1>3 DEF d

LEMMA MarkersAreShaped ==
    ASSUME NEW p \in Seq(Names) \ {<<>>}
    PROVE  /\ Shaped(Front(p) \o <<Whiteout, Last(p)>>)
           /\ Last(Front(p) \o <<Whiteout, Last(p)>>) # Whiteout
<1>1. p \in Keys \ {<<>>} /\ \A i \in 1..Len(p) : p[i] \in Names
  BY NamedIs
<1>2. /\ Front(p) \in Keys /\ Len(p) \in Nat \ {0} /\ Len(Front(p)) = Len(p) - 1
      /\ Last(p) \in Names
  BY <1>1, LastIsEntry, NamedIsShaped
<1>3. PICK n \in Nat : n = Len(Front(p))
  BY <1>2
<1> DEFINE at == Front(p)
<1>4. \A i \in 1..n : at[i] \in Names
  <2>1. at \in DirsTo(p)
    BY <1>1, ParentIs
  <2>2. at \in Seq(Names)
    BY <2>1, NamedPrefix
  <2> QED BY <1>3, <2>2, NamedIs
<1>5. at \in Seq(Entry) /\ Len(at) = n
  BY <1>2, <1>3 DEF Keys
<1> HIDE DEF at
<1> DEFINE mark == at \o <<Whiteout, Last(p)>>
<1>7. Shaped(mark) /\ Last(mark) # Whiteout
  <2> DEFINE two == <<Whiteout, Last(p)>>
  <2>1. two \in Seq(Entry) /\ Len(two) = 2 /\ two[2] = Last(p)
    BY <1>2 DEF Entry
  <2> HIDE DEF two
  <2>2. /\ at \o two \in Seq(Entry) /\ Len(at \o two) = n + 2
        /\ \A i \in 1..(n + 2) : (at \o two)[i] = IF i <= n THEN at[i] ELSE two[i - n]
    <3>1. /\ at \o two \in Seq(Entry) /\ Len(at \o two) = Len(at) + Len(two)
          /\ \A i \in 1..(Len(at) + Len(two)) :
                (at \o two)[i] = IF i <= Len(at) THEN at[i] ELSE two[i - Len(at)]
      BY <1>5, <2>1, ConcatProperties
    <3> QED BY <1>5, <2>1, <3>1
  <2>3. mark = at \o two
    BY DEF two
  <2> HIDE DEF mark
  <2>4. mark \in Keys /\ Len(mark) = n + 2 /\ \A i \in 1..n : mark[i] \in Names
    BY <1>4, <2>2, <2>3 DEF Keys
  <2>5. mark[n + 2] = Last(p)
    <3>1. n + 2 \in 1..(n + 2) /\ ~ (n + 2 <= n) /\ (n + 2) - n = 2
      OBVIOUS
    <3> QED BY <2>1, <2>2, <2>3, <3>1
  <2>6. mark # <<>>
    BY <2>4, EmptySeq
  <2>7. Last(mark) = Last(p)
    BY <2>4, <2>5 DEF Last
  <2>8. Last(p) # Whiteout
    BY <1>2, NamesAssumption
  <2> QED BY <1>2, <2>4, <2>5, <2>6, <2>7, <2>8 DEF Shaped
<1> QED BY <1>7 DEF mark, at

LEMMA EmptyBytes == <<>> \in Bytes
BY EmptySeq DEF Bytes

LEMMA AddNodeTyped ==
    ASSUME NEW m, MapInv(m), MapTyped(m), NEW path \in Seq(Names) \ {<<>>}, NEW parent, NEW node,
           DOMAIN node = {"dir", "data", "children"}, node.data \in Bytes
    PROVE  MapTyped(AddNode(m, path, parent, node))
<1> DEFINE k == m.next_inode
           nodes == With(m.nodes, <<k>>, node)
           entered == [nodes EXCEPT ![parent].children = With(@, Last(path), <<k>>)]
           new == AddNode(m, path, parent, node)
<1>1. /\ new.nodes = IF m.nodes[parent].dir THEN entered ELSE nodes
      /\ new.path_to_ino = With(m.path_to_ino, path, <<k>>)
      /\ new.ino_to_path = With(m.ino_to_path, <<k>>, path)
  BY DEF AddNode
<1>2. <<k>> \notin DOMAIN m.ino_to_path
  BY DEF MapInv, FreshInv
<1>3. /\ DOMAIN nodes = DOMAIN m.nodes \cup {<<k>>} /\ nodes[<<k>>] = node
      /\ \A i \in DOMAIN m.nodes : i # <<k>> => nodes[i] = m.nodes[i]
      /\ \A i \in DOMAIN nodes : DOMAIN nodes[i] = {"dir", "data", "children"}
  BY DEF With, MapInv, NodesInv
<1> HIDE DEF nodes
<1>4. /\ DOMAIN entered = DOMAIN nodes
      /\ \A i \in DOMAIN nodes : entered[i].dir = nodes[i].dir /\ entered[i].data = nodes[i].data
  <2> SUFFICES ASSUME NEW i \in DOMAIN nodes
               PROVE  entered[i].dir = nodes[i].dir /\ entered[i].data = nodes[i].data
    OBVIOUS
  <2>1. CASE i # parent
    BY <2>1
  <2>2. CASE i = parent
    <3>1. entered[i] = [nodes[i] EXCEPT !.children = With(nodes[i].children, Last(path), <<k>>)]
      BY <2>2
    <3> HIDE DEF entered
    <3> QED BY <1>3, <3>1
  <2> QED BY <2>1, <2>2
<1> HIDE DEF entered
<1>5. /\ DOMAIN new.nodes = DOMAIN m.nodes \cup {<<k>>} /\ new.nodes[<<k>>].data = node.data
      /\ \A i \in DOMAIN m.nodes : i # <<k>> => /\ new.nodes[i].dir = m.nodes[i].dir
                                                /\ new.nodes[i].data = m.nodes[i].data
  BY <1>1, <1>3, <1>4
<1> HIDE DEF new
<1>6. ASSUME NEW p \in DOMAIN new.path_to_ino
      PROVE  /\ Shaped(p) /\ new.path_to_ino[p] \in DOMAIN new.nodes
             /\ Last(p) = Whiteout => new.nodes[new.path_to_ino[p]].dir
  <2>1. CASE p = path
    <3>1. new.path_to_ino[p] = <<k>>
      BY <1>1, <2>1 DEF With
    <3> QED BY <1>5, <2>1, <3>1, NamedIsShaped
  <2>2. CASE p # path
    <3>1. p \in DOMAIN m.path_to_ino /\ new.path_to_ino[p] = m.path_to_ino[p]
      BY <1>1, <2>2 DEF With
    <3>2. m.path_to_ino[p] # <<k>>
      BY <1>2, <3>1 DEF MapInv, InverseInv
    <3> QED BY <1>5, <3>1, <3>2 DEF MapTyped
  <2> QED BY <2>1, <2>2
<1>7. DOMAIN new.ino_to_path \subseteq DOMAIN new.nodes
  BY <1>1, <1>5 DEF MapTyped, With
<1>8. \A i \in DOMAIN new.nodes : new.nodes[i].data \in Bytes
  BY <1>5 DEF MapTyped
<1>9. MapTyped(new)
  BY <1>6, <1>7, <1>8 DEF MapTyped
<1> QED BY <1>9 DEF new

LEMMA AddFileTyped ==
    ASSUME NEW m, MapInv(m), MapTyped(m), NEW p \in Paths, NEW is_dir
    PROVE  MapTyped(add_file_at_path(m, p, is_dir))
<1>1. CASE p \in DOMAIN m.path_to_ino
  BY <1>1 DEF add_file_at_path
<1>2. CASE p \notin DOMAIN m.path_to_ino
  <2> DEFINE parent == get_or_create_dir(m, Front(p))
             node == IF is_dir THEN Directory(<<>>) ELSE File(<<>>)
  <2>1. Front(p) \in {<<>>} \cup { <<n>> : n \in Entry } /\ p \in Seq(Names) \ {<<>>} /\ p \in Keys
    BY PathFront, PathsAreShort
  <2>2. Front(p) \in Seq(Names)
    BY <2>1, ParentIs, NamedPrefix
  <2>3. /\ MapInv(parent.map)
        /\ \/ parent.map = m
           \/ /\ Front(p) # <<>>
              /\ parent.map = AddNode(m, Front(p), ROOT_INODE, Directory(<<>>))
    <3>1. CASE Front(p) = <<>>
      BY <2>1, <3>1, DirMade
    <3>2. CASE \E n \in Entry : Front(p) = <<n>>
      BY <2>1, <3>2, DirMade
    <3> QED BY <2>1, <3>1, <3>2
  <2>4. /\ DOMAIN Directory(<<>>) = {"dir", "data", "children"} /\ Directory(<<>>).data \in Bytes
        /\ DOMAIN node = {"dir", "data", "children"} /\ node.data \in Bytes
    BY EmptyBytes DEF Directory, File
  <2>5. add_file_at_path(m, p, is_dir) = AddNode(parent.map, p, parent.ino, node)
    BY <1>2 DEF add_file_at_path
  <2> HIDE DEF parent, node
  <2>6. MapTyped(parent.map)
    BY <2>2, <2>3, <2>4, AddNodeTyped
  <2> QED BY <2>1, <2>3, <2>4, <2>5, <2>6, AddNodeTyped
<1> QED BY <1>1, <1>2

LEMMA RemoveTyped ==
    ASSUME NEW m, MapInv(m), MapTyped(m), NEW path
    PROVE  MapTyped(remove_path(m, path))
<1> DEFINE new == remove_path(m, path)
<1>1. CASE path \notin DOMAIN m.path_to_ino
  BY <1>1 DEF remove_path
<1>2. CASE path \in DOMAIN m.path_to_ino
  <2>1. /\ new.nodes = m.nodes
        /\ new.path_to_ino = Without(m.path_to_ino, {path})
        /\ new.ino_to_path = Without(m.ino_to_path, {m.path_to_ino[path]})
    BY <1>2 DEF remove_path, MapInv
  <2> HIDE DEF new
  <2>2. MapTyped(new)
    BY <2>1 DEF MapTyped, Without
  <2> QED BY <2>2 DEF new
<1> QED BY <1>1, <1>2

LEMMA RenameTyped ==
    ASSUME NEW m, MapInv(m), MapTyped(m), NEW old \in Seq(Names), NEW to \in Seq(Names) \ {<<>>}
    PROVE  MapTyped(rename_path(m, old, to))
<1> DEFINE new == rename_path(m, old, to)
           moved == { p \in DOMAIN m.path_to_ino : Under(old, p) }
           target == { Rebase(p, old, to) : p \in moved }
           stays == DOMAIN m.path_to_ino \ moved
<1>1. CASE old \notin DOMAIN m.path_to_ino
  BY <1>1 DEF rename_path
<1>2. CASE old \in DOMAIN m.path_to_ino
  <2>1. /\ new.nodes = m.nodes
        /\ new.path_to_ino =
              [p \in stays \cup target |->
                  IF p \in target THEN m.path_to_ino[Rebase(p, to, old)] ELSE m.path_to_ino[p]]
        /\ DOMAIN new.ino_to_path = DOMAIN m.ino_to_path
    BY <1>2 DEF rename_path, MapInv
  <2>2. ASSUME NEW p \in target
        PROVE  \E q \in DOMAIN m.path_to_ino :
                  /\ new.path_to_ino[p] = m.path_to_ino[q]
                  /\ Shaped(p) /\ (Last(p) = Whiteout => Last(q) = Whiteout)
    <3>1. PICK q \in moved : p = Rebase(q, old, to)
      OBVIOUS
    <3>2. Shaped(q) /\ q \in Keys /\ Under(old, q) /\ q \in DOMAIN m.path_to_ino
      BY <3>1 DEF MapTyped, Shaped
    <3>3. old \in Keys /\ to \in Keys
      BY NamedIs
    <3>4. Rebase(p, to, old) = q
      BY <3>1, <3>2, <3>3, RebaseBack
    <3>5. new.path_to_ino[p] = m.path_to_ino[q]
      BY <2>1, <3>4
    <3>6. Shaped(p) /\ (Last(p) = Whiteout => Last(q) = Whiteout)
      BY <3>1, <3>2, RebaseIsShaped
    <3> QED BY <3>2, <3>5, <3>6
  <2> HIDE DEF new, moved, target
  <2>3. ASSUME NEW p \in DOMAIN new.path_to_ino
        PROVE  /\ Shaped(p) /\ new.path_to_ino[p] \in DOMAIN new.nodes
               /\ Last(p) = Whiteout => new.nodes[new.path_to_ino[p]].dir
    <3>1. CASE p \in target
      BY <2>1, <2>2, <3>1 DEF MapTyped
    <3>2. CASE p \notin target
      BY <2>1, <3>2 DEF MapTyped
    <3> QED BY <3>1, <3>2
  <2>4. MapTyped(new)
    BY <2>1, <2>3 DEF MapTyped
  <2> QED BY <2>4 DEF new
<1> QED BY <1>1, <1>2

\* A mount of what a commit can have packed, over an overlay with markers.
LEMMA MountedTyped ==
    ASSUME NEW manifest, Packable(manifest), NEW hostDirs, NEW hostFiles,
           \A p \in hostDirs : Shaped(p), \A p \in hostFiles : Shaped(p) /\ Last(p) # Whiteout
    PROVE  MapTyped(Mounted(manifest, hostDirs, hostFiles))
<1> DEFINE all == DOMAIN manifest \cup hostDirs \cup hostFiles
           ds == (Ancestors(all) \cup hostDirs) \ DOMAIN manifest
           fs == (DOMAIN manifest \cup hostFiles) \ ds
           paths == ds \cup fs \cup { ROOT_INODE }
           children(p) == { q \in paths : Len(q) = Len(p) + 1 /\ Under(p, q) }
           node(p) ==
               IF p \in fs
                  THEN File(IF p \in DOMAIN manifest THEN manifest[p] ELSE <<>>)
                  ELSE Directory([n \in { Last(q) : q \in children(p) } |-> Append(p, n)])
           new == Mounted(manifest, hostDirs, hostFiles)
<1>1. new = [nodes |-> [p \in paths |-> node(p)],
             path_to_ino |-> [p \in paths \ {ROOT_INODE} |-> p],
             ino_to_path |-> [p \in paths |-> p],
             next_inode |-> 1]
  BY DEF Mounted
<1>2. ASSUME NEW x \in Ancestors(all), x # <<>> PROVE Shaped(x)
  <2>1. PICK p \in all : x \in DirsTo(p)
    BY DEF Ancestors, DirsTo
  <2>2. Shaped(p)
    BY DEF Packable
  <2> QED BY <1>2, <2>1, <2>2, PrefixIsShaped
<1>3. ASSUME NEW p \in paths \ {ROOT_INODE} PROVE Shaped(p)
  BY <1>2 DEF Packable, ROOT_INODE
<1>4. ASSUME NEW p \in fs
      PROVE  Last(p) # Whiteout /\ node(p).data \in Bytes
  <2>1. node(p) = File(IF p \in DOMAIN manifest THEN manifest[p] ELSE <<>>)
    OBVIOUS
  <2> HIDE DEF node
  <2>2. node(p).data = IF p \in DOMAIN manifest THEN manifest[p] ELSE <<>>
    BY <2>1 DEF File
  <2> QED BY <2>2, EmptyBytes DEF Packable
<1>5. ASSUME NEW p, p \notin fs PROVE node(p).dir /\ node(p).data \in Bytes
  <2>1. PICK kids : node(p) = Directory(kids)
    BY <1>5
  <2> HIDE DEF node
  <2> QED BY <2>1, EmptyBytes DEF Directory
<1> HIDE DEF paths, fs, node, new
<1>6. ASSUME NEW p \in DOMAIN new.path_to_ino
      PROVE  /\ Shaped(p) /\ new.path_to_ino[p] \in DOMAIN new.nodes
             /\ Last(p) = Whiteout => new.nodes[new.path_to_ino[p]].dir
  BY <1>1, <1>3, <1>4, <1>5
<1>7. \A i \in DOMAIN new.nodes : new.nodes[i].data \in Bytes
  BY <1>1, <1>4, <1>5
<1>8. MapTyped(new)
  BY <1>1, <1>6, <1>7 DEF MapTyped
<1> QED BY <1>8 DEF new

LEMMA ChangedBytes ==
    ASSUME NEW bytes \in Bytes, NEW n \in Nat
    PROVE  WriteByte(bytes, n) \in Bytes /\ SetLen(bytes, n) \in Bytes
<1>1. Len(bytes) \in Nat /\ \A i \in 1..Len(bytes) : bytes[i] \in Nat
  BY LenProperties, ElementOfSeq DEF Bytes
<1>2. \A len \in Nat : \A f \in [1..len -> Nat] : f \in Bytes
  BY SeqDef DEF Bytes
<1>3. SetLen(bytes, n) \in [1..n -> Nat]
  BY <1>1 DEF SetLen, ZeroByte
<1>4. PICK len \in Nat : len = IF n > Len(bytes) THEN n ELSE Len(bytes)
  BY <1>1
<1>5. WriteByte(bytes, n) \in [1..len -> Nat]
  <2>1. \A i \in 1..len : (IF i = n THEN NewByte ELSE IF i <= Len(bytes) THEN bytes[i] ELSE ZeroByte) \in Nat
    BY <1>1, <1>4 DEF NewByte, ZeroByte
  <2>2. WriteByte(bytes, n) =
            [i \in 1..len |-> IF i = n THEN NewByte ELSE IF i <= Len(bytes) THEN bytes[i] ELSE ZeroByte]
    BY <1>4 DEF WriteByte
  <2> QED BY <2>1, <2>2
<1> QED BY <1>2, <1>3, <1>4, <1>5

LEMMA WithBytes ==
    ASSUME NEW f, BytesIn(f), NEW p, NEW bytes \in Bytes
    PROVE  BytesIn(With(f, p, bytes))
BY DEF BytesIn, With

LEMMA WithoutBytes ==
    ASSUME NEW f, BytesIn(f), NEW keys
    PROVE  BytesIn(Without(f, keys))
BY DEF BytesIn, Without

\* What is found can be read, and copied up.
LEMMA ReadTyped ==
    ASSUME HostInv, HostTyped, NEW p \in Keys, Walk(inodes, p) # NoInode
    PROVE  read(inodes, Walk(inodes, p)) \in Bytes
<1>1. MapInv(inodes) /\ MapTyped(inodes)
  BY DEF HostInv, HostTyped
<1>2. Walk(inodes, p) = InodeAt(inodes, p) /\ (p = <<>> \/ p \in DOMAIN inodes.path_to_ino)
  BY <1>1, FoundWay
<1>3. get_path(inodes, InodeAt(inodes, p)) = p /\ has_path(inodes, InodeAt(inodes, p))
  BY <1>1, <1>2, PathOfInode
<1>4. inodes.nodes[InodeAt(inodes, p)].data \in Bytes
  BY <1>1, <1>3 DEF MapTyped, has_path
<1> QED BY <1>2, <1>3, <1>4 DEF read, HostTyped, BytesIn

LEMMA CopiedTyped ==
    ASSUME HostTyped, NEW p \in Seq(Names) \ {<<>>}, NEW ino
    PROVE  /\ BytesIn(CopiedUp(p, ino)) /\ DOMAIN CopiedUp(p, ino) \subseteq Seq(Names) \ {<<>>}
           /\ CowDirs(p, ino) \subseteq Seq(Names)
<1>1. DirsTo(p) \subseteq Seq(Names)
  BY NamedPrefix
<1>2. is_file(inodes, ino) => inodes.nodes[ino].data \in Bytes
  BY DEF HostTyped, MapTyped, is_file
<1>3. BytesIn(CopiedUp(p, ino))
  BY <1>2, WithBytes DEF CopiedUp, HostTyped
<1>4. DOMAIN CopiedUp(p, ino) \subseteq DOMAIN files \cup {p} /\ CowDirs(p, ino) \subseteq dirs \cup DirsTo(p)
  BY CopyUpKeeps
<1> QED BY <1>1, <1>3, <1>4 DEF HostTyped

LEMMA ExpectedTyped ==
    ASSUME HostInv, HostTyped, NEW p \in Paths, Exists(p)
    PROVE  Expected(p) \in Bytes
<1>1. p \in Keys
  BY PathsAreShort
<1> QED BY <1>1, ReadTyped DEF Expected, Exists, HostTyped, BytesIn

LEMMA CreateTyped ==
    ASSUME HostInv, HostTyped, NEW p \in Paths, create(p) PROVE HostTyped'
<1>1. p \in Seq(Names) \ {<<>>} /\ DirsTo(p) \subseteq Seq(Names)
  BY PathsAreShort, NamedPrefix
<1>2. dirs' = dirs \cup DirsTo(p) /\ marks' \subseteq marks
  BY DEF create, WithParent
<1>3. CASE p \in dirs
  <2>1. UNCHANGED <<files, inodes, written>>
    BY <1>3 DEF create
  <2> QED BY <1>1, <1>2, <2>1 DEF HostTyped
<1>4. CASE p \notin dirs
  <2>1. /\ files' = With(files, p, <<>>) /\ written' = With(written, p, <<>>)
        /\ inodes' = add_file_at_path(inodes, p, FALSE)
    BY <1>4 DEF create
  <2>2. MapTyped(inodes')
    BY <2>1, AddFileTyped DEF HostInv, HostTyped
  <2>3. BytesIn(files') /\ BytesIn(written')
    BY <2>1, EmptyBytes, WithBytes DEF HostTyped
  <2>4. DOMAIN files' = DOMAIN files \cup {p}
    BY <2>1 DEF With
  <2> QED BY <1>1, <1>2, <2>2, <2>3, <2>4 DEF HostTyped
<1> QED BY <1>3, <1>4

LEMMA MkdirTyped ==
    ASSUME HostInv, HostTyped, NEW p \in Tops, mkdir(p) PROVE HostTyped'
<1>1. p \in Paths /\ p \in Seq(Names) \ {<<>>} /\ DirsTo(p) \subseteq Seq(Names)
  BY PathsAreKeys, PathsAreShort, NamedPrefix
<1>2. marks' \subseteq marks /\ files' = files /\ written' = written
  BY DEF mkdir
<1>3. dirs' \subseteq dirs \cup DirsTo(p) \cup {p}
      /\ (inodes' = inodes \/ inodes' = add_file_at_path(inodes, p, TRUE))
  BY DEF mkdir, WithParent
<1>4. MapTyped(inodes')
  BY <1>1, <1>3, AddFileTyped DEF HostInv, HostTyped
<1> QED BY <1>1, <1>2, <1>3, <1>4 DEF HostTyped

LEMMA OpenTyped ==
    ASSUME HostTyped, NEW p \in Paths, open(p) PROVE HostTyped'
<1>1. p \in Seq(Names) \ {<<>>}
  BY PathsAreShort
<1> QED BY <1>1, CopiedTyped DEF open, HostTyped

LEMMA ChangeTyped ==
    ASSUME NEW packed, KeptHere(packed), HostTyped, NEW p \in Paths, write(p) \/ setattr(p)
    PROVE  HostTyped'
<1>1. p \in Seq(Names) \ {<<>>} /\ FileAt(p) /\ HostInv
  BY PathsAreShort DEF write, setattr, KeptHere
<1> DEFINE copied == CopiedUp(p, Walk(inodes, p))
<1>2. /\ BytesIn(copied) /\ DOMAIN copied \subseteq Seq(Names) \ {<<>>}
      /\ CowDirs(p, Walk(inodes, p)) \subseteq Seq(Names)
  BY <1>1, CopiedTyped
<1>3. copied[p] \in Bytes
  <2>1. p \in DOMAIN copied
    BY <1>1, CopiedSurvives
  <2> QED BY <1>2, <2>1 DEF BytesIn
<1>4. Expected(p) \in Bytes
  BY <1>1, ExpectedTyped DEF FileAt
<1>5. PICK bytes \in Bytes, expected \in Bytes : Change(p, bytes, expected)
  <2>1. CASE write(p)
    <3>1. PICK k \in Offsets : Change(p, WriteByte(copied[p], k), WriteByte(Expected(p), k))
      BY <2>1 DEF write, Content
    <3> QED BY <1>3, <1>4, <3>1, BoundAssumption, ChangedBytes
  <2>2. CASE setattr(p)
    <3>1. PICK n \in Sizes : Change(p, SetLen(copied[p], n), SetLen(Expected(p), n))
      BY <2>2 DEF setattr, Content
    <3> QED BY <1>3, <1>4, <3>1, BoundAssumption, ChangedBytes
  <2> QED BY <2>1, <2>2
<1>6. /\ files' = With(copied, p, bytes) /\ written' = With(written, p, expected)
      /\ dirs' = CowDirs(p, Walk(inodes, p)) /\ UNCHANGED <<marks, inodes>>
  BY <1>5 DEF Change
<1> HIDE DEF copied
<1>7. BytesIn(files') /\ BytesIn(written')
  BY <1>2, <1>6, WithBytes DEF HostTyped
<1>8. DOMAIN files' = DOMAIN copied \cup {p}
  BY <1>6 DEF With
<1> QED BY <1>1, <1>2, <1>6, <1>7, <1>8 DEF HostTyped

LEMMA RemovalTyped ==
    ASSUME HostInv, HostTyped,
           \/ \E p \in Paths : unlink(p)
           \/ \E p \in Tops : rmdir(p)
    PROVE  HostTyped'
<1>1. PICK p \in Paths : unlink(p) \/ rmdir(p)
  BY PathsAreKeys
<1>2. p \in Seq(Names) \ {<<>>}
  BY PathsAreShort
<1>3. /\ \E keys : files' = Without(files, keys)
      /\ \E keys : written' = Without(written, keys)
      /\ inodes' = remove_path(inodes, p)
      /\ dirs' \subseteq dirs /\ marks' \subseteq marks \cup {p}
  BY <1>1 DEF unlink, rmdir
<1>4. BytesIn(files') /\ BytesIn(written')
  BY <1>3, WithoutBytes DEF HostTyped
<1>5. DOMAIN files' \subseteq DOMAIN files
  BY <1>3 DEF Without
<1>6. MapTyped(inodes')
  BY <1>3, RemoveTyped DEF HostInv, HostTyped
<1> QED BY <1>2, <1>3, <1>4, <1>5, <1>6 DEF HostTyped

\* What moves keeps its bytes, and has a name again.
LEMMA MovedTyped ==
    ASSUME NEW p \in Seq(Names), NEW q \in Seq(Names), NEW set, set \subseteq Seq(Names)
    PROVE  /\ MovedSet(set, p, q) \subseteq Seq(Names)
           /\ \A x \in Below(p, set) : Rebase(x, p, q) \in Seq(Names)
<1>1. p \in Keys /\ q \in Keys
  BY NamedIs
<1>2. ASSUME NEW x \in Below(p, set) PROVE Rebase(x, p, q) \in Seq(Names)
  <2>1. x \in Seq(Names) /\ Under(p, x)
    BY DEF Below
  <2>2. x \in Keys
    BY <2>1, NamedIs
  <2> QED BY <1>1, <2>1, <2>2, RebaseNames
<1> QED BY <1>2 DEF MovedSet

LEMMA MovedBytes ==
    ASSUME NEW p \in Keys, NEW q \in Keys, NEW f, DOMAIN f \subseteq Keys, BytesIn(f)
    PROVE  BytesIn(MovedTo(f, p, q))
<1> SUFFICES ASSUME NEW y \in DOMAIN MovedTo(f, p, q) PROVE MovedTo(f, p, q)[y] \in Bytes
  BY DEF BytesIn
<1>1. /\ y \in Keys /\ y \in MovedSet(DOMAIN f, p, q)
      /\ MovedTo(f, p, q)[y] = IF Under(q, y) THEN f[Rebase(y, q, p)] ELSE f[y]
  BY MovedToIs
<1>2. IF Under(q, y) THEN Rebase(y, q, p) \in DOMAIN f ELSE y \in DOMAIN f
  BY <1>1, MovedIs
<1> QED BY <1>1, <1>2 DEF BytesIn

LEMMA RenameTypes ==
    ASSUME NEW packed, KeptHere(packed), HostTyped, NEW p \in Paths, NEW q \in Paths, rename(p, q)
    PROVE  HostTyped'
<1> DEFINE ino == get_inode(inodes, p)
           copied == IF OnOverlay(p) THEN files ELSE CopiedUp(p, ino)
           made == (IF OnOverlay(p) THEN dirs ELSE CowDirs(p, ino)) \cup WithParent(q)
           wrote == IF FileAt(p) THEN With(written, p, Expected(p))
                                 ELSE Without(written, LeftBehind(p))
<1>1. /\ p \in Seq(Names) \ {<<>>} /\ q \in Seq(Names) \ {<<>>} /\ p \in Keys /\ q \in Keys
      /\ DirsTo(p) \subseteq Seq(Names) /\ DirsTo(q) \subseteq Seq(Names) /\ HostInv
  BY PathsAreShort, NamedPrefix DEF KeptHere
<1>2. /\ BytesIn(copied) /\ DOMAIN copied \subseteq Seq(Names) \ {<<>>} /\ made \subseteq Seq(Names)
  BY <1>1, CopiedTyped DEF HostTyped, WithParent
<1>3. BytesIn(wrote) /\ DOMAIN wrote \subseteq Keys
  <2>1. FileAt(p) => Expected(p) \in Bytes
    BY <1>1, ExpectedTyped DEF FileAt
  <2>2. DOMAIN written \subseteq Keys
    BY KeptIsKey DEF KeptHere
  <2>3. DOMAIN wrote \subseteq DOMAIN written \cup {p}
    BY DEF With, Without
  <2>4. BytesIn(wrote)
    BY <2>1, WithBytes, WithoutBytes DEF HostTyped
  <2> QED BY <1>1, <2>2, <2>3, <2>4
<1>4. \/ /\ files' = MovedTo(copied, p, q)
         /\ dirs' = MovedSet(made, p, q) \cup DirsTo(p)
         /\ inodes' = rename_path(inodes, p, q)
         /\ marks' = (MovedMarks(p, q) \cup {p}) \ {q}
         /\ written' = MovedTo(wrote, p, q)
      \/ files' = copied /\ dirs' = made /\ UNCHANGED <<marks, inodes, written>>
  BY DEF rename
<1> HIDE DEF copied, made, wrote
<1>5. CASE files' = copied /\ dirs' = made /\ UNCHANGED <<marks, inodes, written>>
  BY <1>2, <1>5 DEF HostTyped
<1>6. CASE /\ files' = MovedTo(copied, p, q)
           /\ dirs' = MovedSet(made, p, q) \cup DirsTo(p)
           /\ inodes' = rename_path(inodes, p, q)
           /\ marks' = (MovedMarks(p, q) \cup {p}) \ {q}
           /\ written' = MovedTo(wrote, p, q)
  <2>1. <<>> \notin DOMAIN files' \cup marks'
    BY <1>1, RenameKeepsHost DEF HostInv
  <2>2. DOMAIN copied \subseteq Keys
    BY <1>2, NamedIs
  <2>3. DOMAIN files' = MovedSet(DOMAIN copied, p, q)
    BY <1>1, <1>6, <2>2, MovedToIs
  <2>4. DOMAIN files' \subseteq Seq(Names) /\ dirs' \subseteq Seq(Names)
    BY <1>1, <1>2, <1>6, <2>3, MovedTyped
  <2>5. marks' \subseteq Seq(Names)
    <3>1. marks \subseteq Seq(Names)
      BY DEF HostTyped
    <3>2. \A x \in Below(p, marks) : Rebase(x, p, q) \in Seq(Names)
      BY <1>1, <3>1, MovedTyped
    <3> QED BY <1>1, <1>6, <3>1, <3>2 DEF MovedMarks
  <2>6. BytesIn(files') /\ BytesIn(written')
    BY <1>1, <1>2, <1>3, <1>6, <2>2, MovedBytes
  <2>7. MapTyped(inodes')
    BY <1>1, <1>6, RenameTyped DEF HostInv, HostTyped
  <2> QED BY <2>1, <2>4, <2>5, <2>6, <2>7 DEF HostTyped
<1> QED BY <1>4, <1>5, <1>6

\* What a commit can read is a file, so no marker directory.
LEMMA ReadableTyped ==
    ASSUME HostInv, HostTyped, NEW p \in Readable
    PROVE  /\ Shaped(p) /\ Last(p) # Whiteout
           /\ read(inodes, Walk(inodes, p)) \in Bytes
<1>1. /\ p \in Keys \ {<<>>} /\ Walk(inodes, p) # NoInode
      /\ Walk(inodes, p) = InodeAt(inodes, p) /\ ~ IsDir(inodes, Walk(inodes, p))
  BY ReadableWay
<1>2. MapInv(inodes) /\ MapTyped(inodes)
  BY DEF HostInv, HostTyped
<1>3. p \in DOMAIN inodes.path_to_ino
  BY <1>1, <1>2, FoundWay
<1>4. Shaped(p)
  BY <1>2, <1>3 DEF MapTyped
<1>5. ASSUME Last(p) = Whiteout PROVE FALSE
  <2>1. p \notin Seq(Names)
    BY <1>1, <1>5, NamedIsShaped
  <2>2. ~ OnOverlay(p)
    BY <2>1 DEF OnOverlay, HostTyped
  <2>3. inodes.nodes[InodeAt(inodes, p)].dir
    BY <1>1, <1>2, <1>3, <1>5 DEF MapTyped, InodeAt
  <2> QED BY <1>1, <1>2, <1>3, <2>2, <2>3, KindIs DEF is_file
<1>6. read(inodes, Walk(inodes, p)) \in Bytes
  BY <1>1, ReadTyped
<1> QED BY <1>4, <1>5, <1>6

LEMMA CopyUpTyped ==
    ASSUME HostInv, HostTyped, NEW opened \in SUBSET Readable, CopyUp(opened), UNCHANGED inodes
    PROVE  HostTyped'
<1> DEFINE up == { p \in opened : ~ IsMarker(p) /\ ~ OnOverlay(p) }
           made == UNION { DirsTo(p) : p \in up \cup Hidden(opened) }
<1>1. /\ files' = [p \in DOMAIN files \cup up |->
                      IF p \in up THEN read(inodes, Walk(inodes, p)) ELSE files[p]]
      /\ dirs' = dirs \cup made
      /\ marks' = marks \cup Hidden(opened)
      /\ \E keys : written' = Without(written, keys)
  BY DEF CopyUp
<1>2. ASSUME NEW p \in up
      PROVE  p \in Seq(Names) \ {<<>>} /\ read(inodes, Walk(inodes, p)) \in Bytes
  <2>1. p \in Readable /\ ~ IsMarker(p)
    OBVIOUS
  <2> HIDE DEF up
  <2> QED BY <2>1, ReadableTyped, ShapedIsNamed
<1>3. ASSUME NEW p \in Hidden(opened) PROVE p \in Seq(Names) \ {<<>>}
  <2>1. PICK q \in opened : IsMarker(q) /\ p = MarkedBy(q)
    BY DEF Hidden
  <2>2. q \in Readable
    OBVIOUS
  <2> QED BY <2>1, <2>2, ReadableTyped, MarkedIsNamed
<1>4. made \subseteq Seq(Names)
  <2> SUFFICES ASSUME NEW p \in up \cup Hidden(opened) PROVE DirsTo(p) \subseteq Seq(Names)
    OBVIOUS
  <2>1. p \in Seq(Names)
    BY <1>2, <1>3
  <2> QED BY <2>1, NamedPrefix
<1> HIDE DEF up, made
<1>5. BytesIn(files') /\ DOMAIN files' = DOMAIN files \cup up
  BY <1>1, <1>2 DEF BytesIn, HostTyped
<1>6. BytesIn(written')
  BY <1>1, WithoutBytes DEF HostTyped
<1> QED BY <1>1, <1>2, <1>3, <1>4, <1>5, <1>6 DEF HostTyped

LEMMA MountTyped ==
    ASSUME HostTyped, MarkedThere, NEW manifest, Packable(manifest)
    PROVE  MapTyped(MountedOver(manifest))
<1> DEFINE hostDirs == (dirs \ {<<>>}) \cup MarkerDirs
           hostFiles == DOMAIN files \cup { Front(p) \o <<Whiteout, Last(p)>> : p \in marks }
<1>1. \A p \in marks : /\ Shaped(Front(p) \o <<Whiteout, Last(p)>>)
                       /\ Last(Front(p) \o <<Whiteout, Last(p)>>) # Whiteout
  BY MarkersAreShaped DEF HostTyped
<1>2. \A p \in hostDirs : Shaped(p)
  BY MarkerDirIsShaped, NamedIsShaped DEF MarkerDirs, HostTyped, MarkedThere
<1>3. \A p \in hostFiles : Shaped(p) /\ Last(p) # Whiteout
  BY <1>1, NamedIsShaped DEF HostTyped
<1>4. MountedOver(manifest) = Mounted(manifest, hostDirs, hostFiles)
  BY DEF MountedOver
<1> HIDE DEF hostDirs, hostFiles
<1> QED BY <1>2, <1>3, <1>4, MountedTyped

LEMMA EmptyMountTyped ==
    ASSUME NEW manifest, Packable(manifest)
    PROVE  MapTyped(Mounted(manifest, {}, {}))
BY MountedTyped

LEMMA NextTypes ==
    ASSUME WInv, TInv, Next /\ UNCHANGED commitVars PROVE TInv'
<1>1. KeptHere(Packed) /\ HostInv /\ HostTyped /\ MarkedThere
  BY KeptInEither DEF KeptHere, TInv, WInv, IInv
<1>2. UNCHANGED <<archive, committed, saved>>
  BY DEF Next, Remount, commitVars
<1>3. requests' \in 0..MaxRequests
  BY BoundAssumption DEF Next, Remount, TInv
<1>4. CASE Request
  <2>1. HostTyped'
    BY <1>1, <1>4, CreateTyped, MkdirTyped, OpenTyped, ChangeTyped, RemovalTyped, RenameTypes
       DEF Request
  <2> QED BY <1>2, <1>3, <2>1 DEF TInv
<1>5. CASE Remount
  <2>1. inodes' = MountedOver(archive) /\ UNCHANGED <<files, dirs, marks, written>>
    BY <1>5 DEF Remount, Remounted, hostVars
  <2>2. MapTyped(inodes')
    BY <1>1, <2>1, MountTyped DEF TInv
  <2>3. HostTyped'
    BY <1>1, <2>1, <2>2 DEF HostTyped
  <2> QED BY <1>2, <1>3, <2>3 DEF TInv
<1> QED BY <1>4, <1>5 DEF Next

LEMMA CommandsType ==
    ASSUME WInv, TInv, Commands PROVE TInv'
<1>1. HostInv /\ HostTyped /\ MarkedThere
  BY KeptInEither DEF KeptHere, TInv, WInv, IInv
<1>2. requests' \in 0..MaxRequests
  <2>1. requests' = requests \/ (requests + CommitCost <= MaxRequests /\ requests' = requests + CommitCost)
    BY DEF Commands, CommitOk, CommitFails, BeginCommit, CheckoutElsewhere, CheckoutHere
  <2> QED BY <2>1, BoundAssumption, CostAssumption DEF TInv
<1>3. CASE CommitOk
  <2>1. /\ CopyUp(Readable) /\ UNCHANGED <<archive, inodes>>
        /\ committed' = [p \in Readable |-> read(inodes, Walk(inodes, p))]
        /\ saved' = [p \in DOMAIN written \cap Readable |-> written[p]]
    BY <1>3 DEF CommitOk
  <2>2. HostTyped'
    BY <1>1, <2>1, CopyUpTyped
  <2>3. Packable(committed')
    BY <1>1, <2>1, ReadableTyped DEF Packable
  <2>4. BytesIn(saved')
    BY <2>1 DEF TInv, HostTyped, BytesIn
  <2> QED BY <1>2, <2>1, <2>2, <2>3, <2>4 DEF TInv
<1>4. CASE CommitFails
  <2>1. UNCHANGED <<archive, inodes, committed, saved>>
    BY <1>4 DEF CommitFails
  <2>2. \/ UNCHANGED <<files, dirs, marks, written>>
        \/ \E opened \in SUBSET Readable : CopyUp(opened)
    BY <1>4 DEF CommitFails, hostVars
  <2>3. HostTyped'
    <3>1. CASE UNCHANGED <<files, dirs, marks, written>>
      BY <1>1, <2>1, <3>1 DEF HostTyped
    <3>2. CASE \E opened \in SUBSET Readable : CopyUp(opened)
      BY <1>1, <2>1, <3>2, CopyUpTyped
    <3> QED BY <2>2, <3>1, <3>2
  <2> QED BY <1>2, <2>1, <2>3 DEF TInv
<1>5. CASE CheckoutElsewhere
  <2>1. /\ archive' = committed /\ written' = saved /\ UNCHANGED <<committed, saved>>
        /\ files' = <<>> /\ dirs' = { <<>> } /\ marks' = {}
        /\ inodes' = Mounted(committed, {}, {})
    BY <1>5 DEF CheckoutElsewhere, commitVars
  <2>2. MapTyped(inodes')
    BY <2>1, EmptyMountTyped DEF TInv
  <2>3. DOMAIN files' = {} /\ <<>> \in Seq(Names)
    BY <2>1, EmptySeq
  <2>4. BytesIn(files') /\ BytesIn(written')
    BY <2>1, <2>3 DEF TInv, BytesIn
  <2>5. HostTyped'
    BY <2>1, <2>2, <2>3, <2>4 DEF HostTyped
  <2> QED BY <1>2, <2>1, <2>5 DEF TInv
<1>6. CASE CheckoutHere
  <2>1. /\ archive' = committed /\ UNCHANGED <<committed, saved, files, dirs, marks, written>>
        /\ inodes' = MountedOver(committed)
    BY <1>6 DEF CheckoutHere, commitVars, hostVars
  <2>2. MapTyped(inodes')
    BY <1>1, <2>1, MountTyped DEF TInv
  <2>3. HostTyped'
    BY <1>1, <2>1, <2>2 DEF HostTyped
  <2> QED BY <1>2, <2>1, <2>3 DEF TInv
<1> QED BY <1>3, <1>4, <1>5, <1>6 DEF Commands

LEMMA InitTypes == WorkspaceInit => TInv
<1> SUFFICES ASSUME WorkspaceInit PROVE TInv
  OBVIOUS
<1>1. /\ archive = Archive /\ files = <<>> /\ dirs = { <<>> } /\ marks = {}
      /\ inodes = Mounted(Archive, {}, {}) /\ written = <<>> /\ requests = 0
      /\ committed = <<>> /\ saved = <<>>
  BY DEF WorkspaceInit, Init
<1>2. Packable(Archive)
  BY ArchiveAssumption, NamedIsShaped DEF Packable, Bytes
<1>3. MapTyped(inodes)
  BY <1>1, <1>2, EmptyMountTyped
<1>4. /\ DOMAIN files = {} /\ DOMAIN written = {} /\ DOMAIN saved = {} /\ DOMAIN committed = {}
      /\ <<>> \in Seq(Names) /\ requests \in 0..MaxRequests
  BY <1>1, EmptySeq, BoundAssumption
<1> QED BY <1>1, <1>2, <1>3, <1>4 DEF TInv, HostTyped, BytesIn, Packable

THEOREM TypesInvariance == WorkspaceSpec => []TInv
<1>1. WInv /\ TInv /\ [WorkspaceNext]_workspaceVars => TInv'
  <2> SUFFICES ASSUME WInv, TInv, [WorkspaceNext]_workspaceVars PROVE TInv'
    OBVIOUS
  <2>1. CASE UNCHANGED workspaceVars
    BY <2>1 DEF workspaceVars, vars, hostVars, commitVars, TInv, HostTyped
  <2> QED BY <2>1, NextTypes, CommandsType DEF WorkspaceNext
<1> QED BY <1>1, InitTypes, WritesAreKept, PTL DEF WorkspaceSpec

\* The overlay is a tree of files programs can name, and the maps lead to nodes: no
\* request, mount or commit copies a marker of a whiteout up as a file of theirs
\* (fuse/src/fuse/mod.rs, cli/src/cmd/data/commit.rs).
THEOREM TypeCorrect == WorkspaceSpec => []TypeOK
<1>1. WInv /\ TInv => TypeOK
  <2> SUFFICES ASSUME WInv, TInv PROVE TypeOK
    OBVIOUS
  <2>1. /\ \A p \in DOMAIN files : p \in Seq(Names) \ {<<>>} /\ files[p] \in Bytes
        /\ dirs \subseteq Seq(Names) /\ marks \subseteq Seq(Names) \ {<<>>}
        /\ requests \in 0..MaxRequests
    BY DEF TInv, HostTyped, BytesIn
  <2>2. /\ \A i \in DOMAIN inodes.ino_to_path : i \in DOMAIN inodes.nodes
        /\ \A p \in DOMAIN inodes.path_to_ino : inodes.path_to_ino[p] \in DOMAIN inodes.nodes
    BY DEF TInv, HostTyped, MapTyped
  <2>3. Tree(files, dirs, marks) /\ inodes.next_inode \in Nat
    BY DEF WInv, IInv, MapInv
  <2>4. ASSUME NEW p \in DOMAIN files PROVE Front(p) \in dirs
    <3>1. p \in Keys \ {<<>>}
      BY <2>1, NamedIs
    <3> QED BY <2>3, <3>1, ParentIs DEF Tree
  <2>5. \A p \in DOMAIN written : p \in Seq(Names) \ {<<>>} /\ written[p] \in Bytes
    BY DEF WInv, Kept, TInv, HostTyped, BytesIn
  <2>6. marked \subseteq dirs /\ \A p \in marks : Front(p) \in marked
    BY DEF WInv, IInv, MarkedThere, MarkersMarked
  <2> QED BY <2>1, <2>2, <2>3, <2>4, <2>5, <2>6 DEF TypeOK, Tree
<1> QED BY <1>1, TypesInvariance, WritesAreKept, PTL
=============================================================================
