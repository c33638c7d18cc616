---- MODULE MCArchiveServer ----
(* An encrypted archive with two pages in the Main stream, a sparse block, a  *)
(* block of the base and a stream of its own for the memory.                 *)
EXTENDS ArchiveServer

CONSTANTS n1, h1

MCParent ==
    [file |-> <<HeaderObject, BlockObject(<<2, 2>>, 0),
                PageObject(<<Local(1, 2, <<2, 2>>)>>), IndexObject>>,
     main |-> <<PageEntry(2, 0, 0)>>, aux |-> <<>>, mainSize |-> 2, auxSize |-> 0]
MCArchive ==
    [file |-> <<HeaderObject, BlockObject(<<1, 2>>, 0),
                PageObject(<<Local(1, 2, <<1, 2>>), Sparse(1)>>),
                BlockObject(<<1>>, 3),
                PageObject(<<ParentRef(<<2, 2>>, 2), Local(3, 1, <<1>>)>>),
                BlockObject(<<2, 0>>, 0),
                PageObject(<<Local(5, 2, <<2, 0>>)>>), IndexObject>>,
     main |-> <<PageEntry(2, 0, 0), PageEntry(4, 2, 3)>>, aux |-> <<PageEntry(6, 0, 0)>>,
     mainSize |-> 6, auxSize |-> 2]
MCParents == <<MCParent>>

MCReaders == {n1, h1}
MCNbdClients == {n1}
MCHttpClients == {h1}

\* Over the end and with two blocks of its own, in parallel; too much.
MCExtents == { <<1, 6>>, <<0, 8>> }
\* Everything, which is too long; a piece of a block, so that what is
\* prefetched is the block itself; and a range that ends after the stream.
MCRanges == { NoHeader, [kind |-> "bytes", from |-> 0, to |-> 0],
              [kind |-> "bytes", from |-> 5, to |-> 6] }
====
