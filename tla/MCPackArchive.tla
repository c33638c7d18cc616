---- MODULE MCPackArchive ----
(* Small inputs for PackArchive: chunks of one and two bytes, among them a   *)
(* chunk of zeros, in files that dedup against themselves, one another and   *)
(* the base, files that end with an empty chunk, which may be all that is on  *)
(* a page; a directory whose first file shrank after the walk; one with a    *)
(* file named memory; one with no file.                                      *)
EXTENDS ArchiveStats

Unchanging(chunks) == [declared |-> Len(FlattenSeq(chunks)), chunks |-> chunks]
SingleFile(f) == [dir |-> FALSE, main |-> <<f>>, aux |-> <<>>]
Directory(main, aux) == [dir |-> TRUE, main |-> main, aux |-> aux]

A == <<1, 2>>
B == <<2>>
Z == <<0, 0>>

MCInputs ==
    { SingleFile(Unchanging(<<A, Z, A, B>>)),
      SingleFile(Unchanging(<<B, A>>)),
      Directory(<<Unchanging(<<B, A, <<>>>>), Unchanging(<<B, Z, A>>)>>, <<>>),
      Directory(<<[declared |-> 3, chunks |-> <<A>>], Unchanging(<<B, A>>)>>, <<>>),
      Directory(<<[declared |-> 1, chunks |-> <<A>>], Unchanging(<<B>>)>>, <<>>),
      Directory(<<Unchanging(<<A, <<>>>>), Unchanging(<<>>)>>, <<Unchanging(<<B, A, Z, <<1>>>>)>>),
      Directory(<<>>, <<>>) }

\* A single byte packed over and over: the chain of bases.
ChainInputs == { SingleFile(Unchanging(<<B>>)), SingleFile(Unchanging(<<B, A>>)) }
====
