---------------------------- MODULE ArchiveServer ----------------------------
(***************************************************************************)
(* The servers of server/src/lib.rs over one archive: NBD sessions and the  *)
(* requests of HTTP clients for ranges of a stream.  Each runs in a task of  *)
(* its own; they share the archive, its cache and its prefetcher.           *)
(***************************************************************************)
EXTENDS NbdSession

CONSTANTS HttpClients,
          MAX_CHUNK_SIZE,       \* the longest answer
          Ranges                \* Range headers, see parse_range

ASSUME HttpClientsAssumption ==
    HttpClients \subseteq Readers /\ HttpClients \cap NbdClients = {}
ASSUME ChunkAssumption == MAX_CHUNK_SIZE \in Nat \ {0}

VARIABLES http      \* [pc, stream, range, start, end, status, body]

vars == <<sharedVars, nbdVars, http>>

NoHeader == [kind |-> "none"]
Malformed == [kind |-> "malformed"]
Open == -1          \* "bytes=5-"
ASSUME RangesAssumption ==
    \A range \in Ranges : \/ range \in {NoHeader, Malformed}
                          \/ range \in [kind : {"bytes"}, from : Nat, to : Nat \cup {Open}]

NoRange == <<>>

\* parse_range: the first and the last byte, or NoRange.
parse_range(range, total) ==
    LET last == IF range.to # Open THEN range.to ELSE IF total = 0 THEN 0 ELSE total - 1
    IN  IF range = Malformed \/ range.from > last \/ last >= total
           THEN NoRange ELSE <<range.from, last>>

\* Without a header it is all of the stream.
Requested(range, total) ==
    IF range = NoHeader THEN <<0, IF total = 0 THEN 0 ELSE total - 1>>
    ELSE parse_range(range, total)

\* An answer is never longer than MAX_CHUNK_SIZE.
LastByte_Clamped(start, end, total) ==
    IF end - start > MAX_CHUNK_SIZE THEN start + MAX_CHUNK_SIZE ELSE end
LastByte(start, end, total) ==
    IF end - start + 1 <= MAX_CHUNK_SIZE THEN end
    ELSE IF start + MAX_CHUNK_SIZE - 1 >= total THEN total - 1
    ELSE start + MAX_CHUNK_SIZE - 1

\* A client that has asked for nothing.
Idle == [pc |-> "idle", stream |-> "main", range |-> NoHeader,
         start |-> 0, end |-> 0, status |-> 0, body |-> <<>>]

\* handle_request up to the read ...
Get(c) ==
    /\ http[c].pc = "idle"
    /\ \E range \in Ranges, stream \in Streams :
          LET total == size(Archive, stream)
              asked == Requested(range, total)
              asks == [Idle EXCEPT !.stream = stream, !.range = range]
          IN  IF asked = NoRange
                 THEN /\ http' = [http EXCEPT ![c] =
                                    [asks EXCEPT !.pc = "answered", !.status = 416]]
                      /\ UNCHANGED sharedVars
                 ELSE LET last == LastByte(asked[1], asked[2], total)
                      IN  /\ http' = [http EXCEPT ![c] =
                                [asks EXCEPT !.pc = "reading", !.start = asked[1], !.end = last]]
                          /\ StartRead(c, stream, asked[1], last - asked[1] + 1)
    /\ UNCHANGED nbdVars

\* ... and after it.
Respond(c) ==
    /\ http[c].pc = "reading" /\ EndRead(c)
    /\ LET result == Result(jobs[c])
       IN  http' = [http EXCEPT ![c].pc = "answered",
                                ![c].status = IF result = Failed THEN 500 ELSE 206,
                                ![c].body = IF result = Failed THEN <<>> ELSE result]
    /\ UNCHANGED nbdVars

\* The client has its answer.
Take(c) ==
    /\ http[c].pc = "answered" /\ http' = [http EXCEPT ![c] = Idle]
    /\ UNCHANGED <<sharedVars, nbdVars>>

Init ==
    /\ SharedInit /\ NbdInit
    /\ http = [c \in HttpClients |-> Idle]

Fetch == \E r \in Readers : FetchItem(r) /\ UNCHANGED <<nbdVars, http>>
Prefetch == Warm /\ UNCHANGED <<nbdVars, http>>
Nbd == \E c \in NbdClients : (Serve(c) \/ Client(c)) /\ UNCHANGED http
Http == \E c \in HttpClients : Get(c) \/ Respond(c) \/ Take(c)

Next == Fetch \/ Prefetch \/ Nbd \/ Http

Spec == Init /\ [][Next]_vars

\* The task of a connection goes on as long as it can, and a client that waits
\* for something takes it when it comes.  Clients need not ask.
NbdProgress(c) ==
    \/ FetchItem(c) /\ UNCHANGED <<nbdVars, http>>
    \/ (Serve(c) \/ Listen(c)) /\ UNCHANGED http
FairSpec == Spec /\ \A c \in NbdClients : WF_vars(NbdProgress(c))

-----------------------------------------------------------------------------

TypeOK ==
    /\ SharedTypeOK /\ NbdTypeOK
    /\ \A c \in HttpClients :
          /\ http[c].pc \in {"idle", "reading", "answered"}
          /\ http[c].status \in {0, 206, 416, 500}
          /\ http[c].pc = "reading" <=> c \in DOMAIN jobs

\* A 206 says truly what it carries: Content-Range starts where the client
\* asked, ends no later, is not too long, and the body is these bytes of the
\* stream, whatever is read at the same time.  (An empty stream, which is
\* answered with "bytes 0-0/0" when there is no Range header, is left out.)
RangeHonoured ==
    \A c \in HttpClients :
        http[c].status = 206 /\ size(Archive, http[c].stream) > 0 =>
            LET r == http[c]
                asked == Requested(r.range, size(Archive, r.stream))
            IN  /\ r.start = asked[1] /\ r.end <= asked[2]
                /\ Len(r.body) = r.end - r.start + 1 /\ Len(r.body) <= MAX_CHUNK_SIZE
                /\ r.body = SubSeq(StreamBytes[r.stream], r.start + 1, r.end + 1)
=============================================================================
