----------------------------- MODULE NbdSession -----------------------------
(***************************************************************************)
(* handle_client of server/src/nbd.rs: one task for each connection, which  *)
(* negotiates and then serves requests out of the shared archive.           *)
(*                                                                          *)
(* A connection is two queues of messages.  A message's header and its data *)
(* are messages of their own, so that a side which takes the one for the    *)
(* other is seen to be out of step.  The client is an external one, that     *)
(* keeps to the protocol as the server understands it: it may have several   *)
(* requests on the way, may ask for what the server does not support, and    *)
(* may hang up at any time.                                                 *)
(***************************************************************************)
EXTENDS SharedArchive

CONSTANTS NbdClients,
          MAX_BUFFER_SIZE,      \* NBD_MAX_BUFFER_SIZE, in bytes of the model
          Extents,              \* <<offset, length>> of requests
          MaxOptions,           \* bound: options a client sends
          MaxRequests           \* bound: requests a client sends

ASSUME NbdClientsAssumption == NbdClients \subseteq Readers
ASSUME ExtentsAssumption == Extents \subseteq Nat \X Nat /\ MAX_BUFFER_SIZE \in Nat
ASSUME BoundsAssumption == MaxOptions \in Nat /\ MaxRequests \in Nat

VARIABLES
    session,    \* the server's side
    client,     \* the client's side; waiting: requests that have no reply yet
    to_server, to_client

nbdVars == <<session, client, to_server, to_client>>

Nothing == [kind |-> "nothing"]
Msg(kind) == [kind |-> kind]

\* The options, and the requests, a client may send; a trim and an unknown
\* command are to the server what a flush is, but for the error number of the
\* latter, and how long a write is matters to nothing.
Options == { "export_name", "info", "go", "abort", "other", "too large" }
Requests ==
    { [type |-> "read", offset |-> x[1], length |-> x[2]] : x \in Extents }
    \cup { [type |-> t, offset |-> 0, length |-> 0] : t \in {"write", "flush", "disc"} }

\* A client that has hung up.
Gone == [pc |-> "gone", no_zeroes |-> FALSE, options |-> 0, option |-> "none",
         sent |-> 0, waiting |-> {}, current |-> Nothing]

NbdInit ==
    /\ session = [c \in NbdClients |->
                    [pc |-> "start", no_zeroes |-> FALSE, request |-> Nothing]]
    /\ client = [c \in NbdClients |-> [Gone EXCEPT !.pc = "start"]]
    /\ to_server = [c \in NbdClients |-> <<>>]
    /\ to_client = [c \in NbdClients |-> <<>>]

-----------------------------------------------------------------------------
(* The server.                                                              *)

\* What the next read from the socket finds.
Arrived(c) == to_server[c] # <<>>
First(c) == Head(to_server[c])
Consume(c) == to_server' = [to_server EXCEPT ![c] = Tail(@)]
Send(c, msgs) == to_client' = [to_client EXCEPT ![c] = @ \o msgs]
Goto(c, pc) ==
    session' = [session EXCEPT ![c].pc = pc, ![c].request = Nothing,
                               ![c].no_zeroes = @ /\ pc = "options"]

Handshake(c) ==
    /\ session[c].pc = "start"
    /\ Goto(c, "flags")
    /\ Send(c, <<Msg("greeting")>>)
    /\ UNCHANGED <<client, to_server, sharedVars>>

ReceiveFlags(c) ==
    /\ session[c].pc = "flags" /\ Arrived(c)
    /\ session' = [session EXCEPT ![c].pc = "options", ![c].no_zeroes = First(c).no_zeroes]
    /\ Consume(c)
    /\ UNCHANGED <<client, to_client, sharedVars>>

\* One turn of the negotiation loop.
Export_NoPadding(c) == <<Msg("export")>>
Export(c) ==
    IF session[c].no_zeroes THEN <<Msg("export")>> ELSE <<Msg("export"), Msg("124 zeroes")>>

NegotiateOption(c) ==
    /\ session[c].pc = "options" /\ Arrived(c) /\ First(c).kind = "option"
    /\ Consume(c)
    /\ LET option == First(c).option
       IN  \/ option \in {"abort", "too large"} /\ Goto(c, "closed") /\ UNCHANGED to_client
           \/ option = "export_name" /\ Goto(c, "transmission") /\ Send(c, Export(c))
           \/ /\ option \in {"info", "go"}
              /\ Goto(c, IF option = "go" THEN "transmission" ELSE "options")
              /\ Send(c, <<Msg("info"), Msg("ack")>>)
           \/ option = "other" /\ UNCHANGED session /\ Send(c, <<Msg("unsupported")>>)
    /\ UNCHANGED <<client, sharedVars>>

\* The simple reply to a request that carries no data.
Reply(request, error) == [kind |-> "reply", handle |-> request.handle, error |-> error]

\* One turn of the transmission loop: a read is handed to the archive, and the
\* data of a write is taken off the socket before it is refused.
Drained_None == {}
Drained == {"write"}

ReceiveRequest(c) ==
    /\ session[c].pc = "transmission" /\ Arrived(c) /\ First(c).kind = "request"
    /\ Consume(c)
    /\ LET request == First(c)
           Enter(pc) == session' = [session EXCEPT ![c].pc = pc, ![c].request = request]
       IN  \/ /\ request.length > MAX_BUFFER_SIZE \/ request.type = "disc"
              /\ Goto(c, "closed") /\ UNCHANGED <<to_client, sharedVars>>
           \/ /\ request.length <= MAX_BUFFER_SIZE /\ request.type = "read"
              /\ StartRead(c, "main", request.offset, request.length)
              /\ Enter("reading") /\ UNCHANGED to_client
           \/ /\ request.length <= MAX_BUFFER_SIZE /\ request.type \in Drained
              /\ Enter("draining") /\ UNCHANGED <<to_client, sharedVars>>
           \/ /\ request.length <= MAX_BUFFER_SIZE
              /\ request.type \in {"write", "flush"} \ Drained
              /\ Send(c, <<Reply(request, "EPERM")>>)
              /\ UNCHANGED <<session, sharedVars>>
    /\ UNCHANGED client

Drain(c) ==
    /\ session[c].pc = "draining" /\ Arrived(c)
    /\ Consume(c) /\ Goto(c, "transmission")
    /\ Send(c, <<Reply(session[c].request, "EPERM")>>)
    /\ UNCHANGED <<client, sharedVars>>

\* The reply to a read is as long as the request, whatever was read of it.
Padded(bytes, n) == bytes \o Zeros(n - Len(bytes))
Payload(request, result) ==
    [kind |-> "data", bytes |-> Padded(IF result = Failed THEN <<>> ELSE result, request.length)]

ReplyRead(c) ==
    /\ session[c].pc = "reading" /\ EndRead(c)
    /\ LET request == session[c].request
           result == Result(jobs[c])
       IN  Send(c, <<Reply(request, IF result = Failed THEN "EIO" ELSE "none"),
                     Payload(request, result)>>)
    /\ Goto(c, "transmission")
    /\ UNCHANGED <<client, to_server>>

\* Something that is not an option or a request, by its magic.
Bail(c) ==
    /\ Arrived(c)
    /\ \/ session[c].pc = "options" /\ First(c).kind # "option"
       \/ session[c].pc = "transmission" /\ First(c).kind # "request"
    /\ Goto(c, "bailed") /\ Consume(c)
    /\ UNCHANGED <<client, to_client, sharedVars>>

Over(c) == session[c].pc \in {"closed", "bailed"}

\* The socket of a client that is gone.
SocketFails(c) ==
    /\ client[c].pc = "gone" /\ ~ Over(c) /\ session[c].pc # "reading"
    /\ Goto(c, "closed")
    /\ to_server' = [to_server EXCEPT ![c] = <<>>]
    /\ to_client' = [to_client EXCEPT ![c] = <<>>]
    /\ UNCHANGED <<client, sharedVars>>

Serve(c) ==
    \/ Handshake(c) \/ ReceiveFlags(c) \/ NegotiateOption(c)
    \/ ReceiveRequest(c) \/ Drain(c) \/ ReplyRead(c)
    \/ Bail(c) \/ SocketFails(c)

-----------------------------------------------------------------------------
(* The client.                                                              *)

Sends(c, msgs) == to_server' = [to_server EXCEPT ![c] = @ \o msgs]
Takes(c, n) == to_client' = [to_client EXCEPT ![c] = SubSeq(@, n + 1, Len(@))]

SendFlags(c) ==
    /\ client[c].pc = "start" /\ to_client[c] # <<>>
    /\ Takes(c, 1)
    /\ \E z \in BOOLEAN :
          /\ client' = [client EXCEPT ![c].pc = "options", ![c].no_zeroes = z]
          /\ Sends(c, <<[kind |-> "flags", no_zeroes |-> z]>>)
    /\ UNCHANGED <<session, sharedVars>>

\* After one the server closes on, the client is gone.
SendOption(c) ==
    /\ client[c].pc = "options" /\ client[c].option = "none" /\ client[c].options < MaxOptions
    /\ \E o \in Options :
          LET asking == [client[c] EXCEPT !.options = @ + 1, !.option = o] IN
          /\ client' = [client EXCEPT ![c] = IF o \in {"abort", "too large"} THEN Gone ELSE asking]
          /\ Sends(c, <<[kind |-> "option", option |-> o]>>)
    /\ UNCHANGED <<session, to_client, sharedVars>>

Replies(option, no_zeroes) ==
    CASE option = "export_name" /\ no_zeroes -> <<Msg("export")>>
      [] option = "export_name" /\ ~ no_zeroes -> <<Msg("export"), Msg("124 zeroes")>>
      [] option \in {"info", "go"} -> <<Msg("info"), Msg("ack")>>
      [] option = "other" -> <<Msg("unsupported")>>

ReceiveReplies(c) ==
    /\ client[c].pc = "options" /\ client[c].option # "none"
    /\ LET option == client[c].option
           expected == Replies(option, client[c].no_zeroes)
       IN  /\ Len(to_client[c]) >= Len(expected)
           /\ Takes(c, Len(expected))
           /\ client' = [client EXCEPT
                 ![c].option = "none",
                 ![c].pc = IF SubSeq(to_client[c], 1, Len(expected)) # expected THEN "confused"
                           ELSE IF option \in {"export_name", "go"} THEN "transmission" ELSE @,
                 ![c].options = IF option \in {"export_name", "go"} THEN 0 ELSE @,
                 ![c].no_zeroes = @ /\ option \notin {"export_name", "go"}]
    /\ UNCHANGED <<session, to_server, sharedVars>>

\* Its data follows a write; a client that disconnects has had its replies.
SendRequest(c) ==
    /\ client[c].pc = "transmission" /\ client[c].sent < MaxRequests
    /\ \E r \in Requests :
          LET request == [kind |-> "request", handle |-> client[c].sent + 1,
                          type |-> r.type, offset |-> r.offset, length |-> r.length]
              asking == [client[c] EXCEPT !.sent = @ + 1, !.waiting = @ \cup {request}]
          IN  /\ r.type = "disc" => client[c].waiting = {}
              /\ client' = [client EXCEPT ![c] = IF r.type = "disc" THEN Gone ELSE asking]
              /\ Sends(c, <<request>> \o (IF r.type = "write" THEN <<Msg("data")>> ELSE <<>>))
    /\ UNCHANGED <<session, to_client, sharedVars>>

\* A reply to any of the requests; that to a read is followed by its data.
ReceiveReply(c) ==
    /\ client[c].pc = "transmission" /\ to_client[c] # <<>>
    /\ Takes(c, 1)
    /\ LET reply == Head(to_client[c])
           mine == { r \in client[c].waiting :
                       reply.kind = "reply" /\ r.handle = reply.handle }
       IN  \/ mine = {} /\ client' = [client EXCEPT ![c].pc = "confused"]
           \/ \E r \in mine :
                client' = IF r.type = "read"
                            THEN [client EXCEPT ![c].pc = "data",
                                                ![c].current = [request |-> r, error |-> reply.error]]
                            ELSE [client EXCEPT ![c].waiting = @ \ {r}]
    /\ UNCHANGED <<session, to_server, sharedVars>>

\* What a read of the export must return: past its end there are zeros.
ExportBytes(offset, n) == Padded(SubSeq(StreamBytes["main"], offset + 1,
                                        offset + Clamped("main", offset, n)), n)
Expected(r, error, bytes) ==
    Len(bytes) = r.length /\ (error = "none" => bytes = ExportBytes(r.offset, r.length))

ReceiveData(c) ==
    /\ client[c].pc = "data" /\ to_client[c] # <<>>
    /\ Takes(c, 1)
    /\ LET msg == Head(to_client[c])
           r == client[c].current.request
           right == msg.kind = "data" /\ Expected(r, client[c].current.error, msg.bytes)
       IN  client' = [client EXCEPT
              ![c].pc = IF right THEN "transmission" ELSE "confused",
              ![c].waiting = @ \ {r},
              ![c].current = Nothing]
    /\ UNCHANGED <<session, to_server, sharedVars>>

\* Something that is no option and no request, when nothing is on the way.
Misspeak(c) ==
    /\ client[c].pc \in {"options", "transmission"}
    /\ client[c].option = "none" /\ client[c].waiting = {}
    /\ client' = [client EXCEPT ![c] = Gone]
    /\ Sends(c, <<Msg("garbage")>>)
    /\ UNCHANGED <<session, to_client, sharedVars>>

\* What was on its way is lost.
HangUp(c) ==
    /\ client[c].pc # "gone"
    /\ client' = [client EXCEPT ![c] = Gone]
    /\ to_client' = [to_client EXCEPT ![c] = <<>>]
    /\ to_server' = [to_server EXCEPT ![c] = <<>>]
    /\ UNCHANGED <<session, sharedVars>>

Listen(c) == SendFlags(c) \/ ReceiveReplies(c) \/ ReceiveReply(c) \/ ReceiveData(c)
Client(c) == Listen(c) \/ SendOption(c) \/ SendRequest(c) \/ Misspeak(c) \/ HangUp(c)

-----------------------------------------------------------------------------

NbdTypeOK ==
    \A c \in NbdClients :
        /\ session[c].pc \in {"start", "flags", "options", "transmission", "reading", "draining",
                              "closed", "bailed"}
        /\ client[c].pc \in {"start", "options", "transmission", "data", "confused", "gone"}
        /\ client[c].options \in 0..MaxOptions /\ client[c].sent \in 0..MaxRequests
        /\ session[c].pc = "reading" <=> c \in DOMAIN jobs

\* Client and server never take one thing for another: every message the
\* client gets is one it waits for, the data of a read has the length it asked
\* for and is the export's unless there was an error, and the server never
\* takes what a client that is there sent for something else.  This holds with
\* requests on the way in both directions, for reads past the end and for
\* writes that are refused.
InSync ==
    \A c \in NbdClients :
        /\ client[c].pc # "confused"
        /\ session[c].pc = "bailed" => client[c].pc = "gone"

\* Whoever waits for the server gets all its answers, unless the connection
\* ends.
Waits(c) ==
    client[c].waiting # {} \/ (client[c].pc = "options" /\ client[c].option # "none")
Answered == \A c \in NbdClients : []<>(~ Waits(c) \/ Over(c))
=============================================================================
