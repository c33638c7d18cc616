----------------------------- MODULE RemoteSync -----------------------------
(***************************************************************************)
(* hexz push and hexz pull (cli/src/cmd/data/push.rs and pull.rs) over one  *)
(* object store (store/src/s3/remote.rs).  Every client keeps its archives  *)
(* in one directory and runs one command at a time; commands of different   *)
(* clients interleave between any two calls of the transport, any of which  *)
(* may fail.                                                                *)
(*                                                                          *)
(* push_archive and pull_archive are recursive: a client's stack holds a    *)
(* frame for each call in progress, the innermost first.  A header gives    *)
(* the parents of its archive by file name, and archives of different       *)
(* clients may share a name: an archive is an identity, a name is what      *)
(* directories and the store know it by.                                    *)
(***************************************************************************)
EXTENDS Naturals, Sequences

CONSTANTS Clients,
          Archives,     \* every archive that was ever packed
          NameOf,       \* the file name of each
          Bases,        \* the archives each was packed over, a sequence
          Age,          \* of names: a parent's name has a smaller one
          Owned,        \* the archives a client has at the start
          MaxCommands   \* bound: commands a client runs

Names == { NameOf[a] : a \in Archives }

ASSUME BasesAssumption == Bases \in [Archives -> Seq(Archives)]
ASSUME AgeAssumption ==
    /\ Age \in [Names -> Nat]
    /\ \A a \in Archives : \A i \in DOMAIN Bases[a] : Age[NameOf[Bases[a][i]]] < Age[NameOf[a]]
ASSUME OwnedAssumption ==
    /\ Owned \in [Clients -> SUBSET Archives]
    /\ \A c \in Clients : \A a, b \in Owned[c] : NameOf[a] = NameOf[b] => a = b

VARIABLES
    disk,       \* per client: a function from names to files
    remote,     \* a function from names to files
    command,    \* per client: the command it runs
    stack,      \* per client: the calls in progress, innermost first
    seen,       \* per client: the set pushed, or pulled
    todo,       \* per client: the rest of the listing of a pull
    last,       \* history, per client: the command that returned Ok last
    skipped,    \* history: client, child and parent ever skipped
    failed,     \* history: clients a command of which was cut off
    count       \* per client: commands started

vars == <<disk, remote, command, stack, seen, todo, last, skipped, failed, count>>

\* A file has the archive's bytes up to its end, beyond its header, or not even that.
Parts == {"whole", "cut", "stub"}
File(a, part) == [archive |-> a, part |-> part]
Files == [archive : Archives, part : Parts]

None == [op |-> "none"]
Push(n) == [op |-> "push", name |-> n]
Pull(n) == [op |-> "pull", name |-> n]
PullAll == [op |-> "pull_all"]

\* A call for an archive: where it is, and which parent it looks at next.
Frame(n) == [name |-> n, at |-> "entry", next |-> 1]

\* read_header, and the file names of header.parent_paths.
HasHeader(file) == file.part # "stub"
ParentNames(a) == [i \in DOMAIN Bases[a] |-> NameOf[Bases[a][i]]]

With(dir, n, file) == [x \in DOMAIN dir \cup {n} |-> IF x = n THEN file ELSE dir[x]]

Top(c) == Head(stack[c])
TopFile(c) == disk[c][Top(c).name]
Parents(c) == ParentNames(TopFile(c).archive)
Parent(c) == Parents(c)[Top(c).next]
In(c, ops, at) == command[c].op \in ops /\ stack[c] # <<>> /\ Top(c).at = at

\* What a command does to its stack.
At(f, at) == [f EXCEPT !.at = at]
Advanced(f) == [f EXCEPT !.next = @ + 1]
Return(c) == stack' = [stack EXCEPT ![c] = Tail(@)]
Goto(c, at) == stack' = [stack EXCEPT ![c] = <<At(Head(@), at)>> \o Tail(@)]
SkipParent(c) == stack' = [stack EXCEPT ![c] = <<Advanced(Head(@))>> \o Tail(@)]
CallParent(c, n) == stack' = [stack EXCEPT ![c] = <<Frame(n), Advanced(Head(@))>> \o Tail(@)]

Warn(c) == skipped' = skipped \cup {<<c, Top(c).name, Parent(c)>>}

-----------------------------------------------------------------------------
(* Commands.                                                                *)

FirstDir(c) == [n \in { NameOf[a] : a \in Owned[c] } |->
                  File(CHOOSE a \in Owned[c] : NameOf[a] = n, "whole")]

Init ==
    /\ disk = [c \in Clients |-> FirstDir(c)]
    /\ remote = [n \in {} |-> None]
    /\ command = [c \in Clients |-> None] /\ last = [c \in Clients |-> None]
    /\ stack = [c \in Clients |-> <<>>]
    /\ seen = [c \in Clients |-> {}] /\ todo = [c \in Clients |-> {}]
    /\ skipped = {} /\ failed = {}
    /\ count = [c \in Clients |-> 0]

Start(c, cmd, calls, listing) ==
    /\ command[c] = None /\ count[c] < MaxCommands
    /\ command' = [command EXCEPT ![c] = cmd]
    /\ stack' = [stack EXCEPT ![c] = calls]
    /\ seen' = [seen EXCEPT ![c] = {}] /\ todo' = [todo EXCEPT ![c] = listing]
    /\ last' = [last EXCEPT ![c] = None]
    /\ count' = [count EXCEPT ![c] = @ + 1]
    /\ UNCHANGED <<disk, remote, skipped, failed>>

\* push::run refuses an archive that is not there.
StartPush(c, n) == n \in DOMAIN disk[c] /\ Start(c, Push(n), <<Frame(n)>>, {})
StartPull(c, n) == Start(c, Pull(n), <<Frame(n)>>, {})
StartPullAll(c) == Start(c, PullAll, <<>>, DOMAIN remote)

\* The loop over the listing.
NextListed(c) ==
    /\ command[c] = PullAll /\ stack[c] = <<>>
    /\ \E n \in todo[c] :
          /\ todo' = [todo EXCEPT ![c] = @ \ {n}]
          /\ IF n \in DOMAIN disk[c] THEN UNCHANGED stack
             ELSE stack' = [stack EXCEPT ![c] = <<Frame(n)>>]
    /\ UNCHANGED <<disk, remote, command, seen, last, skipped, failed, count>>

Finish(c) ==
    /\ command[c] # None /\ stack[c] = <<>> /\ todo[c] = {}
    /\ last' = [last EXCEPT ![c] = command[c]]
    /\ command' = [command EXCEPT ![c] = None]
    /\ UNCHANGED <<disk, remote, stack, seen, todo, skipped, failed, count>>

\* A call of the transport or of the file system fails, which every caller
\* passes on, or the process is killed.
Abort(c) ==
    /\ command' = [command EXCEPT ![c] = None]
    /\ stack' = [stack EXCEPT ![c] = <<>>]
    /\ todo' = [todo EXCEPT ![c] = {}]
    /\ failed' = failed \cup {c}
Fail(c) ==
    /\ command[c] # None /\ Abort(c)
    /\ UNCHANGED <<disk, remote, seen, last, skipped, count>>

-----------------------------------------------------------------------------
(* push_archive.                                                            *)

\* exists(), and read_header of an archive that is not on the remote.
PushEntry(c) ==
    /\ In(c, {"push"}, "entry")
    /\ seen' = [seen EXCEPT ![c] = @ \cup {Top(c).name}]
    /\ IF Top(c).name \in seen[c] \cup DOMAIN remote THEN Return(c)
       ELSE HasHeader(TopFile(c)) /\ Goto(c, "parents")
    /\ UNCHANGED <<disk, remote, command, todo, last, skipped, failed, count>>

ParentsDone_OffByOne(c) == Top(c).next >= Len(Parents(c))
ParentsDone(c) == Top(c).next > Len(Parents(c))

PushParent(c) ==
    /\ In(c, {"push"}, "parents") /\ ~ ParentsDone(c)
    /\ IF Parent(c) \in DOMAIN disk[c]
          THEN CallParent(c, Parent(c)) /\ UNCHANGED skipped
          ELSE SkipParent(c) /\ Warn(c)
    /\ UNCHANGED <<disk, remote, command, seen, todo, last, failed, count>>

\* upload: the answer may still get lost, and the command then fails.
PushUpload(c) ==
    /\ In(c, {"push"}, "parents") /\ ParentsDone(c)
    /\ remote' = With(remote, Top(c).name, TopFile(c))
    /\ Return(c)
    /\ UNCHANGED <<disk, command, seen, todo, last, skipped, failed, count>>

-----------------------------------------------------------------------------
(* pull_archive.                                                            *)

PullEntry_NoDownload(c) ==
    /\ In(c, {"pull", "pull_all"}, "entry")
    /\ seen' = [seen EXCEPT ![c] = @ \cup {Top(c).name}]
    /\ IF Top(c).name \in seen[c] THEN Return(c) ELSE Goto(c, "parents")
    /\ UNCHANGED <<disk, remote, command, todo, last, skipped, failed, count>>
PullEntry(c) ==
    /\ In(c, {"pull", "pull_all"}, "entry")
    /\ seen' = [seen EXCEPT ![c] = @ \cup {Top(c).name}]
    /\ IF Top(c).name \in seen[c] THEN Return(c)
       ELSE Goto(c, IF Top(c).name \in DOMAIN disk[c] THEN "parents" ELSE "download")
    /\ UNCHANGED <<disk, remote, command, todo, last, skipped, failed, count>>

\* download: std::fs::write of the bytes get_object returned.
PullDownload_Only(c) ==
    /\ In(c, {"pull", "pull_all"}, "download") /\ Top(c).name \in DOMAIN remote
    /\ disk' = [disk EXCEPT ![c] = With(@, Top(c).name, remote[Top(c).name])]
    /\ Return(c)
    /\ UNCHANGED <<remote, command, seen, todo, last, skipped, failed, count>>
PullDownload(c) ==
    /\ In(c, {"pull", "pull_all"}, "download") /\ Top(c).name \in DOMAIN remote
    /\ disk' = [disk EXCEPT ![c] = With(@, Top(c).name, remote[Top(c).name])]
    /\ Goto(c, "parents")
    /\ UNCHANGED <<remote, command, seen, todo, last, skipped, failed, count>>

\* The write ends early: what was written stays, under the archive's name.
PullCutOff(c) ==
    /\ In(c, {"pull", "pull_all"}, "download") /\ Top(c).name \in DOMAIN remote
    /\ \E part \in {"cut", "stub"} :
          disk' = [disk EXCEPT ![c] =
                     With(@, Top(c).name, File(remote[Top(c).name].archive, part))]
    /\ Abort(c)
    /\ UNCHANGED <<remote, seen, last, skipped, count>>

\* A parent that is on the disk is not looked into.
PullParent(c) ==
    /\ In(c, {"pull", "pull_all"}, "parents") /\ HasHeader(TopFile(c)) /\ ~ ParentsDone(c)
    /\ IF Parent(c) \in DOMAIN disk[c] THEN SkipParent(c) /\ UNCHANGED skipped
       ELSE IF Parent(c) \in DOMAIN remote
          THEN CallParent(c, Parent(c)) /\ UNCHANGED skipped
          ELSE SkipParent(c) /\ Warn(c)
    /\ UNCHANGED <<disk, remote, command, seen, todo, last, failed, count>>

\* A header that cannot be read is taken for one without parents.
PullReturn(c) ==
    /\ In(c, {"pull", "pull_all"}, "parents") /\ (HasHeader(TopFile(c)) => ParentsDone(c))
    /\ Return(c)
    /\ UNCHANGED <<disk, remote, command, seen, todo, last, skipped, failed, count>>

Client(c) ==
    \/ \E n \in Names : StartPush(c, n) \/ StartPull(c, n)
    \/ StartPullAll(c) \/ NextListed(c) \/ Finish(c) \/ Fail(c)
    \/ PushEntry(c) \/ PushParent(c) \/ PushUpload(c)
    \/ PullEntry(c) \/ PullDownload(c) \/ PullCutOff(c) \/ PullParent(c) \/ PullReturn(c)

\* No command is left to run.
Done == (\A c \in Clients : command[c] = None /\ count[c] = MaxCommands) /\ UNCHANGED vars

Next == (\E c \in Clients : Client(c)) \/ Done

Spec == Init /\ [][Next]_vars

-----------------------------------------------------------------------------
(* What push and pull promise.                                              *)

TypeOK ==
    /\ disk \in [Clients -> UNION { [N -> Files] : N \in SUBSET Names }]
    /\ remote \in UNION { [N -> Files] : N \in SUBSET Names }
    /\ \A n \in DOMAIN remote : HasHeader(remote[n])
    /\ \A c \in Clients :
          /\ \A i \in DOMAIN stack[c] :
                /\ stack[c][i].name \in Names /\ stack[c][i].next \in Nat \ {0}
                /\ stack[c][i].at = "parents" => stack[c][i].name \in DOMAIN disk[c]
          /\ command[c] = None => stack[c] = <<>> /\ todo[c] = {}
          /\ todo[c] \subseteq DOMAIN remote

\* A parent is on the remote before its child, whatever fails and whoever else
\* pushes, unless a client that had the child but not the parent said so.
ParentsFirst ==
    \A n \in DOMAIN remote : \A p \in {ParentNames(remote[n].archive)[i] :
                                          i \in DOMAIN Bases[remote[n].archive]} :
        p \in DOMAIN remote \/ \E c \in Clients : <<c, n, p>> \in skipped

\* A push that returns Ok leaves its archive on the remote.
Delivered == \A c \in Clients : last[c].op = "push" => last[c].name \in DOMAIN remote

PushSound == ParentsFirst /\ Delivered

\* Parents an archive of a directory has and the directory does not.
Dangling(dir) ==
    UNION { { <<n, p>> : p \in { ParentNames(dir[n].archive)[i] :
                                    i \in DOMAIN Bases[dir[n].archive] } \ DOMAIN dir } :
            n \in DOMAIN dir }

\* A pull that is not cut off leaves no archive without its parents in the
\* directory, but for those that lacked them before or were not on the remote.
PullCloses ==
    \A c \in Clients \ failed : command[c] = None =>
        \A e \in Dangling(disk[c]) : e \in Dangling(FirstDir(c)) \/ <<c, e[1], e[2]>> \in skipped
=============================================================================
