--------------------------- MODULE RemoteSyncProofs ---------------------------
(***************************************************************************)
(* For any clients, archives and names, and whatever fails: parents reach  *)
(* the remote before their children, a push that returns Ok has delivered  *)
(* its archive, and a pull that is not cut off leaves no archive in its    *)
(* directory without the parents the remote had.                           *)
(***************************************************************************)
EXTENDS RemoteSync, SequenceTheorems, TLAPS

Frames == [name : Names, at : {"entry", "parents", "download"}, next : Nat \ {0}]
Commands == {None, PullAll} \cup { Push(n) : n \in Names } \cup { Pull(n) : n \in Names }

\* A directory, or the remote: a file stands under the name of its archive.
Directory(dir) ==
    /\ DOMAIN dir \subseteq Names
    /\ \A n \in DOMAIN dir : /\ dir[n] \in Files
                             /\ NameOf[dir[n].archive] = n

StackTyped(c) == stack[c] \in Seq(Frames) /\ command[c] \in Commands
                 /\ todo[c] \subseteq Names /\ (command[c] = None => stack[c] = <<>>)

Typed ==
    /\ DOMAIN disk = Clients /\ (\A c \in Clients : Directory(disk[c])) /\ Directory(remote)
    /\ DOMAIN command = Clients /\ DOMAIN stack = Clients /\ DOMAIN seen = Clients
    /\ DOMAIN last = Clients /\ DOMAIN todo = Clients
    /\ \A c \in Clients : StackTyped(c)

\* Parent j of archive n of client c is dealt with.
OnRemote(c, n, j) ==
    LET p == ParentNames(disk[c][n].archive)[j]
    IN  p \in DOMAIN remote \/ <<c, n, p>> \in skipped

\* A frame of a push: its archive is there, and all parents before next are
\* dealt with, but for the one the call above it is for.
FrameInv(c, i) ==
    LET f == stack[c][i] IN
    /\ f.name \in DOMAIN disk[c]
    /\ i > 1 => f.at = "parents"
    /\ f.at = "entry" => f.next = 1
    /\ f.at = "parents" =>
          \A j \in DOMAIN Bases[disk[c][f.name].archive] :
              j < f.next => \/ OnRemote(c, f.name, j)
                            \/ i > 1 /\ stack[c][i-1].name = ParentNames(disk[c][f.name].archive)[j]

\* Calls go from an archive to an older name.
Descends(c) == \A i, k \in DOMAIN stack[c] :
                  i < k => Age[stack[c][i].name] < Age[stack[c][k].name]

\* What was seen is on the remote or being pushed.
SeenInv(c) == \A n \in seen[c] :
                  \/ n \in DOMAIN remote
                  \/ \E i \in DOMAIN stack[c] : stack[c][i].name = n /\ stack[c][i].at = "parents"

\* The outermost call is for the archive of the command.
TargetInv(c) ==
    \/ command[c].name \in DOMAIN remote
    \/ stack[c] # <<>> /\ stack[c][Len(stack[c])].name = command[c].name

PushInv(c) ==
    command[c].op = "push" =>
        /\ \A i \in DOMAIN stack[c] : FrameInv(c, i)
        /\ Descends(c) /\ SeenInv(c) /\ TargetInv(c)

IInv == Typed /\ (\A c \in Clients : PushInv(c)) /\ PushSound
-----------------------------------------------------------------------------
(* Stacks.                                                                  *)

\* Taking the innermost call away leaves the others.
LEMMA Popped ==
  ASSUME NEW S, NEW s \in Seq(S), s # <<>>
  PROVE  /\ Head(s) = s[1] /\ Head(s) \in S /\ Len(s) \in Nat \ {0}
         /\ Tail(s) \in Seq(S) /\ Len(Tail(s)) = Len(s) - 1
         /\ DOMAIN s = 1..Len(s) /\ DOMAIN Tail(s) = 1..(Len(s) - 1)
         /\ \A i \in DOMAIN Tail(s) : Tail(s)[i] = s[i+1]
  <1>1. Len(s) \in Nat \ {0} /\ DOMAIN s = 1..Len(s)
    OBVIOUS
  <1>2. Tail(s) \in Seq(S) /\ Len(Tail(s)) = Len(s) - 1
    OBVIOUS
  <1>3. DOMAIN Tail(s) = 1..(Len(s) - 1) /\ \A i \in DOMAIN Tail(s) : Tail(s)[i] = s[i+1]
    BY <1>1, <1>2
  <1>4. Head(s) = s[1] /\ Head(s) \in S
    BY <1>1
  <1>5. QED
    BY <1>1, <1>2, <1>3, <1>4

\* The innermost call goes on, the others stay.
LEMMA Replaced ==
  ASSUME NEW S, NEW s \in Seq(S), s # <<>>, NEW x \in S, NEW t, t = <<x>> \o Tail(s)
  PROVE  /\ t \in Seq(S) /\ Len(t) = Len(s) /\ DOMAIN t = DOMAIN s
         /\ t[1] = x /\ \A i \in DOMAIN t : i > 1 => t[i] = s[i]
  <1>1. /\ Len(s) \in Nat \ {0} /\ Tail(s) \in Seq(S) /\ Len(Tail(s)) = Len(s) - 1
        /\ DOMAIN s = 1..Len(s) /\ DOMAIN Tail(s) = 1..(Len(s) - 1)
        /\ \A i \in DOMAIN Tail(s) : Tail(s)[i] = s[i+1]
    BY Popped
  <1>2. <<x>> \in Seq(S) /\ Len(<<x>>) = 1 /\ <<x>>[1] = x
    OBVIOUS
  <1>3. t \in Seq(S) /\ Len(t) = Len(s)
    BY <1>1, <1>2
  <1>4. DOMAIN t = 1..Len(s)
    BY <1>3
  <1>5. t[1] = x
    BY <1>1, <1>2
  <1>6. ASSUME NEW i \in 1..Len(s), i > 1
        PROVE  t[i] = s[i]
    <2>1. t[i] = Tail(s)[i-1]
      BY <1>1, <1>2, <1>6
    <2>2. i - 1 \in DOMAIN Tail(s) /\ (i - 1) + 1 = i
      BY <1>1, <1>6
    <2>3. QED
      BY <1>1, <2>1, <2>2
  <1>7. QED
    BY <1>1, <1>3, <1>4, <1>5, <1>6

\* The innermost call goes on after a call it makes.
LEMMA Called ==
  ASSUME NEW S, NEW s \in Seq(S), s # <<>>, NEW x \in S, NEW y \in S,
         NEW t, t = <<x, y>> \o Tail(s)
  PROVE  /\ t \in Seq(S) /\ Len(t) = Len(s) + 1 /\ DOMAIN t = 1..(Len(s) + 1)
         /\ t[1] = x /\ t[2] = y /\ \A i \in DOMAIN t : i > 2 => t[i] = s[i-1]
  <1>1. /\ Len(s) \in Nat \ {0} /\ Tail(s) \in Seq(S) /\ Len(Tail(s)) = Len(s) - 1
        /\ DOMAIN s = 1..Len(s) /\ DOMAIN Tail(s) = 1..(Len(s) - 1)
        /\ \A i \in DOMAIN Tail(s) : Tail(s)[i] = s[i+1]
    BY Popped
  <1>2. <<x, y>> \in Seq(S) /\ Len(<<x, y>>) = 2 /\ <<x, y>>[1] = x /\ <<x, y>>[2] = y
    OBVIOUS
  <1>3. t \in Seq(S) /\ Len(t) = Len(s) + 1
    BY <1>1, <1>2
  <1>4. DOMAIN t = 1..(Len(s) + 1)
    BY <1>3, <1>1
  <1>5. t[1] = x /\ t[2] = y
    BY <1>1, <1>2
  <1>6. ASSUME NEW i \in 1..(Len(s) + 1), i > 2
        PROVE  t[i] = s[i-1]
    <2>1. t[i] = Tail(s)[i-2]
      BY <1>1, <1>2, <1>6
    <2>2. i - 2 \in DOMAIN Tail(s) /\ (i - 2) + 1 = i - 1
      BY <1>1, <1>6
    <2>3. QED
      BY <1>1, <2>1, <2>2
  <1>7. QED
    BY <1>1, <1>3, <1>4, <1>5, <1>6

-----------------------------------------------------------------------------
(* Archives.                                                                *)

\* Parents have older names.
LEMMA ParentFacts ==
  ASSUME NEW a \in Archives
  PROVE  /\ Len(Bases[a]) \in Nat /\ DOMAIN Bases[a] = 1..Len(Bases[a])
         /\ DOMAIN ParentNames(a) = DOMAIN Bases[a] /\ Len(ParentNames(a)) = Len(Bases[a])
         /\ \A j \in DOMAIN Bases[a] :
               /\ ParentNames(a)[j] \in Names /\ Age[ParentNames(a)[j]] \in Nat
               /\ Age[NameOf[a]] \in Nat /\ Age[ParentNames(a)[j]] < Age[NameOf[a]]
  <1>1. Bases[a] \in Seq(Archives)
    BY BasesAssumption
  <1>2. Len(Bases[a]) \in Nat /\ DOMAIN Bases[a] = 1..Len(Bases[a])
    BY <1>1
  <1>3. \A j \in DOMAIN Bases[a] : Bases[a][j] \in Archives
    BY <1>1, <1>2
  <1>4. DOMAIN ParentNames(a) = 1..Len(Bases[a])
    BY <1>2 DEF ParentNames
  <1>5. Len(ParentNames(a)) = Len(Bases[a])
    <2>1. ParentNames(a) \in [1..Len(Bases[a]) -> Names]
      BY <1>2, <1>3 DEF ParentNames, Names
    <2>2. ParentNames(a) \in Seq(Names)
      BY <2>1, <1>2, SeqDef
    <2>3. QED
      BY <2>2, <1>2, <1>4, LenProperties
  <1>6. ASSUME NEW j \in DOMAIN Bases[a]
        PROVE  /\ ParentNames(a)[j] \in Names /\ Age[ParentNames(a)[j]] \in Nat
               /\ Age[NameOf[a]] \in Nat /\ Age[ParentNames(a)[j]] < Age[NameOf[a]]
    <2>1. ParentNames(a)[j] = NameOf[Bases[a][j]]
      BY DEF ParentNames
    <2>2. NameOf[Bases[a][j]] \in Names /\ NameOf[a] \in Names
      BY <1>3 DEF Names
    <2>3. QED
      BY <2>1, <2>2, AgeAssumption
  <1>7. QED
    BY <1>2, <1>4, <1>5, <1>6

\* Putting a file under its archive's name.
LEMMA WithFacts ==
  ASSUME NEW dir, NEW n \in Names, NEW file \in Files, Directory(dir), NameOf[file.archive] = n
  PROVE  /\ Directory(With(dir, n, file))
         /\ DOMAIN With(dir, n, file) = DOMAIN dir \cup {n}
         /\ With(dir, n, file)[n] = file
         /\ \A x \in DOMAIN dir : x # n => With(dir, n, file)[x] = dir[x]
  BY DEF With, Directory

-----------------------------------------------------------------------------
(* What an action does to the stack of its client.                          *)

Moves(c) ==
    \/ Return(c)
    \/ \E at \in {"parents", "download"} : Goto(c, at)
    \/ SkipParent(c)
    \/ \E n \in Names : CallParent(c, n)

\* Frames stay frames, and other clients have their own.
LEMMA MovesFacts ==
  ASSUME Typed, NEW c \in Clients, stack[c] # <<>>, Moves(c)
  PROVE  /\ DOMAIN stack' = Clients /\ stack'[c] \in Seq(Frames)
         /\ \A d \in Clients \ {c} : stack'[d] = stack[d]
  <1> DEFINE s == stack[c]
             f == Head(s)
  <1>1. s \in Seq(Frames) /\ s # <<>> /\ DOMAIN stack = Clients
    BY DEF Typed, StackTyped
  <1>2. f \in Frames /\ Tail(s) \in Seq(Frames)
    BY <1>1, Popped
  <1>3. DOMAIN stack' = Clients /\ \A d \in Clients \ {c} : stack'[d] = stack[d]
    BY <1>1 DEF Moves, Return, Goto, SkipParent, CallParent
  <1>4. Advanced(f) \in Frames
    BY <1>2 DEF Frames, Advanced
  <1>5. stack'[c] \in Seq(Frames)
    <2>1. CASE Return(c)
      BY <1>1, <1>2, <2>1 DEF Return
    <2>2. CASE \E at \in {"parents", "download"} : Goto(c, at)
      <3>1. PICK at \in {"parents", "download"} : Goto(c, at)
        BY <2>2
      <3>2. At(f, at) \in Frames
        BY <1>2 DEF Frames, At
      <3>3. stack'[c] = <<At(f, at)>> \o Tail(s)
        BY <1>1, <3>1 DEF Goto
      <3>4. QED
        BY <1>1, <3>2, <3>3, Replaced
    <2>3. CASE SkipParent(c)
      <3>1. stack'[c] = <<Advanced(f)>> \o Tail(s)
        BY <1>1, <2>3 DEF SkipParent
      <3>2. QED
        BY <1>1, <1>4, <3>1, Replaced
    <2>4. CASE \E n \in Names : CallParent(c, n)
      <3>1. PICK n \in Names : CallParent(c, n)
        BY <2>4
      <3>2. stack'[c] = <<Frame(n), Advanced(f)>> \o Tail(s)
        BY <1>1, <3>1 DEF CallParent
      <3>3. Frame(n) \in Frames
        BY DEF Frame, Frames
      <3>4. QED
        BY <1>1, <1>4, <3>2, <3>3, Called
    <2>5. QED
      BY <2>1, <2>2, <2>3, <2>4 DEF Moves
  <1>6. QED
    BY <1>3, <1>5

-----------------------------------------------------------------------------
(* Types.                                                                   *)

\* Clients start with their directories and an empty remote.
LEMMA TypedInit == Init => Typed
  <1> SUFFICES ASSUME Init PROVE Typed
    OBVIOUS
  <1>1. ASSUME NEW c \in Clients
        PROVE  Directory(FirstDir(c))
    <2> DEFINE file(n) == File(CHOOSE a \in Owned[c] : NameOf[a] = n, "whole")
    <2>1. ASSUME NEW n \in { NameOf[a] : a \in Owned[c] }
          PROVE  n \in Names /\ file(n) \in Files /\ NameOf[file(n).archive] = n
      <3>1. Owned[c] \subseteq Archives
        BY OwnedAssumption
      <3>2. \E a \in Owned[c] : NameOf[a] = n
        BY <2>1
      <3>3. PICK b : b = (CHOOSE a \in Owned[c] : NameOf[a] = n)
        OBVIOUS
      <3>4. b \in Owned[c] /\ NameOf[b] = n
        BY <3>2, <3>3
      <3>5. file(n) = [archive |-> b, part |-> "whole"]
        BY <3>3 DEF File
      <3>6. QED
        BY <3>1, <3>4, <3>5 DEF Names, Files, Parts
    <2>2. QED
      BY <2>1 DEF Directory, FirstDir
  <1>2. Directory(remote)
    BY DEF Init, Directory
  <1>3. QED
    BY <1>1, <1>2 DEF Init, Typed, StackTyped, Commands

\* Where a step leaves stack, command and directories typed, so is the state.
LEMMA TypedBy ==
  ASSUME Typed, NEW c \in Clients,
         DOMAIN disk' = Clients, DOMAIN command' = Clients, DOMAIN stack' = Clients,
         DOMAIN seen' = Clients, DOMAIN last' = Clients, DOMAIN todo' = Clients,
         Directory(remote'), Directory(disk'[c]), StackTyped(c)',
         \A d \in Clients \ {c} : /\ disk'[d] = disk[d] /\ stack'[d] = stack[d]
                                  /\ command'[d] = command[d] /\ todo'[d] = todo[d]
  PROVE  Typed'
  BY DEF Typed, StackTyped

\* A call in progress belongs to a command.
LEMMA CallFacts ==
  ASSUME Typed, NEW c \in Clients, NEW ops, NEW at, In(c, ops, at), "none" \notin ops
  PROVE  /\ command[c] \in Commands /\ command[c] # None /\ command[c].op \in ops
         /\ stack[c] \in Seq(Frames) /\ stack[c] # <<>>
         /\ Top(c) = stack[c][1] /\ Top(c) \in Frames /\ Top(c).at = at
  <1>1. stack[c] \in Seq(Frames) /\ stack[c] # <<>>
    BY DEF Typed, StackTyped, In
  <1>2. Top(c) = stack[c][1] /\ Top(c) \in Frames
    BY <1>1, Popped DEF Top
  <1>3. QED
    BY <1>1, <1>2 DEF Typed, StackTyped, In, None

\* A command starts with calls that are frames.
LEMMA TypedStart ==
  ASSUME Typed, NEW c \in Clients, NEW cmd \in Commands \ {None}, NEW calls \in Seq(Frames),
         NEW listing \in SUBSET Names, Start(c, cmd, calls, listing)
  PROVE  Typed'
  <1>1. StackTyped(c)'
    BY DEF Start, StackTyped, Typed
  <1>2. QED
    BY <1>1, TypedBy DEF Start, Typed

\* So does a step that changes the stack only by a move of its client.
LEMMA TypedMove ==
  ASSUME Typed, NEW c \in Clients, stack[c] # <<>>, command[c] # None, Moves(c),
         command' = command, last' = last, todo' = todo, DOMAIN seen' = Clients,
         DOMAIN disk' = Clients,
         Directory(remote'), Directory(disk'[c]), \A d \in Clients \ {c} : disk'[d] = disk[d]
  PROVE  Typed'
  <1>1. /\ DOMAIN stack' = Clients /\ stack'[c] \in Seq(Frames)
        /\ \A d \in Clients \ {c} : stack'[d] = stack[d]
    BY MovesFacts
  <1>2. StackTyped(c)'
    BY <1>1 DEF StackTyped, Typed
  <1>3. QED
    BY <1>1, <1>2, TypedBy DEF Typed

\* The steps of the calls of a push: what they may touch.
PushStep(c) == PushEntry(c) \/ PushParent(c) \/ PushUpload(c)
PullStep(c) == PullEntry(c) \/ PullDownload(c) \/ PullParent(c) \/ PullReturn(c)

\* Pulls touch their own directory only.
LEMMA TypedPull ==
  ASSUME Typed, NEW c \in Clients, PullStep(c) \/ PullCutOff(c)
  PROVE  Typed' /\ remote' = remote
  <1> DEFINE n == Top(c).name
             ops == {"pull", "pull_all"}
  <1>1. /\ DOMAIN disk = Clients /\ Directory(disk[c]) /\ Directory(remote)
        /\ DOMAIN command = Clients /\ DOMAIN stack = Clients /\ DOMAIN seen = Clients
        /\ DOMAIN last = Clients /\ DOMAIN todo = Clients
    BY DEF Typed
  <1>2. ASSUME NEW at, In(c, ops, at)
        PROVE  n \in Names /\ stack[c] # <<>> /\ command[c] # None
    BY <1>2, CallFacts DEF Frames
  <1>3. CASE PullEntry(c)
    <2>1. Moves(c)
      BY <1>3 DEF PullEntry, Moves
    <2>2. DOMAIN seen' = Clients
      BY <1>1, <1>3 DEF PullEntry
    <2>3. QED
      BY <1>1, <1>2, <1>3, <2>1, <2>2, TypedMove DEF PullEntry
  <1>4. ASSUME PullDownload(c) \/ PullCutOff(c), NEW file \in Files,
               file.archive = remote[n].archive, disk' = [disk EXCEPT ![c] = With(@, n, file)]
        PROVE  /\ DOMAIN disk' = Clients /\ Directory(disk'[c])
               /\ \A d \in Clients \ {c} : disk'[d] = disk[d]
    <2>1. n \in DOMAIN remote /\ In(c, ops, "download")
      BY <1>4 DEF PullDownload, PullCutOff
    <2>2. n \in Names /\ NameOf[file.archive] = n
      BY <1>1, <1>2, <1>4, <2>1 DEF Directory
    <2>3. Directory(With(disk[c], n, file))
      BY <1>1, <2>2, WithFacts
    <2>4. QED
      BY <1>1, <1>4, <2>3
  <1>5. CASE PullDownload(c)
    <2>1. Moves(c) /\ In(c, ops, "download")
      BY <1>5 DEF PullDownload, Moves
    <2>2. remote[n] \in Files
      BY <1>1, <1>5 DEF PullDownload, Directory
    <2>3. /\ DOMAIN disk' = Clients /\ Directory(disk'[c])
          /\ \A d \in Clients \ {c} : disk'[d] = disk[d]
      BY <1>4, <1>5, <2>2 DEF PullDownload
    <2>4. QED
      BY <1>1, <1>2, <1>5, <2>1, <2>3, TypedMove DEF PullDownload
  <1>6. CASE PullCutOff(c)
    <2>1. In(c, ops, "download") /\ remote[n].archive \in Archives
      BY <1>1, <1>6 DEF PullCutOff, Directory, Files
    <2>2. PICK part \in {"cut", "stub"} :
             disk' = [disk EXCEPT ![c] = With(@, n, File(remote[n].archive, part))]
      BY <1>6 DEF PullCutOff
    <2>3. /\ File(remote[n].archive, part) \in Files
          /\ File(remote[n].archive, part).archive = remote[n].archive
      BY <2>1 DEF File, Files, Parts
    <2>4. /\ DOMAIN disk' = Clients /\ Directory(disk'[c])
          /\ \A d \in Clients \ {c} : disk'[d] = disk[d]
      BY <1>4, <1>6, <2>2, <2>3
    <2>5. StackTyped(c)'
      BY <1>1, <1>6 DEF PullCutOff, Abort, StackTyped, Commands
    <2>6. QED
      BY <1>1, <1>6, <2>4, <2>5, TypedBy DEF PullCutOff, Abort
  <1>7. CASE PullParent(c)
    <2>1. Moves(c)
      BY <1>1, <1>7 DEF PullParent, Moves, Directory
    <2>2. QED
      BY <1>1, <1>2, <1>7, <2>1, TypedMove DEF PullParent
  <1>8. CASE PullReturn(c)
    <2>1. Moves(c)
      BY <1>8 DEF PullReturn, Moves
    <2>2. QED
      BY <1>1, <1>2, <1>8, <2>1, TypedMove DEF PullReturn
  <1>9. QED
    BY <1>3, <1>5, <1>6, <1>7, <1>8 DEF PullStep, PullEntry, PullDownload, PullCutOff, PullParent,
       PullReturn

\* A push changes the remote only by putting its top archive there.
LEMMA TypedPush ==
  ASSUME Typed, NEW c \in Clients, PushInv(c), PushStep(c)
  PROVE  /\ Typed' /\ disk' = disk
         /\ DOMAIN remote \subseteq DOMAIN remote' /\ skipped \subseteq skipped'
  <1> DEFINE n == Top(c).name
  <1>1. /\ DOMAIN disk = Clients /\ Directory(disk[c]) /\ Directory(remote)
        /\ DOMAIN command = Clients /\ DOMAIN stack = Clients /\ DOMAIN seen = Clients
        /\ DOMAIN last = Clients
    BY DEF Typed
  <1>2. PICK at : In(c, {"push"}, at)
    BY DEF PushStep, PushEntry, PushParent, PushUpload
  <1>3. /\ command[c].op = "push" /\ stack[c] # <<>> /\ command[c] # None
        /\ Top(c) = stack[c][1] /\ n \in Names /\ 1 \in DOMAIN stack[c]
    BY <1>2, CallFacts, Popped DEF Frames
  <1>4. n \in DOMAIN disk[c]
    BY <1>3 DEF PushInv, FrameInv
  <1>5. CASE PushEntry(c)
    <2>1. Moves(c)
      BY <1>5 DEF PushEntry, Moves
    <2>2. DOMAIN seen' = Clients
      BY <1>1, <1>5 DEF PushEntry
    <2>3. QED
      BY <1>1, <1>3, <1>5, <2>1, <2>2, TypedMove DEF PushEntry
  <1>6. CASE PushParent(c)
    <2>1. Moves(c)
      BY <1>1, <1>6 DEF PushParent, Moves, Directory
    <2>2. skipped \subseteq skipped'
      BY <1>6 DEF PushParent, Warn
    <2>3. QED
      BY <1>1, <1>3, <1>6, <2>1, <2>2, TypedMove DEF PushParent
  <1>7. CASE PushUpload(c)
    <2>1. Moves(c)
      BY <1>7 DEF PushUpload, Moves
    <2>2. TopFile(c) \in Files /\ NameOf[TopFile(c).archive] = n
      BY <1>1, <1>4 DEF Directory, TopFile
    <2>3. Directory(remote') /\ DOMAIN remote \subseteq DOMAIN remote'
      <3>1. remote' = With(remote, n, TopFile(c))
        BY <1>7 DEF PushUpload
      <3>2. PICK m, file : m = n /\ file = TopFile(c)
        OBVIOUS
      <3>3. m \in Names /\ file \in Files /\ NameOf[file.archive] = m
        BY <1>3, <2>2, <3>2
      <3>4. /\ Directory(With(remote, m, file))
            /\ DOMAIN With(remote, m, file) = DOMAIN remote \cup {m}
        BY <1>1, <3>3 DEF With, Directory
      <3>5. QED
        BY <3>1, <3>2, <3>4
    <2>4. QED
      BY <1>1, <1>3, <1>7, <2>1, <2>3, TypedMove DEF PushUpload
  <1>8. QED
    BY <1>5, <1>6, <1>7 DEF PushStep

-----------------------------------------------------------------------------
(* The invariant of a push.                                                 *)

\* What is dealt with stays so while the remote and the warnings grow.
LEMMA OthersKeep ==
  ASSUME Typed, NEW c \in Clients, PushInv(c),
         disk'[c] = disk[c], command'[c] = command[c], stack'[c] = stack[c], seen'[c] = seen[c],
         DOMAIN remote \subseteq DOMAIN remote', skipped \subseteq skipped'
  PROVE  PushInv(c)'
  <1> SUFFICES ASSUME command[c].op = "push"
               PROVE  /\ \A i \in DOMAIN stack[c] : FrameInv(c, i)'
                      /\ Descends(c)' /\ SeenInv(c)' /\ TargetInv(c)'
    BY DEF PushInv
  <1>1. /\ \A i \in DOMAIN stack[c] : FrameInv(c, i)
        /\ Descends(c) /\ SeenInv(c) /\ TargetInv(c)
    BY DEF PushInv
  <1>2. ASSUME NEW i \in DOMAIN stack[c]
        PROVE  FrameInv(c, i)'
    BY <1>1 DEF FrameInv, OnRemote
  <1>3. Descends(c)' /\ SeenInv(c)' /\ TargetInv(c)'
    BY <1>1 DEF Descends, SeenInv, TargetInv
  <1>4. QED
    BY <1>2, <1>3

\* The call at the top of a push.
LEMMA TopFacts ==
  ASSUME Typed, NEW c \in Clients, PushInv(c), NEW at, In(c, {"push"}, at)
  PROVE  /\ command[c].op = "push" /\ stack[c] \in Seq(Frames) /\ stack[c] # <<>>
         /\ Len(stack[c]) \in Nat \ {0} /\ DOMAIN stack[c] = 1..Len(stack[c])
         /\ Top(c) = stack[c][1] /\ Top(c).at = at /\ Top(c).name \in DOMAIN disk[c]
         /\ Top(c).name \in Names /\ Top(c).next \in Nat \ {0}
         /\ (\A i \in DOMAIN stack[c] : FrameInv(c, i))
         /\ Descends(c) /\ SeenInv(c) /\ TargetInv(c)
         /\ TopFile(c).archive \in Archives /\ NameOf[TopFile(c).archive] = Top(c).name
         /\ DOMAIN disk = Clients /\ DOMAIN stack = Clients /\ DOMAIN seen = Clients
  <1>1. /\ command[c].op = "push" /\ stack[c] \in Seq(Frames) /\ stack[c] # <<>>
        /\ Top(c) = stack[c][1] /\ Top(c) \in Frames /\ Top(c).at = at
    BY CallFacts
  <1>2. Len(stack[c]) \in Nat \ {0} /\ DOMAIN stack[c] = 1..Len(stack[c])
    BY <1>1, Popped
  <1>3. /\ \A i \in DOMAIN stack[c] : FrameInv(c, i)
        /\ Descends(c) /\ SeenInv(c) /\ TargetInv(c)
    BY <1>1 DEF PushInv
  <1>4. Top(c).name \in DOMAIN disk[c]
    BY <1>1, <1>2, <1>3 DEF FrameInv
  <1>5. TopFile(c).archive \in Archives /\ NameOf[TopFile(c).archive] = Top(c).name
    BY <1>4 DEF Typed, Directory, TopFile, Files
  <1>6. QED
    BY <1>1, <1>2, <1>3, <1>4, <1>5 DEF Typed, Frames

\* A call may return when its archive is on the remote.
LEMMA ReturnKeeps ==
  ASSUME Typed, NEW c \in Clients, PushInv(c), NEW at, In(c, {"push"}, at), Return(c),
         disk' = disk, command' = command,
         DOMAIN remote \subseteq DOMAIN remote', skipped \subseteq skipped',
         Top(c).name \in DOMAIN remote', seen'[c] \subseteq seen[c] \cup {Top(c).name}
  PROVE  PushInv(c)'
  <1> DEFINE s == stack[c]
             t == Tail(s)
  <1>1. /\ command[c].op = "push" /\ s \in Seq(Frames) /\ s # <<>>
        /\ Len(s) \in Nat \ {0} /\ DOMAIN s = 1..Len(s) /\ Top(c) = s[1]
        /\ (\A i \in DOMAIN s : FrameInv(c, i))
        /\ Descends(c) /\ SeenInv(c) /\ TargetInv(c) /\ DOMAIN stack = Clients
    BY TopFacts
  <1>2. /\ t \in Seq(Frames) /\ Len(t) = Len(s) - 1 /\ DOMAIN t = 1..(Len(s) - 1)
        /\ \A i \in DOMAIN t : t[i] = s[i+1] /\ i + 1 \in DOMAIN s
    BY <1>1, Popped
  <1>3. stack'[c] = t
    BY <1>1 DEF Return
  <1>4. ASSUME NEW i \in DOMAIN t
        PROVE  FrameInv(c, i)'
    <2>1. t[i] = s[i+1] /\ i + 1 \in DOMAIN s /\ i + 1 > 1 /\ i \in Nat \ {0} /\ (i + 1) - 1 = i
      BY <1>1, <1>2
    <2>2. FrameInv(c, i + 1)
      BY <1>1, <2>1
    <2>3. PICK f, g : f = s[i+1] /\ g = s[i]
      OBVIOUS
    <2>4. /\ f.name \in DOMAIN disk[c] /\ f.at = "parents" /\ (f.at = "entry" => f.next = 1)
          /\ \A j \in DOMAIN Bases[disk[c][f.name].archive] :
                j < f.next => \/ OnRemote(c, f.name, j)
                              \/ g.name = ParentNames(disk[c][f.name].archive)[j]
      BY <2>1, <2>2, <2>3 DEF FrameInv
    <2>5. ASSUME NEW j \in DOMAIN Bases[disk[c][f.name].archive], j < f.next
          PROVE  \/ OnRemote(c, f.name, j)'
                 \/ i > 1 /\ t[i-1].name = ParentNames(disk[c][f.name].archive)[j]
      <3>1. CASE OnRemote(c, f.name, j)
        BY <3>1 DEF OnRemote
      <3>2. CASE g.name = ParentNames(disk[c][f.name].archive)[j] /\ i = 1
        <4>1. g.name \in DOMAIN remote'
          BY <1>1, <2>3, <3>2
        <4>2. QED
          BY <3>2, <4>1 DEF OnRemote
      <3>3. CASE g.name = ParentNames(disk[c][f.name].archive)[j] /\ i > 1
        <4>1. i - 1 \in DOMAIN t /\ t[i-1] = g
          BY <1>2, <2>1, <2>3, <3>3
        <4>2. QED
          BY <3>3, <4>1
      <3>4. QED
        BY <2>1, <2>4, <2>5, <3>1, <3>2, <3>3
    <2>6. f = t[i]
      BY <2>1, <2>3
    <2>7. QED
      BY <1>3, <2>1, <2>4, <2>5, <2>6 DEF FrameInv
  <1>5. Descends(c)'
    <2>1. ASSUME NEW i \in DOMAIN t, NEW k \in DOMAIN t, i < k
          PROVE  Age[t[i].name] < Age[t[k].name]
      <3>1. i + 1 \in DOMAIN s /\ k + 1 \in DOMAIN s /\ i + 1 < k + 1
        BY <1>2, <2>1
      <3>2. QED
        BY <1>1, <1>2, <3>1 DEF Descends
    <2>2. QED
      BY <1>3, <2>1 DEF Descends
  <1>6. SeenInv(c)'
    <2>1. ASSUME NEW n \in seen[c]
          PROVE  \/ n \in DOMAIN remote'
                 \/ \E i \in DOMAIN t : t[i].name = n /\ t[i].at = "parents"
      <3>1. CASE n \in DOMAIN remote
        BY <3>1
      <3>2. CASE \E i \in DOMAIN s : s[i].name = n /\ s[i].at = "parents"
        <4>1. PICK i \in DOMAIN s : s[i].name = n /\ s[i].at = "parents"
          BY <3>2
        <4>2. CASE i = 1
          BY <1>1, <4>1, <4>2
        <4>3. CASE i # 1
          <5>1. i - 1 \in DOMAIN t /\ t[i-1] = s[i]
            BY <1>1, <1>2, <4>3
          <5>2. QED
            BY <4>1, <5>1
        <4>4. QED
          BY <4>2, <4>3
      <3>3. QED
        BY <1>1, <3>1, <3>2 DEF SeenInv
    <2>2. QED
      BY <1>3, <2>1 DEF SeenInv
  <1>7. TargetInv(c)'
    <2>1. CASE command[c].name \in DOMAIN remote
      BY <2>1 DEF TargetInv
    <2>2. CASE s[Len(s)].name = command[c].name /\ Len(s) = 1
      BY <1>1, <2>2 DEF TargetInv
    <2>3. CASE s[Len(s)].name = command[c].name /\ Len(s) > 1
      <3>1. Len(t) \in DOMAIN t /\ t[Len(t)] = s[Len(s)]
        BY <1>1, <1>2, <2>3
      <3>2. t # <<>>
        BY <1>1, <1>2, <2>3
      <3>3. QED
        BY <1>3, <2>3, <3>1, <3>2 DEF TargetInv
    <2>4. QED
      BY <1>1, <2>1, <2>2, <2>3 DEF TargetInv
  <1>8. QED
    BY <1>1, <1>3, <1>4, <1>5, <1>6, <1>7 DEF PushInv

\* The call at the top goes on to a parent, and is still in order.
LEMMA TopKeeps ==
  ASSUME Typed, NEW c \in Clients, PushInv(c), NEW at, In(c, {"push"}, at),
         disk' = disk, command' = command,
         DOMAIN remote \subseteq DOMAIN remote', skipped \subseteq skipped',
         NEW n, n = Top(c).name, seen'[c] \subseteq seen[c] \cup {n},
         NEW x \in Frames, stack'[c] = <<x>> \o Tail(stack[c]), x.name = n, x.at = "parents",
         \A j \in DOMAIN Bases[disk[c][n].archive] : j < x.next => OnRemote(c, n, j)'
  PROVE  PushInv(c)'
  <1>1. PICK s, t : s = stack[c] /\ t = stack'[c]
    OBVIOUS
  <1>2. /\ command[c].op = "push" /\ s \in Seq(Frames) /\ s # <<>>
        /\ Len(s) \in Nat \ {0} /\ DOMAIN s = 1..Len(s) /\ s[1].name = n
        /\ (\A i \in DOMAIN s : FrameInv(c, i)) /\ n \in DOMAIN disk[c]
        /\ Descends(c) /\ SeenInv(c) /\ TargetInv(c)
    BY <1>1, TopFacts
  <1>3. /\ t \in Seq(Frames) /\ Len(t) = Len(s) /\ DOMAIN t = DOMAIN s
        /\ t[1] = x /\ \A i \in DOMAIN t : i > 1 => t[i] = s[i]
    BY <1>1, <1>2, Replaced
  <1>4. \A i \in DOMAIN t : t[i].name = s[i].name
    <2>1. ASSUME NEW i \in DOMAIN t
          PROVE  t[i].name = s[i].name
      <3>1. CASE i = 1
        BY <1>2, <1>3, <3>1
      <3>2. CASE i > 1
        BY <1>3, <3>2
      <3>3. QED
        BY <1>2, <1>3, <3>1, <3>2
    <2>2. QED
      BY <2>1
  <1>5. ASSUME NEW i \in DOMAIN t
        PROVE  FrameInv(c, i)'
    <2>1. CASE i = 1
      <3>1. t[1].name = n /\ t[1].at = "parents" /\ t[1].next = x.next
        BY <1>1, <1>3
      <3>2. QED
        BY <1>1, <1>2, <2>1, <3>1 DEF FrameInv
    <2>2. CASE i > 1
      <3>1. FrameInv(c, i) /\ t[i] = s[i] /\ i - 1 \in DOMAIN t /\ t[i-1].name = s[i-1].name
        BY <1>2, <1>3, <1>4, <2>2
      <3>2. PICK f, g : f = s[i] /\ g = s[i-1].name
        OBVIOUS
      <3>3. /\ f.name \in DOMAIN disk[c] /\ f.at = "parents" /\ (f.at = "entry" => f.next = 1)
            /\ \A j \in DOMAIN Bases[disk[c][f.name].archive] :
                  j < f.next => \/ OnRemote(c, f.name, j)
                                \/ g = ParentNames(disk[c][f.name].archive)[j]
        BY <1>1, <2>2, <3>1, <3>2 DEF FrameInv
      <3>4. \A j : OnRemote(c, f.name, j) => OnRemote(c, f.name, j)'
        BY DEF OnRemote
      <3>5. f = stack'[c][i] /\ g = stack'[c][i-1].name
        BY <1>1, <3>1, <3>2
      <3>6. QED
        BY <2>2, <3>3, <3>4, <3>5 DEF FrameInv
    <2>3. QED
      BY <1>2, <1>3, <2>1, <2>2
  <1>6. Descends(c)'
    BY <1>1, <1>2, <1>3, <1>4 DEF Descends
  <1>7. SeenInv(c)'
    <2>1. ASSUME NEW m \in seen'[c]
          PROVE  \/ m \in DOMAIN remote'
                 \/ \E i \in DOMAIN t : t[i].name = m /\ t[i].at = "parents"
      <3>1. CASE m = n
        BY <1>1, <1>2, <1>3, <3>1
      <3>2. CASE m # n
        <4>1. \/ m \in DOMAIN remote
              \/ \E i \in DOMAIN s : s[i].name = m /\ s[i].at = "parents"
          BY <1>1, <1>2, <3>2 DEF SeenInv
        <4>2. QED
          BY <1>2, <1>3, <3>2, <4>1
      <3>3. QED
        BY <3>1, <3>2
    <2>2. QED
      BY <1>1, <2>1 DEF SeenInv
  <1>8. TargetInv(c)'
    <2>1. Len(s) \in DOMAIN t /\ Len(t) = Len(s) /\ t # <<>>
      BY <1>2, <1>3
    <2>2. t[Len(t)].name = s[Len(s)].name
      BY <1>4, <2>1
    <2>3. QED
      BY <1>1, <1>2, <2>1, <2>2 DEF TargetInv
  <1>9. QED
    BY <1>1, <1>2, <1>3, <1>5, <1>6, <1>7, <1>8 DEF PushInv

\* push_archive begins: an archive seen before is on the remote by now.
LEMMA EntryKeeps ==
  ASSUME Typed, NEW c \in Clients, PushInv(c), PushEntry(c)
  PROVE  PushInv(c)'
  <1>1. PICK n : n = Top(c).name
    OBVIOUS
  <1>2. PICK s : s = stack[c]
    OBVIOUS
  <1>3. In(c, {"push"}, "entry") /\ UNCHANGED <<disk, remote, command, skipped>>
    BY DEF PushEntry
  <1>4. /\ s \in Seq(Frames) /\ Len(s) \in Nat \ {0} /\ DOMAIN s = 1..Len(s) /\ s # <<>>
        /\ s[1].name = n /\ s[1].at = "entry" /\ n \in Names /\ FrameInv(c, 1)
        /\ Descends(c) /\ SeenInv(c) /\ DOMAIN stack = Clients /\ DOMAIN seen = Clients
        /\ Top(c) = s[1]
    BY <1>1, <1>2, <1>3, TopFacts
  <1>5. seen'[c] = seen[c] \cup {n}
    BY <1>1, <1>4 DEF PushEntry
  <1>6. CASE n \in seen[c] \cup DOMAIN remote
    <2>1. n \in DOMAIN remote
      <3>1. ASSUME NEW i \in DOMAIN s, s[i].name = n, s[i].at = "parents"
            PROVE  FALSE
        <4>1. i > 1
          BY <1>4, <3>1
        <4>2. Age[s[1].name] < Age[s[i].name]
          BY <1>2, <1>4, <4>1 DEF Descends
        <4>3. Age[n] \in Nat
          BY <1>4, AgeAssumption
        <4>4. QED
          BY <1>4, <3>1, <4>2, <4>3
      <3>2. QED
        BY <1>2, <1>4, <1>6, <3>1 DEF SeenInv
    <2>2. Return(c)
      BY <1>1, <1>6 DEF PushEntry
    <2>3. QED
      BY <1>1, <1>3, <1>5, <2>1, <2>2, ReturnKeeps
  <1>7. CASE n \notin seen[c] \cup DOMAIN remote
    <2> DEFINE x == At(s[1], "parents")
    <2>1. Goto(c, "parents")
      BY <1>1, <1>7 DEF PushEntry
    <2>2. stack'[c] = <<x>> \o Tail(s)
      <3>1. Head(s) = s[1]
        BY <1>4
      <3>2. QED
        BY <1>2, <1>4, <2>1, <3>1 DEF Goto
    <2>3. s[1] \in Frames
      BY <1>4
    <2>4. x \in Frames /\ x.name = n /\ x.at = "parents" /\ x.next = s[1].next
      BY <1>4, <2>3 DEF At, Frames
    <2>5. x.next = 1
      BY <1>2, <1>4, <2>4 DEF FrameInv
    <2>6. \A j \in DOMAIN Bases[disk[c][n].archive] : ~ (j < x.next)
      <3>1. disk[c][n].archive \in Archives
        BY <1>1, <1>3, TopFacts DEF TopFile
      <3>2. QED
        BY <2>5, <3>1, ParentFacts
    <2> HIDE DEF x
    <2>7. QED
      BY <1>1, <1>2, <1>3, <1>5, <2>2, <2>4, <2>6, TopKeeps
  <1>8. QED
    BY <1>6, <1>7

\* The parent a push looks at.
LEMMA NextParentFacts ==
  ASSUME Typed, NEW c \in Clients, PushInv(c), In(c, {"push"}, "parents"), ~ ParentsDone(c)
  PROVE  /\ Top(c).next \in DOMAIN Bases[TopFile(c).archive] /\ Parent(c) \in Names
         /\ Age[Parent(c)] \in Nat /\ Age[Top(c).name] \in Nat
         /\ Age[Parent(c)] < Age[Top(c).name]
  <1>1. PICK a, k : a = TopFile(c).archive /\ k = Top(c).next
    OBVIOUS
  <1>2. a \in Archives /\ NameOf[a] = Top(c).name /\ k \in Nat \ {0}
    BY <1>1, TopFacts
  <1>3. k \in DOMAIN Bases[a]
    BY <1>1, <1>2, ParentFacts DEF ParentsDone, Parents
  <1>4. Parent(c) = ParentNames(a)[k]
    BY <1>1 DEF Parent, Parents
  <1>5. QED
    BY <1>1, <1>2, <1>3, <1>4, ParentFacts

\* Skipping a parent with a warning.
LEMMA SkipKeeps ==
  ASSUME Typed, NEW c \in Clients, PushInv(c), PushParent(c), SkipParent(c), Warn(c)
  PROVE  PushInv(c)'
  <1>1. PICK n, s, p, k : n = Top(c).name /\ s = stack[c] /\ p = Parent(c) /\ k = Top(c).next
    OBVIOUS
  <1>2. /\ In(c, {"push"}, "parents") /\ ~ ParentsDone(c)
        /\ UNCHANGED <<disk, remote, command, seen>>
    BY DEF PushParent
  <1>3. /\ s \in Seq(Frames) /\ s # <<>> /\ Head(s) = s[1] /\ s[1] \in Frames
        /\ s[1] = Top(c) /\ s[1].at = "parents" /\ FrameInv(c, 1) /\ DOMAIN stack = Clients
        /\ k \in Nat \ {0} /\ disk[c][n].archive \in Archives
    BY <1>1, <1>2, TopFacts DEF TopFile
  <1>4. <<c, n, p>> \in skipped' /\ skipped \subseteq skipped'
    BY <1>1 DEF Warn
  <1>5. PICK x : x = Advanced(s[1])
    OBVIOUS
  <1>6. x \in Frames /\ x.name = n /\ x.at = "parents" /\ x.next = k + 1
    BY <1>1, <1>3, <1>5 DEF Advanced, Frames
  <1>7. stack'[c] = <<x>> \o Tail(s)
    BY <1>1, <1>3, <1>5 DEF SkipParent
  <1>8. ASSUME NEW j \in DOMAIN Bases[disk[c][n].archive], j < x.next
        PROVE  OnRemote(c, n, j)'
    <2>1. j \in Nat /\ (j < k \/ j = k)
      BY <1>3, <1>6, <1>8, ParentFacts
    <2>2. CASE j < k
      <3>1. OnRemote(c, n, j)
        BY <1>1, <1>3, <2>2 DEF FrameInv
      <3>2. QED
        BY <1>2, <1>4, <3>1 DEF OnRemote
    <2>3. CASE j = k
      <3>1. p = ParentNames(disk[c][n].archive)[j]
        BY <1>1, <2>3 DEF Parent, Parents, TopFile
      <3>2. QED
        BY <1>2, <1>4, <3>1 DEF OnRemote
    <2>4. QED
      BY <2>1, <2>2, <2>3
  <1>9. QED
    BY <1>1, <1>2, <1>4, <1>6, <1>7, <1>8, TopKeeps

\* The call for a parent, which is older than all that are in progress.
LEMMA CallKeeps ==
  ASSUME Typed, NEW c \in Clients, PushInv(c), PushParent(c), CallParent(c, Parent(c)),
         Parent(c) \in DOMAIN disk[c], UNCHANGED skipped
  PROVE  PushInv(c)'
  <1>1. PICK n, s, t, p, k : /\ n = Top(c).name /\ s = stack[c] /\ t = stack'[c]
                             /\ p = Parent(c) /\ k = Top(c).next
    OBVIOUS
  <1>2. /\ In(c, {"push"}, "parents") /\ ~ ParentsDone(c)
        /\ UNCHANGED <<disk, remote, command, seen>>
    BY DEF PushParent
  <1>3. /\ s \in Seq(Frames) /\ s # <<>> /\ Head(s) = s[1] /\ s[1] \in Frames
        /\ Len(s) \in Nat \ {0} /\ DOMAIN s = 1..Len(s) /\ command[c].op = "push"
        /\ s[1] = Top(c) /\ s[1].at = "parents" /\ DOMAIN stack = Clients
        /\ k \in Nat \ {0} /\ disk[c][n].archive \in Archives /\ n \in DOMAIN disk[c]
        /\ (\A i \in DOMAIN s : FrameInv(c, i)) /\ Descends(c) /\ SeenInv(c) /\ TargetInv(c)
    BY <1>1, <1>2, TopFacts DEF TopFile
  <1>4. p \in Names /\ p \in DOMAIN disk[c] /\ Age[p] \in Nat /\ Age[n] \in Nat /\ Age[p] < Age[n]
    BY <1>1, <1>2, NextParentFacts
  <1>5. PICK x, y : x = Frame(p) /\ y = Advanced(s[1])
    OBVIOUS
  <1>6. /\ x \in Frames /\ x.name = p /\ x.at = "entry" /\ x.next = 1
        /\ y \in Frames /\ y.name = n /\ y.at = "parents" /\ y.next = k + 1
    BY <1>1, <1>3, <1>4, <1>5 DEF Frame, Advanced, Frames
  <1>7. t = <<x, y>> \o Tail(s)
    BY <1>1, <1>3, <1>5 DEF CallParent
  <1>8. /\ t \in Seq(Frames) /\ Len(t) = Len(s) + 1 /\ DOMAIN t = 1..(Len(s) + 1)
        /\ t[1] = x /\ t[2] = y /\ \A i \in DOMAIN t : i > 2 => t[i] = s[i-1]
    BY <1>3, <1>6, <1>7, Called
  <1>9. \A i \in DOMAIN t : i > 1 => /\ i - 1 \in DOMAIN s /\ t[i].name = s[i-1].name
                                     /\ t[i].at = s[i-1].at
    <2>1. ASSUME NEW i \in DOMAIN t, i > 1
          PROVE  i - 1 \in DOMAIN s /\ t[i].name = s[i-1].name /\ t[i].at = s[i-1].at
      <3>1. i - 1 \in DOMAIN s
        BY <1>3, <1>8, <2>1
      <3>2. CASE i = 2
        BY <1>1, <1>3, <1>6, <1>8, <3>1, <3>2
      <3>3. CASE i > 2
        BY <1>8, <3>1, <3>3
      <3>4. QED
        BY <1>8, <2>1, <3>1, <3>2, <3>3
    <2>2. QED
      BY <2>1
  <1>10. ASSUME NEW i \in DOMAIN t
         PROVE  FrameInv(c, i)'
    <2>1. CASE i = 1
      BY <1>1, <1>2, <1>4, <1>6, <1>8, <2>1 DEF FrameInv
    <2>2. CASE i = 2
      <3>1. ASSUME NEW j \in DOMAIN Bases[disk[c][n].archive], j < y.next
            PROVE  OnRemote(c, n, j) \/ t[1].name = ParentNames(disk[c][n].archive)[j]
        <4>1. j \in Nat /\ (j < k \/ j = k)
          BY <1>3, <1>6, <3>1, ParentFacts
        <4>2. CASE j < k
          BY <1>1, <1>3, <4>2 DEF FrameInv
        <4>3. CASE j = k
          BY <1>1, <1>6, <1>8, <4>3 DEF Parent, Parents, TopFile
        <4>4. QED
          BY <4>1, <4>2, <4>3
      <3>2. \A j : OnRemote(c, n, j) => OnRemote(c, n, j)'
        BY <1>2 DEF OnRemote
      <3>3. stack'[c][2] = y /\ stack'[c][1] = t[1]
        BY <1>1, <1>8
      <3>4. QED
        BY <1>2, <1>3, <1>6, <2>2, <3>1, <3>2, <3>3 DEF FrameInv
    <2>3. CASE i > 2
      <3>1. /\ FrameInv(c, i - 1) /\ t[i] = s[i-1] /\ i - 1 > 1
            /\ t[i-1].name = s[(i-1)-1].name
        <4>1. i - 1 \in DOMAIN t /\ i - 1 > 1
          BY <1>3, <1>8, <2>3
        <4>2. QED
          BY <1>3, <1>8, <1>9, <2>3, <4>1
      <3>2. PICK f, g : f = s[i-1] /\ g = s[(i-1)-1].name
        OBVIOUS
      <3>3. /\ f.name \in DOMAIN disk[c] /\ f.at = "parents" /\ (f.at = "entry" => f.next = 1)
            /\ \A j \in DOMAIN Bases[disk[c][f.name].archive] :
                  j < f.next => \/ OnRemote(c, f.name, j)
                                \/ g = ParentNames(disk[c][f.name].archive)[j]
        BY <1>1, <3>1, <3>2 DEF FrameInv
      <3>4. \A j : OnRemote(c, f.name, j) => OnRemote(c, f.name, j)'
        BY <1>2 DEF OnRemote
      <3>5. f = stack'[c][i] /\ g = stack'[c][i-1].name
        BY <1>1, <3>1, <3>2
      <3>6. i > 1
        BY <1>3, <1>8, <2>3
      <3>7. QED
        BY <1>2, <3>3, <3>4, <3>5, <3>6 DEF FrameInv
    <2>4. QED
      BY <1>3, <1>8, <2>1, <2>2, <2>3
  <1>11. Descends(c)'
    <2>1. ASSUME NEW i \in DOMAIN t, NEW m \in DOMAIN t, i < m
          PROVE  Age[t[i].name] < Age[t[m].name]
      <3>1. /\ m - 1 \in DOMAIN s /\ t[m].name = s[m-1].name
            /\ i > 1 => i - 1 \in DOMAIN s /\ t[i].name = s[i-1].name
        BY <1>3, <1>8, <1>9, <2>1
      <3>2. CASE i > 1
        <4>1. i - 1 \in DOMAIN s /\ m - 1 \in DOMAIN s /\ i - 1 < m - 1
          BY <1>3, <1>8, <2>1, <3>1, <3>2
        <4>2. QED
          BY <1>1, <1>3, <3>1, <3>2, <4>1 DEF Descends
      <3>3. CASE i = 1 /\ m = 2
        BY <1>4, <1>6, <1>8, <3>3
      <3>4. CASE i = 1 /\ m > 2
        <4>1. Age[s[1].name] < Age[s[m-1].name]
          <5>1. 1 \in DOMAIN s /\ m - 1 \in DOMAIN s /\ 1 < m - 1
            BY <1>3, <1>8, <3>1, <3>4
          <5>2. QED
            BY <1>1, <1>3, <5>1 DEF Descends
        <4>2. s[m-1] \in Frames
          BY <1>3, <3>1
        <4>3. Age[s[m-1].name] \in Nat
          BY <4>2, AgeAssumption DEF Frames
        <4>4. s[1].name = n /\ t[i].name = p
          BY <1>1, <1>3, <1>6, <1>8, <3>4
        <4>5. QED
          BY <1>4, <3>1, <4>1, <4>3, <4>4
      <3>5. QED
        BY <1>3, <1>8, <2>1, <3>2, <3>3, <3>4
    <2>2. QED
      BY <1>1, <2>1 DEF Descends
  <1>12. SeenInv(c)'
    <2>1. ASSUME NEW m \in seen[c]
          PROVE  \/ m \in DOMAIN remote
                 \/ \E i \in DOMAIN t : t[i].name = m /\ t[i].at = "parents"
      <3>1. CASE m \in DOMAIN remote
        BY <3>1
      <3>2. CASE \E i \in DOMAIN s : s[i].name = m /\ s[i].at = "parents"
        <4>1. PICK i \in DOMAIN s : s[i].name = m /\ s[i].at = "parents"
          BY <3>2
        <4>2. i + 1 \in DOMAIN t /\ i + 1 > 1 /\ (i + 1) - 1 = i
          BY <1>3, <1>8
        <4>3. QED
          BY <1>9, <4>1, <4>2
      <3>3. QED
        BY <1>1, <1>3, <3>1, <3>2 DEF SeenInv
    <2>2. QED
      BY <1>1, <1>2, <2>1 DEF SeenInv
  <1>13. TargetInv(c)'
    <2>1. Len(t) \in DOMAIN t /\ Len(t) > 1 /\ Len(t) - 1 = Len(s) /\ t # <<>>
      BY <1>3, <1>8
    <2>2. t[Len(t)].name = s[Len(s)].name
      BY <1>9, <2>1
    <2>3. QED
      BY <1>1, <1>2, <1>3, <2>1, <2>2 DEF TargetInv
  <1>14. QED
    BY <1>1, <1>2, <1>3, <1>10, <1>11, <1>12, <1>13 DEF PushInv

\* A push puts on the remote what has all its parents there, or warned of.
LEMMA UploadSound ==
  ASSUME Typed, NEW c \in Clients, PushInv(c), PushUpload(c), ParentsFirst
  PROVE  ParentsFirst' /\ Top(c).name \in DOMAIN remote'
  <1>1. PICK n, file : n = Top(c).name /\ file = TopFile(c)
    OBVIOUS
  <1>2. /\ In(c, {"push"}, "parents") /\ ParentsDone(c) /\ skipped' = skipped
        /\ remote' = With(remote, n, file)
    BY <1>1 DEF PushUpload
  <1>3. /\ file.archive \in Archives /\ Top(c).next \in Nat /\ FrameInv(c, 1)
        /\ Top(c) = stack[c][1] /\ Top(c).at = "parents" /\ file = disk[c][n]
    BY <1>1, <1>2, TopFacts DEF TopFile
  <1>4. /\ DOMAIN remote' = DOMAIN remote \cup {n} /\ remote'[n] = file
        /\ \A m \in DOMAIN remote \ {n} : remote'[m] = remote[m]
    BY <1>2 DEF With
  <1>5. ASSUME NEW j \in DOMAIN Bases[file.archive]
        PROVE  \/ ParentNames(file.archive)[j] \in DOMAIN remote
               \/ <<c, n, ParentNames(file.archive)[j]>> \in skipped
    <2>1. j < Top(c).next
      BY <1>1, <1>2, <1>3, ParentFacts DEF ParentsDone, Parents
    <2>2. OnRemote(c, n, j)
      BY <1>1, <1>3, <2>1 DEF FrameInv
    <2>3. QED
      BY <1>3, <2>2 DEF OnRemote
  <1>6. ASSUME NEW m \in DOMAIN remote', NEW j \in DOMAIN Bases[remote'[m].archive]
        PROVE  \/ ParentNames(remote'[m].archive)[j] \in DOMAIN remote'
               \/ \E d \in Clients : <<d, m, ParentNames(remote'[m].archive)[j]>> \in skipped'
    <2>1. CASE m = n
      BY <1>2, <1>4, <1>5, <2>1
    <2>2. CASE m # n
      <3>1. m \in DOMAIN remote /\ remote'[m] = remote[m]
        BY <1>4, <2>2
      <3>2. QED
        BY <1>2, <1>4, <3>1 DEF ParentsFirst
    <2>3. QED
      BY <2>1, <2>2
  <1>7. ParentsFirst'
    BY <1>6 DEF ParentsFirst
  <1>8. QED
    BY <1>1, <1>4, <1>7

\* A push keeps its invariant at every call.
LEMMA PushKeeps ==
  ASSUME Typed, NEW c \in Clients, PushInv(c), PushStep(c)
  PROVE  PushInv(c)'
  <1>1. CASE PushEntry(c)
    BY <1>1, EntryKeeps
  <1>2. CASE PushParent(c)
    BY <1>2, CallKeeps, SkipKeeps DEF PushParent
  <1>3. CASE PushUpload(c)
    <2>1. In(c, {"push"}, "parents") /\ Return(c) /\ UNCHANGED <<disk, command, seen, skipped>>
      BY <1>3 DEF PushUpload
    <2>2. DOMAIN remote \subseteq DOMAIN remote' /\ Top(c).name \in DOMAIN remote'
      BY <1>3 DEF PushUpload, With
    <2>3. QED
      BY <2>1, <2>2, ReturnKeeps
  <1>4. QED
    BY <1>1, <1>2, <1>3 DEF PushStep

\* The steps that are no part of a push.
OtherStep(c) ==
    \/ \E n \in Names : StartPush(c, n) \/ StartPull(c, n)
    \/ StartPullAll(c) \/ NextListed(c) \/ Finish(c) \/ Fail(c)
    \/ PullStep(c) \/ PullCutOff(c)

\* What they leave alone.
Quiet(c) ==
    /\ remote' = remote /\ skipped \subseteq skipped'
    /\ \A d \in Clients \ {c} : /\ disk'[d] = disk[d] /\ stack'[d] = stack[d]
                                /\ command'[d] = command[d] /\ seen'[d] = seen[d]

\* The start of any command.
LEMMA StartKeeps ==
  ASSUME Typed, NEW c \in Clients, Delivered, NEW cmd \in Commands \ {None},
         NEW calls \in Seq(Frames), NEW listing \in SUBSET Names, Start(c, cmd, calls, listing)
  PROVE  Typed' /\ Quiet(c) /\ Delivered' /\ command'[c] = cmd /\ stack'[c] = calls
         /\ seen'[c] = {} /\ disk' = disk
  <1>1. Typed'
    BY TypedStart
  <1>2. /\ DOMAIN stack = Clients /\ DOMAIN command = Clients /\ DOMAIN seen = Clients
        /\ DOMAIN last = Clients
    BY DEF Typed
  <1>3. Quiet(c) /\ command'[c] = cmd /\ stack'[c] = calls /\ seen'[c] = {} /\ disk' = disk
    BY <1>2 DEF Start, Quiet
  <1>4. Delivered'
    BY <1>2 DEF Start, Delivered, None
  <1>5. QED
    BY <1>1, <1>3, <1>4

\* They keep the invariant: none leads into the middle of a push.
LEMMA OtherKeeps ==
  ASSUME Typed, NEW c \in Clients, PushInv(c), Delivered, OtherStep(c)
  PROVE  Typed' /\ PushInv(c)' /\ Delivered' /\ Quiet(c)
  <1>1. /\ DOMAIN disk = Clients /\ DOMAIN stack = Clients /\ DOMAIN command = Clients
        /\ DOMAIN seen = Clients /\ DOMAIN last = Clients /\ DOMAIN todo = Clients
        /\ Directory(disk[c]) /\ Directory(remote)
    BY DEF Typed
  <1>2. ASSUME NEW n \in Names
        PROVE  /\ <<Frame(n)>> \in Seq(Frames) /\ Push(n) \in Commands \ {None}
               /\ Pull(n) \in Commands \ {None} /\ Push(n).op = "push" /\ Push(n).name = n
               /\ Pull(n).op # "push" /\ {} \in SUBSET Names
    BY DEF Frame, Frames, Commands, Push, Pull, None
  <1>3. CASE \E n \in Names : StartPush(c, n)
    <2>1. PICK n \in Names : StartPush(c, n)
      BY <1>3
    <2>2. Start(c, Push(n), <<Frame(n)>>, {}) /\ n \in DOMAIN disk[c]
      BY <2>1 DEF StartPush
    <2>3. /\ Typed' /\ Quiet(c) /\ Delivered' /\ command'[c] = Push(n)
          /\ stack'[c] = <<Frame(n)>> /\ seen'[c] = {} /\ disk' = disk
      BY <1>2, <2>2, StartKeeps
    <2>4. /\ Len(<<Frame(n)>>) = 1 /\ DOMAIN <<Frame(n)>> = {1} /\ <<Frame(n)>>[1] = Frame(n)
          /\ <<Frame(n)>> # <<>> /\ Frame(n).name = n /\ Frame(n).at = "entry" /\ Frame(n).next = 1
      BY DEF Frame
    <2>5. /\ \A i \in DOMAIN stack'[c] : FrameInv(c, i)'
          /\ Descends(c)' /\ SeenInv(c)' /\ TargetInv(c)'
      BY <1>2, <2>2, <2>3, <2>4 DEF FrameInv, Descends, SeenInv, TargetInv
    <2>6. QED
      BY <2>3, <2>5 DEF PushInv
  <1>4. CASE \E n \in Names : StartPull(c, n)
    <2>1. PICK n \in Names : StartPull(c, n)
      BY <1>4
    <2>2. Typed' /\ Quiet(c) /\ Delivered' /\ command'[c] = Pull(n)
      BY <1>2, <2>1, StartKeeps DEF StartPull
    <2>3. QED
      BY <1>2, <2>2 DEF PushInv
  <1>5. CASE StartPullAll(c)
    <2>1. /\ PullAll \in Commands \ {None} /\ PullAll.op # "push" /\ <<>> \in Seq(Frames)
          /\ DOMAIN remote \in SUBSET Names
      BY <1>1 DEF Commands, PullAll, None, Directory
    <2>2. Typed' /\ Quiet(c) /\ Delivered' /\ command'[c] = PullAll
      BY <1>5, <2>1, StartKeeps DEF StartPullAll
    <2>3. QED
      BY <2>1, <2>2 DEF PushInv
  <1>6. CASE NextListed(c)
    <2>1. PICK n \in todo[c] : \/ stack' = stack
                               \/ stack' = [stack EXCEPT ![c] = <<Frame(n)>>]
      BY <1>6 DEF NextListed
    <2>2. n \in Names /\ todo[c] \subseteq Names /\ stack[c] \in Seq(Frames)
      BY DEF Typed, StackTyped
    <2>3. /\ command[c] = PullAll /\ command' = command /\ PullAll # None
          /\ PullAll \in Commands /\ PullAll.op # "push"
      BY <1>6 DEF NextListed, PullAll, None, Commands
    <2>4. stack'[c] \in Seq(Frames) /\ todo'[c] \subseteq Names
      <3>1. stack'[c] = stack[c] \/ stack'[c] = <<Frame(n)>>
        BY <1>1, <2>1
      <3>2. todo'[c] \subseteq todo[c]
        BY <1>1, <1>6 DEF NextListed
      <3>3. QED
        BY <1>2, <2>2, <3>1, <3>2
    <2>5. StackTyped(c)'
      BY <2>3, <2>4 DEF StackTyped
    <2>6. Typed'
      BY <1>1, <1>6, <2>1, <2>5, TypedBy DEF NextListed
    <2>7. Quiet(c)
      BY <1>1, <1>6, <2>1 DEF NextListed, Quiet
    <2>8. QED
      BY <1>6, <2>3, <2>6, <2>7 DEF NextListed, Delivered, PushInv
  <1>7. CASE Finish(c)
    <2>1. StackTyped(c)'
      BY <1>1, <1>7 DEF Finish, StackTyped, Commands, Typed
    <2>2. Typed'
      BY <1>1, <1>7, <2>1, TypedBy DEF Finish
    <2>3. Quiet(c) /\ command'[c] = None
      BY <1>1, <1>7 DEF Finish, Quiet
    <2>4. command[c].op = "push" => command[c].name \in DOMAIN remote
      BY <1>7 DEF Finish, PushInv, TargetInv
    <2>5. Delivered'
      BY <1>1, <1>7, <2>4 DEF Finish, Delivered
    <2>6. QED
      BY <2>2, <2>3, <2>5 DEF PushInv, None
  <1>8. CASE Fail(c)
    <2>1. StackTyped(c)'
      BY <1>1, <1>8 DEF Fail, Abort, StackTyped, Commands
    <2>2. Typed'
      BY <1>1, <1>8, <2>1, TypedBy DEF Fail, Abort
    <2>3. Quiet(c) /\ command'[c] = None
      BY <1>1, <1>8 DEF Fail, Abort, Quiet
    <2>4. QED
      BY <1>8, <2>2, <2>3 DEF Fail, Delivered, PushInv, None
  <1>9. CASE PullCutOff(c)
    <2>1. Typed' /\ remote' = remote
      BY <1>9, TypedPull
    <2>2. Quiet(c) /\ command'[c] = None
      BY <1>1, <1>9, <2>1 DEF PullCutOff, Abort, Quiet
    <2>3. QED
      BY <1>9, <2>1, <2>2 DEF PullCutOff, Delivered, PushInv, None
  <1>10. CASE PullStep(c)
    <2>1. Typed' /\ remote' = remote
      BY <1>10, TypedPull
    <2>2. PICK at : In(c, {"pull", "pull_all"}, at)
      BY <1>10 DEF PullStep, PullEntry, PullDownload, PullParent, PullReturn
    <2>3. command' = command /\ last' = last /\ command[c].op # "push"
      BY <1>10, <2>2 DEF PullStep, PullEntry, PullDownload, PullParent, PullReturn, In
    <2>4. Moves(c)
      BY <1>1, <1>10 DEF PullStep, PullEntry, PullDownload, PullParent, PullReturn, Moves, Directory
    <2>5. stack[c] # <<>>
      BY <2>2 DEF In
    <2>6. \A d \in Clients \ {c} : stack'[d] = stack[d]
      BY <2>4, <2>5, MovesFacts
    <2>7. skipped \subseteq skipped' /\ \A d \in Clients \ {c} : disk'[d] = disk[d] /\ seen'[d] = seen[d]
      BY <1>1, <1>10 DEF PullStep, PullEntry, PullDownload, PullParent, PullReturn, Warn
    <2>8. QED
      BY <2>1, <2>3, <2>6, <2>7 DEF Quiet, Delivered, PushInv
  <1>11. QED
    BY <1>3, <1>4, <1>5, <1>6, <1>7, <1>8, <1>9, <1>10 DEF OtherStep

-----------------------------------------------------------------------------
(* The theorems.                                                            *)

\* The invariant holds from the start and is kept by every step.
THEOREM Invariance == Spec => []IInv
  <1>1. Init => IInv
    <2> SUFFICES ASSUME Init PROVE IInv
      OBVIOUS
    <2>1. Typed
      BY TypedInit
    <2>2. \A c \in Clients : PushInv(c)
      BY DEF Init, PushInv, None
    <2>3. PushSound
      BY DEF Init, PushSound, ParentsFirst, Delivered, None
    <2>4. QED
      BY <2>1, <2>2, <2>3 DEF IInv
  <1>2. IInv /\ [Next]_vars => IInv'
    <2> SUFFICES ASSUME IInv, [Next]_vars PROVE IInv'
      OBVIOUS
    <2>1. Typed /\ (\A c \in Clients : PushInv(c)) /\ ParentsFirst /\ Delivered
      BY DEF IInv, PushSound
    <2>2. ASSUME NEW c \in Clients, PushStep(c)
          PROVE  IInv'
      <3>1. PushInv(c)' /\ Typed' /\ disk' = disk
            /\ DOMAIN remote \subseteq DOMAIN remote' /\ skipped \subseteq skipped'
        BY <2>1, <2>2, PushKeeps, TypedPush
      <3>2. PICK at : In(c, {"push"}, at)
        BY <2>2 DEF PushStep, PushEntry, PushParent, PushUpload
      <3>3. Moves(c)
        BY <2>1, <2>2 DEF PushStep, PushEntry, PushParent, PushUpload, Moves, Typed, Directory
      <3>4. \A d \in Clients \ {c} : stack'[d] = stack[d]
        BY <2>1, <3>2, <3>3, MovesFacts DEF In
      <3>5. /\ command' = command /\ last' = last
            /\ \A d \in Clients \ {c} : seen'[d] = seen[d]
        BY <2>1, <2>2 DEF PushStep, PushEntry, PushParent, PushUpload, Typed
      <3>6. \A d \in Clients \ {c} : PushInv(d)'
        BY <2>1, <3>1, <3>4, <3>5, OthersKeep
      <3>7. Delivered'
        BY <2>1, <3>1, <3>5 DEF Delivered
      <3>8. ParentsFirst'
        <4>1. CASE PushUpload(c)
          BY <2>1, <4>1, UploadSound
        <4>2. CASE remote' = remote
          BY <2>1, <3>1, <4>2 DEF ParentsFirst
        <4>3. QED
          BY <2>2, <4>1, <4>2 DEF PushStep, PushEntry, PushParent
      <3>9. QED
        BY <3>1, <3>6, <3>7, <3>8 DEF IInv, PushSound
    <2>3. ASSUME NEW c \in Clients, OtherStep(c)
          PROVE  IInv'
      <3>1. Typed' /\ PushInv(c)' /\ Delivered' /\ Quiet(c)
        BY <2>1, <2>3, OtherKeeps
      <3>2. \A d \in Clients \ {c} : PushInv(d)'
        BY <2>1, <3>1, OthersKeep DEF Quiet
      <3>3. ParentsFirst'
        BY <2>1, <3>1 DEF Quiet, ParentsFirst
      <3>4. QED
        BY <3>1, <3>2, <3>3 DEF IInv, PushSound
    <2>4. CASE UNCHANGED vars
      <3>1. Typed'
        BY <2>1, <2>4 DEF vars, Typed, StackTyped
      <3>2. \A c \in Clients : PushInv(c)'
        BY <2>1, <2>4, OthersKeep DEF vars
      <3>3. PushSound'
        BY <2>1, <2>4 DEF vars, PushSound, ParentsFirst, Delivered
      <3>4. QED
        BY <3>1, <3>2, <3>3 DEF IInv
    <2>5. QED
      BY <2>2, <2>3, <2>4 DEF Next, Done, Client, PushStep, OtherStep, PullStep
  <1>3. QED
    BY <1>1, <1>2, PTL DEF Spec

\* A parent is on the remote before its child unless the pusher said it was
\* missing, and an Ok means that the archive is there.
THEOREM PushSoundCorrect == Spec => []PushSound
  <1>1. IInv => PushSound
    BY DEF IInv
  <1>2. QED
    BY <1>1, Invariance, PTL

-----------------------------------------------------------------------------
(* What a pull leaves behind.                                               *)

Pulls == {"pull", "pull_all"}

\* Archive n of a directory has parent p, which the directory has not.
Lacks(dir, n, p) ==
    /\ n \in DOMAIN dir /\ p \notin DOMAIN dir
    /\ \E j \in DOMAIN Bases[dir[n].archive] : ParentNames(dir[n].archive)[j] = p

\* A call for n, whose archive is a, has parent p before it, or is waiting for
\* the call for p.
Waits(s, n, p, a) ==
    \E i \in DOMAIN s :
        /\ s[i].name = n /\ s[i].at = "parents"
        /\ \/ \E j \in DOMAIN Bases[a] : j >= s[i].next /\ ParentNames(a)[j] = p
           \/ i > 1 /\ s[i-1].name = p

Settled(c, n, p) == Lacks(FirstDir(c), n, p) \/ <<c, n, p>> \in skipped
Pending(c, n, p) == command[c].op \in Pulls /\ Waits(stack[c], n, p, disk[c][n].archive)

\* What a directory lacks it lacked before, was warned of or is being fetched.
ClosesInv(c) ==
    c \notin failed =>
        \A n, p \in Names : Lacks(disk[c], n, p) => Settled(c, n, p) \/ Pending(c, n, p)

\* The calls below the innermost look at parents of archives that are there.
Shape(s, dir) ==
    \A i \in DOMAIN s :
        /\ s[i].at = "parents" => s[i].name \in DOMAIN dir
        /\ i > 1 => s[i].at = "parents"
        /\ s[i].at # "parents" => s[i].next = 1

\* What was seen is there, or being downloaded.
Reached(names, s, dir) ==
    \A n \in names : \/ n \in DOMAIN dir
                     \/ s # <<>> /\ s[1].at = "download" /\ s[1].name = n

PullInv(c) ==
    command[c].op \in Pulls => Shape(stack[c], disk[c]) /\ Reached(seen[c], stack[c], disk[c])

\* Headers can be read, but of files that a client cut off.
HeadersInv(c) ==
    /\ c \notin failed => \A n \in DOMAIN disk[c] : HasHeader(disk[c][n])
    /\ command[c].op = "push" =>
          \A i \in DOMAIN stack[c] :
              stack[c][i].at = "parents" => HasHeader(disk[c][stack[c][i].name])

TodoInv(c) == todo[c] \subseteq DOMAIN remote /\ (command[c] = None => todo[c] = {})

ClientInv(c) ==
    /\ disk[c] \in [DOMAIN disk[c] -> Files]
    /\ TodoInv(c) /\ HeadersInv(c) /\ PullInv(c) /\ ClosesInv(c)

RemoteInv == remote \in [DOMAIN remote -> Files] /\ \A n \in DOMAIN remote : HasHeader(remote[n])

PullsInv ==
    /\ disk = [c \in Clients |-> disk[c]]
    /\ RemoteInv /\ \A c \in Clients : ClientInv(c)

-----------------------------------------------------------------------------
(* How calls wait.                                                          *)

\* A call returns: those below it still wait for what they waited for, but for
\* its own archive and the parents it still had before it.
LEMMA WaitsPopped ==
  ASSUME NEW s \in Seq(Frames), s # <<>>, NEW n, NEW p, NEW a, Waits(s, n, p, a),
         s[1].name # p,
         s[1].at = "parents" /\ s[1].name = n =>
            \A j \in DOMAIN Bases[a] : j >= s[1].next => ParentNames(a)[j] # p
  PROVE  Waits(Tail(s), n, p, a)
  <1> DEFINE t == Tail(s)
  <1>1. /\ Len(s) \in Nat \ {0} /\ DOMAIN s = 1..Len(s) /\ DOMAIN t = 1..(Len(s) - 1)
        /\ \A i \in DOMAIN t : t[i] = s[i+1]
    BY Popped
  <1> HIDE DEF t
  <1>2. PICK i \in DOMAIN s :
           /\ s[i].name = n /\ s[i].at = "parents"
           /\ \/ \E j \in DOMAIN Bases[a] : j >= s[i].next /\ ParentNames(a)[j] = p
              \/ i > 1 /\ s[i-1].name = p
    BY DEF Waits
  <1>3. i # 1
    BY <1>2
  <1>4. i - 1 \in DOMAIN t /\ t[i-1] = s[i]
    BY <1>1, <1>3
  <1>5. CASE \E j \in DOMAIN Bases[a] : j >= s[i].next /\ ParentNames(a)[j] = p
    BY <1>2, <1>4, <1>5 DEF Waits, t
  <1>6. CASE s[i-1].name = p
    <2>1. i > 2
      BY <1>1, <1>3, <1>6
    <2>2. (i - 1) - 1 \in DOMAIN t /\ t[(i-1)-1] = s[i-1] /\ i - 1 > 1
      BY <1>1, <2>1
    <2>3. QED
      BY <1>2, <1>4, <1>6, <2>2 DEF Waits, t
  <1>7. QED
    BY <1>2, <1>5, <1>6

\* The innermost call goes on, past parents other than p.
LEMMA WaitsReplaced ==
  ASSUME NEW s \in Seq(Frames), s # <<>>, NEW x \in Frames, NEW t, t = <<x>> \o Tail(s),
         NEW n, NEW p, NEW a, Waits(s, n, p, a), x.name = s[1].name,
         s[1].at = "parents" =>
            /\ x.at = "parents"
            /\ s[1].name = n => \A j \in DOMAIN Bases[a] :
                                   j >= s[1].next /\ ParentNames(a)[j] = p => j >= x.next
  PROVE  Waits(t, n, p, a)
  <1>1. /\ Len(s) \in Nat \ {0} /\ DOMAIN s = 1..Len(s) /\ DOMAIN t = DOMAIN s
        /\ t[1] = x /\ \A i \in DOMAIN t : i > 1 => t[i] = s[i]
    BY Replaced, Popped
  <1>2. PICK i \in DOMAIN s :
           /\ s[i].name = n /\ s[i].at = "parents"
           /\ \/ \E j \in DOMAIN Bases[a] : j >= s[i].next /\ ParentNames(a)[j] = p
              \/ i > 1 /\ s[i-1].name = p
    BY DEF Waits
  <1>3. CASE i = 1
    <2>1. PICK j \in DOMAIN Bases[a] : j >= s[1].next /\ ParentNames(a)[j] = p
      BY <1>2, <1>3
    <2>2. s[1].name = n /\ s[1].at = "parents"
      BY <1>2, <1>3
    <2>3. j >= x.next
      BY <2>1, <2>2
    <2>4. 1 \in DOMAIN t /\ t[1].name = n /\ t[1].at = "parents" /\ j >= t[1].next
      BY <1>1, <2>2, <2>3
    <2>5. QED
      BY <2>1, <2>4 DEF Waits
  <1>4. CASE i > 1
    <2>1. t[i] = s[i] /\ t[i-1].name = s[i-1].name
      BY <1>1, <1>4
    <2>2. QED
      BY <1>1, <1>2, <1>4, <2>1 DEF Waits
  <1>5. QED
    BY <1>1, <1>3, <1>4

\* The innermost call calls for q.
LEMMA WaitsCalled ==
  ASSUME NEW s \in Seq(Frames), s # <<>>, NEW x \in Frames, NEW y \in Frames,
         NEW t, t = <<x, y>> \o Tail(s),
         NEW n, NEW p, NEW a, Waits(s, n, p, a),
         y.name = s[1].name, y.at = "parents",
         s[1].name = n => \A j \in DOMAIN Bases[a] :
            j >= s[1].next /\ ParentNames(a)[j] = p => j >= y.next \/ x.name = p
  PROVE  Waits(t, n, p, a)
  <1>1. /\ Len(s) \in Nat \ {0} /\ DOMAIN s = 1..Len(s) /\ DOMAIN t = 1..(Len(s) + 1)
        /\ t[1] = x /\ t[2] = y /\ \A i \in DOMAIN t : i > 2 => t[i] = s[i-1]
    BY Called, Popped
  <1>2. PICK i \in DOMAIN s :
           /\ s[i].name = n /\ s[i].at = "parents"
           /\ \/ \E j \in DOMAIN Bases[a] : j >= s[i].next /\ ParentNames(a)[j] = p
              \/ i > 1 /\ s[i-1].name = p
    BY DEF Waits
  <1>3. CASE i = 1
    <2>1. 2 \in DOMAIN t /\ 2 - 1 = 1
      BY <1>1
    <2>2. t[2].name = n /\ t[2].at = "parents"
      BY <1>1, <1>2, <1>3
    <2>3. PICK j \in DOMAIN Bases[a] : j >= s[1].next /\ ParentNames(a)[j] = p
      BY <1>2, <1>3
    <2>4. j >= t[2].next \/ t[2-1].name = p
      BY <1>1, <1>2, <1>3, <2>1, <2>3
    <2>5. PICK k \in DOMAIN t : k = 2 /\ k > 1 /\ t[k-1] = t[2-1]
      BY <2>1
    <2>6. /\ t[k].name = n /\ t[k].at = "parents" /\ k > 1
          /\ j >= t[k].next \/ t[k-1].name = p
      BY <2>2, <2>4, <2>5
    <2>7. QED
      BY <2>3, <2>6 DEF Waits
  <1>4. CASE i > 1
    <2>1. i + 1 \in DOMAIN t /\ (i + 1) - 1 = i /\ i + 1 > 1 /\ t[i+1] = s[i] /\ t[i].name = s[i-1].name
      <3>1. i + 1 \in DOMAIN t /\ i + 1 > 2 /\ (i + 1) - 1 = i /\ i \in DOMAIN t
        BY <1>1, <1>4
      <3>2. t[i].name = s[i-1].name
        <4>1. CASE i = 2
          BY <1>1, <4>1
        <4>2. CASE i > 2
          BY <1>1, <3>1, <4>2
        <4>3. QED
          BY <1>1, <1>4, <4>1, <4>2
      <3>3. QED
        BY <1>1, <3>1, <3>2
    <2>2. QED
      BY <1>2, <2>1 DEF Waits
  <1>5. QED
    BY <1>1, <1>3, <1>4

-----------------------------------------------------------------------------
(* The calls of a pull stay in shape.                                       *)

LEMMA ShapePopped ==
  ASSUME NEW s \in Seq(Frames), s # <<>>, NEW dir, Shape(s, dir)
  PROVE  Shape(Tail(s), dir)
  <1>1. /\ Len(s) \in Nat \ {0} /\ DOMAIN s = 1..Len(s) /\ DOMAIN Tail(s) = 1..(Len(s) - 1)
        /\ \A i \in DOMAIN Tail(s) : Tail(s)[i] = s[i+1] /\ i + 1 \in DOMAIN s /\ i + 1 > 1
    BY Popped
  <1>2. QED
    BY <1>1 DEF Shape

LEMMA ShapeReplaced ==
  ASSUME NEW s \in Seq(Frames), s # <<>>, NEW x \in Frames, NEW t, t = <<x>> \o Tail(s),
         NEW dir, Shape(s, dir), NEW new, DOMAIN dir \subseteq DOMAIN new,
         x.at = "parents" => x.name \in DOMAIN new, x.at # "parents" => x.next = 1
  PROVE  Shape(t, new)
  <1>1. /\ Len(s) \in Nat \ {0} /\ DOMAIN s = 1..Len(s) /\ DOMAIN t = DOMAIN s
        /\ t[1] = x /\ \A i \in DOMAIN t : i > 1 => t[i] = s[i]
    BY Replaced, Popped
  <1>2. ASSUME NEW i \in DOMAIN t
        PROVE  /\ t[i].at = "parents" => t[i].name \in DOMAIN new
               /\ i > 1 => t[i].at = "parents"
               /\ t[i].at # "parents" => t[i].next = 1
    <2>1. CASE i = 1
      BY <1>1, <2>1
    <2>2. CASE i > 1
      BY <1>1, <2>2 DEF Shape
    <2>3. QED
      BY <1>1, <2>1, <2>2
  <1>3. QED
    BY <1>2 DEF Shape

LEMMA ShapeCalled ==
  ASSUME NEW s \in Seq(Frames), s # <<>>, NEW x \in Frames, NEW y \in Frames,
         NEW t, t = <<x, y>> \o Tail(s), NEW dir, Shape(s, dir),
         x.at = "entry", x.next = 1, y.at = "parents", y.name \in DOMAIN dir
  PROVE  Shape(t, dir)
  <1>1. /\ Len(s) \in Nat \ {0} /\ DOMAIN s = 1..Len(s) /\ DOMAIN t = 1..(Len(s) + 1)
        /\ t[1] = x /\ t[2] = y /\ \A i \in DOMAIN t : i > 2 => t[i] = s[i-1]
    BY Called, Popped
  <1>2. ASSUME NEW i \in DOMAIN t
        PROVE  /\ t[i].at = "parents" => t[i].name \in DOMAIN dir
               /\ i > 1 => t[i].at = "parents"
               /\ t[i].at # "parents" => t[i].next = 1
    <2>1. CASE i = 1
      BY <1>1, <2>1
    <2>2. CASE i = 2
      BY <1>1, <2>2
    <2>3. CASE i > 2
      <3>1. i - 1 \in DOMAIN s /\ i - 1 > 1 /\ t[i] = s[i-1]
        BY <1>1, <2>3
      <3>2. QED
        BY <3>1 DEF Shape
    <2>4. QED
      BY <1>1, <2>1, <2>2, <2>3
  <1>3. QED
    BY <1>2 DEF Shape

\* The call at the top of a pull.
LEMMA PullTop ==
  ASSUME Typed, NEW c \in Clients, ClientInv(c), NEW at, In(c, Pulls, at)
  PROVE  /\ command[c].op \in Pulls /\ command[c] # None
         /\ stack[c] \in Seq(Frames) /\ stack[c] # <<>>
         /\ Top(c) = stack[c][1] /\ Top(c) = Head(stack[c]) /\ Top(c) \in Frames /\ Top(c).at = at
         /\ Shape(stack[c], disk[c]) /\ Reached(seen[c], stack[c], disk[c])
         /\ at = "parents" => Top(c).name \in DOMAIN disk[c]
         /\ at # "parents" => Top(c).next = 1
         /\ at # "download" => seen[c] \subseteq DOMAIN disk[c]
         /\ DOMAIN disk = Clients /\ DOMAIN stack = Clients /\ DOMAIN seen = Clients
         /\ DOMAIN command = Clients /\ DOMAIN todo = Clients /\ Directory(disk[c])
  <1>1. /\ command[c].op \in Pulls /\ command[c] # None
        /\ stack[c] \in Seq(Frames) /\ stack[c] # <<>>
        /\ Top(c) = stack[c][1] /\ Top(c) \in Frames /\ Top(c).at = at
    BY CallFacts DEF Pulls
  <1>2. Shape(stack[c], disk[c]) /\ Reached(seen[c], stack[c], disk[c])
    BY <1>1 DEF ClientInv, PullInv
  <1>3. 1 \in DOMAIN stack[c]
    BY <1>1, Popped
  <1>4. /\ at = "parents" => Top(c).name \in DOMAIN disk[c]
        /\ at # "parents" => Top(c).next = 1
    BY <1>1, <1>2, <1>3 DEF Shape
  <1>5. at # "download" => seen[c] \subseteq DOMAIN disk[c]
    BY <1>1, <1>2 DEF Reached
  <1>6. QED
    BY <1>1, <1>2, <1>4, <1>5 DEF Typed, Top

\* The archive at the top, when its parents are looked at.
LEMMA PullTopFile ==
  ASSUME Typed, NEW c \in Clients, ClientInv(c), In(c, Pulls, "parents")
  PROVE  /\ TopFile(c) = disk[c][Top(c).name] /\ TopFile(c).archive \in Archives
         /\ Parents(c) = ParentNames(TopFile(c).archive)
         /\ Len(Parents(c)) \in Nat
         /\ DOMAIN Bases[TopFile(c).archive] = 1..Len(Parents(c))
         /\ \A j \in 1..Len(Parents(c)) : Parents(c)[j] \in Names
  <1>1. TopFile(c) = disk[c][Top(c).name] /\ Parents(c) = ParentNames(TopFile(c).archive)
    BY DEF TopFile, Parents
  <1>2. TopFile(c).archive \in Archives
    BY <1>1, PullTop DEF Directory, Files
  <1>3. QED
    BY <1>1, <1>2, ParentFacts

\* What a client is owed does not depend on the other ones.
LEMMA Remain ==
  ASSUME NEW c \in Clients, ClientInv(c),
         disk'[c] = disk[c], command'[c] = command[c], stack'[c] = stack[c], seen'[c] = seen[c],
         todo'[c] = todo[c], failed' \cap {c} = failed \cap {c},
         DOMAIN remote \subseteq DOMAIN remote', skipped \subseteq skipped'
  PROVE  ClientInv(c)'
  <1>1. (disk[c] \in [DOMAIN disk[c] -> Files])' /\ TodoInv(c)' /\ HeadersInv(c)'
    BY DEF ClientInv, TodoInv, HeadersInv
  <1>2. PullInv(c)'
    BY DEF ClientInv, PullInv
  <1>3. ClosesInv(c)'
    BY DEF ClientInv, ClosesInv, Settled, Pending
  <1>4. QED
    BY <1>1, <1>2, <1>3 DEF ClientInv

-----------------------------------------------------------------------------
(* Each step of a pull.                                                     *)

\* Where the directory stays, what it lacks is settled or still pending.
LEMMA StillPending ==
  ASSUME NEW c \in Clients, ClosesInv(c), command[c].op \in Pulls,
         disk'[c] = disk[c], command'[c] = command[c], skipped \subseteq skipped',
         c \notin failed' => c \notin failed,
         c \notin failed => \A n, p \in Names :
            Lacks(disk[c], n, p) /\ Waits(stack[c], n, p, disk[c][n].archive) =>
               \/ <<c, n, p>> \in skipped'
               \/ Waits(stack'[c], n, p, disk[c][n].archive)
  PROVE  ClosesInv(c)'
  BY DEF ClosesInv, Settled, Pending

LEMMA PullEntryKeeps ==
  ASSUME Typed, NEW c \in Clients, ClientInv(c), PullEntry(c)
  PROVE  ClientInv(c)'
  <1> DEFINE f == Top(c)
  <1>1. PICK s, t : s = stack[c] /\ t = stack'[c]
    OBVIOUS
  <1>2. /\ In(c, Pulls, "entry")
        /\ UNCHANGED <<disk, remote, command, todo, last, skipped, failed, count>>
        /\ seen'[c] = seen[c] \cup {f.name}
    BY DEF PullEntry, Pulls, Typed
  <1>3. /\ command[c].op \in Pulls /\ s \in Seq(Frames) /\ s # <<>>
        /\ f = s[1] /\ f = Head(s) /\ f \in Frames /\ f.at = "entry" /\ f.next = 1
        /\ Shape(s, disk[c]) /\ seen[c] \subseteq DOMAIN disk[c] /\ DOMAIN stack = Clients
    BY <1>1, <1>2, PullTop
  <1>4. CASE f.name \in seen[c]
    <2>1. t = Tail(s)
      BY <1>1, <1>3, <1>4 DEF PullEntry, Return
    <2>2. Shape(t, disk[c]) /\ Reached(seen'[c], t, disk[c])
      BY <1>2, <1>3, <1>4, <2>1, ShapePopped DEF Reached
    <2>3. ASSUME NEW n \in Names, NEW p \in Names, Lacks(disk[c], n, p),
                 Waits(s, n, p, disk[c][n].archive)
          PROVE  Waits(t, n, p, disk[c][n].archive)
      <3>1. s[1].name # p /\ s[1].at # "parents"
        BY <1>3, <1>4, <2>3 DEF Lacks
      <3>2. QED
        BY <1>3, <2>1, <2>3, <3>1, WaitsPopped
    <2>4. ClosesInv(c)'
      BY <1>1, <1>2, <1>3, <2>3, StillPending DEF ClientInv
    <2>5. PullInv(c)'
      BY <1>1, <1>2, <2>2 DEF PullInv
    <2>6. QED
      BY <1>2, <1>3, <2>4, <2>5 DEF ClientInv, TodoInv, HeadersInv, Pulls
  <1>5. CASE f.name \notin seen[c]
    <2> DEFINE at == IF f.name \in DOMAIN disk[c] THEN "parents" ELSE "download"
               x == At(f, at)
    <2>1. t = <<x>> \o Tail(s)
      BY <1>1, <1>3, <1>5 DEF PullEntry, Goto
    <2>2. x \in Frames /\ x.name = f.name /\ x.next = 1 /\ x.at = at
      BY <1>3 DEF At, Frames
    <2> HIDE DEF x
    <2>3. Shape(t, disk[c])
      BY <1>3, <2>1, <2>2, ShapeReplaced
    <2>4. t[1] = x /\ t # <<>>
      BY <1>3, <2>1, <2>2, Replaced
    <2>5. Reached(seen'[c], t, disk[c])
      BY <1>2, <1>3, <2>2, <2>4 DEF Reached
    <2>6. ASSUME NEW n \in Names, NEW p \in Names, Waits(s, n, p, disk[c][n].archive)
          PROVE  Waits(t, n, p, disk[c][n].archive)
      BY <1>3, <2>1, <2>2, <2>6, WaitsReplaced
    <2>7. ClosesInv(c)'
      BY <1>1, <1>2, <1>3, <2>6, StillPending DEF ClientInv
    <2>8. PullInv(c)'
      BY <1>1, <1>2, <2>3, <2>5 DEF PullInv
    <2>9. QED
      BY <1>2, <1>3, <2>7, <2>8 DEF ClientInv, TodoInv, HeadersInv, Pulls
  <1>6. QED
    BY <1>4, <1>5

LEMMA PullDownloadKeeps ==
  ASSUME Typed, RemoteInv, NEW c \in Clients, ClientInv(c), PullDownload(c)
  PROVE  ClientInv(c)'
  <1> DEFINE f == Top(c)
             x == At(f, "parents")
             file == remote[f.name]
             a(dir, n) == dir[n].archive
  <1>1. PICK s, t, dir, new : s = stack[c] /\ t = stack'[c] /\ dir = disk[c] /\ new = disk'[c]
    OBVIOUS
  <1>2. /\ In(c, Pulls, "download") /\ f.name \in DOMAIN remote
        /\ UNCHANGED <<remote, command, seen, todo, last, skipped, failed, count>>
    BY DEF PullDownload, Pulls
  <1>3. /\ command[c].op \in Pulls /\ s \in Seq(Frames) /\ s # <<>>
        /\ f = s[1] /\ f = Head(s) /\ f \in Frames /\ f.at = "download" /\ f.next = 1
        /\ Shape(s, dir) /\ Reached(seen[c], s, dir)
        /\ DOMAIN stack = Clients /\ DOMAIN disk = Clients
    BY <1>1, <1>2, PullTop
  <1>4. new = With(dir, f.name, file) /\ t = <<x>> \o Tail(s)
    BY <1>1, <1>3 DEF PullDownload, Goto
  <1>5. /\ DOMAIN new = DOMAIN dir \cup {f.name} /\ new[f.name] = file
        /\ \A n \in DOMAIN dir : n # f.name => new[n] = dir[n]
        /\ new = [n \in DOMAIN new |-> new[n]]
    BY <1>4 DEF With
  <1>6. file \in Files /\ HasHeader(file)
    BY <1>2 DEF RemoteInv
  <1>7. x \in Frames /\ x.name = f.name /\ x.next = 1 /\ x.at = "parents"
    BY <1>3 DEF At, Frames
  <1> HIDE DEF x, file
  <1>8. /\ DOMAIN t = DOMAIN s /\ DOMAIN s = 1..Len(s) /\ Len(s) \in Nat \ {0} /\ t[1] = x
    BY <1>3, <1>4, <1>7, Replaced, Popped
  <1>9. new \in [DOMAIN new -> Files]
    BY <1>1, <1>5, <1>6 DEF ClientInv
  <1>10. TodoInv(c)'
    BY <1>2 DEF TodoInv, ClientInv
  <1>11. HeadersInv(c)'
    <2>1. command'[c].op # "push"
      BY <1>2, <1>3 DEF Pulls
    <2>2. c \notin failed => \A n \in DOMAIN new : HasHeader(new[n])
      BY <1>1, <1>5, <1>6 DEF HeadersInv, ClientInv
    <2>3. QED
      BY <1>1, <1>2, <2>1, <2>2 DEF HeadersInv
  <1>12. PullInv(c)'
    <2>1. Shape(t, new)
      <3>1. DOMAIN dir \subseteq DOMAIN new /\ x.name \in DOMAIN new
        BY <1>5, <1>7
      <3>2. QED
        BY <1>3, <1>4, <1>7, <3>1, ShapeReplaced
    <2>2. Reached(seen[c], t, new)
      BY <1>3, <1>5 DEF Reached
    <2>3. QED
      BY <1>1, <1>2, <2>1, <2>2 DEF PullInv
  <1>13. ClosesInv(c)'
    <2> SUFFICES ASSUME c \notin failed, NEW n \in Names, NEW p \in Names, Lacks(new, n, p)
                 PROVE  Settled(c, n, p) \/ Waits(t, n, p, new[n].archive)
      BY <1>1, <1>2, <1>3 DEF ClosesInv, Settled, Pending
    <2>1. CASE n = f.name
      <3>1. PICK j \in DOMAIN Bases[new[n].archive] : ParentNames(new[n].archive)[j] = p
        BY DEF Lacks
      <3>2. j \in Nat \ {0}
        <4>1. new[n].archive \in Archives
          BY <1>9 DEF Lacks, Files
        <4>2. QED
          BY <4>1, ParentFacts
      <3>3. 1 \in DOMAIN t /\ t[1].name = n /\ t[1].at = "parents" /\ j >= t[1].next
        BY <1>7, <1>8, <2>1, <3>2
      <3>4. QED
        BY <3>1, <3>3 DEF Waits
    <2>2. CASE n # f.name
      <3>1. new[n] = dir[n] /\ Lacks(dir, n, p)
        BY <1>5, <2>2 DEF Lacks
      <3>2. Settled(c, n, p) \/ Waits(s, n, p, dir[n].archive)
        BY <1>1, <3>1 DEF ClientInv, ClosesInv, Pending
      <3>3. Waits(s, n, p, dir[n].archive) => Waits(t, n, p, dir[n].archive)
        BY <1>3, <1>4, <1>7, WaitsReplaced
      <3>4. QED
        BY <3>1, <3>2, <3>3
    <2>3. QED
      BY <2>1, <2>2
  <1>14. QED
    BY <1>1, <1>9, <1>10, <1>11, <1>12, <1>13 DEF ClientInv

\* Past the last parent a call waits for none.
LEMMA PullReturnKeeps ==
  ASSUME Typed, NEW c \in Clients, ClientInv(c), PullReturn(c)
  PROVE  ClientInv(c)'
  <1> DEFINE f == Top(c)
  <1>1. PICK s, t : s = stack[c] /\ t = stack'[c]
    OBVIOUS
  <1>2. /\ In(c, Pulls, "parents") /\ (HasHeader(TopFile(c)) => ParentsDone(c))
        /\ UNCHANGED <<disk, remote, command, seen, todo, last, skipped, failed, count>>
    BY DEF PullReturn, Pulls
  <1>3. /\ command[c].op \in Pulls /\ s \in Seq(Frames) /\ s # <<>>
        /\ f = s[1] /\ f \in Frames /\ f.at = "parents" /\ f.name \in DOMAIN disk[c]
        /\ Shape(s, disk[c]) /\ seen[c] \subseteq DOMAIN disk[c] /\ DOMAIN stack = Clients
    BY <1>1, <1>2, PullTop
  <1>4. t = Tail(s)
    BY <1>1, <1>3 DEF PullReturn, Return
  <1>5. PullInv(c)'
    <2>1. Shape(t, disk[c]) /\ Reached(seen[c], t, disk[c])
      BY <1>3, <1>4, ShapePopped DEF Reached
    <2>2. QED
      BY <1>1, <1>2, <2>1 DEF PullInv
  <1>6. ASSUME c \notin failed, NEW n \in Names, NEW p \in Names, Lacks(disk[c], n, p),
               Waits(s, n, p, disk[c][n].archive)
        PROVE  Waits(t, n, p, disk[c][n].archive)
    <2>1. s[1].name # p
      BY <1>3, <1>6 DEF Lacks
    <2>2. ASSUME s[1].name = n, NEW j \in DOMAIN Bases[disk[c][n].archive]
          PROVE  ~ (j >= s[1].next)
      <3>1. TopFile(c) = disk[c][n]
        BY <1>3, <2>2 DEF TopFile
      <3>2. HasHeader(TopFile(c))
        BY <1>3, <1>6, <2>2, <3>1 DEF ClientInv, HeadersInv
      <3>3. f.next > Len(Parents(c)) /\ f.next \in Nat
        BY <1>2, <1>3, <3>2 DEF ParentsDone, Frames
      <3>4. j \in 1..Len(Parents(c)) /\ Len(Parents(c)) \in Nat
        BY <1>2, <2>2, <3>1, PullTopFile
      <3>5. QED
        BY <1>3, <3>3, <3>4
    <2>3. QED
      BY <1>3, <1>4, <1>6, <2>1, <2>2, WaitsPopped
  <1>7. ClosesInv(c)'
    BY <1>1, <1>2, <1>3, <1>6, StillPending DEF ClientInv
  <1>8. QED
    BY <1>2, <1>3, <1>5, <1>7 DEF ClientInv, TodoInv, HeadersInv, Pulls

\* A parent is there, is called for or is warned of.
LEMMA PullParentKeeps ==
  ASSUME Typed, NEW c \in Clients, ClientInv(c), PullParent(c)
  PROVE  ClientInv(c)'
  <1> DEFINE f == Top(c)
             q == Parent(c)
             y == Advanced(f)
  <1>1. PICK s, t : s = stack[c] /\ t = stack'[c]
    OBVIOUS
  <1>2. /\ In(c, Pulls, "parents") /\ ~ ParentsDone(c) /\ skipped \subseteq skipped'
        /\ UNCHANGED <<disk, remote, command, seen, todo, last, failed, count>>
    BY DEF PullParent, Pulls, Warn
  <1>3. /\ command[c].op \in Pulls /\ s \in Seq(Frames) /\ s # <<>>
        /\ f = s[1] /\ f = Head(s) /\ f \in Frames /\ f.at = "parents" /\ f.name \in DOMAIN disk[c]
        /\ Shape(s, disk[c]) /\ seen[c] \subseteq DOMAIN disk[c] /\ DOMAIN stack = Clients
    BY <1>1, <1>2, PullTop
  <1>4. /\ f.next \in Nat \ {0} /\ y \in Frames /\ y.name = f.name /\ y.at = "parents"
        /\ y.next = f.next + 1
    BY <1>3 DEF Frames, Advanced
  <1>5. /\ TopFile(c) = disk[c][f.name] /\ Parents(c) = ParentNames(TopFile(c).archive)
        /\ Len(Parents(c)) \in Nat
        /\ DOMAIN Bases[TopFile(c).archive] = 1..Len(Parents(c))
    BY <1>2, PullTopFile
  <1>6. q \in Names /\ q = Parents(c)[f.next]
    <2>1. f.next \in 1..Len(Parents(c))
      BY <1>2, <1>4, <1>5 DEF ParentsDone
    <2>2. QED
      BY <1>2, <2>1, PullTopFile DEF Parent
  <1>7. /\ t = <<y>> \o Tail(s) \/ (t = <<Frame(q), y>> \o Tail(s))
        /\ Frame(q) \in Frames /\ Frame(q).name = q /\ Frame(q).at = "entry" /\ Frame(q).next = 1
    BY <1>1, <1>3, <1>6 DEF PullParent, SkipParent, CallParent, Frame, Frames
  <1> HIDE DEF y
  <1>8. PullInv(c)'
    <2>1. Shape(t, disk[c])
      <3>1. CASE t = <<y>> \o Tail(s)
        BY <1>3, <1>4, <3>1, ShapeReplaced
      <3>2. CASE t = <<Frame(q), y>> \o Tail(s)
        BY <1>3, <1>4, <1>7, <3>2, ShapeCalled
      <3>3. QED
        BY <1>7, <3>1, <3>2
    <2>2. Reached(seen[c], t, disk[c])
      BY <1>3 DEF Reached
    <2>3. QED
      BY <1>1, <1>2, <2>1, <2>2 DEF PullInv
  \* Going on past parent q loses a wait for p only if p is q.
  <1>9. ASSUME NEW n \in Names, NEW p \in Names, Waits(s, n, p, disk[c][n].archive),
               t = <<y>> \o Tail(s), n = f.name => p # q
        PROVE  Waits(t, n, p, disk[c][n].archive)
    <2>1. ASSUME s[1].name = n, NEW j \in DOMAIN Bases[disk[c][n].archive],
                 j >= s[1].next, ParentNames(disk[c][n].archive)[j] = p
          PROVE  j >= y.next
      <3>1. ParentNames(disk[c][n].archive) = Parents(c) /\ j \in 1..Len(Parents(c))
        BY <1>3, <1>5, <2>1
      <3>2. j # f.next
        BY <1>3, <1>6, <1>9, <2>1, <3>1
      <3>3. QED
        BY <1>3, <1>4, <1>5, <2>1, <3>1, <3>2
    <2>2. s[1].name = n => \A j \in DOMAIN Bases[disk[c][n].archive] :
             j >= s[1].next /\ ParentNames(disk[c][n].archive)[j] = p => j >= y.next
      BY <2>1
    <2>3. PICK a, x : a = disk[c][n].archive /\ x = y
      OBVIOUS
    <2>4. /\ Waits(s, n, p, a) /\ x \in Frames /\ t = <<x>> \o Tail(s) /\ x.name = s[1].name
          /\ x.at = "parents"
          /\ s[1].name = n => \A j \in DOMAIN Bases[a] :
                                j >= s[1].next /\ ParentNames(a)[j] = p => j >= x.next
      BY <1>3, <1>4, <1>9, <2>2, <2>3
    <2>5. Waits(t, n, p, a)
      BY <1>3, <2>4, WaitsReplaced
    <2>6. QED
      BY <2>3, <2>5
  <1>10. ASSUME NEW n \in Names, NEW p \in Names, Lacks(disk[c], n, p),
                Waits(s, n, p, disk[c][n].archive)
         PROVE  <<c, n, p>> \in skipped' \/ Waits(t, n, p, disk[c][n].archive)
    <2>1. CASE q \in DOMAIN disk[c]
      <3>1. t = <<y>> \o Tail(s) /\ p # q
        BY <1>1, <1>3, <1>10, <2>1 DEF PullParent, SkipParent, Lacks, y
      <3>2. QED
        BY <1>9, <1>10, <3>1
    <2>2. CASE q \notin DOMAIN disk[c] /\ q \in DOMAIN remote
      <3>1. t = <<Frame(q), y>> \o Tail(s)
        BY <1>1, <1>3, <2>2 DEF PullParent, CallParent, y
      <3>2. ASSUME s[1].name = n, NEW j \in DOMAIN Bases[disk[c][n].archive],
                   j >= s[1].next, ParentNames(disk[c][n].archive)[j] = p
            PROVE  j >= y.next \/ Frame(q).name = p
        <4>1. ParentNames(disk[c][n].archive) = Parents(c) /\ j \in 1..Len(Parents(c))
          BY <1>3, <1>5, <3>2
        <4>2. j = f.next \/ j >= f.next + 1
          BY <1>3, <1>4, <1>5, <3>2, <4>1
        <4>3. QED
          BY <1>4, <1>6, <1>7, <3>2, <4>1, <4>2
      <3>3. PICK a, x, z : a = disk[c][n].archive /\ x = Frame(q) /\ z = y
        OBVIOUS
      <3>4. /\ Waits(s, n, p, a) /\ x \in Frames /\ z \in Frames /\ t = <<x, z>> \o Tail(s)
            /\ z.name = s[1].name /\ z.at = "parents"
            /\ s[1].name = n => \A j \in DOMAIN Bases[a] :
                  j >= s[1].next /\ ParentNames(a)[j] = p => j >= z.next \/ x.name = p
        BY <1>3, <1>4, <1>7, <1>10, <3>1, <3>2, <3>3
      <3>5. Waits(t, n, p, a)
        BY <1>3, <3>4, WaitsCalled
      <3>6. QED
        BY <3>3, <3>5
    <2>3. CASE q \notin DOMAIN disk[c] /\ q \notin DOMAIN remote
      <3>1. t = <<y>> \o Tail(s) /\ skipped' = skipped \cup {<<c, f.name, q>>}
        BY <1>1, <1>3, <2>3 DEF PullParent, SkipParent, Warn, y
      <3>2. QED
        BY <1>9, <1>10, <3>1
    <2>4. QED
      BY <2>1, <2>2, <2>3
  <1>11. ClosesInv(c)'
    BY <1>1, <1>2, <1>3, <1>10, StillPending DEF ClientInv
  <1>12. QED
    BY <1>2, <1>3, <1>8, <1>11 DEF ClientInv, TodoInv, HeadersInv, Pulls

\* What a write that ended early leaves behind is charged to no pull.
LEMMA PullCutOffKeeps ==
  ASSUME Typed, NEW c \in Clients, ClientInv(c), PullCutOff(c)
  PROVE  ClientInv(c)'
  <1>1. /\ DOMAIN disk = Clients /\ DOMAIN command = Clients /\ DOMAIN todo = Clients
        /\ Directory(remote) /\ Top(c).name \in DOMAIN remote
    BY DEF PullCutOff, Typed
  <1>2. command'[c] = None /\ todo'[c] = {} /\ c \in failed'
    BY <1>1 DEF PullCutOff, Abort
  <1>3. PICK part \in {"cut", "stub"} :
           disk'[c] = With(disk[c], Top(c).name, File(remote[Top(c).name].archive, part))
    BY <1>1 DEF PullCutOff
  <1>4. File(remote[Top(c).name].archive, part) \in Files
    BY <1>1 DEF Directory, File, Files, Parts
  <1>5. (disk[c] \in [DOMAIN disk[c] -> Files])'
    BY <1>3, <1>4 DEF With, ClientInv
  <1>6. QED
    BY <1>2, <1>5 DEF ClientInv, TodoInv, HeadersInv, PullInv, ClosesInv, None, Pulls

-----------------------------------------------------------------------------
(* The other steps.                                                         *)

\* Where there is no pull, nothing is pending.
LEMMA AllSettled ==
  ASSUME Typed, NEW c \in Clients, ClientInv(c), command[c].op \notin Pulls \/ stack[c] = <<>>,
         disk'[c] = disk[c], skipped \subseteq skipped', c \notin failed' => c \notin failed
  PROVE  ClosesInv(c)'
  <1>1. \A n, p, a : stack[c] = <<>> => ~ Waits(stack[c], n, p, a)
    BY DEF Waits
  <1>2. QED
    BY <1>1 DEF ClientInv, ClosesInv, Settled, Pending

LEMMA StartLeaves ==
  ASSUME Typed, NEW c \in Clients, ClientInv(c), NEW cmd \in Commands \ {None},
         NEW calls \in Seq(Frames), NEW listing \in SUBSET (DOMAIN remote),
         calls = <<>> \/ \E n \in Names : calls = <<Frame(n)>>, Start(c, cmd, calls, listing)
  PROVE  ClientInv(c)'
  <1>1. /\ DOMAIN stack = Clients /\ DOMAIN command = Clients /\ DOMAIN seen = Clients
        /\ DOMAIN todo = Clients /\ stack[c] = <<>>
    BY DEF Typed, StackTyped, Start
  <1>2. /\ UNCHANGED <<disk, remote, skipped, failed>> /\ command'[c] = cmd /\ stack'[c] = calls
        /\ seen'[c] = {} /\ todo'[c] = listing
    BY <1>1 DEF Start
  <1>3. ClosesInv(c)'
    BY <1>1, <1>2, AllSettled
  <1>4. \A i \in DOMAIN calls : i = 1 /\ calls[i].at = "entry" /\ calls[i].next = 1
    BY DEF Frame
  <1>5. PullInv(c)' /\ HeadersInv(c)'
    BY <1>2, <1>4 DEF PullInv, Shape, Reached, HeadersInv, ClientInv
  <1>6. TodoInv(c)'
    BY <1>2 DEF TodoInv
  <1>7. QED
    BY <1>2, <1>3, <1>5, <1>6 DEF ClientInv

LEMMA NextListedKeeps ==
  ASSUME Typed, NEW c \in Clients, ClientInv(c), NextListed(c)
  PROVE  ClientInv(c)'
  <1>1. /\ DOMAIN stack = Clients /\ DOMAIN todo = Clients /\ command[c] = PullAll
        /\ stack[c] = <<>> /\ UNCHANGED <<disk, remote, command, seen, skipped, failed>>
        /\ command[c].op \in Pulls /\ command[c] # None /\ command[c].op # "push"
    BY DEF Typed, NextListed, PullAll, None, Pulls
  <1>2. PICK n \in todo[c] : /\ todo'[c] = todo[c] \ {n}
                             /\ stack'[c] = <<>> \/ stack'[c] = <<Frame(n)>>
    BY <1>1 DEF NextListed
  <1>3. ClosesInv(c)'
    BY <1>1, AllSettled
  <1>4. \A i \in DOMAIN stack'[c] : i = 1 /\ stack'[c][i].at = "entry" /\ stack'[c][i].next = 1
    BY <1>2 DEF Frame
  <1>5. seen[c] \subseteq DOMAIN disk[c]
    BY <1>1 DEF ClientInv, PullInv, Reached
  <1>6. PullInv(c)'
    BY <1>1, <1>4, <1>5 DEF PullInv, Shape, Reached
  <1>7. HeadersInv(c)' /\ TodoInv(c)'
    BY <1>1, <1>2 DEF HeadersInv, TodoInv, ClientInv
  <1>8. QED
    BY <1>1, <1>3, <1>6, <1>7 DEF ClientInv

LEMMA EndKeeps ==
  ASSUME Typed, NEW c \in Clients, ClientInv(c), Finish(c) \/ Fail(c)
  PROVE  ClientInv(c)'
  <1>1. /\ DOMAIN stack = Clients /\ DOMAIN todo = Clients /\ DOMAIN command = Clients
        /\ UNCHANGED <<disk, remote, skipped>> /\ failed \subseteq failed'
        /\ command'[c] = None /\ todo'[c] = {}
    BY DEF Typed, Finish, Fail, Abort
  <1>2. c \in failed' \/ stack[c] = <<>>
    BY DEF Finish, Fail, Abort
  <1>3. ClosesInv(c)'
    <2>1. CASE c \in failed'
      BY <2>1 DEF ClosesInv
    <2>2. CASE stack[c] = <<>>
      BY <1>1, <2>2, AllSettled
    <2>3. QED
      BY <1>2, <2>1, <2>2
  <1>4. QED
    BY <1>1, <1>3 DEF ClientInv, TodoInv, HeadersInv, PullInv, None, Pulls

\* A push looks into no archive without reading its header first, and uploads
\* what it looked into.
LEMMA PushLeaves ==
  ASSUME Typed, RemoteInv, NEW c \in Clients, ClientInv(c), PushInv(c), PushStep(c)
  PROVE  ClientInv(c)' /\ RemoteInv'
  <1>1. PICK at : In(c, {"push"}, at)
    BY DEF PushStep, PushEntry, PushParent, PushUpload
  <1>2. PICK s, t, dir : s = stack[c] /\ t = stack'[c] /\ dir = disk[c]
    OBVIOUS
  <1>3. /\ command[c].op = "push" /\ s \in Seq(Frames) /\ s # <<>>
        /\ Len(s) \in Nat \ {0} /\ DOMAIN s = 1..Len(s)
        /\ Top(c) = s[1] /\ Top(c) = Head(s) /\ Top(c).name \in DOMAIN dir
        /\ Top(c) \in Frames /\ Top(c).name \in Names
        /\ DOMAIN disk = Clients /\ DOMAIN stack = Clients
    BY <1>1, <1>2, TopFacts, CallFacts DEF Top
  <1>4. /\ disk' = disk /\ DOMAIN remote \subseteq DOMAIN remote' /\ skipped \subseteq skipped'
        /\ command' = command /\ failed' = failed /\ todo' = todo
    <2>1. command' = command /\ failed' = failed /\ todo' = todo
      BY DEF PushStep, PushEntry, PushParent, PushUpload
    <2>2. QED
      BY <2>1, TypedPush
  <1>5. command[c].op \notin Pulls /\ command[c] # None
    BY <1>3 DEF Pulls, None
  <1>6. \A i \in DOMAIN s : s[i].at = "parents" => HasHeader(dir[s[i].name])
    BY <1>2, <1>3 DEF ClientInv, HeadersInv
  <1>7. 1 \in DOMAIN s
    BY <1>3
  <1>8. ASSUME t = Tail(s), NEW i \in DOMAIN t, t[i].at = "parents"
        PROVE  HasHeader(dir[t[i].name])
    <2>1. t[i] = s[i+1] /\ i + 1 \in DOMAIN s
      BY <1>3, <1>8, Popped
    <2>2. QED
      BY <1>6, <1>8, <2>1
  <1>9. ASSUME NEW x \in Frames, t = <<x>> \o Tail(s), HasHeader(dir[x.name]),
               NEW i \in DOMAIN t, t[i].at = "parents"
        PROVE  HasHeader(dir[t[i].name])
    <2>1. DOMAIN t = DOMAIN s /\ t[1] = x /\ (i > 1 => t[i] = s[i])
      BY <1>3, <1>9, Replaced
    <2>2. i = 1 \/ i > 1
      BY <1>3, <1>9, <2>1
    <2>3. QED
      BY <1>6, <1>9, <2>1, <2>2
  <1>10. ASSUME NEW x \in Frames, NEW y \in Frames, t = <<x, y>> \o Tail(s), x.at = "entry",
                HasHeader(dir[y.name]), NEW i \in DOMAIN t, t[i].at = "parents"
         PROVE  HasHeader(dir[t[i].name])
    <2>1. /\ DOMAIN t = 1..(Len(s) + 1) /\ t[1] = x /\ t[2] = y
          /\ (i > 2 => t[i] = s[i-1])
      BY <1>3, <1>10, Called
    <2>2. CASE i = 2
      BY <1>10, <2>1, <2>2
    <2>3. CASE i > 2
      <3>1. i - 1 \in DOMAIN s
        BY <1>3, <2>1, <2>3
      <3>2. QED
        BY <1>6, <1>10, <2>1, <2>3, <3>1
    <2>4. i # 1
      BY <1>10, <2>1
    <2>5. QED
      BY <1>3, <2>1, <2>2, <2>3, <2>4
  <1>11. \A i \in DOMAIN t : t[i].at = "parents" => HasHeader(dir[t[i].name])
    <2>1. CASE PushEntry(c)
      <3>1. CASE t = Tail(s)
        BY <1>8, <3>1
      <3>2. CASE t # Tail(s)
        <4>1. HasHeader(dir[Top(c).name]) /\ t = <<At(Top(c), "parents")>> \o Tail(s)
          BY <1>2, <1>3, <2>1, <3>2 DEF PushEntry, Goto, Return, TopFile
        <4>2. At(Top(c), "parents") \in Frames /\ At(Top(c), "parents").name = Top(c).name
          BY <1>3 DEF At, Frames
        <4>3. QED
          BY <1>9, <4>1, <4>2
      <3>3. QED
        BY <3>1, <3>2
    <2>2. CASE PushParent(c)
      <3>1. HasHeader(dir[Top(c).name])
        BY <1>3, <1>6, <1>7, <2>2 DEF PushParent, In
      <3>2. /\ Advanced(Top(c)) \in Frames /\ Advanced(Top(c)).name = Top(c).name
        BY <1>3 DEF Advanced, Frames
      <3>3. CASE Parent(c) \in DOMAIN dir
        <4>1. Parent(c) \in Names
          BY <1>2, <3>3 DEF Typed, Directory
        <4>2. Frame(Parent(c)) \in Frames /\ Frame(Parent(c)).at = "entry"
          BY <4>1 DEF Frame, Frames
        <4>3. t = <<Frame(Parent(c)), Advanced(Top(c))>> \o Tail(s)
          BY <1>2, <1>3, <2>2, <3>3 DEF PushParent, CallParent
        <4>4. QED
          BY <1>10, <3>1, <3>2, <4>2, <4>3
      <3>4. CASE Parent(c) \notin DOMAIN dir
        <4>1. t = <<Advanced(Top(c))>> \o Tail(s)
          BY <1>2, <1>3, <2>2, <3>4 DEF PushParent, SkipParent
        <4>2. QED
          BY <1>9, <3>1, <3>2, <4>1
      <3>5. QED
        BY <3>3, <3>4
    <2>3. CASE PushUpload(c)
      <3>1. t = Tail(s)
        BY <1>2, <1>3, <2>3 DEF PushUpload, Return
      <3>2. QED
        BY <1>8, <3>1
    <2>4. QED
      BY <2>1, <2>2, <2>3 DEF PushStep
  <1>12. ClosesInv(c)'
    BY <1>4, <1>5, AllSettled
  <1>13. TodoInv(c)' /\ HeadersInv(c)' /\ PullInv(c)'
    BY <1>2, <1>4, <1>5, <1>11 DEF TodoInv, HeadersInv, PullInv, ClientInv
  <1>14. RemoteInv'
    <2>1. CASE PushUpload(c)
      <3>1. remote' = With(remote, Top(c).name, TopFile(c)) /\ Top(c).at = "parents"
        BY <2>1 DEF PushUpload, In
      <3>2. TopFile(c) = dir[Top(c).name] /\ TopFile(c) \in Files /\ HasHeader(TopFile(c))
        BY <1>2, <1>3, <1>6, <1>7, <3>1 DEF TopFile, Typed, Directory
      <3>3. QED
        BY <3>1, <3>2 DEF With, RemoteInv
    <2>2. CASE remote' = remote
      BY <2>2 DEF RemoteInv
    <2>3. QED
      BY <2>1, <2>2 DEF PushStep, PushEntry, PushParent
  <1>15. QED
    BY <1>4, <1>12, <1>13, <1>14 DEF ClientInv

-----------------------------------------------------------------------------
(* The theorems on pulls.                                                   *)

\* A step of a client's own.
LEMMA OwnStep ==
  ASSUME Typed, RemoteInv, NEW c \in Clients, ClientInv(c), PushInv(c),
         PushStep(c) \/ OtherStep(c)
  PROVE  ClientInv(c)' /\ RemoteInv'
  <1>1. CASE PushStep(c)
    BY <1>1, PushLeaves
  <1>2. ASSUME OtherStep(c)
        PROVE  RemoteInv'
    <2>1. remote' = remote
      BY <1>2 DEF OtherStep, StartPush, StartPull, StartPullAll, Start, NextListed, Finish, Fail,
                  PullStep, PullEntry, PullDownload, PullParent, PullReturn, PullCutOff
    <2>2. QED
      BY <2>1 DEF RemoteInv
  <1>3. ASSUME \E n \in Names : StartPush(c, n) \/ StartPull(c, n)
        PROVE  ClientInv(c)'
    <2>1. PICK n \in Names : StartPush(c, n) \/ StartPull(c, n)
      BY <1>3
    <2>2. /\ <<Frame(n)>> \in Seq(Frames) /\ Push(n) \in Commands \ {None}
          /\ Pull(n) \in Commands \ {None} /\ {} \in SUBSET (DOMAIN remote)
      BY DEF Frame, Frames, Commands, Push, Pull, None
    <2>3. QED
      BY <2>1, <2>2, StartLeaves DEF StartPush, StartPull
  <1>4. ASSUME StartPullAll(c)
        PROVE  ClientInv(c)'
    <2>1. PullAll \in Commands \ {None} /\ <<>> \in Seq(Frames)
      BY DEF Commands, PullAll, None
    <2>2. QED
      BY <1>4, <2>1, StartLeaves DEF StartPullAll
  <1>5. ASSUME NextListed(c)
        PROVE  ClientInv(c)'
    BY <1>5, NextListedKeeps
  <1>6. ASSUME Finish(c) \/ Fail(c)
        PROVE  ClientInv(c)'
    BY <1>6, EndKeeps
  <1>7. ASSUME PullCutOff(c)
        PROVE  ClientInv(c)'
    BY <1>7, PullCutOffKeeps
  <1>8. ASSUME PullStep(c)
        PROVE  ClientInv(c)'
    BY <1>8, PullEntryKeeps, PullDownloadKeeps, PullParentKeeps, PullReturnKeeps DEF PullStep
  <1>9. QED
    BY <1>1, <1>2, <1>3, <1>4, <1>5, <1>6, <1>7, <1>8 DEF OtherStep

\* It touches nothing of another client.
LEMMA OthersUntouched ==
  ASSUME Typed, NEW c \in Clients, PushStep(c) \/ OtherStep(c), PushInv(c), Delivered,
         NEW d \in Clients \ {c}
  PROVE  /\ disk'[d] = disk[d] /\ command'[d] = command[d] /\ stack'[d] = stack[d]
         /\ seen'[d] = seen[d] /\ todo'[d] = todo[d] /\ failed' \cap {d} = failed \cap {d}
         /\ DOMAIN remote \subseteq DOMAIN remote' /\ skipped \subseteq skipped'
  <1>1. /\ DOMAIN disk = Clients /\ DOMAIN command = Clients /\ DOMAIN stack = Clients
        /\ DOMAIN seen = Clients /\ DOMAIN todo = Clients
    BY DEF Typed
  <1>2. CASE OtherStep(c)
    <2>1. Quiet(c)
      BY <1>2, OtherKeeps
    <2>2. todo'[d] = todo[d] /\ failed' \cap {d} = failed \cap {d}
      BY <1>1, <1>2 DEF OtherStep, StartPush, StartPull, StartPullAll, Start, NextListed, Finish,
         Fail, Abort, PullStep, PullEntry, PullDownload, PullParent, PullReturn, PullCutOff
    <2>3. QED
      BY <2>1, <2>2 DEF Quiet
  <1>3. CASE PushStep(c)
    <2>1. disk' = disk /\ DOMAIN remote \subseteq DOMAIN remote' /\ skipped \subseteq skipped'
      BY <1>3, TypedPush
    <2>2. /\ UNCHANGED <<command, todo, failed>> /\ stack'[d] = stack[d] /\ seen'[d] = seen[d]
      BY <1>1, <1>3 DEF PushStep, PushEntry, PushParent, PushUpload, Return, Goto, SkipParent,
                        CallParent
    <2>3. QED
      BY <2>1, <2>2
  <1>4. QED
    BY <1>2, <1>3

LEMMA PullsInit == Init => PullsInv
  <1> SUFFICES ASSUME Init PROVE PullsInv
    OBVIOUS
  <1>1. RemoteInv
    BY DEF Init, RemoteInv
  <1>2. ASSUME NEW c \in Clients
        PROVE  ClientInv(c)
    <2>1. /\ disk[c] = FirstDir(c) /\ command[c] = None /\ stack[c] = <<>> /\ todo[c] = {}
      BY DEF Init
    <2>2. \A n \in DOMAIN FirstDir(c) : FirstDir(c)[n].part = "whole"
      BY DEF FirstDir, File
    <2>3. disk[c] \in [DOMAIN disk[c] -> Files]
      <3>1. \A n \in DOMAIN FirstDir(c) : FirstDir(c)[n] \in Files
        BY <2>1, TypedInit DEF Typed, Directory
      <3>2. FirstDir(c) = [n \in DOMAIN FirstDir(c) |-> FirstDir(c)[n]]
        BY DEF FirstDir
      <3>3. QED
        BY <2>1, <3>1, <3>2
    <2>4. HeadersInv(c)
      BY <2>1, <2>2 DEF HeadersInv, HasHeader, None
    <2>5. PullInv(c) /\ TodoInv(c)
      BY <2>1 DEF PullInv, TodoInv, None, Pulls
    <2>6. ClosesInv(c)
      BY <2>1 DEF ClosesInv, Settled
    <2>7. QED
      BY <2>3, <2>4, <2>5, <2>6 DEF ClientInv
  <1>3. disk = [c \in Clients |-> disk[c]]
    BY DEF Init
  <1>4. QED
    BY <1>1, <1>2, <1>3 DEF PullsInv

\* What every directory lacks, and who waits for it, in every run.
THEOREM PullsInvariance == Spec => []PullsInv
  <1>1. IInv /\ PullsInv /\ [Next]_vars => PullsInv'
    <2> SUFFICES ASSUME IInv, PullsInv, [Next]_vars PROVE PullsInv'
      OBVIOUS
    <2>1. /\ Typed /\ (\A c \in Clients : PushInv(c)) /\ Delivered
          /\ RemoteInv /\ (\A c \in Clients : ClientInv(c)) /\ disk = [c \in Clients |-> disk[c]]
      BY DEF IInv, PushSound, PullsInv
    <2>2. ASSUME NEW c \in Clients, PushStep(c) \/ OtherStep(c)
          PROVE  PullsInv'
      <3>1. ClientInv(c)' /\ RemoteInv'
        BY <2>1, <2>2, OwnStep
      <3>2. ASSUME NEW d \in Clients \ {c}
            PROVE  ClientInv(d)'
        <4>1. /\ disk'[d] = disk[d] /\ command'[d] = command[d] /\ stack'[d] = stack[d]
              /\ seen'[d] = seen[d] /\ todo'[d] = todo[d] /\ failed' \cap {d} = failed \cap {d}
              /\ DOMAIN remote \subseteq DOMAIN remote' /\ skipped \subseteq skipped'
          BY <2>1, <2>2, OthersUntouched
        <4>2. d \in Clients /\ ClientInv(d)
          BY <2>1
        <4>3. QED
          BY <4>1, <4>2, Remain
      <3>3. disk' = disk \/ \E dir : disk' = [disk EXCEPT ![c] = dir]
        BY <2>2 DEF PushStep, PushEntry, PushParent, PushUpload, OtherStep, StartPush, StartPull,
           StartPullAll, Start, NextListed, Finish, Fail, PullStep, PullEntry, PullDownload,
           PullParent, PullReturn, PullCutOff
      <3>4. (disk = [d \in Clients |-> disk[d]])'
        <4>1. CASE disk' = disk
          BY <2>1, <4>1
        <4>2. CASE \E dir : disk' = [disk EXCEPT ![c] = dir]
          BY <2>1, <4>2
        <4>3. QED
          BY <3>3, <4>1, <4>2
      <3>5. QED
        BY <3>1, <3>2, <3>4 DEF PullsInv
    <2>3. CASE UNCHANGED vars
      <3>1. \A c \in Clients : ClientInv(c)'
        BY <2>1, <2>3, Remain DEF vars
      <3>2. RemoteInv'
        BY <2>1, <2>3 DEF vars, RemoteInv
      <3>3. disk' = [c \in Clients |-> disk'[c]]
        BY <2>1, <2>3 DEF vars
      <3>4. QED
        BY <3>1, <3>2, <3>3 DEF PullsInv
    <2>4. QED
      BY <2>2, <2>3 DEF Next, Done, Client, PushStep, OtherStep, PullStep
  <1>2. QED
    BY <1>1, PullsInit, Invariance, PTL DEF Spec

\* Pairs that dangle are an archive and a parent it lacks.
LEMMA DanglingLacks ==
  ASSUME NEW dir, Directory(dir)
  PROVE  /\ \A e \in Dangling(dir) : e = <<e[1], e[2]>> /\ Lacks(dir, e[1], e[2])
                                    /\ e[1] \in Names /\ e[2] \in Names
         /\ \A n, p : Lacks(dir, n, p) => <<n, p>> \in Dangling(dir)
  <1> DEFINE names(n) == { ParentNames(dir[n].archive)[i] : i \in DOMAIN Bases[dir[n].archive] }
             of(n) == { <<n, p>> : p \in names(n) \ DOMAIN dir }
  <1>1. Dangling(dir) = UNION { of(n) : n \in DOMAIN dir }
    BY DEF Dangling
  <1>2. ASSUME NEW e \in Dangling(dir)
        PROVE  e = <<e[1], e[2]>> /\ Lacks(dir, e[1], e[2]) /\ e[1] \in Names /\ e[2] \in Names
    <2>1. PICK n \in DOMAIN dir : e \in of(n)
      BY <1>1, <1>2
    <2>2. PICK p \in names(n) \ DOMAIN dir : e = <<n, p>>
      BY <2>1
    <2>3. PICK i \in DOMAIN Bases[dir[n].archive] : p = ParentNames(dir[n].archive)[i]
      BY <2>2
    <2>4. n \in Names /\ dir[n].archive \in Archives
      BY <2>1 DEF Directory, Files
    <2>5. p \in Names
      BY <2>3, <2>4, ParentFacts
    <2>6. QED
      BY <2>1, <2>2, <2>3, <2>4, <2>5 DEF Lacks
  <1>3. ASSUME NEW n, NEW p, Lacks(dir, n, p)
        PROVE  <<n, p>> \in Dangling(dir)
    <2>1. n \in DOMAIN dir /\ p \in names(n) \ DOMAIN dir
      BY <1>3 DEF Lacks
    <2>2. <<n, p>> \in of(n)
      BY <2>1
    <2>3. QED
      BY <1>1, <2>1, <2>2
  <1>4. QED
    BY <1>2, <1>3

\* For any clients and archives, whatever is cut off, and whoever pushes in
\* between: a pull that ends leaves no archive without a parent, but for those
\* that lacked it at the start and those the pull warned of.
THEOREM PullClosesCorrect == Spec => []PullCloses
  <1>1. IInv /\ PullsInv => PullCloses
    <2> SUFFICES ASSUME IInv, PullsInv, NEW c \in Clients \ failed, command[c] = None,
                        NEW e \in Dangling(disk[c])
                 PROVE  e \in Dangling(FirstDir(c)) \/ <<c, e[1], e[2]>> \in skipped
      BY DEF PullCloses
    <2>1. Directory(disk[c]) /\ ClosesInv(c) /\ command[c].op \notin Pulls
      BY DEF IInv, Typed, PullsInv, ClientInv, None, Pulls
    <2>2. e = <<e[1], e[2]>> /\ Lacks(disk[c], e[1], e[2]) /\ e[1] \in Names /\ e[2] \in Names
      BY <2>1, DanglingLacks
    <2>3. Lacks(FirstDir(c), e[1], e[2]) \/ <<c, e[1], e[2]>> \in skipped
      BY <2>1, <2>2 DEF ClosesInv, Settled, Pending
    <2>4. Lacks(FirstDir(c), e[1], e[2]) => <<e[1], e[2]>> \in Dangling(FirstDir(c))
      <3> DEFINE n == e[1]
                 p == e[2]
                 dir == FirstDir(c)
      <3> SUFFICES ASSUME Lacks(dir, n, p) PROVE <<n, p>> \in Dangling(dir)
        OBVIOUS
      <3>1. QED
        BY DEF Lacks, Dangling
    <2>5. QED
      BY <2>2, <2>3, <2>4
  <1>2. QED
    BY <1>1, Invariance, PullsInvariance, PTL

\* Directories and the remote hold files, the remote's with their headers; a
\* call that looks at parents has its archive on the disk; and a pull lists
\* what is on the remote.
THEOREM TypeCorrect == Spec => []TypeOK
  <1>1. IInv /\ PullsInv => TypeOK
    <2> SUFFICES ASSUME IInv, PullsInv PROVE TypeOK
      OBVIOUS
    <2>1. /\ Typed /\ (\A c \in Clients : PushInv(c)) /\ RemoteInv
          /\ (\A c \in Clients : ClientInv(c)) /\ disk = [c \in Clients |-> disk[c]]
      BY DEF IInv, PullsInv
    <2>2. ASSUME NEW dir, dir \in [DOMAIN dir -> Files], Directory(dir)
          PROVE  dir \in UNION { [N -> Files] : N \in SUBSET Names }
      <3>1. DOMAIN dir \in SUBSET Names
        BY <2>2 DEF Directory
      <3>2. QED
        BY <2>2, <3>1
    <2>3. disk \in [Clients -> UNION { [N -> Files] : N \in SUBSET Names }]
      <3>1. \A c \in Clients : disk[c] \in UNION { [N -> Files] : N \in SUBSET Names }
        BY <2>1, <2>2 DEF Typed, ClientInv
      <3>2. QED
        BY <2>1, <3>1
    <2>4. /\ remote \in UNION { [N -> Files] : N \in SUBSET Names }
          /\ \A n \in DOMAIN remote : HasHeader(remote[n])
      BY <2>1, <2>2 DEF Typed, RemoteInv
    <2>5. ASSUME NEW c \in Clients
          PROVE  /\ \A i \in DOMAIN stack[c] :
                      /\ stack[c][i].name \in Names /\ stack[c][i].next \in Nat \ {0}
                      /\ stack[c][i].at = "parents" => stack[c][i].name \in DOMAIN disk[c]
                 /\ command[c] = None => stack[c] = <<>> /\ todo[c] = {}
                 /\ todo[c] \subseteq DOMAIN remote
      <3>1. /\ stack[c] \in Seq(Frames) /\ command[c] \in Commands
            /\ (command[c] = None => stack[c] = <<>>) /\ PushInv(c) /\ ClientInv(c)
        BY <2>1 DEF Typed, StackTyped
      <3>2. ASSUME NEW i \in DOMAIN stack[c]
            PROVE  /\ stack[c][i].name \in Names /\ stack[c][i].next \in Nat \ {0}
                   /\ stack[c][i].at = "parents" => stack[c][i].name \in DOMAIN disk[c]
        <4>1. stack[c] # <<>> /\ stack[c][i] \in Frames
          BY <3>1, <3>2
        <4>2. command[c].op = "push" \/ command[c].op \in Pulls
          BY <3>1, <4>1 DEF Commands, Push, Pull, PullAll, Pulls
        <4>3. CASE command[c].op = "push"
          BY <3>1, <3>2, <4>1, <4>3 DEF PushInv, FrameInv, Frames
        <4>4. CASE command[c].op \in Pulls
          BY <3>1, <3>2, <4>1, <4>4 DEF ClientInv, PullInv, Shape, Frames
        <4>5. QED
          BY <4>2, <4>3, <4>4
      <3>3. QED
        BY <3>1, <3>2 DEF ClientInv, TodoInv
    <2>6. QED
      BY <2>3, <2>4, <2>5 DEF TypeOK
  <1>2. QED
    BY <1>1, Invariance, PullsInvariance, PTL

===============================================================================
