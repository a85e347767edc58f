-------------------------------- MODULE TarFs --------------------------------
(***************************************************************************)
(* Files: init_tarfs and parse of sys/tarfs.c, which turn the archive that *)
(* is linked into the kernel into the table root, and the open, readdir    *)
(* and read calls of sys/syscall.c on that table and on the descriptors of *)
(* a process.                                                              *)
(*                                                                         *)
(* The archive is a sequence of blocks of BlockSize bytes.  A member has a *)
(* header block and its data behind it; where the next header is follows   *)
(* from the size alone.  Names are sequences of characters, because parse  *)
(* finds the directory of a member by looking for a slash, from a position *)
(* that is meant for the names of directories, which end in one.           *)
(*                                                                         *)
(* Archives are as the Makefile makes them: directories come before what   *)
(* is in them, and tar puts one member behind the other.  Names at the top *)
(* have three characters or more; with fewer the search for a slash runs   *)
(* out of the name at the front.                                           *)
(***************************************************************************)
EXTENDS Integers, Sequences

CONSTANTS Archives,      \* the archives to consider: members, and their blocks
          Char,          \* the characters of names
          BlockSize,     \* 512
          MaxFd          \* 30

VARIABLES archive,               \* what is linked into the kernel
          start,                 \* of init_tarfs: the block it looks at
          root,                  \* root[1 .. t_index - 1]
          fd,                    \* for each process; fd[p][MaxFd] is the word
                                 \* behind the table, wait_on_childpid
          opened                 \* history: the name open was given

tarVars == <<archive, start, root, fd, opened>>
files == <<archive, start, root>>

member == archive.member
image == archive.block

Process == {"shell", "command"}
Name == Seq(Char)
Member == [name : Name, dir : BOOLEAN, size : Nat]

Last(s) == s[Len(s)]

\* name is directly in the directory dir, whose name ends in a slash (or is
\* empty, for the top): one component more, and perhaps a slash at the end.
DirectlyIn(name, dir) ==
  LET rest == SubSeq(name, Len(dir) + 1, Len(name)) IN
  /\ Len(name) > Len(dir) /\ SubSeq(name, 1, Len(dir)) = dir
  /\ rest[1] # "/" /\ \A k \in 1 .. Len(rest) - 1 : rest[k] # "/"

WellFormed(ar) ==
  /\ ar \in Seq(Member)
  /\ \A i \in 1 .. Len(ar) :
       /\ ar[i].name # <<>> /\ (ar[i].dir <=> Last(ar[i].name) = "/")
       /\ ar[i].dir => ar[i].size = 0
       /\ \A j \in 1 .. i - 1 : ar[j].name # ar[i].name
       /\ \/ DirectlyIn(ar[i].name, <<>>) /\ Len(ar[i].name) >= 3
          \/ \E j \in 1 .. i - 1 : ar[j].dir /\ DirectlyIn(ar[i].name, ar[j].name)

\* tar: the header of each member and its data, then a block without magic.
LaidOut(ar) ==
  LET n == Len(ar.member)
      data(i) == (ar.member[i].size + BlockSize - 1) \div BlockSize IN
  /\ ar.header \in Seq(Nat) /\ Len(ar.header) = n + 1 /\ ar.header[1] = 1
  /\ \A i \in 1 .. n :
       /\ ar.header[i + 1] = ar.header[i] + 1 + data(i)
       /\ ar.block[ar.header[i]] = [kind |-> "header", member |-> i]
       /\ \A b \in ar.header[i] + 1 .. ar.header[i + 1] - 1 :
            ar.block[b] = [kind |-> "data", member |-> i]
  /\ ar.block[ar.header[n + 1]] = [kind |-> "end", member |-> 0]

ASSUME ArchiveAssumption ==
  /\ BlockSize \in Nat \ {0} /\ MaxFd \in Nat /\ MaxFd > 3
  /\ \A ar \in Archives : WellFormed(ar.member) /\ LaidOut(ar)

Node == [name : Name, dir : BOOLEAN, size : Nat, start : Nat, parent : Nat]

TarTypeOK ==
  /\ archive \in Archives /\ start \in Nat
  /\ root \in Seq(Node)
  /\ fd \in [Process -> [0 .. MaxFd -> -1 .. Len(root)]]
  /\ opened \in [Process -> [0 .. MaxFd -> Name]]

TarInit ==
  /\ archive \in Archives
  /\ start = 1 /\ root = <<>>
  /\ fd = [p \in Process |-> [n \in 0 .. MaxFd |-> IF n = MaxFd THEN -1 ELSE 0]]
  /\ opened = [p \in Process |-> [n \in 0 .. MaxFd |-> <<>>]]
------------------------------------------------------------------------------
\* The blocks of data that are passed over.
RoundedUp(size) == IF size % BlockSize # 0 THEN (size \div BlockSize) + 1 ELSE size \div BlockSize

\* Mutant: the search begins at the last character.
Slashes_Last(name) == {k \in 2 .. Len(name) : name[k] = "/"}

\* parse looks for a slash from the last character but one (start == FILE is
\* never true) down to the second.
Slashes(name) == {k \in 2 .. Len(name) - 1 : name[k] = "/"}

\* The directory a name is cut to.
Cut(name) == SubSeq(name, 1, CHOOSE k \in Slashes(name) : \A j \in Slashes(name) : j <= k)

\* parse: the first node with the directory's name is the parent; without one
\* the member is left out.
Parse(m, at) ==
  LET node(j) == [name |-> m.name, dir |-> m.dir, size |-> m.size, start |-> at, parent |-> j]
      parents == {j \in 1 .. Len(root) : root[j].name = Cut(m.name)}
  IN  IF Slashes(m.name) = {} THEN root' = Append(root, node(0))
      ELSE IF parents = {} THEN UNCHANGED root
      ELSE \E j \in parents : /\ \A k \in parents : j <= k
                              /\ root' = Append(root, node(j))

\* A round of init_tarfs.
InitTarfs ==
  /\ image[start].kind = "header"
  /\ LET m == member[image[start].member] IN
     /\ Parse(m, start)
     /\ start' = start + 1 + RoundedUp(m.size)
  /\ UNCHANGED <<archive, fd, opened>>

Up == image[start].kind = "end"
------------------------------------------------------------------------------
\* Mutant: with a full table the last descriptor is taken.
FreeFd_Last(p) ==
  IF \A n \in 3 .. MaxFd - 1 : fd[p][n] # 0 THEN MaxFd - 1
  ELSE CHOOSE n \in 3 .. MaxFd - 1 : fd[p][n] = 0 /\ \A k \in 3 .. n - 1 : fd[p][k] # 0

\* The loop over the descriptors: MaxFd when all are in use.
FreeFd(p) ==
  IF \A n \in 3 .. MaxFd - 1 : fd[p][n] # 0 THEN MaxFd
  ELSE CHOOSE n \in 3 .. MaxFd - 1 : fd[p][n] = 0 /\ \A k \in 3 .. n - 1 : fd[p][k] # 0

\* openSyscall with mode 0.  The word is stored before the limit is tested.
Open(p, i) ==
  /\ Up /\ ~ root[i].dir
  /\ \A j \in 1 .. i - 1 : root[j].name # root[i].name
  /\ fd' = [fd EXCEPT ![p][FreeFd(p)] = i]
  /\ opened' = (IF FreeFd(p) < MaxFd THEN [opened EXCEPT ![p][FreeFd(p)] = root[i].name] ELSE opened)
  /\ UNCHANGED files

\* openSyscall with mode 4: the number of a directory, 0 for the top and -1
\* when there is none.  A slash is added to the path.
OpenDir(path) ==
  LET name == IF Last(path) # "/" THEN Append(path, "/") ELSE path
      found == {i \in 1 .. Len(root) : root[i].name = name /\ root[i].dir}
  IN  IF path = <<"/">> THEN 0
      ELSE IF found = {} THEN -1
      ELSE CHOOSE i \in found : \A j \in found : i <= j

\* readdirSyscall: the names it prints, without the name of the directory.
Readdir(dir) ==
  LET len == IF dir = 0 THEN 0 ELSE Len(root[dir].name) IN
  {SubSeq(root[i].name, len + 1, Len(root[i].name)) : i \in {k \in 1 .. Len(root) : root[k].parent = dir}}

\* Mutant: the header is not passed over.
FileStart_Header(node) == node.start

\* readSyscall: where it copies from.
FileStart(node) == node.start + 1

\* Mutant: a last partial block is not passed over.
RawNext_Down(b) == b + 1 + member[image[b].member].size \div BlockSize

\* getFile, isFile and isDir walk the archive again, each with a rounding of
\* its own.
RawNext(b) ==
  LET size == member[image[b].member].size
      rounded == IF size % BlockSize # 0 THEN ((size \div BlockSize) * BlockSize) + BlockSize ELSE size
  IN  b + 1 + rounded \div BlockSize

\* Where that walk is after k rounds: it stops at the block without magic.
RawAt[k \in 0 .. Len(member)] ==
  IF k = 0 THEN 1
  ELSE IF image[RawAt[k - 1]].kind = "header" THEN RawNext(RawAt[k - 1]) ELSE RawAt[k - 1]

RawWalk == {RawAt[k] : k \in 0 .. Len(member)}

\* The header a name is found at, or 0.  The first one counts.
RawFind(name) ==
  LET hits == {b \in RawWalk : image[b].kind = "header" /\ member[image[b].member].name = name}
  IN  IF hits = {} THEN 0 ELSE CHOOSE b \in hits : \A c \in hits : b <= c

\* getFile, for execve, and isDir, for chdir.
GetFile(name) == IF RawFind(name) = 0 THEN 0 ELSE RawFind(name) + 1

IsDir(name) == RawFind(name) # 0 /\ member[image[RawFind(name)].member].dir

\* forkSyscall copies the table, execveSyscall starts with an empty one.
Fork ==
  /\ Up
  /\ fd' = [fd EXCEPT !["command"] = [fd["shell"] EXCEPT ![MaxFd] = -1]]
  /\ opened' = [opened EXCEPT !["command"] = opened["shell"]]
  /\ UNCHANGED files

Execve ==
  /\ Up
  /\ fd' = [fd EXCEPT !["command"] = [n \in 0 .. MaxFd |-> IF n = MaxFd THEN -1 ELSE 0]]
  /\ opened' = [opened EXCEPT !["command"] = [n \in 0 .. MaxFd |-> <<>>]]
  /\ UNCHANGED files

TarNext == \/ InitTarfs \/ Fork \/ Execve
           \/ \E p \in Process, i \in 1 .. Len(root) : Open(p, i)

TarSpec == TarInit /\ [][TarNext]_tarVars
------------------------------------------------------------------------------
\* What ls shows of a directory, given with or without its slash, is what the
\* archive has directly in it, and all of it: parse, open and readdir agree on
\* where a name is cut.
LsShowsChildren ==
  Up => LET children(dir) == {m \in {member[i] : i \in 1 .. Len(member)} : DirectlyIn(m.name, dir)}
            rest(m, dir) == SubSeq(m.name, Len(dir) + 1, Len(m.name))
        IN  /\ Readdir(OpenDir(<<"/">>)) = {m.name : m \in children(<<>>)}
            /\ \A i \in {k \in 1 .. Len(member) : member[k].dir} :
                 LET dir == member[i].name IN
                 /\ Readdir(OpenDir(dir)) = {rest(m, dir) : m \in children(dir)}
                 /\ OpenDir(SubSeq(dir, 1, Len(dir) - 1)) = OpenDir(dir)

\* The two ways to look up a name agree: execve loads the file that open and read
\* give for the name, and chdir accepts the directories ls can show.
LookupsAgree ==
  Up => \A i \in 1 .. Len(member) :
          LET name == member[i].name IN
          IF member[i].dir THEN IsDir(name) /\ OpenDir(name) # -1
          ELSE \E k \in 1 .. Len(root) : root[k].name = name /\ GetFile(name) = FileStart(root[k])

\* A descriptor reads the data of the file it was opened for, in the process
\* that opened it and in the one that inherited it.
ReadsOwnData ==
  \A p \in Process, n \in 3 .. MaxFd - 1 :
    fd[p][n] # 0 =>
      LET node == root[fd[p][n]] IN
      /\ node.name = opened[p][n]
      /\ node.size > 0 => /\ image[FileStart(node)].kind = "data"
                          /\ member[image[FileStart(node)].member].name = opened[p][n]

\* Opening a file leaves the other descriptors of all processes alone, with a
\* full table, too.
DescriptorsStay ==
  [][\A p \in Process, i \in 1 .. Len(root) :
       Open(p, i) => \A q \in Process, n \in 0 .. MaxFd - 1 :
                       fd[q][n] # 0 => fd'[q][n] = fd[q][n]]_tarVars
==============================================================================
