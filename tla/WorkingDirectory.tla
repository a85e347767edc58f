--------------------------- MODULE WorkingDirectory ---------------------------
(***************************************************************************)
(* The working directory of the shell: cd of libc/cd.c, what sbush.c makes *)
(* of its result, chdirSyscall, and the path on which bin/ls opens pwd.    *)
(*                                                                         *)
(* cd asks split for one component after the other.  It ends when the path *)
(* ends in two slashes, and because split appends one at every call that is*)
(* after the second component at the latest.                               *)
(*                                                                         *)
(* A path is a sequence of symbols: slashes, names, "." and "..".  The     *)
(* lengths of names matter in one place: the comparison with "rootfs"      *)
(* starts behind its last letter, so that any name of six letters is equal.*)
(*                                                                         *)
(* The cd branch is part of the shell's loop: module Shell calls BeginCd   *)
(* and goes on at "end".                                                   *)
(***************************************************************************)
EXTENDS CString, SequencesExt

Slash == "/"

CONSTANTS Symbol,        \* what strings are made of
          Dirs,          \* directories below rootfs, as sequences of names
          SixLetters     \* names of six letters

ASSUME TreeAssumption ==
  /\ {Zero, Slash, "rootfs"} \subseteq Symbol
  /\ Dirs \subseteq Seq(Symbol \ {Zero, Slash}) /\ <<"bin">> \in Dirs
  /\ \A d \in Dirs : d # <<>> => Front(d) \in Dirs
  /\ "rootfs" \in SixLetters /\ Zero \notin SixLetters

VARIABLES pc,            \* where the shell is
          pwd,           \* of the shell
          path, tempbuf, j,  \* of cd
          asked          \* history: the path cd was given

cdVars == <<path, tempbuf, j, asked>>

RootFs == <<Slash, "rootfs">>

\* The name of a directory in the archive, and what pwd holds when the shell
\* is in it.
DirName(d) == FlattenSeq([k \in DOMAIN d |-> <<d[k], Slash>>])
FullName(d) == RootFs \o <<Slash>> \o DirName(d)

\* userInitProcess sets cur_dir, which the shell copies into pwd when it starts.
DirInit ==
  /\ pwd = FullName(<<"bin">>)
  /\ path = <<>> /\ tempbuf = <<>> /\ j = 0 /\ asked = <<>>
------------------------------------------------------------------------------
\* Mutant: the slash at the end of pwd stays.
BeginCd_Unstripped(p) ==
  /\ pc' = "cd" /\ path' = p /\ j' = 1
  /\ tempbuf' = pwd
  /\ asked' = p /\ UNCHANGED pwd

\* The start of cd, with pwd as buf.
BeginCd(p) ==
  /\ pc' = "cd" /\ path' = p /\ j' = 1
  /\ tempbuf' = IF Last(pwd) = Slash THEN Front(pwd) ELSE pwd
  /\ asked' = p /\ UNCHANGED pwd

Token == Split(j, path, Slash)
EndsInTwo(p) == Len(p) > 1 /\ p[Len(p)] = Slash /\ p[Len(p) - 1] = Slash

\* The end of a turn of the loop, with the path it leaves: the next component.
NextTurn(p, n) ==
  /\ path' = p
  /\ IF EndsInTwo(p) THEN pc' = "chdir" /\ j' = 0
                     ELSE pc' = "cd" /\ j' = n + 1
  /\ UNCHANGED <<pwd, asked>>

\* What is left of the last slash, but never nothing.
Parent(p) ==
  LET last == CHOOSE k \in DOMAIN p : p[k] = Slash /\ \A m \in k + 1 .. Len(p) : p[m] # Slash IN
  IF last = 1 THEN <<Slash>> ELSE SubSeq(p, 1, last - 1)

CdUp ==
  /\ pc = "cd" /\ Token = <<"..">>
  /\ tempbuf' = Parent(tempbuf)
  /\ NextTurn(Marked(path, Slash), j)

\* An absolute path is taken as it is, without its first slash.
CdAbsolute ==
  LET p == Marked(path, Slash) IN
  /\ pc = "cd" /\ Token # <<"..">> /\ p[1] = Slash
  /\ tempbuf' = IF Len(p) = 1 THEN <<Slash>> ELSE Tail(p)
  /\ path' = p /\ pc' = "chdir" /\ j' = 0
  /\ UNCHANGED <<pwd, asked>>

\* Another component is appended; after "." it is the next one, whatever it is.
CdDown ==
  LET p == Marked(path, Slash) IN
  /\ pc = "cd" /\ Token # <<"..">> /\ p[1] # Slash
  /\ IF Token = <<".">>
     THEN /\ tempbuf' = tempbuf \o <<Slash>> \o Split(j + 1, p, Slash)
          /\ NextTurn(Marked(p, Slash), j + 1)
     ELSE /\ tempbuf' = tempbuf \o <<Slash>> \o Token
          /\ NextTurn(p, j)
------------------------------------------------------------------------------
\* What sbush.c makes of the result: one slash at the start, and no rootfs.
OneSlash(p) ==
  LET q == IF Len(p) > 1 /\ p[1] = Slash /\ p[2] = Slash THEN Tail(p) ELSE p IN
  IF q[1] # Slash THEN <<Slash>> \o q ELSE q

WithoutRoot(p) ==
  IF Split(1, p, Slash) \in {<<n>> : n \in SixLetters} THEN SubSeq(p, 3, Len(p)) ELSE p

\* chdirSyscall appends a slash, in the shell's string, if there is none.
Slashed(p) == IF p # <<>> /\ Last(p) = Slash THEN p ELSE Append(p, Slash)

IsDir(p) == \E d \in Dirs \ {<<>>} : p = DirName(d)

NewPwd == WithoutRoot(OneSlash(tempbuf))

\* The result has been used; nothing of cd is left.
EndCd == /\ pc = "chdir" /\ pc' = "end"
         /\ path' = <<>> /\ tempbuf' = <<>> /\ j' = 0 /\ asked' = <<>>

\* The end of the cd branch: the root, a directory chdir knows, or no change.
Chdir ==
  LET name == Slashed(NewPwd) IN
  /\ EndCd
  /\ pwd' = IF NewPwd = <<Slash>> THEN RootFs \o NewPwd
            ELSE IF IsDir(IF NewPwd # <<>> /\ NewPwd[1] = Slash THEN Tail(name) ELSE name)
            THEN RootFs \o name
            ELSE pwd

CdNext == CdUp \/ CdAbsolute \/ CdDown \/ Chdir

\* Mutant: the slash that split has appended stays.
LsPath_Unstripped(p) ==
  LET q == Marked(p, Slash)
      temp1 == SubSeq(q, 4, Len(q)) IN
  IF temp1 = <<>> THEN <<Slash>> ELSE temp1

\* main of bin/ls, given pwd: rootfs is cut off, and the slash of split.  The 20
\* bytes into which ls copies pwd are taken to be enough.
LsPath(p) ==
  LET q == Marked(p, Slash)
      temp1 == SubSeq(q, 4, Len(q) - 1) IN
  IF temp1 = <<>> THEN <<Slash>> ELSE temp1

\* openSyscall for a directory: those whose name the path is.
Opened(p) == IF p = <<Slash>> THEN {<<>>} ELSE {d \in Dirs \ {<<>>} : DirName(d) = Slashed(p)}
------------------------------------------------------------------------------
Components(p) == SelectSeq(p, LAMBDA c : c # Slash)
IsAbsolute(p) == p[1] = Slash

\* The directory a path means, seen from a directory.
Resolve(d, p) ==
  LET step(e, c) == CASE c = "." -> e
                      [] c = ".." -> IF e = <<>> THEN e ELSE Front(e)
                      [] OTHER -> Append(e, c)
      all == Components(p)
      below == IF IsAbsolute(p) /\ all # <<>> /\ all[1] = "rootfs" THEN Tail(all) ELSE all IN
  FoldLeft(step, IF IsAbsolute(p) THEN <<>> ELSE d, below)

\* One slash between the components and none behind the last.
WellWritten(p) ==
  /\ p # <<>> /\ (Last(p) = Slash => Len(p) = 1)
  /\ \A k \in 1 .. Len(p) - 1 : p[k] = Slash => p[k + 1] # Slash

\* The paths cd is made for: absolute ones without dots, relative ones of one
\* or two components.  What falls out is where the code goes wrong: "." before
\* "..", the root reached from two levels below it, and a name of six letters
\* where rootfs may stand.
Supported(d, p) ==
  LET c == Components(p) IN
  /\ WellWritten(p)
  /\ IF IsAbsolute(p)
     THEN /\ \A k \in DOMAIN c : c[k] \notin {".", ".."}
          /\ c # <<>> /\ c[1] \in SixLetters => c[1] = "rootfs"
     ELSE /\ Len(c) <= 2 /\ c # <<".", "..">>
          /\ ~ (c = <<"..", "..">> /\ Len(d) = 2)
          /\ ~ (Len(c) = 2 /\ c[1] = ".." /\ d = <<>> /\ c[2] \in SixLetters)

\* cd leads to the directory the path means if there is one, and otherwise
\* leaves pwd alone, whatever the commands before left in it.
CdResolves ==
  [][\A d \in Dirs :
       pc = "chdir" /\ pwd = FullName(d) /\ Supported(d, asked) =>
         LET to == Resolve(d, asked) IN
         pwd' = IF to \in Dirs THEN FullName(to) ELSE pwd]_<<pc, pwd, asked>>
===============================================================================
