------------------------------- MODULE MCShell -------------------------------
(***************************************************************************)
(* Every short line, longer lines of well separated words up to one word   *)
(* more than split has strings for, scripts of all kinds, and cd with every*)
(* short path in which names are separated, in a tree of three levels with *)
(* a name of six letters.                                                  *)
(***************************************************************************)
EXTENDS Shell

CONSTANTS MaxRest,       \* bound: symbols behind the command in any line
          MaxWords,      \* bound: words behind the command in a line of words
          MaxPath        \* bound: symbols of the path of a cd

MCSymbol == {Zero, Slash, Blank, Newline, Shebang, "a", "b", ".", "..", "bin", "etc", "kernel",
             "rootfs", "ls", "cat", "echo", "sleep", "ps", "pwd", "cd", "sh",
             "x.sh", "y.sh", "z.sh", "w.sh", "v.sh", "u.sh", "t.sh"}

Commands == {"ls", "cat", "echo", "sleep", "ps", "pwd", "cd"}

AnyLine == {<<c>> \o r : c \in {"ls", "echo", "sleep"}, r \in BoundedSeq({Blank, "a", Zero}, MaxRest)}

WordLine ==
  {<<c>> \o FlattenSeq([k \in DOMAIN w |-> <<Blank>> \o w[k]]) :
     c \in Commands, w \in BoundedSeq({<<"a">>, <<"b", "a">>}, MaxWords)}

MCFile ==
  [f \in {"x.sh", "y.sh", "z.sh", "w.sh", "v.sh", "u.sh", "t.sh"} |->
     CASE f = "x.sh" -> <<Shebang, Newline, "echo", Blank, "a", Newline, "ls", Newline,
                          "sleep", Blank, "a", Newline>>
       [] f = "y.sh" -> <<"ls", Newline>>
       [] f = "z.sh" -> <<Shebang, Newline, "sh", Blank, "x.sh", Newline, "ps", Newline>>
       [] f = "w.sh" -> <<Shebang, Newline, "sh", Blank, "y.sh", Newline, "ps", Newline>>
       [] f = "t.sh" -> <<Shebang, "a", Newline, "ls", Newline>>
       [] f = "u.sh" -> <<Shebang, Newline, "cd", Blank, "..", Newline, "ls", Newline>>
       [] f = "v.sh" -> <<Shebang, Newline, "ps", Newline, "ps", Newline, "ps", Newline,
                          "ps", Newline>>]

ScriptLine == {<<"sh", Blank, f>> : f \in DOMAIN MCFile} \cup {<<"sh", Blank, "a", "x.sh">>}

MCDirs == {<<>>, <<"bin">>, <<"kernel">>, <<"bin", "etc">>, <<"bin", "etc", "bin">>}
MCSixLetters == {"rootfs", "kernel"}

Separated(p) == \A k \in 1 .. Len(p) - 1 : p[k] = Slash \/ p[k + 1] = Slash
MCPaths == {p \in BoundedSeq({Slash, ".", "..", "bin", "etc", "kernel", "rootfs"}, MaxPath) : Separated(p)}
CdLine == {<<"cd", Blank>> \o p : p \in MCPaths}

MCLines == AnyLine \cup WordLine \cup ScriptLine \cup CdLine
==============================================================================
