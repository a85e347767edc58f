-------------------------------- MODULE Shell --------------------------------
(***************************************************************************)
(* The loop of bin/sbush/sbush.c: a line is read or taken from a script,   *)
(* its first word selects a branch, and the branches that run a program    *)
(* collect the other words into ans, which execve copies.  Every word costs*)
(* a call of split, and every call makes the line longer by a blank        *)
(* (module CString).  Likewise the lines of a script and its newlines.     *)
(*                                                                         *)
(* A line is a sequence of symbols: blanks, letters, the names of commands *)
(* and of scripts, and Shebang, which stands for any seven letters: the    *)
(* comparison with "#!sbush" starts behind its last letter.  The cd branch *)
(* is module WorkingDirectory; ls without a word is given the directory it *)
(* has left in pwd.                                                        *)
(***************************************************************************)
EXTENDS WorkingDirectory

CONSTANTS Lines,         \* bound: lines that are typed
          File,          \* the text of each script, by its name
          Entries        \* strings that split allocates for argv2

Blank == " "
Newline == "\n"
Shebang == "#!sbush"

ASSUME ShellAssumption ==
  /\ Entries \in Nat \ {0}
  /\ {Blank, Newline} \subseteq Symbol /\ Lines \subseteq Seq(Symbol)
  /\ \A f \in DOMAIN File : f \in Symbol \ {Blank} /\ File[f] \in Seq(Symbol)

VARIABLES typed,         \* history: the line that is carried out, as it was read
          input, binary, ans, buf, i1, flag1,
          argv,          \* arguments of the program that was run last
          script, done   \* history: the script started at the prompt, its lines so far

dirVars == <<pwd, cdVars>>
vars == <<pc, dirVars, typed, input, binary, ans, buf, i1, flag1, argv, script, done>>

NoScript == <<>>

Init ==
  /\ DirInit
  /\ pc = "prompt" /\ typed = <<>> /\ input = <<>> /\ binary = <<>> /\ ans = <<>>
  /\ buf = <<>> /\ i1 = 0 /\ flag1 = 0 /\ argv = <<>>
  /\ script = NoScript /\ done = <<>>
------------------------------------------------------------------------------
\* _gets_
ReadLine ==
  /\ pc = "prompt" /\ pc' = "start"
  /\ \E line \in Lines : input' = line /\ typed' = line
  /\ script' = NoScript /\ done' = <<>>
  /\ UNCHANGED <<dirVars, binary, ans, buf, i1, flag1, argv>>

\* A branch's first test that holds, for the first word and the marked line.
Branch(word, line) ==
  IF word \in {<<"ls">>, <<"cat">>, <<"echo">>} THEN "words"
  ELSE IF line = <<"ps", Blank>> THEN "exec"
  ELSE IF word = <<"sleep">> THEN "sleep"
  ELSE IF word = <<"cd">> THEN "path"
  ELSE IF \E k \in DOMAIN line : line[k] \in DOMAIN File THEN "script"
  ELSE "end"

\* start: the first word and the branch it leads to.
Start ==
  /\ pc = "start" /\ Pieces(input, Blank) <= Entries
  /\ binary' = Split(1, input, Blank) /\ input' = Marked(input, Blank)
  /\ ans' = <<>>
  /\ pc' = Branch(binary', input')
  /\ UNCHANGED <<dirVars, typed, buf, i1, flag1, argv, script, done>>

\* The loop that collects the words; ls without one is given pwd.
NextWord ==
  LET nextToken == Split(Len(ans) + 2, input, Blank) IN
  /\ pc = "words" /\ Pieces(input, Blank) <= Entries
  /\ input' = Marked(input, Blank)
  /\ IF nextToken # <<>>
     THEN ans' = Append(ans, nextToken) /\ UNCHANGED pc
     ELSE /\ ans' = IF binary = <<"ls">> /\ ans = <<>> THEN <<pwd>> ELSE ans
          /\ pc' = "exec"
  /\ UNCHANGED <<dirVars, typed, binary, buf, i1, flag1, argv, script, done>>

\* sleep takes one word.
SleepWord ==
  /\ pc = "sleep" /\ Pieces(input, Blank) <= Entries
  /\ input' = Marked(input, Blank)
  /\ ans' = <<Split(2, input, Blank)>>
  /\ pc' = "exec"
  /\ UNCHANGED <<dirVars, typed, binary, buf, i1, flag1, argv, script, done>>

\* execveSyscall copies words until it comes to an empty one (only that of
\* sleep can be).
Copied(words) ==
  IF \E k \in DOMAIN words : words[k] = <<>>
  THEN SubSeq(words, 1, (CHOOSE k \in DOMAIN words :
                           words[k] = <<>> /\ \A i \in 1 .. k - 1 : words[i] # <<>>) - 1)
  ELSE words

\* fork, execve in the child, waitpid in the shell.
Exec ==
  /\ pc = "exec"
  /\ argv' = Copied(ans) /\ pc' = "ran"
  /\ UNCHANGED <<dirVars, typed, input, binary, ans, buf, i1, flag1, script, done>>

ProgramEnds == /\ pc = "ran" /\ pc' = "end"
               /\ UNCHANGED <<dirVars, typed, input, binary, ans, buf, i1, flag1, argv, script, done>>

\* The cd branch, up to the call of cd and from there to its end.
CdPath ==
  /\ pc = "path" /\ Pieces(input, Blank) <= Entries
  /\ input' = Marked(input, Blank)
  /\ BeginCd(Split(2, input, Blank))
  /\ UNCHANGED <<typed, binary, ans, buf, i1, flag1, argv, script, done>>

Cd == /\ CdNext
      /\ UNCHANGED <<typed, input, binary, ans, buf, i1, flag1, argv, script, done>>
------------------------------------------------------------------------------
\* The .sh branch: the file named by the second word is read into buf.
ReadScript ==
  LET name == Split(2, input, Blank) IN
  /\ pc = "script" /\ Pieces(input, Blank) <= Entries
  /\ Len(name) = 1 /\ name[1] \in DOMAIN File
  /\ input' = Marked(input, Blank) /\ buf' = File[name[1]]
  /\ pc' = "shebang"
  /\ script' = IF flag1 = 0 THEN name ELSE script
  /\ UNCHANGED <<dirVars, typed, binary, ans, i1, flag1, argv, done>>

CheckShebang ==
  /\ pc = "shebang" /\ Pieces(buf, Newline) <= Entries
  /\ buf' = Marked(buf, Newline)
  /\ IF Split(1, buf, Newline) = <<Shebang>>
     THEN i1' = 1 /\ pc' = "lines"
     ELSE pc' = "end" /\ UNCHANGED i1
  /\ UNCHANGED <<dirVars, typed, input, binary, ans, flag1, argv, script, done>>

\* The loop over the lines, left through start and entered again at shebang.
NextLine ==
  LET nextToken == Split(i1 + 1, buf, Newline) IN
  /\ pc = "lines" /\ Pieces(buf, Newline) <= Entries
  /\ buf' = Marked(buf, Newline)
  /\ IF nextToken = <<>>
     THEN flag1' = 0 /\ pc' = "end" /\ UNCHANGED <<input, typed, done>>
     ELSE /\ flag1' = 1 /\ pc' = "start"
          /\ input' = nextToken /\ typed' = nextToken /\ done' = Append(done, nextToken)
  /\ UNCHANGED <<dirVars, binary, ans, i1, argv, script>>

\* Back at the prompt: every variable is set again before it is read.
ToPrompt ==
  /\ pc' = "prompt"
  /\ typed' = <<>> /\ input' = <<>> /\ binary' = <<>> /\ ans' = <<>>
  /\ buf' = <<>> /\ i1' = 0 /\ argv' = <<>>

\* Mutant: the line just carried out is not counted.
EndCommand_SameLine ==
  /\ pc = "end"
  /\ \/ /\ flag1 = 1 /\ pc' = "lines"
        /\ UNCHANGED <<i1, typed, input, binary, ans, buf, argv>>
     \/ flag1 = 0 /\ ToPrompt
  /\ UNCHANGED <<dirVars, flag1, script, done>>

\* The end of the loop: back into the script, or to the prompt.
EndCommand ==
  /\ pc = "end"
  /\ \/ /\ flag1 = 1 /\ pc' = "lines" /\ i1' = i1 + 1
        /\ UNCHANGED <<typed, input, binary, ans, buf, argv>>
     \/ flag1 = 0 /\ ToPrompt
  /\ UNCHANGED <<dirVars, flag1, script, done>>

\* What has no defined outcome: a piece more than split has strings for, or
\* a script that is no file of the archive.
Undefined ==
  /\ \/ pc \in {"start", "words", "sleep", "path", "script"} /\ Pieces(input, Blank) > Entries
     \/ pc \in {"shebang", "lines"} /\ Pieces(buf, Newline) > Entries
     \/ pc = "script" /\ Split(2, input, Blank) \notin {<<f>> : f \in DOMAIN File}
  /\ pc' = "undefined"
  /\ UNCHANGED <<dirVars, typed, input, binary, ans, buf, i1, flag1, argv, script, done>>

Next == \/ ReadLine \/ Start \/ NextWord \/ SleepWord \/ Exec \/ ProgramEnds
        \/ CdPath \/ Cd
        \/ ReadScript \/ CheckShebang \/ NextLine \/ EndCommand \/ Undefined

Spec == Init /\ [][Next]_vars
------------------------------------------------------------------------------
\* The parts, each followed by a separator.
Ended(parts, sep) == FlattenSeq([k \in DOMAIN parts |-> Append(parts[k], sep)])

\* Words with one blank between them and no 0, and no more of them than split
\* has strings for when it is asked for the one behind the last.
Plain(line) ==
  /\ line[1] # Blank /\ line[Len(line)] # Blank
  /\ \A k \in DOMAIN line : line[k] # Zero /\ (line[k] = Blank => line[k + 1] # Blank)
  /\ 2 * (1 + Cardinality({k \in DOMAIN line : line[k] = Blank})) <= Entries

\* A program is run with the words of the line: none is lost, cut or added by
\* the calls of split, although each of them changes the line, and no call runs
\* out of strings.  (ls gets pwd when it is alone, and sleep one word.)
ArgvIsWords ==
  typed # <<>> /\ Plain(typed) =>
    /\ pc = "undefined" => \/ Branch(binary, input) = "script"
                           \/ script # NoScript
    /\ pc = "ran" =>
         LET args == IF typed = <<"ls">> THEN <<>> ELSE argv
             line == Ended(<<binary>> \o args, Blank) IN
         IF binary = <<"sleep">> THEN IsPrefix(line, Append(typed, Blank))
                                 ELSE line = Append(typed, Blank)

\* After any sequence of cd commands, of whatever paths, at the prompt or in a
\* script, ls without a word opens one directory, the one pwd names (if pwd fits into
\* the string that ls has for it).
LsOpensPwd ==
  pc = "ran" /\ typed = <<"ls">> =>
    \E d \in Dirs : pwd = FullName(d) /\ Opened(LsPath(argv[1])) = {d}

\* A script whose first line is the shebang, that runs no other script and is
\* short enough for split.
PlainScript(text) ==
  /\ Len(text) > 1 /\ text[1] = Shebang /\ text[2] = Newline /\ text[Len(text)] = Newline
  /\ \A k \in DOMAIN text : /\ text[k] # Zero /\ text[k] \notin DOMAIN File
                            /\ text[k] = Newline /\ k < Len(text) => text[k + 1] # Newline
  /\ 2 * Cardinality({k \in DOMAIN text : text[k] = Newline}) < Entries

\* A plain script is carried out line by line, each line once, to its end,
\* although the loop over it is left and entered again for each.
ScriptLineByLine ==
  script # NoScript /\ PlainScript(File[script[1]]) =>
    LET text == File[script[1]]
        carried == Ended(<< <<Shebang>> >> \o done, Newline) IN
    /\ IsPrefix(carried, text)
    /\ pc = "prompt" => carried = text
    /\ pc = "undefined" => ~ Plain(typed)
==============================================================================
