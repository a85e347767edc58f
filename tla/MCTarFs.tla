------------------------------- MODULE MCTarFs -------------------------------
(***************************************************************************)
(* Archives of up to MaxMembers members, out of nested directories and of  *)
(* files with names of one and more characters and sizes around BlockSize. *)
(***************************************************************************)
EXTENDS TarFs

CONSTANTS MaxSize,       \* bound: bytes of a file
          MaxMembers     \* bound: members of the archive

DirNames == {<<"a", "a", "/">>, <<"a", "a", "/", "b", "/">>, <<"c", "c", "a", "/">>}
FileNames == {<<"a", "a", "/", "a">>, <<"a", "a", "/", "b", "/", "c">>,
              <<"a", "a", "/", "b", "/", "c", "a">>, <<"b", "b", "b">>,
              <<"c", "c", "a", "/", "a", "a">>}

Pool == {[name |-> n, dir |-> TRUE, size |-> 0] : n \in DirNames}
        \cup {[name |-> n, dir |-> FALSE, size |-> s] : n \in FileNames, s \in 0 .. MaxSize}

MCChar == {"a", "b", "c", "/"}

\* tar, member by member: the blocks so far, and where the next header goes.
Put(ar, i) ==
  LET m == ar.member[i]
      data == [k \in 1 .. (m.size + BlockSize - 1) \div BlockSize |-> [kind |-> "data", member |-> i]] IN
  [ar EXCEPT !.block = @ \o <<[kind |-> "header", member |-> i]>> \o data,
             !.header = Append(@, Len(ar.block) + 2 + Len(data))]

Tar(members) ==
  LET put[i \in 0 .. Len(members)] ==
        IF i = 0 THEN [member |-> members, header |-> <<1>>, block |-> <<>>]
                 ELSE Put(put[i - 1], i)
      all == put[Len(members)] IN
  [all EXCEPT !.block = Append(@, [kind |-> "end", member |-> 0])]

MCArchives ==
  {Tar(ar) : ar \in {s \in UNION {[1 .. n -> Pool] : n \in 0 .. MaxMembers} : WellFormed(s)}}
==============================================================================
