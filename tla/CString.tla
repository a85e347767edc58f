------------------------------- MODULE CString -------------------------------
(***************************************************************************)
(* split of libc/string.c, with which the shell takes lines, paths and     *)
(* scripts apart.  A string is a sequence of symbols.  split appends a     *)
(* separator to the caller's string at every call (Marked), cuts the string*)
(* there and at the others, and drops the last piece; a caller that asks   *)
(* for the next token finds the string one separator longer.               *)
(***************************************************************************)
EXTENDS Integers, Sequences, FiniteSets

Zero == "0"

\* Mutant: no separator is appended to a string that ends in one (the
\* condition that is commented out in split).
Marked_Once(line, sep) ==
  IF line # <<>> /\ line[Len(line)] = sep THEN line ELSE Append(line, sep)

\* What a call of split makes of its argument.
Marked(line, sep) == Append(line, sep)

\* How many of the first k symbols are c, and where the n-th one is.
Count(body, c, k) == Cardinality({s \in 1 .. k : body[s] = c})
Place(body, c, n) == CHOOSE s \in DOMAIN body : body[s] = c /\ Count(body, c, s) = n

\* The piece from lo to hi.  A 0 is passed over, and the index d1 with which the
\* others are read is then one behind, for the rest of the string.
Piece(body, lo, hi) ==
  LET d1(k) == k - Count(body, Zero, k) IN SubSeq(body, d1(lo - 1) + 1, d1(hi))

\* What is cut: the marked string, without its first symbol if that is a
\* separator.
Body(line, sep) ==
  LET marked == Marked(line, sep) IN IF Head(marked) = sep THEN Tail(marked) ELSE marked

\* The pieces split has room for are the entries of argv2; it does not look.
Pieces(line, sep) == LET body == Body(line, sep) IN Count(body, sep, Len(body))

\* What split(toknum, line, sep) returns.
Split(toknum, line, sep) ==
  LET body == Body(line, sep)
      ss == IF Pieces(line, sep) = 1 THEN 2 ELSE Pieces(line, sep) IN
  IF toknum >= ss THEN <<>>
  ELSE Piece(body, IF toknum = 1 THEN 1 ELSE Place(body, sep, toknum - 1) + 1,
             Place(body, sep, toknum) - 1)
==============================================================================
