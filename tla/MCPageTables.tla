---------------------------- MODULE MCPageTables ----------------------------
(***************************************************************************)
(* User pages under one leaf, under two leaves and under two entries of the*)
(* root; memory that is clear, and memory with leftovers in one of the     *)
(* first frames that are free after boot or in all that come later.        *)
(***************************************************************************)
EXTENDS PageTables

MCUserPages == << <<0, 0, 0>>, <<0, 0, 1>>, <<0, 1, 0>>, <<1, 0, 0>> >>

Stale(frames, i) ==
  [f \in Frame |-> IF f \in frames THEN [Cleared EXCEPT ![i] = 1] ELSE Cleared]

MCFound == {Stale({}, 0), Stale({8}, 0), Stale({9}, 1), Stale(10 .. Frames, 0)}
=============================================================================
