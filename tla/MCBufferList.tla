---------------------------- MODULE MCBufferList ----------------------------
(***************************************************************************)
(* Instance of BufferList for TLC.                                         *)
(***************************************************************************)
EXTENDS BufferList

\* One byte, and more than a page.
TwoData == {<<1>>, <<1, 2, 1>>}

\* A program that appends, reads and writes at offsets of one list (as the
\* encoders do), and programs that move bytes from list to list, cut lists up
\* (as the writer does), and reshape them.
Program(lists, n, ops) == [lists |-> lists, calls |-> n, ops |-> ops]

Encoder == Program({1}, 6, {"append", "push_back", "splice", "copy", "copy_in", "clear"})
Mover == Program({1, 2}, 5, {"append", "append_list", "claim_append", "swap",
                             "copy_list", "copy_in_list"})
Cutter == Program({1, 2}, 4, {"append", "push_back", "substr_of", "splice_to",
                              "share", "zero"})
Shaper == Program({1, 2}, 5, {"append", "push_front", "claim_prepend", "claim",
                              "assign", "rebuild", "get_contiguous"})
AllClients == {Encoder, Mover, Cutter, Shaper}
=============================================================================
