----------------------------- MODULE ByteLists ------------------------------
(***************************************************************************)
(* What buffer::list promises its callers: a list is one sequence of byte  *)
(* locations, whatever segments it is kept in. Lists may share locations,  *)
(* and a byte written through one list is then seen through the others;    *)
(* what is appended always gets locations that no list shows.              *)
(***************************************************************************)
EXTENDS Integers, Sequences, SequencesExt, FiniteSetsExt, Functions, TLC

CONSTANTS List

VARIABLES
    text,       \* per list: its locations in order
    size,       \* per list: what length() returns
    store,      \* the byte at each location some list shows
    out,        \* what the last copy out gave its caller
    call        \* the last call: operation, lists, offset, length, data

vars == <<text, size, store, out, call>>

Shown == UNION {Range(text[l]) : l \in List}

Init ==
    /\ text = [l \in List |-> <<>>]
    /\ size = [l \in List |-> 0]
    /\ store = <<>>
    /\ out = <<>>
    /\ call = [op |-> "none"]

\* Bytes o .. o + n - 1 of s, as far as they exist.
Part(s, o, n) == SubSeq(s, o + 1, Min({o + n, Len(s)}))

\* s without them.
Cut(s, o, n) == SubSeq(s, 1, o) \o SubSeq(s, o + n + 1, Len(s))

\* Every location keeps its byte, but for those listed in s, which get d in
\* the order of s.
Written(s, d) ==
    LET was == store
        now == store'
    IN  \A x \in DOMAIN now :
            LET at == {i \in DOMAIN s : s[i] = x}
            IN  now[x] = IF at = {} THEN was[x] ELSE d[Max(at)]

\* s is a sequence of locations nobody has seen, holding d.
Fresh(s, d) ==
    /\ Len(s) = Len(d)
    /\ IsInjective(s)
    /\ Range(s) \cap Shown = {}
    /\ Written(s, d)

SameBytes == Written(<<>>, <<>>)

Values(s) == LET f == store IN [i \in DOMAIN s |-> f[s[i]]]

Append_(l, d) ==
    LET new == SubSeq(text'[l], Len(text[l]) + 1, Len(text'[l])) IN
    /\ text' = [text EXCEPT ![l] = @ \o new]
    /\ Fresh(new, d)

Prepend(l, d) ==
    LET new == SubSeq(text'[l], 1, Len(d)) IN
    /\ text' = [text EXCEPT ![l] = new \o @]
    /\ Fresh(new, d)

\* The list moves into one segment of its own.
Rebuild(l) ==
    /\ text' = [text EXCEPT ![l] = text'[l]]
    /\ \/ text' = text /\ SameBytes
       \/ Fresh(text'[l], Values(text[l]))

Overwrite(l, o, d) ==
    /\ text' = text
    /\ Written(Part(text[l], o, Len(d)), d)

\* The lists hold these sequences now.
Become(f) ==
    /\ text' = f @@ text
    /\ SameBytes

One(l, s) == Become([x \in {l} |-> s])

Two(l, s, m, t) == Become([x \in {l, m} |-> IF x = l THEN s ELSE t])

Keep == out' = out

Call ==
    LET c == call'
        l == c.l
        m == c.m
    IN
    \/ c.op \in {"append", "push_back"} /\ Append_(l, c.d) /\ Keep
    \/ c.op = "push_front" /\ Prepend(l, c.d) /\ Keep
    \/ c.op = "append_list" /\ One(l, text[l] \o text[m]) /\ Keep
    \/ c.op = "claim_append" /\ Two(l, text[l] \o text[m], m, <<>>) /\ Keep
    \/ c.op = "claim_prepend" /\ Two(l, text[m] \o text[l], m, <<>>) /\ Keep
    \/ c.op = "claim" /\ Two(l, text[m], m, <<>>) /\ Keep
    \/ c.op = "assign" /\ One(l, text[m]) /\ Keep
    \/ c.op = "share" /\ One(l, text[m]) /\ Keep
    \/ c.op = "clear" /\ One(l, <<>>) /\ Keep
    \/ c.op = "swap" /\ Two(l, text[m], m, text[l]) /\ Keep
    \/ c.op = "substr_of" /\ One(l, Part(text[m], c.o, c.n)) /\ Keep
    \/ c.op = "splice" /\ One(l, Cut(text[l], c.o, c.n)) /\ Keep
    \/ /\ c.op = "splice_to"
       /\ Two(l, Cut(text[l], c.o, c.n), m, text[m] \o Part(text[l], c.o, c.n))
       /\ Keep
    \/ c.op = "copy_list" /\ One(m, text[m] \o Part(text[l], c.o, c.n)) /\ Keep
    \/ c.op = "copy" /\ text' = text /\ SameBytes /\ out' = Part(Values(text[l]), c.o, c.n)
    \/ c.op = "copy_in" /\ Overwrite(l, c.o, c.d) /\ Keep
    \/ c.op = "copy_in_list" /\ Overwrite(l, c.o, Part(Values(text[m]), 0, c.n)) /\ Keep
    \/ c.op = "zero" /\ Overwrite(l, c.o, [i \in 1 .. c.n |-> 0]) /\ Keep
    \/ c.op = "rebuild" /\ Rebuild(l) /\ Keep
    \/ /\ c.op = "get_contiguous"
       /\ Rebuild(l)
       /\ out' = Part(Values(text[l]), c.o, c.n)

\* The length of every list is that of its bytes, after each call.
Next == Call /\ size' = [l \in List |-> Len(text'[l])]

Spec == Init /\ [][Next]_vars
=============================================================================
