----------------------------- MODULE BufferList -----------------------------
(***************************************************************************)
(* buffer::list of src/buffer.cc and include/msgr/buffer.h: a list of      *)
(* segments (buffer::ptr) of reference-counted raw buffers, an append      *)
(* buffer that small appends are packed into, and the cached iterator      *)
(* last_p that copy() and copy_in() start from. Several lists share raws;  *)
(* one thread works on them.                                               *)
(*                                                                         *)
(* A raw is the sequence of its bytes; it is freed when the last segment   *)
(* that refers to it goes. Every raw is shareable (make_shareable changes  *)
(* nothing), as are all raws the messenger creates. A call that throws     *)
(* before it changes anything is not a step.                               *)
(***************************************************************************)
EXTENDS Integers, Sequences, SequencesExt, FiniteSetsExt, Functions

CONSTANTS
    List,           \* the lists
    MaxRaws,        \* bound: raw buffers alive at a time
    PAGE_SIZE,      \* bytes in a page of the append buffer
    Data,           \* byte sequences callers append or copy in
    MaxLen,         \* bound: bytes in a list
    Clients         \* programs: lists and operations they use, bound on their calls

ASSUME BufferAssumption ==
    /\ MaxRaws \in Nat /\ PAGE_SIZE \in Nat \ {0} /\ MaxLen \in Nat
    /\ \A d \in Data : d # <<>>

VARIABLES
    mem,            \* per raw: its bytes, <<>> if it is free
    bl,             \* per list: buffers, len, append_buffer, last_p
    out,            \* what the last copy() gave its caller
    call,           \* the last call
    client,         \* the program: its lists, ops and calls
    calls           \* calls it has made

vars == <<mem, bl, out, call, client, calls>>

\* What the future depends on.
view == <<mem, bl, client, calls>>

Raw == 1 .. MaxRaws

-----------------------------------------------------------------------------
\* Segments: raw 0 is no raw.

ptr(r, o, n) == [raw |-> r, off |-> o, len |-> n]

EmptyPtr == ptr(0, 0, 0)

end(p) == p.off + p.len

unused_tail_length(m, p) == IF p.raw = 0 THEN 0 ELSE Len(m[p.raw]) - end(p)

c_str(m, p) == SubSeq(m[p.raw], p.off + 1, end(p))

\* memcpy of d to byte o of segment p.
Poke(m, p, o, d) ==
    [m EXCEPT ![p.raw] =
        [i \in DOMAIN @ |-> IF i - (p.off + o) \in DOMAIN d
                            THEN d[i - (p.off + o)] ELSE @[i]]]

-----------------------------------------------------------------------------
\* Iterators: off in the list, the segment p they are in (End past the last,
\* Gone once its node was erased), poff in that segment.

End == 0
Gone == -1

begin(bs) == [off |-> 0, p |-> IF bs = <<>> THEN End ELSE 1, poff |-> 0]

Succ(bs, p) == IF p = Len(bs) THEN End ELSE p + 1

\* The loop of advance(): segments that poff goes past are skipped.
RECURSIVE Walk(_, _, _)
Walk(bs, p, poff) ==
    IF poff = 0 \/ p = End \/ poff < bs[p].len
    THEN [p |-> p, poff |-> poff]
    ELSE Walk(bs, Succ(bs, p), poff - bs[p].len)

\* At the end of the list it throws, with poff and p moved and off not.
advance(bs, it, o) ==
    LET w == Walk(bs, it.p, it.poff + o)
    IN  [p |-> w.p, poff |-> w.poff,
         off |-> IF w.p = End /\ w.poff > 0 THEN it.off ELSE it.off + o]

seek(bs, o) == advance(bs, begin(bs), o)

\* Where copy() and copy_in() start: last_p if it is there, a new search else.
Cursor(b, o) ==
    IF b.last_p.off = o /\ b.last_p.p # End THEN b.last_p ELSE seek(b.buffers, o)

\* The loop of copy() and copy_in(): the pieces of segments that the next n
\* bytes lie in; at the end of the list it throws.
RECURSIVE Pieces(_, _, _)
Pieces(bs, it, n) ==
    IF n = 0 \/ it.p = End
    THEN <<>>
    ELSE LET howmuch == Min({n, bs[it.p].len - it.poff})
         IN  <<ptr(bs[it.p].raw, bs[it.p].off + it.poff, howmuch)>>
             \o Pieces(bs, advance(bs, it, howmuch), n - howmuch)

Total(ps) == FoldLeft(LAMBDA n, p : n + p.len, 0, ps)

-----------------------------------------------------------------------------
\* Lists.

EmptyList ==
    [buffers |-> <<>>, len |-> 0, append_buffer |-> EmptyPtr, last_p |-> begin(<<>>)]

clear(b) == [b EXCEPT !.buffers = <<>>, !.len = 0, !.last_p = begin(<<>>)]

push_back(b, p) ==
    IF p.len = 0 THEN b
    ELSE [b EXCEPT !.buffers = Append(@, p), !.len = @ + p.len]

\* Nodes put before the one an iterator is in move it on.
Behind(it, n) == IF it.p > 0 THEN [it EXCEPT !.p = @ + n] ELSE it

push_front(b, p) ==
    IF p.len = 0 THEN b
    ELSE [b EXCEPT !.buffers = <<p>> \o @, !.len = @ + p.len,
                   !.last_p = Behind(@, 1)]

\* append(bp, off, len): what follows the last segment extends it.
append_ptr(b, p, o, n) ==
    LET k == Len(b.buffers) IN
    IF k > 0 /\ b.buffers[k].raw = p.raw /\ end(b.buffers[k]) = p.off + o
    THEN [b EXCEPT !.buffers[k].len = @ + n, !.len = @ + n]
    ELSE push_back(b, ptr(p.raw, p.off + o, n))

\* append(data, len), a list and the memory: first what fits into the append
\* buffer, then whole new pages for the rest.
Fill(s, d) ==
    LET ab == s.b.append_buffer
        n == Min({unused_tail_length(s.m, ab), Len(d)})
        ab2 == [ab EXCEPT !.len = @ + n]
    IN  IF n = 0 THEN s
        ELSE [b |-> append_ptr([s.b EXCEPT !.append_buffer = ab2], ab2, end(ab2) - n, n),
              m |-> Poke(s.m, ab, ab.len, SubSeq(d, 1, n))]

FreeRaws == {r \in Raw : mem[r] = <<>>}

NewPages(s, n) ==
    LET r == Min(FreeRaws)
        alen == PAGE_SIZE * ((n - 1) \div PAGE_SIZE + 1)
    IN  [b |-> [s.b EXCEPT !.append_buffer = ptr(r, 0, 0)],
         m |-> [s.m EXCEPT ![r] = [i \in 1 .. alen |-> 0]]]

append(s, d) ==
    LET gap == Min({unused_tail_length(s.m, s.b.append_buffer), Len(d)})
        rest == SubSeq(d, gap + 1, Len(d))
        full == Fill(s, d)
    IN  IF rest = <<>> THEN full ELSE Fill(NewPages(full, Len(rest)), rest)

\* The segment and the offset in it that byte o of bs is at.
RECURSIVE Skip(_, _, _)
Skip(bs, c, o) ==
    IF o > 0 /\ o >= bs[c].len THEN Skip(bs, c + 1, o - bs[c].len)
    ELSE [c |-> c, o |-> o]

RECURSIVE SubstrLoop(_, _, _, _)
SubstrLoop(bs, c, o, n) ==
    IF n = 0 THEN <<>>
    ELSE IF o + n < bs[c].len THEN <<ptr(bs[c].raw, bs[c].off + o, n)>>
    ELSE LET howmuch == bs[c].len - o
         IN  <<ptr(bs[c].raw, bs[c].off + o, howmuch)>>
             \o SubstrLoop(bs, c + 1, 0, n - howmuch)

substr_of(b, other, o, n) ==
    LET at == Skip(other.buffers, 1, o)
        bs == SubstrLoop(other.buffers, at.c, at.o, n)
    IN  [clear(b) EXCEPT !.buffers = bs, !.len = Total(bs)]

\* The loop of splice() from segment c on: `by` takes what is cut out.
RECURSIVE SpliceLoop(_, _, _, _)
SpliceLoop(s, c, o, n) ==
    IF n = 0 \/ c > Len(s.b.buffers) THEN s
    ELSE
    LET cur == s.b.buffers[c]
        howmuch == cur.len - o
    IN  IF o + n < cur.len
        THEN [b |-> [s.b EXCEPT !.buffers[c] = ptr(cur.raw, cur.off + o + n, cur.len - (n + o)),
                                !.len = @ - (o + n)],
              by |-> append_ptr(s.by, cur, o, n)]
        ELSE SpliceLoop([b |-> [s.b EXCEPT !.buffers = RemoveAt(@, c),
                                           !.len = @ - cur.len],
                         by |-> append_ptr(s.by, cur, o, howmuch)],
                        c, 0, n - howmuch)

\* Mutant: last_p is reset only if its segment is gone.
splice_cursor(b, o, n, by) ==
    LET at == Skip(b.buffers, 1, o)
        kept == IF at.o = 0 THEN b
                ELSE [b EXCEPT !.buffers = InsertAt(@, at.c, [b.buffers[at.c] EXCEPT !.len = at.o]),
                               !.len = @ + at.o]
        s == SpliceLoop([b |-> kept, by |-> by],
                        IF at.o = 0 THEN at.c ELSE at.c + 1, at.o, n)
    IN  [s EXCEPT !.b.last_p = IF @.p > Len(s.b.buffers) THEN begin(s.b.buffers) ELSE @]

splice(b, o, n, by) ==
    LET at == Skip(b.buffers, 1, o)
        kept == IF at.o = 0 THEN b
                ELSE [b EXCEPT !.buffers = InsertAt(@, at.c, [b.buffers[at.c] EXCEPT !.len = at.o]),
                               !.len = @ + at.o]
        s == SpliceLoop([b |-> kept, by |-> by],
                        IF at.o = 0 THEN at.c ELSE at.c + 1, at.o, n)
    IN  [s EXCEPT !.b.last_p = begin(s.b.buffers)]

\* Mutant: the bytes before the segment are not taken off.
ZeroPart_all(p, n, o, l) ==
    IF p >= o /\ p + n <= o + l THEN [o |-> 0, n |-> n]
    ELSE IF p >= o THEN [o |-> 0, n |-> l]
    ELSE IF p + n <= o + l THEN [o |-> o - p, n |-> n - (o - p)]
    ELSE [o |-> o - p, n |-> l]

\* zero(o, l): the part of a segment at p, n bytes long, that is zeroed.
ZeroPart(p, n, o, l) ==
    IF p >= o /\ p + n <= o + l THEN [o |-> 0, n |-> n]
    ELSE IF p >= o THEN [o |-> 0, n |-> o + l - p]
    ELSE IF p + n <= o + l THEN [o |-> o - p, n |-> n - (o - p)]
    ELSE [o |-> o - p, n |-> l]

RECURSIVE ZeroLoop(_, _, _, _, _, _)
ZeroLoop(m, bs, c, p, o, l) ==
    IF c > Len(bs) THEN m
    ELSE
    LET n == bs[c].len
        z == ZeroPart(p, n, o, l)
        m2 == IF p + n > o THEN Poke(m, bs[c], z.o, [i \in 1 .. z.n |-> 0]) ELSE m
    IN  IF o + l <= p + n THEN m2 ELSE ZeroLoop(m2, bs, c + 1, p + n, o, l)

\* copy_in(): d goes to the pieces one after the other.
RECURSIVE WritePieces(_, _, _)
WritePieces(m, ps, d) ==
    IF ps = <<>> THEN m
    ELSE WritePieces(Poke(m, Head(ps), 0, SubSeq(d, 1, Head(ps).len)), Tail(ps),
                     SubSeq(d, Head(ps).len + 1, Len(d)))

Contents(m, b) == FlattenSeq([i \in DOMAIN b.buffers |-> c_str(m, b.buffers[i])])

\* rebuild(): the bytes move to one new raw; no iterator into the old nodes
\* is adjusted.
rebuild(s) ==
    LET r == Min(FreeRaws)
        lost == [s.b.last_p EXCEPT !.p = IF @ > 0 THEN Gone ELSE @]
    IN  IF s.b.len = 0
        THEN [s EXCEPT !.b.buffers = <<>>, !.b.last_p = lost]
        ELSE [b |-> [s.b EXCEPT !.buffers = <<ptr(r, 0, s.b.len)>>, !.last_p = lost],
              m |-> [s.m EXCEPT ![r] = Contents(s.m, s.b)]]

claim_append(b, other) ==
    [b EXCEPT !.len = @ + other.len, !.buffers = @ \o other.buffers]

claim_prepend(b, other) ==
    [b EXCEPT !.len = @ + other.len, !.buffers = other.buffers \o @,
              !.last_p = Behind(@, Len(other.buffers))]

\* What a list whose segments were claimed is left with.
Claimed(b) == [b EXCEPT !.buffers = <<>>, !.len = 0, !.last_p = begin(<<>>)]

-----------------------------------------------------------------------------
\* Calls.

Init ==
    /\ mem = [r \in Raw |-> <<>>]
    /\ bl = [l \in List |-> EmptyList]
    /\ out = <<>>
    /\ call = [op |-> "none"]
    /\ client \in Clients
    /\ calls = 0

\* The raws of a list's segments and of its append buffer.
Refs(b) == {b.append_buffer.raw} \cup {b.buffers[i].raw : i \in DOMAIN b.buffers}

\* ptr::release: a raw that nothing refers to any more is freed.
Released(m, B) ==
    [r \in Raw |-> IF \E l \in List : r \in Refs(B[l]) THEN m[r] ELSE <<>>]

\* The lists become B over memory m, within the bounds.
Step(B, m) ==
    /\ \A l \in List : B[l].len <= MaxLen
    /\ bl' = B
    /\ mem' = Released(m, B)
    /\ calls' = calls + 1
    /\ UNCHANGED client

\* One more call of op.
Uses(op) == op \in client.ops /\ calls < client.calls

Does(op, l, m, o, n, d) ==
    call' = [op |-> op, l |-> l, m |-> m, o |-> o, n |-> n, d |-> d]

\* append(char), append(data, len).
Append_(l, d) ==
    /\ Uses("append")
    /\ \/ FreeRaws # {}
       \/ Len(d) <= unused_tail_length(mem, bl[l].append_buffer)
    /\ LET s == append([b |-> bl[l], m |-> mem], d)
       IN  Step([bl EXCEPT ![l] = s.b], s.m)
    /\ Does("append", l, l, 0, 0, d)
    /\ UNCHANGED out

\* append(bp) and push_back(bp) of a raw the caller filled; append_zero().
PushBack(l, d) ==
    /\ Uses("push_back")
    /\ FreeRaws # {}
    /\ LET r == Min(FreeRaws)
       IN  Step([bl EXCEPT ![l] = push_back(@, ptr(r, 0, Len(d)))],
                [mem EXCEPT ![r] = d])
    /\ Does("push_back", l, l, 0, 0, d)
    /\ UNCHANGED out

PushFront(l, d) ==
    /\ Uses("push_front")
    /\ FreeRaws # {}
    /\ LET r == Min(FreeRaws)
       IN  Step([bl EXCEPT ![l] = push_front(@, ptr(r, 0, Len(d)))],
                [mem EXCEPT ![r] = d])
    /\ Does("push_front", l, l, 0, 0, d)
    /\ UNCHANGED out

\* append(const list&).
AppendList(l, m) ==
    /\ Uses("append_list")
    /\ Step([bl EXCEPT ![l].len = @ + bl[m].len,
                       ![l].buffers = @ \o bl[m].buffers], mem)
    /\ Does("append_list", l, m, 0, 0, <<>>)
    /\ UNCHANGED out

ClaimAppend(l, m) ==
    /\ Uses("claim_append")
    /\ Step([bl EXCEPT ![l] = claim_append(@, bl[m]), ![m] = Claimed(@)], mem)
    /\ Does("claim_append", l, m, 0, 0, <<>>)
    /\ UNCHANGED out

ClaimPrepend(l, m) ==
    /\ Uses("claim_prepend")
    /\ Step([bl EXCEPT ![l] = claim_prepend(@, bl[m]), ![m] = Claimed(@)], mem)
    /\ Does("claim_prepend", l, m, 0, 0, <<>>)
    /\ UNCHANGED out

Claim(l, m) ==
    /\ Uses("claim")
    /\ Step([bl EXCEPT ![l] = claim_append(clear(@), bl[m]), ![m] = Claimed(@)], mem)
    /\ Does("claim", l, m, 0, 0, <<>>)
    /\ UNCHANGED out

\* Mutant: memberwise, the append buffer too.
Assign_memberwise(l, m) ==
    /\ Uses("assign")
    /\ Step([bl EXCEPT ![l] = [bl[m] EXCEPT !.last_p = begin(bl[m].buffers)]], mem)
    /\ Does("assign", l, m, 0, 0, <<>>)
    /\ UNCHANGED out

\* operator=: neither the append buffer nor last_p is touched, and the nodes
\* last_p may be in are replaced.
Assign(l, m) ==
    /\ Uses("assign")
    /\ Step([bl EXCEPT ![l].buffers = bl[m].buffers, ![l].len = bl[m].len,
                       ![l].last_p.p = IF @ > 0 THEN Gone ELSE @], mem)
    /\ Does("assign", l, m, 0, 0, <<>>)
    /\ UNCHANGED out

\* share(): one push_back for each segment.
Share(l, m) ==
    /\ Uses("share")
    /\ Step([bl EXCEPT ![l] = FoldLeft(push_back, clear(@), bl[m].buffers)], mem)
    /\ Does("share", l, m, 0, 0, <<>>)
    /\ UNCHANGED out

Clear(l) ==
    /\ Uses("clear")
    /\ Step([bl EXCEPT ![l] = clear(@)], mem)
    /\ Does("clear", l, l, 0, 0, <<>>)
    /\ UNCHANGED out

Swap(l, m) ==
    /\ Uses("swap")
    /\ Step([bl EXCEPT ![l] = [bl[m] EXCEPT !.last_p = begin(bl[m].buffers)],
                       ![m] = [bl[l] EXCEPT !.last_p = begin(bl[l].buffers)]], mem)
    /\ Does("swap", l, m, 0, 0, <<>>)
    /\ UNCHANGED out

SubstrOf(l, m, o, n) ==
    /\ Uses("substr_of")
    /\ o + n <= bl[m].len
    /\ Step([bl EXCEPT ![l] = substr_of(@, bl[m], o, n)], mem)
    /\ Does("substr_of", l, m, o, n, <<>>)
    /\ UNCHANGED out

\* splice(o, n, NULL); n may reach past the end.
Splice(l, o, n) ==
    /\ Uses("splice")
    /\ n > 0 /\ o < bl[l].len
    /\ Step([bl EXCEPT ![l] = splice(@, o, n, EmptyList).b], mem)
    /\ Does("splice", l, l, o, n, <<>>)
    /\ UNCHANGED out

SpliceTo(l, m, o, n) ==
    /\ Uses("splice_to")
    /\ n > 0 /\ o < bl[l].len
    /\ LET s == splice(bl[l], o, n, bl[m])
       IN  Step([bl EXCEPT ![l] = s.b, ![m] = s.by], mem)
    /\ Does("splice_to", l, m, o, n, <<>>)
    /\ UNCHANGED out

\* copy(off, len, char*) checks the length, copy(off, len, string) does not.
Copy(l, o, n) ==
    /\ Uses("copy")
    /\ LET b == bl[l]
           it == Cursor(b, o)
           ps == Pieces(b.buffers, it, n)
       IN  /\ out' = FlattenSeq([i \in DOMAIN ps |-> c_str(mem, ps[i])])
           /\ Step([bl EXCEPT ![l].last_p = advance(b.buffers, it, Total(ps))], mem)
    /\ Does("copy", l, l, o, n, <<>>)

\* copy(off, len, list&).
CopyList(l, m, o, n) ==
    /\ Uses("copy_list")
    /\ o + n <= bl[l].len
    /\ LET b == bl[l]
           it == Cursor(b, o)
           ps == Pieces(b.buffers, it, n)
       IN  Step([bl EXCEPT ![l].last_p = advance(b.buffers, it, Total(ps)),
                           ![m] = FoldLeft(LAMBDA c, p : append_ptr(c, p, 0, p.len), @, ps)],
                mem)
    /\ Does("copy_list", l, m, o, n, <<>>)
    /\ UNCHANGED out

CopyIn(l, o, d) ==
    /\ Uses("copy_in")
    /\ o + Len(d) <= bl[l].len
    /\ LET b == bl[l]
           it == Cursor(b, o)
           ps == Pieces(b.buffers, it, Len(d))
       IN  Step([bl EXCEPT ![l].last_p = advance(b.buffers, it, Total(ps))],
                WritePieces(mem, ps, d))
    /\ Does("copy_in", l, l, o, 0, d)
    /\ UNCHANGED out

\* copy_in(off, len, list) checks nothing: it throws at the end of the list
\* with the bytes up to there written. The lists share no raw: memcpy of
\* overlapping memory is undefined.
CopyInList(l, m, o, n) ==
    /\ Uses("copy_in_list")
    /\ Refs(bl[l]) \cap Refs(bl[m]) \subseteq {0}
    /\ LET b == bl[l]
           d == SubSeq(Contents(mem, bl[m]), 1, Min({n, bl[m].len}))
           it == Cursor(b, o)
           ps == Pieces(b.buffers, it, Len(d))
       IN  Step([bl EXCEPT ![l].last_p = advance(b.buffers, it, Total(ps))],
                WritePieces(mem, ps, d))
    /\ Does("copy_in_list", l, m, o, n, <<>>)
    /\ UNCHANGED out

Zero(l, o, n) ==
    /\ Uses("zero")
    /\ o + n <= bl[l].len
    /\ Step(bl, ZeroLoop(mem, bl[l].buffers, 1, 0, o, n))
    /\ Does("zero", l, l, o, n, <<>>)
    /\ UNCHANGED out

\* rebuild(), and c_str() of a list of several segments.
Rebuild(l) ==
    /\ Uses("rebuild")
    /\ FreeRaws # {}
    /\ LET s == rebuild([b |-> bl[l], m |-> mem])
       IN  Step([bl EXCEPT ![l] = s.b], s.m)
    /\ Does("rebuild", l, l, 0, 0, <<>>)
    /\ UNCHANGED out

\* get_contiguous(): the caller reads n bytes from the pointer it is given.
GetContiguous(l, o, n) ==
    /\ Uses("get_contiguous")
    /\ n > 0 /\ o + n <= bl[l].len
    /\ LET at == Skip(bl[l].buffers, 1, o)
           cur == bl[l].buffers[at.c]
       IN  IF at.o + n > cur.len
           THEN /\ FreeRaws # {}
                /\ LET s == rebuild([b |-> bl[l], m |-> mem])
                   IN  /\ out' = SubSeq(c_str(s.m, s.b.buffers[1]), o + 1, o + n)
                       /\ Step([bl EXCEPT ![l] = s.b], s.m)
           ELSE /\ out' = SubSeq(c_str(mem, cur), at.o + 1, at.o + n)
                /\ Step(bl, mem)
    /\ Does("get_contiguous", l, l, o, n, <<>>)

Next ==
    \E l \in client.lists :
        \/ \E d \in Data : \/ Append_(l, d) \/ PushBack(l, d) \/ PushFront(l, d)
                           \/ \E o \in 0 .. MaxLen : CopyIn(l, o, d)
        \/ Clear(l) \/ Rebuild(l)
        \/ \E o \in 0 .. MaxLen, n \in 0 .. MaxLen :
              \/ Splice(l, o, n) \/ Copy(l, o, n) \/ Zero(l, o, n)
              \/ GetContiguous(l, o, n)
              \/ \E m \in client.lists \ {l} :
                    \/ SubstrOf(l, m, o, n) \/ SpliceTo(l, m, o, n)
                    \/ CopyList(l, m, o, n) \/ CopyInList(l, m, o, n)
        \/ \E m \in client.lists \ {l} :
              \/ AppendList(l, m) \/ ClaimAppend(l, m) \/ ClaimPrepend(l, m)
              \/ Claim(l, m) \/ Assign(l, m) \/ Share(l, m) \/ Swap(l, m)

Spec == Init /\ [][Next]_vars

-----------------------------------------------------------------------------
\* Properties.

\* The locations of a list's bytes, in order.
Locations(b) ==
    FlattenSeq([i \in DOMAIN b.buffers |->
        [j \in 1 .. b.buffers[i].len |-> <<b.buffers[i].raw, b.buffers[i].off + j>>]])

\* The locations the next appends to b are written to.
Spare(b) ==
    LET ab == b.append_buffer
    IN  {<<ab.raw, end(ab) + j>> : j \in 1 .. unused_tail_length(mem, ab)}

\* However lists were copied, claimed and cut up: what append() is about to
\* write in place is shown by no list and is not the spare room of another.
TailPrivate ==
    \A l, m \in List :
        /\ Spare(bl[l]) \cap Range(Locations(bl[m])) = {}
        /\ l # m => Spare(bl[l]) \cap Spare(bl[m]) = {}

\* Operations that move or free the nodes last_p may be in without telling it.
Reshaping == {"push_front", "claim_prepend", "assign", "rebuild", "get_contiguous"}

\* In a program that does not reshape lists, last_p is where it says it is.
CursorAgrees ==
    client.ops \cap Reshaping = {} =>
        \A l \in List :
            LET b == bl[l] IN
            b.last_p.p # End =>
                /\ b.last_p.poff < b.buffers[b.last_p.p].len
                /\ b.last_p.off = Total(SubSeq(b.buffers, 1, b.last_p.p - 1)) + b.last_p.poff

\* The bytes at the locations that lists show.
Store ==
    [x \in UNION {Range(Locations(bl[l])) : l \in List} |-> mem[x[1]][x[2]]]

Flat == INSTANCE ByteLists WITH text <- [l \in List |-> Locations(bl[l])],
                                size <- [l \in List |-> bl[l].len],
                                store <- Store

\* Each call does to the segments, lengths, raws and iterators what it would do to
\* one sequence of bytes: see ByteLists.
ImplementsByteLists == Flat!Spec
=============================================================================
