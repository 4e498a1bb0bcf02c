----------------------------- MODULE Allocator -----------------------------
(***************************************************************************)
(* Memory_Management_in_Linux: my_malloc, my_free and my_realloc over a    *)
(* list of blocks carved from memory that sbrk hands out.  The memory is a *)
(* row of cells, and a cell holds the name of whoever wrote it last: an    *)
(* object of the caller's, the allocator (the header of a block), or libc, *)
(* which moves the break for its own purposes (the buffer of printf) and   *)
(* writes what it took whenever it likes.                                  *)
(***************************************************************************)
EXTENDS Integers, Sequences, FiniteSets, SequencesExt

CONSTANTS Objects,    \* what the caller keeps in allocated memory
          Meta,       \* sizeof(meta_block_t)
          MaxSize,    \* bound: sizes asked for
          MaxBreak    \* bound: where sbrk begins to fail

ASSUME HeapAssumption == {Meta, MaxSize} \subseteq Nat \ {0} /\ MaxBreak \in Nat
ASSUME WritersAssumption == Objects \cap {"meta", "libc", "none"} = {}

VARIABLES list,  \* the blocks in list order: [at, size, free]
          brk,   \* the program break
          mem,   \* who wrote each cell last
          live,  \* the caller's pointers: object -> [ptr, size]
          libcSbrk, \* libc moves the break too, in this execution
          libcCells, \* what libc has taken
          bridged    \* history: my_free has merged a block over libc's memory

heap == <<list, brk, mem, live, libcSbrk, libcCells, bridged>>

Cells == 0 .. MaxBreak - 1
Null == [ptr |-> -1, size |-> 0]
Span(a, n) == a .. a + n - 1

AllocInit == /\ list = << >> /\ brk = 0
             /\ mem = [c \in Cells |-> "none"]
             /\ live = [o \in Objects |-> Null]
             /\ libcSbrk \in BOOLEAN /\ libcCells = {} /\ bridged = FALSE

Written(m, cells, w) == [c \in Cells |-> IF c \in cells THEN w ELSE m[c]]

-----------------------------------------------------------------------------
(* my_malloc: first fit, split when the rest can hold a block, else sbrk *)

Block(a, n, f) == [at |-> a, size |-> n, free |-> f]
Payload(b) == b.at + Meta
End(b) == b.at + Meta + b.size

\* Mutated Remainder: the new header is not subtracted from the rest.
RemainderTooBig(b, n) == Block(Payload(b) + n, b.size - n, TRUE)

\* The free block that splitting b at n leaves.
Remainder(b, n) == Block(Payload(b) + n, b.size - n - Meta, TRUE)

Splits(b, n) == b.size > n + Meta

\* Mutated Carve: the block is split and stays marked free.
CarveLeftFree(l, i, n) ==
  IF Splits(l[i], n) THEN SubSeq(l, 1, i - 1) \o <<Block(l[i].at, n, l[i].free), Remainder(l[i], n)>>
                            \o SubSeq(l, i + 1, Len(l))
                     ELSE [l EXCEPT ![i].free = FALSE]

\* Block i becomes a block in use of n cells, or stays whole.
Carve(l, i, n) ==
  IF Splits(l[i], n) THEN SubSeq(l, 1, i - 1) \o <<Block(l[i].at, n, FALSE), Remainder(l[i], n)>>
                            \o SubSeq(l, i + 1, Len(l))
                     ELSE [l EXCEPT ![i].free = FALSE]

\* The header that carving block i writes, if any.
NewHeader(l, i, n) ==
  IF Splits(l[i], n) THEN Span(Remainder(l[i], n).at, Meta) ELSE {}

Fits(l, n) == {i \in DOMAIN l : l[i].free /\ l[i].size >= n}

\* The list, break, memory and pointer after my_malloc(n) over the list l.
Malloc(l, n) ==
  IF Fits(l, n) # {} THEN
    LET i == CHOOSE i \in Fits(l, n) : \A j \in Fits(l, n) : i <= j
    IN  [list |-> Carve(l, i, n), brk |-> brk, ptr |-> Payload(l[i]),
         mem |-> Written(mem, NewHeader(l, i, n), "meta")]
  ELSE IF brk + Meta + n <= MaxBreak THEN
    [list |-> Append(l, Block(brk, n, FALSE)), brk |-> brk + Meta + n,
     ptr |-> brk + Meta, mem |-> Written(mem, Span(brk, Meta), "meta")]
  ELSE [list |-> l, brk |-> brk, ptr |-> -1, mem |-> mem]

-----------------------------------------------------------------------------
(* my_free: mark the block, then one pass over the list that merges pairs *)

Merge(b, c) == Block(b.at, b.size + Meta + c.size, TRUE)

\* current moves on to the block after the merged pair: a third free block in
\* a row is left alone.
MergePass(l) ==
  LET pass[i \in 1 .. Len(l) + 1] ==
        IF i >= Len(l) THEN SubSeq(l, i, Len(l))
        ELSE IF l[i].free /\ l[i + 1].free THEN <<Merge(l[i], l[i + 1])>> \o pass[i + 2]
        ELSE <<l[i]>> \o pass[i + 1]
  IN  pass[1]

BlockOf(l, p) == CHOOSE i \in DOMAIN l : Payload(l[i]) = p
FreeBlock(l, p) == MergePass([l EXCEPT ![BlockOf(l, p)].free = TRUE])

-----------------------------------------------------------------------------
(* The caller: it fills what it gets with the object's name *)

\* A walk along the list reads the headers.  Once libc has written over one,
\* what the next call does is undefined, and the caller makes no more.
HeadersWhole == \A i \in DOMAIN list : \A c \in Span(list[i].at, Meta) : mem[c] = "meta"

\* A block of l reaches over memory of libc's: the blocks that my_free merges
\* follow each other in the list, and libc's memory may lie between them.
Over(l) == \E i \in DOMAIN l : Span(l[i].at, Meta + l[i].size) \cap libcCells # {}

Keep(r) == list' = r.list /\ brk' = r.brk

CallMalloc(o) ==
  /\ live[o] = Null
  /\ \E n \in 1 .. MaxSize : LET r == Malloc(list, n) IN
       /\ Keep(r)
       /\ live' = IF r.ptr = -1 THEN live ELSE [live EXCEPT ![o] = [ptr |-> r.ptr, size |-> n]]
       /\ mem' = IF r.ptr = -1 THEN mem ELSE Written(r.mem, Span(r.ptr, n), o)
  /\ UNCHANGED bridged

CallFree(o) ==
  /\ live[o] # Null
  /\ list' = FreeBlock(list, live[o].ptr)
  /\ live' = [live EXCEPT ![o] = Null]
  /\ bridged' = (bridged \/ Over(list'))
  /\ UNCHANGED <<brk, mem>>

\* my_realloc within the block: the rest is split off.
ReallocInPlace(o, n) ==
  LET i == BlockOf(list, live[o].ptr) IN
  /\ list[i].size >= n
  /\ list' = Carve(list, i, n)
  /\ live' = [live EXCEPT ![o].size = n]
  /\ mem' = Written(Written(mem, NewHeader(list, i, n), "meta"),
                    Span(live[o].ptr, n) \ Span(live[o].ptr, live[o].size), o)
  /\ UNCHANGED <<brk, bridged>>

Copied(m, from, to, n) ==
  [c \in Cells |-> IF c \in Span(to, n) THEN m[c - to + from] ELSE m[c]]

\* Mutated ReallocMove: the old block is freed before its content is copied.
ReallocMoveFreed(o, n) ==
  LET p == live[o].ptr  old == list[BlockOf(list, p)].size
      r == Malloc(FreeBlock(list, p), n) IN
  /\ old < n
  /\ brk' = r.brk
  /\ IF r.ptr = -1 THEN UNCHANGED <<list, mem, live, bridged>>
     ELSE /\ list' = r.list
          /\ live' = [live EXCEPT ![o] = [ptr |-> r.ptr, size |-> n]]
          /\ mem' = Written(Copied(r.mem, p, r.ptr, old),
                            Span(r.ptr, n) \ Span(r.ptr, live[o].size), o)
          /\ bridged' = (bridged \/ Over(list'))

\* my_realloc into a new block: allocate, copy the old block, free it.
ReallocMove(o, n) ==
  LET p == live[o].ptr  old == list[BlockOf(list, p)].size  r == Malloc(list, n) IN
  /\ old < n
  /\ brk' = r.brk
  /\ IF r.ptr = -1 THEN UNCHANGED <<list, mem, live, bridged>>
     ELSE /\ list' = FreeBlock(r.list, p)
          /\ live' = [live EXCEPT ![o] = [ptr |-> r.ptr, size |-> n]]
          /\ mem' = Written(Copied(r.mem, p, r.ptr, old),
                            Span(r.ptr, n) \ Span(r.ptr, live[o].size), o)
          /\ bridged' = (bridged \/ Over(list'))

CallRealloc(o) == /\ live[o] # Null
                  /\ \E n \in 1 .. MaxSize : ReallocInPlace(o, n) \/ ReallocMove(o, n)

\* libc moves the break for itself and uses the memory.
LibcGrows == /\ libcSbrk
             /\ \E n \in 1 .. MaxSize :
                  /\ brk + n <= MaxBreak
                  /\ brk' = brk + n
                  /\ mem' = Written(mem, Span(brk, n), "libc")
                  /\ libcCells' = libcCells \cup Span(brk, n)
             /\ UNCHANGED <<list, live, bridged>>

\* libc writes its memory again, whoever has written it since.
LibcWrites == /\ \E c \in libcCells : mem' = Written(mem, {c}, "libc")
              /\ UNCHANGED <<list, brk, live, libcCells, bridged>>

AllocNext == /\ \/ /\ HeadersWhole
                   /\ \E o \in Objects : CallMalloc(o) \/ CallFree(o) \/ CallRealloc(o)
                   /\ UNCHANGED libcCells
                \/ LibcGrows
                \/ LibcWrites
             /\ UNCHANGED libcSbrk

AllocSpec == AllocInit /\ [][AllocNext]_heap

-----------------------------------------------------------------------------
(* Properties *)

\* Who besides its owner may have written a cell of an object or a header: until
\* my_free has merged two blocks over memory of libc's, nobody.
Strays == IF bridged THEN {"libc"} ELSE {}

\* Nothing an object was given is written by anyone else until it is freed, and
\* no header by anyone but the allocator: no two blocks overlap, no header lands
\* in a payload, realloc copies all.  Nor is libc's memory written.  Only the
\* merge over libc's memory ends this: from then on libc's writes, and no
\* others, may appear in an object or a header, and libc's memory is not safe.
Intact ==
  /\ \A o \in Objects : \A c \in Span(live[o].ptr, live[o].size) : mem[c] \in {o} \cup Strays
  /\ \A i \in DOMAIN list : \A c \in Span(list[i].at, Meta) : mem[c] \in {"meta"} \cup Strays
  /\ ~ bridged => \A c \in libcCells : mem[c] = "libc"

\* If libc leaves the break alone, the blocks tile what sbrk has handed out,
\* in the order of the list: no cell is lost or in two blocks.
Tiled == ~ libcSbrk =>
  /\ \A i \in 1 .. Len(list) - 1 : End(list[i]) = list[i + 1].at
  /\ list # << >> => list[1].at = 0 /\ End(Last(list)) = brk
  /\ list = << >> => brk = 0

\* The blocks in use are those of the live objects, one each and large enough:
\* no block is lost, none is handed out twice.
BlocksOwned ==
  /\ \A i \in DOMAIN list : ~ list[i].free =>
       Cardinality({o \in Objects : live[o].ptr = Payload(list[i])}) = 1
  /\ \A o \in Objects : live[o] # Null => \E i \in DOMAIN list :
       Payload(list[i]) = live[o].ptr /\ ~ list[i].free /\ list[i].size >= live[o].size
=============================================================================
