------------------------------- MODULE Malloc --------------------------------
(***************************************************************************)
(* franken/malloc/malloc.c: blocks of powers of two, one free list for     *)
(* each size, memory from mmap() when a list is empty, a header before     *)
(* what the caller gets, and alignment by leaving bytes before the header. *)
(* Threads are cooperative and nothing here gives way, so that every       *)
(* operation is one step (malloc_lock() is empty).                         *)
(*                                                                         *)
(* Addresses are numbers and sizes have the widths of the C types, both    *)
(* scaled down.  A call that returns NULL changes nothing.                 *)
(***************************************************************************)
EXTENDS Integers, Sequences, FiniteSets, FiniteSetsExt, Functions

CONSTANTS
    Overhead,     \* sizeof(union overhead)
    MINSHIFT, MINALIGN,
    PAGESZ,       \* a power of two, as are Overhead and MINALIGN
    INTBITS,      \* width of int and unsigned
    SIZEBITS,     \* width of size_t
    NPages,       \* bound on the memory that mmap() has
    MaxLive,      \* bound on the blocks in use
    Align, Size   \* what callers ask for

(* 1 << k, before it is cut to the width of a type. *)
Pow2[k \in Nat] == IF k = 0 THEN 1 ELSE 2 * Pow2[k - 1]

PowersOfTwo == {Pow2[k] : k \in 0 .. SIZEBITS - 1}

ASSUME MallocAssumption ==
    /\ {Overhead, MINALIGN, PAGESZ} \subseteq PowersOfTwo
    /\ MINSHIFT \in Nat /\ INTBITS \in Nat /\ SIZEBITS \in Nat
    /\ NPages \in Nat /\ MaxLive \in Nat
    /\ Pow2[MINSHIFT] <= PAGESZ /\ MINALIGN <= Pow2[MINSHIFT] /\ Overhead <= PAGESZ
    /\ MINSHIFT < INTBITS /\ INTBITS <= SIZEBITS
    /\ Align \subseteq Nat /\ Size \subseteq 0 .. Pow2[SIZEBITS] - 1

VARIABLES
    nextf,        \* the free list of each bucket
    mapped,       \* pages that mmap() returned
    live          \* pointers in use: what was asked for, and the header

vars == <<nextf, mapped, live>>

Bucket == 0 .. INTBITS - 1 - MINSHIFT
NoBucket == -1
BlockSize(b) == Pow2[b + MINSHIFT]

Init ==
    /\ nextf = [b \in Bucket |-> <<>>]
    /\ mapped = {}
    /\ live = [cp \in {} |-> 0]

-----------------------------------------------------------------------------

(* (x + align - 1) & ~(align - 1) *)
RoundUp(x, align) == ((x + align - 1) \div align) * align

AtLeast(align) == Max({align, MINALIGN})

(* "need at least this many bytes plus header to satisfy alignment" *)
AllocBytesHeader(align, nbytes) ==      \* mutant: the header, but not the padding
    (nbytes + Overhead) % Pow2[SIZEBITS]
AllocBytes(align, nbytes) ==
    (nbytes + RoundUp(Overhead, align)) % Pow2[SIZEBITS]

(* The bucket that pagesz falls into, and the loop that doubles amt from the
   first bucket, or from a page, until it suffices or is shifted to 0. *)
pagebucket == Min({b \in Bucket : BlockSize(b) >= PAGESZ})

BucketFor(allocbytes) ==
    LET first == IF allocbytes <= PAGESZ THEN 0 ELSE pagebucket
        enough == {b \in Bucket : b >= first /\ BlockSize(b) >= allocbytes}
    IN  IF enough = {} THEN NoBucket ELSE Min(enough)

(* morecore(): fresh pages wherever mmap() finds them, cut into blocks. *)
CoreSize(b) == Max({BlockSize(b), PAGESZ})
PagesAt(addr, len) == {p \in 1 .. NPages : addr <= p * PAGESZ /\ p * PAGESZ < addr + len}

Cut(addr, b) == [i \in 1 .. CoreSize(b) \div BlockSize(b) |-> addr + (i - 1) * BlockSize(b)]

Morecore(b) ==
    {[nextf  |-> [nextf EXCEPT ![b] = Cut(p * PAGESZ, b)],
      mapped |-> mapped \cup PagesAt(p * PAGESZ, CoreSize(b))] :
        p \in {p \in 1 .. NPages : /\ (p - 1) * PAGESZ + CoreSize(b) <= NPages * PAGESZ
                                   /\ PagesAt(p * PAGESZ, CoreSize(b)) \cap mapped = {}}}

(* aligned_alloc(): the states it may leave when it returns a pointer.  The
   header lies before the pointer and says how far back the block begins. *)
Taken(heap, b, align) ==
    LET op == Head(heap.nextf[b])
        rv == RoundUp(op + Overhead, align)
    IN  [nextf    |-> [heap.nextf EXCEPT ![b] = Tail(@)],
         mapped   |-> heap.mapped,
         cp       |-> rv,
         alignpad |-> rv - op,
         index    |-> b]

Heaps(b) ==
    IF b = NoBucket THEN {}
    ELSE IF nextf[b] = <<>> THEN Morecore(b)
    ELSE {[nextf |-> nextf, mapped |-> mapped]}

aligned_alloc(align, nbytes) ==
    LET a == AtLeast(align)
        b == BucketFor(AllocBytes(a, nbytes))
    IN  IF align # 0 /\ align \notin PowersOfTwo THEN {}
        ELSE {Taken(h, b, a) : h \in Heaps(b)}

(* free(): the block goes to the front of its list. *)
OriginHeader(cp, blk) == cp - Overhead  \* mutant of Origin
Origin(cp, blk) == cp - blk.alignpad

Freed(fl, cp) ==
    [fl EXCEPT ![live[cp].index] = <<Origin(cp, live[cp])>> \o @]

(* What realloc() thinks a block holds: 1 << (size + MINSHIFT) is an int. *)
IntShift(k) ==
    LET v == Pow2[k] % Pow2[INTBITS]
    IN  IF v >= Pow2[INTBITS - 1] THEN v - Pow2[INTBITS] ELSE v

RoomWhole(blk) == IntShift(blk.index + MINSHIFT) % Pow2[SIZEBITS]         \* mutant of Room
Room(blk) == (IntShift(blk.index + MINSHIFT) - blk.alignpad) % Pow2[SIZEBITS]

-----------------------------------------------------------------------------

Block(r, align, nbytes) ==
    [req |-> nbytes, align |-> AtLeast(align), alignpad |-> r.alignpad, index |-> r.index]

(* malloc(), calloc(), posix_memalign(), strdup(). *)
Alloc(align, nbytes) ==
    /\ Cardinality(DOMAIN live) < MaxLive
    /\ \E r \in aligned_alloc(align, nbytes) :
          /\ nextf' = r.nextf
          /\ mapped' = r.mapped
          /\ live' = [cp \in DOMAIN live \cup {r.cp} |->
                        IF cp = r.cp THEN Block(r, align, nbytes) ELSE live[cp]]

Free(cp) ==
    /\ nextf' = Freed(nextf, cp)
    /\ live' = Restrict(live, DOMAIN live \ {cp})
    /\ UNCHANGED mapped

(* realloc() of a block that is big enough, of one that is not, and to 0. *)
ReallocStay(cp, nbytes) ==
    /\ nbytes # 0 /\ Room(live[cp]) >= nbytes
    /\ live' = [live EXCEPT ![cp].req = nbytes]
    /\ UNCHANGED <<nextf, mapped>>

ReallocMove(cp, nbytes) ==
    /\ nbytes # 0 /\ Room(live[cp]) < nbytes
    /\ \E r \in aligned_alloc(0, nbytes) :
          /\ nextf' = Freed(r.nextf, cp)
          /\ mapped' = r.mapped
          /\ live' = [c \in (DOMAIN live \ {cp}) \cup {r.cp} |->
                        IF c = r.cp THEN Block(r, 0, nbytes) ELSE live[c]]

Realloc(cp, nbytes) ==
    \/ ReallocStay(cp, nbytes)
    \/ ReallocMove(cp, nbytes)
    \/ nbytes = 0 /\ Free(cp)

Next ==
    \/ \E align \in Align, nbytes \in Size : Alloc(align, nbytes)
    \/ \E cp \in DOMAIN live : Free(cp)
    \/ \E cp \in DOMAIN live, nbytes \in Size : Realloc(cp, nbytes)

Spec == Init /\ [][Next]_vars

-----------------------------------------------------------------------------

Address == 0 .. (NPages + 1) * PAGESZ

TypeOK ==
    /\ nextf \in [Bucket -> Seq(Address)]
    /\ mapped \subseteq 1 .. NPages
    /\ DOMAIN live \subseteq Address
    /\ \A cp \in DOMAIN live :
          live[cp] \in [req : Size, align : Nat, alignpad : Nat, index : Bucket]

Bytes(addr, len) == addr .. addr + len - 1

FreeBlocks == UNION {{<<b, i>> : i \in DOMAIN nextf[b]} : b \in Bucket}
FreeBytes(f) == Bytes(nextf[f[1]][f[2]], BlockSize(f[1]))
LiveBytes(cp) == Bytes(cp - live[cp].alignpad, BlockSize(live[cp].index))
MappedBytes == UNION {Bytes(p * PAGESZ, PAGESZ) : p \in mapped}

(* Whatever the order of calls, every byte of mapped memory belongs to one
   block, in use or on one free list: no byte is handed out twice, is both in
   use and free, or is lost; blocks are found again from the pointers that
   alignment has moved (aligned_alloc, morecore, free, realloc). *)
HeapPartition ==
    /\ \A f, g \in FreeBlocks : f # g => FreeBytes(f) \cap FreeBytes(g) = {}
    /\ \A cp, cq \in DOMAIN live : cp # cq => LiveBytes(cp) \cap LiveBytes(cq) = {}
    /\ \A f \in FreeBlocks, cp \in DOMAIN live : FreeBytes(f) \cap LiveBytes(cp) = {}
    /\ (UNION {FreeBytes(f) : f \in FreeBlocks}) \cup (UNION {LiveBytes(cp) : cp \in DOMAIN live})
         = MappedBytes

(* What a caller gets is aligned as it asked, also beyond a page, and it and
   its header lie inside the block, for what was asked first and for what
   realloc() has made of it. *)
LiveFits ==
    \A cp \in DOMAIN live :
        /\ cp % live[cp].align = 0
        /\ Bytes(cp - Overhead, Overhead + live[cp].req) \subseteq LiveBytes(cp)

(* realloc() copies all that was asked for into a new block, and no more than
   the old one and the new one hold. *)
CopyInBounds(old, new) ==
    /\ old.req <= Room(old)
    /\ Room(old) <= BlockSize(old.index) - old.alignpad
    /\ Room(old) <= BlockSize(new.index) - new.alignpad

ReallocKeeps ==
    [][\A cp \in DOMAIN live, np \in DOMAIN live' :
          cp \notin DOMAIN live' /\ np \notin DOMAIN live => CopyInBounds(live[cp], live'[np])]_vars
=============================================================================
