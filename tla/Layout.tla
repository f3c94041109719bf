------------------------------- MODULE Layout -------------------------------
(***************************************************************************)
(* How a message lies in its segments: capnp/src/private/layout.rs with    *)
(* the builder's arena.  A message is a sequence of segments of words; a   *)
(* word is data, a pointer or zero.  Pointers and sizes count words, and   *)
(* elements smaller than a word are left out, so a list holds void, data   *)
(* words, pointers or structs ("composite").                               *)
(*                                                                         *)
(* The operations of PointerBuilder change the segments; beside them the   *)
(* variable `tree' keeps the value the application has built, changed by   *)
(* what each operation means.                                              *)
(***************************************************************************)
EXTENDS Integers, Sequences, FiniteSets, SequencesExt

CONSTANTS
    SegmentWords,   \* the sizes to try for HeapAllocator::first_segment_words
    StructSizes,    \* the struct sizes in use, records [d, p]
    ListSizes,      \* the lengths of lists of void, data and pointers in use
    StructLists,    \* the lengths of lists of structs in use
    Caps,           \* capabilities
    MaxDepth,       \* bound: how deep the application looks
    MaxOps          \* bound: operations on the message

ASSUME BoundsAssumption ==
    /\ SegmentWords \subseteq Nat \ {0}
    /\ StructSizes \subseteq [d : Nat, p : Nat]
    /\ ListSizes \cup StructLists \subseteq Nat

VARIABLES
    segments,   \* the segments of the message under construction
    tree,       \* the value the application has built in it
    sent,       \* an earlier state of the message, as a reader has it
    orphans,    \* an operation left an object behind without clearing it
    ops         \* operations so far

vars == <<segments, tree, sent, orphans, ops>>

-----------------------------------------------------------------------------
(* Words.  The all-zero word is the null pointer, a zero of data and the   *)
(* tag of a list of no elements of no size.                                *)

Zero == [k |-> "zero"]
DataWord(v) == [k |-> "data", v |-> v]
Far(double, s, i) == [k |-> "far", double |-> double, s |-> s, i |-> i]
Struct(off, d, p) == [k |-> "struct", off |-> off, d |-> d, p |-> p]
List(off, es, n) == [k |-> "list", off |-> off, es |-> es, n |-> n]
CapPointer(c) == [k |-> "cap", c |-> c]

Encoded(w) == IF w = Struct(0, 0, 0) THEN Zero ELSE w
Decoded(w) == IF w = Zero THEN Struct(0, 0, 0) ELSE w

Larger(x, y) == IF x > y THEN x ELSE y

\* A word's address: its segment and its place there.
Shift(a, n) == <<a[1], a[2] + n>>
Root == <<1, 1>>

At(m, a) == m[a[1]].words[a[2]]
Put(m, a, w) == [m EXCEPT ![a[1]].words[a[2]] = Encoded(w)]
Zeroes(n) == [i \in 1 .. n |-> Zero]
Zeroed(m, a, n) ==
    [m EXCEPT ![a[1]].words =
        SubSeq(@, 1, a[2] - 1) \o Zeroes(n) \o SubSeq(@, a[2] + n, Len(@))]
Inside(m, a, n) ==
    a[1] \in DOMAIN m /\ a[2] >= 1 /\ a[2] + n - 1 =< Len(m[a[1]].words)

\* The pointer w, to be stored at a, now aimed at b.
Aimed(w, a, b) == [w EXCEPT !.off = b[2] - a[2] - 1]

-----------------------------------------------------------------------------
(* The arena *)

Room(m, s, n) == n =< m[s].capacity - Len(m[s].words)
Extended(m, s, n) == [m EXCEPT ![s].words = @ \o Zeroes(n)]

\* The allocator's next_size stays what it was for the first segment
\* (AllocationStrategy::FixedSize).
allocate_segment(m, n) ==
    Append(m, [capacity |-> Larger(n, m[1].capacity), words |-> << >>])

\* The first segment with room, or a new one.
AllocateIn(m, s, n) == [m |-> Extended(m, s, n), at |-> <<s, Len(m[s].words) + 1>>]
allocate_anywhere(m, n) ==
    IF \E s \in DOMAIN m : Room(m, s, n)
    THEN AllocateIn(m, CHOOSE s \in DOMAIN m : Room(m, s, n) /\ \A r \in 1 .. s - 1 : ~Room(m, r, n), n)
    ELSE AllocateIn(allocate_segment(m, n), Len(m) + 1, n)

-----------------------------------------------------------------------------
(* Objects *)

Target(far) == <<far.s, far.i>>
PadWords(far) == IF far.double THEN 2 ELSE 1

\* Where the object of the pointer w at a lies, and the word that describes
\* it; the tag is "bad" where a landing pad would lie outside its segment.
Landed(pad, tag) == [ptr |-> Shift(pad, 1 + tag.off), tag |-> tag]
Followed(m, a, w) ==
    CASE w.k \in {"struct", "list"} -> Landed(a, w)
      [] w.k = "cap" -> [ptr |-> a, tag |-> w]
      [] w.k = "far" /\ ~Inside(m, Target(w), PadWords(w)) -> [ptr |-> a, tag |-> [k |-> "bad"]]
      [] w.k = "far" /\ w.double ->
             [ptr |-> Target(At(m, Target(w))), tag |-> Decoded(At(m, Shift(Target(w), 1)))]
      [] OTHER -> Landed(Target(w), Decoded(At(m, Target(w))))
follow_fars(m, a) == Followed(m, a, Decoded(At(m, a)))

data_per_element == [void |-> 0, data |-> 1, pointer |-> 0]
pointers_per_element == [void |-> 0, data |-> 0, pointer |-> 1]

Header(tag) == IF tag.k = "list" /\ tag.es = "composite" THEN 1 ELSE 0

\* Every object is a row of n elements of d data words and p pointers: a
\* struct has one, and a list of structs says them in its first word.
Row(n, d, p, base) == [n |-> n, d |-> d, p |-> p, base |-> base]
Tagged(tag, ptr) == Row(tag.off, tag.d, tag.p, Shift(ptr, 1))
View(m, tag, ptr) ==
    CASE tag.k \in {"cap", "bad"} -> Row(0, 0, 0, ptr)
      [] tag.k = "struct" -> Row(1, tag.d, tag.p, ptr)
      [] tag.k = "list" /\ tag.es # "composite" ->
             Row(tag.n, data_per_element[tag.es], pointers_per_element[tag.es], ptr)
      [] OTHER -> IF Inside(m, ptr, 1)
                  THEN Tagged(Decoded(At(m, ptr)), ptr)
                  ELSE Row(0, 0, 0, ptr)

\* The object that the pointer at a owns: the pointer w itself, the word that
\* describes the object (tag), its place and its elements (v).
Described(m, w, f) == [w |-> w, tag |-> f.tag, ptr |-> f.ptr, v |-> View(m, f.tag, f.ptr)]
Object(m, a) == Described(m, Decoded(At(m, a)), follow_fars(m, a))
IsNull(o) == o.w = Struct(0, 0, 0)

Words(v) == v.n * (v.d + v.p)
DataAt(v, e, i) == Shift(v.base, e * (v.d + v.p) + i)
PointerAt(v, e, j) == Shift(v.base, e * (v.d + v.p) + v.d + j)
\* The places of the first p pointers of each element, in order.
Pointers(v, p) ==
    [x \in 1 .. v.n * p |-> PointerAt(v, (x - 1) \div p, (x - 1) % p)]
Size(o) == Header(o.tag) + Words(o.v)

\* Mutant: the second word of a double landing pad is forgotten.
WithoutFirstPad(m, w) == IF w.k = "far" THEN Zeroed(m, Target(w), 1) ELSE m
WithoutPads(m, w) == IF w.k = "far" THEN Zeroed(m, Target(w), PadWords(w)) ELSE m

\* Zeroes what the pointer at a owns: all below the object, the object, the pads.
RECURSIVE zero_object(_, _)
ZeroTree(m, o) ==
    WithoutPads(Zeroed(FoldLeft(LAMBDA x, b : zero_object(x, b), m, Pointers(o.v, o.v.p)),
                       o.ptr, Size(o)),
                o.w)
zero_object(m, a) == ZeroTree(m, Object(m, a))

zero_pointer_and_fars(m, a) == Put(WithoutPads(m, At(m, a)), a, Zero)

\* Room for an object of n words that the pointer at a is to own: next to it,
\* or behind a landing pad in another segment.
Beside(m, a, n, shape, next) ==
    [m |-> Put(Extended(m, a[1], n), a, Aimed(shape, a, next)), ptr |-> next]
BehindPad(room, a, shape) ==
    [m |-> Put(Put(room.m, a, Far(FALSE, room.at[1], room.at[2])),
               room.at, Aimed(shape, room.at, Shift(room.at, 1))),
     ptr |-> Shift(room.at, 1)]
AllocateFor(m, a, n, shape) ==
    CASE n = 0 /\ shape.k = "struct" -> [m |-> Put(m, a, Aimed(shape, a, a)), ptr |-> a]
      [] Room(m, a[1], n) /\ ~(n = 0 /\ shape.k = "struct") ->
             Beside(m, a, n, shape, <<a[1], Len(m[a[1]].words) + 1>>)
      [] OTHER -> BehindPad(allocate_anywhere(m, n + 1), a, shape)
allocate(m, a, n, shape) ==
    AllocateFor(IF At(m, a) = Zero THEN m ELSE zero_object(m, a), a, n, shape)

-----------------------------------------------------------------------------
(* Moving objects that have become too small *)

\* Mutant: the landing pad gets the offset the pointer had.
ByPadUnaimed(m, dst, w, pad, obj) ==
    Put(Put(Extended(m, pad[1], 1), pad, w), dst, Far(FALSE, pad[1], pad[2]))
\* Makes the pointer at dst own the object of the pointer w at src: near, by a
\* landing pad beside the object, or by a double one where there is no room.
ByPad(m, dst, w, pad, obj) ==
    Put(Put(Extended(m, pad[1], 1), pad, Aimed(w, pad, obj)), dst, Far(FALSE, pad[1], pad[2]))
ByDoublePad(room, dst, w, obj) ==
    Put(Put(Put(room.m, room.at, Far(FALSE, obj[1], obj[2])),
            Shift(room.at, 1), [w EXCEPT !.off = 0]),
        dst, Far(TRUE, room.at[1], room.at[2]))
Transfer(m, dst, src, w, obj) ==
    CASE w.k \notin {"struct", "list"} -> Put(m, dst, w)
      [] w.k \in {"struct", "list"} /\ dst[1] = src[1] ->
             Put(m, dst, Aimed(w, dst, IF w = Struct(w.off, 0, 0) THEN dst ELSE obj))
      [] w.k \in {"struct", "list"} /\ dst[1] # src[1] /\ Room(m, src[1], 1) ->
             ByPad(m, dst, w, <<src[1], Len(m[src[1]].words) + 1>>, obj)
      [] OTHER -> ByDoublePad(allocate_anywhere(m, 2), dst, w, obj)
transfer_pointer(m, dst, src) ==
    Transfer(m, dst, src, At(m, src), Shift(src, 1 + At(m, src).off))

\* A fresh object of n elements for the pointer at a, and the view of it; a
\* list of structs starts with a header.
Headed(new, header, n, d, p) ==
    [m |-> IF header = 1 THEN Put(new.m, new.ptr, Struct(n, d, p)) ELSE new.m,
     v |-> Row(n, d, p, Shift(new.ptr, header))]
Fresh(m, a, header, n, d, p) ==
    Headed(allocate(m, a, header + n * (d + p),
                    IF header = 1 THEN List(0, "composite", n * (d + p)) ELSE Struct(0, d, p)),
           header, n, d, p)

\* Copies the first d data words of every element.
CopiedData(m, to, from, v, d) ==
    FoldLeft(LAMBDA x, y : Put(x, DataAt(to, (y - 1) \div d, (y - 1) % d),
                                  At(from, DataAt(v, (y - 1) \div d, (y - 1) % d))),
             m, [y \in 1 .. v.n * d |-> y])

\* The last words of the two upgrades clear the old place.
ZeroOldStruct(m, v) == Zeroed(m, v.base, Words(v))
ZeroOldList(m, tag, v) == Zeroed(m, Shift(v.base, -Header(tag)), Words(v))

\* Moves the elements of v to a fresh object with at least d data words and p pointers.
MovedInto(new, v) ==
    FoldLeft(LAMBDA x, i : transfer_pointer(x, Pointers(new.v, v.p)[i], Pointers(v, v.p)[i]),
             CopiedData(new.m, new.v, new.m, v, v.d),
             [i \in 1 .. v.n * v.p |-> i])
Moved(m, a, header, v, d, p) ==
    MovedInto(Fresh(zero_pointer_and_fars(m, a), a, header, v.n, Larger(v.d, d), Larger(v.p, p)), v)

WritableStruct(m, a, o, d, p) ==
    CASE IsNull(o)                                -> Fresh(m, a, 0, 1, d, p).m
      [] ~IsNull(o) /\ o.v.d >= d /\ o.v.p >= p -> m
      [] OTHER -> ZeroOldStruct(Moved(m, a, 0, o.v, d, p), o.v)
get_writable_struct_pointer(m, a, d, p) == WritableStruct(m, a, Object(m, a), d, p)

WritableStructList(m, a, o, d, p) ==
    IF IsNull(o) \/ (Header(o.tag) = 1 /\ o.v.d >= d /\ o.v.p >= p) THEN m
    ELSE ZeroOldList(Moved(m, a, 1, o.v, d, p), o.tag, o.v)
get_writable_struct_list_pointer(m, a, d, p) == WritableStructList(m, a, Object(m, a), d, p)

-----------------------------------------------------------------------------
(* Copying from another message *)

\* What canonicalisation keeps of the elements' sections: up to the last word
\* that is not zero in any of them.
UsedData(m, v) ==
    CHOOSE d \in 0 .. v.d :
        /\ \A e \in 0 .. v.n - 1, i \in d .. v.d - 1 : At(m, DataAt(v, e, i)) = Zero
        /\ d > 0 => \E e \in 0 .. v.n - 1 : At(m, DataAt(v, e, d - 1)) # Zero
\* Mutant: only the first element is looked at.
UsedPointersOfFirst(m, v) ==
    CHOOSE p \in 0 .. v.p :
        /\ \A j \in p .. v.p - 1 : v.n > 0 => At(m, PointerAt(v, 0, j)) = Zero
        /\ p > 0 => v.n > 0 /\ At(m, PointerAt(v, 0, p - 1)) # Zero
UsedPointers(m, v) ==
    CHOOSE p \in 0 .. v.p :
        /\ \A e \in 0 .. v.n - 1, j \in p .. v.p - 1 : At(m, PointerAt(v, e, j)) = Zero
        /\ p > 0 => \E e \in 0 .. v.n - 1 : At(m, PointerAt(v, e, p - 1)) # Zero

HasStructs(o) == o.tag.k = "struct" \/ Header(o.tag) = 1

\* set_struct_pointer and set_list_pointer below one copy_pointer: the pointer
\* at a gets a deep copy of the object o of the message src.
RECURSIVE copy_pointer(_, _, _, _, _)
CopyElements(new, src, v, canonicalize) ==
    FoldLeft(LAMBDA x, i : copy_pointer(x, Pointers(new.v, new.v.p)[i], src,
                                        Pointers(v, new.v.p)[i], canonicalize),
             CopiedData(new.m, new.v, src, v, new.v.d),
             [i \in 1 .. v.n * new.v.p |-> i])
Plain(new, v) == [m |-> new.m, v |-> [v EXCEPT !.base = new.ptr]]
CopyObject(m, a, src, o, canonicalize) ==
    CASE IsNull(o)         -> Put(m, a, Zero)
      [] o.tag.k = "cap" -> Put(m, a, o.tag)
      [] o.tag.k # "cap" /\ ~IsNull(o) /\ ~HasStructs(o) ->
             CopyElements(Plain(allocate(m, a, Words(o.v), o.tag), o.v), src, o.v, canonicalize)
      [] OTHER ->
             CopyElements(Fresh(m, a, Header(o.tag), o.v.n,
                                IF canonicalize THEN UsedData(src, o.v) ELSE o.v.d,
                                IF canonicalize THEN UsedPointers(src, o.v) ELSE o.v.p),
                          src, o.v, canonicalize)
copy_pointer(m, a, src, b, canonicalize) == CopyObject(m, a, src, Object(src, b), canonicalize)

\* The struct v of this message gets the content of the struct w of src: data
\* and pointers both have, and nothing in the others.
CopyContent(m, v, src, w, d, p) ==
    FoldLeft(LAMBDA x, j : copy_pointer(x, PointerAt(v, 0, j - 1), src,
                                        PointerAt(w, 0, j - 1), FALSE),
             Zeroed(FoldLeft(LAMBDA x, c : zero_object(x, c),
                             CopiedData(Zeroed(m, DataAt(v, 0, d), v.d - d), v, src, w, d),
                             Pointers(v, v.p)),
                    PointerAt(v, 0, 0), v.p),
             [j \in 1 .. p |-> j])
Smaller(x, y) == IF x < y THEN x ELSE y
copy_content_from(m, v, src, w) ==
    CopyContent(m, v, src, w, Smaller(v.d, w.d), Smaller(v.p, w.p))

RECURSIVE total_size(_, _)
TotalSize(m, o) ==
    IF IsNull(o) \/ o.tag.k = "cap" THEN 0
    ELSE FoldLeft(LAMBDA x, b : x + total_size(m, b), Size(o), Pointers(o.v, o.v.p))
total_size(m, a) == TotalSize(m, Object(m, a))

\* Message::canonicalize: a copy of the whole in one segment that has room for it.
canonicalize_message(m) ==
    copy_pointer(<<[capacity |-> total_size(m, Root) + 1, words |-> <<Zero>>]>>,
                 Root, m, Root, TRUE)

-----------------------------------------------------------------------------
(* Reading *)

Null == [k |-> "null"]

\* What a reader finds in the object o: its kind, the sizes of its elements,
\* and for each element its data and what its pointers own.  An object outside
\* its segment is an error.
RECURSIVE Read(_, _)
ReadObject(m, o) ==
    CASE IsNull(o) -> Null
      [] o.tag.k \in {"cap", "bad"} -> o.tag
      [] o.tag.k \in {"struct", "list"} /\ ~IsNull(o)
            /\ (~Inside(m, o.ptr, Size(o)) \/ (Header(o.tag) = 1 /\ Words(o.v) > o.tag.n)) ->
             [k |-> "bad"]
      [] OTHER ->
             [k |-> IF o.tag.k = "struct" THEN "struct" ELSE o.tag.es,
              d |-> o.v.d, p |-> o.v.p,
              elements |-> [e \in 1 .. o.v.n |->
                  [data |-> [i \in 1 .. o.v.d |-> At(m, DataAt(o.v, e - 1, i - 1))],
                   ptrs |-> [j \in 1 .. o.v.p |-> Read(m, PointerAt(o.v, e - 1, j - 1))]]]]
Read(m, a) == ReadObject(m, Object(m, a))

\* Some element uses the last word of each section.
NothingToCut(m, v) ==
    /\ \E e \in 0 .. v.n - 1 : v.d = 0 \/ At(m, DataAt(v, e, v.d - 1)) # Zero
    /\ \E e \in 0 .. v.n - 1 : v.p = 0 \/ At(m, PointerAt(v, e, v.p - 1)) # Zero

\* Where the next object must lie after the one of the pointer at a, when that
\* one must lie at head and all is canonical; 0 when it is not.
RECURSIVE is_canonical(_, _, _)
CanonicalFrom(m, a, o, head) ==
    IF IsNull(o) THEN head
    ELSE IF o.w.k \in {"far", "cap"} THEN 0
    ELSE IF o.w.k = "struct" /\ Words(o.v) = 0 THEN IF o.ptr = a THEN head ELSE 0
    ELSE IF o.ptr[2] # head \/ (Header(o.w) = 1 /\ Words(o.v) # o.w.n) THEN 0
    ELSE IF Header(o.w) = 1 /\ o.v.d + o.v.p = 0 THEN head + 1
    ELSE IF HasStructs(o) /\ ~NothingToCut(m, o.v) THEN 0
    ELSE FoldLeft(LAMBDA x, b : IF x = 0 THEN 0 ELSE is_canonical(m, b, x),
                  head + Size(o), Pointers(o.v, o.v.p))
is_canonical(m, a, head) == CanonicalFrom(m, a, Object(m, a), head)

is_canonical_message(m) ==
    Len(m) = 1 /\ is_canonical(m, Root, 2) = Len(m[1].words) + 1

-----------------------------------------------------------------------------
(* The value the application builds.  A path leads from the root to a      *)
(* pointer: at each step an element and one of its pointers.               *)

NewElement(d, p) == [data |-> [i \in 1 .. d |-> Zero], ptrs |-> [j \in 1 .. p |-> Null]]
NewObject(kind, n, d, p) ==
    [k |-> kind, d |-> d, p |-> p, elements |-> [e \in 1 .. n |-> NewElement(d, p)]]

Padded(s, n, x) == [i \in 1 .. n |-> IF i =< Len(s) THEN s[i] ELSE x]
\* The object with its elements made d data words and p pointers large.
Resized(kind, obj, d, p) ==
    [k |-> kind, d |-> d, p |-> p,
     elements |-> [e \in DOMAIN obj.elements |->
         [data |-> Padded(obj.elements[e].data, d, Zero),
          ptrs |-> Padded(obj.elements[e].ptrs, p, Null)]]]
Grown(kind, obj, d, p) == Resized(kind, obj, Larger(obj.d, d), Larger(obj.p, p))

IsObject(t) == t.k \notin {"null", "cap"}

RECURSIVE Under(_, _)
Under(t, path) ==
    IF path = << >> THEN t
    ELSE Under(t.elements[Head(path)[1]].ptrs[Head(path)[2]], Tail(path))

RECURSIVE Replaced(_, _, _)
Replaced(t, path, new) ==
    IF path = << >> THEN new
    ELSE [t EXCEPT !.elements[Head(path)[1]].ptrs[Head(path)[2]] =
              Replaced(@, Tail(path), new)]

RECURSIVE Paths(_, _)
Paths(t, depth) ==
    {<< >>} \cup
    IF ~IsObject(t) \/ depth = 0 THEN {}
    ELSE UNION {{<< <<e, j>> >> \o q : q \in Paths(t.elements[e].ptrs[j], depth - 1)} :
                   e \in DOMAIN t.elements, j \in 1 .. t.p}

RECURSIVE HasCap(_)
HasCap(t) ==
    \/ t.k = "cap"
    \/ /\ IsObject(t)
       /\ \E e \in DOMAIN t.elements, j \in 1 .. t.p :
             HasCap(t.elements[e].ptrs[j])

\* The last word of a section that any element uses.
LastUsed(t, section, size) ==
    CHOOSE n \in 0 .. size :
        /\ \A e \in DOMAIN t.elements, i \in n + 1 .. size :
              t.elements[e][section][i] \in {Zero, Null}
        /\ n > 0 => \E e \in DOMAIN t.elements : t.elements[e][section][n] \notin {Zero, Null}

\* The value with the sections of structs cut after that word.
RECURSIVE Truncated(_)
Cut(t, d, p) ==
    [k |-> t.k, d |-> d, p |-> p,
     elements |-> [e \in DOMAIN t.elements |->
         [data |-> SubSeq(t.elements[e].data, 1, d),
          ptrs |-> [j \in 1 .. p |-> Truncated(t.elements[e].ptrs[j])]]]]
Truncated(t) ==
    CASE ~IsObject(t) -> t
      [] t.k \in {"struct", "composite"} ->
             Cut(t, LastUsed(t, "data", t.d), LastUsed(t, "ptrs", t.p))
      [] OTHER -> Cut(t, t.d, t.p)

-----------------------------------------------------------------------------
(* The operations of PointerBuilder.  A builder is the place of a pointer, *)
(* the object it owns, and the value the application has built there.      *)

Locate(m, path) ==
    FoldLeft(LAMBDA a, s : PointerAt(Object(m, a).v, s[1] - 1, s[2] - 1), Root, path)
Pointer(m, t, path, a) == [path |-> path, at |-> a, object |-> Object(m, a), value |-> Under(t, path)]
AllPointers(m, t) == {Pointer(m, t, path, Locate(m, path)) : path \in Paths(t, MaxDepth)}

Init ==
    /\ \E size \in SegmentWords : segments = <<[capacity |-> size, words |-> <<Zero>>]>>
    /\ tree = Null
    /\ sent = [segments |-> << >>, tree |-> Null]
    /\ orphans = FALSE
    /\ ops = 0

\* An operation that puts m into the segments and means t at the pointer.
Operation(p, m, t) ==
    /\ ops' = ops + 1
    /\ segments' = m
    /\ tree' = Replaced(tree, p.path, t)
    /\ UNCHANGED sent

\* zero_object panics on a capability.
Clearable(p) == ~HasCap(p.value)

init_struct(p, size) ==
    /\ Clearable(p)
    /\ Operation(p, Fresh(segments, p.at, 0, 1, size.d, size.p).m,
                 NewObject("struct", 1, size.d, size.p))
    /\ UNCHANGED orphans

get_struct(p, size) ==
    /\ p.object.tag.k = "struct"
    /\ Operation(p, get_writable_struct_pointer(segments, p.at, size.d, size.p),
                 IF p.value = Null THEN NewObject("struct", 1, size.d, size.p)
                 ELSE Grown("struct", p.value, size.d, size.p))
    /\ UNCHANGED orphans

init_list(p, es, n) ==
    /\ Clearable(p)
    /\ Operation(p, allocate(segments, p.at,
                             n * (data_per_element[es] + pointers_per_element[es]),
                             List(0, es, n)).m,
                 NewObject(es, n, data_per_element[es], pointers_per_element[es]))
    /\ UNCHANGED orphans

init_struct_list(p, n, size) ==
    /\ Clearable(p)
    /\ Operation(p, Fresh(segments, p.at, 1, n, size.d, size.p).m,
                 NewObject("composite", n, size.d, size.p))
    /\ UNCHANGED orphans

\* The upgrade of a list of structs clears one word too few.
Fits(t, size) == t.k = "composite" /\ t.d >= size.d /\ t.p >= size.p
get_struct_list(p, size) ==
    /\ p.object.tag.k = "list"
    /\ Operation(p, get_writable_struct_list_pointer(segments, p.at, size.d, size.p),
                 IF Fits(p.value, size) THEN p.value
                 ELSE Grown("composite", p.value, size.d, size.p))
    /\ orphans' = (orphans \/ (p.value.k = "composite" /\ ~Fits(p.value, size)))

\* A capability overwrites the pointer and leaves the object where it was.
set_capability(p, c) ==
    /\ Operation(p, Put(segments, p.at, CapPointer(c)), CapPointer(c))
    /\ orphans' = (orphans \/ IsObject(p.value))

clear(p) ==
    /\ Clearable(p)
    /\ Operation(p, Put(zero_object(segments, p.at), p.at, Zero), Null)
    /\ UNCHANGED orphans

set_data(p, e, i) ==
    /\ IsObject(p.value) /\ e \in DOMAIN p.value.elements /\ i \in 1 .. p.value.d
    /\ Operation(p, Put(segments, DataAt(p.object.v, e - 1, i - 1), DataWord(ops)),
                 [p.value EXCEPT !.elements[e].data[i] = DataWord(ops)])
    /\ UNCHANGED orphans

\* The message is written out, and a reader has it.
send ==
    /\ ops' = ops + 1
    /\ sent' = [segments |-> segments, tree |-> tree]
    /\ UNCHANGED <<segments, tree, orphans>>

\* A null source overwrites the pointer and leaves the object where it was.
copy_from(p, from) ==
    /\ from.value = Null \/ Clearable(p)
    /\ Operation(p, copy_pointer(segments, p.at, sent.segments, from.at, FALSE), from.value)
    /\ orphans' = (orphans \/ (from.value = Null /\ IsObject(p.value)))

\* The content of a struct replaced by that of a struct of the other message.
copy_content(p, from) ==
    /\ p.value.k = "struct" /\ from.value.k = "struct"
    /\ Clearable(p)
    /\ Operation(p, copy_content_from(segments, p.object.v, sent.segments, from.object.v),
                 Resized("struct", from.value, p.value.d, p.value.p))
    /\ UNCHANGED orphans

Next ==
    /\ ops < MaxOps
    /\ \/ \E p \in AllPointers(segments, tree) :
             \/ \E size \in StructSizes : \/ init_struct(p, size)
                                          \/ get_struct(p, size)
                                          \/ get_struct_list(p, size)
             \/ \E n \in ListSizes, es \in DOMAIN data_per_element : init_list(p, es, n)
             \/ \E n \in StructLists, size \in StructSizes : init_struct_list(p, n, size)
             \/ \E c \in Caps : set_capability(p, c)
             \/ clear(p)
             \/ \E e \in 1 .. 2, i \in 1 .. 2 : set_data(p, e, i)
             \/ /\ sent.segments # << >>
                /\ \E from \in AllPointers(sent.segments, sent.tree) :
                      copy_from(p, from) \/ copy_content(p, from)
       \/ send

Spec == Init /\ [][Next]_vars

-----------------------------------------------------------------------------
(* Properties *)

\* A reader of the message finds what the application has built, whatever was
\* moved to other segments, grown, overwritten or copied on the way.
ReadsBack == Read(segments, Root) = tree

\* The addresses of all words that the pointer at a owns: landing pads,
\* objects, and what lies below.
RECURSIVE Owned(_, _)
OwnedBy(m, o) ==
    [i \in 1 .. IF o.w.k = "far" THEN PadWords(o.w) ELSE 0 |-> Shift(Target(o.w), i - 1)]
    \o [i \in 1 .. Size(o) |-> Shift(o.ptr, i - 1)]
    \o FlattenSeq([x \in 1 .. o.v.n * o.v.p |-> Owned(m, Pointers(o.v, o.v.p)[x])])
Owned(m, a) == OwnedBy(m, Object(m, a))

\* Every word has one owner, and the words of what was overwritten are zero:
\* no two objects share a word, and nothing of a removed object is sent,
\* unless one of the operations that leave their object behind was used.
EveryWordOwned ==
    \E owned \in {<<Root>> \o Owned(segments, Root)} :
        /\ IsInjective(owned)
        /\ orphans \/ \A s \in DOMAIN segments : \A i \in DOMAIN segments[s].words :
               segments[s].words[i] = Zero \/ <<s, i>> \in Range(owned)

\* canonicalize keeps its assertions (one segment, no longer than total_size
\* said), gives a message that is_canonical accepts, and loses nothing but
\* zeroes at the end of sections.
CanonicalForm ==
    ~HasCap(tree) =>
        \A m \in {canonicalize_message(segments)} :
            is_canonical_message(m) /\ Read(m, Root) = Truncated(tree)
=============================================================================
