------------------------------- MODULE GcDisc -------------------------------
(***************************************************************************)
(* The disc reader: how gc_disc.c judges an image and reads its file       *)
(* table, how the extractor derives paths from the table, and the views of *)
(* nod_shim.c.  A constant-level module: what each function returns.       *)
(*                                                                         *)
(* An image is a record: len bytes; magic, is the GameCube magic there;    *)
(* dol and fst, the offsets of the program and of the table; size, the     *)
(* table's size by the header; root, is entry 0 a directory; count, its    *)
(* entry count; entries, those after the root.  A table entry takes one    *)
(* byte here and a name one byte of the string table behind the entries.   *)
(* An entry is [dir, name, a, b]: its name offset and the two other        *)
(* fields, parent and next index or offset and length.  Nothing is assumed *)
(* of an image but the types of its fields, all unsigned, and that a table *)
(* the image holds whole has its entries: they come from a file on the     *)
(* SD card.                                                                *)
(***************************************************************************)
EXTENDS Integers, Sequences, FiniteSets

CONSTANTS Header,       \* GC_HEADER_READ_SIZE
          MaxEntries,   \* GC_FST_MAX_ENTRIES
          MaxStrings,   \* cap on the string table, 16 MiB
          MaxDol,       \* cap on the program, 64 MiB
          NoName        \* the empty name

ASSUME GcAssumption == {Header, MaxEntries, MaxStrings, MaxDol} \subseteq Nat \ {0}

Entry == [dir : BOOLEAN, name : Nat, a : Nat, b : Nat]
Image == [len : Nat, magic : BOOLEAN, dol : Nat, fst : Nat, size : Nat,
          root : BOOLEAN, count : Nat, entries : Seq(Entry)]

Lesser(a, b) == IF a < b THEN a ELSE b

(* path_read_at, sdlStreamReadAt: n bytes at offset, fewer at the end.     *)
Available(img, offset, n) ==
    IF offset >= img.len THEN 0 ELSE Lesser(n, img.len - offset)

(* gc_disc_open                                                            *)
Opens(img) ==
    /\ img.len > Header
    /\ img.magic
    /\ img.fst # 0 /\ img.fst > img.dol /\ img.fst < img.len

(* gc_disc_dol: the program is what lies between its offset and the table. *)
DolReads(img) ==
    LET n == img.fst - img.dol
    IN  n # 0 /\ n <= MaxDol /\ Available(img, img.dol, n) = n

(* gc_disc_ensure_fst: the checks on entry 0 and the table, the length of  *)
(* the string table, and the entries kept, in the order of the table.      *)
StringsWanted(img) ==
    LET n == img.size - img.count
    IN  IF n <= 0 \/ n > MaxStrings THEN MaxStrings ELSE n

StringsLen(img) == Available(img, img.fst + img.count, StringsWanted(img))

ParsesFst(img) ==
    /\ Available(img, img.fst, 1) = 1
    /\ img.root
    /\ img.count # 0 /\ img.count <= MaxEntries
    /\ Available(img, img.fst, img.count) = img.count
    /\ StringsLen(img) > 0

Table(img) ==
    [i \in 1..(img.count - 1) |->
        LET e == img.entries[i]
        IN  [dir  |-> e.dir,
             name |-> IF e.name >= StringsLen(img) THEN NoName ELSE e.name,
             a    |-> e.a,
             b    |-> e.b]]

-----------------------------------------------------------------------------
(* extractCallback keeps a stack of the directories it is in, each with    *)
(* the index that ends it; the root frame never ends.  Frames that have    *)
(* ended are popped from the top only.  Faulty variant: one entry late.    *)
RootFrame == [path |-> <<>>, end |-> -1]

BadEnded(i, frame) == frame.end # -1 /\ i > frame.end
Ended(i, frame) == frame.end # -1 /\ i >= frame.end

PopTo(stack, i) ==
    LET open == {j \in 1..Len(stack) : ~Ended(i, stack[j])}
    IN  SubSeq(stack, 1, CHOOSE j \in open : \A m \in open : m <= j)

PathIn(stack, t, i) == Append(stack[Len(stack)].path, t[i].name)

(* The stack when the walk arrives at entry i, before it pops.             *)
Stacks(t) ==
    LET s[i \in 1..(Len(t) + 1)] ==
            IF i = 1 THEN <<RootFrame>>
            ELSE LET top == PopTo(s[i - 1], i - 1)
                 IN  IF t[i - 1].dir
                     THEN Append(top, [path |-> PathIn(top, t, i - 1), end |-> t[i - 1].b])
                     ELSE top
    IN  s

(* The path, relative to files/, at which entry i is extracted.            *)
ExtractPath(t, i) == PathIn(PopTo(Stacks(t)[i], i), t, i)

(* Reference: an entry lies in the directories whose range covers it.      *)
Ancestors(t, i) == {d \in 1..(i - 1) : t[d].dir /\ i < t[d].b}

TruePath(t, i) ==
    LET up == Ancestors(t, i)
    IN  Append([n \in 1..Cardinality(up) |->
                   t[CHOOSE d \in up : Cardinality({x \in up : x < d}) = n - 1].name],
               t[i].name)

(* The shape of a table as mastering tools write it: ranges nest.          *)
WellNested(t) ==
    \A d \in 1..Len(t) : t[d].dir =>
        /\ d < t[d].b /\ t[d].b <= Len(t) + 1
        /\ \A x \in Ancestors(t, d) : t[d].b <= t[x].b

-----------------------------------------------------------------------------
(* nod_shim.c: a view is an extent of the image and a cursor.              *)
View == [base : Nat, length : Nat, pos : Nat]

(* nod_partition_open_file: entry 0 is the root.                           *)
IsFile(t, e) == e # 0 /\ e <= Len(t) /\ ~t[e].dir

FileView(t, e) == [base |-> t[e].a, length |-> t[e].b, pos |-> 0]

(* nod_seek from the start; outside the view it fails and moves nothing.   *)
SeekOk(view, target) == target >= 0 /\ target <= view.length

(* nod_read asks the image for no more than is left of the view.  Faulty   *)
(* variant: for whatever the caller wants.                                 *)
BadReadWant(view, n) == n
ReadWant(view, n) ==
    IF view.pos >= view.length THEN 0 ELSE Lesser(n, view.length - view.pos)

(* nod_read moves the cursor by what it got; -1 is an error.  Faulty       *)
(* variant: the error is added too.                                        *)
BadMoved(view, got) == [view EXCEPT !.pos = @ + got]
Moved(view, got) == IF got < 0 THEN view ELSE [view EXCEPT !.pos = @ + got]

=============================================================================
