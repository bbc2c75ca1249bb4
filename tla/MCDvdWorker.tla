---------------------------- MODULE MCDvdWorker -----------------------------
(* Instances of DvdWorker for TLC: images whose tables nest, do not nest,  *)
(* are cut short, or lie about their size.                                 *)
EXTENDS DvdWorker

Dir(name, next) == [dir |-> TRUE, name |-> name, a |-> 0, b |-> next]
File(name, offset, length) == [dir |-> FALSE, name |-> name, a |-> offset, b |-> length]

Flat == <<Dir(0, 3), File(1, 11, 2), File(2, 13, 1)>>
Deep == <<Dir(0, 4), Dir(1, 4), File(2, 13, 2), File(3, 14, 9)>>
Twist == <<Dir(0, 3), Dir(1, 9), File(7, 11, 0), File(2, 12, 2)>>

Good == [len |-> 14, magic |-> TRUE, dol |-> 3, fst |-> 4, size |-> 7,
         root |-> TRUE, count |-> 4, entries |-> Flat]

Tables == {Good,
           [Good EXCEPT !.len = 15, !.count = 5, !.size = 9, !.entries = Deep],
           [Good EXCEPT !.len = 13, !.count = 5, !.size = 5, !.entries = Twist]}

Broken == {[Good EXCEPT !.len = 2], [Good EXCEPT !.magic = FALSE],
           [Good EXCEPT !.dol = 4], [Good EXCEPT !.fst = 14],
           [Good EXCEPT !.dol = 1], [Good EXCEPT !.root = FALSE],
           [Good EXCEPT !.count = 0], [Good EXCEPT !.count = 7],
           [Good EXCEPT !.len = 7], [Good EXCEPT !.len = 8]}

MCImages == Tables \cup Broken
=============================================================================
