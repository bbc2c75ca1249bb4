---------------------------- MODULE HosVfs_proofs ----------------------------
(***************************************************************************)
(* Proofs about HosVfs for any connections, paths and number of failing    *)
(* native calls: the reference counts of shared handles, what the last     *)
(* close and the flush at exit reach, stale lock directories, and          *)
(* exclusion on every path whose lock directory no open deleted under its  *)
(* holder.                                                                 *)
(***************************************************************************)
EXTENDS HosVfs, FiniteSetTheorems, TLAPS

(* A connection has a path from the first half of open to its end, and a   *)
(* lock only while it is open.                                             *)
ConnsOK ==
    \A c \in Conns :
        /\ state[c] = "closed" <=> path[c] = NoPath
        /\ state[c] = "opening" => flags[c] \in OpenFlags
        /\ state[c] # "open" => lock[c] = NONE

(* Who may write has a handle that can.                                    *)
ModesOK ==
    \A c \in Conns : state[c] = "open" /\ ~readOnly[c] => handles[path[c]].writable

(* Without failures every path in use had its directory cleared, also      *)
(* between the two halves of open, so a directory there is a holder's.     *)
ClearedOK ==
    faults = 0 =>
        \A c \in Conns : state[c] # "closed" /\ path[c] \in lockdir => Holders(path[c]) # {}

(* Exclusion without counting.                                             *)
HoldersOK ==
    \A p \in Paths \ disturbed :
        /\ \A c, d \in Holders(p) : c = d
        /\ Holders(p) # {} => p \in lockdir

(* The inductive invariant: the properties, and what a connection knows    *)
(* about the handle and the directory it shares with others.               *)
IInv ==
    /\ TypeOK
    /\ ConnsOK
    /\ HandleShared
    /\ ModesOK
    /\ DirtyReachable
    /\ ClearedOK
    /\ HoldersOK

-----------------------------------------------------------------------------
(* The connections that use a path, and those that hold its lock, are      *)
(* finitely many.                                                          *)
LEMMA ConnsFinite ==
    \A p : /\ IsFiniteSet(OpenConns(p)) /\ Cardinality(OpenConns(p)) \in Nat
           /\ IsFiniteSet(Holders(p)) /\ Cardinality(Holders(p)) \in Nat
  <1> TAKE p
  <1>1. OpenConns(p) \in SUBSET Conns /\ Holders(p) \in SUBSET Conns
    BY DEF OpenConns, Holders
  <1>2. IsFiniteSet(OpenConns(p)) /\ IsFiniteSet(Holders(p))
    BY <1>1, FS_Subset, VfsAssumption
  <1> QED BY <1>2, FS_CardinalityType

(* A path has no reference exactly when no connection is open on it.       *)
LEMMA NoReference ==
    ASSUME HandleShared, NEW p \in Paths
    PROVE  /\ handles[p].references \in Nat
           /\ handles[p].references = 0 <=> OpenConns(p) = {}
  BY ConnsFinite, FS_EmptySet DEF HandleShared

(* The flags of open are Booleans.                                         *)
LEMMA FlagTypes ==
    OpenFlags \subseteq [create : BOOLEAN, excl : BOOLEAN, rw : BOOLEAN, main : BOOLEAN,
                         del : BOOLEAN]
  BY DEF OpenFlags, Flag

(* Before the first open nothing is open; lock directories may be there.   *)
LEMMA InitIInv == Init => IInv
  <1> SUFFICES ASSUME Init PROVE IInv
    OBVIOUS
  <1>1. \A p \in Paths : OpenConns(p) = {} /\ Holders(p) = {}
    BY DEF Init, OpenConns, Holders
  <1>2. TypeOK
    BY DEF Init, TypeOK, Levels, Closed
  <1>3. ConnsOK /\ ModesOK /\ DirtyReachable /\ ClearedOK /\ HoldersOK
    BY <1>1 DEF Init, ConnsOK, ModesOK, DirtyReachable, ClearedOK, HoldersOK
  <1>4. HandleShared
    <2>1. \A p \in Paths : handles[p].references = 0 /\ Cardinality(OpenConns(p)) = 0
      BY <1>1, FS_EmptySet DEF Init, Closed
    <2> QED BY <2>1 DEF HandleShared
  <1> QED BY <1>2, <1>3, <1>4 DEF IInv

-----------------------------------------------------------------------------
(* Opening a path begins.                                                  *)
LEMMA OpenClearIInv ==
    ASSUME IInv, NEW c \in Conns, NEW p \in Paths, NEW fl \in OpenFlags, OpenClear(c, p, fl)
    PROVE  IInv'
  <1> USE DEF IInv, OpenClear
  <1>1. \A q \in Paths : OpenConns(q)' = OpenConns(q) /\ Holders(q)' = Holders(q)
    BY DEF OpenConns, Holders, TypeOK
  <1>2. TypeOK'
    BY DEF TypeOK, Fail
  <1>3. ConnsOK'
    BY VfsAssumption DEF TypeOK, ConnsOK
  <1>4. HandleShared'
    BY <1>1 DEF HandleShared
  <1>5. ModesOK' /\ DirtyReachable'
    BY DEF TypeOK, ModesOK, DirtyReachable, Fail
  <1>6. ClearedOK'
    <2> SUFFICES ASSUME faults' = 0, NEW d \in Conns, state'[d] # "closed", path'[d] \in lockdir'
                 PROVE  Holders(path[d])' # {}
      BY DEF ClearedOK
    <2>1. faults = 0 /\ lockdir' = lockdir \ {p}
      BY DEF Fail, TypeOK
    <2>2. d # c
      BY <2>1 DEF TypeOK
    <2>3. path'[d] = path[d] /\ state'[d] = state[d] /\ path[d] \in Paths
      BY <2>2 DEF TypeOK, ConnsOK
    <2> QED BY <1>1, <2>1, <2>3 DEF ClearedOK
  <1>7. HoldersOK'
    <2> SUFFICES ASSUME NEW q \in Paths \ disturbed'
                 PROVE  /\ \A d, e \in Holders(q)' : d = e
                        /\ Holders(q)' # {} => q \in lockdir'
      BY DEF HoldersOK
    <2>1. q \notin disturbed /\ (q \in lockdir /\ Holders(q) # {} => q \in lockdir')
      OBVIOUS
    <2> QED BY <1>1, <2>1 DEF HoldersOK
  <1> QED BY <1>2, <1>3, <1>4, <1>5, <1>6, <1>7

(* The second half of open, to success: one connection and one reference   *)
(* more.                                                                   *)
LEMMA OpenAttachIInv ==
    ASSUME IInv, NEW c \in Conns, OpenAttach(c)
    PROVE  IInv'
  <1> DEFINE p == path[c]
  <1> USE DEF IInv
  <1>0. /\ state[c] = "opening" /\ p \in Paths /\ flags[c] \in OpenFlags
        /\ state' = [state EXCEPT ![c] = "open"] /\ flags' = [flags EXCEPT ![c] = Closed]
        /\ card' = card \cup {p}
        /\ UNCHANGED <<path, lock, lockdir, dirty, disturbed>>
    BY DEF OpenAttach, TypeOK, ConnsOK
  <1>1. PICK writable \in BOOLEAN :
          /\ handles' = [handles EXCEPT ![p] =
                [writable |-> writable, references |-> @.references + 1,
                 deleteOnClose |-> @.deleteOnClose \/ flags[c].del]]
          /\ readOnly' = [readOnly EXCEPT ![c] = ~flags[c].rw \/ ~writable]
          /\ handles[p].references > 0 => writable = handles[p].writable
          /\ faults' = faults \/ faults' = faults + 1
    BY DEF OpenAttach, Fail
  <1>2. /\ \A q \in Paths : OpenConns(q)' = IF q = p THEN OpenConns(p) \cup {c} ELSE OpenConns(q)
        /\ c \notin OpenConns(p)
    BY <1>0 DEF OpenConns, TypeOK
  <1>3. \A q \in Paths : Holders(q)' = Holders(q)
    BY <1>0, <1>2 DEF Holders, ConnsOK
  <1>4. flags[c].rw \in BOOLEAN /\ flags[c].del \in BOOLEAN
    BY <1>0, FlagTypes
  <1>5. TypeOK'
    <2>1. handles' \in [Paths -> [writable : BOOLEAN, references : Nat, deleteOnClose : BOOLEAN]]
      BY <1>0, <1>1, <1>4 DEF TypeOK
    <2>2. readOnly' \in [Conns -> BOOLEAN] /\ faults' \in Nat
      BY <1>1, <1>4 DEF TypeOK
    <2> QED BY <1>0, <2>1, <2>2 DEF TypeOK
  <1>6. ConnsOK'
    BY <1>0 DEF ConnsOK, TypeOK
  <1>7. HandleShared'
    <2> SUFFICES ASSUME NEW q \in Paths
                 PROVE  /\ handles'[q].references = Cardinality(OpenConns(q)')
                        /\ handles'[q].references > 0 => q \in card'
      BY DEF HandleShared
    <2>1. CASE q = p
      <3>1. handles'[q].references = handles[p].references + 1
        BY <1>0, <1>1, <2>1 DEF TypeOK
      <3>2. Cardinality(OpenConns(q)') = Cardinality(OpenConns(p)) + 1
        BY <1>2, <2>1, ConnsFinite, FS_AddElement
      <3> QED BY <1>0, <2>1, <3>1, <3>2 DEF HandleShared
    <2>2. CASE q # p
      BY <1>0, <1>1, <1>2, <2>2 DEF HandleShared, TypeOK
    <2> QED BY <2>1, <2>2
  <1>8. ModesOK' /\ DirtyReachable'
    <2>1. ASSUME NEW d \in Conns, state'[d] = "open", ~readOnly'[d]
          PROVE  handles'[path'[d]].writable
      <3>1. CASE d = c
        BY <1>0, <1>1, <2>1, <3>1 DEF TypeOK
      <3>2. CASE d # c /\ path[d] = p
        <4>1. d \in OpenConns(p) /\ ~readOnly[d]
          BY <1>0, <1>1, <2>1, <3>2 DEF OpenConns, TypeOK
        <4>2. handles[p].references > 0
          BY <1>0, <4>1, NoReference
        <4> QED BY <1>0, <1>1, <3>2, <4>1, <4>2 DEF ModesOK, OpenConns, TypeOK
      <3>3. CASE d # c /\ path[d] # p
        BY <1>0, <1>1, <2>1, <3>3 DEF ModesOK, ConnsOK, TypeOK
      <3> QED BY <3>1, <3>2, <3>3
    <2>2. DirtyReachable'
      BY <1>0, <1>1 DEF DirtyReachable, TypeOK
    <2> QED BY <2>1, <2>2 DEF ModesOK
  <1>9. ClearedOK'
    BY <1>0, <1>1, <1>3 DEF ClearedOK, ConnsOK, TypeOK
  <1>10. HoldersOK'
    BY <1>0, <1>3 DEF HoldersOK
  <1> QED BY <1>5, <1>6, <1>7, <1>8, <1>9, <1>10

(* ... and to an error.                                                    *)
LEMMA OpenRejectIInv ==
    ASSUME IInv, NEW c \in Conns, OpenReject(c)
    PROVE  IInv'
  <1> USE DEF IInv
  <1>0. /\ state[c] = "opening" /\ path[c] \in Paths
        /\ state' = [state EXCEPT ![c] = "closed"]
        /\ path' = [path EXCEPT ![c] = NoPath]
        /\ flags' = [flags EXCEPT ![c] = Closed]
        /\ card' \in {card, card \cup {path[c]}}
        /\ faults' = faults \/ faults' = faults + 1
        /\ UNCHANGED <<lock, readOnly, handles, lockdir, dirty, disturbed>>
    BY DEF OpenReject, Dismiss, Fail, TypeOK, ConnsOK
  <1>1. \A q \in Paths : OpenConns(q)' = OpenConns(q) /\ Holders(q)' = Holders(q)
    BY <1>0, VfsAssumption DEF OpenConns, Holders, TypeOK
  <1>2. TypeOK' /\ ConnsOK'
    BY <1>0, VfsAssumption DEF TypeOK, ConnsOK
  <1>3. HandleShared'
    BY <1>0, <1>1 DEF HandleShared
  <1>4. ModesOK' /\ DirtyReachable' /\ ClearedOK'
    <2>1. \A d \in Conns : state'[d] # "closed" =>
             state'[d] = state[d] /\ path'[d] = path[d] /\ path[d] \in Paths
      BY <1>0 DEF TypeOK, ConnsOK
    <2>2. ModesOK'
      BY <1>0, <2>1 DEF TypeOK, ModesOK
    <2>3. DirtyReachable'
      BY <1>0 DEF TypeOK, DirtyReachable
    <2>4. ClearedOK'
      BY <1>0, <1>1, <2>1 DEF TypeOK, ClearedOK
    <2> QED BY <2>2, <2>3, <2>4
  <1>5. HoldersOK'
    BY <1>0, <1>1 DEF HoldersOK
  <1> QED BY <1>2, <1>3, <1>4, <1>5

-----------------------------------------------------------------------------
(* Taking a lock, from NONE only where there is no directory.              *)
LEMMA LockIInv ==
    ASSUME IInv, NEW c \in Conns, NEW level \in Levels, Lock(c, level)
    PROVE  IInv'
  <1> DEFINE p == path[c]
  <1> USE DEF IInv, Lock
  <1>0. p \in Paths /\ c \in OpenConns(p) /\ level # NONE
    BY DEF TypeOK, ConnsOK, OpenConns, Levels, NONE, SHARED, RESERVED, EXCLUSIVE
  <1>1. /\ \A q \in Paths : OpenConns(q)' = OpenConns(q)
        /\ \A q \in Paths : Holders(q)' = IF q = p THEN Holders(p) \cup {c} ELSE Holders(q)
    BY <1>0 DEF OpenConns, Holders, TypeOK
  <1>2. TypeOK' /\ ConnsOK'
    BY <1>0 DEF TypeOK, ConnsOK
  <1>3. HandleShared' /\ ModesOK' /\ DirtyReachable'
    BY <1>1 DEF HandleShared, ModesOK, DirtyReachable
  <1>4. ClearedOK'
    BY <1>0, <1>1 DEF ClearedOK, ConnsOK, TypeOK
  <1>5. HoldersOK'
    <2>1. p \notin disturbed => Holders(p) \subseteq {c}
      BY <1>0 DEF HoldersOK, Holders
    <2> QED BY <1>0, <1>1, <2>1 DEF HoldersOK
  <1> QED BY <1>2, <1>3, <1>4, <1>5

(* Giving a lock back, or a part of it.                                    *)
LEMMA UnlockIInv ==
    ASSUME IInv, NEW c \in Conns, NEW level \in Levels, Unlock(c, level)
    PROVE  IInv'
  <1> DEFINE p == path[c]
  <1> USE DEF IInv, Unlock
  <1>0. p \in Paths /\ c \in Holders(p) /\ (faults' = faults \/ faults' = faults + 1)
    BY DEF TypeOK, ConnsOK, OpenConns, Holders, Levels, Fail, NONE, SHARED, RESERVED, EXCLUSIVE
  <1>1. \A q \in Paths : OpenConns(q)' = OpenConns(q)
    BY DEF OpenConns
  <1>2. TypeOK' /\ ConnsOK'
    BY <1>0 DEF TypeOK, ConnsOK, Settle
  <1>3. HandleShared' /\ ModesOK' /\ DirtyReachable'
    BY <1>0, <1>1 DEF HandleShared, ModesOK, DirtyReachable, TypeOK
  <1>s. \A q \in Paths \ disturbed' : q \in disturbed => Holders(q)' = {}
    BY DEF Settle
  <1>4. CASE lockdir' = lockdir /\ \A q \in Paths : Holders(q)' = Holders(q)
    <2>1. ClearedOK'
      BY <1>0, <1>4 DEF ClearedOK, ConnsOK, TypeOK
    <2>2. HoldersOK'
      BY <1>4, <1>s DEF HoldersOK
    <2> QED BY <1>2, <1>3, <2>1, <2>2
  <1>5. CASE /\ lockdir' = lockdir \ {p}
             /\ \A q \in Paths : Holders(q)' = IF q = p THEN Holders(p) \ {c} ELSE Holders(q)
    <2>1. ClearedOK'
      BY <1>0, <1>5 DEF ClearedOK, ConnsOK, TypeOK
    <2>2. HoldersOK'
      <3> SUFFICES ASSUME NEW q \in Paths \ disturbed', q \notin disturbed
                   PROVE  /\ \A d, e \in Holders(q)' : d = e
                          /\ Holders(q)' # {} => q \in lockdir'
        BY <1>s DEF HoldersOK
      <3> QED BY <1>0, <1>5 DEF HoldersOK
    <2> QED BY <1>2, <1>3, <2>1, <2>2
  <1>6. CASE lock' = [lock EXCEPT ![c] = level]
    <2>1. CASE level = NONE
      <3>1. \A q \in Paths : Holders(q)' = IF q = p THEN Holders(p) \ {c} ELSE Holders(q)
        BY <1>0, <1>6, <2>1 DEF Holders, OpenConns, TypeOK
      <3>2. lockdir' = lockdir \ {p}
        BY <1>0, <1>6, <2>1 DEF Holders, TypeOK
      <3> QED BY <1>5, <3>1, <3>2
    <2>2. CASE level # NONE
      <3>1. \A q \in Paths : Holders(q)' = Holders(q)
        BY <1>0, <1>6, <2>2 DEF Holders, OpenConns, TypeOK
      <3>2. lockdir' = lockdir
        BY <1>0, <2>2
      <3> QED BY <1>4, <3>1, <3>2
    <2> QED BY <2>1, <2>2
  <1>7. CASE UNCHANGED <<lock, lockdir>>
    BY <1>1, <1>4, <1>7 DEF Holders
  <1> QED BY <1>6, <1>7

-----------------------------------------------------------------------------
(* Closing: the lock is given back as far as that works, and the reference *)
(* with it.                                                                *)
LEMMA CloseIInv ==
    ASSUME IInv, NEW c \in Conns, Close(c)
    PROVE  IInv'
  <1> USE DEF IInv
  <1>p. PICK p \in Paths : p = path[c]
    BY DEF Close, TypeOK, ConnsOK
  <1> DEFINE h == handles[p]
  <1>0. /\ state[c] = "open"
        /\ state' = [state EXCEPT ![c] = "closed"]
        /\ path' = [path EXCEPT ![c] = NoPath]
        /\ flags' = [flags EXCEPT ![c] = Closed]
        /\ lock' = [lock EXCEPT ![c] = NONE]
        /\ readOnly' = [readOnly EXCEPT ![c] = FALSE]
    BY DEF Close, Dismiss
  <1>1. PICK unlocked, flushed \in BOOLEAN :
          /\ (unlocked /\ flushed /\ faults' = faults) \/ faults' = faults + 1
          /\ lockdir' = IF lock[c] # NONE /\ unlocked THEN lockdir \ {p} ELSE lockdir
          /\ Release(p, flushed)
    BY <1>p DEF Close, Fail
  <1>s. disturbed' \subseteq Paths /\ \A q \in Paths \ disturbed' : q \in disturbed => Holders(q)' = {}
    BY DEF Close, Settle, TypeOK
  <1>2. /\ \A q \in Paths : OpenConns(q)' = IF q = p THEN OpenConns(p) \ {c} ELSE OpenConns(q)
        /\ c \in OpenConns(p)
        /\ \A q \in Paths : Holders(q)' = IF q = p THEN Holders(p) \ {c} ELSE Holders(q)
    BY <1>p, <1>0, VfsAssumption DEF OpenConns, Holders, TypeOK
  <1>3. h.references = Cardinality(OpenConns(p)) /\ h.references > 0 /\ h.references \in Nat
    BY <1>2, NoReference DEF HandleShared
  <1>4. Cardinality(OpenConns(p) \ {c}) = h.references - 1
    BY <1>2, <1>3, ConnsFinite, FS_RemoveElement
  <1>5. \A d \in Conns : d # c =>
           /\ state'[d] = state[d] /\ path'[d] = path[d]
           /\ readOnly'[d] = readOnly[d] /\ lock'[d] = lock[d]
    BY <1>0 DEF TypeOK
  <1>6. state'[c] = "closed" /\ path'[c] = NoPath /\ lock'[c] = NONE
    BY <1>0 DEF TypeOK
  <1>7. ConnsOK'
    BY <1>0, <1>5, <1>6 DEF ConnsOK, TypeOK
  <1>8. ClearedOK'
    <2> SUFFICES ASSUME faults' = 0, NEW d \in Conns, state'[d] # "closed", path[d] \in lockdir',
                        path'[d] = path[d], d # c
                 PROVE  Holders(path[d])' # {}
      BY <1>5, <1>6 DEF ClearedOK
    <2>1. faults = 0 /\ unlocked
      BY <1>1 DEF TypeOK
    <2>2. state[d] # "closed" /\ path[d] \in Paths /\ path[d] \in lockdir
      BY <1>1, <1>5 DEF TypeOK, ConnsOK
    <2>3. PICK e \in Holders(path[d]) : TRUE
      BY <2>1, <2>2 DEF ClearedOK
    <2>4. CASE path[d] # p
      BY <1>2, <2>2, <2>3, <2>4
    <2>5. CASE path[d] = p /\ e # c
      BY <1>2, <2>2, <2>3, <2>5
    <2>6. CASE path[d] = p /\ e = c
      BY <1>1, <2>1, <2>3, <2>6 DEF Holders
    <2> QED BY <2>4, <2>5, <2>6
  <1>9. HoldersOK'
    <2> SUFFICES ASSUME NEW q \in Paths \ disturbed', q \notin disturbed
                 PROVE  /\ \A d, e \in Holders(q)' : d = e
                        /\ Holders(q)' # {} => q \in lockdir'
      BY <1>s DEF HoldersOK
    <2>1. CASE q # p
      BY <1>1, <1>2, <2>1 DEF HoldersOK
    <2>2. CASE q = p /\ lock[c] # NONE
      <3>1. c \in Holders(p)
        BY <1>2, <2>2 DEF Holders
      <3>2. Holders(q)' = {}
        BY <1>2, <2>2, <3>1 DEF HoldersOK
      <3> QED BY <3>2
    <2>3. CASE q = p /\ lock[c] = NONE
      BY <1>1, <1>2, <2>3 DEF HoldersOK
    <2> QED BY <2>1, <2>2, <2>3
  <1>10. TypeOK' /\ HandleShared' /\ ModesOK' /\ DirtyReachable'
    <2>1. CASE h.references > 1
      <3>1. /\ handles' = [handles EXCEPT ![p].references = @ - 1]
            /\ UNCHANGED <<card, dirty>>
        BY <1>1, <2>1 DEF Release
      <3>2. handles' \in [Paths -> [writable : BOOLEAN, references : Nat, deleteOnClose : BOOLEAN]]
        BY <1>3, <3>1 DEF TypeOK
      <3>3. TypeOK'
        BY <1>0, <1>1, <1>s, <3>1, <3>2 DEF TypeOK, Levels
      <3>4. ASSUME NEW q \in Paths
            PROVE  /\ handles'[q].references = Cardinality(OpenConns(q)')
                   /\ handles'[q].references > 0 => q \in card'
        <4>1. CASE q = p
          BY <1>2, <1>3, <1>4, <3>1, <4>1 DEF HandleShared, TypeOK
        <4>2. CASE q # p
          BY <1>2, <3>1, <4>2 DEF HandleShared, TypeOK
        <4> QED BY <4>1, <4>2
      <3>5. \A q \in Paths : handles'[q].writable = handles[q].writable
        BY <3>1 DEF TypeOK
      <3>6. ModesOK'
        BY <1>5, <1>6, <3>5 DEF ModesOK, ConnsOK, TypeOK
      <3>7. DirtyReachable'
        BY <1>1, <1>3, <2>1, <3>1, <3>5 DEF DirtyReachable, TypeOK
      <3> QED BY <3>3, <3>4, <3>6, <3>7 DEF HandleShared
    <2>2. CASE h.references = 1
      <3>1. /\ handles' = [handles EXCEPT ![p] = Closed]
            /\ card' = IF h.deleteOnClose THEN card \ {p} ELSE card
            /\ dirty' = IF h.writable /\ flushed THEN dirty \ {p} ELSE dirty
        BY <1>1, <2>2 DEF Release
      <3>2. OpenConns(p) \ {c} = {}
        <4>1. IsFiniteSet(OpenConns(p) \ {c})
          BY ConnsFinite, FS_RemoveElement
        <4> QED BY <1>4, <2>2, <4>1, FS_EmptySet
      <3>3. handles' \in [Paths -> [writable : BOOLEAN, references : Nat, deleteOnClose : BOOLEAN]]
        BY <3>1 DEF TypeOK, Closed
      <3>4. TypeOK'
        BY <1>0, <1>1, <1>s, <3>1, <3>3 DEF TypeOK, Levels
      <3>5. ASSUME NEW q \in Paths
            PROVE  /\ handles'[q].references = Cardinality(OpenConns(q)')
                   /\ handles'[q].references > 0 => q \in card'
        <4>1. CASE q = p
          <5>1. handles'[q].references = 0
            BY <3>1, <4>1 DEF TypeOK, Closed
          <5>2. OpenConns(q)' = {}
            BY <1>2, <3>2, <4>1
          <5> QED BY <5>1, <5>2, FS_EmptySet
        <4>2. CASE q # p
          BY <1>2, <3>1, <4>2 DEF HandleShared, TypeOK
        <4> QED BY <4>1, <4>2
      <3>6. ModesOK'
        <4> SUFFICES ASSUME NEW d \in Conns, d # c, state[d] = "open", ~readOnly[d]
                     PROVE  handles'[path[d]].writable
          BY <1>5, <1>6 DEF ModesOK
        <4>1. path[d] \in Paths /\ path[d] # p
          BY <3>2 DEF OpenConns, TypeOK, ConnsOK
        <4> QED BY <3>1, <4>1 DEF ModesOK, TypeOK
      <3>7. DirtyReachable'
        <4> SUFFICES ASSUME faults' = 0, NEW q \in dirty'
                     PROVE  handles'[q].references > 0 /\ handles'[q].writable
          BY DEF DirtyReachable
        <4>1. faults = 0 /\ flushed /\ q \in dirty
          BY <1>1, <3>1 DEF TypeOK
        <4>2. h.writable => q # p
          BY <3>1, <4>1
        <4>3. q # p
          BY <4>1, <4>2 DEF DirtyReachable
        <4> QED BY <3>1, <4>1, <4>3 DEF DirtyReachable, TypeOK
      <3> QED BY <3>4, <3>5, <3>6, <3>7 DEF HandleShared
    <2> QED BY <1>3, <2>1, <2>2
  <1> QED BY <1>7, <1>8, <1>9, <1>10

-----------------------------------------------------------------------------
(* Data: writing, flushing, deleting a file, and the end of a process.     *)
LEMMA DataIInv ==
    ASSUME IInv,
           \/ \E c \in Conns : Write(c) \/ Sync(c)
           \/ \E p \in Paths : Remove(p)
           \/ FlushAll \/ Restart \/ UNCHANGED vars
    PROVE  IInv'
  <1> USE DEF IInv
  <1>0. ASSUME UNCHANGED <<state, path, lock>>, TypeOK', ModesOK', DirtyReachable',
               UNCHANGED <<handles, lockdir, disturbed>>, ConnsOK', faults' = 0 => faults = 0,
               \A p \in Paths : handles[p].references > 0 /\ p \in card => p \in card'
        PROVE  IInv'
    <2>1. \A q \in Paths : OpenConns(q)' = OpenConns(q) /\ Holders(q)' = Holders(q)
      BY <1>0 DEF OpenConns, Holders
    <2>2. HandleShared'
      BY <1>0, <2>1 DEF HandleShared
    <2>3. ClearedOK'
      BY <1>0, <2>1 DEF ClearedOK, TypeOK, ConnsOK
    <2>4. HoldersOK'
      BY <1>0, <2>1 DEF HoldersOK
    <2> QED BY <1>0, <2>2, <2>3, <2>4
  <1>1. ASSUME NEW c \in Conns, Write(c) PROVE IInv'
    <2>1. path[c] \in Paths /\ c \in OpenConns(path[c])
      BY <1>1 DEF Write, TypeOK, ConnsOK, OpenConns
    <2>2. handles[path[c]].references > 0 /\ handles[path[c]].writable
      BY <1>1, <2>1, NoReference DEF Write, ModesOK
    <2>3. TypeOK' /\ DirtyReachable'
      BY <1>1, <2>1, <2>2 DEF connVars, Write, TypeOK, DirtyReachable
    <2>4. ModesOK' /\ ConnsOK'
      BY <1>1 DEF connVars, Write, ModesOK, ConnsOK
    <2> QED BY <1>0, <1>1, <2>3, <2>4 DEF connVars, Write
  <1>2. ASSUME NEW c \in Conns, Sync(c) PROVE IInv'
    <2>1. TypeOK' /\ DirtyReachable' /\ (faults' = 0 => faults = 0)
      BY <1>2 DEF connVars, Sync, Fail, TypeOK, DirtyReachable
    <2>2. ModesOK' /\ ConnsOK'
      BY <1>2 DEF connVars, Sync, ModesOK, ConnsOK
    <2> QED BY <1>0, <1>2, <2>1, <2>2 DEF connVars, Sync
  <1>3. ASSUME NEW p \in Paths, Remove(p) PROVE IInv'
    <2>1. TypeOK' /\ DirtyReachable' /\ ModesOK' /\ ConnsOK'
      BY <1>3 DEF connVars, Remove, TypeOK, DirtyReachable, ModesOK, ConnsOK
    <2> QED BY <1>0, <1>3, <2>1 DEF connVars, Remove
  <1>4. CASE FlushAll
    <2>1. /\ dirty' \subseteq dirty /\ (faults' = faults \/ faults' = faults + 1)
          /\ UNCHANGED <<connVars, handles, card, lockdir, disturbed>>
      BY <1>4 DEF FlushAll, Fail
    <2>2. TypeOK' /\ DirtyReachable' /\ ModesOK' /\ ConnsOK' /\ (faults' = 0 => faults = 0)
      BY <2>1 DEF connVars, TypeOK, DirtyReachable, ModesOK, ConnsOK
    <2> QED BY <1>0, <2>1, <2>2 DEF connVars
  <1>5. CASE Restart
    <2>1. \A q \in Paths : OpenConns(q)' = {} /\ Holders(q)' = {}
      BY <1>5 DEF Restart, OpenConns, Holders
    <2>2. TypeOK'
      BY <1>5 DEF Restart, TypeOK, Levels, Closed
    <2>3. HandleShared'
      <3>1. \A p \in Paths : handles'[p].references = 0 /\ Cardinality(OpenConns(p)') = 0
        BY <1>5, <2>1, FS_EmptySet DEF Restart, Closed
      <3> QED BY <3>1 DEF HandleShared
    <2>4. ConnsOK' /\ ModesOK' /\ DirtyReachable' /\ ClearedOK' /\ HoldersOK'
      BY <1>5, <2>1 DEF Restart, ConnsOK, ModesOK, DirtyReachable, ClearedOK, HoldersOK
    <2> QED BY <2>2, <2>3, <2>4
  <1>6. CASE UNCHANGED vars
    <2>1. TypeOK' /\ DirtyReachable' /\ ModesOK' /\ ConnsOK'
      BY <1>6 DEF vars, connVars, TypeOK, DirtyReachable, ModesOK, ConnsOK
    <2> QED BY <1>0, <1>6, <2>1 DEF vars, connVars
  <1> QED BY <1>1, <1>2, <1>3, <1>4, <1>5, <1>6

-----------------------------------------------------------------------------
(* The invariant holds throughout every run, crashes included.             *)
THEOREM Invariant == Spec => []IInv
  <1>1. IInv /\ [Next]_vars => IInv'
    BY OpenClearIInv, OpenAttachIInv, OpenRejectIInv, LockIInv, UnlockIInv, CloseIInv, DataIInv
    DEF Next
  <1> QED BY InitIInv, <1>1, PTL DEF Spec

(* Type correctness.                                                       *)
THEOREM TypeCorrect == Spec => []TypeOK
  <1>1. IInv => TypeOK
    BY DEF IInv
  <1> QED BY Invariant, <1>1, PTL

(* The reference count of a shared handle is the number of connections on  *)
(* it, whichever opens, fails to open or closes when, and its file exists. *)
THEOREM HandlesCounted == Spec => []HandleShared
  <1>1. IInv => HandleShared
    BY DEF IInv
  <1> QED BY Invariant, <1>1, PTL

(* Unflushed data is always within reach of the last close and of the      *)
(* flush at exit, as long as no native call failed.                        *)
THEOREM FlushReaches == Spec => []DirtyReachable
  <1>1. IInv => DirtyReachable
    BY DEF IInv
  <1> QED BY Invariant, <1>1, PTL

(* A lock directory left by a crash never makes an open database busy.     *)
THEOREM StaleLocksCleared == Spec => []NoStaleLock
  <1>1. IInv => NoStaleLock
    <2> SUFFICES ASSUME IInv, faults = 0, NEW p \in lockdir, NEW c \in OpenConns(p)
                 PROVE  Holders(p) # {}
      BY DEF NoStaleLock
    <2>1. c \in Conns /\ state[c] = "open" /\ path[c] = p
      BY DEF OpenConns
    <2> QED BY <2>1 DEF IInv, ClearedOK
  <1> QED BY Invariant, <1>1, PTL

(* The lock directory of a path serialises its connections, for any number *)
(* of connections, failures and crashes, from the start and again after    *)
(* each time its last holder has gone, until an open deletes the directory *)
(* under a holder.                                                         *)
THEOREM Serialised == Spec => []Exclusion
  <1>1. IInv => Exclusion
    <2> SUFFICES ASSUME IInv, NEW p \in Paths \ disturbed
                 PROVE  /\ Cardinality(Holders(p)) <= 1
                        /\ Holders(p) # {} => p \in lockdir
      BY DEF Exclusion
    <2>1. \A c, d \in Holders(p) : c = d
      BY DEF IInv, HoldersOK
    <2>2. Holders(p) = {} \/ \E c : Holders(p) = {c}
      BY <2>1
    <2>3. Cardinality(Holders(p)) <= 1
      <3>1. CASE Holders(p) = {}
        BY <3>1, FS_EmptySet
      <3>2. ASSUME NEW c, Holders(p) = {c} PROVE Cardinality(Holders(p)) <= 1
        <4>1. Cardinality({c}) = 1
          BY FS_Singleton
        <4> QED BY <3>2, <4>1
      <3> QED BY <2>2, <3>1, <3>2
    <2> QED BY <2>3 DEF IInv, HoldersOK
  <1> QED BY Invariant, <1>1, PTL

=============================================================================
