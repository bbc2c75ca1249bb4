------------------------------- MODULE HosVfs -------------------------------
(***************************************************************************)
(* The Horizon SQLite VFS of sqlite_vfs.cpp: one native handle per path    *)
(* shared by all connections, a lock directory beside each database, and   *)
(* what of them survives a crash.                                          *)
(*                                                                         *)
(* Native file-system calls are atomic.  Each section under handleMutex is *)
(* one action; open clears the lock directory before it takes the mutex,   *)
(* so it has two steps.                                                    *)
(***************************************************************************)
EXTENDS Naturals, FiniteSets

CONSTANTS Conns,      \* sqlite3_file objects
          Paths,      \* normalised paths, equal up to case
          NoPath,     \* the path of a closed connection
          MaxFaults   \* bound: failing native calls

ASSUME VfsAssumption ==
    /\ NoPath \notin Paths
    /\ MaxFaults \in Nat
    /\ IsFiniteSet(Conns)

(* SQLite's lock levels.                                                   *)
NONE == 0
SHARED == 1
RESERVED == 2
EXCLUSIVE == 4
Levels == {NONE, SHARED, RESERVED, EXCLUSIVE}

(* The flag combinations SQLite opens files with.                          *)
Flag(create, excl, rw, main, del) ==
    [create |-> create, excl |-> excl, rw |-> rw, main |-> main, del |-> del]
OpenFlags == {Flag(TRUE, FALSE, TRUE, TRUE, FALSE),     \* database, read-write
              Flag(FALSE, FALSE, FALSE, TRUE, FALSE),   \* database, read-only
              Flag(TRUE, FALSE, TRUE, FALSE, FALSE),    \* rollback journal
              Flag(TRUE, TRUE, TRUE, FALSE, TRUE)}      \* temporary file

Closed == [writable |-> FALSE, references |-> 0, deleteOnClose |-> FALSE]

VARIABLES
    state,      \* [Conns -> {"closed", "opening", "open"}]
    path,       \* f->path
    flags,      \* the flags of an open in progress
    lock,       \* f->lock
    readOnly,   \* f->readOnly
    handles,    \* [Paths -> SharedFile]; references = 0 when not in the list
    card,       \* files on the SD card
    lockdir,    \* lock directories on the SD card
    dirty,      \* paths with data written but not flushed
    faults,     \* native calls that failed so far
    disturbed   \* observation: paths whose lock directory an open deleted
                \* under a holder, until nobody holds the lock any more

connVars == <<state, path, flags, lock, readOnly>>
vars == <<connVars, handles, card, lockdir, dirty, faults, disturbed>>

(* The type invariant.                                                     *)
TypeOK ==
    /\ state \in [Conns -> {"closed", "opening", "open"}]
    /\ path \in [Conns -> Paths \cup {NoPath}]
    /\ flags \in [Conns -> OpenFlags \cup {Closed}]
    /\ lock \in [Conns -> Levels]
    /\ readOnly \in [Conns -> BOOLEAN]
    /\ handles \in [Paths -> [writable : BOOLEAN, references : Nat, deleteOnClose : BOOLEAN]]
    /\ card \subseteq Paths /\ lockdir \subseteq Paths /\ dirty \subseteq Paths
    /\ faults \in Nat /\ disturbed \subseteq Paths

Init ==
    /\ state = [c \in Conns |-> "closed"]
    /\ path = [c \in Conns |-> NoPath]
    /\ flags = [c \in Conns |-> Closed]
    /\ lock = [c \in Conns |-> NONE]
    /\ readOnly = [c \in Conns |-> FALSE]
    /\ handles = [p \in Paths |-> Closed]
    /\ card \in SUBSET Paths
    /\ lockdir \in SUBSET Paths       \* an earlier process may have crashed
    /\ dirty = {}
    /\ faults = 0
    /\ disturbed = {}

Fail == faults < MaxFaults /\ faults' = faults + 1
OpenConns(p) == {c \in Conns : state[c] = "open" /\ path[c] = p}
Holders(p) == {c \in OpenConns(p) : lock[c] # NONE}

(* A disturbed path is as good as new when its last holder has gone.       *)
Settle == disturbed' = {p \in disturbed : Holders(p)' # {}}

-----------------------------------------------------------------------------
(* open, before the mutex: whatever lock directory (or file) is there is   *)
(* taken for a stale one and deleted, the result ignored.                  *)
BadOpenClear(c, p, fl) ==                                  \* mutant: no clearing
    /\ state[c] = "closed"
    /\ state' = [state EXCEPT ![c] = "opening"]
    /\ path' = [path EXCEPT ![c] = p]
    /\ flags' = [flags EXCEPT ![c] = fl]
    /\ UNCHANGED <<lock, readOnly, handles, card, lockdir, dirty, faults, disturbed>>

OpenClear(c, p, fl) ==
    /\ state[c] = "closed"
    /\ state' = [state EXCEPT ![c] = "opening"]
    /\ path' = [path EXCEPT ![c] = p]
    /\ flags' = [flags EXCEPT ![c] = fl]
    /\ \/ /\ lockdir' = lockdir \ {p} /\ UNCHANGED faults
          /\ disturbed' = IF Holders(p) = {} THEN disturbed ELSE disturbed \cup {p}
       \/ Fail /\ UNCHANGED <<lockdir, disturbed>>
    /\ UNCHANGED <<lock, readOnly, handles, card, dirty>>

(* The connection is dropped again: CANTOPEN or NOMEM.                     *)
Dismiss(c) ==
    /\ state' = [state EXCEPT ![c] = "closed"]
    /\ path' = [path EXCEPT ![c] = NoPath]
    /\ flags' = [flags EXCEPT ![c] = Closed]

(* open, under the mutex, on the way to success: create the file if asked, *)
(* open a native handle unless the path has one, share it.  A handle that  *)
(* cannot be opened for writing is opened for reading.                     *)
OpenAttach(c) ==
    LET p == path[c]
        fl == flags[c]
        shared == handles[p].references > 0
        there == p \in card
    IN  /\ state[c] = "opening"
        /\ fl.excl => ~shared /\ ~there
        /\ fl.create \/ there
        /\ card' = card \cup {p}
        /\ \E writable \in BOOLEAN :
              /\ IF shared THEN writable = handles[p].writable /\ UNCHANGED faults
                 ELSE \/ writable = (fl.rw \/ fl.main) /\ UNCHANGED faults
                      \/ (fl.rw \/ fl.main) /\ ~writable /\ Fail
              /\ handles' = [handles EXCEPT ![p] =
                    [writable |-> writable, references |-> @.references + 1,
                     deleteOnClose |-> @.deleteOnClose \/ fl.del]]
              /\ readOnly' = [readOnly EXCEPT ![c] = ~fl.rw \/ ~writable]
        /\ state' = [state EXCEPT ![c] = "open"]
        /\ flags' = [flags EXCEPT ![c] = Closed]
        /\ UNCHANGED <<path, lock, lockdir, dirty, disturbed>>

(* ... and on the way to an error, after which a created file may remain.  *)
OpenReject(c) ==
    LET p == path[c]
        fl == flags[c]
        shared == handles[p].references > 0
        there == p \in card
    IN  /\ state[c] = "opening"
        /\ \/ /\ (fl.excl /\ (shared \/ there)) \/ (~fl.create /\ ~there /\ ~shared)
              /\ UNCHANGED <<card, faults>>
           \/ Fail /\ card' \in {card, IF fl.create THEN card \cup {p} ELSE card}
        /\ Dismiss(c)
        /\ UNCHANGED <<lock, readOnly, handles, lockdir, dirty, disturbed>>

(* lock: from NONE the lock directory is created; when it exists the call  *)
(* returns BUSY, when creation fails IOERR, with nothing changed.          *)
BadLock(c, level) ==                          \* mutant: PathExists not BUSY
    /\ state[c] = "open" /\ level > lock[c]
    /\ lockdir' = lockdir \cup {path[c]}
    /\ lock' = [lock EXCEPT ![c] = level]
    /\ UNCHANGED <<state, path, flags, readOnly, handles, card, dirty, faults, disturbed>>

Lock(c, level) ==
    /\ state[c] = "open" /\ level > lock[c]
    /\ lock[c] = NONE => path[c] \notin lockdir
    /\ lockdir' = lockdir \cup {path[c]}
    /\ lock' = [lock EXCEPT ![c] = level]
    /\ UNCHANGED <<state, path, flags, readOnly, handles, card, dirty, faults, disturbed>>

(* unlock: NONE deletes the directory; if that fails the lock is kept.     *)
Unlock(c, level) ==
    /\ state[c] = "open" /\ level < lock[c]
    /\ \/ /\ lock' = [lock EXCEPT ![c] = level]
          /\ lockdir' = IF level = NONE THEN lockdir \ {path[c]} ELSE lockdir
          /\ UNCHANGED faults
       \/ level = NONE /\ Fail /\ UNCHANGED <<lock, lockdir>>
    /\ UNCHANGED <<state, path, flags, readOnly, handles, card, dirty>>
    /\ Settle

(* Releasing the last reference flushes a writable handle (the result is   *)
(* ignored), closes it and deletes a file that was opened to be deleted.   *)
BadReleaseFirst(p, flushed) ==      \* mutant: the first close deletes the file
    /\ handles' = [handles EXCEPT ![p] =
          IF @.references > 1 THEN [handles[p] EXCEPT !.references = @ - 1] ELSE Closed]
    /\ card' = IF handles[p].deleteOnClose THEN card \ {p} ELSE card
    /\ dirty' = IF handles[p].references = 1 THEN dirty \ {p} ELSE dirty

BadReleaseNoFlush(p, flushed) ==    \* mutant: fsFileClose alone
    /\ handles' = [handles EXCEPT ![p] =
          IF @.references > 1 THEN [handles[p] EXCEPT !.references = @ - 1] ELSE Closed]
    /\ card' = IF handles[p].references = 1 /\ handles[p].deleteOnClose
               THEN card \ {p} ELSE card
    /\ UNCHANGED dirty

BadReleaseTwice(p, flushed) ==      \* mutant: unlock and close both drop one
    /\ handles' = [handles EXCEPT ![p].references = @ - 2]
    /\ UNCHANGED <<card, dirty>>

Release(p, flushed) ==
    LET h == handles[p]
    IN  IF h.references > 1
        THEN /\ handles' = [handles EXCEPT ![p].references = @ - 1]
             /\ UNCHANGED <<card, dirty>>
        ELSE /\ handles' = [handles EXCEPT ![p] = Closed]
             /\ card' = IF h.deleteOnClose THEN card \ {p} ELSE card
             /\ dirty' = IF h.writable /\ flushed THEN dirty \ {p} ELSE dirty

(* close: unlock to NONE (a failure is returned but does not stop it),     *)
(* then the reference is dropped.                                          *)
Close(c) ==
    \E unlocked, flushed \in BOOLEAN :
        /\ state[c] = "open"
        /\ IF unlocked /\ flushed THEN UNCHANGED faults ELSE Fail
        /\ lockdir' = IF lock[c] # NONE /\ unlocked THEN lockdir \ {path[c]} ELSE lockdir
        /\ Release(path[c], flushed)
        /\ lock' = [lock EXCEPT ![c] = NONE]
        /\ readOnly' = [readOnly EXCEPT ![c] = FALSE]
        /\ Dismiss(c)
        /\ Settle

(* write, truncate and the SIZE_HINT control: refused on a read-only       *)
(* connection; a call that fails may have written a part.                  *)
Write(c) ==
    /\ state[c] = "open" /\ ~readOnly[c]
    /\ dirty' = dirty \cup {path[c]}
    /\ UNCHANGED <<connVars, handles, card, lockdir, faults, disturbed>>

Sync(c) ==
    /\ state[c] = "open"
    /\ \/ dirty' = dirty \ {path[c]} /\ UNCHANGED faults
       \/ Fail /\ UNCHANGED dirty
    /\ UNCHANGED <<connVars, handles, card, lockdir, disturbed>>

(* remove: Horizon refuses to delete a file with an open handle.           *)
Remove(p) ==
    /\ handles[p].references = 0
    /\ card' = card \ {p}
    /\ UNCHANGED <<connVars, handles, lockdir, dirty, faults, disturbed>>

(* The process ends without sqlite3_close, by fast exit or by a crash, and *)
(* a new one starts without connections; files and lock directories        *)
(* remain, unflushed data may not.                                         *)
Restart ==
    /\ state' = [c \in Conns |-> "closed"]
    /\ path' = [c \in Conns |-> NoPath]
    /\ flags' = [c \in Conns |-> Closed]
    /\ lock' = [c \in Conns |-> NONE]
    /\ readOnly' = [c \in Conns |-> FALSE]
    /\ handles' = [p \in Paths |-> Closed]
    /\ dirty' = {} /\ disturbed' = {}
    /\ UNCHANGED <<card, lockdir, faults>>

(* melee_nx_sqlite_flush_all, when it gets the mutex in its 50 attempts;   *)
(* the result of each flush is ignored.                                    *)
FlushAll ==
    \E failed \in SUBSET {p \in dirty : handles[p].writable} :
        /\ dirty' = {p \in dirty : ~handles[p].writable \/ p \in failed}
        /\ IF failed = {} THEN UNCHANGED faults ELSE Fail
        /\ UNCHANGED <<connVars, handles, card, lockdir, disturbed>>

-----------------------------------------------------------------------------
Next ==
    \/ \E c \in Conns :
          \/ \E p \in Paths, fl \in OpenFlags : OpenClear(c, p, fl)
          \/ OpenAttach(c) \/ OpenReject(c)
          \/ \E level \in Levels : Lock(c, level) \/ Unlock(c, level)
          \/ Close(c) \/ Write(c) \/ Sync(c)
    \/ \E p \in Paths : Remove(p)
    \/ FlushAll
    \/ Restart

Spec == Init /\ [][Next]_vars

-----------------------------------------------------------------------------
(* A shared handle is open exactly as long as a connection uses it, counts *)
(* those connections, and its file exists: no leak, no early close by the  *)
(* connection that happened to open it first.                              *)
HandleShared ==
    \A p \in Paths :
        /\ handles[p].references = Cardinality(OpenConns(p))
        /\ handles[p].references > 0 => p \in card

(* Unflushed data always sits behind an open writable handle, so the last  *)
(* close and the flush at fast exit reach it, whichever connection wrote   *)
(* it and whichever closes last; only a failed flush, whose result close   *)
(* ignores, leaves data behind.                                            *)
DirtyReachable ==
    faults = 0 =>
        \A p \in dirty : handles[p].references > 0 /\ handles[p].writable

(* Connections to one file are serialised: lock says of a read lock that   *)
(* it "also owns the atomic directory. This supports rollback journals and *)
(* serializes connections to one file."  Fails: open deletes the directory *)
(* under a holder.                                                         *)
OneHolder ==
    \A p \in Paths : Cardinality(Holders(p)) <= 1

(* What is left of it: the lock directory of a path excludes, and belongs  *)
(* to its one holder, through failing calls, crashes and restarts, unless  *)
(* an open deleted it under a holder (disturbed); once all holders of a    *)
(* disturbed path have gone it excludes again.                             *)
Exclusion ==
    \A p \in Paths \ disturbed :
        Cardinality(Holders(p)) <= 1 /\ (Holders(p) # {} => p \in lockdir)

(* A lock directory left by a crashed process never makes an opened        *)
(* database busy: among open connections a directory means a holder, as    *)
(* long as no native call has failed.                                      *)
NoStaleLock ==
    faults = 0 =>
        \A p \in lockdir : OpenConns(p) # {} => Holders(p) # {}

=============================================================================
