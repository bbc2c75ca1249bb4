---------------------------- MODULE ThreadReaper ----------------------------
(***************************************************************************)
(* Thread records, worker stacks and the reaper of clang_tls_switch.c.     *)
(*                                                                         *)
(* The linker wraps pthread_create, pthread_join and pthread_detach.  Each *)
(* wrapped thread has a KpThreadRec that owns its 8 MiB stack; a joiner    *)
(* (the caller of join, or the reaper for detached threads) frees both.    *)
(* Every section under kp_thread_mutex is one action; real pthread_join    *)
(* runs outside the mutex and is a step of its own.                        *)
(*                                                                         *)
(* A thread incarnation names its own record and its own stack, so the     *)
(* elements of Threads also stand for KpThreadRec pointers.                *)
(***************************************************************************)
EXTENDS Naturals, Sequences, SequencesExt

CONSTANTS Threads,   \* thread incarnations, each created at most once
          Ids,       \* pthread_t values the C library hands out
          NoId,      \* the id of a record that is not published yet
          NoRec,     \* the NULL KpThreadRec pointer
          IdReuse    \* may an id be handed out again as soon as its thread
                     \* is joined, while a record still carries it?

ASSUME ThreadAssumption ==
    /\ NoRec \notin Threads
    /\ NoId \notin Ids
    /\ IdReuse \in BOOLEAN

VARIABLES
    os,         \* the OS thread: unborn, starting, running, exiting, ended, joined
    owner,      \* the party that must dispose of it: none, holds, joining, done
    id,         \* rec->id
    stack,      \* rec->stack_buf: none, owned, caller, freed
    live,       \* records allocated and not freed
    finished,   \* records with rec->finished set
    detached,   \* records with rec->detached set
    registry,   \* kp_registry, head first
    reapq,      \* kp_reap_head .. kp_reap_tail
    reaper,     \* the reaper thread: off, check, wait, join, free
    reaping     \* the record the reaper took, or NoRec

vars == <<os, owner, id, stack, live, finished, detached, registry, reapq,
          reaper, reaping>>

recVars == <<id, stack, live, registry>>

(* The type invariant: one conjunct per variable.                          *)
TypeOK ==
    /\ os \in [Threads -> {"unborn", "starting", "running", "exiting", "ended", "joined"}]
    /\ owner \in [Threads -> {"none", "holds", "joining", "done"}]
    /\ id \in [Threads -> Ids \cup {NoId}]
    /\ stack \in [Threads -> {"none", "owned", "caller", "freed"}]
    /\ live \in SUBSET Threads
    /\ finished \in SUBSET Threads
    /\ detached \in SUBSET Threads
    /\ registry \in Seq(Threads)
    /\ reapq \in Seq(Threads)
    /\ reaper \in {"off", "check", "wait", "join", "free"}
    /\ reaping \in Threads \cup {NoRec}

Init ==
    /\ os = [t \in Threads |-> "unborn"]
    /\ owner = [t \in Threads |-> "none"]
    /\ id = [t \in Threads |-> NoId]
    /\ stack = [t \in Threads |-> "none"]
    /\ live = {} /\ finished = {} /\ detached = {}
    /\ registry = <<>> /\ reapq = <<>>
    /\ reaper = "off" /\ reaping = NoRec

-----------------------------------------------------------------------------
(* Helpers that require kp_thread_mutex.                                   *)

(* kp_find_locked: the registry is searched from its head.                 *)
KpFindLocked(h) ==
    LET hits == {k \in DOMAIN registry : id[registry[k]] = h}
    IN  IF hits = {} THEN NoRec
        ELSE registry[CHOOSE k \in hits : \A j \in hits : k <= j]

(* Faulty variant: the predecessor is set to NULL, which drops the tail.   *)
BadUnlinkTruncates(rec) ==
    LET at == {k \in DOMAIN registry : registry[k] = rec}
    IN  IF at = {} THEN registry
        ELSE SubSeq(registry, 1, (CHOOSE k \in at : \A j \in at : k <= j) - 1)

(* kp_unlink_locked: the first cell that points at rec is removed.         *)
KpUnlinkLocked(rec) ==
    LET at == {k \in DOMAIN registry : registry[k] = rec}
    IN  IF at = {} THEN registry
        ELSE RemoveAt(registry, CHOOSE k \in at : \A j \in at : k <= j)

(* Faulty variants: the queue is linked to rec->reap_next (NULL) instead of *)
(* rec; the waiting reaper is not signalled.                               *)
BadPushNull(rec, pc) ==
    /\ reapq' = Append(reapq, NoRec)
    /\ reaper' = IF pc = "wait" THEN "check" ELSE pc

BadPushNoSignal(rec, pc) ==
    /\ reapq' = Append(reapq, rec)
    /\ reaper' = pc

(* kp_push_reap_locked: append, then signal the reaper if it is waiting.   *)
KpPushReapLocked(rec, pc) ==
    /\ reapq' = Append(reapq, rec)
    /\ reaper' = IF pc = "wait" THEN "check" ELSE pc

(* free(rec->stack_buf); free(rec).  A caller-supplied stack is not ours.  *)
FreeRec(rec) ==
    /\ live' = live \ {rec}
    /\ stack' = [stack EXCEPT ![rec] = IF @ = "owned" THEN "freed" ELSE @]

(* Ids the C library cannot hand out: those of threads not joined yet and, *)
(* unless IdReuse, those a registered record still carries.                *)
BusyIds ==
    {id[t] : t \in {u \in Threads : os[u] \in {"running", "exiting", "ended"}}}
    \cup (IF IdReuse THEN {} ELSE {id[registry[k]] : k \in DOMAIN registry})

-----------------------------------------------------------------------------
(* pthread_create.  A failed malloc, calloc, memalign or attr_init frees   *)
(* what was allocated and returns EAGAIN: no state changes.                *)
CreateAlloc(t, buf) ==
    /\ os[t] = "unborn"
    /\ os' = [os EXCEPT ![t] = "starting"]
    /\ live' = live \cup {t}
    /\ stack' = [stack EXCEPT ![t] = buf]
    /\ UNCHANGED <<owner, id, finished, detached, registry, reapq, reaper, reaping>>

CreateStart(t, h) ==
    /\ os[t] = "starting"
    /\ h \notin BusyIds
    /\ os' = [os EXCEPT ![t] = "running"]
    /\ owner' = [owner EXCEPT ![t] = "holds"]
    /\ id' = [id EXCEPT ![t] = h]
    /\ registry' = <<t>> \o registry
    /\ UNCHANGED <<stack, live, finished, detached, reapq, reaper, reaping>>

(* The real pthread_create failed: stack and record are freed.             *)
CreateFail(t) ==
    /\ os[t] = "starting"
    /\ os' = [os EXCEPT ![t] = "unborn"]
    /\ live' = live \ {t}
    /\ stack' = [stack EXCEPT ![t] = "none"]
    /\ UNCHANGED <<owner, id, finished, detached, registry, reapq, reaper, reaping>>

(* The trampoline after start(arg) returned: the record is marked, and a   *)
(* detached one is queued.  The thread is still on its stack afterwards.   *)
TrampolineFinish(t) ==
    /\ os[t] = "running"
    /\ os' = [os EXCEPT ![t] = "exiting"]
    /\ finished' = finished \cup {t}
    /\ IF t \in detached THEN KpPushReapLocked(t, reaper)
                         ELSE UNCHANGED <<reapq, reaper>>
    /\ UNCHANGED <<owner, detached, recVars, reaping>>

(* The kernel thread ends (external: libnx and the kernel).                *)
ThreadExit(t) ==
    /\ os[t] = "exiting"
    /\ os' = [os EXCEPT ![t] = "ended"]
    /\ UNCHANGED <<owner, finished, detached, recVars, reapq, reaper, reaping>>

(* Faulty variant: detach leaves the queueing to the trampoline, which may *)
(* already have run.                                                       *)
BadDetachNoPush(t, started) ==
    /\ owner[t] = "holds"
    /\ started => reaper = "off"
    /\ detached' = detached \cup {t}
    /\ reaper' = IF started THEN "check" ELSE reaper
    /\ owner' = [owner EXCEPT ![t] = "done"]
    /\ UNCHANGED <<os, finished, recVars, reapq, reaping>>

(* pthread_detach by the one party that may dispose of t.  The reaper is   *)
(* started on demand; when it cannot be started a later detach tries again. *)
Detach(t, started) ==
    /\ owner[t] = "holds"
    /\ started => reaper = "off"
    /\ LET rec == KpFindLocked(id[t])
           pc == IF started THEN "check" ELSE reaper
       IN  /\ detached' = IF rec = NoRec THEN detached ELSE detached \cup {rec}
           /\ IF rec # NoRec /\ rec \in finished
              THEN KpPushReapLocked(rec, pc)
              ELSE reapq' = reapq /\ reaper' = pc
    /\ owner' = [owner EXCEPT ![t] = "done"]
    /\ UNCHANGED <<os, finished, recVars, reaping>>

(* pthread_join: the real join returns once the thread has ended; its id   *)
(* goes back to the C library.  (rc # 0 returns with nothing changed.)     *)
JoinReal(t) ==
    /\ owner[t] = "holds" /\ os[t] = "ended"
    /\ os' = [os EXCEPT ![t] = "joined"]
    /\ owner' = [owner EXCEPT ![t] = "joining"]
    /\ UNCHANGED <<finished, detached, recVars, reapq, reaper, reaping>>

(* ... then the record is looked up by id; a detached one is the reaper's. *)
JoinFinish(t) ==
    /\ owner[t] = "joining"
    /\ owner' = [owner EXCEPT ![t] = "done"]
    /\ LET rec == KpFindLocked(id[t])
       IN  IF rec = NoRec \/ rec \in detached
           THEN UNCHANGED <<registry, live, stack>>
           ELSE registry' = KpUnlinkLocked(rec) /\ FreeRec(rec)
    /\ UNCHANGED <<os, id, finished, detached, reapq, reaper, reaping>>

(* Faulty variants: the reaper does not unlink what it takes; it frees     *)
(* without joining.                                                        *)
BadReaperNoUnlink ==
    /\ reaper = "check"
    /\ IF reapq = <<>>
       THEN reaper' = "wait" /\ UNCHANGED <<reapq, reaping, registry>>
       ELSE /\ reaper' = "join"
            /\ reaping' = Head(reapq)
            /\ reapq' = Tail(reapq)
            /\ UNCHANGED registry
    /\ UNCHANGED <<os, owner, id, stack, live, finished, detached>>

BadReaperNoJoin ==
    /\ reaper = "join"
    /\ reaper' = "free"
    /\ UNCHANGED <<os, owner, finished, detached, recVars, reapq, reaping>>

(* kp_reaper_main: wait for a queued record, pop and unlink it, join the   *)
(* thread outside the mutex, then free stack and record.                   *)
ReaperCheck ==
    /\ reaper = "check"
    /\ IF reapq = <<>>
       THEN reaper' = "wait" /\ UNCHANGED <<reapq, reaping, registry>>
       ELSE /\ reaper' = "join"
            /\ reaping' = Head(reapq)
            /\ reapq' = Tail(reapq)
            /\ registry' = KpUnlinkLocked(Head(reapq))
    /\ UNCHANGED <<os, owner, id, stack, live, finished, detached>>

ReaperJoin ==
    /\ reaper = "join" /\ os[reaping] = "ended"
    /\ os' = [os EXCEPT ![reaping] = "joined"]
    /\ reaper' = "free"
    /\ UNCHANGED <<owner, finished, detached, recVars, reapq, reaping>>

ReaperFree ==
    /\ reaper = "free"
    /\ FreeRec(reaping)
    /\ reaper' = "check"
    /\ reaping' = NoRec
    /\ UNCHANGED <<os, owner, id, finished, detached, registry, reapq>>

-----------------------------------------------------------------------------
Create(t) ==
    \/ \E buf \in {"owned", "caller"} : CreateAlloc(t, buf)
    \/ \E h \in Ids : CreateStart(t, h)
    \/ CreateFail(t)

Reaper == ReaperCheck \/ ReaperJoin \/ ReaperFree

Next ==
    \/ \E t \in Threads :
          \/ Create(t)
          \/ TrampolineFinish(t)
          \/ ThreadExit(t)
          \/ \E started \in BOOLEAN : Detach(t, started)
          \/ JoinReal(t)
          \/ JoinFinish(t)
    \/ Reaper

Spec == Init /\ [][Next]_vars

(* The reaper thread and returning threads are scheduled by the kernel and *)
(* wait for nothing but what their guards say.  Callers owe us nothing: a  *)
(* worker may run for ever.                                                *)
Fairness ==
    /\ WF_vars(ReaperCheck) /\ WF_vars(ReaperJoin) /\ WF_vars(ReaperFree)
    /\ \A t \in Threads : WF_vars(ThreadExit(t))

FairSpec == Spec /\ Fairness

-----------------------------------------------------------------------------
Registered == Range(registry)
Queued == Range(reapq)

(* Until its thread has been joined, a started thread's record and stack   *)
(* are not freed: the trampoline still runs on that stack and still writes *)
(* that record (__wrap_pthread_join, kp_reaper_main, trampoline comment    *)
(* "Only a joiner may free it").                                           *)
StackOwned ==
    \A t \in Threads : os[t] \in {"running", "exiting", "ended"} =>
        t \in live /\ stack[t] \in {"owned", "caller"}

(* No pointer the module keeps dangles: registry, reap queue and the       *)
(* record in the reaper's hands are allocated, and each record is linked   *)
(* at most once, so neither list loses its tail and no record is freed     *)
(* twice (kp_unlink_locked before the free, detached check of join).       *)
NoDanglingRecord ==
    /\ Registered \cup Queued \cup ({reaping} \ {NoRec}) \subseteq live
    /\ IsInjective(registry) /\ IsInjective(reapq)
    /\ reaping \notin Registered \cup Queued

(* The reap queue holds exactly the registered records that are finished   *)
(* and detached, whichever of the two came first: no completion is queued  *)
(* twice or missed (the two pushes of trampoline and detach).              *)
QueueExact ==
    Queued = {t \in Registered : t \in finished /\ t \in detached}

(* Every allocated record is reachable by a party that will free it: a     *)
(* create in progress, a live or finished thread still registered, or the  *)
(* reaper.  A record outside these is leaked with its 8 MiB stack.         *)
NoLeak ==
    live \subseteq {t \in Threads : os[t] = "starting"} \cup Registered
                   \cup {reaping}

(* A registered record always belongs to somebody: its thread is not       *)
(* joined yet, or the call that joined it has still to unlink it.          *)
NoOrphanRecord ==
    \A t \in Registered : os[t] = "joined" => owner[t] = "joining"

(* Once the reaper runs, a finished detached thread is reclaimed, however  *)
(* long other detached workers run (queue by completion).                  *)
Reclaimed ==
    \A t \in Threads :
        (t \in detached /\ t \in finished /\ reaper # "off") ~> (t \notin live)

=============================================================================
