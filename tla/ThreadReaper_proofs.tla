------------------------ MODULE ThreadReaper_proofs -------------------------
(***************************************************************************)
(* Safety of ThreadReaper for any number of threads and ids, provided the  *)
(* C library does not hand out an id that a registered record still        *)
(* carries (~IdReuse).                                                     *)
(***************************************************************************)
EXTENDS ThreadReaper, SequenceTheorems, RecursionLemmas, TLAPS

(* The lists are injective and two registered records never share an id:  *)
(* only then does the lookup by id of join and detach find the right one.  *)
ListsOK ==
    /\ IsInjective(registry) /\ IsInjective(reapq)
    /\ \A a, b \in Registered : id[a] = id[b] => a = b

(* Who is registered: a thread not joined yet, unless the reaper took it,  *)
(* or one whose joiner has still to unlink it.                             *)
RegistryExact ==
    \A t \in Threads :
        t \in Registered <=>
            \/ os[t] \in {"running", "exiting", "ended"} /\ t # reaping
            \/ os[t] = "joined" /\ owner[t] = "joining"

(* Which records are allocated, and whose stacks are not freed.            *)
LiveExact ==
    /\ live = {t \in Threads : os[t] = "starting"} \cup Registered
              \cup ({reaping} \ {NoRec})
    /\ \A t \in live : stack[t] \in {"owned", "caller"}

(* The flags of a record against the thread and the party that owns it.    *)
FlagsOK ==
    \A t \in Threads :
        /\ t \in finished <=> os[t] \in {"exiting", "ended", "joined"}
        /\ owner[t] = "none" <=> os[t] \in {"unborn", "starting"}
        /\ owner[t] = "holds" => os[t] # "joined"
        /\ owner[t] = "joining" => os[t] = "joined"
        /\ t \in detached => owner[t] = "done"
        /\ owner[t] = "done" => t \in detached \/ os[t] = "joined"

(* The record in the reaper's hands.                                       *)
ReaperOK ==
    /\ reaper \in {"off", "check", "wait"} => reaping = NoRec
    /\ reaper \in {"join", "free"} =>
          reaping \in Threads /\ reaping \in detached
    /\ reaper = "join" => os[reaping] \in {"exiting", "ended"}
    /\ reaper = "free" => os[reaping] = "joined"

(* The inductive invariant.                                                *)
IInv == TypeOK /\ ListsOK /\ RegistryExact /\ QueueExact /\ LiveExact
        /\ FlagsOK /\ ReaperOK

-----------------------------------------------------------------------------
(* Appending a new element keeps a list injective and adds it to its range. *)
LEMMA AppendRange ==
    ASSUME NEW S, NEW s \in Seq(S), NEW e \in S, IsInjective(s), e \notin Range(s)
    PROVE  /\ Append(s, e) \in Seq(S)
           /\ IsInjective(Append(s, e))
           /\ Range(Append(s, e)) = Range(s) \cup {e}
  <1> DEFINE a == Append(s, e)
  <1>1. /\ a \in Seq(S) /\ Len(a) = Len(s) + 1
        /\ \A k \in 1..Len(s) : a[k] = s[k]
        /\ a[Len(s) + 1] = e
    OBVIOUS
  <1>2. DOMAIN a = 1..(Len(s) + 1) /\ DOMAIN s = 1..Len(s)
    BY <1>1
  <1>3. \A k \in 1..(Len(s) + 1) : k \in 1..Len(s) \/ k = Len(s) + 1
    OBVIOUS
  <1>4. Range(a) = Range(s) \cup {e}
    BY <1>1, <1>2, <1>3 DEF Range
  <1>5. IsInjective(a)
    BY <1>1, <1>2, <1>3 DEF Range, IsInjective
  <1> QED BY <1>1, <1>4, <1>5

(* The same for the head insertion of pthread_create.                      *)
LEMMA ConsRange ==
    ASSUME NEW S, NEW s \in Seq(S), NEW e \in S, IsInjective(s), e \notin Range(s)
    PROVE  /\ <<e>> \o s \in Seq(S)
           /\ IsInjective(<<e>> \o s)
           /\ Range(<<e>> \o s) = Range(s) \cup {e}
  <1> DEFINE a == <<e>> \o s
  <1>1. /\ a \in Seq(S) /\ Len(a) = Len(s) + 1
        /\ a[1] = e
        /\ \A k \in 1..Len(s) : a[k + 1] = s[k]
    OBVIOUS
  <1>2. DOMAIN a = 1..(Len(s) + 1) /\ DOMAIN s = 1..Len(s)
    BY <1>1
  <1>3. \A k \in 1..(Len(s) + 1) : k = 1 \/ (k - 1 \in 1..Len(s) /\ a[k] = s[k - 1])
    BY <1>1
  <1>4. Range(a) = Range(s) \cup {e}
    <2>1. Range(a) \subseteq Range(s) \cup {e}
      BY <1>1, <1>2, <1>3 DEF Range
    <2>2. ASSUME NEW x \in Range(s) PROVE x \in Range(a)
      <3>1. PICK k \in 1..Len(s) : s[k] = x
        BY <1>2 DEF Range
      <3>2. a[k + 1] = x /\ k + 1 \in DOMAIN a
        BY <1>1, <1>2, <3>1
      <3> QED BY <3>2 DEF Range
    <2>3. e \in Range(a)
      BY <1>1, <1>2 DEF Range
    <2> QED BY <2>1, <2>2, <2>3
  <1>5. IsInjective(a)
    BY <1>1, <1>2, <1>3 DEF Range, IsInjective
  <1> QED BY <1>1, <1>4, <1>5

(* Removing one cell of an injective list removes exactly that element.    *)
LEMMA RemoveAtRange ==
    ASSUME NEW S, NEW s \in Seq(S), IsInjective(s), NEW i \in 1..Len(s)
    PROVE  /\ RemoveAt(s, i) \in Seq(S)
           /\ IsInjective(RemoveAt(s, i))
           /\ Range(RemoveAt(s, i)) = Range(s) \ {s[i]}
  <1> DEFINE r == RemoveAt(s, i)
             src(k) == IF k < i THEN k ELSE k + 1
  <1> DEFINE p == SubSeq(s, 1, i - 1)
             q == SubSeq(s, i + 1, Len(s))
  <1>a. /\ p \in Seq(S) /\ Len(p) = i - 1
        /\ \A k \in 1..(i - 1) : p[k] = s[k]
    OBVIOUS
  <1>b. /\ q \in Seq(S) /\ Len(q) = Len(s) - i
        /\ \A k \in 1..(Len(s) - i) : q[k] = s[i + k]
    OBVIOUS
  <1> HIDE DEF p, q
  <1>c. /\ p \o q \in Seq(S) /\ Len(p \o q) = Len(p) + Len(q)
        /\ \A k \in 1..(Len(p) + Len(q)) :
              (p \o q)[k] = IF k <= Len(p) THEN p[k] ELSE q[k - Len(p)]
    BY <1>a, <1>b, ConcatProperties
  <1>d. r = p \o q
    BY DEF RemoveAt, p, q
  <1>1. r \in Seq(S) /\ Len(r) = Len(s) - 1
    BY <1>d, <1>a, <1>b, <1>c
  <1> HIDE DEF r
  <1>2. \A k \in 1..(Len(s) - 1) : r[k] = s[src(k)] /\ src(k) \in 1..Len(s) /\ src(k) # i
    <2> TAKE k \in 1..(Len(s) - 1)
    <2>1. CASE k < i
      <3>1. k \in 1..(i - 1) /\ k <= Len(p) /\ k \in 1..(Len(p) + Len(q))
        BY <2>1, <1>a, <1>b
      <3>2. r[k] = s[k]
        BY <3>1, <1>a, <1>c, <1>d
      <3> QED BY <3>1, <3>2, <2>1
    <2>2. CASE k >= i
      <3>1. k - Len(p) \in 1..(Len(s) - i) /\ ~(k <= Len(p)) /\ k \in 1..(Len(p) + Len(q))
        BY <2>2, <1>a, <1>b
      <3>2. r[k] = q[k - Len(p)] /\ q[k - Len(p)] = s[i + (k - Len(p))]
        BY <3>1, <1>b, <1>c, <1>d
      <3>3. i + (k - Len(p)) = k + 1
        BY <1>a
      <3> QED BY <3>2, <3>3, <2>2
    <2> QED BY <2>1, <2>2
  <1>3. DOMAIN r = 1..(Len(s) - 1) /\ DOMAIN s = 1..Len(s)
    BY <1>1
  <1>4. \A k, m \in 1..(Len(s) - 1) : src(k) = src(m) => k = m
    OBVIOUS
  <1>5. \A m \in 1..Len(s) : m # i => \E k \in 1..(Len(s) - 1) : src(k) = m
    <2> TAKE m \in 1..Len(s)
    <2> HAVE m # i
    <2>1. CASE m < i
      <3>1. m \in 1..(Len(s) - 1) /\ src(m) = m BY <2>1
      <3> QED BY <3>1
    <2>2. CASE m > i
      <3>1. m - 1 \in 1..(Len(s) - 1) /\ src(m - 1) = m BY <2>2
      <3> QED BY <3>1
    <2> QED BY <2>1, <2>2
  <1> HIDE DEF src, r
  <1>6. IsInjective(r)
    BY <1>2, <1>3, <1>4 DEF IsInjective
  <1>7. Range(r) = Range(s) \ {s[i]}
    <2>1. ASSUME NEW x \in Range(r) PROVE x \in Range(s) \ {s[i]}
      <3>1. PICK k \in 1..(Len(s) - 1) : x = r[k]
        BY <1>3 DEF Range
      <3>2. x = s[src(k)] /\ src(k) \in DOMAIN s /\ i \in DOMAIN s /\ src(k) # i
        BY <3>1, <1>2, <1>3
      <3> QED BY <3>2 DEF Range, IsInjective
    <2>2. ASSUME NEW x \in Range(s) \ {s[i]} PROVE x \in Range(r)
      <3>1. PICK m \in 1..Len(s) : x = s[m]
        BY <1>3 DEF Range
      <3>2. PICK k \in 1..(Len(s) - 1) : src(k) = m
        BY <3>1, <1>5
      <3>3. x = r[k] /\ k \in DOMAIN r
        BY <3>1, <3>2, <1>2, <1>3
      <3> QED BY <3>3 DEF Range
    <2> QED BY <2>1, <2>2
  <1> QED BY <1>1, <1>6, <1>7 DEF r

(* Popping the head of the reap queue.                                     *)
LEMMA TailRange ==
    ASSUME NEW S, NEW s \in Seq(S), IsInjective(s), s # <<>>
    PROVE  /\ Head(s) \in S /\ Head(s) \in Range(s)
           /\ Tail(s) \in Seq(S)
           /\ IsInjective(Tail(s))
           /\ Range(Tail(s)) = Range(s) \ {Head(s)}
  <1>1. /\ Len(s) \in Nat \ {0} /\ Head(s) = s[1] /\ DOMAIN s = 1..Len(s)
        /\ Tail(s) \in Seq(S) /\ DOMAIN Tail(s) = 1..(Len(s) - 1)
        /\ \A k \in 1..(Len(s) - 1) : Tail(s)[k] = s[k + 1]
    OBVIOUS
  <1>2. \A m \in 1..Len(s) : m # 1 => m - 1 \in 1..(Len(s) - 1) /\ Tail(s)[m - 1] = s[m]
    BY <1>1
  <1>3. IsInjective(Tail(s))
    BY <1>1 DEF IsInjective
  <1>4. Range(Tail(s)) = Range(s) \ {Head(s)}
    <2>1. ASSUME NEW x \in Range(Tail(s)) PROVE x \in Range(s) \ {Head(s)}
      <3>1. PICK k \in 1..(Len(s) - 1) : x = Tail(s)[k]
        BY <1>1 DEF Range
      <3>2. x = s[k + 1] /\ k + 1 \in DOMAIN s /\ 1 \in DOMAIN s /\ k + 1 # 1
        BY <3>1, <1>1
      <3> QED BY <3>2, <1>1 DEF Range, IsInjective
    <2>2. ASSUME NEW x \in Range(s) \ {Head(s)} PROVE x \in Range(Tail(s))
      <3>1. PICK m \in 1..Len(s) : x = s[m]
        BY <1>1 DEF Range
      <3>2. m # 1
        BY <3>1, <1>1
      <3> QED BY <3>1, <3>2, <1>1, <1>2 DEF Range
    <2> QED BY <2>1, <2>2
  <1>5. s[1] \in S /\ s[1] \in Range(s)
    BY <1>1 DEF Range
  <1> QED BY <1>1, <1>3, <1>4, <1>5

-----------------------------------------------------------------------------
(* The lookup by id returns the record of the thread it is asked for.      *)
LEMMA FindSelf ==
    ASSUME TypeOK, ListsOK, NEW t \in Registered
    PROVE  KpFindLocked(id[t]) = t
  <1>1. PICK m \in DOMAIN registry : registry[m] = t
    BY DEF Registered, Range
  <1>2. DOMAIN registry \subseteq Nat
    BY DEF TypeOK
  <1> DEFINE hits == {k \in DOMAIN registry : id[registry[k]] = id[t]}
  <1>3. hits = {m}
    <2>1. \A k \in DOMAIN registry : registry[k] \in Registered
      BY DEF Registered, Range
    <2>2. \A k \in DOMAIN registry : id[registry[k]] = id[t] => k = m
      BY <1>1, <2>1 DEF ListsOK, IsInjective
    <2> QED BY <1>1, <2>2
  <1>4. (CHOOSE k \in hits : \A j \in hits : k <= j) = m
    BY <1>2, <1>3
  <1> QED BY <1>1, <1>3, <1>4 DEF KpFindLocked

(* Unlinking a registered record removes it and nothing else.              *)
LEMMA UnlinkRange ==
    ASSUME TypeOK, ListsOK, NEW t \in Registered
    PROVE  /\ KpUnlinkLocked(t) \in Seq(Threads)
           /\ IsInjective(KpUnlinkLocked(t))
           /\ Range(KpUnlinkLocked(t)) = Registered \ {t}
  <1>1. PICK m \in DOMAIN registry : registry[m] = t
    BY DEF Registered, Range
  <1>2. registry \in Seq(Threads) /\ IsInjective(registry) /\ m \in 1..Len(registry)
    BY <1>1 DEF TypeOK, ListsOK
  <1> DEFINE at == {k \in DOMAIN registry : registry[k] = t}
  <1>3. at = {m}
    BY <1>1, <1>2 DEF IsInjective
  <1>4. (CHOOSE k \in at : \A j \in at : k <= j) = m
    BY <1>2, <1>3
  <1>5. KpUnlinkLocked(t) = RemoveAt(registry, m)
    BY <1>3, <1>4 DEF KpUnlinkLocked
  <1> QED BY <1>1, <1>2, <1>5, RemoveAtRange DEF Registered

-----------------------------------------------------------------------------
(* Before the first pthread_create every list is empty.                    *)
LEMMA InitIInv == Init => IInv
  <1> SUFFICES ASSUME Init PROVE IInv
    OBVIOUS
  <1>1. registry = <<>> /\ reapq = <<>> /\ Registered = {} /\ Queued = {}
    BY DEF Init, Registered, Queued, Range
  <1>2. TypeOK
    BY DEF Init, TypeOK
  <1>3. ListsOK
    BY <1>1 DEF ListsOK, IsInjective
  <1>4. RegistryExact /\ QueueExact /\ FlagsOK /\ ReaperOK
    BY <1>1, ThreadAssumption
    DEF Init, RegistryExact, QueueExact, FlagsOK, ReaperOK
  <1>5. LiveExact
    BY <1>1 DEF Init, LiveExact
  <1> QED BY <1>2, <1>3, <1>4, <1>5 DEF IInv

(* pthread_create allocates: the new record is not linked anywhere yet.    *)
LEMMA CreateAllocIInv ==
    ASSUME IInv, NEW t \in Threads, NEW buf \in {"owned", "caller"}, CreateAlloc(t, buf)
    PROVE  IInv'
  <1> USE DEF IInv, CreateAlloc
  <1>1. Registered' = Registered /\ Queued' = Queued
    BY DEF Registered, Queued
  <1>2. TypeOK'
    BY DEF TypeOK
  <1>3. ListsOK'
    BY <1>1 DEF ListsOK
  <1>4. RegistryExact' /\ QueueExact' /\ FlagsOK' /\ ReaperOK'
    BY <1>1 DEF TypeOK, RegistryExact, QueueExact, FlagsOK, ReaperOK
  <1>5. LiveExact'
    BY <1>1 DEF TypeOK, LiveExact
  <1> QED BY <1>2, <1>3, <1>4, <1>5

(* pthread_create publishes: the only step that needs fresh ids.           *)
LEMMA CreateStartIInv ==
    ASSUME IInv, ~IdReuse, NEW t \in Threads, NEW h \in Ids, CreateStart(t, h)
    PROVE  IInv'
  <1> USE DEF IInv, CreateStart
  <1>0. t \notin Registered
    BY DEF RegistryExact
  <1>1. /\ registry' \in Seq(Threads) /\ IsInjective(registry')
        /\ Registered' = Registered \cup {t} /\ Queued' = Queued
    BY <1>0, ConsRange DEF TypeOK, ListsOK, Registered, Queued
  <1>2. TypeOK'
    BY <1>1 DEF TypeOK
  <1>3. \A u \in Registered : id[u] # h /\ u \in Threads
    BY DEF BusyIds, Registered, Range, TypeOK
  <1>4. ListsOK'
    BY <1>0, <1>1, <1>3 DEF ListsOK, TypeOK
  <1>5. t # reaping
    BY ThreadAssumption DEF ReaperOK, FlagsOK, TypeOK
  <1>6. RegistryExact' /\ QueueExact' /\ FlagsOK' /\ ReaperOK'
    BY <1>1, <1>5 DEF TypeOK, RegistryExact, QueueExact, FlagsOK, ReaperOK
  <1>7. LiveExact'
    BY <1>1 DEF TypeOK, LiveExact
  <1> QED BY <1>2, <1>4, <1>6, <1>7

(* A failed create frees a record that no list refers to.                  *)
LEMMA CreateFailIInv ==
    ASSUME IInv, NEW t \in Threads, CreateFail(t)
    PROVE  IInv'
  <1> USE DEF IInv, CreateFail
  <1>0. t \notin Registered /\ t # reaping
    BY ThreadAssumption DEF RegistryExact, ReaperOK, TypeOK
  <1>1. Registered' = Registered /\ Queued' = Queued
    BY DEF Registered, Queued
  <1>2. TypeOK'
    BY DEF TypeOK
  <1>3. ListsOK'
    BY <1>1 DEF ListsOK
  <1>4. RegistryExact' /\ QueueExact' /\ FlagsOK' /\ ReaperOK'
    BY <1>1 DEF TypeOK, RegistryExact, QueueExact, FlagsOK, ReaperOK
  <1>5. LiveExact'
    BY <1>0, <1>1 DEF TypeOK, LiveExact
  <1> QED BY <1>2, <1>3, <1>4, <1>5

(* The trampoline queues a detached record exactly once.                   *)
LEMMA TrampolineFinishIInv ==
    ASSUME IInv, NEW t \in Threads, TrampolineFinish(t)
    PROVE  IInv'
  <1> USE DEF IInv, TrampolineFinish, recVars
  <1>0. t \notin Queued /\ t # reaping /\ t \in Registered
    BY ThreadAssumption DEF QueueExact, FlagsOK, ReaperOK, RegistryExact, TypeOK
  <1>1. /\ Registered' = Registered
        /\ reapq' \in Seq(Threads) /\ IsInjective(reapq')
        /\ Queued' = IF t \in detached THEN Queued \cup {t} ELSE Queued
    <2>0. reapq \in Seq(Threads) /\ IsInjective(reapq) /\ t \notin Range(reapq)
      BY <1>0 DEF TypeOK, ListsOK, Queued
    <2>1. CASE t \in detached
      <3>1. reapq' = Append(reapq, t)
        BY <2>1 DEF KpPushReapLocked
      <3>2. /\ Append(reapq, t) \in Seq(Threads) /\ IsInjective(Append(reapq, t))
            /\ Range(Append(reapq, t)) = Range(reapq) \cup {t}
        BY <2>0, AppendRange
      <3> QED BY <2>1, <3>1, <3>2 DEF Registered, Queued
    <2>2. CASE t \notin detached
      BY <2>0, <2>2 DEF Registered, Queued
    <2> QED BY <2>1, <2>2
  <1>2. reaper' \in {"off", "check", "wait", "join", "free"} /\
        (reaper' = reaper \/ (reaper = "wait" /\ reaper' = "check"))
    BY DEF TypeOK, KpPushReapLocked
  <1>3. TypeOK'
    BY <1>1, <1>2 DEF TypeOK
  <1>4. ListsOK'
    BY <1>1 DEF ListsOK
  <1>5. RegistryExact' /\ QueueExact' /\ FlagsOK' /\ ReaperOK'
    BY <1>0, <1>1, <1>2 DEF TypeOK, RegistryExact, QueueExact, FlagsOK, ReaperOK
  <1>6. LiveExact'
    BY <1>1 DEF TypeOK, LiveExact
  <1> QED BY <1>3, <1>4, <1>5, <1>6

(* The kernel thread ends after its record is marked finished.             *)
LEMMA ThreadExitIInv ==
    ASSUME IInv, NEW t \in Threads, ThreadExit(t)
    PROVE  IInv'
  <1> USE DEF IInv, ThreadExit, recVars
  <1>1. Registered' = Registered /\ Queued' = Queued
    BY DEF Registered, Queued
  <1>2. TypeOK'
    BY DEF TypeOK
  <1>3. ListsOK'
    BY <1>1 DEF ListsOK
  <1>4. RegistryExact' /\ QueueExact' /\ FlagsOK' /\ ReaperOK'
    BY <1>1 DEF TypeOK, RegistryExact, QueueExact, FlagsOK, ReaperOK
  <1>5. LiveExact'
    BY <1>1 DEF TypeOK, LiveExact
  <1> QED BY <1>2, <1>3, <1>4, <1>5

(* Detach finds its own record and queues a finished one exactly once.     *)
LEMMA DetachIInv ==
    ASSUME IInv, NEW t \in Threads, NEW started \in BOOLEAN, Detach(t, started)
    PROVE  IInv'
  <1> USE DEF IInv, recVars
  <1> DEFINE pc == IF started THEN "check" ELSE reaper
  <1>0. /\ t \notin Queued /\ t # reaping /\ t \in Registered /\ t \notin detached
        /\ owner[t] = "holds" /\ os[t] # "joined"
    BY ThreadAssumption
    DEF Detach, QueueExact, FlagsOK, ReaperOK, RegistryExact, TypeOK
  <1>1. KpFindLocked(id[t]) = t /\ t # NoRec
    BY <1>0, FindSelf, ThreadAssumption
  <1>2. /\ detached' = detached \cup {t}
        /\ IF t \in finished THEN KpPushReapLocked(t, pc) ELSE reapq' = reapq /\ reaper' = pc
        /\ owner' = [owner EXCEPT ![t] = "done"]
        /\ UNCHANGED <<os, finished, recVars, reaping>>
        /\ started => reaper = "off"
    BY <1>1 DEF Detach
  <1>3. /\ Registered' = Registered
        /\ reapq' \in Seq(Threads) /\ IsInjective(reapq')
        /\ Queued' = IF t \in finished THEN Queued \cup {t} ELSE Queued
    <2>0. reapq \in Seq(Threads) /\ IsInjective(reapq) /\ t \notin Range(reapq)
      BY <1>0 DEF TypeOK, ListsOK, Queued
    <2>1. CASE t \in finished
      <3>1. reapq' = Append(reapq, t)
        BY <1>2, <2>1 DEF KpPushReapLocked
      <3>2. /\ Append(reapq, t) \in Seq(Threads) /\ IsInjective(Append(reapq, t))
            /\ Range(Append(reapq, t)) = Range(reapq) \cup {t}
        BY <2>0, AppendRange
      <3> QED BY <1>2, <2>1, <3>1, <3>2 DEF Registered, Queued
    <2>2. CASE t \notin finished
      BY <1>2, <2>0, <2>2 DEF Registered, Queued
    <2> QED BY <2>1, <2>2
  <1>4. \/ reaper' = reaper
        \/ reaper \in {"wait", "off"} /\ reaper' = "check"
    BY <1>2 DEF TypeOK, KpPushReapLocked
  <1>5. TypeOK'
    BY <1>2, <1>3, <1>4 DEF TypeOK
  <1>6. ListsOK'
    BY <1>2, <1>3 DEF ListsOK
  <1>7. RegistryExact' /\ FlagsOK'
    BY <1>0, <1>2, <1>3 DEF TypeOK, RegistryExact, FlagsOK
  <1>8. QueueExact'
    BY <1>0, <1>2, <1>3 DEF QueueExact
  <1>9. ReaperOK'
    BY <1>2, <1>4 DEF ReaperOK
  <1>10. LiveExact'
    BY <1>2, <1>3 DEF TypeOK, LiveExact
  <1> QED BY <1>5, <1>6, <1>7, <1>8, <1>9, <1>10

(* The real join of an owner: the thread is not detached.                  *)
LEMMA JoinRealIInv ==
    ASSUME IInv, NEW t \in Threads, JoinReal(t)
    PROVE  IInv'
  <1> USE DEF IInv, JoinReal, recVars
  <1>0. t # reaping /\ t \notin detached
    BY ThreadAssumption DEF FlagsOK, ReaperOK, TypeOK
  <1>1. Registered' = Registered /\ Queued' = Queued
    BY DEF Registered, Queued
  <1>2. TypeOK'
    BY DEF TypeOK
  <1>3. ListsOK'
    BY <1>1 DEF ListsOK
  <1>4. RegistryExact' /\ QueueExact' /\ FlagsOK' /\ ReaperOK'
    BY <1>0, <1>1 DEF TypeOK, RegistryExact, QueueExact, FlagsOK, ReaperOK
  <1>5. LiveExact'
    BY <1>1 DEF TypeOK, LiveExact
  <1> QED BY <1>2, <1>3, <1>4, <1>5

(* The joiner unlinks and frees its own record, not a newer one.           *)
LEMMA JoinFinishIInv ==
    ASSUME IInv, NEW t \in Threads, JoinFinish(t)
    PROVE  IInv'
  <1> USE DEF IInv
  <1>0. /\ owner[t] = "joining" /\ os[t] = "joined" /\ t \in Registered
        /\ t \notin detached /\ t # reaping
    BY ThreadAssumption DEF JoinFinish, FlagsOK, ReaperOK, RegistryExact, TypeOK
  <1>1. KpFindLocked(id[t]) = t /\ t # NoRec
    BY <1>0, FindSelf, ThreadAssumption
  <1>2. /\ registry' = KpUnlinkLocked(t) /\ FreeRec(t)
        /\ owner' = [owner EXCEPT ![t] = "done"]
        /\ UNCHANGED <<os, id, finished, detached, reapq, reaper, reaping>>
    BY <1>0, <1>1 DEF JoinFinish
  <1>3. /\ registry' \in Seq(Threads) /\ IsInjective(registry')
        /\ Registered' = Registered \ {t} /\ Queued' = Queued
    BY <1>0, <1>2, UnlinkRange DEF Registered, Queued
  <1>4. live' = live \ {t} /\ stack' \in [Threads -> {"none", "owned", "caller", "freed"}]
        /\ \A u \in Threads : u # t => stack'[u] = stack[u]
    BY <1>2 DEF FreeRec, TypeOK
  <1>5. TypeOK'
    BY <1>2, <1>3, <1>4 DEF TypeOK
  <1>6. ListsOK'
    BY <1>2, <1>3 DEF ListsOK
  <1>7. RegistryExact' /\ QueueExact' /\ FlagsOK' /\ ReaperOK'
    BY <1>0, <1>2, <1>3 DEF TypeOK, RegistryExact, QueueExact, FlagsOK, ReaperOK
  <1>8. LiveExact'
    BY <1>0, <1>2, <1>3, <1>4 DEF TypeOK, LiveExact
  <1> QED BY <1>5, <1>6, <1>7, <1>8

(* The reaper takes a queued record out of both lists.                     *)
LEMMA ReaperCheckIInv ==
    ASSUME IInv, ReaperCheck
    PROVE  IInv'
  <1> USE DEF IInv
  <1>1. CASE reapq = <<>>
    <2>1. /\ reaper = "check" /\ reaper' = "wait"
          /\ UNCHANGED <<reapq, reaping, registry, os, owner, id, stack, live, finished, detached>>
      BY <1>1 DEF ReaperCheck
    <2>2. Registered' = Registered /\ Queued' = Queued
      BY <2>1 DEF Registered, Queued
    <2>3. TypeOK' /\ ListsOK'
      BY <2>1, <2>2 DEF TypeOK, ListsOK
    <2>4. RegistryExact' /\ QueueExact' /\ FlagsOK' /\ ReaperOK' /\ LiveExact'
      BY <2>1, <2>2 DEF RegistryExact, QueueExact, FlagsOK, ReaperOK, LiveExact
    <2> QED BY <2>3, <2>4
  <1>2. CASE reapq # <<>>
    <2> DEFINE r == Head(reapq)
    <2>1. /\ reaper = "check" /\ reaper' = "join"
          /\ reaping' = r /\ reapq' = Tail(reapq) /\ registry' = KpUnlinkLocked(r)
          /\ UNCHANGED <<os, owner, id, stack, live, finished, detached>>
      BY <1>2 DEF ReaperCheck
    <2>2. /\ r \in Threads /\ r \in Queued /\ reapq' \in Seq(Threads)
          /\ IsInjective(reapq') /\ Queued' = Queued \ {r}
      BY <1>2, <2>1, TailRange DEF TypeOK, ListsOK, Queued
    <2>3. r \in Registered /\ r \in finished /\ r \in detached
      BY <2>2 DEF QueueExact
    <2>4. /\ registry' \in Seq(Threads) /\ IsInjective(registry')
          /\ Registered' = Registered \ {r}
      BY <2>1, <2>3, UnlinkRange DEF Registered
    <2>5. reaping = NoRec /\ r # NoRec
      BY <2>1, <2>2, ThreadAssumption DEF ReaperOK
    <2>6. os[r] \in {"exiting", "ended"} /\ owner[r] = "done"
      BY <2>2, <2>3 DEF FlagsOK, RegistryExact
    <2> HIDE DEF r
    <2>7. TypeOK'
      BY <2>1, <2>2, <2>4 DEF TypeOK
    <2>8. ListsOK'
      BY <2>1, <2>2, <2>4 DEF ListsOK
    <2>9. RegistryExact' /\ FlagsOK' /\ ReaperOK'
      BY <2>1, <2>2, <2>3, <2>4, <2>5, <2>6, ThreadAssumption
      DEF TypeOK, RegistryExact, FlagsOK, ReaperOK
    <2>10. QueueExact'
      BY <2>1, <2>2, <2>3, <2>4 DEF QueueExact
    <2>11. LiveExact'
      BY <2>1, <2>3, <2>4, <2>5 DEF LiveExact
    <2> QED BY <2>7, <2>8, <2>9, <2>10, <2>11
  <1> QED BY <1>1, <1>2

(* The reaper joins the thread it took.                                    *)
LEMMA ReaperJoinIInv ==
    ASSUME IInv, ReaperJoin
    PROVE  IInv'
  <1> USE DEF IInv, ReaperJoin, recVars
  <1>0. reaping \in Threads /\ reaping \in detached
    BY DEF ReaperOK
  <1>1. Registered' = Registered /\ Queued' = Queued
    BY DEF Registered, Queued
  <1>2. TypeOK' /\ ListsOK'
    BY <1>1 DEF TypeOK, ListsOK
  <1>3. RegistryExact' /\ QueueExact' /\ FlagsOK' /\ ReaperOK'
    BY <1>0, <1>1 DEF TypeOK, RegistryExact, QueueExact, FlagsOK, ReaperOK
  <1>4. LiveExact'
    BY <1>0, <1>1 DEF TypeOK, LiveExact
  <1> QED BY <1>2, <1>3, <1>4

(* The reaper frees a record no list refers to.                            *)
LEMMA ReaperFreeIInv ==
    ASSUME IInv, ReaperFree
    PROVE  IInv'
  <1> USE DEF IInv, ReaperFree
  <1>0. reaping \in Threads /\ reaping \in detached /\ os[reaping] = "joined"
    BY DEF ReaperOK
  <1>1. Registered' = Registered /\ Queued' = Queued
    BY DEF Registered, Queued
  <1>2. live' = live \ {reaping} /\ stack' \in [Threads -> {"none", "owned", "caller", "freed"}]
        /\ \A u \in Threads : u # reaping => stack'[u] = stack[u]
    BY DEF FreeRec, TypeOK
  <1>3. reaping \notin Registered
    BY <1>0 DEF RegistryExact, FlagsOK
  <1>4. TypeOK' /\ ListsOK'
    BY <1>1, <1>2 DEF TypeOK, ListsOK
  <1>5. RegistryExact' /\ QueueExact' /\ FlagsOK' /\ ReaperOK'
    BY <1>0, <1>1, ThreadAssumption DEF TypeOK, RegistryExact, QueueExact, FlagsOK, ReaperOK
  <1>6. LiveExact'
    BY <1>0, <1>1, <1>2, <1>3 DEF TypeOK, LiveExact
  <1> QED BY <1>4, <1>5, <1>6

-----------------------------------------------------------------------------
(* Every step preserves the invariant: one case per action.                *)
LEMMA NextIInv ==
    ASSUME IInv, ~IdReuse, [Next]_vars
    PROVE  IInv'
  <1>1. ASSUME NEW t \in Threads, Create(t) PROVE IInv'
    BY <1>1, CreateAllocIInv, CreateStartIInv, CreateFailIInv DEF Create
  <1>2. ASSUME NEW t \in Threads, TrampolineFinish(t) PROVE IInv'
    BY <1>2, TrampolineFinishIInv
  <1>3. ASSUME NEW t \in Threads, ThreadExit(t) PROVE IInv'
    BY <1>3, ThreadExitIInv
  <1>4. ASSUME NEW t \in Threads, NEW started \in BOOLEAN, Detach(t, started) PROVE IInv'
    BY <1>4, DetachIInv
  <1>5. ASSUME NEW t \in Threads, JoinReal(t) PROVE IInv'
    BY <1>5, JoinRealIInv
  <1>6. ASSUME NEW t \in Threads, JoinFinish(t) PROVE IInv'
    BY <1>6, JoinFinishIInv
  <1>7. ASSUME Reaper PROVE IInv'
    BY <1>7, ReaperCheckIInv, ReaperJoinIInv, ReaperFreeIInv DEF Reaper
  <1>8. CASE UNCHANGED vars
    BY <1>8 DEF vars, IInv, TypeOK, ListsOK, RegistryExact, QueueExact, LiveExact,
                FlagsOK, ReaperOK, Registered, Queued
  <1> QED BY <1>1, <1>2, <1>3, <1>4, <1>5, <1>6, <1>7, <1>8 DEF Next

(* The invariant holds throughout every run in which ids are not reused    *)
(* while registered (pthread_create, join, detach, trampoline, reaper).    *)
THEOREM Invariant ==
    ASSUME ~IdReuse PROVE Spec => []IInv
  <1>1. IInv /\ [Next]_vars => IInv'
    BY NextIInv
  <1> QED BY InitIInv, <1>1, PTL DEF Spec

(* A stack and its record stay allocated until the thread on it is joined. *)
THEOREM StackSafety ==
    ASSUME ~IdReuse PROVE Spec => []StackOwned
  <1>1. IInv => StackOwned
    BY ThreadAssumption DEF IInv, StackOwned, RegistryExact, LiveExact, TypeOK
  <1> QED BY Invariant, <1>1, PTL

(* No list and no reaper pointer refers to a freed record.                 *)
THEOREM PointerSafety ==
    ASSUME ~IdReuse PROVE Spec => []NoDanglingRecord
  <1>1. IInv => NoDanglingRecord
    <2> SUFFICES ASSUME IInv PROVE NoDanglingRecord
      OBVIOUS
    <2>1. Queued \subseteq Registered
      BY DEF IInv, QueueExact
    <2>2. NoRec \notin Registered
      BY ThreadAssumption DEF IInv, TypeOK, Registered, Range
    <2>3. reaping \notin Registered
      BY <2>2 DEF IInv, RegistryExact, ReaperOK, FlagsOK, TypeOK
    <2> QED BY <2>1, <2>3 DEF IInv, NoDanglingRecord, LiveExact, ListsOK
  <1> QED BY Invariant, <1>1, PTL

(* The reap queue holds exactly the finished, detached records, whichever  *)
(* of trampoline and detach came first.                                    *)
THEOREM QueueSound ==
    ASSUME ~IdReuse PROVE Spec => []QueueExact
  <1>1. IInv => QueueExact
    BY DEF IInv
  <1> QED BY Invariant, <1>1, PTL

(* Nothing is leaked and no record is orphaned.                            *)
THEOREM Reclamation ==
    ASSUME ~IdReuse PROVE Spec => [](NoLeak /\ NoOrphanRecord)
  <1>1. IInv => NoLeak /\ NoOrphanRecord
    <2> SUFFICES ASSUME IInv PROVE NoLeak /\ NoOrphanRecord
      OBVIOUS
    <2>1. Registered \subseteq Threads
      BY DEF IInv, TypeOK, Registered, Range
    <2> QED BY <2>1 DEF IInv, NoLeak, NoOrphanRecord, LiveExact, RegistryExact
  <1> QED BY Invariant, <1>1, PTL

-----------------------------------------------------------------------------
(* Lookup and unlinking stay within the records, with or without id reuse. *)
LEMMA LookupTypes ==
    ASSUME TypeOK
    PROVE  /\ \A h : KpFindLocked(h) \in Threads \cup {NoRec}
           /\ \A rec : KpUnlinkLocked(rec) \in Seq(Threads)
  <1>1. DOMAIN registry = 1..Len(registry) /\ \A k \in DOMAIN registry : registry[k] \in Threads
    BY DEF TypeOK
  <1>2. ASSUME NEW h PROVE KpFindLocked(h) \in Threads \cup {NoRec}
    <2> DEFINE hits == {k \in DOMAIN registry : id[registry[k]] = h}
    <2>1. hits \in SUBSET Nat
      BY <1>1
    <2>2. hits # {} => (CHOOSE k \in hits : \A j \in hits : k <= j) \in hits
      BY <2>1, FirstExists
    <2> QED BY <1>1, <2>2 DEF KpFindLocked
  <1>3. ASSUME NEW rec PROVE KpUnlinkLocked(rec) \in Seq(Threads)
    <2> DEFINE at == {k \in DOMAIN registry : registry[k] = rec}
               i == CHOOSE k \in at : \A j \in at : k <= j
    <2>1. at \in SUBSET Nat
      BY <1>1
    <2>2. at # {} => i \in 1..Len(registry)
      BY <1>1, <2>1, FirstExists
    <2>3. at # {} => RemoveAt(registry, i) \in Seq(Threads)
      <3> SUFFICES ASSUME at # {} PROVE RemoveAt(registry, i) \in Seq(Threads)
        OBVIOUS
      <3> HIDE DEF i
      <3>1. /\ SubSeq(registry, 1, i - 1) \in Seq(Threads)
            /\ SubSeq(registry, i + 1, Len(registry)) \in Seq(Threads)
        BY <2>2 DEF TypeOK
      <3> QED BY <3>1, ConcatProperties DEF RemoveAt
    <2> QED BY <2>3 DEF KpUnlinkLocked, TypeOK
  <1> QED BY <1>2, <1>3

(* Every step keeps the types, also when ids are reused.                   *)
LEMMA NextTypes ==
    ASSUME TypeOK, [Next]_vars
    PROVE  TypeOK'
  <1> USE DEF TypeOK, recVars
  <1>1. ASSUME NEW t \in Threads, Create(t) PROVE TypeOK'
    <2>1. ASSUME NEW h \in Ids, CreateStart(t, h) PROVE TypeOK'
      <3>1. <<t>> \o registry \in Seq(Threads)
        OBVIOUS
      <3> QED BY <2>1, <3>1 DEF CreateStart
    <2>2. ASSUME NEW buf \in {"owned", "caller"}, CreateAlloc(t, buf) PROVE TypeOK'
      BY <2>2 DEF CreateAlloc
    <2>3. CASE CreateFail(t)
      BY <2>3 DEF CreateFail
    <2> QED BY <1>1, <2>1, <2>2, <2>3 DEF Create
  <1>2. ASSUME NEW t \in Threads, TrampolineFinish(t) PROVE TypeOK'
    <2>1. Append(reapq, t) \in Seq(Threads)
      OBVIOUS
    <2>2. reapq' \in Seq(Threads) /\ reaper' \in {reaper, "check"}
      BY <1>2, <2>1 DEF TrampolineFinish, KpPushReapLocked
    <2> QED BY <1>2, <2>2 DEF TrampolineFinish
  <1>3. ASSUME NEW t \in Threads, ThreadExit(t) PROVE TypeOK'
    BY <1>3 DEF ThreadExit
  <1>4. ASSUME NEW t \in Threads, NEW started \in BOOLEAN, Detach(t, started) PROVE TypeOK'
    <2>1. KpFindLocked(id[t]) \in Threads \cup {NoRec}
      BY LookupTypes
    <2> DEFINE rec == KpFindLocked(id[t])
    <2> HIDE DEF rec
    <2>2. /\ detached' = IF rec = NoRec THEN detached ELSE detached \cup {rec}
          /\ reapq' \in {reapq, Append(reapq, rec)}
          /\ rec = NoRec => reapq' = reapq
          /\ reaper' \in {"check", reaper}
      BY <1>4 DEF Detach, KpPushReapLocked, rec
    <2>3. rec \in Threads => Append(reapq, rec) \in Seq(Threads)
      OBVIOUS
    <2>4. detached' \in SUBSET Threads /\ reapq' \in Seq(Threads)
      BY <2>1, <2>2, <2>3 DEF rec
    <2> QED BY <1>4, <2>2, <2>4 DEF Detach
  <1>5. ASSUME NEW t \in Threads, JoinReal(t) PROVE TypeOK'
    BY <1>5 DEF JoinReal
  <1>6. ASSUME NEW t \in Threads, JoinFinish(t) PROVE TypeOK'
    BY <1>6, LookupTypes DEF JoinFinish, FreeRec
  <1>7. CASE ReaperCheck
    <2>1. reapq # <<>> => Head(reapq) \in Threads /\ Tail(reapq) \in Seq(Threads)
      OBVIOUS
    <2>2. registry' \in Seq(Threads)
      BY <1>7, LookupTypes DEF ReaperCheck
    <2> QED BY <1>7, <2>1, <2>2 DEF ReaperCheck
  <1>8. CASE ReaperJoin
    BY <1>8 DEF ReaperJoin
  <1>9. CASE ReaperFree
    BY <1>9 DEF ReaperFree, FreeRec
  <1>10. CASE UNCHANGED vars
    BY <1>10 DEF vars
  <1> QED BY <1>1, <1>2, <1>3, <1>4, <1>5, <1>6, <1>7, <1>8, <1>9, <1>10 DEF Next, Reaper

(* Type correctness, for any threads and ids and whether or not the C      *)
(* library reuses ids: every lookup yields a record or NULL.               *)
THEOREM TypeCorrect == Spec => []TypeOK
  <1>1. Init => TypeOK
    BY InitIInv DEF IInv
  <1> QED BY <1>1, NextTypes, PTL DEF Spec

=============================================================================
