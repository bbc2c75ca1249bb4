---------------------------- MODULE Launch_proofs ----------------------------
(***************************************************************************)
(* The launch and its exit, for any number of threads, attempts and calls: *)
(* the standard streams are never left on a console that is gone, and the  *)
(* exit keeps what was stored before it began.  And, for any histogram and *)
(* any frame times, what the FRAMES line reports is true.                  *)
(***************************************************************************)
EXTENDS Launch, RecursionLemmas, FiniteSetTheorems, TLAPS

(* Main has the streams on the card from the moment both dup2 succeeded,   *)
(* keeps the console until then, and starts the log writer last.           *)
StreamsOrdered ==
    /\ at \in {"console", "gate"} => "console" \in services
    /\ at \in {"redirect", "released", "game", "played"} => \A d \in Stdio : sink[d] = "card"
    /\ writer # "off" => at \in {"game", "played"}

(* A thread in the cache or the VFS has made a call.                       *)
CallsCounted == \A t \in Threads : place[t] \in {"cache", "vfs"} => calls >= 1

(* While no commit failed, what is owed is in the batch or in the          *)
(* database; and in the database once an exit is past the caches.          *)
OwedKept ==
    faults = 0 =>
        /\ owed \subseteq pending \cup safe
        /\ (\E t \in Threads : place[t] \in Exiting \ {"caches", "commit"}) => owed \subseteq safe

(* The inductive invariant.                                                *)
IInv == TypeOK /\ StreamsOrdered /\ CallsCounted /\ OwedKept

-----------------------------------------------------------------------------
LEMMA InitIInv == Init => IInv
  <1> SUFFICES ASSUME Init PROVE IInv
    OBVIOUS
  <1>1. TypeOK
    BY LaunchAssumption DEF Init, TypeOK
  <1>2. StreamsOrdered /\ CallsCounted /\ OwedKept
    BY DEF Init, StreamsOrdered, CallsCounted, OwedKept, Exiting
  <1> QED BY <1>1, <1>2 DEF IInv

(* What an exit that begins does to the invariant.                         *)
LEMMA BeginExitOwed ==
    ASSUME IInv, NEW t \in Threads, place[t] \in {"out", "cache", "vfs"}, BeginExit(t),
           UNCHANGED <<blobVars, calls>>, faults' \in Nat, faults' >= faults
    PROVE  /\ place' \in [Threads -> {"out", "cache", "vfs"} \cup Exiting]
           /\ owed' \subseteq 1..MaxCalls
           /\ CallsCounted' /\ OwedKept'
  <1> USE DEF IInv, TypeOK
  <1>1. place' = [place EXCEPT ![t] = "caches"] /\ pending' = pending /\ safe' = safe
    BY DEF BeginExit, blobVars
  <1>2. place' \in [Threads -> {"out", "cache", "vfs"} \cup Exiting]
    BY <1>1 DEF Exiting
  <1>3. owed' \subseteq 1..MaxCalls
    BY DEF BeginExit
  <1>4. CallsCounted'
    BY <1>1 DEF CallsCounted
  <1>5. ASSUME faults' = 0
        PROVE  /\ owed' \subseteq pending' \cup safe'
               /\ (\E u \in Threads : place'[u] \in Exiting \ {"caches", "commit"})
                     => owed' \subseteq safe'
    <2>1. faults = 0
      BY <1>5
    <2>2. \A u \in Threads : place'[u] \in Exiting \ {"caches", "commit"}
                               => place[u] \in Exiting \ {"caches", "commit"}
      BY <1>1
    <2>3. CASE \E u \in Threads : place[u] \in Exiting
      <3>1. owed' = owed
        BY <2>3 DEF BeginExit
      <3> QED BY <1>1, <2>1, <2>2, <3>1 DEF OwedKept
    <2>4. CASE ~ \E u \in Threads : place[u] \in Exiting
      <3>1. owed' = pending \cup safe
        BY <2>4 DEF BeginExit
      <3> QED BY <1>1, <2>2, <2>4, <3>1
    <2> QED BY <2>3, <2>4
  <1>6. OwedKept'
    BY <1>5 DEF OwedKept
  <1> QED BY <1>2, <1>3, <1>4, <1>6

(* A step that starts no exit and moves thread t to a place before the     *)
(* end of the caches, or within what comes after them.                     *)
LEMMA MoveOwed ==
    ASSUME IInv, NEW t \in Threads, NEW where \in {"out", "cache", "vfs"} \cup Exiting,
           place' = [place EXCEPT ![t] = where],
           where \in {"cache", "vfs"} => calls' >= 1,
           where \in Exiting \ {"caches", "commit"} =>
               place[t] \in Exiting \ {"caches", "commit"} \/ pending = {},
           calls' \in 0..MaxCalls, calls' >= calls,
           owed' = owed, safe' = safe, pending \subseteq pending', faults' = faults
    PROVE  CallsCounted' /\ OwedKept'
  <1> USE DEF IInv, TypeOK
  <1>1. \A u \in Threads : place'[u] = IF u = t THEN where ELSE place[u]
    OBVIOUS
  <1>2. CallsCounted'
    BY <1>1 DEF CallsCounted
  <1>3. ASSUME faults = 0 PROVE owed \subseteq pending' \cup safe
    BY <1>3 DEF OwedKept
  <1>4. ASSUME faults = 0, NEW u \in Threads, place'[u] \in Exiting \ {"caches", "commit"}
        PROVE  owed \subseteq safe
    BY <1>1, <1>4 DEF OwedKept
  <1> QED BY <1>2, <1>3, <1>4 DEF OwedKept

(* A commit of the batch moves all that is owed into the database, or      *)
(* counts as a fault.                                                      *)
LEMMA CommitOwed ==
    ASSUME IInv, NEW t \in Threads, NEW where \in {"out", "sqlite"},
           place' = [place EXCEPT ![t] = where],
           pending' = {},
           NEW own \in SUBSET (1..MaxCalls),
           \/ safe' = safe \cup pending \cup own /\ Works
           \/ safe' = safe /\ Fault,
           UNCHANGED <<owed, calls>>
    PROVE  /\ pending' \cup safe' \subseteq 1..MaxCalls
           /\ faults' \in 0..MaxFaults
           /\ CallsCounted' /\ OwedKept'
  <1> USE DEF IInv, TypeOK
  <1>1. pending' \cup safe' \subseteq 1..MaxCalls
    OBVIOUS
  <1>2. faults' \in 0..MaxFaults
    BY LaunchAssumption DEF Works, Fault
  <1>3. CallsCounted'
    BY DEF CallsCounted
  <1>4. ASSUME faults' = 0 PROVE owed' \subseteq safe'
    BY <1>4 DEF OwedKept, Works, Fault
  <1>5. OwedKept'
    BY <1>4 DEF OwedKept
  <1> QED BY <1>1, <1>2, <1>3, <1>5

-----------------------------------------------------------------------------
(* The steps of main.                                                      *)
LEMMA MainIInv ==
    ASSUME IInv, Boot \/ RedirectStdio \/ ConsoleExit \/ StartGame \/ MainReturns
    PROVE  IInv'
  <1>1. CASE Boot
    <2>1. /\ at \in DOMAIN Successor /\ at' = Successor[at]
          /\ services' = services \cup ({at'} \ {"gate"})
          /\ UNCHANGED <<sink, writer, place, lockVars, blobVars, owed, tries, calls, faults>>
      BY <1>1 DEF Boot
    <2>2. \/ at = "start" /\ at' = "romfs"
          \/ at = "romfs" /\ at' = "socket"
          \/ at = "socket" /\ at' = "console"
          \/ at = "console" /\ at' = "gate"
      BY <2>1 DEF Successor
    <2>3. TypeOK'
      BY <2>1, <2>2 DEF IInv, TypeOK, lockVars, blobVars
    <2>4. StreamsOrdered'
      BY <2>1, <2>2 DEF IInv, StreamsOrdered
    <2> QED BY <2>1, <2>3, <2>4 DEF IInv, CallsCounted, OwedKept, blobVars
  <1>2. CASE RedirectStdio
    <2>1. PICK ds \in {{}, {"stdout"}, Stdio} :
             /\ sink' = [d \in Stdio |-> IF d \in ds THEN "card" ELSE "console"]
             /\ IF ds = Stdio THEN Works ELSE Fault
             /\ IF Redirected(ds)
                THEN at' = "redirect" /\ UNCHANGED <<services, place, owed>>
                ELSE at' = "returned" /\ services' = {} /\ BeginExit(Main)
      BY <1>2 DEF RedirectStdio
    <2>2. /\ place[Main] = "out" /\ at = "gate" /\ Main \in Threads
          /\ UNCHANGED <<writer, lockVars, blobVars, tries, calls>>
      BY <1>2 DEF RedirectStdio, Runs, Threads
    <2>3. faults' \in 0..MaxFaults /\ faults' >= faults
      BY <2>1, LaunchAssumption DEF IInv, TypeOK, Works, Fault
    <2>4. CASE ds = Stdio
      <3>1. at' = "redirect" /\ UNCHANGED <<services, place, owed, faults>>
        BY <2>1, <2>4 DEF Redirected, Works
      <3>2. TypeOK'
        BY <2>1, <2>2, <3>1 DEF IInv, TypeOK, lockVars, blobVars
      <3>3. StreamsOrdered'
        BY <2>1, <2>2, <2>4, <3>1 DEF IInv, StreamsOrdered
      <3> QED BY <2>2, <3>1, <3>2, <3>3 DEF IInv, CallsCounted, OwedKept, blobVars
    <2>5. CASE ds # Stdio
      <3>1. at' = "returned" /\ services' = {} /\ BeginExit(Main)
        BY <2>1, <2>5 DEF Redirected
      <3>2. /\ place' \in [Threads -> {"out", "cache", "vfs"} \cup Exiting]
            /\ owed' \subseteq 1..MaxCalls
            /\ CallsCounted' /\ OwedKept'
        BY <2>2, <2>3, <3>1, BeginExitOwed
      <3>3. TypeOK'
        BY <2>1, <2>2, <2>3, <3>1, <3>2 DEF IInv, TypeOK, lockVars, blobVars
      <3>4. StreamsOrdered'
        BY <2>2, <3>1 DEF IInv, StreamsOrdered
      <3> QED BY <3>2, <3>3, <3>4 DEF IInv
    <2> QED BY <2>4, <2>5
  <1>3. CASE ConsoleExit
    <2>1. /\ at = "redirect" /\ at' = "released" /\ services' = services \ {"console"}
          /\ UNCHANGED <<sink, writer, place, lockVars, blobVars, owed, tries, calls, faults>>
      BY <1>3 DEF ConsoleExit
    <2> QED BY <2>1 DEF IInv, TypeOK, StreamsOrdered, CallsCounted, OwedKept, lockVars, blobVars
  <1>4. CASE StartGame
    <2>1. /\ at = "released" /\ at' = "game"
          /\ \/ writer' = "running" /\ Works
             \/ writer' = writer /\ Fault
          /\ UNCHANGED <<services, sink, place, lockVars, blobVars, owed, tries, calls>>
      BY <1>4 DEF StartGame
    <2>2. faults' \in 0..MaxFaults /\ (faults' = 0 => faults = 0)
      BY <2>1, LaunchAssumption DEF IInv, TypeOK, Works, Fault
    <2>3. TypeOK'
      BY <2>1, <2>2 DEF IInv, TypeOK, lockVars, blobVars
    <2>4. StreamsOrdered'
      BY <2>1 DEF IInv, StreamsOrdered
    <2> QED BY <2>1, <2>2, <2>3, <2>4 DEF IInv, CallsCounted, OwedKept, blobVars
  <1>5. CASE MainReturns
    <2>1. /\ place[Main] = "out" /\ Main \in Threads
          /\ at \in {"released", "game"}
          /\ at' = IF at = "game" THEN "played" ELSE "returned"
          /\ services' = services \ {"socket", "romfs"}
          /\ BeginExit(Main)
          /\ UNCHANGED <<sink, writer, lockVars, blobVars, tries, calls, faults>>
      BY <1>5 DEF MainReturns, Runs, Threads
    <2>2. faults' \in Nat /\ faults' >= faults
      BY <2>1 DEF IInv, TypeOK
    <2>3. /\ place' \in [Threads -> {"out", "cache", "vfs"} \cup Exiting]
          /\ owed' \subseteq 1..MaxCalls
          /\ CallsCounted' /\ OwedKept'
      BY <2>1, <2>2, BeginExitOwed
    <2>4. TypeOK'
      BY <2>1, <2>3 DEF IInv, TypeOK, lockVars, blobVars
    <2>5. StreamsOrdered'
      BY <2>1 DEF IInv, StreamsOrdered
    <2> QED BY <2>3, <2>4, <2>5 DEF IInv
  <1> QED BY <1>1, <1>2, <1>3, <1>4, <1>5

(* Calls into the cache and the VFS.                                       *)
LEMMA CallIInv ==
    ASSUME IInv, NEW t \in Threads,
           EnterCache(t) \/ LeaveCache(t) \/ EnterVfs(t) \/ LeaveVfs(t)
    PROVE  IInv'
  <1> USE LaunchAssumption
  <1>1. UNCHANGED <<bootVars, writer, owed, tries>>
    BY DEF EnterCache, LeaveCache, EnterVfs, LeaveVfs
  <1>2. StreamsOrdered'
    BY <1>1 DEF IInv, StreamsOrdered, bootVars
  <1>3. CASE EnterCache(t)
    <2>1. /\ place' = [place EXCEPT ![t] = "cache"]
          /\ calls' = calls + 1 /\ calls' \in 0..MaxCalls
          /\ pending' = pending /\ safe' = safe /\ faults' = faults
          /\ {cacheMutex', handleMutex'} \subseteq Threads \cup {Nobody}
      BY <1>3 DEF EnterCache, IInv, TypeOK, blobVars
    <2>2. TypeOK'
      BY <1>1, <2>1 DEF IInv, TypeOK, bootVars
    <2>3. calls' >= 1 /\ calls' >= calls
      BY <2>1 DEF IInv, TypeOK
    <2>4. owed' = owed /\ pending \subseteq pending' /\ "cache" \notin Exiting
      BY <1>1, <2>1 DEF Exiting
    <2>5. CallsCounted' /\ OwedKept'
      BY <2>1, <2>3, <2>4, MoveOwed
    <2> QED BY <1>2, <2>2, <2>5 DEF IInv
  <1>4. CASE LeaveCache(t)
    <2>1. /\ place[t] = "cache" /\ place' = [place EXCEPT ![t] = "out"]
          /\ pending' = pending \cup {calls}
          /\ calls' = calls /\ safe' = safe /\ faults' = faults
          /\ {cacheMutex', handleMutex'} \subseteq Threads \cup {Nobody}
      BY <1>4 DEF LeaveCache, IInv, TypeOK
    <2>2. calls \in 1..MaxCalls
      BY <2>1 DEF IInv, TypeOK, CallsCounted
    <2>3. TypeOK'
      BY <1>1, <2>1, <2>2 DEF IInv, TypeOK, bootVars
    <2>4. calls' \in 0..MaxCalls /\ calls' >= calls
      BY <2>1 DEF IInv, TypeOK
    <2>5. owed' = owed /\ pending \subseteq pending' /\ "out" \notin Exiting
      BY <1>1, <2>1 DEF Exiting
    <2>6. CallsCounted' /\ OwedKept'
      BY <2>1, <2>4, <2>5, MoveOwed
    <2> QED BY <1>2, <2>3, <2>6 DEF IInv
  <1>5. CASE EnterVfs(t)
    <2>1. /\ place' = [place EXCEPT ![t] = "vfs"]
          /\ calls' >= calls /\ calls' \in 0..MaxCalls
          /\ pending' = pending /\ safe' = safe /\ faults' = faults
          /\ {cacheMutex', handleMutex'} \subseteq Threads \cup {Nobody}
      BY <1>5 DEF EnterVfs, IInv, TypeOK, blobVars
    <2>2. TypeOK'
      BY <1>1, <2>1 DEF IInv, TypeOK, bootVars
    <2>3. calls' >= 1
      BY <1>5 DEF EnterVfs, IInv, TypeOK, CallsCounted
    <2>4. CallsCounted' /\ OwedKept'
      BY <1>1, <2>1, <2>3, MoveOwed DEF Exiting
    <2> QED BY <1>2, <2>2, <2>4 DEF IInv
  <1>6. CASE LeaveVfs(t)
    <2>1. /\ place' = [place EXCEPT ![t] = "out"] /\ calls' = calls
          /\ {cacheMutex', handleMutex'} \subseteq Threads \cup {Nobody}
      BY <1>6 DEF LeaveVfs, IInv, TypeOK
    <2>2. CASE cacheMutex = t
      <3>1. /\ pending' = {}
            /\ \/ safe' = safe \cup pending \cup {calls} /\ Works
               \/ safe' = safe /\ Fault
            /\ calls \in 1..MaxCalls
        BY <1>6, <2>2 DEF LeaveVfs, IInv, TypeOK, CallsCounted
      <3>2. /\ pending' \cup safe' \subseteq 1..MaxCalls
            /\ faults' \in 0..MaxFaults
            /\ CallsCounted' /\ OwedKept'
        <4>1. {calls} \in SUBSET (1..MaxCalls)
          BY <3>1
        <4> QED BY <1>1, <2>1, <3>1, <4>1, CommitOwed
      <3>3. TypeOK'
        BY <1>1, <2>1, <3>2 DEF IInv, TypeOK, bootVars
      <3> QED BY <1>2, <3>2, <3>3 DEF IInv
    <2>3. CASE cacheMutex # t
      <3>1. pending' = pending /\ safe' = safe /\ faults' = faults
        BY <1>6, <2>3 DEF LeaveVfs, blobVars
      <3>2. TypeOK'
        BY <1>1, <2>1, <3>1 DEF IInv, TypeOK, bootVars
      <3>3. calls' \in 0..MaxCalls /\ calls' >= calls
        BY <2>1 DEF IInv, TypeOK
      <3>4. CallsCounted' /\ OwedKept'
        BY <1>1, <2>1, <3>1, <3>3, MoveOwed DEF Exiting
      <3> QED BY <1>2, <3>2, <3>4 DEF IInv
    <2> QED BY <2>2, <2>3
  <1> QED BY <1>3, <1>4, <1>5, <1>6

(* A thread terminates.                                                    *)
LEMMA TerminateIInv ==
    ASSUME IInv, NEW t \in Threads, Terminate(t)
    PROVE  IInv'
  <1>1. /\ place[t] \in {"out", "cache", "vfs"} /\ BeginExit(t)
        /\ UNCHANGED <<bootVars, writer, lockVars, blobVars, tries, calls, faults>>
    BY DEF Terminate
  <1>2. faults' \in Nat /\ faults' >= faults
    BY <1>1 DEF IInv, TypeOK
  <1>3. /\ place' \in [Threads -> {"out", "cache", "vfs"} \cup Exiting]
        /\ owed' \subseteq 1..MaxCalls
        /\ CallsCounted' /\ OwedKept'
    BY <1>1, <1>2, BeginExitOwed
  <1>4. TypeOK'
    BY <1>1, <1>3 DEF IInv, TypeOK, bootVars, lockVars, blobVars
  <1>5. StreamsOrdered'
    BY <1>1 DEF IInv, StreamsOrdered, bootVars
  <1> QED BY <1>3, <1>4, <1>5 DEF IInv

(* kartpad_fast_exit.                                                      *)
LEMMA ExitIInv ==
    ASSUME IInv, NEW t \in Threads, FastExit(t)
    PROVE  IInv'
  <1> USE LaunchAssumption
  <1>0. calls \in 0..MaxCalls /\ calls >= calls
    BY DEF IInv, TypeOK
  <1>1. UNCHANGED <<bootVars, owed, calls>>
    BY DEF FastExit, AuroraFlushCaches, CommitBatch, SqliteFlushAll, LogShutdown, ExitProcess
  <1>2. CASE AuroraFlushCaches(t)
    <2>1. /\ place' = [place EXCEPT ![t] = IF pending # {} THEN "commit" ELSE "sqlite"]
          /\ cacheMutex' \in {t, Nobody}
          /\ UNCHANGED <<writer, handleMutex, blobVars, tries, faults>>
      BY <1>2 DEF AuroraFlushCaches, FlushCaches
    <2>2. TypeOK'
      BY <1>1, <2>1 DEF IInv, TypeOK, bootVars, blobVars, Exiting
    <2>3. StreamsOrdered'
      BY <1>1, <2>1 DEF IInv, StreamsOrdered, bootVars
    <2>4. CallsCounted' /\ OwedKept'
      <3>1. CASE pending = {}
        <4>1. /\ place' = [place EXCEPT ![t] = "sqlite"]
              /\ owed' = owed /\ safe' = safe /\ pending' = pending /\ faults' = faults
              /\ calls' = calls /\ "sqlite" \in Exiting
          BY <1>1, <2>1, <3>1 DEF Exiting, blobVars
        <4> QED BY <1>0, <3>1, <4>1, MoveOwed
      <3>2. CASE pending # {}
        BY <1>0, <1>1, <2>1, <3>2, MoveOwed DEF Exiting, blobVars
      <3> QED BY <3>1, <3>2
    <2> QED BY <2>2, <2>3, <2>4 DEF IInv
  <1>3. CASE CommitBatch(t)
    <2>1. /\ place' = [place EXCEPT ![t] = "sqlite"] /\ cacheMutex' = Nobody
          /\ pending' = {}
          /\ \/ safe' = safe \cup pending /\ Works
             \/ safe' = safe /\ Fault
          /\ UNCHANGED <<writer, handleMutex, tries>>
      BY <1>3 DEF CommitBatch
    <2>2. /\ pending' \cup safe' \subseteq 1..MaxCalls
          /\ faults' \in 0..MaxFaults
          /\ CallsCounted' /\ OwedKept'
      <3>1. \/ safe' = safe \cup pending \cup {} /\ Works
            \/ safe' = safe /\ Fault
        BY <2>1
      <3>2. {} \in SUBSET (1..MaxCalls)
        OBVIOUS
      <3> QED BY <1>1, <2>1, <3>1, <3>2, CommitOwed
    <2>3. TypeOK'
      BY <1>1, <2>1, <2>2 DEF IInv, TypeOK, bootVars, Exiting
    <2>4. StreamsOrdered'
      BY <1>1, <2>1 DEF IInv, StreamsOrdered, bootVars
    <2> QED BY <2>2, <2>3, <2>4 DEF IInv
  <1>4. CASE SqliteFlushAll(t)
    <2>1. /\ place[t] = "sqlite"
          /\ UNCHANGED <<writer, lockVars, blobVars, faults>>
          /\ \/ /\ tries[t] # MaxTries /\ place' = place
                /\ tries' = [tries EXCEPT ![t] = @ + 1]
             \/ /\ place' = [place EXCEPT ![t] = "log"]
                /\ tries' = tries
      BY <1>4 DEF SqliteFlushAll, GivesUp
    <2>2. TypeOK'
      <3>1. tries' \in [Threads -> 0..MaxTries]
        BY <2>1 DEF IInv, TypeOK
      <3>2. place' \in [Threads -> {"out", "cache", "vfs"} \cup Exiting]
        BY <2>1 DEF IInv, TypeOK, Exiting
      <3> QED BY <1>1, <2>1, <3>1, <3>2 DEF IInv, TypeOK, bootVars, lockVars, blobVars
    <2>3. StreamsOrdered'
      BY <1>1, <2>1 DEF IInv, StreamsOrdered, bootVars
    <2>4. CallsCounted' /\ OwedKept'
      <3>1. CASE place' = place
        BY <1>1, <2>1, <3>1 DEF IInv, CallsCounted, OwedKept, blobVars
      <3>2. CASE place' = [place EXCEPT ![t] = "log"]
        BY <1>0, <1>1, <2>1, <3>2, MoveOwed DEF Exiting, blobVars
      <3> QED BY <2>1, <3>1, <3>2
    <2> QED BY <2>2, <2>3, <2>4 DEF IInv
  <1>5. CASE LogShutdown(t) \/ ExitProcess(t)
    <2>1. PICK where \in {"join", "over"} : place' = [place EXCEPT ![t] = where]
      BY <1>5 DEF LogShutdown, ExitProcess
    <2>2. /\ place[t] \in {"log", "join"}
          /\ UNCHANGED <<lockVars, blobVars, tries, faults>>
          /\ writer' = writer \/ writer' = Stopped
      BY <1>5 DEF LogShutdown, ExitProcess
    <2>3. TypeOK'
      BY <1>1, <2>1, <2>2 DEF IInv, TypeOK, bootVars, lockVars, blobVars, Exiting, Stopped
    <2>4. StreamsOrdered'
      BY <1>1, <2>2 DEF IInv, StreamsOrdered, bootVars, Stopped
    <2>5. CallsCounted' /\ OwedKept'
      BY <1>0, <1>1, <2>1, <2>2, MoveOwed DEF Exiting, blobVars
    <2> QED BY <2>3, <2>4, <2>5 DEF IInv
  <1> QED BY <1>2, <1>3, <1>4, <1>5 DEF FastExit

LEMMA NextIInv == IInv /\ [Next]_vars => IInv'
  <1> SUFFICES ASSUME IInv, [Next]_vars PROVE IInv'
    OBVIOUS
  <1>1. CASE Boot \/ RedirectStdio \/ ConsoleExit \/ StartGame \/ MainReturns
    BY <1>1, MainIInv
  <1>2. ASSUME NEW ns \in Durations, Frame(ns) PROVE IInv'
    BY <1>2 DEF Frame, IInv, TypeOK, StreamsOrdered, CallsCounted, OwedKept,
                bootVars, lockVars, blobVars
  <1>3. ASSUME NEW t \in Threads,
               \/ EnterCache(t) \/ LeaveCache(t) \/ EnterVfs(t) \/ LeaveVfs(t)
               \/ Terminate(t) \/ FastExit(t)
        PROVE  IInv'
    BY <1>3, CallIInv, TerminateIInv, ExitIInv
  <1>4. CASE WriterEnds
    BY <1>4 DEF WriterEnds, IInv, TypeOK, StreamsOrdered, CallsCounted, OwedKept,
                bootVars, lockVars, blobVars
  <1>5. CASE UNCHANGED vars
    BY <1>5 DEF vars, IInv, TypeOK, StreamsOrdered, CallsCounted, OwedKept,
                bootVars, lockVars, blobVars
  <1> QED BY <1>1, <1>2, <1>3, <1>4, <1>5 DEF Next

-----------------------------------------------------------------------------
(* The inductive invariant holds in every reachable state.                 *)
THEOREM Invariant == Spec => []IInv
  <1> QED BY InitIInv, NextIInv, PTL DEF Spec

(* The type invariant, for every value of the constants.                   *)
THEOREM TypeCorrect == Spec => []TypeOK
  <1>1. IInv => TypeOK
    BY DEF IInv
  <1> QED BY Invariant, <1>1, PTL

(* No stream is left on a console that is gone, and the log writer never   *)
(* runs before both streams go to the card: the order in which main sets   *)
(* up and releases its services, with any dup2 failing, any thread         *)
(* terminating at any moment.                                              *)
THEOREM StreamsOnCard == Spec => []StreamsSafe
  <1>1. IInv => StreamsSafe
    BY DEF IInv, TypeOK, StreamsOrdered, StreamsSafe, ConsoleGone
  <1> QED BY Invariant, <1>1, PTL

(* kartpad_fast_exit keeps what was stored before it began, for any number *)
(* of threads that exit at once, and whatever they hold when they die.     *)
THEOREM ExitSaves == Spec => []ExitKeeps
  <1>1. IInv => ExitKeeps
    BY DEF IInv, OwedKept, ExitKeeps, Over, Exiting
  <1> QED BY Invariant, <1>1, PTL

-----------------------------------------------------------------------------
(* The frames of the window that lasted one of ds, when f[d] of them       *)
(* lasted d, numbered per duration.                                        *)
Lasted(f, ds) == {p \in Durations \X Nat : p[1] \in ds /\ p[2] < f[p[1]]}

LEMMA LastedPart ==
    ASSUME NEW f, IsFiniteSet(Lasted(f, Durations)), NEW ds \in SUBSET Durations
    PROVE  /\ IsFiniteSet(Lasted(f, ds)) /\ Cardinality(Lasted(f, ds)) \in Nat
           /\ \A es \in SUBSET ds :
                 Cardinality(Lasted(f, es)) \in Nat
                 /\ Cardinality(Lasted(f, es)) <= Cardinality(Lasted(f, ds))
  <1>1. Lasted(f, ds) \in SUBSET Lasted(f, Durations)
    BY DEF Lasted
  <1>2. IsFiniteSet(Lasted(f, ds)) /\ Cardinality(Lasted(f, ds)) \in Nat
    BY <1>1, FS_Subset, FS_CardinalityType
  <1>3. ASSUME NEW es \in SUBSET ds
        PROVE  /\ Cardinality(Lasted(f, es)) \in Nat
               /\ Cardinality(Lasted(f, es)) <= Cardinality(Lasted(f, ds))
    <2>1. Lasted(f, es) \in SUBSET Lasted(f, ds)
      BY DEF Lasted
    <2> QED BY <1>2, <2>1, FS_Subset, FS_CardinalityType
  <1> QED BY <1>2, <1>3

LEMMA LastedUnion ==
    ASSUME NEW f, IsFiniteSet(Lasted(f, Durations)),
           NEW ds \in SUBSET Durations, NEW es \in SUBSET Durations, ds \cap es = {}
    PROVE  Cardinality(Lasted(f, ds \cup es))
              = Cardinality(Lasted(f, ds)) + Cardinality(Lasted(f, es))
  <1>1. PICK A : A = Lasted(f, ds)
    OBVIOUS
  <1>2. PICK B : B = Lasted(f, es)
    OBVIOUS
  <1>3. IsFiniteSet(A) /\ IsFiniteSet(B) /\ Cardinality(A) \in Nat /\ Cardinality(B) \in Nat
    BY <1>1, <1>2, LastedPart
  <1>4. A \cap B = {}
    BY <1>1, <1>2 DEF Lasted
  <1>5. Lasted(f, ds \cup es) = A \cup B
    BY <1>1, <1>2 DEF Lasted
  <1>6. Cardinality(A \cup B) = Cardinality(A) + Cardinality(B) - Cardinality(A \cap B)
    BY <1>3, FS_Union
  <1>7. Cardinality(A \cap B) = 0
    BY <1>4, FS_EmptySet
  <1>8. Cardinality(A \cup B) = Cardinality(A) + Cardinality(B)
    BY <1>3, <1>6, <1>7
  <1> QED BY <1>1, <1>2, <1>5, <1>8, Zenon

LEMMA LastedOne ==
    ASSUME NEW f, NEW d \in Durations, f[d] \in Nat
    PROVE  Cardinality(Lasted(f, {d})) = f[d]
  <1> DEFINE S == 0..(f[d] - 1)
             T == Lasted(f, {d})
             h == [k \in S |-> <<d, k>>]
  <1>1. T = {<<d, k>> : k \in S}
    BY DEF Lasted
  <1>2. IsFiniteSet(S) /\ Cardinality(S) = f[d]
    <2>1. PICK m \in Int : m = f[d] - 1 /\ m >= -1
      OBVIOUS
    <2>2. IsFiniteSet(0..m) /\ Cardinality(0..m) = IF 0 > m THEN 0 ELSE m - 0 + 1
      BY FS_Interval
    <2> QED BY <2>1, <2>2
  <1>3. h \in Bijection(S, T)
    <2>1. h \in [S -> T]
      <3> HIDE DEF S, T
      <3> QED BY <1>1
    <2>2. \A i \in S : h[i] = <<d, i>>
      OBVIOUS
    <2> HIDE DEF h, S, T
    <2>3. \A i, j \in S : h[i] = h[j] => i = j
      BY <2>2
    <2>4. \A p \in T : \E i \in S : h[i] = p
      BY <1>1, <2>2
    <2> QED BY <2>1, <2>3, <2>4, Zenon DEF Bijection, Injection, IsInjective, Surjection
  <1>4. ExistsBijection(S, T)
    <2> HIDE DEF h, S, T
    <2> QED BY <1>3 DEF ExistsBijection
  <1> HIDE DEF S, T
  <1>5. Cardinality(T) = Cardinality(S)
    BY <1>2, <1>4, FS_Bijection
  <1> QED BY <1>2, <1>5 DEF T

(* One more frame, of ns.                                                  *)
OneMore(f, ns) == [d \in Durations |-> f[d] + (IF d = ns THEN 1 ELSE 0)]

LEMMA LastedAdds ==
    ASSUME NEW f \in [Durations -> Nat], IsFiniteSet(Lasted(f, Durations)),
           NEW ns \in Durations,
           NEW g, g = OneMore(f, ns)
    PROVE  /\ g \in [Durations -> Nat] /\ IsFiniteSet(Lasted(g, Durations))
           /\ \A ds \in SUBSET Durations :
                 Cardinality(Lasted(g, ds))
                    = Cardinality(Lasted(f, ds)) + (IF ns \in ds THEN 1 ELSE 0)
  <1>0. g = [d \in Durations |-> f[d] + (IF d = ns THEN 1 ELSE 0)]
    BY DEF OneMore
  <1>1. g \in [Durations -> Nat]
    BY <1>0
  <1>2. ASSUME NEW ds \in SUBSET Durations
        PROVE  /\ IsFiniteSet(Lasted(g, ds))
               /\ Cardinality(Lasted(g, ds))
                     = Cardinality(Lasted(f, ds)) + (IF ns \in ds THEN 1 ELSE 0)
    <2>1. IsFiniteSet(Lasted(f, ds)) /\ Cardinality(Lasted(f, ds)) \in Nat
      BY LastedPart
    <2>2. CASE ns \notin ds
      <3>1. Lasted(g, ds) = Lasted(f, ds)
        BY <1>0, <2>2 DEF Lasted
      <3> QED BY <2>1, <2>2, <3>1
    <2>3. CASE ns \in ds
      <3>1. Lasted(g, ds) = Lasted(f, ds) \cup {<<ns, f[ns]>>}
        <4>1. ASSUME NEW d \in Durations, NEW k \in Nat
              PROVE  (d \in ds /\ k < g[d]) <=> (d \in ds /\ k < f[d]) \/ (d = ns /\ k = f[ns])
          BY <1>0, <2>3
        <4> QED BY <4>1 DEF Lasted
      <3>2. <<ns, f[ns]>> \notin Lasted(f, ds)
        BY DEF Lasted
      <3> QED BY <2>1, <2>3, <3>1, <3>2, FS_AddElement
    <2> QED BY <2>2, <2>3
  <1> QED BY <1>1, <1>2

(* Before the first frame there is none.                                   *)
LEMMA LastedNone ==
    ASSUME NEW f, f = [d \in Durations |-> 0]
    PROVE  /\ f \in [Durations -> Nat] /\ IsFiniteSet(Lasted(f, Durations))
           /\ \A ds \in SUBSET Durations : Cardinality(Lasted(f, ds)) = 0
  <1>1. \A ds \in SUBSET Durations : Lasted(f, ds) = {}
    BY DEF Lasted
  <1> QED BY <1>1, FS_EmptySet

(* What the reference counts is what has lasted that long.                 *)
LEMMA CountIs ==
    ASSUME seen \in [Durations -> Nat], IsFiniteSet(Lasted(seen, Durations)),
           NEW ds \in SUBSET Durations
    PROVE  CountOf(ds) = Cardinality(Lasted(seen, ds))
  <1> DEFINE First(s) == CHOOSE x \in s : TRUE
             Solution(g) ==
                g = [s \in SUBSET ds |-> IF s = {} THEN 0
                                         ELSE seen[First(s)] + g[s \ {First(s)}]]
             h == [s \in SUBSET ds |-> Cardinality(Lasted(seen, s))]
             f == CHOOSE g : Solution(g)
  <1>1. \A s \in SUBSET ds : s # {} => First(s) \in s /\ s \ {First(s)} \in SUBSET ds
    OBVIOUS
  <1> HIDE DEF First
  <1>2. ASSUME NEW s \in SUBSET ds
        PROVE  Cardinality(Lasted(seen, s))
                  = IF s = {} THEN 0
                    ELSE seen[First(s)] + Cardinality(Lasted(seen, s \ {First(s)}))
    <2>1. CASE s = {}
      <3>1. Lasted(seen, s) = {}
        BY <2>1 DEF Lasted
      <3> QED BY <2>1, <3>1, FS_EmptySet
    <2>2. CASE s # {}
      <3>1. PICK d : d = First(s)
        OBVIOUS
      <3>2. d \in s /\ d \in Durations /\ seen[d] \in Nat
        BY <1>1, <2>2, <3>1
      <3>3. Cardinality(Lasted(seen, {d})) = seen[d]
        BY <3>2, LastedOne
      <3>4. PICK r : r = s \ {d}
        OBVIOUS
      <3>5. r \in SUBSET Durations /\ {d} \in SUBSET Durations /\ {d} \cap r = {}
            /\ s = {d} \cup r
        BY <3>2, <3>4
      <3>6. Cardinality(Lasted(seen, s)) = seen[d] + Cardinality(Lasted(seen, r))
        BY <3>3, <3>5, LastedUnion
      <3> QED BY <2>2, <3>1, <3>4, <3>6
    <2> QED BY <2>1, <2>2
  <1>3. Solution(h)
    BY <1>1, <1>2
  <1>4. Solution(f)
    <2> HIDE DEF Solution, h
    <2> QED BY <1>3, Zenon
  <1>5. CountOf(ds) = f[ds]
    BY Zenon DEF CountOf, First
  <1> HIDE DEF f
  <1>6. ASSUME NEW s \in SUBSET ds
        PROVE  f[s] = IF s = {} THEN 0 ELSE seen[First(s)] + f[s \ {First(s)}]
    BY <1>4, Zenon
  <1>7. IsFiniteSet(ds) /\ Cardinality(ds) \in Nat
    BY PerfAssumption, FS_Subset, FS_CardinalityType
  <1> DEFINE n == Cardinality(ds)
             Counted(k) == \A s \in SUBSET ds :
                              Cardinality(s) = k => f[s] = Cardinality(Lasted(seen, s))
             P == {k \in 0..n : Counted(k)}
  <1> HIDE DEF Solution
  <1>8. \A s \in SUBSET ds : IsFiniteSet(s)
    BY <1>7, FS_Subset
  <1>9. 0 \in P
    <2>1. ASSUME NEW s \in SUBSET ds, Cardinality(s) = 0
          PROVE  f[s] = Cardinality(Lasted(seen, s))
      <3>1. s = {}
        BY <1>8, <2>1, FS_EmptySet
      <3> QED BY <1>2, <1>6, <3>1
    <2>2. Counted(0)
      BY <2>1
    <2> HIDE DEF Counted
    <2> QED BY <1>7, <2>2
  <1>10. ASSUME NEW k \in 0..(n - 1), k \in P PROVE k + 1 \in P
    <2>0. Counted(k)
      <3> HIDE DEF Counted
      <3> QED BY <1>10
    <2>1. ASSUME NEW s \in SUBSET ds, Cardinality(s) = k + 1
          PROVE  f[s] = Cardinality(Lasted(seen, s))
      <3>1. s # {}
        BY <2>1, FS_EmptySet
      <3>2. PICK d : d = First(s)
        OBVIOUS
      <3>3. PICK r : r = s \ {d}
        OBVIOUS
      <3>4. d \in s /\ r \in SUBSET ds
        BY <1>1, <3>1, <3>2, <3>3
      <3>5. Cardinality(r) = k
        <4>1. Cardinality(s \ {d}) = IF d \in s THEN Cardinality(s) - 1 ELSE Cardinality(s)
          BY <1>8, FS_RemoveElement
        <4>2. Cardinality(r) = (k + 1) - 1
          BY <2>1, <3>3, <3>4, <4>1
        <4> QED BY <1>7, <4>2
      <3>6. f[r] = Cardinality(Lasted(seen, r))
        BY <2>0, <3>4, <3>5
      <3>7. f[s] = seen[d] + f[r]
        BY <1>6, <3>1, <3>2, <3>3
      <3>8. Cardinality(Lasted(seen, s)) = seen[d] + Cardinality(Lasted(seen, r))
        BY <1>2, <3>1, <3>2, <3>3
      <3> QED BY <3>6, <3>7, <3>8
    <2>2. Counted(k + 1)
      BY <2>1
    <2>3. k + 1 \in 0..n
      BY <1>7
    <2> HIDE DEF Counted, n
    <2> QED BY <2>2, <2>3
  <1>11. \A k \in 0..n : k \in P
    <2> HIDE DEF P, n
    <2>1. n \in Nat
      BY <1>7 DEF n
    <2> QED BY <1>9, <1>10, <2>1, UpTo
  <1>12. Counted(n)
    <2>1. n \in 0..n
      BY <1>7
    <2> HIDE DEF Counted, n
    <2> QED BY <1>11, <2>1
  <1>13. f[ds] = Cardinality(Lasted(seen, ds))
    BY <1>12
  <1> QED BY <1>5, <1>13

-----------------------------------------------------------------------------
(* The histogram: a duration's bin, and what lies below a bin's bound.     *)
Below(i) == {d \in Durations : d < BinNs * i}
Bin(i) == {d \in Durations : d \div BinNs = i}

LEMMA BinIs ==
    ASSUME NEW d \in Durations
    PROVE  /\ d \in Nat /\ d \div BinNs \in Nat
           /\ \A i \in Nat : BinNs * i \in Nat
           /\ \A i \in Nat : d < BinNs * i <=> d \div BinNs < i
           /\ \A i \in Nat : d \div BinNs = i => BinNs * (i + 1) = BinNs * i + BinNs
  <1>1. d \in Nat /\ BinNs \in Nat /\ BinNs > 0
    BY PerfAssumption
  <1>2. d \div BinNs \in Nat
    BY <1>1
  <1>3. \A i \in Nat : BinNs * i \in Nat
    BY <1>1
  <1>4. ASSUME NEW i \in Nat PROVE d < BinNs * i <=> d \div BinNs < i
    BY <1>1
  <1>5. \A i \in Nat : BinNs * (i + 1) = BinNs * i + BinNs
    BY <1>1
  <1> QED BY <1>1, <1>2, <1>3, <1>4, <1>5

LEMMA RankIs ==
    ASSUME NEW n \in Nat, NEW percent \in Nat, NEW m \in Nat
    PROVE  Rank(n, percent) \in Nat /\ (m >= Rank(n, percent) <=> 100 * m >= percent * n)
  <1>1. PICK x \in Nat : x = n * percent
    OBVIOUS
  <1>2. percent * n = x
    BY <1>1
  <1>3. (x + 99) \div 100 \in Nat /\ (m >= (x + 99) \div 100 <=> 100 * m >= x)
    OBVIOUS
  <1> QED BY <1>1, <1>2, <1>3 DEF Rank

(* A finite set of numbers has a bound.                                    *)
LEMMA BoundExists ==
    ASSUME NEW S \in SUBSET Nat, IsFiniteSet(S)
    PROVE  \E n \in Nat : S \in SUBSET (0..n)
  <1>0. PICK k \in Nat : k = Cardinality(S)
    BY FS_CardinalityType
  <1>1. PICK h : h \in Bijection(1..k, S)
    BY <1>0, FS_CardinalityType DEF ExistsBijection
  <1>2. h \in [1..k -> S] /\ \A s \in S : \E i \in 1..k : h[i] = s
    BY <1>1 DEF Bijection, Surjection
  <1> DEFINE Bounded(i) == \E n \in Nat : \A j \in 1..i : h[j] <= n
             P == {i \in 0..k : Bounded(i)}
  <1>3. 0 \in P
    <2>1. 1..0 = {}
      OBVIOUS
    <2>2. Bounded(0)
      BY <2>1
    <2> HIDE DEF Bounded
    <2> QED BY <2>2
  <1>4. ASSUME NEW i \in 0..(k - 1), i \in P PROVE i + 1 \in P
    <2>1. PICK n \in Nat : \A j \in 1..i : h[j] <= n
      BY <1>4
    <2>2. i + 1 \in 1..k /\ h[i + 1] \in Nat
      <3> HIDE DEF P
      <3>1. i + 1 \in 1..k
        BY <1>1
      <3>2. h[i + 1] \in S
        BY <1>2, <3>1
      <3> QED BY <3>1, <3>2
    <2>3. n + h[i + 1] \in Nat
      BY <2>2
    <2>4. ASSUME NEW j \in 1..(i + 1) PROVE h[j] <= n + h[i + 1]
      <3>1. j \in 1..k /\ h[j] \in Nat
        <4> HIDE DEF P
        <4>1. j \in 1..k
          BY <1>1
        <4>2. h[j] \in S
          BY <1>2, <4>1
        <4> QED BY <4>1, <4>2
      <3>2. CASE j = i + 1
        BY <2>2, <3>2
      <3>3. CASE j # i + 1
        <4>1. h[j] <= n
          BY <2>1, <3>3
        <4> QED BY <2>2, <3>1, <4>1
      <3> QED BY <3>2, <3>3
    <2>5. Bounded(i + 1)
      BY <2>3, <2>4
    <2> HIDE DEF Bounded
    <2> QED BY <2>2, <2>5
  <1>5. Bounded(k)
    <2>1. \A i \in 0..k : i \in P
      <3> HIDE DEF P
      <3> QED BY <1>3, <1>4, UpTo
    <2>2. k \in P
      <3>1. k \in 0..k
        BY <1>1
      <3> HIDE DEF P
      <3> QED BY <2>1, <3>1
    <2> HIDE DEF Bounded
    <2> QED BY <2>2
  <1>6. PICK n \in Nat : \A j \in 1..k : h[j] <= n
    BY <1>5
  <1>7. \A s \in S : s \in 0..n
    BY <1>2, <1>6
  <1> QED BY <1>7

(* The counters and the histogram agree with the frames f.                 *)
Counts(b, o, n, l, f) ==
    /\ n = Cardinality(Lasted(f, Durations))
    /\ l = Cardinality(Lasted(f, {d \in Durations : d > LateNs}))
    /\ o = Cardinality(Lasted(f, {d \in Durations : d >= BinNs * BinCount}))
    /\ \A i \in 0..(BinCount - 1) : b[i] = Cardinality(Lasted(f, Bin(i)))

(* What percentile returns for a histogram of the frames f: the bound of   *)
(* the first bin up to which the frames reach the rank, if there is one.   *)
Reaches(f, i, n, percent) == Cardinality(Lasted(f, Below(i))) >= Rank(n, percent)

Fits(q, f, n, percent) ==
    \/ q = -1 /\ \A i \in 1..BinCount : ~Reaches(f, i, n, percent)
    \/ \E i \in 1..BinCount :
          /\ q = BinNs * i /\ Reaches(f, i, n, percent)
          /\ \A j \in 1..BinCount : Reaches(f, j, n, percent) => i <= j

LEMMA PercentileIs ==
    ASSUME NEW f, IsFiniteSet(Lasted(f, Durations)),
           NEW b, NEW o, NEW n \in Nat, NEW l, Counts(b, o, n, l, f), NEW percent \in Nat
    PROVE  Fits(Percentile(b, n, percent), f, n, percent)
  <1> DEFINE Solution(g) ==
                g = [i \in 0..BinCount |-> IF i = 0 THEN 0 ELSE g[i - 1] + b[i - 1]]
             h == [i \in 0..BinCount |-> Cardinality(Lasted(f, Below(i)))]
             u == CHOOSE g : Solution(g)
             reach == {i \in 1..BinCount : u[i] >= Rank(n, percent)}
  <1>0. BinCount \in Nat
    BY PerfAssumption
  <1>1. ASSUME NEW i \in 0..BinCount
        PROVE  h[i] = IF i = 0 THEN 0 ELSE h[i - 1] + b[i - 1]
    <2>1. CASE i = 0
      <3>1. Below(0) = {}
        <4>1. \A d \in Durations : ~(d < BinNs * 0)
          BY PerfAssumption
        <4> QED BY <4>1 DEF Below
      <3>2. Lasted(f, {}) = {}
        BY DEF Lasted
      <3> QED BY <2>1, <3>1, <3>2, FS_EmptySet
    <2>2. CASE i # 0
      <3>1. PICK k : k = i - 1
        OBVIOUS
      <3>2. k \in 0..(BinCount - 1) /\ k \in 0..BinCount /\ i = k + 1 /\ k \in Nat /\ i \in Nat
        BY <1>0, <2>2, <3>1
      <3>3. \A d \in Durations : /\ d < BinNs * i <=> d \div BinNs < i
                                 /\ d < BinNs * k <=> d \div BinNs < k
                                 /\ d \div BinNs \in Nat
        BY <3>2, BinIs
      <3>4. Below(i) = Below(k) \cup Bin(k) /\ Below(k) \cap Bin(k) = {}
        BY <3>2, <3>3 DEF Below, Bin
      <3>5. Below(k) \in SUBSET Durations /\ Bin(k) \in SUBSET Durations
        BY DEF Below, Bin
      <3>6. Cardinality(Lasted(f, Below(i)))
               = Cardinality(Lasted(f, Below(k))) + Cardinality(Lasted(f, Bin(k)))
        BY <3>4, <3>5, LastedUnion
      <3>7. h[k] = Cardinality(Lasted(f, Below(k))) /\ h[i] = Cardinality(Lasted(f, Below(i)))
        BY <3>2
      <3>8. b[k] = Cardinality(Lasted(f, Bin(k)))
        BY <3>2 DEF Counts
      <3> HIDE DEF h
      <3> QED BY <2>2, <3>1, <3>2, <3>6, <3>7, <3>8
    <2> QED BY <2>1, <2>2
  <1>2. Solution(h)
    <2>1. h = [i \in 0..BinCount |-> h[i]]
      OBVIOUS
    <2> HIDE DEF h
    <2> QED BY <1>1, <2>1, Zenon
  <1>3. Solution(u)
    <2> HIDE DEF Solution, h
    <2> QED BY <1>2, Zenon
  <1>4. Percentile(b, n, percent)
           = IF reach = {} THEN -1 ELSE BinNs * CHOOSE i \in reach : \A j \in reach : i <= j
    BY Zenon DEF Percentile
  <1> HIDE DEF u
  <1>5. \A i \in 0..BinCount : u[i] = IF i = 0 THEN 0 ELSE u[i - 1] + b[i - 1]
    BY <1>3, Zenon
  <1> HIDE DEF Solution
  <1> DEFINE P == {i \in 0..BinCount : u[i] = h[i]}
  <1>6. \A i \in 0..BinCount : i \in P
    <2>1. 0 \in P
      <3>1. 0 \in 0..BinCount
        BY <1>0
      <3> HIDE DEF h
      <3> QED BY <1>1, <1>5, <3>1
    <2>2. ASSUME NEW i \in 0..(BinCount - 1), i \in P PROVE i + 1 \in P
      <3>1. i + 1 \in 0..BinCount /\ i + 1 # 0 /\ (i + 1) - 1 = i
        BY <1>0
      <3>2. u[i] = h[i]
        BY <2>2
      <3> HIDE DEF h
      <3>3. u[i + 1] = u[i] + b[i] /\ h[i + 1] = h[i] + b[i]
        BY <1>1, <1>5, <3>1
      <3> QED BY <3>1, <3>2, <3>3
    <2> HIDE DEF P
    <2> QED BY <1>0, <2>1, <2>2, UpTo
  <1>7. \A i \in 1..BinCount : u[i] = Cardinality(Lasted(f, Below(i)))
    <2> SUFFICES ASSUME NEW i \in 1..BinCount PROVE u[i] = Cardinality(Lasted(f, Below(i)))
      OBVIOUS
    <2>1. i \in 0..BinCount
      OBVIOUS
    <2>2. u[i] = h[i]
      BY <1>6, <2>1
    <2> QED BY <2>1, <2>2
  <1>8. CASE reach = {}
    <2>1. ASSUME NEW i \in 1..BinCount PROVE ~Reaches(f, i, n, percent)
      <3>1. ~(u[i] >= Rank(n, percent))
        BY <1>8
      <3> QED BY <1>7, <3>1 DEF Reaches
    <2> QED BY <1>4, <1>8, <2>1 DEF Fits
  <1>9. CASE reach # {}
    <2>1. reach \in SUBSET Nat
      OBVIOUS
    <2>2. PICK i : i = CHOOSE k \in reach : \A j \in reach : k <= j
      OBVIOUS
    <2>3. \E k \in reach : \A j \in reach : k <= j
      <3> HIDE DEF reach
      <3> QED BY <1>9, <2>1, LeastExists
    <2>4. i \in reach /\ \A j \in reach : i <= j
      <3> HIDE DEF reach
      <3> QED BY <2>2, <2>3
    <2>5. Percentile(b, n, percent) = BinNs * i
      <3> HIDE DEF reach
      <3> QED BY <1>4, <1>9, <2>2, Zenon
    <2>6. i \in 1..BinCount /\ u[i] >= Rank(n, percent)
      BY <2>4
    <2>7. ASSUME NEW j \in 1..BinCount, Reaches(f, j, n, percent)
          PROVE  i <= j
      <3>1. u[j] >= Rank(n, percent)
        BY <1>7, <2>7 DEF Reaches
      <3> QED BY <2>4, <3>1
    <2>8. Reaches(f, i, n, percent)
      BY <1>7, <2>6 DEF Reaches
    <2> QED BY <2>5, <2>6, <2>7, <2>8 DEF Fits
  <1> QED BY <1>8, <1>9

LEMMA CountsNone ==
    ASSUME NEW f, f = [d \in Durations |-> 0]
    PROVE  Counts(Zero, 0, 0, 0, f)
  <1>1. \A ds \in SUBSET Durations : Cardinality(Lasted(f, ds)) = 0
    BY LastedNone
  <1>2. \A i \in 0..(BinCount - 1) : Bin(i) \in SUBSET Durations /\ Zero[i] = 0
    BY DEF Bin, Zero
  <1>3. /\ {d \in Durations : d > LateNs} \in SUBSET Durations
        /\ {d \in Durations : d >= BinNs * BinCount} \in SUBSET Durations
    OBVIOUS
  <1> QED BY <1>1, <1>2, <1>3 DEF Counts

LEMMA CountsAdd ==
    ASSUME NEW f \in [Durations -> Nat], IsFiniteSet(Lasted(f, Durations)),
           NEW ns \in Durations,
           NEW g, g = OneMore(f, ns),
           NEW b \in [0..(BinCount - 1) -> Nat], NEW o, NEW n, NEW l, Counts(b, o, n, l, f)
    PROVE  Counts(IF ns \div BinNs < BinCount THEN [b EXCEPT ![ns \div BinNs] = @ + 1] ELSE b,
                  IF ns \div BinNs < BinCount THEN o ELSE o + 1,
                  n + 1, IF ns > LateNs THEN l + 1 ELSE l, g)
  <1>1. PICK k \in Nat : k = ns \div BinNs
    BY BinIs
  <1>2. \A ds \in SUBSET Durations :
           Cardinality(Lasted(g, ds)) = Cardinality(Lasted(f, ds)) + (IF ns \in ds THEN 1 ELSE 0)
    BY LastedAdds
  <1>3. \A ds \in SUBSET Durations : Cardinality(Lasted(f, ds)) \in Nat
    BY LastedPart
  <1>4. n + 1 = Cardinality(Lasted(g, Durations))
    BY <1>2 DEF Counts
  <1>5. (IF ns > LateNs THEN l + 1 ELSE l) = Cardinality(Lasted(g, {d \in Durations : d > LateNs}))
    <2>1. PICK ds \in SUBSET Durations : ds = {d \in Durations : d > LateNs}
      OBVIOUS
    <2>2. ns \in ds <=> ns > LateNs
      BY <2>1
    <2>3. l = Cardinality(Lasted(f, ds)) /\ l \in Nat
      BY <1>3, <2>1 DEF Counts
    <2> QED BY <1>2, <2>1, <2>2, <2>3
  <1>6. (IF k < BinCount THEN o ELSE o + 1)
           = Cardinality(Lasted(g, {d \in Durations : d >= BinNs * BinCount}))
    <2>1. PICK ds \in SUBSET Durations : ds = {d \in Durations : d >= BinNs * BinCount}
      OBVIOUS
    <2>2. ns \in ds <=> ~(k < BinCount)
      <3>1. BinCount \in Nat /\ BinNs * BinCount \in Nat /\ ns \in Nat
        BY PerfAssumption, BinIs
      <3>2. ns < BinNs * BinCount <=> k < BinCount
        BY <1>1, <3>1, BinIs
      <3> QED BY <2>1, <3>1, <3>2
    <2>3. o = Cardinality(Lasted(f, ds)) /\ o \in Nat
      BY <1>3, <2>1 DEF Counts
    <2> QED BY <1>2, <2>1, <2>2, <2>3
  <1>7. ASSUME NEW i \in 0..(BinCount - 1)
        PROVE  (IF k < BinCount THEN [b EXCEPT ![k] = @ + 1] ELSE b)[i]
                  = Cardinality(Lasted(g, Bin(i)))
    <2>1. Bin(i) \in SUBSET Durations /\ (ns \in Bin(i) <=> k = i)
      BY <1>1 DEF Bin
    <2>2. b[i] = Cardinality(Lasted(f, Bin(i))) /\ b[i] \in Nat
      BY DEF Counts
    <2>3. Cardinality(Lasted(g, Bin(i))) = b[i] + (IF k = i THEN 1 ELSE 0)
      BY <1>2, <2>1, <2>2
    <2>4. CASE k = i
      BY <2>3, <2>4, PerfAssumption
    <2>5. CASE k # i
      BY <2>2, <2>3, <2>5
    <2> QED BY <2>4, <2>5
  <1> QED BY <1>1, <1>4, <1>5, <1>6, <1>7 DEF Counts

(* The nearest-rank percentile of the frames lies below a bound exactly    *)
(* when the frames below that bound reach the rank.                        *)
LEMMA NearestRankIs ==
    ASSUME seen \in [Durations -> Nat], IsFiniteSet(Lasted(seen, Durations)),
           NEW n \in Nat \ {0}, n = Cardinality(Lasted(seen, Durations)),
           NEW percent \in {50, 95, 99}
    PROVE  /\ NearestRank(percent) \in Durations
           /\ \A i \in 1..BinCount :
                 Reaches(seen, i, n, percent) <=> NearestRank(percent) < BinNs * i
  <1> DEFINE Within(w) == {d \in Durations : d <= w}
             C(ds) == Cardinality(Lasted(seen, ds))
             ok == {w \in Durations : 100 * C(Within(w)) >= percent * n}
             Least(v) == v \in ok /\ \A w \in Durations : w < v => w \notin ok
             v0 == NearestRank(percent)
  <1>1. \A ds \in SUBSET Durations : /\ C(ds) \in Nat
                                     /\ \A es \in SUBSET ds : C(es) <= C(ds)
    BY LastedPart
  <1>2. C({}) = 0
    <2>1. Lasted(seen, {}) = {}
      BY DEF Lasted
    <2> QED BY <2>1, FS_EmptySet
  <1>3. Durations \in SUBSET Nat /\ IsFiniteSet(Durations) /\ BinCount \in Nat
        /\ \A w : Within(w) \in SUBSET Durations
    BY PerfAssumption
  <1>4. PICK x \in Nat : x = percent * n /\ x > 0 /\ x <= 100 * n
    OBVIOUS
  <1> HIDE DEF C
  <1>5. ASSUME NEW ds \in SUBSET Durations, ds # {}
        PROVE  \E w \in ds : \A d \in ds : d <= w
    <2>1. ds \in SUBSET Nat /\ IsFiniteSet(ds)
      BY <1>3, FS_Subset
    <2>2. PICK m \in Nat : ds \in SUBSET (0..m)
      BY <2>1, BoundExists
    <2> QED BY <1>5, <2>2, GreatestExists
  <1>6. ok \in SUBSET Nat /\ ok # {}
    <2>1. Durations # {}
      <3>1. n = C(Durations)
        BY DEF C
      <3> QED BY <1>2, <3>1
    <2>2. PICK w \in Durations : \A d \in Durations : d <= w
      BY <1>5, <2>1
    <2>3. Within(w) = Durations
      BY <2>2
    <2>4. 100 * C(Within(w)) >= percent * n
      BY <1>4, <2>3 DEF C
    <2> HIDE DEF Within
    <2> QED BY <1>3, <2>4
  <1>7. PICK v : Least(v)
    <2>1. PICK v \in ok : \A w \in ok : v <= w
      <3> HIDE DEF ok
      <3> QED BY <1>6, LeastExists
    <2>2. \A w \in Durations : w < v => w \notin ok
      <3>1. v \in Nat
        BY <1>6
      <3> HIDE DEF ok
      <3> QED BY <1>3, <2>1, <3>1
    <2> QED BY <2>1, <2>2
  <1>8. v0 \in Durations /\ Least(v0)
    <2>1. \A ds \in SUBSET Durations : CountOf(ds) = C(ds)
      BY CountIs DEF C
    <2>2. ASSUME NEW w \in Durations
          PROVE  Least(w) <=>
                    /\ 100 * CountOf({d \in Durations : d <= w}) >= percent * CountOf(Durations)
                    /\ \A y \in Durations :
                          y < w => 100 * CountOf({d \in Durations : d <= y})
                                      < percent * CountOf(Durations)
      <3>1. CountOf(Durations) = n
        BY <2>1 DEF C
      <3>2. \A y \in Durations : CountOf({d \in Durations : d <= y}) = C(Within(y))
        BY <2>1
      <3>3. \A y \in Durations : C(Within(y)) \in Nat
        BY <1>1, <1>3
      <3>4. \A y \in Durations : y \notin ok <=> 100 * C(Within(y)) < percent * n
        <4> HIDE DEF Within
        <4> QED BY <1>4, <3>3
      <3> HIDE DEF Within
      <3> QED BY <3>1, <3>2, <3>4
    <2>3. v \in Durations
      BY <1>7
    <2> HIDE DEF Least
    <2> QED BY <1>7, <2>2, <2>3, Zenon DEF NearestRank
  <1> HIDE DEF v0
  <1>9. v0 \in Nat /\ 100 * C(Within(v0)) >= x
    BY <1>3, <1>4, <1>8
  <1>10. ASSUME NEW i \in 1..BinCount
         PROVE  C(Below(i)) >= Rank(n, percent) <=> v0 < BinNs * i
    <2>1. Below(i) \in SUBSET Durations
      BY DEF Below
    <2>2. PICK m \in Nat : m = C(Below(i))
      BY <1>1, <2>1
    <2>3. m >= Rank(n, percent) <=> 100 * m >= x
      <3>1. percent \in Nat /\ n \in Nat
        OBVIOUS
      <3> QED BY <1>4, <3>1, RankIs
    <2>4. ASSUME 100 * m >= x PROVE v0 < BinNs * i
      <3>1. Below(i) # {}
        BY <1>2, <1>4, <2>2, <2>4
      <3>2. PICK w \in Below(i) : \A d \in Below(i) : d <= w
        BY <1>5, <2>1, <3>1
      <3>3. w \in Durations /\ w \in Nat /\ w < BinNs * i /\ BinNs * i \in Nat
        BY <1>3, <3>2, BinIs DEF Below
      <3>4. Within(w) = Below(i)
        <4>1. \A d \in Durations : d <= w => d < BinNs * i
          BY <1>3, <3>3
        <4> QED BY <3>2, <4>1 DEF Below
      <3>5. w \in ok
        <4> HIDE DEF Within
        <4> QED BY <1>4, <2>2, <2>4, <3>3, <3>4
      <3>6. ~(w < v0)
        <4> HIDE DEF ok
        <4> QED BY <1>8, <3>3, <3>5
      <3> QED BY <1>9, <3>3, <3>6
    <2>5. ASSUME v0 < BinNs * i PROVE 100 * m >= x
      <3>1. BinNs * i \in Nat
        BY <1>8, BinIs
      <3>2. \A d \in Durations : d <= v0 => d < BinNs * i
        BY <1>3, <1>9, <2>5, <3>1
      <3>3. Within(v0) \in SUBSET Below(i)
        BY <3>2 DEF Below
      <3>4. C(Within(v0)) <= m /\ C(Within(v0)) \in Nat
        <4> HIDE DEF Within
        <4> QED BY <1>1, <1>3, <2>1, <2>2, <3>3
      <3> HIDE DEF Within
      <3> QED BY <1>4, <1>9, <3>4
    <2> QED BY <2>2, <2>3, <2>4, <2>5
  <1> QED BY <1>8, <1>10 DEF v0, C, Reaches

-----------------------------------------------------------------------------
(* Between two lines the counters tell of the frames since the last one;   *)
(* a line tells of those before it, and the counters start over.           *)
ReportCounts ==
    \E b : /\ Counts(b, report.overflow, report.n, report.late, seen)
           /\ report.p = [percent \in {50, 95, 99} |-> Percentile(b, report.n, percent)]

Histogram ==
    /\ bins \in [0..(BinCount - 1) -> Nat]
    /\ overflow \in Nat /\ frames \in Nat /\ late \in Nat
    /\ window_ns \in Nat /\ worst_ns \in Nat
    /\ seen \in [Durations -> Nat] /\ IsFiniteSet(Lasted(seen, Durations))
    /\ report = NoReport => Counts(bins, overflow, frames, late, seen)
    /\ report # NoReport =>
          /\ bins = Zero /\ overflow = 0 /\ frames = 0 /\ late = 0
          /\ report.n \in Nat \ {0} /\ ReportCounts

LEMMA InitHistogram == PerfInit => Histogram
  <1> SUFFICES ASSUME PerfInit PROVE Histogram
    OBVIOUS
  <1>1. seen = [d \in Durations |-> 0]
    BY DEF PerfInit
  <1>2. seen \in [Durations -> Nat] /\ IsFiniteSet(Lasted(seen, Durations))
    BY <1>1, LastedNone
  <1>3. Counts(Zero, 0, 0, 0, seen)
    BY <1>1, CountsNone
  <1>4. Zero \in [0..(BinCount - 1) -> Nat]
    BY DEF Zero
  <1> QED BY <1>2, <1>3, <1>4 DEF PerfInit, Histogram

LEMMA FrameHistogram ==
    ASSUME Histogram, NEW ns \in Durations, PerfFrame(ns)
    PROVE  Histogram'
  <1>1. PICK f : f = [d \in Durations |-> IF report = NoReport THEN seen[d] ELSE 0]
    OBVIOUS
  <1>2. /\ f \in [Durations -> Nat] /\ IsFiniteSet(Lasted(f, Durations))
        /\ Counts(bins, overflow, frames, late, f)
    <2>1. CASE report = NoReport
      <3>1. f = seen
        BY <1>1, <2>1 DEF Histogram
      <3> QED BY <2>1, <3>1 DEF Histogram
    <2>2. CASE report # NoReport
      <3>1. f = [d \in Durations |-> 0]
        BY <1>1, <2>2
      <3> QED BY <2>2, <3>1, LastedNone, CountsNone DEF Histogram
    <2> QED BY <2>1, <2>2
  <1>3. PICK g : g = OneMore(f, ns)
    OBVIOUS
  <1>4. seen' = g
    BY <1>1, <1>3 DEF PerfFrame, OneMore
  <1>5. g \in [Durations -> Nat] /\ IsFiniteSet(Lasted(g, Durations))
    BY <1>2, <1>3, LastedAdds
  <1>6. /\ bins \in [0..(BinCount - 1) -> Nat]
        /\ overflow \in Nat /\ frames \in Nat /\ late \in Nat
        /\ window_ns \in Nat /\ worst_ns \in Nat /\ ns \in Nat /\ ns \div BinNs \in Nat
    BY BinIs DEF Histogram
  <1>7. PICK b :
           b = IF ns \div BinNs < BinCount THEN [bins EXCEPT ![ns \div BinNs] = @ + 1] ELSE bins
    OBVIOUS
  <1>8. PICK o : o = IF ns \div BinNs < BinCount THEN overflow ELSE overflow + 1
    OBVIOUS
  <1>9. PICK n : n = frames + 1
    OBVIOUS
  <1>10. PICK l : l = IF ns > LateNs THEN late + 1 ELSE late
    OBVIOUS
  <1>11. Counts(b, o, n, l, g)
    BY <1>2, <1>3, <1>6, <1>7, <1>8, <1>9, <1>10, CountsAdd
  <1>12. b \in [0..(BinCount - 1) -> Nat] /\ o \in Nat /\ n \in Nat \ {0} /\ l \in Nat
    <2>1. b \in [0..(BinCount - 1) -> Nat]
      <3>1. PICK k \in Nat : k = ns \div BinNs
        BY <1>6
      <3>2. CASE k < BinCount
        <4>1. b = [bins EXCEPT ![k] = bins[k] + 1]
          BY <1>7, <3>1, <3>2
        <4>2. k \in 0..(BinCount - 1)
          BY <3>2, PerfAssumption
        <4>3. bins[k] + 1 \in Nat
          BY <1>6, <4>2
        <4> QED BY <1>6, <4>1, <4>3
      <3>3. CASE ~(k < BinCount)
        BY <1>6, <1>7, <3>1, <3>3
      <3> QED BY <3>2, <3>3
    <2> QED BY <1>6, <1>8, <1>9, <1>10, <2>1
  <1>13. PICK span, worst : span = window_ns + ns /\ worst = IF ns > worst_ns THEN ns ELSE worst_ns
    OBVIOUS
  <1>14. span \in Nat /\ worst \in Nat
    BY <1>6, <1>13
  <1>15. CASE span < Window
    <2>1. /\ bins' = b /\ overflow' = o /\ frames' = n /\ late' = l
          /\ window_ns' = span /\ worst_ns' = worst /\ report' = NoReport
      BY <1>7, <1>8, <1>9, <1>10, <1>13, <1>15 DEF PerfFrame
    <2> QED BY <1>4, <1>5, <1>11, <1>12, <1>14, <2>1 DEF Histogram
  <1>16. CASE ~(span < Window)
    <2>1. PICK line :
             line = [n |-> n, span |-> span, worst |-> worst, late |-> l, overflow |-> o,
                     p |-> [percent \in {50, 95, 99} |-> Percentile(b, n, percent)]]
      OBVIOUS
    <2>2. /\ bins' = Zero /\ overflow' = 0 /\ frames' = 0 /\ late' = 0
          /\ window_ns' = 0 /\ worst_ns' = 0 /\ report' = line
      BY <1>7, <1>8, <1>9, <1>10, <1>13, <1>16, <2>1 DEF PerfFrame
    <2>3. ASSUME NEW percent \in {50, 95, 99} PROVE Percentile(b, n, percent) \in Int
      <3>1. percent \in Nat /\ n \in Nat
        BY <1>12
      <3>3. \A i \in 1..BinCount : BinNs * i \in Int
        BY PerfAssumption
      <3>4. \/ Percentile(b, n, percent) = -1
            \/ \E i \in 1..BinCount : Percentile(b, n, percent) = BinNs * i
        <4>1. Fits(Percentile(b, n, percent), g, n, percent)
          BY <1>5, <1>11, <3>1, PercentileIs
        <4> QED BY <4>1 DEF Fits
      <3> QED BY <3>3, <3>4
    <2>4. line \in Report
      BY <1>12, <1>14, <2>1, <2>3 DEF Report
    <2>5. report' # NoReport
      BY <2>2, <2>4, PerfAssumption
    <2>6. ReportCounts'
      <3>1. /\ line.n = n /\ line.overflow = o /\ line.late = l
            /\ line.p = [percent \in {50, 95, 99} |-> Percentile(b, n, percent)]
        BY <2>1
      <3> QED BY <1>4, <1>11, <2>2, <3>1 DEF ReportCounts
    <2>7. Zero \in [0..(BinCount - 1) -> Nat]
      BY DEF Zero
    <2>8. report'.n \in Nat \ {0}
      BY <1>12, <2>1, <2>2
    <2> QED BY <1>4, <1>5, <2>2, <2>5, <2>6, <2>7, <2>8 DEF Histogram
  <1> QED BY <1>15, <1>16

LEMMA StutterHistogram == Histogram /\ UNCHANGED perfVars => Histogram'
  BY DEF Histogram, ReportCounts, perfVars

LEMMA HistogramHonest == Histogram => FramesHonest
  <1> SUFFICES ASSUME Histogram, report # NoReport PROVE FramesHonest
    BY DEF FramesHonest
  <1>1. PICK b : /\ Counts(b, report.overflow, report.n, report.late, seen)
                 /\ report.p = [percent \in {50, 95, 99} |-> Percentile(b, report.n, percent)]
    BY DEF Histogram, ReportCounts
  <1>2. PICK n \in Nat \ {0} : n = report.n
    BY DEF Histogram
  <1>3. seen \in [Durations -> Nat] /\ IsFiniteSet(Lasted(seen, Durations))
    BY DEF Histogram
  <1>4. /\ n = CountOf(Durations)
        /\ report.late = CountOf({d \in Durations : d > LateNs})
        /\ report.overflow = CountOf({d \in Durations : d >= BinNs * BinCount})
    <2>1. PICK ls \in SUBSET Durations : ls = {d \in Durations : d > LateNs}
      OBVIOUS
    <2>2. PICK os \in SUBSET Durations : os = {d \in Durations : d >= BinNs * BinCount}
      OBVIOUS
    <2>3. /\ CountOf(Durations) = Cardinality(Lasted(seen, Durations))
          /\ CountOf(ls) = Cardinality(Lasted(seen, ls))
          /\ CountOf(os) = Cardinality(Lasted(seen, os))
      BY <1>3, CountIs
    <2> QED BY <1>1, <1>2, <2>1, <2>2, <2>3 DEF Counts
  <1>5. ASSUME NEW percent \in {50, 95, 99}
        PROVE  LET v == NearestRank(percent)
                   q == report.p[percent]
               IN  IF v >= BinNs * BinCount THEN q = -1
                   ELSE q - BinNs <= v /\ v < q
    <2>1. PICK v : v = NearestRank(percent)
      OBVIOUS
    <2>2. PICK q : q = report.p[percent]
      OBVIOUS
    <2>3. q = Percentile(b, n, percent) /\ percent \in Nat
      BY <1>1, <1>2, <2>2
    <2>4. v \in Durations /\ \A i \in 1..BinCount : Reaches(seen, i, n, percent) <=> v < BinNs * i
      <3>1. n = Cardinality(Lasted(seen, Durations))
        BY <1>1, <1>2 DEF Counts
      <3> QED BY <1>3, <2>1, <3>1, NearestRankIs
    <2>5. \/ q = -1 /\ \A i \in 1..BinCount : ~Reaches(seen, i, n, percent)
          \/ \E i \in 1..BinCount :
                /\ q = BinNs * i /\ Reaches(seen, i, n, percent)
                /\ \A j \in 1..BinCount : Reaches(seen, j, n, percent) => i <= j
      <3>1. n \in Nat
        OBVIOUS
      <3>2. Fits(q, seen, n, percent)
        BY <1>1, <1>2, <1>3, <2>3, <3>1, PercentileIs
      <3> QED BY <3>2 DEF Fits
    <2>6. BinCount \in Nat /\ BinCount \in 1..BinCount /\ BinNs \in Nat /\ BinNs > 0
      BY PerfAssumption
    <2>7. /\ v \in Nat /\ v \div BinNs \in Nat
          /\ \A i \in Nat : BinNs * i \in Nat /\ (v < BinNs * i <=> v \div BinNs < i)
      BY <2>4, BinIs
    <2>8. CASE v >= BinNs * BinCount
      <3>1. ASSUME NEW i \in 1..BinCount, Reaches(seen, i, n, percent) PROVE FALSE
        <4>1. v \div BinNs < i
          BY <2>4, <2>7, <3>1
        <4>2. v \div BinNs < BinCount
          BY <2>6, <2>7, <4>1
        <4> QED BY <2>6, <2>7, <2>8, <4>2
      <3>2. q = -1
        BY <2>5, <3>1
      <3> QED BY <2>1, <2>2, <2>8, <3>2
    <2>9. CASE ~(v >= BinNs * BinCount)
      <3>1. Reaches(seen, BinCount, n, percent)
        BY <2>4, <2>6, <2>7, <2>9
      <3>2. PICK i \in 1..BinCount :
               /\ q = BinNs * i /\ Reaches(seen, i, n, percent)
               /\ \A j \in 1..BinCount : Reaches(seen, j, n, percent) => i <= j
        BY <2>5, <2>6, <3>1
      <3>3. v < q
        BY <2>4, <3>2
      <3>4. q - BinNs <= v
        <4>1. PICK k \in Nat : i = k + 1
          <5>1. i - 1 \in Nat /\ i = (i - 1) + 1
            BY <2>6
          <5> QED BY <5>1
        <4>2. BinNs * i = BinNs * k + BinNs /\ BinNs * k \in Nat
          BY <2>6, <4>1
        <4>3. CASE k = 0
          <5>1. BinNs * k = 0
            BY <2>6, <4>3
          <5> QED BY <2>6, <2>7, <3>2, <4>2, <5>1
        <4>4. CASE k # 0
          <5>1. k \in 1..BinCount /\ ~(i <= k)
            BY <2>6, <4>1, <4>4
          <5>2. ~(v < BinNs * k)
            BY <2>4, <3>2, <5>1
          <5> QED BY <2>6, <2>7, <3>2, <4>2, <5>2
        <4> QED BY <4>3, <4>4
      <3> QED BY <2>1, <2>2, <2>9, <3>3, <3>4
    <2> QED BY <2>8, <2>9
  <1> QED BY <1>2, <1>4, <1>5 DEF FramesHonest

(* Only a frame moves the counters.                                        *)
LEMMA NextHistogram == Histogram /\ [Next]_vars => Histogram'
  <1> SUFFICES ASSUME Histogram, [Next]_vars PROVE Histogram'
    OBVIOUS
  <1>1. ASSUME NEW ns \in Durations, Frame(ns) PROVE Histogram'
    BY <1>1, FrameHistogram DEF Frame
  <1>2. CASE Boot \/ RedirectStdio \/ ConsoleExit \/ StartGame \/ MainReturns
    <2>1. UNCHANGED perfVars
      BY <1>2 DEF Boot, RedirectStdio, ConsoleExit, StartGame, MainReturns
    <2> QED BY <2>1, StutterHistogram
  <1>3. ASSUME NEW t \in Threads, EnterCache(t) \/ LeaveCache(t) \/ EnterVfs(t) \/ LeaveVfs(t)
        PROVE  Histogram'
    <2>1. UNCHANGED perfVars
      BY <1>3 DEF EnterCache, LeaveCache, EnterVfs, LeaveVfs
    <2> QED BY <2>1, StutterHistogram
  <1>4. ASSUME NEW t \in Threads, Terminate(t) \/ FastExit(t) PROVE Histogram'
    <2>1. UNCHANGED perfVars
      BY <1>4 DEF Terminate, FastExit, AuroraFlushCaches, CommitBatch, SqliteFlushAll,
                  LogShutdown, ExitProcess
    <2> QED BY <2>1, StutterHistogram
  <1>5. CASE WriterEnds
    BY <1>5, StutterHistogram DEF WriterEnds
  <1>6. CASE UNCHANGED vars
    BY <1>6, StutterHistogram DEF vars
  <1> QED BY <1>1, <1>2, <1>3, <1>4, <1>5, <1>6 DEF Next

(* Every FRAMES line is true of the frames since the line before: exact    *)
(* counts, and percentiles that lie in the bin below the bound reported,   *)
(* or beyond the histogram exactly when -1 is.                             *)
THEOREM FramesTold == Spec => []FramesHonest
  <1>1. Init => Histogram
    BY InitHistogram DEF Init
  <1> QED BY <1>1, NextHistogram, HistogramHonest, PTL DEF Spec

=============================================================================
