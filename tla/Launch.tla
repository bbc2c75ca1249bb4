------------------------------- MODULE Launch -------------------------------
(***************************************************************************)
(* One launch of the program, from main of main_switch.cpp to the end of   *)
(* the process: the services and standard streams main sets up, the frames *)
(* of the game, the terminate handler, and kartpad_fast_exit, through      *)
(* which every exit goes.  The exit meets the other threads at three       *)
(* places: cache_mutex of the blob cache, handleMutex of the SQLite VFS    *)
(* and the log writer it joins; these are reduced here to who holds what.  *)
(* GameData, BlobCache, HosVfs and LogWriter model them in full.           *)
(***************************************************************************)
EXTENDS Perf

CONSTANTS Main, Workers, Nobody,
          MaxTries,             \* attempts to get handleMutex at the exit, 50
          AbortInside,          \* may a thread die while it holds a mutex?
          MaxCalls, MaxFaults   \* bounds: calls into cache and VFS, failing calls

ASSUME LaunchAssumption ==
    /\ Main \notin Workers /\ Nobody \notin Workers \cup {Main}
    /\ AbortInside \in BOOLEAN
    /\ {MaxTries, MaxCalls, MaxFaults} \subseteq Nat

Threads == Workers \cup {Main}
Stdio == {"stdout", "stderr"}

VARIABLES
    at,                         \* what main has done last
    services,                   \* initialised and not released
    sink,                       \* [Stdio -> "console" or "card"]
    writer,                     \* the log writer
    place,                      \* [Threads -> what each is doing]
    cacheMutex, handleMutex,    \* their holders
    pending, safe,              \* blobs in pending_writes, in the database
    owed,                       \* observation: those stored when an exit began
    tries,                      \* [Threads -> attempts made so far]
    calls, faults

bootVars == <<at, services, sink>>
lockVars == <<cacheMutex, handleMutex>>
blobVars == <<pending, safe>>
vars == <<bootVars, writer, place, lockVars, blobVars, owed, tries, calls, faults, perfVars>>

Exiting == {"caches", "commit", "sqlite", "log", "join", "over"}

(* The type invariant.                                                     *)
TypeOK ==
    /\ at \in {"start", "romfs", "socket", "console", "gate", "redirect", "released",
               "game", "returned", "played"}
    /\ services \subseteq {"romfs", "socket", "console"}
    /\ sink \in [Stdio -> {"console", "card"}]
    /\ writer \in {"off", "running", "stopping", "gone"}
    /\ place \in [Threads -> {"out", "cache", "vfs"} \cup Exiting]
    /\ {cacheMutex, handleMutex} \subseteq Threads \cup {Nobody}
    /\ pending \cup safe \cup owed \subseteq 1..MaxCalls /\ calls \in 0..MaxCalls
    /\ tries \in [Threads -> 0..MaxTries]
    /\ faults \in 0..MaxFaults

Init ==
    /\ at = "start" /\ services = {} /\ sink = [d \in Stdio |-> "console"]
    /\ writer = "off"
    /\ place = [t \in Threads |-> "out"]
    /\ cacheMutex = Nobody /\ handleMutex = Nobody
    /\ pending = {} /\ safe = {} /\ owed = {}
    /\ tries = [t \in Threads |-> 0]
    /\ calls = 0 /\ faults = 0
    /\ PerfInit

Over == \E t \in Threads : place[t] = "over"
Runs(t) == ~Over /\ place[t] = "out"
GameBegan == at \in {"game", "played"}
Fault == faults < MaxFaults /\ faults' = faults + 1
Works == faults' = faults

(* exit, _exit and abort all lead into kartpad_fast_exit.                  *)
BeginExit(t) ==
    /\ place' = [place EXCEPT ![t] = "caches"]
    /\ owed' = IF \E u \in Threads : place[u] \in Exiting THEN owed ELSE pending \cup safe

-----------------------------------------------------------------------------
(* main, up to the gate: services one after the other, then the game data  *)
(* (EnsureGameDataAvailable, see GameData).                                *)
Successor == [start |-> "romfs", romfs |-> "socket", socket |-> "console", console |-> "gate"]

Boot ==
    /\ Runs(Main) /\ at \in DOMAIN Successor
    /\ at' = Successor[at]
    /\ services' = services \cup ({at'} \ {"gate"})
    /\ UNCHANGED <<sink, writer, place, lockVars, blobVars, owed, tries, calls, faults, perfVars>>

(* redirect_stdio_to_sd opens the runtime log and points stdout and then   *)
(* stderr at it.  Faulty variant: the second dup2 is not checked.          *)
BadRedirected(ds) == "stdout" \in ds
Redirected(ds) == ds = Stdio

(* Without a log the program does not start: the console, still there,     *)
(* shows why, then everything is released and main returns.                *)
RedirectStdio ==
    /\ Runs(Main) /\ at = "gate"
    /\ \E ds \in {{}, {"stdout"}, Stdio} :
          /\ sink' = [d \in Stdio |-> IF d \in ds THEN "card" ELSE "console"]
          /\ IF ds = Stdio THEN Works ELSE Fault
          /\ IF Redirected(ds)
             THEN at' = "redirect" /\ UNCHANGED <<services, place, owed>>
             ELSE at' = "returned" /\ services' = {} /\ BeginExit(Main)
    /\ UNCHANGED <<writer, lockVars, blobVars, tries, calls, perfVars>>

ConsoleExit ==
    /\ Runs(Main) /\ at = "redirect" /\ at' = "released"
    /\ services' = services \ {"console"}
    /\ UNCHANGED <<sink, writer, place, lockVars, blobVars, owed, tries, calls, faults, perfVars>>

(* The program has no game data and ends, or the game begins; the log      *)
(* writer is started just before, or cannot be.                            *)
StartGame ==
    /\ Runs(Main) /\ at = "released" /\ at' = "game"
    /\ \/ writer' = "running" /\ Works
       \/ writer' = writer /\ Fault
    /\ UNCHANGED <<services, sink, place, lockVars, blobVars, owed, tries, calls, perfVars>>

Frame(ns) ==
    /\ Runs(Main) /\ at = "game"
    /\ PerfFrame(ns)
    /\ UNCHANGED <<bootVars, writer, place, lockVars, blobVars, owed, tries, calls, faults>>

(* main returns, without game data or after the game.                      *)
MainReturns ==
    /\ Runs(Main) /\ at \in {"released", "game"}
    /\ at' = IF at = "game" THEN "played" ELSE "returned"
    /\ services' = services \ {"socket", "romfs"}
    /\ BeginExit(Main)
    /\ UNCHANGED <<sink, writer, lockVars, blobVars, tries, calls, faults, perfVars>>

-----------------------------------------------------------------------------
(* A thread of the game calls store_to_cache, under cache_mutex, or works  *)
(* on the pipeline database; either way it enters the VFS, whose calls     *)
(* hold handleMutex.                                                       *)
EnterCache(t) ==
    /\ Runs(t) /\ GameBegan
    /\ calls < MaxCalls /\ calls' = calls + 1
    /\ cacheMutex = Nobody /\ cacheMutex' = t
    /\ place' = [place EXCEPT ![t] = "cache"]
    /\ UNCHANGED <<bootVars, writer, handleMutex, blobVars, owed, tries, faults, perfVars>>

(* The blob joins the batch.                                               *)
LeaveCache(t) ==
    /\ ~Over /\ place[t] = "cache"
    /\ pending' = pending \cup {calls}
    /\ cacheMutex' = Nobody
    /\ place' = [place EXCEPT ![t] = "out"]
    /\ UNCHANGED <<bootVars, writer, handleMutex, safe, owed, tries, calls, faults, perfVars>>

EnterVfs(t) ==
    /\ ~Over /\ GameBegan
    /\ \/ place[t] = "out" /\ calls < MaxCalls /\ calls' = calls + 1
       \/ place[t] = "cache" /\ calls' = calls
    /\ handleMutex = Nobody /\ handleMutex' = t
    /\ place' = [place EXCEPT ![t] = "vfs"]
    /\ UNCHANGED <<bootVars, writer, cacheMutex, blobVars, owed, tries, faults, perfVars>>

(* A thread that came through the cache has committed the batch, its own   *)
(* blob included.                                                          *)
LeaveVfs(t) ==
    /\ ~Over /\ place[t] = "vfs"
    /\ handleMutex' = Nobody
    /\ cacheMutex' = IF cacheMutex = t THEN Nobody ELSE cacheMutex
    /\ IF cacheMutex = t
       THEN /\ pending' = {}
            /\ \/ safe' = safe \cup pending \cup {calls} /\ Works
               \/ safe' = safe /\ Fault
       ELSE UNCHANGED <<blobVars, faults>>
    /\ place' = [place EXCEPT ![t] = "out"]
    /\ UNCHANGED <<bootVars, writer, owed, tries, calls, perfVars>>

(* melee_terminate_handler, by an exception nobody catches: it reports and *)
(* aborts.  Nothing is unwound, so what the thread holds stays held.       *)
Terminate(t) ==
    /\ ~Over
    /\ t = Main \/ GameBegan
    /\ place[t] = "out" \/ (AbortInside /\ place[t] \in {"cache", "vfs"})
    /\ BeginExit(t)
    /\ UNCHANGED <<bootVars, writer, lockVars, blobVars, tries, calls, faults, perfVars>>

-----------------------------------------------------------------------------
(* kartpad_fast_exit.  aurora_flush_caches first: cache_flush waits for    *)
(* cache_mutex and commits the batch, if there is one, through the VFS.    *)
(* Faulty variant: a cache in use is passed over.                          *)
BadFlushCaches(t) ==
    /\ place[t] = "caches"
    /\ place' = [place EXCEPT ![t] = IF cacheMutex = Nobody /\ pending # {} THEN "commit" ELSE "sqlite"]
    /\ cacheMutex' = IF cacheMutex = Nobody /\ pending # {} THEN t ELSE cacheMutex

FlushCaches(t) ==
    /\ place[t] = "caches" /\ cacheMutex = Nobody
    /\ place' = [place EXCEPT ![t] = IF pending # {} THEN "commit" ELSE "sqlite"]
    /\ cacheMutex' = IF pending # {} THEN t ELSE Nobody

AuroraFlushCaches(t) ==
    /\ ~Over /\ FlushCaches(t)
    /\ UNCHANGED <<bootVars, writer, handleMutex, blobVars, owed, tries, calls, faults, perfVars>>

CommitBatch(t) ==
    /\ ~Over /\ place[t] = "commit" /\ handleMutex = Nobody
    /\ pending' = {}
    /\ \/ safe' = safe \cup pending /\ Works
       \/ safe' = safe /\ Fault
    /\ cacheMutex' = Nobody
    /\ place' = [place EXCEPT ![t] = "sqlite"]
    /\ UNCHANGED <<bootVars, writer, handleMutex, owed, tries, calls, perfVars>>

(* melee_nx_sqlite_flush_all: a bounded number of attempts, ten            *)
(* milliseconds apart; then it goes without.  Faulty variant: one more.    *)
BadGivesUp(t) == tries[t] > MaxTries
GivesUp(t) == tries[t] = MaxTries

SqliteFlushAll(t) ==
    /\ ~Over /\ place[t] = "sqlite"
    /\ IF handleMutex # Nobody /\ ~GivesUp(t)
       THEN /\ tries' = [tries EXCEPT ![t] = @ + 1]
            /\ UNCHANGED place
       ELSE /\ place' = [place EXCEPT ![t] = "log"]
            /\ UNCHANGED tries
    /\ UNCHANGED <<bootVars, writer, lockVars, blobVars, owed, calls, faults, perfVars>>

(* melee_nx_log_shutdown stops the writer, if it runs, and joins it.       *)
(* Faulty variant: it joins without setting stopping.                      *)
BadStopped == writer
Stopped == IF writer = "running" THEN "stopping" ELSE writer

LogShutdown(t) ==
    /\ ~Over /\ place[t] = "log"
    /\ writer' = Stopped
    /\ place' = [place EXCEPT ![t] = "join"]
    /\ UNCHANGED <<bootVars, lockVars, blobVars, owed, tries, calls, faults, perfVars>>

WriterEnds ==
    /\ ~Over /\ writer = "stopping" /\ writer' = "gone"
    /\ UNCHANGED <<bootVars, place, lockVars, blobVars, owed, tries, calls, faults, perfVars>>

(* stdio is flushed and the log file committed (two fsyncs), whose results *)
(* are ignored and which no variable here depends on; then svcExitProcess: *)
(* every thread stops where it is.                                         *)
ExitProcess(t) ==
    /\ ~Over /\ place[t] = "join" /\ writer \in {"off", "gone"}
    /\ place' = [place EXCEPT ![t] = "over"]
    /\ UNCHANGED <<bootVars, writer, lockVars, blobVars, owed, tries, calls, faults, perfVars>>

FastExit(t) ==
    AuroraFlushCaches(t) \/ CommitBatch(t) \/ SqliteFlushAll(t) \/ LogShutdown(t) \/ ExitProcess(t)

-----------------------------------------------------------------------------
Next ==
    \/ Boot \/ RedirectStdio \/ ConsoleExit \/ StartGame \/ MainReturns
    \/ \E ns \in Durations : Frame(ns)
    \/ \E t \in Threads :
          \/ EnterCache(t) \/ LeaveCache(t) \/ EnterVfs(t) \/ LeaveVfs(t)
          \/ Terminate(t)
          \/ FastExit(t)
    \/ WriterEnds

(* A thread in the cache or the VFS comes out again, and an exiting thread *)
(* and the log writer are scheduled.                                       *)
Goes(t) ==
    \/ place[t] # "out" /\ (LeaveCache(t) \/ EnterVfs(t) \/ LeaveVfs(t))
    \/ FastExit(t)

Fairness == WF_vars(WriterEnds) /\ \A t \in Threads : WF_vars(Goes(t))

Spec == Init /\ [][Next]_vars /\ Fairness

-----------------------------------------------------------------------------
ConsoleGone ==
    at \notin {"start", "romfs", "socket", "returned"} /\ "console" \notin services

(* Nothing is printed on a console that is gone: main releases it only     *)
(* when both standard streams, which all threads share, go to the card, or *)
(* when it ends; and the log writer, which writes to them, is started only *)
(* then ("Start after stdout/stderr have been redirected").                *)
StreamsSafe ==
    ConsoleGone \/ writer # "off" => \A d \in Stdio : sink[d] = "card"

(* Every blob stored before an exit began is in the database when the      *)
(* process ends, whichever thread exits and whatever the others hold, but  *)
(* for a batch whose commit failed (kartpad_fast_exit: "Commit pending     *)
(* cache batches before flushing the underlying file handles").            *)
ExitKeeps == Over /\ faults = 0 => owed \subseteq safe

(* An exit ends: no thread waits for ever for a mutex or for the writer    *)
(* (kartpad_fast_exit, melee_nx_sqlite_flush_all).                         *)
ExitEnds == (\E t \in Threads : place[t] \in Exiting) ~> Over

=============================================================================
