----------------------------- MODULE LogWriter ------------------------------
(***************************************************************************)
(* The double-buffered log of log_switch.cpp: producers that never block,  *)
(* critical records that may, flush, shutdown and the writer thread.       *)
(*                                                                         *)
(* Every section under the log's mutex is one action; waits on the         *)
(* condition variable are client states left when their predicate holds.   *)
(* The writer's 100 ms timed wait may end at any moment, so the swap that  *)
(* follows it is always enabled: the 16 KiB threshold, the wake signal and *)
(* the report and sync timers only decide when it happens.                 *)
(*                                                                         *)
(* A record of size n is n equal cells.  LOGIO report lines are counted,   *)
(* not stored.                                                             *)
(***************************************************************************)
EXTENDS Integers, Sequences, SequencesExt

CONSTANTS Clients,    \* threads that log
          Exiters,    \* the clients that may call melee_nx_log_shutdown
          Recs,       \* records; each is logged at most once (bounds traffic)
          Size,       \* [Recs -> cells]
          Capacity,   \* cells per buffer
          Blank,      \* an unwritten cell
          MaxFlush,   \* bound: plain flushes start only below this request count
          MaxFaults   \* bound: failing write and fsync calls

ASSUME LogAssumption ==
    /\ Exiters \subseteq Clients
    /\ Capacity \in Nat \ {0}
    /\ Size \in [Recs -> Nat \ {0}]
    /\ Blank \notin Recs
    /\ MaxFlush \in Nat /\ MaxFaults \in Nat

VARIABLES
    \* state under the mutex
    buf, used, pending, running, stopping, requested, completed, dropped,
    \* locals of the writer thread
    wpc, ready, length, request, lost, stop,
    \* the log file: cells written, length of the committed prefix, losses
    \* announced by LOGIO lines, failed calls so far
    file, durable, reported, faults,
    \* locals of each client: pc, what follows a flush, awaited request,
    \* critical record and the cells of it still to place
    cpc, after, target, crec, left,
    \* observations: accepted cells in order, Len(accepted) when a flush
    \* began, the longest prefix a returned flush covers, drops, the drops
    \* when a flush or the stop of a shutdown began, the most of these that a
    \* returned call covers, critical records cut short, records not logged yet
    accepted, mark, promise, dropSum, lossMark, lossPromise, cut, unused

bufVars == <<buf, used, pending>>
writerVars == <<wpc, ready, length, request, lost, stop>>
fileVars == <<file, durable, reported, faults>>
clientVars == <<cpc, after, target, crec, left>>
lossVars == <<dropSum, lossMark, lossPromise>>
obsVars == <<accepted, mark, promise, lossVars, cut, unused>>
vars == <<bufVars, running, stopping, requested, completed, dropped, writerVars,
          fileVars, clientVars, obsVars>>

ClientPC == {"idle", "flush", "flushWait", "crit", "critWait", "stop", "join",
             "unrun", "gone"}
WriterPC == {"off", "loop", "write", "commit", "complete", "done"}

(* The type invariant; used never exceeds the buffer it indexes.           *)
TypeOK ==
    /\ buf \in [{0, 1} -> [1..Capacity -> Recs \cup {Blank}]]
    /\ used \in 0..Capacity /\ length \in 0..Capacity
    /\ pending \in {0, 1} /\ ready \in {0, 1}
    /\ running \in BOOLEAN /\ stopping \in BOOLEAN /\ stop \in BOOLEAN
    /\ requested \in Nat /\ completed \in Nat /\ request \in Nat
    /\ dropped \in Nat /\ lost \in Nat
    /\ wpc \in WriterPC
    /\ file \in Seq(Recs \cup {Blank}) /\ durable \in Nat
    /\ reported \in Nat /\ faults \in Nat
    /\ cpc \in [Clients -> ClientPC] /\ after \in [Clients -> {"idle", "stop"}]
    /\ target \in [Clients -> Nat] /\ left \in [Clients -> Nat]
    /\ crec \in [Clients -> Recs \cup {Blank}]
    /\ accepted \in Seq(Recs) /\ mark \in [Clients -> Nat] /\ promise \in Nat
    /\ dropSum \in Nat /\ lossMark \in [Clients -> Nat] /\ lossPromise \in Nat
    /\ cut \in SUBSET Recs /\ unused \in SUBSET Recs

Init ==
    /\ buf = [b \in {0, 1} |-> [k \in 1..Capacity |-> Blank]]
    /\ used = 0 /\ pending = 0
    /\ running = FALSE /\ stopping = FALSE
    /\ requested = 0 /\ completed = 0 /\ dropped = 0
    /\ wpc = "off" /\ ready = 0 /\ length = 0 /\ request = 0 /\ lost = 0 /\ stop = FALSE
    /\ file = <<>> /\ durable = 0 /\ reported = 0 /\ faults = 0
    /\ cpc = [c \in Clients |-> "idle"] /\ after = [c \in Clients |-> "idle"]
    /\ target = [c \in Clients |-> 0] /\ left = [c \in Clients |-> 0]
    /\ crec = [c \in Clients |-> Blank]
    /\ accepted = <<>> /\ mark = [c \in Clients |-> 0] /\ promise = 0
    /\ dropSum = 0 /\ lossMark = [c \in Clients |-> 0] /\ lossPromise = 0
    /\ cut = {} /\ unused = Recs

-----------------------------------------------------------------------------
Cells(r, n) == [k \in 1..n |-> r]
Smaller(a, b) == IF a < b THEN a ELSE b
Larger(a, b) == IF a < b THEN b ELSE a

(* write_all(data): all cells, or after a failed write a proper prefix.    *)
WriteAll(data) ==
    \/ file' = file \o data /\ faults' = faults
    \/ /\ faults < MaxFaults /\ faults' = faults + 1
       /\ \E n \in 0..(Len(data) - 1) : file' = file \o SubSeq(data, 1, n)

(* fsync(STDOUT_FILENO): commits the file, or fails and is only counted.   *)
Fsync ==
    \/ durable' = Len(file) /\ faults' = faults
    \/ durable' = durable /\ faults < MaxFaults /\ faults' = faults + 1

(* memcpy(buffers[pending] + used, data, n); used += n                     *)
Place(r, n) ==
    /\ buf' = [buf EXCEPT ![pending] =
                  [k \in 1..Capacity |-> IF k \in (used + 1)..(used + n) THEN r ELSE @[k]]]
    /\ used' = used + n
    /\ accepted' = accepted \o Cells(r, n)

(* Faulty variant: the fill level is forgotten.                            *)
BadNoSpace(n) == n > Capacity

NoSpace(n) == n > Capacity - used

-----------------------------------------------------------------------------
(* melee_nx_log_init: main calls it once, before it starts other threads;  *)
(* when the writer cannot be created the log stays synchronous (no step).  *)
LogInit ==
    /\ ~running /\ wpc = "off" /\ \A c \in Clients : cpc[c] = "idle"
    /\ stopping' = FALSE
    /\ running' = TRUE /\ wpc' = "loop"
    /\ UNCHANGED <<bufVars, requested, completed, dropped, ready, length, request,
                   lost, stop, fileVars, clientVars, obsVars>>

(* melee_nx_log_write                                                      *)
LogWrite(c, r) ==
    /\ cpc[c] = "idle" /\ r \in unused
    /\ unused' = unused \ {r}
    /\ \/ /\ ~running
          /\ WriteAll(Cells(r, Size[r]))
          /\ accepted' = accepted \o Cells(r, Size[r])
          /\ UNCHANGED <<buf, used, dropped, dropSum>>
       \/ /\ running /\ (stopping \/ NoSpace(Size[r]))
          /\ dropped' = dropped + 1 /\ dropSum' = dropSum + 1
          /\ UNCHANGED <<buf, used, file, faults, accepted>>
       \/ /\ running /\ ~stopping /\ ~NoSpace(Size[r])
          /\ Place(r, Size[r])
          /\ UNCHANGED <<file, faults, dropped, dropSum>>
    /\ UNCHANGED <<pending, running, stopping, requested, completed, writerVars,
                   durable, reported, clientVars, mark, promise, lossMark, lossPromise, cut>>

(* A request for a commit: target = ++requested, then wait in state pc.    *)
Ask(c, pc) ==
    /\ requested' = requested + 1
    /\ target' = [target EXCEPT ![c] = requested + 1]
    /\ cpc' = [cpc EXCEPT ![c] = pc]

(* A flush of c returns; the locals of the call are dead from here on.     *)
FlushDone(c) ==
    /\ cpc' = [cpc EXCEPT ![c] = after[c]]
    /\ target' = [target EXCEPT ![c] = 0]
    /\ mark' = [mark EXCEPT ![c] = 0]
    /\ after' = [after EXCEPT ![c] = "idle"]
    /\ lossMark' = [lossMark EXCEPT ![c] = 0]
    /\ crec' = [crec EXCEPT ![c] = Blank]

(* Faulty variant: a flush also waits when the writer is stopping.         *)
BadFlushWhileStopping(c) ==
    /\ cpc[c] = "flush" \/ (cpc[c] = "idle" /\ requested < MaxFlush)
    /\ \/ /\ running
          /\ Ask(c, "flushWait")
          /\ mark' = [mark EXCEPT ![c] = Len(accepted)]
          /\ lossMark' = [lossMark EXCEPT ![c] = dropSum]
          /\ UNCHANGED <<durable, faults, promise, after, crec>>
       \/ /\ ~running
          /\ Fsync
          /\ promise' = Len(accepted)
          /\ FlushDone(c)
          /\ UNCHANGED requested
    /\ UNCHANGED <<bufVars, running, stopping, completed, dropped, writerVars, file,
                   reported, left, accepted, dropSum, lossPromise, cut, unused>>

(* melee_nx_log_flush: a plain call, or the tail of critical and shutdown. *)
LogFlush(c) ==
    /\ cpc[c] = "flush" \/ (cpc[c] = "idle" /\ requested < MaxFlush)
    /\ \/ /\ running /\ ~stopping
          /\ Ask(c, "flushWait")
          /\ mark' = [mark EXCEPT ![c] = Len(accepted)]
          /\ lossMark' = [lossMark EXCEPT ![c] = dropSum]
          /\ UNCHANGED <<durable, faults, promise, after, crec>>
       \/ /\ ~running
          /\ Fsync
          /\ promise' = Len(accepted)
          /\ FlushDone(c)
          /\ UNCHANGED requested
       \/ /\ running /\ stopping
          /\ FlushDone(c)
          /\ UNCHANGED <<requested, durable, faults, promise>>
    /\ UNCHANGED <<bufVars, running, stopping, completed, dropped, writerVars, file,
                   reported, left, accepted, dropSum, lossPromise, cut, unused>>

FlushReturn(c) ==
    /\ cpc[c] = "flushWait" /\ completed >= target[c]
    /\ FlushDone(c)
    /\ promise' = Larger(promise, mark[c])
    /\ lossPromise' = Larger(lossPromise, lossMark[c])
    /\ UNCHANGED <<bufVars, running, stopping, requested, completed, dropped, writerVars,
                   fileVars, left, accepted, dropSum, cut, unused>>

(* melee_nx_log_write_critical: chunk by chunk, waiting for space.         *)
CriticalStart(c, r) ==
    /\ cpc[c] = "idle" /\ r \in unused
    /\ unused' = unused \ {r}
    /\ cpc' = [cpc EXCEPT ![c] = "crit"]
    /\ crec' = [crec EXCEPT ![c] = r]
    /\ left' = [left EXCEPT ![c] = Size[r]]
    /\ UNCHANGED <<bufVars, running, stopping, requested, completed, dropped, writerVars,
                   fileVars, after, target, accepted, mark, promise, lossVars, cut>>

CriticalWait(c) ==
    /\ cpc[c] = "crit"
    /\ running /\ ~stopping /\ NoSpace(Smaller(left[c], Capacity))
    /\ Ask(c, "critWait")
    /\ UNCHANGED <<bufVars, running, stopping, completed, dropped, writerVars, fileVars,
                   after, crec, left, obsVars>>

CriticalWake(c) ==
    /\ cpc[c] = "critWait" /\ completed >= target[c]
    /\ cpc' = [cpc EXCEPT ![c] = "crit"]
    /\ target' = [target EXCEPT ![c] = 0]
    /\ UNCHANGED <<bufVars, running, stopping, requested, completed, dropped, writerVars,
                   fileVars, after, crec, left, obsVars>>

CriticalChunk(c) ==
    LET chunk == Smaller(left[c], Capacity)
    IN  /\ cpc[c] = "crit"
        /\ \/ /\ ~running
              /\ WriteAll(Cells(crec[c], chunk))
              /\ accepted' = accepted \o Cells(crec[c], chunk)
              /\ UNCHANGED <<buf, used, cut>>
           \/ /\ running /\ ~stopping /\ ~NoSpace(chunk)
              /\ Place(crec[c], chunk)
              /\ UNCHANGED <<file, faults, cut>>
           \/ /\ running /\ stopping          \* neither stored nor counted
              /\ cut' = cut \cup {crec[c]}
              /\ UNCHANGED <<buf, used, file, faults, accepted>>
        /\ left' = [left EXCEPT ![c] = @ - chunk]
        /\ cpc' = [cpc EXCEPT ![c] = IF left[c] = chunk THEN "flush" ELSE "crit"]
        /\ UNCHANGED <<pending, running, stopping, requested, completed, dropped, writerVars,
                       durable, reported, after, target, crec, mark, promise, lossVars,
                       unused>>

(* melee_nx_log_shutdown: flush, stop and join the writer, go synchronous. *)
ShutdownStart(c) ==
    /\ c \in Exiters /\ cpc[c] = "idle"
    /\ cpc' = [cpc EXCEPT ![c] = "flush"]
    /\ after' = [after EXCEPT ![c] = "stop"]
    /\ UNCHANGED <<bufVars, running, stopping, requested, completed, dropped, writerVars,
                   fileVars, target, crec, left, obsVars>>

ShutdownStop(c) ==
    /\ cpc[c] = "stop"
    /\ stopping' = TRUE
    /\ cpc' = [cpc EXCEPT ![c] = IF running THEN "join" ELSE "unrun"]
    /\ lossMark' = [lossMark EXCEPT ![c] = IF stopping THEN 0 ELSE dropSum]
    /\ UNCHANGED <<bufVars, running, requested, completed, dropped, writerVars, fileVars,
                   after, target, crec, left, accepted, mark, promise, dropSum, lossPromise,
                   cut, unused>>

ShutdownJoin(c) ==
    /\ cpc[c] = "join" /\ wpc = "done"
    /\ cpc' = [cpc EXCEPT ![c] = "unrun"]
    /\ lossPromise' = Larger(lossPromise, lossMark[c])
    /\ lossMark' = [lossMark EXCEPT ![c] = 0]
    /\ UNCHANGED <<bufVars, running, stopping, requested, completed, dropped, writerVars,
                   fileVars, after, target, crec, left, accepted, mark, promise, dropSum, cut,
                   unused>>

ShutdownEnd(c) ==
    /\ cpc[c] = "unrun"
    /\ running' = FALSE
    /\ cpc' = [cpc EXCEPT ![c] = "gone"]
    /\ UNCHANGED <<bufVars, stopping, requested, completed, dropped, writerVars, fileVars,
                   after, target, crec, left, obsVars>>

-----------------------------------------------------------------------------
(* The swap with the buffer it leaves to the producers and the stop flag   *)
(* it saw; faulty variants of each.                                        *)
SwapTo(next, seen) ==
    /\ wpc = "loop"
    /\ length' = used /\ ready' = pending
    /\ pending' = next /\ used' = 0
    /\ request' = requested
    /\ lost' = dropped /\ dropped' = 0
    /\ stop' = seen
    /\ wpc' = "write"
    /\ UNCHANGED <<buf, running, stopping, requested, completed, fileVars, clientVars, obsVars>>

BadSwapSameBuffer == SwapTo(pending, stopping)
BadSwapStaleStop == SwapTo(1 - pending, stop)

(* The writer's first locked section.                                      *)
WSwap == SwapTo(1 - pending, stopping)

(* The cells written are dead until they are overwritten: blanked.         *)
WWrite ==
    /\ wpc = "write"
    /\ IF length = 0
       THEN UNCHANGED <<file, faults, buf>>
       ELSE /\ WriteAll(SubSeq(buf[ready], 1, length))
            /\ buf' = [buf EXCEPT ![ready] =
                          [k \in 1..Capacity |-> IF k <= length THEN Blank ELSE @[k]]]
    /\ length' = 0
    /\ wpc' = "commit"
    /\ UNCHANGED <<used, pending, running, stopping, requested, completed, dropped, ready,
                   request, lost, stop, durable, reported, clientVars, obsVars>>

(* Faulty variant: stopping alone does not force the commit.               *)
BadCommitIgnoresStop ==
    /\ wpc = "commit"
    /\ reported' = reported + lost
    /\ durable' \in {Len(file)} \cup (IF request = completed THEN {durable} ELSE {})
    /\ lost' = 0
    /\ wpc' = "complete"
    /\ UNCHANGED <<bufVars, running, stopping, requested, completed, dropped, ready, length,
                   request, stop, file, faults, clientVars, obsVars>>

(* Faulty variant: the losses wait for the line of the 2 s timer, which    *)
(* forgets them when it is not due.                                        *)
BadCommitDropsCount ==
    /\ wpc = "commit"
    /\ reported' \in {reported, reported + lost}
    /\ durable' = Len(file)
    /\ lost' = 0
    /\ wpc' = "complete"
    /\ UNCHANGED <<bufVars, running, stopping, requested, completed, dropped, ready, length,
                   request, stop, file, faults, clientVars, obsVars>>

(* The LOGIO line, due when records were lost, at stop, or every 2 s; then *)
(* fsync, skipped only when no flush is outstanding, the log is not        *)
(* stopping and the last commit is recent.  Each may fail once.            *)
WCommit ==
    /\ wpc = "commit"
    /\ \E lineFails, syncFails \in BOOLEAN :
          /\ lineFails => lost > 0
          /\ faults' = faults + (IF lineFails THEN 1 ELSE 0) + (IF syncFails THEN 1 ELSE 0)
          /\ faults' <= MaxFaults \/ faults' = faults
          /\ reported' = IF lineFails THEN reported ELSE reported + lost
          /\ \/ durable' = IF syncFails THEN durable ELSE Len(file)
             \/ request = completed /\ ~stop /\ ~syncFails /\ durable' = durable
    /\ lost' = 0
    /\ wpc' = "complete"
    /\ UNCHANGED <<bufVars, running, stopping, requested, completed, dropped, ready, length,
                   request, stop, file, clientVars, obsVars>>

(* The last locked section publishes request; faulty variants publish the  *)
(* newest request, or nothing once a call has failed.                      *)
CompleteTo(done) ==
    /\ wpc = "complete"
    /\ completed' = done
    /\ wpc' = IF stop THEN "done" ELSE "loop"
    /\ UNCHANGED <<bufVars, running, stopping, requested, dropped, ready, length, request,
                   lost, stop, fileVars, clientVars, obsVars>>

BadCompleteNewest == CompleteTo(requested)
BadCompleteOnSuccess == CompleteTo(IF faults = 0 THEN request ELSE completed)

WComplete == CompleteTo(request)

-----------------------------------------------------------------------------
Writer == WSwap \/ WWrite \/ WCommit \/ WComplete

Client(c) ==
    \/ \E r \in Recs : LogWrite(c, r) \/ CriticalStart(c, r)
    \/ LogFlush(c) \/ FlushReturn(c)
    \/ CriticalWait(c) \/ CriticalWake(c) \/ CriticalChunk(c)
    \/ ShutdownStart(c) \/ ShutdownStop(c) \/ ShutdownJoin(c) \/ ShutdownEnd(c)

Next == LogInit \/ Writer \/ \E c \in Clients : Client(c)

Spec == Init /\ [][Next]_vars

(* The writer thread runs whenever its timed wait ends, which it does      *)
(* within 100 ms; a call in progress runs on once it can.  Nobody is       *)
(* obliged to start a call.                                                *)
Proceed(c) ==
    \/ cpc[c] = "flush" /\ LogFlush(c)
    \/ FlushReturn(c)
    \/ CriticalWait(c) \/ CriticalWake(c) \/ CriticalChunk(c)
    \/ ShutdownStop(c) \/ ShutdownJoin(c) \/ ShutdownEnd(c)

Fairness == WF_vars(Writer) /\ \A c \in Clients : WF_vars(Proceed(c))

FairSpec == Spec /\ Fairness

-----------------------------------------------------------------------------
InFlight == SubSeq(buf[ready], 1, length)

(* Without I/O errors the file, the buffer in the writer's hands and the   *)
(* buffer being filled are together exactly the accepted cells, in order:  *)
(* nothing is lost, doubled, reordered or overwritten while the writer     *)
(* reads a buffer outside the mutex (buffer swap of writer()).             *)
StreamIntact ==
    faults = 0 => file \o InFlight \o SubSeq(buf[pending], 1, used) = accepted

(* Whatever was accepted before a flush that waited or wrote synchronously *)
(* is committed when that flush returns (melee_nx_log_flush).              *)
FlushCommits ==
    faults = 0 => durable >= promise

(* When a flush that waited returns, the routine records dropped before it *)
(* began have been announced by a LOGIO line; so have those dropped before *)
(* a shutdown set stopping, once it has joined the writer.  None is        *)
(* announced twice (the loss count's way through writer()).                *)
LossesAnnounced ==
    faults = 0 => lossPromise <= reported /\ reported <= dropSum

(* When the writer has ended nobody waits for a request it never served,   *)
(* although flushes race with the last swap (melee_nx_log_flush counts its *)
(* request only while not stopping).                                       *)
NoStrandedWaiter ==
    wpc = "done" =>
        \A c \in Clients : cpc[c] \in {"flushWait", "critWait"} => target[c] <= completed

(* Once the writer has ended, and until the log goes synchronous, all that *)
(* was accepted is written and committed (melee_nx_log_shutdown).          *)
ShutdownDrains ==
    wpc = "done" /\ running /\ faults = 0 => file = accepted /\ durable = Len(accepted)

(* A flush that waits for the writer is served, whatever write or fsync    *)
(* fails in between (melee_nx_log_flush).                                  *)
FlushReturns ==
    \A c \in Clients : cpc[c] = "flushWait" ~> cpc[c] # "flushWait"

(* A shutdown gets through its flush, the writer's last round and the join *)
(* (melee_nx_log_shutdown).                                                *)
ShutdownEnds ==
    \A c \in Clients : (cpc[c] = "flush" /\ after[c] = "stop") ~> cpc[c] = "gone"

(* log_switch.cpp, at the drop of a routine record: "The writer reports    *)
(* losses explicitly."  When a shutdown has taken the log back to          *)
(* synchronous writing, every drop has been reported.  Fails: the last swap *)
(* does not see what is dropped after it.                                  *)
LossesTold ==
    faults = 0 /\ wpc = "done" /\ ~running => reported = dropSum

(* melee_nx_log_write_critical: "Critical records may block for space.     *)
(* Routine telemetry never does."  A critical record waits; no part of it  *)
(* is thrown away.  Fails when another thread's shutdown overtakes it.     *)
CriticalKept == cut = {}

=============================================================================
