-------------------------- MODULE LogWriter_proofs --------------------------
(***************************************************************************)
(* The log, for any number of clients, records, buffer sizes and bounds:   *)
(* nobody waits for a request the writer will never serve, and without I/O *)
(* errors the file gets exactly the accepted cells, a flush commits what   *)
(* was accepted before it and announces the drops before it, and a         *)
(* shutdown leaves nothing accepted behind.                                *)
(***************************************************************************)
EXTENDS LogWriter, SequenceTheorems, TLAPS

Waiting(c) == cpc[c] \in {"flushWait", "critWait"}
Busy == wpc \in {"write", "commit", "complete"}

CounterTypes ==
    /\ requested \in Nat /\ completed \in Nat /\ request \in Nat
    /\ running \in BOOLEAN /\ stopping \in BOOLEAN /\ stop \in BOOLEAN
    /\ wpc \in WriterPC
    /\ cpc \in [Clients -> ClientPC] /\ target \in [Clients -> Nat]
    /\ after \in [Clients -> {"idle", "stop"}]

(* completed <= request <= requested while the writer works on a request.  *)
CountersOrdered ==
    /\ completed <= requested
    /\ Busy => completed <= request /\ request <= requested
    /\ \A c \in Clients : Waiting(c) => target[c] <= requested

(* From the swap that saw stopping on, no request is added: the writer     *)
(* leaves with every request served.                                       *)
LastRequest ==
    /\ wpc = "off" => ~running
    /\ Busy /\ stop => stopping /\ request = requested
    /\ wpc = "done" => stopping /\ completed = requested

(* The inductive invariant.                                                *)
CInv == CounterTypes /\ CountersOrdered /\ LastRequest

-----------------------------------------------------------------------------
(* Initially nothing was requested and the writer does not exist.          *)
LEMMA InitCInv == Init => CInv
  <1> SUFFICES ASSUME Init PROVE CInv
    OBVIOUS
  <1>1. CounterTypes
    BY DEF Init, CounterTypes, WriterPC, ClientPC
  <1>2. CountersOrdered /\ LastRequest
    BY DEF Init, CountersOrdered, LastRequest, Waiting, Busy
  <1> QED BY <1>1, <1>2 DEF CInv

(* Steps of the writer and of initialisation.                              *)
LEMMA WriterCInv ==
    ASSUME CInv, LogInit \/ Writer
    PROVE  CInv'
  <1> USE DEF CInv, CounterTypes, CountersOrdered, LastRequest, Waiting, Busy,
              WriterPC, clientVars, obsVars, lossVars, fileVars, bufVars
  <1>1. CASE LogInit
    BY <1>1 DEF LogInit
  <1>2. CASE WSwap
    BY <1>2 DEF WSwap, SwapTo
  <1>3. CASE WWrite
    BY <1>3 DEF WWrite
  <1>4. CASE WCommit
    BY <1>4 DEF WCommit
  <1>5. CASE WComplete
    BY <1>5 DEF WComplete, CompleteTo
  <1> QED BY <1>1, <1>2, <1>3, <1>4, <1>5 DEF Writer

(* A new request is only made while the log runs and is not stopping.      *)
LEMMA AskCInv ==
    ASSUME CInv, NEW c \in Clients, NEW pc \in {"flushWait", "critWait"},
           running, ~stopping, Ask(c, pc),
           UNCHANGED <<running, stopping, completed, writerVars, after>>
    PROVE  CInv'
  <1> USE DEF CInv, CounterTypes, CountersOrdered, LastRequest, Waiting, Busy, writerVars
  <1>1. requested' = requested + 1 /\ requested' \in Nat
    BY DEF Ask
  <1>2. target' = [target EXCEPT ![c] = requested + 1] /\ cpc' = [cpc EXCEPT ![c] = pc]
    BY DEF Ask
  <1>3. CounterTypes'
    BY <1>1, <1>2 DEF ClientPC
  <1>4. \A d \in Clients : Waiting(d)' => target'[d] <= requested'
    BY <1>1, <1>2
  <1>5. LastRequest'
    <2>1. wpc # "done" /\ ~(Busy /\ stop)
      OBVIOUS
    <2> QED BY <2>1
  <1> QED BY <1>1, <1>3, <1>4, <1>5

(* A step of a client that leaves the request counters alone and does not  *)
(* begin to wait.                                                          *)
LEMMA QuietCInv ==
    ASSUME CInv, NEW c \in Clients, NEW pc \in ClientPC \ {"flushWait", "critWait"},
           cpc' = [cpc EXCEPT ![c] = pc],
           \A d \in Clients : d # c => target'[d] = target[d],
           target' \in [Clients -> Nat], after' \in [Clients -> {"idle", "stop"}],
           stopping' \in {stopping, TRUE}, running' \in {running, FALSE},
           UNCHANGED <<requested, completed, writerVars>>
    PROVE  CInv'
  <1> USE DEF CInv, CounterTypes, CountersOrdered, LastRequest, Waiting, Busy, writerVars
  <1>1. CounterTypes'
    OBVIOUS
  <1>2. \A d \in Clients : Waiting(d)' => d # c /\ Waiting(d)
    OBVIOUS
  <1>3. CountersOrdered'
    BY <1>2
  <1>4. LastRequest'
    <2>1. stopping => stopping'
      OBVIOUS
    <2>2. ~running => ~running'
      OBVIOUS
    <2>3. UNCHANGED <<wpc, stop, request, requested, completed>>
      OBVIOUS
    <2> QED BY <2>1, <2>2, <2>3
  <1> QED BY <1>1, <1>3, <1>4

(* Every step of a client.                                                 *)
LEMMA ClientCInv ==
    ASSUME CInv, NEW c \in Clients, Client(c)
    PROVE  CInv'
  <1> USE DEF obsVars, lossVars, clientVars
  <1>0. /\ after[c] \in {"idle", "stop"} /\ cpc[c] \in ClientPC
        /\ target \in [Clients -> Nat] /\ after \in [Clients -> {"idle", "stop"}]
        /\ cpc \in [Clients -> ClientPC]
        /\ running \in BOOLEAN /\ stopping \in BOOLEAN
    BY DEF CInv, CounterTypes
  <1>1. ASSUME NEW r \in Recs, LogWrite(c, r) PROVE CInv'
    <2>1. /\ cpc' = [cpc EXCEPT ![c] = cpc[c]] /\ cpc[c] = "idle"
          /\ UNCHANGED <<target, after, stopping, running, requested, completed, writerVars>>
      BY <1>0, <1>1 DEF LogWrite
    <2> QED BY <1>0, <2>1, QuietCInv DEF ClientPC
  <1>2. ASSUME NEW r \in Recs, CriticalStart(c, r) PROVE CInv'
    <2>1. /\ cpc' = [cpc EXCEPT ![c] = "crit"]
          /\ UNCHANGED <<target, after, stopping, running, requested, completed, writerVars>>
      BY <1>2 DEF CriticalStart
    <2> QED BY <1>0, <2>1, QuietCInv DEF ClientPC
  <1>3. CASE LogFlush(c)
    <2>1. CASE running /\ ~stopping /\ Ask(c, "flushWait") /\
               UNCHANGED <<running, stopping, completed, writerVars, after>>
      BY <2>1, AskCInv
    <2>2. CASE FlushDone(c) /\ UNCHANGED <<running, stopping, requested, completed, writerVars>>
      <3>1. /\ cpc' = [cpc EXCEPT ![c] = after[c]] /\ target' = [target EXCEPT ![c] = 0]
            /\ after' = [after EXCEPT ![c] = "idle"]
        BY <2>2 DEF FlushDone
      <3> QED BY <1>0, <2>2, <3>1, QuietCInv DEF ClientPC
    <2> QED BY <1>3, <2>1, <2>2 DEF LogFlush
  <1>4. CASE FlushReturn(c)
    <2>1. /\ cpc' = [cpc EXCEPT ![c] = after[c]] /\ target' = [target EXCEPT ![c] = 0]
          /\ after' = [after EXCEPT ![c] = "idle"]
          /\ UNCHANGED <<running, stopping, requested, completed, writerVars>>
      BY <1>4 DEF FlushReturn, FlushDone
    <2> QED BY <1>0, <2>1, QuietCInv DEF ClientPC
  <1>5. CASE CriticalWait(c)
    <2>1. running /\ ~stopping /\ Ask(c, "critWait") /\
          UNCHANGED <<running, stopping, completed, writerVars, after>>
      BY <1>5 DEF CriticalWait
    <2> QED BY <2>1, AskCInv
  <1>6. CASE CriticalWake(c)
    <2>1. /\ cpc' = [cpc EXCEPT ![c] = "crit"] /\ target' = [target EXCEPT ![c] = 0]
          /\ UNCHANGED <<after, running, stopping, requested, completed, writerVars>>
      BY <1>6 DEF CriticalWake
    <2> QED BY <1>0, <2>1, QuietCInv DEF ClientPC
  <1>7. CASE CriticalChunk(c)
    <2>1. /\ \E pc \in {"flush", "crit"} : cpc' = [cpc EXCEPT ![c] = pc]
          /\ UNCHANGED <<target, after, running, stopping, requested, completed, writerVars>>
      BY <1>7 DEF CriticalChunk
    <2> QED BY <1>0, <2>1, QuietCInv DEF ClientPC
  <1>8. CASE ShutdownStart(c)
    <2>1. /\ cpc' = [cpc EXCEPT ![c] = "flush"] /\ after' = [after EXCEPT ![c] = "stop"]
          /\ UNCHANGED <<target, running, stopping, requested, completed, writerVars>>
      BY <1>8 DEF ShutdownStart
    <2> QED BY <1>0, <2>1, QuietCInv DEF ClientPC
  <1>9. CASE ShutdownStop(c)
    <2>1. /\ \E pc \in {"join", "unrun"} : cpc' = [cpc EXCEPT ![c] = pc]
          /\ stopping' = TRUE
          /\ UNCHANGED <<target, after, running, requested, completed, writerVars>>
      BY <1>9 DEF ShutdownStop
    <2> QED BY <1>0, <2>1, QuietCInv DEF ClientPC
  <1>10. CASE ShutdownJoin(c)
    <2>1. /\ cpc' = [cpc EXCEPT ![c] = "unrun"]
          /\ UNCHANGED <<target, after, running, stopping, requested, completed, writerVars>>
      BY <1>10 DEF ShutdownJoin
    <2> QED BY <1>0, <2>1, QuietCInv DEF ClientPC
  <1>11. CASE ShutdownEnd(c)
    <2>1. /\ cpc' = [cpc EXCEPT ![c] = "gone"] /\ running' = FALSE
          /\ UNCHANGED <<target, after, stopping, requested, completed, writerVars>>
      BY <1>11 DEF ShutdownEnd
    <2> QED BY <1>0, <2>1, QuietCInv DEF ClientPC
  <1> QED BY <1>1, <1>2, <1>3, <1>4, <1>5, <1>6, <1>7, <1>8, <1>9, <1>10, <1>11 DEF Client

(* The request counters stay ordered in every run.                         *)
THEOREM Counters == Spec => []CInv
  <1>1. CInv /\ [Next]_vars => CInv'
    <2> SUFFICES ASSUME CInv, [Next]_vars PROVE CInv'
      OBVIOUS
    <2>1. CASE UNCHANGED vars
      BY <2>1 DEF vars, writerVars, clientVars, CInv, CounterTypes, CountersOrdered,
                  LastRequest, Waiting, Busy
    <2> QED BY <2>1, WriterCInv, ClientCInv DEF Next
  <1> QED BY InitCInv, <1>1, PTL DEF Spec

(* A thread in flush or in a critical write is never left behind by a      *)
(* shutdown, however its request races with the writer's last swap.        *)
THEOREM NoWaiterStranded == Spec => []NoStrandedWaiter
  <1>1. CInv => NoStrandedWaiter
    BY DEF CInv, CounterTypes, CountersOrdered, LastRequest, Waiting, NoStrandedWaiter
  <1> QED BY Counters, <1>1, PTL

-----------------------------------------------------------------------------
(* The writer exists while the log runs, and a shutdown takes it down      *)
(* before it makes the log synchronous; a critical write has its record.   *)
WriterRuns ==
    /\ wpc \notin {"off", "done"} => running
    /\ \A c \in Clients :
          /\ cpc[c] = "unrun" => ~running \/ wpc = "done"
          /\ cpc[c] \in {"crit", "critWait"} => crec[c] # Blank

(* The writer holds a buffer only while it writes, never the one being     *)
(* filled; and nothing is filled before it exists or behind its last swap. *)
BuffersApart ==
    /\ wpc = "write" => ready # pending
    /\ wpc # "write" => length = 0
    /\ wpc \in {"off", "done"} \/ (Busy /\ stop) => used = 0

(* The writer holds a loss count only between the swap and its report.     *)
LossHeld == wpc \notin {"write", "commit"} => lost = 0

(* Every drop is counted, in the writer's hands, or announced.             *)
LossSum == faults = 0 => dropSum = dropped + lost + reported

(* What a waiting flush covers has been taken up when the writer works on  *)
(* its request, and is committed when the request is completed.            *)
Covers(c) ==
    cpc[c] = "flushWait" =>
        /\ mark[c] <= Len(accepted)
        /\ Busy /\ target[c] <= request => mark[c] <= Len(file) + length
        /\ wpc = "complete" /\ target[c] <= request => mark[c] <= durable
        /\ target[c] <= completed => mark[c] <= durable

(* The last round of the writer commits the whole file.                    *)
LastCommit == (wpc = "complete" /\ stop) \/ (wpc = "done" /\ running) => durable = Len(file)

(* The inductive invariant of the stream.                                  *)
SInv ==
    /\ TypeOK /\ CInv /\ WriterRuns /\ BuffersApart /\ LossHeld
    /\ durable <= Len(file)
    /\ StreamIntact /\ LossSum /\ FlushCommits
    /\ faults = 0 => LastCommit /\ \A c \in Clients : Covers(c)

-----------------------------------------------------------------------------
(* Sequences of cells.                                                     *)
Cell == Recs \cup {Blank}

LEMMA CellsSeq ==
    ASSUME NEW r \in Recs, NEW n \in Nat
    PROVE  /\ Cells(r, n) \in Seq(Recs) /\ Cells(r, n) \in Seq(Cell)
           /\ Len(Cells(r, n)) = n /\ \A k \in 1..n : Cells(r, n)[k] = r
  BY DEF Cells, Cell

LEMMA PrefixSeq ==
    ASSUME NEW b \in [1..Capacity -> Cell], NEW n \in 0..Capacity
    PROVE  /\ SubSeq(b, 1, n) \in Seq(Cell) /\ Len(SubSeq(b, 1, n)) = n
           /\ \A k \in 1..n : SubSeq(b, 1, n)[k] = b[k]
  <1>1. b \in Seq(Cell) /\ Len(b) = Capacity /\ Capacity \in Nat
    BY LogAssumption
  <1> QED BY <1>1

LEMMA CellsAssociate ==
    ASSUME NEW x \in Seq(Cell), NEW y \in Seq(Cell), NEW z \in Seq(Cell)
    PROVE  (x \o y) \o z = x \o (y \o z)
  BY ConcatAssociative

(* Cells placed behind the fill level extend the filled prefix.            *)
PlaceIn(b, u, n, r) == [k \in 1..Capacity |-> IF k \in (u + 1)..(u + n) THEN r ELSE b[k]]

LEMMA PlacedPrefix ==
    ASSUME NEW b \in [1..Capacity -> Cell], NEW u \in Nat, NEW n \in Nat, u + n <= Capacity,
           NEW r \in Recs
    PROVE  /\ PlaceIn(b, u, n, r) \in [1..Capacity -> Cell]
           /\ SubSeq(PlaceIn(b, u, n, r), 1, u + n) = SubSeq(b, 1, u) \o Cells(r, n)
  <1>b. PICK b2 : b2 = PlaceIn(b, u, n, r)
    OBVIOUS
  <1>1. /\ b2 \in [1..Capacity -> Cell]
        /\ \A k \in 1..Capacity : b2[k] = IF k \in (u + 1)..(u + n) THEN r ELSE b[k]
    BY <1>b DEF PlaceIn, Cell
  <1>0. Capacity \in Nat /\ u \in 0..Capacity /\ u + n \in 0..Capacity
    BY LogAssumption
  <1> DEFINE left2 == SubSeq(b2, 1, u + n)
             old == SubSeq(b, 1, u)
             new == Cells(r, n)
  <1>2. /\ left2 \in Seq(Cell) /\ Len(left2) = u + n
        /\ \A k \in 1..(u + n) : left2[k] = b2[k]
    BY <1>0, <1>1, PrefixSeq
  <1>3. old \in Seq(Cell) /\ Len(old) = u /\ \A k \in 1..u : old[k] = b[k]
    BY <1>0, PrefixSeq
  <1>4. new \in Seq(Cell) /\ Len(new) = n /\ \A k \in 1..n : new[k] = r
    BY CellsSeq
  <1> HIDE DEF left2, old, new
  <1>5. old \o new \in Seq(Cell) /\ Len(old \o new) = u + n
    BY <1>3, <1>4
  <1>6. ASSUME NEW k \in 1..(u + n) PROVE left2[k] = (old \o new)[k]
    <2>0. k \in 1..Capacity
      BY <1>0
    <2>1. CASE k <= u
      <3>1. b2[k] = b[k]
        BY <1>1, <2>0, <2>1
      <3>2. (old \o new)[k] = old[k]
        BY <1>3, <1>4, <2>1
      <3>3. k \in 1..u /\ left2[k] = b2[k]
        BY <1>2, <2>1
      <3> QED BY <1>3, <3>1, <3>2, <3>3
    <2>2. CASE ~(k <= u)
      <3>1. b2[k] = r /\ k - u \in 1..n
        BY <1>1, <2>0, <2>2
      <3>2. (old \o new)[k] = new[k - u]
        BY <1>3, <1>4, <2>2
      <3> QED BY <1>2, <1>4, <3>1, <3>2
    <2> QED BY <2>1, <2>2
  <1>7. left2 = old \o new
    BY <1>2, <1>5, <1>6, SeqEqual
  <1> QED BY <1>b, <1>1, <1>7 DEF left2, old, new

(* Two buffers that agree up to n have the same prefix.                    *)
LEMMA SamePrefix ==
    ASSUME NEW b \in [1..Capacity -> Cell], NEW b2 \in [1..Capacity -> Cell],
           NEW n \in 0..Capacity, \A k \in 1..n : b2[k] = b[k]
    PROVE  SubSeq(b2, 1, n) = SubSeq(b, 1, n)
  <1> DEFINE x == SubSeq(b, 1, n)
             y == SubSeq(b2, 1, n)
  <1>1. /\ x \in Seq(Cell) /\ Len(x) = n /\ \A k \in 1..n : x[k] = b[k]
        /\ y \in Seq(Cell) /\ Len(y) = n /\ \A k \in 1..n : y[k] = b2[k]
    BY PrefixSeq
  <1> HIDE DEF x, y
  <1>2. y = x
    BY <1>1, SeqEqual
  <1> QED BY <1>2 DEF x, y

(* The three places a cell can be, and their lengths.                      *)
Filled == SubSeq(buf[pending], 1, used)

LEMMA StreamParts ==
    ASSUME SInv
    PROVE  /\ file \in Seq(Cell) /\ accepted \in Seq(Cell) /\ accepted \in Seq(Recs)
           /\ InFlight \in Seq(Cell) /\ Len(InFlight) = length
           /\ Filled \in Seq(Cell) /\ Len(Filled) = used
           /\ Len(file) \in Nat /\ Len(accepted) \in Nat /\ length \in Nat /\ used \in Nat
           /\ length = 0 => InFlight = <<>>
           /\ used = 0 => Filled = <<>>
           /\ faults = 0 => /\ (file \o InFlight) \o Filled = accepted
                            /\ Len(accepted) = Len(file) + length + used
  <1> USE DEF SInv, TypeOK
  <1>1. /\ file \in Seq(Cell) /\ accepted \in Seq(Cell) /\ accepted \in Seq(Recs)
        /\ Len(file) \in Nat /\ Len(accepted) \in Nat
        /\ length \in Nat /\ used \in Nat
    BY LogAssumption DEF Cell
  <1>2. buf[ready] \in [1..Capacity -> Cell] /\ buf[pending] \in [1..Capacity -> Cell]
    BY DEF Cell
  <1>3. InFlight \in Seq(Cell) /\ Len(InFlight) = length
    BY <1>2, PrefixSeq DEF InFlight
  <1>4. Filled \in Seq(Cell) /\ Len(Filled) = used
    BY <1>2, PrefixSeq DEF Filled
  <1>5. faults = 0 => (file \o InFlight) \o Filled = accepted
    BY DEF StreamIntact, Filled
  <1>6. file \o InFlight \in Seq(Cell) /\ Len(file \o InFlight) = Len(file) + length
    BY <1>1, <1>3, ConcatProperties
  <1>7. Len((file \o InFlight) \o Filled) = Len(file) + length + used
    BY <1>4, <1>6, ConcatProperties
  <1> QED BY <1>1, <1>3, <1>4, <1>5, <1>7

-----------------------------------------------------------------------------
LEMMA InitSInv == Init => SInv
  <1> SUFFICES ASSUME Init PROVE SInv
    OBVIOUS
  <1> USE DEF Init
  <1>1. TypeOK
    <2>1. buf \in [{0, 1} -> [1..Capacity -> Recs \cup {Blank}]]
      OBVIOUS
    <2>2. /\ cpc \in [Clients -> ClientPC] /\ after \in [Clients -> {"idle", "stop"}]
          /\ target \in [Clients -> Nat] /\ left \in [Clients -> Nat]
          /\ crec \in [Clients -> Recs \cup {Blank}] /\ mark \in [Clients -> Nat]
          /\ lossMark \in [Clients -> Nat]
      BY DEF ClientPC
    <2>3. used \in 0..Capacity /\ length \in 0..Capacity
      BY LogAssumption
    <2>4. file \in Seq(Recs \cup {Blank}) /\ accepted \in Seq(Recs)
      OBVIOUS
    <2>5. /\ pending \in {0, 1} /\ ready \in {0, 1}
          /\ running \in BOOLEAN /\ stopping \in BOOLEAN /\ stop \in BOOLEAN
          /\ wpc \in WriterPC
      BY DEF WriterPC
    <2>6. /\ requested \in Nat /\ completed \in Nat /\ request \in Nat
          /\ dropped \in Nat /\ lost \in Nat /\ durable \in Nat
          /\ reported \in Nat /\ faults \in Nat /\ promise \in Nat /\ dropSum \in Nat
          /\ cut \in SUBSET Recs /\ unused \in SUBSET Recs /\ lossPromise \in Nat
      OBVIOUS
    <2> QED BY <2>1, <2>2, <2>3, <2>4, <2>5, <2>6 DEF TypeOK
  <1>2. CInv
    BY InitCInv
  <1>3. WriterRuns /\ BuffersApart /\ LossHeld
    BY DEF WriterRuns, BuffersApart, LossHeld, Busy
  <1>4. StreamIntact
    <2>1. /\ buf[pending] \in [1..Capacity -> Cell] /\ buf[ready] \in [1..Capacity -> Cell]
          /\ 0 \in 0..Capacity
      BY LogAssumption DEF Cell
    <2>2. InFlight = <<>> /\ SubSeq(buf[pending], 1, used) = <<>>
      BY <2>1, PrefixSeq DEF InFlight
    <2> QED BY <2>2 DEF StreamIntact
  <1>5. LossSum /\ FlushCommits /\ durable <= Len(file)
    BY DEF LossSum, FlushCommits
  <1>6. LastCommit /\ \A c \in Clients : Covers(c)
    BY DEF LastCommit, Covers
  <1> QED BY <1>1, <1>2, <1>3, <1>4, <1>5, <1>6 DEF SInv

(* The log is synchronous only without a writer at work: then nothing is   *)
(* buffered and the file is the stream.                                    *)
LEMMA Synchronous ==
    ASSUME SInv, ~running
    PROVE  /\ wpc \in {"off", "done"} /\ used = 0 /\ length = 0
           /\ faults = 0 => file = accepted
  <1>1. wpc \in {"off", "done"}
    BY DEF SInv, WriterRuns
  <1>2. used = 0 /\ length = 0
    BY <1>1 DEF SInv, BuffersApart
  <1>3. ASSUME faults = 0 PROVE file = accepted
    <2>1. (file \o InFlight) \o Filled = accepted /\ InFlight = <<>> /\ Filled = <<>>
      BY <1>2, <1>3, StreamParts
    <2>2. file \in Seq(Cell)
      BY StreamParts
    <2> HIDE DEF Filled
    <2> QED BY <2>1, <2>2, ConcatEmptySeq
  <1> QED BY <1>1, <1>2, <1>3

(* A record, or a chunk of one, written by its own thread.                 *)
LEMMA SyncWrite ==
    ASSUME SInv, ~running, NEW r \in Recs, NEW n \in Nat, WriteAll(Cells(r, n)),
           accepted' = accepted \o Cells(r, n), UNCHANGED <<buf, used, pending, ready, length>>
    PROVE  /\ file' \in Seq(Recs \cup {Blank}) /\ accepted' \in Seq(Recs)
           /\ faults' \in Nat /\ faults' >= faults
           /\ Len(file') >= Len(file) /\ Len(accepted') >= Len(accepted)
           /\ StreamIntact'
  <1>0. /\ file \in Seq(Cell) /\ accepted \in Seq(Recs) /\ faults \in Nat
        /\ Len(file) \in Nat /\ Len(accepted) \in Nat
    BY StreamParts DEF SInv, TypeOK
  <1>1. Cells(r, n) \in Seq(Recs) /\ Cells(r, n) \in Seq(Cell) /\ Len(Cells(r, n)) = n
    BY CellsSeq
  <1>2. accepted' \in Seq(Recs) /\ Len(accepted') = Len(accepted) + n
    BY <1>0, <1>1, ConcatProperties
  <1>3. file' \in Seq(Cell) /\ Len(file') >= Len(file) /\ faults' \in Nat /\ faults' >= faults
    <2>1. CASE file' = file \o Cells(r, n) /\ faults' = faults
      BY <1>0, <1>1, <2>1, ConcatProperties
    <2>2. ASSUME faults' = faults + 1, NEW k \in 0..(n - 1),
                 file' = file \o SubSeq(Cells(r, n), 1, k)
          PROVE  /\ file' \in Seq(Cell) /\ Len(file') >= Len(file)
                 /\ faults' \in Nat /\ faults' >= faults
      <3>1. SubSeq(Cells(r, n), 1, k) \in Seq(Cell) /\ Len(SubSeq(Cells(r, n), 1, k)) = k
        BY <1>1
      <3>2. file' \in Seq(Cell) /\ Len(file') = Len(file) + k
        BY <1>0, <2>2, <3>1, ConcatProperties
      <3> QED BY <1>0, <2>2, <3>2
    <2> QED BY <1>1, <2>1, <2>2 DEF WriteAll
  <1>4. ASSUME faults' = 0 PROVE file' \o InFlight' \o SubSeq(buf'[pending'], 1, used') = accepted'
    <2>1. faults = 0 /\ file' = file \o Cells(r, n)
      BY <1>0, <1>4 DEF WriteAll
    <2>2. InFlight' = InFlight /\ SubSeq(buf'[pending'], 1, used') = Filled
      BY DEF InFlight, Filled
    <2>3. InFlight = <<>> /\ Filled = <<>> /\ file = accepted
      BY <2>1, Synchronous, StreamParts
    <2> QED BY <1>2, <2>1, <2>2, <2>3, ConcatEmptySeq
  <1>5. StreamIntact'
    BY <1>4 DEF StreamIntact
  <1> QED BY <1>0, <1>2, <1>3, <1>5 DEF Cell

(* A record, or a chunk of one, placed in the buffer being filled.         *)
LEMMA Placed ==
    ASSUME SInv, running, ~stopping, NEW r \in Recs, NEW n \in Nat, ~NoSpace(n), Place(r, n),
           UNCHANGED <<file, faults, pending, ready, length>>
    PROVE  /\ buf' \in [{0, 1} -> [1..Capacity -> Recs \cup {Blank}]] /\ used' \in 0..Capacity
           /\ accepted' \in Seq(Recs) /\ Len(accepted') >= Len(accepted)
           /\ wpc \notin {"off", "done"} /\ ~(Busy /\ stop)
           /\ StreamIntact'
  <1>0. /\ buf \in [{0, 1} -> [1..Capacity -> Cell]] /\ pending \in {0, 1} /\ ready \in {0, 1}
        /\ used \in 0..Capacity /\ length \in 0..Capacity /\ Capacity \in Nat /\ used \in Nat
        /\ file \in Seq(Cell) /\ accepted \in Seq(Recs) /\ accepted \in Seq(Cell)
        /\ Len(accepted) \in Nat
    BY StreamParts, LogAssumption DEF SInv, TypeOK, Cell
  <1>1. used + n <= Capacity /\ used + n \in 0..Capacity
    BY <1>0 DEF NoSpace
  <1>2. Cells(r, n) \in Seq(Recs) /\ Cells(r, n) \in Seq(Cell) /\ Len(Cells(r, n)) = n
    BY CellsSeq
  <1>3. accepted' \in Seq(Recs) /\ Len(accepted') >= Len(accepted)
    <2>1. accepted' \in Seq(Recs) /\ Len(accepted') = Len(accepted) + n
      BY <1>0, <1>2, ConcatProperties DEF Place
    <2> QED BY <1>0, <2>1
  <1>4. wpc \notin {"off", "done"} /\ ~(Busy /\ stop)
    BY DEF SInv, CInv, LastRequest
  <1>p. PICK p \in {0, 1} : p = pending
    BY <1>0
  <1>b. PICK b \in [1..Capacity -> Cell] : b = buf[p]
    BY <1>0
  <1>u. PICK u \in Nat : u = used
    BY <1>0
  <1>b2. PICK b2 : b2 = PlaceIn(b, u, n, r)
    OBVIOUS
  <1>5. buf' = [buf EXCEPT ![p] = b2]
    BY <1>p, <1>b, <1>b2, <1>u DEF Place, PlaceIn
  <1>6. b2 \in [1..Capacity -> Cell] /\ SubSeq(b2, 1, used + n) = Filled \o Cells(r, n)
    <2>1. u + n <= Capacity
      BY <1>1, <1>u
    <2>2. b2 \in [1..Capacity -> Cell] /\ SubSeq(b2, 1, u + n) = SubSeq(b, 1, u) \o Cells(r, n)
      BY <1>b2, <2>1, PlacedPrefix
    <2> QED BY <1>p, <1>b, <1>u, <2>2 DEF Filled
  <1>7. buf' \in [{0, 1} -> [1..Capacity -> Cell]] /\ buf'[p] = b2
    BY <1>0, <1>5, <1>6
  <1>8. InFlight' = InFlight
    <2>1. CASE length = 0
      <3>1. buf'[ready] \in [1..Capacity -> Cell] /\ buf[ready] \in [1..Capacity -> Cell]
        BY <1>0, <1>7
      <3>2. SubSeq(buf'[ready], 1, 0) = SubSeq(buf[ready], 1, 0)
        BY <1>0, <3>1, SamePrefix
      <3> QED BY <2>1, <3>2 DEF InFlight
    <2>2. CASE length # 0
      <3>1. ready # p
        BY <1>p, <2>2 DEF SInv, BuffersApart
      <3>2. buf'[ready] = buf[ready]
        BY <1>0, <1>5, <3>1
      <3> QED BY <3>2 DEF InFlight
    <2> QED BY <2>1, <2>2
  <1>9. ASSUME faults' = 0 PROVE file' \o InFlight' \o SubSeq(buf'[pending'], 1, used') = accepted'
    <2>1. SubSeq(buf'[pending'], 1, used') = Filled \o Cells(r, n)
      BY <1>6, <1>7, <1>p DEF Place
    <2>2. (file \o InFlight) \o Filled = accepted /\ InFlight \in Seq(Cell) /\ Filled \in Seq(Cell)
      BY <1>9, StreamParts
    <2>3. file \o InFlight \in Seq(Cell)
      BY <1>0, <2>2, ConcatProperties
    <2>4. (file \o InFlight) \o (Filled \o Cells(r, n)) = ((file \o InFlight) \o Filled) \o Cells(r, n)
      <3>1. PICK x \in Seq(Cell) : x = file \o InFlight
        BY <2>3
      <3>2. PICK y \in Seq(Cell) : y = Filled
        BY <2>2
      <3>3. PICK z \in Seq(Cell) : z = Cells(r, n)
        BY <1>2
      <3>4. (x \o y) \o z = x \o (y \o z)
        BY CellsAssociate
      <3> QED BY <3>1, <3>2, <3>3, <3>4
    <2> QED BY <1>8, <2>1, <2>2, <2>4 DEF Place
  <1>10. used' \in 0..Capacity
    BY <1>1 DEF Place
  <1>11. StreamIntact'
    BY <1>9 DEF StreamIntact
  <1> QED BY <1>3, <1>4, <1>7, <1>10, <1>11 DEF Cell

-----------------------------------------------------------------------------
(* What a client's step must be shown to keep, given that it leaves the    *)
(* writer's locals alone and touches the file only when there is no writer *)
(* at work.                                                                *)
LEMMA ClientStep ==
    ASSUME SInv, NEW c \in Clients, CInv', TypeOK',
           UNCHANGED <<pending, completed, reported, writerVars>>,
           running' \in {running, FALSE},
           running => UNCHANGED <<file, durable>>,
           Len(file') >= Len(file), durable' \in {durable, Len(file)},
           Len(accepted') >= Len(accepted), faults' >= faults,
           \E n \in {0, 1} : dropped' = dropped + n /\ dropSum' = dropSum + n,
           StreamIntact', FlushCommits',
           used' # used => wpc \notin {"off", "done"} /\ ~(Busy /\ stop),
           running' # running => wpc \in {"off", "done"},
           cpc'[c] = "unrun" => ~running' \/ wpc = "done",
           cpc'[c] \in {"crit", "critWait"} => crec'[c] # Blank,
           \A d \in Clients \ {c} :
               /\ cpc'[d] = cpc[d] /\ mark'[d] = mark[d]
               /\ target'[d] = target[d] /\ crec'[d] = crec[d],
           cpc'[c] # "flushWait" \/ (faults' = 0 => Covers(c)')
    PROVE  SInv'
  <1>e. /\ pending' = pending /\ completed' = completed /\ reported' = reported
        /\ wpc' = wpc /\ ready' = ready /\ length' = length
        /\ request' = request /\ lost' = lost /\ stop' = stop
    BY DEF writerVars
  <1>s. /\ Len(file) \in Nat /\ Len(accepted) \in Nat /\ length \in Nat
    BY StreamParts
  <1>t. Len(file') \in Nat /\ Len(accepted') \in Nat
    <2>1. file' \in Seq(Recs \cup {Blank}) /\ accepted' \in Seq(Recs)
      BY DEF TypeOK
    <2> QED BY <2>1
  <1>u. /\ durable \in Nat /\ faults \in Nat /\ dropped \in Nat /\ dropSum \in Nat
        /\ lost \in Nat /\ reported \in Nat /\ running \in BOOLEAN /\ wpc \in WriterPC
        /\ completed \in Nat /\ request \in Nat
        /\ mark \in [Clients -> Nat] /\ target \in [Clients -> Nat]
    BY DEF SInv, TypeOK
  <1>v. faults' \in Nat /\ durable' \in Nat /\ dropped' \in Nat /\ dropSum' \in Nat
    BY DEF TypeOK
  <1>w. durable <= Len(file)
    BY DEF SInv
  <1>x. (running' => running) /\ running' \in BOOLEAN
    <2>1. CASE running' = running
      BY <1>u, <2>1, Zenon
    <2>2. CASE running' = FALSE
      BY <2>2, Zenon
    <2> QED BY <2>1, <2>2, Zenon
  <1> USE <1>e
  <1>0. /\ durable \in Nat /\ faults \in Nat /\ faults' \in Nat /\ durable' \in Nat
        /\ Len(file) \in Nat /\ Len(file') \in Nat /\ Len(accepted) \in Nat /\ Len(accepted') \in Nat
        /\ dropped \in Nat /\ dropSum \in Nat /\ dropped' \in Nat /\ dropSum' \in Nat
        /\ lost \in Nat /\ reported \in Nat /\ running \in BOOLEAN /\ wpc \in WriterPC
        /\ length \in Nat /\ durable <= Len(file)
        /\ completed \in Nat /\ request \in Nat
        /\ mark \in [Clients -> Nat] /\ target \in [Clients -> Nat]
    BY <1>s, <1>t, <1>u, <1>v, <1>w
  <1>1. durable' <= Len(file') /\ durable' >= durable
    BY <1>0
  <1>2. WriterRuns'
    <2>1. wpc' \notin {"off", "done"} => running'
      BY DEF SInv, WriterRuns
    <2>2. ASSUME NEW d \in Clients
          PROVE  /\ cpc'[d] = "unrun" => ~running' \/ wpc' = "done"
                 /\ cpc'[d] \in {"crit", "critWait"} => crec'[d] # Blank
      <3>1. CASE d = c
        BY <3>1
      <3>2. CASE d # c
        <4>1. ~running => ~running'
          BY <1>0
        <4> QED BY <3>2, <4>1 DEF SInv, WriterRuns
      <3> QED BY <3>1, <3>2
    <2> QED BY <2>1, <2>2 DEF WriterRuns
  <1>3. BuffersApart'
    BY DEF SInv, BuffersApart, Busy
  <1>4. LossHeld' /\ LossSum'
    <2>1. LossHeld'
      BY DEF SInv, LossHeld
    <2>2. ASSUME faults' = 0 PROVE dropSum' = dropped' + lost' + reported'
      <3>1. faults = 0
        BY <1>0, <2>2
      <3>2. dropSum = dropped + lost + reported
        BY <3>1 DEF SInv, LossSum
      <3>3. PICK n \in {0, 1} : dropped' = dropped + n /\ dropSum' = dropSum + n
        OBVIOUS
      <3> QED BY <1>0, <3>2, <3>3
    <2> QED BY <2>1, <2>2 DEF LossSum
  <1>5. ASSUME faults' = 0 PROVE LastCommit' /\ \A d \in Clients : Covers(d)'
    <2>0. faults = 0
      BY <1>0, <1>5
    <2>1. LastCommit'
      <3>1. ASSUME wpc = "complete" \/ (wpc = "done" /\ running') PROVE running
        BY <1>x, <3>1 DEF SInv, WriterRuns
      <3>2. LastCommit
        BY <2>0 DEF SInv
      <3>3. CASE running
        BY <1>0, <3>2, <3>3 DEF LastCommit
      <3>4. CASE ~running
        BY <3>1, <3>4 DEF LastCommit
      <3> QED BY <3>3, <3>4
    <2>2. ASSUME NEW d \in Clients PROVE Covers(d)'
      <3>1. CASE d = c
        BY <1>5, <3>1 DEF Covers
      <3>2. CASE d # c
        <4>1. Covers(d)
          BY <2>0 DEF SInv
        <4>2. cpc'[d] = cpc[d] /\ mark'[d] = mark[d] /\ target'[d] = target[d]
          BY <3>2
        <4>3. mark[d] \in Nat /\ target[d] \in Nat
          BY <1>0
        <4>0. \A m, x, y \in Nat : m <= x /\ y >= x => m <= y
          OBVIOUS
        <4>4. mark[d] <= Len(accepted) => mark[d] <= Len(accepted')
          BY <1>0, <4>0, <4>3, Zenon
        <4>5. mark[d] <= Len(file) + length => mark[d] <= Len(file') + length
          <5>1. Len(file) + length \in Nat /\ Len(file') + length \in Nat
            BY <1>0
          <5>2. Len(file') + length >= Len(file) + length
            BY <1>0
          <5> QED BY <4>0, <4>3, <5>1, <5>2, Zenon
        <4>6. mark[d] <= durable => mark[d] <= durable'
          BY <1>0, <1>1, <4>3
        <4> QED BY <4>1, <4>2, <4>4, <4>5, <4>6 DEF Covers, Busy
      <3> QED BY <3>1, <3>2
    <2> QED BY <2>1, <2>2
  <1> QED BY <1>1, <1>2, <1>3, <1>4, <1>5 DEF SInv

(* Neither the stream nor what a flush promised changes.                   *)
LEMMA SameStream ==
    ASSUME SInv, UNCHANGED <<file, buf, used, pending, ready, length, accepted>>,
           faults' \in Nat, faults' >= faults
    PROVE  StreamIntact'
  <1>1. faults' = 0 => faults = 0
    BY DEF SInv, TypeOK
  <1>2. InFlight' = InFlight
    BY DEF InFlight
  <1> QED BY <1>1, <1>2 DEF SInv, StreamIntact

(* The types a client's step can disturb; the rest are the writer's.       *)
ClientTypes ==
    /\ buf \in [{0, 1} -> [1..Capacity -> Recs \cup {Blank}]]
    /\ used \in 0..Capacity
    /\ running \in BOOLEAN /\ stopping \in BOOLEAN /\ requested \in Nat
    /\ dropped \in Nat /\ dropSum \in Nat
    /\ file \in Seq(Recs \cup {Blank}) /\ durable \in Nat /\ faults \in Nat
    /\ cpc \in [Clients -> ClientPC] /\ after \in [Clients -> {"idle", "stop"}]
    /\ target \in [Clients -> Nat] /\ left \in [Clients -> Nat]
    /\ crec \in [Clients -> Recs \cup {Blank}]
    /\ accepted \in Seq(Recs) /\ mark \in [Clients -> Nat] /\ promise \in Nat
    /\ lossMark \in [Clients -> Nat] /\ lossPromise \in Nat
    /\ cut \in SUBSET Recs /\ unused \in SUBSET Recs

LEMMA ClientTypeOK ==
    ASSUME SInv, ClientTypes', UNCHANGED <<pending, completed, reported, writerVars>>
    PROVE  TypeOK'
  <1>1. /\ pending' = pending /\ completed' = completed /\ reported' = reported
        /\ wpc' = wpc /\ ready' = ready /\ length' = length
        /\ request' = request /\ lost' = lost /\ stop' = stop
    BY DEF writerVars
  <1> QED BY <1>1 DEF SInv, TypeOK, ClientTypes

LEMMA TypesNow == SInv => ClientTypes
  BY DEF SInv, TypeOK, ClientTypes

LEMMA LogWriteSInv ==
    ASSUME SInv, CInv', NEW c \in Clients, NEW r \in Recs, LogWrite(c, r)
    PROVE  SInv'
  <1> DEFINE n == Size[r]
  <1>0. n \in Nat /\ ClientTypes
    BY TypesNow, LogAssumption
  <1>1. /\ pending' = pending /\ ready' = ready /\ length' = length
        /\ completed' = completed /\ reported' = reported /\ UNCHANGED writerVars
        /\ running' = running /\ durable' = durable
        /\ cpc' = cpc /\ mark' = mark /\ target' = target /\ crec' = crec /\ promise' = promise
        /\ stopping' = stopping /\ requested' = requested /\ after' = after /\ left' = left
        /\ lossMark' = lossMark /\ lossPromise' = lossPromise /\ cut' = cut
        /\ unused' \in SUBSET unused /\ cpc[c] = "idle"
    BY DEF LogWrite, writerVars, clientVars
  <1>2. /\ buf' \in [{0, 1} -> [1..Capacity -> Recs \cup {Blank}]] /\ used' \in 0..Capacity
        /\ file' \in Seq(Recs \cup {Blank}) /\ accepted' \in Seq(Recs)
        /\ faults' \in Nat /\ faults' >= faults
        /\ Len(file') >= Len(file) /\ Len(accepted') >= Len(accepted)
        /\ running => file' = file
        /\ \E k \in {0, 1} : dropped' = dropped + k /\ dropSum' = dropSum + k
        /\ used' # used => wpc \notin {"off", "done"} /\ ~(Busy /\ stop)
        /\ StreamIntact'
    <2>0. Len(file) \in Nat /\ Len(accepted) \in Nat
      BY StreamParts
    <2>1. CASE ~running /\ WriteAll(Cells(r, n)) /\ accepted' = accepted \o Cells(r, n)
               /\ UNCHANGED <<buf, used, dropped, dropSum>>
      <3>1. dropped' = dropped + 0 /\ dropSum' = dropSum + 0
        BY <1>0, <2>1 DEF ClientTypes
      <3>2. /\ file' \in Seq(Recs \cup {Blank}) /\ accepted' \in Seq(Recs)
            /\ faults' \in Nat /\ faults' >= faults
            /\ Len(file') >= Len(file) /\ Len(accepted') >= Len(accepted)
            /\ StreamIntact'
        BY <1>0, <1>1, <2>1, SyncWrite
      <3>3. buf' = buf /\ used' = used /\ ~running
        BY <2>1
      <3> QED BY <1>0, <3>1, <3>2, <3>3 DEF ClientTypes
    <2>2. CASE running /\ dropped' = dropped + 1 /\ dropSum' = dropSum + 1
               /\ UNCHANGED <<buf, used, file, faults, accepted>>
      <3>1. StreamIntact'
        BY <1>0, <1>1, <2>2, SameStream DEF ClientTypes
      <3> QED BY <1>0, <2>0, <2>2, <3>1 DEF ClientTypes
    <2>3. CASE running /\ ~stopping /\ ~NoSpace(n) /\ Place(r, n)
               /\ UNCHANGED <<file, faults, dropped, dropSum>>
      BY <1>0, <1>1, <2>0, <2>3, Placed DEF ClientTypes
    <2> QED BY <2>1, <2>2, <2>3 DEF LogWrite
  <1>3. ClientTypes'
    <2>1. dropped' \in Nat /\ dropSum' \in Nat
      BY <1>0, <1>2 DEF ClientTypes
    <2>2. /\ cpc' \in [Clients -> ClientPC] /\ after' \in [Clients -> {"idle", "stop"}]
          /\ target' \in [Clients -> Nat] /\ left' \in [Clients -> Nat]
          /\ crec' \in [Clients -> Recs \cup {Blank}] /\ mark' \in [Clients -> Nat]
          /\ promise' \in Nat /\ cut' \in SUBSET Recs /\ unused' \in SUBSET Recs
          /\ lossMark' \in [Clients -> Nat] /\ lossPromise' \in Nat
          /\ running' \in BOOLEAN /\ stopping' \in BOOLEAN /\ requested' \in Nat
          /\ durable' \in Nat
      BY <1>0, <1>1 DEF ClientTypes
    <2> QED BY <1>2, <2>1, <2>2 DEF ClientTypes
  <1>4. TypeOK'
    BY <1>1, <1>3, ClientTypeOK
  <1>5. FlushCommits'
    BY <1>0, <1>1, <1>2 DEF SInv, FlushCommits, ClientTypes
  <1> QED BY <1>1, <1>2, <1>4, <1>5, ClientStep

(* A client's step that neither stores nor drops anything.                 *)
LEMMA QuietStep ==
    ASSUME SInv, CInv', NEW c \in Clients, ClientTypes',
           UNCHANGED <<buf, used, pending, completed, reported, dropped, dropSum, file, accepted>>,
           UNCHANGED writerVars,
           running' = running \/ (running' = FALSE /\ wpc \in {"off", "done"}),
           durable' = durable \/ (durable' = Len(file) /\ ~running),
           faults' >= faults, FlushCommits',
           cpc'[c] = "unrun" => ~running' \/ wpc = "done",
           cpc'[c] \in {"crit", "critWait"} => crec'[c] # Blank,
           \A d \in Clients \ {c} :
               /\ cpc'[d] = cpc[d] /\ mark'[d] = mark[d]
               /\ target'[d] = target[d] /\ crec'[d] = crec[d],
           cpc'[c] # "flushWait" \/ (faults' = 0 => Covers(c)')
    PROVE  SInv'
  <1>0. ClientTypes /\ Len(file) \in Nat /\ Len(accepted) \in Nat
    BY TypesNow, StreamParts
  <1>1. TypeOK'
    BY ClientTypeOK
  <1>2. StreamIntact'
    <2>1. ready' = ready /\ length' = length
      BY DEF writerVars
    <2>2. faults' \in Nat
      BY DEF ClientTypes
    <2> QED BY <2>1, <2>2, SameStream
  <1>3. /\ UNCHANGED <<pending, completed, reported, writerVars>>
        /\ running' \in {running, FALSE}
    OBVIOUS
  <1>4. running => UNCHANGED <<file, durable>>
    OBVIOUS
  <1>5. /\ Len(file') >= Len(file) /\ durable' \in {durable, Len(file)}
        /\ Len(accepted') >= Len(accepted)
    BY <1>0
  <1>6. \E n \in {0, 1} : dropped' = dropped + n /\ dropSum' = dropSum + n
    <2>1. dropped' = dropped + 0 /\ dropSum' = dropSum + 0
      BY <1>0 DEF ClientTypes
    <2> QED BY <2>1
  <1>7. /\ used' # used => wpc \notin {"off", "done"} /\ ~(Busy /\ stop)
        /\ running' # running => wpc \in {"off", "done"}
    OBVIOUS
  <1> QED BY <1>1, <1>2, <1>3, <1>4, <1>5, <1>6, <1>7, ClientStep

(* A flush that returns, by any way but waiting.                           *)
LEMMA FlushDoneTypes ==
    ASSUME SInv, NEW c \in Clients, FlushDone(c)
    PROVE  /\ cpc' = [cpc EXCEPT ![c] = after[c]] /\ cpc'[c] \in {"idle", "stop"}
           /\ cpc' \in [Clients -> ClientPC] /\ after' \in [Clients -> {"idle", "stop"}]
           /\ target' \in [Clients -> Nat] /\ mark' \in [Clients -> Nat]
           /\ crec' \in [Clients -> Recs \cup {Blank}] /\ lossMark' \in [Clients -> Nat]
           /\ \A d \in Clients \ {c} :
                 /\ cpc'[d] = cpc[d] /\ mark'[d] = mark[d]
                 /\ target'[d] = target[d] /\ crec'[d] = crec[d]
  <1>0. ClientTypes
    BY TypesNow
  <1>1. /\ cpc' = [cpc EXCEPT ![c] = after[c]] /\ target' = [target EXCEPT ![c] = 0]
        /\ mark' = [mark EXCEPT ![c] = 0] /\ after' = [after EXCEPT ![c] = "idle"]
        /\ crec' = [crec EXCEPT ![c] = Blank]
        /\ lossMark' = [lossMark EXCEPT ![c] = 0]
    BY DEF FlushDone
  <1>2. after[c] \in {"idle", "stop"} /\ crec[c] \in Recs \cup {Blank}
    BY <1>0 DEF ClientTypes
  <1> QED BY <1>0, <1>1, <1>2 DEF ClientTypes, ClientPC

LEMMA LogFlushSInv ==
    ASSUME SInv, CInv', NEW c \in Clients, LogFlush(c)
    PROVE  SInv'
  <1>0. ClientTypes /\ Len(file) \in Nat /\ Len(accepted) \in Nat /\ length \in Nat
    BY TypesNow, StreamParts
  <1>1. /\ pending' = pending /\ completed' = completed /\ reported' = reported
        /\ UNCHANGED writerVars /\ ready' = ready /\ length' = length
        /\ running' = running /\ buf' = buf /\ used' = used /\ file' = file
        /\ dropped' = dropped /\ dropSum' = dropSum /\ accepted' = accepted
        /\ stopping' = stopping /\ left' = left /\ unused' = unused
        /\ cut' = cut /\ lossPromise' = lossPromise
    BY DEF LogFlush, bufVars, writerVars
  <1>3. CASE running /\ Ask(c, "flushWait") /\ mark' = [mark EXCEPT ![c] = Len(accepted)]
             /\ lossMark' = [lossMark EXCEPT ![c] = dropSum]
             /\ UNCHANGED <<durable, faults, promise, after, crec>>
    <2>1. /\ requested' = requested + 1 /\ target' = [target EXCEPT ![c] = requested + 1]
          /\ cpc' = [cpc EXCEPT ![c] = "flushWait"]
      BY <1>3 DEF Ask
    <2>2. ClientTypes'
      <3>1. /\ requested' \in Nat /\ target' \in [Clients -> Nat]
            /\ cpc' \in [Clients -> ClientPC] /\ mark' \in [Clients -> Nat]
            /\ lossMark' \in [Clients -> Nat]
        BY <1>0, <1>3, <2>1 DEF ClientTypes, ClientPC
      <3> QED BY <1>0, <1>1, <1>3, <3>1 DEF ClientTypes
    <2>5. FlushCommits'
      BY <1>3 DEF SInv, FlushCommits
    <2>6. cpc'[c] = "flushWait" /\ mark'[c] = Len(accepted) /\ target'[c] = requested + 1
      BY <1>0, <1>3, <2>1 DEF ClientTypes
    <2>7. faults' = 0 => Covers(c)'
      <3>1. completed <= requested /\ (Busy => request <= requested)
        BY DEF SInv, CInv, CountersOrdered
      <3>2. /\ completed \in Nat /\ request \in Nat /\ requested \in Nat
        BY DEF SInv, TypeOK
      <3>3. ~(requested + 1 <= completed) /\ ~(Busy /\ requested + 1 <= request)
        BY <3>1, <3>2
      <3>4. Busy' <=> Busy
        BY <1>1 DEF Busy, writerVars
      <3>5. request' = request /\ completed' = completed /\ wpc' = wpc
        BY <1>1 DEF writerVars
      <3>6. ~(target'[c] <= completed') /\ ~(Busy' /\ target'[c] <= request')
        BY <2>6, <3>3, <3>4, <3>5
      <3>7. mark'[c] <= Len(accepted')
        BY <1>0, <1>1, <2>6
      <3> QED BY <3>6, <3>7 DEF Covers, Busy
    <2>8. \A d \in Clients \ {c} :
             /\ cpc'[d] = cpc[d] /\ mark'[d] = mark[d]
             /\ target'[d] = target[d] /\ crec'[d] = crec[d]
      BY <1>0, <1>3, <2>1 DEF ClientTypes
    <2>9. cpc'[c] \notin {"unrun", "crit", "critWait"}
      BY <2>6
    <2>10. faults' >= faults /\ durable' = durable
      BY <1>0, <1>3 DEF ClientTypes
    <2> QED BY <1>1, <2>2, <2>5, <2>7, <2>8, <2>9, <2>10, QuietStep
  <1>4. CASE ~running /\ Fsync /\ promise' = Len(accepted) /\ FlushDone(c)
             /\ UNCHANGED requested
    <2>1. /\ durable' \in {durable, Len(file)} /\ faults' \in Nat /\ faults' >= faults
          /\ durable' \in Nat /\ (faults' = 0 => faults = 0 /\ durable' = Len(file))
      BY <1>0, <1>4 DEF Fsync, ClientTypes
    <2>2. ClientTypes'
      BY <1>0, <1>1, <1>4, <2>1, FlushDoneTypes DEF ClientTypes
    <2>5. FlushCommits'
      <3>1. faults = 0 => file = accepted
        BY <1>4, Synchronous
      <3>2. faults' = 0 => durable' = Len(file) /\ file = accepted
        BY <2>1, <3>1
      <3> QED BY <1>0, <1>4, <3>2 DEF FlushCommits
    <2>6. /\ cpc'[c] \notin {"unrun", "crit", "critWait", "flushWait"}
          /\ \A d \in Clients \ {c} :
                /\ cpc'[d] = cpc[d] /\ mark'[d] = mark[d]
                /\ target'[d] = target[d] /\ crec'[d] = crec[d]
      BY <1>4, FlushDoneTypes
    <2> QED BY <1>1, <1>4, <2>1, <2>2, <2>5, <2>6, QuietStep
  <1>5. CASE running /\ stopping /\ FlushDone(c)
             /\ UNCHANGED <<requested, durable, faults, promise>>
    <2>2. ClientTypes'
      BY <1>0, <1>1, <1>5, FlushDoneTypes DEF ClientTypes
    <2>5. FlushCommits'
      BY <1>5 DEF SInv, FlushCommits
    <2>6. /\ cpc'[c] \notin {"unrun", "crit", "critWait", "flushWait"}
          /\ \A d \in Clients \ {c} :
                /\ cpc'[d] = cpc[d] /\ mark'[d] = mark[d]
                /\ target'[d] = target[d] /\ crec'[d] = crec[d]
      BY <1>5, FlushDoneTypes
    <2>7. faults' >= faults
      BY <1>0, <1>5 DEF ClientTypes
    <2> QED BY <1>1, <1>5, <2>2, <2>5, <2>6, <2>7, QuietStep
  <1> QED BY <1>3, <1>4, <1>5 DEF LogFlush

LEMMA FlushReturnSInv ==
    ASSUME SInv, CInv', NEW c \in Clients, FlushReturn(c)
    PROVE  SInv'
  <1>0. ClientTypes /\ Len(file) \in Nat /\ Len(accepted) \in Nat
    BY TypesNow, StreamParts
  <1>1. /\ pending' = pending /\ completed' = completed /\ reported' = reported
        /\ UNCHANGED writerVars /\ ready' = ready /\ length' = length
        /\ running' = running /\ buf' = buf /\ used' = used /\ file' = file
        /\ dropped' = dropped /\ dropSum' = dropSum /\ accepted' = accepted
        /\ stopping' = stopping /\ left' = left /\ unused' = unused
        /\ durable' = durable /\ faults' = faults /\ requested' = requested /\ cut' = cut
    BY DEF FlushReturn, bufVars, writerVars, fileVars
  <1>3. /\ cpc[c] = "flushWait" /\ target[c] <= completed
        /\ FlushDone(c) /\ promise' = Larger(promise, mark[c])
        /\ lossPromise' = Larger(lossPromise, lossMark[c])
    BY DEF FlushReturn, SInv, TypeOK
  <1>4. /\ mark[c] \in Nat /\ promise' \in {promise, mark[c]}
        /\ lossMark[c] \in Nat /\ lossPromise' \in {lossPromise, lossMark[c]}
    BY <1>0, <1>3 DEF ClientTypes, Larger
  <1>5. ClientTypes'
    BY <1>0, <1>1, <1>3, <1>4, FlushDoneTypes DEF ClientTypes
  <1>8. FlushCommits'
    <2>1. faults = 0 => durable >= promise
      BY DEF SInv, FlushCommits
    <2>2. faults = 0 => mark[c] <= durable
      BY <1>3 DEF SInv, Covers
    <2> QED BY <1>0, <1>1, <1>4, <2>1, <2>2 DEF FlushCommits, ClientTypes
  <1>9. /\ cpc'[c] \notin {"unrun", "crit", "critWait", "flushWait"}
        /\ \A d \in Clients \ {c} :
              /\ cpc'[d] = cpc[d] /\ mark'[d] = mark[d]
              /\ target'[d] = target[d] /\ crec'[d] = crec[d]
    BY <1>3, FlushDoneTypes
  <1>10. faults' >= faults
    BY <1>0, <1>1 DEF ClientTypes
  <1> QED BY <1>1, <1>5, <1>8, <1>9, <1>10, QuietStep

(* A client's step that only moves its own locals.                         *)
LEMMA LocalStep ==
    ASSUME SInv, CInv', NEW c \in Clients, ClientTypes',
           UNCHANGED <<buf, used, pending, completed, reported, dropped, dropSum, file, accepted,
                       durable, faults, promise>>,
           UNCHANGED writerVars,
           running' = running \/ (running' = FALSE /\ wpc \in {"off", "done"}),
           cpc'[c] = "unrun" => ~running' \/ wpc = "done",
           cpc'[c] \in {"crit", "critWait"} => crec'[c] # Blank,
           \A d \in Clients \ {c} :
               /\ cpc'[d] = cpc[d] /\ mark'[d] = mark[d]
               /\ target'[d] = target[d] /\ crec'[d] = crec[d],
           cpc'[c] # "flushWait"
    PROVE  SInv'
  <1>1. faults' >= faults
    BY DEF SInv, TypeOK
  <1>2. FlushCommits'
    BY DEF SInv, FlushCommits
  <1> QED BY <1>1, <1>2, QuietStep

LEMMA CriticalSInv ==
    ASSUME SInv, CInv', NEW c \in Clients,
           \/ \E r \in Recs : CriticalStart(c, r)
           \/ CriticalWait(c) \/ CriticalWake(c)
    PROVE  SInv'
  <1>0. ClientTypes
    BY TypesNow
  <1>c. cpc[c] \in {"crit", "critWait"} => crec[c] # Blank
    BY DEF SInv, WriterRuns
  <1>1. ASSUME NEW r \in Recs, CriticalStart(c, r) PROVE SInv'
    <2>1. /\ cpc' = [cpc EXCEPT ![c] = "crit"] /\ crec' = [crec EXCEPT ![c] = r]
          /\ left' = [left EXCEPT ![c] = Size[r]] /\ unused' = unused \ {r}
          /\ buf' = buf /\ used' = used /\ pending' = pending /\ completed' = completed
          /\ reported' = reported /\ dropped' = dropped /\ dropSum' = dropSum /\ file' = file
          /\ accepted' = accepted /\ durable' = durable /\ faults' = faults /\ promise' = promise
          /\ running' = running /\ stopping' = stopping /\ requested' = requested
          /\ after' = after /\ target' = target /\ mark' = mark /\ cut' = cut
          /\ lossMark' = lossMark /\ lossPromise' = lossPromise
          /\ UNCHANGED writerVars
      BY <1>1 DEF CriticalStart, bufVars, fileVars, lossVars
    <2>2. ClientTypes'
      <3>1. Size[r] \in Nat
        BY LogAssumption
      <3> QED BY <1>0, <2>1, <3>1 DEF ClientTypes, ClientPC
    <2>3. cpc'[c] = "crit" /\ crec'[c] # Blank
      BY <1>0, <2>1, LogAssumption DEF ClientTypes
    <2>4. \A d \in Clients \ {c} :
             /\ cpc'[d] = cpc[d] /\ mark'[d] = mark[d]
             /\ target'[d] = target[d] /\ crec'[d] = crec[d]
      BY <1>0, <2>1 DEF ClientTypes
    <2> QED BY <2>1, <2>2, <2>3, <2>4, LocalStep
  <1>2. CASE CriticalWait(c)
    <2>1. /\ cpc' = [cpc EXCEPT ![c] = "critWait"] /\ requested' = requested + 1
          /\ target' = [target EXCEPT ![c] = requested + 1] /\ cpc[c] = "crit"
          /\ buf' = buf /\ used' = used /\ pending' = pending /\ completed' = completed
          /\ reported' = reported /\ dropped' = dropped /\ dropSum' = dropSum /\ file' = file
          /\ accepted' = accepted /\ durable' = durable /\ faults' = faults /\ promise' = promise
          /\ running' = running /\ stopping' = stopping /\ left' = left /\ unused' = unused
          /\ after' = after /\ crec' = crec /\ mark' = mark /\ cut' = cut
          /\ lossMark' = lossMark /\ lossPromise' = lossPromise
          /\ UNCHANGED writerVars
      BY <1>2 DEF CriticalWait, Ask, bufVars, fileVars, obsVars, lossVars
    <2>2. ClientTypes'
      BY <1>0, <2>1 DEF ClientTypes, ClientPC
    <2>3. cpc'[c] = "critWait" /\ crec'[c] # Blank
      BY <1>0, <1>c, <2>1 DEF ClientTypes
    <2>4. \A d \in Clients \ {c} :
             /\ cpc'[d] = cpc[d] /\ mark'[d] = mark[d]
             /\ target'[d] = target[d] /\ crec'[d] = crec[d]
      BY <1>0, <2>1 DEF ClientTypes
    <2> QED BY <2>1, <2>2, <2>3, <2>4, LocalStep
  <1>3. CASE CriticalWake(c)
    <2>1. /\ cpc' = [cpc EXCEPT ![c] = "crit"] /\ requested' = requested
          /\ target' = [target EXCEPT ![c] = 0] /\ cpc[c] = "critWait"
          /\ buf' = buf /\ used' = used /\ pending' = pending /\ completed' = completed
          /\ reported' = reported /\ dropped' = dropped /\ dropSum' = dropSum /\ file' = file
          /\ accepted' = accepted /\ durable' = durable /\ faults' = faults /\ promise' = promise
          /\ running' = running /\ stopping' = stopping /\ left' = left /\ unused' = unused
          /\ after' = after /\ crec' = crec /\ mark' = mark /\ cut' = cut
          /\ lossMark' = lossMark /\ lossPromise' = lossPromise
          /\ UNCHANGED writerVars
      BY <1>3 DEF CriticalWake, bufVars, fileVars, obsVars, lossVars
    <2>2. ClientTypes'
      BY <1>0, <2>1 DEF ClientTypes, ClientPC
    <2>3. cpc'[c] = "crit" /\ crec'[c] # Blank
      BY <1>0, <1>c, <2>1 DEF ClientTypes
    <2>4. \A d \in Clients \ {c} :
             /\ cpc'[d] = cpc[d] /\ mark'[d] = mark[d]
             /\ target'[d] = target[d] /\ crec'[d] = crec[d]
      BY <1>0, <2>1 DEF ClientTypes
    <2> QED BY <2>1, <2>2, <2>3, <2>4, LocalStep
  <1> QED BY <1>1, <1>2, <1>3

LEMMA CriticalChunkSInv ==
    ASSUME SInv, CInv', NEW c \in Clients, CriticalChunk(c)
    PROVE  SInv'
  <1>0. ClientTypes /\ Capacity \in Nat /\ Len(file) \in Nat /\ Len(accepted) \in Nat
    BY TypesNow, StreamParts, LogAssumption
  <1>n. PICK n : n = Smaller(left[c], Capacity)
    OBVIOUS
  <1>r. PICK r : r = crec[c]
    OBVIOUS
  <1>1. n \in Nat /\ left[c] \in Nat /\ left[c] - n \in Nat
    BY <1>0, <1>n DEF Smaller, ClientTypes
  <1>2. cpc[c] = "crit" /\ r \in Recs /\ r # Blank
    BY <1>0, <1>r DEF CriticalChunk, SInv, WriterRuns, ClientTypes
  <1>3. /\ pending' = pending /\ completed' = completed /\ reported' = reported
        /\ UNCHANGED writerVars /\ ready' = ready /\ length' = length
        /\ running' = running /\ dropped' = dropped /\ dropSum' = dropSum
        /\ stopping' = stopping /\ unused' = unused /\ cut' \in {cut, cut \cup {r}}
        /\ lossMark' = lossMark /\ lossPromise' = lossPromise
        /\ durable' = durable /\ requested' = requested /\ promise' = promise
        /\ target' = target /\ mark' = mark /\ crec' = crec /\ after' = after
        /\ left' = [left EXCEPT ![c] = @ - n]
        /\ \E pc \in {"flush", "crit"} : cpc' = [cpc EXCEPT ![c] = pc]
    BY <1>n, <1>r DEF CriticalChunk, writerVars, lossVars
  <1>4. /\ buf' \in [{0, 1} -> [1..Capacity -> Recs \cup {Blank}]] /\ used' \in 0..Capacity
        /\ file' \in Seq(Recs \cup {Blank}) /\ accepted' \in Seq(Recs)
        /\ faults' \in Nat /\ faults' >= faults
        /\ Len(file') >= Len(file) /\ Len(accepted') >= Len(accepted)
        /\ running => file' = file
        /\ used' # used => wpc \notin {"off", "done"} /\ ~(Busy /\ stop)
        /\ StreamIntact'
    <2>1. CASE ~running /\ WriteAll(Cells(r, n)) /\ accepted' = accepted \o Cells(r, n)
               /\ UNCHANGED <<buf, used>>
      <3>1. /\ file' \in Seq(Recs \cup {Blank}) /\ accepted' \in Seq(Recs)
            /\ faults' \in Nat /\ faults' >= faults
            /\ Len(file') >= Len(file) /\ Len(accepted') >= Len(accepted)
            /\ StreamIntact'
        BY <1>1, <1>2, <1>3, <2>1, SyncWrite
      <3> QED BY <1>0, <2>1, <3>1 DEF ClientTypes
    <2>2. CASE running /\ ~stopping /\ ~NoSpace(n) /\ Place(r, n) /\ UNCHANGED <<file, faults>>
      <3>1. /\ buf' \in [{0, 1} -> [1..Capacity -> Recs \cup {Blank}]] /\ used' \in 0..Capacity
            /\ accepted' \in Seq(Recs) /\ Len(accepted') >= Len(accepted)
            /\ wpc \notin {"off", "done"} /\ ~(Busy /\ stop)
            /\ StreamIntact'
        BY <1>1, <1>2, <1>3, <2>2, Placed
      <3> QED BY <1>0, <2>2, <3>1 DEF ClientTypes
    <2>3. CASE UNCHANGED <<buf, used, file, faults, accepted>>
      <3>1. StreamIntact'
        BY <1>0, <1>3, <2>3, SameStream DEF ClientTypes
      <3> QED BY <1>0, <2>3, <3>1 DEF ClientTypes
    <2> QED BY <1>n, <1>r, <2>1, <2>2, <2>3 DEF CriticalChunk
  <1>5. ClientTypes'
    <2>1. cpc' \in [Clients -> ClientPC] /\ left' \in [Clients -> Nat]
      BY <1>0, <1>1, <1>3 DEF ClientTypes, ClientPC
    <2>2. /\ after' \in [Clients -> {"idle", "stop"}] /\ target' \in [Clients -> Nat]
          /\ crec' \in [Clients -> Recs \cup {Blank}] /\ mark' \in [Clients -> Nat]
          /\ promise' \in Nat /\ cut' \in SUBSET Recs /\ unused' \in SUBSET Recs
          /\ lossMark' \in [Clients -> Nat] /\ lossPromise' \in Nat
          /\ running' \in BOOLEAN /\ stopping' \in BOOLEAN /\ requested' \in Nat
          /\ durable' \in Nat /\ dropped' \in Nat /\ dropSum' \in Nat
      BY <1>0, <1>2, <1>3 DEF ClientTypes
    <2> QED BY <1>4, <2>1, <2>2 DEF ClientTypes
  <1>6. TypeOK'
    BY <1>3, <1>5, ClientTypeOK
  <1>7. FlushCommits'
    BY <1>0, <1>3, <1>4 DEF SInv, FlushCommits, ClientTypes
  <1>8. \E k \in {0, 1} : dropped' = dropped + k /\ dropSum' = dropSum + k
    <2>1. dropped' = dropped + 0 /\ dropSum' = dropSum + 0
      BY <1>0, <1>3 DEF ClientTypes
    <2> QED BY <2>1
  <1>9. /\ cpc'[c] \notin {"unrun", "flushWait"} /\ crec'[c] # Blank
        /\ \A d \in Clients \ {c} :
              /\ cpc'[d] = cpc[d] /\ mark'[d] = mark[d]
              /\ target'[d] = target[d] /\ crec'[d] = crec[d]
    BY <1>0, <1>2, <1>3, <1>r DEF ClientTypes
  <1>10. /\ running' \in {running, FALSE} /\ (running => UNCHANGED <<file, durable>>)
         /\ durable' \in {durable, Len(file)}
         /\ (running' # running => wpc \in {"off", "done"})
    BY <1>3, <1>4
  <1> QED BY <1>3, <1>4, <1>6, <1>7, <1>8, <1>9, <1>10, ClientStep

LEMMA ShutdownSInv ==
    ASSUME SInv, CInv', NEW c \in Clients,
           ShutdownStart(c) \/ ShutdownStop(c) \/ ShutdownJoin(c) \/ ShutdownEnd(c)
    PROVE  SInv'
  <1>0. ClientTypes /\ wpc \in WriterPC
    BY TypesNow DEF SInv, TypeOK
  <1>1. /\ buf' = buf /\ used' = used /\ pending' = pending /\ completed' = completed
        /\ reported' = reported /\ dropped' = dropped /\ dropSum' = dropSum /\ file' = file
        /\ accepted' = accepted /\ durable' = durable /\ faults' = faults /\ promise' = promise
        /\ requested' = requested /\ left' = left /\ unused' = unused /\ target' = target
        /\ crec' = crec /\ mark' = mark /\ cut' = cut /\ UNCHANGED writerVars
    BY DEF ShutdownStart, ShutdownStop, ShutdownJoin, ShutdownEnd, bufVars, fileVars, obsVars, lossVars
  <1>2. /\ \E pc \in {"flush", "join", "unrun", "gone"} : cpc' = [cpc EXCEPT ![c] = pc]
        /\ after' \in [Clients -> {"idle", "stop"}] /\ stopping' \in BOOLEAN
    BY <1>0 DEF ShutdownStart, ShutdownStop, ShutdownJoin, ShutdownEnd, ClientTypes
  <1>l. lossMark' \in [Clients -> Nat] /\ lossPromise' \in Nat
    <2>1. lossMark[c] \in Nat /\ dropSum \in Nat /\ lossPromise \in Nat
      BY <1>0 DEF ClientTypes
    <2>2. /\ \/ lossMark' = lossMark
             \/ \E n \in Nat : lossMark' = [lossMark EXCEPT ![c] = n]
          /\ lossPromise' \in {lossPromise, lossMark[c]}
      BY <2>1 DEF ShutdownStart, ShutdownStop, ShutdownJoin, ShutdownEnd, obsVars, lossVars, Larger
    <2> QED BY <1>0, <2>1, <2>2 DEF ClientTypes
  <1>3. /\ running' = running \/ (running' = FALSE /\ wpc \in {"off", "done"})
        /\ cpc'[c] = "unrun" => ~running' \/ wpc = "done"
    <2>1. CASE ShutdownStart(c) \/ ShutdownJoin(c)
      BY <1>0, <2>1 DEF ShutdownStart, ShutdownJoin, ClientTypes
    <2>2. CASE ShutdownStop(c)
      BY <1>0, <2>2 DEF ShutdownStop, ClientTypes
    <2>3. CASE ShutdownEnd(c)
      <3>1. ~running \/ wpc = "done"
        BY <2>3 DEF ShutdownEnd, SInv, WriterRuns
      <3>2. wpc \in {"off", "done"}
        BY <3>1 DEF SInv, WriterRuns
      <3>3. cpc'[c] = "gone" /\ running' = FALSE
        BY <1>0, <2>3 DEF ShutdownEnd, ClientTypes
      <3> QED BY <3>2, <3>3
    <2> QED BY <2>1, <2>2, <2>3
  <1>4. ClientTypes'
    <2>1. running' \in BOOLEAN
      BY <1>0, <1>3 DEF ClientTypes
    <2>2. cpc' \in [Clients -> ClientPC]
      BY <1>0, <1>2 DEF ClientTypes, ClientPC
    <2> QED BY <1>0, <1>1, <1>2, <1>l, <2>1, <2>2 DEF ClientTypes
  <1>5. /\ cpc'[c] \notin {"crit", "critWait", "flushWait"}
        /\ \A d \in Clients \ {c} :
              /\ cpc'[d] = cpc[d] /\ mark'[d] = mark[d]
              /\ target'[d] = target[d] /\ crec'[d] = crec[d]
    BY <1>0, <1>1, <1>2 DEF ClientTypes
  <1> QED BY <1>1, <1>3, <1>4, <1>5, LocalStep

LEMMA ClientSInv ==
    ASSUME SInv, NEW c \in Clients, Client(c)
    PROVE  SInv'
  <1>1. CInv'
    BY ClientCInv DEF SInv
  <1> QED BY <1>1, LogWriteSInv, LogFlushSInv, FlushReturnSInv, CriticalSInv,
             CriticalChunkSInv, ShutdownSInv DEF Client

-----------------------------------------------------------------------------
(* The types a step of the writer can disturb; the rest are the clients'.  *)
WriterTypes ==
    /\ buf \in [{0, 1} -> [1..Capacity -> Recs \cup {Blank}]]
    /\ used \in 0..Capacity /\ length \in 0..Capacity
    /\ pending \in {0, 1} /\ ready \in {0, 1}
    /\ running \in BOOLEAN /\ stopping \in BOOLEAN /\ stop \in BOOLEAN
    /\ completed \in Nat /\ request \in Nat /\ dropped \in Nat /\ lost \in Nat
    /\ wpc \in WriterPC
    /\ file \in Seq(Recs \cup {Blank}) /\ durable \in Nat
    /\ reported \in Nat /\ faults \in Nat

LEMMA WriterTypesNow == SInv => WriterTypes
  BY DEF SInv, TypeOK, WriterTypes

LEMMA WriterTypeOK ==
    ASSUME SInv, WriterTypes', requested' = requested, UNCHANGED clientVars, UNCHANGED obsVars
    PROVE  TypeOK'
  <1>1. /\ cpc' = cpc /\ after' = after /\ target' = target /\ crec' = crec /\ left' = left
        /\ accepted' = accepted /\ mark' = mark /\ promise' = promise
        /\ dropSum' = dropSum /\ lossMark' = lossMark /\ lossPromise' = lossPromise
        /\ cut' = cut /\ unused' = unused
    BY DEF clientVars, obsVars, lossVars
  <1> QED BY <1>1 DEF SInv, TypeOK, WriterTypes

LEMMA LogInitSInv ==
    ASSUME SInv, LogInit
    PROVE  SInv'
  <1>0. WriterTypes /\ CInv'
    BY WriterTypesNow, WriterCInv DEF SInv
  <1>1. /\ wpc = "off" /\ wpc' = "loop" /\ running' = TRUE /\ stopping' = FALSE
        /\ buf' = buf /\ used' = used /\ pending' = pending /\ requested' = requested
        /\ completed' = completed /\ dropped' = dropped /\ ready' = ready /\ length' = length
        /\ request' = request /\ lost' = lost /\ stop' = stop
        /\ file' = file /\ durable' = durable /\ reported' = reported /\ faults' = faults
        /\ cpc' = cpc /\ target' = target /\ mark' = mark /\ crec' = crec
        /\ accepted' = accepted /\ promise' = promise /\ dropSum' = dropSum
        /\ UNCHANGED clientVars /\ UNCHANGED obsVars
        /\ \A c \in Clients : cpc[c] = "idle"
    BY DEF LogInit, bufVars, fileVars, clientVars, obsVars, lossVars
  <1>2. TypeOK'
    <2>1. WriterTypes'
      BY <1>0, <1>1 DEF WriterTypes, WriterPC
    <2> QED BY <1>1, <2>1, WriterTypeOK
  <1>3. WriterRuns' /\ BuffersApart' /\ LossHeld'
    BY <1>1 DEF SInv, WriterRuns, BuffersApart, LossHeld, Busy
  <1>4. StreamIntact'
    BY <1>0, <1>1, SameStream DEF WriterTypes
  <1>5. LossSum' /\ FlushCommits' /\ durable' <= Len(file')
    BY <1>1 DEF SInv, LossSum, FlushCommits
  <1>6. LastCommit' /\ \A c \in Clients : Covers(c)'
    BY <1>1 DEF LastCommit, Covers
  <1> QED BY <1>0, <1>2, <1>3, <1>4, <1>5, <1>6 DEF SInv

(* The swap hands the filled cells, and the loss count, to the writer.     *)
LEMMA WSwapSInv ==
    ASSUME SInv, WSwap
    PROVE  SInv'
  <1>0. WriterTypes /\ CInv' /\ 0 \in 0..Capacity
    BY WriterTypesNow, WriterCInv, LogAssumption DEF SInv, Writer
  <1>1. /\ wpc = "loop" /\ wpc' = "write" /\ running' = running
        /\ buf' = buf /\ used' = 0 /\ pending' = 1 - pending /\ requested' = requested
        /\ completed' = completed /\ dropped' = 0 /\ ready' = pending /\ length' = used
        /\ stopping' = stopping /\ request' = requested /\ lost' = dropped /\ stop' = stopping
        /\ file' = file /\ durable' = durable /\ reported' = reported /\ faults' = faults
        /\ cpc' = cpc /\ target' = target /\ mark' = mark /\ crec' = crec
        /\ accepted' = accepted /\ promise' = promise /\ dropSum' = dropSum
        /\ UNCHANGED clientVars /\ UNCHANGED obsVars
    BY DEF WSwap, SwapTo, fileVars, clientVars, obsVars, lossVars
  <1>2. requested \in Nat /\ pending \in {0, 1} /\ pending' \in {0, 1} /\ pending' # pending
    BY <1>0, <1>1 DEF SInv, TypeOK
  <1>3. TypeOK'
    <2>1. WriterTypes'
      BY <1>0, <1>1, <1>2 DEF WriterTypes, WriterPC
    <2> QED BY <1>1, <2>1, WriterTypeOK
  <1>4. length = 0 /\ lost = 0
    BY <1>1 DEF SInv, BuffersApart, LossHeld
  <1>5. WriterRuns' /\ BuffersApart' /\ LossHeld'
    BY <1>1, <1>2 DEF SInv, WriterRuns, BuffersApart, LossHeld, Busy
  <1>6. ASSUME faults' = 0 PROVE file' \o InFlight' \o SubSeq(buf'[pending'], 1, used') = accepted'
    <2>1. (file \o InFlight) \o Filled = accepted /\ InFlight = <<>>
          /\ file \in Seq(Cell) /\ Filled \in Seq(Cell)
      BY <1>1, <1>4, <1>6, StreamParts
    <2>2. InFlight' = Filled
      BY <1>1 DEF InFlight, Filled
    <2>3. SubSeq(buf'[pending'], 1, used') = <<>>
      <3>1. buf'[pending'] \in [1..Capacity -> Cell]
        BY <1>0, <1>1, <1>2 DEF WriterTypes, Cell
      <3> QED BY <1>0, <1>1, <3>1, PrefixSeq
    <2>4. file \o Filled = accepted /\ accepted \in Seq(Cell)
      BY <2>1, ConcatEmptySeq, StreamParts
    <2> HIDE DEF Filled
    <2> QED BY <1>1, <2>2, <2>3, <2>4, ConcatEmptySeq
  <1>7. StreamIntact'
    BY <1>6 DEF StreamIntact
  <1>8. LossSum' /\ FlushCommits' /\ durable' <= Len(file')
    <2>1. LossSum'
      BY <1>0, <1>1, <1>4 DEF SInv, LossSum, WriterTypes
    <2> QED BY <1>1, <2>1 DEF SInv, FlushCommits
  <1>9. ASSUME faults' = 0 PROVE LastCommit' /\ \A c \in Clients : Covers(c)'
    <2>1. LastCommit'
      BY <1>1 DEF LastCommit
    <2>2. Len(accepted) = Len(file) + used /\ faults = 0
      BY <1>1, <1>4, <1>9, StreamParts
    <2>3. ASSUME NEW c \in Clients PROVE Covers(c)'
      <3>1. Covers(c)
        BY <2>2 DEF SInv
      <3> QED BY <1>1, <2>2, <3>1 DEF Covers, Busy
    <2> QED BY <2>1, <2>3
  <1> QED BY <1>0, <1>3, <1>5, <1>7, <1>8, <1>9 DEF SInv

(* The buffer being filled is not the one written out and blanked.         *)
LEMMA WWriteSInv ==
    ASSUME SInv, WWrite
    PROVE  SInv'
  <1>0. WriterTypes /\ CInv' /\ 0 \in 0..Capacity /\ Len(file) \in Nat /\ length \in Nat
    BY WriterTypesNow, WriterCInv, LogAssumption, StreamParts DEF SInv, Writer
  <1>1. /\ wpc = "write" /\ wpc' = "commit" /\ running' = running
        /\ used' = used /\ pending' = pending /\ requested' = requested
        /\ completed' = completed /\ dropped' = dropped /\ ready' = ready /\ length' = 0
        /\ stopping' = stopping /\ request' = request /\ lost' = lost /\ stop' = stop
        /\ durable' = durable /\ reported' = reported
        /\ cpc' = cpc /\ target' = target /\ mark' = mark /\ crec' = crec
        /\ accepted' = accepted /\ promise' = promise /\ dropSum' = dropSum
        /\ UNCHANGED clientVars /\ UNCHANGED obsVars
    BY DEF WWrite, clientVars, obsVars, lossVars
  <1>2. ready # pending /\ pending \in {0, 1} /\ ready \in {0, 1}
    BY <1>0, <1>1 DEF SInv, BuffersApart, WriterTypes
  <1>3. /\ buf' \in [{0, 1} -> [1..Capacity -> Cell]] /\ buf'[pending] = buf[pending]
    <2>1. CASE buf' = buf
      BY <1>0, <2>1 DEF WriterTypes, Cell
    <2>2. CASE buf' = [buf EXCEPT ![ready] =
                          [k \in 1..Capacity |-> IF k <= length THEN Blank ELSE @[k]]]
      <3>1. PICK b : b = [k \in 1..Capacity |-> IF k <= length THEN Blank ELSE buf[ready][k]]
        OBVIOUS
      <3>2. b \in [1..Capacity -> Cell]
        BY <1>0, <1>2, <3>1 DEF WriterTypes, Cell
      <3>3. buf' = [buf EXCEPT ![ready] = b]
        BY <2>2, <3>1
      <3> QED BY <1>0, <1>2, <3>2, <3>3 DEF WriterTypes, Cell
    <2> QED BY <2>1, <2>2 DEF WWrite
  <1>4. /\ file' \in Seq(Cell) /\ Len(file') >= Len(file)
        /\ faults' \in Nat /\ faults' >= faults
        /\ faults' = 0 => /\ faults = 0 /\ file' = file \o InFlight
                          /\ Len(file') = Len(file) + length
    <2>0. /\ file \in Seq(Cell) /\ InFlight \in Seq(Cell) /\ Len(InFlight) = length
          /\ faults \in Nat
      BY <1>0, StreamParts DEF WriterTypes
    <2>1. CASE length = 0 /\ file' = file /\ faults' = faults
      <3>1. InFlight = <<>>
        BY <2>1, StreamParts
      <3>2. file \o InFlight = file
        BY <2>0, <3>1, ConcatEmptySeq
      <3> QED BY <1>0, <2>0, <2>1, <3>2
    <2>2. CASE file' = file \o InFlight /\ faults' = faults
      <3>1. file' \in Seq(Cell) /\ Len(file') = Len(file) + length
        BY <2>0, <2>2, ConcatProperties
      <3> QED BY <1>0, <2>0, <2>2, <3>1
    <2>3. ASSUME faults' = faults + 1, NEW k \in 0..(length - 1),
                 file' = file \o SubSeq(InFlight, 1, k)
          PROVE  /\ file' \in Seq(Cell) /\ Len(file') >= Len(file)
                 /\ faults' \in Nat /\ faults' > 0 /\ faults' >= faults
      <3>1. PICK x \in Seq(Cell) : x = InFlight /\ Len(x) = length
        BY <2>0
      <3>2. SubSeq(x, 1, k) \in Seq(Cell) /\ Len(SubSeq(x, 1, k)) = k
        BY <1>0, <3>1
      <3>3. file' \in Seq(Cell) /\ Len(file') = Len(file) + k
        BY <2>0, <2>3, <3>1, <3>2, ConcatProperties
      <3> QED BY <1>0, <2>0, <2>3, <3>3
    <2>4. CASE length # 0 /\ WriteAll(InFlight)
      <3>1. \/ file' = file \o InFlight /\ faults' = faults
            \/ /\ faults' = faults + 1
               /\ \E k \in 0..(length - 1) : file' = file \o SubSeq(InFlight, 1, k)
        BY <2>0, <2>4 DEF WriteAll
      <3>2. CASE \E k \in 0..(length - 1) :
                    faults' = faults + 1 /\ file' = file \o SubSeq(InFlight, 1, k)
        BY <2>3, <3>2
      <3> QED BY <2>2, <3>1, <3>2
    <2> QED BY <2>1, <2>4 DEF WWrite, InFlight
  <1>5. TypeOK'
    <2>1. WriterTypes'
      BY <1>0, <1>1, <1>3, <1>4 DEF WriterTypes, WriterPC, Cell
    <2> QED BY <1>1, <2>1, WriterTypeOK
  <1>6. WriterRuns' /\ BuffersApart' /\ LossHeld'
    BY <1>1 DEF SInv, WriterRuns, BuffersApart, LossHeld, Busy
  <1>7. ASSUME faults' = 0 PROVE file' \o InFlight' \o SubSeq(buf'[pending'], 1, used') = accepted'
    <2>1. (file \o InFlight) \o Filled = accepted /\ file' = file \o InFlight
      BY <1>4, <1>7, StreamParts
    <2>2. SubSeq(buf'[pending'], 1, used') = Filled
      BY <1>1, <1>3 DEF Filled
    <2>3. InFlight' = <<>>
      <3>1. buf'[ready'] \in [1..Capacity -> Cell]
        BY <1>1, <1>2, <1>3
      <3> QED BY <1>0, <1>1, <3>1, PrefixSeq DEF InFlight
    <2>4. file' \o <<>> = file'
      BY <1>4, ConcatEmptySeq
    <2> QED BY <1>1, <2>1, <2>2, <2>3, <2>4
  <1>8. StreamIntact'
    BY <1>7 DEF StreamIntact
  <1>9. LossSum' /\ FlushCommits' /\ durable' <= Len(file')
    <2>1. durable' <= Len(file')
      <3>1. durable <= Len(file) /\ durable \in Nat /\ Len(file') \in Nat
        BY <1>0, <1>4 DEF SInv, WriterTypes
      <3> QED BY <1>0, <1>1, <1>4, <3>1
    <2> QED BY <1>1, <1>4, <2>1 DEF SInv, LossSum, FlushCommits
  <1>10. ASSUME faults' = 0 PROVE LastCommit' /\ \A c \in Clients : Covers(c)'
    <2>1. LastCommit'
      BY <1>1 DEF LastCommit
    <2>2. ASSUME NEW c \in Clients PROVE Covers(c)'
      <3>1. Covers(c)
        BY <1>4, <1>10 DEF SInv
      <3>2. Len(file') + length' = Len(file) + length
        <4>1. Len(file') = Len(file) + length /\ length' = 0
          BY <1>1, <1>4, <1>10
        <4>2. \A x, y, z \in Nat : x = y + z => x + 0 = y + z
          OBVIOUS
        <4>3. Len(file') \in Nat
          BY <1>4
        <4> QED BY <1>0, <4>1, <4>2, <4>3
      <3> QED BY <1>1, <3>1, <3>2 DEF Covers, Busy
    <2> QED BY <2>1, <2>2
  <1> QED BY <1>0, <1>5, <1>6, <1>8, <1>9, <1>10 DEF SInv

(* Without a fault the commit is skipped only when no flush is due and the *)
(* writer is not on its last round.                                        *)
LEMMA WCommitSInv ==
    ASSUME SInv, WCommit
    PROVE  SInv'
  <1>0. WriterTypes /\ CInv' /\ Len(file) \in Nat
    BY WriterTypesNow, WriterCInv, StreamParts DEF SInv, Writer
  <1>1. /\ wpc = "commit" /\ wpc' = "complete" /\ running' = running
        /\ buf' = buf /\ used' = used /\ pending' = pending /\ requested' = requested
        /\ completed' = completed /\ dropped' = dropped /\ ready' = ready /\ length' = length
        /\ stopping' = stopping /\ request' = request /\ lost' = 0 /\ stop' = stop
        /\ file' = file
        /\ cpc' = cpc /\ target' = target /\ mark' = mark /\ crec' = crec
        /\ accepted' = accepted /\ promise' = promise /\ dropSum' = dropSum
        /\ UNCHANGED clientVars /\ UNCHANGED obsVars
    BY DEF WCommit, bufVars, clientVars, obsVars, lossVars
  <1>2. /\ faults' \in Nat /\ faults' >= faults /\ reported' \in Nat
        /\ durable' \in {durable, Len(file)}
        /\ faults' = 0 => /\ faults = 0 /\ reported' = reported + lost
                          /\ durable' = Len(file) \/ (request = completed /\ ~stop)
    <2>1. PICK lineFails, syncFails \in BOOLEAN :
             /\ faults' = faults + (IF lineFails THEN 1 ELSE 0) + (IF syncFails THEN 1 ELSE 0)
             /\ reported' = IF lineFails THEN reported ELSE reported + lost
             /\ \/ durable' = IF syncFails THEN durable ELSE Len(file)
                \/ request = completed /\ ~stop /\ ~syncFails /\ durable' = durable
      BY DEF WCommit
    <2>2. faults \in Nat /\ reported \in Nat /\ lost \in Nat
      BY <1>0 DEF WriterTypes
    <2>3. CASE lineFails \/ syncFails
      BY <2>1, <2>2, <2>3
    <2>4. CASE ~lineFails /\ ~syncFails
      BY <2>1, <2>2, <2>4
    <2> QED BY <2>3, <2>4
  <1>3. TypeOK'
    <2>1. WriterTypes'
      BY <1>0, <1>1, <1>2 DEF WriterTypes, WriterPC
    <2> QED BY <1>1, <2>1, WriterTypeOK
  <1>4. length = 0 /\ durable <= Len(file) /\ durable \in Nat
    BY <1>0, <1>1 DEF SInv, BuffersApart, WriterTypes
  <1>5. WriterRuns' /\ BuffersApart' /\ LossHeld'
    BY <1>1 DEF SInv, WriterRuns, BuffersApart, LossHeld, Busy
  <1>6. StreamIntact'
    BY <1>1, <1>2, SameStream
  <1>7. durable' <= Len(file') /\ durable' >= durable /\ durable' \in Nat
    BY <1>0, <1>1, <1>2, <1>4
  <1>8. LossSum'
    BY <1>0, <1>1, <1>2 DEF SInv, LossSum, WriterTypes
  <1>9. FlushCommits'
    <2>1. promise \in Nat
      BY DEF SInv, TypeOK
    <2> QED BY <1>1, <1>2, <1>4, <1>7, <2>1 DEF SInv, FlushCommits
  <1>10. ASSUME faults' = 0 PROVE LastCommit' /\ \A c \in Clients : Covers(c)'
    <2>1. LastCommit'
      BY <1>1, <1>2, <1>10 DEF LastCommit
    <2>2. ASSUME NEW c \in Clients PROVE Covers(c)'
      <3>1. Covers(c) /\ mark[c] \in Nat
        BY <1>2, <1>10 DEF SInv, TypeOK
      <3>2. mark[c] <= durable => mark[c] <= durable'
        BY <1>4, <1>7, <3>1
      <3>3. durable' = Len(file) \/ request = completed
        BY <1>2, <1>10
      <3>4. Len(file') + length' = Len(file) /\ Len(file) + length = Len(file)
        BY <1>0, <1>1, <1>4
      <3> QED BY <1>1, <3>1, <3>2, <3>3, <3>4 DEF Covers, Busy
    <2> QED BY <2>1, <2>2
  <1> QED BY <1>0, <1>3, <1>5, <1>6, <1>7, <1>8, <1>9, <1>10 DEF SInv

LEMMA WCompleteSInv ==
    ASSUME SInv, WComplete
    PROVE  SInv'
  <1>0. WriterTypes /\ CInv'
    BY WriterTypesNow, WriterCInv DEF SInv, Writer
  <1>1. /\ wpc = "complete" /\ wpc' = (IF stop THEN "done" ELSE "loop") /\ running' = running
        /\ buf' = buf /\ used' = used /\ pending' = pending /\ requested' = requested
        /\ completed' = request /\ dropped' = dropped /\ ready' = ready /\ length' = length
        /\ stopping' = stopping /\ request' = request /\ lost' = lost /\ stop' = stop
        /\ file' = file /\ durable' = durable /\ reported' = reported /\ faults' = faults
        /\ cpc' = cpc /\ target' = target /\ mark' = mark /\ crec' = crec
        /\ accepted' = accepted /\ promise' = promise /\ dropSum' = dropSum
        /\ UNCHANGED clientVars /\ UNCHANGED obsVars
    BY DEF WComplete, CompleteTo, bufVars, fileVars, clientVars, obsVars, lossVars
  <1>2. TypeOK'
    <2>1. WriterTypes'
      BY <1>0, <1>1 DEF WriterTypes, WriterPC
    <2> QED BY <1>1, <2>1, WriterTypeOK
  <1>3. WriterRuns' /\ BuffersApart' /\ LossHeld'
    BY <1>1 DEF SInv, WriterRuns, BuffersApart, LossHeld, Busy
  <1>4. StreamIntact'
    BY <1>0, <1>1, SameStream DEF WriterTypes
  <1>5. LossSum' /\ FlushCommits' /\ durable' <= Len(file')
    BY <1>1 DEF SInv, LossSum, FlushCommits
  <1>6. ASSUME faults' = 0 PROVE LastCommit' /\ \A c \in Clients : Covers(c)'
    <2>1. LastCommit'
      BY <1>1, <1>6 DEF SInv, LastCommit
    <2>2. ASSUME NEW c \in Clients PROVE Covers(c)'
      <3>1. Covers(c)
        BY <1>1, <1>6 DEF SInv
      <3> QED BY <1>1, <3>1 DEF Covers, Busy
    <2> QED BY <2>1, <2>2
  <1> QED BY <1>0, <1>2, <1>3, <1>4, <1>5, <1>6 DEF SInv

-----------------------------------------------------------------------------
(* The stream's invariant holds in every run.                              *)
THEOREM StreamInvariant == Spec => []SInv
  <1>1. SInv /\ [Next]_vars => SInv'
    <2> SUFFICES ASSUME SInv, [Next]_vars PROVE SInv'
      OBVIOUS
    <2>1. CASE UNCHANGED vars
      <3>1. /\ UNCHANGED <<buf, used, pending, running, stopping, requested, completed, dropped>>
            /\ UNCHANGED <<wpc, ready, length, request, lost, stop>>
            /\ UNCHANGED <<file, durable, reported, faults>>
            /\ UNCHANGED <<cpc, after, target, crec, left>>
            /\ UNCHANGED <<accepted, mark, promise, dropSum, lossMark, lossPromise, cut, unused>>
        BY <2>1 DEF vars, bufVars, writerVars, fileVars, clientVars, obsVars, lossVars
      <3>2. TypeOK'
        BY <3>1 DEF SInv, TypeOK
      <3>3. CInv'
        BY <3>1 DEF SInv, CInv, CounterTypes, CountersOrdered, LastRequest, Waiting, Busy
      <3>4. StreamIntact'
        BY <3>1 DEF SInv, StreamIntact, InFlight
      <3> QED BY <3>1, <3>2, <3>3, <3>4 DEF SInv, WriterRuns, BuffersApart, LossHeld, Busy,
                   LossSum, FlushCommits, LastCommit, Covers
    <2>2. CASE Writer
      BY <2>2, WSwapSInv, WWriteSInv, WCommitSInv, WCompleteSInv DEF Writer
    <2> QED BY <2>1, <2>2, LogInitSInv, ClientSInv DEF Next
  <1> QED BY InitSInv, <1>1, PTL DEF Spec

(* Every variable keeps its type; neither fill level leaves its buffer.    *)
THEOREM TypeCorrect == Spec => []TypeOK
  <1>1. SInv => TypeOK
    BY DEF SInv
  <1> QED BY StreamInvariant, <1>1, PTL

(* Without I/O errors the file and the two buffers hold exactly the        *)
(* accepted cells, in order, although writer() reads one buffer while      *)
(* producers fill the other.                                               *)
THEOREM StreamKept == Spec => []StreamIntact
  <1>1. SInv => StreamIntact
    BY DEF SInv
  <1> QED BY StreamInvariant, <1>1, PTL

(* What was accepted before a melee_nx_log_flush that waited, or wrote     *)
(* synchronously, is committed when it returns.                            *)
THEOREM FlushesCommit == Spec => []FlushCommits
  <1>1. SInv => FlushCommits
    BY DEF SInv
  <1> QED BY StreamInvariant, <1>1, PTL

(* After melee_nx_log_shutdown has joined the writer all that was accepted *)
(* is written and committed.                                               *)
THEOREM ShutdownDrainsAll == Spec => []ShutdownDrains
  <1>1. SInv => ShutdownDrains
    <2> SUFFICES ASSUME SInv, wpc = "done", running, faults = 0
                 PROVE  file = accepted /\ durable = Len(accepted)
      BY DEF ShutdownDrains
    <2>1. used = 0 /\ length = 0
      BY DEF SInv, BuffersApart
    <2>2. (file \o InFlight) \o Filled = accepted /\ InFlight = <<>> /\ Filled = <<>>
          /\ file \in Seq(Cell)
      BY <2>1, StreamParts
    <2>3. file = accepted
      <3> HIDE DEF Filled
      <3> QED BY <2>2, ConcatEmptySeq
    <2> QED BY <2>3 DEF SInv, LastCommit
  <1> QED BY StreamInvariant, <1>1, PTL

-----------------------------------------------------------------------------
(* The drops a waiting flush, or a joining shutdown, answers for are in    *)
(* the writer's hands once it works on the request (or on its last round), *)
(* and announced once the request is completed (or the writer is done).    *)
LossCovers(c) ==
    /\ lossMark[c] <= dropSum
    /\ cpc[c] = "flushWait" =>
        /\ wpc \in {"write", "commit"} /\ target[c] <= request => lossMark[c] <= lost + reported
        /\ wpc = "complete" /\ target[c] <= request => lossMark[c] <= reported
        /\ target[c] <= completed => lossMark[c] <= reported
    /\ cpc[c] = "join" =>
        /\ wpc \in {"write", "commit"} /\ stop => lossMark[c] <= lost + reported
        /\ wpc = "done" \/ (wpc = "complete" /\ stop) => lossMark[c] <= reported

(* The inductive invariant of the losses, on top of the stream's.          *)
LInv == faults = 0 => lossPromise <= reported /\ \A c \in Clients : LossCovers(c)

LossTypes ==
    /\ dropSum \in Nat /\ dropped \in Nat /\ lost \in Nat /\ reported \in Nat
    /\ lossPromise \in Nat /\ lossMark \in [Clients -> Nat] /\ faults \in Nat
    /\ request \in Nat /\ requested \in Nat /\ completed \in Nat
    /\ target \in [Clients -> Nat] /\ stop \in BOOLEAN /\ stopping \in BOOLEAN
    /\ wpc \in WriterPC /\ cpc \in [Clients -> ClientPC]

(* A client's step leaves the writer's count alone, so only its own        *)
(* obligations need a look.                                                *)
LEMMA LossClientStep ==
    ASSUME SInv, SInv', LInv, NEW c \in Clients,
           UNCHANGED <<reported, lost, wpc, request, completed, stop>>,
           faults' >= faults, dropSum' >= dropSum,
           \A d \in Clients \ {c} :
               cpc'[d] = cpc[d] /\ target'[d] = target[d] /\ lossMark'[d] = lossMark[d],
           faults' = 0 => lossPromise' <= reported /\ LossCovers(c)'
    PROVE  LInv'
  <1>t. LossTypes /\ LossTypes'
    BY DEF LossTypes, SInv, TypeOK
  <1>0. LossTypes /\ LossTypes' /\ (faults' = 0 => faults = 0)
    BY <1>t DEF LossTypes
  <1>1. ASSUME faults' = 0, NEW d \in Clients PROVE LossCovers(d)'
    <2>1. CASE d = c
      BY <1>1, <2>1
    <2>2. CASE d # c
      <3>1. LossCovers(d) /\ lossMark'[d] = lossMark[d] /\ cpc'[d] = cpc[d] /\ target'[d] = target[d]
        BY <1>0, <1>1, <2>2 DEF LInv
      <3>2. lossMark'[d] <= dropSum'
        BY <1>0, <3>1 DEF LossCovers, LossTypes
      <3> QED BY <3>1, <3>2 DEF LossCovers
    <2> QED BY <2>1, <2>2
  <1> QED BY <1>1 DEF LInv

(* A client that neither starts nor ends a wait owes what it owed.         *)
LEMMA LossQuiet ==
    ASSUME SInv, SInv', LInv, NEW c \in Clients,
           UNCHANGED <<reported, lost, wpc, request, completed, stop, lossMark, lossPromise>>,
           faults' >= faults, dropSum' >= dropSum,
           NEW pc \in ClientPC \ {"flushWait", "join"}, cpc' = [cpc EXCEPT ![c] = pc],
           \A d \in Clients \ {c} : target'[d] = target[d]
    PROVE  LInv'
  <1>t. LossTypes /\ LossTypes'
    BY DEF LossTypes, SInv, TypeOK
  <1>0. LossTypes /\ LossTypes' /\ (faults' = 0 => faults = 0)
    BY <1>t DEF LossTypes
  <1>1. ASSUME faults' = 0 PROVE lossPromise' <= reported /\ LossCovers(c)'
    <2>1. lossPromise <= reported /\ lossMark[c] <= dropSum
      BY <1>0, <1>1 DEF LInv, LossCovers
    <2>2. cpc'[c] = pc
      BY <1>0 DEF LossTypes
    <2>3. lossMark'[c] <= dropSum'
      BY <1>0, <2>1 DEF LossTypes
    <2> QED BY <2>1, <2>2, <2>3 DEF LossCovers
  <1>2. \A d \in Clients \ {c} :
            cpc'[d] = cpc[d] /\ target'[d] = target[d] /\ lossMark'[d] = lossMark[d]
    BY <1>0 DEF LossTypes
  <1> QED BY <1>1, <1>2, LossClientStep

LEMMA LossClient ==
    ASSUME SInv, SInv', LInv, NEW c \in Clients, Client(c)
    PROVE  LInv'
  <1>t. LossTypes /\ LossTypes'
    BY DEF LossTypes, SInv, TypeOK
  <1>0. LossTypes /\ LossTypes' /\ lossMark[c] \in Nat
    BY <1>t DEF LossTypes
  <1>1. ASSUME NEW r \in Recs, LogWrite(c, r) PROVE LInv'
    <2>1. /\ UNCHANGED <<reported, lost, wpc, request, completed, stop, lossMark, lossPromise, target>>
          /\ cpc[c] = "idle" /\ cpc' = [cpc EXCEPT ![c] = "idle"]
      BY <1>0, <1>1 DEF LogWrite, writerVars, clientVars, LossTypes
    <2>2. dropSum' >= dropSum
      BY <1>0, <1>1 DEF LogWrite, LossTypes
    <2>3. faults' >= faults
      BY <1>0, <1>1 DEF LogWrite, WriteAll, LossTypes
    <2> QED BY <2>1, <2>2, <2>3, LossQuiet DEF ClientPC
  <1>2. ASSUME NEW r \in Recs, CriticalStart(c, r) PROVE LInv'
    <2>1. /\ UNCHANGED <<reported, lost, wpc, request, completed, stop, lossMark, lossPromise, target,
                         faults, dropSum>>
          /\ cpc' = [cpc EXCEPT ![c] = "crit"]
      BY <1>2 DEF CriticalStart, writerVars, fileVars, lossVars
    <2>2. faults' >= faults /\ dropSum' >= dropSum
      BY <1>0, <2>1 DEF LossTypes
    <2> QED BY <2>1, <2>2, LossQuiet DEF ClientPC
  <1>3. CASE CriticalWait(c) \/ CriticalWake(c)
    <2>1. /\ UNCHANGED <<reported, lost, wpc, request, completed, stop, lossMark, lossPromise,
                         faults, dropSum>>
          /\ \E pc \in {"crit", "critWait"} : cpc' = [cpc EXCEPT ![c] = pc]
          /\ \E n : target' = [target EXCEPT ![c] = n]
      BY <1>3 DEF CriticalWait, CriticalWake, Ask, writerVars, fileVars, obsVars, lossVars
    <2>2. faults' >= faults /\ dropSum' >= dropSum /\ \A d \in Clients \ {c} : target'[d] = target[d]
      BY <1>0, <2>1 DEF LossTypes
    <2> QED BY <2>1, <2>2, LossQuiet DEF ClientPC
  <1>4. CASE CriticalChunk(c)
    <2>1. /\ UNCHANGED <<reported, lost, wpc, request, completed, stop, lossMark, lossPromise, target,
                         dropSum>>
          /\ \E pc \in {"crit", "flush"} : cpc' = [cpc EXCEPT ![c] = pc]
      BY <1>4 DEF CriticalChunk, writerVars, lossVars
    <2>2. faults' >= faults /\ dropSum' >= dropSum
      BY <1>0, <1>4, <2>1 DEF CriticalChunk, WriteAll, LossTypes
    <2> QED BY <2>1, <2>2, LossQuiet DEF ClientPC
  <1>5. CASE ShutdownStart(c) \/ ShutdownEnd(c)
    <2>1. /\ UNCHANGED <<reported, lost, wpc, request, completed, stop, lossMark, lossPromise, target,
                         faults, dropSum>>
          /\ \E pc \in {"flush", "gone"} : cpc' = [cpc EXCEPT ![c] = pc]
      BY <1>5 DEF ShutdownStart, ShutdownEnd, writerVars, fileVars, obsVars, lossVars
    <2>2. faults' >= faults /\ dropSum' >= dropSum
      BY <1>0, <2>1 DEF LossTypes
    <2> QED BY <2>1, <2>2, LossQuiet DEF ClientPC
  <1>6. CASE LogFlush(c)
    <2>1. /\ UNCHANGED <<reported, lost, wpc, request, completed, stop, lossPromise, dropSum>>
      BY <1>6 DEF LogFlush, writerVars
    <2>2. faults' >= faults /\ dropSum' >= dropSum
      BY <1>0, <1>6, <2>1 DEF LogFlush, Fsync, LossTypes
    <2>3. CASE Ask(c, "flushWait") /\ lossMark' = [lossMark EXCEPT ![c] = dropSum]
      <3>1. /\ requested' = requested + 1 /\ target' = [target EXCEPT ![c] = requested + 1]
            /\ cpc' = [cpc EXCEPT ![c] = "flushWait"]
        BY <2>3 DEF Ask
      <3>2. cpc'[c] = "flushWait" /\ target'[c] = requested + 1 /\ lossMark'[c] = dropSum
        BY <1>0, <2>3, <3>1 DEF LossTypes
      <3>3. ~(target'[c] <= completed) /\ (Busy => ~(target'[c] <= request))
        BY <1>0, <3>2 DEF SInv, CInv, CountersOrdered, LossTypes
      <3>4. LossCovers(c)'
        BY <1>0, <2>1, <3>2, <3>3 DEF LossCovers, Busy, LossTypes
      <3>5. \A d \in Clients \ {c} :
                cpc'[d] = cpc[d] /\ target'[d] = target[d] /\ lossMark'[d] = lossMark[d]
        BY <1>0, <2>3, <3>1 DEF LossTypes
      <3>6. faults' = 0 => lossPromise' <= reported
        BY <1>0, <2>1, <2>2 DEF LInv, LossTypes
      <3> QED BY <2>1, <2>2, <3>4, <3>5, <3>6, LossClientStep
    <2>4. CASE FlushDone(c)
      <3>1. cpc'[c] \in {"idle", "stop"} /\ lossMark' = [lossMark EXCEPT ![c] = 0]
            /\ \A d \in Clients \ {c} : cpc'[d] = cpc[d] /\ target'[d] = target[d]
        BY <2>4, FlushDoneTypes DEF FlushDone
      <3>2. lossMark'[c] = 0 /\ \A d \in Clients \ {c} : lossMark'[d] = lossMark[d]
        BY <1>0, <3>1 DEF LossTypes
      <3>3. LossCovers(c)'
        <4>1. lossMark'[c] <= dropSum'
          BY <1>0, <3>2 DEF LossTypes
        <4> QED BY <3>1, <4>1 DEF LossCovers
      <3>6. faults' = 0 => lossPromise' <= reported
        BY <1>0, <2>1, <2>2 DEF LInv, LossTypes
      <3> QED BY <2>1, <2>2, <3>1, <3>2, <3>3, <3>6, LossClientStep
    <2> QED BY <1>6, <2>3, <2>4 DEF LogFlush
  <1>7. CASE FlushReturn(c)
    <2>1. /\ UNCHANGED <<reported, lost, wpc, request, completed, stop, dropSum, faults>>
          /\ cpc[c] = "flushWait" /\ target[c] <= completed /\ FlushDone(c)
          /\ lossPromise' \in {lossPromise, lossMark[c]}
      BY <1>0, <1>7 DEF FlushReturn, writerVars, fileVars, Larger, LossTypes
    <2>2. faults' >= faults /\ dropSum' >= dropSum
      BY <1>0, <2>1 DEF LossTypes
    <2>3. faults = 0 => lossMark[c] <= reported /\ lossPromise <= reported
      BY <2>1 DEF LInv, LossCovers
    <2>4. cpc'[c] \in {"idle", "stop"} /\ lossMark' = [lossMark EXCEPT ![c] = 0]
          /\ \A d \in Clients \ {c} : cpc'[d] = cpc[d] /\ target'[d] = target[d]
      BY <2>1, FlushDoneTypes DEF FlushDone
    <2>5. lossMark'[c] = 0 /\ \A d \in Clients \ {c} : lossMark'[d] = lossMark[d]
      BY <1>0, <2>4 DEF LossTypes
    <2>6. LossCovers(c)'
      <3>1. lossMark'[c] <= dropSum'
        BY <1>0, <2>5 DEF LossTypes
      <3> QED BY <2>4, <3>1 DEF LossCovers
    <2> QED BY <2>1, <2>2, <2>3, <2>4, <2>5, <2>6, LossClientStep
  <1>8. CASE ShutdownStop(c)
    <2>1. /\ UNCHANGED <<reported, lost, wpc, request, completed, stop, dropSum, faults, target,
                         lossPromise>>
          /\ lossMark' = [lossMark EXCEPT ![c] = IF stopping THEN 0 ELSE dropSum]
          /\ \E pc \in {"join", "unrun"} : cpc' = [cpc EXCEPT ![c] = pc]
      BY <1>8 DEF ShutdownStop, writerVars, fileVars
    <2>2. faults' >= faults /\ dropSum' >= dropSum
      BY <1>0, <2>1 DEF LossTypes
    <2>3. cpc'[c] \in {"join", "unrun"} /\ lossMark'[c] = (IF stopping THEN 0 ELSE dropSum)
      BY <1>0, <2>1 DEF LossTypes
    <2>4. \A d \in Clients \ {c} :
              cpc'[d] = cpc[d] /\ target'[d] = target[d] /\ lossMark'[d] = lossMark[d]
      BY <1>0, <2>1 DEF LossTypes
    <2>5. LossCovers(c)'
      <3>1. ~stopping => ~(Busy /\ stop) /\ wpc # "done"
        BY DEF SInv, CInv, LastRequest
      <3>2. CASE stopping
        BY <1>0, <2>1, <2>3, <3>2 DEF LossCovers, LossTypes
      <3>3. CASE ~stopping
        BY <1>0, <2>1, <2>3, <3>1, <3>3 DEF LossCovers, LossTypes, Busy
      <3> QED BY <3>2, <3>3
    <2>6. faults' = 0 => lossPromise' <= reported
      BY <2>1 DEF LInv
    <2> QED BY <2>1, <2>2, <2>4, <2>5, <2>6, LossClientStep
  <1>9. CASE ShutdownJoin(c)
    <2>1. /\ UNCHANGED <<reported, lost, wpc, request, completed, stop, dropSum, faults, target>>
          /\ lossMark' = [lossMark EXCEPT ![c] = 0] /\ cpc' = [cpc EXCEPT ![c] = "unrun"]
          /\ lossPromise' \in {lossPromise, lossMark[c]} /\ cpc[c] = "join" /\ wpc = "done"
      BY <1>9 DEF ShutdownJoin, writerVars, fileVars, Larger
    <2>2. faults' >= faults /\ dropSum' >= dropSum
      BY <1>0, <2>1 DEF LossTypes
    <2>3. faults = 0 => lossMark[c] <= reported /\ lossPromise <= reported
      BY <2>1 DEF LInv, LossCovers
    <2>4. \A d \in Clients \ {c} :
              cpc'[d] = cpc[d] /\ target'[d] = target[d] /\ lossMark'[d] = lossMark[d]
      BY <1>0, <2>1 DEF LossTypes
    <2>5. cpc'[c] = "unrun" /\ lossMark'[c] = 0
      BY <1>0, <2>1 DEF LossTypes
    <2>6. LossCovers(c)'
      BY <1>0, <2>5 DEF LossCovers, LossTypes
    <2> QED BY <2>1, <2>2, <2>3, <2>4, <2>6, LossClientStep
  <1> QED BY <1>1, <1>2, <1>3, <1>4, <1>5, <1>6, <1>7, <1>8, <1>9 DEF Client

(* Each step of the writer passes the loss count on.                       *)
LEMMA LossWriter ==
    ASSUME SInv, SInv', LInv, LogInit \/ Writer
    PROVE  LInv'
  <1>0. LossTypes /\ LossTypes'
    BY DEF LossTypes, SInv, TypeOK
  <1> SUFFICES ASSUME faults' = 0
               PROVE  lossPromise' <= reported' /\ \A c \in Clients : LossCovers(c)'
    BY DEF LInv
  <1>1. /\ UNCHANGED <<lossPromise, lossMark, dropSum, cpc, target, requested>>
        /\ faults = 0 /\ (reported' = reported \/ (WCommit /\ reported' = reported + lost))
    <2>1. CASE LogInit
      BY <2>1 DEF LogInit, fileVars, clientVars, obsVars, lossVars
    <2>2. CASE WSwap
      BY <2>2 DEF WSwap, SwapTo, fileVars, clientVars, obsVars, lossVars
    <2>3. CASE WWrite
      BY <1>0, <2>3 DEF WWrite, WriteAll, clientVars, obsVars, lossVars, LossTypes
    <2>4. CASE WCommit
      BY <1>0, <2>4 DEF WCommit, clientVars, obsVars, lossVars, LossTypes
    <2>5. CASE WComplete
      BY <2>5 DEF WComplete, CompleteTo, fileVars, clientVars, obsVars, lossVars
    <2> QED BY <2>1, <2>2, <2>3, <2>4, <2>5 DEF Writer
  <1>2. lossPromise' <= reported'
    BY <1>0, <1>1 DEF LInv, LossTypes
  <1>3. ASSUME NEW c \in Clients PROVE LossCovers(c)'
    <2>0. /\ LossCovers(c) /\ lossMark[c] \in Nat /\ target[c] \in Nat
          /\ dropSum = dropped + lost + reported
      BY <1>0, <1>1 DEF LInv, LossTypes, SInv, LossSum
    <2>1. CASE LogInit
      <3>1. cpc[c] = "idle"
        BY <2>1 DEF LogInit
      <3> QED BY <1>1, <2>0, <3>1 DEF LossCovers
    <2>2. CASE WSwap
      <3>1. /\ wpc' = "write" /\ request' = requested /\ lost' = dropped /\ reported' = reported
            /\ completed' = completed /\ wpc = "loop"
        BY <2>2 DEF WSwap, SwapTo, fileVars
      <3>2. lost = 0
        BY <3>1 DEF SInv, LossHeld
      <3>3. lossMark[c] <= lost' + reported'
        BY <1>0, <2>0, <3>1, <3>2 DEF LossCovers, LossTypes
      <3> QED BY <1>1, <2>0, <3>1, <3>3 DEF LossCovers
    <2>3. CASE WWrite
      <3>1. /\ wpc = "write" /\ wpc' = "commit"
            /\ UNCHANGED <<request, completed, lost, reported, stop>>
        BY <2>3 DEF WWrite
      <3> QED BY <1>1, <2>0, <3>1 DEF LossCovers
    <2>4. CASE WCommit
      <3>1. /\ wpc = "commit" /\ wpc' = "complete" /\ UNCHANGED <<request, completed, stop>>
        BY <2>4 DEF WCommit
      <3>2. reported' = reported + lost
        BY <1>0, <1>1, <2>4 DEF WCommit, LossTypes
      <3>3. lossMark[c] <= reported => lossMark[c] <= reported'
        BY <1>0, <2>0, <3>2 DEF LossTypes
      <3>4. lossMark[c] <= lost + reported => lossMark[c] <= reported'
        BY <1>0, <2>0, <3>2 DEF LossTypes
      <3> QED BY <1>1, <2>0, <3>1, <3>3, <3>4 DEF LossCovers
    <2>5. CASE WComplete
      <3>1. /\ wpc = "complete" /\ wpc' = (IF stop THEN "done" ELSE "loop") /\ completed' = request
            /\ UNCHANGED <<request, lost, reported, stop>>
        BY <2>5 DEF WComplete, CompleteTo, fileVars
      <3> QED BY <1>1, <2>0, <3>1 DEF LossCovers
    <2> QED BY <2>1, <2>2, <2>3, <2>4, <2>5 DEF Writer
  <1> QED BY <1>2, <1>3

(* Without I/O errors, whoever waited for the writer finds every routine   *)
(* record that was dropped before announced, by a flush or by the join of  *)
(* a shutdown, and no drop is announced twice.                             *)
THEOREM LossesReported == Spec => []LossesAnnounced
  <1>1. Init => LInv
    BY DEF Init, LInv, LossCovers
  <1>2. SInv /\ SInv' /\ LInv /\ [Next]_vars => LInv'
    <2> SUFFICES ASSUME SInv, SInv', LInv, [Next]_vars PROVE LInv'
      OBVIOUS
    <2>1. CASE UNCHANGED vars
      <3>1. /\ UNCHANGED <<faults, reported, lost, wpc, request, completed, stop>>
            /\ UNCHANGED <<lossMark, lossPromise, dropSum, cpc, target>>
        BY <2>1 DEF vars, writerVars, fileVars, clientVars, obsVars, lossVars
      <3> QED BY <3>1 DEF LInv, LossCovers
    <2> QED BY <2>1, LossClient, LossWriter DEF Next
  <1>3. SInv /\ LInv => LossesAnnounced
    <2>1. SInv => (faults = 0 => reported <= dropSum)
      BY DEF SInv, TypeOK, LossSum
    <2> QED BY <2>1 DEF LInv, LossesAnnounced
  <1> QED BY StreamInvariant, <1>1, <1>2, <1>3, PTL DEF Spec

=============================================================================
