----------------------------- MODULE DvdWorker ------------------------------
(***************************************************************************)
(* The DVD layer as aurora-switch-no-mmap.patch leaves it: one worker      *)
(* thread opens the disc image and serves every read, the launcher's main  *)
(* thread opens and closes the layer through it, game threads open files   *)
(* and queue reads.  It serves files either from a disc image, through the *)
(* views of nod_shim.c, or as loose files of a finished extraction.        *)
(*                                                                         *)
(* A section under m_mutex, s_fstLock or switch_sdmc_io_mutex is one       *)
(* action.  stop, start, enqueue and the order of openDiscBody are         *)
(* Aurora's own code and external.                                         *)
(***************************************************************************)
EXTENDS GcDisc

CONSTANTS Main, Worker, Players,    \* the threads; Players are the game's
          Nobody, NoFile, NoCmd, NoTable,
          Images,                   \* images the card may hold
          LooseFiles,               \* may the layer be opened on loose files?
          Offsets, Wants,           \* offsets and lengths of reads
          MaxOpens,                 \* bound: opens and closes of the layer
          MaxFaults                 \* bound: failing stream calls

(* An open file: its entry, the thread that opened its stream, its view.   *)
(* A command's result: where the bytes came from and how many; -1, none.   *)
OpenFile == [entry : Nat, opener : Players \cup {Nobody}, view : View]
Command == [off : Offsets, n : Wants]
Result == [off : Offsets, n : Wants, from : Nat, got : Nat \cup {-1}]

ASSUME DvdAssumption ==
    /\ Main # Worker /\ {Main, Worker} \cap Players = {}
    /\ Nobody \notin Players \cup {Main, Worker}
    /\ LooseFiles \in BOOLEAN
    /\ Offsets \subseteq Nat /\ Wants \subseteq Nat
    /\ {MaxOpens, MaxFaults} \subseteq Nat
    /\ NoFile \notin OpenFile /\ NoCmd \notin Command
    /\ Images \subseteq Image
    /\ \A img \in Images : ParsesFst(img) => img.count - 1 <= Len(img.entries)

VARIABLES
    image,          \* the disc image on the card
    mode,           \* "closed", "disc" or "loose": s_initialized, s_looseMode
    main, goal,     \* where the main thread is, and in which call
    wk,             \* where the worker is
    task, shutdown, \* m_syncTask set, m_shutdown
    opened,         \* the promise of runSync: "none", "yes" or "no"
    stream,         \* who opened the disc's stream
    table,          \* disc->fst once parsed
    file,           \* [Players -> the one file each has open]
    cmd, queue,     \* their command blocks; m_queue
    active,         \* m_activeBlock
    done,           \* [Players -> last read and what it delivered]
    access,         \* observation: <<opener, reader>> of stream reads
    opens, faults

mainVars == <<main, goal, opens>>
discVars == <<mode, stream, table>>
playVars == <<file, cmd, done>>
vars == <<image, discVars, mainVars, wk, task, shutdown, opened, playVars,
          queue, active, access, faults>>

WorkerPlaces == {"off", "awake", "asleep", "stream", "header", "table", "dol", "seek", "read"}

Typed ==
    /\ image \in Images /\ mode \in {"closed", "disc", "loose"}
    /\ main \in {"idle", "stop", "call", "wait"}
    /\ goal \in {"none", "disc", "files", "close", "fail"} /\ opens \in Nat
    /\ wk \in WorkerPlaces
    /\ {task, shutdown} \subseteq BOOLEAN /\ opened \in {"none", "yes", "no"}
    /\ stream \in {Main, Worker, Nobody} \cup Players
    /\ file \in [Players -> {NoFile} \cup OpenFile]
    /\ cmd \in [Players -> {NoCmd} \cup Command]
    /\ done \in [Players -> {NoCmd} \cup Result]
    /\ queue \in Seq(Players) /\ active \in Players \cup {Nobody}
    /\ faults \in Nat

(* The cursor of a file on the disc is in the file or at its end.          *)
Inside(p) ==
    mode = "disc" /\ file[p] # NoFile => file[p].view.pos <= file[p].view.length

(* The type invariant, cursors included: seek and read take none past the  *)
(* end of its file, whatever extents the image claims.                     *)
TypeOK == Typed /\ \A p \in Players : Inside(p)

Init ==
    /\ image \in Images
    /\ mode = "closed" /\ main = "idle" /\ goal = "none" /\ opens = 0
    /\ wk = "off" /\ task = FALSE /\ shutdown = FALSE /\ opened = "none"
    /\ stream = Nobody /\ table = NoTable
    /\ file = [p \in Players |-> NoFile] /\ cmd = [p \in Players |-> NoCmd]
    /\ done = [p \in Players |-> NoCmd]
    /\ queue = <<>> /\ active = Nobody /\ access = {} /\ faults = 0

-----------------------------------------------------------------------------
(* The main thread.  stop sets m_shutdown and joins the worker; the layer  *)
(* is opened and closed while the game has no file open.                   *)
Stop ==
    /\ shutdown' = (wk # "off")
    /\ wk' = IF wk = "asleep" THEN "awake" ELSE wk
    /\ main' = "stop"

Call(g) ==
    /\ main = "idle" /\ opens < MaxOpens /\ opens' = opens + 1
    /\ \A p \in Players : file[p] = NoFile
    /\ goal' = g
    /\ Stop
    /\ UNCHANGED <<image, discVars, task, opened, playVars, queue, active, access, faults>>

AuroraDvdOpen == Call("disc")
AuroraDvdOpenFiles == LooseFiles /\ Call("files")
AuroraDvdClose == Call("close")

(* The worker is joined: clearState, then start for a disc.  Loose files   *)
(* need no worker to open, only to read; a missing or torn disc.meta       *)
(* leaves the layer closed.  A failed open stops the worker, no more.      *)
Stopped ==
    /\ main = "stop" /\ wk = "off"
    /\ shutdown' = FALSE
    /\ stream' = IF goal = "fail" THEN stream ELSE Nobody
    /\ CASE goal = "disc" ->
              /\ mode' = "closed" /\ table' = NoTable
              /\ wk' = "awake" /\ main' = "call" /\ goal' = goal
         [] goal = "files" ->
              /\ \/ ParsesFst(image) /\ mode' = "loose" /\ table' = Table(image) /\ wk' = "awake"
                 \/ mode' = "closed" /\ table' = NoTable /\ wk' = wk
              /\ main' = "idle" /\ goal' = "none"
         [] goal = "close" ->
              /\ mode' = "closed" /\ table' = NoTable /\ wk' = wk
              /\ main' = "idle" /\ goal' = "none"
         [] goal = "fail" ->
              /\ UNCHANGED <<mode, table, wk>>
              /\ main' = "idle" /\ goal' = "none"
    /\ UNCHANGED <<image, opens, task, opened, playVars, queue, active, access, faults>>

(* runSync, up to the wait for the future.                                 *)
RunSync ==
    /\ main = "call"
    /\ task' = TRUE /\ opened' = "none"
    /\ wk' = IF wk = "asleep" THEN "awake" ELSE wk
    /\ main' = "wait"
    /\ UNCHANGED <<image, discVars, goal, opens, shutdown, playVars, queue, active, access, faults>>

RunSyncReturns ==
    /\ main = "wait" /\ opened # "none"
    /\ IF opened = "yes"
       THEN main' = "idle" /\ goal' = "none" /\ UNCHANGED <<wk, shutdown>>
       ELSE Stop /\ goal' = "fail"
    /\ UNCHANGED <<image, discVars, opens, task, opened, playVars, queue, active, access, faults>>

-----------------------------------------------------------------------------
(* The worker's loop.  Faulty variant: its wait ignores m_syncTask.        *)
BadReady == shutdown \/ queue # <<>>
Ready == shutdown \/ queue # <<>> \/ task

WorkerSleep ==
    /\ wk = "awake" /\ ~Ready
    /\ wk' = "asleep"
    /\ UNCHANGED <<image, discVars, mainVars, task, shutdown, opened, playVars, queue, active,
                   access, faults>>

WorkerLoop ==
    /\ wk = "awake" /\ Ready
    /\ \/ shutdown /\ wk' = "off" /\ UNCHANGED <<task, queue, active>>
       \/ ~shutdown /\ task /\ task' = FALSE /\ wk' = "stream" /\ UNCHANGED <<queue, active>>
       \/ /\ ~shutdown /\ ~task
          /\ active' = Head(queue) /\ queue' = Tail(queue)
          /\ wk' = "seek" /\ UNCHANGED task
    /\ UNCHANGED <<image, discVars, mainVars, shutdown, opened, playVars, access, faults>>

(* A thread reads the disc's stream.                                       *)
Reads(reader) == access' = access \cup {<<stream, reader>>}

Settle(result) ==
    /\ opened' = result
    /\ wk' = "awake"
    /\ mode' = IF result = "yes" THEN "disc" ELSE mode

(* openDiscBody: the stream, the header, the file table and the program,   *)
(* each read under the I/O lock; any of them may fail.                     *)
Fault == faults < MaxFaults /\ faults' = faults + 1

DiscStep(here, there, works) ==
    /\ wk = here
    /\ Reads(Worker)
    /\ \/ works /\ wk' = there /\ UNCHANGED <<mode, opened, faults>>
       \/ ~works /\ Settle("no") /\ UNCHANGED faults
       \/ Fault /\ Settle("no")
    /\ UNCHANGED <<image, stream, mainVars, task, shutdown, playVars, queue, active>>

OpenStream ==
    /\ wk = "stream"
    /\ \/ stream' = Worker /\ wk' = "header" /\ UNCHANGED <<mode, opened, faults>>
       \/ Fault /\ Settle("no") /\ UNCHANGED stream
    /\ UNCHANGED <<image, table, mainVars, task, shutdown, playVars, queue, active, access>>

OpenHeader == DiscStep("header", "table", Opens(image)) /\ UNCHANGED table

OpenTable ==
    /\ DiscStep("table", "dol", ParsesFst(image))
    /\ table' = IF wk' = "dol" THEN Table(image) ELSE NoTable

OpenDol ==
    /\ wk = "dol"
    /\ Reads(Worker)
    /\ \/ Settle("yes") /\ UNCHANGED faults /\ DolReads(image)
       \/ Settle("no") /\ UNCHANGED faults /\ ~DolReads(image)
       \/ Settle("no") /\ Fault
    /\ UNCHANGED <<image, stream, table, mainVars, task, shutdown, playVars, queue, active>>

-----------------------------------------------------------------------------
(* gc_disc_ensure_fst after the first call: no access to the stream.       *)
(* Faulty variant: the table is read again by whoever asks.                *)
BadEnsureFst(caller) == Reads(caller)
EnsureFst(caller) == UNCHANGED access

(* DVDFastOpen: in disc mode a view of the image, in loose mode a stream   *)
(* of its own, opened here and now by the calling thread.  That no call of *)
(* the main thread is under way and that a player has one file open at a   *)
(* time are assumptions on the callers, not checks of the code: the        *)
(* launcher opens the layer before there are game threads.                 *)
DVDFastOpen(p, e) ==
    /\ main = "idle" /\ mode # "closed" /\ file[p] = NoFile
    /\ IsFile(table, e)
    /\ file' = [file EXCEPT ![p] =
          [entry |-> e, opener |-> IF mode = "loose" THEN p ELSE Nobody,
           view |-> FileView(table, e)]]
    /\ done' = [done EXCEPT ![p] = NoCmd]
    /\ IF mode = "disc" THEN EnsureFst(p) ELSE UNCHANGED access
    /\ UNCHANGED <<image, discVars, mainVars, wk, task, shutdown, opened, cmd, queue, active, faults>>

DVDRead(p, off, n) ==
    /\ file[p] # NoFile /\ cmd[p] = NoCmd
    /\ cmd' = [cmd EXCEPT ![p] = [off |-> off, n |-> n]]
    /\ done' = [done EXCEPT ![p] = NoCmd]
    /\ queue' = Append(queue, p)
    /\ wk' = IF wk = "asleep" THEN "awake" ELSE wk
    /\ UNCHANGED <<image, discVars, mainVars, task, shutdown, opened, file, active, access, faults>>

DVDClose(p) ==
    /\ file[p] # NoFile /\ cmd[p] = NoCmd
    /\ file' = [file EXCEPT ![p] = NoFile]
    /\ done' = [done EXCEPT ![p] = NoCmd]
    /\ UNCHANGED <<image, discVars, mainVars, wk, task, shutdown, opened, cmd, queue, active,
                   access, faults>>

(* The active command has its result: bytes from .. from + got - 1.        *)
Deliver(from, got) ==
    /\ done' = [done EXCEPT ![active] =
          [off |-> cmd[active].off, n |-> cmd[active].n, from |-> from, got |-> got]]
    /\ cmd' = [cmd EXCEPT ![active] = NoCmd]
    /\ active' = Nobody /\ wk' = "awake"

(* seek of the command's data: nod_seek checks the view, SDL_SeekIO takes  *)
(* any offset.                                                             *)
WorkerSeek ==
    /\ wk = "seek"
    /\ LET off == cmd[active].off
       IN  IF mode = "loose" \/ SeekOk(file[active].view, off)
           THEN /\ file' = [file EXCEPT ![active].view.pos = off]
                /\ wk' = "read" /\ UNCHANGED <<done, cmd, active>>
           ELSE Deliver(0, -1) /\ UNCHANGED file
    /\ UNCHANGED <<image, discVars, mainVars, task, shutdown, opened, queue, access, faults>>

(* nod_read: one positioned read of the disc stream, under the I/O lock.   *)
DiscRead ==
    /\ wk = "read" /\ mode = "disc"
    /\ Reads(Worker)
    /\ LET view == file[active].view
           from == view.base + view.pos
           all  == Available(image, from, ReadWant(view, cmd[active].n))
       IN  \E got \in {all, -1} :
              /\ IF got = -1 THEN Fault ELSE UNCHANGED faults
              /\ file' = [file EXCEPT ![active].view = Moved(@, got)]
              /\ Deliver(from, got)
    /\ UNCHANGED <<image, discVars, mainVars, task, shutdown, opened, queue>>

(* CommandDataLoose::read: the file's own stream, without the lock, until  *)
(* all is read; the tail behind its end is zero-filled.                    *)
LooseRead ==
    /\ wk = "read" /\ mode = "loose"
    /\ access' = access \cup {<<file[active].opener, Worker>>}
    /\ LET view == file[active].view
       IN  \E got \in {cmd[active].n, -1} :
              /\ IF got = -1 THEN Fault ELSE UNCHANGED faults
              /\ file' = [file EXCEPT ![active].view =
                             IF got = -1 \/ view.pos >= view.length THEN view
                             ELSE [view EXCEPT !.pos = Lesser(view.pos + got, view.length)]]
              /\ Deliver(view.base + view.pos, got)
    /\ UNCHANGED <<image, discVars, mainVars, task, shutdown, opened, queue>>

-----------------------------------------------------------------------------
MainSteps == Stopped \/ RunSync \/ RunSyncReturns

WorkerSteps ==
    \/ WorkerSleep \/ WorkerLoop
    \/ OpenStream \/ OpenHeader \/ OpenTable \/ OpenDol
    \/ WorkerSeek \/ DiscRead \/ LooseRead

Next ==
    \/ AuroraDvdOpen \/ AuroraDvdOpenFiles \/ AuroraDvdClose
    \/ MainSteps
    \/ WorkerSteps
    \/ \E p \in Players :
          \/ \E e \in 0..MaxEntries : DVDFastOpen(p, e)
          \/ \E off \in Offsets, n \in Wants : DVDRead(p, off, n)
          \/ DVDClose(p)

(* The scheduler runs the main thread and the worker when they can run.    *)
Spec == Init /\ [][Next]_vars /\ WF_vars(MainSteps) /\ WF_vars(WorkerSteps)

-----------------------------------------------------------------------------
(* Horizon faults when a stream is read by a thread that did not open it,  *)
(* says the comment on DvdWorker::runSync.  The disc's stream never is:    *)
(* the worker that reads it has opened it, and nobody else touches it.     *)
DiscOpenerReads ==
    \A a \in access : a[1] \in {Main, Worker, Nobody} => a[1] = a[2]

(* The same of every stream, as that comment demands.                      *)
OpenerReads == \A a \in access : a[1] = a[2]

(* A disc read delivers exactly the bytes of the file it was asked of that *)
(* the image has, at the offset asked for, however the queue interleaves   *)
(* files; it fails only beyond the file's end or when a stream call fails  *)
(* (nod_seek, nod_read, gc_disc_read_at).                                  *)
ReadsOwnBytes ==
    mode = "disc" =>
        \A p \in Players : done[p] # NoCmd =>
            LET d     == done[p]
                e     == table[file[p].entry]
                asked == {i \in 0..(image.len - 1) :
                             /\ e.a + d.off <= i /\ i < e.a + d.off + d.n
                             /\ i < e.a + e.b}
            IN  \/ d.got >= 0 /\ d.from..(d.from + d.got - 1) = asked
                \/ d.got = -1 /\ (d.off > e.b \/ faults > 0)

(* Where extraction put a file is where loose mode looks for it: the stack *)
(* of extractCallback gives an entry the path of the directories whose     *)
(* ranges hold it, for every table whose ranges nest.                      *)
PathsAgree ==
    table # NoTable /\ WellNested(table) =>
        \A i \in 1..Len(table) : ExtractPath(table, i) = TruePath(table, i)

(* A call that opens or closes the layer returns: runSync never waits for  *)
(* a worker that sleeps over its task.                                     *)
CallReturns == main # "idle" ~> main = "idle"

=============================================================================
