--------------------------- MODULE DvdWorker_proofs ---------------------------
(***************************************************************************)
(* The DVD layer, for any images, players, offsets and lengths: the disc's *)
(* stream is read by the worker that opened it and by nobody else, and a   *)
(* read from the disc delivers exactly the bytes it was asked for.  And,   *)
(* for every table whose ranges nest, extraction derives the true paths.   *)
(***************************************************************************)
EXTENDS DvdWorker, RecursionLemmas, FiniteSetTheorems, SequenceTheorems, TLAPS

FileEntry == [dir : BOOLEAN, name : Nat \cup {NoName}, a : Nat, b : Nat]

(* The main thread is in a call only while the game has no file open, and  *)
(* the worker opens a disc only while main waits for it.                   *)
Opening == {"stream", "header", "table", "dol"}

InCall ==
    /\ main # "idle" => \A p \in Players : file[p] = NoFile
    /\ wk \in Opening \/ task => main = "wait" /\ opened = "none"
    /\ wk \in Opening => ~task
    /\ main = "stop" => goal # "none"
    /\ main = "call" \/ (main = "wait" /\ opened = "none") => mode = "closed"

(* A layer that is open has the table of the image, in disc mode with a    *)
(* stream of the worker's.                                                 *)
LayerReady ==
    /\ mode # "closed" \/ wk = "dol" => ParsesFst(image) /\ table = Table(image)
    /\ mode = "disc" \/ wk \in {"header", "table", "dol"} => stream = Worker

(* A file is open only in an open layer and shows its entry; commands and  *)
(* results belong to open files.                                           *)
FileShows(p) ==
    file[p] # NoFile =>
        /\ mode # "closed" /\ IsFile(table, file[p].entry)
        /\ file[p].view.base = table[file[p].entry].a
        /\ file[p].view.length = table[file[p].entry].b
        /\ mode = "loose" => file[p].opener = p

FilesOpen ==
    \A p \in Players :
        FileShows(p) /\ (cmd[p] # NoCmd \/ done[p] # NoCmd => file[p] # NoFile)

(* What is queued or active is a pending command, and none is both or      *)
(* queued twice.                                                           *)
Serving == wk \in {"seek", "read"}

QueueSound ==
    /\ \A i \in 1..Len(queue) :
          /\ cmd[queue[i]] # NoCmd
          /\ Serving => queue[i] # active
          /\ \A j \in 1..Len(queue) : i # j => queue[i] # queue[j]
    /\ Serving => active \in Players /\ cmd[active] # NoCmd
    /\ wk = "read" =>
          /\ file[active].view.pos = cmd[active].off
          /\ mode = "disc" => SeekOk(file[active].view, cmd[active].off)

(* The inductive invariant.                                                *)
IInv ==
    /\ Typed /\ InCall /\ LayerReady /\ FilesOpen /\ QueueSound
    /\ DiscOpenerReads /\ ReadsOwnBytes

-----------------------------------------------------------------------------
(* A read of the image gives a length no longer than was asked for.        *)
LEMMA AvailableIs ==
    ASSUME NEW img \in Image, NEW offset \in Nat, NEW n \in Nat
    PROVE  /\ Available(img, offset, n) \in Nat
           /\ Available(img, offset, n) <= n
           /\ offset >= img.len => Available(img, offset, n) = 0
           /\ offset < img.len => Available(img, offset, n) <= img.len - offset
           /\ \/ Available(img, offset, n) = n
              \/ offset < img.len /\ Available(img, offset, n) = img.len - offset
              \/ offset >= img.len
  BY DEF Available, Lesser, Image

(* The table kept of an image is a sequence of entries.                    *)
LEMMA TableIs ==
    ASSUME NEW img \in Images, ParsesFst(img)
    PROVE  Table(img) \in Seq(FileEntry)
  <1>1. img \in Image /\ img.count \in Nat \ {0} /\ img.count - 1 <= Len(img.entries)
    BY DvdAssumption DEF Image, ParsesFst
  <1>2. img.entries \in Seq(Entry)
    BY <1>1 DEF Image
  <1>3. \A i \in 1..(img.count - 1) : img.entries[i] \in Entry
    BY <1>1, <1>2
  <1> DEFINE Kept(i) == [dir  |-> img.entries[i].dir,
                         name |-> IF img.entries[i].name >= StringsLen(img) THEN NoName
                                  ELSE img.entries[i].name,
                         a    |-> img.entries[i].a,
                         b    |-> img.entries[i].b]
  <1>4. ASSUME NEW i \in 1..(img.count - 1) PROVE Kept(i) \in FileEntry
    <2>1. img.entries[i] \in Entry
      BY <1>3
    <2> QED BY <2>1 DEF Entry, FileEntry
  <1>5. Table(img) = [i \in 1..(img.count - 1) |-> Kept(i)]
    BY DEF Table
  <1>6. img.count - 1 \in Nat
    BY <1>1
  <1> HIDE DEF Kept
  <1> QED BY <1>4, <1>5, <1>6

(* What IsFile accepts is an entry of the table, with an extent.           *)
LEMMA FileExtent ==
    ASSUME NEW t \in Seq(FileEntry), NEW e \in Nat, IsFile(t, e)
    PROVE  e \in 1..Len(t) /\ t[e].a \in Nat /\ t[e].b \in Nat
  <1>1. e \in 1..Len(t)
    BY DEF IsFile
  <1>2. t[e] \in FileEntry
    BY <1>1
  <1> QED BY <1>1, <1>2 DEF FileEntry

-----------------------------------------------------------------------------
LEMMA InitIInv == Init => IInv
  <1> SUFFICES ASSUME Init PROVE IInv
    OBVIOUS
  <1>1. Typed
    <2>1. /\ file \in [Players -> {NoFile} \cup OpenFile]
          /\ cmd \in [Players -> {NoCmd} \cup Command]
          /\ done \in [Players -> {NoCmd} \cup Result]
      BY DEF Init
    <2>2. queue \in Seq(Players)
      BY DEF Init
    <2> QED BY <2>1, <2>2 DEF Init, Typed, WorkerPlaces
  <1>2. InCall /\ LayerReady /\ FilesOpen
    BY DEF Init, InCall, LayerReady, FilesOpen, FileShows, Opening
  <1>3. QueueSound /\ DiscOpenerReads /\ ReadsOwnBytes
    BY DEF Init, QueueSound, Serving, DiscOpenerReads, ReadsOwnBytes
  <1> QED BY <1>1, <1>2, <1>3 DEF IInv

(* With no file open there is no command and no result, and the worker     *)
(* serves nothing.                                                         *)
LEMMA NoFileNothing ==
    ASSUME IInv, \A p \in Players : file[p] = NoFile
    PROVE  /\ \A p \in Players : cmd[p] = NoCmd /\ done[p] = NoCmd
           /\ queue = <<>> /\ ~Serving
  <1>1. \A p \in Players : cmd[p] = NoCmd /\ done[p] = NoCmd
    BY DEF IInv, FilesOpen
  <1>2. queue \in Seq(Players)
    BY DEF IInv, Typed
  <1>3. ASSUME queue # <<>> PROVE FALSE
    <2>1. 1 \in 1..Len(queue) /\ queue[1] \in Players
      BY <1>2, <1>3
    <2> QED BY <1>1, <2>1 DEF IInv, QueueSound
  <1>4. ~Serving
    BY <1>1 DEF IInv, QueueSound
  <1> QED BY <1>1, <1>3, <1>4

(* A step of a call into the layer, or of the worker that opens a disc for *)
(* it: nothing of the game's changes, and there is nothing.                *)
LEMMA Idle ==
    ASSUME IInv, \A p \in Players : file[p] = NoFile,
           UNCHANGED <<playVars, queue, active>>, wk' \notin {"seek", "read"}
    PROVE  FilesOpen' /\ QueueSound' /\ ReadsOwnBytes' /\ (\A p \in Players : file'[p] = NoFile)
  <1>1. \A p \in Players : file'[p] = NoFile /\ cmd'[p] = NoCmd /\ done'[p] = NoCmd
    BY NoFileNothing DEF playVars
  <1>2. queue' = <<>> /\ ~Serving'
    BY NoFileNothing DEF Serving
  <1>3. FilesOpen'
    BY <1>1 DEF FilesOpen, FileShows
  <1>4. QueueSound'
    BY <1>2 DEF QueueSound, Serving
  <1>5. ReadsOwnBytes'
    BY <1>1 DEF ReadsOwnBytes
  <1> QED BY <1>1, <1>3, <1>4, <1>5

-----------------------------------------------------------------------------
LEMMA CallIInv ==
    ASSUME IInv, NEW g \in {"disc", "files", "close"}, Call(g)
    PROVE  IInv'
  <1> USE DEF Call, Stop, discVars, playVars
  <1>0. \A p \in Players : file[p] = NoFile
    OBVIOUS
  <1>1. Typed'
    BY DEF IInv, Typed, WorkerPlaces
  <1>2. wk' \notin {"seek", "read"}
    BY <1>0, NoFileNothing DEF Serving
  <1>3. FilesOpen' /\ QueueSound' /\ ReadsOwnBytes' /\ (\A p \in Players : file'[p] = NoFile)
    BY <1>0, <1>2, Idle
  <1>4. wk' \in Opening \/ wk' = "dol" => wk' = wk
    BY DEF Opening
  <1>5. InCall'
    BY <1>3, <1>4 DEF IInv, InCall
  <1>6. LayerReady'
    BY <1>4 DEF IInv, LayerReady, Opening
  <1>7. DiscOpenerReads'
    BY DEF IInv, DiscOpenerReads
  <1> QED BY <1>1, <1>3, <1>5, <1>6, <1>7 DEF IInv

LEMMA StoppedIInv ==
    ASSUME IInv, Stopped
    PROVE  IInv'
  <1> USE DEF Stopped, discVars, playVars
  <1>0. \A p \in Players : file[p] = NoFile
    BY DEF IInv, InCall
  <1>1. /\ main' \in {"call", "idle"} /\ wk' \in {"off", "awake"}
        /\ mode' \in {"closed", "disc", "loose"}
        /\ goal' \in {"none", "disc"}
        /\ stream' \in {stream, Nobody}
    BY DEF IInv, InCall, Typed
  <1>2. Typed'
    BY <1>1 DEF IInv, Typed, WorkerPlaces
  <1>3. FilesOpen' /\ QueueSound' /\ ReadsOwnBytes' /\ (\A p \in Players : file'[p] = NoFile)
    BY <1>0, <1>1, Idle
  <1>4. ~task
    BY DEF IInv, InCall
  <1>5. InCall'
    <2>1. main' = "call" => mode' = "closed"
      BY DEF IInv, InCall, Typed
    <2> QED BY <1>1, <1>3, <1>4, <2>1 DEF InCall, Opening
  <1>6. LayerReady'
    <2>1. CASE goal = "fail"
      BY <2>1 DEF IInv, LayerReady
    <2>2. CASE goal # "fail"
      <3>1. mode' = "closed" \/ (mode' = "loose" /\ ParsesFst(image) /\ table' = Table(image))
        BY <2>2 DEF IInv, InCall, Typed
      <3> QED BY <1>1, <3>1 DEF LayerReady
    <2> QED BY <2>1, <2>2
  <1>7. DiscOpenerReads'
    BY DEF IInv, DiscOpenerReads
  <1> QED BY <1>2, <1>3, <1>5, <1>6, <1>7 DEF IInv

LEMMA RunSyncIInv ==
    ASSUME IInv, RunSync
    PROVE  IInv'
  <1> USE DEF RunSync, discVars, playVars
  <1>0. \A p \in Players : file[p] = NoFile
    BY DEF IInv, InCall
  <1>1. Typed'
    BY DEF IInv, Typed, WorkerPlaces
  <1>2. wk \notin Opening /\ wk' \in {wk, "awake"}
    BY DEF IInv, InCall
  <1>3. wk' \notin {"seek", "read"}
    BY <1>0, <1>2, NoFileNothing DEF Serving
  <1>4. FilesOpen' /\ QueueSound' /\ ReadsOwnBytes' /\ (\A p \in Players : file'[p] = NoFile)
    BY <1>0, <1>3, Idle
  <1>5. InCall'
    BY <1>2, <1>4 DEF IInv, InCall, Opening
  <1>6. LayerReady'
    BY <1>2 DEF IInv, LayerReady, Opening
  <1>7. DiscOpenerReads'
    BY DEF IInv, DiscOpenerReads
  <1> QED BY <1>1, <1>4, <1>5, <1>6, <1>7 DEF IInv

LEMMA RunSyncReturnsIInv ==
    ASSUME IInv, RunSyncReturns
    PROVE  IInv'
  <1> USE DEF RunSyncReturns, Stop, discVars, playVars
  <1>0. \A p \in Players : file[p] = NoFile
    BY DEF IInv, InCall
  <1>1. Typed'
    BY DEF IInv, Typed, WorkerPlaces
  <1>2. wk \notin Opening /\ ~task /\ wk' \in {wk, "awake"} /\ main' \in {"idle", "stop"}
    BY DEF IInv, InCall
  <1>3. wk' \notin {"seek", "read"}
    BY <1>0, <1>2, NoFileNothing DEF Serving
  <1>4. FilesOpen' /\ QueueSound' /\ ReadsOwnBytes' /\ (\A p \in Players : file'[p] = NoFile)
    BY <1>0, <1>3, Idle
  <1>5. InCall'
    <2>1. main' = "stop" => goal' = "fail"
      OBVIOUS
    <2> QED BY <1>2, <1>4, <2>1 DEF IInv, InCall, Opening
  <1>6. LayerReady'
    BY <1>2 DEF IInv, LayerReady, Opening
  <1>7. DiscOpenerReads'
    BY DEF IInv, DiscOpenerReads
  <1> QED BY <1>1, <1>4, <1>5, <1>6, <1>7 DEF IInv

-----------------------------------------------------------------------------
(* A result d of a read of entry e is right; ReadsOwnBytes says it of all. *)
ReadOk(e, d) ==
    LET asked == {i \in 0..(image.len - 1) :
                     /\ e.a + d.off <= i /\ i < e.a + d.off + d.n
                     /\ i < e.a + e.b}
    IN  \/ d.got >= 0 /\ d.from..(d.from + d.got - 1) = asked
        \/ d.got = -1 /\ (d.off > e.b \/ faults > 0)

(* A step of player p or of p's command disturbs no other's result.        *)
LEMMA OtherResults ==
    ASSUME IInv, NEW p \in Players, UNCHANGED <<image, mode, table>>,
           faults' \in Nat, faults' >= faults,
           \A q \in Players \ {p} : file'[q] = file[q] /\ done'[q] = done[q],
           mode = "disc" /\ done'[p] # NoCmd => ReadOk(table[file[p].entry], done[p])'
    PROVE  ReadsOwnBytes'
  <1>1. SUFFICES ASSUME mode = "disc", NEW q \in Players, done'[q] # NoCmd
                 PROVE  ReadOk(table[file[q].entry], done[q])'
    BY DEF ReadsOwnBytes, ReadOk
  <1>2. CASE q = p
    BY <1>1, <1>2
  <1>3. CASE q # p
    <2>1. ReadOk(table[file[q].entry], done[q])
      BY <1>1, <1>3 DEF IInv, ReadsOwnBytes, ReadOk
    <2>2. faults > 0 => faults' > 0
      BY DEF IInv, Typed
    <2>3. table'[file'[q].entry] = table[file[q].entry] /\ done'[q] = done[q]
      BY <1>3
    <2> QED BY <2>1, <2>2, <2>3 DEF ReadOk
  <1> QED BY <1>2, <1>3

LEMMA SameResults ==
    ASSUME IInv, UNCHANGED <<mode, done, table, file, image>>, faults' \in Nat, faults' >= faults
    PROVE  ReadsOwnBytes'
  <1>1. SUFFICES ASSUME mode = "disc", NEW q \in Players, done'[q] # NoCmd
                 PROVE  ReadOk(table[file[q].entry], done[q])'
    BY DEF ReadsOwnBytes, ReadOk
  <1>2. ReadOk(table[file[q].entry], done[q])
    BY <1>1 DEF IInv, ReadsOwnBytes, ReadOk
  <1>3. faults > 0 => faults' > 0
    BY DEF IInv, Typed
  <1> QED BY <1>2, <1>3 DEF ReadOk

LEMMA WorkerSleepIInv ==
    ASSUME IInv, WorkerSleep
    PROVE  IInv'
  <1> USE DEF WorkerSleep, discVars, mainVars, playVars
  <1>1. Typed'
    BY DEF IInv, Typed, WorkerPlaces
  <1>2. InCall' /\ LayerReady'
    BY DEF IInv, InCall, LayerReady, Opening
  <1>3. FilesOpen'
    BY DEF IInv, FilesOpen, FileShows
  <1>4. QueueSound'
    BY DEF IInv, QueueSound, Serving
  <1>5. DiscOpenerReads'
    BY DEF IInv, DiscOpenerReads
  <1>6. ReadsOwnBytes'
    BY SameResults DEF IInv, Typed
  <1> QED BY <1>1, <1>2, <1>3, <1>4, <1>5, <1>6 DEF IInv

LEMMA WorkerLoopIInv ==
    ASSUME IInv, WorkerLoop
    PROVE  IInv'
  <1> USE DEF WorkerLoop, discVars, mainVars, playVars
  <1>0. /\ queue \in Seq(Players) /\ wk = "awake"
        /\ wk' \in {"off", "stream", "seek"}
        /\ wk' = "seek" => queue # <<>> /\ ~task' /\ active' = Head(queue) /\ queue' = Tail(queue)
        /\ wk' # "seek" => queue' = queue /\ active' = active
    BY DEF IInv, Typed, Ready
  <1>1. wk' = "seek" =>
          /\ queue' \in Seq(Players) /\ Len(queue') = Len(queue) - 1
          /\ active' \in Players /\ active' = queue[1] /\ 1 \in 1..Len(queue)
          /\ \A i \in 1..Len(queue') : queue'[i] = queue[i + 1] /\ i + 1 \in 1..Len(queue)
    BY <1>0
  <1>2. Typed'
    <2>1. wk' \in WorkerPlaces
      BY <1>0 DEF WorkerPlaces
    <2>2. queue' \in Seq(Players) /\ active' \in Players \cup {Nobody}
      BY <1>0, <1>1 DEF IInv, Typed
    <2>3. task \in BOOLEAN
      BY DEF IInv, Typed
    <2>4. task' \in BOOLEAN
      <3>1. CASE task' = task
        BY <2>3, <3>1, Zenon
      <3>2. CASE task' = FALSE
        BY <3>2, Zenon
      <3> QED BY <3>1, <3>2
    <2> QED BY <2>1, <2>2, <2>4 DEF IInv, Typed
  <1>3. InCall'
    BY <1>0 DEF IInv, InCall, Opening, Typed
  <1>4. LayerReady'
    BY <1>0 DEF IInv, LayerReady
  <1>5. FilesOpen'
    BY DEF IInv, FilesOpen, FileShows
  <1>6. QueueSound'
    <2>1. CASE wk' = "seek"
      <3>1. Len(queue) \in Nat /\ Len(queue') \in Nat
        BY <1>0, <1>1, <2>1
      <3>2. ASSUME NEW i \in 1..Len(queue')
            PROVE  /\ cmd[queue'[i]] # NoCmd /\ queue'[i] # active'
                   /\ \A j \in 1..Len(queue') : i # j => queue'[i] # queue'[j]
        <4>1. i + 1 \in 1..Len(queue) /\ queue'[i] = queue[i + 1] /\ i + 1 # 1
          BY <1>1, <2>1
        <4>2. cmd[queue'[i]] # NoCmd /\ queue[i + 1] # queue[1]
          BY <1>1, <2>1, <4>1 DEF IInv, QueueSound
        <4>3. ASSUME NEW j \in 1..Len(queue'), i # j PROVE queue'[i] # queue'[j]
          <5>1. j + 1 \in 1..Len(queue) /\ queue'[j] = queue[j + 1] /\ i + 1 # j + 1
            BY <1>1, <2>1, <4>3
          <5> QED BY <4>1, <5>1 DEF IInv, QueueSound
        <4> QED BY <1>1, <2>1, <4>1, <4>2, <4>3
      <3>3. active' \in Players /\ cmd[active'] # NoCmd
        BY <1>1, <2>1 DEF IInv, QueueSound
      <3> QED BY <2>1, <3>2, <3>3 DEF QueueSound, Serving
    <2>2. CASE wk' # "seek"
      BY <1>0, <2>2 DEF IInv, QueueSound, Serving
    <2> QED BY <2>1, <2>2
  <1>7. DiscOpenerReads'
    BY DEF IInv, DiscOpenerReads
  <1>8. ReadsOwnBytes'
    BY SameResults DEF IInv, Typed
  <1> QED BY <1>2, <1>3, <1>4, <1>5, <1>6, <1>7, <1>8 DEF IInv

(* A step of openDiscBody, whichever read it makes and however it ends.    *)
LEMMA OpeningIInv ==
    ASSUME IInv, wk \in Opening,
           UNCHANGED <<image, mainVars, task, shutdown, playVars, queue, active>>,
           faults' \in Nat, stream' \in {stream, Worker},
           access' \in {access, access \cup {<<stream, Worker>>}},
           access' # access => stream = Worker,
           \/ /\ wk' \in {"header", "table", "dol"} /\ stream' = Worker
              /\ UNCHANGED <<mode, opened>>
              /\ wk' = "dol" => ParsesFst(image) /\ table' = Table(image)
           \/ /\ wk' = "awake" /\ opened' = "no" /\ UNCHANGED mode
           \/ /\ wk' = "awake" /\ opened' = "yes" /\ mode' = "disc"
              /\ ParsesFst(image) /\ table' = Table(image) /\ stream' = Worker
    PROVE  IInv'
  <1> USE DEF mainVars, playVars
  <1>0. main = "wait" /\ opened = "none" /\ mode = "closed" /\ ~task
    BY DEF IInv, InCall
  <1>1. \A p \in Players : file[p] = NoFile
    BY <1>0 DEF IInv, InCall
  <1>2. Typed'
    BY DEF IInv, Typed, WorkerPlaces
  <1>3. FilesOpen' /\ QueueSound' /\ ReadsOwnBytes' /\ (\A p \in Players : file'[p] = NoFile)
    BY <1>1, Idle
  <1>4. InCall'
    BY <1>0, <1>3 DEF InCall, Opening
  <1>5. LayerReady'
    BY <1>0 DEF LayerReady
  <1>6. DiscOpenerReads'
    BY DEF IInv, DiscOpenerReads
  <1> QED BY <1>2, <1>3, <1>4, <1>5, <1>6 DEF IInv

LEMMA OpenDiscIInv ==
    ASSUME IInv, OpenStream \/ OpenHeader \/ OpenTable \/ OpenDol
    PROVE  IInv'
  <1> USE DEF Settle, Fault, Reads
  <1>1. faults \in Nat
    BY DEF IInv, Typed
  <1>2. CASE OpenStream
    BY <1>1, <1>2, OpeningIInv DEF OpenStream, Opening
  <1>3. CASE OpenHeader
    <2>1. stream = Worker
      BY <1>3 DEF IInv, LayerReady, OpenHeader, DiscStep
    <2> QED BY <1>1, <1>3, <2>1, OpeningIInv DEF OpenHeader, DiscStep, Opening
  <1>4. CASE OpenTable
    <2>1. stream = Worker
      BY <1>4 DEF IInv, LayerReady, OpenTable, DiscStep
    <2> QED BY <1>1, <1>4, <2>1, OpeningIInv DEF OpenTable, DiscStep, Opening
  <1>5. CASE OpenDol
    <2>1. stream = Worker /\ ParsesFst(image) /\ table = Table(image)
      BY <1>5 DEF IInv, LayerReady, OpenDol
    <2> QED BY <1>1, <1>5, <2>1, OpeningIInv DEF OpenDol, Opening
  <1> QED BY <1>2, <1>3, <1>4, <1>5

-----------------------------------------------------------------------------
(* The entry of an open file.                                              *)
LEMMA OpenEntry ==
    ASSUME IInv, mode # "closed", NEW e \in Nat, IsFile(table, e)
    PROVE  table[e].a \in Nat /\ table[e].b \in Nat
  <1>1. image \in Images /\ ParsesFst(image) /\ table = Table(image)
    BY DEF IInv, Typed, LayerReady
  <1>2. table \in Seq(FileEntry)
    BY <1>1, TableIs
  <1> QED BY <1>2, FileExtent

LEMMA DVDFastOpenIInv ==
    ASSUME IInv, NEW p \in Players, NEW e \in 0..MaxEntries, DVDFastOpen(p, e)
    PROVE  IInv'
  <1> USE DEF DVDFastOpen, EnsureFst, discVars, mainVars
  <1> DEFINE opener == IF mode = "loose" THEN p ELSE Nobody
             new == [entry |-> e, opener |-> opener, view |-> FileView(table, e)]
  <1>0. e \in Nat
    BY GcAssumption
  <1>1. table[e].a \in Nat /\ table[e].b \in Nat
    BY <1>0, OpenEntry
  <1>2. new \in OpenFile
    BY <1>0, <1>1 DEF OpenFile, View, FileView
  <1>3. /\ file' = [file EXCEPT ![p] = new] /\ file'[p] = new
        /\ file' \in [Players -> {NoFile} \cup OpenFile]
        /\ done' \in [Players -> {NoCmd} \cup Result] /\ done'[p] = NoCmd
    BY <1>2 DEF IInv, Typed
  <1>4. \A q \in Players \ {p} : file'[q] = file[q] /\ done'[q] = done[q]
    BY DEF IInv, Typed
  <1>5. Typed'
    BY <1>3 DEF IInv, Typed
  <1>6. InCall' /\ LayerReady'
    BY DEF IInv, InCall, LayerReady, Opening
  <1>7. FilesOpen'
    <2>1. FileShows(p)'
      BY <1>3 DEF FileShows, FileView
    <2>2. ASSUME NEW q \in Players, q # p PROVE FileShows(q)'
      <3>1. FileShows(q)
        BY DEF IInv, FilesOpen
      <3> QED BY <1>4, <2>2, <3>1 DEF FileShows
    <2>3. file'[p] # NoFile
      BY <1>2, <1>3, DvdAssumption
    <2>4. ASSUME NEW q \in Players PROVE cmd'[q] # NoCmd \/ done'[q] # NoCmd => file'[q] # NoFile
      BY <1>4, <2>3 DEF IInv, FilesOpen
    <2> QED BY <2>1, <2>2, <2>4 DEF FilesOpen
  <1>8. QueueSound'
    <2>1. wk = "read" => active # p /\ active \in Players
      BY DEF IInv, QueueSound, FilesOpen, Serving
    <2>2. wk = "read" => file'[active] = file[active]
      BY <1>4, <2>1
    <2> QED BY <2>2 DEF IInv, QueueSound, Serving
  <1>9. DiscOpenerReads'
    BY DEF IInv, DiscOpenerReads
  <1>10. ReadsOwnBytes'
    BY <1>3, <1>4, OtherResults DEF IInv, Typed
  <1> QED BY <1>5, <1>6, <1>7, <1>8, <1>9, <1>10 DEF IInv

LEMMA DVDReadIInv ==
    ASSUME IInv, NEW p \in Players, NEW off \in Offsets, NEW n \in Wants, DVDRead(p, off, n)
    PROVE  IInv'
  <1> USE DEF DVDRead, discVars, mainVars
  <1> DEFINE new == [off |-> off, n |-> n]
  <1>0. new \in Command /\ new # NoCmd
    BY DvdAssumption DEF Command
  <1>1. queue \in Seq(Players) /\ Len(queue) \in Nat
    BY DEF IInv, Typed
  <1>2. /\ queue' \in Seq(Players) /\ Len(queue') = Len(queue) + 1
        /\ queue'[Len(queue) + 1] = p
        /\ \A i \in 1..Len(queue) : queue'[i] = queue[i] /\ queue[i] \in Players
    BY <1>1
  <1>3. /\ cmd' = [cmd EXCEPT ![p] = new] /\ cmd'[p] = new
        /\ cmd' \in [Players -> {NoCmd} \cup Command]
        /\ done' \in [Players -> {NoCmd} \cup Result] /\ done'[p] = NoCmd
    BY <1>0 DEF IInv, Typed
  <1>4. \A q \in Players \ {p} : cmd'[q] = cmd[q] /\ done'[q] = done[q]
    BY DEF IInv, Typed
  <1>5. wk' = wk \/ (wk = "asleep" /\ wk' = "awake")
    OBVIOUS
  <1>6. Typed'
    BY <1>2, <1>3, <1>5 DEF IInv, Typed, WorkerPlaces
  <1>7. InCall' /\ LayerReady'
    BY <1>5 DEF IInv, InCall, LayerReady, Opening
  <1>8. FilesOpen'
    <2>1. \A q \in Players : FileShows(q)'
      BY DEF IInv, FilesOpen, FileShows
    <2> QED BY <1>3, <1>4, <2>1 DEF IInv, FilesOpen
  <1>9. QueueSound'
    <2>1. Serving' <=> Serving
      BY <1>5 DEF Serving
    <2>2. \A i \in 1..Len(queue) : queue[i] # p
      BY DEF IInv, QueueSound
    <2>3. Serving => active \in Players /\ active # p /\ cmd'[active] = cmd[active]
      BY <1>4 DEF IInv, QueueSound
    <2>4. ASSUME NEW i \in 1..Len(queue')
          PROVE  /\ cmd'[queue'[i]] # NoCmd
                 /\ Serving => queue'[i] # active
                 /\ \A j \in 1..Len(queue') : i # j => queue'[i] # queue'[j]
      <3>1. CASE i = Len(queue) + 1
        <4>1. queue'[i] = p /\ \A j \in 1..Len(queue') : i # j => j \in 1..Len(queue)
          BY <1>1, <1>2, <3>1
        <4> QED BY <1>0, <1>2, <1>3, <2>2, <2>3, <4>1
      <3>2. CASE i # Len(queue) + 1
        <4>1. i \in 1..Len(queue) /\ queue'[i] = queue[i] /\ queue[i] # p /\ queue[i] \in Players
          BY <1>1, <1>2, <2>2, <3>2
        <4>2. cmd'[queue[i]] # NoCmd /\ (Serving => queue[i] # active)
          BY <1>4, <4>1 DEF IInv, QueueSound
        <4>3. ASSUME NEW j \in 1..Len(queue'), i # j PROVE queue'[i] # queue'[j]
          <5>1. CASE j \in 1..Len(queue)
            BY <1>2, <4>1, <4>3, <5>1 DEF IInv, QueueSound
          <5>2. CASE j \notin 1..Len(queue)
            <6>1. j = Len(queue) + 1
              BY <1>1, <1>2, <5>2
            <6> QED BY <1>2, <4>1, <6>1
          <5> QED BY <5>1, <5>2
        <4> QED BY <4>1, <4>2, <4>3
      <3> QED BY <3>1, <3>2
    <2>5. wk' = "read" => wk = "read" /\ Serving /\ Serving'
      BY <1>5 DEF Serving
    <2> QED BY <2>1, <2>3, <2>4, <2>5 DEF IInv, QueueSound
  <1>10. DiscOpenerReads'
    BY DEF IInv, DiscOpenerReads
  <1>11. ReadsOwnBytes'
    BY <1>3, <1>4, OtherResults DEF IInv, Typed
  <1> QED BY <1>6, <1>7, <1>8, <1>9, <1>10, <1>11 DEF IInv

LEMMA DVDCloseIInv ==
    ASSUME IInv, NEW p \in Players, DVDClose(p)
    PROVE  IInv'
  <1> USE DEF DVDClose, discVars, mainVars
  <1>1. /\ file' \in [Players -> {NoFile} \cup OpenFile] /\ file'[p] = NoFile
        /\ done' \in [Players -> {NoCmd} \cup Result] /\ done'[p] = NoCmd
    BY DEF IInv, Typed
  <1>2. \A q \in Players \ {p} : file'[q] = file[q] /\ done'[q] = done[q]
    BY DEF IInv, Typed
  <1>3. Typed'
    BY <1>1 DEF IInv, Typed
  <1>4. InCall' /\ LayerReady'
    BY <1>1, <1>2 DEF IInv, InCall, LayerReady, Opening
  <1>5. FilesOpen'
    <2>1. \A q \in Players : FileShows(q)'
      BY <1>1, <1>2 DEF IInv, FilesOpen, FileShows
    <2> QED BY <1>1, <1>2, <2>1 DEF IInv, FilesOpen
  <1>6. QueueSound'
    <2>1. wk = "read" => active # p /\ active \in Players
      BY DEF IInv, QueueSound, Serving
    <2>2. wk = "read" => file'[active] = file[active]
      BY <1>2, <2>1
    <2> QED BY <2>2 DEF IInv, QueueSound, Serving
  <1>7. DiscOpenerReads'
    BY DEF IInv, DiscOpenerReads
  <1>8. ReadsOwnBytes'
    BY <1>1, <1>2, OtherResults DEF IInv, Typed
  <1> QED BY <1>3, <1>4, <1>5, <1>6, <1>7, <1>8 DEF IInv

-----------------------------------------------------------------------------
(* The command that is served belongs to an open file.                     *)
LEMMA ServedFile ==
    ASSUME IInv, Serving
    PROVE  /\ active \in Players /\ cmd[active] \in Command /\ file[active] \in OpenFile
           /\ main = "idle" /\ mode # "closed"
           /\ table[file[active].entry].a \in Nat /\ table[file[active].entry].b \in Nat
           /\ FileShows(active) /\ file[active] # NoFile
  <1>1. active \in Players /\ cmd[active] # NoCmd
    BY DEF IInv, QueueSound
  <1>2. cmd[active] \in Command
    BY <1>1 DEF IInv, Typed
  <1>3. file[active] # NoFile /\ FileShows(active)
    BY <1>1 DEF IInv, FilesOpen
  <1>4. file[active] \in OpenFile
    BY <1>1, <1>3 DEF IInv, Typed
  <1>5. main = "idle" /\ mode # "closed"
    BY <1>1, <1>3 DEF IInv, InCall, FileShows
  <1>6. file[active].entry \in Nat /\ IsFile(table, file[active].entry)
    BY <1>3, <1>4 DEF FileShows, OpenFile
  <1> QED BY <1>1, <1>2, <1>3, <1>4, <1>5, <1>6, OpenEntry

(* The active command gets its result, and its file's cursor moves.        *)
LEMMA DeliverIInv ==
    ASSUME IInv, Serving, NEW p, p = active,
           NEW from \in Nat, NEW got \in Nat \cup {-1}, Deliver(from, got),
           NEW pos \in Nat, file' = [file EXCEPT ![p].view.pos = pos],
           faults' \in Nat, faults' >= faults,
           UNCHANGED <<image, discVars, mainVars, task, shutdown, opened, queue>>,
           DiscOpenerReads',
           NEW d, d = [off |-> cmd[p].off, n |-> cmd[p].n, from |-> from, got |-> got],
           mode = "disc" => ReadOk(table[file[p].entry], d)'
    PROVE  IInv'
  <1> USE DEF discVars, mainVars
  <1>0. /\ p \in Players /\ cmd[p] \in Command /\ file[p] \in OpenFile
        /\ main = "idle" /\ mode # "closed" /\ FileShows(p) /\ file[p] # NoFile
    BY ServedFile
  <1>1. d \in Result
    BY <1>0 DEF Command, Result
  <1>2. /\ done' = [done EXCEPT ![p] = d] /\ cmd' = [cmd EXCEPT ![p] = NoCmd]
        /\ active' = Nobody /\ wk' = "awake"
    BY DEF Deliver
  <1>3. /\ file'[p] \in OpenFile /\ file'[p] # NoFile
        /\ file'[p].entry = file[p].entry /\ file'[p].opener = file[p].opener
        /\ file'[p].view.base = file[p].view.base /\ file'[p].view.length = file[p].view.length
    <2>1. file'[p] = [file[p] EXCEPT !.view.pos = pos]
      BY <1>0 DEF IInv, Typed
    <2>2. [file[p] EXCEPT !.view.pos = pos] \in OpenFile
      BY <1>0 DEF OpenFile, View
    <2>3. /\ file'[p].entry = file[p].entry /\ file'[p].opener = file[p].opener
          /\ file'[p].view.base = file[p].view.base /\ file'[p].view.length = file[p].view.length
      BY <1>0, <2>1 DEF OpenFile, View
    <2> QED BY <2>1, <2>2, <2>3, DvdAssumption
  <1>4. \A q \in Players \ {p} : file'[q] = file[q] /\ done'[q] = done[q] /\ cmd'[q] = cmd[q]
    BY <1>0, <1>2 DEF IInv, Typed
  <1>5. done'[p] = d /\ cmd'[p] = NoCmd
    BY <1>0, <1>2 DEF IInv, Typed
  <1>6. Typed'
    <2>1. file' \in [Players -> {NoFile} \cup OpenFile]
      <3>1. file' = [q \in Players |-> file'[q]]
        BY DEF IInv, Typed
      <3>2. \A q \in Players : file'[q] \in {NoFile} \cup OpenFile
        BY <1>3, <1>4 DEF IInv, Typed
      <3> QED BY <3>1, <3>2
    <2>2. cmd' \in [Players -> {NoCmd} \cup Command]
      BY <1>2 DEF IInv, Typed
    <2>3. done' \in [Players -> {NoCmd} \cup Result]
      BY <1>1, <1>2 DEF IInv, Typed
    <2> QED BY <1>2, <2>1, <2>2, <2>3 DEF IInv, Typed, WorkerPlaces
  <1>7. InCall' /\ LayerReady'
    BY <1>0, <1>2 DEF IInv, InCall, LayerReady, Opening
  <1>8. FilesOpen'
    <2>1. FileShows(p)'
      BY <1>0, <1>3 DEF FileShows
    <2>2. ASSUME NEW q \in Players, q # p PROVE FileShows(q)'
      <3>1. FileShows(q)
        BY DEF IInv, FilesOpen
      <3> QED BY <1>4, <2>2, <3>1 DEF FileShows
    <2>3. ASSUME NEW q \in Players PROVE cmd'[q] # NoCmd \/ done'[q] # NoCmd => file'[q] # NoFile
      BY <1>3, <1>4 DEF IInv, FilesOpen
    <2>4. ASSUME NEW q \in Players PROVE FileShows(q)'
      BY <2>1, <2>2
    <2> QED BY <2>3, <2>4 DEF FilesOpen
  <1>9. QueueSound'
    <2>1. queue \in Seq(Players) /\ \A i \in 1..Len(queue) : queue[i] \in Players /\ queue[i] # p
      BY DEF IInv, Typed, QueueSound
    <2>2. \A i \in 1..Len(queue) : cmd'[queue[i]] = cmd[queue[i]]
      BY <1>4, <2>1
    <2> QED BY <1>2, <2>2 DEF IInv, QueueSound, Serving
  <1>10. ReadsOwnBytes'
    <2>1. mode = "disc" => ReadOk(table[file[p].entry], done[p])'
      BY <1>3, <1>5 DEF ReadOk
    <2> QED BY <1>0, <1>4, <2>1, OtherResults
  <1> QED BY <1>6, <1>7, <1>8, <1>9, <1>10 DEF IInv

LEMMA WorkerSeekIInv ==
    ASSUME IInv, WorkerSeek
    PROVE  IInv'
  <1> USE DEF WorkerSeek, discVars, mainVars
  <1>p. PICK p : p = active
    OBVIOUS
  <1>off. PICK off : off = cmd[p].off
    OBVIOUS
  <1> USE <1>p, <1>off
  <1>0. /\ p \in Players /\ cmd[p] \in Command /\ file[p] \in OpenFile
        /\ main = "idle" /\ mode # "closed" /\ FileShows(p) /\ file[p] # NoFile /\ Serving
        /\ off \in Nat /\ off \in Offsets /\ cmd[p].n \in Wants
    BY ServedFile, DvdAssumption DEF Serving, Command
  <1>1. CASE mode = "loose" \/ SeekOk(file[p].view, off)
    <2>1. /\ file' = [file EXCEPT ![p].view.pos = off]
          /\ wk' = "read" /\ UNCHANGED <<done, cmd, active>>
      BY <1>1
    <2>2. /\ file'[p] \in OpenFile /\ file'[p] # NoFile
          /\ file'[p].entry = file[p].entry /\ file'[p].opener = file[p].opener
          /\ file'[p].view.base = file[p].view.base /\ file'[p].view.length = file[p].view.length
          /\ file'[p].view.pos = off
      <3>1. file'[p] = [file[p] EXCEPT !.view.pos = off]
        BY <1>0, <2>1 DEF IInv, Typed
      <3>2. [file[p] EXCEPT !.view.pos = off] \in OpenFile
        BY <1>0 DEF OpenFile, View
      <3>3. /\ file'[p].entry = file[p].entry /\ file'[p].opener = file[p].opener
            /\ file'[p].view.base = file[p].view.base /\ file'[p].view.length = file[p].view.length
            /\ file'[p].view.pos = off
        BY <1>0, <3>1 DEF OpenFile, View
      <3> QED BY <3>1, <3>2, <3>3, DvdAssumption
    <2>3. \A q \in Players \ {p} : file'[q] = file[q]
      BY <1>0, <2>1 DEF IInv, Typed
    <2>4. Typed'
      <3>1. file' = [q \in Players |-> file'[q]]
        BY <2>1 DEF IInv, Typed
      <3>2. \A q \in Players : file'[q] \in {NoFile} \cup OpenFile
        BY <2>2, <2>3 DEF IInv, Typed
      <3>3. file' \in [Players -> {NoFile} \cup OpenFile]
        BY <3>1, <3>2
      <3> QED BY <2>1, <3>3 DEF IInv, Typed, WorkerPlaces
    <2>5. InCall' /\ LayerReady'
      BY <1>0, <2>1 DEF IInv, InCall, LayerReady, Opening
    <2>6. FilesOpen'
      <3>1. FileShows(p)'
        BY <1>0, <2>2 DEF FileShows
      <3>2. ASSUME NEW q \in Players, q # p PROVE FileShows(q)'
        <4>1. FileShows(q)
          BY DEF IInv, FilesOpen
        <4> QED BY <2>3, <3>2, <4>1 DEF FileShows
      <3>3. ASSUME NEW q \in Players PROVE cmd'[q] # NoCmd \/ done'[q] # NoCmd => file'[q] # NoFile
        BY <2>1, <2>2, <2>3 DEF IInv, FilesOpen
      <3>4. ASSUME NEW q \in Players PROVE FileShows(q)'
        BY <3>1, <3>2
      <3> QED BY <3>3, <3>4 DEF FilesOpen
    <2>7. QueueSound'
      <3>1. mode = "disc" => SeekOk(file[p].view, off)
        BY <1>1
      <3>2. mode = "disc" => SeekOk(file'[p].view, off)
        BY <2>2, <3>1 DEF SeekOk
      <3>3. Serving' /\ p \in Players /\ cmd'[p] # NoCmd
        BY <1>0, <2>1, DvdAssumption DEF Serving
      <3> QED BY <1>0, <2>1, <2>2, <3>2, <3>3 DEF IInv, QueueSound, Serving
    <2>8. DiscOpenerReads'
      BY DEF IInv, DiscOpenerReads
    <2>9. ReadsOwnBytes'
      <3>1. mode = "disc" /\ done'[p] # NoCmd => ReadOk(table[file[p].entry], done[p])'
        BY <1>0, <2>1, <2>2 DEF IInv, ReadsOwnBytes, ReadOk
      <3> QED BY <1>0, <2>1, <2>3, <3>1, OtherResults DEF IInv, Typed
    <2> QED BY <2>4, <2>5, <2>6, <2>7, <2>8, <2>9 DEF IInv
  <1>2. CASE ~(mode = "loose" \/ SeekOk(file[p].view, off))
    <2>1. Deliver(0, -1) /\ UNCHANGED file
      BY <1>2
    <2>2. PICK pos \in Nat : pos = file[p].view.pos
      BY <1>0 DEF OpenFile, View
    <2>3. file' = [file EXCEPT ![p].view.pos = pos]
      <3>1. file[p] = [file[p] EXCEPT !.view.pos = pos]
        BY <1>0, <2>2 DEF OpenFile, View
      <3> QED BY <1>0, <2>1, <3>1 DEF IInv, Typed
    <2>4. PICK d : d = [off |-> off, n |-> cmd[p].n, from |-> 0, got |-> -1]
      OBVIOUS
    <2>5. off > table[file[p].entry].b
      BY <1>0, <1>2, ServedFile DEF SeekOk, FileShows
    <2>6. DiscOpenerReads'
      BY DEF IInv, DiscOpenerReads
    <2>7. ReadOk(table[file[p].entry], d)'
      BY <2>1, <2>4, <2>5 DEF ReadOk
    <2>8. faults' \in Nat /\ faults' >= faults
      BY DEF IInv, Typed
    <2> QED BY <1>0, <2>1, <2>2, <2>3, <2>4, <2>6, <2>7, <2>8, DeliverIInv
  <1> QED BY <1>1, <1>2

(* The bytes of an extent that a read at off asks for and the image has    *)
(* are those that nod_read's length and gc_disc_read_at's give.            *)
LEMMA ReadLengths ==
    ASSUME NEW img \in Image, NEW view \in View, NEW n \in Nat,
           NEW want, want = ReadWant(view, n),
           NEW all, all = Available(img, view.base + view.pos, want)
    PROVE  /\ want \in Nat /\ all \in Nat
           /\ (view.base + view.pos)..(view.base + view.pos + all - 1)
                = {i \in 0..(img.len - 1) :
                       /\ view.base + view.pos <= i /\ i < view.base + view.pos + n
                       /\ i < view.base + view.length}
  <1> DEFINE from == view.base + view.pos
  <1>0. /\ view.base \in Nat /\ view.length \in Nat /\ view.pos \in Nat
        /\ from \in Nat /\ img.len \in Nat
    BY DEF View, Image
  <1>1. /\ want \in Nat
        /\ view.pos >= view.length => want = 0
        /\ view.pos < view.length =>
              (want = n /\ n <= view.length - view.pos)
                \/ (want = view.length - view.pos /\ want <= n)
    BY <1>0 DEF ReadWant, Lesser
  <1>2. /\ all \in Nat
        /\ from >= img.len => all = 0
        /\ from < img.len =>
              (all = want /\ want <= img.len - from) \/ (all = img.len - from /\ all <= want)
    BY <1>0, <1>1 DEF Available, Lesser
  <1>3. ASSUME NEW i \in Int
        PROVE  i \in from..(from + all - 1)
                 <=> /\ i \in 0..(img.len - 1)
                     /\ from <= i /\ i < from + n /\ i < view.base + view.length
    BY <1>0, <1>1, <1>2
  <1>4. from..(from + all - 1) \subseteq Int /\ 0..(img.len - 1) \subseteq Int
    BY <1>0, <1>2
  <1> QED BY <1>1, <1>2, <1>3, <1>4

(* A read moves the cursor and nothing else of the view.                   *)
LEMMA MovedIs ==
    ASSUME NEW view \in View, NEW got \in Nat \cup {-1}
    PROVE  \E pos \in Nat : Moved(view, got) = [view EXCEPT !.pos = pos]
  <1>1. CASE got = -1
    <2>1. Moved(view, got) = [view EXCEPT !.pos = view.pos] /\ view.pos \in Nat
      BY <1>1 DEF Moved, View
    <2> QED BY <2>1
  <1>2. CASE got \in Nat
    <2>1. Moved(view, got) = [view EXCEPT !.pos = view.pos + got] /\ view.pos + got \in Nat
      BY <1>2 DEF Moved, View
    <2> QED BY <2>1
  <1> QED BY <1>1, <1>2

LEMMA DiscReadIInv ==
    ASSUME IInv, DiscRead
    PROVE  IInv'
  <1>p. PICK p : p = active
    OBVIOUS
  <1>f. PICK view : view = file[p].view
    OBVIOUS
  <1>n. PICK n : n = cmd[p].n
    OBVIOUS
  <1> DEFINE from == view.base + view.pos
             all == Available(image, from, ReadWant(view, n))
  <1>0. /\ p \in Players /\ cmd[p] \in Command /\ file[p] \in OpenFile
        /\ FileShows(p) /\ file[p] # NoFile /\ Serving
        /\ view \in View /\ n \in Nat /\ cmd[p].off \in Nat
    BY <1>p, <1>f, <1>n, ServedFile, DvdAssumption DEF DiscRead, Serving, Command, OpenFile
  <1>1. PICK got \in {all, -1} :
              /\ IF got = -1 THEN Fault ELSE UNCHANGED faults
              /\ file' = [file EXCEPT ![p].view = Moved(@, got)]
              /\ Deliver(from, got)
    BY <1>p, <1>f, <1>n DEF DiscRead
  <1>2. image \in Image
    BY DvdAssumption DEF IInv, Typed
  <1>3. /\ all \in Nat
        /\ from..(from + all - 1) = {i \in 0..(image.len - 1) :
                                        /\ from <= i /\ i < from + n
                                        /\ i < view.base + view.length}
    BY <1>0, <1>2, ReadLengths
  <1>4. from \in Nat
    BY <1>0 DEF View
  <1> HIDE DEF all
  <1>5. got \in Nat \cup {-1}
    BY <1>1, <1>3
  <1>6. PICK pos \in Nat : Moved(view, got) = [view EXCEPT !.pos = pos]
    BY <1>0, <1>5, MovedIs
  <1>7. file' = [file EXCEPT ![p].view.pos = pos]
    <2>1. [file[p] EXCEPT !.view = Moved(view, got)] = [file[p] EXCEPT !.view.pos = pos]
      BY <1>0, <1>f, <1>6 DEF OpenFile
    <2> QED BY <1>0, <1>1, <1>f, <2>1 DEF IInv, Typed
  <1>8. faults \in Nat /\ faults' \in Nat /\ faults' >= faults /\ (got = -1 => faults' > 0)
    BY <1>1 DEF Fault, IInv, Typed
  <1>9. UNCHANGED <<image, discVars, mainVars, task, shutdown, opened, queue>> /\ mode = "disc"
    BY DEF DiscRead
  <1>10. DiscOpenerReads'
    BY <1>9 DEF IInv, LayerReady, DiscOpenerReads, DiscRead, Reads, discVars
  <1>11. /\ view.pos = cmd[p].off
         /\ view.base = table[file[p].entry].a /\ view.length = table[file[p].entry].b
    BY <1>0, <1>p, <1>f DEF IInv, QueueSound, FileShows, DiscRead
  <1>12. PICK d : d = [off |-> cmd[p].off, n |-> cmd[p].n, from |-> from, got |-> got]
    OBVIOUS
  <1>13. ReadOk(table[file[p].entry], d)'
    <2>1. table'[file'[p].entry].a = view.base /\ table'[file'[p].entry].b = view.length
          /\ image' = image
      <3>1. file'[p].entry = file[p].entry
        BY <1>0, <1>7 DEF OpenFile, IInv, Typed
      <3> QED BY <1>9, <1>11, <3>1 DEF discVars
    <2>2. d.off = view.pos /\ d.n = n /\ d.from = from /\ d.got = got
      BY <1>11, <1>12, <1>n
    <2>3. CASE got = -1
      BY <1>8, <2>2, <2>3 DEF ReadOk
    <2>4. CASE got = all
      <3>1. got >= 0
        BY <1>3, <2>4
      <3> QED BY <1>3, <2>1, <2>2, <2>4, <3>1 DEF ReadOk
    <2> QED BY <1>1, <2>3, <2>4
  <1> HIDE DEF from
  <1> QED BY <1>0, <1>1, <1>4, <1>5, <1>6, <1>7, <1>8, <1>9, <1>10, <1>12, <1>13, <1>p, DeliverIInv

LEMMA LooseReadIInv ==
    ASSUME IInv, LooseRead
    PROVE  IInv'
  <1>p. PICK p : p = active
    OBVIOUS
  <1>f. PICK view : view = file[p].view
    OBVIOUS
  <1>n. PICK n : n = cmd[p].n
    OBVIOUS
  <1> DEFINE from == view.base + view.pos
  <1>0. /\ p \in Players /\ cmd[p] \in Command /\ file[p] \in OpenFile
        /\ FileShows(p) /\ file[p] # NoFile /\ Serving
        /\ view \in View /\ n \in Nat
    BY <1>p, <1>f, <1>n, ServedFile, DvdAssumption DEF LooseRead, Serving, Command, OpenFile
  <1>1. PICK got \in {n, -1} :
              /\ IF got = -1 THEN Fault ELSE UNCHANGED faults
              /\ file' = [file EXCEPT ![p].view =
                             IF got = -1 \/ view.pos >= view.length THEN view
                             ELSE [view EXCEPT !.pos = Lesser(view.pos + got, view.length)]]
              /\ Deliver(from, got)
    BY <1>p, <1>f, <1>n DEF LooseRead
  <1>2. from \in Nat /\ got \in Nat \cup {-1}
    BY <1>0, <1>1 DEF View
  <1>3. PICK pos \in Nat :
            (IF got = -1 \/ view.pos >= view.length THEN view
             ELSE [view EXCEPT !.pos = Lesser(view.pos + got, view.length)]) = [view EXCEPT !.pos = pos]
    <2>1. CASE got = -1 \/ view.pos >= view.length
      <3>1. view = [view EXCEPT !.pos = view.pos] /\ view.pos \in Nat
        BY <1>0 DEF View
      <3> QED BY <2>1, <3>1
    <2>2. CASE ~(got = -1 \/ view.pos >= view.length)
      <3>1. Lesser(view.pos + got, view.length) \in Nat
        BY <1>0, <1>2, <2>2 DEF Lesser, View
      <3> QED BY <2>2, <3>1
    <2> QED BY <2>1, <2>2
  <1>4. file' = [file EXCEPT ![p].view.pos = pos]
    <2> DEFINE moved == IF got = -1 \/ view.pos >= view.length THEN view
                        ELSE [view EXCEPT !.pos = Lesser(view.pos + got, view.length)]
    <2>1. file' = [file EXCEPT ![p].view = moved]
      BY <1>1
    <2>2. moved = [view EXCEPT !.pos = pos]
      BY <1>3
    <2> HIDE DEF moved
    <2>3. [file[p] EXCEPT !.view = moved] = [file[p] EXCEPT !.view.pos = pos]
      BY <1>0, <1>f, <2>2 DEF OpenFile
    <2> QED BY <1>0, <1>f, <2>1, <2>3 DEF IInv, Typed
  <1>5. faults' \in Nat /\ faults' >= faults
    BY <1>1 DEF Fault, IInv, Typed
  <1>6. UNCHANGED <<image, discVars, mainVars, task, shutdown, opened, queue>> /\ mode = "loose"
    BY DEF LooseRead
  <1>7. DiscOpenerReads'
    <2>1. file[p].opener = p
      BY <1>0, <1>6 DEF FileShows
    <2>2. access' = access \cup {<<p, Worker>>}
      BY <1>p, <2>1 DEF LooseRead
    <2>3. p \notin {Main, Worker, Nobody}
      BY <1>0, DvdAssumption
    <2> QED BY <2>2, <2>3 DEF IInv, DiscOpenerReads
  <1>8. PICK d : d = [off |-> cmd[p].off, n |-> cmd[p].n, from |-> from, got |-> got]
    OBVIOUS
  <1>9. mode # "disc" /\ Deliver(from, got)
    BY <1>1, <1>6
  <1> HIDE DEF from
  <1> QED BY <1>0, <1>2, <1>4, <1>5, <1>6, <1>7, <1>8, <1>9, <1>p, DeliverIInv

-----------------------------------------------------------------------------
LEMMA NextIInv == IInv /\ [Next]_vars => IInv'
  <1> SUFFICES ASSUME IInv, [Next]_vars PROVE IInv'
    OBVIOUS
  <1>1. CASE AuroraDvdOpen \/ AuroraDvdOpenFiles \/ AuroraDvdClose
    BY <1>1, CallIInv DEF AuroraDvdOpen, AuroraDvdOpenFiles, AuroraDvdClose
  <1>2. CASE MainSteps
    BY <1>2, StoppedIInv, RunSyncIInv, RunSyncReturnsIInv DEF MainSteps
  <1>3. CASE WorkerSteps
    BY <1>3, WorkerSleepIInv, WorkerLoopIInv, OpenDiscIInv, WorkerSeekIInv, DiscReadIInv,
       LooseReadIInv DEF WorkerSteps
  <1>4. ASSUME NEW p \in Players,
               \/ \E e \in 0..MaxEntries : DVDFastOpen(p, e)
               \/ \E off \in Offsets, n \in Wants : DVDRead(p, off, n)
               \/ DVDClose(p)
        PROVE  IInv'
    BY <1>4, DVDFastOpenIInv, DVDReadIInv, DVDCloseIInv
  <1>5. CASE UNCHANGED vars
    <2> USE <1>5 DEF vars, discVars, mainVars, playVars
    <2>1. Typed' /\ InCall' /\ LayerReady'
      BY DEF IInv, Typed, InCall, LayerReady
    <2>2. FilesOpen' /\ QueueSound'
      BY DEF IInv, FilesOpen, FileShows, QueueSound, Serving
    <2>3. DiscOpenerReads' /\ ReadsOwnBytes'
      BY DEF IInv, DiscOpenerReads, ReadsOwnBytes
    <2> QED BY <2>1, <2>2, <2>3 DEF IInv
  <1> QED BY <1>1, <1>2, <1>3, <1>4, <1>5 DEF Next

-----------------------------------------------------------------------------
(* The inductive invariant holds in every state the layer reaches.         *)
THEOREM Invariant == Spec => []IInv
  <1> QED BY InitIInv, NextIInv, PTL DEF Spec

(* No step takes the cursor of a file on the disc past the end of the      *)
(* file.                                                                   *)
Cursors == \A p \in Players : Inside(p)

LEMMA CursorOf ==
    ASSUME IInv, Cursors, NEW p \in Players, NEW e,
           file' = [file EXCEPT ![p] = e], mode' = mode,
           mode = "disc" /\ e # NoFile => e.view.pos <= e.view.length
    PROVE  Cursors'
  <1>1. file'[p] = e /\ \A q \in Players \ {p} : file'[q] = file[q]
    BY DEF IInv, Typed
  <1> QED BY <1>1 DEF Cursors, Inside

LEMMA SeekCursor ==
    ASSUME IInv, Cursors, WorkerSeek
    PROVE  Cursors'
  <1> DEFINE off == cmd[active].off
             e   == [file[active] EXCEPT !.view.pos = off]
  <1>1. /\ active \in Players /\ file[active] \in OpenFile /\ mode' = mode
    BY ServedFile DEF WorkerSeek, Serving, discVars
  <1>2. CASE file' = file
    BY <1>1, <1>2 DEF Cursors, Inside
  <1>3. CASE /\ mode = "loose" \/ SeekOk(file[active].view, off)
             /\ file' = [file EXCEPT ![active].view.pos = off]
    <2>1. file' = [file EXCEPT ![active] = e]
      BY <1>1, <1>3
    <2>2. e.view.pos = off /\ e.view.length = file[active].view.length
      BY <1>1 DEF OpenFile, View
    <2>3. mode = "disc" => off <= file[active].view.length
      BY <1>3 DEF SeekOk
    <2> HIDE DEF e
    <2> QED BY <1>1, <2>1, <2>2, <2>3, CursorOf
  <1> QED BY <1>2, <1>3 DEF WorkerSeek

LEMMA ReadCursor ==
    ASSUME IInv, Cursors, DiscRead
    PROVE  Cursors'
  <1> DEFINE view == file[active].view
             n    == cmd[active].n
             from == view.base + view.pos
             all  == Available(image, from, ReadWant(view, n))
  <1>1. /\ active \in Players /\ cmd[active] \in Command /\ file[active] \in OpenFile
        /\ mode' = mode /\ image \in Image /\ Inside(active) /\ mode = "disc"
        /\ file[active] # NoFile
    BY ServedFile, DvdAssumption DEF DiscRead, Serving, discVars, IInv, Typed, Cursors
  <1>2. /\ view \in View /\ n \in Nat /\ view.pos <= view.length
    BY <1>1, DvdAssumption DEF Command, OpenFile, Inside
  <1>3. PICK got \in {all, -1} : file' = [file EXCEPT ![active].view = Moved(@, got)]
    BY DEF DiscRead
  <1> HIDE DEF view, n
  <1>4. /\ from \in Nat /\ ReadWant(view, n) \in Nat
        /\ ReadWant(view, n) <= view.length - view.pos
    BY <1>2 DEF View, ReadWant, Lesser
  <1>5. all \in Nat /\ all <= ReadWant(view, n)
    BY <1>1, <1>4, AvailableIs
  <1> HIDE DEF all, from
  <1>6. Moved(view, got).pos <= Moved(view, got).length
    BY <1>2, <1>3, <1>4, <1>5 DEF Moved, View
  <1> DEFINE e == [file[active] EXCEPT !.view = Moved(view, got)]
  <1>7. file' = [file EXCEPT ![active] = e]
    BY <1>1, <1>3 DEF view
  <1>8. e.view = Moved(view, got)
    BY <1>1 DEF OpenFile
  <1> HIDE DEF e
  <1> QED BY <1>1, <1>6, <1>7, <1>8, CursorOf

LEMMA NextCursors ==
    ASSUME IInv, Cursors, [Next]_vars
    PROVE  Cursors'
  <1>1. ASSUME file' = file, mode' # "disc" \/ mode' = mode PROVE Cursors'
    BY <1>1 DEF Cursors, Inside
  <1>2. CASE AuroraDvdOpen \/ AuroraDvdOpenFiles \/ AuroraDvdClose
    BY <1>1, <1>2 DEF AuroraDvdOpen, AuroraDvdOpenFiles, AuroraDvdClose, Call, discVars, playVars
  <1>3. CASE MainSteps
    <2>1. CASE Stopped
      <3>1. goal \in {"disc", "files", "close", "fail"}
        BY <2>1 DEF Stopped, IInv, Typed, InCall
      <3> QED BY <1>1, <2>1, <3>1 DEF Stopped, playVars
    <2>2. CASE RunSync \/ RunSyncReturns
      BY <1>1, <2>2 DEF RunSync, RunSyncReturns, discVars, playVars
    <2> QED BY <1>3, <2>1, <2>2 DEF MainSteps
  <1>4. CASE WorkerSleep \/ WorkerLoop
    BY <1>1, <1>4 DEF WorkerSleep, WorkerLoop, discVars, playVars
  <1>5. CASE OpenStream \/ OpenHeader \/ OpenTable \/ OpenDol
    <2>1. \A p \in Players : file[p] = NoFile
      BY <1>5 DEF OpenStream, OpenHeader, OpenTable, OpenDol, DiscStep, IInv, InCall, Opening
    <2>2. file' = file
      BY <1>5 DEF OpenStream, OpenHeader, OpenTable, OpenDol, DiscStep, playVars
    <2> QED BY <2>1, <2>2 DEF Cursors, Inside
  <1>6. CASE LooseRead
    BY <1>6 DEF LooseRead, discVars, Cursors, Inside
  <1>7. ASSUME NEW p \in Players, NEW e \in 0..MaxEntries, DVDFastOpen(p, e)
        PROVE  Cursors'
    <2>1. file' = [file EXCEPT ![p] =
              [entry |-> e, opener |-> IF mode = "loose" THEN p ELSE Nobody,
               view |-> FileView(table, e)]]
      BY <1>7 DEF DVDFastOpen
    <2>2. mode' = mode /\ mode # "closed" /\ IsFile(table, e) /\ e \in Nat
      BY <1>7, GcAssumption DEF DVDFastOpen, discVars
    <2>3. FileView(table, e).pos <= FileView(table, e).length
      BY <2>2, OpenEntry DEF FileView
    <2> QED BY <2>1, <2>2, <2>3, CursorOf
  <1>8. ASSUME NEW p \in Players, DVDClose(p)
        PROVE  Cursors'
    BY <1>8, CursorOf DEF DVDClose, discVars
  <1>9. ASSUME NEW p \in Players, NEW off \in Offsets, NEW n \in Wants, DVDRead(p, off, n)
        PROVE  Cursors'
    BY <1>1, <1>9 DEF DVDRead, discVars
  <1>10. CASE UNCHANGED vars
    BY <1>1, <1>10 DEF vars, discVars, playVars
  <1> QED BY <1>2, <1>3, <1>4, <1>5, <1>6, <1>7, <1>8, <1>9, <1>10, SeekCursor, ReadCursor
          DEF Next, WorkerSteps

(* Every variable keeps its type, and the cursor of a file on the disc     *)
(* stays in its file or at its end, whatever the table of the image claims.*)
THEOREM TypeCorrect == Spec => []TypeOK
  <1>1. Init => Cursors
    BY DEF Init, Cursors, Inside
  <1>2. IInv /\ Cursors /\ [Next]_vars => Cursors'
    BY NextCursors
  <1>3. IInv /\ Cursors => TypeOK
    BY DEF IInv, Cursors, TypeOK
  <1> QED BY Invariant, <1>1, <1>2, <1>3, PTL DEF Spec

(* The disc's stream is read only by the worker, which opened it, in every *)
(* interleaving of opening, closing, failing and reading.                  *)
THEOREM OpenerReadsDisc == Spec => []DiscOpenerReads
  <1>1. IInv => DiscOpenerReads
    BY DEF IInv
  <1> QED BY Invariant, <1>1, PTL

(* A read from the disc delivers exactly the bytes of its own file that    *)
(* were asked for and that the image has.                                  *)
THEOREM OwnBytesRead == Spec => []ReadsOwnBytes
  <1>1. IInv => ReadsOwnBytes
    BY DEF IInv
  <1> QED BY Invariant, <1>1, PTL

-----------------------------------------------------------------------------
(* The directory stack of extractCallback, for any table.                  *)
Path == Seq(Nat \cup {NoName})
Frame == [path : Path, end : Int]
Stack == {st \in Seq(Frame) : Len(st) >= 1 /\ st[1] = RootFrame}

(* The stack when the walk leaves entry i, on which it arrived with st.    *)
Pushed(t, i, st) ==
    IF t[i].dir
    THEN Append(PopTo(st, i), [path |-> PathIn(PopTo(st, i), t, i), end |-> t[i].b])
    ELSE PopTo(st, i)

(* Popping leaves the frames up to the topmost one that has not ended; the *)
(* root frame never ends.                                                  *)
LEMMA PopToIs ==
    ASSUME NEW st \in Stack, NEW i \in Nat
    PROVE  \E m \in 1..Len(st) :
              /\ PopTo(st, i) = SubSeq(st, 1, m)
              /\ PopTo(st, i) \in Stack /\ Len(PopTo(st, i)) = m
              /\ \A j \in 1..m : PopTo(st, i)[j] = st[j]
              /\ ~Ended(i, st[m])
              /\ \A j \in 1..Len(st) : ~Ended(i, st[j]) => j <= m
  <1> DEFINE open == {j \in 1..Len(st) : ~Ended(i, st[j])}
             m == CHOOSE j \in open : \A k \in open : k <= j
  <1>1. /\ st \in Seq(Frame) /\ Len(st) \in Nat /\ Len(st) >= 1 /\ st[1] = RootFrame
    BY DEF Stack
  <1>2. 1 \in open
    BY <1>1 DEF Ended, RootFrame
  <1>3. open \in SUBSET (0..Len(st)) /\ open # {}
    BY <1>2
  <1>4. \E j \in open : \A k \in open : k <= j
    <2> HIDE DEF open
    <2> QED BY <1>1, <1>3, GreatestExists
  <1>5. m \in open /\ \A k \in open : k <= m
    <2> HIDE DEF open
    <2> QED BY <1>4
  <1>6. PopTo(st, i) = SubSeq(st, 1, m)
    BY DEF PopTo
  <1> HIDE DEF m
  <1>7. m \in 1..Len(st) /\ ~Ended(i, st[m]) /\ \A j \in 1..Len(st) : ~Ended(i, st[j]) => j <= m
    BY <1>5
  <1> HIDE DEF open
  <1>8. /\ SubSeq(st, 1, m) \in Seq(Frame) /\ Len(SubSeq(st, 1, m)) = m
        /\ \A j \in 1..m : SubSeq(st, 1, m)[j] = st[j]
    BY <1>1, <1>7
  <1>9. SubSeq(st, 1, m) \in Stack
    <2>1. 1 \in 1..m /\ m >= 1
      BY <1>7
    <2>2. SubSeq(st, 1, m)[1] = RootFrame
      BY <1>1, <1>8, <2>1
    <2> QED BY <1>8, <2>1, <2>2 DEF Stack
  <1> QED BY <1>6, <1>7, <1>8, <1>9

LEMMA PushedIs ==
    ASSUME NEW t \in Seq(FileEntry), NEW i \in 1..Len(t), NEW st \in Stack
    PROVE  Pushed(t, i, st) \in Stack
  <1>1. PICK top : top = PopTo(st, i)
    OBVIOUS
  <1>2. top \in Stack
    BY <1>1, PopToIs
  <1>3. t[i] \in FileEntry
    OBVIOUS
  <1>4. top \in Seq(Frame) /\ Len(top) >= 1 /\ top[1] = RootFrame /\ top[Len(top)] \in Frame
    BY <1>2 DEF Stack
  <1>5. PathIn(top, t, i) \in Path
    <2>1. top[Len(top)].path \in Path /\ t[i].name \in Nat \cup {NoName}
      BY <1>3, <1>4 DEF Frame, FileEntry
    <2> QED BY <2>1 DEF PathIn, Path
  <1>6. PICK frame : frame = [path |-> PathIn(top, t, i), end |-> t[i].b]
    OBVIOUS
  <1>7. frame \in Frame
    BY <1>3, <1>5, <1>6 DEF Frame, FileEntry
  <1>8. Append(top, frame) \in Stack
    <2>1. PICK a : a = Append(top, frame)
      OBVIOUS
    <2>2. a \in Seq(Frame) /\ Len(a) = Len(top) + 1 /\ a[1] = top[1] /\ Len(top) \in Nat
      BY <1>4, <1>7, <2>1
    <2>3. Len(a) >= 1 /\ a[1] = RootFrame
      BY <1>4, <2>2
    <2> QED BY <2>1, <2>2, <2>3 DEF Stack
  <1> QED BY <1>1, <1>2, <1>6, <1>8 DEF Pushed

(* The walk goes through the table one by one.                             *)
LEMMA StackSteps ==
    ASSUME NEW t \in Seq(FileEntry)
    PROVE  /\ Stacks(t)[1] = <<RootFrame>>
           /\ \A i \in 1..Len(t) : Stacks(t)[i + 1] = Pushed(t, i, Stacks(t)[i])
           /\ \A i \in 1..(Len(t) + 1) : Stacks(t)[i] \in Stack
  <1> DEFINE n == Len(t)
             v0 == <<RootFrame>>
             F == [p \in (1..n) \X Stack |-> Pushed(t, p[1], p[2])]
             Solution(g) == g = [i \in 1..(n + 1) |->
                                    IF i = 1 THEN <<RootFrame>> ELSE Pushed(t, i - 1, g[i - 1])]
             f == CHOOSE g : Solution(g)
  <1>1. n \in Nat
    OBVIOUS
  <1>2. v0 \in Stack
    <2>1. RootFrame \in Frame
      <3>1. <<>> \in Path
        BY DEF Path
      <3> QED BY <3>1 DEF RootFrame, Frame
    <2> QED BY <2>1 DEF Stack
  <1>3. F \in [(1..n) \X Stack -> Stack]
    <2> SUFFICES ASSUME NEW i \in 1..n, NEW st \in Stack PROVE Pushed(t, i, st) \in Stack
      OBVIOUS
    <2> QED BY PushedIs
  <1>4. PICK g : Solves(g, Stack, n, v0, F)
    <2> HIDE DEF F, n, v0
    <2> QED BY <1>1, <1>2, <1>3, Recursion
  <1>5. /\ g \in [0..n -> Stack] /\ g[0] = v0
        /\ \A i \in 1..n : g[i] = F[<<i, g[i - 1]>>]
    <2> HIDE DEF F, n, v0
    <2> QED BY <1>4 DEF Solves
  <1>6. ASSUME NEW i \in 1..n PROVE g[i] = Pushed(t, i, g[i - 1])
    <2>1. g[i - 1] \in Stack
      <3> HIDE DEF F, n, v0
      <3> QED BY <1>1, <1>5
    <2>2. F[<<i, g[i - 1]>>] = Pushed(t, i, g[i - 1])
      BY <2>1
    <2> HIDE DEF F
    <2> QED BY <1>5, <2>2
  <1> DEFINE h == [i \in 1..(n + 1) |-> g[i - 1]]
  <1>7. \A i \in 1..(n + 1) : h[i] \in Stack
    <2> SUFFICES ASSUME NEW i \in 1..(n + 1) PROVE g[i - 1] \in Stack
      OBVIOUS
    <2> HIDE DEF n, F, v0
    <2> QED BY <1>1, <1>5
  <1>8. ASSUME NEW i \in 1..(n + 1)
        PROVE  h[i] = IF i = 1 THEN <<RootFrame>> ELSE Pushed(t, i - 1, h[i - 1])
    <2>1. CASE i = 1
      <3>1. h[i] = g[0]
        BY <2>1
      <3> QED BY <1>5, <2>1, <3>1
    <2>2. CASE i # 1
      <3>1. i - 1 \in 1..n /\ i - 1 \in 1..(n + 1)
        BY <1>1, <2>2
      <3>2. h[i] = g[i - 1] /\ h[i - 1] = g[(i - 1) - 1]
        BY <3>1
      <3> HIDE DEF h, n, F
      <3> QED BY <1>6, <2>2, <3>1, <3>2
    <2> QED BY <2>1, <2>2
  <1>9. h = [i \in 1..(n + 1) |-> h[i]]
    OBVIOUS
  <1>10. Solution(h)
    <2> HIDE DEF h, n
    <2> QED BY <1>8, <1>9, Zenon
  <1>11. Solution(f)
    <2> HIDE DEF Solution
    <2> QED BY <1>10, Zenon
  <1>12. Stacks(t) = f
    BY Zenon DEF Stacks, Pushed
  <1> HIDE DEF f
  <1>13. f[1] = <<RootFrame>>
    <2>1. 1 \in 1..(n + 1)
      BY <1>1
    <2> HIDE DEF n
    <2> QED BY <1>11, <2>1, Zenon
  <1>14. ASSUME NEW i \in 1..n PROVE f[i + 1] = Pushed(t, i, f[i])
    <2>1. i + 1 \in 1..(n + 1) /\ i + 1 # 1 /\ (i + 1) - 1 = i
      BY <1>1
    <2> HIDE DEF n
    <2>2. f[i + 1] = IF i + 1 = 1 THEN <<RootFrame>> ELSE Pushed(t, (i + 1) - 1, f[(i + 1) - 1])
      BY <1>11, <2>1, Zenon
    <2> QED BY <2>1, <2>2, Zenon
  <1> DEFINE P == {i \in 0..n : f[i + 1] \in Stack}
  <1>15. 0 \in P
    BY <1>1, <1>2, <1>13
  <1>16. ASSUME NEW i \in 0..(n - 1), i \in P PROVE i + 1 \in P
    <2>1. i + 1 \in 1..n
      BY <1>1
    <2>2. f[i + 1] \in Stack
      BY <1>16
    <2>3. f[(i + 1) + 1] \in Stack
      BY <1>14, <2>1, <2>2, PushedIs
    <2> QED BY <2>1, <2>3
  <1>17. \A i \in 0..n : i \in P
    <2> HIDE DEF P, n
    <2> QED BY <1>1, <1>15, <1>16, UpTo
  <1>18. ASSUME NEW i \in 1..(n + 1) PROVE f[i] \in Stack
    <2>1. i - 1 \in 0..n /\ (i - 1) + 1 = i
      BY <1>1
    <2>2. f[(i - 1) + 1] \in Stack
      BY <1>17, <2>1
    <2> QED BY <2>1, <2>2
  <1> QED BY <1>12, <1>13, <1>14, <1>18

(* The names, outermost first, of a set of directories.                    *)
Nth(up, n) == CHOOSE d \in up : Cardinality({x \in up : x < d}) = n - 1
Names(t, up) == [n \in 1..Cardinality(up) |-> t[Nth(up, n)].name]

(* A directory behind all others adds its name at the end.                 *)
LEMMA NamesAppend ==
    ASSUME NEW t, NEW k \in Nat, NEW A \in SUBSET (0..k), NEW m \in Nat, \A a \in A : a < m
    PROVE  Names(t, A \cup {m}) = Append(Names(t, A), t[m].name)
  <1> DEFINE up == A \cup {m}
             Before(s, d) == {x \in s : x < d}
  <1>1. IsFiniteSet(A) /\ Cardinality(A) \in Nat
    <2>1. IsFiniteSet(0..k)
      BY FS_Interval
    <2> QED BY <2>1, FS_Subset, FS_CardinalityType
  <1>2. m \notin A
    OBVIOUS
  <1>3. Cardinality(up) = Cardinality(A) + 1
    BY <1>1, <1>2, FS_AddElement
  <1>4. \A d \in A : Before(up, d) = Before(A, d)
    OBVIOUS
  <1>5. Before(up, m) = A
    <2>1. ~(m < m)
      OBVIOUS
    <2>2. \A x : x \in Before(up, m) <=> x \in A
      BY <2>1
    <2> HIDE DEF Before
    <2> QED BY <2>2, Zenon
  <1>6. ASSUME NEW d \in A
        PROVE  Cardinality(Before(A, d)) \in Nat /\ Cardinality(Before(A, d)) < Cardinality(A)
    <2>1. Before(A, d) \in SUBSET A /\ Before(A, d) # A
      OBVIOUS
    <2> HIDE DEF Before
    <2>2. /\ Cardinality(Before(A, d)) <= Cardinality(A)
          /\ Cardinality(Before(A, d)) # Cardinality(A)
          /\ Cardinality(Before(A, d)) \in Nat
      BY <1>1, <2>1, FS_Subset, FS_CardinalityType
    <2> QED BY <1>1, <2>2
  <1>7. ASSUME NEW n \in 1..Cardinality(A) PROVE Nth(up, n) = Nth(A, n)
    <2>1. ASSUME NEW d
          PROVE  (d \in up /\ Cardinality(Before(up, d)) = n - 1)
                 <=> (d \in A /\ Cardinality(Before(A, d)) = n - 1)
      <3>1. CASE d \in A
        BY <1>4, <3>1
      <3>2. CASE d = m
        <4>1. Cardinality(Before(up, d)) # n - 1
          <5>1. Cardinality(A) # n - 1
            BY <1>1
          <5>2. Before(up, d) = A
            BY <1>5, <3>2, Zenon
          <5> HIDE DEF Before
          <5> QED BY <5>1, <5>2
        <4> QED BY <1>2, <3>2, <4>1
      <3> HIDE DEF Before
      <3> QED BY <3>1, <3>2
    <2> HIDE DEF up
    <2> QED BY <2>1, Zenon DEF Nth
  <1>8. Nth(up, Cardinality(A) + 1) = m
    <2>0. (Cardinality(A) + 1) - 1 = Cardinality(A)
      BY <1>1
    <2>1. m \in up /\ Cardinality(Before(up, m)) = Cardinality(A)
      BY <1>5
    <2>2. ASSUME NEW d \in up, Cardinality(Before(up, d)) = Cardinality(A) PROVE d = m
      <3>1. CASE d \in A
        <4>1. Cardinality(Before(A, d)) = Cardinality(A)
          BY <1>4, <2>2, <3>1
        <4>2. Cardinality(Before(A, d)) \in Nat /\ Cardinality(Before(A, d)) < Cardinality(A)
          BY <1>6, <3>1
        <4> HIDE DEF Before
        <4> QED BY <1>1, <4>1, <4>2
      <3> QED BY <3>1
    <2> HIDE DEF up
    <2> QED BY <2>0, <2>1, <2>2, Zenon DEF Nth
  <1> DEFINE c == Cardinality(A)
             old == Names(t, A)
             S == {t[Nth(up, n)].name : n \in 1..(c + 1)}
  <1> HIDE DEF up
  <1>9. Names(t, up) = [n \in 1..(c + 1) |-> t[Nth(up, n)].name]
    BY <1>3 DEF Names
  <1>10. old = [n \in 1..c |-> t[Nth(up, n)].name]
    BY <1>7 DEF Names
  <1>11. old \in Seq(S) /\ Len(old) = c
    BY <1>1, <1>10
  <1>12. t[m].name \in S
    BY <1>1, <1>8
  <1>13. Names(t, up) \in Seq(S) /\ Len(Names(t, up)) = c + 1
    BY <1>1, <1>9
  <1>14. Append(old, t[m].name) \in Seq(S) /\ Len(Append(old, t[m].name)) = c + 1
    <2> HIDE DEF S, old, c
    <2> QED BY <1>11, <1>12
  <1>15. ASSUME NEW n \in 1..(c + 1) PROVE Names(t, up)[n] = Append(old, t[m].name)[n]
    <2>1. CASE n \in 1..c
      <3>1. Names(t, up)[n] = old[n]
        BY <1>9, <1>10, <2>1
      <3> HIDE DEF S, old, c
      <3>2. Append(old, t[m].name)[n] = old[n]
        BY <1>11, <1>12, <2>1
      <3> QED BY <3>1, <3>2
    <2>2. CASE n = c + 1
      <3>1. Names(t, up)[n] = t[m].name
        BY <1>8, <1>9, <2>2
      <3> HIDE DEF S, old, c
      <3>2. Append(old, t[m].name)[n] = t[m].name
        BY <1>11, <1>12, <2>2
      <3> QED BY <3>1, <3>2
    <2>3. n \in 1..c \/ n = c + 1
      BY <1>1
    <2> HIDE DEF S, old, c
    <2> QED BY <2>1, <2>2, <2>3
  <1>16. Names(t, up) = Append(old, t[m].name)
    <2> HIDE DEF S, old
    <2> QED BY <1>13, <1>14, <1>15, SeqEqual
  <1> QED BY <1>16 DEF up

(* The path of an entry is that of the innermost directory that holds it,  *)
(* with its own name, if ranges nest.                                      *)
LEMMA TruePathIs ==
    ASSUME NEW t \in Seq(FileEntry), WellNested(t), NEW i \in 1..Len(t)
    PROVE  /\ Ancestors(t, i) = {} => TruePath(t, i) = <<t[i].name>>
           /\ \A x \in Ancestors(t, i) :
                 (\A a \in Ancestors(t, i) : a <= x) =>
                    TruePath(t, i) = Append(TruePath(t, x), t[i].name)
  <1>1. \A j \in 1..Len(t) : TruePath(t, j) = Append(Names(t, Ancestors(t, j)), t[j].name)
    BY DEF TruePath, Names, Nth
  <1>2. ASSUME Ancestors(t, i) = {} PROVE TruePath(t, i) = <<t[i].name>>
    <2>1. Cardinality(Ancestors(t, i)) = 0
      BY <1>2, FS_EmptySet
    <2>2. Names(t, Ancestors(t, i)) = <<>>
      <3>1. 1..0 = {}
        OBVIOUS
      <3> QED BY <2>1, <3>1 DEF Names
    <2>3. Append(<<>>, t[i].name) = <<t[i].name>>
      OBVIOUS
    <2> QED BY <1>1, <2>2, <2>3, Zenon
  <1>3. ASSUME NEW x \in Ancestors(t, i), \A a \in Ancestors(t, i) : a <= x
        PROVE  TruePath(t, i) = Append(TruePath(t, x), t[i].name)
    <2>1. x \in 1..Len(t) /\ x < i /\ t[x].dir /\ i < t[x].b
      BY DEF Ancestors
    <2>2. \A a \in Ancestors(t, x) : t[x].b <= t[a].b
      BY <2>1 DEF WellNested
    <2>3. \A d \in 1..Len(t) : t[d].b \in Nat
      <3>1. \A d \in 1..Len(t) : t[d] \in FileEntry
        OBVIOUS
      <3> QED BY <3>1 DEF FileEntry
    <2>4. Ancestors(t, i) = Ancestors(t, x) \cup {x}
      <3>1. ASSUME NEW a \in Ancestors(t, i), a # x PROVE a \in Ancestors(t, x)
        <4>1. a \in 1..(i - 1) /\ t[a].dir /\ i < t[a].b /\ a <= x
          BY <1>3, <3>1 DEF Ancestors
        <4>2. t[a].b \in Nat /\ a \in 1..(x - 1)
          BY <2>1, <2>3, <3>1, <4>1
        <4>3. x < t[a].b
          BY <2>1, <4>1, <4>2
        <4> QED BY <4>1, <4>2, <4>3 DEF Ancestors
      <3>2. ASSUME NEW a \in Ancestors(t, x) PROVE a \in Ancestors(t, i)
        <4>1. a \in 1..(x - 1) /\ t[a].dir /\ t[x].b <= t[a].b
          BY <2>2 DEF Ancestors
        <4>2. a \in 1..(i - 1) /\ t[a].b \in Nat /\ t[x].b \in Nat
          BY <2>1, <2>3, <4>1
        <4>3. i < t[a].b
          BY <2>1, <4>1, <4>2
        <4> QED BY <4>1, <4>2, <4>3 DEF Ancestors
      <3> QED BY <3>1, <3>2
    <2>5. /\ Ancestors(t, x) \in SUBSET (0..Len(t)) /\ Len(t) \in Nat
          /\ \A a \in Ancestors(t, x) : a < x
      BY <2>1 DEF Ancestors
    <2>6. Names(t, Ancestors(t, i)) = Append(Names(t, Ancestors(t, x)), t[x].name)
      <3>1. PICK A : A = Ancestors(t, x)
        OBVIOUS
      <3>2. PICK k \in Nat : k = Len(t)
        BY <2>5
      <3>3. A \in SUBSET (0..k) /\ x \in Nat /\ \A a \in A : a < x
        BY <2>1, <2>5, <3>1, <3>2
      <3>4. Names(t, A \cup {x}) = Append(Names(t, A), t[x].name)
        BY <3>3, NamesAppend
      <3> QED BY <2>4, <3>1, <3>4
    <2> QED BY <1>1, <2>1, <2>6
  <1> QED BY <1>2, <1>3

(* d tells which directory each frame of the stack belongs to, the root    *)
(* frame to none, when the walk arrives at entry i.                        *)
Tracks(t, i, st, d) ==
    /\ d \in [1..Len(st) -> 0..(i - 1)] /\ d[1] = 0
    /\ \A j \in 2..Len(st) : /\ d[j] > 0 /\ t[d[j]].dir
                             /\ st[j].end = t[d[j]].b /\ st[j].path = TruePath(t, d[j])
    /\ \A j, k \in 1..Len(st) : j < k => d[j] < d[k]
    /\ \A j, k \in 2..Len(st) : j < k => st[k].end <= st[j].end
    /\ \A a \in Ancestors(t, i) : \E j \in 2..Len(st) : d[j] = a

(* Once the frames that have ended are popped, the stack holds exactly the *)
(* directories of the entry, and the path made from it is the true one.    *)
LEMMA Popped ==
    ASSUME NEW t \in Seq(FileEntry), WellNested(t), NEW i \in 1..Len(t), NEW st \in Stack,
           NEW d, Tracks(t, i, st, d)
    PROVE  LET top == PopTo(st, i)
           IN  /\ top \in Stack /\ Len(top) <= Len(st)
               /\ \A j \in 1..Len(top) : top[j] = st[j]
               /\ \A j \in 2..Len(top) : d[j] \in Ancestors(t, i)
               /\ \A a \in Ancestors(t, i) : \E j \in 2..Len(top) : d[j] = a
               /\ PathIn(top, t, i) = TruePath(t, i)
  <1> DEFINE top == PopTo(st, i)
  <1>0. st \in Seq(Frame) /\ Len(st) \in Nat /\ Len(st) >= 1 /\ st[1] = RootFrame
    BY DEF Stack
  <1>1. PICK m \in 1..Len(st) :
           /\ top \in Stack /\ Len(top) = m
           /\ \A j \in 1..m : top[j] = st[j]
           /\ ~Ended(i, st[m])
           /\ \A j \in 1..Len(st) : ~Ended(i, st[j]) => j <= m
    <2>1. i \in Nat
      OBVIOUS
    <2> QED BY <2>1, PopToIs
  <1> HIDE DEF top
  <1>2. \A j \in 1..Len(t) : t[j].b \in Nat
    <2>1. \A j \in 1..Len(t) : t[j] \in FileEntry
      OBVIOUS
    <2> QED BY <2>1 DEF FileEntry
  <1>3. ASSUME NEW j \in 2..Len(st)
        PROVE  /\ d[j] \in 1..(i - 1) /\ d[j] \in 1..Len(t) /\ t[d[j]].dir
               /\ st[j].end = t[d[j]].b /\ st[j].end \in Nat
               /\ st[j].path = TruePath(t, d[j])
               /\ Ended(i, st[j]) <=> i >= t[d[j]].b
    <2>1. d[j] \in 0..(i - 1) /\ d[j] > 0
      BY <1>0 DEF Tracks
    <2>2. d[j] \in 1..(i - 1) /\ d[j] \in 1..Len(t)
      BY <2>1
    <2>3. t[d[j]].dir /\ st[j].end = t[d[j]].b /\ st[j].path = TruePath(t, d[j])
      BY DEF Tracks
    <2>4. st[j].end \in Nat
      BY <1>2, <2>2, <2>3
    <2>5. Ended(i, st[j]) <=> i >= t[d[j]].b
      BY <2>3, <2>4 DEF Ended
    <2> QED BY <2>2, <2>3, <2>4, <2>5
  <1>4. ASSUME NEW j \in 2..m PROVE d[j] \in Ancestors(t, i)
    <2>1. j \in 2..Len(st) /\ m \in 2..Len(st)
      BY <1>0
    <2>2. st[m].end <= st[j].end
      <3>1. CASE j = m
        BY <1>3, <2>1, <3>1
      <3>2. CASE j # m
        BY <2>1, <3>2 DEF Tracks
      <3> QED BY <3>1, <3>2
    <2>3. i < st[m].end
      BY <1>1, <1>3, <2>1
    <2>4. i < t[d[j]].b
      BY <1>3, <2>1, <2>2, <2>3
    <2> QED BY <1>3, <2>1, <2>4 DEF Ancestors
  <1>5. ASSUME NEW a \in Ancestors(t, i) PROVE \E j \in 2..m : d[j] = a
    <2>1. PICK j \in 2..Len(st) : d[j] = a
      BY DEF Tracks
    <2>2. i < t[a].b
      BY DEF Ancestors
    <2>3. ~Ended(i, st[j])
      BY <1>2, <1>3, <2>1, <2>2
    <2>4. j \in 2..m
      BY <1>0, <1>1, <2>3
    <2> QED BY <2>1, <2>4
  <1>6. PathIn(top, t, i) = TruePath(t, i)
    <2>1. PathIn(top, t, i) = Append(st[m].path, t[i].name)
      <3>1. m \in 1..m /\ top[Len(top)] = st[m]
        BY <1>1
      <3> QED BY <3>1 DEF PathIn
    <2>2. CASE m = 1
      <3>1. Ancestors(t, i) = {}
        BY <1>5, <2>2
      <3>2. st[m].path = <<>>
        BY <1>0, <2>2 DEF RootFrame
      <3>3. TruePath(t, i) = <<t[i].name>>
        BY <3>1, TruePathIs
      <3> QED BY <2>1, <3>2, <3>3
    <2>3. CASE m # 1
      <3>1. m \in 2..m /\ m \in 2..Len(st)
        BY <1>0, <2>3
      <3>2. d[m] \in Ancestors(t, i) /\ st[m].path = TruePath(t, d[m])
        BY <1>3, <1>4, <3>1
      <3>3. ASSUME NEW a \in Ancestors(t, i) PROVE a <= d[m]
        <4>1. PICK j \in 2..m : d[j] = a
          BY <1>5
        <4>2. CASE j = m
          BY <1>3, <3>1, <4>1, <4>2
        <4>3. CASE j # m
          <5>1. j \in 1..Len(st) /\ m \in 1..Len(st) /\ j < m
            BY <1>0, <4>3
          <5>2. d[j] < d[m]
            BY <5>1 DEF Tracks
          <5>3. j \in 2..Len(st)
            BY <5>1
          <5>4. d[j] \in Int /\ d[m] \in Int
            BY <1>3, <3>1, <5>3
          <5> QED BY <4>1, <5>2, <5>4
        <4> QED BY <4>2, <4>3
      <3>4. TruePath(t, i) = Append(TruePath(t, d[m]), t[i].name)
        BY <3>2, <3>3, TruePathIs
      <3> QED BY <2>1, <3>2, <3>4
    <2> QED BY <2>2, <2>3
  <1> QED BY <1>0, <1>1, <1>4, <1>5, <1>6 DEF top


(* Leaving the entry, the stack has the frame of a directory on top, and   *)
(* tracks the directories of the next entry.                               *)
LEMMA TracksNext ==
    ASSUME NEW t \in Seq(FileEntry), WellNested(t), NEW i \in 1..Len(t), NEW st \in Stack,
           NEW d, Tracks(t, i, st, d)
    PROVE  \E e : Tracks(t, i + 1, Pushed(t, i, st), e)
  <1>1. PICK top : top = PopTo(st, i)
    OBVIOUS
  <1>2. /\ top \in Stack /\ Len(top) <= Len(st)
        /\ \A j \in 1..Len(top) : top[j] = st[j]
        /\ \A j \in 2..Len(top) : d[j] \in Ancestors(t, i)
        /\ \A a \in Ancestors(t, i) : \E j \in 2..Len(top) : d[j] = a
        /\ PathIn(top, t, i) = TruePath(t, i)
    BY <1>1, Popped
  <1>3. PICK m \in Nat : m = Len(top) /\ m >= 1 /\ m <= Len(st)
    BY <1>2 DEF Stack
  <1>4. PICK n \in Nat : n = Len(st)
    BY DEF Stack
  <1>5. top \in Seq(Frame) /\ i \in Nat /\ i >= 1 /\ m <= n
    BY <1>2, <1>3, <1>4 DEF Stack
  <1>6. /\ d \in [1..n -> 0..(i - 1)] /\ d[1] = 0
        /\ \A j \in 2..n : /\ d[j] > 0 /\ t[d[j]].dir
                           /\ st[j].end = t[d[j]].b /\ st[j].path = TruePath(t, d[j])
        /\ \A j, k \in 1..n : j < k => d[j] < d[k]
        /\ \A j, k \in 2..n : j < k => st[k].end <= st[j].end
    BY <1>4 DEF Tracks
  <1>7. Ancestors(t, i + 1) \subseteq Ancestors(t, i) \cup {x \in {i} : t[x].dir}
    <2>1. \A x \in 1..Len(t) : t[x].b \in Nat
      <3>1. \A x \in 1..Len(t) : t[x] \in FileEntry
        OBVIOUS
      <3> QED BY <3>1 DEF FileEntry
    <2>2. ASSUME NEW x \in Ancestors(t, i + 1), x # i PROVE x \in Ancestors(t, i)
      <3>1. x \in 1..i /\ t[x].dir /\ i + 1 < t[x].b
        BY <1>5 DEF Ancestors
      <3>2. x \in 1..(i - 1) /\ x \in 1..Len(t)
        BY <1>5, <2>2, <3>1
      <3>3. i < t[x].b
        BY <2>1, <3>1, <3>2
      <3> QED BY <3>1, <3>2, <3>3 DEF Ancestors
    <2>3. i \in Ancestors(t, i + 1) => t[i].dir
      BY DEF Ancestors
    <2> QED BY <2>2, <2>3
  <1>8. CASE ~t[i].dir
    <2>1. Pushed(t, i, st) = top
      BY <1>1, <1>8 DEF Pushed
    <2>2. PICK e : e = [j \in 1..m |-> d[j]]
      OBVIOUS
    <2>3. /\ e \in [1..m -> 0..i] /\ e[1] = 0
          /\ \A j \in 1..m : e[j] = d[j]
      BY <1>3, <1>5, <1>6, <2>2
    <2>4. ASSUME NEW j \in 2..m
          PROVE  /\ e[j] > 0 /\ t[e[j]].dir
                 /\ top[j].end = t[e[j]].b /\ top[j].path = TruePath(t, e[j])
      <3>1. j \in 1..m /\ j \in 2..n /\ top[j] = st[j] /\ e[j] = d[j]
        BY <1>2, <1>3, <1>5, <2>3
      <3> QED BY <1>6, <3>1
    <2>5. ASSUME NEW j \in 1..m, NEW k \in 1..m, j < k PROVE e[j] < e[k]
      <3>1. j \in 1..n /\ k \in 1..n
        BY <1>5
      <3> QED BY <1>6, <2>3, <2>5, <3>1
    <2>6. ASSUME NEW j \in 2..m, NEW k \in 2..m, j < k PROVE top[k].end <= top[j].end
      <3>1. j \in 2..n /\ k \in 2..n /\ top[j] = st[j] /\ top[k] = st[k]
        BY <1>2, <1>3, <1>5
      <3> QED BY <1>6, <2>6, <3>1
    <2>7. ASSUME NEW a \in Ancestors(t, i + 1) PROVE \E j \in 2..m : e[j] = a
      <3>1. a \in Ancestors(t, i)
        BY <1>7, <1>8
      <3>2. PICK j \in 2..m : d[j] = a
        BY <1>2, <1>3, <3>1
      <3> QED BY <2>3, <3>2
    <2>8. (i + 1) - 1 = i
      BY <1>5
    <2>9. Tracks(t, i + 1, top, e)
      BY <1>3, <2>3, <2>4, <2>5, <2>6, <2>7, <2>8 DEF Tracks
    <2> QED BY <2>1, <2>9
  <1>9. CASE t[i].dir
    <2>1. PICK frame : frame = [path |-> TruePath(t, i), end |-> t[i].b]
      OBVIOUS
    <2>2. PICK new : new = Append(top, frame)
      OBVIOUS
    <2>3. Pushed(t, i, st) = new
      BY <1>1, <1>2, <1>9, <2>1, <2>2 DEF Pushed
    <2>4. frame.path = TruePath(t, i) /\ frame.end = t[i].b
      BY <2>1
    <2>5. Len(new) = m + 1 /\ new[m + 1] = frame /\ \A j \in 1..m : new[j] = top[j]
      <3>1. PathIn(top, t, i) \in Path /\ t[i].b \in Int
        <4>1. t[i] \in FileEntry /\ top[m] \in Frame
          BY <1>3, <1>5
        <4>2. t[i].name \in Nat \cup {NoName} /\ t[i].b \in Int /\ top[m].path \in Path
          BY <4>1 DEF FileEntry, Frame
        <4> QED BY <1>3, <4>2 DEF PathIn, Path
      <3>2. frame \in Frame
        BY <1>2, <2>1, <3>1 DEF Frame
      <3> QED BY <1>3, <1>5, <2>2, <3>2
    <2>6. PICK e : e = [j \in 1..(m + 1) |-> IF j = m + 1 THEN i ELSE d[j]]
      OBVIOUS
    <2>7. /\ e \in [1..(m + 1) -> 0..i] /\ e[1] = 0 /\ e[m + 1] = i
          /\ \A j \in 1..m : e[j] = d[j]
      BY <1>3, <1>5, <1>6, <2>6
    <2>8. ASSUME NEW j \in 2..(m + 1)
          PROVE  /\ e[j] > 0 /\ t[e[j]].dir
                 /\ new[j].end = t[e[j]].b /\ new[j].path = TruePath(t, e[j])
      <3>1. CASE j = m + 1
        BY <1>5, <1>9, <2>4, <2>5, <2>7, <3>1
      <3>2. CASE j # m + 1
        <4>1. j \in 1..m /\ j \in 2..n
          BY <1>5, <3>2
        <4>2. new[j] = st[j] /\ e[j] = d[j]
          BY <1>2, <1>3, <2>5, <2>7, <4>1
        <4> QED BY <1>6, <4>1, <4>2
      <3> QED BY <3>1, <3>2
    <2>9. ASSUME NEW j \in 1..(m + 1), NEW k \in 1..(m + 1), j < k PROVE e[j] < e[k]
      <3>1. j \in 1..m /\ j \in 1..n /\ d[j] \in 0..(i - 1)
        BY <1>5, <1>6, <2>9
      <3>2. CASE k = m + 1
        BY <1>5, <2>7, <3>1, <3>2
      <3>3. CASE k # m + 1
        <4>1. k \in 1..m /\ k \in 1..n
          BY <1>5, <3>3
        <4> QED BY <1>6, <2>7, <2>9, <3>1, <4>1
      <3> QED BY <3>2, <3>3
    <2>10. ASSUME NEW j \in 2..(m + 1), NEW k \in 2..(m + 1), j < k
           PROVE  new[k].end <= new[j].end
      <3>1. j \in 1..m /\ j \in 2..m /\ j \in 2..n /\ new[j] = st[j]
        BY <1>2, <1>3, <1>5, <2>5, <2>10
      <3>2. CASE k = m + 1
        <4>1. d[j] \in Ancestors(t, i) /\ st[j].end = t[d[j]].b
          BY <1>2, <1>3, <1>6, <3>1
        <4>2. t[i].b <= t[d[j]].b
          BY <1>9, <4>1 DEF WellNested
        <4> QED BY <2>4, <2>5, <3>1, <3>2, <4>1, <4>2
      <3>3. CASE k # m + 1
        <4>1. k \in 1..m /\ k \in 2..n /\ new[k] = st[k]
          BY <1>2, <1>3, <1>5, <2>5, <3>3
        <4> QED BY <1>6, <2>10, <3>1, <4>1
      <3> QED BY <3>2, <3>3
    <2>11. ASSUME NEW a \in Ancestors(t, i + 1) PROVE \E j \in 2..(m + 1) : e[j] = a
      <3>1. CASE a = i
        BY <1>3, <2>7, <3>1
      <3>2. CASE a # i
        <4>1. a \in Ancestors(t, i)
          BY <1>7, <3>2
        <4>2. PICK j \in 2..m : d[j] = a
          BY <1>2, <1>3, <4>1
        <4>3. j \in 1..m /\ j \in 2..(m + 1)
          BY <1>3
        <4> QED BY <2>7, <4>2, <4>3
      <3> QED BY <3>1, <3>2
    <2>12. (i + 1) - 1 = i
      BY <1>5
    <2>13. Tracks(t, i + 1, new, e)
      BY <2>5, <2>7, <2>8, <2>9, <2>10, <2>11, <2>12 DEF Tracks
    <2> QED BY <2>3, <2>13
  <1> QED BY <1>8, <1>9

(* The walk derives the true path of every entry of a well nested table.   *)
LEMMA ExtractsTruePath ==
    ASSUME NEW t \in Seq(FileEntry), WellNested(t), NEW i \in 1..Len(t)
    PROVE  ExtractPath(t, i) = TruePath(t, i)
  <1> DEFINE n == Len(t)
             s == Stacks(t)
             P == {j \in 0..n : \E d : Tracks(t, j + 1, s[j + 1], d)}
  <1>1. n \in Nat
    OBVIOUS
  <1>2. s[1] = <<RootFrame>> /\ (\A j \in 1..n : s[j + 1] = Pushed(t, j, s[j]))
        /\ \A j \in 1..(n + 1) : s[j] \in Stack
    BY StackSteps
  <1> HIDE DEF s
  <1>3. 0 \in P
    <2>1. PICK st : st = <<RootFrame>>
      OBVIOUS
    <2>2. Len(st) = 1 /\ 1..1 = {1} /\ 2..1 = {}
      BY <2>1
    <2>3. Ancestors(t, 1) = {}
      <3>1. 1..(1 - 1) = {}
        OBVIOUS
      <3> QED BY <3>1 DEF Ancestors
    <2>4. PICK d : d = [j \in 1..1 |-> 0]
      OBVIOUS
    <2>5. d \in [1..1 -> 0..(1 - 1)] /\ d[1] = 0
      BY <2>4
    <2>6. Tracks(t, 1, st, d)
      BY <2>2, <2>3, <2>5 DEF Tracks
    <2>7. 0 + 1 = 1 /\ 0 \in 0..n
      BY <1>1
    <2> QED BY <1>2, <2>1, <2>6, <2>7
  <1>4. ASSUME NEW j \in 0..(n - 1), j \in P PROVE j + 1 \in P
    <2>1. PICK k : k = j + 1
      OBVIOUS
    <2>2. k \in 1..n /\ k \in 1..(n + 1) /\ k \in 0..n
      BY <1>1, <2>1
    <2>3. PICK d : Tracks(t, k, s[k], d)
      BY <1>4, <2>1
    <2>4. \E e : Tracks(t, k + 1, Pushed(t, k, s[k]), e)
      BY <1>2, <2>2, <2>3, TracksNext
    <2>5. \E e : Tracks(t, k + 1, s[k + 1], e)
      BY <1>2, <2>2, <2>4
    <2>6. k \in P
      BY <2>2, <2>5
    <2> QED BY <2>1, <2>6
  <1>5. \A j \in 0..n : j \in P
    <2> HIDE DEF P, n
    <2> QED BY <1>1, <1>3, <1>4, UpTo
  <1>6. PICK j : j = i - 1
    OBVIOUS
  <1>7. j \in 0..n /\ j + 1 = i /\ i \in 1..(n + 1)
    BY <1>1, <1>6
  <1>8. PICK d : Tracks(t, i, s[i], d)
    <2>1. j \in P
      BY <1>5, <1>7
    <2>2. \E d : Tracks(t, j + 1, s[j + 1], d)
      BY <2>1
    <2> QED BY <1>7, <2>2
  <1>9. s[i] \in Stack
    BY <1>2, <1>7
  <1>10. PathIn(PopTo(s[i], i), t, i) = TruePath(t, i)
    BY <1>8, <1>9, Popped
  <1> QED BY <1>10 DEF ExtractPath, s

(* A table kept is a sequence of entries, whoever parsed it and when.      *)
TableKept == table # NoTable => table \in Seq(FileEntry)

LEMMA NextTableKept == IInv /\ TableKept /\ [Next]_vars => TableKept'
  <1> SUFFICES ASSUME IInv, TableKept, [Next]_vars PROVE TableKept'
    OBVIOUS
  <1>1. image \in Images
    BY DEF IInv, Typed
  <1>2. table' = table \/ table' = NoTable \/ (ParsesFst(image) /\ table' = Table(image))
    <2>1. CASE MainSteps
      <3>1. CASE Stopped
        <4>1. goal \in {"disc", "files", "close", "fail"}
          BY <3>1 DEF IInv, Typed, InCall, Stopped
        <4> QED BY <3>1, <4>1 DEF Stopped
      <3>2. CASE RunSync \/ RunSyncReturns
        BY <3>2 DEF RunSync, RunSyncReturns, discVars
      <3> QED BY <2>1, <3>1, <3>2 DEF MainSteps
    <2>2. CASE WorkerSteps
      <3>1. CASE OpenTable
        <4>1. wk' = "dol" => ParsesFst(image)
          BY <3>1 DEF OpenTable, DiscStep, Settle
        <4> QED BY <3>1, <4>1 DEF OpenTable
      <3>2. CASE OpenStream \/ OpenHeader \/ OpenDol
        BY <3>2 DEF OpenStream, OpenHeader, OpenDol
      <3>3. CASE WorkerSleep \/ WorkerLoop
        BY <3>3 DEF WorkerSleep, WorkerLoop, discVars
      <3>4. CASE WorkerSeek \/ DiscRead \/ LooseRead
        BY <3>4 DEF WorkerSeek, DiscRead, LooseRead, discVars
      <3> QED BY <2>2, <3>1, <3>2, <3>3, <3>4 DEF WorkerSteps
    <2>3. CASE AuroraDvdOpen \/ AuroraDvdOpenFiles \/ AuroraDvdClose
      BY <2>3 DEF AuroraDvdOpen, AuroraDvdOpenFiles, AuroraDvdClose, Call, discVars
    <2>4. ASSUME NEW p \in Players, NEW e, DVDFastOpen(p, e) PROVE table' = table
      BY <2>4 DEF DVDFastOpen, discVars
    <2>5. ASSUME NEW p \in Players, NEW off, NEW n, DVDRead(p, off, n) PROVE table' = table
      BY <2>5 DEF DVDRead, discVars
    <2>6. ASSUME NEW p \in Players, DVDClose(p) PROVE table' = table
      BY <2>6 DEF DVDClose, discVars
    <2>7. CASE UNCHANGED vars
      BY <2>7 DEF vars, discVars
    <2> QED BY <2>1, <2>2, <2>3, <2>4, <2>5, <2>6, <2>7 DEF Next
  <1>3. CASE ParsesFst(image) /\ table' = Table(image)
    BY <1>1, <1>3, TableIs DEF TableKept
  <1>4. CASE table' = table \/ table' = NoTable
    BY <1>4 DEF TableKept
  <1> QED BY <1>2, <1>3, <1>4

(* Loose mode looks for a file where extraction put it: the path the stack *)
(* of extractCallback gives an entry is the true one, for a table of any   *)
(* size and shape whose ranges nest.                                       *)
THEOREM PathsMatch == Spec => []PathsAgree
  <1>1. Init => TableKept
    BY DEF Init, TableKept
  <1>2. TableKept => PathsAgree
    BY ExtractsTruePath DEF TableKept, PathsAgree
  <1> QED BY Invariant, NextTableKept, <1>1, <1>2, PTL DEF Spec

=============================================================================
