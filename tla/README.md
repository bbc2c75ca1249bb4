# A TLA+ model of melee-nx

melee-nx runs Super Smash Bros. Melee natively on the Nintendo Switch. The
repository holds the Switch integration: startup, disc reading and extraction,
a SQLite file layer, logging, thread adapters and caches, partly as sources in
`switch/src/`, partly as patches to upstream projects in `switch/patches/`.
This directory models the parts of it that keep state across threads, calls or
launches, checks them with TLC and proves what matters most with TLAPS.

## Inventory

| Part | State | Operations | Interacts with | What is hard | What makes it correct |
|---|---|---|---|---|---|
| Thread adapter and reaper (`clang_tls_switch.c`) | registry of thread records, reap queue, the owned stacks | create, detach, join, thread end, reaper loop | every thread of the game | detach against thread end, join after the id was given away, stacks freed under a running thread | a stack is freed once, after its thread left it; nothing leaks |
| Runtime log (`log_switch.cpp`) | two buffers, request and completion counters, drop counter | init, write, critical write, flush, shutdown; writer thread | stdout on the SD card, fast exit | buffer swap outside the mutex, flush while stopping, full buffers | the file is the accepted stream; flush commits and announces losses; nobody waits in vain |
| SQLite VFS (`sqlite_vfs.cpp`) | one shared native handle per path, lock directories on the card | open, close, lock, unlock, write, truncate, sync, delete, flush at exit | SQLite under both caches, fast exit | lock directories left by a crash, close order of connections, unflushed tails | handles counted exactly, locks exclude, no stale lock, written data reaches a flush |
| Disc extraction (`disc_extractor.cpp`) | files, `.part` files and the manifest on the card | validate, walk the file table, write, rename, publish; cancel | disc reader, gate | a crash, cancel or full card at any step | a manifest means all files, in full |
| Game data gate (`game_data_gate.cpp`) | none of its own | find an image, choose how to boot | extraction, launcher | decisions from what earlier launches left | the boot it chooses can work |
| Launcher boot paths (two patches) | `disc.meta`, `disc-boot.bin` on the card | boot from image or `files/`, capture metadata | gate, DVD layer | files written in place, once | metadata that exists is usable |
| Disc reader (`nod/`) | image handle, file table, views with a cursor | open, read, seek, walk, free | extraction, DVD worker | every offset and count comes from the image | a read delivers the file's own bytes; extraction puts a file where a loose boot looks for it |
| DVD worker (patch) | command queue, one synchronous task, streams of the image or of loose files | open, close, runSync, read | launcher, game threads, I/O lock | calls handed from thread to thread; a stream faults when another thread reads it | the opener reads; every call returns |
| Dawn blob cache (patch, `blob_read_cache.hpp`) | LRU read cache, pending batch, SQLite table | load (size, then copy), store, flush, prune, shutdown, quarantine | VFS, fast exit | three layers that must agree, colliding hashes, failing batches, torn files | together they are one map from hashes to blobs; a key is given its own blob |
| Pipeline cache (patch, `pipeline_request_state.hpp`) | request states, queue, quarantine marker | request, compile, persist, recover | Dawn, VFS | workers against frames and shutdown | each descriptor compiled and persisted once |
| Telemetry (`perf_switch.cpp`) | histogram, frame window, stage counters | frame, stage, report | log | ranks at the edges of window and histogram | a line tells of its own window, and the percentile is the percentile |
| Startup and fast exit (`main_switch.cpp`, `clang_tls_switch.c`) | services, standard streams, who holds which mutex | main, terminate handler, exit wrappers | all of the above | exit from a thread that holds a lock, two exits at once | the exit ends and keeps what was stored |

Graphics and SDL patches, build scripts, CMake and Docker files hold no
protocol and are left out.

## Modules

| Module | Models |
|---|---|
| `ThreadReaper` | thread records, registry, reap queue, the reaper thread |
| `ThreadReaper_proofs` | its invariants, for any number of threads |
| `LogWriter`, `MCLogWriter` | the log with its writer thread and clients; record sizes for TLC |
| `LogWriter_proofs` | stream, commits, losses, shutdown, counters and waiters, for any clients, records and capacity |
| `HosVfs`, `MCHosVfs` | connections, shared handles, lock directories, crashes; the symmetry of connections for TLC |
| `HosVfs_proofs` | handle counts, dirty data, stale locks and exclusion, for any connections and paths |
| `GameData`, `MCGameData` | gate, extraction and launcher over many launches; a small disc for TLC |
| `GameData_proofs` | the manifest, the result and the `.part` protocol, for any disc |
| `BlobMap` | abstract: what the blob cache promises, one map |
| `BlobCache`, `MCBlobCache` | read cache, pending writes and table; keys, hashes and sizes for TLC |
| `BlobCache_proofs` | the accounts of the read cache, shutdown and recovery, and the refinement of `BlobMap`, for any keys, hashes, sizes and limits |
| `GcDisc` | what the functions of the disc reader return: image checks, file table, paths, views |
| `DvdWorker`, `MCDvdWorker` | main thread, worker and game threads over `GcDisc`; thirteen images for TLC |
| `DvdWorker_proofs` | who reads the stream, what a read delivers, and the paths of an extraction, for any images, players and tables |
| `Perf` | the frame window of the telemetry |
| `Launch` | one launch from `main` to the end of the process; contains `Perf`, composes the locks of blob cache, VFS and log |
| `Launch_proofs` | streams, what an exit saves, and the FRAMES line, for any threads, histogram and frame times |
| `RecursionLemmas` | least and greatest numbers, induction and recursion over numbers, stated with sets; used by the proofs |

In each module a section of code under a mutex is one action, and so is a
file-system call where crashes matter. Definitions named `Bad...` are plausible
bugs, kept beside the definition they would replace: they show that each
property can fail, and no specification uses them.

**ThreadReaper.** A thread is `unborn`, `starting`, `running`, `exiting` (it has
set `finished` but is still on its stack) or has left; its creator's claim on it
is held, detached or joined. `registry` and `reapq` are the linked lists as
sequences. `JoinReal` and `JoinFinish` are the two halves of
`__wrap_pthread_join`, because the mutex is taken only after the system join;
the reaper has three steps for the same reason. What the system does with a
`pthread_t` after a join is the constant `IdReuse`.

**LogWriter.** The writer has four steps: swap the buffers under the mutex,
write, report and fsync, complete. The timed wait may end at any moment, so the
16 KiB threshold and the timers are left out. A record is a number of equal
cells; LOGIO lines are counted, not stored. Observers remember what was accepted
and what each flush and shutdown promised: the cells before it are committed, the
losses before it announced. What is dropped after that, while the log is
stopping, is in `dropped` and nowhere else; `LossesTold` asks about it.

**HosVfs.** `open` clears the lock directory before it takes the mutex, so it
has two steps, `OpenClear` and `OpenAttach` or `OpenReject`. File contents are
reduced to "has unflushed data". `Restart` is fast exit or a crash.
A lock directory that `open` deletes under a present holder makes the path
`disturbed`, an observation only: nothing in the actions depends on it, and it
ends when the last holder has gone. `OneHolder` is the promise without this
exception, `Exclusion` the one with it.

**GameData.** The state is split into what is on the card and what the process
remembers; `End`, possible at any step, keeps only the former. Each file goes
through create, chunks, close, remove and rename, with a cancel or an error where
the code looks for one. The disc image is absent, whole or cut off somewhere
behind its file table, as a broken copy leaves it: then a read gives zero bytes
(`Available`). Errors that surface at `fclose` or in the destructor of the
manifest's stream, where the code does not look, are remembered in `late`;
`ManifestProves` and `OkIsComplete` are the repository's claims without regard to
`late`, `ManifestCovers` and `ResultHonest` what is left of them. `UserDeletes` lets the owner delete `files/`
between launches. A file-system call that returned is assumed to be on the card.

**BlobCache.** Every call holds `cache_mutex` from start to end, so a call is one
action; Dawn's lookup is two, `LoadSize` and `LoadCopy`, and anything may happen
in between. `ram` is the LRU list, most recent first, `pend` the pending batch,
`rows` the table. A key has a hash, and two keys may share one: the read cache
compares full keys, pending writes and table only hashes. Each blob has the key
it was made for (`Owner`), and a reply names the key that was asked, so that
`KeyChecked` can say that a lookup is given a blob of its own key. The SELECT, a decode, a
batch, a prune's delete and an open may fail; `Restart` may leave the file torn.
`last` and `lossy` are observers: what was stored last under each hash, and for
which hashes the batch that carried it was dropped. They are also the state of
`BlobMap`, a map keyed by the hash, to which `rows` contributes the committed blobs and `pend` the hashes
not committed yet; the run checks that every step of `BlobCache` is a step of
`BlobMap` or leaves its state alone.

**GcDisc and DvdWorker.** `GcDisc` has no state. An image is a record of the
header fields the code reads; nothing is assumed of them but that they are
unsigned and that a table which the image holds whole has its entries. `Opens`, `ParsesFst`
and `DolReads` are the checks of `gc_disc_open`, `gc_disc_ensure_fst` and
`gc_disc_dol`, `Table` the parsed entries, `Stacks` the directory stack of
`extractCallback`. Paths are compared with `TruePath`, the names of the
directories whose index ranges hold the entry. `DvdWorker` adds the threads:
`Call`, `Stopped`, `RunSync` and `RunSyncReturns` are the main thread inside
`aurora_dvd_open` and its siblings; `OpenStream` to `OpenDol` are `openDiscBody`
on the worker, one action per locked section; `WorkerSeek`, `DiscRead` and
`LooseRead` serve a command. `access` remembers who opened and who read each
stream. That game threads open files only while no call of the main thread is
under way, and have one file open at a time, are assumptions on the callers: the
launcher opens the layer before there are game threads. `stop`, `start`, the queueing of commands and the order of
`openDiscBody` are Aurora's own code and modelled from how the patch uses them.

**Launch.** `at` is the last thing `main` has done, `place` what each thread is
doing: outside, inside the blob cache, inside the VFS, or at one of the steps of
`kartpad_fast_exit`. Both threads may exit, at the same time too. The components
behind the locks are reduced to who holds the mutex and which blobs are pending
or committed; their own modules have the rest. `AbortInside` says whether an
exception may go uncaught inside the cache or SQLite. `Frame` calls
`melee_nx_perf_frame`, modelled in `Perf` with its histogram and compared with
the nearest-rank percentile of the frames since the last report.

## Runs

| Run | Result | Shows |
|---|---|---|
| `threads` | pass, about 97,000 states | stack ownership, no dangling records, exact reap queue, no leak; every finished thread that is detached is reclaimed |
| `threads_id_reuse` | violation | `__wrap_pthread_join` frees the stack of a new thread that got the joined thread's id |
| `log` | pass, about 2.1 million states | stream, commits, announced losses, waiters and shutdown |
| `log_live` | pass, about 49,000 states | flush and shutdown return, one I/O call failing |
| `vfs` | pass, about 427,000 states up to symmetry | handle counts, reachable dirty data, exclusion where no open disturbed it, no stale lock |
| `game_data` | pass, about 295,000 states | manifest, visible files, result, leftovers; an extraction ends |
| `game_data_deleted` | violation | a stale manifest vouches for a half-finished extraction |
| `blob` | pass, about 714,000 states | the three layers are one map (`IsMap`, the refinement of `BlobMap`); the read cache's accounts are exact; shutdown saves; a torn file is replaced |
| `disc` | pass, about 1.3 million states | cursors stay in their files; the disc's opener is its only reader; reads deliver their own bytes; extracted paths are the table's; open and close return |
| `disc_loose` | violation | loose files are opened by one thread and read by another |
| `launch` | pass, about 922,000 states | no output on a released console, blobs survive every exit, every exit ends, honest FRAMES lines |
| `launch_abort` | violation | an abort under `cache_mutex` never ends |

**Bounds.** Threads: three threads with two ids put one thread in the registry's
middle and make ids scarce; two suffice for the reuse race. Log: a buffer of two
cells with records of one, two and three cells gives records that fit, fill and
exceed it, and two clients give every pair of calls; each record is logged once
and plain flushes stop at `MaxFlush`. VFS: three connections make "first opened,
last closed" and "third party opens meanwhile" possible, two paths keep a
database apart from its journal, one native call fails. Connections are
interchangeable and the properties invariants, so states that differ by a
permutation of them count once. Game data: a directory, a
two-chunk and an empty file cover the walk; the cut-off image ends after the first
chunk; two faults allow one error while
recovering from another; launches and crashes are not bounded. Blob cache: four
keys over three hashes, so that two keys collide and the entry cap of two evicts;
blobs that are empty, small, medium and too large for the read cache; batches
close by count (two) and by bytes; each key has blobs of its own, the colliding
two among them small, medium, oversized and empty ones; three stores let a blob be replaced while a
batch with the old one is open, committed or dropped; one fault; prunes, lookups
and restarts are not bounded. One client suffices because calls are atomic and
stores are not tied to a client. Disc: two game threads make queued reads of two
files interleave; three usable images (flat, nested and one whose ranges do not
nest) and ten broken ones, each failing another check; reads that start at, in
and beyond a file's end and go past it; two opens or closes, so that a second one
meets the worker of the first; one fault. Launch: main and one worker, three
calls into cache or VFS, one fault, two attempts at the exit in place of fifty;
frames of three lengths, in the first bin, in the last and beyond the histogram,
with up to six in a window.
Deadlock checking is off where the system may rest: all threads ended, the log
shut down, no disc image on the card, the opens used up, the process over.

**Fairness.** `threads`: weak fairness of the reaper and of a thread that has
started to exit; both only wait for a mutex. Nothing forces anyone to detach or
join. `log_live`: weak fairness of the writer's steps and of clients that are
inside a call; the writer's wait is timed and the mutex is held for bounded
work. `game_data`: weak fairness of the extraction's steps that
neither cancel nor fail (`GoesOn`), a loop of the running thread: it has to end
by itself, at the end of its files or of the image; the process may still die. `disc`: weak fairness of the main thread
inside a call and of the worker, both of which only wait for each other.
`launch`: weak fairness of the log writer once stopped and of each thread that is
inside a lock or on its way out; none of the game's threads has to enter or
exit. An exiting thread could starve on `cache_mutex` if others took it for ever;
`MaxCalls` rules that out, as Horizon's mutexes do by waking a waiter.

## Findings

1. `__wrap_pthread_join` looks its record up by `pthread_t` after the system join
   returned (`clang_tls_switch.c:147`). If the id is given out again before the
   lookup, the new thread's record is found and its stack freed.
2. An old manifest survives the deletion of `files/` and vouches for the next,
   interrupted extraction (`disc_extractor.cpp:243`).
3. In loose mode `DVDFastOpen` opens a file on the calling thread and the worker
   reads it (`aurora-switch-no-mmap.patch:401`), although the comment on `runSync`
   in the same patch reports that this faults on the hardware.
4. `kartpad_fast_exit` first takes `cache_mutex`, without a bound
   (`clang_tls_switch.c:203`). A thread that aborts while it holds that mutex,
   the case the bounded attempts on the VFS mutex are there for, hangs before it
   reaches them.

Each is what its violation run shows, with the line of the repository it
disagrees with in `PROJECT.json`. More disagreements are stated in the modules as
the repository words them and have no run of their own; each fails within the
bounds of its component's passing run, as TLC shows when the definition is added
to that configuration's invariants. The run's own properties say what is left of
each promise.

| Definition | Promise | What the code does |
|---|---|---|
| `LossesTold` (`LogWriter`) | "The writer reports losses explicitly" (`log_switch.cpp:136-137`) | a record dropped after the last swap of a stopping writer is counted and never reported (line 138); left: `LossesAnnounced` |
| `CriticalKept` (`LogWriter`) | "Critical records may block for space" (line 162) | a record that another thread's shutdown overtakes is cut short or dropped, uncounted (line 175) |
| `OneHolder` (`HosVfs`) | the lock directory "serializes connections to one file" (`sqlite_vfs.cpp:180-181`) | `open` deletes the directory a live connection owns (line 273), and a second connection can hold the lock too; left: `Exclusion` |
| `ManifestProves` (`GameData`) | the manifest "proves every file was written" (`disc_extractor.cpp:273`) | `fclose` is not looked at (line 158): a file cut off by a late write error gets its final name and a manifest; left: `ManifestCovers` |
| `OkIsComplete` (`GameData`) | "Returns ok=false with a message on any failure" (`disc_extractor.h:37-38`) | the last error of the manifest's own stream is lost (`disc_extractor.cpp:287`), ok returned and the manifest not accepted; left: `ResultHonest` |
| `LooseBootOpens` (`GameData`) | `disc.meta` and `disc-boot.bin` "are written automatically the first time the game runs" (`game_data_gate.cpp:133-134`) | a `disc.meta` torn by a crash is never rewritten and makes the boot without image fail (`melee-switch-gcc-compat.patch:454`) |
| `KeyChecked` (`BlobCache`) | "Blob-cache reuse checks full Dawn keys" (`docs/ARCHITECTURE.md:104`, also `blob_read_cache.hpp:11`) | pending blobs and the table are found by hash alone (`aurora-switch-blob-cache-batch.patch:220`): of two keys with one hash, the second is given the first one's blob; left: `IsMap`, and the theorem `FullKeys` |

A collision of 128-bit hashes is not met by chance; it is what the text rules
out. `OneHolder` needs a second connection to the same file in one process.

## Proofs

Every safety invariant a run checks is also proved, for every value of the
constants, and so is the refinement of `BlobMap`. A proof finds an inductive
invariant, shows that `Init` establishes it and each action preserves it, one
lemma per action, and derives the property from it. What the theorems assume is
what the `ASSUME`s of the modules say, which TLC evaluates on every run, and
three conditions named below, on thread ids, on deleted files and on hashes: that
a run or a disagreement above breaks without them is the reason they are there.

**`ThreadReaper_proofs`** (`StackSafety`, `PointerSafety`, `QueueSound`,
`Reclamation` assume `~IdReuse`; `TypeCorrect` assumes nothing). The invariant
ties a record's place (registry, queue, the reaper's hands, freed) to the state
of its thread and its creator's claim, and says that the lists have no
repetitions and that registered ids are distinct. Without the last part a lookup
by id could return another record, which is finding 1. `Reclamation` adds
`NoOrphanRecord`, which no run checks.

**`LogWriter_proofs`**. `NoWaiterStranded` rests on `Counters`, the order of
completed, in-flight and requested flush numbers: a request is counted only
while not stopping, and the writer stops only after a swap that saw it. The
stream needs the larger `SInv`. `StreamIntact` names both buffers, so an
invariant about it has to say that the writer never holds the buffer being
filled and holds none outside `write` (`BuffersApart`); `LossesReported` needs
to know when the writer holds a count (`LossHeld`), that drops are counted, held or
announced and never twice (`LossSum`), and that the losses before a waiting flush
or shutdown are in the writer's hands when its request is being worked on and
announced when it is completed (`LossCovers`); `FlushCommits` is about a
flush that returns, so it has to be carried through the writer's steps: what a
waiting flush was promised has been swapped when its request is being worked on
and committed when it is completed (`Covers`); and `ShutdownDrains` needs that
the last round commits the whole file (`LastCommit`).

**`HosVfs_proofs`**. The reference count is the cardinality of the set of open
connections, so `HandlesCounted` is arithmetic on finite sets once every
connection is known to be closed, half open or open on a path (`ConnsOK`).
`FlushReaches` needs that a connection that may write shares a writable handle
(`ModesOK`), `StaleLocksCleared` that a directory was cleared between the two
halves of `open` (`ClearedOK`). `Serialised` assumes nothing: on a path that no
`open` has disturbed the holder owns the directory, and a second one would have
needed to create it. A directory found where an `open` has just cleared may be a
new holder's own.

**`GameData_proofs`** (`ManifestSound` and `ResultSound` assume `~UserDeletes`;
`NoTorn`, `NoPartLeft` and `TypeCorrect` assume nothing). `ManifestCovers`
alone is not inductive: the invariant adds that everything before the walk's
entry is in place and that an extraction runs only while there is no manifest.
Deleting `files/` breaks the second part, which is finding 2. `ManifestSound`
and `NoTorn` except exactly the files whose `fclose` failed, `ResultSound` a
manifest whose stream failed, as the properties say; without the exceptions they
are `ManifestProves` and `OkIsComplete`, which fail.

**`BlobCache_proofs`**. The number of bytes in the read cache is a sum along a
list, defined by recursion. The first half of the module shows what such a sum
does when an entry is put in front, taken out or dropped at the end, and that
`Filter`, the recursive function behind `invalidate` and `put`, keeps exactly the
other entries in their order; then `RamExact` follows. The invariant of the
layers (`LayersAgree`) says, hash by hash, that an entry of the read cache is
what was stored last, or what the table holds where the batch with the last
store was dropped; that the last pending write of a hash is what was stored
last; and that where nothing is pending or dropped the table is. With it
`ImplementsMap` shows each action to be a step of `BlobMap` or to leave its
state alone. `FullKeys` assumes that no two keys share a hash; without that
`KeyChecked` fails. `ProcessOK` relates the database's state to failures, for
`TornRecovered` and `ShutdownComplete`.

**`DvdWorker_proofs`**. The stream belongs to the worker because the main thread
opens only while no file is open and waits while the worker opens (`InCall`,
`LayerReady`). `OwnBytesRead` needs that an open file shows the extent of its
entry in the table now in use (`FilesOpen`), and that what is queued or being
served is a pending command, none twice, so that the cursor which a seek has set
is still there when the read comes (`QueueSound`). No condition on the image is
used: `TypeCorrect` says that the cursor of an open file of the disc never lies
beyond the file's end, whatever its table claims and wherever a command seeks
(`SeekCursor`, `ReadCursor`). `PathsMatch`
is about the directory stack of `extractCallback` alone: by induction along the
table, the stack holds a frame for every directory of the entry the walk has
reached, in order, ends nested; frames above the innermost one that has not ended
are popped, so that the top's path is the true one (`Tracks`, `Popped`,
`TracksNext`). It uses that ranges nest; `disc` has an image where they do not.

**`Launch_proofs`**. `StreamsOnCard` orders the console, the two redirections and
the log writer by what `main` has done; `ExitSaves` says where each blob stored
before the exit is, at each step of each exiting thread. `FramesTold` shows that
histogram and counters (`Histogram`) count the frames since the last line, by
representing those frames as a set of pairs of a duration and a number; that the
running sum in `percentile` counts the frames below a bin's bound; and that the
nearest-rank percentile lies below the bound exactly when that sum reaches the
rank.

Two devices recur. A recursive function is a `CHOOSE` of a solution of its
equation: the lemmas exhibit a solution (`Recursion`, or a closed form) and show
by induction that all solutions agree. And since theorems about induction take an
operator as a parameter, which the provers cannot instantiate, induction is
stated once, with a set of numbers in its place (`UpTo` of `RecursionLemmas`,
from the well-foundedness of the natural numbers).

**Model-checked only.** Liveness: `Reclaimed`, `FlushReturns`, `ShutdownEnds`,
`ExtractEnds`, `CallReturns` and `ExitEnds` need fairness and `ENABLED`, which are
out of the prover's reach. The four violations are TLC's counterexamples.

## Plan

Done: `ThreadReaper`, `LogWriter`, `HosVfs` and `GameData`, in order of how much
breaks when they do; then `BlobCache` with its abstract map, `GcDisc` and
`DvdWorker`, and `Launch`, which composes the exit with what it flushes; and the
theorems about all of them.

Open: the safety half of the liveness properties, that is, for each of them the
invariant that somebody is about to take the step it waits for (`NoStrandedWaiter`
is that of `FlushReturns`; the others have none yet).

## Not modelled

Contents of SQLite files, path translation and the clock calls of the VFS; the
TLS arena; the launcher's user interface; the text of the terminate handler's
message and of the boot trace; stage averages, affinity and `perf.cfg` of the
telemetry; compression of blobs; freeing of disc handles and out-of-memory paths;
timing of any kind.

The pipeline cache. Its patch edits single lines of upstream functions: where a
descriptor write is handed to the writer, what the worker's first wait tests and
how a request is queued are in code that is not in the repository, so no action
could be translated whole. Cancelled reads, overlay
files and streaming in the DVD layer are left out for the same reason.

Known and only listed as hazards: a torn `disc.meta`, above; a critical writer may
starve under endless producers; two threads that exit at once both join the log
writer, which the C library leaves undefined. Fast exit gives up on a held VFS
mutex after half a second, on purpose; what is unflushed then, and the `fflush`
and `fsync` before the process ends, are not in `Launch`.
