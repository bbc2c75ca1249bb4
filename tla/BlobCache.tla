----------------------------- MODULE BlobCache ------------------------------
(***************************************************************************)
(* The Dawn blob cache: the read cache of blob_read_cache.hpp, the buffer  *)
(* of pending writes and the SQLite table behind it, as                    *)
(* aurora-switch-blob-cache-batch.patch puts them together.                *)
(*                                                                         *)
(* Every call runs under cache_mutex and is one action; what interleaves   *)
(* are the calls, above all the two of one lookup.  cache_init, which      *)
(* every call makes first, acts once per process: it is an action of its   *)
(* own that has to come before the others.  Compression is left out, the   *)
(* decoding of a stored blob may fail.                                     *)
(***************************************************************************)
EXTENDS Integers, Sequences, FiniteSets

CONSTANTS Clients, Keys, Hashes, Values,
          Hash,             \* [Keys -> Hashes], the XXH128 of a key
          Owner,            \* [Values -> Keys], the key a blob was made for
          Size,             \* [Values -> bytes]
          KeySize,          \* bytes of a key
          Absent, Changed, NoAsk,
          Budget, Limit,    \* of the read cache: bytes and entries
          MaxPending,       \* MaxPendingCacheWrites
          MaxPendingBytes,  \* MaxPendingCacheBytes
          MaxStores,        \* bound: calls of store_to_cache
          MaxFaults         \* bound: failing storage calls and torn files

ASSUME BlobAssumption ==
    /\ Hash \in [Keys -> Hashes]
    /\ Owner \in [Values -> Keys] /\ Size \in [Values -> Nat]
    /\ Absent \notin Values /\ Changed \notin Values /\ Absent # Changed
    /\ NoAsk \notin Keys \X Nat
    /\ {KeySize, Budget, Limit, MaxPending, MaxPendingBytes, MaxStores, MaxFaults}
           \subseteq Nat

VARIABLES
    ram, bytes,             \* the read cache, most recent first, and bytes_
    pend, pbytes,           \* pending_writes and pending_write_bytes
    rows, torn,             \* the table; is the database file unreadable?
    db,                     \* "closed", "open", "broken" or "down" (shut down)
    used,                   \* cache_keys_used
    ask, reply,             \* clients between query and copy; last answer
    last, lossy,            \* observations: see BlobMap
    faults, hurt, stores    \* failures so far, any in this launch, stores so far

ramVars == <<ram, bytes>>
pendVars == <<pend, pbytes>>
diskVars == <<rows, torn>>
clientVars == <<ask, reply>>
obsVars == <<last, lossy>>
vars == <<ramVars, pendVars, diskVars, db, used, clientVars, obsVars, faults, hurt, stores>>

Entry == [key : Keys, val : Values]
Write == [hash : Hashes, val : Values]

(* The type invariant.                                                     *)
TypeOK ==
    /\ ram \in Seq(Entry) /\ bytes \in Nat
    /\ pend \in Seq(Write) /\ pbytes \in Nat
    /\ rows \in [Hashes -> Values \cup {Absent}] /\ torn \in BOOLEAN
    /\ db \in {"closed", "open", "broken", "down"}
    /\ used \in SUBSET Hashes
    /\ ask \in [Clients -> (Keys \X Nat) \cup {NoAsk}]
    /\ reply \in {<<>>} \cup (Keys \X (Values \cup {Absent, Changed}))
    /\ last \in [Hashes -> Values \cup {Absent}] /\ lossy \in SUBSET Hashes
    /\ faults \in Nat /\ hurt \in BOOLEAN /\ stores \in Nat

Nothing == [h \in Hashes |-> Absent]

Init ==
    /\ ram = <<>> /\ bytes = 0
    /\ pend = <<>> /\ pbytes = 0
    /\ rows = Nothing /\ torn = FALSE
    /\ db = "closed"
    /\ used = {}
    /\ ask = [c \in Clients |-> NoAsk] /\ reply = <<>>
    /\ last = Nothing /\ lossy = {}
    /\ faults = 0 /\ hurt = FALSE /\ stores = 0

SizeOf(v) == IF v = Absent THEN 0 ELSE Size[v]

(* A storage call fails.                                                   *)
Fails == faults < MaxFaults /\ faults' = faults + 1 /\ hurt' = TRUE
Works == UNCHANGED <<faults, hurt>>

-----------------------------------------------------------------------------
(* blob_read_cache.hpp                                                     *)

(* Bytes of the entries of s, keys included.                               *)
Weight(s) ==
    LET sum[i \in 0..Len(s)] == IF i = 0 THEN 0 ELSE sum[i - 1] + KeySize + Size[s[i].val]
    IN  sum[Len(s)]

Accepts(v) ==
    /\ Limit # 0 /\ KeySize <= Budget
    /\ SizeOf(v) # 0 /\ SizeOf(v) <= Budget - KeySize

(* find compares hash and full key; a hit moves to the front.              *)
Hits(k) == {i \in 1..Len(ram) : ram[i].key = k}

(* The entries of s that are in G, in their order (a SelectSeq whose       *)
(* definition can be reasoned about).                                      *)
Filter(s, G) ==
    LET among[i \in 0..Len(s)] ==
            IF i = 0 THEN <<>>
            ELSE IF s[i] \in G THEN Append(among[i - 1], s[i]) ELSE among[i - 1]
    IN  among[Len(s)]

Others(s, k) == Filter(s, {e \in Entry : e.key # k})

Touch(k) ==
    /\ ram' = <<ram[CHOOSE i \in Hits(k) : TRUE]>> \o Others(ram, k)
    /\ bytes' = bytes

(* Faulty variant: only the entry of the very key is dropped.              *)
BadKept(k) == Others(ram, k)

(* invalidate: all entries with this hash go.                              *)
Kept(k) == Filter(ram, {e \in Entry : Hash[e.key] # Hash[k]})

(* bytes_ once invalidate has left the entries s.  Faulty variant: a key's *)
(* bytes are taken off even when nothing goes.                             *)
BadRemaining(s) == bytes - (Weight(ram) - Weight(s)) - KeySize
Remaining(s) == bytes - (Weight(ram) - Weight(s))

(* The number of entries that fill leaves of s, whose bytes_ is b: the     *)
(* oldest are evicted until both the entry cap and the budget allow n more *)
(* bytes.                                                                  *)
Room(s, b, n) ==
    LET fits(m) == m < Limit /\ b - (Weight(s) - Weight(SubSeq(s, 1, m))) <= Budget - n
    IN  CHOOSE m \in 0..Len(s) : fits(m) /\ \A j \in (m + 1)..Len(s) : ~fits(j)

(* fill: invalidate, evict, decode, insert in front.                       *)
Fill(k, v, decoded) ==
    LET kept   == Kept(k)
        b      == Remaining(kept)
        needed == KeySize + Size[v]
        stay   == SubSeq(kept, 1, Room(kept, b, needed))
        rest   == b - (Weight(kept) - Weight(stay))
    IN  /\ ram' = IF decoded THEN <<[key |-> k, val |-> v]>> \o stay ELSE stay
        /\ bytes' = IF decoded THEN rest + needed ELSE rest

ClearRam == ram' = <<>> /\ bytes' = 0

-----------------------------------------------------------------------------
(* find_pending_write: the newest pending write with this hash.            *)
Pending(h) == {i \in 1..Len(pend) : pend[i].hash = h}

Newest(h) == CHOOSE i \in Pending(h) : \A j \in Pending(h) : j <= i

(* What pending writes and table hold for h.                               *)
Below(h) == IF Pending(h) # {} THEN pend[Newest(h)].val ELSE rows[h]

(* load_blob_locked for a value of size n or, with n = 0, for the size:    *)
(* afterwards the caller has been given found.  A blob that fits the read  *)
(* cache is decoded into it, unless the caller expects another size.       *)
Load(k, n, found) ==
    LET h == Hash[k]
        v == Below(h)
    IN  /\ db = "open"
        /\ \/ /\ Hits(k) # {}
              /\ found = ram[CHOOSE i \in Hits(k) : TRUE].val
              /\ Touch(k) /\ Works
           \/ /\ Hits(k) = {} /\ found = v /\ Works
              /\ IF Accepts(v) /\ n \in {0, SizeOf(v)}
                 THEN Fill(k, v, TRUE)
                 ELSE UNCHANGED ramVars
           \/ /\ Hits(k) = {} /\ Pending(h) = {} /\ found = Absent /\ Fails
              /\ \/ UNCHANGED ramVars                   \* SELECT or a direct decode fails
                 \/ /\ Accepts(v) /\ n \in {0, SizeOf(v)}
                    /\ Fill(k, v, FALSE)               \* decode_blob fails

(* load_from_cache with a null buffer, Dawn's size query.                  *)
LoadSize(c, k) ==
    /\ ask[c] = NoAsk
    /\ \E v \in Values \cup {Absent} :
          /\ Load(k, 0, v)
          /\ IF SizeOf(v) = 0
             THEN reply' = <<k, Absent>> /\ ask' = ask
             ELSE ask' = [ask EXCEPT ![c] = <<k, SizeOf(v)>>] /\ reply' = reply
    /\ UNCHANGED <<pendVars, diskVars, db, used, obsVars, stores>>

(* load_from_cache with the buffer the query asked for: copied only when   *)
(* the size still fits.                                                    *)
LoadCopy(c) ==
    /\ ask[c] # NoAsk
    /\ LET k == ask[c][1]
           n == ask[c][2]
       IN  \E v \in Values \cup {Absent} :
              /\ Load(k, n, v)
              /\ reply' = <<k, IF SizeOf(v) = 0 THEN Absent
                               ELSE IF SizeOf(v) = n THEN v ELSE Changed>>
              /\ used' = IF SizeOf(v) = n THEN used \cup {Hash[k]} ELSE used
    /\ ask' = [ask EXCEPT ![c] = NoAsk]
    /\ UNCHANGED <<pendVars, diskVars, db, obsVars, stores>>

-----------------------------------------------------------------------------
HashesOf(s) == {s[i].hash : i \in 1..Len(s)}

(* The table after the writes of s, in order: the last one of a hash wins. *)
Inserted(s) ==
    [h \in Hashes |->
        IF h \in HashesOf(s)
        THEN s[CHOOSE i \in 1..Len(s) :
                  s[i].hash = h /\ \A j \in 1..Len(s) : s[j].hash = h => j <= i].val
        ELSE rows[h]]

(* flush_pending_writes_locked on the batch s: one transaction, which a    *)
(* failing call rolls back; the buffer is cleared whatever happens.        *)
FlushPending(s) ==
    /\ pend' = <<>> /\ pbytes' = 0
    /\ \/ rows' = Inserted(s) /\ lossy' = lossy \ HashesOf(s) /\ Works
       \/ s # <<>> /\ rows' = rows /\ lossy' = lossy \cup HashesOf(s) /\ Fails

(* Faulty variant: the read cache keeps what it had under the hash.        *)
BadInvalidate(k) == UNCHANGED ramVars

Invalidate(k) ==
    /\ ram' = Kept(k)
    /\ bytes' = Remaining(Kept(k))

StoreToCache(k, v) ==
    LET batch == Append(pend, [hash |-> Hash[k], val |-> v])
        total == pbytes + Size[v]
    IN  /\ db = "open" /\ stores < MaxStores /\ stores' = stores + 1
        /\ Invalidate(k)
        /\ used' = used \cup {Hash[k]}
        /\ last' = [last EXCEPT ![Hash[k]] = v]
        /\ IF Len(batch) >= MaxPending \/ total >= MaxPendingBytes
           THEN FlushPending(batch)
           ELSE /\ pend' = batch /\ pbytes' = total
                /\ lossy' = lossy \ {Hash[k]}
                /\ UNCHANGED rows /\ Works
        /\ UNCHANGED <<torn, db, clientVars>>

(* cache_flush, which aurora_flush_caches calls on the way out.            *)
CacheFlush ==
    /\ db = "open" /\ pend # <<>>
    /\ FlushPending(pend)
    /\ UNCHANGED <<ramVars, torn, db, used, clientVars, last, stores>>

(* Faulty variant: the pending writes are not committed before the delete. *)
BadPruneBatch == <<>>
PruneBatch == pend

(* cache_prune: commit the pending writes, then delete every row whose     *)
(* hash was not used; the delete may fail as a whole.                      *)
CachePrune ==
    /\ db = "open"
    /\ ClearRam
    /\ pend' = <<>> /\ pbytes' = 0
    /\ \E saved, pruned \in BOOLEAN :
          LET table == IF saved THEN Inserted(PruneBatch) ELSE rows
              kept  == IF pruned THEN used ELSE Hashes
          IN  /\ saved \/ pend # <<>>
              /\ pruned \/ used # {}
              /\ IF saved /\ pruned THEN Works ELSE Fails
              /\ rows' = [h \in Hashes |-> IF used = {} \/ h \in kept THEN table[h] ELSE Absent]
              /\ last' = [h \in Hashes |-> IF used = {} \/ h \in kept THEN last[h] ELSE Absent]
              /\ lossy' = IF saved THEN lossy \ HashesOf(pend) ELSE lossy \cup HashesOf(pend)
    /\ UNCHANGED <<torn, db, used, clientVars, stores>>

(* cache_shutdown: the last call of a process that ends in good order.     *)
CacheShutdown ==
    /\ db = "open"
    /\ ClearRam
    /\ FlushPending(pend)
    /\ db' = "down"
    /\ UNCHANGED <<torn, used, clientVars, last, stores>>

-----------------------------------------------------------------------------
(* cache_init, by the first call of a process.  When the database does not *)
(* open, quarantine_cache_file moves it aside and a fresh one is tried,    *)
(* once; the second failure disables the cache for this process.           *)
OpenFresh ==
    /\ rows' = Nothing /\ last' = Nothing /\ torn' = FALSE
    /\ db' \in {"open", "broken"}

(* Faulty variant: an unreadable file disables the cache, as it used to.   *)
BadQuarantine ==
    /\ db' = "broken" /\ UNCHANGED <<diskVars, last>>
    /\ Works

Quarantine ==
    \/ OpenFresh /\ db' = "open" /\ (IF torn THEN Works ELSE Fails)
    \/ OpenFresh /\ db' = "broken" /\ Fails             \* the fresh one fails too
    \/ db' = "broken" /\ UNCHANGED <<diskVars, last>> /\ Fails  \* neither rename nor remove

CacheInit ==
    /\ db = "closed"
    /\ \/ ~torn /\ db' = "open" /\ UNCHANGED <<diskVars, last>> /\ Works
       \/ torn /\ Quarantine
       \/ ~torn /\ faults < MaxFaults /\ Quarantine
    /\ UNCHANGED <<ramVars, pendVars, used, clientVars, lossy, stores>>

(* The process ends, by exit or crash, and the next one starts.  A crash   *)
(* can tear the file.                                                      *)
Restart ==
    /\ db # "closed"
    /\ ClearRam
    /\ pend' = <<>> /\ pbytes' = 0
    /\ \/ torn' = torn /\ faults' = faults
       \/ db = "open" /\ torn' = TRUE /\ faults < MaxFaults /\ faults' = faults + 1
    /\ db' = "closed" /\ used' = {} /\ hurt' = FALSE
    /\ ask' = [c \in Clients |-> NoAsk] /\ reply' = reply
    /\ last' = rows /\ lossy' = {}
    /\ UNCHANGED <<rows, stores>>

Next ==
    \/ \E c \in Clients : LoadCopy(c) \/ \E k \in Keys : LoadSize(c, k)
    \/ \E v \in Values : StoreToCache(Owner[v], v)
    \/ CacheFlush \/ CachePrune \/ CacheShutdown \/ CacheInit \/ Restart

Spec == Init /\ [][Next]_vars

-----------------------------------------------------------------------------
Map == INSTANCE BlobMap WITH safe <- rows, unsaved <- HashesOf(pend), fails <- faults

(* The three layers together are one map: load_from_cache finds the blob   *)
(* last stored under the hash, across fills, evictions, invalidations,     *)
(* batches, prunes and restarts, and a blob is lost only with a batch or   *)
(* file that failed.  On keys that share a hash it says nothing: they      *)
(* share an entry of the map, and KeyChecked fails for them.               *)
IsMap == Map!MapSpec

(* ARCHITECTURE.md: "Blob-cache reuse checks full Dawn keys."  A lookup is *)
(* given a blob only if that blob was stored under the very key it asks    *)
(* for.  The read cache compares keys; find_pending_write and the table    *)
(* compare hashes alone, so that the code ensures it only while no two     *)
(* keys in use share a hash.                                               *)
KeyChecked ==
    reply # <<>> /\ reply[2] \in Values => Owner[reply[2]] = reply[1]

(* The read cache is exact: bytes_ is what the entries occupy, within the  *)
(* budget and the entry cap, or fill's eviction loop would empty the list  *)
(* and read past its end; and one hash has at most one entry, whatever     *)
(* colliding keys are looked up, so that it answers as the table does,     *)
(* which knows only hashes (BlobReadCache::fill, invalidate).              *)
RamExact ==
    /\ bytes = Weight(ram) /\ bytes <= Budget
    /\ Len(ram) <= Limit
    /\ \A i, j \in 1..Len(ram) : Hash[ram[i].key] = Hash[ram[j].key] => i = j

(* A process that stored blobs and shut down in good order, with no call   *)
(* failing, left all of them in the table (cache_shutdown).                *)
ShutdownSaves ==
    db = "down" /\ ~hurt => \A h \in used : rows[h] = last[h]

(* An unreadable database file alone never disables the cache: it takes a  *)
(* call that fails in this very launch (cache_init).                       *)
TornIsRecovered == db = "broken" => hurt

=============================================================================
