------------------------------ MODULE BlobMap -------------------------------
(***************************************************************************)
(* What the Dawn blob cache promises, and for which keys: one map from     *)
(* hashes to blobs.  It is a map from keys to blobs only as far as no two  *)
(* keys share a hash; what it gives a key when two do is KeyChecked's      *)
(* question (BlobCache), not this module's.                                *)
(*                                                                         *)
(* A lookup is Dawn's pair of calls, a size query and a copy.  It sees the *)
(* last blob stored under the hash.  Only when the batch that carried that *)
(* blob was dropped (lossy) may it see the one committed before instead,   *)
(* and only a failing storage call turns a blob that is there into a miss. *)
(* Whatever this process stored or copied survives a prune.                *)
(***************************************************************************)
EXTENDS Naturals

CONSTANTS Clients, Keys, Hashes, Values,
          Hash,       \* [Keys -> Hashes]
          Owner,      \* [Values -> Keys], the key a blob was made for
          Size,       \* [Values -> bytes]; a blob may be empty
          Absent,     \* no blob
          Changed,    \* the answer to a copy whose size no longer fits
          NoAsk       \* a client that is not between query and copy

VARIABLES last,       \* [Hashes -> blob] as last stored
          safe,       \* [Hashes -> blob] as committed
          unsaved,    \* hashes stored since the last batch
          lossy,      \* hashes whose last blob was in a dropped batch
          used,       \* hashes stored or copied by this process
          ask,        \* [Clients -> <<key, size>>] between the two calls
          reply,      \* <<key, outcome>> of the last lookup that ended
          fails       \* number of storage calls that failed

mapVars == <<last, safe, unsaved, lossy, used, ask, reply, fails>>

Nothing == [h \in Hashes |-> Absent]
SizeOf(v) == IF v = Absent THEN 0 ELSE Size[v]

MapInit ==
    /\ last = Nothing /\ safe = Nothing
    /\ unsaved = {} /\ lossy = {} /\ used = {}
    /\ ask = [c \in Clients |-> NoAsk]
    /\ reply = <<>>
    /\ fails = 0

(* What a lookup of hash h may find.                                       *)
Seen(h) == {last[h]} \cup (IF h \in lossy THEN {safe[h]} ELSE {})
              \cup (IF fails' > fails THEN {Absent} ELSE {})

Query(c, k) ==
    /\ ask[c] = NoAsk
    /\ fails' >= fails
    /\ \E v \in Seen(Hash[k]) :
          IF SizeOf(v) = 0
          THEN reply' = <<k, Absent>> /\ ask' = ask
          ELSE ask' = [ask EXCEPT ![c] = <<k, SizeOf(v)>>] /\ reply' = reply
    /\ UNCHANGED <<last, safe, unsaved, lossy, used>>

Outcome(v, n) ==
    IF SizeOf(v) = 0 THEN Absent ELSE IF SizeOf(v) = n THEN v ELSE Changed

Copy(c) ==
    /\ ask[c] # NoAsk
    /\ fails' >= fails
    /\ LET h == Hash[ask[c][1]]
       IN  \E v \in Seen(h) :
              /\ reply' = <<ask[c][1], Outcome(v, ask[c][2])>>
              /\ used' = IF Outcome(v, ask[c][2]) \in Values THEN used \cup {h} ELSE used
    /\ ask' = [ask EXCEPT ![c] = NoAsk]
    /\ UNCHANGED <<last, safe, unsaved, lossy>>

(* A batch of the hashes B ends: committed with the blobs of map m, or     *)
(* dropped because a storage call failed.                                  *)
Commits(m, B) ==
    /\ safe' = [h \in Hashes |-> IF h \in B THEN m[h] ELSE safe[h]]
    /\ lossy' = lossy \ B
    /\ fails' >= fails

Drops(B) ==
    /\ safe' = safe
    /\ lossy' = lossy \cup B
    /\ fails' > fails

Batch(m, B) == unsaved' = {} /\ (Commits(m, B) \/ Drops(B))

Store(k, v) ==
    /\ last' = [last EXCEPT ![Hash[k]] = v]
    /\ used' = used \cup {Hash[k]}
    /\ \/ /\ unsaved' = unsaved \cup {Hash[k]}
          /\ lossy' = lossy \ {Hash[k]}
          /\ UNCHANGED <<safe, fails>>
       \/ Batch(last', unsaved \cup {Hash[k]})
    /\ UNCHANGED <<ask, reply>>

Flush ==
    /\ unsaved # {}
    /\ Batch(last, unsaved)
    /\ UNCHANGED <<last, used, ask, reply>>

(* Blobs this process never used are deleted, after the batch.             *)
Prune ==
    /\ used # {}
    /\ \E saved \in BOOLEAN :
          /\ fails' >= fails /\ (~saved => fails' > fails)
          /\ safe' = [h \in Hashes |-> IF h \notin used THEN Absent
                                      ELSE IF saved /\ h \in unsaved THEN last[h] ELSE safe[h]]
          /\ lossy' = IF saved THEN lossy \ unsaved ELSE lossy \cup unsaved
    /\ last' = [h \in Hashes |-> IF h \in used THEN last[h] ELSE Absent]
    /\ unsaved' = {}
    /\ UNCHANGED <<used, ask, reply>>

(* The process ends; what was committed stays.                             *)
End ==
    /\ last' = safe
    /\ fails' >= fails
    /\ unsaved' = {} /\ lossy' = {} /\ used' = {}
    /\ ask' = [c \in Clients |-> NoAsk]
    /\ UNCHANGED <<safe, reply>>

(* The storage was unreadable and is started afresh.                       *)
Reset ==
    /\ unsaved = {}
    /\ fails' >= fails /\ fails' > 0
    /\ last' = Nothing /\ safe' = Nothing /\ lossy' = {}
    /\ UNCHANGED <<unsaved, used, ask, reply>>

(* A storage call fails without consequence for the map.                   *)
Fault ==
    /\ fails' > fails
    /\ UNCHANGED <<last, safe, unsaved, lossy, used, ask, reply>>

MapNext ==
    \/ \E c \in Clients : Copy(c) \/ \E k \in Keys : Query(c, k)
    \/ \E v \in Values : Store(Owner[v], v)
    \/ Flush \/ Prune \/ End \/ Reset \/ Fault

MapSpec == MapInit /\ [][MapNext]_mapVars

=============================================================================
