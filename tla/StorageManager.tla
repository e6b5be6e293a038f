--------------------------- MODULE StorageManager ---------------------------
(***************************************************************************)
(* Which accounts keep their data on the device (StorageManager of         *)
(* packages/chat, with the prefix of LocalStorageRepository).  Keys start  *)
(* with the hash of an account; the manager tracks the hashes with the     *)
(* time of their last use and evicts the account not used for longest.     *)
(* The first page of this version goes over what older ones left.  Nobody  *)
(* awaits any of this: pages write, switch accounts and close meanwhile.   *)
(*                                                                         *)
(* An entry is [of, k]: of an account, "global" or "foreign".  The storage *)
(* is a sequence, as adaptor.key(index) reads it; one step looks at one    *)
(* key.                                                                    *)
(***************************************************************************)
EXTENDS Integers, Sequences, SequencesExt, FiniteSets

CONSTANTS
    Address,
    Bounds    \* the bounds: records [max: MAX_ADDRESS_HASHES; entries: what older pages left;
              \* switches, writes, reloads, ticks]

VARIABLES
    entries, \* the storage
    stored,  \* what it has under ADDRESS_HASHES_KEY: {} or {the hashes}
    marked,  \* whether it has INIT_MARKER_KEY
    hashes,  \* addressHashes: [of, at] in the order they were added
    prefix,  \* _storageKeyPrefix: {} or {account}
    init,    \* where init is: "no", "load", "check", "scan", "persist", "mark", "done"
    scans,   \* loops of processAllEntries: [evict: {} of init or {account}, i, id]
    now,     \* the clock
    skipped, \* history: entries that a scan stepped over as keys were removed
    excused, \* history: accounts that were evicted as the last used, came back as they were being
             \* evicted, whose hash was overwritten by or before the load, or lost as the page closed
    left     \* what is left of the bounds

disk == <<entries, stored, marked>>
vars == <<entries, stored, marked, hashes, prefix, init, scans, now, skipped, excused, left>>

Uses(c) == left[c] > 0 /\ left' = [left EXCEPT ![c] = @ - 1]
Tracked(list) == {list[i].of : i \in DOMAIN list}

Init ==
    /\ left \in Bounds
    /\ entries = left.entries /\ stored = {} /\ marked = FALSE
    /\ hashes = <<>> /\ prefix = {} /\ init = "no" /\ scans = {} /\ now = 1
    /\ skipped = {} /\ excused = {}

StoredTracked == UNION {Tracked(list) : list \in stored}

\* Accounts whose hash goes from the storage since it was not loaded yet.
OverwrittenBeforeLoad == IF init # "load" THEN {} ELSE StoredTracked \ StoredTracked'

-----------------------------------------------------------------------------
(* Start.                                                                  *)

SetStorageAdaptor ==
    /\ init = "no" /\ init' = "load"
    /\ UNCHANGED <<disk, hashes, prefix, scans, now, skipped, excused, left>>

\* What was tracked meanwhile is overwritten.
LoadAddressHashes ==
    /\ init = "load" /\ init' = "check"
    /\ IF stored = {} THEN UNCHANGED <<hashes, excused>>
       ELSE /\ hashes' \in stored
            /\ excused' = excused \union (Tracked(hashes) \ Tracked(hashes'))
    /\ UNCHANGED <<disk, prefix, scans, now, skipped, left>>

IsInitialized ==
    /\ init = "check"
    /\ IF marked THEN init' = "done" /\ UNCHANGED scans
       ELSE init' = "scan" /\ scans' = scans \union {[evict |-> {}, i |-> 1, id |-> 0]}
    /\ UNCHANGED <<disk, hashes, prefix, now, skipped, excused, left>>

PersistAfterCleaning ==
    /\ init = "persist" /\ init' = "mark"
    /\ stored' = {hashes}
    /\ UNCHANGED <<entries, marked, hashes, prefix, scans, now, skipped, excused, left>>

MarkAsInitialized ==
    /\ init = "mark" /\ init' = "done"
    /\ marked' = TRUE
    /\ UNCHANGED <<entries, stored, hashes, prefix, scans, now, skipped, excused, left>>

-----------------------------------------------------------------------------
(* The scans.                                                              *)

Advance(s) == scans' = (scans \ {s}) \union {[s EXCEPT !.i = @ + 1]}

\* The keys behind a removed one move up: the scan itself does not look at
\* the next, another that is further on misses the one it was at.
RemoveKey(s) ==
    /\ entries' = RemoveAt(entries, s.i)
    /\ skipped' = skipped \union {entries[i] : i \in DOMAIN entries \cap
                                     ({s.i + 1} \union {t.i : t \in {u \in scans : u.i > s.i}})}

\* cleanStorageEntryOnInit: keys of nobody are removed, and of accounts that
\* are not tracked once the limit is reached.
CleanStorageEntry(s) ==
    /\ s \in scans /\ s.evict = {} /\ s.i \in DOMAIN entries
    /\ LET a == entries[s.i].of
       IN  IF a = "foreign" \/ (a # "global" /\ a \notin Tracked(hashes) /\ Len(hashes) >= left.max)
           THEN RemoveKey(s) /\ UNCHANGED <<hashes, stored>>
           ELSE /\ IF a = "global" \/ a \in Tracked(hashes) THEN UNCHANGED <<hashes, stored>>
                   ELSE hashes' = Append(hashes, [of |-> a, at |-> now]) /\ stored' = {hashes'}
                /\ UNCHANGED <<entries, skipped>>
    /\ Advance(s)
    /\ UNCHANGED <<marked, prefix, init, now, excused, left>>

CleaningEnds(s) ==
    /\ s \in scans /\ s.evict = {} /\ s.i \notin DOMAIN entries
    /\ scans' = scans \ {s} /\ init' = "persist"
    /\ UNCHANGED <<disk, hashes, prefix, now, skipped, excused, left>>

\* deleteEntriesWithHash.
DeleteEntry(s) ==
    /\ s \in scans /\ s.evict # {} /\ s.i \in DOMAIN entries
    /\ IF entries[s.i].of \in s.evict THEN RemoveKey(s) ELSE UNCHANGED <<entries, skipped>>
    /\ Advance(s)
    /\ UNCHANGED <<stored, marked, hashes, prefix, init, now, excused, left>>

\* The list without the accounts as, in its order.
Without(list, as) ==
    LET kept[i \in 0..Len(list)] ==
            IF i = 0 THEN <<>>
            ELSE IF list[i].of \in as THEN kept[i - 1] ELSE Append(kept[i - 1], list[i])
    IN  kept[Len(list)]

EvictionEnds(s) ==
    /\ s \in scans /\ s.evict # {} /\ s.i \notin DOMAIN entries
    /\ scans' = scans \ {s}
    /\ hashes' = Without(hashes, s.evict)
    /\ stored' = {hashes'}
    /\ excused' = excused \union OverwrittenBeforeLoad
    /\ UNCHANGED <<entries, marked, prefix, init, now, skipped, left>>

-----------------------------------------------------------------------------
(* The page.                                                               *)

\* Of those used longest ago the one added last.
Oldest(list) ==
    LET least == {i \in DOMAIN list : \A j \in DOMAIN list : list[i].at <= list[j].at}
    IN  list[CHOOSE i \in least : \A j \in least : j <= i].of

\* Mutant: the time of an account that is tracked is not renewed.
MutTouch(list, a) == IF a \in Tracked(list) THEN list ELSE Append(list, [of |-> a, at |-> now])

Touch(list, a) ==
    IF a \in Tracked(list) THEN [i \in DOMAIN list |-> IF list[i].of = a THEN [list[i] EXCEPT !.at = now] ELSE list[i]]
    ELSE Append(list, [of |-> a, at |-> now])

\* setStorageKeyPrefix, addAddressHash: at the limit the oldest is evicted,
\* which keeps one less; if all were used at this very time it may be this
\* one.
AddAddressHash(a) ==
    /\ init # "no" /\ Uses("switches")
    /\ prefix' = {a} /\ hashes' = Touch(hashes, a)
    /\ LET full == Len(hashes') >= left.max
           victim == Oldest(hashes')
       IN  /\ scans' = IF full THEN scans \union {[evict |-> {victim}, i |-> 1, id |-> left.switches]} ELSE scans
           /\ stored' = IF full \/ a \in Tracked(hashes) THEN stored ELSE {hashes'}
           /\ excused' = ((excused \ {a}) \union OverwrittenBeforeLoad)
                           \union {b \in {a} : \/ full /\ victim = b /\ \A i \in DOMAIN hashes' : hashes'[i].at = now
                                              \/ \E s \in scans : b \in s.evict}
    /\ skipped' = {e \in skipped : e.of # a}
    /\ UNCHANGED <<entries, marked, init, now>>

Write(k) ==
    /\ Uses("writes")
    /\ \E a \in prefix : /\ [of |-> a, k |-> k] \notin ToSet(entries)
                         /\ entries' = Append(entries, [of |-> a, k |-> k])
    /\ UNCHANGED <<stored, marked, hashes, prefix, init, scans, now, skipped, excused>>

\* The page is closed and opened: an account that was not stored yet, since
\* an eviction was still at work, is not tracked any more.
Reload ==
    /\ init # "no" /\ Uses("reloads")
    /\ init' = "no" /\ hashes' = <<>> /\ prefix' = {} /\ scans' = {}
    /\ excused' = excused \union
           (IF scans = {} THEN {} ELSE Tracked(hashes) \ StoredTracked)
    /\ UNCHANGED <<disk, now, skipped>>

Tick ==
    /\ Uses("ticks") /\ now' = now + 1
    /\ UNCHANGED <<disk, hashes, prefix, init, scans, skipped, excused>>

Next ==
    \/ SetStorageAdaptor \/ LoadAddressHashes \/ IsInitialized \/ PersistAfterCleaning \/ MarkAsInitialized
    \/ \E s \in scans : CleanStorageEntry(s) \/ CleaningEnds(s) \/ DeleteEntry(s) \/ EvictionEnds(s)
    \/ \E a \in Address : AddAddressHash(a)
    \/ \E k \in 1..2 : Write(k)
    \/ Reload \/ Tick

Spec == Init /\ [][Next]_vars

-----------------------------------------------------------------------------
\* Once the page has settled, the data of an account is on the device only
\* while its hash is tracked, so that it can be evicted some day; unless a
\* scan stepped over it, or its hash was lost in one of the named ways.
DataIsTracked ==
    init = "done" /\ scans = {} =>
        \A e \in ToSet(entries) \ skipped :
            e.of # "global" => e.of # "foreign" /\ (e.of \in Tracked(hashes) \/ e.of \in excused)

\* The data of the account in use is not removed, unless it came back while
\* it was being evicted, was taken for the oldest or had its hash lost.
InUseIsKept ==
    \A e \in ToSet(entries) \ ToSet(entries') : e.of \in prefix => e.of \in excused

\* What is kept of whom: neither too much nor too little.
AccountsKept == []DataIsTracked /\ [][InUseIsKept]_vars

-----------------------------------------------------------------------------
(* Why they hold: the inductive invariant proved in DeviceProofs.          *)

EntryType == [of : Address \union {"global", "foreign"}, k : Nat]
HashType  == [of : Address, at : Nat]

TypeOK ==
    /\ entries \in Seq(EntryType) /\ now \in Nat /\ \A list, other \in stored : list = other
    /\ \A list \in stored \union {hashes} :
          list \in Seq(HashType) /\ \A i \in DOMAIN list : list[i].at <= now
    /\ prefix \subseteq Address /\ init \in {"no", "load", "check", "scan", "persist", "mark", "done"}
    /\ \A s \in scans : s = [evict |-> s.evict, i |-> s.i, id |-> s.id] /\ s.i \in Nat \ {0}
    /\ \A s, t \in scans : s.evict = {} /\ t.evict = {} => s = t

\* An entry that need not be looked at, or that can be evicted.
Covered(e) ==
    \/ e \in skipped \/ e.of = "global"
    \/ e.of # "foreign" /\ e.of \in Tracked(hashes) \union StoredTracked \union excused

\* An entry that a scan for the accounts as has been at.
Seen(as, e) == IF as = {} THEN Covered(e) ELSE e.of \in as => e \in skipped \/ e.of \in excused

ScanInv(s) ==
    /\ s.evict = {} => init = "scan"
    /\ prefix \cap s.evict \subseteq excused
    /\ \A j \in DOMAIN entries : j < s.i => Seen(s.evict, entries[j])

TrackedInv ==
    /\ init = "no" => hashes = <<>> /\ prefix = {} /\ scans = {}
    /\ init \notin {"no", "load"} => StoredTracked \subseteq Tracked(hashes)
    /\ (\A s \in scans : s.evict = {}) => Tracked(hashes) \subseteq StoredTracked
    /\ prefix \subseteq Tracked(hashes) \union excused

EntriesInv == marked \/ init \in {"persist", "mark", "done"} => \A j \in DOMAIN entries : Covered(entries[j])

AccountsInv == TypeOK /\ TrackedInv /\ (\A s \in scans : ScanInv(s)) /\ EntriesInv
=============================================================================
