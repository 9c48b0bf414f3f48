---------------------------- MODULE IoScheduler ----------------------------
(***************************************************************************)
(* How requests travel through the C device target (dm-sworndisk.c):       *)
(* dm_sworndisk_target_map queues a bio, one work item serves the queue,   *)
(* writes inline under rw_lock, reads in closures of their own that a      *)
(* semaphore is meant to limit and that share the read prefetcher.         *)
(*                                                                         *)
(* Of the data path (SegmentLog) only this is kept: a write seals new      *)
(* content in some block, the collection it may run moves other contents,  *)
(* the index follows, and a read gets its data only if the ciphertext it   *)
(* is given is the one its record seals.  The content a write seals is     *)
(* named after its bio.  Memory allocations succeed.                       *)
(***************************************************************************)
EXTENDS Integers, Sequences, FiniteSets, Functions

CONSTANTS
    NrBio,       \* requests submitted
    NrLba,       \* logical blocks
    NrBlock,     \* blocks of the data region
    LogBlocks,   \* bound of the model: the blocks that writes are logged to
    MaxReader,   \* MAX_READER
    MinNrFetch,  \* MIN_NR_FETCH
    MaxNrFetch,  \* MAX_NR_FETCH
    SizeMod,     \* 2^64: the width of size_t
    Nothing      \* no record, no data

(* Requests are numbered as they are submitted.                            *)
Bios == 1 .. NrBio
Lbas == 0 .. NrLba - 1
Blocks == 0 .. NrBlock - 1

ASSUME IoConstants ==
    /\ NrBio \in Nat /\ NrLba \in Nat \ {0} /\ NrBlock \in Nat /\ NrBlock > NrLba
    /\ LogBlocks \subseteq 0 .. NrBlock - 1 /\ Cardinality(LogBlocks) >= NrLba
    /\ {MaxReader, MinNrFetch} \subseteq Nat \ {0}
    /\ MaxNrFetch \in Nat /\ MaxNrFetch > MinNrFetch
    /\ SizeMod \in Nat /\ SizeMod > 2 * NrBlock + MaxNrFetch
    /\ Nothing \notin Int

VARIABLES
    bio,         \* per request: op, lba, stage, record found, data returned
    deferred,    \* deferred_bios
    scheduling,  \* bios between the two calls of defer_bio
    pending,     \* the work item is queued
    worker,      \* process_deferred_bios: its list of bios, and where it is
    max_reader,  \* the semaphore's count
    index,       \* lba -> the block and the content its record seals
    disk,        \* block -> content, of the segment buffer where that has it
    buffered,    \* blocks of records that are in the segment buffer
    prefetcher,  \* struct bio_prefetcher, its buffer as the blocks of the window
    current      \* history: contents a read's LBA had since it was submitted

dataVars == <<index, disk, buffered>>
vars == <<bio, deferred, scheduling, pending, worker, max_reader,
          index, disk, buffered, prefetcher, current>>

----------------------------------------------------------------------------
(* A bio waits in a list, is the context of a closure that was started,    *)
(* reads under rw_lock, has ended with the lock still held, or without it. *)
Stages == {"new", "deferred", "closure", "reading", "ended", "unlocked", "done"}
(* What LBA l held before the first request, for l = NrLba an overwritten  *)
(* version of the last LBA; and all there can be.                          *)
Before(l) == -1 - l
Contents == {Nothing} \cup {Before(l) : l \in 0 .. NrLba} \cup Bios

Unused(stage) ==
    [op |-> "read", lba |-> 0, stage |-> stage, record |-> Nothing, result |-> Nothing]

Staged(b, stage) == [bio EXCEPT ![b].stage = stage]
InFlight == {b \in Bios : bio[b].stage \in {"closure", "reading", "ended", "unlocked"}}
Waiting(b) == bio[b].op = "read" /\ bio[b].stage \in {"deferred", "closure", "reading"}
ReadLocked == {b \in Bios : bio[b].stage \in {"reading", "ended"}}
WriteLocked == worker.phase = "written"

NoBlocks == [k \in {} |-> Nothing]

ContentOf(lba) == IF index[lba] = Nothing THEN Nothing ELSE index[lba].content

(* The state dm_sworndisk_target_ctr leaves, with all LBAs but the last    *)
(* written; or an idle moment later, when the last one was written and     *)
(* reads in order, up to it, had raised nr_fetch before it was written     *)
(* again, to the next block.                                               *)
Init ==
  \E later \in BOOLEAN :
    /\ bio = [b \in Bios |-> Unused("new")]
    /\ deferred = <<>>
    /\ scheduling = {}
    /\ pending = FALSE
    /\ worker = [phase |-> "idle", bios |-> <<>>]
    /\ max_reader = MaxReader
    /\ LET last == NrLba - 1 IN
        /\ index = [l \in Lbas |->
                     IF l < last THEN [block |-> l, content |-> Before(l)]
                     ELSE IF later THEN [block |-> NrLba, content |-> Before(l)]
                     ELSE Nothing]
        /\ disk = [k \in Blocks |->
                     CASE k < last -> Before(k)
                       [] later /\ k = last -> Before(NrLba)
                       [] later /\ k = NrLba -> Before(last)
                       [] OTHER -> Nothing]
    /\ buffered = {}
    /\ prefetcher = [begin |-> 0, end |-> 0,
                     last_blkaddr |-> IF later THEN NrLba - 1 ELSE 0,
                     nr_fetch |-> IF later THEN MaxNrFetch ELSE MinNrFetch + 1,
                     window |-> NoBlocks]
    /\ current = [b \in Bios |-> {}]

----------------------------------------------------------------------------
(* dm_sworndisk_target_map for a read or a write, which it cuts at a block *)
(* boundary, as far as the first call of defer_bio.                        *)
Map(b, op, lba) ==
    /\ bio[b].stage = "new"
    /\ b > 1 => bio[b - 1].stage # "new"
    /\ bio' = [bio EXCEPT ![b] = [@ EXCEPT !.op = op, !.lba = lba, !.stage = "deferred"]]
    /\ deferred' = Append(deferred, b)
    /\ scheduling' = scheduling \cup {b}
    /\ current' = [current EXCEPT ![b] = IF op = "read" THEN {ContentOf(lba)} ELSE {}]
    /\ UNCHANGED <<pending, worker, max_reader, dataVars, prefetcher>>

(* Mistake for Schedule: the work item is queued only if the worker is not *)
(* running.                                                                *)
ScheduleIfIdle(b) ==
    /\ b \in scheduling
    /\ scheduling' = scheduling \ {b}
    /\ pending' = (pending \/ worker.phase = "idle")
    /\ UNCHANGED <<bio, deferred, worker, max_reader, dataVars, prefetcher, current>>

(* The second call: schedule_work, without effect while the item is queued *)
(* already.  The worker may have served the bio by then.                   *)
Schedule(b) ==
    /\ b \in scheduling
    /\ scheduling' = scheduling \ {b}
    /\ pending' = TRUE
    /\ UNCHANGED <<bio, deferred, worker, max_reader, dataVars, prefetcher, current>>

(* The work queue starts process_deferred_bios, never twice at a time, and *)
(* from there on schedule_work queues it again.                            *)
WorkerRun ==
    /\ pending
    /\ worker.phase = "idle"
    /\ pending' = FALSE
    /\ worker' = [worker EXCEPT !.phase = "take"]
    /\ UNCHANGED <<bio, deferred, scheduling, max_reader, dataVars, prefetcher, current>>

(* The loop over bio_list_pop goes on, or process_deferred_bios returns.   *)
Loop(bios) == [phase |-> IF bios = <<>> THEN "idle" ELSE "pop", bios |-> bios]

(* bio_list_take_safe.                                                     *)
WorkerTake ==
    /\ worker.phase = "take"
    /\ worker' = Loop(deferred)
    /\ deferred' = <<>>
    /\ UNCHANGED <<bio, scheduling, pending, max_reader, dataVars, prefetcher, current>>

(* Mistake for WorkerGo: a wait that timed out counts as a permit.         *)
WorkerGoUnchecked ==
    /\ worker.phase = "pop"
    /\ LET b == Head(worker.bios)
       IN  bio[b].op = "read" /\ bio' = Staged(b, "closure")
    /\ worker' = Loop(Tail(worker.bios))
    /\ max_reader' = max_reader - 1
    /\ UNCHANGED <<deferred, scheduling, pending, dataVars, prefetcher, current>>

(* A read: down_timeout takes a permit or, when there is none for 300 ms,  *)
(* gives up, and go starts the closure in both cases.                      *)
WorkerGo ==
    /\ worker.phase = "pop"
    /\ LET b == Head(worker.bios)
       IN  bio[b].op = "read" /\ bio' = Staged(b, "closure")
    /\ worker' = Loop(Tail(worker.bios))
    /\ max_reader' = IF max_reader > 0 THEN max_reader - 1 ELSE max_reader
    /\ UNCHANGED <<deferred, scheduling, pending, dataVars, prefetcher, current>>

(* A write: sworndisk_do_write takes rw_lock when no reader has it, and    *)
(* push_bio seals the data in a block of the segment buffer.  When that is *)
(* full it goes to disk, and a collection may move blocks through it, that *)
(* of the write among them, and flush it again.  Blocks without a record   *)
(* may be overwritten then; what they hold is dropped here.  bio_endio     *)
(* ends the bio.                                                           *)
WorkerWrite ==
    LET b == Head(worker.bios)
        lba == bio[b].lba
        mapped == {lba} \cup {l \in Lbas : index[l] # Nothing}
        content(l) == IF l = lba THEN b ELSE index[l].content
    IN  /\ worker.phase = "pop"
        /\ bio[b].op = "write"
        /\ ReadLocked = {}
        /\ \E place \in Injection(mapped, LogBlocks) :
            LET moved == {lba} \cup {l \in mapped \ {lba} : place[l] # index[l].block} IN
            /\ index' = [l \in Lbas |-> IF l \in mapped
                                        THEN [block |-> place[l], content |-> content(l)]
                                        ELSE Nothing]
            /\ disk' = [k \in Blocks |-> IF k \in Range(place)
                                         THEN content(CHOOSE l \in mapped : place[l] = k)
                                         ELSE Nothing]
            /\ \/ moved = {lba} /\ buffered' = (buffered \cap Range(place)) \cup {place[lba]}
               \/ buffered' \in SUBSET {place[l] : l \in moved}
        /\ bio' = [bio EXCEPT ![b] = Unused("done")]
        /\ current' = [r \in Bios |->
                         IF Waiting(r) /\ bio[r].lba = lba THEN current[r] \cup {b} ELSE current[r]]
        /\ worker' = [worker EXCEPT !.phase = "written"]
        /\ UNCHANGED <<deferred, scheduling, pending, max_reader, prefetcher>>

(* Mistake for Cleared: the window is kept.                                *)
ClearedNever(p) == p

(* bio_prefetcher_clear.                                                   *)
Cleared(p) == [p EXCEPT !.begin = 0, !.end = 0, !.window = NoBlocks]

(* The rest of sworndisk_do_write, with up_write.                          *)
WorkerWriteDone ==
    /\ worker.phase = "written"
    /\ prefetcher' = Cleared(prefetcher)
    /\ worker' = Loop(Tail(worker.bios))
    /\ UNCHANGED <<bio, deferred, scheduling, pending, max_reader, dataVars, current>>

----------------------------------------------------------------------------
AtLeast(n, m) == IF n < m THEN m ELSE n
AtMost(n, m) == IF n > m THEN m ELSE n

(* __bio_prefetcher_incache.                                               *)
Incache(p, blkaddr) == blkaddr >= p.begin /\ blkaddr < p.end

(* bio_prefetcher_get on a miss: reads blocks ahead, no more than the      *)
(* device has, and halves the next read when the last window was hardly    *)
(* used.  The difference of two addresses is a size_t.                     *)
Fetched(p, blkaddr) == AtMost(p.nr_fetch, NrBlock - blkaddr)

Missed(p, blkaddr) ==
    LET fetched == Fetched(p, blkaddr)
        unused == (p.last_blkaddr - p.begin) % SizeMod < (p.nr_fetch \div 4) * 3
    IN  [p EXCEPT !.begin = blkaddr,
                  !.end = blkaddr + fetched,
                  !.nr_fetch = IF unused THEN AtLeast(@ \div 2, MinNrFetch + 1) ELSE @,
                  !.window = [k \in blkaddr .. blkaddr + fetched - 1 |-> disk[k]]]

(* Mistake for Hit: nr_fetch grows without bound.                          *)
HitUncapped(p, blkaddr) ==
    [p EXCEPT !.nr_fetch = IF blkaddr - p.begin >= @ \div 2 THEN 2 * @ ELSE @,
              !.last_blkaddr = blkaddr]

(* ... and on a hit: doubles it once the reader is past the middle.        *)
Hit(p, blkaddr) ==
    [p EXCEPT !.nr_fetch = IF blkaddr - p.begin >= @ \div 2 THEN AtMost(2 * @, MaxNrFetch) ELSE @,
              !.last_blkaddr = blkaddr]

Get(p, blkaddr) == IF Incache(p, blkaddr) THEN Hit(p, blkaddr) ELSE Missed(p, blkaddr)

(* Mistake for ReadLock: the index is searched without rw_lock.            *)
ReadLockNever(b) ==
    /\ bio[b].stage = "closure"
    /\ LET record == index[bio[b].lba]
       IN  bio' = [bio EXCEPT ![b].record = record,
                              ![b].stage = IF record = Nothing THEN "ended" ELSE "reading"]
    /\ UNCHANGED <<deferred, scheduling, pending, worker, max_reader, dataVars,
                   prefetcher, current>>

(* A closure runs async_read: sworndisk_do_read takes rw_lock and searches *)
(* the index.  A block that was never written ends the bio at once.        *)
ReadLock(b) ==
    /\ bio[b].stage = "closure"
    /\ ~WriteLocked
    /\ LET record == index[bio[b].lba]
       IN  bio' = [bio EXCEPT ![b].record = record,
                              ![b].stage = IF record = Nothing THEN "ended" ELSE "reading"]
    /\ UNCHANGED <<deferred, scheduling, pending, worker, max_reader, dataVars,
                   prefetcher, current>>

(* query_bio finds the plaintext in the segment buffer ...                 *)
ReadBuffer(b) ==
    /\ bio[b].stage = "reading"
    /\ bio[b].record.block \in buffered
    /\ bio' = [bio EXCEPT ![b].stage = "ended", ![b].result = disk[bio[b].record.block]]
    /\ UNCHANGED <<deferred, scheduling, pending, worker, max_reader, dataVars,
                   prefetcher, current>>

(* ... or the prefetcher, under its mutex, has the ciphertext; the bio     *)
(* ends without data if that is not the one the record seals.              *)
ReadPrefetched(b) ==
    LET record == bio[b].record
        p == Get(prefetcher, record.block)
        content == p.window[record.block]
    IN  /\ bio[b].stage = "reading"
        /\ record.block \notin buffered
        /\ prefetcher' = p
        /\ bio' = [bio EXCEPT ![b].stage = "ended",
                              ![b].result = IF content = record.content THEN content ELSE Nothing]
        /\ UNCHANGED <<deferred, scheduling, pending, worker, max_reader, dataVars, current>>

(* up_read.  The bio is not used after its end.                            *)
ReadUnlock(b) ==
    /\ bio[b].stage = "ended"
    /\ bio' = [bio EXCEPT ![b] = Unused("unlocked")]
    /\ current' = [current EXCEPT ![b] = {}]
    /\ UNCHANGED <<deferred, scheduling, pending, worker, max_reader, dataVars, prefetcher>>

(* Mistake for ReaderUp: the permit is not returned.                       *)
ReaderUpNever(b) ==
    /\ bio[b].stage = "unlocked"
    /\ bio' = Staged(b, "done")
    /\ UNCHANGED <<deferred, scheduling, pending, worker, max_reader, dataVars,
                   prefetcher, current>>

(* async_read returns its permit, also if there was none to take.          *)
ReaderUp(b) ==
    /\ bio[b].stage = "unlocked"
    /\ bio' = Staged(b, "done")
    /\ max_reader' = max_reader + 1
    /\ UNCHANGED <<deferred, scheduling, pending, worker, dataVars, prefetcher, current>>

----------------------------------------------------------------------------
Worker ==
    \/ WorkerRun \/ WorkerTake \/ WorkerGo \/ WorkerWrite \/ WorkerWriteDone

Reader(b) == ReadLock(b) \/ ReadBuffer(b) \/ ReadPrefetched(b) \/ ReadUnlock(b) \/ ReaderUp(b)

(* What the threads of the kernel do once a request has been submitted.    *)
Threads == Worker \/ \E b \in Bios : Schedule(b) \/ Reader(b)

Next == Threads \/ \E b \in Bios, op \in {"read", "write"}, lba \in Lbas : Map(b, op, lba)

(* As long as submitters, the worker or closures can run, some of them do; *)
(* nobody has to submit a request.                                         *)
Spec == Init /\ [][Next]_vars /\ WF_vars(Threads)

----------------------------------------------------------------------------
(* Every variable has its type.                                            *)
TypeOK ==
    /\ bio \in [Bios -> [op : {"read", "write"}, lba : Lbas, stage : Stages,
                         record : {Nothing} \cup [block : Blocks, content : Contents],
                         result : Contents]]
    /\ deferred \in Seq(Bios) /\ scheduling \subseteq Bios /\ pending \in BOOLEAN
    /\ worker.phase \in {"idle", "take", "pop", "written"}
    /\ worker.bios \in Seq(Bios)
    /\ max_reader \in Nat
    /\ index \in [Lbas -> {Nothing} \cup [block : Blocks, content : Contents]]
    /\ disk \in [Blocks -> Contents] /\ buffered \subseteq Blocks
    /\ {prefetcher.begin, prefetcher.end, prefetcher.nr_fetch} \subseteq Nat
    /\ prefetcher.last_blkaddr \in Blocks
    /\ prefetcher.window \in [prefetcher.begin .. prefetcher.end - 1 -> Contents]
    /\ current \in [Bios -> SUBSET Contents]

(* A read returns what its block held at some moment between its           *)
(* submission and its end: a write that ended before the read was          *)
(* submitted is seen, although closures run in any order, next to later    *)
(* writes, and share the prefetcher (sworndisk_do_read, do_write).         *)
ReadsAreCurrent ==
    \A b \in Bios : bio[b].stage = "ended" => bio[b].result \in current[b]

(* Whatever the prefetcher would answer a reader with is on disk: a write  *)
(* clears the window before it lets readers in again.                      *)
PrefetchIsCurrent ==
    ~WriteLocked =>
        \A k \in prefetcher.begin .. prefetcher.end - 1 :
            prefetcher.window[k] = disk[k]

(* The window bio_prefetcher_get reads fits its buffer of MAX_NR_FETCH     *)
(* blocks and the device, however its length was doubled and halved.       *)
WindowFits ==
    /\ prefetcher.end - prefetcher.begin <= MaxNrFetch
    /\ prefetcher.end <= NrBlock
    /\ prefetcher.nr_fetch \in MinNrFetch + 1 .. MaxNrFetch

(* No permit is lost: those left and the readers under way are always at   *)
(* least MAX_READER, so that no reader waits for one that never comes      *)
(* (async_read returns a permit on every path of sworndisk_do_read).       *)
PermitsKept == max_reader + Cardinality(InFlight) >= MaxReader

(* MAX_READER, the "max reader limit", bounds the readers under way        *)
(* (down_timeout in process_deferred_bios).                                *)
ReadersLimited == Cardinality(InFlight) <= MaxReader

(* Every request ends: a bio that was queued while the worker ran, or      *)
(* between its look at the list and its return, is not left behind.        *)
(* Stages only go forward, so that it is enough to see again and again     *)
(* that no request is under way.                                           *)
EveryBioEnds == []<>(\A b \in Bios : bio[b].stage \in {"new", "done"})
=============================================================================
