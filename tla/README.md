# SwornDisk in TLA+

SwornDisk is a secure log-structured block device for Linux: a device-mapper
target that encrypts and authenticates every block, writes it to the end of a
log of segments, and keeps an index from logical to physical blocks in an LSM
tree. This directory holds a TLA+ model of the C driver
(`src/src/c/sworndisk`), the TLC configurations that check it on small
instances, and TLAPS proofs about its data path for devices of every size.

    tlc -workers 2 -config log_gc.cfg MCSegmentLog     # one run
    tlapm FreshnessProofs.tla                          # one module of proofs

`PROJECT.json` lists the runs, the source lines behind every definition, the
hazards with the properties that watch them, and for every property a plausible
programming mistake (the definitions commented "Mistake for ...") that makes it
fail.

## The system

| part | source | module |
|---|---|---|
| request queue, worker, reader closures, `rw_lock` | `dm-sworndisk.c`, `async.*` | `IoScheduler` |
| read prefetcher | `dm-sworndisk.c` | `IoScheduler` |
| segment buffer, threaded logging | `segment_buffer.c` | `SegmentLog` |
| segment allocator, foreground GC | `segment_allocator.c` | `SegmentLog` |
| segment validity table (SVT) | `metadata.c` (`seg_validator`) | `SegValidator` |
| data segment table (DST), victim tree | `metadata.c` (`dst`) | `DataSegmentTable` |
| reverse index table (RIT) | `metadata.c` (`rit`) | variable `rit` of `SegmentLog` |
| what a user may expect of the device | `src/README.md` | `BlockDevice` |
| LSM tree: put, search, compactions | `lsm_tree.c` | `LsmTree` |
| BIT catalogue: descriptors, versions | `metadata.c` | `LsmTree`, `SegValidator` |
| BIT file: builder, search, iterator | `lsm_tree.c` | `BitFile` |
| memtable | `memtable.c` | a finite map in `LsmTree` |
| encryption | `crypto.c` | what decryption returns, in `SegmentLog` |
| superblock, metadata layout | `metadata.c` | not modelled |
| on-disk arrays and bitsets | `disk_structs.c` | not modelled |
| hash table, LRU cache, bloom filter | `hashtable.c`, `cache.c`, `bloom_filter.c` | not modelled |
| Rust implementation | `src/src/rust` | not modelled |
| vendored kernel sources | rest of `src/src/c` | not modelled |

A request enters through `dm_sworndisk_target_map`, which cuts it at a block
boundary and queues it. A single work item serves the queue. A write runs to its
end under `rw_lock` held for writing: `segbuf_push_bio` merges a partial block
with its old version, `segbuf_push_block` gives the old block back to the DST,
encrypts the new one into the buffer of the current segment, and puts a record
into the LSM tree and an entry into the RIT. A full segment is flushed and
another one allocated; when more than `GC_THREADHOLD` segments are taken the
allocation runs a garbage collection, which pushes the live blocks of victim
segments through the same buffer. A put that fills the memtable writes a file to
level 0, and a full level 0 is merged into level 1. A read runs in a closure of
its own under `rw_lock` held for reading.

The modules cut this along the lock: `IoScheduler` has the concurrency and only
so much of the data as a reader can tell apart; `SegmentLog` has the log with the
index as a map; `LsmTree` has the index with files as maps; `BitFile` has one
file. `SegmentLog` extends `SegValidator` and `DataSegmentTable`, `LsmTree`
extends `SegValidator`, which also serves as the allocator of file descriptors.

## The modules

**SegmentLog.** One variable per piece of state: `svt`, `dst`, `rit`, `index`,
`disk`, the segment buffer (`cur_segment`, `cur_block`, plaintext `buffer` and
ciphertext `pipe`), the allocator's `nr_valid_segment`, the locals of a running
collection (`gc`) and `mode`. A ciphertext is the record of what was sealed
(address, LBA, data): a pushed block is encrypted under a fresh key, a block
modified in the buffer again under the key and iv it has, and in both cases the
record in the index gets the new MAC and opens only that ciphertext. A failed
decryption leaves junk. A write is one action (`ModifyInBuffer` or `PushNewBlock`)
up to the point where a collection starts; the collection is cut into `GcPick`,
`GcMove` (one block), `GcFree` and `GcEnd`, and no write starts before it ends.
`GC_THREADHOLD` and the threshold of threaded logging are computed modulo the width
of `size_t`. `Restart` is destruction and construction on the same devices. A
collection that needs the segment buffer before the constructor has set it is
`BootGcOops`. `latest` is a history variable: what the user last wrote.

**BlockDevice** is the promise: a map from LBAs to sectors that only a write
changes, and only in the sectors it covers. `SegmentLog!Device` maps the log to it:
the content of an LBA is what `sworndisk_do_read` would return.

**LsmTree.** A file is its descriptor, version, and map from keys to records; a
level is a sequence of files in the order of `bit_files`. `Put` is the whole
`lsm_tree_put`, with minor and major compactions. `SearchSorted` uses the kernel's
`bsearch` (`Bsearch`, external); `LowerBound` and `RelativeFiles` follow the loops of
the code. A search of a file reaches only complete leaves (`Reachable`), an iterator
all entries: `BitFile` shows both, for files that are not displaced (see there); what
a displaced file loses is not followed in `LsmTree`.
Where the code would use a NULL iterator, a missing level, or run out of
descriptors, `tree.mode` says so and the tree stops.

**BitFile.** The builder's context, buffer and file at the granularity of nodes:
`AddEntry` and `Complete` with every flush, the linking of leaves and the
construction of inner nodes; `SearchLeaf` and `Iterated` read the file back through
the stored pointers. `displaced` marks files whose tail was written over nodes
just flushed, because `bit_builder_complete` reads the position before the flush
(`lsm_tree.c:218`). Which numbers of leaves are hit depends on the size of the buffer.
With the sizes in the headers a full file (131072 leaves) is not displaced, but the
last file of a merge is when it has 7326, 14650, 21974 or one of 14 other numbers of
leaves.

**IoScheduler.** `Map` and `Schedule` are the two calls of `defer_bio`. The worker
starts (`WorkerRun`), takes the list (`WorkerTake`), and starts a closure per
read (`WorkerGo`, with the semaphore or after a timeout) or performs a write
(`WorkerWrite`, `WorkerWriteDone`, with the lock held in between). A closure takes
the lock and searches (`ReadLock`), reads from the segment buffer or through the
prefetcher (`ReadBuffer`, `ReadPrefetched`), unlocks and returns its permit.
A write puts its block anywhere in the log and may move the blocks of other LBAs, as
the collection inside `push_bio` does, with any part of what it moved still in the
segment buffer; what blocks without a record hold is dropped. `current` is a history
variable: the contents the LBA of a read had since the read was submitted.

## The runs

| run | result | properties |
|---|---|---|
| `log_gc` | holds | `Freshness`, `LiveBlocksAreMarked`, `MarkedBlocksAreLive`, `SegmentCount`, `GcSparesCurrentSegment`, `ReclaimableIsVictim`, `FreeSegmentLeft`, `TypeOK` |
| `log_device` | holds | `ImplementsDevice` (refinement of `BlockDevice`, partial writes) |
| `log_gc_ends` | holds | `GcTerminates`, with threaded logging |
| `lsm_levels` | holds | `LookupIsLatest`, `VersionsOrder`, `Level1Disjoint`, `RelativesCoverOverlaps`, `DescriptorsInUse`, `CompactionHasRoom`, `TypeOK` |
| `bit_file` | holds | `SearchFindsWholeLeaves`, `IteratorDeliversAll`, `TypeOK` |
| `io_order` | holds | `ReadsAreCurrent`, `PrefetchIsCurrent`, `WindowFits`, `PermitsKept`, `EveryBioEnds`, `TypeOK` |
| `log_threaded` | violated | `Freshness` |
| `log_restart` | violated | `Freshness` |
| `lsm_restart` | violated | `LookupIsLatest` |
| `lsm_tail` | violated | `LookupIsLatest` |
| `lsm_full` | violated | `CompactionStaysInLevels` |
| `io_readers` | violated | `ReadersLimited` |

What holds: on a device that neither restarts nor comes to threaded logging, the log
returns what was last written at every moment, between two steps of a collection
too; nothing leaks and no segment is forgotten; the collector spares the segment
being filled, leaves a free one if the device has room to collect, and ends. The
index finds the last record put while files consist of whole leaves and no file is
displaced. Reads are linearizable under all interleavings of submitters, worker and
closures, and no request is left behind.

Room to collect (`RoomToCollect`) means that a collection starts while two segments
are free, and that the LBAs fill less than all segments but two. The bound is sharp:
with four segments of four blocks and a reserve of two, TLC finds `FreeSegmentLeft`
true with 7 LBAs and false with 8; with five segments, true with 11 and false with
12. A write to a log without a free segment goes into the segment just flushed, as
in `log_restart`. The driver does not relate the number of LBAs to the number of
segments anywhere.

What does not hold, each with a short trace:

- `log_threaded`: `next_block` takes a hole in the emptiest victim, which may be
  the segment still being filled; the block is shadowed by the buffer and then
  overwritten by the flush (`segment_buffer.c:62`).
- `log_restart`: the unused rest of the current segment stays marked after a
  restart, for ever; when no segment is left, the failed allocation is ignored and
  the flushed segment is filled again (`segment_buffer.c:101`).
- `lsm_restart`: the version counter recovered from the files repeats a version in
  use, and of two files with one version the older wins (`metadata.c:805`).
- `lsm_tail`: the last file of a merge may end in an incomplete leaf, which the
  tree of the file does not lead to (`lsm_tree.c:239`).
- `lsm_full`: merges leave small files behind, level 1 reaches its capacity in files,
  and its compaction reads `levels[2]` of an array of two (`lsm_tree.c:1141`).
- `io_readers`: the result of `down_timeout` is not looked at. A reader whose wait
  timed out is started all the same, beyond `MAX_READER`, and later returns a permit
  it never had, so that the limit grows for good (`dm-sworndisk.c:217`). `PermitsKept`
  is the other half: no permit is ever lost.

### Bounds

- Log: 3 or 4 segments of 4 or 5 blocks (8 for `log_threaded`), `GcReserve` 2
  instead of 16, 2 to 7 LBAs. With 4 segments a collection starts with the third, so
  that some blocks are on disk only: partial writes read them back (`log_device`), and
  a collection goes through several victims. `log_gc` has 7 LBAs, as many as
  `RoomToCollect` allows on its log of 16 blocks: a collection may move more than a
  segment of blocks, flushes the buffer and allocates segments while it runs, and comes
  down to a single free segment. Threaded logging sets in when the emptiest victim is
  fuller than a mark near 3/4 of a segment; a victim of 4 blocks never is, one of 5 or 8
  may be.
- Index: four keys, two values, files of two entries, level 0 of two files, level 1 of
  four records. `LeafLen` is 1 where lookups are to hold, since then every file consists
  of whole leaves, and 2 in `lsm_tail`. In `lsm_levels` puts go on without end:
  `MaxVersion` is never reached, because states are compared by `View` (below). The
  descriptors come down to one free one of eight there, after ten files. The runs that
  end in a violation have `MaxVersion` as a bound.
- File: leaves of two entries, degree 2, all sets of up to 12 of 12 keys, a full file
  included, and buffers of 7 and of 8 nodes, which are flushed in the middle of
  building. The properties leave displaced files out; with 7 nodes these are the files
  of 6, 7, 10 and 11 entries, with 8 nodes those of 8 and 9, so that every number of
  entries is checked with one buffer or both.
- Scheduler: 3 requests, 2 LBAs, 5 blocks, 3 of which (`LogBlocks`) writes go to, 1
  permit, windows of 2 to 4 blocks. Two readers and a writer meet, the semaphore runs
  dry, the window is doubled, capped at `MaxNrFetch` short of the end of the device,
  halved, cut at the end of the device and cleared. Requests are numbered in the order
  of submission, and when all have ended the system rests. `io_readers` needs 2 reads.
- Symmetry is over written values only, in runs without liveness.

Views. `log_device` and the two log violations compare states by `View`, which masks
ciphertexts that no record opens, the RIT of unmarked or unfilled blocks, and, once
every LBA has a record, buffer slots that no record points to. The collector decrypts
only marked blocks, and these are live or not yet filled (`MarkedBlocksAreLive`, checked
and proved); only the first write of an LBA reads a slot that it did not fill. So a
masked part has no influence on later steps. `log_gc` uses `ViewOfBlocks`, which
moreover does not tell apart states that differ by a renaming of the LBAs: it keeps, for
every block, whether its ciphertext opens, whether the reverse index leads back, and the
last value of its owner, and nothing names an LBA but these. `lsm_levels` uses `View` of
`MCLsmTree`, which keeps of every record whether it is the last one put, and of the
versions only their order, which is all that is compared. Both views give the same
number of states whatever the number of workers, as they must if no step depends on
what they leave out. The proofs do not depend on views.

### Fairness

`FairSpec` has weak fairness of `Gc`: a collection is a loop on the writer's thread.
`IoScheduler!Spec` has weak fairness of `Threads`: as long as the second half of a
`defer_bio`, the worker or a closure can go on, one of them does. That is less than the
kernel's scheduler gives each of them, and enough, since every request takes finitely
many steps. Nothing is assumed about requests being submitted, nor about who gets the
lock.

## The proofs

| theorem | statement |
|---|---|
| `SegmentCountCorrect` | `RestartSpec => []SegmentCount` |
| `SteadyInvariant` | `SteadySpec => []IndInv` |
| `FreshnessWithinLimits` | `SteadySpec => []Freshness` |
| `ImplementsDeviceWithinLimits` | `SteadySpec => ImplementsDevice` |
| `LiveBlocksMarkedWithinLimits` | `SteadySpec => []LiveBlocksAreMarked` |
| `MarkedBlocksLiveWithinLimits` | `SteadySpec => []MarkedBlocksAreLive` |
| `GcSparesCurrentWithinLimits` | `SteadySpec => []GcSparesCurrentSegment` |
| `ReclaimableIsVictimWithinLimits` | `SteadySpec => []ReclaimableIsVictim` |
| `UnthreadedIsSteady` | `RoomToCollect => (UnthreadedSpec => SteadySpec)` |
| `FreeSegmentLeftUnthreaded` | `UnthreadedSpec => []FreeSegmentLeft` |
| `RoomyStaysWithinLimits` | `Roomy => (Spec => SteadySpec)` |
| `FreshnessWhenRoomy` | `Roomy => (Spec => []Freshness)` |
| `ImplementsDeviceWhenRoomy` | `Roomy => (Spec => ImplementsDevice)` |
| `SmallDeviceNeverCollects` | `NrSegment < GcReserve => (RestartSpec => []NeverCollects)` |

They hold for every number of segments, blocks, LBAs, sectors and values. Assumed of
the constants: at least one segment and block, `SizeMod` larger than the number of
segments and the reserve together, a threshold above 0, and that the markers
(`Junk`, `Garbage`, `NoRecord`) are none of the things they stand beside.
`SteadySpec` restricts the steps to states where threaded logging does not set in
and a free segment is left, and has no restarts: outside these limits `Freshness` is
false, as `log_threaded` and `log_restart` show. The theorems of `RoomProofs` say
when a device keeps within them by itself. With room to collect only the first limit
is left (`UnthreadedSpec`). With room to spare (`Roomy`: with segments of 1024
blocks and the reserve of 16, fewer LBAs than 769 for every segment beyond the first
18) neither is, and the log is a block device in every behaviour without restarts.
`SegmentCountCorrect` needs none of these limits. `SmallDeviceNeverCollects` is
about the other end: `NR_SEGMENT - 16` underflows on a device of fewer segments,
which then never collects, nor comes to threaded logging, and simply fills up.

`Freshness` is not inductive: it says nothing of where blocks are or of what the
collector is about to free. `IndInv` adds

- `RecordsInv`: the block a record points to is marked, the RIT leads back, and it is
  in the buffer if its segment is the current one and on disk otherwise (`Stored`);
- `TablesInv`: counts agree with bitmaps, a free segment has no marked block, and
  every marked block has an owner or is a slot of the current segment that was not
  filled yet;
- `GcInv`: during a collection the current segment has all its blocks marked, hence
  is no victim; the offsets still to visit are exactly those still marked in the
  victim; what was read ahead equals the disk;
- `LatestInv`: a record seals what was last written.

The heart of the argument is that a segment being filled by the collector stays full
of marks (a block it pushes replaces one in the victim, never one in the buffer), so
the read-ahead of the victim cannot become stale and the victim is empty when it is
given back. `TableLemmas` has the facts about the SVT and the DST; `SegmentLogProofs`
the allocator's count; `AppendProofs` what appending a block does, within a segment
and when it fills one; `WriteProofs` that `IndInv` holds initially and after a
write; `FreshnessProofs` that the steps of the collector keep it, and the theorems;
`DeviceProofs` shows that `IndInv` makes reads return
the sealed data and derives the refinement and the other invariants.

`RoomProofs` adds `SpaceInv` to `IndInv`. Every taken segment that is not full is in
the victim tree; outside a collection two segments are free; and in a collection the
segments it has taken are paid for by those it freed: `clean`, plus the blocks in
the buffer, less the blocks visited in the present victim, is at most the room of
the free segments but one. A collection that ends for lack of victims finds all
segments but the current one full of blocks of different LBAs, more than there are.
The same count, with victims fuller than the mark instead of full segments, shows
that threaded logging does not set in on a roomy device.

Only model-checked: liveness (`GcTerminates`, `EveryBioEnds`), and everything about
`LsmTree`, `BitFile` and `IoScheduler`. `BitFile` is defined with recursive
operators, whose results are beyond the prover's reach.

## Not modelled

- Crashes. The buffer, the memtable and the version counter are in memory and no
  journal is implemented; only clean restarts are modelled.
- Superblock and layout of the metadata, on-disk arrays, hash table, LRU cache,
  bloom filter, the hash memtable (never created by the driver), argument parsing and
  error unwinding of the constructor, allocation failures, removal of the device
  while requests are under way, and I/O errors (the code logs them and goes on).
- The bloom filter of a file is taken to have no false negatives, and the cached leaf
  to repeat a leaf of an immutable file.
- The Rust implementation.
- Linux itself: work queues, rw semaphores and the crypto API are what the code relies
  on them to be.

## Plan

1. A crash model: the order of metadata and data writes, and what the tables say
   after losing the buffer and the memtable.
2. Removal of the device in `IoScheduler`, with `dtr` racing closures, and requests
   dropped by `go`.
3. Pure algorithms: the layout of the metadata regions, addressing of the on-disk
   arrays, the comparison of memtable keys, hash table and bloom filter.
4. The Rust implementation: checkpoint, segment buffers, BIT.
5. Proofs: the prefetcher (`WindowFits`, `PrefetchIsCurrent`) and `ReadsAreCurrent`
   for any number of requests, and the invariants of the
   index that do not need induction over its loops (`DescriptorsInUse`,
   `VersionsOrder`).
