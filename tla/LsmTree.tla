------------------------------ MODULE LsmTree ------------------------------
(***************************************************************************)
(* The index of SwornDisk: an LSM tree of a memtable and two levels of     *)
(* block index table (BIT) files (lsm_tree.c), over the file catalogue     *)
(* kept in the metadata (metadata.c).                                      *)
(*                                                                         *)
(* A file is a record: its descriptor `id', its `version' and `recs', the  *)
(* function from its keys to their records.  How a file is laid out as a   *)
(* tree of nodes is the subject of BitFile; what matters here is that a    *)
(* search of a file reaches only the records of its complete leaves        *)
(* (Reachable), while its iterator delivers all of them.                   *)
(*                                                                         *)
(* put holds the write lock of the device, so an operation is one action,  *)
(* with the compactions it sets off.                                       *)
(***************************************************************************)
EXTENDS SegValidator, Sequences, FiniteSets, FiniteSetsExt, SequencesExt

CONSTANTS
    Keys,             \* logical block addresses, a finite set of naturals
    Vals,             \* records
    NoVal,            \* a lookup that finds nothing (-ENODATA)
    FileCapacity,     \* DEFAULT_LSM_FILE_CAPACITY = DEFAULT_MEMTABLE_CAPACITY
    LeafLen,          \* BIT_LEAF_LEN
    Level0NrFile,     \* DEFAULT_LSM_LEVEL0_NR_FILE
    MaxLevelCapacity, \* superblock.max_disk_level_capacity, in records
    MaxVersion        \* bound of the model: no put beyond this file version

ASSUME LsmConstants ==
    /\ Keys \subseteq Nat /\ IsFiniteSet(Keys)
    /\ NoVal \notin Vals
    /\ {FileCapacity, LeafLen, Level0NrFile, MaxVersion} \subseteq Nat \ {0}
    /\ MaxLevelCapacity \in Nat

VARIABLES
    memtable,   \* the red-black tree: a function from its keys to records
    tree,       \* levels, catalogue and what a failed compaction left behind
    latest      \* history: the last record put for each key

vars == <<memtable, tree, latest>>

----------------------------------------------------------------------------
(* Sizes fixed when the device is formatted.                               *)

(* __total_bit with two disk levels: the files of level 1 and of level 0.  *)
TotalBit == (MaxLevelCapacity + FileCapacity - 1) \div FileCapacity + Level0NrFile

(* Mistake for MaxFd: only the files of level 1 are counted twice.         *)
MaxFdLevel1Only == TotalBit + (TotalBit - Level0NrFile)

(* bit_catalogue_init: as many descriptors again for compactions.          *)
MaxFd == TotalBit + TotalBit

(* The capacities lsm_tree_init passes to bit_level_create.                *)
Capacity == [l \in 0 .. 1 |-> IF l = 0 THEN Level0NrFile ELSE TotalBit]

(* bit_level_init: the length of the array of files.                       *)
MaxSize(l) == 2 * Capacity[l] + Level0NrFile

----------------------------------------------------------------------------
(* Files                                                                   *)

FirstKey(f) == Min(DOMAIN f.recs)
LastKey(f) == Max(DOMAIN f.recs)

Rank(S, k) == Cardinality({j \in S : j <= k})

(* The keys of a file that bit_file_search can find.  bit_builder_complete *)
(* writes an incomplete last leaf but enters no pointer to it in any inner *)
(* node.  A file of certain sizes loses more, because its tail is written  *)
(* over nodes just flushed (`displaced' in BitFile): not followed here.    *)
Reachable(f) ==
    LET n == Cardinality(DOMAIN f.recs)
    IN  {k \in DOMAIN f.recs : Rank(DOMAIN f.recs, k) <= n - (n % LeafLen)}

(* A file without a complete leaf has no root, and no iterator.            *)
HasIterator(f) == Reachable(f) # {}

(* bit_file_cmp(f, g) <= 0                                                 *)
FileLeq(f, g) ==
    \/ FirstKey(f) < FirstKey(g)
    \/ FirstKey(f) = FirstKey(g) /\ LastKey(f) <= LastKey(g)

(* bit_level_search_file: behind every file that compares below, except    *)
(* that a file equal to the last one goes behind it.                       *)
SearchFile(files, f) ==
    IF files = <<>> \/ FileLeq(f, Head(files)) THEN 0
    ELSE IF FileLeq(Last(files), f) THEN Len(files)
    ELSE Cardinality({i \in DOMAIN files : ~FileLeq(f, files[i])})

(* bit_level_add_file                                                      *)
AddFile(files, f) == InsertAt(files, SearchFile(files, f) + 1, f)

(* Its -ENOSPC, which no caller looks at: the file is lost.                *)
NoRoom(files, l) == Len(files) >= MaxSize(l)

(* bit_level_remove_file for each of a set of descriptors.                 *)
RemoveFiles(files, ids) == SelectSeq(files, LAMBDA f : f.id \notin ids)

Ids(files) == {f.id : f \in ToSet(files)}

----------------------------------------------------------------------------
(* Lookup                                                                  *)

SearchBitFile(f, k) == IF k \in Reachable(f) THEN f.recs[k] ELSE NoVal

(* bit_level_linear_search: the newest version that has the key wins, and  *)
(* of several files of that version the last one.                          *)
LinearSearch(files, k) ==
    LET hits == {i \in DOMAIN files : k \in Reachable(files[i])}
        wins(i) == \A j \in hits : \/ files[j].version < files[i].version
                                   \/ files[j].version = files[i].version /\ j <= i
    IN  IF hits = {} THEN NoVal
        ELSE SearchBitFile(files[CHOOSE i \in hits : wins(i)], k)

(* The kernel's bsearch with bit_file_cmp_key, in num elements from base:  *)
(* the place of a file whose range has the key, or 0.                      *)
Bsearch(files, k) ==
    LET n == Len(files)
        within[base \in 0 .. n, num \in 0 .. n] ==
            LET pivot == base + num \div 2 + 1 IN
            IF num = 0 THEN 0
            ELSE IF k < FirstKey(files[pivot]) THEN within[base, num \div 2]
            ELSE IF k > LastKey(files[pivot]) THEN within[pivot, (num - 1) \div 2]
            ELSE pivot
    IN  within[0, n]

(* bit_level_search below level 0, through bit_level_locate_file.          *)
SearchSorted(files, k) ==
    LET pos == Bsearch(files, k)
    IN  IF pos = 0 THEN NoVal ELSE SearchBitFile(files[pos], k)

(* lsm_tree_search                                                         *)
Search(k) ==
    LET inLevel0 == LinearSearch(tree.level[0], k) IN
    IF k \in DOMAIN memtable THEN memtable[k]
    ELSE IF inLevel0 # NoVal THEN inLevel0
    ELSE SearchSorted(tree.level[1], k)

----------------------------------------------------------------------------
(* The catalogue and its files                                             *)

(* The descriptor of bitc_alloc_file and the version of                    *)
(* bitc_get_next_version, for a file that is about to be built.            *)
NewFile(T, recs) ==
    [id |-> NextSegment(T.fds, MaxFd), version |-> T.max_version, recs |-> recs]

(* Mistake for Created: the version counter does not advance.              *)
CreatedSameVersion(T, l, recs) ==
    [T EXCEPT !.fds = TakeNext(@, MaxFd), !.level[l] = AddFile(@, NewFile(T, recs))]

(* The builder, set_file_stats and add_file: a new file with the records   *)
(* `recs' appears in level l.  With no descriptor left fd keeps a stale or *)
(* an undefined value, and the file is written over another one: the model *)
(* stops there, and where a level has no room.                             *)
Created(T, l, recs) ==
    [T EXCEPT !.fds = TakeNext(@, MaxFd),
              !.max_version = @ + 1,
              !.level[l] = AddFile(@, NewFile(T, recs)),
              !.mode = IF NewFile(T, recs).id = NoSegment THEN "no descriptor"
                       ELSE IF NoRoom(T.level[l], l) THEN "no room" ELSE @]

(* compaction_job_run, first loop: a file of level 0 goes down as it is.   *)
Moved(T, f) ==
    [T EXCEPT !.max_version = @ + 1,
              !.level = [l \in 0 .. 1 |->
                  IF l = 0 THEN RemoveFiles(@[0], {f.id})
                  ELSE AddFile(@[1], [f EXCEPT !.version = T.max_version])],
              !.mode = IF NoRoom(T.level[1], 1) THEN "no room" ELSE @]

(* Mistake for Released: the descriptors stay taken.                       *)
ReleasedKeepsDescriptors(T, files) ==
    [T EXCEPT !.level = [l \in 0 .. 1 |-> RemoveFiles(@[l], {f.id : f \in files})]]

(* The last two loops: the merged files are removed and released.          *)
Released(T, files) ==
    [T EXCEPT !.level = [l \in 0 .. 1 |-> RemoveFiles(@[l], {f.id : f \in files})],
              !.fds.valid = @ \ {f.id : f \in files}]

(* Mistake for LowerBound: the first file that starts behind the key.      *)
LowerBoundByFirstKey(files, key) ==
    Cardinality({i \in DOMAIN files : FirstKey(files[i]) < key})

(* bit_level_lower_bound, with the bounds of the C array.                  *)
LowerBound(files, key) ==
    LET file(i) == files[i + 1]
        n == Len(files)
        narrow[low \in 0 .. n, high \in -1 .. n] ==
            LET mid == low + (high - low) \div 2 IN
            IF low >= high THEN low
            ELSE IF FirstKey(file(mid)) <= key /\ key <= LastKey(file(mid)) THEN mid
            ELSE IF key < FirstKey(file(mid)) THEN narrow[low, mid - 1]
            ELSE narrow[mid + 1, high]
    IN  IF key < FirstKey(Head(files)) THEN 0
        ELSE IF key > LastKey(Last(files)) THEN n
        ELSE narrow[0, n - 1]

(* bit_level_find_relative_files: from the lower bound of the first key to *)
(* the last file that starts within the range.                             *)
RelativeFiles(files, demoted) ==
    LET first == Min({FirstKey(f) : f \in demoted})
        last  == Max({LastKey(f) : f \in demoted})
    IN  IF files = <<>> THEN {}
        ELSE IF last < FirstKey(Head(files)) \/ first > LastKey(Last(files)) THEN {}
        ELSE {files[i] : i \in {j \in LowerBound(files, first) + 1 .. Len(files) :
                            \A h \in LowerBound(files, first) + 1 .. j :
                                FirstKey(files[h]) <= last}}

(* lsm_file_overlapping                                                    *)
Overlapping(files) ==
    \E f, g \in files : f # g /\ FirstKey(f) <= LastKey(g) /\ FirstKey(g) <= LastKey(f)

(* Mistake for Newest: the comparison of versions is reversed.             *)
NewestReversed(files, k) ==
    {f.recs[k] : f \in {g \in files :
        /\ k \in DOMAIN g.recs
        /\ \A h \in files : k \in DOMAIN h.recs => g.version <= h.version}}

(* What the k-way merge can keep of a key: a record of the newest version; *)
(* among equal versions the heap decides.                                  *)
Newest(files, k) ==
    {f.recs[k] : f \in {g \in files :
        /\ k \in DOMAIN g.recs
        /\ \A h \in files : k \in DOMAIN h.recs => h.version <= g.version}}

(* The merge fills one file after another, each up to its capacity.        *)
Merged(T, l, recs) ==
    LET S == DOMAIN recs
        part(i) == {k \in S : (Rank(S, k) - 1) \div FileCapacity = i - 1}
        nrFile == (Cardinality(S) + FileCapacity - 1) \div FileCapacity
    IN  FoldLeft(LAMBDA U, i : Created(U, l, [k \in part(i) |-> recs[k]]),
                 T, [i \in 1 .. nrFile |-> i])

(* compaction_job_run from level 0 to level 1: the trees it can leave.     *)
CompactionJob(T) ==
    LET demoted == ToSet(T.level[0])
        relatives == RelativeFiles(T.level[1], demoted)
        inputs == demoted \cup relatives
        keys == UNION {DOMAIN f.recs : f \in inputs}
        newest == [k \in keys |-> Newest(inputs, k)]
        choices == {m \in [keys -> Vals] : \A k \in keys : m[k] \in newest[k]}
    IN  IF relatives = {} /\ ~Overlapping(demoted)
        THEN {FoldLeft(Moved, T, T.level[0])}
        ELSE IF \E f \in inputs : ~HasIterator(f) THEN {[T EXCEPT !.mode = "no iterator"]}
        ELSE {Released(Merged(T, 1, m), inputs) : m \in choices}

(* lsm_tree_major_compaction(0).  With level 1 full it calls itself for    *)
(* level 1, and reads levels[2] of an array of two.                        *)
MajorCompaction(T) ==
    IF Len(T.level[1]) >= Capacity[1] THEN {[T EXCEPT !.mode = "no level 2"]}
    ELSE CompactionJob(T)

(* lsm_tree_minor_compaction of the memtable m.                            *)
MinorCompaction(T, m) ==
    LET room == IF Len(T.level[0]) >= Capacity[0] THEN MajorCompaction(T) ELSE {T}
    IN  {IF U.mode = "up" THEN Created(U, 0, m) ELSE U : U \in room}

----------------------------------------------------------------------------
(* Operations                                                              *)

EmptyTable == [k \in {} |-> NoVal]

(* rbtree_memtable_put: an entry of the same key is replaced.              *)
MemtablePut(m, k, v) == (k :> v) @@ m

(* A formatted device: bit_catalogue_format and lsm_tree_init.             *)
Init ==
    /\ memtable = EmptyTable
    /\ tree = [level |-> [l \in 0 .. 1 |-> <<>>],
               fds |-> [valid |-> {}, cur_segment |-> 0],
               max_version |-> 0,
               mode |-> "up"]
    /\ latest = [k \in Keys |-> NoVal]

Up == tree.mode = "up" /\ tree.max_version < MaxVersion

(* Mistake for Put: the memtable is compacted one entry too late.          *)
PutLate(k, v) ==
    LET m == MemtablePut(memtable, k, v) IN
    /\ Up
    /\ latest' = [latest EXCEPT ![k] = v]
    /\ IF Cardinality(DOMAIN m) <= FileCapacity
       THEN memtable' = m /\ UNCHANGED tree
       ELSE memtable' = EmptyTable /\ tree' \in MinorCompaction(tree, m)

(* lsm_tree_put                                                            *)
Put(k, v) ==
    LET m == MemtablePut(memtable, k, v) IN
    /\ Up
    /\ latest' = [latest EXCEPT ![k] = v]
    /\ IF Cardinality(DOMAIN m) < FileCapacity
       THEN memtable' = m /\ UNCHANGED tree
       ELSE memtable' = EmptyTable /\ tree' \in MinorCompaction(tree, m)

(* bitc_get_current_version: the counter after a start, from the versions  *)
(* of the files in the order of their descriptors.                         *)
CurrentVersion(files) ==
    LET byId == SetToSortSeq(files, LAMBDA f, g : f.id < g.id)
    IN  FoldLeft(LAMBDA max, f : IF max < f.version THEN f.version + 1 ELSE max,
                 0, byId)

(* lsm_tree_init: the levels are filled anew in the order of descriptors.  *)
ReloadLevel(files) ==
    FoldLeft(AddFile, <<>>,
             SetToSortSeq(ToSet(files), LAMBDA f, g : f.id < g.id))

Reloaded(T) ==
    [T EXCEPT !.level = [l \in 0 .. 1 |-> ReloadLevel(@[l])],
              !.fds = ReloadValidator(@),
              !.max_version = CurrentVersion(ToSet(T.level[0]) \cup ToSet(T.level[1]))]

(* lsm_tree_destroy saves the memtable; bit_catalogue_init and             *)
(* lsm_tree_init then load what the catalogue lists.                       *)
Restart ==
    /\ Up
    /\ memtable' = EmptyTable
    /\ \E T \in (IF memtable = EmptyTable THEN {tree} ELSE MinorCompaction(tree, memtable)) :
          tree' = IF T.mode = "up" THEN Reloaded(T) ELSE T
    /\ UNCHANGED latest

PutAny == \E k \in Keys, v \in Vals : Put(k, v)

(* One session of the device, and sessions separated by clean restarts.    *)
Spec == Init /\ [][PutAny]_vars
RestartSpec == Init /\ [][PutAny \/ Restart]_vars

----------------------------------------------------------------------------
(* Properties                                                              *)

File == [id : 0 .. MaxFd - 1, version : Nat, recs : UNION {[S -> Vals] : S \in SUBSET Keys}]

Files == ToSet(tree.level[0]) \cup ToSet(tree.level[1])

(* Types: the memtable stays below its capacity between puts, and no file  *)
(* holds more records than a BIT file has slots for.                       *)
TypeOK ==
    /\ \E S \in SUBSET Keys : memtable \in [S -> Vals] /\ Cardinality(S) < FileCapacity
    /\ latest \in [Keys -> Vals \cup {NoVal}]
    /\ tree.mode \in {"up", "no iterator", "no level 2", "no descriptor", "no room"}
    /\ tree.fds.valid \subseteq 0 .. MaxFd - 1
    /\ tree.mode = "up" =>
          \A f \in Files : f \in File /\ Cardinality(DOMAIN f.recs) \in 1 .. FileCapacity

(* lsm_tree_search finds the record of the last lsm_tree_put of the key,   *)
(* and nothing for a key never put: neither the merge by version nor the   *)
(* order in which levels and files are searched brings back an older       *)
(* record, and no record is lost between two files.                        *)
LookupIsLatest == tree.mode = "up" => \A k \in Keys : Search(k) = latest[k]

(* What bsearch in level 1 and bit_level_lower_bound assume ("assume there *)
(* are no intersections between files"): the files of level 1 are sorted   *)
(* and their key ranges are disjoint.                                      *)
Level1Disjoint ==
    tree.mode = "up" =>
        \A i, j \in DOMAIN tree.level[1] :
            i < j => LastKey(tree.level[1][i]) < FirstKey(tree.level[1][j])

(* The versions order the files: no two share one, the counter is ahead of *)
(* them all, and every file of level 0 is newer than every file of level 1 *)
(* it shares a key with.  compaction_job_run and bit_level_linear_search   *)
(* decide by versions alone which record is the last one written.          *)
VersionsOrder ==
    tree.mode = "up" =>
        /\ \A f \in Files : f.version < tree.max_version
        /\ \A f, g \in Files : f # g => f.version # g.version
        /\ \A f \in ToSet(tree.level[0]), g \in ToSet(tree.level[1]) :
              DOMAIN f.recs \cap DOMAIN g.recs # {} => g.version < f.version

(* Compactions release exactly the descriptors of the files they remove:   *)
(* the descriptors in use are those of the files in the levels, one each.  *)
DescriptorsInUse ==
    tree.mode = "up" =>
        /\ tree.fds.valid = Ids(tree.level[0]) \cup Ids(tree.level[1])
        /\ Cardinality(tree.fds.valid) = Len(tree.level[0]) + Len(tree.level[1])

(* The catalogue and the levels are large enough: no compaction runs out   *)
(* of descriptors or of room in an array of files while the files it       *)
(* replaces still occupy theirs.                                           *)
CompactionHasRoom == tree.mode \notin {"no descriptor", "no room"}

(* A full level 1 would be merged with a level that does not exist.        *)
CompactionStaysInLevels == tree.mode # "no level 2"

(* The binary search of bit_level_lower_bound misses no file: for every    *)
(* key range a compaction may bring down, all files of level 1 that        *)
(* overlap it are found to be merged.                                      *)
RelativesCoverOverlaps ==
    tree.mode = "up" =>
        \A a, b \in Keys : a <= b =>
            LET range == [id |-> NoSegment, version |-> 0, recs |-> [k \in {a, b} |-> NoVal]]
            IN  \A f \in ToSet(tree.level[1]) :
                    Overlapping({f, range}) => f \in RelativeFiles(tree.level[1], {range})
=============================================================================
