------------------------------ MODULE BitFile ------------------------------
(***************************************************************************)
(* A block index table (BIT) file of the LSM tree (lsm_tree.c): how        *)
(* bit_builder streams sorted entries into a tree of encrypted nodes, and  *)
(* how bit_file_search and bit_iterator read them back.                    *)
(*                                                                         *)
(* Positions count nodes; the file starts at 0.  A node is encrypted under *)
(* a random key that only the pointer to it holds, so a pointer opens what *)
(* it finds only if that is the node encoded for its position: a node      *)
(* remembers in `at' where it was meant to be.  A key stands for its       *)
(* record too.                                                             *)
(***************************************************************************)
EXTENDS Integers, Sequences, FiniteSets, SequencesExt

CONSTANTS
    Keys,          \* keys that may be added, naturals
    Degree,        \* DEFAULT_BIT_DEGREE
    LeafLen,       \* BIT_LEAF_LEN
    FileCapacity,  \* DEFAULT_LSM_FILE_CAPACITY
    BufferSizes    \* DEFAULT_LSM_FILE_BUILDER_BUFFER_SIZE in nodes, several sizes

VARIABLES
    file,      \* what has been written, by position
    builder,   \* begin, buffer (and its size), ctx and cur_leaf of struct bit_builder
    added,     \* history: the keys added so far, in order
    root,      \* position of the root, once complete
    displaced  \* history: the last write went to a stale position

vars == <<file, builder, added, root, displaced>>

----------------------------------------------------------------------------
NrLeaf == (FileCapacity + LeafLen - 1) \div LeafLen

(* Powers of the degree below the number of leaves: the loops of           *)
(* __bit_height and __bit_array_len.                                       *)
Widths == {w \in {Degree ^ i : i \in 0 .. NrLeaf} : w < NrLeaf}

Height == 1 + Cardinality(Widths)

(* __bit_array_len: the room calculate_bit_size sets aside for a file.     *)
BitArrayLen == NrLeaf + FoldSet(LAMBDA w, n : w + n, 0, Widths)

ASSUME BitConstants ==
    /\ Keys \subseteq Nat
    /\ Degree \in Nat /\ Degree >= 2
    /\ LeafLen \in Nat \ {0} /\ FileCapacity \in Nat \ {0}
    /\ BufferSizes \subseteq Nat /\ \A size \in BufferSizes : size >= Height

Nothing == [at |-> -1]
Positions == 0 .. 2 * BitArrayLen

(* kernel_write of the buffer at a position.                               *)
WriteAt(f, nodes, addr) ==
    [p \in Positions |-> IF p - addr + 1 \in DOMAIN nodes THEN nodes[p - addr + 1] ELSE f[p]]

NextPos(B) == B.begin + Len(B.buffer)

(* Mistake for MustFlush: room is kept for the leaf alone.                 *)
MustFlushLate(B) == Len(B.buffer) + 1 > B.size

(* bit_builder_buffer_flush_if_full, applied to file and builder.          *)
MustFlush(B) == Len(B.buffer) + Height > B.size
Flushed(B) == IF MustFlush(B) THEN [B EXCEPT !.begin = NextPos(B), !.buffer = <<>>] ELSE B
FlushedFile(f, B) == IF MustFlush(B) THEN WriteAt(f, B.buffer, B.begin) ELSE f

Child(key, pos, isLeaf) == [key |-> key, pos |-> pos, is_leaf |-> isLeaf]

(* Mistake for PushUp: an inner node is entered under its first key.       *)
PushUpFirstKey(B, h) ==
    [B EXCEPT !.buffer = Append(@, [at |-> NextPos(B), is_leaf |-> FALSE, children |-> B.ctx[h]]),
              !.ctx[h] = <<>>,
              !.ctx[h + 1] = Append(@, Child(Head(B.ctx[h]).key, NextPos(B), FALSE))]

(* __bit_inner of the children collected at height h, written behind the   *)
(* buffer and entered one height up.                                       *)
PushUp(B, h) ==
    [B EXCEPT !.buffer = Append(@, [at |-> NextPos(B), is_leaf |-> FALSE, children |-> B.ctx[h]]),
              !.ctx[h] = <<>>,
              !.ctx[h + 1] = Append(@, Child(Last(B.ctx[h]).key, NextPos(B), FALSE))]

Heights == [i \in 1 .. Height - 1 |-> i - 1]

(* The loops over heights of add_entry and complete.                       *)
PushFull(B) ==
    FoldLeft(LAMBDA C, h : IF Len(C.ctx[h]) = Degree THEN PushUp(C, h) ELSE C, B, Heights)
PushRest(B) ==
    FoldLeft(LAMBDA C, h : IF C.ctx[h] # <<>> THEN PushUp(C, h) ELSE C, B, Heights)

(* The leaf goes to the buffer first; its pointer to the next leaf is      *)
(* known only once the inner nodes behind it are placed.                   *)
PutLeaf(B, keys) ==
    [B EXCEPT !.buffer = Append(@, [at |-> NextPos(B), is_leaf |-> TRUE, keys |-> keys,
                                    next |-> -1])]
LinkLeaf(B, i) == [B EXCEPT !.buffer[i].next = NextPos(B)]

----------------------------------------------------------------------------
Init ==
    /\ file = [p \in Positions |-> Nothing]
    /\ \E size \in BufferSizes :
          builder = [begin |-> 0, buffer |-> <<>>, size |-> size, cur_leaf |-> <<>>,
                     ctx |-> [h \in 0 .. Height - 1 |-> <<>>]]
    /\ added = <<>>
    /\ root = -1
    /\ displaced = FALSE

(* Mistake for LeafDone: the next leaf is expected right behind this one.  *)
LeafDoneLinkedEarly(B, keys) ==
    LET C == Flushed(B)
        D == [PutLeaf(C, keys) EXCEPT !.ctx[0] = Append(@, Child(Last(keys), NextPos(C), TRUE))]
    IN  [PushFull(LinkLeaf(D, Len(C.buffer) + 1)) EXCEPT !.cur_leaf = <<>>]

(* bit_builder_add_entry with a leaf completed by its last key.            *)
LeafDone(B, keys) ==
    LET C == Flushed(B)
        leafPos == NextPos(C)
        D == [PutLeaf(C, keys) EXCEPT !.ctx[0] = Append(@, Child(Last(keys), leafPos, TRUE))]
    IN  [LinkLeaf(PushFull(D), Len(C.buffer) + 1) EXCEPT !.cur_leaf = <<>>]

(* bit_builder_add_entry.  The callers add keys in ascending order and at  *)
(* most FileCapacity of them.                                              *)
AddEntry(k) ==
    LET keys == Append(builder.cur_leaf, k) IN
    /\ root = -1
    /\ Len(added) < FileCapacity
    /\ \A j \in ToSet(added) : j < k
    /\ added' = Append(added, k)
    /\ IF Len(keys) < LeafLen
       THEN builder' = [builder EXCEPT !.cur_leaf = keys] /\ UNCHANGED file
       ELSE /\ builder' = LeafDone(builder, keys)
            /\ file' = FlushedFile(file, builder)
    /\ UNCHANGED <<root, displaced>>

(* bit_builder_complete up to its exit label: an incomplete last leaf is   *)
(* placed in the buffer, but ctx[0].nr is not advanced over it.            *)
Closed(B) ==
    LET C == Flushed(B) IN
    IF B.ctx[Height - 1] # <<>> THEN B
    ELSE PushRest(IF B.cur_leaf = <<>> THEN C ELSE PutLeaf(C, B.cur_leaf))

(* bit_builder_complete.  The last write goes to the position where the    *)
(* buffer started on entry, although the flush may have moved it.          *)
Complete ==
    LET B == Closed(builder)
        flushes == builder.ctx[Height - 1] = <<>> /\ MustFlush(builder)
        f == IF flushes THEN FlushedFile(file, builder) ELSE file
    IN  /\ root = -1
        /\ added # <<>>
        /\ builder' = B
        /\ file' = WriteAt(f, B.buffer, builder.begin)
        /\ root' = NextPos(B) - 1
        /\ displaced' = flushes
        /\ UNCHANGED added

Next == Complete \/ \E k \in Keys : AddEntry(k)

Spec == Init /\ [][Next]_vars

----------------------------------------------------------------------------
(* Reading                                                                 *)

(* kernel_read and bit_node_decode of the node a pointer leads to.         *)
Opens(p, isLeaf) == p \in Positions /\ file[p].at = p /\ file[p].is_leaf = isLeaf

(* The loop of bit_file_search_leaf, from a node down: the position of the *)
(* leaf that has the key, or nothing.                                      *)
RECURSIVE LeafBelow(_, _, _)
LeafBelow(p, isLeaf, k) ==
    LET children == file[p].children
        fits == {i \in DOMAIN children : k <= children[i].key}
        i == CHOOSE j \in fits : \A h \in fits : j <= h
    IN  IF ~Opens(p, isLeaf) THEN {}
        ELSE IF isLeaf THEN {q \in {p} : k \in ToSet(file[p].keys)}
        ELSE IF fits = {} THEN {}
        ELSE LeafBelow(children[i].pos, children[i].is_leaf, k)

(* bit_file_search_leaf: the root is opened with the key that ctx holds    *)
(* for the only child at the top; without one it cannot be opened.         *)
SearchLeaf(k) ==
    LET top == builder.ctx[Height - 1]
    IN  IF top # <<>> /\ top[1].pos = root THEN LeafBelow(root, FALSE, k) ELSE {}

(* bit_iterator_next until it reports the end: all keys delivered.  A node *)
(* that cannot be decoded is delivered as it is: -1, which is no key.      *)
RECURSIVE KeysFrom(_)
KeysFrom(p) ==
    LET keys == file[p].keys
    IN  IF ~Opens(p, TRUE) THEN <<-1>>
        ELSE IF Last(keys) >= Last(added) THEN keys
        ELSE keys \o KeysFrom(file[p].next)

(* bit_iterator_create starts at the leaf of the first key.                *)
Iterated ==
    LET first == SearchLeaf(Head(added))
    IN  IF first = {} THEN <<>> ELSE KeysFrom(CHOOSE p \in first : TRUE)

----------------------------------------------------------------------------
(* Properties                                                              *)

Done == root # -1

(* The entries of complete leaves.                                         *)
InWholeLeaves == ToSet(SubSeq(added, 1, Len(added) - (Len(added) % LeafLen)))

(* Types: the buffer never overflows, nothing is written behind the room   *)
(* that calculate_bit_size gives a file in the index region (the next file *)
(* starts there), and no node of the builder gets more than Degree         *)
(* children.                                                               *)
TypeOK ==
    /\ Len(builder.buffer) <= builder.size
    /\ NextPos(builder) <= BitArrayLen
    /\ \A p \in Positions : p >= BitArrayLen => file[p] = Nothing
    /\ \A h \in 0 .. Height - 1 : Len(builder.ctx[h]) <= Degree
    /\ Len(builder.cur_leaf) < LeafLen
    /\ displaced \in BOOLEAN

(* A search of a complete file, through the pointers and key bounds of the *)
(* inner nodes (bit_file_search_leaf), finds the entries of whole leaves   *)
(* and nothing else.  Displaced files are not promised anything.           *)
SearchFindsWholeLeaves ==
    Done /\ ~displaced => {k \in Keys : SearchLeaf(k) # {}} = InWholeLeaves

(* The chain of leaves, flushed in pieces while the tree above it grew,    *)
(* delivers every entry once and in order, the incomplete last leaf        *)
(* included; a file without a whole leaf has no iterator.                  *)
IteratorDeliversAll ==
    Done /\ ~displaced =>
        Iterated = IF Len(added) >= LeafLen THEN added ELSE <<>>
=============================================================================
