----------------------------- MODULE MCLsmTree -----------------------------
(***************************************************************************)
(* Small instances of the LSM tree for TLC.                                *)
(***************************************************************************)
EXTENDS LsmTree

TwoKeys == 1 .. 2
ThreeKeys == 1 .. 3
FourKeys == 1 .. 4
SixKeys == 1 .. 6

(* Records are only compared with each other.                              *)
ValSymmetry == Permutations(Vals)

(* Records of different keys are never compared, so of two values it only  *)
(* matters whether they are the one put last; of versions only their order *)
(* matters; and without restarts a descriptor is but a name of its file.   *)
AgainstLatest(recs) == [k \in DOMAIN recs |-> recs[k] = latest[k]]

Versions == {f.version : f \in Files} \cup {tree.max_version}
Age(v) == Cardinality({w \in Versions : w <= v})

View ==
    <<AgainstLatest(memtable), {k \in Keys : latest[k] = NoVal},
      [l \in 0 .. 1 |-> [i \in DOMAIN tree.level[l] |->
          [recs |-> AgainstLatest(tree.level[l][i].recs),
           version |-> Age(tree.level[l][i].version)]]],
      Cardinality(tree.fds.valid), Age(tree.max_version), tree.mode,
      <<memtable, tree>> = <<memtable, tree>>>>
=============================================================================
