----------------------------- MODULE MappingPut -----------------------------
(***************************************************************************)
(* The range put of the volume index, mapping::put with its update        *)
(* callback match_item_cb_put (src/src/to_move_out/homeblks/volume/       *)
(* mapping.hpp).  The index maps disjoint LBA ranges [s, e] to a value    *)
(* entry {seq, blkid, blk_offset}; LBA l of an entry lives at block       *)
(* blk_offset + (l - s) of blkid.  A put of [s, e] collects the entries    *)
(* overlapping it (match_kv, in key order), and the callback builds the   *)
(* entries that replace them (replace_kv) and the free-block entries      *)
(* (fbe) of the physical blocks that lose.                                 *)
(*                                                                         *)
(* Each request has its own sequence number and its own blkid, so a blkid *)
(* is named by the seq of the request that allocated it.  The volume page  *)
(* size equals the data page size, so an LBA offset is a block offset.    *)
(* The whole range lies in one leaf node: get_start_end_lba then returns   *)
(* the input range and compute_val_offset returns 0.                       *)
(***************************************************************************)
EXTENDS Integers, Sequences, SequencesExt

CONSTANTS
  NumLbas,  \* LBAs 0 .. NumLbas-1 of the volume
  Seqs,     \* sequence numbers requests carry (a finite set of naturals)
  InOrder   \* TRUE: index updates arrive in sequence-number order

Lbas == 0 .. NumLbas - 1

\* Physical blocks <<blkid, offset>>; offsets up to 2*NumLbas leave room for
\* fbe offsets computed past the end of a blkid.
Phys == Seqs \X (0 .. 2 * NumLbas)

\* MappingKey [s, e] with its ValueEntry (seq and blkid, blk_offset).
Entry == [s : Lbas, e : Lbas, seq : Seqs, off : Nat]

NLba(x) == x.e - x.s + 1

VARIABLES
  index,    \* the entries of the mapping btree
  applied,  \* the puts done so far (one per request)
  freed     \* how often each physical block was handed to free_blk

vars == <<index, applied, freed>>

-----------------------------------------------------------------------------
(* compute_val_offset: offset of start_lba in the value being put.        *)
ValOffset(st, nv) == st - nv.s

\* Mutant: nlba computed as e_lba - s_lba, one short.
IntervalShort(s, e, val, offset) ==
  [s |-> s, e |-> e - 1, seq |-> val.seq, off |-> val.off + offset]

(* add_new_interval(s, e, val, offset): MappingKey(s, e-s+1) with         *)
(* MappingValue(val, offset, ...), whose ValueEntry::add_offset adds the  *)
(* offset to val's blk_offset.                                             *)
Interval(s, e, val, offset) ==
  [s |-> s, e |-> e, seq |-> val.seq, off |-> val.off + offset]

(* The loop state of match_item_cb_put: start_lba, new_val_offset,       *)
(* replace_kv and the fbes pushed on the request (<<blkid, offset, n>>).  *)

(* Existing value with seq >= new seq: keep it, free the new blocks for   *)
(* the existing entry's length, advance by that length.                  *)
ExistingWins(ls, ex, nv, en) ==
  [ls EXCEPT !.rkv = @ \cup {ex},
             !.fbe = Append(@, <<nv.seq, ls.nOff, NLba(ex)>>),
             !.st = @ + NLba(ex),
             !.nOff = @ + NLba(ex)]

\* Mutant: the missing interval is added, but new_val_offset is not advanced.
AddMissingNoAdvance(ls, ex, nv, en) ==
  IF ex.s > ls.st
    THEN [ls EXCEPT !.rkv = @ \cup {Interval(ls.st, ex.s - 1, nv, ls.nOff)},
                    !.st = ex.s]
    ELSE ls

(* New value wins: first add the part of the new range before ex.         *)
AddMissing(ls, ex, nv, en) ==
  IF ex.s > ls.st
    THEN [ls EXCEPT !.rkv = @ \cup {Interval(ls.st, ex.s - 1, nv, ls.nOff)},
                    !.nOff = @ + (ex.s - ls.st),
                    !.st = ex.s]
    ELSE ls

\* Mutant: the existing blocks are freed from the start of its value, not
\* from existing_val_offset.
ComputeAndAddOverlapFreeHead(s, e, nv, nOff, ex, eo) ==
  [kv |-> Interval(s, e, nv, nOff), fbe |-> <<ex.seq, ex.off, e - s + 1>>]

(* compute_and_add_overlap(req, s, e, new_val, new_val_offset, e_val,     *)
(* e_val_offset): free the existing blocks of [s, e] and install the new  *)
(* value there.                                                            *)
ComputeAndAddOverlap(s, e, nv, nOff, ex, eo) ==
  [kv |-> Interval(s, e, nv, nOff), fbe |-> <<ex.seq, ex.off + eo, e - s + 1>>]

(* ... then split ex at the start, replace the overlap by the new value,  *)
(* and split ex at the end.                                                *)
SplitOverlap(ls, ex, nv, en) ==
  LET eo   == IF ex.s < ls.st THEN ls.st - ex.s ELSE 0
      endO == IF ex.e < en THEN ex.e ELSE en
      n    == endO - ls.st + 1
      ov   == ComputeAndAddOverlap(ls.st, endO, nv, ls.nOff, ex, eo)
      head == IF ex.s < ls.st THEN {Interval(ex.s, ls.st - 1, ex, 0)} ELSE {}
      tail == IF ex.e > en THEN {Interval(ls.st + n, ex.e, ex, eo + n)} ELSE {}
  IN [ls EXCEPT !.rkv = @ \cup head \cup {ov.kv} \cup tail,
                !.fbe = Append(@, ov.fbe),
                !.st = @ + n,
                !.nOff = @ + n]

(* The loop over match_kv, then the new range left after the last entry.  *)
RECURSIVE PutLoop(_, _, _, _)
PutLoop(ms, ls, nv, en) ==
  IF ms = <<>>
    THEN IF ls.st <= en
           THEN [ls EXCEPT !.rkv = @ \cup {Interval(ls.st, en, nv, ls.nOff)}]
           ELSE ls
    ELSE LET ex == Head(ms) IN
         IF nv.seq <= ex.seq
           THEN PutLoop(Tail(ms), ExistingWins(ls, ex, nv, en), nv, en)
           ELSE PutLoop(Tail(ms), SplitOverlap(AddMissing(ls, ex, nv, en), ex, nv, en), nv, en)

\* The entries overlapping [s, e] in key order (the btree's match_kv).
MatchKv(s, e) ==
  SetToSortSeq({x \in index : x.s <= e /\ s <= x.e}, LAMBDA a, b : a.s < b.s)

\* How many times the fbes of a put free physical block p.
FreeCount(fbe, p) ==
  Cardinality({i \in 1 .. Len(fbe) :
                 fbe[i][1] = p[1] /\ fbe[i][2] <= p[2] /\ p[2] < fbe[i][2] + fbe[i][3]})


(* mapping::get (the read path).  A value of seq InvalidSeq stands for     *)
(* EMPTY_MAPPING_VALUE; requests carry sequence numbers above it.          *)
InvalidSeq == 0

(* MappingKey::get_overlap with the value's ValueEntry::add_offset of the  *)
(* overlap's start offset in the entry.                                    *)
GetOverlap(x, s, e) ==
  LET a == IF x.s > s THEN x.s ELSE s
      b == IF x.e < e THEN x.e ELSE e
  IN [s |-> a, e |-> b, seq |-> x.seq, off |-> x.off + (a - x.s)]

(* match_item_cb_get: entries with a seq above lastCommited_seqId are     *)
(* left out; the first and the last of match_kv are cut to [s, e], the    *)
(* ones between are taken whole.                                           *)
MatchItemCbGet(ms, s, e, lc) ==
  LET idx == SelectSeq([j \in 1 .. Len(ms) |-> j], LAMBDA j : ms[j].seq <= lc)
      item(j) == IF j = 1 \/ j = Len(ms) THEN GetOverlap(ms[j], s, e) ELSE ms[j]
  IN [k \in 1 .. Len(idx) |-> item(idx[k])]

EmptyAt(l) == [s |-> l, e |-> l, seq |-> InvalidSeq, off |-> 0]

(* get's fill_gaps loop: one-LBA empty entries for every LBA between the  *)
(* results, then up to end_lba.                                           *)
RECURSIVE FillGaps(_, _, _)
FillGaps(rs, last, e) ==
  IF rs = <<>>
    THEN [k \in 1 .. e - last + 1 |-> EmptyAt(last + k - 1)]
    ELSE LET r == Head(rs)
         IN [k \in 1 .. r.s - last |-> EmptyAt(last + k - 1)]
            \o <<r>> \o FillGaps(Tail(rs), r.e + 1, e)

(* mapping::get(req, values) of [s, e] by a request whose                 *)
(* lastCommited_seqId is lc, the whole range in one leaf.                  *)
MappingGet(s, e, lc) == FillGaps(MatchItemCbGet(MatchKv(s, e), s, e, lc), s, e)

-----------------------------------------------------------------------------
Init ==
  /\ index = {}
  /\ applied = {}
  /\ freed = [p \in Phys |-> 0]

(* IndxMgr::update_indx_tbl puts one blkid of a request, with key         *)
(* [s, e] and a value of blk_offset 0; mapping::put runs the range update *)
(* whose callback is match_item_cb_put; the btree replaces match_kv by    *)
(* replace_kv, and the request's fbes are later freed.                    *)
Put(s, e, q) ==
  LET nv  == [s |-> s, e |-> e, seq |-> q, off |-> 0]
      ms  == MatchKv(s, e)
      res == PutLoop(ms, [st |-> s, nOff |-> ValOffset(s, nv), rkv |-> {}, fbe |-> <<>>], nv, e)
  IN /\ index' = (index \ {ms[i] : i \in 1 .. Len(ms)}) \cup res.rkv
     /\ applied' = applied \cup {nv}
     /\ freed' = [p \in Phys |-> freed[p] + FreeCount(res.fbe, p)]

\* A request whose data writes completed updates the index.  Requests get
\* their sequence number before their data is written, so with InOrder =
\* FALSE the updates of overlapping requests arrive in any order.
Next ==
  \E s, e \in Lbas, q \in Seqs :
    /\ s <= e
    /\ \A a \in applied : a.seq # q
    /\ InOrder => \A a \in applied : a.seq < q
    /\ Put(s, e, q)

Spec == Init /\ [][Next]_vars

-----------------------------------------------------------------------------
\* The block LBA l maps to in the index (a set: empty if unmapped, more than
\* one element if entries overlap).
MappedAt(l) == {<<x.seq, x.off + (l - x.s)>> : x \in {y \in index : y.s <= l /\ l <= y.e}}

\* Reference: the block of the newest applied request covering l.
NewestAt(l) ==
  LET cov == {a \in applied : a.s <= l /\ l <= a.e}
  IN IF cov = {} THEN {}
     ELSE LET w == CHOOSE a \in cov : \A b \in cov : b.seq <= a.seq
          IN {<<w.seq, l - w.s>>}

\* Blocks written by the applied requests, and blocks the index maps.
Written == UNION {{<<a.seq, o>> : o \in 0 .. NLba(a) - 1} : a \in applied}
Mapped == UNION {MappedAt(l) : l \in Lbas}

TypeOK ==
  /\ index \subseteq Entry
  /\ \A x \in index : x.s <= x.e
  /\ freed \in [Phys -> Nat]

\* What a get returns, LBA by LBA: <<lba, seq, blk_offset>>.
PerLba(vs) ==
  FlattenSeq([i \in 1 .. Len(vs) |->
                [k \in 1 .. NLba(vs[i]) |->
                   <<vs[i].s + k - 1, vs[i].seq,
                     IF vs[i].seq = InvalidSeq THEN 0 ELSE vs[i].off + k - 1>>]])

\* Reference: the newest applied request's block at l, empty when l was
\* never written or its newest write is above lastCommited_seqId.
NewestVisible(l, lc) ==
  IF NewestAt(l) = {} THEN <<l, InvalidSeq, 0>>
  ELSE LET b == CHOOSE b \in NewestAt(l) : TRUE
       IN IF b[1] > lc THEN <<l, InvalidSeq, 0>> ELSE <<l, b[1], b[2]>>

\* Spec 4.7 and section 8 ("put(k,v) ; get(k) returns the higher-seq
\* value"): after any sequence of puts, mapping::get of any range, with
\* any lastCommited_seqId, returns the range in LBA order, one entry per
\* LBA, each LBA at the block of the newest request that wrote it, however
\* match_item_cb_put split, kept or replaced entries and however
\* match_item_cb_get and fill_gaps cut and padded them.
GetReturnsNewest ==
  \A s, e \in Lbas, lc \in {InvalidSeq} \cup Seqs :
    s <= e => PerLba(MappingGet(s, e, lc)) = [k \in 1 .. e - s + 1 |-> NewestVisible(s + k - 1, lc)]

\* The fbes pushed by match_item_cb_put and compute_and_add_overlap free
\* every written block that the index no longer maps exactly once, and
\* never a block that is still mapped or was never written.
BlocksFreedOnce ==
  \A p \in Phys : freed[p] = IF p \in Written \ Mapped THEN 1 ELSE 0

=============================================================================
