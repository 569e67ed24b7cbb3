--------------------------- MODULE CodeCacheProofs --------------------------
(***************************************************************************)
(* Proofs about CodeCache, for every program, every size of the cache and  *)
(* every size of the translations: its invariant; the lemmas that the      *)
(* operations which fill and empty the cache keep it (flush_code_cache(),  *)
(* allocate_bb(), scan() and lookup_or_scan()), and those that link it (the*)
(* branches that the AArch64 dispatcher writes, the link flags and the link*)
(* records); the theorems.  Last, the hash table of the cache              *)
(* (CodeCacheTable), for any size of it.                                   *)
(***************************************************************************)
EXTENDS CodeCache, CodeCacheTable, FiniteSets, FiniteSetTheorems, TLAPS

\* Metadata as flush_code_cache() leaves it, as far as it is read.
Fresh(m) ==
  /\ m.exit_branch_type = "unknown"
  /\ m.branch_cache_status = {}
  /\ m.actual_id = 0

\* The code b is a translation of its source block.
CodeMatches(b) ==
  /\ b.spc \in SPC
  /\ b.exit = Prog[b.spc].exit
  /\ b.taken = Prog[b.spc].taken
  /\ b.skipped = Prog[b.spc].skipped

GoodCode(bl, n) ==
  /\ BranchesLead(bl, n)
  /\ \A i \in Fragments(bl, n) : CodeMatches(bl[i])

\* The link flags of a conditional exit with code b.
LinkStatus(b) ==
  (IF b.on = "none" THEN {}
   ELSE {IF b.on = "taken" THEN "BRANCH_LINKED" ELSE "FALLTHROUGH_LINKED"})
  \cup (IF b.slot[2] = NoBlock THEN {} ELSE {"BOTH_LINKED"})

\* The metadata m of a fragment describes its code b, which is up to date and
\* whose slots are written in order.
MetaMatches(m, b) ==
  /\ b.fresh = TRUE
  /\ m.source_addr = b.spc
  /\ m.exit_branch_type = b.exit
  /\ b.exit \in CondTypes =>
       /\ m.branch_taken_addr = b.taken
       /\ m.branch_skipped_addr = b.skipped
       /\ m.branch_cache_status = LinkStatus(b)
       /\ b.on = "none" => b.slot[1] = NoBlock /\ b.slot[2] = NoBlock
       /\ b.on # "none" => b.slot[1] # NoBlock

\* The table part of the invariant.
TableMatches(t) ==
  /\ \A s \in SPC : CcLookup(t, s) # NoBlock =>
       /\ CcLookup(t, s) \in Live(t)
       /\ t.blocks[CcLookup(t, s)].spc = s
  /\ \A i \in Live(t) : CcLookup(t, t.blocks[i].spc) = i

\* Every block that is in use belongs to a live fragment, and its metadata says to
\* which.
Owned(t) ==
  \A j \in BlockId : trampolines_size_bbs <= j /\ j < t.free_block =>
    LET h == t.blocks[j].head
    IN  h \in Live(t) /\ t.meta[j].actual_id = IF h = j THEN 0 ELSE h

\* The branches that have been written into live fragments, and those among them
\* that lead to block i.
LinksIn(t) == {l \in Live(t) \X {1, 2} : t.blocks[l[1]].slot[l[2]] # NoBlock}
LinksTo(t, i) == {l \in Live(t) \X {1, 2} : t.blocks[l[1]].slot[l[2]] = i}

\* Each has a record of the pool, in the list of the fragment that it leads to.
Recorded(t) ==
  /\ \A i \in Live(t) : \A k \in {1, 2} : t.blocks[i].slot[k] \in Live(t) \cup {NoBlock}
  /\ \A i \in BlockId \ {NoBlock} : t.meta[i].linked_from = LinksTo(t, i)
  /\ t.cc_links = Cardinality(LinksIn(t))

\* Once the assertion of record_cc_link() has failed nothing is said of records.
Records(t) == t.fault = "none" => Recorded(t)

\* What holds of thread_data between two operations.
TInv(t) ==
  /\ t \in ThreadType
  /\ trampolines_size_bbs <= t.free_block
  /\ t.fault # "allocate_bb_overflow"
  /\ \A j \in BlockId : t.free_block <= j => Fresh(t.meta[j])
  /\ TableMatches(t)
  /\ GoodCode(t.blocks, t.free_block)
  /\ \A i \in Live(t) : MetaMatches(t.meta[i], t.blocks[i])
  /\ Owned(t)
  /\ Records(t)

\* The block being executed is live, or the cache has been flushed under it and
\* nothing has been allocated since: then the code that was good still is.
Executable(t, c) ==
  \E n \in 0 .. CODE_CACHE_SIZE :
    /\ n = t.free_block \/ t.free_block = trampolines_size_bbs
    /\ GoodCode(t.blocks, n)
    /\ c \in Fragments(t.blocks, n)

IInv ==
  /\ TInv(td)
  /\ Executable(td, cur)
  /\ want \in SPC
  /\ phase \in {"body", "exit"}
  /\ phase = "exit" => want \in Successors(td.blocks[cur].spc)
-----------------------------------------------------------------------------
(* One lemma for each operation: what it returns, and that it keeps TInv. *)

\* flush_code_cache() leaves the code alone and forgets everything about it.
LEMMA FlushFacts ==
  ASSUME NEW t \in ThreadType
  PROVE  LET f == FlushCodeCache(t) IN
         /\ f \in ThreadType
         /\ f.free_block = trampolines_size_bbs
         /\ f.was_flushed = TRUE
         /\ f.blocks = t.blocks
         /\ f.fault = t.fault
         /\ f.cc_links = 0
         /\ \A s \in SPC : f.entry_address[s] = NoBlock
         /\ \A i \in BlockId : Fresh(f.meta[i]) /\ f.meta[i].linked_from = {}
<1> DEFINE f == FlushCodeCache(t)
<1>1. 0 \in BlockId /\ NoBlock \in BlockId /\ "unknown" \in BranchTypes
  BY SizeAssumption DEF BlockId, NoBlock, BranchTypes
<1>2. /\ trampolines_size_bbs \in 0 .. CODE_CACHE_SIZE
      /\ 0 \in 0 .. MAX_CC_LINKS
  BY SizeAssumption
<1>3. ASSUME NEW m \in MetaType
      PROVE  /\ FlushedMeta(m) \in MetaType
             /\ Fresh(FlushedMeta(m)) /\ FlushedMeta(m).linked_from = {}
  BY <1>1, Zenon DEF FlushedMeta, MetaType, Fresh
<1>4. t.meta \in [BlockId -> MetaType]
  BY Zenon DEF ThreadType
<1> DEFINE meta == [i \in BlockId |-> FlushedMeta(t.meta[i])]
           table == [s \in SPC |-> NoBlock]
<1>5. /\ meta \in [BlockId -> MetaType]
      /\ \A i \in BlockId : Fresh(meta[i]) /\ meta[i].linked_from = {}
  BY <1>3, <1>4, Zenon
<1>6. table \in [SPC -> BlockId] /\ \A s \in SPC : table[s] = NoBlock
  BY <1>1, Zenon
<1>7. f = [t EXCEPT !.was_flushed = TRUE, !.free_block = trampolines_size_bbs,
                    !.entry_address = table, !.meta = meta, !.cc_links = 0]
  BY Zenon DEF FlushCodeCache
<1> HIDE DEF meta, table, f
<1>8. f \in ThreadType
  BY <1>2, <1>5, <1>6, <1>7, Zenon DEF ThreadType
<1>9. /\ f.free_block = trampolines_size_bbs
      /\ f.was_flushed = TRUE
      /\ f.blocks = t.blocks
      /\ f.fault = t.fault
      /\ f.cc_links = 0
      /\ f.entry_address = table
      /\ f.meta = meta
  BY <1>7, Zenon DEF ThreadType
<1>10. QED
  BY <1>5, <1>6, <1>8, <1>9, Zenon DEF f

\* An empty cache has no fragment.
LEMMA NoFragments ==
  ASSUME NEW bl, NEW n \in Int, n <= trampolines_size_bbs
  PROVE  Fragments(bl, n) = {}
BY SizeAssumption DEF Fragments, BlockId

\* After a flush the invariant holds whatever the cache contained.
LEMMA FlushInv ==
  ASSUME NEW t \in ThreadType, t.fault # "allocate_bb_overflow"
  PROVE  TInv(FlushCodeCache(t))
<1> DEFINE f == FlushCodeCache(t)
<1>0. /\ f \in ThreadType
      /\ f.free_block = trampolines_size_bbs
      /\ f.fault # "allocate_bb_overflow"
      /\ f.cc_links = 0
      /\ \A s \in SPC : f.entry_address[s] = NoBlock
      /\ \A i \in BlockId : Fresh(f.meta[i]) /\ f.meta[i].linked_from = {}
  BY FlushFacts, Zenon
<1> HIDE DEF f
<1>1. Live(f) = {}
  BY <1>0, NoFragments, SizeAssumption DEF Live
<1>2. GoodCode(f.blocks, f.free_block)
  BY <1>1, Zenon DEF GoodCode, BranchesLead, Live
<1>3. TableMatches(f)
  BY <1>0, <1>1, Zenon DEF TableMatches, CcLookup
<1>4. Owned(f)
  BY <1>0, SizeAssumption DEF Owned, BlockId
<1>5. Records(f)
  <2>1. LinksIn(f) = {} /\ \A i : LinksTo(f, i) = {}
    BY <1>1, Zenon DEF LinksIn, LinksTo
  <2> QED
    BY <2>1, <1>0, <1>1, FS_EmptySet, Zenon DEF Records, Recorded
<1>6. TInv(f)
  BY <1>0, <1>1, <1>2, <1>3, <1>4, <1>5, SizeAssumption DEF TInv
<1> QED
  BY <1>6, Zenon DEF f

\* allocate_bb() returns a block below the reserve, of a cache that satisfies the
\* invariant; a cache that was not flushed is the one it was given.
LEMMA AllocateFacts ==
  ASSUME NEW t, TInv(t)
  PROVE  \E f :
           /\ TInv(f)
           /\ f.fault = t.fault
           /\ f.free_block < CODE_CACHE_SIZE - CODE_CACHE_OVERP
           /\ AllocateBb(t) = [f EXCEPT !.free_block = @ + 1]
           /\ f = t \/ (f.was_flushed /\ \A s \in SPC : f.entry_address[s] = NoBlock)
<1> DEFINE f == IF t.free_block >= CODE_CACHE_SIZE - CODE_CACHE_OVERP
                THEN FlushCodeCache(t) ELSE t
<1>1. t \in ThreadType /\ t.fault # "allocate_bb_overflow"
  BY Zenon DEF TInv
<1>2. t.free_block \in Int
  BY <1>1 DEF ThreadType
<1>3. CASE t.free_block >= CODE_CACHE_SIZE - CODE_CACHE_OVERP
  <2>1. f = FlushCodeCache(t)
    BY <1>3, Zenon
  <2>2. TInv(f)
    BY <2>1, <1>1, FlushInv, Zenon
  <2> QED
    BY <2>1, <2>2, <1>1, FlushFacts, SizeAssumption, Zenon DEF AllocateBb
<1>4. CASE t.free_block < CODE_CACHE_SIZE - CODE_CACHE_OVERP
  <2>1. f = t
    BY <1>2, <1>4, SizeAssumption
  <2> QED
    BY <2>1, <1>4, Zenon DEF AllocateBb
<1> QED
  BY <1>2, <1>3, <1>4, SizeAssumption

\* The metadata that scan_a64() leaves for the exit of a fresh block.
LEMMA ExitMetaFacts ==
  ASSUME NEW m \in MetaType, Fresh(m), NEW s \in SPC
  PROVE  LET x == ExitMeta([m EXCEPT !.source_addr = s], s) IN
         /\ x \in MetaType
         /\ x.source_addr = s /\ x.actual_id = 0 /\ x.linked_from = m.linked_from
         /\ x.exit_branch_type = Prog[s].exit
         /\ x.branch_cache_status = {}
         /\ Prog[s].exit \in CondTypes =>
              /\ x.branch_taken_addr = Prog[s].taken
              /\ x.branch_skipped_addr = Prog[s].skipped
<1> DEFINE p == Prog[s]
           y == [m EXCEPT !.source_addr = s]
<1>1. p.exit \in BranchTypes /\ p.taken \in SPC /\ p.skipped \in SPC
  BY ProgAssumption, Zenon DEF ProgType
<1>2. /\ y \in MetaType /\ y.exit_branch_type = "unknown" /\ y.branch_cache_status = {}
      /\ y.source_addr = s /\ y.actual_id = 0 /\ y.linked_from = m.linked_from
  BY Zenon DEF MetaType, Fresh
<1> HIDE DEF y
<1>3. CASE p.exit = "cond_imm_a64"
  <2>1. ExitMeta(y, s) = [y EXCEPT !.exit_branch_type = p.exit,
           !.branch_taken_addr = p.taken, !.branch_skipped_addr = p.skipped,
           !.branch_cache_status = {}]
    BY <1>3, Zenon DEF ExitMeta
  <2> QED
    BY <1>1, <1>2, <2>1, ZenonT(30) DEF MetaType, y
<1>4. CASE p.exit = "cbz_a64"
  <2>1. ExitMeta(y, s) = [y EXCEPT !.exit_branch_type = p.exit,
           !.branch_taken_addr = p.taken, !.branch_skipped_addr = p.skipped]
    BY <1>4, Zenon DEF ExitMeta
  <2> QED
    BY <1>1, <1>2, <2>1, ZenonT(30) DEF MetaType, y
<1>5. CASE p.exit = "uncond_imm_a64"
  <2>1. ExitMeta(y, s) = [y EXCEPT !.exit_branch_type = p.exit,
                                   !.branch_taken_addr = p.taken]
    BY <1>5, Zenon DEF ExitMeta
  <2> QED
    BY <1>1, <1>2, <1>5, <2>1, ZenonT(30) DEF MetaType, y, CondTypes
<1>6. CASE p.exit = "uncond_branch_reg"
  <2>1. ExitMeta(y, s) = [y EXCEPT !.exit_branch_type = p.exit]
    BY <1>6, Zenon DEF ExitMeta
  <2> QED
    BY <1>1, <1>2, <1>6, <2>1, Zenon DEF MetaType, y, CondTypes
<1>7. CASE p.exit = "unknown"
  <2>1. ExitMeta(y, s) = y
    BY <1>7, Zenon DEF ExitMeta
  <2> QED
    BY <1>1, <1>2, <1>7, <2>1, Zenon DEF y, CondTypes
<1> QED
  BY <1>1, <1>3, <1>4, <1>5, <1>6, <1>7, Zenon DEF BranchTypes

\* Block numbers are integers.
LEMMA BlockIdInt == \A j \in BlockId : j \in Int
BY SizeAssumption DEF BlockId

\* The blocks of a fragment of w = n + 1 blocks after its first one, i, are the n
\* blocks from h = i + 1 on.
LEMMA OverflowRange ==
  ASSUME NEW i \in Int, NEW n \in Nat, NEW h \in Int, NEW w \in Int, NEW j \in Int,
         h = i + 1, w = n + 1
  PROVE  /\ j < i \/ i + w <= j => j # i /\ ~(h <= j /\ j < h + n)
         /\ i < j /\ j < i + w => j # i /\ h <= j /\ j < h + n
OBVIOUS

\* scan() adds one fragment at the end of a cache f that satisfies the invariant:
\* its own, or the flushed one.
LEMMA ScanFacts ==
  ASSUME NEW t, TInv(t), NEW s \in SPC
  PROVE  \E f : LET r == Scan(t, s)
                    i == f.free_block IN
           /\ TInv(f) /\ f.fault = t.fault
           /\ f = t \/ (f.was_flushed /\ \A q \in SPC : f.entry_address[q] = NoBlock)
           /\ i \in BlockId /\ i + Span[s] <= CODE_CACHE_SIZE
           /\ r \in ThreadType
           /\ r.free_block = i + Span[s]
           /\ r.fault = f.fault
           /\ r.was_flushed = f.was_flushed
           /\ r.entry_address = [f.entry_address EXCEPT ![s] = i]
           /\ \A j \in BlockId : r.blocks[j] =
                 IF i <= j /\ j < i + Span[s] THEN Translation(s, i) ELSE f.blocks[j]
           /\ r.meta[i] = ExitMeta([f.meta[i] EXCEPT !.source_addr = s], s)
           /\ \A j \in BlockId : j < i \/ i + Span[s] <= j => r.meta[j] = f.meta[j]
           /\ \A j \in BlockId : i < j /\ j < i + Span[s] =>
                r.meta[j] = [f.meta[j] EXCEPT !.actual_id = i]
           /\ r.cc_links = f.cc_links
<1>1. PICK f :
        /\ TInv(f) /\ f.fault = t.fault
        /\ f.free_block < CODE_CACHE_SIZE - CODE_CACHE_OVERP
        /\ AllocateBb(t) = [f EXCEPT !.free_block = @ + 1]
        /\ f = t \/ (f.was_flushed /\ \A q \in SPC : f.entry_address[q] = NoBlock)
  BY AllocateFacts, Zenon
<1> DEFINE i == f.free_block
           n == Span[s] - 1
           a == [f EXCEPT !.free_block = @ + 1]
           y == [f.meta[i] EXCEPT !.source_addr = s]
           x == [a EXCEPT !.meta[i].source_addr = s, !.entry_address[s] = i]
           meta == [j \in BlockId |-> IF x.free_block <= j /\ j < x.free_block + n
                       THEN [x.meta[j] EXCEPT !.actual_id = i] ELSE x.meta[j]]
           o == AllocateBbOverflow(x, i, n)
           bl == [j \in BlockId |->
                   IF i <= j /\ j < i + Span[s] THEN Translation(s, i)
                   ELSE o.blocks[j]]
           r == [o EXCEPT !.meta[i] = ExitMeta(@, s), !.blocks = bl]
<1>2. /\ f \in ThreadType /\ f.free_block \in Int
      /\ trampolines_size_bbs <= i /\ Fresh(f.meta[i])
      /\ i \in BlockId /\ i + Span[s] <= CODE_CACHE_SIZE /\ n \in Nat
      /\ Span[s] \in Nat \ {0}
  <2>1. f \in ThreadType /\ f.free_block \in Int
    BY <1>1 DEF TInv, ThreadType
  <2>2. trampolines_size_bbs <= i
    BY <1>1, Zenon DEF TInv
  <2>3. Span[s] \in Nat \ {0} /\ Span[s] <= CODE_CACHE_OVERP + 1
    BY SpanAssumption, Zenon
  <2>4. i \in BlockId
    BY <1>1, <2>1, <2>2, SizeAssumption DEF BlockId
  <2>5. Fresh(f.meta[i])
    BY <1>1, <2>1, <2>4, SMTT(30) DEF TInv
  <2> QED
    BY <1>1, <2>1, <2>2, <2>3, <2>4, <2>5, SizeAssumption
<1>3. Scan(t, s) = r
  <2>1. a.free_block - 1 = i
    BY <1>2 DEF ThreadType
  <2>2. AllocateBb(t) = a
    BY <1>1, Zenon
  <2> HIDE DEF a
  <2>3. Scan(t, s) = ScanA64([a EXCEPT !.meta[a.free_block - 1].source_addr = s,
                                       !.entry_address[s] = a.free_block - 1],
                             s, a.free_block - 1)
    BY <2>2, Zenon DEF Scan
  <2>4. Scan(t, s) = ScanA64(x, s, i)
    BY <2>1, <2>3, Zenon
  <2> QED
    BY <2>4, Zenon DEF ScanA64
<1>4. f.meta \in [BlockId -> MetaType] /\ f.entry_address \in [SPC -> BlockId]
      /\ f.blocks \in [BlockId -> CodeType]
  BY <1>2, Zenon DEF ThreadType
<1>5. a.meta = f.meta /\ a.entry_address = f.entry_address /\ a.blocks = f.blocks
      /\ a.free_block = i + 1
  BY <1>2, Zenon DEF ThreadType
<1>6. a \in ThreadType
  <2>1. i + 1 \in 0 .. CODE_CACHE_SIZE
    BY <1>1, <1>2, SizeAssumption
  <2> QED
    BY <2>1, <1>2, Zenon DEF ThreadType
<1>7. y \in MetaType
  BY <1>2, <1>4 DEF MetaType
<1>8. /\ x.meta = [f.meta EXCEPT ![i] = y]
      /\ x.entry_address = [f.entry_address EXCEPT ![s] = i]
      /\ x.blocks = f.blocks /\ x.free_block = i + 1 /\ x.fault = f.fault
      /\ x.was_flushed = f.was_flushed /\ x.cc_links = f.cc_links
  BY <1>2, <1>4, <1>5, <1>6, Zenon DEF ThreadType
<1>9. x \in ThreadType
  <2>1. [f.meta EXCEPT ![i] = y] \in [BlockId -> MetaType]
    BY <1>2, <1>4, <1>7, Zenon
  <2>2. [f.entry_address EXCEPT ![s] = i] \in [SPC -> BlockId]
    BY <1>2, <1>4, Zenon
  <2>3. x = [a EXCEPT !.meta = [f.meta EXCEPT ![i] = y],
                      !.entry_address = [f.entry_address EXCEPT ![s] = i]]
    BY <1>5, <1>6, Zenon DEF ThreadType
  <2> QED
    BY <2>1, <2>2, <2>3, <1>6, Zenon DEF ThreadType
<1> HIDE DEF a, x
<1>10. o = [x EXCEPT !.free_block = @ + n, !.meta = meta]
  <2>1. ~ (x.free_block + n > CODE_CACHE_SIZE)
    BY <1>2, <1>8, SizeAssumption
  <2> QED
    BY <2>1, Zenon DEF AllocateBbOverflow
<1>11. meta \in [BlockId -> MetaType]
  <2>1. ASSUME NEW m \in MetaType PROVE [m EXCEPT !.actual_id = i] \in MetaType
    BY <1>2, Zenon DEF MetaType
  <2>2. x.meta \in [BlockId -> MetaType]
    BY <1>9, Zenon DEF ThreadType
  <2> QED
    BY <2>1, <2>2, Zenon
<1>12. /\ meta[i] = y
       /\ \A j \in BlockId : j < i \/ i + Span[s] <= j => meta[j] = f.meta[j]
       /\ \A j \in BlockId : i < j /\ j < i + Span[s] =>
            meta[j] = [f.meta[j] EXCEPT !.actual_id = i]
  <2>1. x.meta[i] = y /\ \A j \in BlockId : j # i => x.meta[j] = f.meta[j]
    BY <1>2, <1>4, <1>8, Zenon
  <2>2. /\ n \in Nat /\ i \in Int /\ x.free_block \in Int /\ Span[s] \in Int
        /\ x.free_block = i + 1 /\ Span[s] = n + 1
    BY <1>2, <1>8 DEF BlockId
  <2>3. ASSUME NEW j \in BlockId
        PROVE  /\ j < i \/ i + Span[s] <= j => j # i /\ ~(x.free_block <= j /\ j < x.free_block + n)
               /\ i < j /\ j < i + Span[s] => j # i /\ x.free_block <= j /\ j < x.free_block + n
    <3>1. j \in Int
      BY Zenon, BlockIdInt
    <3> QED
      BY <3>1, <2>2, OverflowRange, Zenon
  <2>4. ~(x.free_block <= i)
    BY ONLY <2>2
  <2>5. \A j \in BlockId : meta[j] = IF x.free_block <= j /\ j < x.free_block + n
                                      THEN [x.meta[j] EXCEPT !.actual_id = i] ELSE x.meta[j]
    BY Zenon
  <2> HIDE DEF meta
  <2> QED
    BY <2>1, <2>3, <2>4, <2>5, <1>2, Zenon
<1> HIDE DEF meta, o
<1>13. /\ o.free_block = i + Span[s] /\ o.meta = meta
       /\ o.entry_address = x.entry_address /\ o.blocks = f.blocks
       /\ o.fault = f.fault /\ o.was_flushed = f.was_flushed
       /\ o.cc_links = f.cc_links
  BY <1>2, <1>8, <1>9, <1>10 DEF ThreadType
<1>14. o \in ThreadType
  <2>1. x.free_block + n \in 0 .. CODE_CACHE_SIZE
    BY <1>2, <1>8, SizeAssumption
  <2> QED
    BY <2>1, <1>9, <1>10, <1>11, Zenon DEF ThreadType
<1>15. Translation(s, i) \in CodeType
  <2>1. NoBlock \in BlockId
    BY SizeAssumption DEF NoBlock, BlockId
  <2>2. [k \in {1, 2} |-> NoBlock] \in [{1, 2} -> BlockId]
    BY <2>1, Zenon
  <2> QED
    BY <1>2, <2>2, ProgAssumption, Zenon DEF Translation, CodeType, ProgType
<1>16. bl \in [BlockId -> CodeType]
  BY <1>4, <1>13, <1>15, Zenon
<1>17. \A j \in BlockId : bl[j] =
         IF i <= j /\ j < i + Span[s] THEN Translation(s, i) ELSE f.blocks[j]
  BY <1>13, Zenon
<1> HIDE DEF bl
<1>18. ExitMeta(meta[i], s) \in MetaType
  BY <1>2, <1>4, <1>12, ExitMetaFacts, Zenon
<1>19. r = [o EXCEPT !.meta = [meta EXCEPT ![i] = ExitMeta(meta[i], s)], !.blocks = bl]
  BY <1>13, <1>14, Zenon DEF ThreadType
<1>20. [meta EXCEPT ![i] = ExitMeta(meta[i], s)] \in [BlockId -> MetaType]
  BY <1>11, <1>18, Zenon
<1>21. r \in ThreadType
  BY <1>14, <1>16, <1>19, <1>20, Zenon DEF ThreadType
<1>22. /\ r.free_block = i + Span[s] /\ r.fault = f.fault
       /\ r.was_flushed = f.was_flushed /\ r.cc_links = f.cc_links
       /\ r.entry_address = [f.entry_address EXCEPT ![s] = i]
       /\ r.blocks = bl /\ r.meta = [meta EXCEPT ![i] = ExitMeta(meta[i], s)]
  BY <1>8, <1>13, <1>14, <1>19, Zenon DEF ThreadType
<1> HIDE DEF r
<1>23. /\ r.meta[i] = ExitMeta(y, s)
       /\ \A j \in BlockId : j < i \/ i + Span[s] <= j => r.meta[j] = f.meta[j]
       /\ \A j \in BlockId : i < j /\ j < i + Span[s] =>
            r.meta[j] = [f.meta[j] EXCEPT !.actual_id = i]
  BY <1>2, <1>11, <1>12, <1>22, SMTT(30)
<1>24. Scan(t, s) = r
  BY <1>3, Zenon DEF r, o, bl, x, a
<1> WITNESS f
<1> QED
  BY <1>1, <1>2, <1>24, <1>17, <1>21, <1>22, <1>23, Zenon

\* scan() keeps the invariant and returns the live translation of its target.
\* Unless it flushed, the fragments that were live still are, with their code.
LEMMA ScanInv ==
  ASSUME NEW t, TInv(t), NEW s \in SPC, CcLookup(t, s) = NoBlock
  PROVE  LET r == Scan(t, s) IN
         /\ TInv(r)
         /\ CcLookup(r, s) # NoBlock
         /\ r.fault = t.fault
         /\ ~ r.was_flushed => \A j \in Live(t) :
              j \in Live(r) /\ r.blocks[j] = t.blocks[j] /\ r.meta[j] = t.meta[j]
<1> DEFINE r == Scan(t, s)
<1>1. PICK f : LET i == f.free_block IN
        /\ TInv(f) /\ f.fault = t.fault
        /\ f = t \/ (f.was_flushed /\ \A q \in SPC : f.entry_address[q] = NoBlock)
        /\ i \in BlockId /\ i + Span[s] <= CODE_CACHE_SIZE
        /\ r \in ThreadType
        /\ r.free_block = i + Span[s]
        /\ r.fault = f.fault
        /\ r.was_flushed = f.was_flushed
        /\ r.entry_address = [f.entry_address EXCEPT ![s] = i]
        /\ \A j \in BlockId : r.blocks[j] =
              IF i <= j /\ j < i + Span[s] THEN Translation(s, i) ELSE f.blocks[j]
        /\ r.meta[i] = ExitMeta([f.meta[i] EXCEPT !.source_addr = s], s)
        /\ \A j \in BlockId : j < i \/ i + Span[s] <= j => r.meta[j] = f.meta[j]
        /\ \A j \in BlockId : i < j /\ j < i + Span[s] =>
             r.meta[j] = [f.meta[j] EXCEPT !.actual_id = i]
        /\ r.cc_links = f.cc_links
  BY ScanFacts, ZenonT(30)
<1> HIDE DEF r
<1> DEFINE i == f.free_block
<1>2. f \in ThreadType /\ trampolines_size_bbs <= i /\ i \in BlockId
      /\ f.entry_address \in [SPC -> BlockId] /\ Span[s] \in Nat \ {0}
  BY <1>1, SpanAssumption, Zenon DEF TInv, ThreadType
<1>3. r.blocks[i] = Translation(s, i)
  BY <1>1, <1>2 DEF BlockId
<1>4. \A j \in BlockId : j < i =>
        r.blocks[j] = f.blocks[j] /\ r.meta[j] = f.meta[j]
  BY <1>1, <1>2 DEF BlockId
<1>5. Live(r) = Live(f) \cup {i}
  <2>1. ASSUME NEW j \in BlockId, j < i PROVE j \in Live(r) <=> j \in Live(f)
    BY <2>1, <1>1, <1>2, <1>4 DEF Live, Fragments, BlockId
  <2>2. i \in Live(r)
    BY <1>1, <1>2, <1>3 DEF Live, Fragments, BlockId, Translation
  <2>3. ASSUME NEW j \in BlockId, i < j PROVE j \notin Live(r) /\ j \notin Live(f)
    <3>1. CASE j < i + Span[s]
      <4>1. r.blocks[j].head = i
        BY <3>1, <2>3, <1>1, <1>2 DEF Translation, BlockId
      <4> QED
        BY <4>1, <2>3, <1>2 DEF Live, Fragments, BlockId
    <3>2. CASE ~ (j < i + Span[s])
      BY <3>2, <2>3, <1>1, <1>2 DEF Live, Fragments, BlockId
    <3> QED
      BY <3>1, <3>2, Zenon
  <2>4. i \notin Live(f)
    BY <1>2 DEF Live, Fragments, BlockId
  <2>5. Live(r) \subseteq BlockId /\ Live(f) \subseteq BlockId
    BY Zenon DEF Live, Fragments
  <2>6. \A j \in BlockId : j < i \/ j = i \/ i < j
    BY <1>2 DEF BlockId
  <2> QED
    BY <2>1, <2>2, <2>3, <2>4, <2>5, <2>6, <1>2, Zenon
<1>6. \A j \in Live(f) : /\ j \in BlockId /\ j < i
                          /\ r.blocks[j] = f.blocks[j] /\ r.meta[j] = f.meta[j]
  BY <1>4, Zenon DEF Live, Fragments
<1>7. f.entry_address[s] = NoBlock
  BY <1>1, Zenon DEF CcLookup
<1>8. /\ CcLookup(r, s) = i
      /\ \A q \in SPC : q # s => CcLookup(r, q) = CcLookup(f, q)
  BY <1>1, <1>2, Zenon DEF CcLookup
<1>9. i # NoBlock /\ \A j \in Live(f) : j # NoBlock
  BY <1>2, SizeAssumption DEF NoBlock, Live, Fragments, BlockId
<1>10. TableMatches(f) /\ GoodCode(f.blocks, i)
      /\ \A j \in Live(f) : MetaMatches(f.meta[j], f.blocks[j])
  BY <1>1, Zenon DEF TInv
<1>11. \A j \in Live(f) : r.blocks[j].spc \in SPC /\ CodeMatches(r.blocks[j])
  BY <1>6, <1>10, Zenon DEF GoodCode, CodeMatches, Live
<1>12. TableMatches(r)
  <2>1. ASSUME NEW q \in SPC, CcLookup(r, q) # NoBlock
        PROVE  CcLookup(r, q) \in Live(r) /\ r.blocks[CcLookup(r, q)].spc = q
    <3>1. CASE q = s
      BY <3>1, <1>3, <1>5, <1>8 DEF Translation
    <3>2. CASE q # s
      BY <3>2, <2>1, <1>5, <1>6, <1>8, <1>10 DEF TableMatches
    <3> QED
      BY <3>1, <3>2, Zenon
  <2>2. ASSUME NEW j \in Live(r) PROVE CcLookup(r, r.blocks[j].spc) = j
    <3>1. CASE j = i
      BY <3>1, <1>3, <1>8 DEF Translation
    <3>2. CASE j \in Live(f)
      <4>1. CcLookup(f, r.blocks[j].spc) = j
        BY <3>2, <1>6, <1>10, Zenon DEF TableMatches
      <4>2. r.blocks[j].spc # s
        BY <3>2, <4>1, <1>7, <1>9, Zenon DEF CcLookup
      <4> QED
        BY <3>2, <4>1, <4>2, <1>8, <1>11, Zenon
    <3> QED
      BY <3>1, <3>2, <1>5, Zenon
  <2> QED
    BY <2>1, <2>2, Zenon DEF TableMatches
<1>13. GoodCode(r.blocks, r.free_block)
  <2>1. ASSUME NEW j \in Live(r), NEW o \in Reach(r.blocks[j]),
               r.blocks[j].slot[SlotFor(r.blocks[j], o)] # NoBlock
        PROVE  LET to == r.blocks[j].slot[SlotFor(r.blocks[j], o)] IN
               to \in Live(r) /\ r.blocks[to].spc = r.blocks[j][o]
    <3>1. CASE j = i
      <4>1. r.blocks[j].slot = [k \in {1, 2} |-> NoBlock]
        BY <3>1, <1>3 DEF Translation
      <4>2. SlotFor(r.blocks[j], o) \in {1, 2}
        BY Zenon DEF SlotFor
      <4> QED
        BY <4>1, <4>2, <2>1, Zenon
    <3>2. CASE j \in Live(f)
      <4> DEFINE to == f.blocks[j].slot[SlotFor(f.blocks[j], o)]
      <4>1. r.blocks[j] = f.blocks[j]
        BY <3>2, <1>6, Zenon
      <4>2. BranchesLead(f.blocks, i)
        BY <1>10, Zenon DEF GoodCode
      <4>3. to \in Live(f) /\ f.blocks[to].spc = f.blocks[j][o]
        BY <4>1, <4>2, <3>2, <2>1, Zenon DEF BranchesLead, Live
      <4>4. to \in Live(r) /\ r.blocks[to].spc = f.blocks[j][o]
        BY <4>3, <1>5, <1>6, Zenon
      <4> QED
        BY <4>1, <4>4, Zenon
    <3> QED
      BY <3>1, <3>2, <1>5, Zenon
  <2>2. \A j \in Live(r) : CodeMatches(r.blocks[j])
    BY <1>3, <1>5, <1>11 DEF CodeMatches, Translation
  <2> QED
    BY <2>1, <2>2, Zenon DEF GoodCode, BranchesLead, Live
<1>14. \A j \in Live(r) : MetaMatches(r.meta[j], r.blocks[j])
  <2>1. f.meta[i] \in MetaType /\ Fresh(f.meta[i])
    <3>1. i <= i
      BY <1>2 DEF BlockId
    <3> QED
      BY <3>1, <1>1, <1>2, Zenon DEF TInv, ThreadType
  <2>2. /\ r.meta[i].source_addr = s
        /\ r.meta[i].exit_branch_type = Prog[s].exit
        /\ r.meta[i].branch_cache_status = {}
        /\ Prog[s].exit \in CondTypes =>
             /\ r.meta[i].branch_taken_addr = Prog[s].taken
             /\ r.meta[i].branch_skipped_addr = Prog[s].skipped
    BY <1>1, <2>1, ExitMetaFacts
  <2>3. /\ r.blocks[i].spc = s
        /\ r.blocks[i].exit = Prog[s].exit /\ r.blocks[i].taken = Prog[s].taken
        /\ r.blocks[i].skipped = Prog[s].skipped /\ r.blocks[i].on = "none"
        /\ r.blocks[i].slot[1] = NoBlock /\ r.blocks[i].slot[2] = NoBlock
        /\ r.blocks[i].fresh = TRUE
    BY <1>3, SMTT(30) DEF Translation
  <2>4. MetaMatches(r.meta[i], r.blocks[i])
    BY <2>2, <2>3, Zenon DEF MetaMatches, LinkStatus
  <2> QED
    BY <2>4, <1>5, <1>6, <1>10, Zenon
<1>15. \A j \in BlockId : r.free_block <= j => Fresh(r.meta[j])
  BY <1>1, <1>2 DEF TInv, BlockId
<1>16. r.meta[i].actual_id = 0 /\ r.meta[i].linked_from = f.meta[i].linked_from
  <2>1. f.meta[i] \in MetaType /\ Fresh(f.meta[i])
    <3>1. i <= i
      BY <1>2 DEF BlockId
    <3> QED
      BY <3>1, <1>1, <1>2, Zenon DEF TInv, ThreadType
  <2> QED
    BY <1>1, <2>1, ExitMetaFacts
<1>17. Owned(r)
  <2> SUFFICES ASSUME NEW j \in BlockId, trampolines_size_bbs <= j, j < r.free_block
               PROVE  LET h == r.blocks[j].head IN
                      h \in Live(r) /\ r.meta[j].actual_id = IF h = j THEN 0 ELSE h
    BY Zenon DEF Owned
  <2>1. CASE j < i
    BY <2>1, <1>1, <1>4, <1>5 DEF TInv, Owned
  <2>2. CASE j = i
    BY <2>2, <1>3, <1>5, <1>16 DEF Translation
  <2>3. CASE i < j
    <3>1. r.blocks[j].head = i /\ j # i
      BY <2>3, <1>1, <1>2 DEF Translation, BlockId
    <3>2. r.meta[j] = [f.meta[j] EXCEPT !.actual_id = i] /\ f.meta[j] \in MetaType
      BY <2>3, <1>1, <1>2, Zenon DEF ThreadType
    <3>3. r.meta[j].actual_id = i
      BY <3>2, Zenon DEF MetaType
    <3> QED
      BY <3>1, <3>3, <1>5, Zenon
  <2> QED
    BY <2>1, <2>2, <2>3, <1>2 DEF BlockId
<1>18. Records(r)
  <2> SUFFICES ASSUME Recorded(f) PROVE Recorded(r)
    BY <1>1, Zenon DEF TInv, Records
  <2>1. r.blocks[i].slot[1] = NoBlock /\ r.blocks[i].slot[2] = NoBlock
    BY <1>3, SMTT(30) DEF Translation
  <2>2. \A j \in Live(f) : \A k \in {1, 2} :
          /\ r.blocks[j].slot[k] = f.blocks[j].slot[k]
          /\ f.blocks[j].slot[k] \in Live(f) \cup {NoBlock}
    BY <1>6, Zenon DEF Recorded
  <2>3. LinksIn(r) = LinksIn(f)
    BY <2>1, <2>2, <1>5, Zenon DEF LinksIn
  <2>4. \A j \in BlockId \ {NoBlock} : LinksTo(r, j) = LinksTo(f, j)
    BY <2>1, <2>2, <1>5 DEF LinksTo
  <2>5. \A j \in BlockId : r.meta[j].linked_from = f.meta[j].linked_from
    <3> SUFFICES ASSUME NEW j \in BlockId PROVE r.meta[j].linked_from = f.meta[j].linked_from
      OBVIOUS
    <3>1. CASE j = i
      BY <3>1, <1>16, Zenon
    <3>2. CASE i < j /\ j < i + Span[s]
      <4>1. r.meta[j] = [f.meta[j] EXCEPT !.actual_id = i] /\ f.meta[j] \in MetaType
        BY <3>2, <1>1, <1>2, Zenon DEF ThreadType
      <4> QED
        BY <4>1, Zenon DEF MetaType
    <3>3. CASE j < i \/ i + Span[s] <= j
      BY <3>3, <1>1, Zenon
    <3> QED
      BY <3>1, <3>2, <3>3, <1>2 DEF BlockId
  <2>6. \A j \in Live(r) : \A k \in {1, 2} : r.blocks[j].slot[k] \in Live(r) \cup {NoBlock}
    BY <2>1, <2>2, <1>5, Zenon
  <2>7. \A j \in BlockId \ {NoBlock} : r.meta[j].linked_from = LinksTo(r, j)
    BY <2>4, <2>5, Zenon DEF Recorded
  <2>8. r.cc_links = Cardinality(LinksIn(r))
    BY <2>3, <1>1, Zenon DEF Recorded
  <2> QED
    BY <2>6, <2>7, <2>8, Zenon DEF Recorded
<1>19. TInv(r)
  <2>1. trampolines_size_bbs <= r.free_block
    BY <1>1, <1>2, SizeAssumption DEF BlockId
  <2>2. r.fault # "allocate_bb_overflow"
    BY <1>1, Zenon DEF TInv
  <2> QED
    BY <2>1, <2>2, <1>1, <1>12, <1>13, <1>14, <1>15, <1>17, <1>18, Zenon DEF TInv
<1>20. ~ r.was_flushed => \A j \in Live(t) :
          j \in Live(r) /\ r.blocks[j] = t.blocks[j] /\ r.meta[j] = t.meta[j]
  BY <1>1, <1>5, <1>6, Zenon
<1> QED
  BY <1>1, <1>8, <1>9, <1>19, <1>20, Zenon DEF r

\* lookup_or_scan(), with was_flushed cleared before the call as the dispatcher
\* does.
LEMMA LookupOrScanInv ==
  ASSUME NEW t, TInv(t), NEW s \in SPC
  PROVE  LET u == LookupOrScan([t EXCEPT !.was_flushed = FALSE], s) IN
         /\ TInv(u)
         /\ CcLookup(u, s) # NoBlock
         /\ u.fault = t.fault
         /\ ~ u.was_flushed => \A j \in Live(t) :
              j \in Live(u) /\ u.blocks[j] = t.blocks[j] /\ u.meta[j] = t.meta[j]
<1> DEFINE v == [t EXCEPT !.was_flushed = FALSE]
           u == LookupOrScan(v, s)
<1>1. v \in ThreadType
  BY Zenon DEF TInv, ThreadType
<1>2. /\ v.free_block = t.free_block /\ v.entry_address = t.entry_address
      /\ v.meta = t.meta /\ v.blocks = t.blocks /\ v.fault = t.fault
      /\ v.cc_links = t.cc_links
  BY Zenon DEF TInv, ThreadType
<1> HIDE DEF v
<1>3. Live(v) = Live(t) /\ \A q \in SPC : CcLookup(v, q) = CcLookup(t, q)
  BY <1>2, Zenon DEF Live, CcLookup
<1>4. TableMatches(v)
  <2>1. TableMatches(t) /\ \A i \in Live(t) : t.blocks[i].spc \in SPC
    BY Zenon DEF TInv, GoodCode, CodeMatches, Live
  <2> QED
    BY <1>2, <1>3, <2>1, Zenon DEF TableMatches
<1>5. TInv(v)
  <2>1. Owned(v)
    BY <1>2, <1>3, ZenonT(40) DEF TInv, Owned
  <2>2. Records(v)
    BY <1>2, <1>3 DEF TInv, Records, Recorded, LinksIn, LinksTo
  <2> QED
    BY <1>1, <1>2, <1>3, <1>4, <2>1, <2>2, Zenon DEF TInv
<1>6. CASE CcLookup(v, s) # NoBlock
  BY <1>2, <1>3, <1>5, <1>6, Zenon DEF LookupOrScan, v
<1>7. CASE CcLookup(v, s) = NoBlock
  <2>1. u = Scan(v, s)
    BY <1>7, Zenon DEF LookupOrScan
  <2>2. /\ TInv(Scan(v, s)) /\ CcLookup(Scan(v, s), s) # NoBlock
        /\ Scan(v, s).fault = v.fault
        /\ ~ Scan(v, s).was_flushed => \A j \in Live(v) :
             /\ j \in Live(Scan(v, s))
             /\ Scan(v, s).blocks[j] = v.blocks[j]
             /\ Scan(v, s).meta[j] = v.meta[j]
    BY <1>5, <1>7, ScanInv, Zenon
  <2> QED
    BY <2>1, <2>2, <1>2, <1>3, Zenon DEF v
<1> QED
  BY <1>6, <1>7, Zenon

-----------------------------------------------------------------------------
(* Linking *)


\* The branches there can be in the cache: a block and one of its slots.
Branches == BlockId \X {1, 2}

\* record_cc_link() touches the link records and nothing that execution reads.
LEMMA RecordCcLinkFacts ==
  ASSUME NEW t \in ThreadType, NEW from \in Branches, NEW to \in BlockId
  PROVE  LET r == RecordCcLink(t, from, to) IN
         /\ r \in ThreadType
         /\ r.free_block = t.free_block /\ r.was_flushed = t.was_flushed
         /\ r.entry_address = t.entry_address /\ r.blocks = t.blocks
         /\ t.fault # "allocate_bb_overflow" => r.fault # "allocate_bb_overflow"
         /\ t.cc_links = MAX_CC_LINKS => r.fault = "record_cc_link"
         /\ t.cc_links # MAX_CC_LINKS =>
              /\ r.fault = t.fault /\ r.cc_links = t.cc_links + 1
              /\ r.meta[to].linked_from = t.meta[to].linked_from \cup {from}
              /\ \A j \in BlockId \ {to} : r.meta[j].linked_from = t.meta[j].linked_from
         /\ \A j \in BlockId :
              /\ r.meta[j].source_addr = t.meta[j].source_addr
              /\ r.meta[j].actual_id = t.meta[j].actual_id
              /\ r.meta[j].exit_branch_type = t.meta[j].exit_branch_type
              /\ r.meta[j].branch_taken_addr = t.meta[j].branch_taken_addr
              /\ r.meta[j].branch_skipped_addr = t.meta[j].branch_skipped_addr
              /\ r.meta[j].branch_cache_status = t.meta[j].branch_cache_status
<1> DEFINE r == RecordCcLink(t, from, to)
<1>1. CASE t.cc_links = MAX_CC_LINKS
  <2>1. r = [t EXCEPT !.fault = "record_cc_link"]
    BY <1>1, Zenon DEF RecordCcLink
  <2> QED
    BY <1>1, <2>1, Zenon DEF ThreadType
<1>2. CASE t.cc_links # MAX_CC_LINKS
  <2> DEFINE x == [t.meta[to] EXCEPT !.linked_from = @ \cup {from}]
             meta == [t.meta EXCEPT ![to] = x]
  <2>1. t.meta \in [BlockId -> MetaType] /\ t.meta[to] \in MetaType
    BY Zenon DEF ThreadType
  <2>2. r = [t EXCEPT !.cc_links = @ + 1, !.meta = meta]
    BY <1>2, Zenon DEF RecordCcLink, ThreadType
  <2>3. /\ x \in MetaType
        /\ x.linked_from = t.meta[to].linked_from \cup {from}
        /\ x.source_addr = t.meta[to].source_addr
        /\ x.actual_id = t.meta[to].actual_id
        /\ x.exit_branch_type = t.meta[to].exit_branch_type
        /\ x.branch_taken_addr = t.meta[to].branch_taken_addr
        /\ x.branch_skipped_addr = t.meta[to].branch_skipped_addr
        /\ x.branch_cache_status = t.meta[to].branch_cache_status
    BY <2>1, Zenon DEF MetaType, Branches
  <2> HIDE DEF x
  <2>4. meta \in [BlockId -> MetaType]
    BY <2>1, <2>3, Zenon
  <2>5. t.cc_links + 1 \in 0 .. MAX_CC_LINKS
    BY <1>2, SizeAssumption DEF ThreadType
  <2>6. \A j \in BlockId : meta[j] = IF j = to THEN x ELSE t.meta[j]
    BY <2>1, Zenon
  <2> HIDE DEF meta
  <2>7. r \in ThreadType
    BY <2>2, <2>4, <2>5, ZenonT(30) DEF ThreadType
  <2>8. /\ r.free_block = t.free_block /\ r.was_flushed = t.was_flushed
        /\ r.entry_address = t.entry_address /\ r.blocks = t.blocks
        /\ r.fault = t.fault /\ r.meta = meta /\ r.cc_links = t.cc_links + 1
    BY <2>2, Zenon DEF ThreadType
  <2> QED
    BY <1>2, <2>3, <2>6, <2>7, <2>8, Zenon
<1> QED
  BY <1>1, <1>2, Zenon

\* w differs from t only in the branches of the exit of block i, the link flags
\* of block i and the link records.
SameButExit(t, w, i) ==
  /\ w \in ThreadType
  /\ w.free_block = t.free_block
  /\ w.was_flushed = t.was_flushed
  /\ w.entry_address = t.entry_address
  /\ t.fault # "allocate_bb_overflow" => w.fault # "allocate_bb_overflow"
  /\ \A j \in BlockId :
       /\ j # i => w.blocks[j] = t.blocks[j]
       /\ w.blocks[j].head = t.blocks[j].head
       /\ w.blocks[j].spc = t.blocks[j].spc
       /\ w.blocks[j].exit = t.blocks[j].exit
       /\ w.blocks[j].taken = t.blocks[j].taken
       /\ w.blocks[j].skipped = t.blocks[j].skipped
       /\ w.blocks[j].fresh = t.blocks[j].fresh
       /\ w.meta[j].source_addr = t.meta[j].source_addr
       /\ w.meta[j].actual_id = t.meta[j].actual_id
       /\ w.meta[j].exit_branch_type = t.meta[j].exit_branch_type
       /\ w.meta[j].branch_taken_addr = t.meta[j].branch_taken_addr
       /\ w.meta[j].branch_skipped_addr = t.meta[j].branch_skipped_addr
       /\ j # i => w.meta[j].branch_cache_status = t.meta[j].branch_cache_status

\* There are two link records for each block that fragments can take.
PoolIsLarge == MAX_CC_LINKS >= 2 * (CODE_CACHE_SIZE - trampolines_size_bbs)

\* From t to r the branch to block `to' has been written into slot k of block i.
Written(t, r, i, k, to) ==
  /\ SameButExit(t, r, i)
  /\ r.blocks[i].on = t.blocks[i].on
  /\ r.blocks[i].slot[k] = to
  /\ \A h \in {1, 2} \ {k} : r.blocks[i].slot[h] = t.blocks[i].slot[h]

\* Between t and w, no branch in the exit of block i is rewritten, and links are
\* recorded as they are made, which cannot fail if the pool is large.
KeepsLinks(t, w, i) ==
  /\ \A k \in {1, 2} : t.blocks[i].slot[k] # NoBlock =>
       w.blocks[i].slot[k] = t.blocks[i].slot[k]
  /\ Records(t) => Records(w)
  /\ PoolIsLarge /\ Records(t) /\ t.fault = "none" => w.fault = "none"

\* Two changes that keep the links keep them together.
LEMMA KeepsLinksTrans ==
  ASSUME NEW t, NEW v, NEW w, NEW i, KeepsLinks(t, v, i), KeepsLinks(v, w, i)
  PROVE  KeepsLinks(t, w, i)
BY Zenon DEF KeepsLinks

\* A step that writes no branch and no record.
LEMMA NoLinkKeepsLinks ==
  ASSUME NEW t, NEW w, NEW i, SameButExit(t, w, i), w.blocks[i].slot = t.blocks[i].slot,
         \A j \in BlockId : w.meta[j].linked_from = t.meta[j].linked_from,
         w.cc_links = t.cc_links, w.fault = t.fault
  PROVE  KeepsLinks(t, w, i)
<1>1. Live(w) = Live(t) /\ Live(t) \subseteq BlockId
  BY Zenon DEF SameButExit, Live, Fragments
<1>2. \A j \in Live(t) : w.blocks[j].slot = t.blocks[j].slot
  BY <1>1, Zenon DEF SameButExit
<1>3. LinksIn(w) = LinksIn(t) /\ \A j : LinksTo(w, j) = LinksTo(t, j)
  BY <1>1, <1>2, Zenon DEF LinksIn, LinksTo
<1>4. Recorded(t) => Recorded(w)
  BY <1>1, <1>2, <1>3, Zenon DEF Recorded
<1> QED
  BY <1>4, Zenon DEF KeepsLinks, Records

\* a64_cc_branch() writes one slot.
LEMMA A64CcBranchFacts ==
  ASSUME NEW t \in ThreadType, NEW i \in BlockId, NEW k \in {1, 2}, NEW to \in BlockId
  PROVE  LET r == A64CcBranch(t, i, k, to) IN
         /\ SameButExit(t, r, i)
         /\ r.blocks[i].on = t.blocks[i].on
         /\ r.blocks[i].slot[k] = to
         /\ \A h \in {1, 2} \ {k} : r.blocks[i].slot[h] = t.blocks[i].slot[h]
         /\ r.meta[i].branch_cache_status = t.meta[i].branch_cache_status
         /\ t.cc_links = MAX_CC_LINKS => r.fault = "record_cc_link"
         /\ t.cc_links # MAX_CC_LINKS =>
              /\ r.fault = t.fault /\ r.cc_links = t.cc_links + 1
              /\ r.meta[to].linked_from = t.meta[to].linked_from \cup {<<i, k>>}
              /\ \A j \in BlockId \ {to} : r.meta[j].linked_from = t.meta[j].linked_from
<1> DEFINE b == t.blocks[i]
           x == [b EXCEPT !.slot = [b.slot EXCEPT ![k] = to]]
           v == [t EXCEPT !.blocks = [t.blocks EXCEPT ![i] = x]]
           branch == <<i, k>>
           r == RecordCcLink(v, branch, to)
<1>1. t.blocks \in [BlockId -> CodeType] /\ b \in CodeType
  BY Zenon DEF ThreadType
<1>2. b.slot \in [{1, 2} -> BlockId]
  BY <1>1, Zenon DEF CodeType
<1>3. A64CcBranch(t, i, k, to) = r
  <2>1. [t EXCEPT !.blocks[i].slot[k] = to] = v
    BY <1>1, <1>2, Zenon DEF ThreadType, CodeType
  <2> QED
    BY <2>1, Zenon DEF A64CcBranch
<1>4. /\ [b.slot EXCEPT ![k] = to] \in [{1, 2} -> BlockId]
      /\ [b.slot EXCEPT ![k] = to][k] = to
      /\ \A h \in {1, 2} \ {k} : [b.slot EXCEPT ![k] = to][h] = b.slot[h]
  BY <1>2, Zenon
<1>5. /\ x \in CodeType
      /\ x.head = b.head /\ x.spc = b.spc /\ x.exit = b.exit /\ x.taken = b.taken
      /\ x.skipped = b.skipped /\ x.on = b.on /\ x.fresh = b.fresh
      /\ x.slot = [b.slot EXCEPT ![k] = to]
  BY <1>1, <1>4, Zenon DEF CodeType
<1> HIDE DEF x
<1>6. /\ [t.blocks EXCEPT ![i] = x] \in [BlockId -> CodeType]
      /\ \A j \in BlockId : [t.blocks EXCEPT ![i] = x][j] = IF j = i THEN x ELSE t.blocks[j]
  BY <1>1, <1>5, Zenon
<1>7. /\ v \in ThreadType
      /\ v.free_block = t.free_block /\ v.was_flushed = t.was_flushed
      /\ v.entry_address = t.entry_address /\ v.fault = t.fault /\ v.meta = t.meta
      /\ v.blocks = [t.blocks EXCEPT ![i] = x] /\ v.cc_links = t.cc_links
  BY <1>6, Zenon DEF ThreadType
<1> HIDE DEF v
<1>8. branch \in Branches
  BY Zenon DEF Branches
<1> HIDE DEF branch
<1>9. /\ r \in ThreadType
      /\ r.free_block = v.free_block /\ r.was_flushed = v.was_flushed
      /\ r.entry_address = v.entry_address /\ r.blocks = v.blocks
      /\ v.fault # "allocate_bb_overflow" => r.fault # "allocate_bb_overflow"
      /\ v.cc_links = MAX_CC_LINKS => r.fault = "record_cc_link"
      /\ v.cc_links # MAX_CC_LINKS =>
           /\ r.fault = v.fault /\ r.cc_links = v.cc_links + 1
           /\ r.meta[to].linked_from = v.meta[to].linked_from \cup {branch}
           /\ \A j \in BlockId \ {to} : r.meta[j].linked_from = v.meta[j].linked_from
      /\ \A j \in BlockId :
           /\ r.meta[j].source_addr = v.meta[j].source_addr
           /\ r.meta[j].actual_id = v.meta[j].actual_id
           /\ r.meta[j].exit_branch_type = v.meta[j].exit_branch_type
           /\ r.meta[j].branch_taken_addr = v.meta[j].branch_taken_addr
           /\ r.meta[j].branch_skipped_addr = v.meta[j].branch_skipped_addr
           /\ r.meta[j].branch_cache_status = v.meta[j].branch_cache_status
  BY <1>7, <1>8, RecordCcLinkFacts, SMTT(30)
<1> HIDE DEF r
<1>10. SameButExit(t, r, i)
  BY <1>5, <1>6, <1>7, <1>9 DEF SameButExit
<1>11. /\ t.cc_links = MAX_CC_LINKS => r.fault = "record_cc_link"
       /\ t.cc_links # MAX_CC_LINKS =>
            /\ r.fault = t.fault /\ r.cc_links = t.cc_links + 1
            /\ r.meta[to].linked_from = t.meta[to].linked_from \cup {<<i, k>>}
            /\ \A j \in BlockId \ {to} : r.meta[j].linked_from = t.meta[j].linked_from
  BY <1>7, <1>9, Zenon DEF branch
<1> HIDE DEF r
<1>12. /\ r.blocks[i].on = t.blocks[i].on
       /\ r.blocks[i].slot[k] = to
       /\ \A h \in {1, 2} \ {k} : r.blocks[i].slot[h] = t.blocks[i].slot[h]
       /\ r.meta[i].branch_cache_status = t.meta[i].branch_cache_status
  BY <1>4, <1>5, <1>6, <1>7, <1>9
<1> QED
  BY <1>3, <1>10, <1>11, <1>12, Zenon

\* What A64CcBranchFacts says, under one name.
LEMMA A64CcBranchWrites ==
  ASSUME NEW t \in ThreadType, NEW i \in BlockId, NEW k \in {1, 2}, NEW to \in BlockId
  PROVE  Written(t, A64CcBranch(t, i, k, to), i, k, to)
BY A64CcBranchFacts, SMTT(30) DEF Written

\* It records the link, if the slot was empty and leads to a live fragment.
LEMMA A64CcBranchKeepsLinks ==
  ASSUME NEW t \in ThreadType, NEW i \in Live(t), NEW k \in {1, 2}, NEW to \in Live(t),
         t.blocks[i].slot[k] = NoBlock
  PROVE  KeepsLinks(t, A64CcBranch(t, i, k, to), i)
<1> DEFINE r == A64CcBranch(t, i, k, to)
           l == <<i, k>>
<1>1. Live(t) \subseteq BlockId /\ NoBlock \notin Live(t)
  BY SizeAssumption DEF Live, Fragments, BlockId, NoBlock
<1>2. /\ SameButExit(t, r, i) /\ r.blocks[i].slot[k] = to
      /\ \A h \in {1, 2} \ {k} : r.blocks[i].slot[h] = t.blocks[i].slot[h]
      /\ t.cc_links = MAX_CC_LINKS => r.fault = "record_cc_link"
      /\ t.cc_links # MAX_CC_LINKS =>
           /\ r.fault = t.fault /\ r.cc_links = t.cc_links + 1
           /\ r.meta[to].linked_from = t.meta[to].linked_from \cup {l}
           /\ \A j \in BlockId \ {to} : r.meta[j].linked_from = t.meta[j].linked_from
  <2>1. i \in BlockId /\ to \in BlockId
    BY <1>1, Zenon
  <2> QED
    BY ONLY <2>1, t \in ThreadType, k \in {1, 2}, A64CcBranchFacts, SMTT(30)
<1> HIDE DEF r
<1>3. Live(r) = Live(t)
  BY <1>2, ZenonT(40) DEF SameButExit, Live, Fragments
<1>4. \A j \in Live(t) : \A h \in {1, 2} : ~ (j = i /\ h = k) =>
        r.blocks[j].slot[h] = t.blocks[j].slot[h]
  BY <1>1, <1>2 DEF SameButExit
<1>5. LinksIn(r) = LinksIn(t) \cup {l} /\ l \notin LinksIn(t)
  BY <1>1, <1>2, <1>3, <1>4, SMTT(30) DEF LinksIn
<1>6. LinksTo(r, to) = LinksTo(t, to) \cup {l}
      /\ \A j \in BlockId \ {to, NoBlock} : LinksTo(r, j) = LinksTo(t, j)
  BY <1>1, <1>2, <1>3, <1>4, SMTT(30) DEF LinksTo
<1>7. /\ IsFiniteSet(LinksIn(t)) /\ Cardinality(LinksIn(r)) = Cardinality(LinksIn(t)) + 1
      /\ Cardinality(LinksIn(t)) \in Nat
      /\ Cardinality(LinksIn(r)) <= 2 * (CODE_CACHE_SIZE - trampolines_size_bbs)
  <2> DEFINE places == (trampolines_size_bbs .. CODE_CACHE_SIZE - 1) \X (1 .. 2)
  <2>1. IsFiniteSet(trampolines_size_bbs .. CODE_CACHE_SIZE - 1)
        /\ Cardinality(trampolines_size_bbs .. CODE_CACHE_SIZE - 1)
             = CODE_CACHE_SIZE - trampolines_size_bbs
    <3> DEFINE a == trampolines_size_bbs
               b == CODE_CACHE_SIZE - 1
    <3>1. a \in Int /\ b \in Int /\ ~ (a > b) /\ b - a + 1 = CODE_CACHE_SIZE - a
      BY SizeAssumption
    <3> HIDE DEF a, b
    <3>2. IsFiniteSet(a .. b) /\ Cardinality(a .. b) = IF a > b THEN 0 ELSE b - a + 1
      BY <3>1, FS_Interval, Zenon
    <3> QED
      BY <3>1, <3>2, Zenon DEF a, b
  <2>2. IsFiniteSet(1 .. 2) /\ Cardinality(1 .. 2) = 2
    <3>1. 1 \in Int /\ 2 \in Int /\ ~ (1 > 2) /\ 2 - 1 + 1 = 2
      OBVIOUS
    <3>2. IsFiniteSet(1 .. 2) /\ Cardinality(1 .. 2) = IF 1 > 2 THEN 0 ELSE 2 - 1 + 1
      BY <3>1, FS_Interval, Zenon
    <3> QED
      BY <3>1, <3>2, Zenon
  <2>3. IsFiniteSet(places)
        /\ Cardinality(places) = (CODE_CACHE_SIZE - trampolines_size_bbs) * 2
    <3>1. /\ IsFiniteSet(places)
          /\ Cardinality(places) = Cardinality(trampolines_size_bbs .. CODE_CACHE_SIZE - 1) * Cardinality(1 .. 2)
      BY <2>1, <2>2, FS_Product, Zenon
    <3> QED
      BY <3>1, <2>1, <2>2, Zenon
  <2>4. LinksIn(t) \in SUBSET places /\ LinksIn(r) \in SUBSET places
    BY <1>3, SizeAssumption DEF LinksIn, Live, Fragments, BlockId
  <2> HIDE DEF places
  <2>5. IsFiniteSet(LinksIn(t)) /\ Cardinality(LinksIn(r)) <= Cardinality(places)
    BY <2>3, <2>4, FS_Subset, Zenon
  <2>6. Cardinality(LinksIn(t)) \in Nat
    BY <2>5, FS_CardinalityType, Zenon
  <2>7. Cardinality(LinksIn(r)) = Cardinality(LinksIn(t)) + 1
    BY <1>5, <2>5, FS_AddElement, Zenon
  <2> QED
    BY <2>3, <2>5, <2>6, <2>7, SizeAssumption
<1>8. ASSUME Recorded(t), t.cc_links # MAX_CC_LINKS PROVE Recorded(r)
  <2>1. \A j \in Live(r) : \A h \in {1, 2} : r.blocks[j].slot[h] \in Live(r) \cup {NoBlock}
    BY <1>2, <1>3, <1>4, <1>8 DEF Recorded
  <2>2. \A j \in BlockId \ {NoBlock} : r.meta[j].linked_from = LinksTo(r, j)
    <3> SUFFICES ASSUME NEW j \in BlockId \ {NoBlock}
                 PROVE  r.meta[j].linked_from = LinksTo(r, j)
      OBVIOUS
    <3>1. t.meta[j].linked_from = LinksTo(t, j)
      BY <1>8, Zenon DEF Recorded
    <3>2. CASE j = to
      BY <3>1, <3>2, <1>2, <1>6, <1>8, Zenon
    <3>3. CASE j # to
      BY <3>1, <3>3, <1>1, <1>2, <1>6, <1>8, Zenon
    <3> QED
      BY <3>2, <3>3, Zenon
  <2>3. r.cc_links = Cardinality(LinksIn(r))
    BY <1>2, <1>7, <1>8, Zenon DEF Recorded
  <2> QED
    BY <2>1, <2>2, <2>3, Zenon DEF Recorded
<1>9. Records(t) => Records(r)
  BY <1>2, <1>8, Zenon DEF Records
<1>10. PoolIsLarge /\ Records(t) /\ t.fault = "none" => r.fault = "none"
  <2> SUFFICES ASSUME PoolIsLarge, Recorded(t) PROVE t.cc_links # MAX_CC_LINKS
    BY <1>2, Zenon DEF Records
  <2> QED
    BY <1>7, SizeAssumption DEF PoolIsLarge, Recorded
<1>11. \A h \in {1, 2} : t.blocks[i].slot[h] # NoBlock =>
         r.blocks[i].slot[h] = t.blocks[i].slot[h]
  BY <1>4, Zenon
<1> QED
  BY <1>9, <1>10, <1>11, Zenon DEF KeepsLinks, r

\* The conditional branch in front of slot 1 is written.
LEMMA CondFacts ==
  ASSUME NEW t \in ThreadType, NEW i \in BlockId, NEW o \in {"taken", "skipped"}
  PROVE  LET r == [t EXCEPT !.blocks[i].on = o] IN
         /\ SameButExit(t, r, i)
         /\ r.blocks[i].on = o
         /\ r.blocks[i].slot = t.blocks[i].slot
         /\ r.meta[i].branch_cache_status = t.meta[i].branch_cache_status
         /\ KeepsLinks(t, r, i)
<1> DEFINE b == t.blocks[i]
           x == [b EXCEPT !.on = o]
           r == [t EXCEPT !.blocks = [t.blocks EXCEPT ![i] = x]]
<1>1. t.blocks \in [BlockId -> CodeType] /\ b \in CodeType
  BY Zenon DEF ThreadType
<1>2. [t EXCEPT !.blocks[i].on = o] = r
  BY <1>1, Zenon DEF ThreadType
<1>3. /\ x \in CodeType
      /\ x.head = b.head /\ x.spc = b.spc /\ x.exit = b.exit /\ x.taken = b.taken
      /\ x.skipped = b.skipped /\ x.on = o /\ x.slot = b.slot /\ x.fresh = b.fresh
  BY <1>1, Zenon DEF CodeType
<1> HIDE DEF x
<1>4. /\ [t.blocks EXCEPT ![i] = x] \in [BlockId -> CodeType]
      /\ \A j \in BlockId : [t.blocks EXCEPT ![i] = x][j] = IF j = i THEN x ELSE t.blocks[j]
  BY <1>1, <1>3, Zenon
<1>5. /\ r \in ThreadType
      /\ r.free_block = t.free_block /\ r.was_flushed = t.was_flushed
      /\ r.entry_address = t.entry_address /\ r.fault = t.fault /\ r.meta = t.meta
      /\ r.cc_links = t.cc_links /\ r.blocks = [t.blocks EXCEPT ![i] = x]
  BY <1>4, Zenon DEF ThreadType
<1> HIDE DEF r
<1>6. SameButExit(t, r, i) /\ r.blocks[i] = x
  BY <1>3, <1>4, <1>5, Zenon DEF SameButExit
<1>7. KeepsLinks(t, r, i)
  BY <1>3, <1>5, <1>6, NoLinkKeepsLinks, Zenon
<1> QED
  BY <1>2, <1>3, <1>5, <1>6, <1>7, Zenon

\* The link flags are set.
LEMMA FlagsFacts ==
  ASSUME NEW t \in ThreadType, NEW i \in BlockId, NEW flags \in SUBSET LinkFlags
  PROVE  LET r == [t EXCEPT !.meta[i].branch_cache_status = flags] IN
         /\ SameButExit(t, r, i)
         /\ r.blocks = t.blocks
         /\ r.meta[i].branch_cache_status = flags
         /\ KeepsLinks(t, r, i)
<1> DEFINE m == t.meta[i]
           x == [m EXCEPT !.branch_cache_status = flags]
           r == [t EXCEPT !.meta = [t.meta EXCEPT ![i] = x]]
<1>1. t.meta \in [BlockId -> MetaType] /\ m \in MetaType
  BY Zenon DEF ThreadType
<1>2. [t EXCEPT !.meta[i].branch_cache_status = flags] = r
  BY <1>1, Zenon DEF ThreadType
<1>3. /\ x \in MetaType
      /\ x.exit_branch_type = m.exit_branch_type
      /\ x.branch_taken_addr = m.branch_taken_addr
      /\ x.branch_skipped_addr = m.branch_skipped_addr
      /\ x.branch_cache_status = flags /\ x.linked_from = m.linked_from
      /\ x.source_addr = m.source_addr /\ x.actual_id = m.actual_id
  BY <1>1, Zenon DEF MetaType
<1> HIDE DEF x
<1>4. /\ [t.meta EXCEPT ![i] = x] \in [BlockId -> MetaType]
      /\ \A j \in BlockId : [t.meta EXCEPT ![i] = x][j] = IF j = i THEN x ELSE t.meta[j]
  BY <1>1, <1>3, Zenon
<1>5. /\ r \in ThreadType
      /\ r.free_block = t.free_block /\ r.was_flushed = t.was_flushed
      /\ r.entry_address = t.entry_address /\ r.fault = t.fault
      /\ r.cc_links = t.cc_links /\ r.blocks = t.blocks /\ r.meta = [t.meta EXCEPT ![i] = x]
  BY <1>4, Zenon DEF ThreadType
<1> HIDE DEF r
<1>6. SameButExit(t, r, i)
  BY <1>3, <1>4, <1>5, Zenon DEF SameButExit
<1>7. KeepsLinks(t, r, i)
  <2>1. \A j \in BlockId : r.meta[j].linked_from = t.meta[j].linked_from
    BY <1>3, <1>4, <1>5, Zenon
  <2> QED
    BY <2>1, <1>5, <1>6, NoLinkKeepsLinks, Zenon
<1> QED
  BY <1>2, <1>3, <1>4, <1>5, <1>6, <1>7, Zenon

\* Two changes of the same exit are a change of that exit.
LEMMA SameButExitTrans ==
  ASSUME NEW t, NEW v, NEW w, NEW i, SameButExit(t, v, i), SameButExit(v, w, i)
  PROVE  SameButExit(t, w, i)
BY SMTT(30) DEF SameButExit

\* The branches of the exit of block i of w lead to live blocks of t that hold
\* what the exit branches to.
ExitLeads(t, w, i) ==
  \A o \in Reach(t.blocks[i]) :
    LET to == w.blocks[i].slot[SlotFor(w.blocks[i], o)]
    IN  to # NoBlock => to \in Live(t) /\ t.blocks[to].spc = t.blocks[i][o]

\* The exit of block i through o is not linked, and its target has been scanned.
Linkable(t, i, o) ==
  /\ t.blocks[i].slot[SlotFor(t.blocks[i], o)] = NoBlock
  /\ CcLookup(t, t.blocks[i][o]) # NoBlock

\* Writing branches that lead where they should, with flags that say so, keeps
\* the invariant.
LEMMA LinkInv ==
  ASSUME NEW t, TInv(t), NEW i \in Live(t), NEW w, SameButExit(t, w, i),
         MetaMatches(w.meta[i], w.blocks[i]), ExitLeads(t, w, i), Records(w)
  PROVE  TInv(w) /\ Live(w) = Live(t)
<1>1. Live(w) = Live(t)
  BY Zenon DEF SameButExit, Live, Fragments
<1>2. Live(t) \subseteq BlockId
  BY Zenon DEF Live, Fragments
<1>3. /\ TableMatches(t) /\ GoodCode(t.blocks, t.free_block)
      /\ \A j \in Live(t) : t.blocks[j].spc \in SPC
      /\ \A j \in Live(t) : MetaMatches(t.meta[j], t.blocks[j])
  BY Zenon DEF TInv, GoodCode, CodeMatches, Live
<1>4. TableMatches(w)
  <2>1. \A s \in SPC : CcLookup(w, s) = CcLookup(t, s)
    BY Zenon DEF SameButExit, CcLookup
  <2>2. \A j \in Live(t) : w.blocks[j].spc = t.blocks[j].spc
    BY <1>2, Zenon DEF SameButExit
  <2> QED
    BY <1>1, <1>2, <1>3, <2>1, <2>2, Zenon DEF TableMatches
<1>5. BranchesLead(w.blocks, w.free_block)
  <2> SUFFICES ASSUME NEW j \in Live(t), NEW o \in Reach(w.blocks[j]),
                      w.blocks[j].slot[SlotFor(w.blocks[j], o)] # NoBlock
               PROVE  LET to == w.blocks[j].slot[SlotFor(w.blocks[j], o)] IN
                      to \in Live(t) /\ w.blocks[to].spc = w.blocks[j][o]
    BY <1>1, Zenon DEF BranchesLead, Live
  <2> DEFINE to == w.blocks[j].slot[SlotFor(w.blocks[j], o)]
  <2>1. o \in Reach(t.blocks[j]) /\ o \in {"taken", "skipped"}
    BY <1>2, Zenon DEF Reach, SameButExit
  <2>2. w.blocks[j][o] = t.blocks[j][o]
    BY <1>2, <2>1, ZenonT(40) DEF SameButExit
  <2>3. to \in Live(t) /\ t.blocks[to].spc = t.blocks[j][o]
    <3>1. CASE j = i
      BY <3>1, <2>1, Zenon DEF ExitLeads
    <3>2. CASE j # i
      <4>1. w.blocks[j] = t.blocks[j]
        BY <3>2, <1>2, Zenon DEF SameButExit
      <4> QED
        BY <4>1, <2>1, <1>3, ZenonT(40) DEF GoodCode, BranchesLead, Live
    <3> QED
      BY ONLY <3>1, <3>2, ZenonT(30)
  <2>4. w.blocks[to].spc = t.blocks[to].spc
    BY <2>3, <1>2, ZenonT(30) DEF SameButExit
  <2> QED
    BY <2>2, <2>3, <2>4, ZenonT(30)
<1>6. \A j \in Live(w) : CodeMatches(w.blocks[j])
  <2> SUFFICES ASSUME NEW j \in Live(t) PROVE CodeMatches(w.blocks[j])
    BY <1>1, Zenon
  <2>1. CodeMatches(t.blocks[j])
    BY <1>3, Zenon DEF GoodCode, Live
  <2> QED
    BY <2>1, <1>2, Zenon DEF CodeMatches, SameButExit
<1>7. \A j \in Live(w) : MetaMatches(w.meta[j], w.blocks[j])
  <2> SUFFICES ASSUME NEW j \in Live(t), j # i PROVE MetaMatches(w.meta[j], w.blocks[j])
    BY <1>1, Zenon
  <2>1. MetaMatches(t.meta[j], t.blocks[j]) /\ j \in BlockId
    BY <1>2, <1>3, Zenon
  <2> QED
    BY <2>1, Zenon DEF MetaMatches, SameButExit
<1>8. \A j \in BlockId : w.free_block <= j => Fresh(w.meta[j])
  <2>1. t.free_block \in Int /\ i < t.free_block /\ i \in Int
    BY SMTT(30) DEF TInv, ThreadType, Live, Fragments, BlockId
  <2>2. \A j \in BlockId : t.free_block <= j => j # i
    BY <2>1, SMTT(30) DEF BlockId
  <2> QED
    BY <2>2, ZenonT(40) DEF TInv, Fresh, SameButExit
<1>9. GoodCode(w.blocks, w.free_block)
  BY <1>5, <1>6, Zenon DEF GoodCode, Live
<1>10. Owned(w)
  <2>1. Owned(t)
    BY Zenon DEF TInv
  <2> QED
    BY <2>1, <1>1 DEF Owned, SameButExit
<1> QED
  BY <1>1, <1>4, <1>7, <1>8, <1>9, <1>10, Zenon DEF TInv, SameButExit

\* dispatcher_aarch64() links the exit of a live fragment through which the
\* program goes to target.
LEMMA DispatcherAarch64Inv ==
  ASSUME NEW t, TInv(t), NEW i \in Live(t), NEW o \in Reach(t.blocks[i]),
         Linkable(t, i, o)
  PROVE  LET target == t.blocks[i][o]
             w == DispatcherAarch64(t, i, t.meta[i].exit_branch_type, target,
                                    CcLookup(t, target))
         IN  /\ TInv(w) /\ Live(w) = Live(t)
             /\ SameButExit(t, w, i) /\ KeepsLinks(t, w, i)
<1> DEFINE b == t.blocks[i]
           m == t.meta[i]
           target == b[o]
           addr == CcLookup(t, target)
           w == DispatcherAarch64(t, i, m.exit_branch_type, target, addr)
           taken == target = m.branch_taken_addr
           way == IF taken THEN "taken" ELSE "skipped"
           other_addr == IF taken THEN m.branch_skipped_addr ELSE m.branch_taken_addr
           other == CcLookup(t, other_addr)
           cond == [t EXCEPT !.blocks[i].on = way]
           first == A64CcBranch(cond, i, 1, addr)
           mine == {IF taken THEN "BRANCH_LINKED" ELSE "FALLTHROUGH_LINKED"}
<1>1. /\ t \in ThreadType /\ i \in BlockId
      /\ m.exit_branch_type = b.exit /\ MetaMatches(m, b)
      /\ CodeMatches(b) /\ TableMatches(t) /\ Records(t)
  <2>1. i \in BlockId
    BY Zenon DEF Live, Fragments
  <2> QED
    BY <2>1, Zenon DEF TInv, Live, GoodCode, MetaMatches
<1>2. /\ b.taken \in SPC /\ b.skipped \in SPC /\ b.exit \in BranchTypes
      /\ o \in {"taken", "skipped"} /\ target \in SPC
  BY <1>1, ProgAssumption, Zenon DEF CodeMatches, ProgType, Reach
<1>3. /\ addr \in Live(t) /\ t.blocks[addr].spc = target
      /\ addr # NoBlock /\ addr \in BlockId
  BY <1>1, <1>2, Zenon DEF TableMatches, Live, Fragments, Linkable
<1>4. CASE b.exit = "uncond_imm_a64"
  <2> DEFINE c == A64CcBranch(t, i, 1, addr)
  <2>1. w = [c EXCEPT !.meta[i].branch_cache_status = {"BRANCH_LINKED"}]
    BY <1>1, <1>4, Zenon DEF DispatcherAarch64, CondTypes
  <2>2. /\ SameButExit(t, c, i) /\ c.blocks[i].slot[1] = addr
        /\ KeepsLinks(t, c, i)
    <3>1. b.slot[1] = NoBlock /\ 1 \in {1, 2}
      BY <1>4, Zenon DEF Linkable, SlotFor, CondTypes
    <3> QED
      <4>1. Written(t, c, i, 1, addr)
        BY <3>1, <1>1, <1>3, A64CcBranchWrites, Zenon
      <4>2. KeepsLinks(t, c, i)
        BY <3>1, <1>1, <1>3, A64CcBranchKeepsLinks, Zenon
      <4> QED
        BY <4>1, <4>2, Zenon DEF Written
  <2> HIDE DEF c
  <2>3. /\ SameButExit(c, w, i) /\ w.blocks = c.blocks /\ KeepsLinks(c, w, i)
    <3>1. c \in ThreadType
      BY <2>2, Zenon DEF SameButExit
    <3>2. {"BRANCH_LINKED"} \in SUBSET LinkFlags
      BY Zenon DEF LinkFlags
    <3> QED
      BY <3>1, <3>2, <2>1, <1>1, FlagsFacts, SMTT(30)
  <2> HIDE DEF w
  <2>4. /\ SameButExit(t, w, i) /\ w.blocks[i].slot[1] = addr
        /\ KeepsLinks(t, w, i) /\ Records(w)
    <3>1. SameButExit(t, w, i) /\ w.blocks[i].slot[1] = addr
      BY <2>2, <2>3, SameButExitTrans, Zenon
    <3>2. KeepsLinks(t, w, i)
      BY <2>2, <2>3, KeepsLinksTrans, Zenon
    <3> QED
      BY <3>1, <3>2, <1>1, Zenon DEF KeepsLinks
  <2>5. w.blocks[i].exit = "uncond_imm_a64" /\ b.exit \notin CondTypes
        /\ w.blocks[i].exit \notin CondTypes /\ w.meta[i].exit_branch_type = w.blocks[i].exit
    BY <2>4, <1>1, <1>4, Zenon DEF SameButExit, CondTypes
  <2>6. MetaMatches(w.meta[i], w.blocks[i])
    BY <1>1, <2>4, <2>5, Zenon DEF MetaMatches, SameButExit
  <2>7. Reach(b) = {"taken"} /\ \A p \in Reach(b) : SlotFor(w.blocks[i], p) = 1
    BY <2>5, Zenon DEF Reach, SlotFor
  <2>8. TInv(w) /\ Live(w) = Live(t)
    <3>1. ExitLeads(t, w, i)
      BY <2>4, <2>7, <1>3, Zenon DEF ExitLeads
    <3> QED
      BY <3>1, <2>4, <2>6, LinkInv, Zenon
  <2> QED
    BY <2>4, <2>8, Zenon DEF w
<1>5. CASE b.exit \in CondTypes /\ m.branch_cache_status = {}
  <2>1. /\ m.branch_taken_addr = b.taken /\ m.branch_skipped_addr = b.skipped
        /\ b.on = "none" /\ b.slot[1] = NoBlock /\ b.slot[2] = NoBlock
    BY <1>1, <1>5, Zenon DEF MetaMatches, LinkStatus
  <2>2. way \in {"taken", "skipped"} /\ b[way] = target
    BY <2>1, <1>2, Zenon
  <2>3. \A p \in {"taken", "skipped"} : p # way => b[p] = other_addr
    BY <2>1, Zenon
  <2>4. other_addr \in SPC
    BY <2>1, <1>2, Zenon
  <2> HIDE DEF way, taken, other_addr, other, target, addr
  <2>5. /\ SameButExit(t, cond, i) /\ cond.blocks[i].on = way
        /\ cond.blocks[i].slot = b.slot /\ KeepsLinks(t, cond, i)
    <3>1. t \in ThreadType /\ i \in BlockId /\ way \in {"taken", "skipped"}
      BY <2>2, <1>1, Zenon
    <3> QED
      BY ONLY <3>1, CondFacts, ZenonT(30)
  <2> HIDE DEF cond
  <2>6. /\ SameButExit(cond, first, i) /\ first.blocks[i].on = way
        /\ first.blocks[i].slot[1] = addr /\ first.blocks[i].slot[2] = NoBlock
        /\ KeepsLinks(cond, first, i)
    <3>1. cond \in ThreadType
      BY <2>5, Zenon DEF SameButExit
    <3>2. 1 \in {1, 2} /\ 2 \in {1, 2} \ {1}
      BY SMTT(30)
    <3>3. /\ SameButExit(cond, first, i) /\ first.blocks[i].on = cond.blocks[i].on
          /\ first.blocks[i].slot[1] = addr
          /\ first.blocks[i].slot[2] = cond.blocks[i].slot[2]
      BY <3>1, <3>2, <1>1, <1>3, A64CcBranchFacts, SMTT(30)
    <3>4. i \in Live(cond) /\ addr \in Live(cond)
      BY <2>5, <1>3, Zenon DEF SameButExit, Live, Fragments
    <3>5. cond.blocks[i].slot[1] = NoBlock
      BY <2>1, <2>5, Zenon
    <3>6. KeepsLinks(cond, first, i)
      BY ONLY <3>1, <3>2, <3>4, <3>5, A64CcBranchKeepsLinks, Zenon DEF first
    <3> QED
      BY <3>3, <3>6, <2>1, <2>5, Zenon
  <2> HIDE DEF first
  <2>7. SameButExit(t, first, i) /\ first \in ThreadType /\ KeepsLinks(t, first, i)
    <3>1. SameButExit(t, first, i)
      BY <2>5, <2>6, SameButExitTrans, Zenon
    <3>2. KeepsLinks(t, first, i)
      BY <2>5, <2>6, KeepsLinksTrans, Zenon
    <3> QED
      BY <3>1, <3>2, Zenon DEF SameButExit
  <2>8. ASSUME NEW c, SameButExit(t, c, i), c.blocks[i].on = way,
               c.blocks[i].slot[1] = addr,
               c.blocks[i].slot[2] # NoBlock => c.blocks[i].slot[2] = other,
               KeepsLinks(t, c, i),
               NEW flags \in SUBSET LinkFlags, flags = LinkStatus(c.blocks[i])
        PROVE  LET v == [c EXCEPT !.meta[i].branch_cache_status = flags]
               IN  /\ TInv(v) /\ Live(v) = Live(t)
                   /\ SameButExit(t, v, i) /\ KeepsLinks(t, v, i)
    <3> DEFINE v == [c EXCEPT !.meta[i].branch_cache_status = flags]
    <3>1. /\ SameButExit(c, v, i) /\ v.blocks = c.blocks
          /\ v.meta[i].branch_cache_status = flags /\ KeepsLinks(c, v, i)
      <4>1. c \in ThreadType /\ i \in BlockId /\ flags \in SUBSET LinkFlags
        BY <2>8, <1>1, Zenon DEF SameButExit
      <4> QED
        BY ONLY <4>1, FlagsFacts, SMTT(30)
    <3> HIDE DEF v
    <3>2. SameButExit(t, v, i) /\ KeepsLinks(t, v, i) /\ Records(v)
      <4>1. SameButExit(t, v, i)
        BY <3>1, <2>8, SameButExitTrans, Zenon
      <4>2. KeepsLinks(t, v, i)
        BY <3>1, <2>8, KeepsLinksTrans, Zenon
      <4> QED
        BY <4>1, <4>2, <1>1, Zenon DEF KeepsLinks
    <3>3. v.blocks[i].exit \in CondTypes
      BY <3>2, <1>1, <1>5, Zenon DEF SameButExit
    <3>4. MetaMatches(v.meta[i], v.blocks[i])
      <4>1. /\ v.meta[i].source_addr = v.blocks[i].spc
            /\ v.meta[i].exit_branch_type = v.blocks[i].exit
            /\ v.meta[i].branch_taken_addr = v.blocks[i].taken
            /\ v.meta[i].branch_skipped_addr = v.blocks[i].skipped
            /\ v.blocks[i].fresh = TRUE
        BY <3>2, <2>1, <1>1, Zenon DEF SameButExit, MetaMatches
      <4>2. v.blocks[i].on # "none" /\ v.blocks[i].slot[1] # NoBlock
        BY <3>1, <2>2, <2>8, <1>3, Zenon
      <4> QED
        BY <3>1, <4>1, <4>2, <2>8, Zenon DEF MetaMatches
    <3>5. ASSUME NEW p \in Reach(b),
                 v.blocks[i].slot[SlotFor(v.blocks[i], p)] # NoBlock
          PROVE  LET to == v.blocks[i].slot[SlotFor(v.blocks[i], p)]
                 IN  to \in Live(t) /\ t.blocks[to].spc = b[p]
      <4>1. p \in {"taken", "skipped"}
        BY <3>5, Zenon DEF Reach
      <4>2. CASE p = way
        <5>1. SlotFor(v.blocks[i], p) = 1
          BY <4>2, <3>1, <2>8, Zenon DEF SlotFor
        <5> QED
          BY <5>1, <4>2, <3>1, <2>2, <2>8, <1>3, Zenon
      <4>3. CASE p # way
        <5>1. SlotFor(v.blocks[i], p) = 2
          BY <4>3, <3>1, <3>3, <2>8, Zenon DEF SlotFor
        <5>2. v.blocks[i].slot[2] = other /\ other # NoBlock
          BY <5>1, <3>1, <3>5, <2>8, Zenon
        <5>3. other \in Live(t) /\ t.blocks[other].spc = other_addr
          BY <5>2, <2>4, <1>1, Zenon DEF TableMatches, other
        <5> QED
          BY <5>1, <5>2, <5>3, <4>1, <4>3, <2>3, Zenon
      <4> QED
        BY <4>2, <4>3, Zenon
    <3>6. TInv(v) /\ Live(v) = Live(t)
      BY <3>2, <3>4, <3>5, LinkInv, Zenon DEF ExitLeads
    <3> QED
      BY <3>2, <3>6, Zenon DEF v
  <2>9. /\ mine \in SUBSET LinkFlags /\ mine \cup {"BOTH_LINKED"} \in SUBSET LinkFlags
        /\ \A c : c.blocks[i].on = way =>
             /\ c.blocks[i].slot[2] = NoBlock => mine = LinkStatus(c.blocks[i])
             /\ c.blocks[i].slot[2] # NoBlock =>
                  mine \cup {"BOTH_LINKED"} = LinkStatus(c.blocks[i])
    BY Zenon DEF LinkFlags, mine, LinkStatus, way
  <2> HIDE DEF mine
  <2>10. CASE other = NoBlock
    <3>1. w = [first EXCEPT !.meta[i].branch_cache_status = mine]
      BY <2>10, <1>1, <1>5, Zenon DEF DispatcherAarch64, CondTypes, first, cond, way, mine,
                                       taken, other_addr, other, target, addr
    <3> HIDE DEF w
    <3>2. TInv(w) /\ Live(w) = Live(t) /\ SameButExit(t, w, i) /\ KeepsLinks(t, w, i)
      BY <3>1, <2>6, <2>7, <2>8, <2>9, ZenonT(30)
    <3> QED
      BY <3>2, Zenon DEF w, target, addr
  <2>11. CASE other # NoBlock
    <3> DEFINE second == A64CcBranch(first, i, 2, other)
    <3>1. w = [second EXCEPT !.meta[i].branch_cache_status = mine \cup {"BOTH_LINKED"}]
      BY <2>11, <1>1, <1>5, Zenon DEF DispatcherAarch64, CondTypes, first, cond, way, mine,
                                       taken, other_addr, other, target, addr
    <3>2. other \in BlockId /\ other \in Live(t)
      BY <2>11, <2>4, <1>1, Zenon DEF TableMatches, Live, Fragments, other
    <3>3. 2 \in {1, 2} /\ 1 \in {1, 2} \ {2}
      BY SMTT(30)
    <3>4. /\ SameButExit(first, second, i)
          /\ second.blocks[i].on = first.blocks[i].on
          /\ second.blocks[i].slot[2] = other
          /\ second.blocks[i].slot[1] = first.blocks[i].slot[1]
          /\ KeepsLinks(first, second, i)
      <4>1. /\ SameButExit(first, second, i)
            /\ second.blocks[i].on = first.blocks[i].on
            /\ second.blocks[i].slot[2] = other
            /\ second.blocks[i].slot[1] = first.blocks[i].slot[1]
        BY <3>2, <3>3, <2>7, <1>1, A64CcBranchFacts, SMTT(30)
      <4>2. i \in Live(first) /\ other \in Live(first)
        BY <3>2, <2>7, Zenon DEF SameButExit, Live, Fragments
      <4>3. KeepsLinks(first, second, i)
        BY ONLY <4>2, <3>3, <2>6, <2>7, A64CcBranchKeepsLinks, Zenon DEF second
      <4> QED
        BY <4>1, <4>3, ZenonT(40)
    <3> HIDE DEF second, w
    <3>5. SameButExit(t, second, i) /\ KeepsLinks(t, second, i)
      BY <3>4, <2>7, SameButExitTrans, KeepsLinksTrans, Zenon
    <3>6. TInv(w) /\ Live(w) = Live(t) /\ SameButExit(t, w, i) /\ KeepsLinks(t, w, i)
      BY <3>1, <3>4, <3>5, <2>6, <2>8, <2>9, <2>11, ZenonT(30)
    <3> QED
      BY <3>6, Zenon DEF w, target, addr
  <2> QED
    BY <2>10, <2>11, Zenon
<1>6. CASE b.exit \in CondTypes /\ m.branch_cache_status # {}
  <2> DEFINE c == A64CcBranch(t, i, 2, addr)
             flags == m.branch_cache_status \cup {"BOTH_LINKED"}
  <2>1. w = [c EXCEPT !.meta[i].branch_cache_status = flags]
    BY <1>1, <1>6, ZenonT(30) DEF DispatcherAarch64, CondTypes
  <2>2. /\ m.branch_taken_addr = b.taken /\ m.branch_skipped_addr = b.skipped
        /\ b.on # "none" /\ b.slot[1] # NoBlock
    BY <1>1, <1>6, Zenon DEF MetaMatches, LinkStatus
  <2>3. b.on # o /\ b.on \in {"taken", "skipped"}
    <3>1. b.on \in {"none", "taken", "skipped"}
      BY <1>1, Zenon DEF ThreadType, CodeType
    <3> QED
      BY <3>1, <2>2, Zenon DEF SlotFor, Linkable
  <2>4. 2 \in {1, 2} /\ 1 \in {1, 2} \ {2}
    BY ONLY SMT
  <2>5. /\ SameButExit(t, c, i) /\ c.blocks[i].on = b.on
        /\ c.blocks[i].slot[2] = addr /\ c.blocks[i].slot[1] = b.slot[1]
        /\ KeepsLinks(t, c, i) /\ b.slot[2] = NoBlock
    <3>1. t \in ThreadType /\ i \in BlockId /\ addr \in BlockId
      BY <1>1, <1>3, Zenon
    <3>2. /\ SameButExit(t, c, i) /\ c.blocks[i].on = t.blocks[i].on
          /\ c.blocks[i].slot[2] = addr
          /\ \A h \in {1, 2} \ {2} : c.blocks[i].slot[h] = t.blocks[i].slot[h]
      <4>1. Written(t, c, i, 2, addr)
        BY <3>1, <2>4, A64CcBranchWrites, Zenon
      <4> QED
        BY <4>1, Zenon DEF Written
    <3>3. 1 \in {1, 2} \ {2}
      BY <2>4, Zenon
    <3>4. b.slot[2] = NoBlock
      BY <2>3, <1>6, Zenon DEF Linkable, SlotFor
    <3>5. KeepsLinks(t, c, i)
      BY ONLY <3>1, <3>4, <2>4, <1>3, i \in Live(t), A64CcBranchKeepsLinks, Zenon
    <3> QED
      BY <3>2, <3>3, <3>4, <3>5, ZenonT(30)
  <2> HIDE DEF c
  <2>6. flags \in SUBSET LinkFlags /\ flags # {}
    BY <1>1, Zenon DEF ThreadType, MetaType, LinkFlags
  <2> HIDE DEF flags
  <2>7. /\ SameButExit(c, w, i) /\ w.blocks = c.blocks
        /\ w.meta[i].branch_cache_status = flags /\ KeepsLinks(c, w, i)
    <3>1. c \in ThreadType /\ i \in BlockId
      BY <2>5, <1>1, Zenon DEF SameButExit
    <3> HIDE DEF w
    <3> QED
      BY ONLY <3>1, <2>1, <2>6, FlagsFacts, ZenonT(40)
  <2> HIDE DEF w
  <2>8. SameButExit(t, w, i) /\ KeepsLinks(t, w, i) /\ Records(w)
    <3>1. SameButExit(t, w, i)
      BY <2>5, <2>7, SameButExitTrans, Zenon
    <3>2. KeepsLinks(t, w, i)
      BY <2>5, <2>7, KeepsLinksTrans, Zenon
    <3> QED
      BY <3>1, <3>2, <1>1, Zenon DEF KeepsLinks
  <2>9. MetaMatches(w.meta[i], w.blocks[i])
    <3>1. /\ w.meta[i].source_addr = w.blocks[i].spc
          /\ w.meta[i].exit_branch_type = w.blocks[i].exit
          /\ w.meta[i].branch_taken_addr = w.blocks[i].taken
          /\ w.meta[i].branch_skipped_addr = w.blocks[i].skipped
          /\ w.blocks[i].fresh = TRUE
      BY <2>2, <2>8, <1>1, Zenon DEF SameButExit, MetaMatches
    <3>2. /\ w.blocks[i].on = b.on /\ w.blocks[i].slot[2] # NoBlock
          /\ w.blocks[i].slot[1] # NoBlock
      BY <2>2, <2>5, <2>7, <1>3, Zenon
    <3>3. flags = LinkStatus(w.blocks[i])
      <4>1. m.branch_cache_status = LinkStatus(b)
        BY <1>1, <1>6 DEF MetaMatches
      <4> QED
        BY <4>1, <3>2, <2>2, <2>5, Zenon DEF LinkStatus, flags
    <3> QED
      BY <3>1, <3>2, <3>3, <2>2, <2>7, Zenon DEF MetaMatches
  <2>10. ASSUME NEW p \in Reach(b),
                w.blocks[i].slot[SlotFor(w.blocks[i], p)] # NoBlock
         PROVE  LET to == w.blocks[i].slot[SlotFor(w.blocks[i], p)]
                IN  to \in Live(t) /\ t.blocks[to].spc = b[p]
    <3>1. w.blocks[i].exit \in CondTypes /\ w.blocks[i].on = b.on
      <4>1. w.blocks[i].exit = b.exit
        BY <2>8, <1>1, ZenonT(40) DEF SameButExit
      <4> QED
        BY <4>1, <2>5, <2>7, <1>6, Zenon
    <3>2. CASE p = b.on
      <4>1. SlotFor(w.blocks[i], p) = 1 /\ SlotFor(b, p) = 1
        BY <3>1, <3>2, Zenon DEF SlotFor
      <4>2. w.blocks[i].slot[1] = b.slot[1]
        BY <2>5, <2>7, Zenon
      <4>3. BranchesLead(t.blocks, t.free_block)
        BY Zenon DEF TInv, GoodCode
      <4> QED
        BY <4>1, <4>2, <4>3, <2>2, SMTT(30) DEF BranchesLead, Live
    <3>3. CASE p # b.on
      <4>1. SlotFor(w.blocks[i], p) = 2
        BY <3>1, <3>3, Zenon DEF SlotFor
      <4>2. p = o
        BY <3>3, <2>3, <1>2, Zenon DEF Reach
      <4> QED
        BY <4>1, <4>2, <2>5, <2>7, <1>3, Zenon
    <3> QED
      BY <3>2, <3>3, Zenon
  <2>11. TInv(w) /\ Live(w) = Live(t)
    <3>1. ExitLeads(t, w, i)
      BY <2>10, Zenon DEF ExitLeads
    <3> QED
      BY ONLY <3>1, <2>8, <2>9, TInv(t), i \in Live(t), LinkInv, Zenon
  <2> QED
    BY <2>8, <2>11, Zenon DEF w
<1>7. CASE b.exit \notin CondTypes \cup {"uncond_imm_a64"}
  <2>1. w = t
    BY <1>1, <1>7, ZenonT(30) DEF DispatcherAarch64
  <2>2. SameButExit(t, t, i) /\ KeepsLinks(t, t, i)
    BY <1>1, Zenon DEF SameButExit, KeepsLinks
  <2> QED
    BY <2>1, <2>2, Zenon
<1> QED
  BY <1>4, <1>5, <1>6, <1>7, Zenon

-----------------------------------------------------------------------------
\* A block that the table leads to can be executed.
LEMMA EntryExecutable ==
  ASSUME NEW t, TInv(t), NEW s \in SPC, CcLookup(t, s) # NoBlock
  PROVE  Executable(t, CcLookup(t, s)) /\ t.blocks[CcLookup(t, s)].spc = s
<1>1. CcLookup(t, s) \in Live(t) /\ t.blocks[CcLookup(t, s)].spc = s
  BY Zenon DEF TInv, TableMatches
<1>2. t.free_block \in 0 .. CODE_CACHE_SIZE /\ GoodCode(t.blocks, t.free_block)
  BY Zenon DEF TInv, ThreadType
<1> QED
  BY <1>1, <1>2, Zenon DEF Executable, Live

\* Unless the cache has been flushed between t and w, the fragments of t are live
\* in w, and no branch in them has been rewritten.
LinksStay(t, w) ==
  ~ w.was_flushed =>
    \A i \in Live(t) :
      /\ i \in Live(w)
      /\ w.blocks[i].spc = t.blocks[i].spc
      /\ \A k \in {1, 2} : t.blocks[i].slot[k] # NoBlock =>
           w.blocks[i].slot[k] = t.blocks[i].slot[k]

\* No assertion fails between t and w if the pool of link records is large.
NoFault(t, w) == PoolIsLarge /\ t.fault = "none" => w.fault = "none"

\* From t to r the thread can go on executing block c after a flush.
KeepsRunning(t, r, c) ==
  /\ TInv(r) /\ Executable(r, c) /\ r.blocks[c].spc = t.blocks[c].spc
  /\ r.was_flushed /\ r.fault = t.fault

\* The dispatcher, called from the exit of the block being executed, keeps the
\* invariant, and the links that were made before, and returns the translation
\* of its target.
LEMMA DispatcherInv ==
  ASSUME NEW t, TInv(t), NEW c, Executable(t, c), NEW target \in SPC,
         \/ t.blocks[c].exit = "uncond_branch_reg"
         \/ \E o \in Reach(t.blocks[c]) :
              /\ t.blocks[c].slot[SlotFor(t.blocks[c], o)] = NoBlock
              /\ target = t.blocks[c][o]
  PROVE  LET w == Dispatcher(t, target, c)
         IN  /\ TInv(w) /\ CcLookup(w, target) # NoBlock
             /\ LinksStay(t, w) /\ NoFault(t, w)
<1> DEFINE b == t.blocks[c]
           type == t.meta[c].exit_branch_type
           u == LookupOrScan([t EXCEPT !.was_flushed = FALSE], target)
           w == Dispatcher(t, target, c)
<1>1. /\ TInv(u) /\ CcLookup(u, target) # NoBlock /\ u.fault = t.fault
      /\ ~ u.was_flushed => \A j \in Live(t) :
           j \in Live(u) /\ u.blocks[j] = t.blocks[j] /\ u.meta[j] = t.meta[j]
  BY LookupOrScanInv, Zenon
<1>2. w = IF c = 0 \/ u.was_flushed THEN u
          ELSE DispatcherAarch64(u, c, type, target, CcLookup(u, target))
  BY Zenon DEF Dispatcher
<1> HIDE DEF u, w
<1>0. LinksStay(t, u) /\ NoFault(t, u)
  BY <1>1, Zenon DEF LinksStay, NoFault
<1>3. CASE c = 0 \/ u.was_flushed
  BY <1>0, <1>1, <1>2, <1>3, Zenon DEF w
<1>4. CASE ~ (c = 0 \/ u.was_flushed)
  <2>1. w = DispatcherAarch64(u, c, type, target, CcLookup(u, target))
    BY <1>2, <1>4, Zenon
  <2>2. ASSUME type \notin CondTypes \cup {"uncond_imm_a64"} PROVE w = u
    BY <2>1, <2>2, ZenonT(30) DEF DispatcherAarch64
  <2>3. CASE c \in Live(t)
    <3>1. type = b.exit /\ c \in Live(u) /\ u.blocks[c] = b /\ u.meta[c] = t.meta[c]
      BY <2>3, <1>1, <1>4, Zenon DEF TInv, MetaMatches
    <3>2. CASE b.exit = "uncond_branch_reg"
      <4>1. w = u
        BY <3>1, <3>2, <2>2, Zenon DEF CondTypes
      <4> QED
        BY <4>1, <1>0, <1>1, Zenon DEF w
    <3>3. CASE b.exit # "uncond_branch_reg"
      <4>1. PICK o \in Reach(b) : b.slot[SlotFor(b, o)] = NoBlock /\ target = b[o]
        BY <3>3, Zenon
      <4>2. /\ TInv(w) /\ Live(w) = Live(u)
            /\ SameButExit(u, w, c) /\ KeepsLinks(u, w, c)
        BY <4>1, <3>1, <2>1, <1>1, DispatcherAarch64Inv, SMTT(30) DEF Linkable
      <4>3. CcLookup(w, target) = CcLookup(u, target)
        BY <4>2, Zenon DEF SameButExit, CcLookup
      <4>4. NoFault(t, w)
        BY <4>2, <1>1, Zenon DEF NoFault, KeepsLinks, TInv
      <4>5. LinksStay(t, w)
        <5> SUFFICES ASSUME NEW j \in Live(t)
                     PROVE  /\ j \in Live(w) /\ w.blocks[j].spc = t.blocks[j].spc
                            /\ \A k \in {1, 2} : t.blocks[j].slot[k] # NoBlock =>
                                 w.blocks[j].slot[k] = t.blocks[j].slot[k]
          BY Zenon DEF LinksStay
        <5>1. j \in Live(u) /\ u.blocks[j] = t.blocks[j] /\ j \in BlockId
          BY <1>1, <1>4, Zenon DEF Live, Fragments
        <5>2. CASE j = c
          BY <5>1, <5>2, <4>2 DEF SameButExit, KeepsLinks
        <5>3. CASE j # c
          BY <5>1, <5>3, <4>2, Zenon DEF SameButExit
        <5> QED
          BY <5>2, <5>3, Zenon
      <4> QED
        BY <4>2, <4>3, <4>4, <4>5, <1>1, Zenon DEF w
    <3> QED
      BY <3>2, <3>3, Zenon
  <2>4. CASE c \notin Live(t)
    <3>1. t.free_block = trampolines_size_bbs /\ c \in BlockId
          /\ trampolines_size_bbs <= c
      BY <2>4, Zenon DEF Executable, Live, Fragments
    <3>2. type = "unknown"
      BY <3>1, Zenon DEF TInv, Fresh
    <3>3. w = u
      BY <3>2, <2>2, Zenon DEF CondTypes
    <3> QED
      BY <3>3, <1>0, <1>1, Zenon DEF w
  <2> QED
    BY <2>3, <2>4, Zenon
<1> QED
  BY <1>3, <1>4, Zenon

\* The flush of a munmap leaves the thread in a block it can go on executing.
LEMMA UnmapCodeInv ==
  ASSUME NEW t, TInv(t), NEW c, Executable(t, c), NEW gone
  PROVE  LET r == UnmapCode(t, gone)
         IN  /\ TInv(r) /\ Executable(r, c) /\ r.blocks[c].spc = t.blocks[c].spc
             /\ r.was_flushed /\ r.fault = t.fault
             /\ \A n \in 0 .. CODE_CACHE_SIZE : GoodCode(t.blocks, n) =>
                  /\ GoodCode(r.blocks, n) /\ Fragments(r.blocks, n) = Fragments(t.blocks, n)
                  /\ r.free_block = trampolines_size_bbs
                  /\ \A j \in Fragments(t.blocks, n) :
                       /\ r.blocks[j].spc = t.blocks[j].spc
                       /\ t.blocks[j].spc \notin gone => r.blocks[j] = t.blocks[j]
<1> DEFINE code(j) == IF t.blocks[j].spc \in gone
                      THEN [t.blocks[j] EXCEPT !.fresh = FALSE] ELSE t.blocks[j]
           bl == [j \in BlockId |-> code(j)]
           v == [t EXCEPT !.blocks = bl]
           r == FlushCodeCache(v)
<1>1. UnmapCode(t, gone) = r
  BY Zenon DEF UnmapCode
<1>2. t \in ThreadType /\ t.fault # "allocate_bb_overflow"
      /\ t.blocks \in [BlockId -> CodeType] /\ trampolines_size_bbs <= t.free_block
  BY Zenon DEF TInv, ThreadType
<1>3. ASSUME NEW j \in BlockId
      PROVE  /\ code(j) \in CodeType
             /\ code(j).head = t.blocks[j].head /\ code(j).spc = t.blocks[j].spc
             /\ code(j).exit = t.blocks[j].exit /\ code(j).taken = t.blocks[j].taken
             /\ code(j).skipped = t.blocks[j].skipped /\ code(j).on = t.blocks[j].on
             /\ code(j).slot = t.blocks[j].slot
  <2>1. t.blocks[j] \in CodeType
    BY <1>2, Zenon
  <2> QED
    BY <2>1, ZenonT(30) DEF CodeType
<1> HIDE DEF code
<1>4. bl \in [BlockId -> CodeType] /\ \A j \in BlockId : bl[j] = code(j)
  BY <1>3, Zenon
<1> HIDE DEF bl
<1>5. v \in ThreadType /\ v.blocks = bl /\ v.fault = t.fault
  BY <1>2, <1>4, Zenon DEF ThreadType
<1> HIDE DEF v
<1>6. /\ TInv(r) /\ r.blocks = bl /\ r.free_block = trampolines_size_bbs
      /\ r.was_flushed /\ r.fault = t.fault
  BY <1>2, <1>5, FlushInv, FlushFacts, Zenon
<1> HIDE DEF r
<1>7. ASSUME NEW n \in 0 .. CODE_CACHE_SIZE, GoodCode(t.blocks, n)
      PROVE  /\ GoodCode(bl, n) /\ Fragments(bl, n) = Fragments(t.blocks, n)
             /\ \A j \in Fragments(t.blocks, n) :
                  /\ bl[j].spc = t.blocks[j].spc
                  /\ t.blocks[j].spc \notin gone => bl[j] = t.blocks[j]
  <2>0. Fragments(bl, n) = Fragments(t.blocks, n) /\ Fragments(bl, n) \subseteq BlockId
    BY <1>3, <1>4, Zenon DEF Fragments
  <2>1. ASSUME NEW j \in Fragments(bl, n), NEW o \in Reach(bl[j]),
               bl[j].slot[SlotFor(bl[j], o)] # NoBlock
        PROVE  LET to == bl[j].slot[SlotFor(bl[j], o)]
               IN  to \in Fragments(bl, n) /\ bl[to].spc = bl[j][o]
    <3> DEFINE to == bl[j].slot[SlotFor(bl[j], o)]
    <3>1. j \in BlockId
      BY <2>0, Zenon
    <3>2. o \in Reach(t.blocks[j]) /\ o \in {"taken", "skipped"}
          /\ to = t.blocks[j].slot[SlotFor(t.blocks[j], o)]
      BY <3>1, <1>3, <1>4, Zenon DEF Reach, SlotFor
    <3>3. bl[j][o] = t.blocks[j][o]
      BY <3>1, <3>2, <1>3, <1>4, Zenon
    <3>4. to \in Fragments(t.blocks, n) /\ t.blocks[to].spc = t.blocks[j][o]
      BY <2>1, <3>2, <1>7, <2>0, ZenonT(40) DEF GoodCode, BranchesLead
    <3>5. bl[to].spc = t.blocks[to].spc
      BY <3>4, <1>3, <1>4, <2>0, SMTT(30)
    <3> QED
      BY <3>3, <3>4, <3>5, <2>0, Zenon
  <2>2. ASSUME NEW j \in Fragments(bl, n) PROVE CodeMatches(bl[j])
    <3>1. CodeMatches(t.blocks[j]) /\ j \in BlockId
      BY <1>7, <2>0, Zenon DEF GoodCode
    <3> QED
      BY <3>1, <1>3, <1>4, Zenon DEF CodeMatches
  <2>3. GoodCode(bl, n)
    BY <2>1, <2>2, Zenon DEF GoodCode, BranchesLead
  <2>4. \A j \in Fragments(t.blocks, n) :
          /\ bl[j].spc = t.blocks[j].spc
          /\ t.blocks[j].spc \notin gone => bl[j] = t.blocks[j]
    BY <2>0, <1>3, <1>4, Zenon DEF code
  <2> QED
    BY <2>0, <2>3, <2>4, Zenon
<1>8. PICK n \in 0 .. CODE_CACHE_SIZE :
        GoodCode(t.blocks, n) /\ c \in Fragments(t.blocks, n)
  BY Zenon DEF Executable
<1>9. Executable(r, c) /\ r.blocks[c].spc = t.blocks[c].spc
  <2>1. GoodCode(bl, n) /\ c \in Fragments(bl, n) /\ bl[c].spc = t.blocks[c].spc
    BY <1>7, <1>8, Zenon
  <2> QED
    BY <2>1, <1>6, Zenon DEF Executable
<1> QED
  BY <1>1, <1>6, <1>7, <1>9, Zenon DEF r

\* The part of it that is about the block being executed.
LEMMA UnmapKeeps ==
  ASSUME NEW t, TInv(t), NEW c, Executable(t, c), NEW gone
  PROVE  KeepsRunning(t, UnmapCode(t, gone), c)
BY UnmapCodeInv, SMTT(30) DEF KeepsRunning

\* init_thread() establishes the invariant.
LEMMA InitThreadInv ==
  /\ TInv(InitThread) /\ InitThread.fault = "none"
  /\ \A s \in SPC : CcLookup(InitThread, s) = NoBlock
<1> DEFINE m == [source_addr |-> NULL, exit_branch_type |-> "unknown",
                 branch_taken_addr |-> NULL, branch_skipped_addr |-> NULL,
                 branch_cache_status |-> {}, actual_id |-> 0, linked_from |-> {}]
           b == [head |-> 0, spc |-> NULL, exit |-> "unknown", taken |-> NULL,
                 skipped |-> NULL, on |-> "none",
                 slot |-> [k \in {1, 2} |-> NoBlock], fresh |-> TRUE]
           meta == [i \in BlockId |-> m]
           blocks == [i \in BlockId |-> b]
           table == [s \in SPC |-> NoBlock]
           z == [free_block |-> 0, was_flushed |-> FALSE, entry_address |-> table,
                 meta |-> meta, cc_links |-> 0, blocks |-> blocks, fault |-> "none"]
<1>1. InitThread = FlushCodeCache(z)
  BY Zenon DEF InitThread
<1>2. 0 \in BlockId /\ NoBlock \in BlockId /\ "unknown" \in BranchTypes
      /\ 0 \in 0 .. CODE_CACHE_SIZE /\ 0 \in 0 .. MAX_CC_LINKS
  BY SizeAssumption, SMTT(30) DEF BlockId, NoBlock, BranchTypes
<1>3. m \in MetaType
  BY <1>2, Zenon DEF MetaType
<1>4. b \in CodeType
  <2>1. [k \in {1, 2} |-> NoBlock] \in [{1, 2} -> BlockId]
    BY <1>2, Zenon
  <2> QED
    BY <2>1, <1>2, Zenon DEF CodeType
<1>5. meta \in [BlockId -> MetaType] /\ blocks \in [BlockId -> CodeType]
      /\ table \in [SPC -> BlockId]
  BY <1>2, <1>3, <1>4, Zenon
<1> HIDE DEF meta, blocks, table
<1>6. z \in ThreadType /\ z.fault # "allocate_bb_overflow" /\ z.fault = "none"
  BY <1>2, <1>5, Zenon DEF ThreadType
<1> HIDE DEF z
<1> QED
  BY <1>1, <1>6, FlushInv, FlushFacts, ZenonT(30) DEF CcLookup
-----------------------------------------------------------------------------
(* The theorems. *)

\* The exit of the code of an executable block goes where its source block can
\* go, and its outcomes are named in its code.
LEMMA ExecutableFacts ==
  ASSUME NEW t, NEW c, Executable(t, c)
  PROVE  c \in BlockId /\ CodeMatches(t.blocks[c])
BY Zenon DEF Executable, GoodCode, Fragments

\* The invariant holds at the start, and nothing has failed.
LEMMA InitIInv == Init => IInv /\ td.fault = "none"
<1> SUFFICES ASSUME Init PROVE IInv /\ td.fault = "none"
  OBVIOUS
<1>1. TInv(td) /\ CcLookup(td, Entry) # NoBlock /\ td.fault = "none"
  BY InitThreadInv, ScanInv, EntryAssumption, Zenon DEF Init
<1>2. Executable(td, cur)
  BY <1>1, EntryExecutable, EntryAssumption, Zenon DEF Init
<1> QED
  BY <1>1, <1>2, EntryAssumption, Zenon DEF Init, IInv

\* Every step of the code cache keeps the invariant, and is a step of the
\* program: the body of a block, or its branch to where the body decided.  It
\* rewrites no branch, and records those that it writes.
LEMMA StepIInv ==
  ASSUME IInv, Next
  PROVE  /\ IInv'
         /\ \/ /\ phase = "body" /\ phase' = "exit"
               /\ td'.blocks[cur'].spc = td.blocks[cur].spc
               /\ want' \in Successors(td.blocks[cur].spc)
            \/ /\ phase = "exit" /\ phase' = "body"
               /\ td'.blocks[cur'].spc = want /\ want' = want
         /\ LinksStay(td, td') /\ NoFault(td, td')
<1> DEFINE b == td.blocks[cur]
<1>1. /\ TInv(td) /\ Executable(td, cur) /\ want \in SPC
      /\ phase = "exit" => want \in Successors(b.spc)
      /\ cur \in BlockId /\ CodeMatches(b)
  BY ExecutableFacts, Zenon DEF IInv
<1>2. Successors(b.spc) \subseteq SPC
  BY <1>1, ProgAssumption, ZenonT(30) DEF Successors, CodeMatches, ProgType
<1>3. ASSUME TInv(td'), CcLookup(td', want) # NoBlock, phase = "exit",
             EnterBlock(CcLookup(td', want))
      PROVE  IInv' /\ phase' = "body" /\ td'.blocks[cur'].spc = want /\ want' = want
  <2>1. Executable(td', cur') /\ td'.blocks[cur'].spc = want
    BY <1>1, <1>3, EntryExecutable, Zenon DEF EnterBlock
  <2> QED
    BY <2>1, <1>1, <1>3, Zenon DEF IInv, EnterBlock
<1>0. LinksStay(td, td) /\ NoFault(td, td)
  BY Zenon DEF LinksStay, NoFault
<1>4. CASE RunBody
  <2>1. /\ TInv(td') /\ Executable(td', cur) /\ td'.blocks[cur].spc = b.spc
        /\ LinksStay(td, td') /\ NoFault(td, td')
    <3>1. CASE td' = td
      BY <3>1, <1>0, <1>1, Zenon
    <3>2. CASE td' = UnmapCode(td, Prog[b.spc].unmaps)
      <4>1. /\ TInv(td') /\ Executable(td', cur) /\ td'.blocks[cur].spc = b.spc
            /\ td'.was_flushed /\ td'.fault = td.fault
        BY <3>2, <1>1, UnmapKeeps, Zenon DEF KeepsRunning
      <4>2. LinksStay(td, td') /\ NoFault(td, td')
        BY <4>1, Zenon DEF LinksStay, NoFault
      <4> QED
        BY <4>1, <4>2, Zenon
    <3> QED
      BY <3>1, <3>2, <1>4, Zenon DEF RunBody
  <2>2. cur' = cur /\ phase = "body" /\ phase' = "exit" /\ want' \in Successors(b.spc)
    BY <1>4, Zenon DEF RunBody
  <2>3. IInv'
    BY <2>1, <2>2, <1>2, Zenon DEF IInv
  <2> QED
    BY <2>1, <2>2, <2>3, Zenon
<1>5. CASE LinkedExit
  <2>1. PICK o \in Outcomes(b, want) :
          /\ b.slot[SlotFor(b, o)] # NoBlock
          /\ EnterBlock(b.slot[SlotFor(b, o)])
    BY <1>5, Zenon DEF LinkedExit
  <2> DEFINE to == b.slot[SlotFor(b, o)]
  <2>2. o \in Reach(b) /\ b[o] = want
    BY Zenon DEF Outcomes
  <2>3. PICK n \in 0 .. CODE_CACHE_SIZE :
          /\ n = td.free_block \/ td.free_block = trampolines_size_bbs
          /\ GoodCode(td.blocks, n) /\ cur \in Fragments(td.blocks, n)
    BY <1>1, Zenon DEF Executable
  <2>4. to \in Fragments(td.blocks, n) /\ td.blocks[to].spc = want
    BY <2>1, <2>2, <2>3, Zenon DEF GoodCode, BranchesLead
  <2>5. td' = td /\ cur' = to /\ want' = want /\ phase = "exit" /\ phase' = "body"
    BY <2>1, <1>5, Zenon DEF LinkedExit, EnterBlock
  <2>6. Executable(td, to)
    BY <2>3, <2>4, Zenon DEF Executable
  <2> QED
    BY <2>4, <2>5, <2>6, <1>0, <1>1, Zenon DEF IInv
<1>6. CASE DispatchedExit
  <2>1. PICK o \in Outcomes(b, want) :
          /\ b.slot[SlotFor(b, o)] = NoBlock
          /\ td' = Dispatcher(td, b[o], cur)
          /\ EnterBlock(CcLookup(td', b[o]))
    BY <1>6, Zenon DEF DispatchedExit
  <2>2. o \in Reach(b) /\ b[o] = want /\ phase = "exit"
    BY <1>6, Zenon DEF Outcomes, DispatchedExit
  <2>3. /\ TInv(td') /\ CcLookup(td', want) # NoBlock
        /\ LinksStay(td, td') /\ NoFault(td, td')
    BY <2>1, <2>2, <1>1, DispatcherInv, Zenon
  <2> QED
    BY <2>1, <2>2, <2>3, <1>3, Zenon
<1>7. CASE InlineHashHit
  <2>1. td' = td /\ CcLookup(td', want) # NoBlock /\ phase = "exit"
        /\ EnterBlock(CcLookup(td', want))
    BY <1>7, Zenon DEF InlineHashHit
  <2> QED
    BY <2>1, <1>0, <1>1, <1>3, Zenon
<1>8. CASE InlineHashMiss
  <2>1. td' = Dispatcher(td, want, cur) /\ EnterBlock(CcLookup(td', want))
        /\ phase = "exit" /\ b.exit = "uncond_branch_reg"
    BY <1>8, Zenon DEF InlineHashMiss
  <2>2. /\ TInv(td') /\ CcLookup(td', want) # NoBlock
        /\ LinksStay(td, td') /\ NoFault(td, td')
    BY <2>1, <1>1, DispatcherInv, Zenon
  <2> QED
    BY <2>1, <2>2, <1>3, Zenon
<1> QED
  BY <1>4, <1>5, <1>6, <1>7, <1>8, Zenon DEF Next

\* The inductive invariant of the code cache holds in every reachable state, for
\* every program, cache size and fragment size.
THEOREM CacheInvariant == Spec => []IInv
<1>1. IInv /\ UNCHANGED vars => IInv'
  BY Zenon DEF IInv, vars
<1>2. IInv /\ [Next]_vars => IInv'
  BY <1>1, StepIInv, Zenon
<1> QED
  BY <1>2, InitIInv, PTL DEF Spec

\* The types of thread_data and of the execution state.
THEOREM TypeCorrect == Spec => []TypeOK
<1>1. IInv => TypeOK
  BY ExecutableFacts, Zenon DEF IInv, TypeOK, TInv
<1> QED
  BY <1>1, CacheInvariant, PTL

\* allocate_bb_overflow() never runs out of blocks, provided that no fragment
\* takes more than CODE_CACHE_OVERP blocks besides its first one.
THEOREM ReserveTheorem == Spec => []ReserveSuffices
<1>1. IInv => ReserveSuffices
  BY Zenon DEF IInv, TInv, ReserveSuffices
<1> QED
  BY <1>1, CacheInvariant, PTL

\* The lookup table of cc_lookup() and the live fragments agree.
THEOREM TableTheorem == Spec => []TableIsLive
<1>1. IInv => TableIsLive
  BY Zenon DEF IInv, TInv, TableMatches, TableIsLive
<1> QED
  BY <1>1, CacheInvariant, PTL

\* Every branch that the dispatcher has written into a live fragment leads to
\* the live translation of where the program goes.
THEOREM LinksTheorem == Spec => []LinksLead
<1>1. IInv => LinksLead
  BY Zenon DEF IInv, TInv, GoodCode, LinksLead
<1> QED
  BY <1>1, CacheInvariant, PTL

\* The dispatcher links an exit once: until the next flush no branch that it has
\* written is written again, and no fragment goes away or changes its source.
THEOREM LinkOnceTheorem == Spec => LinkOnce
<1>1. IInv /\ [Next]_vars =>
        [~ td'.was_flushed =>
           \A i \in Live(td) :
             /\ i \in Live(td')
             /\ td'.blocks[i].spc = td.blocks[i].spc
             /\ \A k \in {1, 2} : td.blocks[i].slot[k] # NoBlock =>
                  td'.blocks[i].slot[k] = td.blocks[i].slot[k]]_vars
  BY StepIInv, Zenon DEF LinksStay
<1> QED
  BY <1>1, CacheInvariant, PTL DEF Spec, LinkOnce

\* The metadata describes the code of every block in use, and linked_from is
\* exact unless the assertion of record_cc_link() has failed.
LEMMA IInvRecords == IInv => MetaDescribesCode /\ (LinkPoolSuffices => LinksAreRecorded)
<1> SUFFICES ASSUME IInv PROVE MetaDescribesCode /\ (LinkPoolSuffices => LinksAreRecorded)
  OBVIOUS
<1>1. /\ td \in ThreadType /\ trampolines_size_bbs <= td.free_block
      /\ td.fault # "allocate_bb_overflow" /\ Owned(td) /\ Records(td)
      /\ \A i \in Live(td) : MetaMatches(td.meta[i], td.blocks[i])
  BY Zenon DEF IInv, TInv
<1>2. Live(td) \subseteq BlockId \ {NoBlock} /\ \A i \in Live(td) : i # 0
  BY SizeAssumption DEF Live, Fragments, BlockId, NoBlock
<1>3. MetaDescribesCode
  <2> SUFFICES ASSUME NEW j \in trampolines_size_bbs .. td.free_block - 1
               PROVE  LET i == IF td.meta[j].actual_id # 0 THEN td.meta[j].actual_id ELSE j
                          b == td.blocks[i]
                          m == td.meta[i]
                      IN  /\ td.blocks[j].head = i /\ i \in Live(td)
                          /\ m.source_addr = b.spc
                          /\ m.exit_branch_type = b.exit
                          /\ b.exit \in CondTypes =>
                               /\ m.branch_taken_addr = b.taken
                               /\ m.branch_skipped_addr = b.skipped
                               /\ m.branch_cache_status = LinkStatus(b)
    BY Zenon DEF MetaDescribesCode, LinkStatus
  <2> DEFINE i == IF td.meta[j].actual_id # 0 THEN td.meta[j].actual_id ELSE j
             h == td.blocks[j].head
  <2>1. j \in BlockId /\ trampolines_size_bbs <= j /\ j < td.free_block
    BY <1>1, SizeAssumption DEF BlockId, ThreadType
  <2>2. h \in Live(td) /\ td.meta[j].actual_id = IF h = j THEN 0 ELSE h
    BY <1>1, <2>1, Zenon DEF Owned
  <2>3. i = h /\ h # 0
    BY <1>2, <2>2, Zenon
  <2>4. MetaMatches(td.meta[i], td.blocks[i]) /\ i \in Live(td)
    BY <1>1, <2>2, <2>3, Zenon
  <2> HIDE DEF i
  <2> QED
    BY <2>3, <2>4, Zenon DEF MetaMatches, i
<1>4. LinkPoolSuffices => LinksAreRecorded
  <2> SUFFICES ASSUME LinkPoolSuffices PROVE LinksAreRecorded
    OBVIOUS
  <2>1. Recorded(td)
    BY <1>1, Zenon DEF LinkPoolSuffices, ThreadType, Records
  <2> QED
    BY <2>1, <1>2, Zenon DEF Recorded, LinksAreRecorded, LinksTo
<1> QED
  BY <1>3, <1>4, Zenon

\* While the pool of link records lasts, metadata and link records are exact: the
\* metadata of every block in use leads to the fragment that it belongs to and
\* describes its code, and linked_from lists the branches that lead to it, which
\* install_trace() relies on.
THEOREM RecordsTheorem == Spec => [](MetaDescribesCode /\ (LinkPoolSuffices => LinksAreRecorded))
BY IInvRecords, CacheInvariant, PTL

\* The assertion of record_cc_link() never fails if there are two records for
\* each block, and then all records are exact.
THEOREM PoolTheorem == Spec => [](PoolIsLarge => RecordsExact)
<1> DEFINE F == PoolIsLarge => td.fault = "none"
<1>1. Init => F
  BY InitIInv, Zenon
<1>2. IInv /\ F /\ [Next]_vars => F'
  <2>1. ASSUME IInv, F, Next PROVE F'
    BY <2>1, StepIInv, Zenon DEF NoFault
  <2>2. ASSUME F, UNCHANGED vars PROVE F'
    BY <2>2, Zenon DEF vars
  <2> QED
    BY <2>1, <2>2, Zenon
<1>3. IInv /\ F => (PoolIsLarge => RecordsExact)
  BY IInvRecords, Zenon DEF RecordsExact, LinkPoolSuffices
<1> HIDE DEF F
<1> QED
  BY <1>1, <1>2, <1>3, CacheInvariant, PTL DEF Spec

\* The source blocks that block s branches to directly.
DirectSuccessors(s) == IF Prog[s].exit = "uncond_branch_reg" THEN {} ELSE Successors(s)

\* D[s] holds the source blocks that s can reach through direct branches, and none
\* that the body of s unmaps.
Separates(D) ==
  \A s \in SPC :
    /\ DirectSuccessors(s) \subseteq D[s]
    /\ \A r \in D[s] : D[r] \subseteq D[s]
    /\ D[s] \cap Prog[s].unmaps = {}

\* No block of the program unmaps code that it can reach through direct branches.
UnmapsSeparated == \E D \in [SPC -> SUBSET SPC] : Separates(D)

\* Block c can be executed, and what its code reaches through direct branches is
\* up to date.
ReachesFresh(t, c, D) ==
  \E n \in 0 .. CODE_CACHE_SIZE :
    /\ n = t.free_block \/ t.free_block = trampolines_size_bbs
    /\ GoodCode(t.blocks, n)
    /\ c \in Fragments(t.blocks, n)
    /\ \A j \in Fragments(t.blocks, n) :
         t.blocks[j].spc \in D[t.blocks[c].spc] => t.blocks[j].fresh = TRUE

\* The strengthening for NeverStale.
FreshInv ==
  \A D \in [SPC -> SUBSET SPC] : Separates(D) =>
    /\ ReachesFresh(td, cur, D)
    /\ phase = "body" => td.blocks[cur].fresh = TRUE

\* What the table leads to is live, and everything live is up to date.
LEMMA LiveReachesFresh ==
  ASSUME NEW t, TInv(t), NEW s \in SPC, CcLookup(t, s) # NoBlock, NEW D
  PROVE  /\ ReachesFresh(t, CcLookup(t, s), D)
         /\ t.blocks[CcLookup(t, s)].fresh = TRUE
<1>1. CcLookup(t, s) \in Live(t)
  BY Zenon DEF TInv, TableMatches
<1>2. t.free_block \in 0 .. CODE_CACHE_SIZE /\ GoodCode(t.blocks, t.free_block)
  BY Zenon DEF TInv, ThreadType
<1>3. \A j \in Live(t) : t.blocks[j].fresh = TRUE
  BY Zenon DEF TInv, MetaMatches
<1> QED
  BY <1>1, <1>2, <1>3, Zenon DEF ReachesFresh, Live

\* Nothing is stale at the start.
LEMMA InitFresh == Init => FreshInv
<1> SUFFICES ASSUME Init PROVE FreshInv
  OBVIOUS
<1>1. TInv(td) /\ CcLookup(td, Entry) # NoBlock /\ cur = CcLookup(td, Entry)
  BY InitThreadInv, ScanInv, EntryAssumption, Zenon DEF Init
<1> QED
  BY <1>1, LiveReachesFresh, EntryAssumption, Zenon DEF FreshInv

\* A step that unmaps code leaves what the thread can reach without the dispatcher
\* up to date; a direct branch stays within it; and the dispatcher and the inline
\* hash lookup only enter live blocks.
LEMMA StepFresh ==
  ASSUME IInv, FreshInv, Next
  PROVE  FreshInv'
<1> SUFFICES ASSUME NEW D \in [SPC -> SUBSET SPC], Separates(D)
             PROVE  /\ ReachesFresh(td', cur', D)
                    /\ phase' = "body" => td'.blocks[cur'].fresh = TRUE
  BY Zenon DEF FreshInv
<1> DEFINE b == td.blocks[cur]
<1>1. /\ IInv' /\ TInv(td) /\ TInv(td') /\ want \in SPC
      /\ Executable(td, cur) /\ CodeMatches(b)
  BY StepIInv, ExecutableFacts, Zenon DEF IInv
<1>2. PICK n \in 0 .. CODE_CACHE_SIZE :
        /\ n = td.free_block \/ td.free_block = trampolines_size_bbs
        /\ GoodCode(td.blocks, n)
        /\ cur \in Fragments(td.blocks, n)
        /\ \A j \in Fragments(td.blocks, n) :
             td.blocks[j].spc \in D[b.spc] => td.blocks[j].fresh = TRUE
  BY Zenon DEF FreshInv, ReachesFresh
<1>3. b.spc \in SPC /\ D[b.spc] \cap Prog[b.spc].unmaps = {}
      /\ DirectSuccessors(b.spc) \subseteq D[b.spc]
      /\ \A r \in D[b.spc] : D[r] \subseteq D[b.spc]
  BY <1>1, Zenon DEF CodeMatches, Separates
<1>4. ASSUME NEW s \in SPC, CcLookup(td', s) # NoBlock, cur' = CcLookup(td', s)
      PROVE  ReachesFresh(td', cur', D) /\ td'.blocks[cur'].fresh = TRUE
  BY <1>1, <1>4, LiveReachesFresh, Zenon
<1>5. CASE RunBody
  <2>1. cur' = cur /\ phase' = "exit"
    BY <1>5, Zenon DEF RunBody
  <2>2. CASE td' = td
    BY <2>1, <2>2, <1>2, Zenon DEF ReachesFresh
  <2>3. CASE td' = UnmapCode(td, Prog[b.spc].unmaps)
    <3>1. /\ GoodCode(td'.blocks, n) /\ Fragments(td'.blocks, n) = Fragments(td.blocks, n)
          /\ td'.free_block = trampolines_size_bbs
          /\ \A j \in Fragments(td.blocks, n) :
               /\ td'.blocks[j].spc = td.blocks[j].spc
               /\ td.blocks[j].spc \notin Prog[b.spc].unmaps => td'.blocks[j] = td.blocks[j]
      <4> DEFINE gone == Prog[b.spc].unmaps
                 r == UnmapCode(td, gone)
      <4> HIDE DEF gone
      <4>1. \A m \in 0 .. CODE_CACHE_SIZE : GoodCode(td.blocks, m) =>
              /\ GoodCode(r.blocks, m) /\ Fragments(r.blocks, m) = Fragments(td.blocks, m)
              /\ r.free_block = trampolines_size_bbs
              /\ \A j \in Fragments(td.blocks, m) :
                   /\ r.blocks[j].spc = td.blocks[j].spc
                   /\ td.blocks[j].spc \notin gone => r.blocks[j] = td.blocks[j]
        BY ONLY <1>1, UnmapCodeInv
      <4>2. td' = r
        BY <2>3, Zenon DEF gone
      <4> HIDE DEF r
      <4> QED
        BY <4>1, <4>2, <1>2, Zenon DEF gone
    <3>2. td'.blocks[cur].spc = b.spc
      BY <3>1, <1>2, Zenon
    <3>3. ASSUME NEW j \in Fragments(td'.blocks, n), td'.blocks[j].spc \in D[b.spc]
          PROVE  td'.blocks[j].fresh = TRUE
      BY <3>1, <3>3, <1>2, <1>3, Zenon
    <3> QED
      BY <3>1, <3>2, <3>3, <2>1, <1>2, Zenon DEF ReachesFresh
  <2> QED
    BY <2>2, <2>3, <1>5, Zenon DEF RunBody
<1>6. CASE LinkedExit
  <2>1. PICK o \in Outcomes(b, want) :
          /\ b.slot[SlotFor(b, o)] # NoBlock
          /\ EnterBlock(b.slot[SlotFor(b, o)])
    BY <1>6, Zenon DEF LinkedExit
  <2> DEFINE to == b.slot[SlotFor(b, o)]
  <2>2. o \in Reach(b) /\ b[o] = want
    BY Zenon DEF Outcomes
  <2>3. to \in Fragments(td.blocks, n) /\ td.blocks[to].spc = want
    BY <2>1, <2>2, <1>2, Zenon DEF GoodCode, BranchesLead
  <2>4. td' = td /\ cur' = to /\ phase = "exit" /\ b.exit # "uncond_branch_reg"
    BY <2>1, <1>6, Zenon DEF LinkedExit, EnterBlock
  <2>5. want \in D[b.spc]
    <3>1. want \in Successors(b.spc)
      BY <2>4, Zenon DEF IInv
    <3> QED
      BY <3>1, <2>4, <1>1, <1>3, Zenon DEF DirectSuccessors, CodeMatches
  <2>6. td.blocks[to].fresh = TRUE /\ D[td.blocks[to].spc] \subseteq D[b.spc]
    BY <2>3, <2>5, <1>2, <1>3, Zenon
  <2> HIDE DEF to
  <2> QED
    BY <2>3, <2>4, <2>6, <1>2, Zenon DEF ReachesFresh
<1>7. CASE DispatchedExit
  <2>1. PICK o \in Outcomes(b, want) :
          /\ b.slot[SlotFor(b, o)] = NoBlock
          /\ td' = Dispatcher(td, b[o], cur)
          /\ EnterBlock(CcLookup(td', b[o]))
    BY <1>7, Zenon DEF DispatchedExit
  <2>2. o \in Reach(b) /\ b[o] = want /\ cur' = CcLookup(td', want)
    BY <2>1, Zenon DEF Outcomes, EnterBlock
  <2>3. CcLookup(td', want) # NoBlock
    BY <2>1, <2>2, <1>1, DispatcherInv, Zenon
  <2> QED
    BY <2>2, <2>3, <1>1, <1>4, Zenon
<1>8. CASE InlineHashHit
  BY <1>1, <1>4, <1>8, Zenon DEF InlineHashHit, EnterBlock
<1>9. CASE InlineHashMiss
  <2>1. td' = Dispatcher(td, want, cur) /\ cur' = CcLookup(td', want)
        /\ b.exit = "uncond_branch_reg"
    BY <1>9, Zenon DEF InlineHashMiss, EnterBlock
  <2>2. CcLookup(td', want) # NoBlock
    BY <2>1, <1>1, DispatcherInv, Zenon
  <2> QED
    BY <2>1, <2>2, <1>1, <1>4, Zenon
<1> QED
  BY <1>5, <1>6, <1>7, <1>8, <1>9, Zenon DEF Next

\* No block of code that the program has unmapped is entered, for every program in
\* which no block unmaps code that it reaches through direct branches: indirect
\* branches and unlinked exits find nothing that was translated before the unmap.
THEOREM FreshTheorem == Spec => [](UnmapsSeparated => NeverStale)
<1>1. FreshInv /\ UNCHANGED vars => FreshInv'
  BY Zenon DEF FreshInv, vars
<1>2. IInv /\ FreshInv /\ [Next]_vars => FreshInv'
  BY <1>1, StepFresh, Zenon
<1>3. FreshInv => (UnmapsSeparated => NeverStale)
  BY Zenon DEF FreshInv, UnmapsSeparated, NeverStale
<1> QED
  BY <1>2, <1>3, InitFresh, CacheInvariant, PTL DEF Spec

\* Transparency: the code cache implements the program.  Whatever is translated,
\* linked, flushed and translated again, and also while the thread runs on in
\* evicted blocks after a munmap, the blocks execute in an order the program has.
THEOREM TransparencyTheorem == Spec => Transparent
<1>1. Init => App!AppInit
  <2> SUFFICES ASSUME Init PROVE App!AppInit
    OBVIOUS
  <2>1. TInv(td) /\ CcLookup(td, Entry) # NoBlock
    BY InitThreadInv, ScanInv, EntryAssumption, Zenon DEF Init
  <2>2. td.blocks[cur].spc = Entry
    BY <2>1, EntryExecutable, EntryAssumption, Zenon DEF Init
  <2> QED
    BY <2>2, Zenon DEF Init, App!AppInit
<1>2. \A s : App!Successors(s) = Successors(s)
  BY Zenon DEF App!Successors, Successors, App!CondTypes, CondTypes
<1>3. IInv /\ [Next]_vars => [App!AppNext]_App!appVars
  <2>1. CASE UNCHANGED vars
    BY <2>1, Zenon DEF vars, App!appVars
  <2>2. ASSUME IInv, Next PROVE App!AppNext
    BY <2>2, <1>2, StepIInv, Zenon DEF App!AppNext, App!Body, App!Branch
  <2> QED
    BY <2>1, <2>2, Zenon
<1> QED
  BY <1>1, <1>3, CacheInvariant, PTL DEF Spec, Transparent, App!AppSpec

-----------------------------------------------------------------------------
(* The hash table of the code cache *)

Slots == 0 .. HashSize - 1
KeyAt(i) == entry_address[i][1]

\* An entry is empty, or that of an address at or after its index, before the
\* last slot, and every slot from its index to it has another address.
HashChains ==
  \A i \in Slots :
    \/ entry_address[i] = Empty
    \/ /\ entry_address[i] \in HashKey \X HashValue
       /\ i \in Probes(KeyAt(i))
       /\ \A j \in Probes(KeyAt(i)) : j < i => ~Usable(KeyAt(i), j)

\* The table has the entries that were added.
HashSame ==
  /\ hashModel \subseteq HashKey \X HashValue
  /\ \A k \in HashKey, v \in HashValue :
       <<k, v>> \in hashModel <=> \E i \in Slots : entry_address[i] = <<k, v>>

HashInv ==
  /\ entry_address = [i \in Slots |-> entry_address[i]]
  /\ HashChains /\ HashSame
  /\ hashStuck => \E k \in HashKey : FirstUsable(k) = {}

-----------------------------------------------------------------------------
\* The slots that are probed for an address.
LEMMA ProbedSlots ==
  ASSUME NEW k \in HashKey
  PROVE  /\ k \in Nat /\ k # 0 /\ GetIndex(k) \in 0 .. HashMask
         /\ Probes(k) \subseteq Slots /\ HashSize - 1 \notin Probes(k)
         /\ HashSize - 1 \in GetIndex(k) .. HashSize - 1 /\ HashSize - 1 \in Slots
         /\ HashMask .. ProbeEnd - 1 \subseteq Probes(k)
<1>1. k \in Nat /\ k # 0 /\ HashMask \in Nat /\ HashOverp \in Nat /\ HashOverp > 0
  BY HashAssumption
<1>2. \A m \in Nat : k % (m + 1) \in 0 .. m
  BY <1>1
<1>3. GetIndex(k) \in 0 .. HashMask
  BY <1>1, <1>2 DEF GetIndex
<1> QED BY <1>1, <1>3 DEF Probes, Slots, ProbeEnd, HashSize

\* A key is in at most one slot.
LEMMA OneSlot ==
  ASSUME HashChains, NEW i \in Slots, NEW j \in Slots, KeyAt(i) = KeyAt(j), KeyAt(i) # 0
  PROVE  i = j
<1>1. Slots \subseteq Int
  BY HashAssumption DEF Slots, HashSize
<1>2. entry_address[i] # Empty /\ entry_address[j] # Empty
  BY DEF KeyAt, Empty
<1>3. Usable(KeyAt(i), i) /\ Usable(KeyAt(i), j)
  BY Zenon DEF Usable, KeyAt
<1>4. ~(i < j) /\ ~(j < i)
  BY <1>2, <1>3, Zenon DEF HashChains
<1> QED BY <1>1, <1>4

\* The slot of a key that is in the table is the first usable one.
LEMMA FoundFirst ==
  ASSUME HashChains, NEW k \in HashKey, NEW i \in Slots, KeyAt(i) = k
  PROVE  i \in FirstUsable(k)
<1>1. k # 0
  BY ProbedSlots, Zenon
<1>2. entry_address[i] # Empty
  BY <1>1 DEF KeyAt, Empty
<1>3. i \in Probes(k) /\ \A j \in Probes(k) : j < i => ~Usable(k, j)
  BY <1>2, Zenon DEF HashChains
<1>4. Usable(k, i)
  BY Zenon DEF Usable, KeyAt
<1> QED BY <1>3, <1>4, Zenon DEF FirstUsable

\* There is at most one first usable slot.
LEMMA FirstIsOne ==
  ASSUME NEW k \in HashKey, NEW i \in FirstUsable(k), NEW j \in FirstUsable(k)
  PROVE  i = j
<1>1. i \in Int /\ j \in Int
  BY ProbedSlots, HashAssumption DEF FirstUsable, Probes, ProbeEnd, HashSize
<1>2. ~(i < j) /\ ~(j < i)
  BY Zenon DEF FirstUsable
<1> QED BY <1>1, <1>2

\* An element of a product is the pair of its parts.
LEMMA PairIs ==
  ASSUME NEW p, NEW A, NEW B, p \in A \X B
  PROVE  p = <<p[1], p[2]>> /\ p[1] \in A /\ p[2] \in B
OBVIOUS

\* The parts of a pair.
LEMMA PairParts ==
  ASSUME NEW a, NEW b
  PROVE  <<a, b>>[1] = a /\ <<a, b>>[2] = b
OBVIOUS

\* Pairs are equal when their parts are.
LEMMA PairEq ==
  ASSUME NEW a, NEW b, NEW c, NEW d
  PROVE  <<a, b>>[1] = a /\ <<a, b>>[2] = b /\ (<<a, b>> = <<c, d>> <=> a = c /\ b = d)
OBVIOUS

\* What is in the table for a key is what was added.
LEMMA LookupFaithful ==
  ASSUME HashInv
  PROVE  HashFaithful
<1> SUFFICES ASSUME NEW k \in HashKey
             PROVE  HashLookup(k) = ValuesOf(hashModel, k)
  BY Zenon DEF HashFaithful
<1>0. HashChains /\ HashSame /\ Probes(k) \subseteq Slots /\ k # 0
  BY ProbedSlots, Zenon DEF HashInv
<1>1. ASSUME NEW x \in HashLookup(k)
      PROVE  x \in ValuesOf(hashModel, k)
  <2>1. PICK i \in FirstUsable(k) : entry_address[i][1] = k /\ x = entry_address[i][2]
    BY <1>1, Zenon DEF HashLookup
  <2>2. i \in Slots
    BY <1>0, Zenon DEF FirstUsable
  <2>3. entry_address[i] # Empty
    BY <1>0, <2>1 DEF Empty
  <2>4. entry_address[i] \in HashKey \X HashValue
    BY <1>0, <2>2, <2>3, Zenon DEF HashChains
  <2>5. entry_address[i] = <<k, x>> /\ x \in HashValue
    <3>1. entry_address[i] = <<entry_address[i][1], entry_address[i][2]>> /\ entry_address[i][2] \in HashValue
      BY ONLY <2>4, PairIs, Zenon
    <3> QED BY ONLY <2>1, <3>1
  <2>6. <<k, x>> \in hashModel
    BY <1>0, <2>2, <2>5, Zenon DEF HashSame
  <2>7. <<k, x>>[1] = k /\ <<k, x>>[2] = x
    OBVIOUS
  <2> QED BY ONLY <2>6, <2>7, Zenon DEF ValuesOf
<1>2. ASSUME NEW x \in ValuesOf(hashModel, k)
      PROVE  x \in HashLookup(k)
  <2>1. PICK p \in hashModel : p[1] = k /\ x = p[2]
    BY <1>2, Zenon DEF ValuesOf
  <2>2. p = <<k, x>> /\ x \in HashValue
    <3>1. p \in HashKey \X HashValue
      BY <1>0, Zenon DEF HashSame
    <3>2. p = <<p[1], p[2]>> /\ p[2] \in HashValue
      BY ONLY <3>1, PairIs, Zenon
    <3> QED BY ONLY <2>1, <3>2
  <2>3. PICK i \in Slots : entry_address[i] = <<k, x>>
    BY <1>0, <2>1, <2>2, Zenon DEF HashSame
  <2>4. KeyAt(i) = k /\ entry_address[i][2] = x
    <3>1. <<k, x>>[1] = k /\ <<k, x>>[2] = x
      BY ONLY PairParts, Zenon
    <3> QED BY ONLY <2>3, <3>1, Zenon DEF KeyAt
  <2>5. i \in FirstUsable(k)
    BY <1>0, <2>4, FoundFirst, Zenon
  <2> QED BY <2>4, <2>5, Zenon DEF HashLookup, KeyAt
<1> QED BY <1>1, <1>2, Zenon

\* The last slot is never used, so the emitted code stops at it at the latest.
LEMMA LookupEnds ==
  ASSUME HashInv
  PROVE  InlineLookupEnds
<1> SUFFICES ASSUME NEW k \in HashKey PROVE InlineEnds(k)
  BY Zenon DEF InlineLookupEnds
<1> DEFINE last == HashSize - 1
<1>1. last \in GetIndex(k) .. HashSize - 1 /\ last \in Slots
  BY ProbedSlots, Zenon
<1> HIDE DEF last
<1>2. entry_address[last] = Empty
  <2>1. SUFFICES ASSUME entry_address[last] \in HashKey \X HashValue, last \in Probes(KeyAt(last))
                 PROVE  FALSE
    BY <1>1, Zenon DEF HashInv, HashChains
  <2>2. KeyAt(last) \in HashKey
    BY <2>1, PairIs, Zenon DEF KeyAt
  <2> QED BY <2>1, <2>2, ProbedSlots, Zenon DEF last
<1>3. Usable(k, last)
  <2>1. entry_address[last][1] = 0
    BY <1>2 DEF Empty
  <2> QED BY <2>1, Zenon DEF Usable
<1> QED BY <1>1, <1>3, Zenon DEF InlineEnds

\* An interval of usable slots has a first one.
LEMMA SomeUsable ==
  ASSUME NEW k \in HashKey, NEW i \in Probes(k), Usable(k, i)
  PROVE  FirstUsable(k) # {}
<1> DEFINE T == {j \in Probes(k) : Usable(k, j)}
<1>1. T \subseteq Nat /\ T # {}
  BY ProbedSlots, HashAssumption DEF Probes, ProbeEnd, HashSize
<1>2. PICK x \in T : \A y \in T : ~(<<y, x>> \in OpToRel(<, Nat))
  <2> HIDE DEF T
  <2> QED BY <1>1, NatLessThanWellFounded, WFMin, Zenon
<1>3. \A y \in T : ~(y < x)
  <2>1. \A a, b \in Nat : a < b => <<a, b>> \in OpToRel(<, Nat)
    BY Zenon DEF OpToRel
  <2> HIDE DEF T
  <2> QED BY <1>1, <1>2, <2>1, Zenon
<1>4. x \in FirstUsable(k)
  BY <1>2, <1>3, Zenon DEF FirstUsable
<1> QED BY <1>4, Zenon

\* A table that is full from an index on has at least the overprovisioned
\* slots in use.
LEMMA FullWhenStuck ==
  ASSUME HashInv
  PROVE  OverflowNeedsKeys
<1> SUFFICES ASSUME hashStuck PROVE Cardinality(hashModel) >= HashOverp - 1
  BY Zenon DEF OverflowNeedsKeys
<1> DEFINE I == HashMask .. ProbeEnd - 1
<1>1. PICK k \in HashKey : FirstUsable(k) = {}
  BY Zenon DEF HashInv
<1>2. I \subseteq Probes(k) /\ Probes(k) \subseteq Slots
  BY ProbedSlots, Zenon
<1>3. HashChains /\ HashSame
  BY Zenon DEF HashInv
<1>4. HashMask \in Nat /\ HashOverp \in Nat \ {0}
  BY HashAssumption, Zenon
<1>5. HashMask \in Int /\ ProbeEnd - 1 \in Int /\ 0 \in Int /\ HashSize - 1 \in Int
  BY <1>4 DEF ProbeEnd, HashSize
<1>6. IsFiniteSet(I) /\ Cardinality(I) = HashOverp - 1
  <2>1. IsFiniteSet(I) /\ Cardinality(I) = IF HashMask > ProbeEnd - 1 THEN 0 ELSE (ProbeEnd - 1) - HashMask + 1
    BY <1>5, FS_Interval, Zenon
  <2> HIDE DEF I
  <2> QED BY <1>4, <2>1 DEF ProbeEnd, HashSize
<1>7. IsFiniteSet(hashModel)
  <2>1. IsFiniteSet(Slots)
    BY <1>5, FS_Interval, Zenon DEF Slots
  <2> DEFINE U == {i \in Slots : entry_address[i] \in hashModel}
             f == [i \in U |-> entry_address[i]]
  <2>2. IsFiniteSet(U)
    <3>1. U \in SUBSET Slots
      BY Zenon
    <3> HIDE DEF U
    <3> QED BY <2>1, <3>1, FS_Subset, Zenon
  <2>3. \A p \in hashModel : \E i \in U : f[i] = p
    <3> SUFFICES ASSUME NEW p \in hashModel PROVE \E i \in U : f[i] = p
      BY Zenon
    <3>1. p = <<p[1], p[2]>> /\ p[1] \in HashKey /\ p[2] \in HashValue
      BY <1>3, PairIs, Zenon DEF HashSame
    <3>2. PICK i \in Slots : entry_address[i] = p
      BY <1>3, <3>1, Zenon DEF HashSame
    <3> QED BY <3>2, Zenon
  <2>4. f \in [U -> hashModel]
    BY Zenon
  <2>5. f \in Surjection(U, hashModel)
    <3> HIDE DEF U, f
    <3> QED BY <2>3, <2>4, Zenon DEF Surjection
  <2> HIDE DEF U, f
  <2> QED BY <2>2, <2>5, FS_Surjection, Zenon
<1>8. ASSUME NEW i \in I
      PROVE  i \in Slots /\ entry_address[i] \in hashModel /\ KeyAt(i) # 0
  <2>1. ~Usable(k, i) /\ i \in Slots
    BY <1>1, <1>2, SomeUsable, Zenon
  <2>2. KeyAt(i) # 0
    BY <2>1, Zenon DEF Usable, KeyAt
  <2>3. entry_address[i] # Empty
    BY <2>2, PairEq, Zenon DEF KeyAt, Empty
  <2>4. entry_address[i] \in HashKey \X HashValue
    BY <1>3, <2>1, <2>3, Zenon DEF HashChains
  <2>5. entry_address[i] \in hashModel
    <3>1. /\ entry_address[i] = <<entry_address[i][1], entry_address[i][2]>>
          /\ entry_address[i][1] \in HashKey /\ entry_address[i][2] \in HashValue
      BY ONLY <2>4, PairIs, Zenon
    <3>2. <<entry_address[i][1], entry_address[i][2]>> \in hashModel
      BY <1>3, <2>1, <3>1, Zenon DEF HashSame
    <3> QED BY ONLY <3>1, <3>2, Zenon
  <2> QED BY <2>1, <2>2, <2>5, Zenon
<1> DEFINE g == [i \in I |-> entry_address[i]]
<1>9. g \in Injection(I, hashModel)
  <2> HIDE DEF I
  <2>1. g \in [I -> hashModel]
    BY <1>8, Zenon
  <2>2. \A i, j \in I : g[i] = g[j] => i = j
    BY <1>3, <1>8, OneSlot, Zenon DEF KeyAt
  <2> HIDE DEF g
  <2> QED BY <2>1, <2>2, Zenon DEF Injection, IsInjective
<1>10. Cardinality(I) <= Cardinality(hashModel)
  <2> HIDE DEF I, g
  <2> QED BY <1>7, <1>9, FS_Injection, Zenon
<1>11. Cardinality(hashModel) \in Nat
  BY <1>7, FS_CardinalityType, Zenon
<1> HIDE DEF I
<1> QED BY <1>4, <1>6, <1>10, <1>11

-----------------------------------------------------------------------------
\* The empty table.
LEMMA HashInvInit ==
  ASSUME entry_address = [i \in 0 .. HashSize - 1 |-> Empty], hashModel = {}
  PROVE  /\ entry_address = [i \in Slots |-> entry_address[i]] /\ HashChains /\ HashSame
<1>1. entry_address = [i \in Slots |-> Empty]
  BY Zenon DEF Slots
<1>2. \A i \in Slots : entry_address[i] = Empty
  BY <1>1, Zenon
<1>3. entry_address = [i \in Slots |-> entry_address[i]]
  BY <1>1
<1>4. ASSUME NEW k \in HashKey, NEW v
      PROVE  <<k, v>> # Empty
  <2>1. k # 0
    BY HashAssumption
  <2> QED BY <2>1, PairEq, Zenon DEF Empty
<1> QED BY <1>2, <1>3, <1>4, Zenon DEF HashChains, HashSame

\* hash_init() when the code cache is flushed.
LEMMA HashResetKeeps ==
  ASSUME entry_address' = [i \in 0 .. HashSize - 1 |-> Empty], hashModel' = {}
  PROVE  /\ entry_address' = [i \in Slots |-> entry_address'[i]] /\ HashChains' /\ HashSame'
<1>1. entry_address' = [i \in Slots |-> Empty]
  BY Zenon DEF Slots
<1>2. \A i \in Slots : entry_address'[i] = Empty
  BY <1>1, Zenon
<1>3. entry_address' = [i \in Slots |-> entry_address'[i]]
  BY <1>1
<1>4. ASSUME NEW k \in HashKey, NEW v
      PROVE  <<k, v>> # Empty
  <2>1. k # 0
    BY HashAssumption
  <2> QED BY <2>1, PairEq, Zenon DEF Empty
<1> QED BY <1>2, <1>3, <1>4, Zenon DEF HashChains, HashSame

\* hash_add() of an address with a usable slot.
LEMMA AddKeepsHash ==
  ASSUME HashInv, NEW k \in HashKey, NEW v \in HashValue, NEW i \in FirstUsable(k),
         entry_address' = [entry_address EXCEPT ![i] = <<k, v>>],
         hashModel' = Store(hashModel, k, v)
  PROVE  /\ entry_address' = [j \in Slots |-> entry_address'[j]] /\ HashChains' /\ HashSame'
<1>1. /\ k # 0 /\ Probes(k) \subseteq Slots /\ i \in Probes(k) /\ i \in Slots /\ Usable(k, i)
      /\ \A j \in Probes(k) : j < i => ~Usable(k, j)
  BY ProbedSlots, Zenon DEF FirstUsable
<1>2. HashChains /\ HashSame /\ entry_address = [j \in Slots |-> entry_address[j]]
  BY Zenon DEF HashInv
<1>3. /\ entry_address' = [j \in Slots |-> entry_address'[j]]
      /\ entry_address'[i] = <<k, v>>
      /\ \A j \in Slots : j # i => entry_address'[j] = entry_address[j]
  BY ONLY <1>1, <1>2, entry_address' = [entry_address EXCEPT ![i] = <<k, v>>]
<1>4. KeyAt(i)' = k /\ KeyAt(i) \in {0, k}
  BY <1>1, <1>3, PairEq, Zenon DEF KeyAt, Usable
<1>5. \A j \in Slots : j # i => KeyAt(j)' = KeyAt(j) /\ KeyAt(j) # k
  <2> SUFFICES ASSUME NEW j \in Slots, j # i PROVE KeyAt(j)' = KeyAt(j) /\ KeyAt(j) # k
    BY Zenon
  <2>1. KeyAt(j)' = KeyAt(j)
    BY <1>3, Zenon DEF KeyAt
  <2>2. KeyAt(j) = k => j \in FirstUsable(k)
    BY <1>2, FoundFirst, Zenon
  <2> QED BY <2>1, <2>2, FirstIsOne, Zenon
<1>6. HashChains'
  <2> SUFFICES ASSUME NEW m \in Slots, entry_address'[m] # Empty
               PROVE  /\ entry_address'[m] \in HashKey \X HashValue
                      /\ m \in Probes(KeyAt(m)')
                      /\ \A j \in Probes(KeyAt(m)') : j < m => ~Usable(KeyAt(m), j)'
    BY Zenon DEF HashChains, Probes, ProbeEnd, GetIndex, HashSize, Slots, Empty
  <2>1. CASE m = i
    <3>1. <<k, v>> \in HashKey \X HashValue
      OBVIOUS
    <3>2. ASSUME NEW j \in Probes(k), j < i
          PROVE  ~(entry_address'[j][1] \in {0, k})
      <4>1. j \in Slots /\ j # i /\ ~(KeyAt(j) \in {0, k})
        <5>1. j \in Slots /\ ~(KeyAt(j) \in {0, k})
          BY <1>1, <3>2, Zenon DEF Usable, KeyAt
        <5>2. j \in Int /\ i \in Int
          BY <1>1, <5>1, HashAssumption DEF Slots, HashSize
        <5> QED BY <3>2, <5>1, <5>2
      <4> QED BY <1>3, <4>1, Zenon DEF KeyAt
    <3> QED BY <1>1, <1>3, <1>4, <2>1, <3>1, <3>2, Zenon DEF Usable
  <2>2. CASE m # i
    <3>1. entry_address'[m] = entry_address[m] /\ KeyAt(m)' = KeyAt(m) /\ KeyAt(m) # k
      BY <1>3, <1>5, <2>2, Zenon
    <3>2. /\ entry_address[m] \in HashKey \X HashValue /\ m \in Probes(KeyAt(m))
          /\ \A j \in Probes(KeyAt(m)) : j < m => ~Usable(KeyAt(m), j)
      BY <1>2, <3>1, Zenon DEF HashChains
    <3>3. KeyAt(m) \in HashKey
      BY <3>2, PairIs, Zenon DEF KeyAt
    <3>4. ASSUME NEW j \in Probes(KeyAt(m)), j < m
          PROVE  ~(entry_address'[j][1] \in {0, KeyAt(m)})
      <4>1. j \in Slots
        BY <3>3, <3>4, ProbedSlots, Zenon
      <4>2. CASE j = i
        <5>1. entry_address'[j][1] = k
          BY <1>4, <4>2, Zenon DEF KeyAt
        <5> QED BY <1>1, <3>1, <5>1, Zenon
      <4>3. CASE j # i
        BY <1>3, <3>2, <3>4, <4>1, <4>3, Zenon DEF Usable
      <4> QED BY <4>2, <4>3, Zenon
    <3> QED BY <3>1, <3>2, <3>4, Zenon DEF Usable
  <2> QED BY <2>1, <2>2, Zenon
<1>7. HashSame'
  <2>1. hashModel' \subseteq HashKey \X HashValue
    BY <1>2 DEF HashSame, Store
  <2>2. ASSUME NEW q \in HashKey, NEW w \in HashValue
        PROVE  <<q, w>> \in hashModel' <=> \E j \in Slots : entry_address'[j] = <<q, w>>
    <3>1. <<q, w>> \in hashModel' <=> (<<q, w>> \in hashModel /\ q # k) \/ (q = k /\ w = v)
      BY PairEq, Zenon DEF Store
    <3>2. <<q, w>> \in hashModel <=> \E j \in Slots : entry_address[j] = <<q, w>>
      BY <1>2, Zenon DEF HashSame
    <3>3. \A j \in Slots : entry_address[j] = <<q, w>> => KeyAt(j) = q
      BY PairEq, Zenon DEF KeyAt
    <3>4. \A j \in Slots : entry_address'[j] = <<q, w>> => KeyAt(j)' = q
      <4>1. <<q, w>>[1] = q
        OBVIOUS
      <4> QED BY <4>1, Zenon DEF KeyAt
    <3>5. q # 0
      BY HashAssumption
    <3>6. CASE q = k
      <4>1. \A j \in Slots : entry_address'[j] = <<q, w>> => j = i
        BY <1>5, <3>4, <3>6, Zenon
      <4>2. entry_address'[i] = <<q, w>> <=> w = v
        BY ONLY <1>3, <3>6
      <4> QED BY <1>1, <3>1, <3>6, <4>1, <4>2, Zenon
    <3>7. CASE q # k
      <4>1. \A j \in Slots : (entry_address'[j] = <<q, w>> \/ entry_address[j] = <<q, w>>) => j # i
        BY <1>4, <3>3, <3>4, <3>5, <3>7, Zenon
      <4> QED BY <1>3, <3>1, <3>2, <3>7, <4>1, Zenon
    <3> QED BY <3>6, <3>7, Zenon
  <2> QED BY <2>1, <2>2, Zenon DEF HashSame, Slots
<1> QED BY <1>3, <1>6, <1>7, Zenon

\* A step that leaves the table alone keeps what is known of it.
LEMMA SameHash ==
  ASSUME HashInv, entry_address' = entry_address, hashModel' = hashModel
  PROVE  /\ entry_address' = [j \in Slots |-> entry_address'[j]]
         /\ HashChains' /\ HashSame'
         /\ \A k \in HashKey : FirstUsable(k)' = FirstUsable(k)
<1>1. entry_address' = [j \in Slots |-> entry_address'[j]]
  BY DEF HashInv
<1>2. HashChains'
  BY Zenon DEF HashInv, HashChains, KeyAt, Usable
<1>3. HashSame'
  BY Zenon DEF HashInv, HashSame
<1>4. \A k \in HashKey : FirstUsable(k)' = FirstUsable(k)
  BY Zenon DEF FirstUsable, Usable
<1> QED BY <1>1, <1>2, <1>3, <1>4, Zenon

\* The code cache's table is a map for hash_lookup() and for the emitted lookup
\* code, and hash_add() overflows only when the overprovisioned slots are full,
\* for every size of the table and every set of addresses.
THEOREM HashIsExact == HashSpec => []HashExact
<1>1. HashInit => HashInv
  BY HashInvInit, Zenon DEF HashInit, HashInv
<1>2. HashInv /\ [HashNext]_hashVars => HashInv'
  <2> SUFFICES ASSUME HashInv, [HashNext]_hashVars PROVE HashInv'
    OBVIOUS
  <2>1. CASE UNCHANGED hashVars
    <3>1. entry_address' = entry_address /\ hashModel' = hashModel /\ hashStuck' = hashStuck
      BY <2>1, Zenon DEF hashVars
    <3> QED BY <3>1, SameHash, Zenon DEF HashInv
  <2>2. CASE ~hashStuck /\ HashReset
    <3>1. /\ entry_address' = [i \in Slots |-> entry_address'[i]] /\ HashChains' /\ HashSame'
      BY <2>2, HashResetKeeps, Zenon DEF HashReset
    <3> QED BY <2>2, <3>1, Zenon DEF HashReset, HashInv, Slots, HashSize
  <2>3. CASE ~hashStuck /\ HashAdd
    <3>1. PICK k \in HashKey, v \in HashValue :
            \/ \E i \in FirstUsable(k) :
                 /\ entry_address' = [entry_address EXCEPT ![i] = <<k, v>>]
                 /\ hashModel' = Store(hashModel, k, v)
                 /\ hashStuck' = hashStuck
            \/ /\ FirstUsable(k) = {}
               /\ entry_address' = entry_address /\ hashModel' = hashModel
      BY <2>3, Zenon DEF HashAdd
    <3>2. ASSUME NEW i \in FirstUsable(k), entry_address' = [entry_address EXCEPT ![i] = <<k, v>>],
                 hashModel' = Store(hashModel, k, v), hashStuck' = hashStuck
          PROVE  HashInv'
      BY <2>3, <3>2, AddKeepsHash, Zenon DEF HashInv
    <3>3. ASSUME FirstUsable(k) = {}, entry_address' = entry_address, hashModel' = hashModel
          PROVE  HashInv'
      BY <3>3, SameHash, Zenon DEF HashInv
    <3> QED BY <3>1, <3>2, <3>3, Zenon
  <2> QED BY <2>1, <2>2, <2>3, Zenon DEF HashNext
<1>3. HashInv => HashExact
  BY LookupFaithful, LookupEnds, FullWhenStuck, Zenon DEF HashExact
<1> QED BY <1>1, <1>2, <1>3, PTL DEF HashSpec
=============================================================================
