----------------------------- MODULE CodeCache -----------------------------
(***************************************************************************)
(* The basic-block code cache of one thread on AArch64: allocation and     *)
(* flushing of blocks, translation on demand, the dispatcher and the       *)
(* linking of translated blocks (dbm.c, dispatcher.c,                      *)
(* arch/aarch64/dispatcher_aarch64.c, arch/aarch64/scanner_a64.c).         *)
(*                                                                         *)
(* A code cache is private to its thread, so the state of the component is *)
(* one record td (the code's thread_data) and its functions are operators  *)
(* on that record, composed as the code calls them.  Translated code is    *)
(* modelled by what it does: which source block it stands for and where    *)
(* its exit goes.                                                          *)
(***************************************************************************)
EXTENDS Program, Integers

CONSTANTS
  CODE_CACHE_SIZE,        \* number of fixed-size blocks in the cache
  CODE_CACHE_OVERP,       \* blocks held back for fragments that overflow
  trampolines_size_bbs,   \* blocks taken by the trampolines, from block 0
  MAX_CC_LINKS,           \* size of the pool of link records
  Span,                   \* blocks the translation of each source block takes
  NULL                    \* the null source address

ASSUME SizeAssumption ==
  /\ CODE_CACHE_SIZE \in Nat
  /\ CODE_CACHE_OVERP \in Nat
  /\ trampolines_size_bbs \in Nat \ {0}
  /\ trampolines_size_bbs < CODE_CACHE_SIZE - CODE_CACHE_OVERP
  /\ MAX_CC_LINKS \in Nat

\* "CODE_CACHE_OVERP must be at least as large as the maximum number of blocks
\* a single fragment can span" (dbm.c, allocate_bb_overflow).
ASSUME SpanAssumption ==
  /\ Span \in [SPC -> Nat \ {0}]
  /\ \A s \in SPC : Span[s] <= CODE_CACHE_OVERP + 1

ASSUME NullAssumption == NULL \notin SPC

VARIABLES
  td,      \* thread_data, and the contents of the cache: see ThreadType
  cur,     \* the block being executed
  want,    \* where the program's own exit branch goes, after the body
  phase    \* "body" or "exit" of the block being executed

vars == <<td, cur, want, phase>>
-----------------------------------------------------------------------------
(* The data. *)

BlockId == 0 .. CODE_CACHE_SIZE - 1

\* No translation (UINT_MAX) and no link.  Block 0 holds the trampolines, so
\* no fragment ever starts there.
NoBlock == 0

\* Link flags of a block's exit (branch_cache_status).
LinkFlags == {"BRANCH_LINKED", "FALLTHROUGH_LINKED", "BOTH_LINKED"}

\* dbm_code_cache_meta.  linked_from is the list of branches that were made to
\* jump to the block, as a set of <<block, slot>>.
MetaType ==
  [source_addr : SPC \cup {NULL}, exit_branch_type : BranchTypes,
   branch_taken_addr : SPC \cup {NULL}, branch_skipped_addr : SPC \cup {NULL},
   branch_cache_status : SUBSET LinkFlags, actual_id : BlockId,
   linked_from : SUBSET (BlockId \X {1, 2})]

\* The code in a block.  head is the first block of its fragment; slot[1] is
\* the branch at exit_branch_addr (behind a conditional branch that lets only
\* the outcome in "on" reach it) and slot[2] the one after it.  A slot that is
\* NoBlock still calls the dispatcher.  fresh: the source has not been unmapped
\* since it was translated.
CodeType ==
  [head : BlockId, spc : SPC \cup {NULL}, exit : BranchTypes,
   taken : SPC \cup {NULL}, skipped : SPC \cup {NULL},
   on : {"none", "taken", "skipped"}, slot : [{1, 2} -> BlockId],
   fresh : BOOLEAN]

ThreadType ==
  [free_block : 0 .. CODE_CACHE_SIZE, was_flushed : BOOLEAN,
   entry_address : [SPC -> BlockId], meta : [BlockId -> MetaType],
   cc_links : 0 .. MAX_CC_LINKS, blocks : [BlockId -> CodeType],
   fault : {"none", "allocate_bb_overflow", "record_cc_link"}]
-----------------------------------------------------------------------------
(* dbm.c: the allocator, the lookup table and the link records. *)

\* flush_code_cache() forgets the blocks; the code in them stays in memory.
\* (Variant, a fault to be found: the flush leaves the link flags alone.)
FlushedMetaKeepsStatus(m) ==
  [m EXCEPT !.exit_branch_type = "unknown", !.linked_from = {}, !.actual_id = 0]

\* (Variant: the flush leaves the lists of links alone.)
FlushedMetaKeepsLinks(m) ==
  [m EXCEPT !.exit_branch_type = "unknown", !.branch_cache_status = {},
            !.actual_id = 0]

FlushedMeta(m) ==
  [m EXCEPT !.exit_branch_type = "unknown", !.linked_from = {},
            !.branch_cache_status = {}, !.actual_id = 0]

\* (Variant: the flush does not clear the lookup table.)
FlushKeepsTable(t) ==
  [t EXCEPT !.was_flushed = TRUE, !.free_block = trampolines_size_bbs,
            !.meta = [i \in BlockId |-> FlushedMeta(t.meta[i])], !.cc_links = 0]

\* (Variant: the flush does not give the link records back.)
FlushKeepsLinkPool(t) ==
  [t EXCEPT !.was_flushed = TRUE, !.free_block = trampolines_size_bbs,
            !.entry_address = [s \in SPC |-> NoBlock],
            !.meta = [i \in BlockId |-> FlushedMeta(t.meta[i])]]

FlushCodeCache(t) ==
  [t EXCEPT !.was_flushed = TRUE,
            !.free_block = trampolines_size_bbs,
            !.entry_address = [s \in SPC |-> NoBlock],
            !.meta = [i \in BlockId |-> FlushedMeta(t.meta[i])],
            !.cc_links = 0]

CcLookup(t, s) == t.entry_address[s]

\* (Variant: the reserve is one block short.)
AllocateBbLate(t) ==
  LET f == IF t.free_block > CODE_CACHE_SIZE - CODE_CACHE_OVERP
           THEN FlushCodeCache(t) ELSE t
  IN  [f EXCEPT !.free_block = @ + 1]

\* allocate_bb(): the block it returns is free_block - 1 afterwards.
AllocateBb(t) ==
  LET f == IF t.free_block >= CODE_CACHE_SIZE - CODE_CACHE_OVERP
           THEN FlushCodeCache(t) ELSE t
  IN  [f EXCEPT !.free_block = @ + 1]

\* (Variant: unchecked, and one block too many.)
AllocateBbOverflowUnchecked(t, i, n) ==
  IF n = 0 THEN t ELSE [t EXCEPT !.free_block = @ + n + 1]

\* n calls of allocate_bb_overflow() by a64_check_free_space() for fragment i.
AllocateBbOverflow(t, i, n) ==
  IF t.free_block + n > CODE_CACHE_SIZE
  THEN [t EXCEPT !.fault = "allocate_bb_overflow"]
  ELSE [t EXCEPT !.free_block = @ + n,
                 !.meta = [j \in BlockId |->
                    IF t.free_block <= j /\ j < t.free_block + n
                    THEN [t.meta[j] EXCEPT !.actual_id = i] ELSE t.meta[j]]]

\* Links to traces are not recorded.
RecordCcLink(t, from, to) ==
  IF to \notin BlockId THEN t
  ELSE IF t.cc_links = MAX_CC_LINKS
  THEN [t EXCEPT !.fault = "record_cc_link"]
  ELSE [t EXCEPT !.cc_links = @ + 1,
                 !.meta[to].linked_from = @ \cup {from}]
-----------------------------------------------------------------------------
(* scan() and scan_a64(): translation. *)

\* What scan_a64() leaves in the metadata for an exit of the type of block s.
ExitMeta(m, s) ==
  LET p == Prog[s] IN
  CASE p.exit = "cond_imm_a64" ->
         [m EXCEPT !.exit_branch_type = p.exit, !.branch_taken_addr = p.taken,
                   !.branch_skipped_addr = p.skipped, !.branch_cache_status = {}]
    [] p.exit = "cbz_a64" ->
         [m EXCEPT !.exit_branch_type = p.exit, !.branch_taken_addr = p.taken,
                   !.branch_skipped_addr = p.skipped]
    [] p.exit = "uncond_imm_a64" ->
         [m EXCEPT !.exit_branch_type = p.exit, !.branch_taken_addr = p.taken]
    [] p.exit = "uncond_branch_reg" -> [m EXCEPT !.exit_branch_type = p.exit]
    [] p.exit = "unknown" -> m

\* The code emitted for source block s in fragment i: no slot is linked yet.
Translation(s, i) ==
  [head |-> i, spc |-> s, exit |-> Prog[s].exit,
   taken |-> Prog[s].taken, skipped |-> Prog[s].skipped,
   on |-> "none", slot |-> [k \in {1, 2} |-> NoBlock], fresh |-> TRUE]

ScanA64(t, s, i) ==
  LET o == AllocateBbOverflow(t, i, Span[s] - 1)
  IN  [o EXCEPT !.meta[i] = ExitMeta(@, s),
                !.blocks = [j \in BlockId |->
                   IF i <= j /\ j < i + Span[s] THEN Translation(s, i)
                   ELSE o.blocks[j]]]

\* scan() with ALLOCATE_BB.  The table entry is added before the block is
\* built.  It returns the address it has added: CcLookup of its result.
Scan(t, s) ==
  LET a == AllocateBb(t)
      i == a.free_block - 1
  IN  ScanA64([a EXCEPT !.meta[i].source_addr = s,
                        !.entry_address[s] = i], s, i)

LookupOrScan(t, s) == IF CcLookup(t, s) # NoBlock THEN t ELSE Scan(t, s)
-----------------------------------------------------------------------------
(* dispatcher() and dispatcher_aarch64(): linking. *)

\* a64_cc_branch(): write the branch in a slot of block i and record it.
A64CcBranch(t, i, k, to) ==
  RecordCcLink([t EXCEPT !.blocks[i].slot[k] = to], <<i, k>>, to)

\* (Variant: the second link of a conditional exit overwrites the first.)
DispatcherAarch64OneSlot(t, source_index, exit_type, target, block_address) ==
  IF exit_type \in CondTypes \cup {"uncond_imm_a64"}
  THEN [A64CcBranch([t EXCEPT !.blocks[source_index].on =
                        IF target = t.meta[source_index].branch_taken_addr
                        THEN "taken" ELSE "skipped"],
                    source_index, 1, block_address)
        EXCEPT !.meta[source_index].branch_cache_status = {"BRANCH_LINKED"}]
  ELSE t

\* (Variant: the condition is not inverted for a taken branch.)
DispatcherAarch64NotInverted(t, source_index, exit_type, target, block_address) ==
  IF exit_type \in CondTypes
  THEN [A64CcBranch([t EXCEPT !.blocks[source_index].on = "skipped"],
                    source_index, 1, block_address)
        EXCEPT !.meta[source_index].branch_cache_status = {"BRANCH_LINKED"}]
  ELSE t

DispatcherAarch64(t, source_index, exit_type, target, block_address) ==
  LET m == t.meta[source_index]
      is_taken == target = m.branch_taken_addr
      other == CcLookup(t, IF is_taken THEN m.branch_skipped_addr
                                       ELSE m.branch_taken_addr)
      cond == [t EXCEPT !.blocks[source_index].on =
                   IF is_taken THEN "taken" ELSE "skipped"]
      first == A64CcBranch(cond, source_index, 1, block_address)
      linked(u, flags) ==
        [u EXCEPT !.meta[source_index].branch_cache_status = flags]
      mine == {IF is_taken THEN "BRANCH_LINKED" ELSE "FALLTHROUGH_LINKED"}
  IN  CASE exit_type = "uncond_imm_a64" ->
             linked(A64CcBranch(t, source_index, 1, block_address),
                    {"BRANCH_LINKED"})
        [] exit_type \in CondTypes /\ m.branch_cache_status = {} ->
             IF other = NoBlock THEN linked(first, mine)
             ELSE linked(A64CcBranch(first, source_index, 2, other),
                         mine \cup {"BOTH_LINKED"})
        [] exit_type \in CondTypes /\ m.branch_cache_status # {} ->
             linked(A64CcBranch(t, source_index, 2, block_address),
                    m.branch_cache_status \cup {"BOTH_LINKED"})
        [] OTHER -> t

\* (Variant: the exit type is read after the lookup.)
DispatcherReadsLate(t, target, source_index) ==
  LET u == LookupOrScan([t EXCEPT !.was_flushed = FALSE], target)
  IN  IF source_index = 0 \/ u.was_flushed THEN u
      ELSE DispatcherAarch64(u, source_index,
             u.meta[source_index].exit_branch_type, target, CcLookup(u, target))

\* The exit type is copied before lookup_or_scan(), which may flush or reuse
\* the metadata of the caller.  The address it returns is CcLookup(_, target).
Dispatcher(t, target, source_index) ==
  LET type == t.meta[source_index].exit_branch_type
      u == LookupOrScan([t EXCEPT !.was_flushed = FALSE], target)
  IN  IF source_index = 0 \/ u.was_flushed THEN u
      ELSE DispatcherAarch64(u, source_index, type, target, CcLookup(u, target))
-----------------------------------------------------------------------------
(* Execution of translated code. *)

\* init_thread(): all metadata and memory zero, then flush_code_cache().
InitThread ==
  FlushCodeCache(
    [free_block |-> 0, was_flushed |-> FALSE,
     entry_address |-> [s \in SPC |-> NoBlock],
     meta |-> [i \in BlockId |->
        [source_addr |-> NULL, exit_branch_type |-> "unknown",
         branch_taken_addr |-> NULL, branch_skipped_addr |-> NULL,
         branch_cache_status |-> {}, actual_id |-> 0, linked_from |-> {}]],
     cc_links |-> 0,
     blocks |-> [i \in BlockId |->
        [head |-> 0, spc |-> NULL, exit |-> "unknown", taken |-> NULL,
         skipped |-> NULL, on |-> "none", slot |-> [k \in {1, 2} |-> NoBlock],
         fresh |-> TRUE]],
     fault |-> "none"])

\* main(): translate the entry point and jump to it.
Init ==
  /\ td = Scan(InitThread, Entry)
  /\ cur = CcLookup(td, Entry)
  /\ want = Entry
  /\ phase = "body"

\* (Variant: no flush.)
UnmapCodeNoFlush(t, gone) ==
  [t EXCEPT !.blocks = [i \in BlockId |->
     IF t.blocks[i].spc \in gone THEN [t.blocks[i] EXCEPT !.fresh = FALSE]
     ELSE t.blocks[i]]]

\* munmap of executable code: the translations of its source are out of date
\* from here on, and notify_vm_op() flushes the cache of the calling thread.
\* The system call returns to the middle of the block that made it.
UnmapCode(t, gone) ==
  FlushCodeCache([t EXCEPT !.blocks = [i \in BlockId |->
     IF t.blocks[i].spc \in gone THEN [t.blocks[i] EXCEPT !.fresh = FALSE]
     ELSE t.blocks[i]]])

\* The translated body runs, its system call included.  The same instruction
\* makes different system calls, so it does not unmap code every time.
RunBody ==
  LET s == td.blocks[cur].spc IN
  /\ td.fault = "none"
  /\ phase = "body"
  /\ want' \in Successors(s)
  /\ \/ td' = td
     \/ Prog[s].unmaps # {} /\ td' = UnmapCode(td, Prog[s].unmaps)
  /\ phase' = "exit"
  /\ UNCHANGED cur

\* The outcomes that the exit of the code b can have, and those that send the
\* program where it wants to go.
Reach(b) == IF b.exit \in CondTypes THEN {"taken", "skipped"} ELSE {"taken"}
Outcomes(b, w) == {o \in Reach(b) : b[o] = w}

\* The slot that outcome o falls into: the conditional branch in front of slot 1
\* lets "on" through and skips to slot 2 otherwise.
SlotFor(b, o) ==
  IF b.exit \in CondTypes /\ b.on # o THEN 2 ELSE 1

EnterBlock(i) == cur' = i /\ phase' = "body" /\ UNCHANGED want

\* A direct exit that has been linked jumps from block to block.
LinkedExit ==
  LET b == td.blocks[cur] IN
  /\ td.fault = "none"
  /\ phase = "exit"
  /\ b.exit # "uncond_branch_reg"
  /\ \E o \in Outcomes(b, want) :
       /\ b.slot[SlotFor(b, o)] # NoBlock
       /\ EnterBlock(b.slot[SlotFor(b, o)])
  /\ UNCHANGED td

\* A direct exit that has not been linked calls the dispatcher.
DispatchedExit ==
  LET b == td.blocks[cur] IN
  /\ td.fault = "none"
  /\ phase = "exit"
  /\ b.exit # "uncond_branch_reg"
  /\ \E o \in Outcomes(b, want) :
       /\ b.slot[SlotFor(b, o)] = NoBlock
       /\ td' = Dispatcher(td, b[o], cur)
       /\ EnterBlock(CcLookup(td', b[o]))

\* The inline hash lookup of an indirect exit finds its target.
InlineHashHit ==
  /\ td.fault = "none"
  /\ phase = "exit"
  /\ td.blocks[cur].exit = "uncond_branch_reg"
  /\ CcLookup(td, want) # NoBlock
  /\ EnterBlock(CcLookup(td, want))
  /\ UNCHANGED td

\* It does not, and calls the dispatcher.
InlineHashMiss ==
  /\ td.fault = "none"
  /\ phase = "exit"
  /\ td.blocks[cur].exit = "uncond_branch_reg"
  /\ CcLookup(td, want) = NoBlock
  /\ td' = Dispatcher(td, want, cur)
  /\ EnterBlock(CcLookup(td', want))

Next == RunBody \/ LinkedExit \/ DispatchedExit \/ InlineHashHit \/ InlineHashMiss

Spec == Init /\ [][Next]_vars
-----------------------------------------------------------------------------
(* What the code cache is for. *)

TypeOK ==
  /\ td \in ThreadType
  /\ cur \in BlockId
  /\ want \in SPC
  /\ phase \in {"body", "exit"}

\* Transparency: whatever has been translated, linked, evicted or retranslated,
\* the sequence of source blocks that execute is one the program itself could
\* have executed, exit for exit.
App == INSTANCE Application WITH at <- td.blocks[cur].spc
Transparent == App!AppSpec

\* The assertion of allocate_bb_overflow() holds: a fragment that overflows its
\* block always finds the next one in the CODE_CACHE_OVERP reserve.
ReserveSuffices == td.fault # "allocate_bb_overflow"

\* The assertion of record_cc_link() holds: there is a free link record for
\* every branch that is written.
LinkPoolSuffices == td.fault # "record_cc_link"

\* The first blocks of the fragments in the blocks bl below block n, and of
\* those that the cache knows of.
Fragments(bl, n) ==
  {i \in BlockId : trampolines_size_bbs <= i /\ i < n /\ bl[i].head = i}
Live(t) == Fragments(t.blocks, t.free_block)

\* The lookup table and the live fragments are the same translations: an entry
\* leads to the live translation of its key, and every live fragment is in the
\* table (none is translated twice between two flushes).
TableIsLive ==
  /\ \A s \in SPC : CcLookup(td, s) # NoBlock =>
       /\ CcLookup(td, s) \in Live(td)
       /\ td.blocks[CcLookup(td, s)].spc = s
  /\ \A i \in Live(td) : CcLookup(td, td.blocks[i].spc) = i

\* Every branch written into the fragments of bl below n leads to the
\* translation, below n, of where the program goes on that outcome.
BranchesLead(bl, n) ==
  \A i \in Fragments(bl, n) : \A o \in Reach(bl[i]) :
    LET to == bl[i].slot[SlotFor(bl[i], o)]
    IN  to # NoBlock => to \in Fragments(bl, n) /\ bl[to].spc = bl[i][o]

\* A branch in a live fragment leads to the live translation of its target.
LinksLead == BranchesLead(td.blocks, td.free_block)

\* linked_from is exactly the set of branches that lead to a fragment: it is
\* what install_trace() rewrites when a trace replaces the fragment, so a branch
\* missing from it would keep running the replaced block.
LinksAreRecorded ==
  \A i \in Live(td) :
    td.meta[i].linked_from =
      {l \in Live(td) \X {1, 2} : td.blocks[l[1]].slot[l[2]] = i}

\* The metadata of every block of a live fragment describes the code in it: this
\* is what addr_to_fragment_id() and the signal handlers rely on.
MetaDescribesCode ==
  \A j \in trampolines_size_bbs .. td.free_block - 1 :
    LET i == IF td.meta[j].actual_id # 0 THEN td.meta[j].actual_id ELSE j
        b == td.blocks[i]
        m == td.meta[i]
    IN  /\ td.blocks[j].head = i /\ i \in Live(td)
        /\ m.source_addr = b.spc
        /\ m.exit_branch_type = b.exit
        /\ b.exit \in CondTypes =>
             /\ m.branch_taken_addr = b.taken
             /\ m.branch_skipped_addr = b.skipped
             /\ m.branch_cache_status =
                  (IF b.on = "none" THEN {}
                   ELSE {IF b.on = "taken" THEN "BRANCH_LINKED"
                                           ELSE "FALLTHROUGH_LINKED"})
                  \cup (IF b.slot[2] = NoBlock THEN {} ELSE {"BOTH_LINKED"})

\* The dispatcher links an exit once: a branch in a live fragment is never
\* rewritten, and the code around it never changes, until the cache is flushed.
LinkOnce ==
  [][~ td'.was_flushed =>
       \A i \in Live(td) :
         /\ i \in Live(td')
         /\ td'.blocks[i].spc = td.blocks[i].spc
         /\ \A k \in {1, 2} : td.blocks[i].slot[k] # NoBlock =>
              td'.blocks[i].slot[k] = td.blocks[i].slot[k]]_vars

\* No block is entered whose source the thread has unmapped since it was
\* translated.
NeverStale == phase = "body" => td.blocks[cur].fresh

\* What the cache records about its live fragments is exact: the metadata of
\* their code, and the branches that lead to them, for which there is always a
\* free record.
RecordsExact == MetaDescribesCode /\ LinksAreRecorded /\ LinkPoolSuffices
=============================================================================
