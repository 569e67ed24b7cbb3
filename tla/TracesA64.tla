----------------------------- MODULE TracesA64 -----------------------------
(***************************************************************************)
(* Trace building on AArch64 (traces.c, traces_common.c, and the trace     *)
(* part of dispatcher.c): the build with DBM_TRACES.  A hot basic block    *)
(* becomes the head of a trace: its code and that of the blocks that       *)
(* execute after it are translated again, one after the other, into the    *)
(* trace region; then the trace is installed in the place of its head.     *)
(*                                                                         *)
(* The thread's record td has the fields of CodeCache and those of         *)
(* TraceFields.  The trace region is an array of places for one fragment   *)
(* each; its addresses follow those of the basic blocks.  In a trace       *)
(* fragment, slot 1 is the conditional exit ("on" is the outcome that      *)
(* leaves the trace) and slot 2 what follows the fragment; a fragment that *)
(* ends in a direct branch goes on through slot 1.  The stubs of exits and *)
(* the code that pops registers on the way into a new fragment take no     *)
(* place of their own, and the three conditional branches have one reach.  *)
(***************************************************************************)
EXTENDS CodeCache, SequencesExt

CONSTANTS
  TRACE_CACHE_SIZE,      \* fragments that the trace region holds
  TRACE_LIMIT_OFFSET,    \* how far from its end the region counts as full
  TRACE_FRAGMENT_NO,     \* identifiers for trace fragments and trace exits
  TRACE_FRAGMENT_OVERP,  \* how many of them are held back for a trace begun
  MAX_TRACE_FRAGMENTS,   \* a trace is ended when it has more fragments
  TRACE_EXIT_STUB_GUARD, \* room kept for the fragment after the next exit
  BranchRange,           \* reach of a conditional branch, in fragments
  HotCount               \* executions that make a block hot (256: one byte)

MAX_TRACE_REC_EXITS == MAX_TRACE_FRAGMENTS + 1

TraceAddr == CODE_CACHE_SIZE .. CODE_CACHE_SIZE + TRACE_CACHE_SIZE - 1
TraceId == CODE_CACHE_SIZE .. CODE_CACHE_SIZE + TRACE_FRAGMENT_NO - 1
TraceLimit == CODE_CACHE_SIZE + TRACE_CACHE_SIZE - TRACE_LIMIT_OFFSET

ASSUME TraceAssumption ==
  /\ MAX_TRACE_FRAGMENTS \in Nat /\ TRACE_EXIT_STUB_GUARD \in Nat
  /\ HotCount \in Nat \ {0} /\ BranchRange \in Nat \ {0}
  /\ TRACE_LIMIT_OFFSET \in 1 .. TRACE_CACHE_SIZE - 1
  /\ TRACE_FRAGMENT_OVERP >= 2 * MAX_TRACE_REC_EXITS
  /\ TRACE_FRAGMENT_OVERP < TRACE_FRAGMENT_NO

\* The code at an address.
CodeAt(t, addr) == IF addr \in BlockId THEN t.blocks[addr] ELSE t.traces[addr]

\* What the trace build adds to thread_data.  traps: the basic blocks with a BRK
\* in their entry.  tmeta: the metadata of trace fragments; traces: their code.
TraceFields ==
  [exec_count |-> [i \in BlockId |-> 0],
   trace_cache_next |-> CODE_CACHE_SIZE,
   trace_id |-> CODE_CACHE_SIZE,
   trace_fragment_count |-> 0,
   active_trace |-> [id |-> CODE_CACHE_SIZE, source_bb |-> 0,
                     write_p |-> CODE_CACHE_SIZE, entry_addr |-> 0,
                     active |-> FALSE, exits |-> <<>>],
   tmeta |-> [id \in TraceId |->
      [source_addr |-> NULL, tpc |-> 0, exit_branch_type |-> "unknown",
       branch_taken_addr |-> NULL, branch_skipped_addr |-> NULL,
       branch_cache_status |-> {}]],
   traces |-> [p \in TraceAddr |-> [Translation(Entry, 0) EXCEPT !.spc = NULL]],
   traps |-> {}]
-----------------------------------------------------------------------------
(* dbm.c with DBM_TRACES. *)

\* The part of flush_code_cache() under DBM_TRACES.  The metadata of traces and
\* the other fields of the active trace are left as they are.
FlushTraces(t) ==
  [t EXCEPT !.exec_count = [i \in BlockId |-> 0],
            !.trace_cache_next = CODE_CACHE_SIZE,
            !.trace_id = CODE_CACHE_SIZE,
            !.active_trace.id = CODE_CACHE_SIZE]

\* was_flushed, which the scan u of thread t has reset, is only ever set.
NoteFlush(t, u) ==
  IF u.was_flushed THEN FlushTraces(u) ELSE [u EXCEPT !.was_flushed = t.was_flushed]

\* The new code for s overwrites traps.
ClearTraps(t, s) == [t EXCEPT !.traps = @ \ (CcLookup(t, s) .. t.free_block - 1)]

\* The thread after lookup_or_scan().
LookupOrScanT(t, s) ==
  IF CcLookup(t, s) # NoBlock THEN t
  ELSE ClearTraps(NoteFlush(t, LookupOrScan([t EXCEPT !.was_flushed = FALSE], s)), s)

\* What a function returns: the thread and the address to go on at.
To(t, addr) == [t |-> t, addr |-> addr]
Found(t, s) == To(t, CcLookup(t, s))
-----------------------------------------------------------------------------
(* traces_common.c *)

\* The source address of the trace being built.
ActiveTraceSpc(t) == t.meta[t.active_trace.source_bb].source_addr

ActiveTraceLookupOrScan(t, s) ==
  IF s = ActiveTraceSpc(t) THEN To(t, t.active_trace.entry_addr)
  ELSE Found(LookupOrScanT(t, s), s)

\* The trace that starts at s, if there is one.
ActiveTraceLookup(t, s) ==
  IF s = ActiveTraceSpc(t) THEN t.active_trace.entry_addr
  ELSE IF CcLookup(t, s) >= CODE_CACHE_SIZE THEN CcLookup(t, s) ELSE NoBlock

AllocateTraceFragment(t) ==
  IF t.active_trace.id \in TraceId THEN [t EXCEPT !.active_trace.id = @ + 1]
  ELSE [t EXCEPT !.fault = "allocate_trace_fragment"]
-----------------------------------------------------------------------------
(* traces.c *)

\* scan_trace(): translate s at write_p, under a new identifier, which the code
\* passes to the dispatcher (field head).
ScanTrace(t, s) ==
  LET id == t.active_trace.id
      p == t.active_trace.write_p
  IN  IF id \notin TraceId THEN AllocateTraceFragment(t)
      ELSE IF p \notin TraceAddr THEN [t EXCEPT !.fault = "a64_check_free_space"]
      ELSE [AllocateTraceFragment(t) EXCEPT
              !.tmeta[id] = ExitMeta([@ EXCEPT !.source_addr = s, !.tpc = p,
                                               !.branch_cache_status = {}], s),
              !.traces[p] = Translation(s, id),
              !.trace_fragment_count = @ + 1]

\* Every branch that was linked to the source block is made to jump to addr.
Redirect(code, links, addr) ==
  [a \in DOMAIN code |-> [code[a] EXCEPT !.slot =
     [k \in {1, 2} |-> IF <<a, k>> \in links THEN addr
                     ELSE code[a].slot[k]]]]

\* The stub of an exit gets an identifier of its own.
InstallStub(t) ==
  LET exit_id == t.active_trace.id
  IN  IF exit_id \notin TraceId THEN AllocateTraceFragment(t)
      ELSE [AllocateTraceFragment(t) EXCEPT
              !.tmeta[exit_id].tpc = t.active_trace.write_p,
              !.tmeta[exit_id].exit_branch_type = "trace_exit",
              !.tmeta[exit_id].branch_cache_status = {"BRANCH_LINKED"}]

\* One recorded exit of the trace: it is linked to its target, through a stub if
\* that is a basic block or out of reach.  The stubs start at write_p, which must
\* be in reach itself.
InstallExit(t, e) ==
  IF e.to >= CODE_CACHE_SIZE /\ e.from - e.to <= BranchRange
  THEN [t EXCEPT !.traces[e.from].slot[1] = e.to]
  ELSE IF t.active_trace.write_p - e.from > BranchRange
  THEN [t EXCEPT !.fault = "install_trace"]
  ELSE [InstallStub(RecordCcLink(t, <<e.from, 1>>, e.to)) EXCEPT
          !.traces[e.from].slot[1] = e.to]

\* The trace, whose exits are linked, is complete.  A trap in the block it
\* replaces, bb_source, tells if that remains reachable.
CommitTrace(t, bb_source) ==
  [t EXCEPT !.trace_id = t.active_trace.id, !.trace_cache_next = t.active_trace.write_p,
            !.traps = @ \cup {bb_source}]

\* (Variant: the branches linked to the source block are left alone.)
InstallTraceKeepsLinks(t) ==
  LET a == t.active_trace
      l == [t EXCEPT !.active_trace.active = FALSE,
                     !.entry_address[ActiveTraceSpc(t)] = a.entry_addr]
  IN  CommitTrace(FoldLeft(InstallExit, l, a.exits), a.source_bb)

\* The trace takes the place of its source block: in the branches linked to the
\* block and in the table.
InstallTrace(t) ==
  LET a == t.active_trace
      links == t.meta[a.source_bb].linked_from
      l == [t EXCEPT !.active_trace.active = FALSE,
                     !.blocks = Redirect(t.blocks, links, a.entry_addr),
                     !.traces = Redirect(t.traces, links, a.entry_addr),
                     !.entry_address[ActiveTraceSpc(t)] = a.entry_addr]
  IN  IF ~ a.active THEN [t EXCEPT !.fault = "install_trace"]
      ELSE CommitTrace(FoldLeft(InstallExit, l, a.exits), a.source_bb)

\* trace_record_exit(): an exit at from, to what the lookup l has found.
TraceRecordExit(l, from) ==
  IF Len(l.t.active_trace.exits) >= MAX_TRACE_REC_EXITS
  THEN [l.t EXCEPT !.fault = "trace_record_exit"]
  ELSE [l.t EXCEPT !.active_trace.exits = Append(@, [from |-> from, to |-> l.addr])]

\* (Variant: the condition of the exit is not inverted.)
SetUpTraceExitNotInverted(t, id, is_taken) ==
  LET m == t.tmeta[id]
      c == [t EXCEPT !.traces[m.tpc].on = IF is_taken THEN "taken" ELSE "skipped"]
      addr == IF is_taken THEN m.branch_skipped_addr ELSE m.branch_taken_addr
  IN  TraceRecordExit(ActiveTraceLookupOrScan(c, addr), m.tpc)

\* The conditional branch that leaves the trace at fragment id, and its record.
\* Until the trace is installed it jumps to itself.
SetUpTraceExit(t, id, is_taken) ==
  LET m == t.tmeta[id]
      c == [t EXCEPT !.traces[m.tpc].on = IF is_taken THEN "skipped" ELSE "taken"]
      addr == IF is_taken THEN m.branch_skipped_addr ELSE m.branch_taken_addr
  IN  TraceRecordExit(ActiveTraceLookupOrScan(c, addr), m.tpc)

\* The slot for what follows the fragment at p.
NextSlot(t, p) == IF t.traces[p].exit \in CondTypes THEN 2 ELSE 1

\* a64_cc_branch() to addr, after the fragment that ends at write_p.
A64TraceBranch(t, addr) ==
  LET p == t.active_trace.write_p - 1
      k == NextSlot(t, p)
  IN  RecordCcLink([t EXCEPT !.traces[p].slot[k] = addr], <<p, k>>, addr)

\* The trace ends after fragment id with a branch to what the lookup l has found.
EarlyTraceExit(l, id) ==
  To([InstallTrace(A64TraceBranch(l.t, l.addr)) EXCEPT
        !.tmeta[id].branch_cache_status = @ \cup {"BOTH_LINKED"}],
     l.addr)

\* The trace region, or the identifiers, are too far used up to begin a trace.
TraceCacheFull(t) ==
  \/ t.trace_cache_next >= TraceLimit
  \/ t.trace_id >= CODE_CACHE_SIZE + TRACE_FRAGMENT_NO - TRACE_FRAGMENT_OVERP

\* The exits that the first fragment of a trace may have.
HeadTypes == CondTypes \cup {"uncond_imm_a64"}

\* The first fragment of a trace has been translated.
CheckHead(t, id) ==
  IF t.fault = "none" /\ t.tmeta[id].exit_branch_type \notin HeadTypes
  THEN [t EXCEPT !.fault = "create_trace"] ELSE t

\* create_trace()
CreateTrace(t, bb_source) ==
  LET s == t.meta[bb_source].source_addr
      z == [t EXCEPT !.trace_fragment_count = 0]
      a == [z EXCEPT
              !.active_trace = [id |-> t.trace_id, source_bb |-> bb_source,
                                write_p |-> t.trace_cache_next,
                                entry_addr |-> t.trace_cache_next,
                                active |-> TRUE, exits |-> <<>>]]
  IN  IF t.meta[bb_source].exit_branch_type \notin HeadTypes
      THEN To([z EXCEPT !.fault = "create_trace"], bb_source)
      ELSE IF TraceCacheFull(z)
      THEN Found(LookupOrScanT(FlushTraces(FlushCodeCache(z)), s), s)
      ELSE To(CheckHead(ScanTrace(a, s), t.trace_id), t.trace_cache_next)

\* (Variant: the reach of the exits is not checked.)
TraceExitStubsFitAlways(t, p) == TRUE

\* Whether the exits recorded so far reach their stubs, if those start at p.
TraceExitStubsFit(t, p) ==
  \A e \in Range(t.active_trace.exits) : p - e.from <= BranchRange

\* (Variant: the trace goes on after a flush.)
TraceFlushedNever(t) == FALSE

\* The flush that the exit of the trace caused is noticed.
TraceFlushed(t) == t.was_flushed

\* (Variant: one fragment too many.)
TraceTooLongLate(t) == t.trace_fragment_count > MAX_TRACE_FRAGMENTS + 1

TraceTooLong(t) == t.trace_fragment_count > MAX_TRACE_FRAGMENTS

\* The new fragment for target has been translated at write_p, after fragment id.
\* If the exits would not reach their stubs behind it, the trace ends before it.
AddFragment(t, target, id) ==
  LET p == t.active_trace.write_p
      n == [t EXCEPT !.traces[p - 1].slot[NextSlot(t, p - 1)] = p,
                     !.active_trace.write_p = p + 1]
  IN  IF t.fault # "none" THEN To(t, p)
      ELSE IF ~ TraceExitStubsFit(t, p + 1)
      THEN EarlyTraceExit(ActiveTraceLookupOrScan(t, target), id)
      ELSE To(IF t.tmeta[t.active_trace.id - 1].exit_branch_type = "uncond_branch_reg"
              THEN InstallTrace(n) ELSE n, p)

\* The rest of trace_dispatcher(), after the exit of fragment id has been made.
ExtendTrace(t, target, id) ==
  LET p == t.active_trace.write_p IN
  IF t.fault # "none" THEN To(t, p)
  ELSE IF TraceFlushed(t) THEN Found(LookupOrScanT(t, target), target)
  ELSE IF \/ p >= TraceLimit
          \/ ~ TraceExitStubsFit(t, p + TRACE_EXIT_STUB_GUARD)
          \/ TraceTooLong(t)
  THEN EarlyTraceExit(ActiveTraceLookupOrScan(t, target), id)
  ELSE IF ActiveTraceLookup(t, target) # NoBlock
  THEN EarlyTraceExit(To(t, ActiveTraceLookup(t, target)), id)
  ELSE AddFragment(ScanTrace(t, target), target, id)

\* trace_dispatcher(), for an exit with metadata of fragment id.
TraceDispatcher(t, target, id) ==
  LET m == t.tmeta[id]
      z == [t EXCEPT !.was_flushed = FALSE]
      is_taken == m.branch_taken_addr = target
      linked(u, flag) == [u EXCEPT !.tmeta[id].branch_cache_status = {flag},
                                   !.active_trace.write_p = m.tpc + 1]
  IN  CASE m.exit_branch_type \in CondTypes ->
             ExtendTrace(linked(SetUpTraceExit(z, id, is_taken),
                                IF is_taken THEN "BRANCH_LINKED" ELSE "FALLTHROUGH_LINKED"),
                         target, id)
        [] m.exit_branch_type = "uncond_imm_a64" ->
             ExtendTrace(linked(z, "BRANCH_LINKED"), target, id)
        [] m.exit_branch_type = "uncond_branch_reg" ->
             Found(LookupOrScanT(z, target), target)
        [] OTHER -> To([z EXCEPT !.fault = "trace_dispatcher"], m.tpc)

\* The exit of block source_index, of this type, is linked to target.
LinkExit(t, target, source_index, type) ==
  IF source_index = 0 \/ t.was_flushed THEN t
  ELSE DispatcherAarch64(t, source_index, type, target, CcLookup(t, target))

\* dispatcher()
DispatcherT(t, target, source_index) ==
  IF source_index >= CODE_CACHE_SIZE THEN TraceDispatcher(t, target, source_index)
  ELSE Found(LinkExit(LookupOrScanT([t EXCEPT !.was_flushed = FALSE], target), target,
                      source_index, t.meta[source_index].exit_branch_type),
             target)
-----------------------------------------------------------------------------
(* Execution. *)

TracesInit ==
  /\ td = LookupOrScanT(InitThread @@ TraceFields, Entry)
  /\ cur = CcLookup(td, Entry)
  /\ want = Entry
  /\ phase = "body"

\* A C function returns to the code cache.
Return(d) == td' = d.t /\ EnterBlock(d.addr)

\* (Variant: every block counts its executions.)
IsHeadAny(addr) == addr \in BlockId

\* The blocks that scan_a64() lets count their executions: those that can head a
\* trace.
IsHead(addr) ==
  addr \in BlockId /\ td.blocks[addr].exit \in HeadTypes

Counted(t) == IF IsHead(cur) THEN [t EXCEPT !.exec_count[cur] = @ + 1] ELSE t

UnmapCodeT(t, gone) ==
  FlushTraces(UnmapCode([t EXCEPT !.traces = [p \in TraceAddr |->
    IF t.traces[p].spc \in gone THEN [t.traces[p] EXCEPT !.fresh = FALSE]
    ELSE t.traces[p]]], gone))

\* The body runs, as in CodeCache; in a basic block, trace_head_incr() first.
TracesRunBody ==
  LET s == CodeAt(td, cur).spc IN
  /\ td.fault = "none"
  /\ phase = "body"
  /\ IsHead(cur) => td.exec_count[cur] + 1 < HotCount
  /\ want' \in Successors(s)
  /\ \/ td' = Counted(td)
     \/ Prog[s].unmaps # {} /\ td' = UnmapCodeT(Counted(td), Prog[s].unmaps)
  /\ phase' = "exit"
  /\ UNCHANGED cur

\* trace_head_incr(): the counter comes round to zero.
HotBlock ==
  /\ td.fault = "none"
  /\ phase = "body"
  /\ IsHead(cur)
  /\ td.exec_count[cur] + 1 = HotCount
  /\ Return(CreateTrace([td EXCEPT !.exec_count[cur] = 0], cur))

TracesLinkedExit ==
  LET b == CodeAt(td, cur) IN
  /\ td.fault = "none"
  /\ phase = "exit"
  /\ b.exit # "uncond_branch_reg"
  /\ \E o \in Outcomes(b, want) :
       /\ b.slot[SlotFor(b, o)] # NoBlock
       /\ EnterBlock(b.slot[SlotFor(b, o)])
  /\ UNCHANGED td

TracesDispatchedExit ==
  LET b == CodeAt(td, cur) IN
  /\ td.fault = "none"
  /\ phase = "exit"
  /\ b.exit # "uncond_branch_reg"
  /\ \E o \in Outcomes(b, want) :
       /\ b.slot[SlotFor(b, o)] = NoBlock
       /\ Return(DispatcherT(td, b[o], b.head))

TracesInlineHashHit ==
  /\ td.fault = "none"
  /\ phase = "exit"
  /\ CodeAt(td, cur).exit = "uncond_branch_reg"
  /\ CcLookup(td, want) # NoBlock
  /\ EnterBlock(CcLookup(td, want))
  /\ UNCHANGED td

TracesInlineHashMiss ==
  /\ td.fault = "none"
  /\ phase = "exit"
  /\ CodeAt(td, cur).exit = "uncond_branch_reg"
  /\ CcLookup(td, want) = NoBlock
  /\ Return(DispatcherT(td, want, CodeAt(td, cur).head))

TracesNext ==
  \/ TracesRunBody \/ HotBlock \/ TracesLinkedExit \/ TracesDispatchedExit
  \/ TracesInlineHashHit \/ TracesInlineHashMiss

TracesSpec == TracesInit /\ [][TracesNext]_vars
-----------------------------------------------------------------------------
(* What traces must not break. *)

\* The code that can be reached: live blocks and the traces installed.
Installed(t) == CODE_CACHE_SIZE .. t.trace_cache_next - 1
Known(t) == Live(t) \cup Installed(t)

\* The variables are in their ranges: what executes is in the cache or in the
\* trace region, and the counter of fragments stops at the limit.
TracesTypeOK ==
  /\ cur \in BlockId \cup TraceAddr
  /\ want \in SPC
  /\ phase \in {"body", "exit"}
  /\ td.free_block \in 0 .. CODE_CACHE_SIZE
  /\ td.trace_cache_next \in CODE_CACHE_SIZE .. CODE_CACHE_SIZE + TRACE_CACHE_SIZE
  /\ \A s \in SPC : CcLookup(td, s) \in BlockId \cup TraceAddr
  /\ td.traps \subseteq BlockId
  /\ td.trace_fragment_count \in 0 .. MAX_TRACE_REC_EXITS

\* Transparency with traces: what executes is the program, whether from basic
\* blocks, installed traces or a trace that is being built.
TracesApp == INSTANCE Application WITH at <- CodeAt(td, cur).spc
TracesTransparent == TracesApp!AppSpec

\* The lookup table leads to installed code of its key: a trace is only ever
\* installed in the place of the block it was made from, never in that of a
\* block that came there when the cache was flushed under it.
TableLeads ==
  \A s \in SPC : CcLookup(td, s) # NoBlock =>
    CcLookup(td, s) \in Known(td) /\ CodeAt(td, CcLookup(td, s)).spc = s

\* Every branch in a live block or an installed trace, trace exits included,
\* leads to known code of its target.
TraceBranchesLead ==
  \A a \in Known(td) : LET b == CodeAt(td, a) IN
    \A o \in Reach(b) : LET to == b.slot[SlotFor(b, o)] IN
      to # NoBlock => to \in Known(td) /\ CodeAt(td, to).spc = b[o]

\* The trap that install_trace() writes into the block it replaces, to detect if
\* it remains reachable, is never executed.
NeverTrapped == phase = "body" => cur \notin td.traps

\* install_trace() moves every way into the block it replaces: branches and trace
\* exits lead to known code of their target, and never to the trap left behind.
TraceLinksSound == TraceBranchesLead /\ NeverTrapped

\* The bounds on one trace fit together: there is an exit record, an identifier,
\* room in the trace region and a stub in reach whenever one is needed.
TraceBoundsSuffice ==
  td.fault \notin {"trace_record_exit", "allocate_trace_fragment",
                   "a64_check_free_space", "install_trace"}

\* No thread ends in one of the endless loops for an exit type that cannot be:
\* in create_trace() or in trace_dispatcher().
NeverSpins == td.fault \notin {"create_trace", "trace_dispatcher"}

\* The bounds suffice and what they bound stays in its range, the traces and
\* blocks that the thread executes included.
TraceBoundsHold == TracesTypeOK /\ TraceBoundsSuffice

\* Building a trace never ends the process nor hangs it.
TraceNeverFails == NeverSpins /\ TraceBoundsSuffice
=============================================================================
