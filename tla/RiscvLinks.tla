------------------------------ MODULE RiscvLinks ------------------------------
(***************************************************************************)
(* How the RISC-V port links basic blocks to one another: the exits the    *)
(* scanner emits (arch/riscv/scanner_riscv.c), what the dispatcher writes   *)
(* over them once a target is in the code cache, with its jump trampolines *)
(* (arch/riscv/dispatcher_riscv.c), and how install_trace redirects those   *)
(* links (arch/riscv/riscv_traces.c).                                      *)
(*                                                                         *)
(* The code cache is modelled at the level of bytes: an instruction is a   *)
(* record with its address and its length, and writing one destroys every  *)
(* instruction it overlaps.  A fragment at tpc begins with a 6-byte pop of *)
(* a0 and a1, so it is entered at tpc with the two registers on the stack, *)
(* or at tpc + 6 with nothing pushed.                                      *)
(***************************************************************************)
EXTENDS Integers, Sequences, FiniteSets, SequencesExt

CONSTANTS RExit,          \* source address -> its exit, a jal or a branch
          RIndirect,      \* targets of indirect jumps
          BranchRange,    \* reach of a conditional branch (4 KiB)
          JalRange,       \* reach of JAL (1 MiB)
          MaxDistance,    \* RISCV_TRAMPOLINE_MAX_DISTANCE
          Slots,          \* RISCV_TRAMPOLINE_SLOTS
          MaxHops,        \* RISCV_TRAMPOLINE_MAX_HOPS
          RGap,           \* distances between consecutive blocks
          RMaxBlocks,     \* blocks before allocate_bb flushes
          RTraceBase,     \* address of code_cache->traces
          RTraceSize,     \* size of a trace
          RMaxTraces      \* bound on the traces installed

VARIABLES rblocks,        \* the scanned blocks, in allocation order
          rtraces,        \* the installed traces
          rcode,          \* the instructions in the code cache
          rlinks,         \* the records of record_cc_link, newest first
          rlinked,        \* ghost: exits the dispatcher has linked
          rinstallFlushed \* ghost: install_trace has flushed the code cache

riscvVars == <<rblocks, rtraces, rcode, rlinks, rlinked, rinstallFlushed>>

NoTpc == -1
Cache == [blocks |-> rblocks, traces |-> rtraces, code |-> rcode, links |-> rlinks]
EmptyCache == [blocks |-> <<>>, traces |-> {}, code |-> {}, links |-> <<>>]

-----------------------------------------------------------------------------
(* Instructions and the ranges of the jumps *)

Inst(op, len, to, side) == [op |-> op, len |-> len, to |-> to, side |-> side]
Nop == Inst("nop", 4, 0, "-")
Save == Inst("save", 20, 0, "-")         \* riscv_save_context and the block id
PushA0A1 == Inst("push", 12, 0, "-")
Jal(to) == Inst("jump", 4, to, "-")
Jalr(to) == Inst("jump", 8, to, "-")
Branch(to, side) == Inst("branch", 4, to, side)
ToDispatcher(spc) == Inst("dispatch", 16, spc, "-")

JalReaches(from, to) == to - from >= -JalRange /\ to - from < JalRange
BranchReaches(from, to) == to - from >= -BranchRange /\ to - from < BranchRange

\* Writes the instruction at an address over what was there.
Put(code, at, i) ==
  {c \in code : c.at + c.len <= at \/ c.at >= at + i.len}
    \cup {[at |-> at, op |-> i.op, len |-> i.len, to |-> i.to, side |-> i.side]}

PutAll(code, at, is) ==
  FoldLeft(LAMBDA acc, i : [code |-> Put(acc.code, acc.at, i), at |-> acc.at + i.len],
           [code |-> code, at |-> at], is)

-----------------------------------------------------------------------------
(* The exits that the scanner emits *)

EntrySize == 24                       \* what precedes the exit in a block
Pad == <<Nop, Nop, Nop, Nop, Nop, Nop>>

\* riscv_jump and riscv_cond_branch: save the context and go to the dispatcher,
\* the latter behind six NOPs, which leave room for one linked side.
ExitCode(spc, exitAt) ==
  LET e == RExit[spc]
  IN IF e.kind = "jal"
     THEN <<Save, ToDispatcher(e.taken)>>
     ELSE Pad \o <<Save, Branch(exitAt + 24 + 20 + 4 + 16, "taken"),
                   ToDispatcher(e.skipped), ToDispatcher(e.taken)>>

\* allocate_bb and scan_riscv: a block at the next free position, after a flush
\* when there is none; the trampoline slots are what its last block has left.
Scan(c, spc, gap, room) ==
  LET full == Len(c.blocks) >= RMaxBlocks
      base == IF full THEN EmptyCache ELSE c
      at == IF base.blocks = <<>> THEN 0 ELSE Last(base.blocks).at + gap
      done == PutAll(base.code, at + EntrySize, ExitCode(spc, at + EntrySize))
      b == [spc |-> spc, at |-> at, exit |-> at + EntrySize,
            trampoline |-> IF room THEN done.at ELSE NoTpc, used |-> 0]
  IN [cache |-> [base EXCEPT !.blocks = Append(@, b), !.code = done.code],
      flushed |-> full, tpc |-> at]

CcLookup(c, spc) ==
  LET traces == {t \in c.traces : t.spc = spc}
      blocks == {i \in DOMAIN c.blocks : c.blocks[i].spc = spc}
  IN IF traces # {} THEN (CHOOSE t \in traces : TRUE).at
     ELSE IF blocks # {} THEN c.blocks[CHOOSE i \in blocks : TRUE].at
     ELSE NoTpc

LookupOrScan(c, spc, gap, room) ==
  LET tpc == CcLookup(c, spc)
  IN IF tpc # NoTpc THEN [cache |-> c, flushed |-> FALSE, tpc |-> tpc]
     ELSE Scan(c, spc, gap, room)

\* addr_to_bb_id; blocks are contiguous, so an address belongs to the last
\* block that starts at or before it.
BlockOf(c, addr) ==
  IF addr >= RTraceBase THEN 0
  ELSE CHOOSE i \in DOMAIN c.blocks :
         /\ c.blocks[i].at <= addr
         /\ \A j \in DOMAIN c.blocks : c.blocks[j].at <= addr => j <= i

RecordCcLink(c, from, to) ==
  LET b == BlockOf(c, to)
  IN IF b = 0 THEN c
     ELSE [c EXCEPT !.links = <<[from |-> from, to |-> c.blocks[b].spc]>> \o @]

-----------------------------------------------------------------------------
(* Jump trampolines *)

SlotAddr(b) == b.trampoline + b.used * 4

\* (Variant of FindTrampolineSlot: the slot nearest the source, reachable or not.)
FindTrampolineSlotNearest(c, source, target) ==
  LET candidates ==
        {i \in DOMAIN c.blocks :
           LET b == c.blocks[i]
           IN /\ b.trampoline # NoTpc
              /\ b.used < Slots
              /\ IF source < target
                 THEN SlotAddr(b) > source /\ SlotAddr(b) < target
                 ELSE SlotAddr(b) < source /\ SlotAddr(b) > target}
  IN IF candidates = {} THEN 0
     ELSE CHOOSE i \in candidates : \A j \in candidates :
            IF source < target THEN SlotAddr(c.blocks[i]) <= SlotAddr(c.blocks[j])
                               ELSE SlotAddr(c.blocks[i]) >= SlotAddr(c.blocks[j])

\* riscv_find_trampoline_slot: of the slots between source and target from which
\* JAL reaches the target, the one nearest the source; 0 when there is none.
FindTrampolineSlot(c, source, target) ==
  LET candidates ==
        {i \in DOMAIN c.blocks :
           LET b == c.blocks[i]
           IN /\ b.trampoline # NoTpc
              /\ b.used < Slots
              /\ IF source < target
                 THEN SlotAddr(b) > source /\ SlotAddr(b) < target
                 ELSE SlotAddr(b) < source /\ SlotAddr(b) > target
              /\ JalReaches(SlotAddr(b), target)}
  IN IF candidates = {} THEN 0
     ELSE CHOOSE i \in candidates : \A j \in candidates :
            IF source < target THEN SlotAddr(c.blocks[i]) <= SlotAddr(c.blocks[j])
                               ELSE SlotAddr(c.blocks[i]) >= SlotAddr(c.blocks[j])

\* The blocks whose slots form the chain, the one nearest the target first;
\* <<0>> when there is no chain.
RECURSIVE Chain(_, _, _, _)
Chain(c, source, next, hops) ==
  IF JalReaches(source, next) THEN hops
  ELSE IF Len(hops) >= MaxHops THEN <<0>>
  ELSE LET i == FindTrampolineSlot(c, source, next)
       IN IF i = 0 THEN <<0>>
          ELSE Chain(c, source, SlotAddr(c.blocks[i]), Append(hops, i))

Distance(a, b) == IF a >= b THEN a - b ELSE b - a

\* riscv_try_jump_trampolines: writes the chain's jumps and the jump at the
\* source, or nothing.  A JAL that cannot reach its target fails an assertion,
\* here an instruction that goes nowhere.
CheckedJal(from, to) == IF JalReaches(from, to) THEN Jal(to) ELSE Jal(NoTpc)

WriteChain(c, source, target, hops) ==
  LET slot(k) == SlotAddr(c.blocks[hops[k]])
      write(acc, k) ==
        [acc EXCEPT !.code = Put(@, slot(k),
                                 CheckedJal(slot(k), IF k = 1 THEN target ELSE slot(k - 1))),
                    !.blocks[hops[k]].used = @ + 1]
      written == FoldLeft(write, c, [k \in 1 .. Len(hops) |-> k])
      first == IF hops = <<>> THEN target ELSE slot(Len(hops))
  IN IF hops = <<0>> THEN [ok |-> FALSE, cache |-> c]
     ELSE [ok |-> TRUE,
           cache |-> [written EXCEPT !.code = Put(@, source, CheckedJal(source, first))]]

TryJumpTrampolines(c, source, target) ==
  IF Distance(source, target) >= MaxDistance THEN [ok |-> FALSE, cache |-> c]
  ELSE WriteChain(c, source, target, Chain(c, source, target, <<>>))

-----------------------------------------------------------------------------
(* Linking *)

WriteLink(c, at, target, chain) ==
  IF JalReaches(at, target + 6)
  THEN [c EXCEPT !.code = PutAll(@, at, <<Jal(target + 6), Nop, Nop, Nop, Nop>>).code]
  ELSE IF chain.ok
  THEN [chain.cache EXCEPT !.code = PutAll(@, at + 4, <<Nop, Nop, Nop, Nop>>).code]
  ELSE [c EXCEPT !.code = PutAll(@, at, <<PushA0A1, Jalr(target)>>).code]

\* (Variant of LinkTo: the link is not recorded.)
LinkToUnrecorded(c, at, target) ==
  [cache |-> WriteLink(c, at, target, TryJumpTrampolines(c, at, target + 6)), at |-> at + 20]

\* riscv_link_to: JAL past the pop, through trampolines if need be and padded to
\* the length of the long form; otherwise push a0 and a1 and use JALR.
LinkTo(c, at, target) ==
  [cache |-> RecordCcLink(WriteLink(c, at, target, TryJumpTrampolines(c, at, target + 6)), at, target),
   at |-> at + 20]

Invert(side) == IF side = "taken" THEN "skipped" ELSE "taken"

\* The branch around the link of one side, and the link of the other, if any.
LinkAround(b, side, one, second) ==
  LET skipped == [one.cache EXCEPT !.code = Put(@, b.exit, Branch(one.at, Invert(side)))]
  IN IF second # NoTpc THEN LinkTo(skipped, one.at, second).cache ELSE skipped

\* riscv_link_branch: a near target is branched to; otherwise the branch skips
\* the link of one side.  The other side's link follows if it is in the cache,
\* and the NOPs and the original exit if it is not.  (The second case of the
\* code tests the target that the first case has just found out of reach, so
\* it is never taken.)
LinkSides(c, b, target, fallthrough) ==
  LET branched == RecordCcLink([c EXCEPT !.code = Put(@, b.exit, Branch(target + 6, "taken"))],
                               b.exit, target + 6)
  IN IF target # NoTpc /\ BranchReaches(b.exit, target + 6)
     THEN IF fallthrough # NoTpc THEN LinkTo(branched, b.exit + 4, fallthrough).cache
                                 ELSE branched
     ELSE IF target # NoTpc
          THEN LinkAround(b, "taken", LinkTo(c, b.exit + 4, target), fallthrough)
          ELSE LinkAround(b, "skipped", LinkTo(c, b.exit + 4, fallthrough), NoTpc)
LinkBranch(c, b) == LinkSides(c, b, CcLookup(c, RExit[b.spc].taken), CcLookup(c, RExit[b.spc].skipped))

\* (Variant of LinkExit: a branch whose target is near is never linked to its
\* fallthrough.)
LinkNear(c, b, target) ==
  IF RExit[b.spc].kind = "jal" THEN LinkTo(c, b.exit, target).cache
  ELSE IF CcLookup(c, RExit[b.spc].taken) # NoTpc
       THEN c ELSE LinkBranch(c, b)

\* dispatcher_riscv
LinkExit(c, b, target) ==
  IF RExit[b.spc].kind = "jal" THEN LinkTo(c, b.exit, target).cache
  ELSE LinkBranch(c, b)

-----------------------------------------------------------------------------
(* Redirecting the links to a new trace *)

\* riscv_jump_to
JumpTo(at, target) ==
  IF JalReaches(at, target + 6) THEN <<Jal(target + 6)>>
  ELSE <<PushA0A1, Jalr(target)>>

TargetOf(spc, side) == IF side = "taken" THEN RExit[spc].taken ELSE RExit[spc].skipped

\* active_trace_lookup
ActiveTraceLookup(c, active, spc) ==
  IF spc = active.spc THEN active.at
  ELSE LET tpc == CcLookup(c, spc)
       IN IF tpc >= RTraceBase THEN tpc ELSE NoTpc

\* active_trace_lookup_or_scan
ActiveTraceLookupOrScan(c, active, spc, gap, room) ==
  IF spc = active.spc THEN [cache |-> c, flushed |-> FALSE, tpc |-> active.at]
  ELSE LookupOrScan(c, spc, gap, room)

\* The exit of a branch is rewritten whole: the branch, the jump of the cold side
\* and the jump of the hot one, the link of the cold side recorded at the end.
WriteHot(other, jump) ==
  LET patched == [other.cache EXCEPT !.code = jump.code]
  IN [cache |-> IF other.tpc < RTraceBase THEN RecordCcLink(patched, jump.at, other.tpc) ELSE patched,
      flushed |-> other.flushed]
WriteCold(b, side, hot, other, cold) ==
  WriteHot(other, PutAll(Put(cold.code, b.exit, Branch(cold.at, side)), cold.at, JumpTo(cold.at, hot)))
PatchBranch(b, active, side, other) ==
  WriteCold(b, side,
            ActiveTraceLookup(other.cache, active, TargetOf(b.spc, side)), other,
            PutAll(other.cache.code, b.exit + 4, JumpTo(b.exit + 4, other.tpc)))

\* One iteration of install_trace's loop, for a link from a basic block.  The
\* other side of a branch is looked up or scanned first, which can flush the
\* cache that is being patched.
RedirectFrom(c, b, link, active, gap, room) ==
  LET e == RExit[b.spc]
      viaTaken == ActiveTraceLookup(c, active, e.taken) # NoTpc
  IN IF e.kind = "branch"
     THEN PatchBranch(b, active, IF viaTaken THEN "taken" ELSE "skipped",
                      ActiveTraceLookupOrScan(c, active, IF viaTaken THEN e.skipped ELSE e.taken, gap, room))
     ELSE [cache |-> [c EXCEPT !.code = PutAll(@, link.from, JumpTo(link.from, active.at)).code],
           flushed |-> FALSE]
Redirect(acc, link, active, gap, room) ==
  IF acc.flushed THEN acc
  ELSE RedirectFrom(acc.cache, acc.cache.blocks[BlockOf(acc.cache, link.from)], link, active, gap, room)

\* The links to the trace head at the time of the call; install_trace walks the
\* head's list, to whose front it may itself add.
LinksTo(c, spc) == SelectSeq(c.links, LAMBDA l : l.to = spc)

InstallTrace(c, active, gap, room) ==
  LET done == FoldLeft(LAMBDA acc, l : Redirect(acc, l, active, gap, room),
                       [cache |-> c, flushed |-> FALSE], LinksTo(c, active.spc))
  IN IF done.flushed THEN done
     ELSE [done EXCEPT !.cache.traces = @ \cup {active}]

-----------------------------------------------------------------------------
(* Running an exit *)

Entry(c, addr) ==
  {f.spc : f \in {f \in ToSet(c.blocks) \cup c.traces : addr \in {f.at, f.at + 6}}}

\* Where control goes from pc when the exit's branch takes the given side, and
\* how many registers are on the stack when it gets there.  The bound only ends
\* a loop.
RECURSIVE Run(_, _, _, _, _)
Run(c, pc, side, depth, fuel) ==
  LET here == {i \in c.code : i.at = pc}
      i == CHOOSE i \in here : TRUE
  IN IF Entry(c, pc) # {}
     THEN [to |-> "block", at |-> pc, spc |-> CHOOSE s \in Entry(c, pc) : TRUE,
           depth |-> depth + IF \E f \in ToSet(c.blocks) \cup c.traces : f.at = pc THEN -2 ELSE 0]
     ELSE IF here = {} \/ fuel = 0 THEN [to |-> "garbage", at |-> pc, spc |-> 0, depth |-> depth]
     ELSE CASE i.op = "nop" -> Run(c, pc + 4, side, depth, fuel - 1)
            [] i.op = "save" -> Run(c, pc + i.len, side, depth + 3, fuel - 1)
            [] i.op = "push" -> Run(c, pc + i.len, side, depth + 2, fuel - 1)
            [] i.op = "jump" -> Run(c, i.to, side, depth, fuel - 1)
            [] i.op = "branch" ->
                 Run(c, IF i.side = side THEN i.to ELSE pc + 4, side, depth, fuel - 1)
            [] i.op = "dispatch" -> [to |-> "dispatcher", at |-> pc, spc |-> i.to, depth |-> depth - 3]

Sides(spc) == IF RExit[spc].kind = "jal" THEN {"taken"} ELSE {"taken", "skipped"}
Outcome(c, b, side) == Run(c, b.exit, side, 0, 30)

-----------------------------------------------------------------------------
(* The state machine *)

RiscvInit == /\ rblocks = <<>> /\ rtraces = {} /\ rcode = {} /\ rlinks = <<>>
             /\ rlinked = {} /\ rinstallFlushed = FALSE

SetCache(c) == /\ rblocks' = c.blocks
               /\ rtraces' = c.traces
               /\ rcode' = c.code
               /\ rlinks' = c.links

\* The exit of block i reaches the dispatcher, which resolves the target and
\* links the exit unless the scan has flushed the cache.
RDispatch(i, side) ==
  LET b == rblocks[i]
      out == Outcome(Cache, b, side)
  IN /\ out.to = "dispatcher"
     /\ \E gap \in RGap, room \in BOOLEAN :
          LET found == LookupOrScan(Cache, out.spc, gap, room)
          IN IF found.flushed
             THEN SetCache(found.cache) /\ rlinked' = {}
             ELSE /\ SetCache(LinkExit(found.cache, b, found.tpc))
                  /\ rlinked' = rlinked \cup {<<i, side>>}
     /\ UNCHANGED rinstallFlushed

\* An indirect jump reaches the dispatcher, which does not link.
RArrive(spc) ==
  /\ CcLookup(Cache, spc) = NoTpc
  /\ \E gap \in RGap, room \in BOOLEAN :
       LET found == LookupOrScan(Cache, spc, gap, room)
       IN /\ SetCache(found.cache)
          /\ rlinked' = IF found.flushed THEN {} ELSE rlinked
  /\ UNCHANGED rinstallFlushed

\* A trace whose head is block i is complete and is installed.
RInstall(i) ==
  LET active == [spc |-> rblocks[i].spc,
                 at |-> RTraceBase + Cardinality(rtraces) * RTraceSize]
  IN /\ Cardinality(rtraces) < RMaxTraces
     /\ CcLookup(Cache, active.spc) < RTraceBase
     /\ \E gap \in RGap, room \in BOOLEAN :
          LET done == InstallTrace(Cache, active, gap, room)
          IN /\ SetCache(done.cache)
             /\ rlinked' = IF done.flushed THEN {} ELSE rlinked
             /\ rinstallFlushed' = (rinstallFlushed \/ done.flushed)

RiscvNext ==
  \/ \E i \in DOMAIN rblocks, side \in {"taken", "skipped"} :
       side \in Sides(rblocks[i].spc) /\ RDispatch(i, side)
  \/ \E spc \in RIndirect : RArrive(spc)
  \/ \E i \in DOMAIN rblocks : RInstall(i)

-----------------------------------------------------------------------------
(* Properties *)

GoesRight(b, side) ==
  LET out == Outcome(Cache, b, side)
  IN /\ out.to \in {"block", "dispatcher"}
     /\ out.spc = TargetOf(b.spc, side)
     /\ out.depth = 0

\* Whatever has been linked, chained through trampolines, or redirected to a
\* trace, each side of each exit goes to its own target (or to the dispatcher
\* with that target), with the stack as the code there expects it.  Except after
\* a flush inside install_trace, whose loop goes on with the trace that is gone.
ExitsReachTargets ==
  ~rinstallFlushed => \A i \in DOMAIN rblocks : \A side \in Sides(rblocks[i].spc) :
    GoesRight(rblocks[i], side)

\* A side that the dispatcher has linked does not come back to the dispatcher
\* before the next flush: relinking the exit for its other side, or redirecting
\* it to a trace, keeps the first link.
LinkedStaysLinked ==
  ~rinstallFlushed => \A l \in rlinked : Outcome(Cache, rblocks[l[1]], l[2]).to = "block"

\* Every direct jump from a block into another basic block is on that block's
\* list of links, under an address of the block it leaves, so that install_trace
\* finds it.
DirectLinksRecorded ==
  ~rinstallFlushed => \A i \in DOMAIN rblocks : \A side \in Sides(rblocks[i].spc) :
    LET out == Outcome(Cache, rblocks[i], side)
    IN out.to = "block" /\ CcLookup(Cache, out.spc) < RTraceBase =>
         \E l \in ToSet(rlinks) : l.to = out.spc /\ BlockOf(Cache, l.from) = i

\* Once a trace is installed, no linked exit enters the basic block it replaces:
\* every exit that jumped there has been redirected.
TraceReplacesBlock ==
  ~rinstallFlushed => \A i \in DOMAIN rblocks : \A side \in Sides(rblocks[i].spc) :
    LET out == Outcome(Cache, rblocks[i], side)
    IN out.to = "block" /\ (\E t \in rtraces : t.spc = out.spc) => out.at >= RTraceBase

\* Linking, chaining through trampolines and redirecting to a trace lead every
\* side of every exit to its target, keep what is linked linked, and miss no
\* branch to a block that a trace replaces.
LinksSound ==
  ExitsReachTargets /\ LinkedStaysLinked /\ DirectLinksRecorded /\ TraceReplacesBlock
=============================================================================
