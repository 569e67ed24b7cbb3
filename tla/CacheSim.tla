------------------------------ MODULE CacheSim ------------------------------
(***************************************************************************)
(* The cache simulator: cachesim.c, the buffers of cachesim.S and the      *)
(* cache model of cachesim_model.c.                                        *)
(*                                                                         *)
(* Each thread writes the addresses it accesses to a buffer; when it is    *)
(* full, and when the thread ends, cachesim_proc_buf() runs the entries    *)
(* through the first-level cache of the thread, whose misses go to the     *)
(* second level, which all threads share.  One first-level cache for each  *)
(* thread is modelled; the real one has two, with the same code.           *)
(*                                                                         *)
(* The second part is the translation side: the size of a fragment is only *)
(* known at its end and is patched into code emitted at its start.         *)
(***************************************************************************)
EXTENDS Integers, Sequences, SequencesExt, FiniteSets, FiniteSetsExt, Functions

CONSTANTS
  SimThread,     \* threads
  LineSize,      \* line_size of all caches
  L1Sets, L1Ways, L2Sets, L2Ways,
  MaxFetch,      \* max_fetch of the first level
  BufLen,        \* BUFLEN
  SimAccess,     \* accesses a program makes: [addr, size, write]
  MaxAccess,     \* bound on the accesses of each thread
  InstLen,       \* instruction lengths
  MaxFragment,   \* 0x7FFF: the largest size that one instruction sets
  MaxScanned,    \* bound on the bytes of a basic block
  MaxSkipped     \* bound on those of instructions of unknown size

ASSUME CacheSimAssumption ==
  /\ {LineSize, L1Sets, L1Ways, L2Sets, L2Ways, MaxFetch, BufLen} \subseteq Nat \ {0}
  /\ InstLen \subseteq 1..4 /\ MaxFragment > 8
  /\ \A a \in SimAccess : a.addr >= LineSize * L1Sets /\ a.addr >= LineSize * L2Sets /\ a.size > 0

VARIABLES
  l1,        \* l1d_model of each thread
  l2,        \* l2_model
  trace,     \* data_trace_buf of each thread
  simAt,     \* "run" or "ended"
  global,    \* stats of global_l1d
  done,      \* the accesses each thread has made
  fragment   \* of the block being translated: fragment_size, patched, scanned

cachesimVars == <<l1, l2, trace, simAt, global, done, fragment>>

-----------------------------------------------------------------------------
(* cachesim_model.c *)

Kind(write) == IF write THEN "write" ELSE "read"
ZeroStats == [references |-> [k \in {"read", "write"} |-> 0],
              misses     |-> [k \in {"read", "write"} |-> 0],
              writebacks |-> [k \in {"read", "write"} |-> 0]]

(* cachesim_model_init().  calloc() leaves every line with tag 0. *)
NewCache(sets, ways, fetch) ==
  [sets |-> sets, ways |-> ways, fetch |-> fetch,
   lines |-> [i \in 0..(sets * ways - 1) |-> [tag |-> 0, dirty |-> FALSE, timestamp |-> 0]],
   last_addr |-> 0, last_line |-> 0, stats |-> ZeroStats]

(* cachesim_get_set() and cachesim_get_tag(). *)
GetSet(c, addr) == (addr \div LineSize) % c.sets
GetTag(c, addr) == addr \div (LineSize * c.sets)

(* cachesim_evict_line() with REPLACE_LRU: the first of the oldest lines. *)
EvictLru(c, base) ==
  CHOOSE w \in 0..(c.ways - 1) :
    \A v \in 0..(c.ways - 1) : \/ c.lines[base + w].timestamp < c.lines[base + v].timestamp
                               \/ c.lines[base + w].timestamp = c.lines[base + v].timestamp /\ w <= v

(* cachesim_load_line(): a dirty line is written back. *)
LoadLine(c, line, addr, write) ==
  [c EXCEPT !.lines[line].tag = GetTag(c, addr), !.lines[line].dirty = FALSE,
            !.stats.writebacks[Kind(write)] = IF c.lines[line].dirty THEN @ + 1 ELSE @]

References(c) == c.stats.references["read"] + c.stats.references["write"]

(* update_dirty_bit() and update_line(). *)
UpdateDirty(c, line, write) == [c EXCEPT !.lines[line].dirty = @ \/ write]
UpdateLine(c, line, write) ==
  [UpdateDirty(c, line, write) EXCEPT
     !.lines[line].timestamp = References(c)]

(* The references counted for an access: its fetches of max_fetch bytes. *)
Fetches(c, addr, size) ==
  LET t_size == size + (addr % c.fetch)
  IN t_size \div c.fetch + (IF t_size % c.fetch # 0 THEN 1 ELSE 0)

CountReferences(c, addr, size, write) ==
  [c EXCEPT !.stats.references[Kind(write)] = @ + Fetches(c, addr, size)]

HitWays(c, addr) ==
  {w \in 0..(c.ways - 1) : c.lines[GetSet(c, addr) * c.ways + w].tag = GetTag(c, addr)}

(* (Variant of SwapToFront: the line is copied and stays where it was.) *)
CopyToFront(c, base, w) == [c EXCEPT !.lines[base] = c.lines[base + w]]

(* A hit in a way other than the first: its line moves to the first. *)
SwapToFront(c, base, w) ==
  [c EXCEPT !.lines[base] = c.lines[base + w], !.lines[base + w] = c.lines[base]]

CountMiss(c, write) == [c EXCEPT !.stats.misses[Kind(write)] = @ + 1]

(* One iteration of the loop of cachesim_ref().  The victim of a miss is   *)
(* chosen by the caller; line is the line used, miss says if it was one.   *)
RefLine(c, addr, write, victim) ==
  LET base == GetSet(c, addr) * c.ways
      hits == HitWays(c, addr)
  IN IF addr = c.last_addr
     THEN [cache |-> UpdateDirty(c, c.last_line, write), line |-> c.last_line, miss |-> FALSE]
     ELSE IF 0 \in hits
     THEN [cache |-> UpdateDirty(c, base, write), line |-> base, miss |-> FALSE]
     ELSE IF hits # {}
     THEN [cache |-> UpdateLine(SwapToFront(c, base, Min(hits)), base, write), line |-> base, miss |-> FALSE]
     ELSE LET line == base + victim
              loaded == LoadLine(CountMiss(c, write), line, addr, write)
          IN [cache |-> UpdateLine(loaded, line, write), line |-> line, miss |-> TRUE]

(* cachesim_ref() on the second level, for one line of the first. *)
RefL2(c, addr, write, victim) ==
  LET r == RefLine(CountReferences(c, addr, LineSize, write), addr, write, victim)
  IN [r.cache EXCEPT !.last_addr = addr + LineSize, !.last_line = r.line]

(* (Variant of MissToParent: only reads are fetched from the second level.) *)
MissToParentReads(p, r, addr, write, pick) ==
  IF r.miss /\ ~write THEN RefL2(p, addr, write, pick[References(p) % BufLen]) ELSE p

(* A miss of the first level is a reference of the second. *)
MissToParent(p, r, addr, write, pick) ==
  IF r.miss THEN RefL2(p, addr, write, pick[References(p) % BufLen]) ELSE p

(* The addresses of the lines that an access covers. *)
FirstLine(a) == (a.addr \div LineSize) * LineSize
LinesOf(a) == {l \in FirstLine(a)..(a.addr + a.size - 1) : l % LineSize = 0}

(* cachesim_ref() on a first-level cache c with parent p.  pick gives the  *)
(* victims that random() chooses in the second level.                      *)
Ref(c, p, a, pick) ==
  LET Step(s, addr) ==
        LET r == RefLine(s.c, addr, a.write, EvictLru(s.c, GetSet(s.c, addr) * s.c.ways))
        IN [c |-> r.cache, line |-> r.line, p |-> MissToParent(s.p, r, addr, a.write, pick)]
      order == SetToSortSeq(LinesOf(a), <)
      end == FoldLeft(Step, [c |-> CountReferences(c, a.addr, a.size, a.write), p |-> p, line |-> 0], order)
  IN [c |-> [end.c EXCEPT !.last_addr = Last(order) + LineSize, !.last_line = end.line], p |-> end.p]

-----------------------------------------------------------------------------
(* The buffers *)

(* What random() gives for successive misses. *)
Picks == [0..(BufLen - 1) -> 0..(L2Ways - 1)]

(* cachesim_proc_buf(): every entry goes through the cache, in order. *)
ProcBuf(c, p, entries, pick) ==
  FoldLeft(LAMBDA s, a : Ref(s.c, s.p, a, pick), [c |-> c, p |-> p], entries)

(* The test in cachesim_buf_write(), after the entry is written. *)
BufFull(entries) == Len(entries) = BufLen

(* cachesim_buf_write(). *)
BufWrite(t, a) ==
  LET entries == Append(trace[t], a)
  IN /\ simAt[t] = "run" /\ Len(done[t]) < MaxAccess
     /\ done' = [done EXCEPT ![t] = Append(@, a)]
     /\ \/ /\ ~BufFull(entries)
           /\ trace' = [trace EXCEPT ![t] = entries]
           /\ UNCHANGED <<l1, l2>>
        \/ /\ BufFull(entries)
           /\ \E pick \in Picks :
                LET r == ProcBuf(l1[t], l2, entries, pick)
                IN l1' = [l1 EXCEPT ![t] = r.c] /\ l2' = r.p
           /\ trace' = [trace EXCEPT ![t] = <<>>]
     /\ UNCHANGED <<simAt, global, fragment>>

AddStats(a, b) == [f \in DOMAIN a |-> [k \in {"read", "write"} |-> a[f][k] + b[f][k]]]

(* (Variant of EndBuf: what is left in the buffer is dropped.) *)
EndBufDropped(t, pick) == [c |-> l1[t], p |-> l2]

(* The rest of the buffer, when the thread ends. *)
EndBuf(t, pick) == ProcBuf(l1[t], l2, trace[t], pick)

(* cachesim_post_thread_handler(). *)
SimPostThread(t) ==
  /\ simAt[t] = "run"
  /\ simAt' = [simAt EXCEPT ![t] = "ended"]
  /\ \E pick \in Picks :
       LET r == EndBuf(t, pick)
       IN l1' = [l1 EXCEPT ![t] = r.c] /\ l2' = r.p /\ global' = AddStats(global, r.c.stats)
  /\ trace' = [trace EXCEPT ![t] = <<>>]
  /\ UNCHANGED <<done, fragment>>

-----------------------------------------------------------------------------
(* Translation: cachesim_pre_bb_handler(), cachesim_pre_inst_handler() and  *)
(* cachesim_post_bb_handler().  patched lists the sizes written by          *)
(* set_inst_size(), one for each piece of the block.                        *)

(* (Variant of FixedInstSize: the upper part is not rounded.) *)
FixedInstSizeTruncated(value) == [hi20 |-> (value \div 4096) % 2^20, lo12 |-> value % 4096]

(* emit_fixed_inst_size(): LUI of the upper 20 bits, rounded because ADDIW  *)
(* sign-extends its 12 bits.                                                *)
FixedInstSize(value) == [hi20 |-> ((value + 2048) \div 4096) % 2^20, lo12 |-> value % 4096]

(* What the two instructions put in the register. *)
Signed12(x) == IF x >= 2048 THEN x - 4096 ELSE x
Loaded(pair) == pair.hi20 * 4096 + Signed12(pair.lo12)

(* set_inst_size(). *)
SetInstSize(f) == Append(f.patched, FixedInstSize(2 * f.size))

(* The test in cachesim_pre_inst_handler(). *)
FragmentFull(size) == size > MaxFragment - 4

(* cachesim_pre_bb_handler(). *)
NewFragment == [size |-> 0, patched |-> <<>>, scanned |-> 0, skipped |-> 0, open |-> TRUE]

ScanInst(len) ==
  /\ fragment.open /\ fragment.scanned < MaxScanned
  /\ \/ /\ FragmentFull(fragment.size)
        /\ fragment' = [fragment EXCEPT !.patched = SetInstSize(fragment), !.size = len, !.scanned = @ + len]
     \/ /\ ~FragmentFull(fragment.size)
        /\ fragment' = [fragment EXCEPT !.size = @ + len, !.scanned = @ + len]
  /\ UNCHANGED <<l1, l2, trace, simAt, global, done>>

(* A load or store whose size is not known: the handler returns early.      *)
SkipInst(len) ==
  /\ fragment.open /\ fragment.skipped < MaxSkipped
  /\ fragment' = [fragment EXCEPT !.skipped = @ + len, !.scanned = @ + len]
  /\ UNCHANGED <<l1, l2, trace, simAt, global, done>>

PostBb ==
  /\ fragment.open
  /\ fragment' = [fragment EXCEPT !.patched = SetInstSize(fragment), !.open = FALSE]
  /\ UNCHANGED <<l1, l2, trace, simAt, global, done>>

-----------------------------------------------------------------------------
CacheSimInit ==
  /\ l1 = [t \in SimThread |-> NewCache(L1Sets, L1Ways, MaxFetch)]
  /\ l2 = NewCache(L2Sets, L2Ways, LineSize)
  /\ trace = [t \in SimThread |-> <<>>]
  /\ simAt = [t \in SimThread |-> "run"]
  /\ global = ZeroStats
  /\ done = [t \in SimThread |-> <<>>]
  /\ fragment = NewFragment

SimNext == \E t \in SimThread : (\E a \in SimAccess : BufWrite(t, a)) \/ SimPostThread(t)

FragmentNext == (\E len \in InstLen : ScanInst(len) \/ SkipInst(len)) \/ PostBb

-----------------------------------------------------------------------------
(* Properties *)

(* No address is in two ways of a set, in either level, whatever             *)
(* cachesim_ref() swaps, evicts and loads.                                   *)
TagsUnique ==
  \A c \in {l1[t] : t \in SimThread} \union {l2} :
    \A i, j \in 0..(c.sets * c.ways - 1) :
      i \div c.ways = j \div c.ways /\ c.lines[i].tag = c.lines[j].tag /\ c.lines[i].tag # 0 => i = j

SumOver(Of(_)) == FoldFunction(LAMBDA x, y : x + y, 0, [t \in SimThread |-> Of(t)])

(* Every miss of a thread's cache is one reference of the shared second      *)
(* level, of the same kind: cachesim_ref() calls itself for the parent once  *)
(* for each line that it loads.                                              *)
ParentSeesMisses ==
  \A k \in {"read", "write"} :
    LET Misses(t) == l1[t].stats.misses[k] IN l2.stats.references[k] = SumOver(Misses)

(* When all threads have ended, the printed totals count every access of    *)
(* every thread, whatever was in the buffers.                               *)
NothingLost ==
  (\A t \in SimThread : simAt[t] = "ended") =>
     \A k \in {"read", "write"} :
       LET Expected(t) == FoldLeft(LAMBDA n, a : IF Kind(a.write) = k THEN n + Fetches(l1[t], a.addr, a.size) ELSE n,
                                   0, done[t])
       IN global.references[k] = SumOver(Expected)

(* The sizes that set_inst_size() patches into a translated block add up to *)
(* the bytes of the block, the skipped instructions apart, and each fits in *)
(* what one instruction sets: its placeholder has no room for two.          *)
PatchedSizesAddUp ==
  /\ \A k \in 1..Len(fragment.patched) : Loaded(fragment.patched[k]) < 2 * (MaxFragment + 1)
  /\ ~fragment.open => FoldLeft(LAMBDA n, p : n + Loaded(p), 0, fragment.patched)
                         = 2 * (fragment.scanned - fragment.skipped)

(* The simulated hierarchy counts every access of every thread exactly once, *)
(* at each level that it reaches, in sets without duplicates, and the sizes  *)
(* of the blocks that it fetches are exact.                                  *)
SimulationExact == TagsUnique /\ ParentSeesMisses /\ NothingLost /\ PatchedSizesAddUp
====
