---------------------------- MODULE AddressSpace ----------------------------
(***************************************************************************)
(* The application's address space as MAMBO sees it: the interval map of   *)
(* executable allocations (common.c) and the memory system calls that      *)
(* update it through notify_vm_op (syscalls.c, dbm.c).  brk is in Brk.     *)
(*                                                                         *)
(* A page is a number.  An entry of the interval map is a record with      *)
(* fields start, end and fd; a mapping without a file has fd NoFd.  The    *)
(* array of the map is a sequence: slots beyond entry_count are never read *)
(* before they are written, so a write to one is lost.                     *)
(***************************************************************************)
EXTENDS Brk, Sequences, FiniteSets

CONSTANTS
  VmPage,      \* the pages the application maps, an interval 0 .. n
  MemSize,     \* slots of the interval map (exec_allocs)
  MaxFd        \* bound: descriptors open at a time

ASSUME MapAssumption ==
  VmPage \subseteq Nat /\ MemSize \in Nat /\ MaxFd \in Nat

VARIABLES
  exec_allocs, \* the entries of global_data.exec_allocs, in array order
  openFds,     \* the descriptors MAMBO duplicated and did not close
  vm,          \* page -> "free", "map" (mapped executable) or "plain" (any other)
  merged,      \* ghost: an insertion moved the entry it was widening
  aborted      \* the operation whose assertion failed: "no", "add" or "unmap"

mapVars == <<exec_allocs, openFds, vm, merged, aborted>>

NoFd == -1
Least(a, b) == IF a < b THEN a ELSE b

-----------------------------------------------------------------------------
(* The interval map.  An operation works on a record with the entries, the *)
(* open descriptors and whether an assertion failed.                       *)

Imap == [es |-> exec_allocs, open |-> openFds, bad |-> FALSE]

Overlap(e, lo, hi) == lo < e.end /\ hi > e.start

(* The lowest free descriptor is 1 or follows one that is open. *)
LowestFree(open) ==
  CHOOSE fd \in {1} \union {k + 1 : k \in open} : fd \notin open /\ \A k \in 1 .. fd - 1 : k \in open

(* dup(fd): the lowest free descriptor; nothing for a mapping without a file *)
Dup(m, fd) ==
  LET new == LowestFree(m.open)
  IN IF fd = NoFd THEN [map |-> m, fd |-> NoFd]
     ELSE [map |-> [m EXCEPT !.open = @ \union {new}], fd |-> new]

(* interval_map_delete_entry: closes the descriptor and moves the last     *)
(* entry into the slot.                                                    *)
DeleteEntry(m, i) ==
  [m EXCEPT !.open = @ \ {m.es[i].fd},
            !.es = SubSeq([@ EXCEPT ![i] = m.es[Len(m.es)]], 1, Len(@) - 1)]

(* interval_map_add_entry, with the assertion its callers make on it *)
AddEntry(m, lo, hi, fd) ==
  IF Len(m.es) >= MemSize \/ lo >= hi THEN [m EXCEPT !.bad = TRUE]
  ELSE [m EXCEPT !.es = Append(@, [start |-> lo, end |-> hi, fd |-> fd])]

(* (Variant of Widen: the merged range replaces the entry's.) *)
WidenReplaces(es, i, lo, hi) ==
  IF i > Len(es) THEN es
  ELSE [es EXCEPT ![i].start = lo, ![i].end = hi]

(* entries[overlap_ind] grows to the range; a slot past the end is dead *)
Widen(es, i, lo, hi) ==
  IF i > Len(es) THEN es
  ELSE [es EXCEPT ![i].start = Least(@, lo), ![i].end = Most(@, hi)]

(* (Variant of AddScan: only the first overlapping entry is merged.) *)
AddScanFirst(s, i) ==
  IF s.map.bad \/ s.at # 0 \/ ~Overlap(s.map.es[i], s.lo, s.hi) THEN s
  ELSE IF s.fd # NoFd \/ s.map.es[i].fd # NoFd THEN [s EXCEPT !.map.bad = TRUE]
  ELSE [s EXCEPT !.at = i, !.map.es = Widen(@, i, s.lo, s.hi)]

(* One turn of interval_map_add's scan.  s.at is overlap_ind, 0 while no   *)
(* entry overlaps.  Ghost: s.moved when DeleteEntry moves the last entry   *)
(* and that is overlap_ind's, so that the rest of the merged range goes to *)
(* a dead slot.                                                            *)
AddScan(s, i) ==
  IF s.map.bad \/ ~Overlap(s.map.es[i], s.lo, s.hi) THEN s
  ELSE IF s.fd # NoFd \/ s.map.es[i].fd # NoFd THEN [s EXCEPT !.map.bad = TRUE]
  ELSE IF s.at = 0
    THEN [s EXCEPT !.at = i, !.map.es = Widen(@, i, s.lo, s.hi)]
    ELSE LET e == s.map.es[i]
             lo == Least(e.start, s.lo)
             hi == Most(e.end, s.hi)
             m == DeleteEntry(s.map, i)
         IN [s EXCEPT !.lo = lo, !.hi = hi, !.moved = @ \/ s.at = Len(s.map.es),
                      !.map = [m EXCEPT !.es = Widen(@, s.at, lo, hi)]]

(* The scan of interval_map_add, downward, with dup before it *)
AddScanned(m, lo, hi, fd) ==
  LET d == Dup(m, fd)
      scan[k \in 0 .. Len(m.es)] ==
        IF k = 0 THEN [map |-> d.map, fd |-> d.fd, lo |-> lo, hi |-> hi, at |-> 0, moved |-> FALSE]
        ELSE AddScan(scan[k - 1], Len(m.es) + 1 - k)
  IN scan[Len(m.es)]

(* The end of interval_map_add: no overlapping region found *)
IntervalMapAdd(s) ==
  IF s.at = 0 /\ ~s.map.bad THEN AddEntry(s.map, s.lo, s.hi, s.fd) ELSE s.map

(* (Variant of SplitEntry: both halves keep the one descriptor.) *)
SplitEntryShared(m, i, lo, hi) ==
  AddEntry([m EXCEPT !.es[i].end = lo], hi, m.es[i].end, m.es[i].fd)

(* The last case of interval_map_delete: keep what is below lo in the      *)
(* entry, and add what is above hi.  The code also comes here when the     *)
(* range sticks out of one end of the entry.                               *)
SplitEntry(m, i, lo, hi) ==
  LET d == Dup([m EXCEPT !.es[i].end = lo], m.es[i].fd)
  IN AddEntry(d.map, hi, m.es[i].end, d.fd)

(* One turn of interval_map_delete's scan *)
DeleteScan(m, lo, hi, i) ==
  LET e == m.es[i]
  IN IF m.bad \/ i > Len(m.es) \/ ~Overlap(e, lo, hi) THEN m
     ELSE IF lo <= e.start /\ hi >= e.end THEN DeleteEntry(m, i)
     ELSE IF lo = e.start /\ hi < e.end THEN [m EXCEPT !.es[i].start = hi]
     ELSE IF hi = e.end /\ lo > e.start THEN [m EXCEPT !.es[i].end = lo]
     ELSE SplitEntry(m, i, lo, hi)

(* (Variant of ScanTurn: from the first entry to the last.) *)
ScanTurnUp(n, k) == k

(* The entry that turn k of a scan over n entries looks at: the scan runs   *)
(* downward, so that DeleteEntry moves only an entry already seen.         *)
ScanTurn(n, k) == n + 1 - k

IntervalMapDelete(m, lo, hi) ==
  LET scan[k \in 0 .. Len(m.es)] ==
        IF k = 0 THEN m ELSE DeleteScan(scan[k - 1], lo, hi, ScanTurn(Len(m.es), k))
  IN scan[Len(m.es)]

(* interval_map_search_by_addr: the entry of the highest index that holds  *)
(* the address, as a set of at most one entry.                             *)
SearchByAddr(es, p) ==
  LET hits == {i \in 1 .. Len(es) : es[i].start <= p /\ p < es[i].end}
  IN IF hits = {} THEN {} ELSE {es[CHOOSE i \in hits : \A j \in hits : j <= i]}

-----------------------------------------------------------------------------
(* Memory system calls: the kernel does its part, then notify_vm_op *)

SetMap(m, op) ==
  /\ exec_allocs' = m.es /\ openFds' = m.open
  /\ aborted' = IF m.bad THEN op ELSE "no"

Pages(lo, hi) == {p \in VmPage : lo <= p /\ p < hi}
Ranges == {r \in VmPage \X {p + 1 : p \in VmPage} : r[1] < r[2]}

(* notify_vm_op(VM_MAP): an executable mapping enters the map *)
NotifyMap(lo, hi, prot, fd) ==
  LET s == AddScanned(Imap, lo, hi, fd)
  IN IF "x" \in prot
     THEN SetMap(IntervalMapAdd(s), "add") /\ merged' = (merged \/ s.moved)
     ELSE UNCHANGED <<exec_allocs, openFds, aborted, merged>>

(* mmap tells notify_vm_op the permissions the application asked for *)
MmapNotifies(prot) == prot

(* The pages of [lo, hi) take the value v(p) *)
SetPages(lo, hi, v(_)) == [p \in VmPage |-> IF p \in Pages(lo, hi) THEN v(p) ELSE vm[p]]
MapKind(prot) == IF "x" \in prot THEN "map" ELSE "plain"

(* case __NR_mmap: MAP_FIXED or a fresh range, with or without a file *)
Mmap ==
  \E r \in Ranges, prot \in {{"r"}, {"r", "x"}}, fd \in {NoFd, 0} :
    /\ fd # NoFd => Cardinality(openFds) < MaxFd
    /\ NotifyMap(r[1], r[2], MmapNotifies(prot), fd)
    /\ vm' = SetPages(r[1], r[2], LAMBDA p : MapKind(prot))

(* case __NR_shmat: like a mapping without a file; SHM_EXEC gives "x" *)
Shmat ==
  \E r \in Ranges, prot \in {{"r", "w"}, {"r", "w", "x"}} :
    /\ \A p \in Pages(r[1], r[2]) : vm[p] = "free"
    /\ NotifyMap(r[1], r[2], prot, NoFd)
    /\ vm' = SetPages(r[1], r[2], LAMBDA p : MapKind(prot))

(* case __NR_mprotect on a mapped range: args[2] lost PROT_EXEC before it  *)
(* is passed on, so VM_PROT never adds an entry and a page that becomes    *)
(* executable this way stays "plain".                                      *)
Mprotect ==
  \E r \in Ranges, exec \in BOOLEAN :
    /\ \A p \in Pages(r[1], r[2]) : vm[p] # "free"
    /\ vm' = SetPages(r[1], r[2],
                LAMBDA p : IF exec /\ vm[p] = "map" THEN "map" ELSE "plain")
    /\ UNCHANGED <<exec_allocs, openFds, merged, aborted>>

(* case __NR_munmap: any range, mapped or not *)
Munmap ==
  \E r \in Ranges :
    /\ Cardinality(openFds) < MaxFd
    /\ SetMap(IntervalMapDelete(Imap, r[1], r[2]), "unmap")
    /\ vm' = SetPages(r[1], r[2], LAMBDA p : "free")
    /\ UNCHANGED merged

MapInit ==
  /\ exec_allocs = <<>> /\ openFds = {}
  /\ vm = [p \in VmPage |-> "free"]
  /\ merged = FALSE /\ aborted = "no"

MapNext == aborted = "no" /\ (Mmap \/ Shmat \/ Mprotect \/ Munmap)

MapSpec == MapInit /\ [][MapNext]_mapVars

-----------------------------------------------------------------------------
(* Properties *)

Covered(p) == SearchByAddr(exec_allocs, p) # {}

(* Every page that an mmap or shmat made executable is found by            *)
(* interval_map_search_by_addr until it is unmapped or mapped over, so     *)
(* that its unmapping flushes the code cache.  Insertions that move the    *)
(* entry they widen (interval_map_add's overlap_ind goes stale) are left   *)
(* out: those lose pages.                                                  *)
ExecCovered ==
  aborted = "no" /\ ~merged => \A p \in VmPage : vm[p] = "map" => Covered(p)

(* No page is found in the map once munmap returned for it: splitting,     *)
(* trimming and swap-deletion leave no part of the range behind.           *)
UnmappedNotCovered ==
  aborted = "no" => \A p \in VmPage : Covered(p) => vm[p] # "free"

(* Two entries never hold the same page: a lookup does not depend on the   *)
(* order of the array.                                                     *)
EntriesDisjoint ==
  aborted = "no" => \A i, j \in 1 .. Len(exec_allocs) : i # j =>
    \A p \in VmPage : ~(/\ exec_allocs[i].start <= p /\ p < exec_allocs[i].end
                        /\ exec_allocs[j].start <= p /\ p < exec_allocs[j].end)

(* Every duplicated descriptor belongs to exactly one entry: none leaks    *)
(* and none is closed while an entry still names it, across the dup of a   *)
(* split and the swap of a deletion.                                       *)
FdsOwned ==
  aborted = "no" =>
    LET holders == {i \in 1 .. Len(exec_allocs) : exec_allocs[i].fd # NoFd}
    IN /\ openFds = {exec_allocs[i].fd : i \in holders}
       /\ \A i, j \in holders : exec_allocs[i].fd = exec_allocs[j].fd => i = j

(* The executable map is exact, whatever was mapped, mapped over, split and  *)
(* unmapped: it has the executable pages, none that is free and none twice,  *)
(* and each of its descriptors is open once.                                 *)
ExecMapExact == ExecCovered /\ UnmappedNotCovered /\ EntriesDisjoint /\ FdsOwned
=============================================================================
