----------------------------- MODULE HashTables -----------------------------
(***************************************************************************)
(* The resizable hash table of the plugin interface (api/hash_table.c),    *)
(* with the entries of CodeCacheTable: key 0 marks an empty slot.          *)
(***************************************************************************)
EXTENDS CodeCacheTable, Sequences, SequencesExt

CONSTANTS
  HtSize,      \* initial_size of the plugin table, the values tried
  HtFill,      \* fill_factor, the percentages tried
  HtResize,    \* allow_resize, the values tried
  HtKey,       \* keys of the plugin table, 0 among them
  HtMax        \* bound: slots of the plugin table

VARIABLES
  ht,            \* the plugin table: entries, entry_count, resize_threshold
  htModel        \* the pairs its callers were told are in it

htVars == <<ht, htModel>>

-----------------------------------------------------------------------------
(* The plugin table *)

(* (Variant of Threshold: rounded up.) *)
ThresholdUp(size, fill) == (size * fill + 99) \div 100

(* resize_threshold *)
Threshold(size, fill) == (size * fill) \div 100

HtTable(size, fill, resize) ==
  [entries |-> [i \in 0 .. size - 1 |-> Empty], count |-> 0, size |-> size,
   threshold |-> Threshold(size, fill), fill |-> fill, resize |-> resize]

(* The slot of a key: probing wraps around; {} when the loop never ends *)
HtSlot(t, k) ==
  LET at(d) == (k + d) % t.size
      good == {d \in 0 .. t.size - 1 : t.entries[at(d)][1] \in {0, k}}
  IN IF good = {} THEN {} ELSE {at(CHOOSE d \in good : \A e \in good : d <= e)}

HtPut(t, k, v) ==
  LET i == CHOOSE j \in HtSlot(t, k) : TRUE
  IN [t EXCEPT !.entries[i] = <<k, v>>,
               !.count = IF t.entries[i][1] = 0 THEN @ + 1 ELSE @]

RECURSIVE AddNolock(_, _, _)

(* (Variant of HtResizeTable: the old entries are copied slot by slot.) *)
HtResizeCopied(t) ==
  [HtTable(2 * t.size, t.fill, t.resize) EXCEPT !.count = t.count,
     !.entries = [i \in 0 .. 2 * t.size - 1 |-> IF i < t.size THEN t.entries[i] ELSE Empty]]

(* __mambo_ht_resize: a table twice as large, to which every old entry is  *)
(* added.  The add may itself resize, when the threshold is still too low. *)
HtResizeTable(t) ==
  FoldLeft(LAMBDA u, e : IF e[1] = 0 THEN u ELSE AddNolock(u, e[1], e[2]),
           HtTable(2 * t.size, t.fill, t.resize), [n \in 1 .. t.size |-> t.entries[n - 1]])

(* mambo_ht_add_nolock once a resize is allowed or not needed *)
AddNolock(t, k, v) == HtPut(IF t.count >= t.threshold THEN HtResizeTable(t) ELSE t, k, v)

(* return -1: key 0, or a full table that may not grow, even for an update *)
HtRefuses(t, k) == k = 0 \/ (t.count >= t.threshold /\ ~t.resize)

(* mambo_ht_add *)
HtAdd ==
  \E k \in HtKey, v \in HashValue :
    /\ ~HtRefuses(ht, k)
    /\ LET t == IF ht.resize THEN AddNolock(ht, k, v) ELSE HtPut(ht, k, v)
       IN /\ t.size <= HtMax
          /\ ht' = t
    /\ htModel' = Store(htModel, k, v)

(* mambo_ht_get: the value as a set; {} is return -1 *)
HtGet(k) ==
  {ht.entries[i][2] : i \in {j \in HtSlot(ht, k) : k # 0 /\ ht.entries[j][1] = k}}

RECURSIVE PowerFrom(_, _)
PowerFrom(p, n) == IF p >= n THEN p ELSE PowerFrom(2 * p, n)

(* mambo_ht_init, with the size rounded up to a power of two *)
HtInit ==
  /\ \E n \in HtSize, f \in HtFill, r \in HtResize : ht = HtTable(PowerFrom(1, n), f, r)
  /\ htModel = {}

HtNext == HtAdd

-----------------------------------------------------------------------------
(* Properties *)

(* mambo_ht_get returns what mambo_ht_add was last told for the key, and   *)
(* fails for the others, across resizes, nested resizes included.          *)
HtFaithful == \A k \in HtKey : HtGet(k) = ValuesOf(htModel, k)

(* Some slot of the plugin table is empty, so that probing for a key that  *)
(* is not there ends.                                                      *)
HtProbeEnds == \E i \in 0 .. ht.size - 1 : ht.entries[i][1] = 0

(* The table for plugins is a map, through resizes and with room to probe.   *)
HtExact == HtFaithful /\ HtProbeEnds
=============================================================================
