--------------------------- MODULE CodeCacheTable ----------------------------
(***************************************************************************)
(* The code cache's hash table from application addresses to fragments     *)
(* (common.c), probed without wrapping around by C code and by the code    *)
(* that the dispatchers emit.                                              *)
(*                                                                         *)
(* Key 0 marks an empty slot.  The table is a function from slots to       *)
(* entries <<key, value>>.                                                 *)
(***************************************************************************)
EXTENDS Integers, FiniteSets

CONSTANTS
  HashMask,    \* CODE_CACHE_HASH_SIZE, a power of two minus one
  HashOverp,   \* CODE_CACHE_HASH_OVERP, slots past the mask
  HashKey,     \* the addresses added to the table
  HashValue    \* values

ASSUME HashAssumption ==
  HashMask \in Nat /\ HashOverp \in Nat \ {0} /\ HashKey \subseteq Nat \ {0}

VARIABLES
  entry_address, \* slot -> entry
  hashStuck,     \* hash_add met the end of the table and spins
  hashModel      \* what was added: key -> value, as a set of pairs

hashVars == <<entry_address, hashStuck, hashModel>>

Empty == <<0, 0>>
Store(model, k, v) == {p \in model : p[1] # k} \union {<<k, v>>}

HashSize == HashMask + HashOverp

(* GET_INDEX: the mask keeps the low bits (size is a power of two - 1 + 10) *)
GetIndex(k) == k % (HashMask + 1)

(* (Variant of ProbeEnd: the reserved last slot is used as well.) *)
ProbeEndLast == HashSize

(* (Variant of ProbeEnd: the overprovisioned slots are not used.) *)
ProbeEndMask == HashMask

(* Probing stops before the last slot, which stays empty for the inline    *)
(* lookup code.                                                            *)
ProbeEnd == HashSize - 1

(* The slots hash_add looks at, in order *)
Probes(k) == GetIndex(k) .. ProbeEnd - 1
Usable(k, i) == entry_address[i][1] \in {0, k}
FirstUsable(k) == {i \in Probes(k) : Usable(k, i) /\ \A j \in Probes(k) : j < i => ~Usable(k, j)}

(* hash_add: the first slot that is empty or has the key; at the end of    *)
(* the table it prints "Hash table index overflow" and spins.              *)
HashAdd ==
  \E k \in HashKey, v \in HashValue :
    \/ \E i \in FirstUsable(k) :
         /\ entry_address' = [entry_address EXCEPT ![i] = <<k, v>>]
         /\ hashModel' = Store(hashModel, k, v)
         /\ UNCHANGED hashStuck
    \/ /\ FirstUsable(k) = {}
       /\ hashStuck' = TRUE
       /\ UNCHANGED <<entry_address, hashModel>>

(* (Variant of HashLookup: only the home slot is looked at.) *)
HashLookupHome(k) ==
  LET i == GetIndex(k)
  IN IF entry_address[i][1] = k THEN {entry_address[i][2]} ELSE {}

(* hash_lookup: the value of the key before the first empty slot; {} is    *)
(* UINT_MAX, no entry.                                                     *)
HashLookup(k) ==
  {entry_address[i][2] : i \in {j \in FirstUsable(k) : entry_address[j][1] = k}}

(* The inline lookup code of the dispatchers: probe until the key or an    *)
(* empty slot, with no test for the end of the table.                      *)
InlineEnds(k) == \E i \in GetIndex(k) .. HashSize - 1 : Usable(k, i)

HashInit ==
  /\ entry_address = [i \in 0 .. HashSize - 1 |-> Empty]
  /\ hashStuck = FALSE /\ hashModel = {}

(* hash_init, called again by flush_code_cache *)
HashReset ==
  /\ entry_address' = [i \in 0 .. HashSize - 1 |-> Empty]
  /\ hashModel' = {}
  /\ UNCHANGED hashStuck

HashNext == ~hashStuck /\ (HashAdd \/ HashReset)

HashSpec == HashInit /\ [][HashNext]_hashVars

-----------------------------------------------------------------------------
(* Properties *)

ValuesOf(model, k) == {p[2] : p \in {q \in model : q[1] = k}}

(* hash_lookup returns what was added last for the address, and nothing    *)
(* for an address that was never added, through every run of collisions,   *)
(* up to the end of the table.                                             *)
HashFaithful == \A k \in HashKey : HashLookup(k) = ValuesOf(hashModel, k)

(* The inline lookup code, which never tests for the end of the table,     *)
(* meets the key or an empty slot: hash_add keeps the last slot empty.     *)
InlineLookupEnds == \A k \in HashKey : InlineEnds(k)

(* hash_add overflows only after as many additions as there are            *)
(* overprovisioned slots before the reserved one.                          *)
OverflowNeedsKeys == hashStuck => Cardinality(hashModel) >= HashOverp - 1

(* The table of code cache entries is a map for C and for the inline lookup  *)
(* code alike, and overflows only when it must.                              *)
HashExact == HashFaithful /\ InlineLookupEnds /\ OverflowNeedsKeys
=============================================================================
