----------------------------- MODULE PluginCode -----------------------------
(***************************************************************************)
(* The code plugins add to a fragment on AArch64, and what it does to the  *)
(* application's registers and stack: the scratch register allocator       *)
(* (api/plugin_support.c), the emit_ helpers (api/helpers.c) and the       *)
(* delivery of an instruction event to the plugins (scanner_a64.c).        *)
(*                                                                         *)
(* An emitted instruction is a record; Exec1 runs one on                   *)
(* an abstract machine whose stack is a sequence of 16-byte slots, each a  *)
(* pair of words.                                                          *)
(***************************************************************************)
EXTENDS Integers, Sequences, FiniteSets, SequencesExt

CONSTANTS
  NumPlugins,  \* plugins with a callback for the event
  MaxOps,      \* bound: API calls of one callback
  MaxScratch,  \* bound: registers asked for in one call
  FcallArgs,   \* the argument counts used in safe calls
  ImmBits      \* SHIFTED_ADD_SUB_I_BITS

ASSUME PluginCodeAssumption ==
  NumPlugins \in Nat /\ MaxOps \in Nat /\ MaxScratch \in 1 .. 8 /\ FcallArgs \subseteq 0 .. 8

VARIABLES
  pctx,       \* the mambo_context: pushed_regs, available_regs, counts, replace
  machine,    \* the machine after the instructions written so far
  plugin,     \* the plugin whose callback runs, NumPlugins + 1 after the last
  held,       \* the scratch registers the running callback holds
  batches,    \* ghost: the plugin and size of each push of scratch registers
  apiCalls,       \* operations made by the running callback
  replaced,   \* the instruction is not copied to the fragment
  assertion,  \* "holds", or the assertion that failed
  addsub      \* the call of emit_add_sub_i and what its code does to the registers

pluginVars == <<pctx, machine, plugin, held, batches, apiCalls, replaced, assertion, addsub>>

lr == 30
es == 19

(* What a register may hold: the application's value, an unknown one, the  *)
(* unused half of a slot, an address the helpers set, or argument n > 0.   *)
App == 0
Junk == -1
PadValue == -2
Fptr == -3
Counter == -4
Back == -5
-----------------------------------------------------------------------------
(* Emitting *)

(* The registers of a set from the highest down, and from the lowest up *)
Descending(S) ==
  [i \in 1 .. Cardinality(S) |-> CHOOSE x \in S : Cardinality({y \in S : y > x}) = i - 1]
Ascending(S) == Reverse(Descending(S))

I_Push(a, b) == [op |-> "push", a |-> a, b |-> b]
I_Pop(a, b) == [op |-> "pop", a |-> a, b |-> b]
I_Set(r, v) == [op |-> "set", a |-> r, b |-> v]
I_Call(args) == [op |-> "call", a |-> args, b |-> -1]
I_Incr(n) == [op |-> "incr", a |-> n, b |-> -1]

(* a64_push_reg, a64_pop_reg: one register in a slot of its own *)
Alone == -1

(* (Variant of PushSeq: the odd register is pushed last.) *)
PushSeqOddLast(regs) ==
  LET s == Descending(regs)
      n == Len(s) \div 2
  IN [i \in 1 .. n |-> I_Push(s[2 * i], s[2 * i - 1])]
     \o (IF Len(s) % 2 = 1 THEN <<I_Push(s[Len(s)], Alone)>> ELSE <<>>)

(* emit_a64_push: the highest register alone when the count is odd, then   *)
(* pairs from the highest down.                                            *)
PushSeq(regs) ==
  LET odd == Cardinality(regs) % 2
      s == Descending(regs)
      rest == SubSeq(s, 1 + odd, Len(s))
  IN (IF odd = 1 THEN <<I_Push(s[1], Alone)>> ELSE <<>>)
     \o [i \in 1 .. Len(rest) \div 2 |-> I_Push(rest[2 * i], rest[2 * i - 1])]

(* emit_a64_pop: pairs from the lowest up, then a single register *)
PopSeq(regs) ==
  LET s == Ascending(regs)
  IN [i \in 1 .. (Len(s) + 1) \div 2 |->
        I_Pop(s[2 * i - 1], IF 2 * i <= Len(s) THEN s[2 * i] ELSE Alone)]

(* emit_safe_fcall's to_push: the link register and x0 .. x8, less the     *)
(* argument registers, which its caller saves.                             *)
SafeFcallSaves(argno) == {lr} \union ((0 .. 8) \ (0 .. argno - 1))

(* (Variant of SafeFcall: the last argument register carries the function.) *)
SafeFcallSeven(argno) ==
  PushSeq(SafeFcallSaves(argno)) \o <<I_Set(7, Fptr), I_Call(argno)>>
    \o PopSeq(SafeFcallSaves(argno))

(* emit_safe_fcall: x8 carries the function to safe_fcall_trampoline *)
SafeFcall(argno) ==
  PushSeq(SafeFcallSaves(argno)) \o <<I_Set(8, Fptr), I_Call(argno)>>
    \o PopSeq(SafeFcallSaves(argno))

(* emit_safe_fcall_static_args *)
SafeFcallStatic(argno) ==
  LET args == 0 .. argno - 1
  IN PushSeq(args) \o [i \in 1 .. argno |-> I_Set(i - 1, i)]
     \o SafeFcall(argno) \o PopSeq(args)

(* emit_counter64_incr: x0 and x1 saved around load, add and store *)
CounterIncr(n) ==
  PushSeq({0, 1}) \o <<I_Set(0, Counter), I_Incr(n)>> \o PopSeq({0, 1})

(* _function_callback_wrapper of a watched function with both callbacks:   *)
(* es and lr are saved, the function is called, its return comes back      *)
(* through the inline hash lookup, which leaves x0 and x1 pushed; they are *)
(* popped, the post callback runs, and the saved lr is the way back.       *)
FunctionWrapper(pre, post) ==
  PushSeq({es, lr}) \o pre \o <<I_Set(lr, Back)>> \o PushSeq({0, 1})
    \o PopSeq({0, 1}) \o post \o PopSeq({es, lr})

(* The code the callbacks of a watched function are tried with *)
CallbackCode == {<<>>, CounterIncr(1)} \union {SafeFcallStatic(a) : a \in FcallArgs}

-----------------------------------------------------------------------------
(* Executing what was emitted *)

(* regs has a pair <<register, value>> for each that does not hold App *)
Machine0 == [regs |-> {}, stack |-> <<>>, arg |-> {}]
CounterBase == 32

Reg(m, r) == IF \E p \in m.regs : p[1] = r THEN (CHOOSE p \in m.regs : p[1] = r)[2] ELSE App
WithReg(m, r, v) ==
  [m EXCEPT !.regs = {p \in @ : p[1] # r} \union (IF v = App THEN {} ELSE {<<r, v>>})]

(* The registers a C function may change and the trampoline does not restore *)
CallClobbers == (0 .. 7) \union {lr}

(* One instruction.  A call goes through safe_fcall_trampoline (util.S), *)
(* which saves x8 .. x21, x29 and the flags and branches to x8; what it    *)
(* sees of its arguments is recorded.                                      *)
Exec1(m, i) ==
  CASE i.op = "push" ->
         [m EXCEPT !.stack = Append(@, <<Reg(m, i.a), IF i.b = Alone THEN PadValue ELSE Reg(m, i.b)>>)]
    [] i.op = "pop" ->
         IF m.stack = <<>> THEN [m EXCEPT !.stack = <<<<PadValue, PadValue>>>>]
         ELSE LET n == WithReg([m EXCEPT !.stack = Front(@)], i.a, Last(m.stack)[1])
              IN IF i.b = Alone THEN n ELSE WithReg(n, i.b, Last(m.stack)[2])
    [] i.op = "set" -> WithReg(m, i.a, i.b)
    [] i.op = "call" ->
         [m EXCEPT !.regs = {p \in @ : p[1] \notin CallClobbers}
                              \union {<<r, Junk>> : r \in CallClobbers},
                   !.arg = @ \union {<<8, Reg(m, 8)>>}
                              \union {<<r, Reg(m, r)>> : r \in 0 .. i.a - 1}]
    [] i.op = "incr" ->
         [WithReg(m, 1, Junk) EXCEPT !.arg = @ \union {<<CounterBase, Reg(m, 0)>>}]

-----------------------------------------------------------------------------
(* The callback of one plugin *)

Running == plugin <= NumPlugins /\ assertion = "holds" /\ apiCalls < MaxOps

(* The code is written, and its effect on the machine recorded *)
Emit(code) ==
  LET Run[k \in 0 .. Len(code)] == IF k = 0 THEN machine ELSE Exec1(Run[k - 1], code[k])
  IN machine' = Run[Len(code)]
EmitPush(c, regs) == [c EXCEPT !.count = @ + Cardinality(regs)]
EmitPop(c, regs) == [c EXCEPT !.count = @ - Cardinality(regs)]

(* (Variant of LowestScratch: pushing restarts below x8 in every call.) *)
LowestScratchFixed(c) == 8

(* min_pushed_reg on entry of mambo_get_scratch_regs *)
LowestScratch(c) == IF c.pushed = {} THEN 8 ELSE Min(c.pushed)

(* mambo_get_scratch_regs: registers that were freed first, then new ones  *)
(* below the lowest pushed one, while there are any.                       *)
GetScratchRegs ==
  \E n \in 1 .. MaxScratch :
    LET reuse == {r \in pctx.available :
                    Cardinality({q \in pctx.available : q < r}) < n}
        low == LowestScratch(pctx)
        fresh == {r \in 0 .. low - 1 : r >= low - (n - Cardinality(reuse))}
    IN /\ Running
       /\ pctx' = EmitPush([pctx EXCEPT !.available = @ \ reuse, !.pushed = @ \union fresh], fresh)
       /\ Emit(PushSeq(fresh))
       /\ held' = held \union reuse \union fresh
       /\ batches' = IF fresh = {} THEN batches ELSE Append(batches, <<plugin, Cardinality(fresh)>>)
       /\ apiCalls' = apiCalls + 1
       /\ UNCHANGED <<plugin, replaced, assertion>>

(* mambo_free_scratch_regs of registers the callback holds *)
FreeScratchRegs ==
  \E S \in SUBSET held :
    /\ Running /\ S # {} /\ S \subseteq pctx.pushed
    /\ pctx' = [pctx EXCEPT !.available = @ \union S]
    /\ held' = held \ S
    /\ apiCalls' = apiCalls + 1
    /\ UNCHANGED <<machine, plugin, batches, replaced, assertion>>

(* The plugin computes in the scratch registers it holds *)
UseScratch ==
  /\ Running /\ held # {}
  /\ Emit([i \in 1 .. Cardinality(held) |-> I_Set(Ascending(held)[i], Junk)])
  /\ apiCalls' = apiCalls + 1
  /\ UNCHANGED <<pctx, plugin, held, batches, replaced, assertion>>

(* The emit_ helpers, each of which leaves the push count as it found it *)
CallHelper ==
  /\ Running
  /\ \/ \E a \in FcallArgs : Emit(SafeFcallStatic(a))
     \/ Emit(CounterIncr(1))
  /\ apiCalls' = apiCalls + 1
  /\ UNCHANGED <<pctx, plugin, held, batches, replaced, assertion>>

(* mambo_replace_inst, in a PRE_INST callback *)
ReplaceInst ==
  /\ Running
  /\ pctx' = [pctx EXCEPT !.replace = TRUE]
  /\ apiCalls' = apiCalls + 1
  /\ UNCHANGED <<machine, plugin, held, batches, replaced, assertion>>

(* What a64_scanner_deliver_callbacks does after a callback with           *)
(* allow_write: it asserts the push count, pops the scratch registers and  *)
(* sets the context up for the next plugin.  pushed_regs keeps its value.  *)
EndCallback ==
  /\ plugin <= NumPlugins /\ assertion = "holds"
  /\ replaced' = (replaced \/ pctx.replace)
  /\ IF Cardinality(pctx.pushed) # pctx.count
     THEN /\ assertion' = "push count"
          /\ UNCHANGED <<pctx, machine>>
     ELSE /\ Emit(PopSeq(pctx.pushed))
          /\ pctx' = [EmitPop(pctx, pctx.pushed) EXCEPT
                        !.replace = FALSE, !.available = pctx.pushed]
          /\ UNCHANGED assertion
  /\ plugin' = plugin + 1 /\ held' = {} /\ apiCalls' = 0
  /\ UNCHANGED batches

(* A PRE_BB event at the entry of a watched function, before which no      *)
(* plugin used scratch registers.                                          *)
FunctionEvent ==
  /\ plugin = 1 /\ apiCalls = 0 /\ machine = Machine0
  /\ \E pre, post \in CallbackCode : Emit(FunctionWrapper(pre, post))
  /\ plugin' = NumPlugins + 1
  /\ UNCHANGED <<pctx, held, batches, apiCalls, replaced, assertion>>

-----------------------------------------------------------------------------
(* Adding an immediate *)

Abs(n) == IF n < 0 THEN -n ELSE n
ImmMask == 2^ImmBits - 1
ShiftedMax == ImmMask + ImmMask * 2^ImmBits

(* (Variant of AddSubSeq: the second instruction starts from rn again.) *)
AddSubSeqSource(rd, rn, low, high) ==
  (IF low # 0 THEN <<<<rd, rn, low>>>> ELSE <<>>)
  \o (IF high # 0 THEN <<<<rd, rn, high * 2^ImmBits>>>> ELSE <<>>)

(* The instructions <<rd, rn, n>> of emit_add_sub_i for a nonzero offset: *)
(* the low part, then the shifted high part on the register just written. *)
AddSubSeq(rd, rn, low, high) ==
  (IF low # 0 THEN <<<<rd, rn, low>>>> ELSE <<>>)
  \o (IF high # 0 THEN <<<<rd, IF low # 0 THEN rd ELSE rn, high * 2^ImmBits>>>> ELSE <<>>)

(* emit_add_sub_i on AArch64: the instructions, {} when it returns -1 *)
EmitAddSubI(rd, rn, offset) ==
  IF offset = 0 THEN {IF rd = rn THEN <<>> ELSE <<<<rd, rn, 0>>>>}
  ELSE IF Abs(offset) > ShiftedMax THEN {}
  ELSE {[i \in 1 .. Len(s) |-> [s[i] EXCEPT ![3] = IF offset < 0 THEN -@ ELSE @]] :
          s \in {AddSubSeq(rd, rn, Abs(offset) % 2^ImmBits, Abs(offset) \div 2^ImmBits)}}

AddSubRegs == [r \in 0 .. 1 |-> 1000 * (r + 1)]
AfterAddSub(regs, i) == [r \in 0 .. 1 |-> IF r = i[1] THEN regs[i[2]] + i[3] ELSE regs[r]]
RunAddSub(seq, regs) ==
  CASE Len(seq) = 0 -> regs
    [] Len(seq) = 1 -> AfterAddSub(regs, seq[1])
    [] Len(seq) = 2 -> AfterAddSub(AfterAddSub(regs, seq[1]), seq[2])

(* emit_add_sub_i as the only helper of an event *)
AddSubI ==
  /\ plugin = 1 /\ apiCalls = 0 /\ machine = Machine0
  /\ \E rd, rn \in 0 .. 1, offset \in -(ShiftedMax + 1) .. ShiftedMax + 1 :
       \E seq \in EmitAddSubI(rd, rn, offset) :
         addsub' = <<[rd |-> rd, rn |-> rn, offset |-> offset, regs |-> RunAddSub(seq, AddSubRegs)]>>
  /\ plugin' = NumPlugins + 1
  /\ UNCHANGED <<pctx, machine, held, batches, apiCalls, replaced, assertion>>

(* set_mambo_context_code *)
PluginCodeInit ==
  /\ pctx = [pushed |-> {}, available |-> {}, count |-> 0, replace |-> FALSE]
  /\ machine = Machine0 /\ plugin = 1 /\ held = {} /\ batches = <<>> /\ apiCalls = 0
  /\ replaced = FALSE /\ assertion = "holds" /\ addsub = <<>>

PluginCodeNext ==
  \/ /\ \/ GetScratchRegs \/ FreeScratchRegs \/ UseScratch \/ CallHelper \/ ReplaceInst
        \/ EndCallback \/ FunctionEvent
     /\ UNCHANGED addsub
  \/ AddSubI

-----------------------------------------------------------------------------
(* Properties *)

(* Code added by the plugins of an event leaves every register of the      *)
(* application and its stack as they were, in every mix of scratch         *)
(* registers, safe calls, counters and function callbacks.  Each push of   *)
(* scratch registers after the first is of an even number of them: pushed  *)
(* one by one, two registers take two slots and are popped from one.       *)
CodeIsTransparent ==
  plugin > NumPlugins /\ assertion = "holds"
    /\ (\A i \in 2 .. Len(batches) : batches[i][2] % 2 = 0) =>
    machine.stack = <<>> /\ machine.regs = {}

(* A function called through emit_safe_fcall_static_args gets the          *)
(* arguments the plugin gave, the trampoline gets the function, and a      *)
(* counter's code its address, after any other code of the event.          *)
CallsSeeArguments ==
  \A c \in machine.arg :
    c[2] = CASE c[1] = 8 -> Fptr [] c[1] = CounterBase -> Counter [] OTHER -> c[1] + 1

(* The assertion on the push count fails only when a plugin before the     *)
(* one that ran pushed scratch registers: a single user of the allocator   *)
(* never trips it, however it gets and frees registers.                    *)
SingleUserNeverAsserts ==
  assertion # "holds" => \E i \in 1 .. Len(batches) : batches[i][1] < plugin - 1

(* An offset that emit_add_sub_i accepts is added exactly, to the          *)
(* destination only, whatever registers are the same.                      *)
AddSubExact ==
  \A k \in 1 .. Len(addsub) :
    LET a == addsub[k]
    IN a.regs = [AddSubRegs EXCEPT ![a.rd] = AddSubRegs[a.rn] + a.offset]

(* The code that plugins emit does what they asked for and nothing else to   *)
(* the application, and emitting it for one plugin fails no assertion.       *)
EmittedCodeExact ==
  CodeIsTransparent /\ CallsSeeArguments /\ SingleUserNeverAsserts /\ AddSubExact
=============================================================================
