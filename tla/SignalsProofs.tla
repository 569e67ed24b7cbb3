---------------------------- MODULE SignalsProofs ---------------------------
(***************************************************************************)
(* Proofs about Signals, for any fragments, branches, register contents,   *)
(* masks and signals, and any number of them: unlinking and restoring the  *)
(* exit of a fragment is exact, and no signal is lost on its way to the    *)
(* handler.                                                                *)
(***************************************************************************)
EXTENDS Signals, SequenceTheorems, FiniteSetTheorems, WellFoundedInduction, TLAPS

Traps == {"SIGNAL_TRAP_IB", "SIGNAL_TRAP_DB"}
Word == [op : {"stub", "hvc", "b", "bcond", "br", "ihl"},
         side : {"any", "taken", "skipped", "true", "false"} \cup Traps]

\* The words of an exit as dispatcher() left them.
Linked(f) == \A k \in 1..3 : exitWords[f][k] = Layout(f, status[f])[k]

\* The words of an exit with traps; the words under them are saved, except the
\* BR of an indirect branch, which is known.
TrappedForm(f) ==
  IF f \in Indirect
  THEN /\ exitWords[f][1] = Layout(f, status[f])[1]
       /\ exitWords[f][2] = Hvc("SIGNAL_TRAP_IB")
       /\ exitWords[f][3] = Layout(f, status[f])[3]
  ELSE /\ status[f] # {}
       /\ \A k \in 1..3 :
            IF k <= TrapSize(f)
            THEN /\ exitWords[f][k] = Hvc("SIGNAL_TRAP_DB")
                 /\ savedExit[f][k] = Layout(f, status[f])[k]
            ELSE exitWords[f][k] = Layout(f, status[f])[k]

ExitTypes ==
  /\ sfrag \in SFrag /\ sword \in 1..3
  /\ status \in [SFrag -> SUBSET {"branch", "fall", "both"}]
  /\ exitWords \in [SFrag -> [1..3 -> Word]]
  /\ DOMAIN savedExit = SFrag /\ savedExit = [f \in SFrag |-> savedExit[f]]

ExitForms == \A f \in SFrag : Linked(f) \/ TrappedForm(f)

Safe(f) == \A k \in 1..3 : exitWords[f][k].op \notin {"b", "br"}

\* After a signal has arrived no word of the exit leaves the fragment, or the
\* thread has passed those that do; and the dispatcher clears must.
MustInv ==
  /\ must /\ sat = "body" => Safe(sfrag)
  /\ must /\ sat = "exit" => Safe(sfrag) \/ exitWords[sfrag][sword].op = "stub"
  /\ sat \in {"check", "deliver", "self", "ret"} => ~must

ExitInv == ExitTypes /\ ExitForms /\ MustInv
-----------------------------------------------------------------------------
\* A tuple of three words.
LEMMA Triple ==
  ASSUME NEW a \in Word, NEW b \in Word, NEW c \in Word
  PROVE  /\ <<a, b, c>> \in [1..3 -> Word]
         /\ <<a, b, c>>[1] = a /\ <<a, b, c>>[2] = b /\ <<a, b, c>>[3] = c
  OBVIOUS

\* The traps are words.
LEMMA HvcWord == \A c \in Traps : Hvc(c) \in Word /\ Hvc(c).op = "hvc"
  BY Zenon DEF Hvc, Word, Traps

\* What unlink_direct_branch() saves is a copy.
LEMMA Saved ==
  ASSUME NEW s \in [1..3 -> Word], NEW n \in 1..3, NEW k \in 1..n
  PROVE  SubSeq(s, 1, n)[k] = s[k]
<1>1. s \in Seq(Word)
  BY SeqDef, Zenon
<1>2. Len(s) = 3
  BY <1>1
<1> QED
  BY <1>1, <1>2

\* The words that linking writes are no traps, and only linked sides have
\* branches that leave.
LEMMA LayoutFacts ==
  ASSUME NEW f \in SFrag, NEW bits
  PROVE  /\ Layout(f, bits) \in [1..3 -> Word]
         /\ \A k \in 1..3 : Layout(f, bits)[k].op # "hvc"
         /\ f \in Indirect => /\ Layout(f, bits)[1].op = "ihl"
                              /\ Layout(f, bits)[2] = [op |-> "br", side |-> "any"]
                              /\ Layout(f, bits)[3] = Stub
         /\ f \notin Indirect /\ bits = {} => \A k \in 1..3 : Layout(f, bits)[k] = Stub
         /\ f \notin Indirect /\ f \in Uncond => \A k \in 2..3 : Layout(f, bits)[k] = Stub
         /\ f \notin Indirect /\ "both" \notin bits => Layout(f, bits)[3] = Stub
<1>0. /\ Stub \in Word /\ Stub.op = "stub" /\ B("taken") \in Word /\ B("taken").op = "b"
      /\ B("skipped") \in Word /\ B("skipped").op = "b"
      /\ \A on \in BOOLEAN : BCond(on) \in Word /\ BCond(on).op = "bcond"
      /\ [op |-> "ihl", side |-> "any"] \in Word /\ [op |-> "br", side |-> "any"] \in Word
  BY Zenon DEF Stub, B, BCond, Word
<1>1. CASE f \in Indirect
  <2>1. Layout(f, bits) = <<[op |-> "ihl", side |-> "any"], [op |-> "br", side |-> "any"], Stub>>
    BY <1>1, Zenon DEF Layout
  <2> QED
    BY <1>0, <1>1, <2>1, Triple
<1>2. CASE f \notin Indirect /\ bits = {}
  <2>1. Layout(f, bits) = <<Stub, Stub, Stub>>
    BY <1>2, Zenon DEF Layout
  <2> QED
    BY <1>0, <1>2, <2>1, Triple
<1>3. CASE f \notin Indirect /\ bits # {} /\ f \in Uncond
  <2>1. Layout(f, bits) = <<B("taken"), Stub, Stub>>
    BY <1>3, Zenon DEF Layout
  <2> QED
    BY <1>0, <1>3, <2>1, Triple
<1>4. CASE f \notin Indirect /\ bits # {} /\ f \notin Uncond
  <2>1. \E on \in BOOLEAN, side, other \in {B("taken"), B("skipped")} :
          Layout(f, bits) = <<BCond(on), side, IF "both" \in bits THEN other ELSE Stub>>
    BY <1>4, Zenon DEF Layout
  <2>2. PICK on \in BOOLEAN, side \in Word, other \in Word :
          /\ Layout(f, bits) = <<BCond(on), side, other>>
          /\ side.op = "b" /\ other.op \in {"b", "stub"}
          /\ "both" \notin bits => other = Stub
    BY <1>0, <2>1, Zenon
  <2> QED
    BY <1>0, <1>4, <2>2, Triple
<1> QED
  BY <1>1, <1>2, <1>3, <1>4, Zenon

\* An exit with traps has no branch that leaves the fragment.
LEMMA TrapsAreSafe ==
  ASSUME ExitTypes, NEW f \in SFrag, TrappedForm(f)
  PROVE  Safe(f) /\ Trapped(f)
<1>1. CASE f \in Indirect
  BY <1>1, LayoutFacts DEF TrappedForm, Safe, Trapped, Hvc, Stub
<1>2. CASE f \notin Indirect
  <2>1. TrapSize(f) \in 1..3
    BY DEF TrapSize
  <2>2. \A k \in 1..3 : k > TrapSize(f) => Layout(f, status[f])[k] = Stub
    BY <1>2, LayoutFacts DEF TrapSize
  <2>3. \A k \in 1..3 : exitWords[f][k] \in {Hvc("SIGNAL_TRAP_DB"), Stub}
    BY <1>2, <2>1, <2>2 DEF TrappedForm
  <2>4. exitWords[f][1] = Hvc("SIGNAL_TRAP_DB")
    BY <1>2, <2>1 DEF TrappedForm
  <2> QED
    BY <2>3, <2>4 DEF Safe, Trapped, Hvc, Stub
<1> QED
  BY <1>1, <1>2, Zenon

\* An exit without traps is as linking left it; one that is linked has no trap.
LEMMA NotTrapped ==
  ASSUME ExitInv, NEW f \in SFrag
  PROVE  Trapped(f) <=> TrappedForm(f)
<1>1. Linked(f) => ~Trapped(f)
  BY LayoutFacts DEF Linked, Trapped
<1> QED
  BY <1>1, TrapsAreSafe, Zenon DEF ExitInv, ExitForms

\* unlink_fragment() leaves an exit that keeps the thread in the fragment, or
\* one whose branches the thread has passed.
LEMMA Unlinking ==
  ASSUME ExitInv, NEW f \in SFrag, f = sfrag, UnlinkFragment(f), UNCHANGED status
  PROVE  /\ DOMAIN savedExit' = SFrag /\ savedExit' = [g \in SFrag |-> savedExit'[g]]
         /\ exitWords' \in [SFrag -> [1..3 -> Word]]
         /\ ExitForms'
         /\ Safe(f)' \/ (sat = "exit" /\ exitWords'[f][sword].op = "stub")
<1>0. TrapSize(f) \in 1..3 /\ exitWords[f] \in [1..3 -> Word]
  BY DEF ExitInv, ExitTypes, TrapSize
<1>1. CASE MustUnlink(f) /\ f \in Indirect /\ UnlinkIndirect(f)
  <2>1. Linked(f)
    BY <1>0, <1>1, NotTrapped, Zenon DEF MustUnlink, ExitInv, ExitForms
  <2>2. /\ \A g \in SFrag \ {f} : exitWords'[g] = exitWords[g]
        /\ exitWords'[f] = [exitWords[f] EXCEPT ![2] = Hvc("SIGNAL_TRAP_IB")]
        /\ UNCHANGED savedExit
    BY <1>0, <1>1, Zenon DEF UnlinkIndirect, ExitInv, ExitTypes
  <2>3. exitWords'[f] \in [1..3 -> Word]
    BY <1>0, <2>2, HvcWord, Zenon DEF Traps
  <2>4. /\ exitWords'[f][1] = exitWords[f][1] /\ exitWords'[f][3] = exitWords[f][3]
        /\ exitWords'[f][2] = Hvc("SIGNAL_TRAP_IB")
    BY <1>0, <2>2
  <2>5. TrappedForm(f)'
    BY <1>1, <2>1, <2>4 DEF TrappedForm, Linked
  <2>6. Safe(f)'
    BY <1>0, <1>1, <2>1, <2>4, LayoutFacts, SMTT(30) DEF Safe, Linked, Hvc, Stub
  <2>7. ExitForms'
    <3> SUFFICES ASSUME NEW g \in SFrag, g # f PROVE (Linked(g) \/ TrappedForm(g))'
      BY <2>5, Zenon DEF ExitForms
    <3> QED
      BY <2>2 DEF ExitInv, ExitForms, Linked, TrappedForm, TrapSize
  <2> QED
    BY <1>1, <2>2, <2>3, <2>6, <2>7 DEF UnlinkIndirect, ExitInv, ExitTypes
<1>2. CASE MustUnlink(f) /\ f \notin Indirect /\ UnlinkDirect(f)
  <2>1. Linked(f)
    BY <1>0, <1>2, NotTrapped, Zenon DEF MustUnlink, ExitInv, ExitForms
  <2>2. /\ \A g \in SFrag \ {f} : exitWords'[g] = exitWords[g] /\ savedExit'[g] = savedExit[g]
        /\ exitWords'[f] = [k \in 1..3 |-> IF k <= TrapSize(f) THEN Hvc("SIGNAL_TRAP_DB")
                                           ELSE exitWords[f][k]]
        /\ savedExit'[f] = SubSeq(exitWords[f], 1, TrapSize(f))
    BY <1>0, <1>2, Zenon DEF UnlinkDirect, ExitInv, ExitTypes
  <2>3. exitWords'[f] \in [1..3 -> Word]
    <3>1. \A k \in 1..3 : exitWords[f][k] \in Word
      BY <1>0, Zenon
    <3> QED
      BY <2>2, <3>1, HvcWord, Zenon DEF Traps
  <2>4. \A k \in 1..3 : k <= TrapSize(f) => savedExit'[f][k] = exitWords[f][k]
    BY <1>0, <2>2, Saved
  <2>5. \A k \in 1..3 :
          exitWords'[f][k] = IF k <= TrapSize(f) THEN Hvc("SIGNAL_TRAP_DB") ELSE exitWords[f][k]
    BY <2>2, Zenon
  <2>6. status[f] # {}
    BY <1>2, Zenon DEF MustUnlink
  <2>7. TrapSize(f)' = TrapSize(f)
    BY Zenon DEF TrapSize
  <2>8. TrappedForm(f)'
    BY <1>2, <2>1, <2>4, <2>5, <2>6, <2>7, Zenon DEF TrappedForm, Linked
  <2>9. Safe(f)'
    <3>1. \A k \in 1..3 : k > TrapSize(f) => Layout(f, status[f])[k] = Stub
      BY <1>0, <1>2, LayoutFacts DEF TrapSize
    <3>2. \A k \in 1..3 : exitWords'[f][k] \in {Hvc("SIGNAL_TRAP_DB"), Stub}
      BY <1>0, <2>1, <2>5, <3>1, SMTT(30) DEF Linked
    <3> QED
      BY <3>2 DEF Safe, Hvc, Stub
  <2>10. ExitForms'
    <3> SUFFICES ASSUME NEW g \in SFrag, g # f PROVE (Linked(g) \/ TrappedForm(g))'
      BY <2>8, Zenon DEF ExitForms
    <3> QED
      BY <2>2 DEF ExitInv, ExitForms, Linked, TrappedForm, TrapSize
  <2> QED
    BY <1>2, <2>2, <2>3, <2>9, <2>10, Zenon DEF UnlinkDirect, ExitInv, ExitTypes
<1>3. CASE ~MustUnlink(f) /\ UNCHANGED <<exitWords, savedExit>>
  <2>1. CASE Trapped(f)
    BY <1>0, <1>3, <2>1, NotTrapped, TrapsAreSafe, SMTT(30)
      DEF ExitInv, ExitTypes, ExitForms, Linked, TrappedForm, TrapSize, Safe
  <2>2. CASE ~Trapped(f)
    <3>1. Linked(f) /\ f \notin Indirect
      BY <1>0, <1>3, <2>2, NotTrapped, Zenon DEF MustUnlink, ExitInv, ExitForms
    <3>2. CASE status[f] = {}
      <4>1. Safe(f)
        BY <1>0, <3>1, <3>2, LayoutFacts DEF Linked, Safe, Stub
      <4> QED
        BY <1>3, <4>1 DEF ExitInv, ExitTypes, ExitForms, Linked, TrappedForm, TrapSize, Safe
    <3>3. CASE status[f] # {}
      <4>1. sat = "exit" /\ sword > TrapSize(f) /\ sword \in 1..3
        BY <1>0, <1>3, <2>2, <3>3 DEF MustUnlink, ExitInv, ExitTypes
      <4>2. Layout(f, status[f])[sword] = Stub
        BY <1>0, <3>1, <4>1, LayoutFacts DEF TrapSize
      <4>3. exitWords[f][sword].op = "stub"
        BY <3>1, <4>1, <4>2 DEF Linked, Stub
      <4> QED
        BY <1>3, <4>1, <4>3 DEF ExitInv, ExitTypes, ExitForms, Linked, TrappedForm, TrapSize
    <3> QED
      BY <3>2, <3>3, Zenon
  <2> QED
    BY <2>1, <2>2, Zenon
<1> QED
  BY <1>1, <1>2, <1>3, Zenon DEF UnlinkFragment
-----------------------------------------------------------------------------
\* A step that writes no code preserves the form of the exits.
LEMMA CodeKept ==
  ASSUME ExitInv, UNCHANGED exits, sfrag' \in SFrag, sword' \in 1..3
  PROVE  ExitTypes' /\ ExitForms'
  BY DEF ExitInv, ExitTypes, ExitForms, Linked, TrappedForm, TrapSize, exits

\* The steps of the thread outside exits: none writes code.
LEMMA QuietSteps ==
  ASSUME ExitInv,
         \/ BodyEnd \/ CheckedCcReturn \/ DeliverSignals \/ SelfSignal \/ EnterFragment
         \/ EnterSyscall \/ SigReturn \/ SyscallReturns \/ (\E s \in Sig : Send(s))
  PROVE  ExitInv'
<1>1. UNCHANGED exits /\ sfrag' \in SFrag /\ sword' \in 1..3
  BY SMTT(30) DEF ExitInv, ExitTypes, BodyEnd, CheckedCcReturn, DeliverSignals, SelfSignal, EnterFragment,
    EnterSyscall, SigReturn, SyscallReturns, Send, StartHandler, threadAt, exits
<1>2. MustInv'
  <2>1. CASE BodyEnd
    BY <2>1, Zenon DEF BodyEnd, ExitInv, MustInv, Safe, exits
  <2>2. CASE CheckedCcReturn
    BY <2>2, Zenon DEF CheckedCcReturn, ExitInv, MustInv
  <2>3. CASE DeliverSignals
    <3>1. must' = must /\ sat = "deliver" /\ sat' \in {"aborted", "ret", "self"}
      BY <2>3, Zenon DEF DeliverSignals
    <3> QED
      BY <3>1, Zenon DEF ExitInv, MustInv
  <2>4. CASE SelfSignal
    <3>1. must' = must /\ sat = "self" /\ sat' = "ret"
      BY <2>4, Zenon DEF SelfSignal, StartHandler
    <3> QED
      BY <3>1, Zenon DEF ExitInv, MustInv
  <2>5. CASE EnterFragment \/ EnterSyscall \/ SigReturn \/ SyscallReturns
    BY <2>5, SMTT(30) DEF EnterFragment, EnterSyscall, SigReturn, SyscallReturns, ExitInv, MustInv
  <2>6. CASE \E s \in Sig : Send(s)
    <3>1. UNCHANGED <<sat, sfrag, sword, must, exitWords>>
      BY <2>6, Zenon DEF Send, threadAt, exits
    <3> QED
      BY <3>1, Zenon DEF ExitInv, MustInv, Safe
  <2> QED
    BY <2>1, <2>2, <2>3, <2>4, <2>5, <2>6, Zenon
<1> QED
  BY <1>1, <1>2, CodeKept, Zenon DEF ExitInv

\* An instruction of an exit.
LEMMA ExitWordStep ==
  ASSUME ExitInv, ExitWord
  PROVE  ExitInv'
<1> DEFINE w == exitWords[sfrag][sword]
<1>1. /\ sat = "exit" /\ UNCHANGED exits /\ must' = must /\ sfrag' \in SFrag /\ sword' \in 1..3
      /\ \/ w.op \in {"bcond", "ihl"} /\ sat' = "exit" /\ sfrag' = sfrag
         \/ w.op \in {"b", "br"} /\ sat' = "body"
         \/ sat' \in {"disp", "disp0"}
  BY DEF ExitWord, ExitInv, ExitTypes
<1>2. must => Safe(sfrag) \/ w.op = "stub"
  BY <1>1, Zenon DEF ExitInv, MustInv
<1>3. must => w.op \notin {"b", "br"}
  BY <1>2, Zenon DEF Safe, ExitInv, ExitTypes
<1>4. MustInv'
  BY <1>1, <1>2, <1>3, Zenon DEF MustInv, Safe, exits
<1> QED
  BY <1>1, <1>4, CodeKept, Zenon DEF ExitInv, ExitTypes

\* A trap: restore_exit() writes back what linking had written.
LEMMA TrapStep ==
  ASSUME ExitInv, TrapSignal
  PROVE  ExitInv'
<1> PICK f \in SFrag : f = sfrag
  BY Zenon DEF ExitInv, ExitTypes
<1>0. /\ f \in SFrag /\ sat = "exit" /\ exitWords[f][sword].op = "hvc" /\ sword \in 1..3
      /\ UNCHANGED <<sfrag, sword, must>>
  BY Zenon DEF TrapSignal, ExitInv, ExitTypes
<1>1. TrappedForm(f)
  BY <1>0, NotTrapped, Zenon DEF Trapped
<1>2. CASE exitGroup
  BY <1>0, <1>2, CodeKept, Zenon DEF TrapSignal, ExitInv, ExitTypes, MustInv
<1>3. CASE ~exitGroup
  <2>0. RestoreExit(f) /\ sat' = "disp0" /\ status' = status
        /\ savedExit' = [savedExit EXCEPT ![f] = <<>>]
    BY <1>3, Zenon DEF TrapSignal
  <2>1. /\ \A g \in SFrag \ {f} : exitWords'[g] = exitWords[g] /\ savedExit'[g] = savedExit[g]
        /\ DOMAIN exitWords' = SFrag /\ exitWords' = [g \in SFrag |-> exitWords'[g]]
    BY <1>0, <2>0, Zenon DEF RestoreExit, ExitInv, ExitTypes
  <2>2. /\ exitWords'[f] \in [1..3 -> Word]
        /\ Linked(f)'
    <3>1. CASE f \in Indirect
      <4>0. [op |-> "br", side |-> "any"] \in Word
        BY Zenon DEF Word
      <4>1. exitWords'[f] = [exitWords[f] EXCEPT ![2] = [op |-> "br", side |-> "any"]]
        BY <1>0, <2>0, <3>1, Zenon DEF RestoreExit, ExitInv, ExitTypes
      <4>2. exitWords[f] \in [1..3 -> Word]
        BY <1>0, Zenon DEF ExitInv, ExitTypes
      <4>3. exitWords'[f] \in [1..3 -> Word]
        BY <4>0, <4>1, <4>2, Zenon
      <4>4. /\ exitWords'[f][1] = exitWords[f][1] /\ exitWords'[f][3] = exitWords[f][3]
            /\ exitWords'[f][2] = [op |-> "br", side |-> "any"]
        BY <4>1, <4>2
      <4> QED
        BY <1>0, <1>1, <2>0, <3>1, <4>3, <4>4, LayoutFacts, SMTT(30) DEF TrappedForm, Linked
    <3>2. CASE f \notin Indirect
      <4>1. exitWords'[f] = [k \in 1..3 |-> IF k <= TrapSize(f) THEN savedExit[f][k]
                                           ELSE exitWords[f][k]]
        BY <1>0, <2>0, <3>2, Zenon DEF RestoreExit, ExitInv, ExitTypes
      <4>2. \A k \in 1..3 : exitWords'[f][k] = Layout(f, status[f])[k]
        BY <1>1, <3>2, <4>1, Zenon DEF TrappedForm
      <4>3. \A k \in 1..3 : Layout(f, status[f])[k] \in Word
        BY <1>0, LayoutFacts, Zenon
      <4>4. exitWords'[f] \in [1..3 -> Word]
        BY <4>1, <4>2, <4>3, Zenon
      <4>5. exitWords'[f] \in [1..3 -> Word]
        BY <4>4, Zenon
      <4> QED
        BY <2>0, <4>2, <4>5, Zenon DEF Linked
    <3> QED
      BY <3>1, <3>2, Zenon
  <2>3. ExitForms'
    <3> SUFFICES ASSUME NEW g \in SFrag, g # f PROVE (Linked(g) \/ TrappedForm(g))'
      BY <2>2, Zenon DEF ExitForms
    <3> QED
      BY <2>0, <2>1 DEF ExitInv, ExitForms, Linked, TrappedForm, TrapSize
  <2>4. ExitTypes'
    BY <1>0, <2>0, <2>1, <2>2, Zenon DEF ExitInv, ExitTypes
  <2>5. MustInv'
    BY <2>0, Zenon DEF MustInv
  <2> QED
    BY <2>3, <2>4, <2>5, Zenon DEF ExitInv
<1> QED
  BY <1>2, <1>3, Zenon

\* dispatcher() links an exit, whether or not traps were left in it.
LEMMA DispatchStep ==
  ASSUME ExitInv, Dispatch
  PROVE  ExitInv'
<1> PICK f \in SFrag : f = sfrag
  BY Zenon DEF ExitInv, ExitTypes
<1>0. /\ f \in SFrag /\ sat' = "check" /\ sfrag' \in SFrag /\ sword' = 1 /\ must' = FALSE
  BY Zenon DEF Dispatch, ExitInv, ExitTypes
<1>1. MustInv'
  BY <1>0, Zenon DEF MustInv
<1>2. CASE UNCHANGED exits
  <2>1. sword' \in 1..3
    BY <1>0
  <2> QED
    BY <1>0, <1>1, <1>2, <2>1, CodeKept, Zenon DEF ExitInv
<1>3. CASE Link(f)
  <2>1. PICK bits \in SUBSET {"branch", "fall", "both"} :
          /\ status' = [status EXCEPT ![f] = bits]
          /\ exitWords' = [exitWords EXCEPT ![f] = Layout(f, bits)]
          /\ UNCHANGED savedExit
    <3>1. status[f] \in SUBSET {"branch", "fall", "both"}
      BY <1>0, Zenon DEF ExitInv, ExitTypes
    <3> QED
      BY <1>3, <3>1, Zenon DEF Link
  <2>2. /\ \A g \in SFrag \ {f} : exitWords'[g] = exitWords[g] /\ status'[g] = status[g]
        /\ exitWords'[f] = Layout(f, bits) /\ status'[f] = bits
    BY <1>0, <2>1, Zenon DEF ExitInv, ExitTypes
  <2>3. ExitTypes'
    <3>1. Layout(f, bits) \in [1..3 -> Word]
      BY LayoutFacts, Zenon
    <3>2. sword' \in 1..3 /\ sfrag' \in SFrag
      BY <1>0
    <3>3. savedExit' = savedExit
      BY <2>1, Zenon
    <3>4. /\ status' \in [SFrag -> SUBSET {"branch", "fall", "both"}]
          /\ exitWords' \in [SFrag -> [1..3 -> Word]]
      BY <2>1, <3>1, Zenon DEF ExitInv, ExitTypes
    <3> QED
      BY <3>2, <3>3, <3>4, Zenon DEF ExitInv, ExitTypes
  <2>4. ExitForms'
    <3>1. Linked(f)'
      BY <2>2, Zenon DEF Linked
    <3> SUFFICES ASSUME NEW g \in SFrag, g # f PROVE (Linked(g) \/ TrappedForm(g))'
      BY <3>1, Zenon DEF ExitForms
    <3> QED
      BY <2>1, <2>2 DEF ExitInv, ExitForms, Linked, TrappedForm, TrapSize
  <2> QED
    BY <1>1, <2>3, <2>4, Zenon DEF ExitInv
<1> QED
  BY <1>2, <1>3, Zenon DEF Dispatch

\* A signal arrives: signal_dispatcher() unlinks the fragment it interrupted.
LEMMA ArrivalSteps ==
  ASSUME ExitInv, (\E s \in Sig : Deliver(s)) \/ ExitSignal \/ SyncSignal(SyncSig)
  PROVE  ExitInv'
<1>1. \/ /\ UnlinkFragment(sfrag) /\ UNCHANGED status
         /\ \/ InCache /\ UNCHANGED <<sat, sfrag, sword>> /\ must' = TRUE
            \/ sat' = "ret" /\ sfrag' \in SFrag /\ sword' = 1 /\ must' = FALSE
      \/ /\ UNCHANGED exits /\ sfrag' \in SFrag /\ sword' \in 1..3
         /\ \/ sat' = "ret" /\ must' = FALSE
            \/ sat' = "aborted" /\ must' = must
            \/ ~InCache /\ UNCHANGED <<sat, must>>
  <2>1. CASE \E s \in Sig : Deliver(s)
    BY <2>1 DEF Deliver, SignalDispatcher, StartHandler, threadAt, exits, ExitInv, ExitTypes
  <2>2. CASE ExitSignal
    BY <2>2, Zenon DEF ExitSignal, threadAt, exits, ExitInv, ExitTypes
  <2>3. CASE SyncSignal(SyncSig)
    BY <2>3, Zenon DEF SyncSignal, StartHandler
  <2> QED
    BY <2>1, <2>2, <2>3, Zenon
<1>2. CASE UnlinkFragment(sfrag) /\ UNCHANGED status /\ InCache
           /\ UNCHANGED <<sat, sfrag, sword>> /\ must' = TRUE
  <2>1. ExitTypes' /\ ExitForms'
    BY <1>2, Unlinking, Zenon DEF ExitInv, ExitTypes
  <2>2. MustInv'
    <3> PICK f \in SFrag : f = sfrag
      BY Zenon DEF ExitInv, ExitTypes
    <3>1. Safe(f)' \/ (sat = "exit" /\ exitWords'[f][sword].op = "stub")
      BY <1>2, Unlinking, Zenon
    <3> QED
      BY <1>2, <3>1, Zenon DEF MustInv, InCache, Safe
  <2> QED
    BY <2>1, <2>2, Zenon DEF ExitInv
<1>3. CASE UnlinkFragment(sfrag) /\ UNCHANGED status
           /\ sat' = "ret" /\ sfrag' \in SFrag /\ sword' = 1 /\ must' = FALSE
  <2>1. ExitTypes' /\ ExitForms'
    <3> PICK f \in SFrag : f = sfrag
      BY Zenon DEF ExitInv, ExitTypes
    <3>1. /\ DOMAIN savedExit' = SFrag /\ savedExit' = [g \in SFrag |-> savedExit'[g]]
          /\ exitWords' \in [SFrag -> [1..3 -> Word]] /\ ExitForms'
      BY <1>3, Unlinking, Zenon
    <3> QED
      BY <1>3, <3>1 DEF ExitInv, ExitTypes
  <2> QED
    BY <1>3, <2>1, Zenon DEF ExitInv, MustInv
<1>4. CASE /\ UNCHANGED exits /\ sfrag' \in SFrag /\ sword' \in 1..3
           /\ \/ sat' = "ret" /\ must' = FALSE
              \/ sat' = "aborted" /\ must' = must
              \/ ~InCache /\ UNCHANGED <<sat, must>>
  <2>1. MustInv'
    BY <1>4 DEF ExitInv, MustInv, InCache
  <2> QED
    BY <1>4, <2>1, CodeKept, Zenon DEF ExitInv
<1> QED
  BY <1>1, <1>2, <1>3, <1>4, Zenon
-----------------------------------------------------------------------------
\* unlink_fragment() and restore_exit() are inverse to one another for every
\* kind of exit, whatever is interrupted, nested and left; and after a signal
\* has arrived in a fragment no branch to another fragment is in the way of the
\* thread to the dispatcher.
THEOREM UnlinkingIsExact == SignalsSpec => []UnlinkingExact
<1>1. SignalsInit => ExitInv
  <2> SUFFICES ASSUME SignalsInit PROVE ExitInv
    OBVIOUS
  <2>1. \A f \in SFrag : exitWords[f] = Layout(f, {}) /\ status[f] = {}
    BY Zenon DEF SignalsInit
  <2>2. ExitTypes
    <3>1. \A f \in SFrag : Layout(f, {}) \in [1..3 -> Word]
      BY LayoutFacts, Zenon
    <3>2. exitWords \in [SFrag -> [1..3 -> Word]]
      BY <3>1, Zenon DEF SignalsInit
    <3>3. /\ sfrag \in SFrag /\ sword = 1 /\ must = FALSE
          /\ savedExit = [f \in SFrag |-> <<>>] /\ status = [f \in SFrag |-> {}]
      BY Zenon DEF SignalsInit
    <3> QED
      BY <3>2, <3>3 DEF ExitTypes
  <2>3. ExitForms
    BY <2>1, Zenon DEF ExitForms, Linked
  <2>4. MustInv
    BY Zenon DEF SignalsInit, MustInv
  <2> QED
    BY <2>2, <2>3, <2>4, Zenon DEF ExitInv
<1>2. ExitInv /\ [SignalsNext]_signalsVars => ExitInv'
  <2> SUFFICES ASSUME ExitInv, [SignalsNext]_signalsVars PROVE ExitInv'
    OBVIOUS
  <2>1. CASE UNCHANGED signalsVars
    <3>1. UNCHANGED <<exits, sat, sfrag, sword, must>>
      BY <2>1, Zenon DEF signalsVars, threadAt
    <3>2. MustInv'
      BY <3>1, Zenon DEF ExitInv, MustInv, Safe, exits
    <3> QED
      BY <3>1, <3>2, CodeKept, Zenon DEF ExitInv, ExitTypes
  <2>2. CASE SignalsNext
    BY ONLY ExitInv, <2>2, QuietSteps, ExitWordStep, TrapStep, DispatchStep, ArrivalSteps, Zenon
      DEF SignalsNext, ThreadStep
  <2> QED
    BY <2>1, <2>2, Zenon
<1>3. ExitInv => UnlinkingExact
  <2> SUFFICES ASSUME ExitInv PROVE UnlinkingExact
    OBVIOUS
  <2>1. NoLinkedExit
    BY Zenon DEF ExitInv, MustInv, Safe, ExitTypes, NoLinkedExit
  <2>2. ExitsIntact
    <3> SUFFICES ASSUME NEW f \in SFrag, NEW k \in 1..3
                 PROVE  LET restored == IF ~Trapped(f) \/ f \in Indirect THEN exitWords[f]
                                        ELSE [j \in 1..3 |-> IF j <= TrapSize(f) THEN savedExit[f][j]
                                                              ELSE exitWords[f][j]]
                        IN restored[k] = Layout(f, status[f])[k] \/ (f \in Indirect /\ k = 2)
      BY Zenon DEF ExitsIntact
    <3>1. CASE ~Trapped(f)
      BY <3>1, NotTrapped, Zenon DEF ExitInv, ExitForms, Linked
    <3>2. CASE Trapped(f)
      BY <3>2, NotTrapped DEF TrappedForm
    <3> QED
      BY <3>1, <3>2, Zenon
  <2> QED
    BY <2>1, <2>2, Zenon DEF UnlinkingExact
<1> QED
  BY <1>1, <1>2, <1>3, PTL DEF SignalsSpec

-----------------------------------------------------------------------------
(* No signal is lost *)

RecordTypes ==
  /\ pending \in [Sig -> Nat] /\ owed \subseteq Sig /\ exitGroup \in BOOLEAN
  /\ self \subseteq Sig

\* Only the step between deliver_signals() and the self-sent signal holds one.
SelfInv == (self # {} => sat = "self") /\ \A a, b \in self : a = b

RecordInv == RecordTypes /\ SelfInv /\ SignalsRecorded
-----------------------------------------------------------------------------
\* deliver_signals() takes one of the signals it may deliver.
LEMMA MinIsMember ==
  ASSUME NEW S, S \subseteq Sig, S # {}
  PROVE  Min(S) \in S
<1>1. S \subseteq Nat
  BY SignalsAssumption
<1>2. \E x \in S : \A y \in S : ~(<<y, x>> \in OpToRel(<, Nat))
  BY <1>1, NatLessThanWellFounded, WFMin, Zenon
<1>3. \E x \in S : \A y \in S : x =< y
  <2>1. \A x, y \in Nat : y < x => <<y, x>> \in OpToRel(<, Nat)
    BY Zenon DEF OpToRel
  <2>2. PICK x \in S : \A y \in S : ~(<<y, x>> \in OpToRel(<, Nat))
    BY <1>2, Zenon
  <2>3. \A y \in S : ~(y < x)
    BY <1>1, <2>1, <2>2, Zenon
  <2> QED
    BY <1>1, <2>3
<1> QED
  BY <1>3, Zenon DEF Min

\* The steps that neither send, record nor handle a signal.
LEMMA OtherSteps ==
  ASSUME RecordInv,
         \/ BodyEnd \/ ExitWord \/ TrapSignal \/ Dispatch \/ CheckedCcReturn \/ EnterFragment
         \/ EnterSyscall \/ SigReturn \/ SyscallReturns
  PROVE  RecordInv'
<1>1. UNCHANGED <<pending, self, kpend, owed, exitGroup>> /\ sat # "self"
  BY Zenon DEF BodyEnd, ExitWord, TrapSignal, Dispatch, CheckedCcReturn, EnterFragment, EnterSyscall,
    SigReturn, SyscallReturns, counters, kernel
<1> QED
  BY <1>1, Zenon DEF RecordInv, RecordTypes, SelfInv, SignalsRecorded

\* A signal is sent, to the thread or by dbm_exit().
LEMMA SendSteps ==
  ASSUME RecordInv, (\E s \in Sig : Send(s)) \/ ExitSignal
  PROVE  RecordInv'
<1>1. CASE \E s \in Sig : Send(s)
  BY <1>1, Zenon DEF Send, threadAt, counters, RecordInv, RecordTypes, SelfInv, SignalsRecorded
<1>2. CASE ExitSignal
  <2>1. UNCHANGED <<pending, self, owed>> /\ exitGroup' = TRUE /\ (sat # "self" \/ sat' = sat)
    BY <1>2, Zenon DEF ExitSignal, counters, threadAt
  <2> QED
    BY <2>1, Zenon DEF RecordInv, RecordTypes, SelfInv, SignalsRecorded
<1> QED
  BY <1>1, <1>2, Zenon

\* A signal arrives: it is handled at once, or recorded.
LEMMA DeliverStep ==
  ASSUME RecordInv, NEW s \in Sig, Deliver(s)
  PROVE  RecordInv'
<1>0. kpend' = kpend \ {s} /\ UNCHANGED exitGroup /\ SignalDispatcher(s)
  BY Zenon DEF Deliver
<1>1. CASE AtSvc /\ StartHandler(s) /\ UNCHANGED counters
  BY <1>0, <1>1, Zenon DEF AtSvc, StartHandler, counters, RecordInv, RecordTypes, SelfInv, SignalsRecorded
<1>2. CASE Record(s) /\ UNCHANGED <<threadAt, owed>>
  <2>1. /\ pending' \in [Sig -> Nat] /\ pending'[s] > 0
        /\ \A u \in Sig \ {s} : pending'[u] = pending[u]
        /\ UNCHANGED <<self, owed, sat>>
    BY <1>2 DEF Record, threadAt, RecordInv, RecordTypes
  <2> QED
    BY <1>0, <2>1, Zenon DEF RecordInv, RecordTypes, SelfInv, SignalsRecorded
<1> QED
  BY <1>0, <1>1, <1>2, Zenon DEF SignalDispatcher

\* A synchronous signal is handled at once.
LEMMA SyncStep ==
  ASSUME RecordInv, SyncSignal(SyncSig)
  PROVE  RecordInv'
  BY Zenon DEF SyncSignal, StartHandler, counters, RecordInv, RecordTypes, SelfInv, SignalsRecorded

\* deliver_signals() moves a signal from pending_signals to the thread.
LEMMA DeliverSignalsStep ==
  ASSUME RecordInv, DeliverSignals
  PROVE  RecordInv'
<1> DEFINE found == {i \in Sig : ~MaskTest(i) /\ pending[i] > 0}
<1> HIDE DEF found
<1>0. sat = "deliver" /\ self = {} /\ UNCHANGED <<kpend, owed, exitGroup>>
  BY Zenon DEF DeliverSignals, kernel, RecordInv, SelfInv
<1>1. CASE UNCHANGED counters
  BY <1>0, <1>1, Zenon DEF counters, RecordInv, RecordTypes, SelfInv, SignalsRecorded
<1>2. CASE found # {} /\ sat' = "self" /\ self' = {Min(found)} /\ Consume(Min(found))
  <2> DEFINE m == Min(found)
  <2>1. m \in Sig /\ pending[m] > 0
    BY <1>2, MinIsMember DEF found
  <2> HIDE DEF m
  <2>2. pending' = [pending EXCEPT ![m] = @ - 1] /\ self' = {m}
    BY <1>2, Zenon DEF m, Consume
  <2>3. pending' \in [Sig -> Nat] /\ \A u \in Sig \ {m} : pending'[u] = pending[u]
    BY <2>1, <2>2 DEF RecordInv, RecordTypes
  <2> QED
    BY <1>0, <1>2, <2>1, <2>2, <2>3, Zenon DEF RecordInv, RecordTypes, SelfInv, SignalsRecorded
<1> QED
  BY <1>1, <1>2, Zenon DEF DeliverSignals, found

\* The signal that the thread sends itself is handled, or waits in the kernel.
LEMMA SelfStep ==
  ASSUME RecordInv, SelfSignal
  PROVE  RecordInv'
<1>0. /\ self' = {} /\ UNCHANGED <<pending, exitGroup>>
      /\ owed' \subseteq owed
  BY Zenon DEF SelfSignal, StartHandler, kernel
<1>1. ~exitGroup => \A u \in owed' : u \notin self \/ u \in kpend'
  BY Zenon DEF SelfSignal, StartHandler, RecordInv, SelfInv
<1>2. kpend \subseteq kpend'
  BY Zenon DEF SelfSignal, StartHandler, kernel
<1> QED
  BY <1>0, <1>1, <1>2, Zenon DEF RecordInv, RecordTypes, SelfInv, SignalsRecorded
-----------------------------------------------------------------------------
\* signal_dispatcher() and deliver_signals() lose no signal: one that was sent
\* and not handled since is in the kernel, in pending_signals or about to be
\* sent to the thread.
THEOREM NoSignalLost == SignalsSpec => []SignalsRecorded
<1>1. SignalsInit => RecordInv
  <2> SUFFICES ASSUME SignalsInit PROVE RecordInv
    OBVIOUS
  <2>1. pending = [s \in Sig |-> 0] /\ owed = {} /\ self = {} /\ exitGroup = FALSE
    BY Zenon DEF SignalsInit
  <2> QED
    BY <2>1, Zenon DEF RecordInv, RecordTypes, SelfInv, SignalsRecorded
<1>2. RecordInv /\ [SignalsNext]_signalsVars => RecordInv'
  <2> SUFFICES ASSUME RecordInv, [SignalsNext]_signalsVars PROVE RecordInv'
    OBVIOUS
  <2>1. CASE UNCHANGED signalsVars
    BY <2>1, Zenon DEF signalsVars, threadAt, counters, kernel, RecordInv, RecordTypes, SelfInv,
      SignalsRecorded
  <2>2. CASE SignalsNext
    BY ONLY RecordInv, <2>2, OtherSteps, SendSteps, DeliverStep, SyncStep, DeliverSignalsStep,
      SelfStep, Zenon DEF SignalsNext, ThreadStep
  <2> QED
    BY <2>1, <2>2, Zenon
<1>3. RecordInv => SignalsRecorded
  BY Zenon DEF RecordInv
<1> QED
  BY <1>1, <1>2, <1>3, PTL DEF SignalsSpec
-----------------------------------------------------------------------------
(* is_signal_pending counts what is recorded *)

\* Beside the counter itself: what is recorded is a finite set of signals.
CountInv ==
  /\ pending \in [Sig -> Nat] /\ isPending \in Nat
  /\ CountersAgree

\* The signals recorded, without a union.
LEMMA RecordedPairs ==
  ASSUME NEW pend \in [Sig -> Nat]
  PROVE  UNION {{s} \X (1..pend[s]) : s \in Sig} =
           {p \in Sig \X Nat : 1 =< p[2] /\ p[2] =< pend[p[1]]}
<1> DEFINE union == UNION {{s} \X (1..pend[s]) : s \in Sig}
           pairs == {p \in Sig \X Nat : 1 =< p[2] /\ p[2] =< pend[p[1]]}
<1>1. ASSUME NEW p \in union PROVE p \in pairs
  <2>1. PICK s \in Sig : p \in {s} \X (1..pend[s])
    BY <1>1, Zenon
  <2>2. pend[s] \in Nat
    BY Zenon
  <2> QED
    BY <2>1, <2>2
<1>2. ASSUME NEW p \in pairs PROVE p \in union
  <2>1. p \in Sig \X Nat /\ pend[p[1]] \in Nat /\ p = <<p[1], p[2]>>
    BY <1>2
  <2>2. p[2] \in 1..pend[p[1]]
    BY <1>2, <2>1
  <2>3. p \in {p[1]} \X (1..pend[p[1]])
    BY <2>1, <2>2
  <2> QED
    BY <2>1, <2>3, Zenon
<1> QED
  BY <1>1, <1>2, Zenon

\* There are finitely many.
LEMMA RecordedFinite ==
  ASSUME pending \in [Sig -> Nat]
  PROVE  IsFiniteSet(RecordedSignals)
<1>1. IsFiniteSet(Sig)
  <2>1. IsFiniteSet(1..64)
    <3>1. 1 \in Int /\ 64 \in Int
      OBVIOUS
    <3> QED
      BY <3>1, FS_Interval, Zenon
  <2> QED
    BY <2>1, SignalsAssumption, FS_Subset, Zenon
<1>2. \A s \in Sig : IsFiniteSet({s} \X (1..pending[s]))
  <2> SUFFICES ASSUME NEW s \in Sig PROVE IsFiniteSet({s} \X (1..pending[s]))
    BY Zenon
  <2>1. IsFiniteSet(1..pending[s])
    <3>1. 1 \in Int /\ pending[s] \in Int
      OBVIOUS
    <3> QED
      BY <3>1, FS_Interval, Zenon
  <2> QED
    BY <2>1, FS_Singleton, FS_Product, Zenon
<1>3. IsFiniteSet({{s} \X (1..pending[s]) : s \in Sig})
  <2> DEFINE sets == {{s} \X (1..pending[s]) : s \in Sig}
             f == [s \in Sig |-> {s} \X (1..pending[s])]
  <2>1. f \in Surjection(Sig, sets)
    BY Zenon DEF Surjection
  <2> QED
    BY <1>1, <2>1, FS_Surjection, Zenon
<1> QED
  BY <1>2, <1>3, FS_UNION, Zenon DEF RecordedSignals

\* One signal more is recorded.
LEMMA RecordedOneMore ==
  ASSUME CountInv, NEW s \in Sig, Record(s), ~exitGroup, UNCHANGED exitGroup
  PROVE  CountInv'
<1> DEFINE new == <<s, pending[s] + 1>>
<1>1. pending[s] \in Nat /\ pending' = [pending EXCEPT ![s] = @ + 1] /\ isPending' = isPending + 1
  BY Zenon DEF CountInv, Record
<1>2. pending' \in [Sig -> Nat] /\ isPending' \in Nat
  BY <1>1 DEF CountInv
<1>3. RecordedSignals' = RecordedSignals \cup {new} /\ new \notin RecordedSignals
  <2>1. RecordedSignals = {p \in Sig \X Nat : 1 =< p[2] /\ p[2] =< pending[p[1]]}
    BY RecordedPairs, Zenon DEF CountInv, RecordedSignals
  <2>2. RecordedSignals' = {p \in Sig \X Nat : 1 =< p[2] /\ p[2] =< pending'[p[1]]}
    BY <1>2, RecordedPairs, Zenon DEF RecordedSignals
  <2>3. new \in Sig \X Nat /\ new[1] = s /\ new[2] = pending[s] + 1
    BY <1>1
  <2>4. ASSUME NEW p \in Sig \X Nat
        PROVE  p[2] =< pending'[p[1]] <=> p[2] =< pending[p[1]] \/ p = new
    BY <1>1 DEF CountInv
  <2> QED
    BY <1>1, <2>1, <2>2, <2>3, <2>4
<1>4. IsFiniteSet(RecordedSignals)
  BY RecordedFinite, Zenon DEF CountInv
<1>5. Cardinality(RecordedSignals \cup {new}) = Cardinality(RecordedSignals) + 1
  BY <1>3, <1>4, FS_AddElement, Zenon
<1> QED
  BY <1>1, <1>2, <1>3, <1>5, Zenon DEF CountInv, CountersAgree

\* deliver_signals() takes one signal off both counters.
LEMMA RecordedOneLess ==
  ASSUME CountInv, NEW s \in Sig, pending[s] > 0, Consume(s), ~exitGroup, UNCHANGED exitGroup
  PROVE  CountInv'
<1> DEFINE old == <<s, pending[s]>>
<1>1. pending[s] \in Nat /\ pending' = [pending EXCEPT ![s] = @ - 1] /\ isPending' = isPending - 1
  BY Zenon DEF CountInv, Consume
<1>2. pending' \in [Sig -> Nat]
  BY <1>1 DEF CountInv
<1>3. RecordedSignals' = RecordedSignals \ {old} /\ old \in RecordedSignals
  <2>1. RecordedSignals = {p \in Sig \X Nat : 1 =< p[2] /\ p[2] =< pending[p[1]]}
    BY RecordedPairs, Zenon DEF CountInv, RecordedSignals
  <2>2. RecordedSignals' = {p \in Sig \X Nat : 1 =< p[2] /\ p[2] =< pending'[p[1]]}
    BY <1>2, RecordedPairs, Zenon DEF RecordedSignals
  <2>3. old \in Sig \X Nat /\ old[1] = s /\ old[2] = pending[s]
    BY <1>1
  <2>4. ASSUME NEW p \in Sig \X Nat
        PROVE  p[2] =< pending'[p[1]] <=> p[2] =< pending[p[1]] /\ p # old
    BY <1>1 DEF CountInv
  <2> QED
    BY <1>1, <2>1, <2>2, <2>3, <2>4
<1>4. IsFiniteSet(RecordedSignals)
  BY RecordedFinite, Zenon DEF CountInv
<1>5. /\ Cardinality(RecordedSignals \ {old}) = Cardinality(RecordedSignals) - 1
      /\ IsFiniteSet(RecordedSignals \ {old})
  BY <1>3, <1>4, FS_RemoveElement, Zenon
<1>6. Cardinality(RecordedSignals \ {old}) \in Nat
  BY <1>5, FS_CardinalityType, Zenon
<1>7. isPending = Cardinality(RecordedSignals)
  BY Zenon DEF CountInv, CountersAgree
<1> QED
  BY <1>1, <1>2, <1>3, <1>5, <1>6, <1>7, Zenon DEF CountInv, CountersAgree

\* The other steps leave both counters alone, or belong to the end of the process.
LEMMA RecordedSame ==
  ASSUME CountInv,
         \/ UNCHANGED <<pending, isPending, exitGroup>>
         \/ pending' = pending /\ isPending' \in {isPending, isPending + 1} /\ exitGroup'
  PROVE  CountInv'
<1>1. isPending' \in Nat /\ pending' = pending
  BY DEF CountInv
<1>2. RecordedSignals' = RecordedSignals
  BY <1>1, Zenon DEF RecordedSignals
<1> QED
  BY <1>1, <1>2, Zenon DEF CountInv, CountersAgree

\* signal_dispatcher() and deliver_signals() keep is_signal_pending equal to the
\* number of signals recorded, so checked_cc_return, which tests nothing else,
\* calls deliver_signals() exactly when one is recorded.
THEOREM CountersAlwaysAgree == SignalsSpec => []CountersAgree
<1>1. SignalsInit => CountInv
  <2> SUFFICES ASSUME SignalsInit PROVE CountInv
    OBVIOUS
  <2>1. pending = [s \in Sig |-> 0] /\ isPending = 0
    BY Zenon DEF SignalsInit
  <2>2. pending \in [Sig -> Nat]
    BY <2>1
  <2>3. RecordedSignals = {p \in Sig \X Nat : 1 =< p[2] /\ p[2] =< pending[p[1]]}
    BY <2>2, RecordedPairs, Zenon DEF RecordedSignals
  <2>4. RecordedSignals = {}
    BY <2>1, <2>3
  <2>5. isPending = Cardinality(RecordedSignals) /\ isPending \in Nat
    BY <2>1, <2>4, FS_EmptySet
  <2> QED
    BY <2>2, <2>5, Zenon DEF CountInv, CountersAgree
<1>2. CountInv /\ [SignalsNext]_signalsVars => CountInv'
  <2> SUFFICES ASSUME CountInv, [SignalsNext]_signalsVars PROVE CountInv'
    OBVIOUS
  <2>1. CASE UNCHANGED signalsVars
    BY <2>1, RecordedSame, Zenon DEF signalsVars, counters
  <2>2. CASE \/ BodyEnd \/ ExitWord \/ TrapSignal \/ Dispatch \/ CheckedCcReturn \/ EnterFragment
             \/ EnterSyscall \/ SigReturn \/ SyscallReturns \/ SyncSignal(SyncSig)
             \/ \E s \in Sig : Send(s)
    <3>1. UNCHANGED <<pending, isPending, exitGroup>>
      BY <2>2, Zenon DEF BodyEnd, ExitWord, TrapSignal, Dispatch, CheckedCcReturn, EnterFragment,
        EnterSyscall, SigReturn, SyscallReturns, SyncSignal, Send, counters
    <3> QED
      BY <3>1, RecordedSame, Zenon
  <2>3. CASE ExitSignal
    <3>1. pending' = pending /\ isPending' \in {isPending, isPending + 1} /\ exitGroup'
      BY <2>3, Zenon DEF ExitSignal, counters
    <3> QED
      BY <3>1, RecordedSame, Zenon
  <2>4. ASSUME NEW s \in Sig, Deliver(s) PROVE CountInv'
    <3>1. ~exitGroup /\ UNCHANGED exitGroup /\ (Record(s) \/ UNCHANGED <<pending, isPending>>)
      BY <2>4, Zenon DEF Deliver, SignalDispatcher, counters
    <3> QED
      BY <3>1, RecordedOneMore, RecordedSame, Zenon
  <2>5. CASE DeliverSignals
    <3> DEFINE found == {i \in Sig : ~MaskTest(i) /\ pending[i] > 0}
    <3>1. \/ UNCHANGED <<pending, isPending, exitGroup>>
          \/ ~exitGroup /\ UNCHANGED exitGroup /\ found # {} /\ Consume(Min(found))
      BY <2>5, Zenon DEF DeliverSignals, counters
    <3>2. found # {} => Min(found) \in found
      BY MinIsMember, Zenon
    <3>3. found # {} => Min(found) \in Sig /\ pending[Min(found)] > 0
      BY <3>2, Zenon
    <3> HIDE DEF found
    <3> QED
      BY <3>1, <3>3, RecordedOneLess, RecordedSame, Zenon
  <2>6. CASE SelfSignal
    <3>1. \/ UNCHANGED <<pending, isPending, exitGroup>>
          \/ pending' = pending /\ isPending' = isPending + 1 /\ exitGroup'
      BY <2>6, Zenon DEF SelfSignal
    <3> QED
      BY <3>1, RecordedSame, Zenon
  <2> QED
    BY ONLY [SignalsNext]_signalsVars, <2>1, <2>2, <2>3, <2>4, <2>5, <2>6, Zenon
      DEF SignalsNext, ThreadStep
<1>3. CountInv => CountersAgree
  BY Zenon DEF CountInv
<1> QED
  BY <1>1, <1>2, <1>3, PTL DEF SignalsSpec
-----------------------------------------------------------------------------
(* The side that a trap takes *)

\* The branches and register contents that interpret_condition(), interpret_cbz()
\* and interpret_tbz() interpret as the processor does: all condition codes; a
\* register with the same low half as a whole, as far as being zero goes; and the
\* bits that an int has, except its sign.
Interpretable(b, r) ==
  \/ b.kind = "cond" /\ b.code \in 0..15
  \/ b.kind = "cbz" /\ (r.bits = {} \/ \E n \in 0..31 : n \in r.bits)
  \/ b.kind = "tbz" /\ b.bit \in 0..30

SideInv ==
  /\ wrongSide = FALSE /\ branch \in Branches
  /\ sat = "exit" => regs \in Values

\* The last entry of a table of eight.
LEMMA LastOfEight ==
  ASSUME NEW a, NEW b, NEW c, NEW d, NEW e, NEW f, NEW g, NEW i, i = 8, NEW x, ~x
  PROVE  <<a, b, c, d, e, f, g, TRUE>>[i] # x
  BY Zenon

\* interpret_condition() evaluates all sixteen condition codes.
LEMMA ConditionCodes ==
  ASSUME NEW flags, NEW code \in 0..15
  PROVE  InterpretCondition(flags, code) = HwCode(flags, code)
<1>1. \/ code = 0 \/ code = 1 \/ code = 2 \/ code = 3 \/ code = 4 \/ code = 5 \/ code = 6 \/ code = 7
      \/ code = 8 \/ code = 9 \/ code = 10 \/ code = 11 \/ code = 12 \/ code = 13 \/ code = 14 \/ code = 15
  OBVIOUS
<1>3. InterpretCondition(flags, 0) = HwCode(flags, 0)
  BY DEF InterpretCondition, HwCode
<1>4. InterpretCondition(flags, 1) = HwCode(flags, 1)
  BY DEF InterpretCondition, HwCode
<1>5. InterpretCondition(flags, 2) = HwCode(flags, 2)
  BY DEF InterpretCondition, HwCode
<1>6. InterpretCondition(flags, 3) = HwCode(flags, 3)
  BY DEF InterpretCondition, HwCode
<1>7. InterpretCondition(flags, 4) = HwCode(flags, 4)
  BY DEF InterpretCondition, HwCode
<1>8. InterpretCondition(flags, 5) = HwCode(flags, 5)
  BY DEF InterpretCondition, HwCode
<1>9. InterpretCondition(flags, 6) = HwCode(flags, 6)
  BY DEF InterpretCondition, HwCode
<1>10. InterpretCondition(flags, 7) = HwCode(flags, 7)
  BY DEF InterpretCondition, HwCode
<1>11. InterpretCondition(flags, 8) = HwCode(flags, 8)
  BY DEF InterpretCondition, HwCode
<1>12. InterpretCondition(flags, 9) = HwCode(flags, 9)
  BY DEF InterpretCondition, HwCode
<1>13. InterpretCondition(flags, 10) = HwCode(flags, 10)
  BY DEF InterpretCondition, HwCode
<1>14. InterpretCondition(flags, 11) = HwCode(flags, 11)
  BY DEF InterpretCondition, HwCode
<1>15. InterpretCondition(flags, 12) = HwCode(flags, 12)
  BY DEF InterpretCondition, HwCode
<1>16. InterpretCondition(flags, 13) = HwCode(flags, 13)
  BY DEF InterpretCondition, HwCode
<1>17. InterpretCondition(flags, 14) = HwCode(flags, 14)
  <2>1. HwCode(flags, 14) = TRUE
    BY DEF HwCode
  <2>2. 14 \div 2 + 1 = 8 /\ ~(14 < 14 /\ 14 % 2 = 1)
    OBVIOUS
  <2>3. InterpretCondition(flags, 14)
    BY ONLY <2>2, LastOfEight, Zenon DEF InterpretCondition
  <2> QED
    BY <2>1, <2>3, Zenon DEF InterpretCondition
<1>18. InterpretCondition(flags, 15) = HwCode(flags, 15)
  <2>1. HwCode(flags, 15) = TRUE
    BY DEF HwCode
  <2>2. 15 \div 2 + 1 = 8 /\ ~(15 < 14 /\ 15 % 2 = 1)
    OBVIOUS
  <2>3. InterpretCondition(flags, 15)
    BY ONLY <2>2, LastOfEight, Zenon DEF InterpretCondition
  <2> QED
    BY <2>1, <2>3, Zenon DEF InterpretCondition
<1> QED
  BY <1>1, <1>3, <1>4, <1>5, <1>6, <1>7, <1>8, <1>9, <1>10, <1>11, <1>12, <1>13, <1>14, <1>15, <1>16, <1>17, <1>18, Zenon

\* The interpretation of a branch is what the processor does.
LEMMA Interpreted ==
  ASSUME NEW b, NEW r, Interpretable(b, r)
  PROVE  IsTaken(b, r) = HwTaken(b, r)
<1>1. CASE b.kind = "cond" /\ b.code \in 0..15
  BY <1>1, ConditionCodes, Zenon DEF IsTaken, HwTaken
<1>2. CASE b.kind = "cbz" /\ (r.bits = {} \/ \E n \in 0..31 : n \in r.bits)
  BY <1>2, Zenon DEF IsTaken, HwTaken, InterpretCbz
<1>3. CASE b.kind = "tbz" /\ b.bit \in 0..30
  <2>1. IntBit(b.bit) = {b.bit}
    BY <1>3 DEF IntBit
  <2> QED
    BY <1>3, <2>1, Zenon DEF IsTaken, HwTaken, InterpretTbz
<1> QED
  BY <1>1, <1>2, <1>3, Zenon DEF Interpretable

\* A thread that is stopped by a trap in an exit goes to the side that the branch
\* would have taken, for every condition code and all flags, and for the other
\* conditional branches as far as their registers are interpretable.
THEOREM TrapTakesTheSide ==
  ASSUME \A b \in Branches, r \in Values : Interpretable(b, r)
  PROVE  SignalsSpec => []TrapTakesSameSide
<1>1. SignalsInit => SideInv
  BY Zenon DEF SignalsInit, SideInv
<1>2. SideInv /\ [SignalsNext]_signalsVars => SideInv'
  <2> SUFFICES ASSUME SideInv, [SignalsNext]_signalsVars PROVE SideInv'
    OBVIOUS
  <2>1. CASE UNCHANGED signalsVars
    BY <2>1, Zenon DEF signalsVars, threadAt, SideInv
  <2>2. CASE TrapSignal
    <3>1. /\ sat = "exit" /\ branch' = branch /\ sat' # "exit"
          /\ \/ wrongSide' = wrongSide
             \/ wrongSide' = (wrongSide \/ (sfrag \in Cond /\ IsTaken(branch, regs) # HwTaken(branch, regs)))
      BY <2>2, Zenon DEF TrapSignal
    <3>2. IsTaken(branch, regs) = HwTaken(branch, regs)
      BY <3>1, Interpreted, Zenon DEF SideInv
    <3>3. wrongSide' = FALSE
      BY <3>1, <3>2, Zenon DEF SideInv
    <3> QED
      BY <3>1, <3>3, Zenon DEF SideInv
  <2>3. CASE BodyEnd
    BY <2>3, Zenon DEF BodyEnd, SideInv
  <2>4. CASE ExitWord
    BY <2>4, Zenon DEF ExitWord, SideInv
  <2>5. CASE Dispatch \/ CheckedCcReturn \/ DeliverSignals \/ SelfSignal \/ EnterFragment
             \/ EnterSyscall \/ SigReturn \/ SyscallReturns
    <3>1. UNCHANGED <<branch, wrongSide>> /\ sat' # "exit"
      BY <2>5, Zenon DEF Dispatch, CheckedCcReturn, DeliverSignals, SelfSignal, EnterFragment,
        EnterSyscall, SigReturn, SyscallReturns, StartHandler
    <3> QED
      BY <3>1, Zenon DEF SideInv
  <2>6. CASE (\E s \in Sig : Send(s) \/ Deliver(s)) \/ SyncSignal(SyncSig) \/ ExitSignal
    <3>1. UNCHANGED <<branch, wrongSide, regs>> /\ (sat' # "exit" \/ sat' = sat)
      BY <2>6, Zenon DEF Send, Deliver, SignalDispatcher, SyncSignal, ExitSignal, StartHandler,
        threadAt
    <3> QED
      BY <3>1, Zenon DEF SideInv
  <2> QED
    BY ONLY [SignalsNext]_signalsVars, <2>1, <2>2, <2>3, <2>4, <2>5, <2>6, Zenon
      DEF SignalsNext, ThreadStep
<1>3. SideInv => TrapTakesSameSide
  BY Zenon DEF SideInv, TrapTakesSameSide
<1> QED
  BY <1>1, <1>2, <1>3, PTL DEF SignalsSpec
=============================================================================
