------------------------------- MODULE XTrace -------------------------------
(***************************************************************************)
(* The execution tracer plugins/xtrace.c: the capture side, which runs in  *)
(* the threads of the program, and the decoder, which reads the file       *)
(* afterwards.                                                             *)
(*                                                                         *)
(* A thread runs the instructions of TracedInst in any order.  Before each *)
(* one the instrumentation calls xtrace_record_inst() and, if it accesses  *)
(* memory, xtrace_record_access_pre(); after a store it calls              *)
(* xtrace_record_store_post().  Events go to a buffer of the thread, which *)
(* is written to the file as a block when it is full and when the thread   *)
(* ends.  The file is a sequence of units: the header of the file, the     *)
(* header of a block, the events of a block, the end mark.  xdisk is the   *)
(* part of it that has left the buffer of stdio when the process is gone.  *)
(* A write may fail, and the process may be killed at any time.            *)
(*                                                                         *)
(* Encodings, values and compression are left out: an event is the         *)
(* instruction or the access it stands for, and a block decompresses to    *)
(* what was compressed.  A time stamp is the number of instructions its    *)
(* thread has recorded; the decoder's conversion to cycles is left out.    *)
(*                                                                         *)
(* text is what the build with MAMBO_XTRACE_FORMAT=text prints for each    *)
(* thread during the run; the decoder has to reconstruct it.               *)
(***************************************************************************)
EXTENDS Integers, Sequences, SequencesExt

CONSTANTS
  XThread,         \* threads, by the id that xtrace_pre_thread_handler() gives them
  TracedInst,            \* instructions: [pc, len, load, store, size]
  PcRanges,        \* MAMBO_XTRACE_PC_RANGES: a set of <<start, end>>
  EventsPerBlock,  \* XTRACE_EVENTS_PER_BLOCK
  SampleInterval,  \* XTRACE_TIMESTAMP_SAMPLE_INTERVAL
  MaxInst          \* bound on the instructions each thread runs

ASSUME XTraceAssumption ==
  /\ EventsPerBlock \in Nat /\ EventsPerBlock >= 3
  /\ SampleInterval \in Nat \ {0} /\ MaxInst \in [XThread -> Nat]
  /\ \A i \in TracedInst : i.pc \in Nat /\ i.len \in Nat \ {0} /\ i.size \in Nat

VARIABLES
  xthread,     \* struct xtrace_thread, and where the thread is
  xfile, xdisk, xtrace_output_failed,
  xphase,      \* "open", "closed" by xtrace_exit_handler(), or "killed"
  text

xtraceVars == <<xthread, xfile, xdisk, xtrace_output_failed, xphase, text>>

-----------------------------------------------------------------------------
(* Capture *)

(* xtrace_pc_filtered(): the ranges are inclusive; without any, all is recorded. *)
XtracePcFiltered(pc) == PcRanges # {} /\ \A r \in PcRanges : pc < r[1] \/ pc > r[2]

IsMem(i) == i.load \/ i.store

(* xtrace_pre_inst_handler() gives no instrumentation to an access of unknown size. *)
Instrumented(i) == ~(IsMem(i) /\ i.size = 0)

(* (Variant of InstEvent: the interval is one longer.) *)
InstEventLate(th, i) ==
  [type |-> "inst", inst |-> i,
   sample |-> th.instruction_count % (SampleInterval + 1) = 0,
   stamp |-> th.instruction_count]

(* The event of an instruction, with a time stamp once in SampleInterval. *)
InstEvent(th, i) ==
  [type |-> "inst", inst |-> i,
   sample |-> th.instruction_count % SampleInterval = 0,
   stamp |-> IF th.instruction_count % SampleInterval = 0 THEN th.instruction_count ELSE 0]

AccessEvent(kind, i) == [type |-> kind, inst |-> i, sample |-> FALSE, stamp |-> 0]

(* xtrace_pre_thread_handler(). *)
NewThread ==
  [at |-> "run", events |-> <<>>, instruction_count |-> 0, store_pending |-> {},
   current |-> {}, count |-> 0]

EncodedBlock(t, evs) == <<[unit |-> "block", thread |-> t, events |-> <<>>],
                   [unit |-> "events", thread |-> t, events |-> evs]>>
FileHeader == [unit |-> "header", thread |-> 0, events |-> <<>>]
EofBlock == [unit |-> "eof", thread |-> 0, events |-> <<>>]

(* (Variant of FlushThread: a failed write does not stop the output.) *)
FlushThreadForgets(t) ==
  IF xthread[t].events = <<>> \/ xtrace_output_failed THEN {<<xfile, xtrace_output_failed>>}
  ELSE LET b == EncodedBlock(t, xthread[t].events)
       IN {<<xfile \o SubSeq(b, 1, n), FALSE>> : n \in 0..2}

(* xtrace_flush_thread(): the possible results for the file and for        *)
(* xtrace_output_failed.  Nothing is written once a write has failed, and  *)
(* the buffer is empty afterwards in every case.  A write that fails may   *)
(* have written the header of the block.                                   *)
FlushThread(t) ==
  IF xthread[t].events = <<>> \/ xtrace_output_failed THEN {<<xfile, xtrace_output_failed>>}
  ELSE LET b == EncodedBlock(t, xthread[t].events)
       IN {<<xfile \o b, FALSE>>} \union {<<xfile \o SubSeq(b, 1, n), TRUE>> : n \in 0..1}

(* What stdio may have written out when the process ends: it writes some of *)
(* its buffer whenever that is full.                                        *)
Drained(file) == {SubSeq(file, 1, n) : n \in 0..Len(file)}

Flush(t) ==
  /\ \E r \in FlushThread(t) : xfile' = r[1] /\ xtrace_output_failed' = r[2]
  /\ UNCHANGED xdisk

Unflushed == UNCHANGED <<xfile, xdisk, xtrace_output_failed>>

(* The new event goes to the buffer, after xtrace_next_event() has flushed it if it is full. *)
AddEvent(t, ev, th) ==
  \/ /\ Len(xthread[t].events) < EventsPerBlock
     /\ Unflushed
     /\ xthread' = [xthread EXCEPT ![t] = [th EXCEPT !.events = Append(@, ev)]]
  \/ /\ Len(xthread[t].events) = EventsPerBlock
     /\ Flush(t)
     /\ xthread' = [xthread EXCEPT ![t] = [th EXCEPT !.events = <<ev>>]]

(* What text mode prints for an instruction, after a discontinuity in the program counter. *)
TextInst(lines, i) ==
  LET insts == SelectSeq(lines, LAMBDA l : l.type = "inst")
      last == insts[Len(insts)].inst
      ring == insts # <<>> /\ i.pc # last.pc + last.len
  IN lines \o (IF ring THEN <<[type |-> "ring", inst |-> i]>> ELSE <<>>)
           \o <<[type |-> "inst", inst |-> i]>>

(* What the code around an instruction calls after xtrace_record_inst(): a  *)
(* store is followed by xtrace_record_store_post() also if nothing precedes *)
(* it.                                                                      *)
AfterInst(i) == IF IsMem(i) /\ Instrumented(i) THEN "access" ELSE IF i.store THEN "store" ELSE "run"

(* (Variant of KeepTogether: room is kept for one access, not for two.) *)
KeepTogetherOne(n) == n > EventsPerBlock - 2

(* The test that keeps an instruction and its possible accesses in one block. *)
KeepTogether(n) == n > EventsPerBlock - 3

(* xtrace_record_inst(). *)
RecordInst(t, i) ==
  LET th == xthread[t]
      next == [th EXCEPT !.at = AfterInst(i), !.current = {i}, !.count = @ + 1]
      counted == [next EXCEPT !.instruction_count = @ + 1]
  IN /\ xphase = "open" /\ th.at = "run" /\ th.count < MaxInst[t]
     /\ \/ /\ ~Instrumented(i) \/ XtracePcFiltered(i.pc)
           /\ xthread' = [xthread EXCEPT ![t] = next]
           /\ Unflushed /\ UNCHANGED text
        \/ /\ Instrumented(i) /\ ~XtracePcFiltered(i.pc)
           /\ text' = [text EXCEPT ![t] = TextInst(@, i)]
           /\ \/ /\ KeepTogether(Len(th.events))
                 /\ Flush(t)
                 /\ xthread' = [xthread EXCEPT ![t] = [counted EXCEPT !.events = <<InstEvent(th, i)>>]]
              \/ /\ ~KeepTogether(Len(th.events))
                 /\ AddEvent(t, InstEvent(th, i), counted)
     /\ UNCHANGED xphase

(* xtrace_record_access_pre(), then the access itself. *)
RecordAccessPre(t) ==
  LET th == xthread[t]
      i == CHOOSE x \in th.current : TRUE
      next == [th EXCEPT !.at = IF i.store THEN "store" ELSE "run",
                         !.store_pending = IF i.store /\ ~XtracePcFiltered(i.pc) THEN {i} ELSE @]
  IN /\ xphase = "open" /\ th.at = "access"
     /\ \/ /\ XtracePcFiltered(i.pc) \/ ~i.load
           /\ xthread' = [xthread EXCEPT ![t] = next]
           /\ Unflushed /\ UNCHANGED text
        \/ /\ i.load /\ ~XtracePcFiltered(i.pc)
           /\ AddEvent(t, AccessEvent("load", i), next)
           /\ text' = [text EXCEPT ![t] = Append(@, [type |-> "load", inst |-> i])]
     /\ UNCHANGED xphase

(* (Variant of StoreDone: the store stays pending.) *)
StoreDoneStale(th) == [th EXCEPT !.at = "run"]

(* The end of xtrace_record_store_post(). *)
StoreDone(th) == [th EXCEPT !.at = "run", !.store_pending = {}]

(* xtrace_record_store_post(). *)
RecordStorePost(t) ==
  LET th == xthread[t]
      i == CHOOSE x \in th.store_pending : TRUE
      now == CHOOSE x \in th.current : TRUE
  IN /\ xphase = "open" /\ th.at = "store"
     /\ \/ /\ th.store_pending = {}
           /\ xthread' = [xthread EXCEPT ![t].at = "run"]
           /\ Unflushed
        \/ /\ th.store_pending # {}
           /\ AddEvent(t, AccessEvent("store", i), StoreDone(th))
     /\ text' = IF XtracePcFiltered(now.pc) \/ ~Instrumented(now) THEN text
                ELSE [text EXCEPT ![t] = Append(@, [type |-> "store", inst |-> now])]
     /\ UNCHANGED xphase

(* xtrace_post_thread_handler(). *)
PostThread(t) ==
  /\ xphase = "open" /\ xthread[t].at = "run"
  /\ Flush(t)
  /\ xthread' = [xthread EXCEPT ![t].at = "ended", ![t].events = <<>>]
  /\ UNCHANGED <<xphase, text>>

(* xtrace_exit_handler(), called by dbm_exit() when every thread has been  *)
(* unregistered.  The end mark is only written if no write has failed.     *)
ExitHandler ==
  /\ xphase = "open" /\ \A t \in XThread : xthread[t].at = "ended"
  /\ xphase' = "closed"
  /\ \/ xtrace_output_failed /\ UNCHANGED <<xfile, xtrace_output_failed>>
     \/ ~xtrace_output_failed /\ xfile' = Append(xfile, EofBlock) /\ xtrace_output_failed' \in BOOLEAN
     \/ ~xtrace_output_failed /\ xfile' = xfile /\ xtrace_output_failed' = TRUE
  /\ xdisk' \in Drained(xfile') /\ (~xtrace_output_failed' => xdisk' = xfile')
  /\ UNCHANGED <<xthread, text>>

(* The process is killed. *)
Kill ==
  /\ xphase = "open" /\ xphase' = "killed"
  /\ xdisk' \in Drained(xfile)
  /\ UNCHANGED <<xthread, xfile, xtrace_output_failed, text>>

(* xtrace_init_plugin(), up to the header, which may fail to be written. *)
XTraceInit ==
  /\ xthread = [t \in XThread |-> NewThread]
  /\ \/ xfile = <<FileHeader>> /\ xtrace_output_failed = FALSE
     \/ xfile = <<>> /\ xtrace_output_failed = TRUE
  /\ xdisk = <<>>
  /\ xphase = "open"
  /\ text = [t \in XThread |-> <<>>]

XTraceNext ==
  \/ \E t \in XThread : \/ \E i \in TracedInst : RecordInst(t, i)
                        \/ RecordAccessPre(t)
                        \/ RecordStorePost(t)
                        \/ PostThread(t)
  \/ ExitHandler
  \/ Kill

XTraceSpec == XTraceInit /\ [][XTraceNext]_xtraceVars

-----------------------------------------------------------------------------
(* The decoder *)

(* struct xtrace_decode_thread, with the lines printed for the thread. *)
DecodeThread == [next_pc |-> {}, sampled |-> {}, lines |-> <<>>, stamps |-> <<>>]

(* xtrace_decode_event(): a line for a discontinuity, then the line of the event. *)
DecodeEvent(d, ev) ==
  IF d.error THEN d
  ELSE
    LET th == d.threads[d.thread]
        sampled == IF ev.sample THEN {ev.stamp} ELSE th.sampled
        ring == th.next_pc # {} /\ ev.inst.pc \notin th.next_pc
        line == <<[type |-> ev.type, inst |-> ev.inst]>>
    IN IF ev.type # "inst" THEN [d EXCEPT !.threads[d.thread].lines = @ \o line]
       ELSE IF sampled = {} THEN [d EXCEPT !.error = TRUE]
       ELSE [d EXCEPT !.threads[d.thread] =
              [next_pc |-> {ev.inst.pc + ev.inst.len},
               sampled |-> sampled,
               lines |-> th.lines \o (IF ring THEN <<[type |-> "ring", inst |-> ev.inst]>> ELSE <<>>) \o line,
               stamps |-> th.stamps \o <<CHOOSE s \in sampled : TRUE>>]]

(* (Variant of Acceptable: a full block is refused.) *)
AcceptableFewer(d, u) ==
  CASE d.expect = "header" -> u.unit = "header"
    [] d.expect = "block"  -> u.unit \in {"block", "eof"}
    [] d.expect = "events" -> u.unit = "events" /\ u.thread = d.thread /\ Len(u.events) < EventsPerBlock

(* The checks of xtrace_decode_stream() on the unit it reads next. *)
Acceptable(d, u) ==
  CASE d.expect = "header" -> u.unit = "header"
    [] d.expect = "block"  -> u.unit \in {"block", "eof"}
    [] d.expect = "events" -> u.unit = "events" /\ u.thread = d.thread /\ Len(u.events) <= EventsPerBlock

(* The loop of xtrace_decode_stream(); what follows the end mark is not read. *)
DecodeUnit(d, u) ==
  IF d.error \/ d.expect = "nothing" THEN d
  ELSE IF ~Acceptable(d, u) THEN [d EXCEPT !.error = TRUE]
  ELSE CASE u.unit = "header" -> [d EXCEPT !.expect = "block"]
         [] u.unit = "block"  -> [d EXCEPT !.expect = "events", !.thread = u.thread]
         [] u.unit = "events" -> FoldLeft(DecodeEvent, [d EXCEPT !.expect = "block"], u.events)
         [] u.unit = "eof"    -> [d EXCEPT !.expect = "nothing"]

Decoded(file) ==
  FoldLeft(DecodeUnit,
           [expect |-> "header", error |-> FALSE, thread |-> 0, threads |-> [t \in XThread |-> DecodeThread]],
           file)

(* xtrace_decode_stream() returns 0. *)
DecodesFully(file) == Decoded(file).expect = "nothing" /\ ~Decoded(file).error

-----------------------------------------------------------------------------
(* Properties *)

(* If xtrace_decode_stream() accepts a file, also one left by a failed     *)
(* write or a kill, then it prints for each thread exactly what text mode  *)
(* would have printed: every recorded instruction and access, in order,    *)
(* with a ring line at every discontinuity.                                *)
AcceptedMeansComplete ==
  xphase # "open" /\ DecodesFully(xdisk) => \A t \in XThread : Decoded(xdisk).threads[t].lines = text[t]

(* A run that ended without a failed write leaves a file that              *)
(* xtrace_decode_stream() accepts.                                         *)
CleanExitDecodes == xphase = "closed" /\ ~xtrace_output_failed => DecodesFully(xdisk)

(* However much of the file a kill leaves on disk, what the decoder prints *)
(* for a thread before it gives up is a prefix of what the thread did.     *)
KilledMeansPrefix ==
  xphase = "killed" => \A t \in XThread : IsPrefix(Decoded(xdisk).threads[t].lines, text[t])

(* The test in xtrace_record_inst() keeps an instruction and its accesses  *)
(* in one block: no block starts with an access.                           *)
AccessesStayWithInstruction ==
  \A k \in 1..Len(xfile) : xfile[k].unit = "events" => xfile[k].events[1].type = "inst"

(* The time stamp that the decoder prints for an instruction is that of a  *)
(* sample taken in the same thread, less than SampleInterval instructions  *)
(* earlier, across blocks too.                                             *)
StampsAreRecent ==
  xphase = "closed" => \A t \in XThread : LET s == Decoded(xdisk).threads[t].stamps
                                          IN \A k \in 1..Len(s) : s[k] <= k - 1 /\ k - 1 - s[k] < SampleInterval

(* A trace file is never misread: it decodes to what the threads did, with   *)
(* recent time stamps, or, when it was cut short, is refused after a prefix. *)
TraceFileExact ==
  /\ AcceptedMeansComplete /\ CleanExitDecodes /\ KilledMeansPrefix
  /\ AccessesStayWithInstruction /\ StampsAreRecent
====
