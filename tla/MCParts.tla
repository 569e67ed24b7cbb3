------------------------------- MODULE MCParts -------------------------------
(***************************************************************************)
(* Parts of the runtime, of the API for plugins and of the plugins that    *)
(* keep their own state, each on a small instance of its own: part says    *)
(* which one a behaviour is about.  The variables of the others keep their *)
(* initial values.                                                         *)
(***************************************************************************)
EXTENDS AddressSpace, RiscvLinks, HashTables, Fork,
        XTrace, CacheSim, MemCheck, PluginCode, LoadStore, ScannerA32

VARIABLE part

\* Two loops, one inside the other, that end in a branch or a JAL.
MCExit == 1 :> [kind |-> "branch", taken |-> 2, skipped |-> 3] @@
          2 :> [kind |-> "jal", taken |-> 1, skipped |-> 0] @@
          3 :> [kind |-> "branch", taken |-> 3, skipped |-> 4] @@
          4 :> [kind |-> "jal", taken |-> 1, skipped |-> 0]

\* No access, both a load and a store, a store of a short instruction, a store of unknown size.
MCInst == {[pc |-> 0, len |-> 4, load |-> FALSE, store |-> FALSE, size |-> 0],
           [pc |-> 4, len |-> 4, load |-> TRUE, store |-> TRUE, size |-> 8],
           [pc |-> 8, len |-> 2, load |-> FALSE, store |-> TRUE, size |-> 8],
           [pc |-> 10, len |-> 4, load |-> FALSE, store |-> TRUE, size |-> 0]}
MCRanges == {<<0, 4>>, <<10, 20>>}
MCMaxInst == [t \in XThread |-> IF t = 1 THEN 3 ELSE 1]

\* The first crosses a line; all three need the same set.
MCAccess == {[addr |-> 11, size |-> 2, write |-> TRUE],
             [addr |-> 16, size |-> 4, write |-> TRUE],
             [addr |-> 24, size |-> 4, write |-> FALSE]}

Init ==
  /\ part \in {"map", "brk", "riscv", "hash", "ht", "fork",
               "xtrace", "sim", "fragment", "heap", "lib", "code", "loadstore", "a32", "a32scan"}
  /\ MapInit /\ BrkInit /\ RiscvInit
  /\ HashInit /\ HtInit /\ (part # "ht" => ht = HtTable(2, 50, TRUE))
  /\ ForkInit /\ (part # "fork" => head = CHOOSE t \in FThread : TRUE)
  /\ XTraceInit /\ (part # "xtrace" => ~xtrace_output_failed)
  /\ CacheSimInit /\ MemCheckInit /\ PluginCodeInit
  /\ IF part = "loadstore" THEN LoadStoreInit ELSE ldst = <<>> /\ answer = Unasked
  /\ IF part = "a32" THEN ScannerInit ELSE a32 = A32Idle
  /\ IF part = "a32scan" THEN a32prog \in [1 .. A32Length -> A32Kinds] ELSE a32prog = <<>>
  /\ a32scan = ScanIdle

\* Nothing but p changes.
Only(p) ==
  /\ part = p /\ UNCHANGED part
  /\ p = "map" \/ UNCHANGED mapVars
  /\ p = "brk" \/ UNCHANGED brkVars
  /\ p = "riscv" \/ UNCHANGED riscvVars
  /\ p = "hash" \/ UNCHANGED hashVars
  /\ p = "ht" \/ UNCHANGED htVars
  /\ p = "fork" \/ UNCHANGED forkVars
  /\ p = "xtrace" \/ UNCHANGED xtraceVars
  /\ p \in {"sim", "fragment"} \/ UNCHANGED cachesimVars
  /\ p \in {"heap", "lib"} \/ UNCHANGED memcheckVars
  /\ p = "code" \/ UNCHANGED pluginVars
  /\ p = "loadstore" \/ UNCHANGED ldstVars
  /\ p \in {"a32", "a32scan"} \/ UNCHANGED a32Vars

Next ==
  \/ part = "map" /\ MapNext /\ Only("map")
  \/ part = "brk" /\ BrkNext /\ Only("brk")
  \/ part = "riscv" /\ RiscvNext /\ Only("riscv")
  \/ part = "hash" /\ HashNext /\ Only("hash")
  \/ part = "ht" /\ HtNext /\ Only("ht")
  \/ part = "fork" /\ ForkNext /\ Only("fork")
  \/ part = "xtrace" /\ XTraceNext /\ Only("xtrace")
  \/ part = "sim" /\ SimNext /\ Only("sim")
  \/ part = "fragment" /\ FragmentNext /\ Only("fragment")
  \/ part = "heap" /\ HeapNext /\ Only("heap")
  \/ part = "lib" /\ LibNext /\ Only("lib")
  \/ part = "code" /\ PluginCodeNext /\ Only("code")
  \/ part = "loadstore" /\ LoadStoreNext /\ Only("loadstore")
  \/ part = "a32" /\ TranslationNext /\ Only("a32")
  \/ part = "a32scan" /\ LoopNext /\ Only("a32scan")

Spec ==
  Init /\ [][Next]_<<part, mapVars, brkVars, riscvVars, hashVars, htVars, forkVars,
                     xtraceVars, cachesimVars, memcheckVars, pluginVars, ldstVars, a32Vars>>

\* RiscvLinks says nothing of what follows a flush during install_trace.
Explored == ~rinstallFlushed
=============================================================================
