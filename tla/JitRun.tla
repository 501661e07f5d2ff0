------------------------------- MODULE JitRun -------------------------------
(* One call on the JIT tier: `run_jit` runs the lowered function on the kernel, whose
   memory accesses, divisions and calls cannot trap but only raise flags, and decides
   afterwards whether the call has finished, is finished by the stock executor from the
   instruction the kernel stopped at, has trapped, or is run again from its start.

   A function is a straight line of instructions, abstracted to what the flags and the
   recovery tell apart; its last one returns or tail calls.  `main` is the called function
   and `g` the one it calls.  `log` records, in order, what the two did to the memory, to
   the globals and to the host.  The stock executor's behaviour is the reference.

   State                     code
   tls.trap, tls.did ...     the thread locals MEM_TRAP, MEM_DID_STORE, TRAP_CODE, YIELD_*
   mem, tls.ctx              how often the memory has moved, and had when MEM_CTX was set
   acts                      the activations, the running one last: on the kernel (`cells`
                             are WasmKernelState::slots, `td` is mem_trap_did) or stock
   frame                     the cells of main's frame on the value stack *)
EXTENDS Integers, Sequences, FiniteSets, SequencesExt

CONSTANT Families   \* the families of programs, see `Programs`

VARIABLES prog, acts, tls, mem, log, frame, outcome

vars == <<prog, acts, tls, mem, log, frame, outcome>>

-----------------------------------------------------------------------------
(* Programs *)

Traps == [load_oob |-> "MemoryOutOfBounds", store_oob |-> "MemoryOutOfBounds",
          div |-> "IntegerDivisionByZero", unreachable |-> "UnreachableCodeReached",
          host_err |-> "host error"]

Imports == {"host", "host_err", "import"}
Calls == {"call", "import"}
Finals == {"return", "tail_s", "tail_r"}

Bodies(is, n) == UNION {{b \o <<e>> : b \in BoundedSeq(is \ Finals, n)} : e \in is \cap Finals}

\* prepass lowers everything but memory.grow, and marks what `ensure_callee_cached`
\* refuses to run as a callee.
Lowered(b) == "grow" \notin Range(b)
has_yield_or_bail(b) == Range(b) \cap (Imports \cup {"unreachable", "tail_s", "tail_r"}) # {}

\* The translator keeps no value in the accumulator across a call, or from the entry.
AccLive(b) ==
    b[Len(b)] = "tail_r" =>
        \E i \in 1 .. Len(b) : /\ b[i] = "acc"
                              /\ \A j \in i .. Len(b) : b[j] \notin Calls \cup Imports

\* A family of programs: the instructions `ops` they use; the `mode`: in "jit" main is called
\* on the JIT tier, in "yield" it runs on the stock executor and g is a function of another
\* instance; `tails`: g has a tail call on a path that is not taken; the number of results
\* of main; bounds on the instructions of main and of g before their last; `exact`: none of
\* the programs is one the tier is known to execute in its own way.  In a program, `jit` says
\* that g has a loop and is not demoted.
Programs ==
    UNION {[main : {b \in Bodies(y.ops, y.len) : Lowered(b) /\ AccLive(b)},
            g    : {b \in Bodies(y.ops \ Calls, y.glen) : AccLive(b)},
            jit  : BOOLEAN, exact : {y.exact},
            tails : {y.tails}, results : {y.results}, mode : {y.mode}] : y \in Families}

Body(f) == prog[f]
Mark(f, i) == <<f, i>>

\* ensure_callee_cached and run_callee: g runs on the kernel.
KernelCallee == prog.jit /\ Lowered(prog.g) /\ ~has_yield_or_bail(prog.g) /\ ~prog.tails

\* ensure_loop_yield_callee_cached: g runs on the kernel up to a tail call.
LoopYield ==
    /\ prog.mode = "yield" /\ prog.jit /\ Lowered(prog.g)
    /\ prog.tails \/ Range(prog.g) \cap {"tail_s", "tail_r"} # {}
    /\ Range(prog.g) \cap {"unreachable", "gset"} = {}

-----------------------------------------------------------------------------
(* What the stock executor does *)

\* The instructions executed, in order: g's in the place of a call.
Walk ==
    FlattenSeq([i \in 1 .. Len(prog.main) |->
        IF prog.main[i] \in Calls
        THEN [j \in 1 .. Len(prog.g) |-> [f |-> "g", i |-> j, op |-> prog.g[j]]]
        ELSE <<[f |-> "main", i |-> i, op |-> prog.main[i]]>>])

\* Up to the first one that fails.
Failing == {k \in 1 .. Len(Walk) : Walk[k].op \in DOMAIN Traps}
Reached == IF Failing = {} THEN Walk
           ELSE SubSeq(Walk, 1, CHOOSE k \in Failing : \A j \in Failing : k <= j)

Visible == {"store", "gset", "host", "host_err", "grow", "tail_s", "tail_r"}

\* A value is named after the instruction that wrote it: the last one of kind op before the
\* i-th of function f.
Written(f, i, op) ==
    LET js == {j \in 1 .. i - 1 : Body(f)[j] = op}
    IN  IF js = {} THEN Mark(f, 0) ELSE Mark(f, CHOOSE j \in js : \A k \in js : k <= j)

\* A tail called function sees the parameters in cell 1 or in the accumulator.
TailArg(e) == Written(e.f, e.i, IF e.op = "tail_s" THEN "set1" ELSE "acc")

StockLog ==
    LET done == SelectSeq(Reached, LAMBDA e : e.op \in Visible)
    IN  [k \in 1 .. Len(done) |->
            <<done[k].op, IF done[k].op \in {"tail_s", "tail_r"} THEN TailArg(done[k])
                          ELSE Mark(done[k].f, done[k].i)>>]

StockOutcome ==
    IF Failing # {} THEN [kind |-> Traps[Reached[Len(Reached)].op]]
    ELSE [kind |-> "ok",
          cells |-> IF prog.main[Len(prog.main)] = "return"
                    THEN SubSeq(<<Written("main", Len(prog.main), "set0"),
                                  Written("main", Len(prog.main), "set1")>>, 1, prog.results)
                    ELSE <<>>]

-----------------------------------------------------------------------------
(* The flags *)

NoFlags == [ctx |-> 0, trap |-> FALSE, did |-> FALSE, code |-> "MemoryOutOfBounds",
            yield |-> FALSE, off |-> 0, slots |-> <<>>, regs |-> "entry"]

\* set_mem_ctx leaves MEM_TRAP alone.
set_mem_ctx(l, m) ==
    [l EXCEPT !.ctx = m, !.did = FALSE, !.code = "MemoryOutOfBounds", !.yield = FALSE, !.regs = "entry"]

update_mem_ctx(l, m) == [l EXCEPT !.ctx = m]

set_residual_trap(l, code) ==
    IF l.trap THEN l ELSE [l EXCEPT !.trap = TRUE, !.code = code]

sync_trap_to_tls(l, td) == [l EXCEPT !.trap = @ \/ td.trap, !.did = @ \/ td.did]

read_trap_from_tls(l) == [trap |-> l.trap, did |-> l.did]

-----------------------------------------------------------------------------
Top == acts[Len(acts)]
Op == Body(Top.f)[Top.pc]
Here == Mark(Top.f, Top.pc)
Entry(f) == <<Mark(f, 0), Mark(f, 0)>>

KernelAct(f, cells, l, saved, via) ==
    [f |-> f, tier |-> "kernel", pc |-> 1, td |-> read_trap_from_tls(l), acc |-> Mark(f, 0),
     cells |-> cells, saved |-> saved, via |-> via]
StockAct(f, pc, acc, cells, via) ==
    [f |-> f, tier |-> "stock", pc |-> pc, td |-> [trap |-> FALSE, did |-> FALSE], acc |-> acc,
     cells |-> cells, saved |-> NoFlags, via |-> via]

OnKernel(op) == outcome.kind = "none" /\ acts # <<>> /\ Top.tier = "kernel" /\ Op = op
OnStock(op) == outcome.kind = "none" /\ acts # <<>> /\ Top.tier = "stock" /\ Op = op

\* The running activation goes on to the next instruction, with the given updates.
Step(a) == acts' = [acts EXCEPT ![Len(acts)] = [a EXCEPT !.pc = @ + 1]]
Did(e) == log' = Append(log, <<e, Here>>)
Finish(o) == outcome' = o /\ acts' = <<>>

(* The kernel *)

\* The memory instructions.  They use the base in MEM_CTX, that of a memory which has moved
\* since if it was not brought up to date, and keep their flags in mem_trap_did.
Accessed(e) ==
    log' = IF tls.ctx # mem THEN Append(log, <<"stale", Here>>) ELSE log \o e

kernel_load ==
    /\ OnKernel("load") /\ Step(Top) /\ Accessed(<<>>)
    /\ UNCHANGED <<prog, tls, mem, frame, outcome>>

kernel_load_oob ==
    /\ OnKernel("load_oob") /\ Step([Top EXCEPT !.td.trap = TRUE])
    /\ UNCHANGED <<prog, tls, mem, log, frame, outcome>>

\* Mutant: a store is not held back by an earlier trap.
kernel_store_always ==
    /\ OnKernel("store") /\ Step([Top EXCEPT !.td.did = TRUE])
    /\ Accessed(<<<<"store", Here>>>>)
    /\ UNCHANGED <<prog, tls, mem, frame, outcome>>

kernel_store ==
    /\ OnKernel("store")
    /\ \/ Top.td.trap /\ Step(Top) /\ UNCHANGED log
       \/ ~Top.td.trap /\ Step([Top EXCEPT !.td.did = TRUE]) /\ Accessed(<<<<"store", Here>>>>)
    /\ UNCHANGED <<prog, tls, mem, frame, outcome>>

kernel_store_oob ==
    /\ OnKernel("store_oob") /\ Step([Top EXCEPT !.td.trap = TRUE])
    /\ UNCHANGED <<prog, tls, mem, log, frame, outcome>>

\* A division by zero, or a conversion that fails.
kernel_div ==
    /\ OnKernel("div") /\ Step(Top)
    /\ tls' = set_residual_trap(tls, Traps["div"])
    /\ UNCHANGED <<prog, mem, log, frame, outcome>>

global_set ==
    /\ OnKernel("gset") /\ Step(Top) /\ Did("gset")
    /\ UNCHANGED <<prog, tls, mem, frame, outcome>>

\* Instructions that write the accumulator or a slot.
kernel_write ==
    /\ \/ OnKernel("acc") /\ Step([Top EXCEPT !.acc = Here])
       \/ OnKernel("set0") /\ Step([Top EXCEPT !.cells[1] = Here])
       \/ OnKernel("set1") /\ Step([Top EXCEPT !.cells[2] = Here])
    /\ UNCHANGED <<prog, tls, mem, log, frame, outcome>>

\* Back in the kernel after a residual call.
CallReturned(rest, l) ==
    acts' = [rest EXCEPT ![Len(rest)].td = read_trap_from_tls(l), ![Len(rest)].pc = @ + 1]

\* call_imported_residual of a host function, which may let the memory grow: the runner
\* updates MEM_CTX afterwards.
call_imported_host ==
    /\ mem' \in {mem, mem + 1}
    /\ LET l == update_mem_ctx(sync_trap_to_tls(tls, Top.td), mem')
       IN  \/ OnKernel("host") /\ Did("host") /\ tls' = l
           \/ /\ OnKernel("host_err") /\ Did("host_err")
              /\ tls' = set_residual_trap(l, Traps["unreachable"])
    /\ CallReturned(acts, tls')
    /\ UNCHANGED <<prog, frame, outcome>>

\* call_internal_residual: the callee runs on the kernel, with the flags saved, or on the
\* stock executor.
call_internal ==
    LET l == sync_trap_to_tls(tls, Top.td)
    IN  /\ OnKernel("call")
        /\ \/ /\ KernelCallee
              /\ tls' = set_mem_ctx(l, mem)
              /\ acts' = Append(acts, KernelAct("g", Entry("g"), tls', l, "call"))
           \/ /\ ~KernelCallee
              /\ tls' = l
              /\ acts' = Append(acts, StockAct("g", 1, Mark("g", 0), Entry("g"), "call"))
        /\ UNCHANGED <<prog, mem, log, frame, outcome>>

\* call_imported_residual of a Wasm function: always on the stock executor.
call_imported_wasm ==
    /\ OnKernel("import")
    /\ tls' = sync_trap_to_tls(tls, Top.td)
    /\ acts' = Append(acts, StockAct("g", 1, Mark("g", 0), Entry("g"), "import"))
    /\ UNCHANGED <<prog, mem, log, frame, outcome>>

\* The thread locals a kernel run leaves, with the value it returns.
kernel_return ==
    /\ OnKernel("return")
    /\ tls' = sync_trap_to_tls(tls, Top.td)
    /\ acts' = [acts EXCEPT ![Len(acts)].tier = "left"]
    /\ UNCHANGED <<prog, mem, log, frame, outcome>>

kernel_trap ==
    /\ OnKernel("unreachable")
    /\ tls' = sync_trap_to_tls(set_residual_trap(tls, Traps["unreachable"]), Top.td)
    /\ acts' = [acts EXCEPT ![Len(acts)].tier = "left"]
    /\ UNCHANGED <<prog, mem, log, frame, outcome>>

\* MINI_YIELD_STOCK, in the place of a tail call.
kernel_yield ==
    /\ OnKernel("tail_s") \/ OnKernel("tail_r")
    /\ tls' = [sync_trap_to_tls(tls, Top.td) EXCEPT
                  !.yield = TRUE, !.off = Top.pc, !.slots = Top.cells, !.regs = Top.acc]
    /\ acts' = [acts EXCEPT ![Len(acts)].tier = "left"]
    /\ UNCHANGED <<prog, mem, log, frame, outcome>>

\* run_callee restores the caller's flags.
run_callee_done ==
    /\ outcome.kind = "none" /\ acts # <<>> /\ Top.tier = "left" /\ Top.via = "call"
    /\ tls' = [Top.saved EXCEPT !.off = tls.off, !.slots = tls.slots, !.regs = tls.regs]
    /\ CallReturned(Front(acts), tls')
    /\ UNCHANGED <<prog, mem, log, frame, outcome>>

-----------------------------------------------------------------------------
(* run_jit *)

\* The outermost call of an engine enters the kernel with clean flags.
run_jit ==
    /\ outcome.kind = "none" /\ acts = <<>> /\ prog.mode = "jit"
    /\ tls' = set_mem_ctx(tls, mem)
    /\ acts' = <<KernelAct("main", frame, tls', tls, "run_jit")>>
    /\ UNCHANGED <<prog, mem, log, frame, outcome>>

Left == outcome.kind = "none" /\ acts # <<>> /\ Top.tier = "left" /\ Top.via = "run_jit"

\* execute_stock, execute_stock_at: the accumulators are those of the call's entry.
execute_stock_at(pc, cells) ==
    acts' = <<StockAct("main", pc, Mark("main", 0), cells, "run_jit")>>

\* Mutant: the trap flag is only looked at.
run_jit_trapped_peek ==
    /\ Left /\ tls.trap
    /\ IF tls.did THEN Finish([kind |-> tls.code])
       ELSE execute_stock_at(1, frame) /\ UNCHANGED outcome
    /\ tls' = [tls EXCEPT !.yield = FALSE, !.did = FALSE, !.ctx = Top.saved.ctx]
    /\ UNCHANGED <<prog, mem, log, frame>>

\* The run trapped, whether it yielded or returned.
run_jit_trapped ==
    /\ Left /\ tls.trap
    /\ IF tls.did THEN Finish([kind |-> tls.code])
       ELSE execute_stock_at(1, frame) /\ UNCHANGED outcome
    /\ tls' = [tls EXCEPT !.yield = FALSE, !.trap = FALSE, !.did = FALSE, !.ctx = Top.saved.ctx]
    /\ UNCHANGED <<prog, mem, log, frame>>

run_jit_yielded ==
    /\ Left /\ tls.yield /\ ~tls.trap
    /\ frame' = tls.slots
    /\ execute_stock_at(tls.off, tls.slots)
    /\ tls' = [tls EXCEPT !.yield = FALSE, !.slots = <<>>, !.ctx = Top.saved.ctx]
    /\ UNCHANGED <<prog, mem, log, outcome>>

\* Only the first result is written back to the frame.
run_jit_returned ==
    /\ Left /\ ~tls.yield /\ ~tls.trap
    /\ frame' = [frame EXCEPT ![1] = Top.cells[1]]
    /\ Finish([kind |-> "ok", cells |-> SubSeq(frame', 1, prog.results)])
    /\ tls' = [tls EXCEPT !.ctx = Top.saved.ctx]
    /\ UNCHANGED <<prog, mem, log>>

-----------------------------------------------------------------------------
(* The stock executor *)

\* The call by which the run of the stock executor was entered ends with the outcome o.
StockDone(o) ==
    CASE Top.via = "run_jit" -> Finish(o) /\ UNCHANGED tls
      [] Top.via \in {"call", "import"} ->
            LET l == IF o.kind = "ok" THEN tls ELSE set_residual_trap(tls, Traps["unreachable"])
            IN  /\ tls' = IF Top.via = "import" THEN update_mem_ctx(l, mem) ELSE l
                /\ CallReturned(Front(acts), tls')
                /\ UNCHANGED outcome
      [] Top.via = "stock" ->
            IF o.kind = "ok" /\ Len(acts) > 1
            THEN acts' = [Front(acts) EXCEPT ![Len(acts) - 1].pc = @ + 1]
                 /\ UNCHANGED <<tls, outcome>>
            ELSE Finish(o) /\ UNCHANGED tls

stock_step ==
    /\ \/ OnStock("acc") /\ Step([Top EXCEPT !.acc = Here])
       \/ OnStock("set0") /\ Step([Top EXCEPT !.cells[1] = Here])
       \/ OnStock("set1") /\ Step([Top EXCEPT !.cells[2] = Here])
       \/ OnStock("load") /\ Step(Top)
    /\ UNCHANGED <<prog, tls, mem, log, frame, outcome>>

stock_effect ==
    /\ \E op \in {"store", "gset", "host", "grow"} :
          /\ OnStock(op) /\ Step(Top) /\ Did(op)
          /\ mem' = IF op \in {"grow", "host"} THEN mem + 1 ELSE mem
    /\ UNCHANGED <<prog, tls, frame, outcome>>

stock_trap ==
    /\ \E op \in DOMAIN Traps :
          /\ OnStock(op)
          /\ IF op = "host_err" THEN Did(op) ELSE UNCHANGED log
          /\ StockDone([kind |-> Traps[op]])
    /\ UNCHANGED <<prog, mem, frame>>

stock_return ==
    /\ OnStock("return") /\ StockDone([kind |-> "ok", cells |-> SubSeq(Top.cells, 1, prog.results)])
    /\ UNCHANGED <<prog, mem, log, frame>>

stock_tail_call ==
    /\ \E op \in {"tail_s", "tail_r"} :
          /\ OnStock(op)
          /\ log' = Append(log, <<op, IF op = "tail_s" THEN Top.cells[2] ELSE Top.acc>>)
    /\ StockDone([kind |-> "ok", cells |-> <<>>])
    /\ UNCHANGED <<prog, mem, frame>>

\* A call between functions of one run of the stock executor.
stock_call ==
    /\ OnStock("call") \/ (OnStock("import") /\ ~LoopYield)
    /\ acts' = Append(acts, StockAct("g", 1, Mark("g", 0), Entry("g"), "stock"))
    /\ UNCHANGED <<prog, tls, mem, log, frame, outcome>>

-----------------------------------------------------------------------------
(* call_wasm_loop_yield_cold: a function of another instance on the kernel *)

run_callee_yield ==
    /\ OnStock("import") /\ LoopYield
    /\ tls' = [set_mem_ctx(tls, mem) EXCEPT !.slots = <<>>]
    /\ acts' = Append(acts, KernelAct("g", Entry("g"), tls', tls, "yield"))
    /\ UNCHANGED <<prog, mem, log, frame, outcome>>

\* Its outcome: the stock executor takes the callee over, or the call traps.
run_callee_yield_done ==
    /\ outcome.kind = "none" /\ acts # <<>> /\ Top.tier = "left" /\ Top.via = "yield"
    /\ IF tls.trap
       THEN IF tls.did THEN Finish([kind |-> tls.code])
            ELSE /\ acts' = Append(Front(acts), StockAct("g", 1, Mark("g", 0), Entry("g"), "stock"))
                 /\ UNCHANGED outcome
       ELSE /\ acts' = Append(Front(acts),
                   IF tls.yield THEN StockAct("g", tls.off, tls.regs, tls.slots, "stock")
                   ELSE StockAct("g", 1, Mark("g", 0), Entry("g"), "stock"))
            /\ UNCHANGED outcome
    /\ tls' = Top.saved
    /\ UNCHANGED <<prog, mem, log, frame>>

\* Mode "yield": the call starts on the stock executor.
execute_stock ==
    /\ outcome.kind = "none" /\ acts = <<>> /\ prog.mode = "yield"
    /\ acts' = <<StockAct("main", 1, Mark("main", 0), frame, "stock")>>
    /\ UNCHANGED <<prog, tls, mem, log, frame, outcome>>

-----------------------------------------------------------------------------
Init ==
    /\ prog \in Programs
    /\ acts = <<>> /\ tls = NoFlags /\ mem = 0 /\ log = <<>>
    /\ frame = Entry("main") /\ outcome = [kind |-> "none"]

Kernel ==
    \/ kernel_load \/ kernel_load_oob \/ kernel_store \/ kernel_store_oob \/ kernel_div
    \/ global_set \/ kernel_write \/ call_imported_host \/ call_internal \/ call_imported_wasm
    \/ kernel_return \/ kernel_trap \/ kernel_yield \/ run_callee_done

Stock ==
    \/ stock_step \/ stock_effect \/ stock_trap \/ stock_return \/ stock_tail_call \/ stock_call
    \/ run_callee_yield \/ run_callee_yield_done \/ execute_stock

Next ==
    \/ Kernel \/ Stock
    \/ run_jit \/ run_jit_trapped \/ run_jit_yielded \/ run_jit_returned

Spec == Init /\ [][Next]_vars /\ WF_vars(Next)

-----------------------------------------------------------------------------
(* Properties *)

Codes == {Traps[op] : op \in DOMAIN Traps}
Flags == [trap : BOOLEAN, did : BOOLEAN]
Events == Visible \cup {"stale"}

TypeOK ==
    /\ prog \in Programs
    /\ tls.trap \in BOOLEAN /\ tls.did \in BOOLEAN /\ tls.yield \in BOOLEAN /\ tls.code \in Codes
    /\ tls.ctx \in 0 .. mem
    /\ Len(acts) <= 2
    /\ \A k \in DOMAIN acts : /\ acts[k].tier \in {"kernel", "stock", "left"} /\ acts[k].td \in Flags
                             /\ acts[k].pc \in DOMAIN Body(acts[k].f)
    /\ \A k \in DOMAIN log : log[k][1] \in Events
    /\ outcome.kind \in Codes \cup {"none", "ok"}

\* The kernel, the recovery in run_jit and the stock executor together do what the stock
\* executor alone would have done: the same effects in the same order, and the same results
\* or the same trap.
LikeStock ==
    prog.exact /\ outcome.kind # "none" => log = StockLog /\ outcome = StockOutcome

\* No call leaves behind a flag that set_mem_ctx does not reset: the next call on the tier
\* would start as if it had trapped, and commit none of its stores.
FlagsClean == outcome.kind # "none" => ~tls.trap

\* "Returns Some(result) if the callee ran successfully" (run_callee): a trap of the callee
\* is not lost.
CalleeTrapKept == outcome.kind = "ok" => StockOutcome.kind = "ok"

=============================================================================
