------------------------------ MODULE Executor ------------------------------
(***************************************************************************)
(* One Wasm execution on one `Stack`: the call stack with its lazily        *)
(* restored instances, the extent of the value stack, and the registers the *)
(* execution handlers pass along (`Args`), among them the cached pointer to *)
(* the default memory.  Wasm and host functions are called, tail called and *)
(* returned from; a host function may re-enter Wasm and grow memories; an   *)
(* execution that fails in a host function or runs out of fuel is suspended *)
(* and may be resumed.                                                      *)
(*                                                                         *)
(* A program is any program: at each instruction pointer any operator may   *)
(* stand.  The cells of the value stack are abstracted to their addresses.  *)
(***************************************************************************)
EXTENDS Integers, Sequences

CONSTANTS
    Instances, Memories, Funcs, Hosts,
    NoInst,     \* Option<Inst>::None
    NoMem,      \* the instance has no memory
    NoFunc,     \* no function: nothing is executing
    InstanceOf, \* Func -> the instance that defines it
    Size,       \* Func -> len_stack_slots
    Params,     \* Func -> cells of its parameters
    HostParams, \* Host -> len_param_cells
    HostResults,\* Host -> len_result_cells
    Grows,      \* Host -> memories that grow while the host function runs
    Fallible,   \* host functions that may return an error
    TailHosts,  \* host functions that Wasm code tail calls
    Mem0,       \* Instance -> its memory at index 0
    OtherMems,  \* Instance -> its memories at the other indices
    Metered,    \* Config::get_consume_fuel
    TableGrow,  \* does the code use table.grow?
    MaxDepth,   \* StackConfig::max_recursion_depth
    MaxHeight,  \* StackConfig::max_stack_height, in cells
    MaxPages,   \* bound on the size of a memory
    MaxPos      \* bound on the instructions of a function

ASSUME ExecutorAssumption ==
    /\ NoInst \notin Instances /\ NoMem \notin Memories /\ NoFunc \notin Funcs
    /\ InstanceOf \in [Funcs -> Instances]
    /\ Size \in [Funcs -> Nat] /\ Params \in [Funcs -> Nat]
    /\ \A f \in Funcs : Params[f] <= Size[f]
    /\ HostParams \in [Hosts -> Nat] /\ HostResults \in [Hosts -> Nat]
    /\ Grows \in [Hosts -> SUBSET Memories]
    /\ Fallible \subseteq Hosts /\ TailHosts \subseteq Hosts
    /\ Mem0 \in [Instances -> Memories \cup {NoMem}]
    /\ OtherMems \in [Instances -> SUBSET Memories]
    /\ Metered \in BOOLEAN /\ TableGrow \in BOOLEAN
    /\ MaxDepth \in Nat /\ MaxHeight \in Nat /\ MaxPages \in Nat /\ MaxPos \in Nat

VARIABLES
    frames,   \* CallStack::frames
    instance, \* CallStack::instance
    len,      \* ValueStack::cells.len()
    args,     \* Args: the registers of the running execution
    phase,    \* who runs: nobody, Wasm code, a host function, or a suspended call
    host,     \* the host function call in progress, or that was suspended
    pages     \* the size of every memory

stackVars == <<frames, instance, len>>
vars == <<frames, instance, len, args, phase, host, pages>>

-----------------------------------------------------------------------------
(* Values *)
DANGLING == -1
NoIp == [func |-> NoFunc, pos |-> 0]
NoArgs == [ip |-> NoIp, sp |-> DANGLING, inst |-> NoInst, mem0 |-> [mem |-> NoMem, pages |-> 0]]
NoHost == [func |-> NoFunc, kind |-> "none", head |-> 0, base |-> 0,
           ip |-> NoIp, sp |-> DANGLING, inst |-> NoInst]

Entry(f) == [func |-> f, pos |-> 0]
After(ip) == [ip EXCEPT !.pos = (@ + 1) % (MaxPos + 1)]
HostCells(h) == IF HostParams[h] < HostResults[h] THEN HostResults[h] ELSE HostParams[h]

\* extract_mem0: the data of an instance's default memory, while memories have sizes pg.
extract_mem0(pg, i) ==
    [mem |-> Mem0[i], pages |-> IF Mem0[i] = NoMem THEN 0 ELSE pg[Mem0[i]]]

\* update_instance: the default memory is only looked up when the instance changes.
update_instance(i) == IF i = args.inst THEN args.mem0 ELSE extract_mem0(pages, i)

-----------------------------------------------------------------------------
(* ValueStack *)
sp_or_dangling(n, start) == IF n = 0 THEN DANGLING ELSE start

\* Mutant: set_len without the maximum.
Grown_shrinks(end) == end

\* grow_if_needed: can the cells up to `end` be made available, and what is len then?
Fits(end) == end <= MaxHeight
Grown(end) == IF len < end THEN end ELSE len

(* CallStack *)
top_start(fs) == IF fs = <<>> THEN 0 ELSE fs[Len(fs)].start
sync_ip(fs, ip) == [fs EXCEPT ![Len(fs)].ip = ip]
Rest(fs) == SubSeq(fs, 1, Len(fs) - 1)

\* CallStack::push: the new frame remembers the instance it makes way for.
push(fs, f, head, inst) ==
    Append(fs, [ip       |-> Entry(f),
                start    |-> top_start(fs) + head,
                instance |-> IF inst \in {NoInst, instance} THEN NoInst ELSE instance])

\* Mutant: the remembered instance is not restored.
popped_instance_kept == instance

\* CallStack::pop, its effect on CallStack::instance.
popped_instance ==
    LET popped == frames[Len(frames)]
    IN  IF Rest(frames) = <<>> \/ popped.instance = NoInst THEN instance ELSE popped.instance

\* Mutant: a frame that remembers nothing does not begin to.
replace_forgets(f, inst) == [frames EXCEPT ![Len(frames)].ip = Entry(f)]

\* CallStack::replace: a frame that remembers an instance goes on remembering it.
replace(f, inst) ==
    [frames EXCEPT ![Len(frames)].ip = Entry(f),
                   ![Len(frames)].instance =
                       IF inst # NoInst /\ @ = NoInst THEN instance ELSE @]

\* The execution ends; its registers are gone, its stack is reset when it is used again.
Finish ==
    /\ phase' = "idle"
    /\ args' = NoArgs
    /\ host' = NoHost

Unstacked == Finish /\ UNCHANGED stackVars

-----------------------------------------------------------------------------
(* Calls of Wasm functions *)

\* The callee's frame starts at `start`: its cells are made available and it is entered.
Enter(f, start, i) ==
    \/ /\ Size[f] = 0 \/ Fits(start + Size[f])
       /\ len' = IF Size[f] = 0 THEN len ELSE Grown(start + Size[f])
       /\ args' = [ip |-> Entry(f), sp |-> IF Size[f] = 0 THEN DANGLING ELSE start,
                   inst |-> i, mem0 |-> update_instance(i)]
       /\ phase' = "running"
       /\ UNCHANGED host
    \/ /\ Size[f] # 0 /\ ~Fits(start + Size[f])
       /\ Finish
       /\ UNCHANGED len

\* execute_root_func of a Wasm function: reset, then init_wasm_func_call, whose push
\* fails at once on a call stack without room for a frame.
execute_root_func(f) ==
    /\ phase = "idle"
    /\ MaxDepth # 0
    /\ frames' = <<[ip |-> Entry(f), start |-> 0, instance |-> NoInst]>>
    /\ instance' = InstanceOf[f]
    /\ IF Fits(Size[f])
       THEN /\ len' = Size[f]
            /\ args' = [ip |-> Entry(f), sp |-> sp_or_dangling(Size[f], 0),
                        inst |-> InstanceOf[f], mem0 |-> extract_mem0(pages, InstanceOf[f])]
            /\ phase' = "running"
            /\ UNCHANGED host
       ELSE Finish /\ len' = 0
    /\ UNCHANGED pages

\* Mutant: the caller's ip is not synchronized.
call_wasm_unsynced(f, head, inst) ==
    IF Len(frames) = MaxDepth
    THEN Unstacked
    ELSE /\ frames' = push(frames, f, head, inst)
         /\ instance' = IF inst = NoInst THEN instance ELSE inst
         /\ Enter(f, top_start(frames) + head, IF inst = NoInst THEN args.inst ELSE inst)

\* push_frame on behalf of the operators below; inst is NoInst for call_internal.
call_wasm(f, head, inst) ==
    IF Len(frames) = MaxDepth
    THEN Unstacked
    ELSE /\ frames' = push(sync_ip(frames, After(args.ip)), f, head, inst)
         /\ instance' = IF inst = NoInst THEN instance ELSE inst
         /\ Enter(f, top_start(frames) + head, IF inst = NoInst THEN args.inst ELSE inst)

\* The operator's parameters are slots of the calling function.
InFrame(head, n) == head + n <= Size[args.ip.func]

call_internal(f, head) ==
    /\ phase = "running"
    /\ InstanceOf[f] = args.inst /\ InFrame(head, Params[f])
    /\ call_wasm(f, head, NoInst)
    /\ UNCHANGED pages

\* call_imported and call_indirect of a Wasm function.
call_imported(f, head) ==
    /\ phase = "running"
    /\ InFrame(head, Params[f])
    /\ call_wasm(f, head, InstanceOf[f])
    /\ UNCHANGED pages

\* replace_frame: the callee takes over the frame of the calling function.
return_call_wasm(f, inst) ==
    /\ frames' = replace(f, inst)
    /\ instance' = IF inst = NoInst THEN instance ELSE inst
    /\ Enter(f, top_start(frames), IF inst = NoInst THEN args.inst ELSE inst)

return_call_internal(f) ==
    /\ phase = "running"
    /\ InstanceOf[f] = args.inst /\ InFrame(0, Params[f])
    /\ return_call_wasm(f, NoInst)
    /\ UNCHANGED pages

return_call_imported(f) ==
    /\ phase = "running"
    /\ InFrame(0, Params[f])
    /\ return_call_wasm(f, IF InstanceOf[f] = args.inst THEN NoInst ELSE InstanceOf[f])
    /\ UNCHANGED pages

\* The return operator, Args::pop_frame and Stack::pop_frame.
pop_frame ==
    /\ phase = "running"
    /\ frames' = Rest(frames)
    /\ instance' = popped_instance
    /\ IF Rest(frames) = <<>>
       THEN Finish
       ELSE LET top == frames[Len(frames) - 1]
                changed == frames[Len(frames)].instance
            IN  /\ args' = [ip   |-> top.ip,
                            sp   |-> sp_or_dangling(len, top.start),
                            inst |-> IF changed = NoInst THEN args.inst ELSE changed,
                            mem0 |-> IF changed = NoInst THEN args.mem0
                                                         ELSE extract_mem0(pages, changed)]
                /\ UNCHANGED <<phase, host>>
    /\ UNCHANGED <<len, pages>>

-----------------------------------------------------------------------------
(* Calls of host functions *)

\* execute_root_func of a host function.
execute_root_host(h) ==
    /\ phase = "idle"
    /\ frames' = <<>> /\ instance' = NoInst
    /\ IF Fits(HostCells(h))
       THEN /\ len' = HostCells(h)
            /\ phase' = "host"
            /\ host' = [NoHost EXCEPT !.func = h, !.kind = "root"]
            /\ UNCHANGED args
       ELSE Finish /\ len' = 0
    /\ UNCHANGED pages

\* call_host up to the call of the trampoline: prepare_host_frame.
call_host(h, head) ==
    LET start == top_start(frames)
    IN  /\ phase = "running"
        /\ InFrame(head, HostParams[h])
        /\ frames' = sync_ip(frames, After(args.ip))
        /\ IF Fits(start + head + HostCells(h))
           THEN /\ len' = Grown(start + head + HostCells(h))
                /\ phase' = "host"
                /\ host' = [func |-> h, kind |-> "call", head |-> head, base |-> start + head,
                            ip |-> After(args.ip), sp |-> start, inst |-> args.inst]
                /\ UNCHANGED args
           ELSE Finish /\ UNCHANGED len
        /\ UNCHANGED <<instance, pages>>

\* Mutant: the stack pointer is the popped frame's.
return_host_sp_callee(h) == top_start(frames)

\* ValueStack::return_prepare_host_frame, the stack pointer for the caller's caller.
return_host_sp(h) ==
    LET caller_start == top_start(Rest(frames))
    IN  IF HostCells(h) = 0 /\ (Rest(frames) = <<>> \/ caller_start = top_start(frames))
        THEN DANGLING ELSE caller_start

\* return_call_host up to the call of the trampoline: the caller's frame is popped first.
return_call_host(h, head) ==
    LET start   == top_start(frames)
        rest    == Rest(frames)
        changed == frames[Len(frames)].instance
    IN  /\ phase = "running"
        /\ h \in TailHosts /\ InFrame(head, HostParams[h])
        /\ frames' = rest
        /\ instance' = popped_instance
        /\ IF HostCells(h) = 0 \/ Fits(start + HostCells(h))
           THEN /\ len' = IF HostCells(h) = 0 THEN len ELSE Grown(start + HostCells(h))
                /\ phase' = "host"
                /\ host' = [func |-> h, kind |-> IF rest = <<>> THEN "tail_root" ELSE "tail",
                            head |-> head, base |-> start,
                            ip   |-> IF rest = <<>> THEN NoIp ELSE rest[Len(rest)].ip,
                            sp   |-> return_host_sp(h),
                            inst |-> IF changed = NoInst THEN args.inst ELSE changed]
                /\ UNCHANGED args
           ELSE Finish /\ UNCHANGED len
        /\ UNCHANGED pages

\* The host function re-enters Wasm, or uses the API, and a memory grows.
host_grow(m) ==
    /\ phase = "host" /\ m \in Grows[host.func]
    /\ pages[m] < MaxPages
    /\ pages' = [pages EXCEPT ![m] = @ + 1]
    /\ UNCHANGED <<stackVars, args, phase, host>>

\* Mutant: the cached memory is kept.
call_host_ok_stale ==
    /\ phase = "host" /\ host.kind = "call"
    /\ args' = [args EXCEPT !.ip = host.ip, !.sp = host.sp, !.inst = host.inst]
    /\ phase' = "running" /\ host' = NoHost
    /\ UNCHANGED <<stackVars, pages>>

\* The host function returns to call_wasm_or_host.
call_host_ok ==
    /\ phase = "host" /\ host.kind = "call"
    /\ args' = [ip |-> host.ip, sp |-> host.sp, inst |-> host.inst,
                mem0 |-> extract_mem0(pages, host.inst)]
    /\ phase' = "running" /\ host' = NoHost
    /\ UNCHANGED <<stackVars, pages>>

\* The tail called host function returns to return_call_wasm_or_host.
return_call_host_ok ==
    /\ phase = "host" /\ host.kind = "tail"
    /\ args' = [ip |-> host.ip, sp |-> host.sp, inst |-> host.inst,
                mem0 |-> update_instance(host.inst)]
    /\ phase' = "running" /\ host' = NoHost
    /\ UNCHANGED <<stackVars, pages>>

\* The host function returns, or fails, and nobody is left to return to.
host_done ==
    /\ phase = "host" /\ host.kind \in {"root", "tail_root"}
    /\ Unstacked
    /\ UNCHANGED pages

\* Mutants: the results go to the start of the frame; a host function that was tail
\* called by the root function suspends too.
host_error_no_head ==
    /\ phase = "host" /\ host.kind \in {"call", "tail"} /\ host.func \in Fallible
    /\ phase' = "suspended"
    /\ args' = NoArgs
    /\ host' = [NoHost EXCEPT !.func = host.func, !.kind = host.kind, !.base = host.base]
    /\ UNCHANGED <<stackVars, pages>>
host_error_tail_root ==
    /\ phase = "host" /\ host.kind # "root" /\ host.func \in Fallible
    /\ phase' = "suspended"
    /\ args' = NoArgs
    /\ host' = [NoHost EXCEPT !.func = host.func, !.kind = host.kind,
                              !.head = host.head, !.base = host.base]
    /\ UNCHANGED <<stackVars, pages>>

\* The host function fails and suspends the execution: DoneReason::host_error.
host_error ==
    /\ phase = "host" /\ host.kind \in {"call", "tail"} /\ host.func \in Fallible
    /\ phase' = "suspended"
    /\ args' = NoArgs
    /\ host' = [NoHost EXCEPT !.func = host.func, !.kind = host.kind,
                              !.head = host.head, !.base = host.base]
    /\ UNCHANGED <<stackVars, pages>>

-----------------------------------------------------------------------------
(* Other operators *)

\* Any operator that stays in the function, taken or not taken branches included.
step ==
    /\ phase = "running"
    /\ \E p \in 0 .. MaxPos : args' = [args EXCEPT !.ip.pos = p]
    /\ UNCHANGED <<stackVars, phase, host, pages>>

\* Any operator that traps; a trap is never resumed.
trap ==
    /\ phase = "running"
    /\ Unstacked
    /\ UNCHANGED pages

\* A suspended call that ran out of fuel.
OutOfFuel ==
    /\ Metered
    /\ phase' = "suspended"
    /\ args' = NoArgs
    /\ host' = [NoHost EXCEPT !.kind = "fuel"]

\* Mutant: the ip is not synchronized.
out_of_fuel_unsynced ==
    /\ phase = "running"
    /\ OutOfFuel
    /\ UNCHANGED <<stackVars, pages>>

\* consume_fuel!, and memory.grow without the fuel for it: out_of_fuel! syncs the ip.
out_of_fuel ==
    /\ phase = "running"
    /\ OutOfFuel
    /\ frames' = sync_ip(frames, args.ip)
    /\ UNCHANGED <<instance, len, pages>>

\* table.grow without the fuel for it.
table_grow ==
    /\ phase = "running" /\ TableGrow
    /\ OutOfFuel
    /\ UNCHANGED <<stackVars, pages>>

\* memory.grow; `default` is index::Memory::is_default.
memory_grow(m, default) ==
    /\ phase = "running"
    /\ IF default THEN m = Mem0[args.inst] ELSE m \in OtherMems[args.inst]
    /\ pages[m] < MaxPages
    /\ pages' = [pages EXCEPT ![m] = @ + 1]
    /\ args' = [args EXCEPT !.ip = After(args.ip),
                            !.mem0 = IF default THEN extract_mem0(pages', args.inst) ELSE @]
    /\ UNCHANGED <<stackVars, phase, host>>

-----------------------------------------------------------------------------
(* The embedder *)

\* Memory::grow between two executions, or before a suspended one is resumed.
embedder_grow(m) ==
    /\ phase \in {"idle", "suspended"}
    /\ pages[m] < MaxPages
    /\ pages' = [pages EXCEPT ![m] = @ + 1]
    /\ UNCHANGED <<stackVars, args, phase, host>>

\* resume_func_host_trap and resume_func_out_of_fuel: restore_frame, then execute.
resume ==
    LET top == frames[Len(frames)]
    IN  /\ phase = "suspended"
        /\ args' = [ip |-> top.ip, sp |-> sp_or_dangling(len, top.start), inst |-> instance,
                    mem0 |-> extract_mem0(pages, instance)]
        /\ phase' = "running" /\ host' = NoHost
        /\ UNCHANGED <<stackVars, pages>>

\* A suspended call is dropped.
drop ==
    /\ phase = "suspended"
    /\ Unstacked
    /\ UNCHANGED pages

-----------------------------------------------------------------------------
Init ==
    /\ frames = <<>> /\ instance = NoInst /\ len = 0
    /\ args = NoArgs /\ phase = "idle" /\ host = NoHost
    /\ pages = [m \in Memories |-> 0]

Slots == 0 .. MaxHeight

Next ==
    \/ \E f \in Funcs : \/ execute_root_func(f)
                        \/ return_call_internal(f)
                        \/ return_call_imported(f)
    \/ \E f \in Funcs, head \in Slots : call_internal(f, head) \/ call_imported(f, head)
    \/ \E h \in Hosts : execute_root_host(h)
    \/ \E h \in Hosts, head \in Slots : call_host(h, head) \/ return_call_host(h, head)
    \/ \E m \in Memories : \/ host_grow(m)
                           \/ embedder_grow(m)
                           \/ \E default \in BOOLEAN : memory_grow(m, default)
    \/ pop_frame \/ step \/ trap \/ out_of_fuel \/ table_grow
    \/ call_host_ok \/ return_call_host_ok \/ host_done \/ host_error
    \/ resume \/ drop

Spec == Init /\ [][Next]_vars

-----------------------------------------------------------------------------
(* Properties *)

Places == [func : Funcs, pos : 0 .. MaxPos]
Ips == [func : Funcs \cup {NoFunc}, pos : 0 .. MaxPos]
Addrs == Nat \cup {DANGLING}
Frames == [ip : Places, start : Nat, instance : Instances \cup {NoInst}]
Mem0s == [mem : Memories \cup {NoMem}, pages : 0 .. MaxPages]
Registers == [ip : Ips, sp : Addrs, inst : Instances \cup {NoInst}, mem0 : Mem0s]
HostCalls == [func : Hosts \cup {NoFunc},
              kind : {"none", "root", "call", "tail", "tail_root", "fuel"},
              head : Nat, base : Nat, ip : Ips, sp : Addrs, inst : Instances \cup {NoInst}]

\* Every variable has its type; the value stack stays within its limit.
TypeOK ==
    /\ frames \in Seq(Frames)
    /\ instance \in Instances \cup {NoInst}
    /\ len \in 0 .. MaxHeight
    /\ args \in Registers
    /\ phase \in {"idle", "running", "host", "suspended"}
    /\ host \in HostCalls
    /\ pages \in [Memories -> 0 .. MaxPages]

\* Although a frame only remembers an instance where the instance changes, a function
\* always runs in the instance that defines it: after every call, tail call, return,
\* tail called host function and resumption.
OwnInstance ==
    phase = "running" => args.inst = InstanceOf[args.ip.func] /\ instance = args.inst

\* restore_frame finds a frame and an instance in every suspended call, and the instance
\* is the one of the function that will go on.
Restorable ==
    phase = "suspended" => /\ frames # <<>>
                           /\ instance = InstanceOf[frames[Len(frames)].ip.func]

\* The frames lie on the value stack: each one starts inside its caller's frame, and
\* the cells of every frame with cells are available.
FramesFit ==
    phase \in {"running", "suspended"} =>
        \A k \in 1 .. Len(frames) :
            /\ frames[k].start + Size[frames[k].ip.func] <= len
            /\ k > 1 => frames[k].start >= frames[k - 1].start

\* The cached pointer to the default memory is the memory's current data.
Mem0Fresh ==
    phase = "running" => args.mem0 = extract_mem0(pages, args.inst)

\* A function with cells finds them where its frame starts.
SpOfTop ==
    phase = "running" /\ Size[args.ip.func] # 0 => args.sp = top_start(frames)

\* A resumed execution puts the results for the failed host function where the
\* function itself would have put them.
ResumeSlots ==
    phase = "suspended" /\ host.kind # "fuel" => top_start(frames) + host.head = host.base

\* A call is suspended at the operator that failed for fuel, or behind the failed call.
SuspendsInPlace ==
    [][phase # "suspended" /\ phase' = "suspended" =>
          frames'[Len(frames')].ip = IF phase = "host" THEN host.ip ELSE args.ip]_vars
-----------------------------------------------------------------------------
(* Refinement *)

\* The frames as activations.
Project(fs) == [k \in 1 .. Len(fs) |-> [ip |-> fs[k].ip, base |-> fs[k].start]]

\* The ip of a running function is in the registers.
ActsOf == CASE phase = "idle"    -> <<>>
            [] phase = "running" -> Project(sync_ip(frames, args.ip))
            [] OTHER             -> Project(frames)

InstOf == CASE phase = "idle" \/ frames = <<>> -> NoInst
            [] phase = "running"               -> args.inst
            [] OTHER                           -> instance

A == INSTANCE Activations WITH acts <- ActsOf, inst <- InstOf

\* The lazily synchronized stack and the registers together behave like a stack of
\* activations that each know their instance, place and base.
ImplementsActivations == A!Spec
-----------------------------------------------------------------------------
(* The inductive invariant *)

\* A call stack fs in use, in instance i with n cells: the frames fit, and a frame
\* remembers its caller's instance unless it is its own.
WellFormed(fs, i, n) ==
    /\ fs \in Seq(Frames)
    /\ \A k \in 1 .. Len(fs) : fs[k].start + Size[fs[k].ip.func] <= n
    /\ \A k \in 2 .. Len(fs) :
          /\ fs[k].start >= fs[k - 1].start
          /\ InstanceOf[fs[k - 1].ip.func] =
                IF fs[k].instance = NoInst THEN InstanceOf[fs[k].ip.func] ELSE fs[k].instance
    /\ fs # <<>> => i = InstanceOf[fs[Len(fs)].ip.func]

\* The registers belong to the top frame.
RegistersInv ==
    phase = "running" => /\ frames # <<>>
                         /\ args.ip.func = frames[Len(frames)].ip.func
                         /\ args.inst = instance

\* A host function returns to the top frame, if there is one.
HostInv ==
    phase = "host" =>
        /\ host.func \in Hosts
        /\ host.kind \in {"root", "call", "tail", "tail_root"}
        /\ host.kind \in {"call", "tail"} => /\ frames # <<>>
                                            /\ host.ip = frames[Len(frames)].ip
                                            /\ host.inst = instance
        /\ host.kind \in {"root", "tail_root"} => frames = <<>>
        /\ host.kind = "tail" => args.inst \in Instances /\ host.func \in TailHosts

\* The inductive invariant behind OwnInstance, Restorable and FramesFit.
IInv ==
    /\ TypeOK
    /\ phase # "idle" => WellFormed(frames, instance, len)
    /\ RegistersInv
    /\ HostInv
    /\ phase = "suspended" => frames # <<>>

\* Its strengthening for Mem0Fresh: nor is the pointer stale that a tail called host
\* function will leave in the registers.
MemInv ==
    /\ Mem0Fresh
    /\ phase = "host" /\ host.kind = "tail" => args.mem0 = extract_mem0(pages, args.inst)

\* Its strengthening for SpOfTop: nor is the stack pointer wrong that a host function
\* returns with.
SpInv ==
    /\ SpOfTop
    /\ phase = "host" /\ host.kind \in {"call", "tail"} /\ Size[host.ip.func] # 0 =>
          host.sp = top_start(frames)

\* Its strengthening for ResumeSlots.
SlotInv ==
    /\ phase \in {"host", "suspended"} /\ host.kind = "call" =>
          top_start(frames) + host.head = host.base
    /\ phase = "suspended" => \/ host.kind \in {"call", "fuel"}
                              \/ host.kind = "tail" /\ host.func \in TailHosts \cap Fallible
=============================================================================
